--------------------------- MODULE OrderedWrites ---------------------------
(***************************************************************************)
(* What the crew outbox promises about the writes of each record, seen     *)
(* from outside: every write issued on the device waits until the server   *)
(* has applied it or the crew member gives it up, and the server applies   *)
(* the writes of a record in the order they were made.                     *)
(*                                                                         *)
(* The order can be lost: Break names the moment.  A record that is still  *)
(* intact has never seen an older write applied over a newer one.          *)
(***************************************************************************)
EXTENDS Naturals

CONSTANTS Records, MaxId, NoRecord

VARIABLES
  owner,      \* the record each issued write targets
  waiting,    \* issued writes the device still holds
  latest,     \* the write each record holds on the server, 0 for none
  landed,     \* writes the server has applied at least once
  abandoned,  \* writes given up: discarded, or signed out with work pending
  intact      \* records whose order has not been lost

vars == <<owner, waiting, latest, landed, abandoned, intact>>

Ids == 1..MaxId

Init ==
  /\ owner = [i \in Ids |-> NoRecord]
  /\ waiting = {} /\ landed = {} /\ abandoned = {}
  /\ latest = [r \in Records |-> 0]
  /\ intact = Records

Issue(i, r) ==
  /\ owner[i] = NoRecord
  /\ \A j \in Ids : owner[j] # NoRecord => j < i
  /\ owner' = [owner EXCEPT ![i] = r]
  /\ waiting' = waiting \cup {i}
  /\ UNCHANGED <<latest, landed, abandoned, intact>>

\* The server applies write i, perhaps not for the first time.  In an intact
\* record nothing made after i has landed and nothing made before it waits.
Land(i) ==
  /\ owner[i] \in Records
  /\ latest' = [latest EXCEPT ![owner[i]] = i]
  /\ landed' = landed \cup {i}
  /\ intact' \in {intact, intact \ {owner[i]}}
  /\ owner[i] \in intact' =>
       /\ latest[owner[i]] <= i
       /\ \A j \in waiting : owner[j] = owner[i] => i <= j
  /\ UNCHANGED <<owner, waiting, abandoned>>

\* The device forgets a write only after the server has applied it.
Retire(i) ==
  /\ i \in waiting /\ i \in landed
  /\ waiting' = waiting \ {i}
  /\ UNCHANGED <<owner, latest, landed, abandoned, intact>>

\* Giving up a write the device is about to send may cost its record's order.
Abandon(S) ==
  /\ waiting' = waiting \ S
  /\ abandoned' = abandoned \cup S
  /\ intact' \in {intact, intact \ {owner[i] : i \in S}}
  /\ UNCHANGED <<owner, latest, landed>>

Break(R) ==
  /\ intact' = intact \ R
  /\ UNCHANGED <<owner, waiting, latest, landed, abandoned>>

Next ==
  \/ \E i \in Ids : \E r \in Records : Issue(i, r)
  \/ \E i \in Ids : Land(i) \/ Retire(i)
  \/ \E S \in SUBSET waiting : Abandon(S)
  \/ \E R \in SUBSET intact : Break(R)

Spec == Init /\ [][Next]_vars
=============================================================================
