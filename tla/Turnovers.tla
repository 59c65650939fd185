----------------------------- MODULE Turnovers ------------------------------
(***************************************************************************)
(* How the turnovers (cleaning jobs) of one property are generated from    *)
(* its bookings (lib/turnovers/generator.ts), under the handlers that run  *)
(* the generator (booking-events.ts, the PMS syncs), the cancellations and *)
(* the people who work.                                                    *)
(*                                                                         *)
(* Stays are numbered in the order of their dates.  A turnover row is      *)
(* named by its booking columns: <<None, b>> is a standalone (booking_id b,*)
(* no prev_booking_id: the clean after stay b), <<a, b>> a pair (the clean *)
(* between a and b).  The two partial unique indexes make these the keys.  *)
(* A pair whose dates drift has them refreshed in place; no dates are kept *)
(* here, so that is a step without effect.                                 *)
(***************************************************************************)
EXTENDS Naturals, FiniteSets

CONSTANTS N,          \* number of stays
          Handler,    \* the booking/detected handler: one run at a time
          PmsSyncs,   \* runs of PMS syncs, which take no lock
          MaxTaken,   \* bound: rows a crew is assigned to at a time
          MaxUpsets   \* bound: cancellations and failures of a generator

ASSUME TurnoversAssumption ==
  /\ N \in Nat \ {0} /\ {MaxTaken, MaxUpsets} \subseteq Nat
  /\ Handler \notin PmsSyncs

Stays == 1..N
None  == 0
Gens  == PmsSyncs \cup {Handler}

Standalone(b) == <<None, b>>
Pairs == {k \in Stays \X Stays : k[1] < k[2]}
Keys  == {Standalone(b) : b \in Stays} \cup Pairs

\* The stay after whose checkout the turnover takes place.
Outgoing(k) == IF k[1] = None THEN k[2] ELSE k[1]

VARIABLES booked,  \* status of the booking of each stay
          queue,   \* booking/detected events not handled
          job,     \* the stay of the event the handler is at
          cancels, \* stays whose turnovers a sync has still to cancel
          status,  \* status of each turnover row; "none": no row
          pc,
          list,    \* the bookings a generator read
          ctx,     \* the rows it read or wrote: its GeneratorContext
          stay,    \* the stay it is at in the current pass
          made,    \* the rows it created in this attempt
          upsets,
          fired,   \* history: rows turnover/created was sent for
          dropped, \* history: stays whose insert failed or event was given up
          lost     \* history: rows created by an attempt that failed

db      == <<booked, queue, job, cancels, status>>
local   == <<pc, list, ctx, stay, made>>
bounds  == <<upsets>>
history == <<fired, dropped, lost>>
vars    == <<db, local, bounds, history>>

Rows == {k \in Keys : status[k] # "none"}
Open == {"pending", "assigned"}
Serving(b) == {k \in Rows : Outgoing(k) = b}

Goto(g, l) == pc' = [pc EXCEPT ![g] = l]
Put(k, v)  == status' = [status EXCEPT ![k] = v]

\* The handler waits for the next event; a run of a PMS sync is over.
Ended(g) == IF g = Handler THEN "idle" ELSE "over"
EndJob(g) == job' = IF g = Handler THEN None ELSE job

-----------------------------------------------------------------------------
\* generateTurnoversForProperty

Confirmed == {b \in Stays : booked[b] = "confirmed"}

Start(g) ==
  /\ pc[g] = "idle" /\ queue # {}
  /\ \E b \in queue : queue' = queue \ {b} /\ job' = b
  /\ Goto(g, "read")
  /\ UNCHANGED <<booked, cancels, status, list, ctx, stay, made, bounds,
                 history>>

ReadBookings(g) ==
  /\ pc[g] = "read"
  /\ list' = [list EXCEPT ![g] = Confirmed]
  /\ IF Confirmed = {} THEN Goto(g, Ended(g)) /\ EndJob(g)
                      ELSE Goto(g, "context") /\ UNCHANGED job
  /\ UNCHANGED <<booked, queue, cancels, status, ctx, stay, made, bounds, history>>

LoadContext(g) ==
  /\ pc[g] = "context"
  /\ ctx' = [ctx EXCEPT ![g] = Rows]
  /\ stay' = [stay EXCEPT ![g] = 1]
  /\ Goto(g, "standalones")
  /\ UNCHANGED <<db, list, made, bounds, history>>

\* existingStandalones and alreadyPaired: the latter holds the stay that comes
\* in after a pair's clean, not the one that went out before it.
HasStandalone(g, b) == Standalone(b) \in ctx[g]
AlreadyPaired(g, b) == \E k \in ctx[g] : k[1] # None /\ k[2] = b

\* Faulty form: the last stay is left to the pair pass.
NeedsStandaloneBut(g, b) ==
  b \in list[g] /\ b # N /\ ~HasStandalone(g, b) /\ ~AlreadyPaired(g, b)

NeedsStandalone(g, b) ==
  b \in list[g] /\ ~HasStandalone(g, b) /\ ~AlreadyPaired(g, b)

\* The pass is at b: no stay it has still to look at before b needs a row.
AtStandalone(g, b) ==
  /\ pc[g] = "standalones" /\ b >= stay[g] /\ NeedsStandalone(g, b)
  /\ \A c \in stay[g]..(b - 1) : ~NeedsStandalone(g, c)

Advance(g, b) == stay' = [stay EXCEPT ![g] = b + 1]

\* A row in hand counts as created.  Its checklist is copied next
\* (snapshotChecklist): if that fails the attempt does (Throw).
Hold(g, k) ==
  /\ ctx' = [ctx EXCEPT ![g] = @ \cup {k}]
  /\ made' = [made EXCEPT ![g] = @ \cup {k}]

InsertStandalone(g) ==
  \E b \in Stays :
    LET k == Standalone(b)
    IN /\ AtStandalone(g, b) /\ status[k] = "none"
       /\ Put(k, "pending")
       /\ Hold(g, k) /\ Advance(g, b)
       /\ UNCHANGED <<booked, queue, job, cancels, pc, list, bounds, history>>

\* 23505: another generator's row is there.
ConflictStandalone(g) ==
  \E b \in Stays :
    /\ AtStandalone(g, b) /\ status[Standalone(b)] # "none"
    /\ stay' = [stay EXCEPT ![g] = b]
    /\ Goto(g, "reread")
    /\ UNCHANGED <<db, list, ctx, made, bounds, history>>

\* The winner's row is read back, unless it has become a pair or gone by then.
Reread(g) ==
  LET k == Standalone(stay[g])
  IN /\ pc[g] = "reread"
     /\ IF status[k] # "none" THEN Hold(g, k) ELSE UNCHANGED <<ctx, made>>
     /\ Advance(g, stay[g]) /\ Goto(g, "standalones")
     /\ UNCHANGED <<db, list, bounds, history>>

\* The read fails: the generator goes on as if there were no row.
RereadFails(g) ==
  /\ pc[g] = "reread"
  /\ upsets < MaxUpsets /\ upsets' = upsets + 1
  /\ Advance(g, stay[g]) /\ Goto(g, "standalones")
  /\ UNCHANGED <<db, list, ctx, made, history>>

\* Any other error of the insert is logged, and the stay is passed over.
DropStandalone(g) ==
  \E b \in Stays :
    /\ AtStandalone(g, b)
    /\ upsets < MaxUpsets /\ upsets' = upsets + 1
    /\ dropped' = dropped \cup {b}
    /\ Advance(g, b)
    /\ UNCHANGED <<db, pc, list, ctx, made, fired, lost>>

EndStandalones(g) ==
  /\ pc[g] = "standalones" /\ ~\E b \in Stays : AtStandalone(g, b)
  /\ stay' = [stay EXCEPT ![g] = 1]
  /\ Goto(g, "pairs")
  /\ UNCHANGED <<db, list, ctx, made, bounds, history>>

\* The stay that follows b in what the generator read.
Following(g, b) ==
  {c \in list[g] : c > b /\ \A d \in list[g] : d > b => c <= d}
PairOf(g, b) == <<b, CHOOSE c \in Following(g, b) : TRUE>>

\* A pair the context knows has its dates refreshed (refreshExistingPairDates).
NeedsPair(g, b) ==
  b \in list[g] /\ Following(g, b) # {} /\ PairOf(g, b) \notin ctx[g]

AtPair(g, b) ==
  /\ pc[g] = "pairs" /\ b >= stay[g] /\ NeedsPair(g, b)
  /\ \A c \in stay[g]..(b - 1) : ~NeedsPair(g, c)

\* A row that changes its key takes its history along.
Rekey(S, old, key) == IF old \in S THEN (S \ {old}) \cup {key} ELSE S

Known(g, k) == ctx' = [ctx EXCEPT ![g] = @ \cup {k}]

MayUpgrade(g, b) == AtPair(g, b) /\ HasStandalone(g, b)

\* upgradeStandaloneToPair: the row, if it is still there, whatever its status.
Upgrade(g) ==
  \E b \in Stays :
    LET old == Standalone(b)
        key == PairOf(g, b)
    IN /\ MayUpgrade(g, b)
       /\ status[old] # "none" /\ status[key] = "none"
       /\ status' = [status EXCEPT ![old] = "none", ![key] = status[old]]
       /\ fired' = Rekey(fired, old, key)
       /\ lost' = Rekey(lost, old, key)
       /\ made' = [h \in Gens |-> Rekey(made[h], old, key)]
       /\ Known(g, key) /\ Advance(g, b)
       /\ UNCHANGED <<booked, queue, job, cancels, pc, list, bounds, dropped>>

\* Another generator has upgraded or removed the row: the update finds none.
MissUpgrade(g) ==
  \E b \in Stays :
    /\ MayUpgrade(g, b) /\ status[Standalone(b)] = "none"
    /\ Known(g, PairOf(g, b)) /\ Advance(g, b)
    /\ UNCHANGED <<db, pc, list, made, bounds, history>>

RemoveStandalone(g, kept) ==
  \E b \in Stays :
    LET old  == Standalone(b)
        gone == IF status[old] \in kept THEN {} ELSE {old}
    IN /\ MayUpgrade(g, b)
       /\ status[old] # "none" /\ status[PairOf(g, b)] # "none"
       /\ status' = [k \in Keys |-> IF k \in gone THEN "none" ELSE status[k]]
       /\ made' = [h \in Gens |-> made[h] \ gone]
       /\ fired' = fired \ gone /\ lost' = lost \ gone
       /\ Known(g, PairOf(g, b)) /\ Advance(g, b)
       /\ UNCHANGED <<booked, queue, job, cancels, pc, list, bounds, dropped>>

\* Faulty form: the redundant standalone is deleted in any status.
DropRedundantAny(g) == RemoveStandalone(g, {})

\* 23505: the pair is there; the standalone goes if nobody has taken it.
DropRedundant(g) == RemoveStandalone(g, {"assigned", "worked", "cancelled"})

\* The update, or the deletion after a 23505, fails: it is reported, and the
\* pair is taken for made.
FailUpgrade(g) ==
  \E b \in Stays :
    /\ MayUpgrade(g, b)
    /\ upsets < MaxUpsets /\ upsets' = upsets + 1
    /\ Known(g, PairOf(g, b)) /\ Advance(g, b)
    /\ UNCHANGED <<db, pc, list, made, history>>

InsertPair(g) ==
  \E b \in Stays :
    LET k == PairOf(g, b)
    IN /\ AtPair(g, b) /\ ~HasStandalone(g, b) /\ status[k] = "none"
       /\ Put(k, "pending")
       /\ made' = [made EXCEPT ![g] = @ \cup {k}]
       /\ Advance(g, b)
       /\ UNCHANGED <<booked, queue, job, cancels, pc, list, ctx, bounds, history>>

\* The insert conflicts with another generator's.
MissPair(g) ==
  \E b \in Stays :
    /\ AtPair(g, b) /\ ~HasStandalone(g, b) /\ status[PairOf(g, b)] # "none"
    /\ Advance(g, b)
    /\ UNCHANGED <<db, pc, list, ctx, made, bounds, history>>

\* It fails otherwise: logged, and the pair is passed over.
DropPair(g) ==
  \E b \in Stays :
    /\ AtPair(g, b) /\ ~HasStandalone(g, b)
    /\ upsets < MaxUpsets /\ upsets' = upsets + 1
    /\ Advance(g, b)
    /\ UNCHANGED <<db, pc, list, ctx, made, history>>

Finish(g, rows) ==
  /\ pc[g] = "pairs" /\ ~\E b \in Stays : AtPair(g, b)
  /\ fired' = fired \cup (rows \cap Rows)
  /\ list' = [list EXCEPT ![g] = {}] /\ ctx' = [ctx EXCEPT ![g] = {}]
  /\ stay' = [stay EXCEPT ![g] = 1] /\ made' = [made EXCEPT ![g] = {}]
  /\ Goto(g, Ended(g)) /\ EndJob(g)
  /\ UNCHANGED <<booked, queue, cancels, status, bounds, dropped, lost>>

\* Faulty form: what the pair pass created is not returned.
FireStandalones(g) == Finish(g, {k \in made[g] : k[1] = None})

\* turnover/created for every row the attempt created.
Fire(g) == Finish(g, made[g])

Retry(g) == Goto(g, "read") /\ UNCHANGED <<job, dropped>>
GiveUp(g) ==
  /\ Goto(g, Ended(g)) /\ EndJob(g)
  /\ dropped' = dropped \cup (IF g = Handler THEN {job} ELSE {})

\* An attempt throws or is killed.  The handler runs the step again, or has
\* spent its retries (how many is left open) and the event is lost; a PMS sync
\* logs the error and goes on without.  What it made is forgotten.
Throw(g) ==
  /\ pc[g] \notin {"idle", "read", "over"}
  /\ upsets < MaxUpsets /\ upsets' = upsets + 1
  /\ lost' = lost \cup made[g]
  /\ list' = [list EXCEPT ![g] = {}] /\ ctx' = [ctx EXCEPT ![g] = {}]
  /\ stay' = [stay EXCEPT ![g] = 1] /\ made' = [made EXCEPT ![g] = {}]
  /\ (g = Handler /\ Retry(g)) \/ GiveUp(g)
  /\ UNCHANGED <<booked, queue, cancels, status, fired>>

-----------------------------------------------------------------------------
\* Around the generator

Arrive(b) ==
  /\ booked[b] = "none"
  /\ booked' = [booked EXCEPT ![b] = "confirmed"]
  /\ queue' = queue \cup {b}
  /\ UNCHANGED <<job, cancels, status, local, bounds, history>>

\* A sync finds the stay cancelled; a later step cancels its turnovers.
CancelStay(b) ==
  /\ upsets < MaxUpsets /\ upsets' = upsets + 1
  /\ booked[b] = "confirmed"
  /\ booked' = [booked EXCEPT ![b] = "cancelled"]
  /\ cancels' = cancels \cup {b}
  /\ UNCHANGED <<queue, job, status, local, history>>

\* cancelTurnoversForBooking: every open row that names the stay.
CancelTurnovers(b) ==
  /\ b \in cancels
  /\ cancels' = cancels \ {b}
  /\ status' = [k \in Keys |-> IF b \in {k[1], k[2]} /\ status[k] \in Open
                               THEN "cancelled" ELSE status[k]]
  /\ UNCHANGED <<booked, queue, job, local, bounds, history>>

Taken == {k \in Keys : status[k] \in {"assigned", "worked"}}

Assign(k) ==
  /\ status[k] = "pending" /\ Cardinality(Taken) < MaxTaken
  /\ Put(k, "assigned")
  /\ UNCHANGED <<booked, queue, job, cancels, local, bounds, history>>

\* A crew starts, and in the end completes, the turnover.
Work(k) ==
  /\ status[k] = "assigned"
  /\ Put(k, "worked")
  /\ UNCHANGED <<booked, queue, job, cancels, local, bounds, history>>

-----------------------------------------------------------------------------
Init ==
  /\ booked = [b \in Stays |-> "none"] /\ queue = {} /\ job = None /\ cancels = {}
  /\ status = [k \in Keys |-> "none"]
  /\ pc = [g \in Gens |-> IF g = Handler THEN "idle" ELSE "read"]
  /\ list = [g \in Gens |-> {}] /\ ctx = [g \in Gens |-> {}]
  /\ stay = [g \in Gens |-> 1] /\ made = [g \in Gens |-> {}]
  /\ upsets = 0
  /\ fired = {} /\ dropped = {} /\ lost = {}

Generate(g) ==
  \/ ReadBookings(g) \/ LoadContext(g)
  \/ InsertStandalone(g) \/ ConflictStandalone(g) \/ Reread(g) \/ EndStandalones(g)
  \/ Upgrade(g) \/ MissUpgrade(g) \/ DropRedundant(g)
  \/ InsertPair(g) \/ MissPair(g)
  \/ Fire(g)

Next ==
  \/ Start(Handler)
  \/ \E g \in Gens : \/ Generate(g) \/ Throw(g)
                     \/ DropStandalone(g) \/ RereadFails(g) \/ FailUpgrade(g)
                     \/ DropPair(g)
  \/ \E b \in Stays : \/ Arrive(b) \/ CancelStay(b) \/ CancelTurnovers(b)
  \/ \E k \in Keys : Assign(k) \/ Work(k)

\* Inngest runs the handler for every event and a run that started goes on; no
\* PMS sync has to run and nobody has to book, assign or work.
Fairness ==
  /\ WF_vars(Start(Handler))
  /\ WF_vars(Generate(Handler))
  /\ \A g \in PmsSyncs : WF_vars(pc[g] # "read" /\ Generate(g))

Spec == Init /\ [][Next]_vars /\ Fairness

-----------------------------------------------------------------------------
TypeOK ==
  /\ booked \in [Stays -> {"none", "confirmed", "cancelled"}]
  /\ queue \subseteq Stays /\ job \in Stays \cup {None} /\ cancels \subseteq Stays
  /\ status \in [Keys -> {"none", "pending", "assigned", "worked", "cancelled"}]
  /\ pc \in [Gens -> {"idle", "read", "context", "standalones", "reread", "pairs",
                      "over"}]
  /\ list \in [Gens -> SUBSET Stays] /\ ctx \in [Gens -> SUBSET Keys]
  /\ stay \in [Gens -> 1..(N + 1)] /\ made \in [Gens -> SUBSET Keys]
  /\ upsets \in 0..MaxUpsets
  /\ fired \subseteq Keys /\ dropped \subseteq Stays /\ lost \subseteq Keys
  /\ job = None <=> pc[Handler] = "idle"
  /\ \A g \in Gens : pc[g] = "reread" => stay[g] \in Stays

\* Work that has begun is never undone: whatever generators and syncs do at
\* the same time, a stay's worked turnover stays one.
WorkIsKept ==
  [][\A k \in Keys : status[k] = "worked" =>
       \E m \in Keys : Outgoing(m) = Outgoing(k) /\ status'[m] = "worked"]_vars

\* No booked stay is left without a turnover, if only one that is cancelled with
\* a neighbour, for good: only an insert the database refuses is passed over
\* without a retry, and only an event that has spent its own is lost.
EveryStayIsServed ==
  \A b \in Stays :
    []<>(booked[b] = "confirmed" => Serving(b) # {} \/ b \in dropped)

\* No generated turnover is left unannounced (turnover/created) for good, unless
\* the attempt that created it failed.
RowsAreAnnounced == \A k \in Keys : []<>(k \in Rows => k \in fired \cup lost)

\* One physical checkout, one clean (generator.ts:409-410 calls two of them
\* "two cleaning-fee rows on the owner's P&L").  Not true of the code.
OneTurnoverPerCheckout ==
  \A b \in Stays : Cardinality({k \in Serving(b) : status[k] # "cancelled"}) <= 1
=============================================================================
