------------------------------ MODULE DeltaSync ------------------------------
(***************************************************************************)
(* The crew PWA's delta pull of one cached table (the turnovers table):    *)
(* lib/dexie/sync/turnovers.ts, the cursor of sync/cursors.ts, the         *)
(* shadowing of sync/shadow.ts, and what moves under it: local writes,     *)
(* their uploads, discarded writes and other people's edits.               *)
(*                                                                         *)
(* A row holds one field, whose value is the number of the write that put  *)
(* it there.  Every row is assigned to the crew member and known to the    *)
(* device throughout.                                                      *)
(***************************************************************************)
EXTENDS Integers, FiniteSetsExt

CONSTANTS
  Rows,       \* rows of the table
  Pulls,      \* pull contexts of the device: coalesced resync, signal, tabs
  Overlap,    \* CURSOR_OVERLAP_MS, in ticks of the server's clock
  MaxWrites,  \* bound: writes ever made, on the device or elsewhere
  MaxClock,   \* bound: ticks
  MaxFaults,  \* bound: failed uploads and pulls, reloads
  MaxDrops,   \* bound: discards
  NoCursor, NoPush

ASSUME DeltaAssumption ==
  /\ Overlap \in Nat \ {0}
  /\ MaxWrites \in Nat /\ MaxClock \in Nat /\ MaxFaults \in Nat /\ MaxDrops \in Nat
  /\ NoCursor \notin Int
  /\ NoPush \notin [row : Rows, write : 1..MaxWrites, stamp : 0..MaxClock]

VARIABLES
  \* the server
  val, stamp,  \* the row's value and its updated_at
  open,        \* transactions that have their NOW() and are not committed
  clock,
  \* IndexedDB, shared by the tabs
  cache, cursor,
  queue,       \* the outbox: [row, write]
  failed,      \* its dead-lettered rows and those held back behind them
  \* the device's memory
  push,        \* the upload in flight, NoPush for none
  pc, from, got, base, full,  \* each pull: its locals
  rewinding,   \* a discard has deleted its row but not yet the cursor
  \* history and bounds
  overtaken,   \* pulls under which another has put rows or moved the cursor
  pinned,      \* rows whose cached value such a pull, or a reload, has pinned
  nextWrite, faults, drops

server  == <<val, stamp, open, clock>>
outbox  == <<queue, failed, push>>
pulls   == <<pc, from, got, base, full>>
history == <<overtaken, pinned>>
bounds  == <<faults, drops>>
vars    == <<server, cache, cursor, outbox, pulls, rewinding, history, nextWrite, bounds>>

Writes    == 1..MaxWrites
Mutations == [row : Rows, write : Writes]
Requests  == [row : Rows, write : Writes, stamp : 0..MaxClock]
Fetches   == [row : Rows, write : Writes \cup {0}, stamp : 0..MaxClock]

Queued(r) == {m \in queue : m.row = r}

\* The delta filter: .gt('updated_at', cursor), or no filter at all.
Newer(r, c) == c = NoCursor \/ stamp[r] > c

\* The next pull brings the server's value of the row.
Repairable(r) ==
  Queued(r) = {} => cache[r] = val[r] \/ Newer(r, cursor) \/ rewinding

-----------------------------------------------------------------------------
Init ==
  /\ val = [r \in Rows |-> 0] /\ stamp = [r \in Rows |-> 0]
  /\ open = {} /\ clock = 0
  /\ cache = [r \in Rows |-> 0] /\ cursor = NoCursor
  /\ queue = {} /\ failed = {} /\ push = NoPush
  /\ pc = [p \in Pulls |-> "idle"]
  /\ from = [p \in Pulls |-> NoCursor] /\ base = [p \in Pulls |-> NoCursor]
  /\ got = [p \in Pulls |-> {}] /\ full = [p \in Pulls |-> TRUE]
  /\ rewinding = FALSE
  /\ overtaken = [p \in Pulls |-> FALSE] /\ pinned = {}
  /\ nextWrite = 1 /\ faults = 0 /\ drops = 0

-----------------------------------------------------------------------------
(***************************************************************************)
(* The server: updated_at is NOW(), the start of the transaction, and      *)
(* transactions commit in any order.  No transaction stays open as long as *)
(* the overlap: what the cursors' rule on out-of-order commits rests on.   *)
(***************************************************************************)
Commit(t) ==
  /\ t \in open
  /\ val' = [val EXCEPT ![t.row] = t.write]
  /\ stamp' = [stamp EXCEPT ![t.row] = t.stamp]
  /\ open' = open \ {t}
  /\ UNCHANGED <<clock, cache, cursor, outbox, pulls, rewinding, history, nextWrite, bounds>>

Tick ==
  /\ clock < MaxClock
  /\ \A t \in open : clock + 1 < t.stamp + Overlap
  /\ clock' = clock + 1
  /\ UNCHANGED <<val, stamp, open, cache, cursor, outbox, pulls, rewinding, history, nextWrite, bounds>>

\* A manager, a co-worker, or another of the crew member's devices.
Elsewhere(r) ==
  /\ nextWrite \in Writes
  /\ open' = open \cup {[row |-> r, write |-> nextWrite, stamp |-> clock]}
  /\ nextWrite' = nextWrite + 1
  /\ UNCHANGED <<val, stamp, clock, cache, cursor, outbox, pulls, rewinding, history, bounds>>

-----------------------------------------------------------------------------
(***************************************************************************)
(* The outbox, as CrewOutbox has it in detail: a record's writes go out    *)
(* one at a time and in order, and stop behind a failed one.               *)
(***************************************************************************)
\* writeAndQueue: the cached row and its mutation, in one transaction.
Edit(r) ==
  /\ nextWrite \in Writes
  /\ LET m == [row |-> r, write |-> nextWrite] IN
       /\ queue' = queue \cup {m}
       /\ failed' = IF Queued(r) \cap failed # {} THEN failed \cup {m} ELSE failed
  /\ cache' = [cache EXCEPT ![r] = nextWrite]
  /\ nextWrite' = nextWrite + 1
  /\ UNCHANGED <<push, server, cursor, pulls, rewinding, history, bounds>>

Upload(m) ==
  /\ push = NoPush
  /\ m \in queue \ failed
  /\ \A n \in Queued(m.row) : m.write <= n.write
  /\ push' = [row |-> m.row, write |-> m.write, stamp |-> clock]
  /\ open' = open \cup {push'}
  /\ UNCHANGED <<queue, failed, val, stamp, clock, cache, cursor, pulls, rewinding, history,
                 nextWrite, bounds>>

\* The server has answered 2xx.  If the write has been overwritten meanwhile,
\* pulls have hidden that behind the queued one.
Retire ==
  /\ push # NoPush /\ push \notin open
  /\ queue' = queue \ {[row |-> push.row, write |-> push.write]}
  /\ push' = NoPush
  /\ pinned' = IF val[push.row] = push.write THEN pinned ELSE pinned \cup {push.row}
  /\ UNCHANGED <<failed, server, cache, cursor, pulls, rewinding, overtaken, nextWrite, bounds>>

\* An error answer or a lost one, whether or not the server has applied the
\* write or still will; the mutation waits, or dead-letters with all the
\* record's later ones.
FailUpload ==
  /\ push # NoPush
  /\ faults < MaxFaults
  /\ faults' = faults + 1
  /\ open' \in {open, open \ {push}}
  /\ failed' \in {failed, failed \cup {m \in Queued(push.row) : push.write <= m.write}}
  /\ push' = NoPush
  /\ UNCHANGED <<queue, val, stamp, clock, cache, cursor, pulls, rewinding, history, nextWrite, drops>>

\* retryAllFailedMutations.
RetryAll ==
  /\ failed # {}
  /\ failed' = {}
  /\ UNCHANGED <<queue, push, server, cache, cursor, pulls, rewinding, history, nextWrite, bounds>>

\* discardFailedMutation, or one turn of pruneExpiredDeadLetters: the row
\* goes; the table's cursor follows in a step of its own.
Discard(m) ==
  /\ m \in failed /\ ~rewinding
  /\ drops < MaxDrops
  /\ drops' = drops + 1
  /\ queue' = queue \ {m} /\ failed' = failed \ {m}
  /\ rewinding' = TRUE
  /\ UNCHANGED <<push, server, cache, cursor, pulls, history, nextWrite, faults>>

-----------------------------------------------------------------------------
(***************************************************************************)
(* Cursor moves and their victims (history only).                          *)
(***************************************************************************)
\* A pull that is over, its locals gone.
Forget(p) ==
  /\ pc' = [pc EXCEPT ![p] = "idle"]
  /\ got' = [got EXCEPT ![p] = {}]
  /\ base' = [base EXCEPT ![p] = NoCursor]
  /\ from' = [from EXCEPT ![p] = NoCursor]
  /\ full' = [full EXCEPT ![p] = TRUE]

Overtake(P) ==
  overtaken' = [p \in Pulls |-> pc'[p] # "idle" /\ (overtaken[p] \/ p \in P)]

\* A row with queued writes counts: the damage shows when they have gone.
NotePinned(damage) ==
  pinned' = IF damage
            THEN pinned \cup {r \in Rows : ~Repairable(r)' \/ Queued(r)' # {}}
            ELSE pinned

\* Faulty form of Rewind: the abandoned row's cursor stays where it is.
RewindNothing ==
  /\ rewinding
  /\ rewinding' = FALSE
  /\ UNCHANGED <<cursor, server, cache, outbox, pulls, history, nextWrite, bounds>>

\* invalidateCursorsFor.
Rewind ==
  /\ rewinding
  /\ rewinding' = FALSE
  /\ cursor' = NoCursor
  /\ UNCHANGED <<pinned, server, cache, outbox, pulls, nextWrite, bounds>>
  /\ Overtake(Pulls)

\* The tab is reloaded before the rewind; a pull of another tab goes on.
Interrupt ==
  /\ rewinding
  /\ rewinding' = FALSE
  /\ UNCHANGED <<cursor, server, cache, outbox, pulls, nextWrite, bounds>>
  /\ Overtake(Pulls)
  /\ NotePinned(TRUE)

-----------------------------------------------------------------------------
(***************************************************************************)
(* A pull.                                                                 *)
(***************************************************************************)
\* syncAssignedTurnovers: the cursor is read before the request.
Begin(p) ==
  /\ pc[p] = "idle"
  /\ pc' = [pc EXCEPT ![p] = "asking"]
  /\ from' = [from EXCEPT ![p] = cursor]
  /\ UNCHANGED <<got, base, full, history, server, cache, cursor, outbox, rewinding, nextWrite, bounds>>

Fetched(r) == [row |-> r, write |-> val[r], stamp |-> stamp[r]]

Fetch(p) ==
  /\ pc[p] = "asking"
  /\ pc' = [pc EXCEPT ![p] = "fetched"]
  /\ got' = [got EXCEPT ![p] = {Fetched(r) : r \in {x \in Rows : Newer(x, from[p])}}]
  /\ from' = [from EXCEPT ![p] = NoCursor]
  /\ UNCHANGED <<base, full, server, cache, cursor, outbox, rewinding, history, nextWrite, bounds>>

\* pullTurnoversOnly: one row, by its id, and no cursor.
Refetch(p, r) ==
  /\ pc[p] = "idle"
  /\ pc' = [pc EXCEPT ![p] = "fetched"]
  /\ got' = [got EXCEPT ![p] = {Fetched(r)}]
  /\ full' = [full EXCEPT ![p] = FALSE]
  /\ UNCHANGED <<from, base, history, server, cache, cursor, outbox, rewinding, nextWrite, bounds>>

\* The newest queued value of the row wins over the fetched one.
Rebased(g) ==
  IF Queued(g.row) = {} THEN g
  ELSE [g EXCEPT !.write = Max({m.write : m \in Queued(g.row)})]

\* shadowPendingMutations: the outbox is read, failed rows included.
Overlay(p) ==
  /\ pc[p] = "fetched"
  /\ pc' = [pc EXCEPT ![p] = "rebased"]
  /\ got' = [got EXCEPT ![p] = {Rebased(g) : g \in @}]
  /\ UNCHANGED <<from, base, full, server, cache, cursor, outbox, rewinding, history, nextWrite, bounds>>

\* bulkPut; a re-fetch ends here.
Put(p) ==
  /\ pc[p] = "rebased"
  /\ cache' = [r \in Rows |->
                 IF \E g \in got[p] : g.row = r
                 THEN (CHOOSE g \in got[p] : g.row = r).write ELSE cache[r]]
  /\ IF full[p]
     THEN pc' = [pc EXCEPT ![p] = "put"] /\ UNCHANGED <<from, got, base, full>>
     ELSE Forget(p)
  /\ Overtake(Pulls \ {p})
  /\ UNCHANGED <<server, cursor, outbox, rewinding, nextWrite, bounds>>
  /\ NotePinned(overtaken[p])

\* advanceCursor reads the cursor again ...
ReadAgain(p) ==
  /\ pc[p] = "put"
  /\ pc' = [pc EXCEPT ![p] = "moving"]
  /\ base' = [base EXCEPT ![p] = cursor]
  /\ UNCHANGED <<from, got, full, server, cache, cursor, outbox, rewinding, history, nextWrite, bounds>>

\* Faulty forms of Advanced: no overlap; the server's clock instead
\* of the rows' own stamps.
AdvancedToNewest(c, seen) ==
  LET m == Max({g.stamp : g \in seen}) IN
  IF seen = {} \/ (c # NoCursor /\ m <= c) THEN c ELSE m

AdvancedToNow(c, seen) == IF seen = {} THEN c ELSE clock

\* computeAdvancedCursor: newest stamp seen less the overlap, never backward.
Advanced(c, seen) ==
  LET candidate == Max({g.stamp : g \in seen}) - Overlap IN
  IF seen = {} \/ (c # NoCursor /\ candidate <= c) THEN c ELSE candidate

\* ... and writes it when it has advanced.
Advance(p) ==
  /\ pc[p] = "moving"
  /\ cursor' = IF Advanced(base[p], got[p]) = base[p] THEN cursor
               ELSE Advanced(base[p], got[p])
  /\ Forget(p)
  /\ Overtake(IF cursor' = cursor THEN {} ELSE Pulls)
  /\ UNCHANGED <<server, cache, outbox, rewinding, nextWrite, bounds>>
  /\ NotePinned(overtaken[p])

\* A request fails, or the tab is reloaded: what has been put stays.
Stop(p) ==
  /\ pc[p] # "idle"
  /\ faults < MaxFaults
  /\ faults' = faults + 1
  /\ Forget(p)
  /\ Overtake({})
  /\ UNCHANGED <<pinned, server, cache, cursor, outbox, rewinding, nextWrite, drops>>

PullStep(p) == Fetch(p) \/ Overlay(p) \/ Put(p) \/ ReadAgain(p) \/ Advance(p)

-----------------------------------------------------------------------------
Next ==
  \/ \E t \in open : Commit(t)
  \/ Tick
  \/ \E r \in Rows : Elsewhere(r) \/ Edit(r)
  \/ \E m \in queue : Upload(m) \/ Discard(m)
  \/ Retire \/ FailUpload \/ RetryAll
  \/ Rewind \/ Interrupt
  \/ \E p \in Pulls :
       \/ Begin(p) \/ PullStep(p) \/ Stop(p)
       \/ \E r \in Rows : Refetch(p, r)

Spec == Init /\ [][Next]_vars

-----------------------------------------------------------------------------
(***************************************************************************)
(* Safety                                                                  *)
(***************************************************************************)
ServerOK ==
  /\ val \in [Rows -> Writes \cup {0}]
  /\ stamp \in [Rows -> 0..MaxClock]
  /\ open \subseteq Requests
  /\ clock \in 0..MaxClock
  /\ \A t \in open : t.stamp <= clock /\ clock < t.stamp + Overlap
  /\ \A r \in Rows : stamp[r] <= clock

CursorOK(c) == c = NoCursor \/ (c \in Int /\ c + Overlap <= clock)

DeviceOK ==
  /\ cache \in [Rows -> Writes \cup {0}]
  /\ CursorOK(cursor)
  /\ queue \subseteq Mutations /\ failed \subseteq queue
  /\ push \in Requests \cup {NoPush}
  /\ rewinding \in BOOLEAN

PullsOK ==
  /\ pc \in [Pulls -> {"idle", "asking", "fetched", "rebased", "put", "moving"}]
  /\ full \in [Pulls -> BOOLEAN]
  /\ from \in [Pulls -> Int \cup {NoCursor}] /\ base \in [Pulls -> Int \cup {NoCursor}]
  /\ got \in [Pulls -> SUBSET Fetches]
  /\ \A p \in Pulls :
       /\ CursorOK(from[p]) /\ CursorOK(base[p])
       /\ \A g \in got[p] : g.stamp <= clock

\* Every variable has its type; a cursor always trails the server's clock by
\* the overlap.
TypeOK ==
  /\ ServerOK /\ DeviceOK /\ PullsOK
  /\ overtaken \in [Pulls -> BOOLEAN] /\ pinned \subseteq Rows
  /\ nextWrite \in 1..(MaxWrites + 1)
  /\ faults \in 0..MaxFaults /\ drops \in 0..MaxDrops

\* "Cursors are a payload optimization only ... can only cost bandwidth, never
\* correctness" (cursors.ts:18-21): a row without queued writes shows the
\* server's value, or the next pull will bring it.  So it is unless a pull was
\* overtaken by a move of the cursor, a discard was cut short, or a write that
\* retires was already overwritten on the server by another's (Retire).
NothingElsePinned == \A r \in Rows \ pinned : Repairable(r)

\* The same, without exception.  Not true of the code.
NothingPinned == \A r \in Rows : Repairable(r)

\* "A cursor only ever moves FORWARD" (cursors.ts:16) until it is deleted,
\* with one pull at a time.
CursorMovesForward ==
  [][cursor # NoCursor /\ cursor' # NoCursor => cursor <= cursor']_vars

\* A pull never reverts "the crew member's own work in front of them"
\* (shadow.ts:6-11): a row with queued writes shows the newest.  Not true of
\* the code: the outbox is read in one transaction and the rows put in another.
ShowsOwnWork ==
  \A r \in Rows : Queued(r) # {} => cache[r] = Max({m.write : m \in Queued(r)})

-----------------------------------------------------------------------------
(***************************************************************************)
(* Liveness.  The safety poll starts pulls whatever single rows are        *)
(* re-fetched, a pull that is not stopped goes on, a discard rewinds, the  *)
(* server ends its transactions.                                           *)
(***************************************************************************)
Fairness ==
  /\ \A p \in Pulls : SF_vars(Begin(p)) /\ WF_vars(PullStep(p))
  /\ WF_vars(Rewind)
  /\ WF_vars(\E t \in open : Commit(t))

FairSpec == Spec /\ Fairness

\* "Correctness backstop for anything a Realtime event or broadcast signal
\* missed" (full-resync.ts:37-42): when writes cease, rows with nothing queued
\* come to show the server's value and keep showing it.  It assumes that a pull
\* begun goes on; the client sets no timeout on its reads.
Converges ==
  <>[](\A r \in Rows \ pinned : Queued(r) = {} => cache[r] = val[r])
=============================================================================
