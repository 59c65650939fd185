----------------------------- MODULE ScopeSync ------------------------------
(***************************************************************************)
(* The assignment scope of a crew device (lib/dexie/sync/turnovers.ts):    *)
(* which turnovers and checklists it caches, what a pull removes, what it  *)
(* fetches in full or as a delta, and the pulls that overlap.  What queued *)
(* writes do to a pulled row is DeltaSync's subject.                       *)
(*                                                                         *)
(* A row is the stamp (updated_at) of its version; 0: not cached.  The     *)
(* instances and items of a turnover's checklist are one row here: they    *)
(* are pulled one after the other by the same function.  Rows commit in    *)
(* the order of their stamps, so cursors need no overlap.                  *)
(***************************************************************************)
EXTENDS Naturals, FiniteSetsExt

CONSTANTS
  Turnovers,
  Starts,      \* what may be assigned at first
  ScopePulls,  \* callers of syncAssignedTurnovers: the signal's and the resync
  ListPulls,   \* callers of syncChecklistsV2: the checklists signal's
  MaxClock,    \* bound: stamps
  MaxUpsets    \* bound: changed assignments, failed fetches and reloads

ASSUME ScopeAssumption ==
  /\ ScopePulls \cap ListPulls = {} /\ Starts \subseteq SUBSET Turnovers
  /\ MaxClock \in Nat \ {0} /\ MaxUpsets \in Nat

Tables == {"turnovers", "checklists"}
Pulls  == ScopePulls \cup ListPulls

VARIABLES
  \* the server
  assigned,  \* turnover_assignments of this crew member
  stamp,     \* updated_at of each row
  clock,
  \* the device
  cache, cursor, \* a cursor of 0: no cursor
  busy,      \* turnovers with work queued on their checklists
  \* each pull: at most one of a kind is in flight (runCoalesced, runAction)
  pc, table,
  want,      \* assignedIds
  local,     \* localIds
  doomed,    \* removedIds still to delete
  kids,      \* checklists it will delete with them
  from, got,
  upsets,
  \* history
  overtaken, \* pulls that have rows in hand another one has gone past
  severed,   \* rows <<table, turnover>> a named step has cut off from the delta
  caught     \* turnovers with work a removal has not seen

server == <<assigned, stamp, clock>>
device == <<cache, cursor, busy>>
locals == <<pc, table, want, local, doomed, kids, from, got>>
vars   == <<server, device, locals, upsets, overtaken, severed, caught>>

Cached == {x \in Turnovers : cache["turnovers"][x] # 0}

Init ==
  /\ assigned \in Starts
  /\ stamp = [t \in Tables |-> [x \in Turnovers |-> 1]] /\ clock = 1
  /\ cache = [t \in Tables |-> [x \in Turnovers |-> 0]]
  /\ cursor = [t \in Tables |-> 0] /\ busy = {}
  /\ pc = [p \in Pulls |-> "idle"] /\ table = [p \in Pulls |-> "turnovers"]
  /\ want = [p \in Pulls |-> {}] /\ local = [p \in Pulls |-> {}]
  /\ doomed = [p \in Pulls |-> {}] /\ kids = [p \in Pulls |-> {}]
  /\ from = [p \in Pulls |-> 0] /\ got = [p \in Pulls |-> {}]
  /\ upsets = 0
  /\ overtaken = {} /\ severed = {} /\ caught = {}

(***************************************************************************)
(* Scope                                                                   *)
(***************************************************************************)
Idle(p, v) == [v EXCEPT ![p] = {}]

\* A pull is over; what it read is gone.
Forget(p) ==
  /\ pc' = [pc EXCEPT ![p] = "idle"] /\ from' = [from EXCEPT ![p] = 0]
  /\ want' = Idle(p, want) /\ local' = Idle(p, local) /\ got' = Idle(p, got)
  /\ doomed' = Idle(p, doomed) /\ kids' = Idle(p, kids)
  /\ table' = [table EXCEPT ![p] = "turnovers"]

Over(p) == Forget(p) /\ overtaken' = overtaken \ {p}

Goto(p, place) == pc' = [pc EXCEPT ![p] = place]

\* The rows of a table: those it has a cursor for come as a delta.
Request(p, t) ==
  /\ Goto(p, "fetch")
  /\ table' = [table EXCEPT ![p] = t] /\ from' = [from EXCEPT ![p] = cursor[t]]

FetchScope(p) ==
  /\ pc[p] = "idle" /\ p \in ScopePulls /\ Goto(p, "local")
  /\ want' = [want EXCEPT ![p] = assigned]
  /\ UNCHANGED <<server, device, table, local, doomed, kids, from, got,
                 upsets, overtaken, severed, caught>>

ReadLocal(p) ==
  /\ pc[p] = "local"
  /\ local' = [local EXCEPT ![p] = Cached]
  /\ Goto(p, IF Cached \subseteq want[p] THEN "drop" ELSE "children")
  /\ UNCHANGED <<server, device, table, want, doomed, kids, from, got,
                 upsets, overtaken, severed, caught>>

\* The checklists of what is cached; none of them counts as new.
ReadList(p) ==
  /\ pc[p] = "idle" /\ p \in ListPulls /\ Cached # {}
  /\ want' = [want EXCEPT ![p] = Cached]
  /\ local' = [local EXCEPT ![p] = Cached]
  /\ Request(p, "checklists")
  /\ UNCHANGED <<server, device, doomed, kids, got,
                 upsets, overtaken, severed, caught>>

(***************************************************************************)
(* What is no longer assigned leaves, unless work is queued on it: three   *)
(* reads and then deletions, each a transaction of its own.                *)
(***************************************************************************)
ReadChildren(p) ==
  /\ pc[p] = "children" /\ Goto(p, "busy")
  /\ kids' = [kids EXCEPT ![p] =
                {x \in local[p] \ want[p] : cache["checklists"][x] # 0}]
  /\ UNCHANGED <<server, device, table, want, local, doomed, from, got,
                 upsets, overtaken, severed, caught>>

\* Faulty form of Removable: queued work is not asked about.
RemovableAny(p) == local[p] \ want[p]

\* Queued work is looked up by the rows it is on.
Removable(p) == (local[p] \ want[p]) \ (busy \cap kids[p])

ReadBusy(p) ==
  /\ pc[p] = "busy" /\ Goto(p, "drop")
  /\ doomed' = [doomed EXCEPT ![p] = Removable(p)]
  /\ kids' = [kids EXCEPT ![p] = @ \cap Removable(p)]
  /\ UNCHANGED <<server, device, table, want, local, from, got,
                 upsets, overtaken, severed, caught>>

Uncache(t, xs) ==
  cache' = [cache EXCEPT ![t] = [x \in Turnovers |-> IF x \in xs THEN 0 ELSE @[x]]]

\* A pull in flight may still take what is deleted here for known.
Cut(xs) == severed' = severed \cup ({"checklists"} \X xs)

DropRows(p) ==
  /\ pc[p] = "drop" /\ doomed[p] # {}
  /\ Uncache("turnovers", doomed[p])
  /\ Cut(doomed[p])
  /\ doomed' = Idle(p, doomed)
  /\ UNCHANGED <<server, cursor, busy, pc, table, want, local, kids, from, got,
                 upsets, overtaken, caught>>

DropChildren(p) ==
  /\ pc[p] = "drop" /\ kids[p] # {}
  /\ Uncache("checklists", kids[p])
  /\ Cut(kids[p])
  /\ kids' = Idle(p, kids)
  /\ UNCHANGED <<server, cursor, busy, pc, table, want, local, doomed, from, got,
                 upsets, overtaken, caught>>

Reconciled(p) ==
  /\ pc[p] = "drop" /\ doomed[p] = {} /\ kids[p] = {}
  /\ IF want[p] = {}
     THEN Over(p)
     ELSE /\ Request(p, "turnovers")
          /\ UNCHANGED <<want, local, doomed, kids, got, overtaken>>
  /\ UNCHANGED <<server, device, upsets, severed, caught>>

(***************************************************************************)
(* Rows, of the turnovers and then of their checklists                     *)
(***************************************************************************)
\* Faulty form of Fresh: the cursor goes for every turnover.
FreshNone(p) == {}

\* Turnovers new to the device are fetched without the cursor.
Fresh(p) == want[p] \ local[p]

\* What row level security lets the crew member see of what is asked for: a
\* turnover that is not assigned just now is passed over.
Answer(p) ==
  {x \in want[p] \cap assigned :
     x \in Fresh(p) \/ stamp[table[p]][x] > from[p]}

Fetch(p) ==
  /\ pc[p] = "fetch" /\ Goto(p, "put")
  /\ got' = [got EXCEPT ![p] = {[id |-> x, stamp |-> stamp[table[p]][x]] :
                                  x \in Answer(p)}]
  /\ severed' = severed \cup ({table[p]} \X (want[p] \ assigned))
  /\ UNCHANGED <<server, device, table, want, local, doomed, kids, from,
                 upsets, overtaken, caught>>

Ids(p) == {g.id : g \in got[p]}

\* Other pulls with rows of the same table in hand.
Amid(p) == {q \in Pulls \ {p} : pc[q] = "put" /\ table[q] = table[p]}

\* Rows that another pull has asked for and will not bring: it may move the
\* cursor past them.
Passed(p) == UNION {want[q] \ Ids(q) : q \in Amid(p)}

\* A cached turnover's row fetched in full follows the delta again, unless
\* another pull passes it over, or has gone past the pull that put it: then any
\* row it puts may be an old one.
Severed(p) ==
  IF p \in overtaken THEN severed \cup ({table[p]} \X Ids(p))
  ELSE severed \ ({table[p]} \X ((Ids(p) \cap Fresh(p) \cap Cached') \ Passed(p)))

Put(p) ==
  /\ pc[p] = "put" /\ Goto(p, "advance")
  /\ cache' = [cache EXCEPT ![table[p]] = [x \in Turnovers |->
       IF x \in Ids(p) THEN (CHOOSE g \in got[p] : g.id = x).stamp ELSE @[x]]]
  /\ overtaken' = (IF got[p] = {} THEN overtaken ELSE overtaken \cup Amid(p)) \ {p}
  /\ severed' = Severed(p)
  /\ UNCHANGED <<server, cursor, busy, table, want, local, doomed, kids, from,
                 got, upsets, caught>>

\* Faulty forms of Newest: the time of the pull's end for the newest row's, and
\* a cursor just past it.
NewestNow(p)  == clock
NewestPast(p) == Max({cursor[table[p]]} \cup {g.stamp + 1 : g \in got[p]})

Newest(p) == Max({cursor[table[p]]} \cup {g.stamp : g \in got[p]})
Moves(p)  == Newest(p) # cursor[table[p]]

\* A cursor moved by a pull whose scope misses a cached turnover leaves the
\* turnover's changes behind.
Advance(p) ==
  /\ pc[p] = "advance"
  /\ cursor' = [cursor EXCEPT ![table[p]] = Newest(p)]
  /\ overtaken' = IF Moves(p) THEN overtaken \cup Amid(p) ELSE overtaken
  /\ severed' = IF Moves(p) THEN severed \cup ({table[p]} \X (Cached \ want[p]))
                ELSE severed
  /\ IF table[p] = "checklists"
     THEN Forget(p)
     ELSE /\ Goto(p, "reference") /\ got' = Idle(p, got)
          /\ UNCHANGED <<table, want, local, doomed, kids, from>>
  /\ UNCHANGED <<server, cache, busy, upsets, caught>>

\* Properties and inventory come in between.
Reference(p) ==
  /\ pc[p] = "reference" /\ Request(p, "checklists")
  /\ UNCHANGED <<server, device, want, local, doomed, kids, got,
                 upsets, overtaken, severed, caught>>

\* A fetch fails and the pull returns.  What it has put of new turnovers makes
\* them known: their checklists will not be fetched in full again.
Stranded(p) ==
  IF p \in ScopePulls THEN {"checklists"} \X (Fresh(p) \cap Cached) ELSE {}

Fail(p) ==
  /\ pc[p] \in {"fetch", "reference"} /\ upsets < MaxUpsets
  /\ upsets' = upsets + 1
  /\ severed' = severed \cup Stranded(p)
  /\ Over(p)
  /\ UNCHANGED <<server, device, caught>>

(***************************************************************************)
(* The device and the server                                               *)
(***************************************************************************)
\* The document goes, and every pull with it.
Reload ==
  /\ upsets < MaxUpsets /\ \E p \in Pulls : pc[p] # "idle"
  /\ upsets' = upsets + 1
  /\ severed' = severed \cup UNION {Stranded(p) : p \in Pulls}
  /\ pc' = [p \in Pulls |-> "idle"] /\ table' = [p \in Pulls |-> "turnovers"]
  /\ from' = [p \in Pulls |-> 0]
  /\ want' = [p \in Pulls |-> {}] /\ local' = want' /\ got' = want'
  /\ doomed' = want' /\ kids' = want'
  /\ overtaken' = {}
  /\ UNCHANGED <<server, device, caught>>

\* Where a pull's removal does not see work queued now: after it has looked, or
\* on a checklist it has not read.
Unseen(p) ==
  IF pc[p] = "busy" THEN (local[p] \ want[p]) \ kids[p] ELSE doomed[p] \cup kids[p]

\* The crew member works on a turnover whose checklist is here.
Work(x) ==
  /\ x \notin busy /\ \A t \in Tables : cache[t][x] # 0
  /\ busy' = busy \cup {x}
  /\ caught' = IF \E p \in Pulls : x \in Unseen(p)
               THEN caught \cup {x} ELSE caught
  /\ UNCHANGED <<server, cache, cursor, locals, upsets, overtaken, severed>>

Touch(t, x) ==
  /\ clock < MaxClock /\ clock' = clock + 1
  /\ stamp' = [stamp EXCEPT ![t][x] = clock + 1]

\* Its last write lands.
Land(x) ==
  /\ x \in busy /\ busy' = busy \ {x} /\ caught' = caught \ {x}
  /\ Touch("checklists", x)
  /\ UNCHANGED <<assigned, cache, cursor, locals, upsets, overtaken, severed>>

\* A manager, another crew member, a job.
Change(t, x) ==
  /\ Touch(t, x)
  /\ UNCHANGED <<assigned, device, locals, upsets, overtaken, severed, caught>>

\* Assigned, unassigned, or past the horizon.
Move(x) ==
  /\ upsets < MaxUpsets /\ upsets' = upsets + 1
  /\ assigned' = IF x \in assigned THEN assigned \ {x} ELSE assigned \cup {x}
  /\ UNCHANGED <<stamp, clock, device, locals, overtaken, severed, caught>>

-----------------------------------------------------------------------------
Pull(p) ==
  \/ FetchScope(p) \/ ReadLocal(p) \/ ReadList(p)
  \/ ReadChildren(p) \/ ReadBusy(p)
  \/ DropRows(p) \/ DropChildren(p) \/ Reconciled(p)
  \/ Fetch(p) \/ Put(p) \/ Advance(p) \/ Reference(p)

Next ==
  \/ \E p \in Pulls : Pull(p) \/ Fail(p)
  \/ Reload
  \/ \E x \in Turnovers :
       Work(x) \/ Land(x) \/ Move(x) \/ \E t \in Tables : Change(t, x)

\* A scope pull that has started goes on, and the safety poll starts the next;
\* nothing promises a checklists signal.
Fairness == \A p \in ScopePulls : WF_vars(Pull(p))
Spec == Init /\ [][Next]_vars /\ Fairness

-----------------------------------------------------------------------------
TypeOK ==
  /\ assigned \subseteq Turnovers /\ busy \subseteq Turnovers
  /\ clock \in 1..MaxClock
  /\ stamp \in [Tables -> [Turnovers -> 1..clock]]
  /\ cache \in [Tables -> [Turnovers -> 0..clock]]
  /\ cursor \in [Tables -> 0..clock]
  /\ pc \in [Pulls -> {"idle", "local", "children", "busy", "drop",
                       "fetch", "put", "advance", "reference"}]
  /\ table \in [Pulls -> Tables]
  /\ want \in [Pulls -> SUBSET Turnovers] /\ local \in [Pulls -> SUBSET Turnovers]
  /\ doomed \in [Pulls -> SUBSET Turnovers] /\ kids \in [Pulls -> SUBSET Turnovers]
  /\ from \in [Pulls -> 0..clock]
  /\ got \in [Pulls -> SUBSET [id : Turnovers, stamp : 1..clock]]
  /\ upsets \in 0..MaxUpsets
  /\ overtaken \subseteq Pulls /\ severed \subseteq Tables \X Turnovers
  /\ caught \subseteq Turnovers

\* A checklist a pull in flight has still to fetch in full or to put.
Coming(t, x) ==
  t = "checklists" /\ \E p \in ScopePulls :
    x \in Fresh(p) /\ \/ table[p] = "turnovers" /\ pc[p] \in {"advance", "reference"}
                      \/ table[p] = "checklists" /\ pc[p] \in {"fetch", "put"}

\* The row is the server's, or a pull brings it.
Follows(t, x) == cache[t][x] = stamp[t][x] \/ stamp[t][x] > cursor[t] \/ Coming(t, x)

\* A row the device holds of an assigned turnover is the server's, or one the
\* delta brings, however pulls overlap: "a conservative or missing cursor can
\* only cost bandwidth, never correctness" (cursors.ts:20-21) but for the rows
\* a named step has cut off.
DeltaCovers ==
  \A t \in Tables, x \in Cached \cap assigned : Follows(t, x) \/ <<t, x>> \in severed

\* The same without the exception, of turnovers no pull is removing.  Not true
\* of the code.
NothingSevered ==
  \A t \in Tables, x \in Cached \cap assigned :
    Follows(t, x) \/ \E p \in Pulls : x \in doomed[p] \cup kids[p]

\* "A turnover with unsent work stays, however it came to be a candidate"
\* (turnovers.ts:213), unless the work was queued after a removal had looked or
\* on a checklist it had not read.
WorkKeepsItsRows ==
  \A x \in busy \ caught : \A t \in Tables : cache[t][x] # 0

\* The same without the exception.  Not true of the code: the outbox is read,
\* then the rows are deleted.
RowsOutlastWork == \A x \in busy : \A t \in Tables : cache[t][x] # 0

\* In the end the device holds what is assigned, up to date, and of the rest
\* only what has work queued.  It assumes that a pull begun goes on; the client
\* sets no timeout on its reads.
ScopeSettles ==
  <>[](\A x \in Turnovers :
         /\ x \in assigned => \A t \in Tables :
              cache[t][x] = stamp[t][x] \/ <<t, x>> \in severed
         /\ x \in Cached \ assigned => x \in busy)
=============================================================================
