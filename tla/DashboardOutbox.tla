-------------------------- MODULE DashboardOutbox --------------------------
(***************************************************************************)
(* The dashboard's offline outbox: OutboxEngine (lib/dexie/outboxEngine.ts)*)
(* under lib/dexie/dashboard/syncService.ts, which creates work orders and *)
(* inspections and submits them.  The vendor portal runs the same engine.  *)
(*                                                                         *)
(* A row is an identifier 1..MaxId; what it writes is abstracted to the    *)
(* record it targets (targetId).  Nothing but an enqueue, a retry tap and  *)
(* the engine's own timer starts a drain: there is no interval, no mount   *)
(* and no online handler.                                                  *)
(***************************************************************************)
EXTENDS Naturals

CONSTANTS
  Tabs,        \* dashboard documents of one user, sharing IndexedDB
  Records,     \* work orders and inspections, by the id the device minted
  MaxId,       \* bound: rows ever queued
  MaxRetries,  \* config.maxRetries
  MaxFaults,   \* bound: error answers, lost connections, offline periods
  MaxReloads,  \* bound: tabs reloaded or closed
  MaxTaps,     \* bound: retry taps and discards
  NoTab, NoRecord

ASSUME OutboxAssumption ==
  /\ MaxId \in Nat /\ MaxRetries \in Nat \ {0}
  /\ MaxFaults \in Nat /\ MaxReloads \in Nat /\ MaxTaps \in Nat
  /\ NoTab \notin Tabs /\ NoRecord \notin Records

VARIABLES
  \* IndexedDB, shared by the tabs
  owner,       \* the record a row targets; kept after the row is gone
  state,       \* "none" (no such row), "live" or "dead" (failed = 1)
  retryCount,
  backoff,     \* nextAttemptAt is in the future
  nextId,
  \* per tab: the engine, its drain's locals, the retry helper's loop
  pc,          \* "idle", or isProcessing: "lock", "loop", "push"
  eager,       \* ignoreBackoff
  todo, cur, wire,
  tries, held, \* retryCount of the rows it read, those in their retry window
  timer,       \* the row whose retry time the engine's timer waits for, 0: none
  clearing,    \* dead rows retryAllFailedDashboardMutations has still to clear
  \* the device
  lock, online,
  \* the server
  latest, landed, stray,
  \* history and bounds
  abandoned, intact,
  missed,      \* rows a kick was meant for that found nobody to serve it
  faults, reloads, taps

table   == <<owner, state, retryCount, backoff, nextId>>
drain   == <<todo, cur, wire, tries, held>>
engine  == <<pc, eager, timer, lock>>
server  == <<latest, landed, stray>>
history == <<abandoned, intact, missed>>
bounds  == <<faults, reloads, taps>>
vars    == <<table, drain, engine, clearing, online, server, history, bounds>>

Ids     == 1..MaxId
Live    == {i \in Ids : state[i] = "live"}
Rows(r) == {i \in Ids : state[i] # "none" /\ owner[i] = r}

NoTries == [i \in Ids |-> 0]

First(i, S) == i \in S /\ \A j \in S : i <= j

Init ==
  /\ owner = [i \in Ids |-> NoRecord]
  /\ state = [i \in Ids |-> "none"]
  /\ retryCount = [i \in Ids |-> 0]
  /\ backoff = [i \in Ids |-> FALSE]
  /\ nextId = 1
  /\ pc = [t \in Tabs |-> "idle"] /\ eager = [t \in Tabs |-> FALSE]
  /\ todo = [t \in Tabs |-> {}] /\ cur = [t \in Tabs |-> 0]
  /\ wire = [t \in Tabs |-> "none"]
  /\ tries = [t \in Tabs |-> NoTries] /\ held = [t \in Tabs |-> {}]
  /\ timer = [t \in Tabs |-> 0] /\ clearing = [t \in Tabs |-> {}]
  /\ lock = NoTab /\ online = TRUE
  /\ latest = [r \in Records |-> 0] /\ landed = {} /\ stray = {}
  /\ abandoned = {} /\ intact = Records /\ missed = {}
  /\ faults = 0 /\ reloads = 0 /\ taps = 0

-----------------------------------------------------------------------------
(***************************************************************************)
(* History.  A record is exposed when a live row of it stands behind a     *)
(* dead one: the engine does not hold the later row back.  It loses its    *)
(* order when a drain starts so, or makes it so.  A kick misses a live row *)
(* when the drain it is left to does not have it.                          *)
(***************************************************************************)
Exposed(r) == \E i, j \in Rows(r) : i < j /\ state[i] = "dead" /\ state[j] = "live"

NoteExposure == intact' = intact \ {r \in Records : Exposed(r)'}

InHand(t) == IF pc[t] = "lock" THEN Ids ELSE todo[t] \cup {cur[t]}

LeftTo(t) == missed' = missed \cup (Live' \ InHand(t))

-----------------------------------------------------------------------------
(***************************************************************************)
(* processOutbox()                                                         *)
(***************************************************************************)
\* A call while the engine is processing returns at once and leaves no trace.
Kick(t, ignore) ==
  IF pc[t] = "idle"
  THEN /\ pc' = [pc EXCEPT ![t] = "lock"]
       /\ eager' = [eager EXCEPT ![t] = ignore]
       /\ UNCHANGED missed
  ELSE UNCHANGED <<pc, eager>> /\ LeftTo(t)

\* enqueueDashboardMutation.
Enqueue(t, r) ==
  /\ nextId \in Ids
  /\ owner' = [owner EXCEPT ![nextId] = r]
  /\ state' = [state EXCEPT ![nextId] = "live"]
  /\ nextId' = nextId + 1
  /\ Kick(t, FALSE)
  /\ UNCHANGED <<retryCount, backoff, drain, timer, lock, clearing, online, server,
                 abandoned, intact, bounds>>

\* The timer set for a row in its retry window.
Fire(t) ==
  /\ timer[t] # 0 /\ ~backoff[timer[t]]
  /\ timer' = [timer EXCEPT ![t] = 0]
  /\ UNCHANGED <<table, drain, lock, clearing, online, server, abandoned, intact, bounds>>
  /\ Kick(t, FALSE)

\* The drain is over; its locals and the lock go.
Leave(t) ==
  /\ pc' = [pc EXCEPT ![t] = "idle"]
  /\ eager' = [eager EXCEPT ![t] = FALSE]
  /\ todo' = [todo EXCEPT ![t] = {}]
  /\ cur' = [cur EXCEPT ![t] = 0]
  /\ wire' = [wire EXCEPT ![t] = "none"]
  /\ tries' = [tries EXCEPT ![t] = NoTries]
  /\ held' = [held EXCEPT ![t] = {}]
  /\ lock' = IF lock = t THEN NoTab ELSE lock

\* "another tab holds it -- it is draining these same rows" (withTabLock).
Skip(t) ==
  /\ pc[t] = "lock" /\ lock # NoTab
  /\ Leave(t)
  /\ UNCHANGED <<table, timer, clearing, online, server, abandoned, intact, bounds>>
  /\ LeftTo(lock)

-----------------------------------------------------------------------------
(***************************************************************************)
(* drain()                                                                 *)
(***************************************************************************)
\* The live rows are read once, under the lock; what the drain decides on is
\* what it read, whatever becomes of the rows meanwhile.
Snapshot(t) ==
  /\ pc[t] = "lock" /\ lock = NoTab /\ online
  /\ lock' = t
  /\ todo' = [todo EXCEPT ![t] = Live]
  /\ tries' = [tries EXCEPT ![t] = [i \in Ids |-> IF i \in Live THEN retryCount[i] ELSE 0]]
  /\ held' = [held EXCEPT ![t] = {i \in Live : backoff[i]}]
  /\ pc' = [pc EXCEPT ![t] = "loop"]
  /\ UNCHANGED <<eager, timer, table, cur, wire, clearing, online, server, abandoned, missed,
                 bounds>>
  /\ NoteExposure

\* The drain is at the row and may send it.
Due(t, i) == First(i, todo[t]) /\ (eager[t] \/ i \notin held[t])

\* Offline where the drain looks: it ends, and sets no timer.
GiveUpOffline(t) ==
  /\ ~online
  /\ \/ pc[t] = "lock" /\ lock = NoTab
     \/ pc[t] = "loop" /\ \E i \in todo[t] : Due(t, i)
  /\ Leave(t)
  /\ missed' = missed \cup Live
  /\ UNCHANGED <<table, timer, clearing, online, server, abandoned, intact, bounds>>

Finish(t) ==
  /\ pc[t] = "loop" /\ todo[t] = {}
  /\ Leave(t)
  /\ UNCHANGED <<table, timer, clearing, online, server, history, bounds>>

\* Faulty form of ScheduleRetry: the drain ends without its timer.
ForgetRetry(t, i) == UNCHANGED timer

ScheduleRetry(t, i) == timer' = [timer EXCEPT ![t] = i]

\* A row in its retry window ends the drain: nothing overtakes it.
BackOff(t) ==
  /\ pc[t] = "loop"
  /\ \E i \in todo[t] :
       /\ First(i, todo[t]) /\ ~Due(t, i)
       /\ ScheduleRetry(t, i)
  /\ Leave(t)
  /\ UNCHANGED <<table, clearing, online, server, history, bounds>>

Send(t) ==
  /\ pc[t] = "loop" /\ online
  /\ \E i \in todo[t] :
       /\ Due(t, i)
       /\ cur' = [cur EXCEPT ![t] = i]
       /\ todo' = [todo EXCEPT ![t] = @ \ {i}]
  /\ wire' = [wire EXCEPT ![t] = "sent"]
  /\ pc' = [pc EXCEPT ![t] = "push"]
  /\ UNCHANGED <<tries, held, eager, timer, lock, table, clearing, online, server, history,
                 bounds>>

-----------------------------------------------------------------------------
(***************************************************************************)
(* uploadOne() and the server: a 2xx ("ok"), a 5xx ("refused"), a 4xx      *)
(* ("rejected", SubmitRejectedError), or no answer ("lost").               *)
(***************************************************************************)
Awaiting(t) == pc[t] = "push" /\ wire[t] = "sent"

Apply(i) ==
  /\ latest' = [latest EXCEPT ![owner[i]] = i]
  /\ landed' = landed \cup {i}

Answered(t, answer) ==
  /\ wire' = [wire EXCEPT ![t] = answer]
  /\ UNCHANGED <<todo, cur, tries, held, table, engine, clearing, online, history, reloads, taps>>

Accept(t) ==
  /\ Awaiting(t)
  /\ Apply(cur[t])
  /\ Answered(t, "ok")
  /\ UNCHANGED <<stray, faults>>

Refuse(t, answer) ==
  /\ Awaiting(t) /\ faults < MaxFaults
  /\ faults' = faults + 1
  /\ Answered(t, answer)
  /\ UNCHANGED server

\* The fetch fails; a request on its way may still be executed later.
Disconnect(t) ==
  /\ pc[t] = "push" /\ wire[t] # "lost" /\ faults < MaxFaults
  /\ faults' = faults + 1
  /\ Answered(t, "lost")
  /\ \/ UNCHANGED stray
     \/ wire[t] = "sent" /\ stray' = stray \cup {cur[t]}
  /\ UNCHANGED <<latest, landed>>

Straggle(i) ==
  /\ i \in stray
  /\ Apply(i)
  /\ stray' = stray \ {i}
  /\ intact' = IF i < latest[owner[i]] THEN intact \ {owner[i]} ELSE intact
  /\ UNCHANGED <<table, drain, engine, clearing, online, abandoned, missed, bounds>>

-----------------------------------------------------------------------------
(***************************************************************************)
(* The outcome: delete, or handleFailure()                                 *)
(***************************************************************************)
Update(f, i, v) == IF state[i] = "none" THEN f ELSE [f EXCEPT ![i] = v]

NextRow(t) ==
  /\ pc' = [pc EXCEPT ![t] = "loop"]
  /\ cur' = [cur EXCEPT ![t] = 0]
  /\ wire' = [wire EXCEPT ![t] = "none"]
  /\ UNCHANGED <<todo, tries, held>>

Confirm(t) ==
  /\ pc[t] = "push" /\ wire[t] = "ok"
  /\ state' = [state EXCEPT ![cur[t]] = "none"]
  /\ retryCount' = [retryCount EXCEPT ![cur[t]] = 0]
  /\ backoff' = [backoff EXCEPT ![cur[t]] = FALSE]
  /\ NextRow(t)
  /\ UNCHANGED <<owner, nextId, eager, timer, lock, clearing, online, server, history, bounds>>

FailedPush(t) == pc[t] = "push" /\ wire[t] \in {"refused", "rejected", "lost"}

\* The handlers' own rejections first, then classifyUploadFailure, whose first
\* question is whether the device is offline.
Kind(t) ==
  IF wire[t] = "rejected" THEN "terminal"
  ELSE IF ~online \/ wire[t] = "lost" THEN "network" ELSE "transient"

Attempts(t) == tries[t][cur[t]] + 1

Dies(t) == Kind(t) = "terminal" \/ (Kind(t) = "transient" /\ Attempts(t) >= MaxRetries)

\* Dead-lettered, and the drain goes on to the next row.
DeadLetter(t) ==
  /\ FailedPush(t) /\ Dies(t)
  /\ state' = Update(state, cur[t], "dead")
  /\ retryCount' = IF Kind(t) = "transient"
                   THEN Update(retryCount, cur[t], Attempts(t)) ELSE retryCount
  /\ NextRow(t)
  /\ UNCHANGED <<owner, backoff, nextId, eager, timer, lock, clearing, online, server,
                 abandoned, missed, bounds>>
  /\ NoteExposure

\* Faulty form of Requeue: the drain skips the row and continues.
RequeueAndContinue(t) ==
  /\ FailedPush(t) /\ ~Dies(t)
  /\ retryCount' = IF Kind(t) = "transient"
                   THEN Update(retryCount, cur[t], Attempts(t)) ELSE retryCount
  /\ backoff' = Update(backoff, cur[t], TRUE)
  /\ ScheduleRetry(t, cur[t])
  /\ NextRow(t)
  /\ UNCHANGED <<owner, state, nextId, eager, lock, clearing, online, server, history, bounds>>

\* Kept for later, a transport failure at no cost; the drain stops here.
Requeue(t) ==
  /\ FailedPush(t) /\ ~Dies(t)
  /\ retryCount' = IF Kind(t) = "transient"
                   THEN Update(retryCount, cur[t], Attempts(t)) ELSE retryCount
  /\ backoff' = Update(backoff, cur[t], TRUE)
  /\ ScheduleRetry(t, cur[t])
  /\ Leave(t)
  /\ UNCHANGED <<owner, state, nextId, clearing, online, server, history, bounds>>

-----------------------------------------------------------------------------
(***************************************************************************)
(* The user: retry all, discard                                            *)
(***************************************************************************)
\* retryAllFailedDashboardMutations reads the dead rows ...
RetryAll(t) ==
  /\ clearing[t] = {} /\ taps < MaxTaps
  /\ taps' = taps + 1
  /\ clearing' = [clearing EXCEPT ![t] = {i \in Ids : state[i] = "dead"}]
  /\ clearing'[t] # {}
  /\ UNCHANGED <<table, drain, engine, online, server, history, faults, reloads>>

\* ... re-queues them one update at a time, and drains.
ClearOne(t) ==
  /\ \E i \in clearing[t] :
       /\ First(i, clearing[t])
       /\ state' = Update(state, i, "live")
       /\ retryCount' = Update(retryCount, i, 0)
       /\ backoff' = Update(backoff, i, FALSE)
       /\ clearing' = [clearing EXCEPT ![t] = @ \ {i}]
  /\ IF clearing'[t] = {} THEN Kick(t, TRUE) ELSE UNCHANGED <<pc, eager, missed>>
  /\ UNCHANGED <<owner, nextId, drain, timer, lock, online, server, abandoned, intact, bounds>>

\* discardFailedDashboardMutation.
Discard(i) ==
  /\ state[i] = "dead" /\ taps < MaxTaps
  /\ taps' = taps + 1
  /\ state' = [state EXCEPT ![i] = "none"]
  /\ retryCount' = [retryCount EXCEPT ![i] = 0]
  /\ backoff' = [backoff EXCEPT ![i] = FALSE]
  /\ abandoned' = abandoned \cup {i}
  /\ UNCHANGED <<owner, nextId, drain, engine, clearing, online, server, intact, missed,
                 faults, reloads>>

-----------------------------------------------------------------------------
(***************************************************************************)
(* The device                                                              *)
(***************************************************************************)
Elapse(i) ==
  /\ backoff[i] \/ \E t \in Tabs : i \in held[t]
  /\ backoff' = [backoff EXCEPT ![i] = FALSE]
  /\ held' = [t \in Tabs |-> held[t] \ {i}]
  /\ UNCHANGED <<owner, state, retryCount, nextId, todo, cur, wire, tries, engine, clearing, online, server,
                 history, bounds>>

GoOffline ==
  /\ online /\ faults < MaxFaults
  /\ online' = FALSE
  /\ faults' = faults + 1
  /\ UNCHANGED <<table, drain, engine, clearing, server, history, reloads, taps>>

GoOnline ==
  /\ ~online
  /\ online' = TRUE
  /\ UNCHANGED <<table, drain, engine, clearing, server, history, bounds>>

\* The engine and its timer go; nothing on mount makes up for them.
Reload(t) ==
  /\ reloads < MaxReloads
  /\ reloads' = reloads + 1
  /\ Leave(t)
  /\ timer' = [timer EXCEPT ![t] = 0]
  /\ clearing' = [clearing EXCEPT ![t] = {}]
  /\ missed' = missed \cup Live
  /\ \/ UNCHANGED stray
     \/ Awaiting(t) /\ stray' = stray \cup {cur[t]}
  /\ UNCHANGED <<table, online, latest, landed, abandoned, intact, faults, taps>>

-----------------------------------------------------------------------------
EngineStep(t) ==
  \/ Skip(t) \/ Snapshot(t) \/ GiveUpOffline(t) \/ Finish(t) \/ BackOff(t) \/ Send(t)
  \/ Confirm(t) \/ DeadLetter(t) \/ Requeue(t)

Next ==
  \/ \E t \in Tabs :
       \/ EngineStep(t) \/ Fire(t)
       \/ \E r \in Records : Enqueue(t, r)
       \/ Accept(t) \/ Disconnect(t)
       \/ \E answer \in {"refused", "rejected"} : Refuse(t, answer)
       \/ RetryAll(t) \/ ClearOne(t) \/ Reload(t)
  \/ \E i \in Ids : Straggle(i) \/ Discard(i) \/ Elapse(i)
  \/ GoOffline \/ GoOnline

Spec == Init /\ [][Next]_vars

-----------------------------------------------------------------------------
(***************************************************************************)
(* Properties                                                              *)
(***************************************************************************)
\* Every variable has its type; a tab has rows in hand only under the lock.
TypeOK ==
  /\ owner \in [Ids -> Records \cup {NoRecord}]
  /\ state \in [Ids -> {"none", "live", "dead"}]
  /\ retryCount \in [Ids -> 0..MaxRetries] /\ backoff \in [Ids -> BOOLEAN]
  /\ nextId \in 1..(MaxId + 1)
  /\ pc \in [Tabs -> {"idle", "lock", "loop", "push"}] /\ eager \in [Tabs -> BOOLEAN]
  /\ todo \in [Tabs -> SUBSET Ids] /\ cur \in [Tabs -> Ids \cup {0}]
  /\ wire \in [Tabs -> {"none", "sent", "ok", "refused", "rejected", "lost"}]
  /\ tries \in [Tabs -> [Ids -> 0..(MaxRetries - 1)]] /\ held \in [Tabs -> SUBSET Ids]
  /\ timer \in [Tabs -> Ids \cup {0}] /\ clearing \in [Tabs -> SUBSET Ids]
  /\ lock \in Tabs \cup {NoTab} /\ online \in BOOLEAN
  /\ \A t \in Tabs : pc[t] \in {"loop", "push"} <=> lock = t
  /\ latest \in [Records -> Ids \cup {0}] /\ landed \subseteq Ids /\ stray \subseteq Ids
  /\ abandoned \subseteq Ids /\ intact \subseteq Records /\ missed \subseteq Ids
  /\ faults \in 0..MaxFaults /\ reloads \in 0..MaxReloads /\ taps \in 0..MaxTaps

\* "Chronological order with a strict stop (never skip-and-continue, so later
\* mutations against the same record can't jump ahead of a failing one)"
\* (outboxEngine.ts:43-48): rows leave only applied or discarded, and a record
\* is written in order unless a dead letter left a later row exposed or a
\* request outlived its answer.
Promise ==
  INSTANCE OrderedWrites WITH waiting <- {i \in Ids : state[i] # "none"}

KeepsOrder == Promise!Spec

\* No row a kick was meant to serve is left lying: a drain that will read the
\* table or has the row in hand, a retry timer, or a retry tap still to end in a
\* drain.  The engine drops every call that finds it busy, so this rests on what
\* it leaves behind whenever a drain ends.
Attended(i) ==
  \E t \in Tabs :
    \/ pc[t] = "lock"
    \/ pc[t] \in {"loop", "push"} /\ i \in todo[t] \cup {cur[t]}
    \/ timer[t] # 0 \/ clearing[t] # {}

RowsAreAttended == \A i \in Live \ missed : Attended(i)

\* "The outbox drains in insertion order and STOPS on the first error, which
\* is what guarantees a create lands before the submit that depends on it"
\* (dashboard/syncService.ts:85-87).  Not true of the code: a dead letter
\* does not stop the drain.
NothingOvertakes ==
  [][\A t \in Tabs : Awaiting(t) /\ wire'[t] = "ok" =>
       \A i \in Ids : state[i] # "none" /\ owner[i] = owner[cur[t]] => cur[t] <= i]_vars

-----------------------------------------------------------------------------
(***************************************************************************)
(* Liveness.  A started drain goes on, a request is answered or fails (the *)
(* fetch has no timeout, the browser's own is relied on), retry windows    *)
(* close and timers fire, a retry tap's loop ends.                         *)
(***************************************************************************)
Fairness ==
  /\ \A t \in Tabs :
       /\ WF_vars(EngineStep(t)) /\ WF_vars(Accept(t))
       /\ WF_vars(Fire(t)) /\ WF_vars(ClearOne(t))
  /\ \A i \in Ids : WF_vars(Elapse(i))

FairSpec == Spec /\ Fairness

\* A row some drain or timer has been left in charge of is raised or reported
\* as failed, whatever tabs, retries and failures do; but not one whose kick
\* found the engine busy without it, the device offline or its tab reloaded.
AttendedRowsLeave ==
  \A i \in Ids : (i \in Live \ missed) ~> (i \notin Live \/ i \in missed)

\* "Saved on this device. It will be raised as soon as you are back online."
\* (maintenance/CreateWorkOrderModal.tsx:200), without the exceptions.  Not
\* true of the code: no online handler and no mount drains this outbox.
RaisedWhenOnline ==
  <>[]online => \A i \in Ids : (i \in Live) ~> (i \notin Live)
=============================================================================
