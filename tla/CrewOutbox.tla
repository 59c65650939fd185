----------------------------- MODULE CrewOutbox -----------------------------
(***************************************************************************)
(* The crew PWA's offline outbox: SyncEngine in lib/dexie/syncService.ts,  *)
(* the enqueue and retry helpers around it, the cross-tab lock of          *)
(* lib/dexie/net.ts and the logout latch of lib/dexie/schema.ts.           *)
(*                                                                         *)
(* A mutation row is an identifier 1..MaxId (IndexedDB's auto-increment    *)
(* key); what it writes is abstracted to the record it targets.  Every     *)
(* await of the code is a step boundary, so other tabs, the crew member    *)
(* and the network act between any two actions of a drain.                 *)
(***************************************************************************)
EXTENDS Naturals

CONSTANTS
  Tabs,          \* documents of one signed-in crew member, sharing IndexedDB
  Records,       \* (table, targetId) pairs
  Timed,         \* records written through a route handler, with a timeout
  MaxId,         \* bound: mutations ever enqueued
  MaxRetries,    \* MAX_RETRIES
  CircuitBreak,  \* CONSECUTIVE_FAILURE_CIRCUIT_BREAK
  MaxFaults,     \* bound: error answers, lost connections, offline periods
  MaxCrashes,    \* bound: tabs killed or reloaded
  MaxTaps,       \* bound: retry taps, discards and prunes
  NoTab, NoRecord

ASSUME BoundsAssumption ==
  /\ MaxId \in Nat /\ MaxRetries \in Nat \ {0} /\ CircuitBreak \in Nat \ {0}
  /\ MaxFaults \in Nat /\ MaxCrashes \in Nat /\ MaxTaps \in Nat
ASSUME NamesAssumption ==
  /\ Timed \subseteq Records
  /\ NoTab \notin Tabs
  /\ NoRecord \notin Records

VARIABLES
  \* IndexedDB, shared by the tabs
  owner,       \* the record a mutation targets; kept after the row is gone
  state,       \* "none" (no such row), "live", "dead" or "held" (failed = 1)
  retryCount,
  backoff,     \* nextAttemptAt is in the future
  nextId,
  \* per tab: SyncEngine, its drain's locals, and the retry helpers' loop
  pc, redrain, todo, seen, held, blocked, fails, cur, wire, succ,
  clearing, dropping,  \* failed rows still to re-queue, still to delete
  latched,     \* stopped(): disposed, or isDexieShutdown
  \* the device
  lock, online,
  \* the server
  latest,      \* the mutation whose write a record holds, 0 for none
  landed,      \* mutations the server has applied at least once
  stray,       \* requests the client gave up on that may still be executed
  \* history and bounds
  abandoned, intact, refusals, faults, crashes, taps

table   == <<owner, state, retryCount, backoff, nextId>>
pass    == <<todo, seen, held, blocked, fails>>
push    == <<cur, wire, succ>>
engine  == <<pc, redrain, lock>>
client  == <<clearing, dropping, latched, online>>
server  == <<latest, landed, stray>>
history == <<abandoned, intact, refusals>>
bounds  == <<faults, crashes, taps>>
vars    == <<table, pass, push, engine, client, server, history, bounds>>

Ids     == 1..MaxId
Failed  == {"dead", "held"}
Present == {i \in Ids : state[i] # "none"}
Rows(r) == {i \in Present : owner[i] = r}

First(i, S) == i \in S /\ \A j \in S : i <= j

\* Rows are deleted; the counters of a row that is gone are kept at zero.
Remove(S) ==
  /\ state' = [i \in Ids |-> IF i \in S THEN "none" ELSE state[i]]
  /\ retryCount' = [i \in Ids |-> IF i \in S THEN 0 ELSE retryCount[i]]
  /\ backoff' = [i \in Ids |-> IF i \in S THEN FALSE ELSE backoff[i]]
  /\ refusals' = [i \in Ids |-> IF i \in S THEN 0 ELSE refusals[i]]

-----------------------------------------------------------------------------
(***************************************************************************)
(* Ghosts.  A row is guarded while some tab is between dead-lettering an   *)
(* earlier row of its record and marking this one held back.  A record is  *)
(* exposed when a live row stands behind a failed one and is not guarded:  *)
(* the drain may then send it ahead of the write it was made after.        *)
(***************************************************************************)
Guarded(j) ==
  \E t \in Tabs :
    \/ pc[t] = "hold" /\ cur[t] < j /\ owner[cur[t]] = owner[j]
    \/ pc[t] = "holding" /\ j \in succ[t]

Exposed(r) ==
  \E i, j \in Rows(r) :
    i < j /\ state[i] \in Failed /\ state[j] = "live" /\ ~Guarded(j)

\* The steps that can expose a record say so here; every other step leaves
\* intact alone.
NoteExposure == intact' = intact \ {r \in Records : Exposed(r)'}

-----------------------------------------------------------------------------
Init ==
  /\ owner = [i \in Ids |-> NoRecord]
  /\ state = [i \in Ids |-> "none"]
  /\ retryCount = [i \in Ids |-> 0]
  /\ backoff = [i \in Ids |-> FALSE]
  /\ nextId = 1
  /\ pc = [t \in Tabs |-> "idle"]
  /\ redrain = [t \in Tabs |-> FALSE]
  /\ todo = [t \in Tabs |-> {}]
  /\ seen = [t \in Tabs |-> [i \in Ids |-> 0]]
  /\ held = [t \in Tabs |-> {}]
  /\ blocked = [t \in Tabs |-> {}]
  /\ fails = [t \in Tabs |-> 0]
  /\ cur = [t \in Tabs |-> 0]
  /\ wire = [t \in Tabs |-> "none"]
  /\ succ = [t \in Tabs |-> {}]
  /\ clearing = [t \in Tabs |-> {}]
  /\ dropping = [t \in Tabs |-> {}]
  /\ latched = [t \in Tabs |-> FALSE]
  /\ lock = NoTab
  /\ online = TRUE
  /\ latest = [r \in Records |-> 0]
  /\ landed = {}
  /\ stray = {}
  /\ abandoned = {}
  /\ intact = Records
  /\ refusals = [i \in Ids |-> 0]
  /\ faults = 0 /\ crashes = 0 /\ taps = 0

-----------------------------------------------------------------------------
(***************************************************************************)
(* Waking the engine: processOutbox()                                      *)
(***************************************************************************)
\* A call while a drain runs is remembered in redrain, not dropped.
Kick(t) ==
  IF latched[t]
  THEN UNCHANGED <<pc, redrain>>
  ELSE /\ pc' = [pc EXCEPT ![t] = IF @ = "idle" THEN "lock" ELSE @]
       /\ redrain' = [redrain EXCEPT ![t] = pc[t] # "idle"]

\* The 30 s interval, the online event, a mount or the engine's retry timer.
Wake(t) ==
  /\ ~latched[t]
  /\ pc[t] = "idle" \/ ~redrain[t]
  /\ Kick(t)
  /\ UNCHANGED <<lock, table, pass, push, client, server, history, bounds>>

\* Faulty form of Frozen: only the rows present when a row dead-letters are
\* held back.
NeverFrozen(r) == FALSE

\* countFailedForRecord: a dead letter, or a row held back behind one.
Frozen(r) == \E i \in Rows(r) : state[i] \in Failed

\* enqueueMutation: a record with a dead letter is frozen, so the new row is
\* stored already held back; count and add share one transaction.
Enqueue(t, r) ==
  /\ ~latched[t]
  /\ nextId \in Ids
  /\ owner' = [owner EXCEPT ![nextId] = r]
  /\ state' = [state EXCEPT ![nextId] = IF Frozen(r) THEN "held" ELSE "live"]
  /\ nextId' = nextId + 1
  /\ Kick(t)
  /\ UNCHANGED <<retryCount, backoff, lock, pass, push, client, server, history, bounds>>

\* The do/while of processOutbox after a pass, and its finally.
Leave(t) ==
  /\ pc' = [pc EXCEPT ![t] = IF redrain[t] /\ ~latched[t] THEN "lock" ELSE "idle"]
  /\ redrain' = [redrain EXCEPT ![t] = FALSE]

\* Another tab holds the lock: this tab's pass is skipped, not queued.
SkipPass(t) ==
  /\ pc[t] = "lock" /\ lock \notin {NoTab, t}
  /\ Leave(t)
  /\ UNCHANGED <<lock, table, pass, push, client, server, history, bounds>>

ForgetPass(t) ==
  /\ todo' = [todo EXCEPT ![t] = {}]
  /\ seen' = [seen EXCEPT ![t] = [i \in Ids |-> 0]]
  /\ held' = [held EXCEPT ![t] = {}]
  /\ blocked' = [blocked EXCEPT ![t] = {}]
  /\ fails' = [fails EXCEPT ![t] = 0]

ForgetPush(t) ==
  /\ cur' = [cur EXCEPT ![t] = 0]
  /\ wire' = [wire EXCEPT ![t] = "none"]
  /\ succ' = [succ EXCEPT ![t] = {}]

\* Faulty form of ReleaseLock: a pass that ends leaves the lock taken.
KeepLock(t) == UNCHANGED lock

ReleaseLock(t) == lock' = IF lock = t THEN NoTab ELSE lock

EndPass(t) == ForgetPass(t) /\ ForgetPush(t) /\ ReleaseLock(t) /\ Leave(t)

-----------------------------------------------------------------------------
(***************************************************************************)
(* One pass: drain()                                                       *)
(***************************************************************************)
\* The tab lock is granted and the live rows are read, once: later decisions
\* use this snapshot, retry counts included.
Snapshot(t) ==
  /\ pc[t] = "lock" /\ lock = NoTab
  /\ online /\ ~latched[t]
  /\ lock' = t
  /\ todo' = [todo EXCEPT ![t] = {i \in Ids : state[i] = "live"}]
  /\ seen' = [seen EXCEPT ![t] = [i \in Ids |-> IF state[i] = "live" THEN retryCount[i] ELSE 0]]
  /\ held' = [held EXCEPT ![t] = {}]
  /\ blocked' = [blocked EXCEPT ![t] = {}]
  /\ fails' = [fails EXCEPT ![t] = 0]
  /\ pc' = [pc EXCEPT ![t] = "loop"]
  /\ UNCHANGED <<redrain, table, push, client, server, history, bounds>>

\* Faulty form of Candidates: the snapshot is trusted over heldBack.
CandidatesOfSnapshot(t) == {i \in todo[t] : owner[i] \notin blocked[t]}

\* Faulty form of Candidates: a record that has failed in this pass is sent on.
CandidatesUnblocked(t) == {i \in todo[t] : i \notin held[t]}

\* The snapshot's rows the loop does not skip: held back since, or blocked.
Candidates(t) == {i \in todo[t] : i \notin held[t] /\ owner[i] \notin blocked[t]}

\* A row in its retry window blocks its record for the rest of the pass.
BackOff(t) ==
  /\ pc[t] = "loop"
  /\ \E i \in todo[t] :
       /\ First(i, Candidates(t))
       /\ backoff[i]
       /\ blocked' = [blocked EXCEPT ![t] = @ \cup {owner[i]}]
  /\ UNCHANGED <<todo, seen, held, fails, engine, table, push, client, server, history, bounds>>

Send(t) ==
  /\ pc[t] = "loop" /\ online /\ ~latched[t]
  /\ \E i \in todo[t] :
       /\ First(i, Candidates(t))
       /\ ~backoff[i]
       /\ cur' = [cur EXCEPT ![t] = i]
       /\ todo' = [todo EXCEPT ![t] = @ \ {i}]
  /\ wire' = [wire EXCEPT ![t] = "sent"]
  /\ pc' = [pc EXCEPT ![t] = "push"]
  /\ UNCHANGED <<succ, seen, held, blocked, fails, redrain, lock, table, client, server, history, bounds>>

\* The snapshot is exhausted, or the device is offline where the loop looks.
FinishPass(t) ==
  /\ \/ pc[t] = "lock" /\ lock = NoTab /\ ~online
     \/ pc[t] = "loop" /\ Candidates(t) = {}
     \/ /\ pc[t] = "loop" /\ ~online
        /\ \E i \in todo[t] : First(i, Candidates(t)) /\ ~backoff[i]
  /\ EndPass(t)
  /\ UNCHANGED <<table, client, server, history, bounds>>

\* A signed-out engine gives up where it next looks: at the lock, at a loop
\* head, after an upload, or when the closed database rejects its next write.
Abort(t) ==
  /\ latched[t]
  /\ pc[t] # "idle" \/ clearing[t] # {} \/ dropping[t] # {}
  /\ pc[t] = "push" => wire[t] # "sent"
  /\ EndPass(t)
  /\ clearing' = [clearing EXCEPT ![t] = {}]
  /\ dropping' = [dropping EXCEPT ![t] = {}]
  /\ UNCHANGED <<latched, online, table, server, abandoned, refusals, bounds>>
  /\ NoteExposure

-----------------------------------------------------------------------------
(***************************************************************************)
(* The request: uploadOne() and the server.  wire is the answer as the     *)
(* client has it: none yet ("sent"), 2xx ("ok"), a retryable error         *)
(* ("refused"), a permanent one ("rejected"), or a transport failure.      *)
(***************************************************************************)
Awaiting(t) == pc[t] = "push" /\ wire[t] = "sent"

Apply(i) ==
  /\ latest' = [latest EXCEPT ![owner[i]] = i]
  /\ landed' = landed \cup {i}

Accept(t) ==
  /\ Awaiting(t)
  /\ Apply(cur[t])
  /\ wire' = [wire EXCEPT ![t] = "ok"]
  /\ UNCHANGED <<stray, cur, succ, table, pass, engine, client, history, bounds>>

\* The write is in before the answer is known: a handler of two requests
\* (uploadPropertyAssetPhotoUpdate), or a route that fails after its write.
ApplyFirst(t) ==
  /\ Awaiting(t)
  /\ Apply(cur[t])
  /\ UNCHANGED <<stray, table, pass, push, engine, client, history, bounds>>

Refuse(t, answer) ==
  /\ Awaiting(t)
  /\ faults < MaxFaults
  /\ faults' = faults + 1
  /\ wire' = [wire EXCEPT ![t] = answer]
  /\ refusals' = [refusals EXCEPT ![cur[t]] =
                    IF answer = "rejected" THEN MaxRetries ELSE @ + 1]
  /\ UNCHANGED <<cur, succ, crashes, taps, abandoned, intact, table, pass, engine, client, server>>

\* The client's fetch fails.  A request that was already on its way may still
\* be executed later.
GiveUp(t) ==
  /\ wire' = [wire EXCEPT ![t] = "lost"]
  /\ \/ UNCHANGED stray
     \/ wire[t] = "sent" /\ stray' = stray \cup {cur[t]}
  /\ UNCHANGED <<cur, succ, latest, landed, table, pass, engine, client, history, crashes, taps>>

\* AbortSignal.timeout, which only the route handlers' requests carry.
TimeOut(t) ==
  /\ Awaiting(t) /\ owner[cur[t]] \in Timed
  /\ GiveUp(t)
  /\ UNCHANGED faults

\* The connection breaks before the answer is read, whatever it was.
Disconnect(t) ==
  /\ pc[t] = "push" /\ wire[t] # "lost"
  /\ faults < MaxFaults
  /\ faults' = faults + 1
  /\ GiveUp(t)

\* A request the client gave up on is executed after all.
Straggle(i) ==
  /\ i \in stray
  /\ Apply(i)
  /\ stray' = stray \ {i}
  /\ intact' = IF i < latest[owner[i]] THEN intact \ {owner[i]} ELSE intact
  /\ UNCHANGED <<abandoned, refusals, table, pass, push, engine, client, bounds>>

-----------------------------------------------------------------------------
(***************************************************************************)
(* The outcome: pushOne(), handleFailure(), holdBackSuccessors()           *)
(***************************************************************************)
Confirm(t) ==
  /\ pc[t] = "push" /\ wire[t] = "ok" /\ ~latched[t]
  /\ Remove({cur[t]})
  /\ fails' = [fails EXCEPT ![t] = 0]
  /\ pc' = [pc EXCEPT ![t] = "loop"]
  /\ ForgetPush(t)
  /\ UNCHANGED <<owner, nextId, todo, seen, held, blocked, redrain, lock, client, server,
                 abandoned, intact, bounds>>

\* Faulty form of Kind: a transport failure spends the retry budget.
KindWithoutNetwork(t) == IF wire[t] = "rejected" THEN "terminal" ELSE "transient"

\* classifyUploadFailure: offline first, whatever the error looks like.
Kind(t) ==
  IF ~online \/ wire[t] = "lost" THEN "network"
  ELSE IF wire[t] = "rejected" THEN "terminal" ELSE "transient"

Attempts(t) == seen[t][cur[t]] + 1

\* Faulty form of Dies: one attempt too many.
DiesLate(t) == Kind(t) = "terminal" \/ (Kind(t) = "transient" /\ Attempts(t) > MaxRetries)

Dies(t) == Kind(t) = "terminal" \/ (Kind(t) = "transient" /\ Attempts(t) >= MaxRetries)

\* Faulty form of FailedPush: stopped() is not asked again after the upload.
FailedPushSignedOut(t) == pc[t] = "push" /\ wire[t] \in {"refused", "rejected", "lost"}

FailedPush(t) ==
  pc[t] = "push" /\ wire[t] \in {"refused", "rejected", "lost"} /\ ~latched[t]

\* Dexie's update() of a row that is gone changes nothing.
Update(f, i, v) == IF state[i] = "none" THEN f ELSE [f EXCEPT ![i] = v]

\* Kept for later: a transport failure costs no retry.  The record is blocked,
\* and CircuitBreak blocked records in a row end the pass.
Requeue(t) ==
  /\ FailedPush(t) /\ ~Dies(t)
  /\ retryCount' = IF Kind(t) = "transient"
                   THEN Update(retryCount, cur[t], Attempts(t)) ELSE retryCount
  /\ backoff' = Update(backoff, cur[t], TRUE)
  /\ IF fails[t] + 1 >= CircuitBreak
     THEN EndPass(t)
     ELSE /\ blocked' = [blocked EXCEPT ![t] = @ \cup {owner[cur[t]]}]
          /\ fails' = [fails EXCEPT ![t] = @ + 1]
          /\ pc' = [pc EXCEPT ![t] = "loop"]
          /\ ForgetPush(t)
          /\ UNCHANGED <<todo, seen, held, redrain, lock>>
  /\ UNCHANGED <<owner, state, nextId, client, server, history, bounds>>

\* The incident row and the failed flag share a transaction; holding back the
\* record's later rows starts after it.
DeadLetter(t) ==
  /\ FailedPush(t) /\ Dies(t)
  /\ state' = Update(state, cur[t], "dead")
  /\ retryCount' = Update(retryCount, cur[t], Attempts(t))
  /\ pc' = [pc EXCEPT ![t] = "hold"]
  /\ wire' = [wire EXCEPT ![t] = "none"]
  /\ UNCHANGED <<owner, backoff, nextId, cur, succ, pass, redrain, lock, client, server, history, bounds>>

\* Faulty form of HoldRead: the row alone is dead-lettered.
HoldNothing(t) ==
  /\ pc[t] = "hold" /\ ~latched[t]
  /\ pc' = [pc EXCEPT ![t] = "holding"]
  /\ UNCHANGED <<succ, cur, wire, table, pass, redrain, lock, client, server, history, bounds>>

HoldRead(t) ==
  /\ pc[t] = "hold" /\ ~latched[t]
  /\ succ' = [succ EXCEPT ![t] =
                {j \in Rows(owner[cur[t]]) : state[j] = "live" /\ cur[t] < j}]
  /\ pc' = [pc EXCEPT ![t] = "holding"]
  /\ UNCHANGED <<cur, wire, table, pass, redrain, lock, client, server, history, bounds>>

\* One update per successor.
HoldOne(t) ==
  /\ pc[t] = "holding" /\ ~latched[t]
  /\ \E j \in succ[t] :
       /\ First(j, succ[t])
       /\ state' = Update(state, j, "held")
       /\ held' = [held EXCEPT ![t] = @ \cup {j}]
       /\ succ' = [succ EXCEPT ![t] = @ \ {j}]
  /\ UNCHANGED <<owner, retryCount, backoff, nextId, todo, seen, blocked, fails, cur, wire,
                 engine, client, server, abandoned, refusals, bounds>>
  /\ NoteExposure

HoldDone(t) ==
  /\ pc[t] = "holding" /\ succ[t] = {} /\ ~latched[t]
  /\ pc' = [pc EXCEPT ![t] = "loop"]
  /\ fails' = [fails EXCEPT ![t] = 0]
  /\ ForgetPush(t)
  /\ UNCHANGED <<todo, seen, held, blocked, redrain, lock, table, client, server, history, bounds>>

-----------------------------------------------------------------------------
(***************************************************************************)
(* The crew member: retry, discard                                         *)
(***************************************************************************)
\* retryAllFailedMutations (every record) or retryFailedMutation (one): the
\* failed rows are read first and their flags cleared one update at a time.
Retry(t, rs) ==
  /\ ~latched[t] /\ clearing[t] = {}
  /\ taps < MaxTaps
  /\ taps' = taps + 1
  /\ clearing' = [clearing EXCEPT ![t] =
                    {i \in Present : state[i] \in Failed /\ owner[i] \in rs}]
  /\ clearing'[t] # {}
  /\ UNCHANGED <<dropping, latched, online, faults, crashes, table, pass, push, engine, server, history>>

ClearOne(t) ==
  /\ ~latched[t]
  /\ \E j \in clearing[t] :
       /\ First(j, clearing[t])
       /\ state' = Update(state, j, "live")
       /\ retryCount' = Update(retryCount, j, 0)
       /\ backoff' = Update(backoff, j, FALSE)
       /\ refusals' = IF state[j] \in Failed THEN [refusals EXCEPT ![j] = 0] ELSE refusals
       /\ clearing' = [clearing EXCEPT ![t] = @ \ {j}]
  /\ IF clearing'[t] = {} THEN Kick(t) ELSE UNCHANGED <<pc, redrain>>
  /\ UNCHANGED <<owner, nextId, lock, dropping, latched, online, pass, push, server, abandoned, bounds>>
  /\ NoteExposure

\* discardFailedMutation(i), or pruneExpiredDeadLetters with i the youngest
\* failed row past the retention time.  The rows are chosen now and deleted
\* one by one, with awaits between and no second look at them.
PickDiscards(t, i) ==
  /\ ~latched[t] /\ dropping[t] = {}
  /\ taps < MaxTaps
  /\ taps' = taps + 1
  /\ state[i] \in Failed
  /\ \E S \in {{i}, {j \in 1..i : state[j] \in Failed}} :
       dropping' = [dropping EXCEPT ![t] = S]
  /\ UNCHANGED <<clearing, latched, online, faults, crashes, table, pass, push, engine, server, history>>

\* A row a retry has made live again goes all the same; its record may then
\* be sent past a write that still waits.
DropOne(t) ==
  /\ ~latched[t]
  /\ \E j \in dropping[t] :
       /\ First(j, dropping[t])
       /\ Remove({j})
       /\ abandoned' = abandoned \cup ({j} \cap Present)
       /\ intact' = IF state[j] = "live" THEN intact \ {owner[j]} ELSE intact
       /\ dropping' = [dropping EXCEPT ![t] = @ \ {j}]
  /\ UNCHANGED <<owner, nextId, clearing, latched, online, pass, push, engine, server, bounds>>

-----------------------------------------------------------------------------
(***************************************************************************)
(* The device: time, connectivity, a killed tab, logout                    *)
(***************************************************************************)
Elapse(i) ==
  /\ backoff[i]
  /\ backoff' = [backoff EXCEPT ![i] = FALSE]
  /\ UNCHANGED <<owner, state, retryCount, nextId, pass, push, engine, client, server, history, bounds>>

GoOffline ==
  /\ online /\ faults < MaxFaults
  /\ online' = FALSE
  /\ faults' = faults + 1
  /\ UNCHANGED <<clearing, dropping, latched, crashes, taps, table, pass, push, engine, server, history>>

GoOnline ==
  /\ ~online
  /\ online' = TRUE
  /\ UNCHANGED <<clearing, dropping, latched, table, pass, push, engine, server, history, bounds>>

\* A tab is reclaimed or reloaded: its memory goes, IndexedDB and the server
\* stay, the browser releases its lock, and its request may still be executed.
Crash(t) ==
  /\ ~latched[t]
  /\ crashes < MaxCrashes
  /\ crashes' = crashes + 1
  /\ pc' = [pc EXCEPT ![t] = "idle"]
  /\ redrain' = [redrain EXCEPT ![t] = FALSE]
  /\ ForgetPass(t) /\ ForgetPush(t) /\ ReleaseLock(t)
  /\ clearing' = [clearing EXCEPT ![t] = {}]
  /\ dropping' = [dropping EXCEPT ![t] = {}]
  /\ \/ UNCHANGED stray
     \/ Awaiting(t) /\ stray' = stray \cup {cur[t]}
  /\ UNCHANGED <<latched, online, latest, landed, table, abandoned, refusals, faults, taps>>
  /\ NoteExposure

\* performLogout in one tab; the others latch when the broadcast reaches them.
Logout(t) ==
  /\ \A u \in Tabs : ~latched[u]
  /\ latched' = [latched EXCEPT ![t] = TRUE]
  /\ UNCHANGED <<clearing, dropping, online, table, pass, push, engine, server, history, bounds>>

RemoteShutdown(t) ==
  /\ ~latched[t]
  /\ \E u \in Tabs : latched[u]
  /\ latched' = [latched EXCEPT ![t] = TRUE]
  /\ UNCHANGED <<clearing, dropping, online, table, pass, push, engine, server, history, bounds>>

\* The delete is blocked until every tab has closed its connection.
Wipe ==
  /\ \A t \in Tabs : latched[t]
  /\ Present # {}
  /\ Remove(Present)
  /\ abandoned' = abandoned \cup Present
  /\ UNCHANGED <<owner, nextId, intact, pass, push, engine, client, server, bounds>>

-----------------------------------------------------------------------------
EngineStep(t) ==
  \/ Snapshot(t) \/ SkipPass(t) \/ BackOff(t) \/ Send(t) \/ FinishPass(t)
  \/ Abort(t) \/ Confirm(t) \/ Requeue(t) \/ DeadLetter(t)
  \/ HoldRead(t) \/ HoldOne(t) \/ HoldDone(t) \/ ClearOne(t) \/ DropOne(t)

Next ==
  \/ \E t \in Tabs :
       \/ EngineStep(t)
       \/ Wake(t)
       \/ \E r \in Records : Enqueue(t, r)
       \/ Accept(t) \/ ApplyFirst(t) \/ TimeOut(t) \/ Disconnect(t)
       \/ \E answer \in {"refused", "rejected"} : Refuse(t, answer)
       \/ \E rs \in {Records} \cup {{r} : r \in Records} : Retry(t, rs)
       \/ \E i \in Ids : PickDiscards(t, i)
       \/ Crash(t) \/ Logout(t) \/ RemoteShutdown(t)
  \/ \E i \in Ids : Straggle(i) \/ Elapse(i)
  \/ GoOffline \/ GoOnline \/ Wipe

Spec == Init /\ [][Next]_vars

-----------------------------------------------------------------------------
(***************************************************************************)
(* Safety                                                                  *)
(***************************************************************************)
TableOK ==
  /\ owner \in [Ids -> Records \cup {NoRecord}]
  /\ state \in [Ids -> {"none", "live"} \cup Failed]
  /\ retryCount \in [Ids -> 0..MaxRetries]
  /\ backoff \in [Ids -> BOOLEAN]
  /\ nextId \in 1..(MaxId + 1)

PassOK ==
  /\ todo \in [Tabs -> SUBSET Ids]
  /\ seen \in [Tabs -> [Ids -> 0..(MaxRetries - 1)]]
  /\ held \in [Tabs -> SUBSET Ids]
  /\ blocked \in [Tabs -> SUBSET Records]
  /\ fails \in [Tabs -> 0..CircuitBreak]

PushOK ==
  /\ cur \in [Tabs -> Ids \cup {0}]
  /\ wire \in [Tabs -> {"none", "sent", "ok", "refused", "rejected", "lost"}]
  /\ succ \in [Tabs -> SUBSET Ids]

EngineOK ==
  /\ pc \in [Tabs -> {"idle", "lock", "loop", "push", "hold", "holding"}]
  /\ redrain \in [Tabs -> BOOLEAN]
  /\ lock \in Tabs \cup {NoTab}

ClientOK ==
  /\ clearing \in [Tabs -> SUBSET Ids]
  /\ dropping \in [Tabs -> SUBSET Ids]
  /\ latched \in [Tabs -> BOOLEAN]
  /\ online \in BOOLEAN

ServerOK ==
  /\ latest \in [Records -> Ids \cup {0}]
  /\ landed \subseteq Ids
  /\ stray \subseteq Ids

HistoryOK ==
  /\ abandoned \subseteq Ids
  /\ intact \subseteq Records
  /\ refusals \in [Ids -> Nat]

BoundsOK == faults \in 0..MaxFaults /\ crashes \in 0..MaxCrashes /\ taps \in 0..MaxTaps

\* Every variable has its type; in particular a retry count never exceeds
\* MAX_RETRIES and the drain never carries one that has reached it.
TypeOK ==
  /\ TableOK /\ PassOK /\ PushOK /\ EngineOK
  /\ ClientOK /\ ServerOK /\ HistoryOK /\ BoundsOK

\* "A record with a dead letter is FROZEN" (enqueueMutationTx,
\* holdBackSuccessors): in a record no step has exposed, no unguarded live row
\* stands behind a failed one.
FrozenBehindDeadLetter == \A r \in intact : ~Exposed(r)

\* A mutation dead-letters only after the server itself refused it: once for
\* good, or MaxRetries times since it was last queued.  Transport failures
\* and offline periods never add up to a dead letter (handleFailure).
DeadLettersWereRefused ==
  \A i \in Ids : state[i] = "dead" => refusals[i] >= MaxRetries

\* The drain works from a snapshot, yet never sends a row that was failed or
\* retired since it was read (heldBack and blockedRecords in drain()); only a
\* row discarded in between can still go out.
SendsOnlyLiveRows ==
  [][\A t \in Tabs :
       pc[t] = "loop" /\ pc'[t] = "push" =>
         state[cur'[t]] = "live" \/ cur'[t] \in abandoned]_vars

\* "Retry all replays tick-then-un-tick in the order the crew member actually
\* performed them" (syncService.ts:466-469, 1098-1110; helpers.ts:218-222): the
\* drain never sends a write over a newer one of the same record.  Not true of
\* the code after a crash between dead-lettering and holding back, nor of a
\* retry whose loop a drain overtakes.
ReplaysInOrder ==
  [][\A t \in Tabs :
       Awaiting(t) /\ wire'[t] = "ok" => latest[owner[cur[t]]] <= cur[t]]_vars

\* Where it is true: until the first retry or discard no write is answered "ok"
\* over a newer one of its record, whatever crashes, signs out or straggles,
\* and whichever records have lost their order.
OrderedUntilTap ==
  [][taps = 0 => \A t \in Tabs :
       Awaiting(t) /\ wire'[t] = "ok" => latest[owner[cur[t]]] <= cur[t]]_vars

\* "Collects dead letters the crew member never acted on" (prune.ts:281): a row
\* the crew member has re-queued stays until the server has it or the tabs are
\* signed out.  Not true of the code: the rows to delete are chosen once.
RequeuedRowsAreKept ==
  [][\A i \in Ids :
       state[i] = "live" /\ state'[i] = "none" =>
         i \in landed \/ \A t \in Tabs : latched[t]]_vars

\* Once every tab is signed out nothing touches the outbox but its deletion
\* (stopped(), the shutdown latch of schema.ts).
SignedOutIsInert ==
  [][(\A t \in Tabs : latched[t]) =>
       \/ <<owner, state, retryCount, nextId>>' = <<owner, state, retryCount, nextId>>
       \/ owner' = owner /\ Present' = {}]_vars

\* What the crew member is promised: see OrderedWrites.
Promise == INSTANCE OrderedWrites WITH waiting <- Present
KeepsOrder == Promise!Spec

-----------------------------------------------------------------------------
(***************************************************************************)
(* Liveness.  A client's own steps are never stopped for good, its timers  *)
(* and the 30 s interval fire, a retry window ends, the broadcast of a     *)
(* logout arrives.                                                         *)
(***************************************************************************)
ClientFairness ==
  /\ \A t \in Tabs :
       /\ WF_vars(EngineStep(t)) /\ WF_vars(ClearOne(t)) /\ WF_vars(DropOne(t))
       /\ WF_vars(Wake(t))
       /\ WF_vars(TimeOut(t)) /\ WF_vars(RemoteShutdown(t))
  /\ \A i \in Ids : WF_vars(Elapse(i))
  /\ WF_vars(Wipe)

\* The device comes back online, and a server asked again and again answers.
EnvironmentFairness ==
  /\ WF_vars(GoOnline)
  /\ \A t \in Tabs : SF_vars(Accept(t))

ClientSpec == Spec /\ ClientFairness
FairSpec == ClientSpec /\ EnvironmentFairness

\* No queued write waits forever: it reaches the server, or becomes a dead
\* letter the crew member can see, or goes with the database at logout.
LiveRowsLeave == \A i \in Ids : state[i] = "live" ~> state[i] # "live"

\* An upload ends whatever the server does: lib/http/timeout.ts:58-85 on why
\* a request of this drain must be able to time out.
PushesEnd == \A t \in Tabs : pc[t] = "push" ~> pc[t] # "push" \/ latched[t]
=============================================================================
