----------------------- MODULE DashboardOutboxProofs -----------------------
(***************************************************************************)
(* Proofs about DashboardOutbox, for any tabs, records, rows, retries,     *)
(* faults, reloads and taps.                                               *)
(***************************************************************************)
EXTENDS DashboardOutbox, TLAPS

\* The rows there have been.
Issued == {i \in Ids : i < nextId}

Draining(t) == pc[t] \in {"loop", "push"}

\* What a drain still has to do, the row on the wire included.
Pending(t) == IF pc[t] = "push" THEN todo[t] \cup {cur[t]} ELSE todo[t]

-----------------------------------------------------------------------------
(***************************************************************************)
(* Types.  A retry count stays within MAX_RETRIES only because a drain     *)
(* sends live rows only, which have an attempt left.                       *)
(***************************************************************************)
IdsKnown ==
  /\ \A i \in Ids : owner[i] # NoRecord <=> i \in Issued
  /\ \A i \in Ids : state[i] # "none" => i \in Issued
  /\ stray \subseteq Issued /\ landed \subseteq Issued
  /\ \A r \in Records : latest[r] = 0 \/ latest[r] \in Issued

AttemptLeft == \A i \in Ids : state[i] # "dead" => retryCount[i] < MaxRetries

\* Nobody takes a row away from under a drain.
DrainsLive ==
  \A t \in Tabs :
    /\ Draining(t) => Pending(t) \subseteq Live
    /\ ~Draining(t) => todo[t] = {}
    /\ pc[t] = "push" => \A j \in todo[t] : cur[t] < j

TypeInv == TypeOK /\ IdsKnown /\ AttemptLeft /\ DrainsLive

LEMMA Constants ==
  /\ MaxId \in Nat /\ MaxRetries \in Nat /\ MaxRetries > 0 /\ 0 \in 0..MaxRetries
  /\ MaxFaults \in Nat /\ MaxReloads \in Nat /\ MaxTaps \in Nat
  /\ NoTab \notin Tabs /\ NoRecord \notin Records
BY OutboxAssumption

LEMMA TypeInit == Init => TypeInv
BY Constants
DEF Init, TypeInv, TypeOK, IdsKnown, AttemptLeft, DrainsLive, Draining, Pending,
   Issued, Ids, Live, NoTries

\* A kick starts a drain or finds one, and disturbs none.
LEMMA KickFacts ==
  ASSUME TypeOK, NEW t \in Tabs, NEW ignore \in BOOLEAN, Kick(t, ignore), state' \in [Ids -> {"none", "live", "dead"}]
  PROVE  /\ pc' \in [Tabs -> {"idle", "lock", "loop", "push"}] /\ eager' \in [Tabs -> BOOLEAN]
         /\ missed' \subseteq Ids
         /\ \A u \in Tabs : /\ pc'[u] \in {"loop", "push"} <=> pc[u] \in {"loop", "push"}
                            /\ pc'[u] = "push" <=> pc[u] = "push"
<1>1. CASE pc[t] = "idle"
  <2>1. /\ pc' = [pc EXCEPT ![t] = "lock"] /\ eager' = [eager EXCEPT ![t] = ignore]
        /\ missed' = missed
    BY <1>1 DEF Kick
  <2>2. /\ pc \in [Tabs -> {"idle", "lock", "loop", "push"}]
        /\ eager \in [Tabs -> BOOLEAN] /\ missed \subseteq Ids
    BY DEF TypeOK
  <2> QED
    BY <1>1, <2>1, <2>2
<1>2. CASE pc[t] # "idle"
  BY <1>2 DEF Kick, TypeOK, LeftTo, Live
<1> QED
  BY <1>1, <1>2

\* A drain that leaves has nothing left in hand, and no other is disturbed.
LEMMA LeaveFacts ==
  ASSUME TypeOK, NEW t \in Tabs, Leave(t)
  PROVE  /\ pc' \in [Tabs -> {"idle", "lock", "loop", "push"}] /\ eager' \in [Tabs -> BOOLEAN]
         /\ todo' \in [Tabs -> SUBSET Ids] /\ cur' \in [Tabs -> Ids \cup {0}]
         /\ wire' \in [Tabs -> {"none", "sent", "ok", "refused", "rejected", "lost"}]
         /\ tries' \in [Tabs -> [Ids -> 0..(MaxRetries - 1)]]
         /\ held' \in [Tabs -> SUBSET Ids] /\ lock' \in Tabs \cup {NoTab}
         /\ pc'[t] = "idle" /\ todo'[t] = {}
         /\ \A u \in Tabs \ {t} : /\ pc'[u] = pc[u] /\ todo'[u] = todo[u]
                                  /\ cur'[u] = cur[u] /\ wire'[u] = wire[u]
         /\ \A u \in Tabs : pc'[u] \in {"loop", "push"} <=> lock' = u
<1>1. NoTries \in [Ids -> 0..(MaxRetries - 1)]
  BY Constants DEF NoTries
<1> QED
  BY <1>1, Constants DEF Leave, TypeOK

\* So what the drains have in hand is still live.
LEMMA LeaveDrains ==
  ASSUME TypeOK, DrainsLive, NEW t \in Tabs, Leave(t), state' = state
  PROVE  DrainsLive'
<1>1. /\ pc'[t] = "idle" /\ todo'[t] = {}
      /\ \A u \in Tabs \ {t} : pc'[u] = pc[u] /\ todo'[u] = todo[u] /\ cur'[u] = cur[u]
  BY LeaveFacts
<1> QED
  BY <1>1 DEF DrainsLive, Draining, Pending, Live

\* The drains are where they were, and their rows live.
DrainsStay ==
  /\ todo' = todo /\ cur' = cur
  /\ \A u \in Tabs : /\ pc'[u] \in {"loop", "push"} <=> pc[u] \in {"loop", "push"}
                     /\ pc'[u] = "push" <=> pc[u] = "push"

LEMMA DrainsFrame ==
  ASSUME DrainsLive, DrainsStay, \A i \in Ids : state[i] = "live" => state'[i] = "live"
  PROVE  DrainsLive'
<1> SUFFICES ASSUME NEW u \in Tabs
             PROVE  /\ Draining(u)' => Pending(u)' \subseteq Live'
                    /\ ~Draining(u)' => todo'[u] = {}
                    /\ pc'[u] = "push" => \A j \in todo'[u] : cur'[u] < j
  BY DEF DrainsLive
<1>1. Pending(u)' = Pending(u)
  BY DEF DrainsStay, Pending
<1>2. Draining(u)' <=> Draining(u)
  BY DEF DrainsStay, Draining
<1>3. Live \subseteq Live'
  BY DEF Live, Ids
<1> QED
  BY <1>1, <1>2, <1>3 DEF DrainsLive, DrainsStay

LEMMA TypeStep == TypeInv /\ [Next]_vars => TypeInv'
<1> SUFFICES ASSUME TypeInv, [Next]_vars PROVE TypeInv'
  OBVIOUS
<1> USE Constants DEF TypeInv, table, drain, engine, server, history, bounds
<1>1. ASSUME NEW t \in Tabs, Skip(t) PROVE TypeInv'
  <2>1. TypeOK'
    BY <1>1, LeaveFacts DEF Skip, LeftTo, TypeOK, Live
  <2>2. IdsKnown'
    BY <1>1, LeaveFacts DEF Skip, LeftTo, TypeOK, IdsKnown, Issued, DrainsLive,
       Pending, Live
  <2>3. AttemptLeft'
    BY <1>1, LeaveFacts DEF Skip, LeftTo, TypeOK, AttemptLeft, DrainsLive,
       Pending, Draining, Live
  <2>4. DrainsLive'
    BY <1>1, LeaveDrains DEF Skip
  <2> QED
    BY <2>1, <2>2, <2>3, <2>4
<1>2. ASSUME NEW t \in Tabs, GiveUpOffline(t) PROVE TypeInv'
  <2>1. TypeOK'
    BY <1>2, LeaveFacts DEF GiveUpOffline, TypeOK, Live
  <2>2. IdsKnown'
    BY <1>2, LeaveFacts DEF GiveUpOffline, TypeOK, IdsKnown, Issued, DrainsLive,
       Pending, Live
  <2>3. AttemptLeft'
    BY <1>2, LeaveFacts DEF GiveUpOffline, TypeOK, AttemptLeft, DrainsLive,
       Pending, Draining, Live
  <2>4. DrainsLive'
    BY <1>2, LeaveDrains DEF GiveUpOffline
  <2> QED
    BY <2>1, <2>2, <2>3, <2>4
<1>3. ASSUME NEW t \in Tabs, Finish(t) PROVE TypeInv'
  <2>1. TypeOK'
    BY <1>3, LeaveFacts DEF Finish, TypeOK, Live
  <2>2. IdsKnown'
    BY <1>3, LeaveFacts DEF Finish, TypeOK, IdsKnown, Issued, DrainsLive,
       Pending, Live
  <2>3. AttemptLeft'
    BY <1>3, LeaveFacts DEF Finish, TypeOK, AttemptLeft, DrainsLive, Pending,
       Draining, Live
  <2>4. DrainsLive'
    BY <1>3, LeaveDrains DEF Finish
  <2> QED
    BY <2>1, <2>2, <2>3, <2>4
<1>4. ASSUME NEW t \in Tabs, BackOff(t) PROVE TypeInv'
  <2>1. TypeOK'
    BY <1>4, LeaveFacts DEF BackOff, ScheduleRetry, TypeOK, Live
  <2>2. IdsKnown'
    BY <1>4, LeaveFacts DEF BackOff, ScheduleRetry, TypeOK, IdsKnown, Issued,
       DrainsLive, Pending, Live
  <2>3. AttemptLeft'
    BY <1>4, LeaveFacts DEF BackOff, ScheduleRetry, TypeOK, AttemptLeft,
       DrainsLive, Pending, Draining, Live
  <2>4. DrainsLive'
    BY <1>4, LeaveDrains DEF BackOff
  <2> QED
    BY <2>1, <2>2, <2>3, <2>4
<1>5. ASSUME NEW t \in Tabs, Requeue(t) PROVE TypeInv'
  <2>1. TypeOK'
    BY <1>5, LeaveFacts DEF Requeue, ScheduleRetry, Update, FailedPush, Dies,
       Attempts, Kind, TypeOK, Live, DrainsLive, Pending, Draining, AttemptLeft
  <2>2. IdsKnown'
    BY <1>5, LeaveFacts DEF Requeue, ScheduleRetry, Update, FailedPush, Dies,
       Attempts, Kind, TypeOK, IdsKnown, Issued, DrainsLive, Pending, Live
  <2>3. AttemptLeft'
    BY <1>5, LeaveFacts DEF Requeue, ScheduleRetry, Update, FailedPush, Dies,
       Attempts, Kind, TypeOK, AttemptLeft, DrainsLive, Pending, Draining, Live
  <2>4. DrainsLive'
    BY <1>5, LeaveDrains DEF Requeue
  <2> QED
    BY <2>1, <2>2, <2>3, <2>4
<1>6. ASSUME NEW t \in Tabs, Reload(t) PROVE TypeInv'
  <2>1. TypeOK'
    <3>1. stray' \subseteq Ids
      BY <1>6 DEF Reload, Awaiting, DrainsLive, Draining, Pending, Live, TypeOK
    <3> QED
      BY <1>6, <3>1, LeaveFacts DEF Reload, TypeOK, Live
  <2>2. IdsKnown'
    <3>1. stray' \subseteq Issued
      BY <1>6 DEF Reload, Awaiting, DrainsLive, Draining, Pending, Live, IdsKnown
    <3> QED
      BY <1>6, <3>1 DEF Reload, IdsKnown, Issued
  <2>3. AttemptLeft'
    BY <1>6, LeaveFacts DEF Reload, Awaiting, TypeOK, AttemptLeft, DrainsLive,
       Pending, Draining, Live
  <2>4. DrainsLive'
    BY <1>6, LeaveDrains DEF Reload
  <2> QED
    BY <2>1, <2>2, <2>3, <2>4
<1>7. ASSUME NEW t \in Tabs, Snapshot(t) PROVE TypeInv'
  <2>1. TypeOK'
    <3>1. [i \in Ids |-> IF i \in Live THEN retryCount[i] ELSE 0]
            \in [Ids -> 0..(MaxRetries - 1)]
      BY DEF TypeOK, AttemptLeft, Live
    <3>2. /\ tries' \in [Tabs -> [Ids -> 0..(MaxRetries - 1)]]
          /\ held' \in [Tabs -> SUBSET Ids] /\ todo' \in [Tabs -> SUBSET Ids]
      BY <1>7, <3>1 DEF Snapshot, TypeOK, Live
    <3> QED
      BY <1>7, <3>2 DEF Snapshot, NoteExposure, TypeOK
  <2>2. IdsKnown'
    BY <1>7 DEF Snapshot, NoteExposure, TypeOK, IdsKnown, Issued, DrainsLive,
       Pending, Live
  <2>3. AttemptLeft'
    BY <1>7 DEF Snapshot, NoteExposure, TypeOK, AttemptLeft, DrainsLive,
       Pending, Draining, Live
  <2>4. DrainsLive'
    BY <1>7 DEF Snapshot, NoteExposure, TypeOK, DrainsLive, Pending, Draining, Live
  <2> QED
    BY <2>1, <2>2, <2>3, <2>4
<1>8. ASSUME NEW t \in Tabs, Send(t) PROVE TypeInv'
  <2>1. TypeOK'
    BY <1>8 DEF Send, First, TypeOK, Live
  <2>2. IdsKnown'
    BY <1>8 DEF Send, First, TypeOK, IdsKnown, Issued, DrainsLive, Pending, Live
  <2>3. AttemptLeft'
    BY <1>8 DEF Send, First, TypeOK, AttemptLeft, DrainsLive, Pending, Draining,
       Live
  <2>4. DrainsLive'
    <3>1. PICK i \in todo[t] : /\ First(i, todo[t])
                              /\ cur' = [cur EXCEPT ![t] = i]
                              /\ todo' = [todo EXCEPT ![t] = @ \ {i}]
      BY <1>8 DEF Send, Due
    <3>2. /\ pc[t] = "loop" /\ pc' = [pc EXCEPT ![t] = "push"] /\ state' = state
          /\ Pending(t) = todo[t] /\ i \in Ids
      BY <1>8 DEF Send, Pending, TypeOK
    <3>3. cur'[t] = i /\ todo'[t] = todo[t] \ {i} /\ pc'[t] = "push"
      BY <3>1, <3>2 DEF TypeOK
    <3>4. \A j \in todo'[t] : i < j
      BY <3>1, <3>2, <3>3 DEF First, TypeOK, Ids
    <3>5. Pending(t)' = todo[t]
      BY <3>1, <3>3 DEF Pending
    <3>6. \A u \in Tabs \ {t} : /\ pc'[u] = pc[u] /\ todo'[u] = todo[u] /\ cur'[u] = cur[u]
                                /\ Pending(u)' = Pending(u)
      BY <3>1, <3>2 DEF TypeOK, Pending
    <3> QED
      BY <3>2, <3>3, <3>4, <3>5, <3>6 DEF DrainsLive, Draining, Live
  <2> QED
    BY <2>1, <2>2, <2>3, <2>4
<1>9. ASSUME NEW t \in Tabs, Confirm(t) PROVE TypeInv'
  <2>1. TypeOK'
    <3>1. /\ state' \in [Ids -> {"none", "live", "dead"}]
          /\ retryCount' \in [Ids -> 0..MaxRetries] /\ backoff' \in [Ids -> BOOLEAN]
      BY <1>9 DEF Confirm, TypeOK
    <3> QED
      BY <1>9, <3>1 DEF Confirm, NextRow, TypeOK
  <2>2. IdsKnown'
    BY <1>9 DEF Confirm, NextRow, TypeOK, IdsKnown, Issued, DrainsLive, Pending,
       Live
  <2>3. AttemptLeft'
    BY <1>9 DEF Confirm, NextRow, TypeOK, AttemptLeft, DrainsLive, Pending,
       Draining, Live
  <2>4. DrainsLive'
    <3>1. /\ pc[t] = "push" /\ pc' = [pc EXCEPT ![t] = "loop"] /\ cur' = [cur EXCEPT ![t] = 0]
          /\ todo' = todo
      BY <1>9 DEF Confirm, NextRow
    <3>2. \A i \in Ids \ {cur[t]} : state'[i] = state[i]
      BY <1>9 DEF Confirm, Update, TypeOK
    <3>3. /\ Pending(t)' = todo[t] /\ \A j \in todo[t] : j \in Live /\ cur[t] < j
          /\ cur[t] \in Ids
      BY <3>1 DEF Pending, DrainsLive, Draining, TypeOK, Live
    <3>4. Pending(t)' \subseteq Live'
      BY <3>2, <3>3 DEF Live, Ids
    <3>5. \A u \in Tabs \ {t} : ~Draining(u) /\ ~Draining(u)'
      BY <3>1 DEF TypeOK, Draining
    <3>6. /\ Draining(t)' /\ pc'[t] # "push"
          /\ \A u \in Tabs \ {t} : pc'[u] # "push"
      BY <3>1, <3>5 DEF TypeOK, Draining
    <3> QED
      BY <3>1, <3>4, <3>5, <3>6 DEF DrainsLive
  <2> QED
    BY <2>1, <2>2, <2>3, <2>4
<1>10. ASSUME NEW t \in Tabs, DeadLetter(t) PROVE TypeInv'
  <2>1. TypeOK'
    BY <1>10 DEF DeadLetter, NextRow, NoteExposure, Update, FailedPush, Dies,
       Attempts, Kind, TypeOK, Live, DrainsLive, Pending, Draining, AttemptLeft
  <2>2. IdsKnown'
    BY <1>10 DEF DeadLetter, NextRow, NoteExposure, Update, FailedPush, Dies,
       Attempts, Kind, TypeOK, IdsKnown, Issued, DrainsLive, Pending, Live
  <2>3. AttemptLeft'
    BY <1>10 DEF DeadLetter, NextRow, NoteExposure, Update, FailedPush, Dies,
       Attempts, Kind, TypeOK, AttemptLeft, DrainsLive, Pending, Draining, Live
  <2>4. DrainsLive'
    <3>1. /\ pc[t] = "push" /\ pc' = [pc EXCEPT ![t] = "loop"] /\ cur' = [cur EXCEPT ![t] = 0]
          /\ todo' = todo
      BY <1>10 DEF DeadLetter, FailedPush, NextRow
    <3>2. \A i \in Ids \ {cur[t]} : state'[i] = state[i]
      BY <1>10 DEF DeadLetter, FailedPush, Update, TypeOK
    <3>3. /\ Pending(t)' = todo[t] /\ \A j \in todo[t] : j \in Live /\ cur[t] < j
          /\ cur[t] \in Ids
      BY <3>1 DEF Pending, DrainsLive, Draining, TypeOK, Live
    <3>4. Pending(t)' \subseteq Live'
      BY <3>2, <3>3 DEF Live, Ids
    <3>5. \A u \in Tabs \ {t} : ~Draining(u) /\ ~Draining(u)'
      BY <3>1 DEF TypeOK, Draining
    <3>6. /\ Draining(t)' /\ pc'[t] # "push"
          /\ \A u \in Tabs \ {t} : pc'[u] # "push"
      BY <3>1, <3>5 DEF TypeOK, Draining
    <3> QED
      BY <3>1, <3>4, <3>5, <3>6 DEF DrainsLive
  <2> QED
    BY <2>1, <2>2, <2>3, <2>4
<1>11. ASSUME NEW t \in Tabs, Fire(t) PROVE TypeInv'
  <2>1. TypeOK'
    <3>1. /\ Kick(t, FALSE) /\ UNCHANGED state /\ timer' = [timer EXCEPT ![t] = 0]
          /\ state' \in [Ids -> {"none", "live", "dead"}]
      BY <1>11 DEF Fire, TypeOK
    <3>2. /\ pc' \in [Tabs -> {"idle", "lock", "loop", "push"}] /\ eager' \in [Tabs -> BOOLEAN]
          /\ missed' \subseteq Ids
          /\ \A u \in Tabs : pc'[u] \in {"loop", "push"} <=> pc[u] \in {"loop", "push"}
      BY <3>1, KickFacts
    <3> QED
      BY <1>11, <3>1, <3>2 DEF Fire, TypeOK
  <2>2. IdsKnown'
    BY <1>11, KickFacts DEF Fire, TypeOK, IdsKnown, Issued, DrainsLive, Pending,
       Live
  <2>3. AttemptLeft'
    BY <1>11, KickFacts DEF Fire, TypeOK, AttemptLeft, DrainsLive, Pending,
       Draining, Live
  <2>4. DrainsLive'
    <3>1. /\ Kick(t, FALSE) /\ UNCHANGED state /\ todo' = todo /\ cur' = cur
          /\ state' \in [Ids -> {"none", "live", "dead"}]
      BY <1>11 DEF Fire, TypeOK
    <3>2. DrainsStay
      BY <3>1, KickFacts DEF DrainsStay
    <3> QED
      BY <3>1, <3>2, DrainsFrame
  <2> QED
    BY <2>1, <2>2, <2>3, <2>4
<1>12. ASSUME NEW t \in Tabs, NEW r \in Records, Enqueue(t, r) PROVE TypeInv'
  <2>1. /\ nextId \in Ids /\ nextId \notin Issued /\ state[nextId] = "none"
        /\ retryCount[nextId] < MaxRetries
    BY <1>12 DEF Enqueue, Issued, Ids, IdsKnown, AttemptLeft
  <2>2. /\ owner' = [owner EXCEPT ![nextId] = r] /\ state' = [state EXCEPT ![nextId] = "live"]
        /\ nextId' = nextId + 1 /\ Kick(t, FALSE)
        /\ state' \in [Ids -> {"none", "live", "dead"}]
        /\ UNCHANGED <<retryCount, backoff, drain, timer, lock, clearing, online, server,
                       abandoned, intact, bounds>>
    BY <1>12 DEF Enqueue, TypeOK
  <2>3. /\ pc' \in [Tabs -> {"idle", "lock", "loop", "push"}] /\ eager' \in [Tabs -> BOOLEAN]
        /\ missed' \subseteq Ids
        /\ \A u \in Tabs : /\ pc'[u] \in {"loop", "push"} <=> pc[u] \in {"loop", "push"}
                           /\ pc'[u] = "push" <=> pc[u] = "push"
    BY <2>2, KickFacts
  <2>4. TypeOK'
    <3>1. /\ owner' \in [Ids -> Records \cup {NoRecord}] /\ nextId' \in 1..(MaxId + 1)
          /\ state' \in [Ids -> {"none", "live", "dead"}]
      BY <2>1, <2>2 DEF TypeOK, Ids
    <3>2. \A u \in Tabs : pc'[u] \in {"loop", "push"} <=> lock' = u
      BY <2>2, <2>3 DEF TypeOK
    <3> QED
      BY <2>2, <2>3, <3>1, <3>2 DEF TypeOK
  <2>5. IdsKnown'
    <3>1. Issued' = Issued \cup {nextId}
      BY <2>1, <2>2 DEF Issued, Ids
    <3>2. \A i \in Ids : i = nextId \/ (owner'[i] = owner[i] /\ state'[i] = state[i])
      BY <2>2 DEF TypeOK
    <3>3. owner'[nextId] = r /\ r # NoRecord
      BY <2>1, <2>2 DEF TypeOK
    <3> QED
      BY <2>1, <2>2, <3>1, <3>2, <3>3 DEF IdsKnown
  <2>6. AttemptLeft'
    BY <2>1, <2>2 DEF AttemptLeft, TypeOK
  <2>7. DrainsLive'
    <3>1. DrainsStay
      BY <2>2, <2>3 DEF DrainsStay
    <3> QED
      BY <2>1, <2>2, <3>1, DrainsFrame DEF TypeOK
  <2> QED
    BY <2>4, <2>5, <2>6, <2>7
<1>13. ASSUME NEW t \in Tabs, ClearOne(t) PROVE TypeInv'
  <2>1. PICK i \in clearing[t] :
          /\ state' = Update(state, i, "live") /\ retryCount' = Update(retryCount, i, 0)
          /\ backoff' = Update(backoff, i, FALSE)
          /\ clearing' = [clearing EXCEPT ![t] = @ \ {i}]
    BY <1>13 DEF ClearOne
  <2>2. /\ i \in Ids /\ state' \in [Ids -> {"none", "live", "dead"}]
        /\ retryCount' \in [Ids -> 0..MaxRetries] /\ backoff' \in [Ids -> BOOLEAN]
        /\ \A j \in Ids : /\ state'[j] = state[j] \/ (state[j] # "none" /\ state'[j] = "live")
                          /\ retryCount'[j] = retryCount[j] \/ retryCount'[j] = 0
                          /\ state'[j] = state[j] \/ retryCount'[j] = 0
    BY <2>1 DEF Update, TypeOK
  <2>3. /\ Kick(t, TRUE) \/ UNCHANGED <<pc, eager, missed>>
        /\ UNCHANGED <<owner, nextId, drain, timer, lock, online, server, abandoned, intact, bounds>>
    BY <1>13 DEF ClearOne
  <2>4. /\ pc' \in [Tabs -> {"idle", "lock", "loop", "push"}] /\ eager' \in [Tabs -> BOOLEAN]
        /\ missed' \subseteq Ids
        /\ \A u \in Tabs : /\ pc'[u] \in {"loop", "push"} <=> pc[u] \in {"loop", "push"}
                           /\ pc'[u] = "push" <=> pc[u] = "push"
    <3>1. CASE Kick(t, TRUE)
      BY <2>2, <3>1, KickFacts
    <3>2. CASE UNCHANGED <<pc, eager, missed>>
      BY <3>2 DEF TypeOK
    <3> QED
      BY <2>3, <3>1, <3>2
  <2>5. TypeOK'
    BY <2>1, <2>2, <2>3, <2>4 DEF TypeOK
  <2>6. IdsKnown'
    BY <2>2, <2>3 DEF IdsKnown, Issued
  <2>7. AttemptLeft'
    BY <2>2 DEF AttemptLeft
  <2>8. DrainsLive'
    <3>1. DrainsStay
      BY <2>3, <2>4 DEF DrainsStay
    <3> QED
      BY <2>2, <3>1, DrainsFrame
  <2> QED
    BY <2>5, <2>6, <2>7, <2>8
<1>14. ASSUME NEW t \in Tabs, Accept(t) PROVE TypeInv'
  <2>0. /\ cur[t] \in Ids /\ cur[t] \in Issued /\ owner[cur[t]] \in Records
    BY <1>14 DEF Accept, Awaiting, DrainsLive, Draining, Pending, Live,
       IdsKnown, TypeOK
  <2>1. TypeOK'
    BY <1>14, <2>0 DEF Accept, Awaiting, Apply, Answered, TypeOK
  <2>2. IdsKnown'
    BY <1>14, <2>0 DEF Accept, Apply, Answered, TypeOK, IdsKnown, Issued
  <2>3. AttemptLeft'
    BY <1>14 DEF Accept, Awaiting, Apply, Answered, TypeOK, AttemptLeft,
       DrainsLive, Pending, Draining, Live
  <2>4. DrainsLive'
    BY <1>14 DEF Accept, Awaiting, Apply, Answered, TypeOK, DrainsLive, Pending,
       Draining, Live
  <2> QED
    BY <2>1, <2>2, <2>3, <2>4
<1>15. ASSUME NEW t \in Tabs, Disconnect(t) PROVE TypeInv'
  <2>0. cur[t] \in Ids /\ cur[t] \in Issued
    BY <1>15 DEF Disconnect, DrainsLive, Draining, Pending, Live, IdsKnown
  <2>1. TypeOK'
    BY <1>15, <2>0 DEF Disconnect, Answered, TypeOK
  <2>2. IdsKnown'
    BY <1>15, <2>0 DEF Disconnect, Answered, IdsKnown, Issued
  <2>3. AttemptLeft'
    BY <1>15 DEF Disconnect, Answered, TypeOK, AttemptLeft, DrainsLive, Pending,
       Draining, Live
  <2>4. DrainsLive'
    BY <1>15 DEF Disconnect, Answered, TypeOK, DrainsLive, Pending, Draining, Live
  <2> QED
    BY <2>1, <2>2, <2>3, <2>4
<1>16. ASSUME NEW t \in Tabs, NEW answer \in {"refused", "rejected"}, Refuse(t, answer) PROVE TypeInv'
  <2>1. TypeOK'
    BY <1>16 DEF Refuse, Awaiting, Answered, TypeOK, Live
  <2>2. IdsKnown'
    BY <1>16 DEF Refuse, Awaiting, Answered, TypeOK, IdsKnown, Issued,
       DrainsLive, Pending, Live
  <2>3. AttemptLeft'
    BY <1>16 DEF Refuse, Awaiting, Answered, TypeOK, AttemptLeft, DrainsLive,
       Pending, Draining, Live
  <2>4. DrainsLive'
    BY <1>16 DEF Refuse, Awaiting, Answered, TypeOK, DrainsLive, Pending,
       Draining, Live
  <2> QED
    BY <2>1, <2>2, <2>3, <2>4
<1>17. ASSUME NEW t \in Tabs, RetryAll(t) PROVE TypeInv'
  <2>1. TypeOK'
    BY <1>17 DEF RetryAll, TypeOK, Live
  <2>2. IdsKnown'
    BY <1>17 DEF RetryAll, TypeOK, IdsKnown, Issued, DrainsLive, Pending, Live
  <2>3. AttemptLeft'
    BY <1>17 DEF RetryAll, TypeOK, AttemptLeft, DrainsLive, Pending, Draining, Live
  <2>4. DrainsLive'
    BY <1>17 DEF RetryAll, TypeOK, DrainsLive, Pending, Draining, Live
  <2> QED
    BY <2>1, <2>2, <2>3, <2>4
<1>18. ASSUME NEW i \in Ids, Straggle(i) PROVE TypeInv'
  <2>1. TypeOK'
    BY <1>18 DEF Straggle, Apply, TypeOK, Live
  <2>2. IdsKnown'
    BY <1>18 DEF Straggle, Apply, TypeOK, IdsKnown, Issued, DrainsLive, Pending,
       Live
  <2>3. AttemptLeft'
    BY <1>18 DEF Straggle, Apply, TypeOK, AttemptLeft, DrainsLive, Pending,
       Draining, Live
  <2>4. DrainsLive'
    BY <1>18 DEF Straggle, Apply, TypeOK, DrainsLive, Pending, Draining, Live
  <2> QED
    BY <2>1, <2>2, <2>3, <2>4
<1>19. ASSUME NEW i \in Ids, Discard(i) PROVE TypeInv'
  <2>1. TypeOK'
    BY <1>19 DEF Discard, TypeOK, Live
  <2>2. IdsKnown'
    BY <1>19 DEF Discard, TypeOK, IdsKnown, Issued, DrainsLive, Pending, Live
  <2>3. AttemptLeft'
    BY <1>19 DEF Discard, TypeOK, AttemptLeft, DrainsLive, Pending, Draining, Live
  <2>4. DrainsLive'
    BY <1>19 DEF Discard, TypeOK, DrainsLive, Pending, Draining, Live
  <2> QED
    BY <2>1, <2>2, <2>3, <2>4
<1>20. ASSUME NEW i \in Ids, Elapse(i) PROVE TypeInv'
  <2>1. TypeOK'
    BY <1>20 DEF Elapse, TypeOK, Live
  <2>2. IdsKnown'
    BY <1>20 DEF Elapse, TypeOK, IdsKnown, Issued, DrainsLive, Pending, Live
  <2>3. AttemptLeft'
    BY <1>20 DEF Elapse, TypeOK, AttemptLeft, DrainsLive, Pending, Draining, Live
  <2>4. DrainsLive'
    BY <1>20 DEF Elapse, TypeOK, DrainsLive, Pending, Draining, Live
  <2> QED
    BY <2>1, <2>2, <2>3, <2>4
<1>21. ASSUME GoOffline PROVE TypeInv'
  <2>1. TypeOK'
    <3>1. faults' \in 0..MaxFaults
      BY <1>21 DEF GoOffline, TypeOK
    <3> QED
      BY <1>21, <3>1 DEF GoOffline, TypeOK
  <2>2. IdsKnown'
    BY <1>21 DEF GoOffline, TypeOK, IdsKnown, Issued, DrainsLive, Pending, Live
  <2>3. AttemptLeft'
    BY <1>21 DEF GoOffline, TypeOK, AttemptLeft, DrainsLive, Pending, Draining, Live
  <2>4. DrainsLive'
    BY <1>21 DEF GoOffline, TypeOK, DrainsLive, Pending, Draining, Live
  <2> QED
    BY <2>1, <2>2, <2>3, <2>4
<1>22. ASSUME GoOnline PROVE TypeInv'
  <2>1. TypeOK'
    BY <1>22 DEF GoOnline, TypeOK, Live
  <2>2. IdsKnown'
    BY <1>22 DEF GoOnline, TypeOK, IdsKnown, Issued, DrainsLive, Pending, Live
  <2>3. AttemptLeft'
    BY <1>22 DEF GoOnline, TypeOK, AttemptLeft, DrainsLive, Pending, Draining, Live
  <2>4. DrainsLive'
    BY <1>22 DEF GoOnline, TypeOK, DrainsLive, Pending, Draining, Live
  <2> QED
    BY <2>1, <2>2, <2>3, <2>4
<1>23. CASE UNCHANGED vars
  BY <1>23 DEF vars, TypeOK, IdsKnown, Issued, AttemptLeft, DrainsLive, Pending,
     Draining, Live
<1> QED
  BY <1>1, <1>2, <1>3, <1>4, <1>5, <1>6, <1>7, <1>8, <1>9, <1>10, <1>11, <1>12,
     <1>13, <1>14, <1>15, <1>16, <1>17, <1>18, <1>19, <1>20, <1>21, <1>22, <1>23
     DEF Next, EngineStep

-----------------------------------------------------------------------------
(***************************************************************************)
(* Order.                                                                  *)
(***************************************************************************)
Oldest(i) == \A j \in Rows(owner[i]) : i <= j

\* A drain has every row of an intact record older than one it has.
DrainsClosed ==
  \A t \in Tabs : Draining(t) =>
    \A i \in Pending(t) : owner[i] \in intact =>
      \A j \in Rows(owner[i]) : j < i => j \in Pending(t)

\* A request that outlived its answer is older than what still waits.
StraysOldest == \A i \in stray : owner[i] \in intact => Oldest(i)

LatestOlder == \A r \in intact : \A i \in Rows(r) : latest[r] <= i

AnswersLanded == \A t \in Tabs : pc[t] = "push" /\ wire[t] = "ok" => cur[t] \in landed

OrderInv == TypeInv /\ DrainsClosed /\ StraysOldest /\ LatestOlder /\ AnswersLanded

LEMMA OrderInit == Init => OrderInv
<1> SUFFICES ASSUME Init PROVE OrderInv
  OBVIOUS
<1>1. TypeInv
  BY TypeInit
<1> QED
  BY <1>1 DEF Init, OrderInv, DrainsClosed, StraysOldest, LatestOlder,
     AnswersLanded, Draining, Rows

\* What a drain has on the wire comes before all that waits in its record.
LEMMA PushedOldest ==
  ASSUME OrderInv, NEW t \in Tabs, pc[t] = "push", owner[cur[t]] \in intact
  PROVE  Oldest(cur[t])
<1>1. cur[t] \in Live /\ cur[t] \in Pending(t) /\ Draining(t)
  BY DEF OrderInv, TypeInv, DrainsLive, Draining, Pending
<1>2. ASSUME NEW j \in Rows(owner[cur[t]]), j < cur[t] PROVE FALSE
  <2>1. j \in Pending(t) /\ j \in Ids
    BY <1>1, <1>2 DEF OrderInv, DrainsClosed, Rows
  <2>2. cur[t] \in Ids /\ j # cur[t]
    BY <1>1, <1>2, Constants DEF Live, Ids
  <2>3. j \in todo[t] /\ cur[t] < j
    BY <2>1, <2>2 DEF Pending, OrderInv, TypeInv, DrainsLive
  <2> QED
    BY <1>2, <2>1, <2>2, <2>3 DEF Ids
<1> QED
  BY <1>1, <1>2, Constants DEF Oldest, Rows, Live, Ids

\* A step within the order: rows only go, the server's rows stay, and a drain
\* leaves of what it had only rows that are gone, or are no longer in the way.
LEMMA OrderWithin ==
  ASSUME OrderInv, TypeInv', UNCHANGED <<owner, latest>>, intact' \subseteq intact,
         \A i \in Ids : state'[i] # "none" => state[i] # "none",
         \A i \in stray' \ stray : owner[i] \in intact => Oldest(i),
         \A u \in Tabs : Draining(u)' =>
           /\ Draining(u) /\ Pending(u)' \subseteq Pending(u)
           /\ \A j \in Pending(u) \ Pending(u)' :
                \/ state'[j] = "none"
                \/ \A i \in Pending(u)' : owner[i] \in intact' => ~(owner[j] = owner[i] /\ j < i),
         \A u \in Tabs : pc'[u] = "push" /\ wire'[u] = "ok" => cur'[u] \in landed'
  PROVE  OrderInv'
<1>1. \A r : Rows(r)' \subseteq Rows(r)
  BY DEF Rows, Ids
<1>2. DrainsClosed'
  <2> SUFFICES ASSUME NEW u \in Tabs, Draining(u)', NEW i \in Pending(u)', owner[i] \in intact',
                      NEW j \in Rows(owner[i])', j < i
               PROVE  j \in Pending(u)'
    BY DEF DrainsClosed
  <2>1. j \in Pending(u)
    BY <1>1 DEF OrderInv, DrainsClosed
  <2>2. state'[j] # "none" /\ owner[j] = owner[i]
    BY DEF Rows
  <2> QED
    BY <2>1, <2>2
<1>3. StraysOldest'
  BY <1>1 DEF OrderInv, StraysOldest, Oldest
<1>4. LatestOlder'
  BY <1>1 DEF OrderInv, LatestOlder
<1>5. AnswersLanded'
  BY DEF AnswersLanded
<1> QED
  BY <1>2, <1>3, <1>4, <1>5 DEF OrderInv

\* A step that leaves the drains alone is within the order ...
LEMMA OrderFrame ==
  ASSUME OrderInv, TypeInv', DrainsStay, UNCHANGED <<owner, wire, latest, landed, stray, intact>>,
         \A i \in Ids : state'[i] # "none" => state[i] # "none"
  PROVE  OrderInv'
<1>1. \A u \in Tabs : (Draining(u)' <=> Draining(u)) /\ Pending(u)' = Pending(u)
  BY DEF DrainsStay, Draining, Pending
<1>2. \A u \in Tabs : pc'[u] = "push" /\ wire'[u] = "ok" => cur'[u] \in landed'
  BY DEF DrainsStay, OrderInv, AnswersLanded
<1> QED
  BY <1>1, <1>2, OrderWithin

\* ... and so is one by which a tab stops draining.
LEMMA OrderLeave ==
  ASSUME OrderInv, TypeInv', NEW t \in Tabs, Leave(t), stray' \subseteq stray \cup {cur[t]},
         stray' # stray => pc[t] = "push", UNCHANGED <<owner, state, latest, landed, intact>>
  PROVE  OrderInv'
<1>1. TypeOK
  BY DEF OrderInv, TypeInv
<1>2. /\ pc'[t] = "idle"
      /\ \A u \in Tabs \ {t} : /\ pc'[u] = pc[u] /\ todo'[u] = todo[u]
                               /\ cur'[u] = cur[u] /\ wire'[u] = wire[u]
  BY <1>1, LeaveFacts
<1>3. ~Draining(t)' /\ \A u \in Tabs \ {t} : (Draining(u)' <=> Draining(u)) /\ Pending(u)' = Pending(u)
  BY <1>2 DEF Draining, Pending
<1>4. \A i \in stray' \ stray : owner[i] \in intact => Oldest(i)
  BY PushedOldest
<1>5. \A u \in Tabs : pc'[u] = "push" /\ wire'[u] = "ok" => cur'[u] \in landed'
  BY <1>2 DEF OrderInv, AnswersLanded
<1> QED
  BY <1>3, <1>4, <1>5, OrderWithin

LEMMA OrderStep == OrderInv /\ [Next]_vars => OrderInv'
<1> SUFFICES ASSUME OrderInv, [Next]_vars PROVE OrderInv'
  OBVIOUS
<1>1. TypeInv /\ TypeOK /\ TypeInv'
  BY TypeStep DEF OrderInv, TypeInv
<1> USE Constants DEF table, drain, engine, server, history, bounds
<1>3. ASSUME NEW t \in Tabs,
             Skip(t) \/ GiveUpOffline(t) \/ Finish(t) \/ BackOff(t) \/ Requeue(t) \/ Reload(t)
      PROVE  OrderInv'
  <2>1. /\ Leave(t) /\ UNCHANGED <<owner, state, latest, landed, intact>>
        /\ UNCHANGED stray \/ (Awaiting(t) /\ stray' = stray \cup {cur[t]})
    BY <1>3 DEF Skip, GiveUpOffline, Finish, BackOff, Requeue, Reload
  <2> QED
    BY <1>1, <2>1, OrderLeave DEF Awaiting
<1>4. ASSUME NEW t \in Tabs, Snapshot(t) PROVE OrderInv'
  <2>1. /\ pc' = [pc EXCEPT ![t] = "loop"] /\ todo' = [todo EXCEPT ![t] = Live]
        /\ intact' = intact \ {r \in Records : Exposed(r)'}
        /\ UNCHANGED <<owner, state, cur, wire, latest, landed, stray>>
    BY <1>4 DEF Snapshot, NoteExposure
  <2>2. /\ pc'[t] = "loop" /\ Pending(t)' = Live
        /\ \A u \in Tabs \ {t} : /\ pc'[u] = pc[u] /\ Pending(u)' = Pending(u)
                                 /\ Draining(u)' <=> Draining(u)
    BY <1>1, <2>1 DEF TypeOK, Pending, Draining
  <2>3. DrainsClosed'
    <3> SUFFICES ASSUME NEW u \in Tabs, Draining(u)', NEW i \in Pending(u)', owner[i] \in intact',
                        NEW j \in Rows(owner[i])', j < i
                 PROVE  j \in Pending(u)'
      BY <2>1 DEF DrainsClosed
    <3>1. j \in Rows(owner[i]) /\ owner[i] \in intact
      BY <2>1 DEF Rows
    <3>2. CASE u = t
      <4>1. i \in Live /\ i \in Ids /\ j \in Ids /\ state[j] # "none" /\ owner[j] = owner[i]
        BY <2>2, <3>1, <3>2 DEF Rows, Live
      <4>2. owner[i] \in Records /\ ~Exposed(owner[i])'
        BY <1>1, <2>1 DEF TypeOK
      <4>3. i \in Rows(owner[i])' /\ state'[i] = "live" /\ state'[j] = state[j]
        BY <2>1, <4>1 DEF Rows, Live
      <4>4. state[j] # "dead"
        BY <4>2, <4>3 DEF Exposed
      <4> QED
        BY <1>1, <2>2, <3>2, <4>1, <4>4 DEF TypeOK, Live
    <3>3. CASE u # t
      BY <2>2, <3>1, <3>3 DEF OrderInv, DrainsClosed
    <3> QED
      BY <3>2, <3>3
  <2>4. StraysOldest' /\ LatestOlder'
    BY <2>1 DEF OrderInv, StraysOldest, LatestOlder, Oldest, Rows
  <2>5. AnswersLanded'
    BY <2>1, <2>2 DEF OrderInv, AnswersLanded
  <2> QED
    BY <1>1, <2>3, <2>4, <2>5 DEF OrderInv
<1>5. ASSUME NEW t \in Tabs, Send(t) PROVE OrderInv'
  <2>1. PICK i \in todo[t] : /\ cur' = [cur EXCEPT ![t] = i]
                            /\ todo' = [todo EXCEPT ![t] = @ \ {i}]
    BY <1>5 DEF Send
  <2>2. /\ pc[t] = "loop" /\ pc' = [pc EXCEPT ![t] = "push"] /\ wire' = [wire EXCEPT ![t] = "sent"]
        /\ UNCHANGED <<owner, state, latest, landed, stray, intact>>
    BY <1>5 DEF Send
  <2>3. /\ Pending(t)' = Pending(t) /\ Draining(t) /\ wire'[t] # "ok"
        /\ \A u \in Tabs \ {t} : /\ pc'[u] = pc[u] /\ cur'[u] = cur[u] /\ wire'[u] = wire[u]
                                 /\ Pending(u)' = Pending(u)
    BY <1>1, <2>1, <2>2 DEF TypeOK, Pending, Draining
  <2>4. \A u \in Tabs : pc'[u] = "push" /\ wire'[u] = "ok" => cur'[u] \in landed'
    BY <2>2, <2>3 DEF OrderInv, AnswersLanded
  <2>5. \A u \in Tabs : Draining(u)' => Draining(u) /\ Pending(u)' = Pending(u)
    BY <2>3 DEF Draining
  <2> QED
    BY <1>1, <2>2, <2>4, <2>5, OrderWithin
<1>6. ASSUME NEW t \in Tabs, Confirm(t) \/ DeadLetter(t) PROVE OrderInv'
  <2>1. /\ pc[t] = "push" /\ NextRow(t) /\ UNCHANGED <<owner, todo, latest, landed, stray>>
        /\ intact' \subseteq intact
    BY <1>6 DEF Confirm, DeadLetter, FailedPush, NoteExposure, NextRow
  <2>2. /\ Pending(t) = todo[t] \cup {cur[t]} /\ Pending(t)' = todo[t] /\ Draining(t) /\ pc'[t] # "push"
        /\ \A u \in Tabs \ {t} : /\ pc'[u] = pc[u] /\ cur'[u] = cur[u] /\ wire'[u] = wire[u]
                                 /\ Pending(u)' = Pending(u)
    BY <1>1, <2>1 DEF TypeOK, NextRow, Pending, Draining
  <2>3. /\ cur[t] \in Ids /\ state[cur[t]] = "live"
        /\ \A i \in todo[t] : i \in Ids /\ state[i] = "live" /\ cur[t] < i
    BY <1>1, <2>1, <2>2 DEF TypeInv, DrainsLive, Live
  <2>4. /\ state'[cur[t]] \in {"none", "dead"}
        /\ \A i \in Ids \ {cur[t]} : state'[i] = state[i]
    BY <1>1, <1>6, <2>3 DEF Confirm, DeadLetter, Update, TypeOK
  <2>5. CASE state'[cur[t]] = "none"
    <3>1. \A u \in Tabs : Draining(u)' => /\ Draining(u) /\ Pending(u)' \subseteq Pending(u)
                                        /\ \A j \in Pending(u) \ Pending(u)' : state'[j] = "none"
      BY <2>2, <2>5 DEF Draining
    <3>2. \A u \in Tabs : pc'[u] = "push" /\ wire'[u] = "ok" => cur'[u] \in landed'
      BY <2>1, <2>2 DEF OrderInv, AnswersLanded
    <3>3. \A i \in Ids : state'[i] # "none" => state[i] # "none"
      BY <2>3, <2>4
    <3> QED
      BY <1>1, <2>1, <3>1, <3>2, <3>3, OrderWithin
  <2>6. CASE state'[cur[t]] = "dead"
    <3>1. intact' = intact \ {r \in Records : Exposed(r)'}
      BY <1>1, <1>6, <2>3, <2>6 DEF Confirm, DeadLetter, NoteExposure, TypeOK
    <3>2. ASSUME NEW i \in todo[t], owner[i] \in intact', owner[cur[t]] = owner[i] PROVE FALSE
      <4>1. PICK r \in Records : r = owner[i]
        BY <1>1, <3>1, <3>2 DEF TypeOK
      <4>2. i \in Rows(r)' /\ cur[t] \in Rows(r)' /\ state'[i] = "live" /\ cur[t] < i
        BY <2>1, <2>3, <2>4, <2>6, <3>2, <4>1 DEF Rows, Ids
      <4>3. Exposed(r)'
        BY <2>6, <4>2 DEF Exposed
      <4> QED
        BY <3>1, <3>2, <4>1, <4>3
    <3>3. \A u \in Tabs : Draining(u)' =>
            /\ Draining(u) /\ Pending(u)' \subseteq Pending(u)
            /\ \A j \in Pending(u) \ Pending(u)' :
                 \A i \in Pending(u)' : owner[i] \in intact' => ~(owner[j] = owner[i] /\ j < i)
      BY <2>2, <3>2 DEF Draining
    <3>4. \A u \in Tabs : pc'[u] = "push" /\ wire'[u] = "ok" => cur'[u] \in landed'
      BY <2>1, <2>2 DEF OrderInv, AnswersLanded
    <3>5. \A i \in Ids : state'[i] # "none" => state[i] # "none"
      BY <2>3, <2>4
    <3> QED
      BY <1>1, <2>1, <3>3, <3>4, <3>5, OrderWithin
  <2> QED
    BY <2>4, <2>5, <2>6
<1>7. ASSUME NEW t \in Tabs, NEW r \in Records, Enqueue(t, r) PROVE OrderInv'
  <2>1. /\ nextId \in Ids /\ owner' = [owner EXCEPT ![nextId] = r]
        /\ state' = [state EXCEPT ![nextId] = "live"] /\ Kick(t, FALSE)
        /\ state' \in [Ids -> {"none", "live", "dead"}]
        /\ UNCHANGED <<todo, cur, wire, latest, landed, stray, intact>>
    BY <1>1, <1>7 DEF Enqueue, TypeOK
  <2>2. DrainsStay
    BY <1>1, <2>1, KickFacts DEF DrainsStay
  <2>3. \A u \in Tabs : (Draining(u)' <=> Draining(u)) /\ Pending(u)' = Pending(u)
    BY <2>2 DEF DrainsStay, Draining, Pending
  <2>4. /\ \A i \in Issued : i \in Ids /\ i < nextId /\ owner'[i] = owner[i]
        /\ \A q : Rows(q)' \subseteq Rows(q) \cup {nextId}
    BY <1>1, <2>1 DEF TypeOK, Issued, Rows, Ids
  <2>5. \A u \in Tabs : Draining(u) => Pending(u) \subseteq Issued
    BY <1>1 DEF TypeInv, DrainsLive, IdsKnown, Live
  <2>6. DrainsClosed'
    <3> SUFFICES ASSUME NEW u \in Tabs, Draining(u)', NEW i \in Pending(u)', owner'[i] \in intact',
                        NEW j \in Rows(owner[i])', j < i
                 PROVE  j \in Pending(u)'
      BY DEF DrainsClosed
    <3>1. i \in Issued /\ owner'[i] = owner[i] /\ i < nextId /\ j # nextId
      BY <2>1, <2>3, <2>4, <2>5 DEF Ids
    <3> QED
      BY <2>1, <2>3, <2>4, <3>1 DEF OrderInv, DrainsClosed
  <2>7. StraysOldest'
    <3> SUFFICES ASSUME NEW i \in stray, owner'[i] \in intact, NEW j \in Rows(owner[i])'
                 PROVE  i <= j
      BY <2>1 DEF StraysOldest, Oldest
    <3>1. i \in Issued /\ owner'[i] = owner[i] /\ i < nextId
      BY <1>1, <2>4 DEF TypeInv, IdsKnown
    <3> QED
      BY <2>1, <2>4, <3>1 DEF OrderInv, StraysOldest, Oldest, Issued, Ids
  <2>8. LatestOlder'
    <3> SUFFICES ASSUME NEW q \in intact, NEW i \in Rows(q)' PROVE latest[q] <= i
      BY <2>1 DEF LatestOlder
    <3>1. q \in Records /\ (latest[q] = 0 \/ latest[q] \in Issued)
      BY <1>1 DEF TypeOK, TypeInv, IdsKnown
    <3> QED
      BY <2>1, <2>4, <3>1 DEF OrderInv, LatestOlder, Ids, Issued
  <2>9. AnswersLanded'
    BY <2>1, <2>2 DEF OrderInv, AnswersLanded, DrainsStay
  <2> QED
    BY <1>1, <2>6, <2>7, <2>8, <2>9 DEF OrderInv
<1>8. ASSUME NEW i \in Ids, i \in Issued, Apply(i),
             owner[i] \in intact' => Oldest(i),
             stray' \subseteq stray, intact' \subseteq intact,
             UNCHANGED <<owner, state, pc, todo, cur>>,
             \A u \in Tabs : wire'[u] = wire[u] \/ cur[u] = i
      PROVE  OrderInv'
  <2>1. /\ latest' = [latest EXCEPT ![owner[i]] = i] /\ landed' = landed \cup {i}
        /\ owner[i] \in Records
    BY <1>1, <1>8 DEF Apply, TypeInv, IdsKnown, TypeOK
  <2>2. /\ \A q : Rows(q)' = Rows(q)
        /\ \A u \in Tabs : (Draining(u)' <=> Draining(u)) /\ Pending(u)' = Pending(u)
    BY <1>8 DEF Rows, Draining, Pending
  <2>3. DrainsClosed'
    BY <1>8, <2>2 DEF OrderInv, DrainsClosed
  <2>4. StraysOldest'
    BY <1>8, <2>2 DEF OrderInv, StraysOldest, Oldest
  <2>5. LatestOlder'
    BY <1>1, <1>8, <2>1, <2>2 DEF OrderInv, LatestOlder, Oldest, TypeOK
  <2>6. AnswersLanded'
    BY <1>8, <2>1 DEF OrderInv, AnswersLanded
  <2> QED
    BY <1>1, <2>3, <2>4, <2>5, <2>6 DEF OrderInv
<1>9. ASSUME NEW t \in Tabs, Accept(t) PROVE OrderInv'
  <2>1. /\ pc[t] = "push" /\ Apply(cur[t]) /\ wire' = [wire EXCEPT ![t] = "ok"]
        /\ UNCHANGED <<owner, state, pc, todo, cur, stray, intact>>
    BY <1>9 DEF Accept, Awaiting, Answered
  <2>2. cur[t] \in Ids /\ cur[t] \in Issued
    BY <1>1, <2>1 DEF TypeInv, DrainsLive, Draining, Pending, Live, IdsKnown
  <2>3. \A u \in Tabs : wire'[u] = wire[u] \/ cur[u] = cur[t]
    BY <1>1, <2>1 DEF TypeOK
  <2> QED
    BY <1>8, <2>1, <2>2, <2>3, PushedOldest
<1>10. ASSUME NEW i \in Ids, Straggle(i) PROVE OrderInv'
  BY <1>1, <1>8, <1>10 DEF Straggle, TypeInv, IdsKnown, OrderInv, StraysOldest
<1>11. ASSUME NEW t \in Tabs, Disconnect(t) PROVE OrderInv'
  <2>1. /\ pc[t] = "push" /\ wire' = [wire EXCEPT ![t] = "lost"]
        /\ UNCHANGED stray \/ stray' = stray \cup {cur[t]}
        /\ UNCHANGED <<owner, state, pc, todo, cur, latest, landed, intact>>
    BY <1>11 DEF Disconnect, Answered
  <2>2. \A i \in stray' \ stray : owner[i] \in intact => Oldest(i)
    BY <2>1, PushedOldest
  <2>3. \A u \in Tabs : pc'[u] = "push" /\ wire'[u] = "ok" => cur'[u] \in landed'
    BY <1>1, <2>1 DEF OrderInv, AnswersLanded, TypeOK
  <2>4. \A u \in Tabs : (Draining(u)' <=> Draining(u)) /\ Pending(u)' = Pending(u)
    BY <2>1 DEF Draining, Pending
  <2> QED
    BY <1>1, <2>1, <2>2, <2>3, <2>4, OrderWithin
<1>12. ASSUME NEW t \in Tabs, NEW answer \in {"refused", "rejected"}, Refuse(t, answer) PROVE OrderInv'
  <2>1. /\ wire' = [wire EXCEPT ![t] = answer]
        /\ UNCHANGED <<owner, state, pc, todo, cur, stray, latest, landed, intact>>
    BY <1>12 DEF Refuse, Answered
  <2>2. \A u \in Tabs : pc'[u] = "push" /\ wire'[u] = "ok" => cur'[u] \in landed'
    BY <1>1, <2>1 DEF OrderInv, AnswersLanded, TypeOK
  <2>3. \A u \in Tabs : (Draining(u)' <=> Draining(u)) /\ Pending(u)' = Pending(u)
    BY <2>1 DEF Draining, Pending
  <2> QED
    BY <1>1, <2>1, <2>2, <2>3, OrderWithin
<1>13. ASSUME NEW t \in Tabs, Fire(t) \/ ClearOne(t) PROVE OrderInv'
  <2>1. /\ UNCHANGED <<owner, todo, cur, wire, latest, landed, stray, intact>>
        /\ Kick(t, FALSE) \/ Kick(t, TRUE) \/ UNCHANGED pc
    BY <1>13 DEF Fire, ClearOne
  <2>2. /\ \A i \in Ids : state'[i] # "none" => state[i] # "none"
        /\ state' \in [Ids -> {"none", "live", "dead"}]
    <3>1. UNCHANGED state \/ \E i \in Ids : state' = Update(state, i, "live")
      BY <1>1, <1>13 DEF Fire, ClearOne, TypeOK
    <3> QED
      BY <1>1, <3>1 DEF Update, TypeOK
  <2>3. DrainsStay
    <3>1. CASE UNCHANGED pc
      BY <2>1, <3>1 DEF DrainsStay
    <3>2. CASE Kick(t, FALSE) \/ Kick(t, TRUE)
      BY <1>1, <2>1, <2>2, <3>2, KickFacts DEF DrainsStay
    <3> QED
      BY <2>1, <3>1, <3>2
  <2> QED
    BY <1>1, <2>1, <2>2, <2>3, OrderFrame
<1>14. ASSUME \/ \E t \in Tabs : RetryAll(t)
              \/ \E i \in Ids : Discard(i) \/ Elapse(i)
              \/ GoOffline \/ GoOnline \/ UNCHANGED vars
       PROVE  OrderInv'
  <2>1. /\ UNCHANGED <<owner, pc, todo, cur, wire, latest, landed, stray, intact>>
        /\ \A i \in Ids : state'[i] # "none" => state[i] # "none"
    BY <1>1, <1>14 DEF RetryAll, Discard, Elapse, GoOffline, GoOnline, vars, TypeOK
  <2> QED
    BY <1>1, <2>1, OrderFrame DEF DrainsStay
<1> QED
  BY <1>3, <1>4, <1>5, <1>6, <1>7, <1>9, <1>10, <1>11, <1>12, <1>13, <1>14 DEF
     Next, EngineStep

-----------------------------------------------------------------------------
(***************************************************************************)
(* The engine implements OrderedWrites: a step is one of its steps, or     *)
(* does not show outside.                                                  *)
(***************************************************************************)
Present == {i \in Ids : state[i] # "none"}

LEMMA PromiseInit == Init => Promise!Init
BY DEF Init, Promise!Init, Promise!Ids, Ids

LEMMA PromiseStep ==
  ASSUME OrderInv, OrderInv', [Next]_vars
  PROVE  [Promise!Next]_(Promise!vars)
<1>1. TypeInv /\ TypeOK /\ IdsKnown
  BY DEF OrderInv, TypeInv
<1> USE Constants DEF Promise!Ids, Ids, server, history
<1>2. ASSUME UNCHANGED <<owner, latest, landed, abandoned, intact>>,
             \A i \in Ids : state'[i] = "none" <=> state[i] = "none"
      PROVE  UNCHANGED Promise!vars
  BY <1>2 DEF Promise!vars
<1>3. ASSUME UNCHANGED <<owner, latest, landed, abandoned>>, intact' \subseteq intact,
             \A i \in Ids : state'[i] = "none" <=> state[i] = "none"
      PROVE  Promise!Next
  <2>1. Promise!Break(intact \ intact')
    BY <1>3 DEF Promise!Break
  <2> QED
    BY <2>1 DEF Promise!Next
<1>4. ASSUME NEW t \in Tabs, NEW r \in Records, Enqueue(t, r) PROVE Promise!Next
  <2>1. /\ nextId \in Ids /\ owner[nextId] = NoRecord
        /\ \A j \in Ids : owner[j] # NoRecord => j < nextId
    BY <1>1, <1>4 DEF Enqueue, IdsKnown, Issued
  <2>2. Present' = Present \cup {nextId}
    BY <1>1, <1>4, <2>1 DEF Enqueue, Present, TypeOK
  <2>3. Promise!Issue(nextId, r)
    BY <1>4, <2>1, <2>2 DEF Promise!Issue, Enqueue, Present
  <2> QED
    BY <2>1, <2>3 DEF Promise!Next
<1>5. ASSUME NEW t \in Tabs, Accept(t) PROVE Promise!Next
  <2>1. pc[t] = "push" /\ cur[t] \in Live /\ cur[t] \in Ids /\ owner[cur[t]] \in Records
    BY <1>1, <1>5 DEF Accept, Awaiting, TypeInv, DrainsLive, Draining, Pending,
       Live, IdsKnown, TypeOK
  <2>2. owner[cur[t]] \in intact =>
          /\ latest[owner[cur[t]]] <= cur[t]
          /\ \A j \in Present : owner[j] = owner[cur[t]] => cur[t] <= j
    BY <2>1, PushedOldest DEF OrderInv, LatestOlder, Oldest, Rows, Live, Present
  <2>3. /\ latest' = [latest EXCEPT ![owner[cur[t]]] = cur[t]] /\ landed' = landed \cup {cur[t]}
        /\ UNCHANGED <<owner, state, abandoned, intact>>
    BY <1>5 DEF Accept, Answered, Apply, table
  <2>4. Promise!Land(cur[t])
    BY <2>1, <2>2, <2>3 DEF Promise!Land, Present
  <2> QED
    BY <2>1, <2>4 DEF Promise!Next
<1>6. ASSUME NEW i \in Ids, Straggle(i) PROVE Promise!Next
  <2>1. i \in stray /\ owner[i] \in Records /\ latest[owner[i]] \in Ids \cup {0}
    BY <1>1, <1>6 DEF Straggle, IdsKnown, TypeOK
  <2>2. /\ latest' = [latest EXCEPT ![owner[i]] = i] /\ landed' = landed \cup {i}
        /\ intact' \in {intact, intact \ {owner[i]}}
        /\ owner[i] \in intact' => ~(i < latest[owner[i]]) /\ owner[i] \in intact
        /\ UNCHANGED <<owner, state, abandoned>>
    BY <1>6 DEF Straggle, Apply, table
  <2>3. owner[i] \in intact => \A j \in Present : owner[j] = owner[i] => i <= j
    BY <2>1 DEF OrderInv, StraysOldest, Oldest, Rows, Present
  <2>4. Promise!Land(i)
    BY <2>1, <2>2, <2>3 DEF Promise!Land, Present
  <2> QED
    BY <2>4 DEF Promise!Next
<1>7. ASSUME NEW t \in Tabs, Confirm(t) PROVE Promise!Next
  <2>1. PICK i \in Ids : i = cur[t] /\ i \in Present /\ i \in landed
    BY <1>1, <1>7 DEF Confirm, OrderInv, AnswersLanded, TypeInv, DrainsLive,
       Draining, Pending, Live, Present
  <2>2. /\ Present' = Present \ {i}
        /\ UNCHANGED <<owner, latest, landed, abandoned, intact>>
    BY <1>1, <1>7, <2>1 DEF Confirm, Present, TypeOK
  <2>3. Promise!Retire(i)
    BY <2>1, <2>2 DEF Promise!Retire, Present
  <2> QED
    BY <2>3 DEF Promise!Next
<1>8. ASSUME NEW i \in Ids, Discard(i) PROVE Promise!Next
  <2>1. /\ i \in Present /\ Present' = Present \ {i} /\ abandoned' = abandoned \cup {i}
        /\ UNCHANGED <<owner, latest, landed, intact>>
    BY <1>1, <1>8 DEF Discard, Present, TypeOK
  <2>2. Promise!Abandon({i})
    BY <2>1 DEF Promise!Abandon, Present
  <2>3. {i} \in SUBSET {j \in Ids : state[j] # "none"}
    BY <2>1 DEF Present
  <2> QED
    BY <2>2, <2>3 DEF Promise!Next
<1>9. ASSUME NEW t \in Tabs, Snapshot(t) \/ DeadLetter(t) PROVE Promise!Next
  <2>1. intact' \subseteq intact /\ UNCHANGED <<owner, latest, landed, abandoned>>
    BY <1>9 DEF Snapshot, DeadLetter, NoteExposure, table
  <2>2. \A i \in Ids : state'[i] = "none" <=> state[i] = "none"
    BY <1>1, <1>9 DEF Snapshot, DeadLetter, Update, table, TypeOK
  <2> QED
    BY <1>3, <2>1, <2>2
<1>10. ASSUME NEW t \in Tabs, ClearOne(t) PROVE UNCHANGED Promise!vars
  <2>1. \A i \in Ids : state'[i] = "none" <=> state[i] = "none"
    BY <1>1, <1>10 DEF ClearOne, Update, TypeOK
  <2> QED
    BY <1>2, <1>10, <2>1 DEF ClearOne
<1>11. ASSUME NEW t \in Tabs,
              \/ Skip(t) \/ GiveUpOffline(t) \/ Finish(t) \/ BackOff(t) \/ Send(t) \/ Requeue(t)
              \/ Fire(t) \/ Disconnect(t) \/ RetryAll(t) \/ Reload(t)
              \/ \E answer \in {"refused", "rejected"} : Refuse(t, answer)
       PROVE  UNCHANGED Promise!vars
  BY <1>2, <1>11
  DEF Skip, GiveUpOffline, Finish, BackOff, Send, Requeue, Fire, Disconnect,
     RetryAll, Reload, Refuse,
      Answered, table
<1>12. ASSUME (\E i \in Ids : Elapse(i)) \/ GoOffline \/ GoOnline \/ UNCHANGED vars
       PROVE  UNCHANGED Promise!vars
  BY <1>2, <1>12 DEF Elapse, GoOffline, GoOnline, vars, table
<1> QED
  BY <1>4, <1>5, <1>6, <1>7, <1>8, <1>9, <1>10, <1>11, <1>12 DEF Next, EngineStep

-----------------------------------------------------------------------------
\* Whatever tabs, failures and taps do, the state keeps its types: in particular
\* only the tab with the lock has rows in hand (withTabLock), and no retry count
\* passes MAX_RETRIES.
THEOREM DashboardTypeCorrect == Spec => []TypeOK
<1>1. TypeInv => TypeOK
  BY DEF TypeInv
<1> QED
  BY TypeInit, TypeStep, <1>1, PTL DEF Spec

\* "Chronological order with a strict stop" (outboxEngine.ts:43-48): each write
\* waits until the server has applied it or the user gives it up, and in a
\* record whose order no named step has cost the server applies the writes as
\* they were made.
THEOREM DashboardKeepsOrder == Spec => KeepsOrder
<1>1. OrderInv /\ [Next]_vars => OrderInv'
  BY OrderStep
<1>2. OrderInv /\ OrderInv' /\ [Next]_vars => [Promise!Next]_(Promise!vars)
  BY PromiseStep
<1> QED
  BY OrderInit, PromiseInit, <1>1, <1>2, PTL DEF Spec, KeepsOrder, Promise!Spec

-----------------------------------------------------------------------------
(***************************************************************************)
(* No row is left lying.  The engine drops calls, so this rests on what a  *)
(* drain leaves behind: nothing in hand when it ends without a timer, and  *)
(* a tab that is not pushing holds no row (`HandsEmpty`).                  *)
(***************************************************************************)
HandsEmpty == \A t \in Tabs : pc[t] # "push" => cur[t] = 0

AttendInv == TypeInv /\ HandsEmpty /\ RowsAreAttended

LEMMA AttendInit == Init => AttendInv
<1> SUFFICES ASSUME Init PROVE HandsEmpty /\ RowsAreAttended
  BY TypeInit DEF AttendInv
<1> QED
  BY DEF Init, HandsEmpty, RowsAreAttended, Live

\* A kick starts a drain, or whom it finds has the row, or the row is missed.
LEMMA KickAttends ==
  ASSUME TypeOK, HandsEmpty, NEW t \in Tabs, NEW ignore \in BOOLEAN,
         Kick(t, ignore), UNCHANGED drain
  PROVE  HandsEmpty' /\ RowsAreAttended'
<1>1. CASE pc[t] = "idle"
  <2>1. pc'[t] = "lock" /\ \A u \in Tabs : pc'[u] = "push" <=> pc[u] = "push"
    BY <1>1 DEF Kick, TypeOK
  <2> QED
    BY <2>1 DEF HandsEmpty, RowsAreAttended, Attended, drain
<1>2. CASE pc[t] # "idle"
  <2>1. pc' = pc /\ missed' = missed \cup (Live' \ InHand(t))
    BY <1>2 DEF Kick, LeftTo
  <2>2. \A i \in Live' \ missed' : pc[t] = "lock" \/ i \in todo[t] \cup {cur[t]}
    BY <2>1 DEF InHand
  <2>3. pc[t] \in {"lock", "loop", "push"}
    BY <1>2 DEF TypeOK
  <2> QED
    BY <2>1, <2>2, <2>3 DEF HandsEmpty, RowsAreAttended, Attended, drain
<1> QED
  BY <1>1, <1>2

\* A drain may leave what it has in hand if it is nothing, or sets a timer.
LEMMA LeaveAttends ==
  ASSUME TypeOK, HandsEmpty, RowsAreAttended, NEW t \in Tabs, Leave(t),
         state' = state, missed' = missed, clearing' = clearing,
         \/ pc[t] = "loop" /\ todo[t] = {} /\ timer' = timer
         \/ timer'[t] # 0
  PROVE  HandsEmpty' /\ RowsAreAttended'
<1>1. /\ pc'[t] = "idle" /\ cur'[t] = 0
      /\ \A u \in Tabs \ {t} : pc'[u] = pc[u] /\ todo'[u] = todo[u] /\ cur'[u] = cur[u]
  BY DEF Leave, TypeOK
<1>2. HandsEmpty'
  BY <1>1 DEF HandsEmpty
<1>3. Live' = Live
  BY DEF Live
<1>4. CASE timer'[t] # 0
  BY <1>2, <1>4 DEF RowsAreAttended, Attended
<1>5. CASE pc[t] = "loop" /\ todo[t] = {} /\ timer' = timer
  <2>1. \A i \in Live : i \notin todo[t] \cup {cur[t]}
    BY <1>5 DEF HandsEmpty, Live, Ids
  <2> SUFFICES ASSUME NEW i \in Live \ missed PROVE Attended(i)'
    BY <1>2, <1>3 DEF RowsAreAttended
  <2>2. PICK u \in Tabs :
          \/ pc[u] = "lock"
          \/ pc[u] \in {"loop", "push"} /\ i \in todo[u] \cup {cur[u]}
          \/ timer[u] # 0 \/ clearing[u] # {}
    BY DEF RowsAreAttended, Attended
  <2>3. CASE u = t
    BY <1>5, <2>1, <2>2, <2>3 DEF Attended
  <2>4. CASE u # t
    BY <1>1, <1>5, <2>2, <2>4 DEF Attended
  <2> QED
    BY <2>3, <2>4
<1> QED
  BY <1>4, <1>5

LEMMA AttendStep == AttendInv /\ [Next]_vars => AttendInv'
<1> SUFFICES ASSUME AttendInv, [Next]_vars PROVE HandsEmpty' /\ RowsAreAttended'
  BY TypeStep DEF AttendInv
<1>0. TypeInv /\ TypeOK /\ HandsEmpty /\ RowsAreAttended
  BY DEF AttendInv, TypeInv
<1> USE DEF table, drain, engine, server, history, bounds
<1>1. ASSUME NEW t \in Tabs, Skip(t) PROVE HandsEmpty' /\ RowsAreAttended'
  <2>1. /\ lock \in Tabs \ {t} /\ pc[lock] \in {"loop", "push"}
        /\ missed' = missed \cup (Live' \ (todo[lock] \cup {cur[lock]}))
    BY <1>0, <1>1 DEF Skip, LeftTo, InHand, TypeOK
  <2>2. /\ pc'[t] = "idle" /\ cur'[t] = 0
        /\ \A u \in Tabs \ {t} : pc'[u] = pc[u] /\ todo'[u] = todo[u] /\ cur'[u] = cur[u]
    BY <1>0, <1>1 DEF Skip, Leave, TypeOK
  <2> QED
    BY <1>0, <2>1, <2>2 DEF HandsEmpty, RowsAreAttended, Attended
<1>2. ASSUME NEW t \in Tabs, GiveUpOffline(t) \/ Reload(t)
      PROVE  HandsEmpty' /\ RowsAreAttended'
  <2>1. Leave(t) /\ missed' = missed \cup Live /\ state' = state
    BY <1>2 DEF GiveUpOffline, Reload
  <2>2. HandsEmpty'
    BY <1>0, <2>1 DEF Leave, HandsEmpty, TypeOK
  <2> QED
    BY <2>1, <2>2 DEF RowsAreAttended, Live
<1>3. ASSUME NEW t \in Tabs, Finish(t) PROVE HandsEmpty' /\ RowsAreAttended'
  BY <1>0, <1>3, LeaveAttends DEF Finish
<1>4. ASSUME NEW t \in Tabs, BackOff(t) PROVE HandsEmpty' /\ RowsAreAttended'
  <2>1. timer'[t] # 0
    BY <1>0, <1>4 DEF BackOff, ScheduleRetry, TypeOK, Ids
  <2> QED
    BY <1>0, <1>4, <2>1, LeaveAttends DEF BackOff
<1>5. ASSUME NEW t \in Tabs, Requeue(t) PROVE HandsEmpty' /\ RowsAreAttended'
  <2>1. cur[t] \in Ids
    BY <1>0, <1>5 DEF Requeue, FailedPush, TypeInv, DrainsLive, Draining, Pending, Live
  <2>2. timer'[t] # 0
    BY <1>0, <1>5, <2>1 DEF Requeue, ScheduleRetry, TypeOK, Ids
  <2> QED
    BY <1>0, <1>5, <2>2, LeaveAttends DEF Requeue
<1>6. ASSUME NEW t \in Tabs, Snapshot(t) PROVE HandsEmpty' /\ RowsAreAttended'
  <2>1. /\ pc'[t] = "loop" /\ todo'[t] = Live /\ cur' = cur /\ Live' = Live
        /\ pc[t] # "push" /\ \A u \in Tabs \ {t} : pc'[u] = pc[u]
    BY <1>0, <1>6 DEF Snapshot, TypeOK, Live
  <2> QED
    BY <1>0, <2>1 DEF HandsEmpty, RowsAreAttended, Attended
<1>7. ASSUME NEW t \in Tabs, Send(t) PROVE HandsEmpty' /\ RowsAreAttended'
  <2>1. /\ pc[t] = "loop" /\ pc'[t] = "push" /\ Live' = Live
        /\ cur'[t] \in todo[t] /\ todo'[t] = todo[t] \ {cur'[t]}
        /\ \A u \in Tabs \ {t} : pc'[u] = pc[u] /\ todo'[u] = todo[u] /\ cur'[u] = cur[u]
        /\ UNCHANGED <<timer, clearing, missed>>
    BY <1>0, <1>7 DEF Send, TypeOK, Live
  <2>2. \A i \in Live : i # cur[t]
    BY <1>0, <2>1 DEF HandsEmpty, Live, Ids
  <2> QED
    BY <1>0, <2>1, <2>2 DEF HandsEmpty, RowsAreAttended, Attended
<1>8. ASSUME NEW t \in Tabs, Confirm(t) \/ DeadLetter(t)
      PROVE  HandsEmpty' /\ RowsAreAttended'
  <2>1. /\ pc[t] = "push" /\ pc'[t] = "loop" /\ cur'[t] = 0 /\ todo' = todo
        /\ \A u \in Tabs \ {t} : pc'[u] = pc[u] /\ cur'[u] = cur[u]
        /\ UNCHANGED <<timer, clearing, missed>>
    BY <1>0, <1>8 DEF Confirm, DeadLetter, FailedPush, NextRow, TypeOK
  <2>2. Live' \subseteq Live \ {cur[t]}
    BY <1>0, <1>8 DEF Confirm, DeadLetter, Update, TypeOK, Live
  <2> QED
    BY <1>0, <2>1, <2>2 DEF HandsEmpty, RowsAreAttended, Attended
<1>9. ASSUME NEW t \in Tabs, (\E r \in Records : Enqueue(t, r)) \/ Fire(t)
      PROVE  HandsEmpty' /\ RowsAreAttended'
  <2>1. UNCHANGED drain /\ Kick(t, FALSE)
    BY <1>9 DEF Enqueue, Fire
  <2> QED
    BY <1>0, <2>1, KickAttends
<1>10. ASSUME NEW t \in Tabs, ClearOne(t) PROVE HandsEmpty' /\ RowsAreAttended'
  <2>1. CASE clearing'[t] = {}
    BY <1>0, <1>10, <2>1, KickAttends DEF ClearOne
  <2>2. CASE clearing'[t] # {}
    BY <1>0, <1>10, <2>2 DEF ClearOne, HandsEmpty, RowsAreAttended, Attended
  <2> QED
    BY <2>1, <2>2
<1>11. ASSUME NEW t \in Tabs, RetryAll(t) PROVE HandsEmpty' /\ RowsAreAttended'
  BY <1>0, <1>11 DEF RetryAll, HandsEmpty, RowsAreAttended, Attended
<1>12. ASSUME NEW i \in Ids, Discard(i) PROVE HandsEmpty' /\ RowsAreAttended'
  <2>1. Live' \subseteq Live
    BY <1>0, <1>12 DEF Discard, TypeOK, Live
  <2> QED
    BY <1>0, <1>12, <2>1 DEF Discard, HandsEmpty, RowsAreAttended, Attended
<1>13. ASSUME \/ \E t \in Tabs : \/ Accept(t) \/ Disconnect(t)
                                 \/ \E answer \in {"refused", "rejected"} : Refuse(t, answer)
              \/ \E i \in Ids : Straggle(i) \/ Elapse(i)
              \/ GoOffline \/ GoOnline \/ UNCHANGED vars
       PROVE  HandsEmpty' /\ RowsAreAttended'
  <2>1. UNCHANGED <<pc, todo, cur, timer, clearing, state, missed>>
    BY <1>13 DEF Accept, Disconnect, Refuse, Answered, Straggle, Elapse, GoOffline,
       GoOnline, vars
  <2> QED
    BY <1>0, <2>1 DEF HandsEmpty, RowsAreAttended, Attended, Live
<1> QED
  BY <1>1, <1>2, <1>3, <1>4, <1>5, <1>6, <1>7, <1>8, <1>9, <1>10, <1>11, <1>12, <1>13
  DEF Next, EngineStep

\* Every row a kick was meant to serve has somebody to serve it, though the
\* engine drops every call that finds it busy, whatever tabs, retries and
\* failures do (kick, scheduleRetry and withTabLock in outboxEngine.ts).
THEOREM RowsAreAttendedTheorem == Spec => []RowsAreAttended
<1>1. AttendInv => RowsAreAttended
  BY DEF AttendInv
<1> QED
  BY AttendInit, AttendStep, <1>1, PTL DEF Spec
=============================================================================
