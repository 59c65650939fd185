-------------------------- MODULE CrewOutboxProofs --------------------------
(***************************************************************************)
(* Theorems about CrewOutbox, for any number of tabs, records, mutations,  *)
(* faults, crashes and retries.                                            *)
(***************************************************************************)
EXTENDS CrewOutbox, TLAPS

-----------------------------------------------------------------------------
(***************************************************************************)
(* The strengthening of TypeOK: a row still to be sent has budget left,    *)
(* and the engine works only with identifiers of mutations once queued.    *)
(***************************************************************************)
BudgetLeft ==
  \A i \in Ids :
    /\ state[i] = "live" => retryCount[i] < MaxRetries
    /\ state[i] = "none" => retryCount[i] = 0

Issued == {i \in Ids : owner[i] \in Records}

FreshIds == \A i \in Ids : i \in Issued <=> i < nextId

Sending(t) == pc[t] \in {"push", "hold", "holding"}

RowsKnown   == Present \subseteq Issued
StraysKnown == stray \subseteq Issued
PassKnown   == \A t \in Tabs : todo[t] \subseteq Issued
PushKnown   == \A t \in Tabs : Sending(t) => cur[t] \in Issued

TypeInv ==
  /\ TypeOK /\ BudgetLeft /\ FreshIds
  /\ RowsKnown /\ StraysKnown /\ PassKnown /\ PushKnown

-----------------------------------------------------------------------------
(***************************************************************************)
(* What the shared pieces of the actions do.                               *)
(***************************************************************************)
\* Each part of the invariant depends on its own variables only.
LEMMA Unchanged ==
  /\ TableOK /\ UNCHANGED table => TableOK'
  /\ PassOK /\ UNCHANGED pass => PassOK'
  /\ PushOK /\ UNCHANGED push => PushOK'
  /\ EngineOK /\ UNCHANGED engine => EngineOK'
  /\ ClientOK /\ UNCHANGED client => ClientOK'
  /\ ServerOK /\ UNCHANGED server => ServerOK'
  /\ HistoryOK /\ UNCHANGED history => HistoryOK'
  /\ BoundsOK /\ UNCHANGED bounds => BoundsOK'
  /\ BudgetLeft /\ UNCHANGED <<state, retryCount>> => BudgetLeft'
  /\ FreshIds /\ UNCHANGED <<owner, nextId>> => FreshIds'
  /\ RowsKnown /\ UNCHANGED <<state, owner>> => RowsKnown'
  /\ StraysKnown /\ UNCHANGED <<stray, owner>> => StraysKnown'
  /\ PassKnown /\ UNCHANGED <<todo, owner>> => PassKnown'
  /\ PushKnown /\ UNCHANGED <<pc, cur, owner>> => PushKnown'
BY DEF TableOK, PassOK, PushOK, EngineOK, ClientOK, ServerOK, HistoryOK, BoundsOK,
       table, pass, push, engine, client, server, history, bounds,
       BudgetLeft, FreshIds, RowsKnown, StraysKnown, PassKnown, PushKnown,
       Present, Issued, Sending, Ids

\* processOutbox() only ever moves an idle tab to the lock.
LEMMA KickEffect ==
  ASSUME NEW t \in Tabs, EngineOK, Kick(t), UNCHANGED lock
  PROVE  /\ EngineOK'
         /\ \A u \in Tabs : pc'[u] = pc[u] \/ (pc[u] = "idle" /\ pc'[u] = "lock")
<1>1. CASE latched[t]
  BY <1>1 DEF Kick, EngineOK
<1>2. CASE ~latched[t]
  <2>1. /\ pc' = [pc EXCEPT ![t] = IF pc[t] = "idle" THEN "lock" ELSE pc[t]]
        /\ redrain' = [redrain EXCEPT ![t] = pc[t] # "idle"]
    BY <1>2 DEF Kick, EngineOK
  <2> QED BY <2>1 DEF EngineOK
<1> QED BY <1>1, <1>2

\* The end of a pass forgets the tab's locals, gives the lock back and leaves
\* the other tabs alone.
LEMMA EndPassEffect ==
  ASSUME NEW t \in Tabs, PassOK, PushOK, EngineOK, EndPass(t)
  PROVE  /\ PassOK' /\ PushOK' /\ EngineOK'
         /\ todo'[t] = {} /\ pc'[t] \in {"idle", "lock"}
         /\ \A u \in Tabs \ {t} :
              todo'[u] = todo[u] /\ pc'[u] = pc[u] /\ cur'[u] = cur[u]
<1> USE BoundsAssumption DEF EndPass
<1>1. PassOK'
  BY DEF ForgetPass, PassOK, Ids
<1>2. PushOK'
  BY DEF ForgetPush, PushOK
<1>3. EngineOK'
  BY DEF Leave, ReleaseLock, EngineOK
<1>4. todo'[t] = {} /\ pc'[t] \in {"idle", "lock"}
  BY DEF ForgetPass, PassOK, Leave, EngineOK
<1>5. \A u \in Tabs \ {t} : todo'[u] = todo[u] /\ pc'[u] = pc[u] /\ cur'[u] = cur[u]
  BY DEF ForgetPass, PassOK, ForgetPush, PushOK, Leave, EngineOK
<1> QED BY <1>1, <1>2, <1>3, <1>4, <1>5

\* Deleting rows leaves the others as they were.
LEMMA RemoveEffect ==
  ASSUME NEW S, TableOK, HistoryOK, BudgetLeft, RowsKnown, Remove(S), UNCHANGED <<owner, nextId>>
  PROVE  /\ TableOK' /\ BudgetLeft' /\ RowsKnown'
         /\ refusals' \in [Ids -> Nat]
<1>1. TableOK'
  <2>1. state' \in [Ids -> {"none", "live"} \cup Failed]
    BY DEF Remove, TableOK
  <2>2. retryCount' \in [Ids -> 0..MaxRetries]
    BY BoundsAssumption DEF Remove, TableOK
  <2>3. backoff' \in [Ids -> BOOLEAN]
    BY DEF Remove, TableOK
  <2> QED BY <2>1, <2>2, <2>3 DEF TableOK
<1>2. BudgetLeft'
  BY DEF Remove, BudgetLeft, TableOK
<1>3. RowsKnown'
  BY DEF Remove, RowsKnown, TableOK, Present, Issued
<1>4. refusals' \in [Ids -> Nat]
  BY DEF Remove, HistoryOK
<1> QED BY <1>1, <1>2, <1>3, <1>4

\* Updating a row that is gone changes nothing, and no other row either way.
LEMMA UpdateValue ==
  ASSUME NEW S, NEW f \in [Ids -> S], NEW i \in Ids, NEW v \in S
  PROVE  /\ Update(f, i, v) \in [Ids -> S]
         /\ \A j \in Ids : Update(f, i, v)[j] =
              IF j = i /\ state[i] # "none" THEN v ELSE f[j]
BY DEF Update

-----------------------------------------------------------------------------
(***************************************************************************)
(* Type correctness.                                                       *)
(***************************************************************************)
LEMMA TypeInit == Init => TypeInv
<1> SUFFICES ASSUME Init PROVE TypeInv
  OBVIOUS
<1> USE BoundsAssumption, NamesAssumption DEF Init
<1>1. TableOK /\ PassOK /\ PushOK
  BY DEF TableOK, PassOK, PushOK, Ids, Failed
<1>2. EngineOK /\ ClientOK /\ ServerOK /\ HistoryOK /\ BoundsOK
  BY DEF EngineOK, ClientOK, ServerOK, HistoryOK, BoundsOK, Ids
<1>3. BudgetLeft /\ FreshIds /\ RowsKnown /\ StraysKnown /\ PassKnown /\ PushKnown
  BY DEF BudgetLeft, FreshIds, RowsKnown, StraysKnown, PassKnown, PushKnown, Present, Issued,
         Sending, Ids
<1> QED BY <1>1, <1>2, <1>3 DEF TypeInv, TypeOK

LEMMA TypeStep == TypeInv /\ [Next]_vars => TypeInv'
<1> SUFFICES ASSUME TypeInv, [Next]_vars PROVE TypeInv'
  OBVIOUS
<1> USE BoundsAssumption, NamesAssumption DEF TypeInv, TypeOK
<1>1. ASSUME NEW t \in Tabs, Wake(t) PROVE TypeInv'
  <2>1. EngineOK' /\ PushKnown'
    BY <1>1, KickEffect DEF Wake, PushKnown, Sending, Issued, table, push
  <2> QED BY <1>1, <2>1, Unchanged DEF Wake, table, pass, push, server
<1>2. ASSUME NEW t \in Tabs, NEW r \in Records, Enqueue(t, r) PROVE TypeInv'
  <2>1. TableOK'
    BY <1>2 DEF Enqueue, TableOK, Ids, Failed
  <2>2. EngineOK'
    BY <1>2, KickEffect DEF Enqueue
  <2>3. BudgetLeft' /\ FreshIds' /\ Issued \subseteq Issued'
    <3>1. retryCount[nextId] = 0
      <4>1. nextId \in Ids /\ ~(nextId < nextId)
        BY <1>2 DEF Enqueue, Ids
      <4>2. state[nextId] = "none"
        BY <4>1 DEF FreshIds, RowsKnown, Present
      <4> QED BY <4>1, <4>2 DEF BudgetLeft
    <3> QED BY <3>1, <1>2 DEF Enqueue, TableOK, BudgetLeft, FreshIds, Issued, Ids, Failed
  <2>4. RowsKnown' /\ StraysKnown' /\ PassKnown'
    BY <1>2, <2>3 DEF Enqueue, TableOK, RowsKnown, StraysKnown, PassKnown, Issued, Present,
                      server, pass, Ids
  <2>5. PushKnown'
    BY <1>2, <2>3, KickEffect DEF Enqueue, PushKnown, Sending, push
  <2> QED BY <1>2, <2>1, <2>2, <2>3, <2>4, <2>5, Unchanged DEF Enqueue
<1>3. ASSUME NEW t \in Tabs, Snapshot(t) PROVE TypeInv'
  <2>1. PassOK'
    BY <1>3 DEF Snapshot, PassOK, TableOK, BudgetLeft, Ids
  <2>2. EngineOK'
    BY <1>3 DEF Snapshot, EngineOK
  <2>3. PassKnown' /\ PushKnown'
    BY <1>3 DEF Snapshot, EngineOK, PassOK, PassKnown, PushKnown, RowsKnown, Present, Issued,
                Sending, table, push
  <2> QED BY <1>3, <2>1, <2>2, <2>3, Unchanged DEF Snapshot, table, push, server
<1>4. ASSUME NEW t \in Tabs, SkipPass(t) PROVE TypeInv'
  <2>1. EngineOK' /\ PushKnown'
    BY <1>4 DEF SkipPass, Leave, EngineOK, PushKnown, Sending, Issued, table, push
  <2> QED BY <1>4, <2>1, Unchanged DEF SkipPass, table, pass, push, server
<1>5. ASSUME NEW t \in Tabs, BackOff(t) PROVE TypeInv'
  <2>1. PassOK'
    <3>1. PICK i \in todo[t] : blocked' = [blocked EXCEPT ![t] = blocked[t] \cup {owner[i]}]
      BY <1>5 DEF BackOff
    <3>2. owner[i] \in Records
      BY DEF PassKnown, Issued
    <3> QED BY <1>5, <3>1, <3>2 DEF BackOff, PassOK
  <2> QED BY <1>5, <2>1, Unchanged DEF BackOff, table, push, engine, server
<1>6. ASSUME NEW t \in Tabs, Send(t) PROVE TypeInv'
  <2>1. PICK i \in todo[t] : /\ cur' = [cur EXCEPT ![t] = i]
                             /\ todo' = [todo EXCEPT ![t] = todo[t] \ {i}]
    BY <1>6 DEF Send
  <2>2. PassOK' /\ PushOK' /\ EngineOK'
    BY <1>6, <2>1 DEF Send, PassOK, PushOK, EngineOK
  <2>3. PassKnown' /\ PushKnown'
    BY <1>6, <2>1 DEF Send, PassOK, PushOK, EngineOK, PassKnown, PushKnown, Issued, Sending, table
  <2> QED BY <1>6, <2>2, <2>3, Unchanged DEF Send, table, server
<1>7. ASSUME NEW t \in Tabs, FinishPass(t) PROVE TypeInv'
  <2>1. PassOK' /\ PushOK' /\ EngineOK' /\ PassKnown' /\ PushKnown'
    BY <1>7, EndPassEffect DEF FinishPass, PassKnown, PushKnown, Issued, Sending, table
  <2> QED BY <1>7, <2>1, Unchanged DEF FinishPass, table, server
<1>8. ASSUME NEW t \in Tabs, Abort(t) PROVE TypeInv'
  <2>1. PassOK' /\ PushOK' /\ EngineOK' /\ PassKnown' /\ PushKnown'
    BY <1>8, EndPassEffect DEF Abort, PassKnown, PushKnown, Issued, Sending, table
  <2>2. ClientOK' /\ HistoryOK'
    BY <1>8 DEF Abort, NoteExposure, ClientOK, HistoryOK
  <2> QED BY <1>8, <2>1, <2>2, Unchanged DEF Abort, table, server
<1>9. ASSUME NEW t \in Tabs, Confirm(t) PROVE TypeInv'
  <2>1. TableOK' /\ BudgetLeft' /\ RowsKnown' /\ HistoryOK'
    BY <1>9, RemoveEffect DEF Confirm, HistoryOK
  <2>2. PassOK' /\ PushOK' /\ EngineOK'
    BY <1>9 DEF Confirm, ForgetPush, PassOK, PushOK, EngineOK
  <2>3. PushKnown'
    BY <1>9 DEF Confirm, ForgetPush, PushOK, EngineOK, PushKnown, Issued, Sending
  <2> QED BY <1>9, <2>1, <2>2, <2>3, Unchanged DEF Confirm, server
<1>10. ASSUME NEW t \in Tabs, Requeue(t) PROVE TypeInv'
  <2>1. cur[t] \in Ids /\ owner[cur[t]] \in Records /\ Attempts(t) \in 1..MaxRetries
    BY <1>10 DEF Requeue, FailedPush, PushKnown, Sending, Issued, Attempts, PassOK
  <2>2. TableOK' /\ BudgetLeft' /\ RowsKnown'
    <3>1. backoff' \in [Ids -> BOOLEAN]
      BY <1>10, <2>1, UpdateValue DEF Requeue, TableOK
    <3>2. retryCount' \in [Ids -> 0..MaxRetries]
      <4>1. Update(retryCount, cur[t], Attempts(t)) \in [Ids -> 0..MaxRetries]
        BY <2>1, UpdateValue DEF TableOK
      <4> QED BY <1>10, <4>1 DEF Requeue, TableOK
    <3>3. Kind(t) = "transient" => Attempts(t) < MaxRetries
      BY <1>10, <2>1 DEF Requeue, Dies
    <3>4. BudgetLeft'
      BY <1>10, <2>1, <3>3 DEF Requeue, Update, TableOK, BudgetLeft
    <3> QED BY <1>10, <3>1, <3>2, <3>4, Unchanged DEF Requeue, TableOK
  <2>3. PassOK' /\ PushOK' /\ EngineOK' /\ PassKnown' /\ PushKnown'
    <3>1. CASE fails[t] + 1 >= CircuitBreak
      BY <1>10, <3>1, EndPassEffect DEF Requeue, PassKnown, PushKnown, Issued, Sending
    <3>2. CASE ~(fails[t] + 1 >= CircuitBreak)
      <4>1. /\ blocked' = [blocked EXCEPT ![t] = blocked[t] \cup {owner[cur[t]]}]
            /\ fails' = [fails EXCEPT ![t] = fails[t] + 1]
            /\ pc' = [pc EXCEPT ![t] = "loop"]
            /\ ForgetPush(t)
            /\ UNCHANGED <<todo, seen, held, redrain, lock, owner>>
        BY <1>10, <3>2 DEF Requeue
      <4>2. PassOK'
        BY <2>1, <3>2, <4>1 DEF PassOK
      <4>3. PushOK' /\ EngineOK' /\ PassKnown' /\ PushKnown'
        BY <4>1 DEF ForgetPush, PushOK, EngineOK, PassKnown, PushKnown, Issued, Sending
      <4> QED BY <4>2, <4>3
    <3> QED BY <3>1, <3>2
  <2> QED BY <1>10, <2>2, <2>3, Unchanged DEF Requeue, server
<1>11. ASSUME NEW t \in Tabs, DeadLetter(t) PROVE TypeInv'
  <2>1. cur[t] \in Ids /\ Attempts(t) \in 0..MaxRetries
    BY <1>11 DEF DeadLetter, FailedPush, PushKnown, Sending, Issued, Attempts, PassOK
  <2>2. state' \in [Ids -> {"none", "live"} \cup Failed]
    BY <1>11, <2>1, UpdateValue DEF DeadLetter, TableOK, Failed
  <2>3. retryCount' \in [Ids -> 0..MaxRetries]
    BY <1>11, <2>1, UpdateValue DEF DeadLetter, TableOK
  <2>4. TableOK' /\ BudgetLeft' /\ RowsKnown'
    BY <1>11, <2>1, <2>2, <2>3
    DEF DeadLetter, Update, TableOK, BudgetLeft, RowsKnown, Present, Issued
  <2>5. PushOK' /\ EngineOK' /\ PushKnown'
    BY <1>11 DEF DeadLetter, FailedPush, PushOK, EngineOK, PushKnown, Issued, Sending
  <2> QED BY <1>11, <2>4, <2>5, Unchanged DEF DeadLetter, pass, server
<1>12. ASSUME NEW t \in Tabs, HoldRead(t) PROVE TypeInv'
  <2>1. PushOK' /\ EngineOK' /\ PushKnown'
    BY <1>12 DEF HoldRead, Rows, Present, PushOK, EngineOK, PushKnown, Issued, Sending, table
  <2> QED BY <1>12, <2>1, Unchanged DEF HoldRead, table, pass, server
<1>13. ASSUME NEW t \in Tabs, HoldOne(t) PROVE TypeInv'
  <2>1. PICK j \in succ[t] : /\ state' = Update(state, j, "held")
                             /\ held' = [held EXCEPT ![t] = held[t] \cup {j}]
                             /\ succ' = [succ EXCEPT ![t] = succ[t] \ {j}]
    BY <1>13 DEF HoldOne
  <2>2. j \in Ids
    BY DEF PushOK
  <2>3. TableOK' /\ BudgetLeft' /\ RowsKnown'
    <3>1. state' \in [Ids -> {"none", "live"} \cup Failed]
      BY <2>1, <2>2, UpdateValue DEF TableOK, Failed
    <3> QED BY <1>13, <2>1, <2>2, <3>1
            DEF HoldOne, Update, TableOK, BudgetLeft, RowsKnown, Present, Issued
  <2>4. PassOK' /\ PushOK'
    BY <1>13, <2>1, <2>2 DEF HoldOne, PassOK, PushOK
  <2>5. HistoryOK'
    BY <1>13 DEF HoldOne, NoteExposure, HistoryOK
  <2> QED BY <1>13, <2>3, <2>4, <2>5, Unchanged DEF HoldOne, engine, server
<1>14. ASSUME NEW t \in Tabs, HoldDone(t) PROVE TypeInv'
  <2>1. PassOK' /\ PushOK' /\ EngineOK'
    BY <1>14 DEF HoldDone, ForgetPush, PassOK, PushOK, EngineOK
  <2>2. PushKnown'
    BY <1>14 DEF HoldDone, ForgetPush, EngineOK, PushOK, PushKnown, Issued, Sending, table
  <2> QED BY <1>14, <2>1, <2>2, Unchanged DEF HoldDone, table, server
<1>15. ASSUME NEW t \in Tabs, ClearOne(t) PROVE TypeInv'
  <2>1. PICK j \in clearing[t] :
          /\ state' = Update(state, j, "live")
          /\ retryCount' = Update(retryCount, j, 0)
          /\ backoff' = Update(backoff, j, FALSE)
          /\ refusals' = IF state[j] \in Failed THEN [refusals EXCEPT ![j] = 0] ELSE refusals
          /\ clearing' = [clearing EXCEPT ![t] = clearing[t] \ {j}]
    BY <1>15 DEF ClearOne
  <2>2. j \in Ids
    BY DEF ClientOK
  <2>3. TableOK' /\ BudgetLeft' /\ RowsKnown'
    <3>1. state' \in [Ids -> {"none", "live"} \cup Failed]
      BY <2>1, <2>2, UpdateValue DEF TableOK
    <3>2. retryCount' \in [Ids -> 0..MaxRetries]
      BY <2>1, <2>2, UpdateValue DEF TableOK
    <3>3. backoff' \in [Ids -> BOOLEAN]
      BY <2>1, <2>2, UpdateValue DEF TableOK
    <3>4. TableOK'
      BY <1>15, <3>1, <3>2, <3>3 DEF ClearOne, TableOK
    <3>5. BudgetLeft' /\ RowsKnown'
      BY <1>15, <2>1, <2>2
      DEF ClearOne, Update, TableOK, BudgetLeft, RowsKnown, Present, Issued
    <3> QED BY <3>4, <3>5
  <2>4. EngineOK' /\ PushKnown'
    <3>1. CASE clearing'[t] = {}
      BY <1>15, <3>1, KickEffect DEF ClearOne, PushKnown, Sending, Issued, push
    <3>2. CASE clearing'[t] # {}
      BY <1>15, <3>2 DEF ClearOne, EngineOK, PushKnown, Sending, Issued, push
    <3> QED BY <3>1, <3>2
  <2>5. ClientOK' /\ HistoryOK'
    BY <1>15, <2>1 DEF ClearOne, NoteExposure, ClientOK, HistoryOK
  <2> QED BY <1>15, <2>3, <2>4, <2>5, Unchanged DEF ClearOne, pass, push, server
<1>16. ASSUME NEW t \in Tabs, Accept(t) \/ ApplyFirst(t) PROVE TypeInv'
  <2>1. PushOK' /\ ServerOK'
    BY <1>16 DEF Accept, ApplyFirst, push, Awaiting, Apply, PushOK, ServerOK, PushKnown, Sending, Issued
  <2> QED BY <1>16, <2>1, Unchanged DEF Accept, ApplyFirst, table, pass, push, engine
<1>17. ASSUME NEW t \in Tabs, NEW answer \in {"refused", "rejected"}, Refuse(t, answer)
       PROVE  TypeInv'
  <2>1. PushOK' /\ BoundsOK'
    BY <1>17 DEF Refuse, PushOK, BoundsOK
  <2>2. HistoryOK'
    <3>1. refusals' = [refusals EXCEPT ![cur[t]] =
                         IF answer = "rejected" THEN MaxRetries ELSE refusals[cur[t]] + 1]
      BY <1>17 DEF Refuse
    <3>2. cur[t] \in Ids
      BY <1>17 DEF Refuse, Awaiting, PushKnown, Sending, Issued
    <3> QED BY <1>17, <3>1, <3>2 DEF Refuse, HistoryOK
  <2> QED BY <1>17, <2>1, <2>2, Unchanged DEF Refuse, table, pass, engine, server
<1>18. ASSUME NEW t \in Tabs, TimeOut(t) \/ Disconnect(t) PROVE TypeInv'
  <2>1. GiveUp(t) /\ cur[t] \in Issued
    BY <1>18 DEF TimeOut, Disconnect, Awaiting, PushKnown, Sending
  <2>2. PushOK' /\ ServerOK'
    BY <2>1 DEF GiveUp, PushOK, ServerOK, Issued
  <2>3. StraysKnown'
    BY <2>1 DEF GiveUp, StraysKnown, Issued, table
  <2>4. BoundsOK'
    BY <1>18 DEF TimeOut, Disconnect, GiveUp, BoundsOK
  <2> QED BY <2>1, <2>2, <2>3, <2>4, Unchanged DEF GiveUp, table, pass, engine
<1>19. ASSUME NEW t \in Tabs, NEW rs, Retry(t, rs) PROVE TypeInv'
  <2>1. ClientOK'
    BY <1>19 DEF Retry, Present, ClientOK
  <2>2. BoundsOK'
    BY <1>19 DEF Retry, BoundsOK
  <2> QED BY <1>19, <2>1, <2>2, Unchanged DEF Retry, table, pass, push, engine, server
<1>20. ASSUME NEW t \in Tabs, NEW i \in Ids, PickDiscards(t, i) PROVE TypeInv'
  <2>1. ClientOK'
    BY <1>20 DEF PickDiscards, ClientOK, Ids
  <2>2. BoundsOK'
    BY <1>20 DEF PickDiscards, BoundsOK
  <2> QED BY <1>20, <2>1, <2>2, Unchanged DEF PickDiscards, table, pass, push, engine, server
<1>21. ASSUME NEW t \in Tabs, Crash(t) PROVE TypeInv'
  <2>1. PassOK' /\ PushOK' /\ EngineOK'
    BY <1>21 DEF Crash, ForgetPass, ForgetPush, ReleaseLock, PassOK, PushOK, EngineOK, Ids
  <2>2. ClientOK' /\ HistoryOK' /\ BoundsOK'
    BY <1>21 DEF Crash, NoteExposure, ClientOK, HistoryOK, BoundsOK
  <2>3. ServerOK' /\ StraysKnown'
    BY <1>21 DEF Crash, Awaiting, ServerOK, StraysKnown, PushKnown, Sending, Issued, table
  <2>4. PassKnown' /\ PushKnown'
    BY <1>21 DEF Crash, ForgetPass, ForgetPush, PassOK, PushOK, EngineOK, PassKnown, PushKnown,
                 Sending, Issued, table
  <2> QED BY <1>21, <2>1, <2>2, <2>3, <2>4, Unchanged DEF Crash, table
<1>22. ASSUME NEW t \in Tabs, Logout(t) \/ RemoteShutdown(t) PROVE TypeInv'
  <2>1. ClientOK'
    BY <1>22 DEF Logout, RemoteShutdown, ClientOK
  <2> QED BY <1>22, <2>1, Unchanged
          DEF Logout, RemoteShutdown, table, pass, push, engine, server
<1>23. ASSUME NEW i \in Ids, Straggle(i) PROVE TypeInv'
  <2>1. ServerOK' /\ HistoryOK' /\ StraysKnown'
    BY <1>23 DEF Straggle, Apply, ServerOK, HistoryOK, StraysKnown, Issued, table
  <2> QED BY <1>23, <2>1, Unchanged DEF Straggle, table, pass, push, engine
<1>24. ASSUME NEW i \in Ids, Elapse(i) PROVE TypeInv'
  <2>1. TableOK'
    BY <1>24 DEF Elapse, TableOK
  <2> QED BY <1>24, <2>1, Unchanged DEF Elapse, pass, push, engine, server
<1>25. ASSUME GoOffline \/ GoOnline PROVE TypeInv'
  <2>1. ClientOK'
    BY <1>25 DEF GoOffline, GoOnline, ClientOK
  <2>2. BoundsOK'
    BY <1>25 DEF GoOffline, GoOnline, BoundsOK, bounds
  <2> QED BY <1>25, <2>1, <2>2, Unchanged DEF GoOffline, GoOnline, table, pass, push, engine, server
<1>26. ASSUME Wipe PROVE TypeInv'
  <2>1. TableOK' /\ BudgetLeft' /\ RowsKnown' /\ HistoryOK'
    BY <1>26, RemoveEffect DEF Wipe, HistoryOK, Present
  <2> QED BY <1>26, <2>1, Unchanged DEF Wipe, pass, push, engine, server
<1>27. CASE UNCHANGED vars
  BY <1>27, Unchanged DEF vars, table, pass, push, engine, server
<1>28. ASSUME NEW t \in Tabs, DropOne(t) PROVE TypeInv'
  <2>1. PICK j \in Ids :
          /\ Remove({j}) /\ abandoned' = abandoned \cup ({j} \cap Present)
          /\ intact' = IF state[j] = "live" THEN intact \ {owner[j]} ELSE intact
          /\ dropping' = [dropping EXCEPT ![t] = dropping[t] \ {j}]
    BY <1>28 DEF DropOne, ClientOK
  <2>2. UNCHANGED <<owner, nextId>>
    BY <1>28 DEF DropOne
  <2>3. TableOK' /\ BudgetLeft' /\ RowsKnown' /\ HistoryOK'
    BY <2>1, <2>2, RemoveEffect DEF HistoryOK
  <2>4. ClientOK'
    BY <1>28, <2>1 DEF DropOne, ClientOK
  <2> QED BY <1>28, <2>3, <2>4, Unchanged DEF DropOne, pass, push, engine, server
<1> QED
  BY <1>1, <1>2, <1>3, <1>4, <1>5, <1>6, <1>7, <1>8, <1>9, <1>10, <1>11, <1>12, <1>13, <1>14,
     <1>15, <1>16, <1>17, <1>18, <1>19, <1>20, <1>21, <1>22, <1>23, <1>24, <1>25, <1>26, <1>27,
     <1>28
  DEF Next, EngineStep

\* Every reachable state is well typed: the drain's counters stay within
\* MAX_RETRIES and CONSECUTIVE_FAILURE_CIRCUIT_BREAK (syncService.ts:262,
\* 420-447), and what it carries across an await always names a queued row.
THEOREM TypeCorrect == Spec => []TypeOK
<1>1. TypeInv => TypeOK
  BY DEF TypeInv
<1> QED BY TypeInit, TypeStep, <1>1, PTL DEF Spec

-----------------------------------------------------------------------------
(***************************************************************************)
(* Order.  The strengthening of FrozenBehindDeadLetter: what holds of a    *)
(* tab in its pass, and what holds of the server.                          *)
(***************************************************************************)
InPass(t) == pc[t] \in {"loop", "push", "hold", "holding"}

\* One pass at a time, under the tab lock.
OnePass == \A t \in Tabs : InPass(t) <=> lock = t

\* The record a pass is holding back: HoldRead has listed what HoldOne changes.
BeingHeld(t, c) == pc[t] = "holding" /\ owner[c] = owner[cur[t]]

\* A row discarded after a retry had made it live, with its record's order.
GivenUp(c) == c \in abandoned /\ owner[c] \notin intact

\* What the rest of a pass may still send is live, and is about to be held
\* back or has every earlier row of its record still to come, or being sent.
SnapshotInOrder(t) ==
  InPass(t) /\ ~latched[t] =>
    \A c \in Candidates(t) :
      /\ state[c] = "live" \/ GivenUp(c)
      /\ BeingHeld(t, c) => c \in succ[t] \/ GivenUp(c)
      /\ owner[c] \in intact /\ ~BeingHeld(t, c) =>
           \A i \in Rows(owner[c]) :
             i < c => i \in Candidates(t) \/ (Sending(t) /\ i = cur[t])

\* The row being sent is the oldest of its record.
SendingOldest(t) ==
  Sending(t) /\ owner[cur[t]] \in intact => \A i \in Rows(owner[cur[t]]) : cur[t] <= i

\* The loop is in identifier order.
SendingFirst(t) == Sending(t) => \A c \in Candidates(t) : cur[t] < c

\* The row being sent is live, unless it or the database has been deleted.
SendingLive(t) ==
  pc[t] = "push" =>
    state[cur[t]] = "live" \/ GivenUp(cur[t]) \/ \A u \in Tabs : latched[u]

\* What is being held back was queued after the row that died.
HoldingLater(t) ==
  pc[t] = "holding" =>
    \A j \in succ[t] : cur[t] < j /\ j \in Issued /\ owner[j] = owner[cur[t]]

\* Nothing newer than the row being sent has landed, or may still land.
SendingNewest(t) ==
  pc[t] = "push" /\ owner[cur[t]] \in intact =>
    /\ latest[owner[cur[t]]] <= cur[t]
    /\ \A i \in stray : owner[i] = owner[cur[t]] => i <= cur[t]

PassInv(t) ==
  /\ SnapshotInOrder(t) /\ SendingOldest(t) /\ SendingFirst(t)
  /\ SendingLive(t) /\ HoldingLater(t) /\ SendingNewest(t)

\* Nothing older than a write the server has, or may yet get, still waits.
LatestKnown  == \A r \in Records : latest[r] < nextId
WaitingNewer == \A r \in intact : \A i \in Rows(r) : latest[r] <= i
StraysOlder  == \A i \in stray : owner[i] \in intact => \A j \in Rows(owner[i]) : i <= j

OrderInv ==
  /\ TypeInv /\ OnePass /\ \A t \in Tabs : PassInv(t)
  /\ LatestKnown /\ WaitingNewer /\ StraysOlder
  /\ FrozenBehindDeadLetter

-----------------------------------------------------------------------------
(***************************************************************************)
(* Lemmas about the order invariant.                                       *)
(***************************************************************************)
\* A tab outside its pass has nothing to keep.
LEMMA Outside ==
  ASSUME NEW t
  PROVE  (~InPass(t) => PassInv(t)) /\ (~InPass(t)' => PassInv(t)')
BY DEF InPass, PassInv, SnapshotInOrder, SendingOldest, SendingFirst, SendingLive,
       HoldingLater, SendingNewest, Sending

\* What the steps of others, and of the device, may do to a tab's pass.
Undisturbed(t) ==
  /\ pc'[t] = pc[t] /\ cur'[t] = cur[t] /\ succ'[t] = succ[t]
  /\ todo'[t] = todo[t] /\ held'[t] = held[t] /\ blocked'[t] = blocked[t]

\* Rows may go and order may be lost; a live row stays live until it is given
\* up, or the tabs are signed out.
RowsRecede ==
  /\ owner' = owner /\ Present' \subseteq Present
  /\ intact' \subseteq intact /\ abandoned \subseteq abandoned'

Receding ==
  /\ RowsRecede
  /\ \A t \in Tabs : latched[t] => latched'[t]
  /\ \A i \in Ids :
       state[i] = "live" => state'[i] = "live" \/ GivenUp(i)' \/ \A u \in Tabs : latched'[u]

LEMMA PassKept ==
  ASSUME NEW t \in Tabs, TypeInv, Undisturbed(t), Receding, PassInv(t)
  PROVE  /\ UNCHANGED <<latest, stray>> => PassInv(t)'
         /\ SendingNewest(t)' => PassInv(t)'
<1> USE DEF Undisturbed, Receding, RowsRecede
<1>1. /\ InPass(t)' <=> InPass(t)
      /\ Sending(t)' <=> Sending(t)
      /\ Candidates(t)' = Candidates(t)
      /\ Candidates(t) \subseteq Ids
      /\ Sending(t) => cur[t] \in Ids
      /\ \A r : Rows(r)' \subseteq Rows(r)
      /\ \A c : BeingHeld(t, c)' <=> BeingHeld(t, c)
      /\ \A c : GivenUp(c) => GivenUp(c)'
  BY DEF GivenUp, InPass, Sending, Candidates, Rows, BeingHeld, TypeInv, TypeOK, PassOK, PushKnown, Issued
<1>2. SnapshotInOrder(t)'
  <2> SUFFICES ASSUME InPass(t), ~latched'[t], NEW c \in Candidates(t)
               PROVE  /\ state'[c] = "live" \/ GivenUp(c)'
                      /\ BeingHeld(t, c) => c \in succ[t] \/ GivenUp(c)'
                      /\ owner[c] \in intact' /\ ~BeingHeld(t, c) =>
                           \A i \in Rows(owner[c])' :
                             i < c => i \in Candidates(t) \/ (Sending(t) /\ i = cur[t])
    BY <1>1 DEF SnapshotInOrder
  <2>1. ~latched[t]
    OBVIOUS
  <2> QED BY <1>1, <2>1 DEF PassInv, SnapshotInOrder
<1>3. SendingOldest(t)'
  BY <1>1 DEF PassInv, SendingOldest
<1>4. SendingFirst(t)'
  BY <1>1 DEF PassInv, SendingFirst
<1>5. SendingLive(t)'
  BY <1>1 DEF PassInv, SendingLive, Sending
<1>6. HoldingLater(t)'
  BY <1>1 DEF PassInv, HoldingLater, Issued
<1>7. UNCHANGED <<latest, stray>> => SendingNewest(t)'
  BY DEF PassInv, SendingNewest
<1> QED BY <1>2, <1>3, <1>4, <1>5, <1>6, <1>7 DEF PassInv

LEMMA ServerKept ==
  ASSUME RowsRecede
  PROVE  /\ WaitingNewer /\ UNCHANGED latest => WaitingNewer'
         /\ StraysOlder /\ UNCHANGED stray => StraysOlder'
         /\ LatestKnown /\ UNCHANGED <<latest, nextId>> => LatestKnown'
BY DEF RowsRecede, WaitingNewer, StraysOlder, LatestKnown, Rows

\* A record is exposed only by a row that dies or revives, or a guard that is lost.
LEMMA FrozenKept ==
  ASSUME FrozenBehindDeadLetter, owner' = owner, intact' \subseteq intact,
         \A i \in Ids : state'[i] \in {"none", state[i]},
         \A j \in Ids : Guarded(j) => Guarded(j)'
  PROVE  FrozenBehindDeadLetter'
<1> SUFFICES ASSUME NEW r \in intact', NEW i \in Rows(r)', NEW j \in Rows(r)',
                    i < j, state'[i] \in Failed, state'[j] = "live"
             PROVE  Guarded(j)'
  BY DEF FrozenBehindDeadLetter, Exposed
<1>1. i \in Rows(r) /\ j \in Rows(r) /\ state[i] \in Failed /\ state[j] = "live"
  BY DEF Rows, Present, Failed
<1> QED BY <1>1 DEF FrozenBehindDeadLetter, Exposed, Rows, Present

\* A step that notes what it exposes keeps the records it leaves intact frozen.
LEMMA FrozenNoted ==
  ASSUME HistoryOK, NoteExposure
  PROVE  intact' \subseteq intact /\ FrozenBehindDeadLetter'
BY DEF NoteExposure, FrozenBehindDeadLetter, HistoryOK

\* Within a pass, the other tabs have none.
LEMMA Alone ==
  ASSUME NEW t \in Tabs, OnePass, InPass(t)
  PROVE  \A u \in Tabs \ {t} : ~InPass(u)
BY DEF OnePass

\* Guarded(j) has nothing to say of a tab outside "hold" and "holding".
LEMMA GuardKept ==
  ASSUME NEW j, Guarded(j), owner' = owner,
         \A u \in Tabs : \/ pc[u] \notin {"hold", "holding"}
                         \/ pc'[u] = pc[u] /\ cur'[u] = cur[u] /\ succ'[u] = succ[u]
  PROVE  Guarded(j)'
BY DEF Guarded

-----------------------------------------------------------------------------
(***************************************************************************)
(* The order invariant is inductive.  Steps outside a pass first, then the *)
(* steps of a pass.                                                        *)
(***************************************************************************)
LEMMA OrderInit == Init => OrderInv
<1> SUFFICES ASSUME Init PROVE OrderInv
  OBVIOUS
<1>1. TypeInv
  BY TypeInit
<1>2. OnePass
  BY NamesAssumption DEF Init, OnePass, InPass
<1>3. \A t \in Tabs : PassInv(t)
  BY Outside DEF Init, InPass
<1>4. LatestKnown /\ WaitingNewer /\ StraysOlder /\ FrozenBehindDeadLetter
  BY DEF Init, LatestKnown, WaitingNewer, StraysOlder, FrozenBehindDeadLetter, Exposed, Rows,
         Present
<1> QED BY <1>1, <1>2, <1>3, <1>4 DEF OrderInv

\* Steps that leave the records, the server and every pass as they were.
LEMMA OrderFrame ==
  ASSUME OrderInv, TypeInv',
         UNCHANGED <<owner, state, nextId, abandoned, intact, latched, lock, latest, stray>>,
         UNCHANGED <<todo, held, blocked, cur, succ>>,
         \A t \in Tabs : pc'[t] = pc[t] \/ (~InPass(t) /\ ~InPass(t)')
  PROVE  OrderInv'
<1> USE DEF OrderInv
<1>1. OnePass'
  BY DEF OnePass, InPass
<1>2. Receding
  BY DEF Receding, RowsRecede, Present
<1>3. ASSUME NEW t \in Tabs PROVE PassInv(t)'
  <2>1. CASE pc'[t] = pc[t]
    BY <1>2, <2>1, PassKept DEF Undisturbed
  <2>2. CASE ~InPass(t)'
    BY <2>2, Outside
  <2> QED BY <2>1, <2>2
<1>4. LatestKnown' /\ WaitingNewer' /\ StraysOlder'
  BY <1>2, ServerKept DEF Receding
<1>5. FrozenBehindDeadLetter'
  <2>1. \A j \in Ids : Guarded(j) => Guarded(j)'
    BY GuardKept DEF InPass
  <2> QED BY <2>1, FrozenKept
<1> QED BY <1>1, <1>3, <1>4, <1>5

LEMMA OrderEnqueue ==
  ASSUME OrderInv, TypeInv', NEW t \in Tabs, NEW r \in Records, Enqueue(t, r)
  PROVE  OrderInv'
<1> USE NamesAssumption, BoundsAssumption DEF OrderInv
<1>1. /\ nextId \in Ids /\ nextId' = nextId + 1
      /\ \A i \in Issued : i \in Ids /\ i < nextId
      /\ \A i \in Ids \ {nextId} : owner'[i] = owner[i] /\ state'[i] = state[i]
      /\ owner'[nextId] = r
      /\ state'[nextId] \in {"live", "held"}
      /\ state'[nextId] = "live" => \A i \in Rows(r) : state[i] \notin Failed
  BY DEF Enqueue, Frozen, TypeInv, TypeOK, TableOK, FreshIds, Issued, Ids
<1>8. \A i \in Issued : /\ i \in Ids /\ i \in Nat /\ i # nextId /\ i < nextId
                         /\ owner'[i] = owner[i] /\ state'[i] = state[i]
  BY <1>1 DEF Ids
<1>2. /\ Issued \subseteq Issued'
      /\ \A s : Rows(s)' \subseteq Rows(s) \cup {nextId}
      /\ \A s \in Records \ {r} : Rows(s)' \subseteq Rows(s)
  BY <1>1 DEF Rows, Present, Issued, TypeInv, RowsKnown
<1>3. \A u \in Tabs : pc'[u] = pc[u] \/ (pc[u] = "idle" /\ pc'[u] = "lock")
  BY KickEffect DEF Enqueue, TypeInv, TypeOK
<1>4. OnePass'
  BY <1>3 DEF Enqueue, OnePass, InPass
<1>5. ASSUME NEW u \in Tabs PROVE PassInv(u)'
  <2>1. CASE ~InPass(u)
    <3>1. ~InPass(u)'
      BY <1>3, <2>1 DEF InPass
    <3> QED BY <3>1, Outside
  <2>2. CASE InPass(u)
    <3>1. /\ pc'[u] = pc[u] /\ cur' = cur /\ succ' = succ /\ latched' = latched
          /\ intact' = intact /\ abandoned' = abandoned /\ latest' = latest /\ stray' = stray
          /\ todo' = todo /\ held' = held /\ blocked' = blocked
      BY <1>3, <2>2 DEF Enqueue, InPass, push, pass, client, server, history
    <3>2. /\ \A c \in todo[u] : c \in Issued /\ owner'[c] = owner[c]
          /\ Sending(u) => cur[u] \in Issued /\ owner'[cur[u]] = owner[cur[u]]
          /\ InPass(u)' /\ (Sending(u)' <=> Sending(u))
      BY <1>8, <2>2, <3>1 DEF InPass, Sending, TypeInv, PassKnown, PushKnown
    <3>3. /\ Candidates(u)' = Candidates(u)
          /\ Candidates(u) \subseteq Issued
      BY <3>1, <3>2 DEF Candidates
    <3>4. SnapshotInOrder(u)'
      <4> SUFFICES ASSUME ~latched[u], NEW c \in Candidates(u)
                   PROVE  /\ state'[c] = "live" \/ GivenUp(c)'
                          /\ BeingHeld(u, c)' => c \in succ[u] \/ GivenUp(c)'
                          /\ owner'[c] \in intact /\ ~BeingHeld(u, c)' =>
                               \A i \in Present' : owner'[i] = owner'[c] /\ i < c =>
                                 i \in Candidates(u) \/ (Sending(u) /\ i = cur[u])
        BY <3>1, <3>2, <3>3 DEF SnapshotInOrder, Rows
      <4>1. c \in Ids /\ c < nextId /\ owner'[c] = owner[c] /\ state'[c] = state[c]
            /\ (GivenUp(c)' <=> GivenUp(c))
        BY <1>8, <3>1, <3>3 DEF GivenUp
      <4>2. BeingHeld(u, c)' <=> BeingHeld(u, c)
        BY <3>1, <3>2, <4>1 DEF BeingHeld, Sending
      <4>3. \A i \in Present' : owner'[i] = owner'[c] /\ i < c => i \in Rows(owner[c])
        BY <1>1, <4>1 DEF Ids, Present, Rows
      <4> QED BY <2>2, <4>1, <4>2, <4>3 DEF PassInv, SnapshotInOrder
    <3>5. SendingOldest(u)'
      <4> SUFFICES ASSUME Sending(u), owner[cur[u]] \in intact, 
                          NEW i \in Present', owner'[i] = owner[cur[u]]
                   PROVE  cur[u] <= i
        BY <3>1, <3>2 DEF SendingOldest, Rows
      <4>1. CASE i = nextId
        BY <1>1, <1>8, <3>2, <4>1 DEF Ids
      <4>2. CASE i # nextId
        BY <1>1, <4>2 DEF PassInv, SendingOldest, Present, Rows
      <4> QED BY <4>1, <4>2
    <3>6. SendingFirst(u)'
      BY <3>1, <3>2, <3>3 DEF PassInv, SendingFirst
    <3>7. SendingLive(u)' /\ HoldingLater(u)' /\ SendingNewest(u)'
      <4>1. SendingLive(u)'
        BY <1>8, <3>1, <3>2 DEF PassInv, SendingLive, GivenUp, Sending
      <4>2. HoldingLater(u)'
        BY <1>8, <1>2, <3>1, <3>2 DEF PassInv, HoldingLater, Sending
      <4>3. SendingNewest(u)'
        BY <1>8, <3>1, <3>2 DEF PassInv, SendingNewest, Sending, TypeInv, StraysKnown
      <4> QED BY <4>1, <4>2, <4>3
    <3> QED BY <3>4, <3>5, <3>6, <3>7 DEF PassInv
  <2> QED BY <2>1, <2>2
<1>6. LatestKnown' /\ WaitingNewer' /\ StraysOlder'
  <2>1. LatestKnown'
    BY <1>1 DEF Enqueue, server, LatestKnown, TypeInv, TypeOK, ServerOK, Ids
  <2>2. WaitingNewer'
    BY <1>1, <1>2
    DEF Enqueue, server, history, LatestKnown, WaitingNewer, TypeInv, TypeOK, ServerOK, HistoryOK, Ids
  <2>3. StraysOlder'
    BY <1>1, <1>2 DEF Enqueue, server, history, StraysOlder, TypeInv, StraysKnown, Ids
  <2> QED BY <2>1, <2>2, <2>3
<1>7. FrozenBehindDeadLetter'
  <2> SUFFICES ASSUME NEW s \in intact, NEW i \in Rows(s)', NEW j \in Rows(s)',
                      i < j, state'[i] \in Failed, state'[j] = "live"
               PROVE  Guarded(j)'
    BY DEF Enqueue, history, FrozenBehindDeadLetter, Exposed
  <2>1. s \in Records /\ i \in Ids /\ j \in Ids
    BY DEF TypeInv, TypeOK, HistoryOK, Rows, Present
  <2>2. i # nextId
    BY <1>1, <1>2, <2>1 DEF Rows, Present, Issued, TypeInv, RowsKnown, Ids
  <2>3. i \in Rows(s) /\ state[i] \in Failed
    BY <1>1, <2>1, <2>2 DEF Rows, Present
  <2>4. j # nextId
    BY <1>1, <2>3 DEF Rows
  <2>5. Guarded(j)
    BY <1>1, <2>1, <2>3, <2>4 DEF FrozenBehindDeadLetter, Exposed, Rows, Present
  <2>6. PICK u \in Tabs : \/ pc[u] = "hold" /\ cur[u] < j /\ owner[cur[u]] = owner[j]
                          \/ pc[u] = "holding" /\ j \in succ[u]
    BY <2>5 DEF Guarded
  <2>7. cur[u] \in Issued
    BY <2>6 DEF TypeInv, PushKnown, Sending
  <2>8. pc'[u] = pc[u] /\ cur' = cur /\ succ' = succ
    BY <1>3, <2>6 DEF Enqueue, push
  <2>9. owner'[j] = owner[j] /\ owner'[cur[u]] = owner[cur[u]]
    BY <1>1, <1>8, <2>1, <2>4, <2>7
  <2> QED BY <2>6, <2>8, <2>9 DEF Guarded
<1> QED BY <1>4, <1>5, <1>6, <1>7

\* A pass ends: its tab gives the lock back.
LEMMA OrderLeave ==
  ASSUME OrderInv, TypeInv', NEW t \in Tabs,
         ForgetPass(t), ForgetPush(t), ReleaseLock(t), ~InPass(t)',
         \A u \in Tabs \ {t} : pc'[u] = pc[u],
         UNCHANGED <<owner, state, nextId, latched, latest, abandoned>>, intact' \subseteq intact,
         stray' = stray \/ InPass(t), StraysOlder', FrozenBehindDeadLetter'
  PROVE  OrderInv'
<1> USE DEF OrderInv
<1>1. OnePass'
  BY NamesAssumption DEF OnePass, InPass, ReleaseLock, TypeInv, TypeOK, EngineOK
<1>2. Receding
  BY DEF Receding, RowsRecede, Present
<1>3. ASSUME NEW u \in Tabs PROVE PassInv(u)'
  <2>1. CASE u = t
    BY <2>1, Outside
  <2>2. CASE u # t /\ InPass(t)
    <3>1. ~InPass(u)'
      BY <2>2, Alone DEF InPass
    <3> QED BY <3>1, Outside
  <2>3. CASE u # t /\ ~InPass(t)
    <3>1. Undisturbed(u)
      BY <2>3 DEF Undisturbed, ForgetPass, ForgetPush, TypeInv, TypeOK, PassOK, PushOK
    <3> QED BY <1>2, <2>3, <3>1, PassKept
  <2> QED BY <2>1, <2>2, <2>3
<1>4. LatestKnown' /\ WaitingNewer'
  BY <1>2, ServerKept DEF Receding
<1> QED BY <1>1, <1>3, <1>4

LEMMA OrderFinishPass ==
  ASSUME OrderInv, TypeInv', NEW t \in Tabs, pc[t] \notin {"hold", "holding"}, EndPass(t),
         UNCHANGED <<owner, state, nextId, latched, latest, stray, intact, abandoned>>
  PROVE  OrderInv'
<1> USE DEF OrderInv
<1>1. ~InPass(t)' /\ \A u \in Tabs \ {t} : pc'[u] = pc[u] /\ cur'[u] = cur[u] /\ succ'[u] = succ[u]
  BY DEF EndPass, ForgetPush, Leave, InPass, TypeInv, TypeOK, EngineOK, PushOK
<1>2. \A j \in Ids : Guarded(j) => Guarded(j)'
  BY <1>1, GuardKept
<1>3. FrozenBehindDeadLetter'
  BY <1>2, FrozenKept
<1>4. StraysOlder'
  BY DEF StraysOlder, Rows, Present
<1> QED BY <1>1, <1>3, <1>4, OrderLeave DEF EndPass

LEMMA OrderAbort ==
  ASSUME OrderInv, TypeInv', NEW t \in Tabs, Abort(t)
  PROVE  OrderInv'
<1> USE DEF OrderInv
<1>1. ~InPass(t)' /\ \A u \in Tabs \ {t} : pc'[u] = pc[u]
  BY DEF Abort, EndPass, Leave, InPass, TypeInv, TypeOK, EngineOK
<1>2. intact' \subseteq intact /\ FrozenBehindDeadLetter'
  BY FrozenNoted DEF Abort, TypeInv, TypeOK
<1>3. StraysOlder'
  BY <1>2 DEF Abort, table, server, StraysOlder, Rows, Present
<1> QED BY <1>1, <1>2, <1>3, OrderLeave DEF Abort, EndPass, table, server

LEMMA OrderCrash ==
  ASSUME OrderInv, TypeInv', NEW t \in Tabs, Crash(t)
  PROVE  OrderInv'
<1> USE DEF OrderInv
<1>1. ~InPass(t)' /\ \A u \in Tabs \ {t} : pc'[u] = pc[u]
  BY DEF Crash, InPass, TypeInv, TypeOK, EngineOK
<1>2. intact' \subseteq intact /\ FrozenBehindDeadLetter'
  BY FrozenNoted DEF Crash, TypeInv, TypeOK
<1>3. stray' = stray \/ (Sending(t) /\ stray' = stray \cup {cur[t]})
  BY DEF Crash, Awaiting, Sending
<1>4. StraysOlder'
  BY <1>2, <1>3 DEF Crash, table, StraysOlder, PassInv, SendingOldest, Rows, Present
<1>5. stray' = stray \/ InPass(t)
  BY <1>3 DEF Sending, InPass
<1> QED BY <1>1, <1>2, <1>4, <1>5, OrderLeave DEF Crash, table

\* The crew member and the device change rows or latches between a pass's steps.
LEMMA OrderRows ==
  ASSUME OrderInv, TypeInv', Receding, FrozenBehindDeadLetter',
         UNCHANGED <<nextId, lock, latest, stray>>,
         \A u \in Tabs : \/ Undisturbed(u)
                         \/ ~InPass(u) /\ ~InPass(u)'
  PROVE  OrderInv'
<1> USE DEF OrderInv
<1>1. OnePass'
  BY DEF OnePass, InPass, Undisturbed
<1>2. ASSUME NEW u \in Tabs PROVE PassInv(u)'
  <2>1. CASE Undisturbed(u)
    BY <2>1, PassKept
  <2>2. CASE ~InPass(u)'
    BY <2>2, Outside
  <2> QED BY <2>1, <2>2
<1>3. LatestKnown' /\ WaitingNewer' /\ StraysOlder'
  BY ServerKept DEF Receding
<1> QED BY <1>1, <1>2, <1>3

\* A live row that is deleted after all takes its record's order with it.
LEMMA OrderDropOne ==
  ASSUME OrderInv, TypeInv', NEW t \in Tabs, DropOne(t)
  PROVE  OrderInv'
<1> USE DEF OrderInv
<1>1. /\ UNCHANGED <<owner, nextId, latched, lock, latest, stray, pc>>
      /\ UNCHANGED <<todo, held, blocked, cur, succ>>
  BY DEF DropOne, pass, push, engine, server
<1>2. PICK j \in Ids :
        /\ Remove({j}) /\ abandoned' = abandoned \cup ({j} \cap Present)
        /\ intact' = IF state[j] = "live" THEN intact \ {owner[j]} ELSE intact
  BY DEF DropOne, TypeInv, TypeOK, ClientOK
<1>3. Receding
  <2>1. \A i \in Ids : state'[i] = IF i = j THEN "none" ELSE state[i]
    BY <1>2 DEF Remove
  <2>2. state[j] = "live" => GivenUp(j)'
    BY <1>1, <1>2 DEF GivenUp, Present
  <2> QED BY <1>1, <1>2, <2>1, <2>2 DEF Receding, RowsRecede, Present
<1>4. FrozenBehindDeadLetter'
  <2>1. \A i \in Ids : state'[i] \in {"none", state[i]}
    BY <1>2 DEF Remove
  <2>2. intact' \subseteq intact
    BY <1>2
  <2> QED BY <1>1, <2>1, <2>2, FrozenKept, GuardKept
<1> QED BY <1>1, <1>3, <1>4, OrderRows DEF Undisturbed

LEMMA OrderWipe ==
  ASSUME OrderInv, TypeInv', Wipe
  PROVE  OrderInv'
<1> USE DEF OrderInv
<1>1. /\ UNCHANGED <<owner, nextId, intact, latched, lock, latest, stray, pc>>
      /\ UNCHANGED <<todo, held, blocked, cur, succ>>
      /\ abandoned \subseteq abandoned' /\ \A u \in Tabs : latched[u]
  BY DEF Wipe, pass, push, engine, client, server
<1>2. \A j \in Ids : state'[j] = "none"
  BY DEF Wipe, Remove, Present
<1>3. Receding
  BY <1>1, <1>2 DEF Receding, RowsRecede, Present
<1>4. FrozenBehindDeadLetter'
  BY <1>1, <1>2, FrozenKept, GuardKept
<1> QED BY <1>1, <1>3, <1>4, OrderRows DEF Undisturbed

LEMMA OrderLatch ==
  ASSUME OrderInv, TypeInv', NEW t \in Tabs, Logout(t) \/ RemoteShutdown(t)
  PROVE  OrderInv'
<1> USE DEF OrderInv
<1>1. /\ UNCHANGED <<owner, state, nextId, abandoned, intact, lock, latest, stray, pc>>
      /\ UNCHANGED <<todo, held, blocked, cur, succ>>
  BY DEF Logout, RemoteShutdown, table, pass, push, engine, server, history
<1>2. \A u \in Tabs : latched[u] => latched'[u]
  BY DEF Logout, RemoteShutdown, TypeInv, TypeOK, ClientOK
<1>3. Receding
  BY <1>1, <1>2 DEF Receding, RowsRecede, Present
<1>4. FrozenBehindDeadLetter'
  BY <1>1, FrozenKept, GuardKept
<1> QED BY <1>1, <1>3, <1>4, OrderRows DEF Undisturbed

\* A revived row can expose its record, and the step says so.
LEMMA OrderClearOne ==
  ASSUME OrderInv, TypeInv', NEW t \in Tabs, ClearOne(t)
  PROVE  OrderInv'
<1> USE DEF OrderInv
<1>1. /\ UNCHANGED <<owner, nextId, abandoned, latched, lock, latest, stray>>
      /\ UNCHANGED <<todo, held, blocked, cur, succ>>
  BY DEF ClearOne, pass, push, server
<1>2. intact' \subseteq intact /\ FrozenBehindDeadLetter'
  BY FrozenNoted DEF ClearOne, TypeInv, TypeOK
<1>3. Receding
  <2>1. PICK j \in clearing[t] : state' = Update(state, j, "live")
    BY DEF ClearOne
  <2>2. \A i \in Ids : state'[i] = IF i = j /\ state[j] # "none" THEN "live" ELSE state[i]
    BY <2>1 DEF Update, TypeInv, TypeOK, TableOK, ClientOK
  <2> QED BY <1>1, <1>2, <2>2 DEF Receding, RowsRecede, Present
<1>4. \A u \in Tabs : pc'[u] = pc[u] \/ (~InPass(u) /\ ~InPass(u)')
  <2>1. CASE Kick(t)
    BY <1>1, <2>1, KickEffect DEF InPass, TypeInv, TypeOK
  <2>2. CASE pc' = pc
    BY <2>2
  <2> QED BY <2>1, <2>2 DEF ClearOne
<1> QED BY <1>1, <1>2, <1>3, <1>4, OrderRows DEF Undisturbed

\* A step inside a pass: the other tabs have none.
LEMMA OrderWithin ==
  ASSUME OrderInv, TypeInv', NEW t \in Tabs, InPass(t)', lock' = t,
         \A u \in Tabs \ {t} : pc'[u] = pc[u],
         InPass(t) \/ lock = NoTab,
         PassInv(t)', LatestKnown', WaitingNewer', StraysOlder', FrozenBehindDeadLetter'
  PROVE  OrderInv'
<1> USE DEF OrderInv
<1>1. \A u \in Tabs \ {t} : ~InPass(u)'
  BY NamesAssumption DEF OnePass, InPass
<1>2. OnePass'
  BY <1>1 DEF OnePass
<1>3. \A u \in Tabs : PassInv(u)'
  BY <1>1, Outside
<1> QED BY <1>2, <1>3

\* The server applies the row being sent, whether or not it answers.
LEMMA OrderApply ==
  ASSUME OrderInv, TypeInv', NEW t \in Tabs, Accept(t) \/ ApplyFirst(t)
  PROVE  OrderInv'
<1> USE DEF OrderInv
<1>1. /\ UNCHANGED <<owner, state, nextId, abandoned, intact, latched, lock, stray, pc>>
      /\ UNCHANGED <<todo, held, blocked, cur, succ>>
      /\ latest' = [latest EXCEPT ![owner[cur[t]]] = cur[t]]
  BY DEF Accept, ApplyFirst, Apply, table, pass, push, engine, client, history
<1>2. pc[t] = "push" /\ InPass(t) /\ Sending(t) /\ lock = t
  BY DEF Accept, ApplyFirst, Awaiting, InPass, Sending, OnePass
<1>3. cur[t] \in Issued /\ cur[t] \in Ids /\ cur[t] < nextId /\ owner[cur[t]] \in Records
  BY <1>2 DEF TypeInv, PushKnown, FreshIds, Issued
<1>4. Receding /\ Undisturbed(t)
  BY <1>1 DEF Receding, RowsRecede, Undisturbed, Present
<1>5. \A r \in Records : latest'[r] = IF r = owner[cur[t]] THEN cur[t] ELSE latest[r]
  BY <1>1, <1>3 DEF TypeInv, TypeOK, ServerOK
<1>6. PassInv(t)'
  <2>1. SendingNewest(t)'
    BY <1>1, <1>3, <1>5 DEF PassInv, SendingNewest, Ids
  <2> QED BY <1>4, <2>1, PassKept
<1>7. LatestKnown'
  BY <1>1, <1>3, <1>5 DEF LatestKnown
<1>8. WaitingNewer'
  <2> SUFFICES ASSUME NEW r \in intact, NEW i \in Rows(r) PROVE latest'[r] <= i
    BY <1>1 DEF WaitingNewer, Rows, Present
  <2>1. r \in Records
    BY DEF TypeInv, TypeOK, HistoryOK
  <2> QED BY <1>2, <1>5, <2>1 DEF WaitingNewer, PassInv, SendingOldest
<1>9. StraysOlder' /\ FrozenBehindDeadLetter'
  BY <1>1, <1>4, ServerKept, FrozenKept, GuardKept DEF Receding
<1> QED BY <1>1, <1>2, <1>6, <1>7, <1>8, <1>9, OrderWithin DEF InPass

LEMMA OrderGiveUp ==
  ASSUME OrderInv, TypeInv', NEW t \in Tabs, TimeOut(t) \/ Disconnect(t)
  PROVE  OrderInv'
<1> USE DEF OrderInv
<1>1. /\ UNCHANGED <<owner, state, nextId, abandoned, intact, latched, lock, latest, pc>>
      /\ UNCHANGED <<todo, held, blocked, cur, succ>>
      /\ stray' \in {stray, stray \cup {cur[t]}}
  BY DEF TimeOut, Disconnect, GiveUp, table, pass, engine, client, history
<1>2. pc[t] = "push" /\ InPass(t) /\ Sending(t) /\ lock = t
  BY DEF TimeOut, Disconnect, Awaiting, InPass, Sending, OnePass
<1>3. Receding /\ Undisturbed(t)
  BY <1>1 DEF Receding, RowsRecede, Undisturbed, Present
<1>4. cur[t] \in Ids
  BY <1>2 DEF TypeInv, PushKnown, Issued
<1>5. PassInv(t)'
  <2>1. SendingNewest(t)'
    BY <1>1, <1>4 DEF PassInv, SendingNewest, Ids
  <2> QED BY <1>3, <2>1, PassKept
<1>6. StraysOlder'
  BY <1>1, <1>2 DEF StraysOlder, PassInv, SendingOldest, Rows, Present
<1>7. LatestKnown' /\ WaitingNewer' /\ FrozenBehindDeadLetter'
  BY <1>1, <1>3, ServerKept, FrozenKept, GuardKept DEF Receding
<1> QED BY <1>1, <1>2, <1>5, <1>6, <1>7, OrderWithin DEF InPass

LEMMA OrderStraggle ==
  ASSUME OrderInv, TypeInv', NEW i \in Ids, Straggle(i)
  PROVE  OrderInv'
<1> USE DEF OrderInv
<1>1. /\ UNCHANGED <<owner, state, nextId, abandoned, latched, lock, pc>>
      /\ UNCHANGED <<todo, held, blocked, cur, succ>>
      /\ latest' = [latest EXCEPT ![owner[i]] = i]
      /\ i \in stray /\ stray' = stray \ {i} /\ intact' \subseteq intact
  BY DEF Straggle, Apply, table, pass, push, engine, client
<1>2. i \in Issued /\ i < nextId /\ owner[i] \in Records
  BY <1>1 DEF TypeInv, StraysKnown, FreshIds, Issued
<1>3. Receding /\ \A u \in Tabs : Undisturbed(u)
  BY <1>1 DEF Receding, RowsRecede, Undisturbed, Present
<1>4. \A r \in Records : latest'[r] = IF r = owner[i] THEN i ELSE latest[r]
  BY <1>1, <1>2 DEF TypeInv, TypeOK, ServerOK
<1>5. ASSUME NEW u \in Tabs PROVE PassInv(u)'
  <2>1. SendingNewest(u)'
    <3> SUFFICES ASSUME pc[u] = "push", owner[cur[u]] \in intact'
                 PROVE  /\ latest'[owner[cur[u]]] <= cur[u]
                        /\ \A j \in stray' : owner[j] = owner[cur[u]] => j <= cur[u]
      BY <1>1 DEF SendingNewest
    <3>1. owner[cur[u]] \in intact /\ owner[cur[u]] \in Records
      BY <1>1 DEF TypeInv, TypeOK, HistoryOK
    <3> QED BY <1>1, <1>4, <3>1 DEF PassInv, SendingNewest
  <2> QED BY <1>3, <2>1, PassKept
<1>6. OnePass' /\ LatestKnown' /\ FrozenBehindDeadLetter'
  <2>1. OnePass'
    BY <1>1 DEF OnePass, InPass
  <2>2. LatestKnown'
    BY <1>1, <1>2, <1>4 DEF LatestKnown
  <2>3. FrozenBehindDeadLetter'
    BY <1>1, FrozenKept, GuardKept
  <2> QED BY <2>1, <2>2, <2>3
<1>7. WaitingNewer'
  <2> SUFFICES ASSUME NEW r \in intact', NEW j \in Rows(r) PROVE latest'[r] <= j
    BY <1>1 DEF WaitingNewer, Rows, Present
  <2>1. r \in intact /\ r \in Records
    BY <1>1 DEF TypeInv, TypeOK, HistoryOK
  <2> QED BY <1>1, <1>4, <2>1 DEF WaitingNewer, StraysOlder
<1>8. StraysOlder'
  BY <1>1 DEF StraysOlder, Rows, Present
<1> QED BY <1>5, <1>6, <1>7, <1>8

LEMMA OrderSnapshot ==
  ASSUME OrderInv, TypeInv', NEW t \in Tabs, Snapshot(t)
  PROVE  OrderInv'
<1> USE NamesAssumption DEF OrderInv
<1>1. /\ UNCHANGED <<owner, state, nextId, abandoned, intact, latched, latest, stray, cur, succ>>
      /\ lock = NoTab /\ lock' = t
  BY DEF Snapshot, table, push, client, server, history
<1>2. /\ pc'[t] = "loop" /\ \A u \in Tabs \ {t} : pc'[u] = pc[u]
      /\ todo'[t] = {i \in Ids : state[i] = "live"} /\ held'[t] = {} /\ blocked'[t] = {}
  BY DEF Snapshot, TypeInv, TypeOK, EngineOK, PassOK
<1>3. \A u \in Tabs : ~InPass(u)
  BY <1>1 DEF OnePass
<1>4. SnapshotInOrder(t)'
  <2> SUFFICES ASSUME NEW c \in Ids, state[c] = "live", owner[c] \in intact,
                      NEW i \in Rows(owner[c]), i < c
               PROVE  state[i] = "live"
    BY <1>1, <1>2 DEF SnapshotInOrder, Candidates, BeingHeld, Rows, Present
  <2>1. state[i] \in Failed => Guarded(c)
    BY DEF FrozenBehindDeadLetter, Exposed, Rows, Present
  <2>2. ~Guarded(c)
    BY <1>3 DEF Guarded, InPass
  <2> QED BY <2>1, <2>2 DEF Rows, Present, TypeInv, TypeOK, TableOK
<1>5. PassInv(t)'
  BY <1>2, <1>4
  DEF PassInv, SendingOldest, SendingFirst, SendingLive, HoldingLater, SendingNewest, Sending
<1>6. Receding
  BY <1>1 DEF Receding, RowsRecede, Present
<1>7. FrozenBehindDeadLetter'
  BY <1>1, <1>3, FrozenKept, GuardKept DEF InPass
<1>8. LatestKnown' /\ WaitingNewer' /\ StraysOlder'
  BY <1>1, <1>6, ServerKept DEF Receding
<1> QED BY <1>1, <1>2, <1>5, <1>7, <1>8, OrderWithin DEF InPass

LEMMA OrderBackOff ==
  ASSUME OrderInv, TypeInv', NEW t \in Tabs, BackOff(t)
  PROVE  OrderInv'
<1> USE DEF OrderInv
<1>1. /\ UNCHANGED <<owner, state, nextId, abandoned, intact, latched, lock, latest, stray, pc>>
      /\ UNCHANGED <<todo, held, cur, succ>>
      /\ pc[t] = "loop" /\ InPass(t) /\ lock = t
  BY DEF BackOff, table, push, engine, client, server, history, InPass, OnePass
<1>2. PICK b \in todo[t] : blocked'[t] = blocked[t] \cup {owner[b]}
  BY DEF BackOff, TypeInv, TypeOK, PassOK
<1>3. Candidates(t)' = {c \in Candidates(t) : owner[c] # owner[b]}
  BY <1>1, <1>2 DEF Candidates
<1>4. SnapshotInOrder(t)'
  BY <1>1, <1>3
  DEF PassInv, SnapshotInOrder, BeingHeld, GivenUp, Sending, Rows, Present, InPass
<1>5. PassInv(t)'
  BY <1>1, <1>4
  DEF PassInv, SendingOldest, SendingFirst, SendingLive, HoldingLater, SendingNewest, Sending
<1>6. Receding
  BY <1>1 DEF Receding, RowsRecede, Present
<1>7. LatestKnown' /\ WaitingNewer' /\ StraysOlder' /\ FrozenBehindDeadLetter'
  BY <1>1, <1>6, ServerKept, FrozenKept, GuardKept DEF Receding
<1> QED BY <1>1, <1>5, <1>7, OrderWithin DEF InPass

LEMMA OrderSend ==
  ASSUME OrderInv, TypeInv', NEW t \in Tabs, Send(t)
  PROVE  OrderInv'
<1> USE DEF OrderInv
<1>1. /\ UNCHANGED <<owner, state, nextId, abandoned, intact, latched, lock, latest, stray>>
      /\ UNCHANGED <<held, blocked, succ>>
      /\ pc[t] = "loop" /\ InPass(t) /\ lock = t /\ ~latched[t]
  BY DEF Send, table, client, server, history, InPass, OnePass
<1>2. pc'[t] = "push" /\ InPass(t)' /\ Sending(t)' /\ \A u \in Tabs \ {t} : pc'[u] = pc[u]
  BY DEF Send, TypeInv, TypeOK, EngineOK, InPass, Sending
<1>3. PICK i \in todo[t] : /\ First(i, Candidates(t))
                           /\ cur'[t] = i /\ todo'[t] = todo[t] \ {i}
  BY DEF Send, TypeInv, TypeOK, PushOK, PassOK
<1>4. /\ i \in Candidates(t) /\ \A c \in Candidates(t) : i <= c
      /\ Candidates(t) \subseteq Ids /\ i \in Ids
      /\ Candidates(t)' = Candidates(t) \ {i}
  BY <1>1, <1>3 DEF First, Candidates, TypeInv, TypeOK, PassOK
<1>5. SnapshotInOrder(t)'
  BY <1>1, <1>2, <1>3, <1>4
  DEF PassInv, SnapshotInOrder, BeingHeld, GivenUp, Sending, Rows, Present, InPass
<1>6. SendingOldest(t)'
  <2> SUFFICES ASSUME owner[i] \in intact, NEW k \in Rows(owner[i]) PROVE i <= k
    BY <1>1, <1>3 DEF SendingOldest, Rows, Present
  <2>1. k < i => k \in Candidates(t)
    BY <1>1, <1>4 DEF PassInv, SnapshotInOrder, BeingHeld, Sending
  <2> QED BY <1>4, <2>1 DEF Rows, Present, Ids
<1>7. SendingFirst(t)'
  BY <1>3, <1>4 DEF SendingFirst, Ids
<1>8. (state[i] = "live" /\ i \in Rows(owner[i])) \/ GivenUp(i)
  BY <1>1, <1>4 DEF PassInv, SnapshotInOrder, Rows, Present
<1>9. SendingLive(t)' /\ HoldingLater(t)'
  BY <1>1, <1>2, <1>3, <1>8 DEF SendingLive, HoldingLater, GivenUp
<1>10. SendingNewest(t)'
  BY <1>1, <1>3, <1>8 DEF SendingNewest, WaitingNewer, StraysOlder, GivenUp
<1>11. Receding
  BY <1>1 DEF Receding, RowsRecede, Present
<1>12. LatestKnown' /\ WaitingNewer' /\ StraysOlder'
  BY <1>1, <1>11, ServerKept DEF Receding
<1>13. FrozenBehindDeadLetter'
  <2>1. \A u \in Tabs \ {t} : ~InPass(u)
    BY <1>1, Alone
  <2>2. \A j \in Ids : Guarded(j) => Guarded(j)'
    BY <1>1, <2>1, GuardKept DEF InPass
  <2> QED BY <1>1, <2>2, FrozenKept
<1> QED BY <1>1, <1>2, <1>5, <1>6, <1>7, <1>9, <1>10, <1>12, <1>13, OrderWithin DEF PassInv

\* Back to the loop: nothing is being sent, and what is left is in order.
LEMMA OrderResume ==
  ASSUME OrderInv, TypeInv', NEW t \in Tabs, RowsRecede, InPass(t), pc'[t] = "loop",
         \A u \in Tabs \ {t} : pc'[u] = pc[u],
         UNCHANGED <<nextId, lock, latest, stray>>,
         SnapshotInOrder(t)', FrozenBehindDeadLetter'
  PROVE  OrderInv'
<1> USE DEF OrderInv
<1>1. InPass(t)' /\ lock' = t
  BY DEF InPass, OnePass
<1>2. PassInv(t)'
  BY DEF PassInv, SendingOldest, SendingFirst, SendingLive, HoldingLater, SendingNewest, Sending
<1>3. LatestKnown' /\ WaitingNewer' /\ StraysOlder'
  BY ServerKept
<1> QED BY <1>1, <1>2, <1>3, OrderWithin

LEMMA OrderConfirm ==
  ASSUME OrderInv, TypeInv', NEW t \in Tabs, Confirm(t)
  PROVE  OrderInv'
<1> USE DEF OrderInv
<1>1. /\ UNCHANGED <<owner, nextId, abandoned, intact, latched, lock, latest, stray, todo, held, blocked>>
      /\ pc[t] = "push" /\ InPass(t) /\ Sending(t)
  BY DEF Confirm, client, server, InPass, Sending
<1>2. pc'[t] = "loop" /\ \A u \in Tabs \ {t} : pc'[u] = pc[u]
  BY DEF Confirm, TypeInv, TypeOK, EngineOK
<1>3. \A i \in Ids : state'[i] = IF i = cur[t] THEN "none" ELSE state[i]
  BY DEF Confirm, Remove
<1>4. Candidates(t)' = Candidates(t) /\ Candidates(t) \subseteq Ids
  BY <1>1 DEF Candidates, TypeInv, TypeOK, PassOK
<1>5. \A c \in Candidates(t) : cur[t] < c
  BY <1>1 DEF PassInv, SendingFirst
<1>6. SnapshotInOrder(t)'
  <2> SUFFICES ASSUME ~latched[t], NEW c \in Candidates(t)
               PROVE  /\ state'[c] = "live" \/ GivenUp(c)
                      /\ owner[c] \in intact =>
                           \A i \in Present' : owner[i] = owner[c] /\ i < c => i \in Candidates(t)
    BY <1>1, <1>2, <1>4 DEF SnapshotInOrder, BeingHeld, GivenUp, Rows
  <2>1. cur[t] < c /\ c \in Ids /\ cur[t] \in Ids
    BY <1>1, <1>4, <1>5 DEF TypeInv, PushKnown, Issued
  <2>2. state'[c] = "live" \/ GivenUp(c)
    BY <1>1, <1>3, <2>1 DEF PassInv, SnapshotInOrder, Ids
  <2>3. \A i \in Present' : i \in Present /\ i # cur[t]
    BY <1>3 DEF Present
  <2> QED BY <1>1, <2>2, <2>3 DEF PassInv, SnapshotInOrder, BeingHeld, Rows
<1>7. \A j \in Ids : Guarded(j) => Guarded(j)'
  <2>1. \A u \in Tabs \ {t} : ~InPass(u)
    BY <1>1, Alone
  <2> QED BY <1>1, <2>1, GuardKept DEF InPass
<1>8. FrozenBehindDeadLetter'
  BY <1>1, <1>3, <1>7, FrozenKept
<1>9. RowsRecede
  BY <1>1, <1>3 DEF RowsRecede, Present
<1> QED BY <1>1, <1>2, <1>6, <1>8, <1>9, OrderResume

LEMMA OrderRequeue ==
  ASSUME OrderInv, TypeInv', NEW t \in Tabs, Requeue(t)
  PROVE  OrderInv'
<1> USE DEF OrderInv
<1>1. /\ UNCHANGED <<owner, state, nextId, abandoned, intact, latched, latest, stray>>
      /\ pc[t] = "push" /\ InPass(t) /\ Sending(t)
  BY DEF Requeue, FailedPush, client, server, history, InPass, Sending
<1>2. CASE fails[t] + 1 >= CircuitBreak
  BY <1>1, <1>2, OrderFinishPass DEF Requeue
<1>3. CASE ~(fails[t] + 1 >= CircuitBreak)
  <2>1. UNCHANGED <<todo, held, lock>>
    BY <1>3 DEF Requeue
  <2>2. pc'[t] = "loop" /\ \A u \in Tabs \ {t} : pc'[u] = pc[u]
    BY <1>3 DEF Requeue, TypeInv, TypeOK, EngineOK
  <2>3. blocked'[t] = blocked[t] \cup {owner[cur[t]]}
    BY <1>3 DEF Requeue, TypeInv, TypeOK, PassOK
  <2>4. Candidates(t)' = {c \in Candidates(t) : owner[c] # owner[cur[t]]}
    BY <1>1, <2>1, <2>3 DEF Candidates
  <2>5. SnapshotInOrder(t)'
    BY <1>1, <2>2, <2>4 DEF PassInv, SnapshotInOrder, BeingHeld, GivenUp, Rows, Present
  <2>6. \A j \in Ids : Guarded(j) => Guarded(j)'
    <3>1. \A u \in Tabs \ {t} : ~InPass(u)
      BY <1>1, Alone
    <3> QED BY <1>1, <3>1, GuardKept DEF InPass
  <2>7. FrozenBehindDeadLetter'
    BY <1>1, <2>6, FrozenKept
  <2>8. RowsRecede
    BY <1>1 DEF RowsRecede, Present
  <2> QED BY <1>1, <2>1, <2>2, <2>5, <2>7, <2>8, OrderResume
<1> QED BY <1>2, <1>3

\* The row that dies guards its successors until they are listed.
LEMMA OrderDeadLetter ==
  ASSUME OrderInv, TypeInv', NEW t \in Tabs, DeadLetter(t)
  PROVE  OrderInv'
<1> USE DEF OrderInv
<1>1. /\ UNCHANGED <<owner, nextId, abandoned, intact, latched, lock, latest, stray, cur, succ>>
      /\ UNCHANGED <<todo, held, blocked>>
      /\ pc[t] = "push" /\ InPass(t) /\ Sending(t) /\ lock = t /\ ~latched[t]
  BY DEF DeadLetter, FailedPush, pass, client, server, history, InPass, Sending, OnePass
<1>2. /\ pc'[t] = "hold" /\ InPass(t)' /\ Sending(t)'
      /\ \A u \in Tabs \ {t} : pc'[u] = pc[u] /\ ~InPass(u)
  BY <1>1, Alone DEF DeadLetter, TypeInv, TypeOK, EngineOK, InPass, Sending
<1>3. cur[t] \in Ids
  BY <1>1 DEF TypeInv, PushKnown, Issued
<1>4. \A i \in Ids : state'[i] = IF i = cur[t] /\ state[i] # "none" THEN "dead" ELSE state[i]
  BY <1>3 DEF DeadLetter, Update, TypeInv, TypeOK, TableOK
<1>5. Present' = Present /\ RowsRecede
  BY <1>1, <1>4 DEF Present, RowsRecede
<1>6. Candidates(t)' = Candidates(t) /\ Candidates(t) \subseteq Ids
  BY <1>1 DEF Candidates, TypeInv, TypeOK, PassOK
<1>7. \A c \in Candidates(t) : cur[t] < c
  BY <1>1 DEF PassInv, SendingFirst
<1>8. SnapshotInOrder(t)'
  <2>1. \A c \in Candidates(t) : state'[c] = state[c]
    BY <1>3, <1>4, <1>6, <1>7 DEF Ids
  <2> QED BY <1>1, <1>2, <1>5, <1>6, <2>1 DEF PassInv, SnapshotInOrder, BeingHeld, GivenUp, Rows
<1>9. SendingOldest(t)' /\ SendingFirst(t)'
  BY <1>1, <1>5, <1>6, <1>7 DEF PassInv, SendingOldest, SendingFirst, Rows
<1>10. PassInv(t)'
  BY <1>2, <1>8, <1>9 DEF PassInv, SendingLive, HoldingLater, SendingNewest
<1>11. LatestKnown' /\ WaitingNewer' /\ StraysOlder'
  BY <1>1, <1>5, ServerKept
<1>12. FrozenBehindDeadLetter'
  <2> SUFFICES ASSUME NEW r \in intact, NEW i \in Rows(r), NEW j \in Rows(r),
                      i < j, state'[i] \in Failed, state'[j] = "live"
               PROVE  Guarded(j)'
    BY <1>1, <1>5 DEF FrozenBehindDeadLetter, Exposed, Rows
  <2>1. i \in Ids /\ j \in Ids /\ owner[i] = owner[j]
    BY DEF Rows, Present
  <2>2. CASE i = cur[t]
    BY <1>1, <1>2, <2>1, <2>2 DEF Guarded
  <2>3. CASE i # cur[t]
    <3>1. state[i] \in Failed /\ state[j] = "live"
      BY <1>4, <2>1, <2>3
    <3>2. Guarded(j)
      BY <3>1 DEF FrozenBehindDeadLetter, Exposed
    <3> QED BY <1>1, <1>2, <3>2, GuardKept DEF InPass
  <2> QED BY <2>2, <2>3
<1> QED BY <1>1, <1>2, <1>10, <1>11, <1>12, OrderWithin

\* Once listed, the successors are guarded one by one.
LEMMA OrderHoldRead ==
  ASSUME OrderInv, TypeInv', NEW t \in Tabs, HoldRead(t)
  PROVE  OrderInv'
<1> USE DEF OrderInv
<1>1. /\ UNCHANGED <<owner, state, nextId, abandoned, intact, latched, lock, latest, stray, cur>>
      /\ UNCHANGED <<todo, held, blocked>>
      /\ pc[t] = "hold" /\ InPass(t) /\ Sending(t) /\ lock = t
  BY DEF HoldRead, table, pass, client, server, history, InPass, Sending, OnePass
<1>2. /\ pc'[t] = "holding" /\ InPass(t)' /\ Sending(t)'
      /\ \A u \in Tabs \ {t} : pc'[u] = pc[u] /\ ~InPass(u)
  BY <1>1, Alone DEF HoldRead, TypeInv, TypeOK, EngineOK, InPass, Sending
<1>3. succ'[t] = {j \in Rows(owner[cur[t]]) : state[j] = "live" /\ cur[t] < j}
  BY DEF HoldRead, TypeInv, TypeOK, PushOK
<1>4. Candidates(t)' = Candidates(t) /\ Candidates(t) \subseteq Ids
  BY <1>1 DEF Candidates, TypeInv, TypeOK, PassOK
<1>5. SendingFirst(t)' /\ \A c \in Candidates(t) : cur[t] < c
  BY <1>1, <1>4 DEF PassInv, SendingFirst
<1>6. SnapshotInOrder(t)'
  <2>1. \A c \in Candidates(t) : state[c] = "live" /\ owner[c] = owner[cur[t]] => c \in succ'[t]
    BY <1>3, <1>4, <1>5 DEF Rows, Present
  <2> QED BY <1>1, <1>2, <1>4, <2>1 DEF PassInv, SnapshotInOrder, BeingHeld, GivenUp, Rows, Present
<1>7. SendingOldest(t)'
  BY <1>1 DEF PassInv, SendingOldest, Rows, Present
<1>8. HoldingLater(t)'
  BY <1>1, <1>3 DEF HoldingLater, Rows, TypeInv, RowsKnown, Issued
<1>9. PassInv(t)'
  BY <1>2, <1>5, <1>6, <1>7, <1>8 DEF PassInv, SendingLive, SendingNewest
<1>10. LatestKnown' /\ WaitingNewer' /\ StraysOlder'
  BY <1>1, ServerKept DEF RowsRecede, Present
<1>11. FrozenBehindDeadLetter'
  <2> SUFFICES ASSUME NEW r \in intact, NEW i \in Rows(r), NEW j \in Rows(r),
                      i < j, state[i] \in Failed, state[j] = "live"
               PROVE  Guarded(j)'
    BY <1>1 DEF FrozenBehindDeadLetter, Exposed, Rows, Present
  <2>1. PICK u \in Tabs : \/ pc[u] = "hold" /\ cur[u] < j /\ owner[cur[u]] = owner[j]
                          \/ pc[u] = "holding" /\ j \in succ[u]
    BY DEF FrozenBehindDeadLetter, Exposed, Guarded
  <2>2. u = t
    BY <1>2, <2>1 DEF InPass
  <2> QED BY <1>1, <1>2, <1>3, <2>1, <2>2 DEF Guarded, Rows
<1> QED BY <1>1, <1>2, <1>9, <1>10, <1>11, OrderWithin

LEMMA OrderHoldOne ==
  ASSUME OrderInv, TypeInv', NEW t \in Tabs, HoldOne(t)
  PROVE  OrderInv'
<1> USE DEF OrderInv
<1>1. /\ UNCHANGED <<owner, nextId, abandoned, latched, lock, latest, stray, cur, pc>>
      /\ UNCHANGED <<todo, blocked>>
      /\ pc[t] = "holding" /\ InPass(t) /\ Sending(t) /\ lock = t
  BY DEF HoldOne, engine, client, server, InPass, Sending, OnePass
<1>2. PICK k \in succ[t] : /\ state' = Update(state, k, "held")
                           /\ held'[t] = held[t] \cup {k} /\ succ'[t] = succ[t] \ {k}
  BY DEF HoldOne, TypeInv, TypeOK, PassOK, PushOK
<1>3. k \in Ids /\ cur[t] < k /\ owner[k] = owner[cur[t]]
  BY <1>1 DEF PassInv, HoldingLater, Issued
<1>4. \A i \in Ids : state'[i] = IF i = k /\ state[i] # "none" THEN "held" ELSE state[i]
  BY <1>2, <1>3 DEF Update, TypeInv, TypeOK, TableOK
<1>5. intact' \subseteq intact /\ FrozenBehindDeadLetter'
  BY FrozenNoted DEF HoldOne, TypeInv, TypeOK
<1>6. Present' = Present /\ RowsRecede
  BY <1>1, <1>4, <1>5 DEF Present, RowsRecede
<1>7. Candidates(t)' = Candidates(t) \ {k} /\ Candidates(t) \subseteq Ids
  BY <1>1, <1>2 DEF Candidates, TypeInv, TypeOK, PassOK
<1>8. SnapshotInOrder(t)'
  <2> SUFFICES ASSUME ~latched[t], NEW c \in Candidates(t), c # k
               PROVE  /\ state'[c] = "live" \/ GivenUp(c)
                      /\ BeingHeld(t, c) => c \in succ'[t] \/ GivenUp(c)
                      /\ owner[c] \in intact /\ ~BeingHeld(t, c) =>
                           \A i \in Rows(owner[c]) : i < c => i \in Candidates(t) \ {k} \/ i = cur[t]
    BY <1>1, <1>5, <1>6, <1>7 DEF SnapshotInOrder, BeingHeld, GivenUp, Rows, Sending
  <2>1. (state[c] = "live" /\ (BeingHeld(t, c) => c \in succ[t])) \/ GivenUp(c)
    BY <1>1 DEF PassInv, SnapshotInOrder
  <2>2. (state'[c] = "live" /\ (BeingHeld(t, c) => c \in succ'[t])) \/ GivenUp(c)
    BY <1>2, <1>4, <1>7, <2>1
  <2>3. ASSUME owner[c] \in intact, ~BeingHeld(t, c), NEW i \in Rows(owner[c]), i < c
        PROVE  i \in Candidates(t) \ {k} \/ i = cur[t]
    <3>1. i # k
      BY <1>1, <1>3, <2>3 DEF BeingHeld, Rows
    <3> QED BY <1>1, <2>3, <3>1 DEF PassInv, SnapshotInOrder
  <2> QED BY <2>2, <2>3
<1>9. SendingOldest(t)'
  BY <1>1, <1>5, <1>6 DEF PassInv, SendingOldest, Rows, Sending
<1>10. SendingFirst(t)'
  BY <1>1, <1>7 DEF PassInv, SendingFirst, Sending
<1>11. HoldingLater(t)'
  BY <1>1, <1>2 DEF PassInv, HoldingLater, Issued
<1>12. PassInv(t)'
  BY <1>1, <1>8, <1>9, <1>10, <1>11 DEF PassInv, SendingLive, SendingNewest
<1>13. LatestKnown' /\ WaitingNewer' /\ StraysOlder'
  BY <1>1, <1>6, ServerKept
<1> QED BY <1>1, <1>5, <1>12, <1>13, OrderWithin DEF InPass

LEMMA OrderHoldDone ==
  ASSUME OrderInv, TypeInv', NEW t \in Tabs, HoldDone(t)
  PROVE  OrderInv'
<1> USE DEF OrderInv
<1>1. /\ UNCHANGED <<owner, state, nextId, abandoned, intact, latched, lock, latest, stray>>
      /\ UNCHANGED <<todo, held, blocked>>
      /\ pc[t] = "holding" /\ succ[t] = {} /\ InPass(t) /\ Sending(t)
  BY DEF HoldDone, table, client, server, history, InPass, Sending
<1>2. pc'[t] = "loop" /\ \A u \in Tabs \ {t} : pc'[u] = pc[u] /\ ~InPass(u)
  BY <1>1, Alone DEF HoldDone, TypeInv, TypeOK, EngineOK
<1>3. \A u \in Tabs \ {t} : cur'[u] = cur[u] /\ succ'[u] = succ[u]
  BY DEF HoldDone, ForgetPush, TypeInv, TypeOK, PushOK
<1>4. Candidates(t)' = Candidates(t)
  BY <1>1 DEF Candidates
<1>5. SnapshotInOrder(t)'
  <2>1. ~latched[t] => \A c \in Candidates(t) : BeingHeld(t, c) => GivenUp(c)
    BY <1>1 DEF PassInv, SnapshotInOrder
  <2> QED BY <1>1, <1>2, <1>4, <2>1 DEF PassInv, SnapshotInOrder, BeingHeld, GivenUp, Rows, Present
<1>6. FrozenBehindDeadLetter'
  <2>1. \A j \in Ids : Guarded(j) => Guarded(j)'
    BY <1>1, <1>2, <1>3 DEF Guarded, InPass
  <2> QED BY <1>1, <2>1, FrozenKept
<1>7. RowsRecede
  BY <1>1 DEF RowsRecede, Present
<1> QED BY <1>1, <1>2, <1>5, <1>6, <1>7, OrderResume

LEMMA OrderStep == OrderInv /\ [Next]_vars => OrderInv'
<1> SUFFICES ASSUME OrderInv, [Next]_vars PROVE OrderInv'
  OBVIOUS
<1>1. TypeInv'
  BY TypeStep DEF OrderInv
<1>2. ASSUME NEW t \in Tabs, EngineStep(t) PROVE OrderInv'
  <2>1. CASE SkipPass(t)
    <3>1. \A u \in Tabs : pc'[u] = pc[u] \/ (~InPass(u) /\ ~InPass(u)')
      BY <2>1 DEF SkipPass, Leave, InPass, OrderInv, TypeInv, TypeOK, EngineOK
    <3> QED BY <1>1, <2>1, <3>1, OrderFrame
            DEF SkipPass, table, pass, push, client, server, history
  <2>2. CASE FinishPass(t)
    BY <1>1, <2>2, OrderFinishPass DEF FinishPass, table, client, server, history
  <2> QED BY <1>1, <1>2, <2>1, <2>2, OrderSnapshot, OrderBackOff, OrderSend, OrderAbort,
             OrderConfirm, OrderRequeue, OrderDeadLetter, OrderHoldRead, OrderHoldOne,
             OrderHoldDone, OrderClearOne, OrderDropOne DEF EngineStep
<1>3. ASSUME NEW t \in Tabs, Wake(t) PROVE OrderInv'
  <2>1. \A u \in Tabs : pc'[u] = pc[u] \/ (~InPass(u) /\ ~InPass(u)')
    BY <1>3, KickEffect DEF Wake, InPass, OrderInv, TypeInv, TypeOK
  <2> QED BY <1>1, <1>3, <2>1, OrderFrame DEF Wake, table, pass, push, client, server, history
<1>4. ASSUME NEW t \in Tabs, NEW answer, Refuse(t, answer) PROVE OrderInv'
  BY <1>1, <1>4, OrderFrame DEF Refuse, table, pass, engine, client, server
<1>5. ASSUME NEW t \in Tabs, NEW rs, Retry(t, rs) PROVE OrderInv'
  BY <1>1, <1>5, OrderFrame DEF Retry, table, pass, push, engine, server, history
<1>6. ASSUME NEW i \in Ids, Elapse(i) PROVE OrderInv'
  BY <1>1, <1>6, OrderFrame DEF Elapse, pass, push, engine, client, server, history
<1>7. CASE GoOffline \/ GoOnline
  BY <1>1, <1>7, OrderFrame
  DEF GoOffline, GoOnline, table, pass, push, engine, client, server, history
<1>8. CASE UNCHANGED vars
  BY <1>1, <1>8, OrderFrame DEF vars, table, pass, push, engine, client, server, history
<1>9. ASSUME NEW t \in Tabs, NEW i \in Ids, PickDiscards(t, i) PROVE OrderInv'
  BY <1>1, <1>9, OrderFrame DEF PickDiscards, table, pass, push, engine, server, history
<1> QED
  BY <1>1, <1>2, <1>3, <1>4, <1>5, <1>6, <1>7, <1>8, <1>9, OrderEnqueue, OrderApply, OrderGiveUp,
     OrderCrash, OrderLatch, OrderStraggle, OrderWipe
  DEF Next

-----------------------------------------------------------------------------
(***************************************************************************)
(* Safety theorems.                                                        *)
(***************************************************************************)
\* "A record with a dead letter is FROZEN" (syncService.ts:346-373,
\* 1098-1110): in a record no step has exposed, no unguarded live row stands
\* behind a failed one, whatever the tabs, crashes and retries do.
THEOREM FrozenTheorem == Spec => []FrozenBehindDeadLetter
<1>1. OrderInv => FrozenBehindDeadLetter
  BY DEF OrderInv
<1> QED BY OrderInit, OrderStep, <1>1, PTL DEF Spec

\* Only Send takes a tab from the loop to a request.
LEMMA OnlySendSends ==
  ASSUME OrderInv, [Next]_vars, NEW t \in Tabs, pc[t] = "loop", pc'[t] = "push"
  PROVE  Send(t)
<1> USE DEF OrderInv, TypeInv, TypeOK, EngineOK
<1>1. pc \in [Tabs -> {"idle", "lock", "loop", "push", "hold", "holding"}]
  OBVIOUS
<1>2. ASSUME NEW u \in Tabs, Kick(u), UNCHANGED lock PROVE FALSE
  BY <1>2, KickEffect
<1>3. ASSUME NEW u \in Tabs, Leave(u) PROVE FALSE
  BY <1>1, <1>3 DEF Leave
<1>4. ASSUME NEW u \in Tabs, EngineStep(u), ~Send(u) PROVE FALSE
  BY <1>1, <1>2, <1>3, <1>4
  DEF EngineStep, Snapshot, SkipPass, BackOff, FinishPass, Abort, Confirm, Requeue, DeadLetter,
      HoldRead, HoldOne, HoldDone, ClearOne, DropOne, EndPass, engine
<1>5. ASSUME NEW u \in Tabs, Send(u) PROVE u = t
  BY <1>1, <1>5 DEF Send
<1>6. ASSUME NEW u \in Tabs, NEW r \in Records, Wake(u) \/ Enqueue(u, r) PROVE FALSE
  BY <1>2, <1>6 DEF Wake, Enqueue
<1>7. ASSUME NEW u \in Tabs, Wake(u) PROVE FALSE
  BY <1>2, <1>7 DEF Wake
<1>8. ASSUME NEW u \in Tabs, Crash(u) PROVE FALSE
  BY <1>1, <1>8 DEF Crash
<1>9. CASE pc' = pc
  BY <1>9
<1> QED
  BY <1>4, <1>5, <1>6, <1>7, <1>8, <1>9
  DEF Next, Accept, ApplyFirst, TimeOut, Disconnect, GiveUp, Refuse, Retry, PickDiscards, Logout, RemoteShutdown,
      Straggle, Elapse, GoOffline, GoOnline, Wipe, engine, vars

\* The drain works from a snapshot, yet sends only rows that are still live
\* when it sends them, or were discarded meanwhile (syncService.ts:261-286, heldBack and blockedRecords).
THEOREM SendsLiveTheorem == Spec => SendsOnlyLiveRows
<1>1. ASSUME OrderInv, [Next]_vars
      PROVE  [\A t \in Tabs : pc[t] = "loop" /\ pc'[t] = "push" =>
                 state[cur'[t]] = "live" \/ cur'[t] \in abandoned]_vars
  <2> SUFFICES ASSUME NEW t \in Tabs, pc[t] = "loop", pc'[t] = "push"
               PROVE  state[cur'[t]] = "live" \/ cur'[t] \in abandoned
    BY <1>1
  <2>1. Send(t)
    BY <1>1, OnlySendSends
  <2>2. PICK i \in Candidates(t) : cur'[t] = i
    BY <1>1, <2>1 DEF Send, First, OrderInv, TypeInv, TypeOK, PushOK
  <2> QED BY <1>1, <2>1, <2>2 DEF OrderInv, PassInv, SnapshotInOrder, GivenUp, InPass, Send
<1> QED BY <1>1, OrderInit, OrderStep, PTL DEF Spec, SendsOnlyLiveRows

-----------------------------------------------------------------------------
(***************************************************************************)
(* Refinement: CrewOutbox implements OrderedWrites.                        *)
(***************************************************************************)
\* A 2xx answer is the server's word that the write has been applied.
AnswersLanded == \A t \in Tabs : pc[t] = "push" /\ wire[t] = "ok" => cur[t] \in landed

LEMMA AnswersInit == Init => AnswersLanded
BY DEF Init, AnswersLanded

LEMMA AnswersStep ==
  ASSUME OrderInv, AnswersLanded, [Next]_vars
  PROVE  AnswersLanded'
<1> USE DEF OrderInv, TypeInv, TypeOK, EngineOK, PushOK
<1>1. SUFFICES ASSUME NEW t \in Tabs, pc'[t] = "push", wire'[t] = "ok"
               PROVE  cur'[t] \in landed'
  BY DEF AnswersLanded
<1>2. ASSUME landed \subseteq landed', cur'[t] = cur[t], wire'[t] = wire[t], pc[t] = "push"
      PROVE  cur'[t] \in landed'
  BY <1>1, <1>2 DEF AnswersLanded
<1>3. ASSUME NEW u \in Tabs, Kick(u), UNCHANGED lock PROVE pc[t] = "push"
  BY <1>1, <1>3, KickEffect
<1>4. ASSUME NEW u \in Tabs, ForgetPush(u), landed \subseteq landed',
             \A v \in Tabs \ {u} : pc'[v] = pc[v]
      PROVE  cur'[t] \in landed'
  <2>1. u # t
    BY <1>1, <1>4 DEF ForgetPush
  <2> QED BY <1>1, <1>2, <1>4, <2>1 DEF ForgetPush
<1>5. ASSUME NEW u \in Tabs, EngineStep(u) PROVE cur'[t] \in landed'
  <2>1. CASE Snapshot(u) \/ SkipPass(u) \/ BackOff(u)
    BY <1>1, <1>2, <2>1 DEF Snapshot, SkipPass, BackOff, Leave, push, engine, server
  <2>2. CASE Send(u) \/ DeadLetter(u)
    BY <1>1, <1>2, <2>2 DEF Send, DeadLetter, server
  <2>3. CASE FinishPass(u) \/ Abort(u)
    BY <1>4, <2>3 DEF FinishPass, Abort, EndPass, Leave, server
  <2>4. CASE Confirm(u) \/ HoldDone(u)
    BY <1>4, <2>4 DEF Confirm, HoldDone, server
  <2>5. CASE Requeue(u)
    BY <1>4, <2>5 DEF Requeue, EndPass, Leave, server
  <2>6. CASE HoldRead(u) \/ HoldOne(u)
    BY <1>1, <1>2, <2>6 DEF HoldRead, HoldOne, engine, server
  <2>7. CASE ClearOne(u)
    BY <1>1, <1>2, <1>3, <2>7 DEF ClearOne, push, server
  <2>8. CASE DropOne(u)
    BY <1>1, <1>2, <2>8 DEF DropOne, push, engine, server
  <2> QED BY <1>5, <2>1, <2>2, <2>3, <2>4, <2>5, <2>6, <2>7, <2>8 DEF EngineStep
<1>6. ASSUME NEW u \in Tabs, NEW r \in Records, Wake(u) \/ Enqueue(u, r)
      PROVE  cur'[t] \in landed'
  BY <1>2, <1>3, <1>6 DEF Wake, Enqueue, push, server
<1>7. ASSUME NEW u \in Tabs, Wake(u) PROVE cur'[t] \in landed'
  BY <1>2, <1>3, <1>7 DEF Wake, push, server
<1>8. ASSUME NEW u \in Tabs, Accept(u) \/ ApplyFirst(u) PROVE cur'[t] \in landed'
  BY <1>1, <1>2, <1>8 DEF Accept, ApplyFirst, Apply, push, engine
<1>9. ASSUME NEW u \in Tabs, NEW answer \in {"refused", "rejected"},
             TimeOut(u) \/ Disconnect(u) \/ Refuse(u, answer)
      PROVE  cur'[t] \in landed'
  BY <1>1, <1>2, <1>9 DEF TimeOut, Disconnect, GiveUp, Refuse, engine, server
<1>10. ASSUME NEW u \in Tabs, Crash(u) PROVE cur'[t] \in landed'
  BY <1>4, <1>10 DEF Crash
<1>11. ASSUME NEW i \in Ids, Straggle(i) PROVE cur'[t] \in landed'
  BY <1>1, <1>2, <1>11 DEF Straggle, Apply, push, engine
<1>12. CASE UNCHANGED <<push, engine, server>>
  BY <1>1, <1>2, <1>12 DEF push, engine, server
<1> QED
  BY <1>5, <1>6, <1>7, <1>8, <1>9, <1>10, <1>11, <1>12
  DEF Next, Retry, PickDiscards, Logout, RemoteShutdown, Elapse, GoOffline, GoOnline, Wipe, vars

LEMMA PromiseInit == Init => Promise!Init
BY DEF Init, Promise!Init, Promise!Ids, Ids, Present

LEMMA PromiseStep ==
  ASSUME OrderInv, OrderInv', AnswersLanded, [Next]_vars
  PROVE  [Promise!Next]_(Promise!vars)
<1> USE DEF Promise!Ids, Ids
<1>1. ASSUME UNCHANGED <<owner, state, latest, landed, abandoned, intact>>
      PROVE  UNCHANGED Promise!vars
  BY <1>1 DEF Promise!vars, Present
<1>2. ASSUME UNCHANGED <<owner, latest, landed, abandoned>>,
             intact' \subseteq intact, Present' = Present
      PROVE  Promise!Next
  <2>1. Promise!Break(intact \ intact')
    BY <1>2 DEF Promise!Break
  <2> QED BY <2>1 DEF Promise!Next
<1>3. ASSUME NEW t \in Tabs, NEW r \in Records, Enqueue(t, r) PROVE Promise!Next
  <2>1. /\ nextId \in Ids /\ owner[nextId] = NoRecord
        /\ \A j \in Ids : owner[j] # NoRecord => j < nextId
    BY <1>3 DEF Enqueue, OrderInv, TypeInv, TypeOK, TableOK, FreshIds, Issued
  <2>2. Present' = Present \cup {nextId}
    BY <1>3, <2>1 DEF Enqueue, Present, OrderInv, TypeInv, TypeOK, TableOK
  <2>3. Promise!Issue(nextId, r)
    BY <1>3, <2>1, <2>2 DEF Promise!Issue, Enqueue, server, history
  <2> QED BY <2>1, <2>3 DEF Promise!Next
<1>4. ASSUME NEW t \in Tabs, Accept(t) \/ ApplyFirst(t) PROVE Promise!Next
  <2>1. cur[t] \in Ids /\ owner[cur[t]] \in Records /\ Sending(t) /\ pc[t] = "push"
    BY <1>4 DEF Accept, ApplyFirst, Awaiting, Sending, OrderInv, TypeInv, PushKnown, Issued
  <2>2. owner[cur[t]] \in intact =>
          /\ latest[owner[cur[t]]] <= cur[t]
          /\ \A j \in Present : owner[j] = owner[cur[t]] => cur[t] <= j
    BY <2>1 DEF OrderInv, PassInv, SendingOldest, SendingNewest, Rows
  <2>3. Promise!Land(cur[t])
    BY <1>4, <2>1, <2>2 DEF Promise!Land, Accept, ApplyFirst, Apply, table, history, Present
  <2> QED BY <2>1, <2>3 DEF Promise!Next
<1>5. ASSUME NEW i \in Ids, Straggle(i) PROVE Promise!Next
  <2>1. i \in stray /\ owner[i] \in Records
    BY <1>5 DEF Straggle, OrderInv, TypeInv, StraysKnown, Issued
  <2>2. owner[i] \in intact' => latest[owner[i]] <= i
    BY <1>5, <2>1 DEF Straggle, OrderInv, TypeInv, TypeOK, ServerOK
  <2>3. intact' \in {intact, intact \ {owner[i]}}
    BY <1>5 DEF Straggle
  <2>4. owner[i] \in intact => \A j \in Present : owner[j] = owner[i] => i <= j
    BY <2>1 DEF OrderInv, StraysOlder, Rows
  <2>5. Promise!Land(i)
    BY <1>5, <2>1, <2>2, <2>3, <2>4 DEF Promise!Land, Straggle, Apply, table, Present
  <2> QED BY <2>5 DEF Promise!Next
<1>6. ASSUME NEW t \in Tabs, Confirm(t) PROVE [Promise!Next]_(Promise!vars)
  <2>1. cur[t] \in Ids /\ cur[t] \in landed
    BY <1>6 DEF Confirm, AnswersLanded, OrderInv, TypeInv, PushKnown, Sending, Issued
  <2>2. Present' = Present \ {cur[t]}
    BY <1>6 DEF Confirm, Remove, Present
  <2>3. CASE cur[t] \in Present
    <3>1. Promise!Retire(cur[t])
      BY <1>6, <2>1, <2>2, <2>3 DEF Promise!Retire, Confirm, server
    <3> QED BY <2>1, <3>1 DEF Promise!Next
  <2>4. CASE cur[t] \notin Present
    BY <1>6, <2>2, <2>4 DEF Promise!vars, Confirm, server
  <2> QED BY <2>3, <2>4
<1>7. ASSUME NEW S \in SUBSET Present, Remove(S), abandoned' = abandoned \cup S,
             intact' \in {intact, intact \ {owner[i] : i \in S}},
             UNCHANGED <<owner, latest, landed>>
      PROVE  Promise!Next
  <2>1. Present' = Present \ S
    BY <1>7 DEF Remove, Present
  <2>2. Promise!Abandon(S)
    BY <1>7, <2>1 DEF Promise!Abandon
  <2> QED BY <2>2 DEF Promise!Next
<1>8. ASSUME NEW t \in Tabs, DropOne(t) PROVE [Promise!Next]_(Promise!vars)
  <2>1. PICK j \in Ids :
          /\ Remove({j}) /\ abandoned' = abandoned \cup ({j} \cap Present)
          /\ intact' = IF state[j] = "live" THEN intact \ {owner[j]} ELSE intact
    BY <1>8 DEF DropOne, OrderInv, TypeInv, TypeOK, ClientOK
  <2>2. UNCHANGED <<owner, latest, landed>>
    BY <1>8 DEF DropOne, server
  <2>3. CASE j \in Present
    BY <1>7, <2>1, <2>2, <2>3
  <2>4. CASE j \notin Present
    <3>1. Present' = Present
      BY <2>1, <2>4 DEF Remove, Present
    <3>2. UNCHANGED <<abandoned, intact>>
      BY <2>1, <2>4 DEF Present
    <3> QED BY <2>2, <3>1, <3>2 DEF Promise!vars
  <2> QED BY <2>3, <2>4
<1>9. ASSUME Wipe PROVE Promise!Next
  BY <1>7, <1>9 DEF Wipe, server
<1>10. ASSUME NEW t \in Tabs, DeadLetter(t) PROVE Promise!Next
  <2>1. cur[t] \in Ids
    BY <1>10 DEF DeadLetter, FailedPush, Sending, OrderInv, TypeInv, PushKnown, Issued
  <2>2. Present' = Present
    BY <1>10, <2>1 DEF DeadLetter, Update, Present, OrderInv, TypeInv, TypeOK, TableOK
  <2> QED BY <1>2, <1>10, <2>2 DEF DeadLetter, server, history
<1>11. ASSUME NEW t \in Tabs, Abort(t) \/ Crash(t) PROVE Promise!Next
  <2>1. intact' \subseteq intact
    BY <1>11 DEF Abort, Crash, NoteExposure
  <2> QED BY <1>2, <1>11, <2>1 DEF Abort, Crash, table, server, Present
<1>12. ASSUME NEW t \in Tabs, HoldOne(t) \/ ClearOne(t) PROVE Promise!Next
  <2>1. intact' \subseteq intact
    BY <1>12 DEF HoldOne, ClearOne, NoteExposure
  <2>2. PICK j \in Ids : state' = Update(state, j, "held") \/ state' = Update(state, j, "live")
    BY <1>12 DEF HoldOne, ClearOne, OrderInv, TypeInv, TypeOK, PushOK, ClientOK
  <2>3. Present' = Present
    BY <2>2 DEF Update, Present, OrderInv, TypeInv, TypeOK, TableOK
  <2> QED BY <1>2, <1>12, <2>1, <2>3 DEF HoldOne, ClearOne, server
<1>13. ASSUME NEW t \in Tabs, EngineStep(t) PROVE [Promise!Next]_(Promise!vars)
  <2>1. CASE Snapshot(t) \/ SkipPass(t) \/ BackOff(t) \/ Send(t) \/ FinishPass(t) \/ HoldRead(t)
             \/ HoldDone(t)
    BY <1>1, <2>1 DEF Snapshot, SkipPass, BackOff, Send, FinishPass, HoldRead, HoldDone,
                      table, server, history
  <2>2. CASE Requeue(t)
    BY <1>1, <2>2 DEF Requeue, server, history
  <2> QED BY <1>6, <1>8, <1>10, <1>11, <1>12, <1>13, <2>1, <2>2 DEF EngineStep
<1>14. ASSUME NEW t \in Tabs, NEW answer \in {"refused", "rejected"}, NEW rs, NEW i,
              Wake(t) \/ TimeOut(t) \/ Disconnect(t) \/ Refuse(t, answer) \/ Retry(t, rs)
                \/ PickDiscards(t, i)
       PROVE  UNCHANGED Promise!vars
  BY <1>1, <1>14 DEF Wake, TimeOut, Disconnect, GiveUp, Refuse, Retry, PickDiscards, table, server, history
<1>15. ASSUME NEW t \in Tabs, Logout(t) \/ RemoteShutdown(t) PROVE UNCHANGED Promise!vars
  BY <1>1, <1>15 DEF Logout, RemoteShutdown, table, server, history
<1>16. ASSUME NEW i \in Ids, Elapse(i) PROVE UNCHANGED Promise!vars
  BY <1>1, <1>16 DEF Elapse, server, history
<1>17. CASE GoOffline \/ GoOnline \/ UNCHANGED vars
  BY <1>1, <1>17 DEF GoOffline, GoOnline, table, server, history, vars
<1> QED
  BY <1>3, <1>4, <1>5, <1>9, <1>11, <1>13, <1>14, <1>15, <1>16, <1>17 DEF Next

\* The outbox implements OrderedWrites: each write waits on the device until
\* the server has applied it or it is given up, and in a record whose order is
\* intact the server applies the writes as they were made.
THEOREM KeepsOrderTheorem == Spec => KeepsOrder
<1>1. OrderInv /\ AnswersLanded /\ [Next]_vars => OrderInv' /\ AnswersLanded'
  BY OrderStep, AnswersStep
<1>2. OrderInv /\ OrderInv' /\ AnswersLanded /\ [Next]_vars => [Promise!Next]_(Promise!vars)
  BY PromiseStep
<1> QED BY OrderInit, AnswersInit, PromiseInit, <1>1, <1>2, PTL
        DEF Spec, KeepsOrder, Promise!Spec

-----------------------------------------------------------------------------
(***************************************************************************)
(* Dead letters.  The strengthening of DeadLettersWereRefused: every       *)
(* attempt a row, or a pass that has read it, counts is one the server     *)
(* has refused since the row was last queued.                              *)
(***************************************************************************)
CountEarned(i) == state[i] = "live" => retryCount[i] <= refusals[i]

SeenEarned(t) ==
  InPass(t) /\ ~latched[t] =>
    \A c \in Candidates(t) : state[c] = "live" => seen[t][c] <= refusals[c]

AnswerEarned(t) ==
  pc[t] = "push" /\ ~latched[t] /\ state[cur[t]] = "live" =>
    /\ seen[t][cur[t]] <= refusals[cur[t]]
    /\ wire[t] = "refused" => Attempts(t) <= refusals[cur[t]]
    /\ wire[t] = "rejected" => MaxRetries <= refusals[cur[t]]

\* A row that was given up does not come back.
AbandonedGone == \A i \in abandoned : i \in Issued /\ state[i] = "none"

RefusalInv ==
  /\ OrderInv /\ AbandonedGone
  /\ DeadLettersWereRefused
  /\ \A i \in Ids : CountEarned(i)
  /\ \A t \in Tabs : SeenEarned(t) /\ AnswerEarned(t)

-----------------------------------------------------------------------------
(***************************************************************************)
(* What any step does to one row, and to one pass.                         *)
(***************************************************************************)
\* A row changes hands in few ways: it dies in DeadLetter, and a live row's
\* count is what it was, nothing, or the attempts of a refused push.
RowStep(i) ==
  /\ i \in Issued => owner'[i] = owner[i]
  /\ i \in Issued /\ state[i] = "none" => state'[i] = "none"
  /\ state'[i] = "dead" =>
       \/ state[i] = "dead"
       \/ state[i] # "none" /\ \E t \in Tabs : DeadLetter(t) /\ cur[t] = i
  /\ state'[i] = "live" =>
       \/ state[i] = "live" /\ retryCount'[i] = retryCount[i]
       \/ retryCount'[i] = 0
       \/ /\ state[i] = "live"
          /\ \E t \in Tabs : /\ Requeue(t) /\ cur[t] = i /\ Kind(t) = "transient"
                             /\ retryCount'[i] = Attempts(t)

\* What the server has refused of a row stays counted until the row goes or is
\* queued again.
RefusalsKept(i) ==
  \A n \in 0..MaxRetries :
    n <= refusals[i] =>
      \/ state'[i] = "none"
      \/ state[i] \in Failed /\ state'[i] = "live"
      \/ n <= refusals'[i]

LEMMA RowSame ==
  ASSUME NEW i \in Ids, TypeInv, UNCHANGED <<owner, state, retryCount>>
  PROVE  RowStep(i)
BY DEF RowStep

LEMMA RowSteps ==
  ASSUME NEW i \in Ids, TypeInv, [Next]_vars
  PROVE  RowStep(i)
<1> USE DEF TypeInv, TypeOK
<1>1. ASSUME NEW t \in Tabs, NEW r \in Records, Enqueue(t, r) PROVE RowStep(i)
  <2>1. nextId \in Ids /\ nextId \notin Issued /\ retryCount[nextId] = 0
    <3>1. nextId \in Ids /\ ~(nextId < nextId)
      BY <1>1 DEF Enqueue, Ids
    <3>2. nextId \notin Issued
      BY <3>1 DEF FreshIds
    <3> QED BY <3>1, <3>2 DEF RowsKnown, Present, BudgetLeft
  <2>2. /\ i # nextId => state'[i] = state[i] /\ owner'[i] = owner[i]
        /\ i = nextId => state'[i] # "dead"
        /\ retryCount' = retryCount
    BY <1>1, <2>1 DEF Enqueue, TableOK
  <2> QED BY <2>1, <2>2 DEF RowStep
<1>2. ASSUME NEW S, Remove(S), UNCHANGED owner PROVE RowStep(i)
  BY <1>2 DEF Remove, RowStep
<1>3. ASSUME NEW t \in Tabs, Requeue(t) PROVE RowStep(i)
  <2>1. cur[t] \in Ids /\ UNCHANGED <<owner, state>>
    BY <1>3 DEF Requeue, FailedPush, PushKnown, Sending, Issued
  <2>2. CASE Kind(t) = "transient" /\ i = cur[t] /\ state[i] # "none"
    <3>1. retryCount'[i] = Attempts(t)
      BY <1>3, <2>1, <2>2 DEF Requeue, Update, TableOK
    <3> QED BY <1>3, <2>1, <2>2, <3>1 DEF RowStep
  <2>3. CASE ~(Kind(t) = "transient" /\ i = cur[t] /\ state[i] # "none")
    <3>1. retryCount'[i] = retryCount[i]
      BY <1>3, <2>1, <2>3 DEF Requeue, Update, TableOK
    <3> QED BY <2>1, <3>1 DEF RowStep
  <2> QED BY <2>2, <2>3
<1>4. ASSUME NEW t \in Tabs, DeadLetter(t) PROVE RowStep(i)
  <2>1. cur[t] \in Ids /\ UNCHANGED owner
    BY <1>4 DEF DeadLetter, FailedPush, PushKnown, Sending, Issued
  <2>2. CASE i = cur[t] /\ state[i] # "none"
    <3>1. state'[i] = "dead"
      BY <1>4, <2>2 DEF DeadLetter, Update, TableOK
    <3> QED BY <1>4, <2>1, <2>2, <3>1 DEF RowStep
  <2>3. CASE ~(i = cur[t] /\ state[i] # "none")
    <3>1. state'[i] = state[i] /\ retryCount'[i] = retryCount[i]
      BY <1>4, <2>1, <2>3 DEF DeadLetter, Update, TableOK
    <3> QED BY <2>1, <3>1 DEF RowStep
  <2> QED BY <2>2, <2>3
<1>5. ASSUME NEW t \in Tabs, HoldOne(t) PROVE RowStep(i)
  <2>1. PICK j \in Ids : state' = Update(state, j, "held")
    BY <1>5 DEF HoldOne, PushOK
  <2>2. state'[i] \in {state[i], "held"} /\ (state[i] = "none" => state'[i] = "none")
    BY <2>1 DEF Update, TableOK
  <2> QED BY <1>5, <2>2 DEF HoldOne, RowStep
<1>6. ASSUME NEW t \in Tabs, ClearOne(t) PROVE RowStep(i)
  <2>1. PICK j \in Ids : /\ state' = Update(state, j, "live")
                         /\ retryCount' = Update(retryCount, j, 0)
    BY <1>6 DEF ClearOne, ClientOK
  <2>2. \/ state'[i] = state[i] /\ retryCount'[i] = retryCount[i]
        \/ state[i] # "none" /\ state'[i] = "live" /\ retryCount'[i] = 0
    BY <2>1 DEF Update, TableOK
  <2> QED BY <1>6, <2>2 DEF ClearOne, RowStep
<1>7. ASSUME NEW t \in Tabs, Confirm(t) \/ DropOne(t) PROVE RowStep(i)
  BY <1>2, <1>7 DEF Confirm, DropOne
<1>8. ASSUME Wipe PROVE RowStep(i)
  BY <1>2, <1>8 DEF Wipe
<1>9. ASSUME NEW j \in Ids, Elapse(j) PROVE RowStep(i)
  BY <1>9, RowSame DEF Elapse
<1>10. CASE UNCHANGED table
  BY <1>10, RowSame DEF table
<1> QED
  BY <1>1, <1>3, <1>4, <1>5, <1>6, <1>7, <1>8, <1>9, <1>10
  DEF Next, EngineStep, vars, Wake, Snapshot, SkipPass, BackOff, Send, FinishPass, Abort, HoldRead,
      HoldDone, Accept, ApplyFirst, TimeOut, Disconnect, GiveUp, Refuse, Retry, PickDiscards, Crash,
      Logout, RemoteShutdown, Straggle, GoOffline, GoOnline

LEMMA RefusalSteps ==
  ASSUME NEW i \in Ids, TypeInv, [Next]_vars
  PROVE  RefusalsKept(i)
<1> USE BoundsAssumption DEF TypeInv, TypeOK, HistoryOK
<1>1. CASE UNCHANGED refusals
  BY <1>1 DEF RefusalsKept
<1>2. ASSUME NEW S, Remove(S) PROVE RefusalsKept(i)
  BY <1>2 DEF Remove, RefusalsKept
<1>3. ASSUME NEW t \in Tabs, NEW answer \in {"refused", "rejected"}, Refuse(t, answer)
      PROVE  RefusalsKept(i)
  <2>1. refusals'[i] \in {refusals[i], refusals[i] + 1, MaxRetries}
    BY <1>3 DEF Refuse
  <2> QED BY <2>1 DEF RefusalsKept
<1>4. ASSUME NEW t \in Tabs, ClearOne(t) PROVE RefusalsKept(i)
  <2>1. PICK j \in Ids :
          /\ state' = Update(state, j, "live")
          /\ refusals' = IF state[j] \in Failed THEN [refusals EXCEPT ![j] = 0] ELSE refusals
    BY <1>4 DEF ClearOne, ClientOK
  <2>2. \/ refusals'[i] = refusals[i]
        \/ state[i] \in Failed /\ state'[i] = "live"
    BY <2>1 DEF Update, TableOK, Failed
  <2> QED BY <2>2 DEF RefusalsKept
<1>5. ASSUME NEW t \in Tabs, Confirm(t) \/ DropOne(t) PROVE RefusalsKept(i)
  BY <1>2, <1>5 DEF Confirm, DropOne
<1>6. ASSUME Wipe PROVE RefusalsKept(i)
  BY <1>2, <1>6 DEF Wipe
<1>7. ASSUME NEW t \in Tabs, EngineStep(t) PROVE RefusalsKept(i)
  BY <1>1, <1>5, <1>4, <1>7
  DEF EngineStep, history, Snapshot, SkipPass, BackOff, Send, FinishPass, Abort, Requeue, DeadLetter,
      HoldRead, HoldOne, HoldDone
<1> QED
  BY <1>1, <1>3, <1>4, <1>5, <1>6, <1>7
  DEF Next, vars, history, Wake, Enqueue, Accept, ApplyFirst, TimeOut, Disconnect,
      GiveUp, Retry, PickDiscards, Crash, Logout, RemoteShutdown, Straggle, Elapse, GoOffline, GoOnline

\* A pass begins with Snapshot, and from then on works off what it has read.
PassStep(t) ==
  /\ latched[t] => latched'[t]
  /\ InPass(t)' =>
       \/ Snapshot(t)
       \/ InPass(t) /\ seen'[t] = seen[t] /\ Candidates(t)' \subseteq Candidates(t)

\* A push begins with Send; the answer is the server's, or the want of one.
PushStep(t) ==
  pc'[t] = "push" =>
    \/ Send(t)
    \/ /\ pc[t] = "push" /\ cur'[t] = cur[t] /\ seen'[t] = seen[t]
       /\ \/ wire'[t] \in {wire[t], "ok", "lost"}
          \/ \E answer \in {"refused", "rejected"} :
               Refuse(t, answer) /\ wire'[t] = answer

LEMMA PassSteps ==
  ASSUME NEW t \in Tabs, TypeInv, [Next]_vars
  PROVE  PassStep(t) /\ PushStep(t)
<1> USE DEF TypeInv, TypeOK, EngineOK, PassOK, PushOK, ClientOK
<1>1. \A u \in Tabs : latched[u] => latched'[u]
  <2>1. ASSUME NEW v \in Tabs, EngineStep(v) PROVE latched' = latched
    BY <2>1 DEF EngineStep, client, Snapshot, SkipPass, BackOff, Send, FinishPass, Abort, Confirm,
                Requeue, DeadLetter, HoldRead, HoldOne, HoldDone, ClearOne, DropOne
  <2>2. ASSUME NEW v \in Tabs, Logout(v) \/ RemoteShutdown(v)
        PROVE  \A u \in Tabs : latched[u] => latched'[u]
    BY <2>2 DEF Logout, RemoteShutdown
  <2>3. CASE latched' = latched
    BY <2>3
  <2> QED
    BY <2>1, <2>2, <2>3
    DEF Next, vars, client, Wake, Enqueue, Accept, ApplyFirst, TimeOut, Disconnect, GiveUp, Refuse,
        Retry, PickDiscards, Crash, Straggle, Elapse, GoOffline, GoOnline, Wipe
<1>2. \A i \in todo[t] : owner'[i] = owner[i]
  BY RowSteps DEF RowStep, PassKnown, Issued
<1>3. ASSUME todo'[t] \subseteq todo[t], held[t] \subseteq held'[t], blocked[t] \subseteq blocked'[t],
             seen'[t] = seen[t], InPass(t)' => InPass(t),
             pc'[t] = "push" => pc[t] = "push" /\ cur'[t] = cur[t] /\ wire'[t] \in {wire[t], "ok", "lost"}
      PROVE  PassStep(t) /\ PushStep(t)
  <2>1. Candidates(t)' \subseteq Candidates(t)
    BY <1>2, <1>3 DEF Candidates
  <2> QED BY <1>1, <1>3, <2>1 DEF PassStep, PushStep
<1>4. ASSUME ~InPass(t)'
      PROVE  PassStep(t) /\ PushStep(t)
  BY <1>1, <1>4 DEF PassStep, PushStep, InPass
<1>5. ASSUME UNCHANGED <<pass, push>>, pc'[t] = pc[t]
      PROVE  PassStep(t) /\ PushStep(t)
  BY <1>3, <1>5 DEF pass, push, InPass
<1>6. ASSUME NEW u \in Tabs, Kick(u), UNCHANGED <<lock, pass, push>>
      PROVE  PassStep(t) /\ PushStep(t)
  <2>1. pc'[t] = pc[t] \/ ~InPass(t)'
    BY <1>6, KickEffect DEF InPass
  <2> QED BY <1>4, <1>5, <1>6, <2>1
<1>7. ASSUME NEW u \in Tabs, ForgetPass(u), ForgetPush(u), ~InPass(u)',
             u # t => pc'[t] = pc[t]
      PROVE  PassStep(t) /\ PushStep(t)
  <2>1. CASE u = t
    BY <1>4, <1>7, <2>1
  <2>2. CASE u # t
    BY <1>3, <1>7, <2>2 DEF ForgetPass, ForgetPush, InPass
  <2> QED BY <2>1, <2>2
<1>8. ASSUME NEW u \in Tabs, EngineStep(u) PROVE PassStep(t) /\ PushStep(t)
  <2>1. CASE Snapshot(u)
    <3>1. CASE u = t
      BY <1>1, <2>1, <3>1 DEF Snapshot, PassStep, PushStep
    <3>2. CASE u # t
      BY <1>3, <2>1, <3>2 DEF Snapshot, push, InPass
    <3> QED BY <3>1, <3>2
  <2>2. CASE SkipPass(u)
    <3>1. pc'[t] = pc[t] \/ ~InPass(t)'
      BY <2>2 DEF SkipPass, Leave, InPass
    <3> QED BY <1>4, <1>5, <2>2, <3>1 DEF SkipPass
  <2>3. CASE BackOff(u)
    BY <1>3, <2>3 DEF BackOff, push, engine, InPass
  <2>4. CASE Send(u)
    <3>1. todo'[t] \subseteq todo[t] /\ UNCHANGED <<held, blocked, seen>>
      BY <2>4 DEF Send
    <3>2. CASE u = t
      <4>1. Candidates(t)' \subseteq Candidates(t)
        BY <1>2, <3>1 DEF Candidates
      <4> QED BY <1>1, <2>4, <3>1, <3>2, <4>1 DEF Send, PassStep, PushStep, InPass
    <3>3. CASE u # t
      BY <1>3, <2>4, <3>1, <3>3 DEF Send, InPass
    <3> QED BY <3>2, <3>3
  <2>5. CASE FinishPass(u) \/ Abort(u)
    BY <1>7, <2>5, EndPassEffect DEF FinishPass, Abort, EndPass, InPass
  <2>6. CASE Confirm(u) \/ HoldDone(u)
    BY <1>3, <2>6 DEF Confirm, HoldDone, ForgetPush, InPass
  <2>7. CASE Requeue(u)
    <3>1. CASE fails[u] + 1 >= CircuitBreak
      BY <1>7, <2>7, <3>1, EndPassEffect DEF Requeue, EndPass, InPass
    <3>2. CASE ~(fails[u] + 1 >= CircuitBreak)
      BY <1>3, <2>7, <3>2 DEF Requeue, FailedPush, ForgetPush, InPass
    <3> QED BY <3>1, <3>2
  <2>8. CASE DeadLetter(u) \/ HoldRead(u)
    BY <1>3, <2>8 DEF DeadLetter, FailedPush, HoldRead, pass, InPass
  <2>9. CASE HoldOne(u)
    BY <1>3, <2>9 DEF HoldOne, engine, InPass
  <2>10. CASE ClearOne(u)
    BY <1>5, <1>6, <2>10 DEF ClearOne
  <2>11. CASE DropOne(u)
    BY <1>5, <2>11 DEF DropOne, engine
  <2> QED BY <1>8, <2>1, <2>2, <2>3, <2>4, <2>5, <2>6, <2>7, <2>8, <2>9, <2>10, <2>11 DEF EngineStep
<1>9. ASSUME NEW u \in Tabs, NEW r \in Records, Enqueue(u, r) PROVE PassStep(t) /\ PushStep(t)
  BY <1>6, <1>9 DEF Enqueue
<1>10. ASSUME NEW u \in Tabs, Wake(u) PROVE PassStep(t) /\ PushStep(t)
  BY <1>6, <1>10 DEF Wake
<1>11. ASSUME NEW u \in Tabs, Accept(u) \/ TimeOut(u) \/ Disconnect(u)
       PROVE  PassStep(t) /\ PushStep(t)
  BY <1>3, <1>11 DEF Accept, TimeOut, Disconnect, GiveUp, pass, engine, InPass
<1>12. ASSUME NEW u \in Tabs, NEW answer \in {"refused", "rejected"}, Refuse(u, answer)
       PROVE  PassStep(t) /\ PushStep(t)
  <2>1. CASE u = t
    <3>1. PushStep(t)
      BY <1>12, <2>1 DEF Refuse, Awaiting, pass, PushStep
    <3>2. PassStep(t)
      BY <1>1, <1>2, <1>12 DEF Refuse, pass, engine, PassStep, InPass, Candidates
    <3> QED BY <3>1, <3>2
  <2>2. CASE u # t
    BY <1>3, <1>12, <2>2 DEF Refuse, pass, engine, InPass
  <2> QED BY <2>1, <2>2
<1>13. ASSUME NEW u \in Tabs, Crash(u) PROVE PassStep(t) /\ PushStep(t)
  BY <1>7, <1>13 DEF Crash, InPass
<1>14. CASE UNCHANGED <<pass, push, engine>>
  BY <1>5, <1>14 DEF engine
<1> QED
  BY <1>8, <1>9, <1>10, <1>11, <1>12, <1>13, <1>14
  DEF Next, vars, ApplyFirst, Retry, PickDiscards, Logout, RemoteShutdown, Straggle, Elapse, GoOffline,
      GoOnline, Wipe

-----------------------------------------------------------------------------
LEMMA RefusalInit == Init => RefusalInv
<1> SUFFICES ASSUME Init PROVE RefusalInv
  OBVIOUS
<1>1. OrderInv
  BY OrderInit
<1>2. AbandonedGone /\ DeadLettersWereRefused /\ \A i \in Ids : CountEarned(i)
  BY DEF Init, AbandonedGone, DeadLettersWereRefused, CountEarned
<1>3. \A t \in Tabs : SeenEarned(t) /\ AnswerEarned(t)
  BY DEF Init, SeenEarned, AnswerEarned, InPass
<1> QED BY <1>1, <1>2, <1>3 DEF RefusalInv

\* The row of an unlatched tab's push is live, or gone.
LEMMA PushedIsLive ==
  ASSUME RefusalInv, NEW t \in Tabs, pc[t] = "push", ~latched[t]
  PROVE  cur[t] \in Issued /\ state[cur[t]] \in {"live", "none"}
<1>1. cur[t] \in Issued
  BY DEF RefusalInv, OrderInv, TypeInv, PushKnown, Sending
<1>2. state[cur[t]] = "live" \/ cur[t] \in abandoned
  BY DEF RefusalInv, OrderInv, PassInv, SendingLive, GivenUp
<1> QED BY <1>1, <1>2 DEF RefusalInv, AbandonedGone

LEMMA RefusalStep == RefusalInv /\ [Next]_vars => RefusalInv'
<1> SUFFICES ASSUME RefusalInv, [Next]_vars PROVE RefusalInv'
  OBVIOUS
<1> USE BoundsAssumption DEF RefusalInv
<1>1. OrderInv' /\ TypeInv /\ TypeInv'
  BY OrderStep DEF OrderInv
<1>2. /\ \A i \in Ids : RowStep(i) /\ RefusalsKept(i)
      /\ \A t \in Tabs : PassStep(t) /\ PushStep(t)
  BY <1>1, RowSteps, RefusalSteps, PassSteps
<1>3. ASSUME NEW t \in Tabs, FailedPush(t), state[cur[t]] # "none"
      PROVE  /\ cur[t] \in Ids /\ seen[t][cur[t]] \in 0..(MaxRetries - 1)
             /\ state[cur[t]] = "live"
             /\ Kind(t) = "transient" => Attempts(t) <= refusals[cur[t]]
             /\ Kind(t) = "terminal" => MaxRetries <= refusals[cur[t]]
  <2>1. cur[t] \in Ids /\ state[cur[t]] = "live"
    BY <1>3, PushedIsLive DEF FailedPush, Issued
  <2>2. seen[t][cur[t]] \in 0..(MaxRetries - 1)
    BY <1>1, <2>1 DEF TypeInv, TypeOK, PassOK
  <2> QED BY <1>3, <2>1, <2>2 DEF AnswerEarned, FailedPush, Kind
<1>4. AbandonedGone'
  <2>1. \A i \in Issued : i \in Ids /\ i \in Issued'
    BY <1>2 DEF RowStep, Issued
  <2>2. ASSUME NEW i \in abandoned PROVE i \in Issued' /\ state'[i] = "none"
    BY <1>2, <2>1, <2>2 DEF AbandonedGone, RowStep
  <2>3. ASSUME NEW i \in abandoned' \ abandoned PROVE i \in Issued' /\ state'[i] = "none"
    <3>1. i \in Present /\ state'[i] = "none"
      <4>1. ASSUME NEW u \in Tabs, DropOne(u) PROVE i \in Present /\ state'[i] = "none"
        BY <2>3, <4>1 DEF DropOne, Remove, Present
      <4>2. ASSUME Wipe PROVE i \in Present /\ state'[i] = "none"
        BY <2>3, <4>2 DEF Wipe, Remove, Present
      <4>3. ASSUME NEW u \in Tabs, EngineStep(u), ~DropOne(u) PROVE abandoned' = abandoned
        BY <4>3 DEF EngineStep, history, Snapshot, SkipPass, BackOff, Send, FinishPass, Abort, Confirm,
                    Requeue, DeadLetter, HoldRead, HoldOne, HoldDone, ClearOne
      <4>4. abandoned' # abandoned
        BY <2>3
      <4> QED
        BY <4>1, <4>2, <4>3, <4>4
        DEF Next, vars, history, Wake, Enqueue, Accept, ApplyFirst, TimeOut, Disconnect, GiveUp, Refuse,
            Retry, PickDiscards, Crash, Logout, RemoteShutdown, Straggle, Elapse, GoOffline, GoOnline
    <3> QED BY <1>1, <2>1, <3>1 DEF TypeInv, RowsKnown
  <2> QED BY <2>2, <2>3 DEF AbandonedGone
<1>5. DeadLettersWereRefused'
  <2> SUFFICES ASSUME NEW i \in Ids, state'[i] = "dead" PROVE refusals'[i] >= MaxRetries
    BY DEF DeadLettersWereRefused
  <2>1. refusals[i] \in Nat /\ refusals'[i] \in Nat
    BY <1>1 DEF TypeInv, TypeOK, HistoryOK
  <2>2. CASE state[i] = "dead"
    BY <1>2, <2>1, <2>2 DEF DeadLettersWereRefused, RefusalsKept
  <2>3. ASSUME state[i] # "none", NEW t \in Tabs, DeadLetter(t), cur[t] = i
        PROVE  refusals'[i] >= MaxRetries
    <3>1. MaxRetries <= refusals[i]
      BY <1>3, <2>1, <2>3 DEF DeadLetter, Dies, Attempts
    <3> QED BY <2>1, <2>3, <3>1 DEF DeadLetter, history
  <2> QED BY <1>2, <2>2, <2>3 DEF RowStep
<1>6. ASSUME NEW i \in Ids PROVE CountEarned(i)'
  <2> SUFFICES ASSUME state'[i] = "live" PROVE retryCount'[i] <= refusals'[i]
    BY DEF CountEarned
  <2>1. /\ refusals[i] \in Nat /\ refusals'[i] \in Nat
        /\ retryCount[i] \in 0..MaxRetries
    BY <1>1 DEF TypeInv, TypeOK, HistoryOK, TableOK
  <2>2. CASE state[i] = "live" /\ retryCount'[i] = retryCount[i]
    BY <1>2, <2>1, <2>2 DEF CountEarned, RefusalsKept, Failed
  <2>3. CASE retryCount'[i] = 0
    BY <2>1, <2>3
  <2>4. ASSUME state[i] = "live", NEW t \in Tabs, Requeue(t), cur[t] = i, Kind(t) = "transient",
               retryCount'[i] = Attempts(t)
        PROVE  retryCount'[i] <= refusals'[i]
    BY <1>3, <2>4 DEF Requeue, history
  <2> QED BY <1>2, <2>2, <2>3, <2>4 DEF RowStep
<1>7. ASSUME NEW t \in Tabs PROVE SeenEarned(t)'
  <2> SUFFICES ASSUME InPass(t)', ~latched'[t], NEW c \in Candidates(t)', state'[c] = "live"
               PROVE  seen'[t][c] <= refusals'[c]
    BY DEF SeenEarned
  <2>1. c \in Issued' /\ c \in Ids /\ ~latched[t]
    BY <1>1, <1>2 DEF TypeInv, PassKnown, Candidates, PassStep, Issued
  <2>2. seen[t][c] \in 0..MaxRetries /\ refusals[c] \in Nat
    BY <1>1, <2>1 DEF TypeInv, TypeOK, PassOK, HistoryOK
  <2>3. CASE Snapshot(t)
    <3>1. state[c] = "live" /\ seen'[t][c] = retryCount[c] /\ refusals' = refusals
      BY <1>1, <2>1, <2>3 DEF Snapshot, Candidates, table, history, TypeInv, TypeOK, PassOK
    <3> QED BY <2>1, <3>1 DEF CountEarned
  <2>4. CASE InPass(t) /\ seen'[t] = seen[t] /\ Candidates(t)' \subseteq Candidates(t)
    <3>1. state[c] = "live" \/ c \in abandoned
      BY <2>1, <2>4 DEF OrderInv, PassInv, SnapshotInOrder, GivenUp
    <3>2. state[c] = "live"
      BY <1>2, <2>1, <3>1 DEF AbandonedGone, RowStep
    <3> QED BY <1>2, <2>1, <2>2, <2>4, <3>2 DEF SeenEarned, RefusalsKept, Failed
  <2> QED BY <1>2, <2>3, <2>4 DEF PassStep
<1>8. ASSUME NEW t \in Tabs PROVE AnswerEarned(t)'
  <2> SUFFICES ASSUME pc'[t] = "push", ~latched'[t], state'[cur'[t]] = "live"
               PROVE  /\ seen'[t][cur'[t]] <= refusals'[cur'[t]]
                      /\ wire'[t] = "refused" => seen'[t][cur'[t]] + 1 <= refusals'[cur'[t]]
                      /\ wire'[t] = "rejected" => MaxRetries <= refusals'[cur'[t]]
    BY DEF AnswerEarned, Attempts
  <2>1. ~latched[t]
    BY <1>2 DEF PassStep
  <2>2. CASE Send(t)
    <3>1. PICK i \in Candidates(t) : cur'[t] = i
      BY <1>1, <2>2 DEF Send, First, TypeInv, TypeOK, PushOK
    <3>2. wire'[t] = "sent" /\ UNCHANGED <<state, seen, refusals>> /\ InPass(t)
      BY <1>1, <2>2 DEF Send, TypeInv, TypeOK, PushOK, table, history, InPass
    <3> QED BY <2>1, <3>1, <3>2 DEF SeenEarned
  <2>3. ASSUME pc[t] = "push", cur'[t] = cur[t], seen'[t] = seen[t]
        PROVE  /\ cur[t] \in Ids /\ state[cur[t]] = "live"
               /\ seen[t][cur[t]] \in 0..(MaxRetries - 1)
               /\ refusals[cur[t]] \in Nat /\ refusals'[cur[t]] \in Nat
    <3>1. cur[t] \in Ids /\ state[cur[t]] = "live"
      BY <1>2, <2>1, <2>3, PushedIsLive DEF RowStep, Issued
    <3> QED BY <1>1, <3>1 DEF TypeInv, TypeOK, PassOK, HistoryOK
  <2>4. CASE pc[t] = "push" /\ cur'[t] = cur[t] /\ seen'[t] = seen[t] /\ wire'[t] \in {wire[t], "ok", "lost"}
    <3>1. \A n \in 0..MaxRetries : n <= refusals[cur[t]] => n <= refusals'[cur[t]]
      BY <1>2, <2>3, <2>4 DEF RefusalsKept, Failed
    <3> QED BY <2>1, <2>3, <2>4, <3>1 DEF AnswerEarned, Attempts
  <2>5. ASSUME pc[t] = "push", cur'[t] = cur[t], seen'[t] = seen[t],
               NEW answer \in {"refused", "rejected"}, Refuse(t, answer), wire'[t] = answer
        PROVE  /\ seen'[t][cur'[t]] <= refusals'[cur'[t]]
               /\ wire'[t] = "refused" => seen'[t][cur'[t]] + 1 <= refusals'[cur'[t]]
               /\ wire'[t] = "rejected" => MaxRetries <= refusals'[cur'[t]]
    <3>1. refusals'[cur[t]] = IF answer = "rejected" THEN MaxRetries ELSE refusals[cur[t]] + 1
      BY <1>1, <2>3, <2>5 DEF Refuse, TypeInv, TypeOK, HistoryOK
    <3> QED BY <2>1, <2>3, <2>5, <3>1 DEF AnswerEarned
  <2> QED BY <1>2, <2>2, <2>4, <2>5 DEF PushStep
<1> QED BY <1>1, <1>4, <1>5, <1>6, <1>7, <1>8

\* "Never reached the server: no retry consumed, no dead-lettering, ever"
\* (handleFailure, syncService.ts:401-403): whatever tabs, crashes, lost answers,
\* retries and discards come between, a dead letter was refused for good, or
\* MAX_RETRIES times since it was last queued.
THEOREM RefusedTheorem == Spec => []DeadLettersWereRefused
<1>1. RefusalInv => DeadLettersWereRefused
  BY DEF RefusalInv
<1> QED BY RefusalInit, RefusalStep, <1>1, PTL DEF Spec

-----------------------------------------------------------------------------
(***************************************************************************)
(* Sign-out.                                                               *)
(***************************************************************************)
\* Only a latched tab's Abort, the server's late answers, the device and Wipe
\* can still act; none of them changes a row but Wipe, which takes them all.
LEMMA SignedOutStep ==
  ASSUME TypeInv, [Next]_vars, \A t \in Tabs : latched[t]
  PROVE  \/ UNCHANGED <<owner, state, retryCount, nextId>>
         \/ owner' = owner /\ Present' = {}
<1>1. ASSUME Wipe PROVE owner' = owner /\ Present' = {}
  BY <1>1 DEF Wipe, Remove, Present
<1>2. ASSUME NEW t \in Tabs, EngineStep(t) PROVE UNCHANGED <<owner, state, retryCount, nextId>>
  BY <1>2 DEF EngineStep, table, Snapshot, SkipPass, BackOff, Send, FinishPass, Abort, Confirm, Requeue,
              FailedPush, DeadLetter, HoldRead, HoldOne, HoldDone, ClearOne, DropOne
<1>3. ASSUME NEW t \in Tabs, NEW r \in Records, Enqueue(t, r) PROVE FALSE
  BY <1>3 DEF Enqueue
<1> QED
  BY <1>1, <1>2, <1>3
  DEF Next, vars, table, Wake, Accept, ApplyFirst, TimeOut, Disconnect, GiveUp, Refuse, Retry,
      PickDiscards, Crash, Logout, RemoteShutdown, Straggle, Elapse, GoOffline, GoOnline

\* Once every tab is signed out nothing touches the outbox but its deletion
\* (stopped(), syncService.ts:187; the shutdown latch of schema.ts).
THEOREM SignedOutTheorem == Spec => SignedOutIsInert
<1>1. ASSUME TypeInv, [Next]_vars
      PROVE  [(\A t \in Tabs : latched[t]) =>
                \/ <<owner, state, retryCount, nextId>>' = <<owner, state, retryCount, nextId>>
                \/ owner' = owner /\ Present' = {}]_vars
  BY <1>1, SignedOutStep
<1> QED BY <1>1, TypeInit, TypeStep, PTL DEF Spec, SignedOutIsInert

-----------------------------------------------------------------------------
(***************************************************************************)
(* Until the first retry or discard.  No row comes back then, so the order *)
(* of a record's writes does not depend on its being intact: the rows that *)
(* a crash or a sign-out exposes are sent over a failed write, which stays *)
(* unsent.  The invariant relates every row that may still be sent to what *)
(* the server has, or may yet get.                                         *)
(***************************************************************************)
LiveRows == {i \in Ids : state[i] = "live"}

\* The server has no newer write of the record, and none is on its way.
NothingNewer(i) ==
  /\ latest[owner[i]] <= i
  /\ \A s \in stray : owner[s] = owner[i] => s <= i

\* What a pass may still send is not overtaken, and nothing live of its record
\* comes before it but what the pass sends first or is sending.
PassForward(t) ==
  InPass(t) => \A c \in Candidates(t) :
    /\ NothingNewer(c)
    /\ \A j \in LiveRows : owner[j] = owner[c] /\ j < c =>
         j \in Candidates(t) \/ (pc[t] = "push" /\ j = cur[t])

\* What is being sent is not overtaken, and nothing live is older.
PushForward(t) ==
  pc[t] = "push" =>
    /\ NothingNewer(cur[t])
    /\ \A j \in LiveRows : owner[j] = owner[cur[t]] => cur[t] <= j

Forward ==
  /\ \A t \in Tabs : clearing[t] = {} /\ dropping[t] = {}
  /\ \A i \in LiveRows : NothingNewer(i)
  /\ \A t \in Tabs : PassForward(t) /\ PushForward(t)

UntappedInv == OrderInv /\ (taps = 0 => Forward)

LEMMA UntappedInit == Init => UntappedInv
<1> SUFFICES ASSUME Init PROVE Forward
  BY OrderInit DEF UntappedInv
<1> QED BY DEF Init, Forward, LiveRows, PassForward, PushForward, InPass

\* Rows known to the engine have an owner, as has what it works with.
LEMMA OwnersKnown ==
  ASSUME TypeInv, NEW t \in Tabs
  PROVE  /\ Issued \subseteq Ids /\ Ids \subseteq Nat
         /\ \A i \in Issued : owner[i] \in Records /\ i < nextId
         /\ LiveRows \subseteq Issued /\ stray \subseteq Issued
         /\ Candidates(t) \subseteq Issued
         /\ Sending(t) => cur[t] \in Issued
BY BoundsAssumption
DEF TypeInv, Issued, FreshIds, RowsKnown, Present, LiveRows, StraysKnown, PassKnown,
    PushKnown, Candidates, Ids

\* Rows retire and the server stays: what a pass may send only shrinks.
LEMMA ForwardKept ==
  ASSUME NEW t \in Tabs, PassForward(t), PushForward(t), owner' = owner,
         LiveRows' \subseteq LiveRows, latest' = latest, stray' \subseteq stray,
         InPass(t)' => InPass(t),
         pc'[t] = "push" => pc[t] = "push" /\ cur'[t] = cur[t],
         Candidates(t)' \subseteq Candidates(t),
         InPass(t)' => \A c \in Candidates(t)', j \in LiveRows' :
           /\ owner[j] = owner[c] /\ j < c
           /\ j \in Candidates(t) \/ (pc[t] = "push" /\ j = cur[t])
           => j \in Candidates(t)' \/ (pc'[t] = "push" /\ j = cur'[t])
  PROVE  PassForward(t)' /\ PushForward(t)'
<1>1. \A i : NothingNewer(i) => NothingNewer(i)'
  BY DEF NothingNewer
<1>2. PassForward(t)'
  <2> SUFFICES ASSUME InPass(t)', NEW c \in Candidates(t)'
               PROVE  /\ NothingNewer(c)'
                      /\ \A j \in LiveRows' : owner[j] = owner[c] /\ j < c =>
                           j \in Candidates(t)' \/ (pc'[t] = "push" /\ j = cur'[t])
    BY DEF PassForward
  <2>1. c \in Candidates(t) /\ InPass(t)
    OBVIOUS
  <2> QED BY <1>1, <2>1 DEF PassForward
<1>3. PushForward(t)'
  BY <1>1 DEF PushForward
<1> QED BY <1>2, <1>3

\* The same for a tab whose pass goes on untouched, or is over.
LEMMA ForwardOther ==
  ASSUME NEW t \in Tabs, PassForward(t), PushForward(t), owner' = owner,
         LiveRows' \subseteq LiveRows, latest' = latest, stray' \subseteq stray,
         Undisturbed(t) \/ ~InPass(t)'
  PROVE  PassForward(t)' /\ PushForward(t)'
<1>1. CASE Undisturbed(t)
  <2>1. Candidates(t)' = Candidates(t) /\ (InPass(t)' <=> InPass(t))
    BY <1>1 DEF Undisturbed, Candidates, InPass
  <2> QED BY <1>1, <2>1, ForwardKept DEF Undisturbed
<1>2. CASE ~InPass(t)'
  BY <1>2 DEF PassForward, PushForward, InPass
<1> QED BY <1>1, <1>2

\* A write n reaches the server, or may yet, that no row still to be sent is
\* older than.
LEMMA ForwardReached ==
  ASSUME TypeInv, Forward, UNCHANGED <<owner, state>>,
         \A t \in Tabs : clearing'[t] = {} /\ dropping'[t] = {},
         \A t \in Tabs : Undisturbed(t) \/ ~InPass(t)',
         NEW n \in Ids,
         \A r \in Records : latest'[r] = latest[r] \/ (r = owner[n] /\ latest'[r] = n),
         stray' \subseteq stray \cup {n},
         \A j \in LiveRows : owner[j] = owner[n] => n <= j,
         \A t \in Tabs : InPass(t)' =>
           /\ \A c \in Candidates(t) : owner[c] = owner[n] => n <= c
           /\ pc[t] = "push" /\ owner[cur[t]] = owner[n] => n <= cur[t]
  PROVE  Forward'
<1>1. ASSUME NEW i \in Issued, NothingNewer(i), owner[i] = owner[n] => n <= i
      PROVE  NothingNewer(i)'
  BY <1>1 DEF NothingNewer, Issued
<1>2. LiveRows' = LiveRows
  BY DEF LiveRows
<1>3. \A i \in LiveRows' : NothingNewer(i)'
  BY <1>1, <1>2 DEF Forward, LiveRows, TypeInv, RowsKnown, Present
<1>4. ASSUME NEW t \in Tabs PROVE PassForward(t)' /\ PushForward(t)'
  <2>1. CASE ~InPass(t)'
    BY <2>1 DEF PassForward, PushForward, InPass
  <2>2. CASE InPass(t)' /\ Undisturbed(t)
    <3>1. Candidates(t)' = Candidates(t) /\ InPass(t)
      BY <2>2 DEF Undisturbed, Candidates, InPass
    <3>2. /\ Candidates(t) \subseteq Issued
          /\ pc[t] = "push" => cur[t] \in Issued
      BY OwnersKnown DEF Sending
    <3>3. PassForward(t)'
      BY <1>1, <1>2, <2>2, <3>1, <3>2 DEF Forward, PassForward, Undisturbed
    <3>4. PushForward(t)'
      BY <1>1, <1>2, <2>2, <3>1, <3>2 DEF Forward, PushForward, Undisturbed
    <3> QED BY <3>3, <3>4
  <2> QED BY <2>1, <2>2
<1> QED BY <1>3, <1>4 DEF Forward

\* What is being sent is older than all that its record still has to send.
LEMMA PushIsFirst ==
  ASSUME OrderInv, Forward, NEW t \in Tabs, pc[t] = "push"
  PROVE  /\ cur[t] \in Issued /\ cur[t] \in Ids
         /\ \A j \in LiveRows : owner[j] = owner[cur[t]] => cur[t] <= j
         /\ \A u \in Tabs : InPass(u) =>
              /\ \A c \in Candidates(u) : owner[c] = owner[cur[t]] => cur[t] <= c
              /\ pc[u] = "push" => cur[t] <= cur[u]
<1>1. cur[t] \in Issued /\ cur[t] \in Ids /\ cur[t] \in Nat
  BY OwnersKnown DEF OrderInv, Sending
<1>2. \A u \in Tabs : InPass(u) => u = t
  BY Alone DEF OrderInv, InPass
<1>3. \A c \in Candidates(t) : cur[t] < c /\ c \in Nat
  BY OwnersKnown DEF OrderInv, PassInv, SendingFirst, Sending
<1>4. PushForward(t)
  BY DEF Forward
<1> QED BY <1>1, <1>2, <1>3, <1>4 DEF PushForward

LEMMA ForwardServer ==
  ASSUME OrderInv, Forward, NEW t \in Tabs,
         Accept(t) \/ ApplyFirst(t) \/ TimeOut(t) \/ Disconnect(t)
  PROVE  Forward'
<1>1. /\ UNCHANGED <<owner, state, clearing, dropping>>
      /\ \A u \in Tabs : Undisturbed(u)
      /\ pc[t] = "push"
      /\ \/ latest' = latest
         \/ latest' = [latest EXCEPT ![owner[cur[t]]] = cur[t]]
      /\ stray' \subseteq stray \cup {cur[t]}
  BY DEF Accept, ApplyFirst, TimeOut, Disconnect, GiveUp, Apply, Awaiting, Undisturbed,
     table, pass, push, engine, client, server
<1>2. \A r \in Records : latest'[r] = latest[r] \/ (r = owner[cur[t]] /\ latest'[r] = cur[t])
  BY <1>1 DEF OrderInv, TypeInv, TypeOK, ServerOK
<1>3. \A u \in Tabs : InPass(u)' => InPass(u)
  BY <1>1 DEF Undisturbed, InPass
<1> QED
  BY <1>1, <1>2, <1>3, PushIsFirst, ForwardReached DEF OrderInv, Forward

LEMMA ForwardStraggle ==
  ASSUME OrderInv, Forward, NEW i \in Ids, Straggle(i)
  PROVE  Forward'
<1>1. /\ UNCHANGED <<owner, state, clearing, dropping>>
      /\ \A u \in Tabs : Undisturbed(u)
      /\ i \in stray /\ stray' \subseteq stray
      /\ latest' = [latest EXCEPT ![owner[i]] = i]
  BY DEF Straggle, Apply, Undisturbed, table, pass, push, engine, client
<1>2. \A r \in Records : latest'[r] = latest[r] \/ (r = owner[i] /\ latest'[r] = i)
  BY <1>1 DEF OrderInv, TypeInv, TypeOK, ServerOK
<1>3. \A j \in LiveRows : owner[j] = owner[i] => i <= j
  BY <1>1 DEF Forward, NothingNewer
<1>4. ASSUME NEW t \in Tabs, InPass(t)'
      PROVE  /\ \A c \in Candidates(t) : owner[c] = owner[i] => i <= c
             /\ pc[t] = "push" /\ owner[cur[t]] = owner[i] => i <= cur[t]
  <2>1. InPass(t)
    BY <1>1, <1>4 DEF Undisturbed, InPass
  <2> QED BY <1>1, <2>1 DEF Forward, PassForward, PushForward, NothingNewer
<1> QED BY <1>1, <1>2, <1>3, <1>4, ForwardReached DEF OrderInv, Forward

LEMMA ForwardCrash ==
  ASSUME OrderInv, Forward, NEW t \in Tabs, Crash(t)
  PROVE  Forward'
<1>1. /\ UNCHANGED <<owner, state, latest>>
      /\ \A u \in Tabs : clearing'[u] = {} /\ dropping'[u] = {}
      /\ \A u \in Tabs : Undisturbed(u) \/ ~InPass(u)'
      /\ ~InPass(t)' /\ \A u \in Tabs : InPass(u)' => InPass(u)
      /\ \/ stray' = stray
         \/ pc[t] = "push" /\ stray' = stray \cup {cur[t]}
  BY DEF Crash, ForgetPass, ForgetPush, Awaiting, Undisturbed, InPass, Forward, table,
     OrderInv, TypeInv, TypeOK, PassOK, PushOK, EngineOK, ClientOK
<1>2. CASE stray' = stray
  <2>1. LiveRows' = LiveRows /\ \A i : NothingNewer(i)' <=> NothingNewer(i)
    BY <1>1, <1>2 DEF LiveRows, NothingNewer
  <2> QED BY <1>1, <1>2, <2>1, ForwardOther DEF Forward
<1>3. CASE pc[t] = "push" /\ stray' = stray \cup {cur[t]}
  BY <1>1, <1>3, PushIsFirst, ForwardReached DEF OrderInv
<1> QED BY <1>1, <1>2, <1>3

\* A new row is newer than all there is, and is not in any pass.
LEMMA ForwardEnqueue ==
  ASSUME OrderInv, Forward, NEW t \in Tabs, NEW r \in Records, Enqueue(t, r)
  PROVE  Forward'
<1> PICK n \in Ids : n = nextId
  BY DEF Enqueue
<1>1. /\ UNCHANGED <<latest, stray, clearing, dropping>>
      /\ \A i \in Ids \ {n} : owner'[i] = owner[i]
      /\ owner'[n] = r
      /\ LiveRows' \subseteq LiveRows \cup {n}
      /\ UNCHANGED <<todo, held, blocked, cur, succ>>
  BY DEF Enqueue, LiveRows, pass, push, client, server, OrderInv, TypeInv, TypeOK, TableOK
<1>2. \A u \in Tabs : pc'[u] = pc[u] \/ (pc[u] = "idle" /\ pc'[u] = "lock")
  BY KickEffect DEF Enqueue, OrderInv, TypeInv, TypeOK
<1>3. n \in Nat /\ \A i \in Issued : i \in Ids /\ i \in Nat /\ i < n /\ owner'[i] = owner[i]
  BY <1>1 DEF Issued, OrderInv, TypeInv, FreshIds, Ids
<1>4. LiveRows \subseteq Issued /\ stray \subseteq Issued
  BY DEF LiveRows, Present, OrderInv, TypeInv, RowsKnown, StraysKnown
<1>5. ASSUME NEW i \in Issued, NothingNewer(i) PROVE NothingNewer(i)'
  BY <1>1, <1>3, <1>4, <1>5 DEF NothingNewer
<1>6. NothingNewer(n)'
  <2>1. latest[r] <= n
    BY <1>3 DEF OrderInv, LatestKnown, TypeInv, TypeOK, ServerOK, Ids
  <2> QED BY <1>1, <1>3, <1>4, <2>1 DEF NothingNewer
<1>7. ASSUME NEW u \in Tabs PROVE PassForward(u)' /\ PushForward(u)'
  <2>1. CASE ~InPass(u)'
    BY <2>1 DEF PassForward, PushForward, InPass
  <2>2. CASE InPass(u)'
    <3>1. pc'[u] = pc[u] /\ InPass(u)
      BY <1>2, <2>2 DEF InPass
    <3>2. /\ Candidates(u) \subseteq Issued
          /\ pc[u] = "push" => cur[u] \in Issued
      BY OwnersKnown DEF OrderInv, Sending
    <3>3. Candidates(u)' = Candidates(u) /\ cur'[u] = cur[u]
      <4>1. todo[u] \subseteq Issued
        BY DEF OrderInv, TypeInv, PassKnown
      <4> QED BY <1>1, <1>3, <4>1 DEF Candidates
    <3>4. PassForward(u)'
      <4> SUFFICES ASSUME NEW c \in Candidates(u)
                   PROVE  /\ NothingNewer(c)'
                          /\ \A j \in LiveRows' : owner'[j] = owner'[c] /\ j < c =>
                               j \in Candidates(u) \/ (pc[u] = "push" /\ j = cur[u])
        BY <1>1, <3>1, <3>3 DEF PassForward
      <4>1. NothingNewer(c) /\ c \in Issued
        BY <3>1, <3>2 DEF Forward, PassForward
      <4>2. \A j \in LiveRows' : j < c => j \in LiveRows /\ j \in Issued
        <5>1. c \in Nat /\ c < n
          BY <1>3, <4>1
        <5> QED BY <1>1, <1>3, <1>4, <5>1
      <4>3. NothingNewer(c)'
        BY <1>5, <4>1
      <4>4. ASSUME NEW j \in LiveRows', owner'[j] = owner'[c], j < c
            PROVE  j \in Candidates(u) \/ (pc[u] = "push" /\ j = cur[u])
        <5>1. j \in LiveRows /\ owner[j] = owner[c]
          BY <1>3, <4>1, <4>2, <4>4
        <5> QED BY <3>1, <4>4, <5>1 DEF Forward, PassForward
      <4> QED BY <4>3, <4>4
    <3>5. PushForward(u)'
      <4> SUFFICES ASSUME pc[u] = "push"
                   PROVE  /\ NothingNewer(cur[u])'
                          /\ \A j \in LiveRows' : owner'[j] = owner'[cur[u]] => cur[u] <= j
        BY <1>1, <3>1 DEF PushForward, NothingNewer
      <4>1. PICK m \in Issued : m = cur[u]
        BY <3>2
      <4>2. NothingNewer(m) /\ \A j \in LiveRows : owner[j] = owner[m] => m <= j
        BY <4>1 DEF Forward, PushForward
      <4>3. NothingNewer(m)'
        BY <1>5, <4>2
      <4>4. ASSUME NEW j \in LiveRows', owner'[j] = owner'[m] PROVE m <= j
        <5>1. CASE j = n
          BY <1>3, <5>1
        <5>2. CASE j \in LiveRows
          BY <1>3, <1>4, <4>2, <4>4, <5>2
        <5> QED BY <1>1, <5>1, <5>2
      <4>5. cur'[u] = cur[u]
        BY <1>1
      <4> QED BY <4>1, <4>3, <4>4, <4>5 DEF NothingNewer
    <3> QED BY <3>4, <3>5
  <2> QED BY <2>1, <2>2
<1>8. \A i \in LiveRows' : NothingNewer(i)'
  BY <1>1, <1>4, <1>5, <1>6 DEF Forward
<1> QED BY <1>1, <1>7, <1>8 DEF Forward

\* The snapshot is every live row.
LEMMA ForwardSnapshot ==
  ASSUME OrderInv, Forward, NEW t \in Tabs, Snapshot(t)
  PROVE  Forward'
<1>1. /\ UNCHANGED <<owner, state, latest, stray, clearing, dropping, cur, succ>>
      /\ \A u \in Tabs \ {t} : Undisturbed(u)
      /\ pc'[t] = "loop"
      /\ todo'[t] = LiveRows /\ held'[t] = {} /\ blocked'[t] = {}
  BY DEF Snapshot, Undisturbed, LiveRows, table, push, client, server,
     OrderInv, TypeInv, TypeOK, PassOK, EngineOK
<1>2. LiveRows' = LiveRows /\ \A i : NothingNewer(i)' <=> NothingNewer(i)
  BY <1>1 DEF LiveRows, NothingNewer
<1>3. Candidates(t)' = LiveRows
  BY <1>1 DEF Candidates
<1>4. PassForward(t)' /\ PushForward(t)'
  BY <1>1, <1>2, <1>3 DEF PassForward, PushForward, Forward
<1> QED BY <1>1, <1>2, <1>4, ForwardOther DEF Forward

\* The first of the rows a pass may send is the oldest live one of its record.
LEMMA ForwardSend ==
  ASSUME OrderInv, Forward, NEW t \in Tabs, Send(t)
  PROVE  Forward'
<1>1. /\ UNCHANGED <<owner, state, latest, stray, clearing, dropping, held, blocked>>
      /\ \A u \in Tabs \ {t} : Undisturbed(u)
      /\ pc[t] = "loop" /\ InPass(t) /\ pc'[t] = "push"
  BY DEF Send, Undisturbed, InPass, table, client, server,
     OrderInv, TypeInv, TypeOK, PassOK, PushOK, EngineOK
<1>2. PICK i \in todo[t] : /\ First(i, Candidates(t))
                           /\ cur'[t] = i /\ todo'[t] = todo[t] \ {i}
  BY DEF Send, OrderInv, TypeInv, TypeOK, PushOK, PassOK
<1>3. /\ i \in Candidates(t) /\ \A c \in Candidates(t) : i <= c
      /\ Candidates(t) \subseteq Nat
      /\ Candidates(t)' = Candidates(t) \ {i}
  BY <1>1, <1>2, OwnersKnown DEF First, Candidates, OrderInv
<1>4. LiveRows' = LiveRows /\ LiveRows \subseteq Nat
      /\ \A k : NothingNewer(k)' <=> NothingNewer(k)
  BY <1>1, OwnersKnown DEF LiveRows, NothingNewer, OrderInv
<1>5. PassForward(t)
  BY DEF Forward
<1>6. PassForward(t)'
  BY <1>1, <1>2, <1>3, <1>4, <1>5 DEF PassForward
<1>7. PushForward(t)'
  <2>1. \A j \in LiveRows : owner[j] = owner[i] => ~(j < i)
    BY <1>1, <1>3, <1>5 DEF PassForward
  <2> QED BY <1>1, <1>2, <1>3, <1>4, <1>5, <2>1 DEF PassForward, PushForward
<1> QED BY <1>1, <1>4, <1>6, <1>7, ForwardOther DEF Forward

\* Steps that take rows away, if any, and leave the other passes alone.
LEMMA ForwardRest ==
  ASSUME Forward, owner' = owner, LiveRows' \subseteq LiveRows,
         UNCHANGED <<latest, stray, clearing, dropping>>,
         \A u \in Tabs : Undisturbed(u) \/ ~InPass(u)' \/ (PassForward(u)' /\ PushForward(u)')
  PROVE  Forward'
<1>1. \A i : NothingNewer(i) => NothingNewer(i)'
  BY DEF NothingNewer
<1>2. \A u \in Tabs : PassForward(u)' /\ PushForward(u)'
  BY ForwardOther DEF Forward
<1> QED BY <1>1, <1>2 DEF Forward

\* The steps of a pass between its requests.
LEMMA ForwardPass ==
  ASSUME OrderInv, Forward, NEW t \in Tabs,
         BackOff(t) \/ Confirm(t) \/ Requeue(t) \/ DeadLetter(t)
           \/ HoldRead(t) \/ HoldOne(t) \/ HoldDone(t)
  PROVE  Forward'
<1> USE DEF OrderInv, TypeInv, TypeOK, TableOK, PassOK, PushOK, EngineOK
<1>1. PassForward(t) /\ PushForward(t) /\ InPass(t)
  BY DEF Forward, BackOff, Confirm, Requeue, FailedPush, DeadLetter, HoldRead, HoldOne, HoldDone, InPass
<1>2. CASE BackOff(t)
  <2>1. /\ UNCHANGED <<owner, state, latest, stray, clearing, dropping, pc, cur, succ, todo, held>>
        /\ \A u \in Tabs \ {t} : Undisturbed(u)
    BY <1>2 DEF BackOff, engine, table, push, client, server, Undisturbed
  <2>2. PICK r : blocked'[t] = blocked[t] \cup {r}
    BY <1>2 DEF BackOff
  <2>3. Candidates(t)' = {c \in Candidates(t) : owner[c] # r}
    BY <2>1, <2>2 DEF Candidates
  <2>4. LiveRows' = LiveRows /\ pc[t] = "loop"
    BY <1>2, <2>1 DEF LiveRows, BackOff
  <2>5. PassForward(t)' /\ PushForward(t)'
    BY <1>1, <2>1, <2>3, <2>4, ForwardKept
  <2> QED BY <2>1, <2>4, <2>5, ForwardRest
<1>3. CASE Confirm(t)
  <2>1. /\ UNCHANGED <<owner, latest, stray, clearing, dropping, todo, held, blocked>>
        /\ \A u \in Tabs \ {t} : Undisturbed(u)
        /\ pc[t] = "push" /\ pc'[t] = "loop"
        /\ LiveRows' \subseteq LiveRows \ {cur[t]}
    BY <1>3 DEF Confirm, Remove, ForgetPush, client, server, Undisturbed, LiveRows
  <2>2. Candidates(t)' = Candidates(t)
    BY <2>1 DEF Candidates
  <2>3. PassForward(t)' /\ PushForward(t)'
    BY <1>1, <2>1, <2>2, ForwardKept
  <2> QED BY <2>1, <2>3, ForwardRest
<1>4. CASE Requeue(t)
  <2>1. /\ UNCHANGED <<owner, state, latest, stray, clearing, dropping>>
        /\ \A u \in Tabs \ {t} : Undisturbed(u)
        /\ pc[t] = "push"
    BY <1>4, EndPassEffect DEF Requeue, FailedPush, EndPass, ForgetPass, ForgetPush, Leave, client, server, history,
       Undisturbed
  <2>2. LiveRows' = LiveRows
    BY <2>1 DEF LiveRows
  <2>3. CASE ~InPass(t)'
    BY <2>1, <2>2, <2>3, ForwardRest
  <2>4. CASE InPass(t)'
    <3>1. /\ pc'[t] = "loop" /\ UNCHANGED <<todo, held>>
          /\ blocked'[t] = blocked[t] \cup {owner[cur[t]]}
      BY <1>4, <2>4 DEF Requeue, EndPass, Leave, InPass
    <3>2. Candidates(t)' = {c \in Candidates(t) : owner[c] # owner[cur[t]]}
      BY <2>1, <3>1 DEF Candidates
    <3>3. PassForward(t)' /\ PushForward(t)'
      BY <1>1, <2>1, <2>2, <3>1, <3>2, ForwardKept
    <3> QED BY <2>1, <2>2, <3>3, ForwardRest
  <2> QED BY <2>3, <2>4
<1>5. CASE DeadLetter(t)
  <2>1. /\ UNCHANGED <<owner, latest, stray, clearing, dropping, todo, held, blocked, cur, succ>>
        /\ \A u \in Tabs \ {t} : Undisturbed(u)
        /\ pc[t] = "push" /\ pc'[t] = "hold"
    BY <1>5 DEF DeadLetter, FailedPush, pass, client, server, Undisturbed
  <2>2. LiveRows' \subseteq LiveRows \ {cur[t]}
    BY <1>5 DEF DeadLetter, Update, LiveRows
  <2>3. Candidates(t)' = Candidates(t)
    BY <2>1 DEF Candidates
  <2>4. PassForward(t)' /\ PushForward(t)'
    BY <1>1, <2>1, <2>2, <2>3, ForwardKept
  <2> QED BY <2>1, <2>2, <2>4, ForwardRest
<1>6. CASE HoldRead(t) \/ HoldDone(t)
  <2>1. /\ UNCHANGED <<owner, state, latest, stray, clearing, dropping, todo, held, blocked>>
        /\ \A u \in Tabs \ {t} : Undisturbed(u)
        /\ pc[t] # "push" /\ pc'[t] # "push"
    BY <1>6 DEF HoldRead, HoldDone, ForgetPush, table, pass, client, server, Undisturbed
  <2>2. LiveRows' = LiveRows /\ Candidates(t)' = Candidates(t)
    BY <2>1 DEF LiveRows, Candidates
  <2>3. PassForward(t)' /\ PushForward(t)'
    BY <1>1, <2>1, <2>2, ForwardKept
  <2> QED BY <2>1, <2>2, <2>3, ForwardRest
<1>7. CASE HoldOne(t)
  <2>1. /\ UNCHANGED <<owner, latest, stray, clearing, dropping, todo, blocked, pc, cur>>
        /\ \A u \in Tabs \ {t} : Undisturbed(u)
        /\ pc[t] = "holding"
    BY <1>7 DEF HoldOne, engine, client, server, Undisturbed
  <2>2. PICK j \in succ[t] : /\ state' = Update(state, j, "held")
                             /\ held'[t] = held[t] \cup {j}
    BY <1>7 DEF HoldOne
  <2>3. LiveRows' \subseteq LiveRows \ {j}
    BY <2>2 DEF Update, LiveRows
  <2>4. Candidates(t)' = Candidates(t) \ {j}
    BY <2>1, <2>2 DEF Candidates
  <2>5. PassForward(t)' /\ PushForward(t)'
    BY <1>1, <2>1, <2>3, <2>4, ForwardKept
  <2> QED BY <2>1, <2>3, <2>5, ForwardRest
<1> QED BY <1>2, <1>3, <1>4, <1>5, <1>6, <1>7

LEMMA ForwardStep ==
  ASSUME OrderInv, Forward, [Next]_vars, taps = 0, taps' = 0
  PROVE  Forward'
<1> USE DEF OrderInv, TypeInv, TypeOK
<1>1. ASSUME NEW t \in Tabs, EngineStep(t) PROVE Forward'
  <2>1. CASE SkipPass(t)
    <3>1. /\ UNCHANGED <<owner, state, latest, stray, clearing, dropping>>
          /\ \A u \in Tabs : Undisturbed(u) \/ ~InPass(u)'
      BY <2>1 DEF SkipPass, Leave, InPass, Undisturbed, EngineOK, table, pass, push, client, server
    <3> QED BY <3>1, ForwardRest DEF LiveRows
  <2>2. CASE FinishPass(t) \/ Abort(t)
    <3>1. /\ UNCHANGED <<owner, state, latest, stray>>
          /\ \A u \in Tabs : Undisturbed(u) \/ ~InPass(u)'
      BY <2>2 DEF FinishPass, Abort, EndPass, ForgetPass, ForgetPush, Leave, InPass, Undisturbed,
         EngineOK, PassOK, PushOK, table, client, server
    <3>2. UNCHANGED <<clearing, dropping>>
      BY <2>2 DEF FinishPass, Abort, client, ClientOK, Forward
    <3> QED BY <3>1, <3>2, ForwardRest DEF LiveRows
  <2>3. CASE ClearOne(t) \/ DropOne(t)
    BY <2>3 DEF ClearOne, DropOne, Forward
  <2> QED BY <1>1, <2>1, <2>2, <2>3, ForwardSnapshot, ForwardSend, ForwardPass DEF EngineStep
<1>2. ASSUME NEW t \in Tabs, Wake(t) PROVE Forward'
  <2>1. /\ UNCHANGED <<owner, state, latest, stray, clearing, dropping>>
        /\ \A u \in Tabs : Undisturbed(u) \/ ~InPass(u)'
    BY <1>2, KickEffect DEF Wake, InPass, Undisturbed, table, pass, push, client, server
  <2> QED BY <2>1, ForwardRest DEF LiveRows
<1>3. ASSUME NEW t \in Tabs, (\E answer : Refuse(t, answer)) \/ Logout(t) \/ RemoteShutdown(t)
      PROVE Forward'
  <2>1. /\ UNCHANGED <<owner, state, latest, stray, clearing, dropping>>
        /\ \A u \in Tabs : Undisturbed(u)
    BY <1>3 DEF Refuse, Logout, RemoteShutdown, Undisturbed, table, pass, push, engine, client, server
  <2> QED BY <2>1, ForwardRest DEF LiveRows
<1>4. CASE (\E i \in Ids : Elapse(i)) \/ GoOffline \/ GoOnline \/ UNCHANGED vars
  <2>1. /\ UNCHANGED <<owner, state, latest, stray, clearing, dropping>>
        /\ \A u \in Tabs : Undisturbed(u)
    BY <1>4 DEF Elapse, GoOffline, GoOnline, Undisturbed, vars, table, pass, push, engine, client, server
  <2> QED BY <2>1, ForwardRest DEF LiveRows
<1>5. CASE Wipe
  <2>1. /\ UNCHANGED <<owner, latest, stray, clearing, dropping>> /\ LiveRows' \subseteq LiveRows
        /\ \A u \in Tabs : Undisturbed(u)
    BY <1>5 DEF Wipe, Remove, LiveRows, Undisturbed, pass, push, engine, client, server
  <2> QED BY <2>1, ForwardRest
<1>6. ASSUME NEW t \in Tabs, (\E rs : Retry(t, rs)) \/ (\E i \in Ids : PickDiscards(t, i)) PROVE FALSE
  BY <1>6 DEF Retry, PickDiscards
<1> QED
  BY <1>1, <1>2, <1>3, <1>4, <1>5, <1>6, ForwardEnqueue, ForwardServer, ForwardCrash, ForwardStraggle
  DEF Next

\* Taps are only ever counted.
LEMMA TapsCount == TypeInv /\ [Next]_vars /\ taps' = 0 => taps = 0
<1> SUFFICES ASSUME TypeInv, [Next]_vars PROVE taps' = taps \/ taps' = taps + 1
  BY BoundsAssumption DEF TypeInv, TypeOK, BoundsOK
<1>1. ASSUME NEW t \in Tabs, EngineStep(t) PROVE taps' = taps
  BY <1>1 DEF EngineStep, Snapshot, SkipPass, BackOff, Send, FinishPass, Abort, Confirm, Requeue,
     DeadLetter, HoldRead, HoldOne, HoldDone, ClearOne, DropOne, bounds
<1> QED
  BY <1>1 DEF Next, Wake, Enqueue, Accept, ApplyFirst, TimeOut, Disconnect, GiveUp, Refuse, Retry,
     PickDiscards, Crash, Logout, RemoteShutdown, Straggle, Elapse, GoOffline, GoOnline, Wipe,
     vars, bounds

LEMMA UntappedStep == UntappedInv /\ [Next]_vars => UntappedInv'
BY OrderStep, ForwardStep, TapsCount DEF UntappedInv, OrderInv

\* Replay in order (syncService.ts:466-469, 1098-1110), for any number of tabs,
\* records, writes, crashes, lost requests and sign-outs: until the first retry
\* or discard no write is answered "ok" over a newer one of its record.
THEOREM OrderedUntilTapTheorem == Spec => OrderedUntilTap
<1>1. ASSUME UntappedInv, [Next]_vars
      PROVE  [taps = 0 => \A t \in Tabs :
                Awaiting(t) /\ wire'[t] = "ok" => latest[owner[cur[t]]] <= cur[t]]_vars
  BY <1>1 DEF UntappedInv, Forward, PushForward, NothingNewer, Awaiting
<1> QED BY <1>1, UntappedInit, UntappedStep, PTL DEF Spec, OrderedUntilTap
=============================================================================
