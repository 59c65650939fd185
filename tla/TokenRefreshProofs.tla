------------------------- MODULE TokenRefreshProofs -------------------------
(***************************************************************************)
(* Proofs about TokenRefresh, for any number of sync steps and failures.   *)
(***************************************************************************)
EXTENDS TokenRefresh, FiniteSetTheorems, TLAPS

LEMMA Names ==
  /\ Cron \notin Syncs /\ User \notin Syncs /\ Cron # User
  /\ Free \notin Jobs /\ User \notin Jobs /\ Cron \in Jobs
  /\ Syncs \subseteq Jobs /\ Jobs \subseteq Writers /\ User \in Writers
  /\ MaxFaults \in Nat /\ FailsOpen \in BOOLEAN
BY TokenAssumption DEF Jobs, Writers

-----------------------------------------------------------------------------
\* Type correctness.

LEMMA Typed0 == Init => TypeOK
<1> SUFFICES ASSUME Init PROVE TypeOK
  OBVIOUS
<1>1. /\ pc \in [Writers -> Section \cup {"idle", "acquire", "wait", "revoke"}]
      /\ pc[User] \in {"idle", "granted", "storeRefresh"}
  BY Names DEF Init
<1>2. /\ locked \in [Jobs -> BOOLEAN] /\ outlasted \in [Jobs -> BOOLEAN]
      /\ refused \in [Jobs -> BOOLEAN] /\ token \in [Writers -> Copies]
  BY DEF Init, Copies
<1>3. /\ stored \in Copies /\ lock \in Jobs \cup {Free}
      /\ status \in {"active", "error", "revoked", "disconnected"}
  BY DEF Init, Copies
<1>4. faults \in 0..MaxFaults
  BY Names DEF Init
<1>5. fresh \in BOOLEAN /\ excused \in BOOLEAN
  BY DEF Init
<1>6. mailed \in BOOLEAN /\ unlocked \in BOOLEAN /\ crowded \in BOOLEAN
  BY DEF Init
<1> QED
  BY <1>1, <1>2, <1>3, <1>4, <1>5, <1>6 DEF TypeOK

LEMMA TypedNext == TypeOK /\ [Next]_vars => TypeOK'
<1> SUFFICES ASSUME TypeOK, [Next]_vars PROVE TypeOK'
  OBVIOUS
<1> USE Names DEF TypeOK, Copies, Section
<1>1. ASSUME NEW j \in Jobs, NeedToken(j) PROVE TypeOK'
  BY <1>1 DEF NeedToken, Goto, conn, local, hist
<1>2. ASSUME Dispatch PROVE TypeOK'
  BY <1>2 DEF Dispatch, Goto, conn, local, hist
<1>3. ASSUME NEW j \in Jobs, Acquire(j) PROVE TypeOK'
  BY <1>3 DEF Acquire, Enter, Goto, conn
<1>4. ASSUME NEW j \in Jobs, LoseLock(j) PROVE TypeOK'
  BY <1>4 DEF LoseLock, Goto, conn, local, hist
<1>5. ASSUME NEW j \in Jobs, Poll(j) PROVE TypeOK'
  BY <1>5 DEF Poll, Goto, conn, hist
<1>6. ASSUME NEW j \in Jobs, GiveUpWaiting(j) PROVE TypeOK'
  BY <1>6 DEF GiveUpWaiting, Enter, Goto, conn
<1>7. ASSUME NEW j \in Jobs, ReadRefresh(j) PROVE TypeOK'
  BY <1>7 DEF ReadRefresh, Goto, conn, hist
<1>8. ASSUME NEW j \in Jobs, Exchange(j) PROVE TypeOK'
  BY <1>8 DEF Exchange, Grant, Dead, Goto, hist
<1>9. ASSUME NEW j \in Jobs, Reject(j) PROVE TypeOK'
  BY <1>9 DEF Reject, Goto, hist
<1>10. ASSUME NEW w \in Writers, StoreAccess(w) PROVE TypeOK'
  BY <1>10 DEF StoreAccess, Goto, local, hist
<1>11. ASSUME NEW w \in Writers, StoreRefresh(w) PROVE TypeOK'
  BY <1>11 DEF StoreRefresh, Goto, hist
<1>12. ASSUME NEW j \in Jobs, ReleaseLock(j) PROVE TypeOK'
  BY <1>12 DEF ReleaseLock, FreeLock, Leave, Goto, conn
<1>13. ASSUME Revoke PROVE TypeOK'
  BY <1>13 DEF Revoke, Goto, local
<1>14. ASSUME Lapse PROVE TypeOK'
  BY <1>14 DEF Lapse, FreeLock, conn, hist
<1>15. ASSUME Reconnect PROVE TypeOK'
  BY <1>15 DEF Reconnect, Grant, Dead, Goto
<1>16. ASSUME Disconnect PROVE TypeOK'
  BY <1>16 DEF Disconnect, Dead
<1>17. ASSUME Expire PROVE TypeOK'
  BY <1>17 DEF Expire, local, hist
<1>18. ASSUME NEW j \in Jobs, AcquireOpen(j) PROVE TypeOK'
  <2>1. faults' \in 0..MaxFaults
    BY <1>18 DEF AcquireOpen, Fault
  <2>2. crowded' \in BOOLEAN /\ excused' = excused
    BY <1>18 DEF AcquireOpen, Enter
  <2>3. /\ pc' = [pc EXCEPT ![j] = "read"]
        /\ locked' = [locked EXCEPT ![j] = TRUE]
        /\ outlasted' = [outlasted EXCEPT ![j] = FALSE]
        /\ unlocked' = TRUE /\ UNCHANGED <<conn, lock, token, refused>>
    BY <1>18 DEF AcquireOpen, Enter, Goto
  <2> QED
    BY <2>1, <2>2, <2>3 DEF conn
<1>19. ASSUME NEW j \in Jobs, PollFails(j) PROVE TypeOK'
  BY <1>19 DEF PollFails, Goto, Fault, conn, hist
<1>20. ASSUME NEW j \in Jobs, ExchangeKeeps(j) PROVE TypeOK'
  BY <1>20 DEF ExchangeKeeps, Goto, Fault, conn, hist
<1>21. ASSUME NEW j \in Jobs, ExchangeFails(j) PROVE TypeOK'
  BY <1>21 DEF ExchangeFails, Goto, Fault, conn, hist
<1>22. ASSUME NEW j \in Jobs, Killed(j) PROVE TypeOK'
  BY <1>22 DEF Killed, Leave, Goto, Fault, conn
<1>23. ASSUME NEW w \in Writers, LoseToken(w) PROVE TypeOK'
  BY <1>23 DEF LoseToken, Goto, Fault, conn
<1>24. ASSUME UNCHANGED vars PROVE TypeOK'
  BY <1>24 DEF vars, conn, local, hist
<1> QED
  BY <1>1, <1>2, <1>3, <1>4, <1>5, <1>6, <1>7, <1>8, <1>9, <1>10, <1>11,
     <1>12, <1>13, <1>14, <1>15, <1>16, <1>17, <1>18, <1>19, <1>20, <1>21,
     <1>22, <1>23, <1>24
  DEF Next, Begin, Refresh, Connect, Failure, Writers

\* Every reachable state is typed.
THEOREM TokenTypeCorrect == Spec => []TypeOK
<1> QED
  BY Typed0, TypedNext, PTL DEF Spec

-----------------------------------------------------------------------------
\* Holders.  Only a job in the section is a holder.  While no job goes on without
\* the key, whoever is in the section set the key that is there.
Holders ==
  /\ \A j \in Jobs : locked[j] => pc[j] \in Section
  /\ ~unlocked => \A j \in Jobs : pc[j] \in Section => locked[j] /\ lock = j

LEMMA HoldersNext == TypeOK /\ Holders /\ [Next]_vars => Holders'
<1> SUFFICES ASSUME TypeOK, Holders, [Next]_vars PROVE Holders'
  OBVIOUS
<1> USE Names DEF TypeOK, Holders, Section, InSection
<1>1. ASSUME NEW j \in Jobs, NeedToken(j) PROVE Holders'
  BY <1>1 DEF NeedToken, Goto, conn, local, hist
<1>2. ASSUME Dispatch PROVE Holders'
  BY <1>2 DEF Dispatch, Goto, conn, local, hist
<1>3. ASSUME NEW j \in Jobs, Acquire(j) PROVE Holders'
  BY <1>3 DEF Acquire, Enter, Goto, conn
<1>4. ASSUME NEW j \in Jobs, LoseLock(j) PROVE Holders'
  BY <1>4 DEF LoseLock, Goto, conn, local, hist
<1>5. ASSUME NEW j \in Jobs, Poll(j) PROVE Holders'
  BY <1>5 DEF Poll, Goto, conn, hist
<1>6. ASSUME NEW j \in Jobs, GiveUpWaiting(j) PROVE Holders'
  BY <1>6 DEF GiveUpWaiting, Enter, Goto, conn
<1>7. ASSUME NEW j \in Jobs, ReadRefresh(j) PROVE Holders'
  BY <1>7 DEF ReadRefresh, Goto, conn, hist
<1>8. ASSUME NEW j \in Jobs, Exchange(j) PROVE Holders'
  BY <1>8 DEF Exchange, Grant, Dead, Goto, hist
<1>9. ASSUME NEW j \in Jobs, Reject(j) PROVE Holders'
  BY <1>9 DEF Reject, Goto, hist
<1>10. ASSUME NEW w \in Writers, StoreAccess(w) PROVE Holders'
  BY <1>10 DEF StoreAccess, Goto, local, hist
<1>11. ASSUME NEW w \in Writers, StoreRefresh(w) PROVE Holders'
  BY <1>11 DEF StoreRefresh, Goto, hist
<1>12. ASSUME NEW j \in Jobs, ReleaseLock(j) PROVE Holders'
  BY <1>12 DEF ReleaseLock, FreeLock, Leave, Goto, conn
<1>13. ASSUME Revoke PROVE Holders'
  BY <1>13 DEF Revoke, Goto, local
<1>14. ASSUME Lapse PROVE Holders'
  BY <1>14 DEF Lapse, FreeLock, conn, hist
<1>15. ASSUME Reconnect PROVE Holders'
  BY <1>15 DEF Reconnect, Grant, Dead, Goto
<1>16. ASSUME Disconnect PROVE Holders'
  BY <1>16 DEF Disconnect, Dead
<1>17. ASSUME Expire PROVE Holders'
  BY <1>17 DEF Expire, local, hist
<1>18. ASSUME NEW j \in Jobs, AcquireOpen(j) PROVE Holders'
  BY <1>18 DEF AcquireOpen, Enter, Goto, Fault, conn
<1>19. ASSUME NEW j \in Jobs, PollFails(j) PROVE Holders'
  BY <1>19 DEF PollFails, Goto, Fault, conn, hist
<1>20. ASSUME NEW j \in Jobs, ExchangeKeeps(j) PROVE Holders'
  BY <1>20 DEF ExchangeKeeps, Goto, Fault, conn, hist
<1>21. ASSUME NEW j \in Jobs, ExchangeFails(j) PROVE Holders'
  BY <1>21 DEF ExchangeFails, Goto, Fault, conn, hist
<1>22. ASSUME NEW j \in Jobs, Killed(j) PROVE Holders'
  BY <1>22 DEF Killed, Leave, Goto, Fault, conn
<1>23. ASSUME NEW w \in Writers, LoseToken(w) PROVE Holders'
  BY <1>23 DEF LoseToken, Goto, Fault, conn
<1>24. ASSUME UNCHANGED vars PROVE Holders'
  BY <1>24 DEF vars, conn, local, hist
<1> QED
  BY <1>1, <1>2, <1>3, <1>4, <1>5, <1>6, <1>7, <1>8, <1>9, <1>10, <1>11,
     <1>12, <1>13, <1>14, <1>15, <1>16, <1>17, <1>18, <1>19, <1>20, <1>21,
     <1>22, <1>23, <1>24
  DEF Next, Begin, Refresh, Connect, Failure, Writers

\* However many jobs refresh, wait and are killed, two of them are in the section
\* at once only while one that went on without the key is, or was there since
\* the section was last empty (refreshHostexTokenLocked).
THEOREM OneRefreshAtATimeTheorem == Spec => []OneRefreshAtATime
<1>1. Init => Holders
  BY Names DEF Init, Holders, Section
<1>2. Holders => OneRefreshAtATime
  <2> SUFFICES ASSUME Holders, ~unlocked
               PROVE  Cardinality(InSection \cap Jobs) <= 1
    BY DEF OneRefreshAtATime
  <2> DEFINE L == InSection \cap Jobs
  <2>1. \A j, k \in L : j = k
    BY DEF Holders, InSection
  <2>2. CASE L = {}
    BY <2>2, FS_EmptySet
  <2>3. CASE L # {}
    <3>1. PICK j \in L : TRUE
      BY <2>3
    <3>2. L = {j}
      BY <2>1, <3>1
    <3> QED
      BY <3>2, FS_Singleton
  <2> QED
    BY <2>2, <2>3
<1> QED
  BY <1>1, <1>2, TokenTypeCorrect, HoldersNext, PTL DEF Spec

-----------------------------------------------------------------------------
\* The one live copy.  A token granted and not yet stored is the only live one;
\* otherwise the live one is in Vault, or the connection is disconnected and
\* nothing is running for it.
Storing(w) == pc[w] \in {"granted", "storeRefresh"}

OnlyCopy == \A w \in Writers : Storing(w) =>
  /\ token[w] = "live" /\ stored # "live"
  /\ \A v \in Writers \ {w} : token[v] # "live"

Somewhere ==
  \/ stored = "live"
  \/ \E w \in Writers : Storing(w)
  \/ status = "disconnected" /\ \A j \in Jobs : pc[j] = "idle"

LiveCopy == ~excused => OnlyCopy /\ Somewhere

LEMMA LiveCopyNext == TypeOK /\ LiveCopy /\ [Next]_vars => LiveCopy'
<1> SUFFICES ASSUME TypeOK, LiveCopy, [Next]_vars PROVE LiveCopy'
  OBVIOUS
<1> USE Names DEF TypeOK, LiveCopy, OnlyCopy, Somewhere, Storing, Copies,
    Section
<1>1. ASSUME NEW j \in Jobs, NeedToken(j) PROVE LiveCopy'
  BY <1>1 DEF NeedToken, Goto, conn, local, hist, Syncable
<1>2. ASSUME Dispatch PROVE LiveCopy'
  BY <1>2 DEF Dispatch, Goto, conn, local, hist, Syncable
<1>3. ASSUME NEW j \in Jobs, Acquire(j) PROVE LiveCopy'
  BY <1>3 DEF Acquire, Enter, Goto, conn
<1>4. ASSUME NEW j \in Jobs, LoseLock(j) PROVE LiveCopy'
  BY <1>4 DEF LoseLock, Goto, conn, local, hist
<1>5. ASSUME NEW j \in Jobs, Poll(j) PROVE LiveCopy'
  BY <1>5 DEF Poll, Goto, conn, hist
<1>6. ASSUME NEW j \in Jobs, GiveUpWaiting(j) PROVE LiveCopy'
  BY <1>6 DEF GiveUpWaiting, Enter, Goto, conn
<1>7. ASSUME NEW j \in Jobs, ReadRefresh(j) PROVE LiveCopy'
  BY <1>7 DEF ReadRefresh, Goto, conn, hist
<1>8. ASSUME NEW j \in Jobs, Exchange(j) PROVE LiveCopy'
  BY <1>8 DEF Exchange, Grant, Dead, Goto, hist
<1>9. ASSUME NEW j \in Jobs, Reject(j) PROVE LiveCopy'
  BY <1>9 DEF Reject, Goto, hist
<1>10. ASSUME NEW w \in Writers, StoreAccess(w) PROVE LiveCopy'
  <2>1. CASE pc[w] = "kept"
    <3>1. w \in Jobs
      BY <2>1 DEF Writers
    <3> QED
      BY <1>10, <2>1, <3>1 DEF StoreAccess, Goto, local, hist
  <2>2. CASE pc[w] = "granted"
    BY <1>10, <2>2 DEF StoreAccess, Goto, local, hist
  <2> QED
    BY <1>10, <2>1, <2>2 DEF StoreAccess
<1>11. ASSUME NEW w \in Writers, StoreRefresh(w) PROVE LiveCopy'
  BY <1>11 DEF StoreRefresh, Goto, hist
<1>12. ASSUME NEW j \in Jobs, ReleaseLock(j) PROVE LiveCopy'
  BY <1>12 DEF ReleaseLock, FreeLock, Leave, Goto, conn
<1>13. ASSUME Revoke PROVE LiveCopy'
  BY <1>13 DEF Revoke, Goto, local
<1>14. ASSUME Lapse PROVE LiveCopy'
  BY <1>14 DEF Lapse, FreeLock, conn, hist
<1>15. ASSUME Reconnect PROVE LiveCopy'
  BY <1>15 DEF Reconnect, Grant, Dead, Goto, InSection
<1>16. ASSUME Disconnect PROVE LiveCopy'
  BY <1>16 DEF Disconnect, Dead, InSection
<1>17. ASSUME Expire PROVE LiveCopy'
  BY <1>17 DEF Expire, local, hist
<1>18. ASSUME NEW j \in Jobs, AcquireOpen(j) PROVE LiveCopy'
  BY <1>18 DEF AcquireOpen, Enter, Goto, Fault, conn
<1>19. ASSUME NEW j \in Jobs, PollFails(j) PROVE LiveCopy'
  BY <1>19 DEF PollFails, Goto, Fault, conn, hist
<1>20. ASSUME NEW j \in Jobs, ExchangeKeeps(j) PROVE LiveCopy'
  BY <1>20 DEF ExchangeKeeps, Goto, Fault, conn, hist
<1>21. ASSUME NEW j \in Jobs, ExchangeFails(j) PROVE LiveCopy'
  BY <1>21 DEF ExchangeFails, Goto, Fault, conn, hist
<1>22. ASSUME NEW j \in Jobs, Killed(j) PROVE LiveCopy'
  BY <1>22 DEF Killed, Leave, Goto, Fault, conn
<1>23. ASSUME NEW w \in Writers, LoseToken(w) PROVE LiveCopy'
  BY <1>23 DEF LoseToken, Goto, Fault, conn
<1>24. ASSUME UNCHANGED vars PROVE LiveCopy'
  BY <1>24 DEF vars, conn, local, hist
<1> QED
  BY <1>1, <1>2, <1>3, <1>4, <1>5, <1>6, <1>7, <1>8, <1>9, <1>10, <1>11,
     <1>12, <1>13, <1>14, <1>15, <1>16, <1>17, <1>18, <1>19, <1>20, <1>21,
     <1>22, <1>23, <1>24
  DEF Next, Begin, Refresh, Connect, Failure, Writers

\* Rotation and the two writes of a refresh keep the live token, with or
\* without the lock and however many jobs refresh at once
\* (refreshHostexToken, finalizeIntegrationConnection).
THEOREM HoldsLiveTokenTheorem == Spec => []HoldsLiveToken
<1>1. Init => LiveCopy
  BY DEF Init, LiveCopy, OnlyCopy, Somewhere, Storing
<1>2. LiveCopy => HoldsLiveToken
  BY DEF LiveCopy, Somewhere, Storing, HoldsLiveToken, Syncable, InSection,
     Section
<1> QED
  BY <1>1, <1>2, TokenTypeCorrect, LiveCopyNext, PTL DEF Spec

-----------------------------------------------------------------------------
\* Revocations.  A refresh of the cron that runs alone finds the live token and
\* is not refused.
Alone == ~excused /\ ~crowded /\ pc[Cron] \in Section
           => \A w \in Writers \ {Cron} : pc[w] \notin Section

Accepted ==
  /\ refused[Cron] => pc[Cron] \in Section
  /\ ~excused /\ ~crowded =>
       /\ pc[Cron] = "exchange" => token[Cron] = "live"
       /\ ~refused[Cron] /\ pc[Cron] # "revoke"

LEMMA AloneNext == TypeOK /\ Alone /\ [Next]_vars => Alone'
<1> SUFFICES ASSUME TypeOK, Alone, [Next]_vars PROVE Alone'
  OBVIOUS
<1> USE Names DEF TypeOK, Alone, Section, InSection
<1>1. ASSUME NEW j \in Jobs, NeedToken(j) PROVE Alone'
  BY <1>1 DEF NeedToken, Goto, conn, local, hist
<1>2. ASSUME Dispatch PROVE Alone'
  BY <1>2 DEF Dispatch, Goto, conn, local, hist
<1>3. ASSUME NEW j \in Jobs, Acquire(j) PROVE Alone'
  BY <1>3 DEF Acquire, Enter, Goto, conn
<1>4. ASSUME NEW j \in Jobs, LoseLock(j) PROVE Alone'
  BY <1>4 DEF LoseLock, Goto, conn, local, hist
<1>5. ASSUME NEW j \in Jobs, Poll(j) PROVE Alone'
  BY <1>5 DEF Poll, Goto, conn, hist
<1>6. ASSUME NEW j \in Jobs, GiveUpWaiting(j) PROVE Alone'
  BY <1>6 DEF GiveUpWaiting, Enter, Goto, conn
<1>7. ASSUME NEW j \in Jobs, ReadRefresh(j) PROVE Alone'
  BY <1>7 DEF ReadRefresh, Goto, conn, hist
<1>8. ASSUME NEW j \in Jobs, Exchange(j) PROVE Alone'
  BY <1>8 DEF Exchange, Grant, Dead, Goto, hist
<1>9. ASSUME NEW j \in Jobs, Reject(j) PROVE Alone'
  BY <1>9 DEF Reject, Goto, hist
<1>10. ASSUME NEW w \in Writers, StoreAccess(w) PROVE Alone'
  BY <1>10 DEF StoreAccess, Goto, local, hist
<1>11. ASSUME NEW w \in Writers, StoreRefresh(w) PROVE Alone'
  BY <1>11 DEF StoreRefresh, Goto, hist
<1>12. ASSUME NEW j \in Jobs, ReleaseLock(j) PROVE Alone'
  BY <1>12 DEF ReleaseLock, FreeLock, Leave, Goto, conn
<1>13. ASSUME Revoke PROVE Alone'
  BY <1>13 DEF Revoke, Goto, local
<1>14. ASSUME Lapse PROVE Alone'
  BY <1>14 DEF Lapse, FreeLock, conn, hist
<1>15. ASSUME Reconnect PROVE Alone'
  BY <1>15 DEF Reconnect, Grant, Dead, Goto
<1>16. ASSUME Disconnect PROVE Alone'
  BY <1>16 DEF Disconnect, Dead
<1>17. ASSUME Expire PROVE Alone'
  BY <1>17 DEF Expire, local, hist
<1>18. ASSUME NEW j \in Jobs, AcquireOpen(j) PROVE Alone'
  BY <1>18 DEF AcquireOpen, Enter, Goto, Fault, conn
<1>19. ASSUME NEW j \in Jobs, PollFails(j) PROVE Alone'
  BY <1>19 DEF PollFails, Goto, Fault, conn, hist
<1>20. ASSUME NEW j \in Jobs, ExchangeKeeps(j) PROVE Alone'
  BY <1>20 DEF ExchangeKeeps, Goto, Fault, conn, hist
<1>21. ASSUME NEW j \in Jobs, ExchangeFails(j) PROVE Alone'
  BY <1>21 DEF ExchangeFails, Goto, Fault, conn, hist
<1>22. ASSUME NEW j \in Jobs, Killed(j) PROVE Alone'
  BY <1>22 DEF Killed, Leave, Goto, Fault, conn
<1>23. ASSUME NEW w \in Writers, LoseToken(w) PROVE Alone'
  BY <1>23 DEF LoseToken, Goto, Fault, conn
<1>24. ASSUME UNCHANGED vars PROVE Alone'
  BY <1>24 DEF vars, conn, local, hist
<1> QED
  BY <1>1, <1>2, <1>3, <1>4, <1>5, <1>6, <1>7, <1>8, <1>9, <1>10, <1>11,
     <1>12, <1>13, <1>14, <1>15, <1>16, <1>17, <1>18, <1>19, <1>20, <1>21,
     <1>22, <1>23, <1>24
  DEF Next, Begin, Refresh, Connect, Failure, Writers

LEMMA AcceptedNext ==
  TypeOK /\ LiveCopy /\ Alone /\ Accepted /\ [Next]_vars => Accepted'
<1> SUFFICES ASSUME TypeOK, LiveCopy, Alone, Accepted, [Next]_vars
             PROVE  Accepted'
  OBVIOUS
<1>0. /\ TypeOK /\ Accepted /\ Alone
      /\ pc[Cron] = "read" /\ ~excused /\ ~crowded => stored = "live"
  BY Names DEF TypeOK, LiveCopy, Somewhere, Storing, Alone, Section
<1> USE Names DEF TypeOK, Accepted, Section, InSection
<1>1. ASSUME NEW j \in Jobs, NeedToken(j) PROVE Accepted'
  BY <1>1 DEF NeedToken, Goto, conn, local, hist
<1>2. ASSUME Dispatch PROVE Accepted'
  BY <1>2 DEF Dispatch, Goto, conn, local, hist
<1>3. ASSUME NEW j \in Jobs, Acquire(j) PROVE Accepted'
  BY <1>3 DEF Acquire, Enter, Goto, conn
<1>4. ASSUME NEW j \in Jobs, LoseLock(j) PROVE Accepted'
  BY <1>4 DEF LoseLock, Goto, conn, local, hist
<1>5. ASSUME NEW j \in Jobs, Poll(j) PROVE Accepted'
  BY <1>5 DEF Poll, Goto, conn, hist
<1>6. ASSUME NEW j \in Jobs, GiveUpWaiting(j) PROVE Accepted'
  BY <1>6 DEF GiveUpWaiting, Enter, Goto, conn
<1>7. ASSUME NEW j \in Jobs, ReadRefresh(j) PROVE Accepted'
  BY <1>0, <1>7 DEF ReadRefresh, Goto, conn, hist
<1>8. ASSUME NEW j \in Jobs, Exchange(j) PROVE Accepted'
  BY <1>8 DEF Exchange, Grant, Dead, Goto, hist, Alone
<1>9. ASSUME NEW j \in Jobs, Reject(j) PROVE Accepted'
  BY <1>9 DEF Reject, Goto, hist
<1>10. ASSUME NEW w \in Writers, StoreAccess(w) PROVE Accepted'
  BY <1>10 DEF StoreAccess, Goto, local, hist
<1>11. ASSUME NEW w \in Writers, StoreRefresh(w) PROVE Accepted'
  BY <1>11 DEF StoreRefresh, Goto, hist
<1>12. ASSUME NEW j \in Jobs, ReleaseLock(j) PROVE Accepted'
  BY <1>12 DEF ReleaseLock, FreeLock, Leave, Goto, conn
<1>13. ASSUME Revoke PROVE Accepted'
  BY <1>13 DEF Revoke, Goto, local
<1>14. ASSUME Lapse PROVE Accepted'
  BY <1>14 DEF Lapse, FreeLock, conn, hist
<1>15. ASSUME Reconnect PROVE Accepted'
  BY <1>15 DEF Reconnect, Grant, Dead, Goto
<1>16. ASSUME Disconnect PROVE Accepted'
  BY <1>16 DEF Disconnect, Dead
<1>17. ASSUME Expire PROVE Accepted'
  BY <1>17 DEF Expire, local, hist
<1>18. ASSUME NEW j \in Jobs, AcquireOpen(j) PROVE Accepted'
  BY <1>18 DEF AcquireOpen, Enter, Goto, Fault, conn
<1>19. ASSUME NEW j \in Jobs, PollFails(j) PROVE Accepted'
  BY <1>19 DEF PollFails, Goto, Fault, conn, hist
<1>20. ASSUME NEW j \in Jobs, ExchangeKeeps(j) PROVE Accepted'
  BY <1>20 DEF ExchangeKeeps, Goto, Fault, conn, hist
<1>21. ASSUME NEW j \in Jobs, ExchangeFails(j) PROVE Accepted'
  BY <1>21 DEF ExchangeFails, Goto, Fault, conn, hist
<1>22. ASSUME NEW j \in Jobs, Killed(j) PROVE Accepted'
  BY <1>22 DEF Killed, Leave, Goto, Fault, conn
<1>23. ASSUME NEW w \in Writers, LoseToken(w) PROVE Accepted'
  BY <1>23 DEF LoseToken, Goto, Fault, conn
<1>24. ASSUME UNCHANGED vars PROVE Accepted'
  BY <1>24 DEF vars, conn, local, hist
<1> QED
  BY <1>1, <1>2, <1>3, <1>4, <1>5, <1>6, <1>7, <1>8, <1>9, <1>10, <1>11,
     <1>12, <1>13, <1>14, <1>15, <1>16, <1>17, <1>18, <1>19, <1>20, <1>21,
     <1>22, <1>23, <1>24
  DEF Next, Begin, Refresh, Connect, Failure, Writers

\* Nothing but an overlap of refreshes, a lost token or the user makes the handler
\* revoke a connection, for any number of jobs and failures: no outage, kill or
\* lapsed lock does, nor a refresh that was over when the cron's began.
THEOREM RevokedForAReasonTheorem == Spec => RevokedForAReason
<1> DEFINE Deserved ==
      status # "revoked" /\ status' = "revoked" => crowded \/ excused
<1>1. Init => LiveCopy /\ Alone /\ Accepted
  BY Names DEF Init, LiveCopy, OnlyCopy, Somewhere, Storing, Alone, Accepted,
     Section
<1>2. TypeOK /\ Accepted /\ [Next]_vars => [Deserved]_vars
  <2> SUFFICES ASSUME TypeOK, Accepted, [Next]_vars,
                      status # "revoked", status' = "revoked"
               PROVE  crowded \/ excused
    OBVIOUS
  <2>1. Revoke
    BY DEF Next, Begin, Refresh, Connect, Failure, vars, conn,
       NeedToken, Dispatch, Acquire, LoseLock, Poll, GiveUpWaiting,
       ReadRefresh, Exchange, Reject, StoreAccess, StoreRefresh, ReleaseLock,
       Lapse, Reconnect, Disconnect, Expire, AcquireOpen, PollFails,
       ExchangeKeeps, ExchangeFails, Killed, LoseToken
  <2> QED
    BY <2>1 DEF Revoke, Accepted, TypeOK
<1>3. Spec => []Accepted
  BY <1>1, TokenTypeCorrect, LiveCopyNext, AloneNext, AcceptedNext, PTL
  DEF Spec
<1> QED
  BY <1>2, <1>3, TokenTypeCorrect, PTL DEF Spec, RevokedForAReason
=============================================================================
