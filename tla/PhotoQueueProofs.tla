-------------------------- MODULE PhotoQueueProofs --------------------------
(***************************************************************************)
(* Proofs about PhotoQueue, for any number of photos, targets and tabs,    *)
(* with or without Web Locks.                                              *)
(***************************************************************************)
EXTENDS PhotoQueue, TLAPS

States == {"none", "saving", "lost", "ready", "waiting", "failed", "gone"}

\* Rows that were added once: they can only leave.
Known == {p \in Photos : row[p] \in {"ready", "waiting", "failed", "gone"}}

Working == {"upload", "apply", "discard", "collect"}

LEMMA Constants ==
  /\ N \in Nat \ {0} /\ MaxFaults \in Nat /\ None \notin Photos
  /\ \A p \in Photos : Target[p] \in Targets
BY PhotoAssumption DEF Photos, Targets, None

-----------------------------------------------------------------------------
\* Type correctness, and that a drain works on rows that were added.
Typed ==
  /\ TypeOK
  /\ \A t \in Tabs : todo[t] \subseteq Known
  /\ \A t \in Tabs : tab[t] \in Working => cur[t] \in Known

LEMMA TypedInit == Init => Typed
BY Constants DEF Init, Typed, TypeOK, Working

LEMMA TypedNext == Typed /\ [Next]_vars => Typed'
<1> SUFFICES ASSUME Typed, [Next]_vars PROVE Typed'
  OBVIOUS
<1> USE Constants DEF Typed, TypeOK, Known, Working
<1>1. ASSUME NEW p \in Photos, SaveBlob(p) PROVE Typed'
  BY <1>1 DEF SaveBlob, drain, cleanup, prune, history
<1>2. ASSUME NEW p \in Photos, AddRow(p) PROVE Typed'
  BY <1>2 DEF AddRow, drain, cleanup, prune, history
<1>3. ASSUME NEW p \in Photos, LoseRow(p) PROVE Typed'
  BY <1>3 DEF LoseRow, drain, cleanup, prune, history, Fault
<1>4. ASSUME NEW p \in Photos, BackoffEnds(p) PROVE Typed'
  BY <1>4 DEF BackoffEnds, drain, cleanup, prune, history
<1>5. ASSUME NEW p \in Photos, Retry(p) PROVE Typed'
  BY <1>5 DEF Retry, drain, cleanup, prune, history
<1>6. ASSUME NEW p \in Photos, ReadExpired(p) PROVE Typed'
  BY <1>6 DEF ReadExpired, device, drain, history
<1>7. ASSUME NEW t \in Tabs, Begin(t) PROVE Typed'
  BY <1>7 DEF Begin, Goto, device, cleanup, prune, history
<1>8. ASSUME NEW t \in Tabs, NEW p \in Photos, Take(t, p) PROVE Typed'
  BY <1>8 DEF Take, Oldest, Goto, device, cleanup, prune, history
<1>9. ASSUME NEW t \in Tabs, NEW p \in Photos, MissBlob(t, p) PROVE Typed'
  BY <1>9 DEF MissBlob, Oldest, Update, Live, cleanup, prune, history
<1>10. ASSUME NEW t \in Tabs, Upload(t) PROVE Typed'
  BY <1>10 DEF Upload, Goto, device, cleanup, prune, history
<1>11. ASSUME NEW t \in Tabs, ApplyPath(t) PROVE Typed'
  BY <1>11 DEF ApplyPath, Goto, cleanup, prune
<1>12. ASSUME NEW t \in Tabs, DeleteRow(t) PROVE Typed'
  BY <1>12 DEF DeleteRow, Update, Live, Goto, cleanup, prune, history
<1>13. ASSUME NEW t \in Tabs, DeleteBlob(t) PROVE Typed'
  BY <1>13 DEF DeleteBlob, AtCur, Done, Clear, Goto, cleanup, prune, history
<1>14. ASSUME NEW t \in Tabs, Finish(t) PROVE Typed'
  BY <1>14 DEF Finish, Goto, device, cleanup, prune, history
<1>15. ASSUME NEW t \in Tabs, KeepBlob(t) PROVE Typed'
  BY <1>15 DEF KeepBlob, AtCur, Done, Clear, Goto, Fault, device, cleanup, prune, history
<1>16. ASSUME NEW t \in Tabs, Unreachable(t) PROVE Typed'
  BY <1>16 DEF Unreachable, BackOff, AtCur, Done, Clear, Goto, Fault, cleanup, prune, history
<1>17. ASSUME NEW t \in Tabs, Rejected(t) PROVE Typed'
  BY <1>17 DEF Rejected, BackOff, AtCur, Done, Clear, Goto, Fault, Update, Live, cleanup, prune, history
<1>18. ASSUME NEW t \in Tabs, Stop(t) PROVE Typed'
  BY <1>18 DEF Stop, Clear, Goto, Fault, device, cleanup, prune, history
<1>19. ASSUME DeleteExpired PROVE Typed'
  BY <1>19 DEF DeleteExpired, Live, drain
<1>20. ASSUME FindOrphans PROVE Typed'
  BY <1>20 DEF FindOrphans, Live, device, drain, prune
<1>21. ASSUME Collect PROVE Typed'
  BY <1>21 DEF Collect, CollectKeys, drain, prune, history
<1>22. ASSUME UNCHANGED vars PROVE Typed'
  BY <1>22 DEF vars, device, drain, cleanup, prune, history
<1>23. ASSUME NEW t \in Tabs, Hang(t) PROVE Typed'
  BY <1>23 DEF Hang, Goto, Fault, device, cleanup, prune, history
<1>24. ASSUME DeleteExpiredBlob PROVE Typed'
  BY <1>24 DEF DeleteExpiredBlob, drain, history
<1>25. ASSUME KeepExpiredBlob PROVE Typed'
  BY <1>25 DEF KeepExpiredBlob, Fault, device, drain, history
<1>26. ASSUME CollectPart PROVE Typed'
  BY <1>26 DEF CollectPart, CollectKeys, Fault, drain, prune, history
<1> QED
  BY <1>1, <1>2, <1>3, <1>4, <1>5, <1>6, <1>7, <1>8, <1>9, <1>10, <1>11, <1>12,
     <1>13, <1>14, <1>15, <1>16, <1>17, <1>18, <1>19, <1>20, <1>21, <1>22,
     <1>23, <1>24, <1>25, <1>26
  DEF Next, Drain, Sweep

\* Every state reached is well typed.
THEOREM PhotoTypeCorrect == Spec => []TypeOK
<1>1. Typed => TypeOK
  BY DEF Typed
<1> QED
  BY <1>1, TypedInit, TypedNext, PTL DEF Spec

-----------------------------------------------------------------------------
\* Why the bytes outlast the row: a saved blob has a row or is being queued, a
\* drain deletes bytes only after the row is gone, prune deletes bytes after
\* their row, and what the sweep will collect can never be queued again, or two
\* sweeps have run between its two writes.
Kept ==
  /\ EvidenceIsKept
  /\ \A p \in Photos \ slow : row[p] = "saving" => p \in blobs
  /\ \A p \in blobs : row[p] # "none"

Drained ==
  /\ \A t \in Tabs : tab[t] = "discard" => cur[t] \in pointed
  /\ \A t \in Tabs : tab[t] = "collect" => row[cur[t]] = "gone"
  /\ stale \subseteq Known
  /\ \A p \in doomed : row[p] = "gone"

Swept ==
  sweep = "found" =>
    \A p \in (keys \cap candidates) \ slow : row[p] \in {"lost", "gone"}

EvidenceInv == Typed /\ Kept /\ Drained /\ Swept

LEMMA EvidenceInit == Init => EvidenceInv
BY TypedInit DEF Init, EvidenceInv, Kept, Drained, Swept, EvidenceIsKept, Live

LEMMA EvidenceNext ==
  ASSUME EvidenceInv, [Next]_vars
  PROVE  EvidenceInv'
<1> USE Constants DEF Typed, TypeOK, Known, Working, EvidenceInv, Kept, Drained,
      Swept, EvidenceIsKept, Live
<1> DEFINE Rest == Kept' /\ Drained' /\ Swept'
<1>0. Typed'
  BY TypedNext
<1>1. ASSUME NEW p \in Photos, SaveBlob(p) PROVE Rest
  BY <1>1 DEF SaveBlob, drain, cleanup, prune, history
<1>2. ASSUME NEW p \in Photos, AddRow(p) PROVE Rest
  BY <1>2 DEF AddRow, drain, cleanup, prune, history
<1>3. ASSUME NEW p \in Photos, LoseRow(p) PROVE Rest
  BY <1>3 DEF LoseRow, drain, cleanup, prune, history
<1>4. ASSUME NEW p \in Photos, BackoffEnds(p) PROVE Rest
  BY <1>4 DEF BackoffEnds, drain, cleanup, prune, history
<1>5. ASSUME NEW p \in Photos, Retry(p) PROVE Rest
  BY <1>5 DEF Retry, drain, cleanup, prune, history
<1>6. ASSUME NEW p \in Photos, ReadExpired(p) PROVE Rest
  BY <1>6 DEF ReadExpired, device, drain, history
<1>7. ASSUME NEW t \in Tabs, Begin(t) PROVE Rest
  BY <1>7 DEF Begin, Goto, device, cleanup, prune, history
<1>8. ASSUME NEW t \in Tabs, NEW p \in Photos, Take(t, p) PROVE Rest
  BY <1>8 DEF Take, Oldest, Goto, device, cleanup, prune, history
<1>9. ASSUME NEW t \in Tabs, NEW p \in Photos, MissBlob(t, p) PROVE Rest
  BY <1>9 DEF MissBlob, Oldest, Update, cleanup, prune, history
<1>10. ASSUME NEW t \in Tabs, Upload(t) PROVE Rest
  BY <1>10 DEF Upload, Goto, device, cleanup, prune, history
<1>11. ASSUME NEW t \in Tabs, ApplyPath(t) PROVE Rest
  BY <1>11 DEF ApplyPath, Goto, cleanup, prune
<1>12. ASSUME NEW t \in Tabs, DeleteRow(t) PROVE Rest
  BY <1>12 DEF DeleteRow, Update, Goto, cleanup, prune, history
<1>13. ASSUME NEW t \in Tabs, DeleteBlob(t) PROVE Rest
  BY <1>13 DEF DeleteBlob, AtCur, Done, Clear, Goto, cleanup, prune, history
<1>14. ASSUME NEW t \in Tabs, Finish(t) PROVE Rest
  BY <1>14 DEF Finish, Goto, device, cleanup, prune, history
<1>15. ASSUME NEW t \in Tabs, KeepBlob(t) PROVE Rest
  BY <1>15 DEF KeepBlob, AtCur, Done, Clear, Goto, device, cleanup, prune, history
<1>16. ASSUME NEW t \in Tabs, Unreachable(t) PROVE Rest
  BY <1>16 DEF Unreachable, BackOff, AtCur, Done, Clear, Goto, cleanup, prune, history
<1>17. ASSUME NEW t \in Tabs, Rejected(t) PROVE Rest
  BY <1>17 DEF Rejected, BackOff, AtCur, Done, Clear, Goto, Update, cleanup, prune, history
<1>18. ASSUME NEW t \in Tabs, Stop(t) PROVE Rest
  BY <1>18 DEF Stop, Clear, Goto, device, cleanup, prune, history
<1>19. ASSUME DeleteExpired PROVE Rest
  BY <1>19 DEF DeleteExpired, drain
<1>20. ASSUME FindOrphans PROVE Rest
  BY <1>20 DEF FindOrphans, device, drain, prune
<1>21. ASSUME Collect PROVE Rest
  BY <1>21 DEF Collect, CollectKeys, drain, prune, history
<1>22. ASSUME UNCHANGED vars PROVE Rest
  BY <1>22 DEF vars, device, drain, cleanup, prune, history
<1>23. ASSUME NEW t \in Tabs, Hang(t) PROVE Rest
  BY <1>23 DEF Hang, Goto, device, cleanup, prune, history
<1>24. ASSUME DeleteExpiredBlob PROVE Rest
  BY <1>24 DEF DeleteExpiredBlob, drain, history
<1>25. ASSUME KeepExpiredBlob PROVE Rest
  BY <1>25 DEF KeepExpiredBlob, device, drain, history
<1>26. ASSUME CollectPart PROVE Rest
  BY <1>26 DEF CollectPart, CollectKeys, drain, prune, history
<1> QED
  BY <1>0, <1>1, <1>2, <1>3, <1>4, <1>5, <1>6, <1>7, <1>8, <1>9, <1>10, <1>11,
     <1>12, <1>13, <1>14, <1>15, <1>16, <1>17, <1>18, <1>19, <1>20, <1>21, <1>22,
     <1>23, <1>24, <1>25, <1>26
  DEF Next, Drain, Sweep

\* The bytes of a photo outlast its row, whatever drains of other tabs, sweeps,
\* prunes, hung uploads and kills do, unless two sweeps ran within its capture;
\* and no row goes before its path is queued or its dead letter has expired
\* (prune.ts:253-256, discardPendingPhoto, drainPhotoQueue).
THEOREM EvidenceTheorem == Spec => []EvidenceIsKept
<1>1. EvidenceInv /\ [Next]_vars => EvidenceInv'
  BY EvidenceNext
<1>2. EvidenceInv => EvidenceIsKept
  BY DEF EvidenceInv, Kept
<1> QED
  BY <1>1, <1>2, EvidenceInit, PTL DEF Spec

-----------------------------------------------------------------------------
\* A drain writes a path only for a photo it has uploaded.
Resolved ==
  /\ PointersResolve
  /\ \A t \in Tabs : tab[t] = "apply" => cur[t] \in stored

LEMMA ResolvedInit == Init => Resolved
BY DEF Init, Resolved, PointersResolve

LEMMA ResolvedNext == Typed /\ Resolved /\ [Next]_vars => Resolved'
<1> SUFFICES ASSUME Typed, Resolved, [Next]_vars PROVE Resolved'
  OBVIOUS
<1> USE Constants DEF Typed, TypeOK, Resolved, PointersResolve
<1>1. ASSUME NEW p \in Photos, SaveBlob(p) PROVE Resolved'
  BY <1>1 DEF SaveBlob, drain
<1>2. ASSUME NEW p \in Photos, AddRow(p) PROVE Resolved'
  BY <1>2 DEF AddRow, drain
<1>3. ASSUME NEW p \in Photos, LoseRow(p) PROVE Resolved'
  BY <1>3 DEF LoseRow, drain
<1>4. ASSUME NEW p \in Photos, BackoffEnds(p) PROVE Resolved'
  BY <1>4 DEF BackoffEnds, drain
<1>5. ASSUME NEW p \in Photos, Retry(p) PROVE Resolved'
  BY <1>5 DEF Retry, drain
<1>6. ASSUME NEW p \in Photos, ReadExpired(p) PROVE Resolved'
  BY <1>6 DEF ReadExpired, device, drain
<1>7. ASSUME NEW t \in Tabs, Begin(t) PROVE Resolved'
  BY <1>7 DEF Begin, Goto, device
<1>8. ASSUME NEW t \in Tabs, NEW p \in Photos, Take(t, p) PROVE Resolved'
  BY <1>8 DEF Take, Goto, device
<1>9. ASSUME NEW t \in Tabs, NEW p \in Photos, MissBlob(t, p) PROVE Resolved'
  BY <1>9 DEF MissBlob
<1>10. ASSUME NEW t \in Tabs, Upload(t) PROVE Resolved'
  BY <1>10 DEF Upload, Goto, device
<1>11. ASSUME NEW t \in Tabs, ApplyPath(t) PROVE Resolved'
  BY <1>11 DEF ApplyPath, Goto
<1>12. ASSUME NEW t \in Tabs, DeleteRow(t) PROVE Resolved'
  BY <1>12 DEF DeleteRow, Goto
<1>13. ASSUME NEW t \in Tabs, DeleteBlob(t) PROVE Resolved'
  BY <1>13 DEF DeleteBlob, AtCur, Done, Clear, Goto
<1>14. ASSUME NEW t \in Tabs, Finish(t) PROVE Resolved'
  BY <1>14 DEF Finish, Goto, device
<1>15. ASSUME NEW t \in Tabs, KeepBlob(t) PROVE Resolved'
  BY <1>15 DEF KeepBlob, AtCur, Done, Clear, Goto, device
<1>16. ASSUME NEW t \in Tabs, Unreachable(t) PROVE Resolved'
  BY <1>16 DEF Unreachable, AtCur, Done, Clear, Goto
<1>17. ASSUME NEW t \in Tabs, Rejected(t) PROVE Resolved'
  BY <1>17 DEF Rejected, BackOff, AtCur, Done, Clear, Goto
<1>18. ASSUME NEW t \in Tabs, Stop(t) PROVE Resolved'
  BY <1>18 DEF Stop, Clear, Goto, device
<1>19. ASSUME DeleteExpired PROVE Resolved'
  BY <1>19 DEF DeleteExpired, drain
<1>20. ASSUME FindOrphans PROVE Resolved'
  BY <1>20 DEF FindOrphans, device, drain
<1>21. ASSUME Collect PROVE Resolved'
  BY <1>21 DEF Collect, CollectKeys, drain
<1>22. ASSUME UNCHANGED vars PROVE Resolved'
  BY <1>22 DEF vars, device, drain
<1>23. ASSUME NEW t \in Tabs, Hang(t) PROVE Resolved'
  BY <1>23 DEF Hang, Goto, device, cleanup, prune, history
<1>24. ASSUME DeleteExpiredBlob PROVE Resolved'
  BY <1>24 DEF DeleteExpiredBlob, drain, history
<1>25. ASSUME KeepExpiredBlob PROVE Resolved'
  BY <1>25 DEF KeepExpiredBlob, device, drain, history
<1>26. ASSUME CollectPart PROVE Resolved'
  BY <1>26 DEF CollectPart, CollectKeys, drain, prune, history
<1> QED
  BY <1>1, <1>2, <1>3, <1>4, <1>5, <1>6, <1>7, <1>8, <1>9, <1>10, <1>11, <1>12,
     <1>13, <1>14, <1>15, <1>16, <1>17, <1>18, <1>19, <1>20, <1>21, <1>22,
     <1>23, <1>24, <1>25, <1>26
  DEF Next, Drain, Sweep

\* What a target points at is in the bucket, whatever fails and however many
\* tabs drain at once (drainPhotoQueue, applyUploadedPath).
THEOREM PointersTheorem == Spec => []PointersResolve
<1>1. Resolved => PointersResolve
  BY DEF Resolved
<1> QED
  BY <1>1, TypedInit, TypedNext, ResolvedInit, ResolvedNext, PTL DEF Spec
=============================================================================
