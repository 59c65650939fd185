--------------------------- MODULE IntegrationProofs -------------------------
(***************************************************************************)
(* Proofs about what the integrations share: the breaker their calls go    *)
(* through (CircuitBreaker, for any number of callers, any threshold and   *)
(* any lengths of the window, the claim and the call), the generators that *)
(* turn the bookings they bring into turnovers (Turnovers, for any number  *)
(* of stays and of PMS syncs), and the sync of one calendar feed (FeedSync,*)
(* for any stays and any choice of the fault).                             *)
(***************************************************************************)
EXTENDS CircuitBreaker, FiniteSetTheorems, WellFoundedInduction, TLAPS

LEMMA Constants ==
  /\ Threshold \in Nat \ {0} /\ Window \in Nat \ {0} /\ ProbeTTL \in Nat \ {0}
  /\ MaxCount \in Nat \ {0} /\ CallTime \in Nat /\ MaxFaults \in Nat
  /\ ProbeTTL <= Window
BY BreakerAssumption

LEMMA Typed0 == Init => TypeOK
BY Constants DEF Init, TypeOK, Forever

LEMMA TypedNext == TypeOK /\ [Next]_vars => TypeOK'
<1> SUFFICES ASSUME TypeOK, [Next]_vars PROVE TypeOK'
  OBVIOUS
<1> USE Constants DEF TypeOK, Forever, Unread
<1>1. ASSUME NEW c \in Callers, Ask(c) PROVE TypeOK'
  BY <1>1 DEF Ask, Goto, keys
<1>2. ASSUME NEW c \in Callers, ReadFailures(c) PROVE TypeOK'
  BY <1>2 DEF ReadFailures, keys
<1>3. ASSUME NEW c \in Callers, ReadMarker(c) PROVE TypeOK'
  BY <1>3 DEF ReadMarker, keys, Marker
<1>4. ASSUME NEW c \in Callers, Proceed(c) PROVE TypeOK'
  BY <1>4 DEF Proceed, BothRead, Decide, Send, Goto, keys
<1>5. ASSUME NEW c \in Callers, Skip(c) PROVE TypeOK'
  BY <1>5 DEF Skip, BothRead, Decide, Goto, keys
<1>6. ASSUME NEW c \in Callers, ClaimProbe(c) PROVE TypeOK'
  BY <1>6 DEF ClaimProbe, BothRead, Decide, Send, AsProbe, Goto, keys
<1>7. ASSUME NEW c \in Callers, LoseProbe(c) PROVE TypeOK'
  BY <1>7 DEF LoseProbe, BothRead, Decide, Goto, keys
<1>8. ASSUME NEW c \in Callers, Succeed(c) PROVE TypeOK'
  BY <1>8 DEF Succeed, Answer, Goto, keys
<1>9. ASSUME NEW c \in Callers, Refuse(c) PROVE TypeOK'
  BY <1>9 DEF Refuse, Answer, Goto, keys
<1>10. ASSUME NEW c \in Callers, Fail(c) PROVE TypeOK'
  BY <1>10 DEF Fail, Answer, Goto, keys
<1>11. ASSUME NEW c \in Callers, Incr(c) PROVE TypeOK'
  BY <1>11 DEF Incr, Goto, keys
<1>12. ASSUME NEW c \in Callers, Expire(c) PROVE TypeOK'
  BY <1>12 DEF Expire, Goto, keys, locals
<1>13. ASSUME NEW c \in Callers, Open(c) PROVE TypeOK'
  BY <1>13 DEF Open, Goto, keys, locals
<1>14. ASSUME NEW c \in Callers, Release(c) PROVE TypeOK'
  BY <1>14 DEF Release, Goto, keys, locals
<1>15. ASSUME NEW c \in Callers, ClearFailures(c) PROVE TypeOK'
  BY <1>15 DEF ClearFailures, Goto, keys, locals
<1>16. ASSUME NEW c \in Callers, ClearOpened(c) PROVE TypeOK'
  BY <1>16 DEF ClearOpened, Goto, keys, locals
<1>17. ASSUME NEW c \in Callers, ClearProbe(c) PROVE TypeOK'
  BY <1>17 DEF ClearProbe, Goto, keys, locals
<1>18. ASSUME NEW c \in Callers, FailOpen(c) PROVE TypeOK'
  BY <1>18 DEF FailOpen, Decide, Send, Goto, keys
<1>19. ASSUME NEW c \in Callers, GiveUp(c) PROVE TypeOK'
  BY <1>19 DEF GiveUp, Goto, keys
<1>20. ASSUME Tick PROVE TypeOK'
  BY <1>20, SMTT(60) DEF Tick, Older, Forever, InCall, InRedis
<1>21. ASSUME UNCHANGED vars PROVE TypeOK'
  BY <1>21 DEF vars, keys, locals
<1> QED
  BY <1>1, <1>2, <1>3, <1>4, <1>5, <1>6, <1>7, <1>8, <1>9, <1>10, <1>11, <1>12,
    <1>13, <1>14, <1>15, <1>16, <1>17, <1>18, <1>19, <1>20, <1>21
     DEF Next, Evaluating, Answered, Recording

\* Type correctness of every reachable state.
THEOREM BreakerTypeCorrect == Spec => []TypeOK
<1>1. QED
  BY Typed0, TypedNext, PTL DEF Spec

-----------------------------------------------------------------------------
\* The counter's window.

LEMMA ExpiresNext == TypeOK /\ CounterExpires /\ [Next]_vars => CounterExpires'
<1> SUFFICES ASSUME TypeOK, CounterExpires, [Next]_vars PROVE CounterExpires'
  OBVIOUS
<1> USE Constants DEF TypeOK, CounterExpires, Forever
<1>1. ASSUME NEW c \in Callers, Ask(c) PROVE CounterExpires'
  BY <1>1 DEF Ask, Goto, keys
<1>2. ASSUME NEW c \in Callers, ReadFailures(c) PROVE CounterExpires'
  BY <1>2 DEF ReadFailures, keys
<1>3. ASSUME NEW c \in Callers, ReadMarker(c) PROVE CounterExpires'
  BY <1>3 DEF ReadMarker, keys
<1>4. ASSUME NEW c \in Callers, Proceed(c) PROVE CounterExpires'
  BY <1>4 DEF Proceed, BothRead, Decide, Send, Goto, keys
<1>5. ASSUME NEW c \in Callers, Skip(c) PROVE CounterExpires'
  BY <1>5 DEF Skip, BothRead, Decide, Goto, keys
<1>6. ASSUME NEW c \in Callers, ClaimProbe(c) PROVE CounterExpires'
  BY <1>6 DEF ClaimProbe, BothRead, Decide, Send, Goto, keys
<1>7. ASSUME NEW c \in Callers, LoseProbe(c) PROVE CounterExpires'
  BY <1>7 DEF LoseProbe, BothRead, Decide, Goto, keys
<1>8. ASSUME NEW c \in Callers, Succeed(c) PROVE CounterExpires'
  BY <1>8 DEF Succeed, Answer, Goto, keys
<1>9. ASSUME NEW c \in Callers, Refuse(c) PROVE CounterExpires'
  BY <1>9 DEF Refuse, Answer, Goto, keys
<1>10. ASSUME NEW c \in Callers, Fail(c) PROVE CounterExpires'
  BY <1>10 DEF Fail, Answer, Goto, keys
<1>11. ASSUME NEW c \in Callers, Incr(c) PROVE CounterExpires'
  BY <1>11 DEF Incr, Goto, keys
<1>12. ASSUME NEW c \in Callers, Expire(c) PROVE CounterExpires'
  BY <1>12 DEF Expire, Goto, keys, locals
<1>13. ASSUME NEW c \in Callers, Open(c) PROVE CounterExpires'
  BY <1>13 DEF Open, Goto, keys, locals
<1>14. ASSUME NEW c \in Callers, Release(c) PROVE CounterExpires'
  BY <1>14 DEF Release, Goto, keys, locals
<1>15. ASSUME NEW c \in Callers, ClearFailures(c) PROVE CounterExpires'
  BY <1>15 DEF ClearFailures, Goto, keys, locals
<1>16. ASSUME NEW c \in Callers, ClearOpened(c) PROVE CounterExpires'
  BY <1>16 DEF ClearOpened, Goto, keys, locals
<1>17. ASSUME NEW c \in Callers, ClearProbe(c) PROVE CounterExpires'
  BY <1>17 DEF ClearProbe, Goto, keys, locals
<1>18. ASSUME NEW c \in Callers, FailOpen(c) PROVE CounterExpires'
  BY <1>18 DEF FailOpen, Decide, Send, Goto, keys
<1>19. ASSUME NEW c \in Callers, GiveUp(c) PROVE CounterExpires'
  BY <1>19 DEF GiveUp, Goto, keys
<1>20. ASSUME Tick PROVE CounterExpires'
  BY <1>20 DEF Tick, Older, InCall, InRedis
<1>21. ASSUME UNCHANGED vars PROVE CounterExpires'
  BY <1>21 DEF vars, keys, locals
<1> QED
  BY <1>1, <1>2, <1>3, <1>4, <1>5, <1>6, <1>7, <1>8, <1>9, <1>10, <1>11, <1>12,
    <1>13, <1>14, <1>15, <1>16, <1>17, <1>18, <1>19, <1>20, <1>21
     DEF Next, Evaluating, Answered, Recording

\* recordFailure puts the expiry on the counter it created: one without expiry
\* is always waiting for its creator's EXPIRE.
THEOREM CounterExpiresTheorem == Spec => []CounterExpires
<1>1. Init => CounterExpires
  BY Constants DEF Init, CounterExpires, Forever
<1>2. QED
  BY <1>1, BreakerTypeCorrect, ExpiresNext, PTL DEF Spec

-----------------------------------------------------------------------------
\* One trial.  While the claim of a trial would live, either it is there, or a
\* straggler has deleted it, and the same straggler has rewritten or deleted the
\* marker: nobody finds it elapsed before the claim would have lapsed.
Trial(c) == c \in InCall /\ probing[c] = "trial" /\ Young(c)

Remaining(c) == left[c] + ProbeTTL - CallTime
Claimed(c)   == probeTTL >= Remaining(c)
Shut(c)      == openedTTL = 0 \/ openedTTL - ProbeTTL >= Remaining(c)

\* Who is about to delete the claim has dealt with the marker in this clock unit.
JustWritten == \A c \in Callers :
  pc[c] \in {"release", "clearProbe"} => openedTTL \in {0, Window + ProbeTTL}

Trials ==
  /\ JustWritten
  /\ \A c \in Callers : Trial(c) => Claimed(c) \/ Shut(c)
  /\ \A c, d \in Callers : Trial(c) /\ Trial(d) => c = d

LEMMA TrialsNext == TypeOK /\ TypeOK' /\ Trials /\ [Next]_vars => Trials'
<1> SUFFICES ASSUME TypeOK, TypeOK', Trials, [Next]_vars PROVE Trials'
  OBVIOUS
<1> USE Constants DEF TypeOK, Trials, JustWritten, Trial, Young, InCall, Remaining
<1> USE DEF Claimed, Shut
<1>1. ASSUME NEW c \in Callers, Ask(c) PROVE Trials'
  BY <1>1 DEF Ask, Goto, keys
<1>2. ASSUME NEW c \in Callers, ReadFailures(c) PROVE Trials'
  BY <1>2 DEF ReadFailures, keys
<1>3. ASSUME NEW c \in Callers, ReadMarker(c) PROVE Trials'
  BY <1>3 DEF ReadMarker, keys
<1>4. ASSUME NEW c \in Callers, Proceed(c) PROVE Trials'
  BY <1>4 DEF Proceed, BothRead, Decide, Send, Goto, keys
<1>5. ASSUME NEW c \in Callers, Skip(c) PROVE Trials'
  BY <1>5 DEF Skip, BothRead, Decide, Goto, keys
<1>6. ASSUME NEW c \in Callers, ClaimProbe(c) PROVE Trials'
  <2>1. /\ probeTTL = 0 /\ probeTTL' = ProbeTTL /\ openedTTL' = openedTTL
        /\ pc' = [pc EXCEPT ![c] = "call"]
        /\ left' = [left EXCEPT ![c] = CallTime]
        /\ probing' = [probing EXCEPT ![c] = AsProbe]
    BY <1>6 DEF ClaimProbe, BothRead, Decide, Send, Goto
  <2>2. \A d \in Callers : Trial(d) => Shut(d)
    BY <2>1 DEF Claimed
  <2>3. \A d \in Callers \ {c} : Trial(d)' => Trial(d) /\ Shut(d)'
    BY <2>1, <2>2 DEF Shut
  <2>4. ASSUME NEW d \in Callers \ {c}, Trial(d)', Trial(c)' PROVE FALSE
    <3>1. Marker = "past"
      BY <2>1, <2>4 DEF AsProbe
    <3>2. openedTTL # 0 /\ openedTTL <= ProbeTTL
      BY <3>1 DEF Marker
    <3> QED
      BY <2>2, <2>3, <2>4, <3>2 DEF Shut
  <2>5. Claimed(c)'
    BY <2>1 DEF Claimed
  <2>6. JustWritten'
    BY <2>1
  <2>7. \A d, e \in Callers : Trial(d)' /\ Trial(e)' => d = e
    <3>1. \A d, e \in Callers \ {c} : Trial(d)' /\ Trial(e)' => d = e
      BY <2>3
    <3> QED
      BY <2>4, <3>1
  <2> QED
    BY <2>3, <2>5, <2>6, <2>7
<1>7. ASSUME NEW c \in Callers, LoseProbe(c) PROVE Trials'
  BY <1>7 DEF LoseProbe, BothRead, Decide, Goto, keys
<1>8. ASSUME NEW c \in Callers, Succeed(c) PROVE Trials'
  BY <1>8 DEF Succeed, Answer, Goto, keys
<1>9. ASSUME NEW c \in Callers, Refuse(c) PROVE Trials'
  BY <1>9 DEF Refuse, Answer, Goto, keys
<1>10. ASSUME NEW c \in Callers, Fail(c) PROVE Trials'
  BY <1>10 DEF Fail, Answer, Goto, keys
<1>11. ASSUME NEW c \in Callers, Incr(c) PROVE Trials'
  BY <1>11 DEF Incr, Goto, keys
<1>12. ASSUME NEW c \in Callers, Expire(c) PROVE Trials'
  BY <1>12 DEF Expire, Goto, keys, locals
<1>13. ASSUME NEW c \in Callers, Open(c) PROVE Trials'
  BY <1>13 DEF Open, Goto, keys, locals
<1>14. ASSUME NEW c \in Callers, Release(c) PROVE Trials'
  BY <1>14 DEF Release, Goto, keys, locals
<1>15. ASSUME NEW c \in Callers, ClearFailures(c) PROVE Trials'
  BY <1>15 DEF ClearFailures, Goto, keys, locals
<1>16. ASSUME NEW c \in Callers, ClearOpened(c) PROVE Trials'
  BY <1>16 DEF ClearOpened, Goto, keys, locals
<1>17. ASSUME NEW c \in Callers, ClearProbe(c) PROVE Trials'
  BY <1>17 DEF ClearProbe, Goto, keys, locals
<1>18. ASSUME NEW c \in Callers, FailOpen(c) PROVE Trials'
  BY <1>18 DEF FailOpen, Decide, Send, Goto, keys
<1>19. ASSUME NEW c \in Callers, GiveUp(c) PROVE Trials'
  BY <1>19 DEF GiveUp, Goto, keys
<1>20. ASSUME Tick PROVE Trials'
  <2>1. /\ \A c \in Callers : pc[c] \in {"idle", "call"}
        /\ pc' = pc /\ probing' = probing
        /\ left' = [c \in Callers |-> IF c \in InCall THEN left[c] - 1
                                                      ELSE left[c]]
        /\ openedTTL' = Older(openedTTL) /\ probeTTL' = Older(probeTTL)
    BY <1>20 DEF Tick, InRedis
  <2>2. JustWritten'
    BY <2>1
  <2>3. ASSUME NEW c \in Callers, Trial(c)'
        PROVE  Trial(c) /\ (Claimed(c)' \/ Shut(c)')
    <3>1. Trial(c) /\ left'[c] = left[c] - 1 /\ Remaining(c) > 1
      BY <2>1, <2>3
    <3>2. CASE Claimed(c)
      BY <2>1, <3>1, <3>2 DEF Older, Forever
    <3>3. CASE Shut(c)
      BY <2>1, <3>1, <3>3 DEF Older, Forever
    <3> QED
      BY <3>1, <3>2, <3>3
  <2> QED
    BY <2>2, <2>3
<1>21. ASSUME UNCHANGED vars PROVE Trials'
  BY <1>21 DEF vars, keys, locals
<1> QED
  BY <1>1, <1>2, <1>3, <1>4, <1>5, <1>6, <1>7, <1>8, <1>9, <1>10, <1>11, <1>12,
    <1>13, <1>14, <1>15, <1>16, <1>17, <1>18, <1>19, <1>20, <1>21
     DEF Next, Evaluating, Answered, Recording

LEMMA TrialsBound == Trials => OneProbe
<1> SUFFICES ASSUME Trials
             PROVE  Cardinality({c \in InCall : probing[c] = "trial" /\ Young(c)}) <= 1
  BY DEF OneProbe
<1>1. PICK P : P = {c \in InCall : probing[c] = "trial" /\ Young(c)}
  OBVIOUS
<1>2. \A c, d \in P : c = d
  BY <1>1 DEF Trials, Trial, InCall
<1>3. Cardinality(P) <= 1
  <2>1. CASE P = {}
    <3>1. Cardinality({}) = 0
      BY FS_EmptySet
    <3> QED
      BY <2>1, <3>1
  <2>2. CASE P # {}
    <3>1. PICK x \in P : TRUE
      BY <2>2
    <3>2. P = {x}
      BY <1>2, <3>1
    <3>3. Cardinality({x}) = 1
      BY FS_Singleton
    <3> QED
      BY <3>2, <3>3
  <2> QED
    BY <2>1, <2>2
<1> QED
  BY <1>1, <1>3

\* Within the lifetime of a claim one trial is in flight, for any number of
\* callers, any threshold and calls of any length, and whatever Redis errors and
\* killed jobs there are (evaluateBreaker, recordFailure, recordSuccess).
THEOREM OneProbeTheorem == Spec => []OneProbe
<1>1. Init => Trials
  BY DEF Init, Trials, JustWritten, Trial, InCall
<1>2. QED
  BY <1>1, Typed0, TypedNext, TrialsNext, TrialsBound, PTL DEF Spec

-----------------------------------------------------------------------------
(***************************************************************************)
(* Turnover generation.  It shares no state with the breaker: Turnovers is *)
(* instantiated with constants and variables of its own.                   *)
(***************************************************************************)
CONSTANTS N, Handler, PmsSyncs, MaxTaken, MaxUpsets

VARIABLES booked, queue, task, cancels, stored, step, list, ctx, stay, made,
          upsets, fired, dropped, undone

T == INSTANCE Turnovers WITH job <- task, status <- stored, pc <- step,
                             lost <- undone

\* TurnoversAssumption, of these constants.
TurnoverConstants ==
  /\ N \in Nat \ {0} /\ {MaxTaken, MaxUpsets} \subseteq Nat
  /\ Handler \notin PmsSyncs

LEMMA TurnoverFacts ==
  TurnoverConstants =>
    /\ N \in Nat \ {0} /\ MaxTaken \in Nat /\ MaxUpsets \in Nat
    /\ Handler \in T!Gens
BY DEF TurnoverConstants, T!Gens

LEMMA KeyForms ==
  /\ \A b \in T!Stays : /\ T!Standalone(b) \in T!Keys
                        /\ T!Outgoing(T!Standalone(b)) = b
  /\ \A a, b \in T!Stays :
       a < b => <<a, b>> \in T!Keys /\ T!Outgoing(<<a, b>>) = a
BY DEF T!Keys, T!Pairs, T!Standalone, T!Outgoing, T!Stays, T!None

\* The pair a generator makes at a stay is a key, and serves that stay.
LEMMA PairForm ==
  ASSUME T!TypeOK, NEW g \in T!Gens, NEW b \in T!Stays, T!NeedsPair(g, b)
  PROVE  T!PairOf(g, b) \in T!Keys /\ T!Outgoing(T!PairOf(g, b)) = b
<1>1. T!Following(g, b) # {}
  BY DEF T!NeedsPair
<1>2. (CHOOSE c \in T!Following(g, b) : TRUE) \in T!Following(g, b)
  BY <1>1
<1>3. \A c \in T!Following(g, b) : c \in T!Stays /\ b < c
  BY DEF T!Following, T!TypeOK, T!Stays
<1> QED
  BY <1>2, <1>3, KeyForms DEF T!PairOf

-----------------------------------------------------------------------------
\* Type correctness.

LEMMA TurnoversTyped0 == TurnoverConstants /\ T!Init => T!TypeOK
<1> SUFFICES ASSUME TurnoverConstants, T!Init PROVE T!TypeOK
  OBVIOUS
<1>1. /\ booked \in [T!Stays -> {"none", "confirmed", "cancelled"}]
      /\ stored \in [T!Keys -> {"none", "pending", "assigned", "worked",
          "cancelled"}]
      /\ step \in [T!Gens -> {"idle", "read", "context", "standalones", "reread",
          "pairs", "over"}]
  BY DEF T!Init
<1>2. /\ list \in [T!Gens -> SUBSET T!Stays]
      /\ ctx \in [T!Gens -> SUBSET T!Keys]
      /\ made \in [T!Gens -> SUBSET T!Keys]
  BY DEF T!Init
<1>3. stay \in [T!Gens -> 1..(N + 1)] /\ upsets \in 0..MaxUpsets
  BY TurnoverFacts DEF T!Init
<1>4. /\ queue \subseteq T!Stays /\ cancels \subseteq T!Stays
      /\ task \in T!Stays \cup {T!None}
      /\ dropped \subseteq T!Stays
      /\ fired \subseteq T!Keys /\ undone \subseteq T!Keys
  BY DEF T!Init
<1>5. /\ task = T!None <=> step[Handler] = "idle"
      /\ \A g \in T!Gens : step[g] = "reread" => stay[g] \in T!Stays
  BY TurnoverFacts DEF T!Init
<1> QED
  BY <1>1, <1>2, <1>3, <1>4, <1>5 DEF T!TypeOK

\* The handler is at an event exactly while it runs, and a generator that
\* re-reads is at a stay.
Placed ==
  /\ task = T!None <=> step[Handler] = "idle"
  /\ \A g \in T!Gens : step[g] = "reread" => stay[g] \in T!Stays

LEMMA PlacedNext ==
  TurnoverConstants /\ T!TypeOK /\ [T!Next]_T!vars => Placed'
<1> SUFFICES ASSUME TurnoverConstants, T!TypeOK, [T!Next]_T!vars PROVE Placed'
  OBVIOUS
<1> USE TurnoverFacts DEF T!TypeOK, Placed
<1>1. T!Stays \subseteq Nat /\ T!None \notin T!Stays
  BY DEF T!Stays, T!None
<1>2. ASSUME T!Start(Handler) PROVE Placed'
  BY <1>1, <1>2 DEF T!Start, T!Goto
<1>3. ASSUME NEW g \in T!Gens, T!ReadBookings(g) \/ T!Fire(g) \/ T!Throw(g)
      PROVE  Placed'
  <2>1. \/ task' = task /\ step'[g] \in {"read", "context"}
        \/ step'[g] = T!Ended(g) /\ T!EndJob(g)
    BY <1>3 DEF T!ReadBookings, T!Fire, T!Finish, T!Throw, T!Retry, T!GiveUp,
      T!Goto
  <2>2. /\ \A f \in T!Gens \ {g} : step'[f] = step[f] /\ stay'[f] = stay[f]
        /\ step[g] # "idle"
    BY <1>3 DEF T!ReadBookings, T!Fire, T!Finish, T!Throw, T!Retry, T!GiveUp,
      T!Goto
  <2> QED
    BY <2>1, <2>2 DEF T!Ended, T!EndJob
<1>4. ASSUME NEW g \in T!Gens,
             \/ T!LoadContext(g) \/ T!EndStandalones(g)
             \/ T!Reread(g) \/ T!RereadFails(g)
      PROVE  Placed'
  BY <1>4 DEF T!LoadContext, T!EndStandalones, T!Reread, T!RereadFails, T!Goto,
    T!Advance, T!db
<1>5. ASSUME NEW g \in T!Gens, T!ConflictStandalone(g) PROVE Placed'
  BY <1>5 DEF T!ConflictStandalone, T!AtStandalone, T!Goto, T!db
<1>6. ASSUME NEW g \in T!Gens,
             \/ T!InsertStandalone(g) \/ T!DropStandalone(g)
             \/ T!Upgrade(g) \/ T!MissUpgrade(g) \/ T!DropRedundant(g)
             \/ T!FailUpgrade(g) \/ T!InsertPair(g) \/ T!MissPair(g)
             \/ T!DropPair(g)
      PROVE  Placed'
  <2>1. /\ UNCHANGED <<task, step>> /\ step[g] # "reread"
        /\ \A f \in T!Gens \ {g} : stay'[f] = stay[f]
    BY <1>6 DEF T!InsertStandalone, T!DropStandalone, T!Upgrade, T!MissUpgrade,
      T!DropRedundant, T!RemoveStandalone, T!FailUpgrade, T!InsertPair,
      T!MissPair, T!DropPair, T!MayUpgrade, T!AtStandalone, T!AtPair,
      T!Advance, T!db
  <2> QED
    BY <2>1
<1>7. ASSUME NEW b \in T!Stays,
             T!Arrive(b) \/ T!CancelStay(b) \/ T!CancelTurnovers(b)
      PROVE  Placed'
  BY <1>7 DEF T!Arrive, T!CancelStay, T!CancelTurnovers, T!local
<1>8. ASSUME (\E k \in T!Keys : T!Assign(k) \/ T!Work(k)) \/ UNCHANGED T!vars
      PROVE  Placed'
  BY <1>8 DEF T!Assign, T!Work, T!vars, T!db, T!local
<1> QED
  BY <1>2, <1>3, <1>4, <1>5, <1>6, <1>7, <1>8 DEF T!Next, T!Generate

LEMMA TurnoversTypedNext ==
  TurnoverConstants /\ T!TypeOK /\ [T!Next]_T!vars => T!TypeOK'
<1> SUFFICES ASSUME TurnoverConstants, T!TypeOK, [T!Next]_T!vars PROVE T!TypeOK'
  OBVIOUS
<1>0. Placed'
  BY PlacedNext
<1> USE <1>0, TurnoverFacts DEF T!TypeOK, Placed
<1>1. ASSUME T!Start(Handler) PROVE T!TypeOK'
  BY <1>1 DEF T!Start, T!Goto, T!bounds, T!history
<1>2. ASSUME NEW g \in T!Gens, T!ReadBookings(g) PROVE T!TypeOK'
  BY <1>2 DEF T!ReadBookings, T!Goto, T!Ended, T!EndJob, T!Confirmed, T!db, T!bounds,
    T!history
<1>3. ASSUME NEW g \in T!Gens, T!LoadContext(g) PROVE T!TypeOK'
  BY <1>3 DEF T!LoadContext, T!Goto, T!Rows, T!db, T!bounds, T!history
<1>4. ASSUME NEW g \in T!Gens, T!InsertStandalone(g) PROVE T!TypeOK'
  <2>1. PICK b \in T!Stays :
          /\ T!Put(T!Standalone(b), "pending")
          /\ T!Hold(g, T!Standalone(b)) /\ T!Advance(g, b)
          /\ UNCHANGED <<booked, queue, task, cancels, step, list, T!bounds,
                         T!history>>
    BY <1>4 DEF T!InsertStandalone
  <2>2. T!Standalone(b) \in T!Keys
    BY KeyForms
  <2>3. /\ ctx' \in [T!Gens -> SUBSET T!Keys]
        /\ made' \in [T!Gens -> SUBSET T!Keys]
        /\ stay' \in [T!Gens -> 1..(N + 1)]
    BY <2>1, <2>2 DEF T!Advance, T!Hold, T!Stays
  <2>4. stored' \in [T!Keys -> {"none", "pending", "assigned", "worked",
      "cancelled"}]
    BY <2>1, <2>2 DEF T!Put
  <2> QED
    BY <2>1, <2>3, <2>4 DEF T!bounds, T!history
<1>5. ASSUME NEW g \in T!Gens, T!DropStandalone(g) PROVE T!TypeOK'
  <2>1. PICK b \in T!Stays :
          /\ upsets < MaxUpsets /\ upsets' = upsets + 1
          /\ dropped' = dropped \cup {b}
          /\ stay' = [stay EXCEPT ![g] = b + 1]
          /\ UNCHANGED <<booked, queue, task, cancels, stored, step, list, ctx,
                         made, fired, undone>>
    BY <1>5 DEF T!DropStandalone, T!Advance, T!db
  <2>2. stay' \in [T!Gens -> 1..(N + 1)]
    BY <2>1 DEF T!Stays
  <2>3. upsets' \in 0..MaxUpsets /\ dropped' \subseteq T!Stays
    BY <2>1
  <2> QED
    BY <2>1, <2>2, <2>3
<1>6. ASSUME NEW g \in T!Gens, T!EndStandalones(g) PROVE T!TypeOK'
  BY <1>6 DEF T!EndStandalones, T!Goto, T!db, T!bounds, T!history
<1>7. ASSUME NEW g \in T!Gens, T!Upgrade(g) PROVE T!TypeOK'
  <2>1. PICK b \in T!Stays :
          /\ T!MayUpgrade(g, b) /\ stored[T!Standalone(b)] # "none"
          /\ stored' = [stored EXCEPT ![T!Standalone(b)] = "none",
                                    ![T!PairOf(g, b)] = stored[T!Standalone(b)]]
          /\ fired' = T!Rekey(fired, T!Standalone(b), T!PairOf(g, b))
          /\ undone' = T!Rekey(undone, T!Standalone(b), T!PairOf(g, b))
          /\ made' = [h \in T!Gens |-> T!Rekey(made[h], T!Standalone(b),
                                                   T!PairOf(g, b))]
          /\ T!Known(g, T!PairOf(g, b)) /\ T!Advance(g, b)
          /\ UNCHANGED <<booked, queue, task, cancels, step, list, T!bounds, dropped>>
    BY <1>7 DEF T!Upgrade
  <2>2. T!PairOf(g, b) \in T!Keys /\ T!Standalone(b) \in T!Keys
    BY <2>1, KeyForms, PairForm DEF T!MayUpgrade, T!AtPair
  <2>3. \A R \in SUBSET T!Keys : T!Rekey(R, T!Standalone(b), T!PairOf(g,
      b)) \in SUBSET T!Keys
    BY <2>2 DEF T!Rekey
  <2>4. stored' \in [T!Keys -> {"none", "pending", "assigned", "worked",
      "cancelled"}]
    BY <2>1, <2>2
  <2>5. /\ fired' \subseteq T!Keys /\ undone' \subseteq T!Keys
        /\ made' \in [T!Gens -> SUBSET T!Keys]
    BY <2>1, <2>3
  <2>6. ctx' \in [T!Gens -> SUBSET T!Keys] /\ stay' \in [T!Gens -> 1..(N + 1)]
    BY <2>1, <2>2 DEF T!Known, T!Advance, T!Stays
  <2> QED
    BY <2>1, <2>4, <2>5, <2>6 DEF T!bounds
<1>8. ASSUME NEW g \in T!Gens, T!MissUpgrade(g) PROVE T!TypeOK'
  <2>1. PICK b \in T!Stays :
          /\ T!MayUpgrade(g, b)
          /\ T!Known(g, T!PairOf(g, b)) /\ T!Advance(g, b)
          /\ UNCHANGED <<T!db, step, list, made, T!bounds, T!history>>
    BY <1>8 DEF T!MissUpgrade
  <2>2. T!PairOf(g, b) \in T!Keys
    BY <2>1, PairForm DEF T!MayUpgrade, T!AtPair
  <2>3. ctx' \in [T!Gens -> SUBSET T!Keys] /\ stay' \in [T!Gens -> 1..(N + 1)]
    BY <2>1, <2>2 DEF T!Known, T!Advance, T!Stays
  <2> QED
    BY <2>1, <2>3 DEF T!db, T!bounds, T!history
<1>9. ASSUME NEW g \in T!Gens, T!DropRedundant(g) PROVE T!TypeOK'
  <2> DEFINE gone(b) ==
              IF stored[T!Standalone(b)] \in {"assigned", "worked", "cancelled"}
              THEN {} ELSE {T!Standalone(b)}
  <2>1. PICK b \in T!Stays :
          /\ T!MayUpgrade(g, b)
          /\ stored' = [k \in T!Keys |->
                          IF k \in gone(b) THEN "none" ELSE stored[k]]
          /\ made' = [h \in T!Gens |-> made[h] \ gone(b)]
          /\ fired' = fired \ gone(b) /\ undone' = undone \ gone(b)
          /\ T!Known(g, T!PairOf(g, b)) /\ T!Advance(g, b)
          /\ UNCHANGED <<booked, queue, task, cancels, step, list, T!bounds, dropped>>
    BY <1>9 DEF T!DropRedundant, T!RemoveStandalone
  <2>2. T!PairOf(g, b) \in T!Keys
    BY <2>1, PairForm DEF T!MayUpgrade, T!AtPair
  <2>3. ctx' \in [T!Gens -> SUBSET T!Keys] /\ stay' \in [T!Gens -> 1..(N + 1)]
    BY <2>1, <2>2 DEF T!Known, T!Advance, T!Stays
  <2> HIDE DEF gone
  <2>4. /\ stored' \in [T!Keys -> {"none", "pending", "assigned", "worked",
            "cancelled"}]
        /\ made' \in [T!Gens -> SUBSET T!Keys]
    BY <2>1
  <2> QED
    BY <2>1, <2>3, <2>4 DEF T!bounds
<1>10. ASSUME NEW g \in T!Gens, T!InsertPair(g) PROVE T!TypeOK'
  <2>1. PICK b \in T!Stays :
          /\ T!AtPair(g, b)
          /\ T!Put(T!PairOf(g, b), "pending")
          /\ made' = [made EXCEPT ![g] = @ \cup {T!PairOf(g, b)}]
          /\ T!Advance(g, b)
          /\ UNCHANGED <<booked, queue, task, cancels, step, list, ctx, T!bounds,
                         T!history>>
    BY <1>10 DEF T!InsertPair
  <2>2. T!PairOf(g, b) \in T!Keys
    BY <2>1, PairForm DEF T!AtPair
  <2>3. stay' \in [T!Gens -> 1..(N + 1)] /\ made' \in [T!Gens -> SUBSET T!Keys]
    BY <2>1, <2>2 DEF T!Advance, T!Stays
  <2> QED
    BY <2>1, <2>2, <2>3 DEF T!Put, T!bounds, T!history
<1>11. ASSUME NEW g \in T!Gens, T!MissPair(g) PROVE T!TypeOK'
  BY <1>11 DEF T!MissPair, T!Advance, T!Stays, T!db, T!bounds, T!history
<1>12. ASSUME NEW g \in T!Gens, T!Fire(g) PROVE T!TypeOK'
  BY <1>12 DEF T!Fire, T!Finish, T!Goto, T!Ended, T!EndJob, T!db, T!bounds
<1>13. ASSUME NEW g \in T!Gens, T!Throw(g) PROVE T!TypeOK'
  <2>1. /\ upsets' \in 0..MaxUpsets /\ undone' \subseteq T!Keys
        /\ list' \in [T!Gens -> SUBSET T!Stays]
        /\ ctx' \in [T!Gens -> SUBSET T!Keys]
        /\ stay' \in [T!Gens -> 1..(N + 1)] /\ made' \in [T!Gens -> SUBSET T!Keys]
        /\ UNCHANGED <<booked, queue, cancels, stored, fired>>
    BY <1>13 DEF T!Throw
  <2>2. /\ step' \in [T!Gens -> {"idle", "read", "context", "standalones",
                                "reread", "pairs", "over"}]
        /\ task' \in T!Stays \cup {T!None}
    BY <1>13 DEF T!Throw, T!Retry, T!GiveUp, T!Goto, T!Ended, T!EndJob
  <2>3. dropped' \subseteq T!Stays
    <3>1. CASE T!Retry(g)
      BY <3>1 DEF T!Retry
    <3>2. CASE T!GiveUp(g)
      BY <1>13, <3>2 DEF T!GiveUp, T!Throw
    <3> QED
      BY <1>13, <3>1, <3>2 DEF T!Throw
  <2> QED
    BY <2>1, <2>2, <2>3
<1>14. ASSUME NEW b \in T!Stays, T!Arrive(b) PROVE T!TypeOK'
  BY <1>14 DEF T!Arrive, T!local, T!bounds, T!history
<1>15. ASSUME NEW b \in T!Stays, T!CancelStay(b) PROVE T!TypeOK'
  BY <1>15 DEF T!CancelStay, T!local, T!history
<1>16. ASSUME NEW b \in T!Stays, T!CancelTurnovers(b) PROVE T!TypeOK'
  BY <1>16 DEF T!CancelTurnovers, T!local, T!bounds, T!history
<1>17. ASSUME NEW k \in T!Keys, T!Assign(k) PROVE T!TypeOK'
  BY <1>17 DEF T!Assign, T!Put, T!local, T!bounds, T!history
<1>18. ASSUME NEW k \in T!Keys, T!Work(k) PROVE T!TypeOK'
  BY <1>18 DEF T!Work, T!Put, T!local, T!bounds, T!history
<1>19. ASSUME NEW g \in T!Gens, T!ConflictStandalone(g) PROVE T!TypeOK'
  <2>1. PICK b \in T!Stays :
          /\ stay' = [stay EXCEPT ![g] = b] /\ step' = [step EXCEPT ![g] = "reread"]
          /\ UNCHANGED <<booked, queue, task, cancels, stored, list, ctx, made,
                         upsets, fired, dropped, undone>>
    BY <1>19 DEF T!ConflictStandalone, T!Goto, T!db, T!bounds, T!history
  <2>2. /\ stay' \in [T!Gens -> 1..(N + 1)]
        /\ step' \in [T!Gens -> {"idle", "read", "context", "standalones",
                                "reread", "pairs", "over"}]
    BY <2>1 DEF T!Stays
  <2> QED
    BY <2>1, <2>2
<1>20. ASSUME NEW g \in T!Gens, T!Reread(g) PROVE T!TypeOK'
  <2>1. stay[g] \in T!Stays /\ T!Standalone(stay[g]) \in T!Keys
    BY <1>20, KeyForms DEF T!Reread
  <2>2. stay' \in [T!Gens -> 1..(N + 1)]
    BY <1>20, <2>1 DEF T!Reread, T!Advance, T!Stays
  <2>3. ctx' \in [T!Gens -> SUBSET T!Keys] /\ made' \in [T!Gens -> SUBSET T!Keys]
    BY <1>20, <2>1 DEF T!Reread, T!Hold
  <2>4. /\ step' = [step EXCEPT ![g] = "standalones"]
        /\ UNCHANGED <<booked, queue, task, cancels, stored, list, upsets, fired,
                       dropped, undone>>
    BY <1>20 DEF T!Reread, T!Goto, T!db, T!bounds, T!history
  <2>5. step' \in [T!Gens -> {"idle", "read", "context", "standalones", "reread",
                              "pairs", "over"}]
    BY <2>4
  <2> HIDE DEF Placed
  <2> QED
    BY <2>2, <2>3, <2>4, <2>5 DEF Placed
<1>21. ASSUME NEW g \in T!Gens, T!RereadFails(g) PROVE T!TypeOK'
  <2>1. stay[g] \in T!Stays
    BY <1>21 DEF T!RereadFails
  <2>2. stay' \in [T!Gens -> 1..(N + 1)]
    BY <1>21, <2>1 DEF T!RereadFails, T!Advance, T!Stays
  <2>3. /\ step' = [step EXCEPT ![g] = "standalones"]
        /\ upsets < MaxUpsets /\ upsets' = upsets + 1
        /\ UNCHANGED <<booked, queue, task, cancels, stored, list, ctx, made,
                       fired, dropped, undone>>
    BY <1>21 DEF T!RereadFails, T!Goto, T!db, T!history
  <2>4. /\ step' \in [T!Gens -> {"idle", "read", "context", "standalones",
                                "reread", "pairs", "over"}]
        /\ upsets' \in 0..MaxUpsets
    BY <2>3
  <2> QED
    BY <2>2, <2>3, <2>4
<1>22. ASSUME NEW g \in T!Gens, T!FailUpgrade(g) PROVE T!TypeOK'
  <2>1. PICK b \in T!Stays :
          /\ T!MayUpgrade(g, b) /\ upsets < MaxUpsets /\ upsets' = upsets + 1
          /\ T!Known(g, T!PairOf(g, b)) /\ T!Advance(g, b)
          /\ UNCHANGED <<T!db, step, list, made, T!history>>
    BY <1>22 DEF T!FailUpgrade
  <2>2. T!PairOf(g, b) \in T!Keys
    BY <2>1, PairForm DEF T!MayUpgrade, T!AtPair
  <2>3. ctx' \in [T!Gens -> SUBSET T!Keys] /\ stay' \in [T!Gens -> 1..(N + 1)]
    BY <2>1, <2>2 DEF T!Known, T!Advance, T!Stays
  <2>4. /\ upsets' \in 0..MaxUpsets
        /\ UNCHANGED <<booked, queue, task, cancels, stored, step, list, made,
                       fired, dropped, undone>>
    BY <2>1 DEF T!db, T!history
  <2> QED
    BY <2>3, <2>4
<1>23. ASSUME NEW g \in T!Gens, T!DropPair(g) PROVE T!TypeOK'
  <2>1. /\ upsets < MaxUpsets /\ upsets' = upsets + 1
        /\ \E b \in T!Stays : stay' = [stay EXCEPT ![g] = b + 1]
        /\ UNCHANGED <<booked, queue, task, cancels, stored, step, list, ctx,
                       made, fired, dropped, undone>>
    BY <1>23 DEF T!DropPair, T!Advance, T!db, T!history
  <2>2. stay' \in [T!Gens -> 1..(N + 1)] /\ upsets' \in 0..MaxUpsets
    BY <2>1 DEF T!Stays
  <2> QED
    BY <2>1, <2>2
<1>24. ASSUME UNCHANGED T!vars PROVE T!TypeOK'
  BY <1>24 DEF T!vars, T!db, T!local, T!bounds, T!history
<1> QED
  BY <1>1, <1>2, <1>3, <1>4, <1>5, <1>6, <1>7, <1>8, <1>9, <1>10, <1>11,
     <1>12, <1>13, <1>14, <1>15, <1>16, <1>17, <1>18, <1>19, <1>20, <1>21,
     <1>22, <1>23, <1>24
  DEF T!Next, T!Generate

\* Every reachable state is typed.
THEOREM TurnoversTypeCorrect ==
  TurnoverConstants => (T!Spec => []T!TypeOK)
<1> SUFFICES ASSUME TurnoverConstants PROVE T!Spec => []T!TypeOK
  OBVIOUS
<1>1. T!Init => T!TypeOK
  BY TurnoversTyped0
<1>2. T!TypeOK /\ [T!Next]_T!vars => T!TypeOK'
  BY TurnoversTypedNext
<1> QED
  BY <1>1, <1>2, PTL DEF T!Spec

-----------------------------------------------------------------------------
\* Work is kept.
Kept == \A k \in T!Keys : stored[k] = "worked" =>
  \E m \in T!Keys : T!Outgoing(m) = T!Outgoing(k) /\ stored'[m] = "worked"

LEMMA KeptNext ==
  TurnoverConstants /\ T!TypeOK /\ [T!Next]_T!vars => Kept
<1> SUFFICES ASSUME TurnoverConstants, T!TypeOK, [T!Next]_T!vars PROVE Kept
  OBVIOUS
<1> USE DEF T!TypeOK, Kept
<1>1. ASSUME T!Start(Handler) PROVE Kept
  BY <1>1 DEF T!Start, T!Goto, T!bounds, T!history
<1>2. ASSUME NEW g \in T!Gens, T!ReadBookings(g) PROVE Kept
  BY <1>2 DEF T!ReadBookings
<1>3. ASSUME NEW g \in T!Gens, T!LoadContext(g) PROVE Kept
  BY <1>3 DEF T!LoadContext, T!Goto, T!db, T!bounds, T!history
<1>4. ASSUME NEW g \in T!Gens, T!InsertStandalone(g) PROVE Kept
  BY <1>4 DEF T!InsertStandalone, T!Put, T!bounds, T!history
<1>5. ASSUME NEW g \in T!Gens, T!DropStandalone(g) PROVE Kept
  BY <1>5 DEF T!DropStandalone, T!Advance, T!db
<1>6. ASSUME NEW g \in T!Gens, T!EndStandalones(g) PROVE Kept
  BY <1>6 DEF T!EndStandalones, T!Goto, T!db, T!bounds, T!history
<1>7. ASSUME NEW g \in T!Gens, T!Upgrade(g) PROVE Kept
  BY <1>7, KeyForms, PairForm DEF T!Upgrade, T!MayUpgrade, T!AtPair
<1>8. ASSUME NEW g \in T!Gens, T!MissUpgrade(g) PROVE Kept
  BY <1>8 DEF T!MissUpgrade, T!Advance, T!Known, T!db, T!bounds, T!history
<1>9. ASSUME NEW g \in T!Gens, T!DropRedundant(g) PROVE Kept
  BY <1>9 DEF T!DropRedundant, T!RemoveStandalone
<1>10. ASSUME NEW g \in T!Gens, T!InsertPair(g) PROVE Kept
  BY <1>10 DEF T!InsertPair, T!Put, T!Advance, T!bounds, T!history
<1>11. ASSUME NEW g \in T!Gens, T!MissPair(g) PROVE Kept
  BY <1>11 DEF T!MissPair, T!Advance, T!db, T!bounds, T!history
<1>12. ASSUME NEW g \in T!Gens, T!Fire(g) PROVE Kept
  BY <1>12 DEF T!Fire, T!Finish
<1>13. ASSUME NEW g \in T!Gens, T!Throw(g) PROVE Kept
  BY <1>13 DEF T!Throw
<1>14. ASSUME NEW b \in T!Stays, T!Arrive(b) PROVE Kept
  BY <1>14 DEF T!Arrive, T!local, T!bounds, T!history
<1>15. ASSUME NEW b \in T!Stays, T!CancelStay(b) PROVE Kept
  BY <1>15 DEF T!CancelStay, T!local, T!history
<1>16. ASSUME NEW b \in T!Stays, T!CancelTurnovers(b) PROVE Kept
  BY <1>16 DEF T!CancelTurnovers, T!Open
<1>17. ASSUME NEW k \in T!Keys, T!Assign(k) PROVE Kept
  BY <1>17 DEF T!Assign, T!Put, T!local, T!bounds, T!history
<1>18. ASSUME NEW k \in T!Keys, T!Work(k) PROVE Kept
  BY <1>18 DEF T!Work, T!Put, T!local, T!bounds, T!history
<1>19. ASSUME NEW g \in T!Gens,
              \/ T!ConflictStandalone(g) \/ T!Reread(g) \/ T!RereadFails(g)
              \/ T!FailUpgrade(g) \/ T!DropPair(g)
       PROVE  Kept
  BY <1>19 DEF T!ConflictStandalone, T!Reread, T!RereadFails, T!FailUpgrade,
    T!DropPair, T!db
<1>20. ASSUME UNCHANGED T!vars PROVE Kept
  BY <1>20 DEF T!vars, T!db
<1> QED
  BY <1>1, <1>2, <1>3, <1>4, <1>5, <1>6, <1>7, <1>8, <1>9, <1>10, <1>11,
     <1>12, <1>13, <1>14, <1>15, <1>16, <1>17, <1>18, <1>19, <1>20
  DEF T!Next, T!Generate

\* A turnover somebody has begun stays one of its stay's, whatever generators,
\* syncs and cancellations do at once (generateTurnoversForProperty,
\* cancelTurnoversForBooking).
THEOREM WorkIsKeptTheorem ==
  TurnoverConstants => (T!Spec => T!WorkIsKept)
<1> SUFFICES ASSUME TurnoverConstants PROVE T!Spec => T!WorkIsKept
  OBVIOUS
<1>1. T!TypeOK /\ [T!Next]_T!vars => [Kept]_T!vars
  BY KeptNext
<1>2. T!Spec => []T!TypeOK
  BY TurnoversTypeCorrect
<1> QED
  BY <1>1, <1>2, PTL DEF T!Spec, T!WorkIsKept, Kept

-----------------------------------------------------------------------------
(***************************************************************************)
(* What the generators owe each stay.  It is seen to once it has a         *)
(* turnover, and nothing undoes that: a row only moves within its stay.    *)
(* Whoever the standalone pass leaves out, and whoever the caches name, is *)
(* seen to; so a pass that is over has forgotten nobody it listed.         *)
(***************************************************************************)
\* A set of naturals has a least element.
LEMMA LeastElement ==
  ASSUME NEW S, S \subseteq Nat, S # {}
  PROVE  \E m \in S : \A n \in S : m <= n
<1> DEFINE R == OpToRel(<, Nat)
<1>1. PICK m \in S : \A n \in S : ~(<<n, m>> \in R)
  <2>1. IsWellFoundedOn(R, Nat)
    BY NatLessThanWellFounded
  <2> HIDE DEF R
  <2> QED
    BY <2>1, WFMin
<1>2. \A x, y \in Nat : <<x, y>> \in R <=> x < y
  BY DEF OpToRel
<1>3. \A n \in S : n \in Nat /\ m \in Nat /\ ~(n < m)
  BY <1>1, <1>2
<1> HIDE DEF R
<1> QED
  BY <1>3

\* A stay is seen to: it has a turnover, or is cancelled, or its insert failed,
\* or its event was given up.
SeenTo(b) == T!Serving(b) # {} \/ booked[b] = "cancelled" \/ b \in dropped

\* The stays a row of the table is about: both of a pair.
About(k) == {T!Outgoing(k), k[2]}

RowsSeenTo == \A k \in T!Rows : SeenTo(k[2])
CtxSeenTo  == \A g \in T!Gens : \A k \in ctx[g] : \A b \in About(k) : SeenTo(b)
PassSeenTo ==
  \A g \in T!Gens : \A b \in list[g] :
    \/ step[g] = "pairs"
    \/ step[g] = "standalones" /\ b < stay[g]
    \/ step[g] = "reread" /\ b <= stay[g]
    => SeenTo(b)

\* The handler's run is at the stay's event, and has the bookings still to read
\* or the stay among those it listed.
InHand(b) == task = b /\ (step[Handler] = "read" \/ b \in list[Handler])

Remembered ==
  \A b \in T!Stays : booked[b] = "confirmed" =>
    SeenTo(b) \/ b \in queue \/ InHand(b)

\* A generator in flight will announce the row.
ToAnnounce(k) == \E g \in T!Gens : k \in made[g]

Attributed == \A k \in T!Rows : k \in fired \cup undone \/ ToAnnounce(k)

\* What makes the induction work: nothing undoes a stay's turnover.
StillSeenTo == \A b \in T!Stays : SeenTo(b) => SeenTo(b)'

LEMMA KeyStays ==
  \A k \in T!Keys : T!Outgoing(k) \in T!Stays /\ k[2] \in T!Stays
BY DEF T!Keys, T!Pairs, T!Standalone, T!Outgoing, T!Stays, T!None

LEMMA PairStays ==
  ASSUME T!TypeOK, NEW g \in T!Gens, NEW b \in T!Stays, T!NeedsPair(g, b)
  PROVE  /\ b \in list[g] /\ T!PairOf(g, b) \in T!Keys
         /\ T!PairOf(g, b)[2] \in list[g]
         /\ About(T!PairOf(g, b)) \subseteq list[g]
         /\ T!PairOf(g, b) # T!Standalone(b)
<1>1. T!Following(g, b) # {}
  BY DEF T!NeedsPair
<1>2. (CHOOSE c \in T!Following(g, b) : TRUE) \in T!Following(g, b)
  BY <1>1
<1>3. \A c \in T!Following(g, b) : c \in list[g]
  BY DEF T!Following
<1>4. T!PairOf(g, b)[2] \in list[g] /\ T!PairOf(g, b)[1] = b
  BY <1>2, <1>3 DEF T!PairOf
<1>5. b # T!None
  BY DEF T!Stays, T!None
<1> QED
  BY <1>4, <1>5, PairForm DEF T!NeedsPair, About, T!Standalone

\* Whether a row was there stays so for its stay: rows move within a stay.
LEMMA SeenToStays ==
  ASSUME T!TypeOK, T!TypeOK',
         \A b \in T!Stays : booked[b] = "cancelled" => booked'[b] = "cancelled",
         dropped \subseteq dropped',
         \A k \in T!Rows : \E m \in T!Rows' : T!Outgoing(m) = T!Outgoing(k)
  PROVE  StillSeenTo
BY DEF StillSeenTo, SeenTo, T!Serving

LEMMA StillSeen ==
  TurnoverConstants /\ T!TypeOK /\ [T!Next]_T!vars => StillSeenTo
<1> SUFFICES ASSUME TurnoverConstants, T!TypeOK, [T!Next]_T!vars
             PROVE  StillSeenTo
  OBVIOUS
<1>0. T!TypeOK'
  BY TurnoversTypedNext
<1> USE DEF T!TypeOK
<1>1. ASSUME T!Start(Handler) PROVE StillSeenTo
  BY <1>0, <1>1, SeenToStays DEF T!Start, T!history, T!Rows
<1>2. ASSUME NEW g \in T!Gens, T!ReadBookings(g) PROVE StillSeenTo
  BY <1>0, <1>2, SeenToStays DEF T!ReadBookings, T!db, T!history, T!Rows
<1>3. ASSUME NEW g \in T!Gens, T!LoadContext(g) PROVE StillSeenTo
  BY <1>0, <1>3, SeenToStays DEF T!LoadContext, T!db, T!history, T!Rows
<1>4. ASSUME NEW g \in T!Gens, T!InsertStandalone(g) PROVE StillSeenTo
  BY <1>0, <1>4, SeenToStays DEF T!InsertStandalone, T!Put, T!history, T!Rows
<1>5. ASSUME NEW g \in T!Gens, T!DropStandalone(g) PROVE StillSeenTo
  BY <1>0, <1>5, SeenToStays DEF T!DropStandalone, T!db, T!Rows
<1>6. ASSUME NEW g \in T!Gens, T!EndStandalones(g) PROVE StillSeenTo
  BY <1>0, <1>6, SeenToStays DEF T!EndStandalones, T!db, T!history, T!Rows
<1>7. ASSUME NEW g \in T!Gens, T!Upgrade(g) PROVE StillSeenTo
  <2>1. PICK b \in T!Stays :
          /\ T!MayUpgrade(g, b)
          /\ stored[T!Standalone(b)] # "none"
          /\ stored' = [stored EXCEPT
                ![T!Standalone(b)] = "none",
                ![T!PairOf(g, b)] = stored[T!Standalone(b)]]
          /\ UNCHANGED <<booked, dropped>>
    BY <1>7 DEF T!Upgrade
  <2>2. /\ T!PairOf(g, b) \in T!Keys /\ T!Outgoing(T!PairOf(g, b)) = b
        /\ T!Standalone(b) \in T!Keys /\ T!Outgoing(T!Standalone(b)) = b
    BY <2>1, KeyForms, PairForm DEF T!MayUpgrade, T!AtPair
  <2>3. \A k \in T!Rows : \E m \in T!Rows' : T!Outgoing(m) = T!Outgoing(k)
    BY <2>1, <2>2 DEF T!Rows
  <2> QED
    BY <1>0, <2>1, <2>3, SeenToStays
<1>8. ASSUME NEW g \in T!Gens, T!MissUpgrade(g) PROVE StillSeenTo
  BY <1>0, <1>8, SeenToStays DEF T!MissUpgrade, T!db, T!history, T!Rows
<1>9. ASSUME NEW g \in T!Gens, T!DropRedundant(g) PROVE StillSeenTo
  <2>1. PICK b \in T!Stays :
          /\ T!MayUpgrade(g, b) /\ stored[T!PairOf(g, b)] # "none"
          /\ \A k \in T!Keys : k # T!Standalone(b) => stored'[k] = stored[k]
          /\ UNCHANGED <<booked, dropped>>
    BY <1>9 DEF T!DropRedundant, T!RemoveStandalone
  <2>2. /\ T!PairOf(g, b) \in T!Keys /\ T!Outgoing(T!PairOf(g, b)) = b
        /\ T!Outgoing(T!Standalone(b)) = b
    BY <2>1, KeyForms, PairForm DEF T!MayUpgrade, T!AtPair
  <2>3. T!PairOf(g, b) # T!Standalone(b)
    BY <2>1, PairStays DEF T!MayUpgrade, T!AtPair
  <2>4. \A k \in T!Rows : \E m \in T!Rows' : T!Outgoing(m) = T!Outgoing(k)
    BY <2>1, <2>2, <2>3 DEF T!Rows
  <2> QED
    BY <1>0, <2>1, <2>4, SeenToStays
<1>10. ASSUME NEW g \in T!Gens, T!InsertPair(g) PROVE StillSeenTo
  BY <1>0, <1>10, SeenToStays DEF T!InsertPair, T!Put, T!history, T!Rows
<1>11. ASSUME NEW g \in T!Gens, T!MissPair(g) PROVE StillSeenTo
  BY <1>0, <1>11, SeenToStays DEF T!MissPair, T!db, T!history, T!Rows
<1>12. ASSUME NEW g \in T!Gens, T!Fire(g) PROVE StillSeenTo
  BY <1>0, <1>12, SeenToStays DEF T!Fire, T!Finish, T!db, T!Rows
<1>13. ASSUME NEW g \in T!Gens, T!Throw(g) PROVE StillSeenTo
  <2>1. dropped \subseteq dropped'
    BY <1>13 DEF T!Throw, T!Retry, T!GiveUp
  <2> QED
    BY <1>0, <1>13, <2>1, SeenToStays DEF T!Throw, T!Rows
<1>14. ASSUME NEW b \in T!Stays, T!Arrive(b) PROVE StillSeenTo
  BY <1>0, <1>14, SeenToStays DEF T!Arrive, T!history, T!Rows
<1>15. ASSUME NEW b \in T!Stays, T!CancelStay(b) PROVE StillSeenTo
  BY <1>0, <1>15, SeenToStays DEF T!CancelStay, T!history, T!Rows
<1>16. ASSUME NEW b \in T!Stays, T!CancelTurnovers(b) PROVE StillSeenTo
  BY <1>0, <1>16, SeenToStays DEF T!CancelTurnovers, T!Open, T!history, T!Rows
<1>17. ASSUME NEW k \in T!Keys, T!Assign(k) \/ T!Work(k) PROVE StillSeenTo
  BY <1>0, <1>17, SeenToStays DEF T!Assign, T!Work, T!Put, T!history, T!Rows
<1>18. ASSUME NEW g \in T!Gens,
              \/ T!ConflictStandalone(g) \/ T!Reread(g) \/ T!RereadFails(g)
              \/ T!FailUpgrade(g) \/ T!DropPair(g)
       PROVE  StillSeenTo
  BY <1>0, <1>18, SeenToStays DEF T!ConflictStandalone, T!Reread,
    T!RereadFails, T!FailUpgrade, T!DropPair, T!db, T!history, T!Rows
<1>19. ASSUME UNCHANGED T!vars PROVE StillSeenTo
  BY <1>0, <1>19, SeenToStays DEF T!vars, T!db, T!history, T!Rows
<1> QED
  BY <1>1, <1>2, <1>3, <1>4, <1>5, <1>6, <1>7, <1>8, <1>9, <1>10, <1>11,
     <1>12, <1>13, <1>14, <1>15, <1>16, <1>17, <1>18, <1>19
  DEF T!Next, T!Generate

Served == T!TypeOK /\ RowsSeenTo /\ CtxSeenTo /\ PassSeenTo /\ Remembered

\* A stay the standalone pass leaves out is seen to.
LEMMA LeftOut ==
  ASSUME CtxSeenTo, NEW g \in T!Gens, NEW b \in T!Stays, b \in list[g],
         ~T!NeedsStandalone(g, b)
  PROVE  SeenTo(b)
<1>1. CASE T!HasStandalone(g, b)
  BY <1>1, KeyForms DEF T!HasStandalone, CtxSeenTo, About
<1>2. CASE T!AlreadyPaired(g, b)
  BY <1>2 DEF T!AlreadyPaired, CtxSeenTo, About
<1> QED
  BY <1>1, <1>2 DEF T!NeedsStandalone

LEMMA RowsNext ==
  TurnoverConstants /\ Served /\ [T!Next]_T!vars => RowsSeenTo'
<1> SUFFICES ASSUME TurnoverConstants, Served, [T!Next]_T!vars,
                    NEW k \in T!Rows'
             PROVE  SeenTo(k[2])'
  BY DEF RowsSeenTo
<1>1. T!TypeOK /\ StillSeenTo /\ k \in T!Keys
  BY StillSeen DEF Served, T!Rows
<1>2. CASE k \in T!Rows
  BY <1>1, <1>2, KeyStays DEF Served, RowsSeenTo, StillSeenTo
<1>3. CASE k \notin T!Rows
  <2>1. stored'[k] # stored[k] /\ stored[k] = "none" /\ stored'[k] # "none"
    BY <1>1, <1>3 DEF T!Rows
  <2>2. ASSUME NEW g \in T!Gens, T!InsertStandalone(g) PROVE SeenTo(k[2])'
    <3>1. PICK b \in T!Stays : T!Put(T!Standalone(b), "pending")
      BY <2>2 DEF T!InsertStandalone
    <3>2. k = T!Standalone(b)
      BY <1>1, <2>1, <3>1 DEF T!Put, T!TypeOK
    <3> QED
      BY <3>2, KeyForms DEF T!Standalone, SeenTo, T!Serving
  <2>3. ASSUME NEW g \in T!Gens, T!Upgrade(g) \/ T!InsertPair(g)
        PROVE  SeenTo(k[2])'
    <3>1. PICK b \in T!Stays :
            /\ T!AtPair(g, b)
            /\ \A m \in T!Keys : stored[m] = "none" /\ stored'[m] # "none" =>
                                 m = T!PairOf(g, b)
      BY <1>1, <2>3 DEF T!Upgrade, T!MayUpgrade, T!InsertPair, T!Put, T!TypeOK
    <3>2. k = T!PairOf(g, b) /\ step[g] = "pairs" /\ T!NeedsPair(g, b)
      BY <1>1, <2>1, <3>1 DEF T!AtPair
    <3>3. k[2] \in list[g]
      BY <1>1, <3>2, PairStays
    <3>4. SeenTo(k[2])
      BY <3>2, <3>3 DEF Served, PassSeenTo
    <3> QED
      BY <1>1, <3>4, KeyStays DEF StillSeenTo
  <2> QED
    BY <1>1, <2>1, <2>2, <2>3 DEF T!Next, T!Generate, T!Start, T!ReadBookings,
      T!LoadContext, T!DropStandalone, T!EndStandalones, T!MissUpgrade,
      T!ConflictStandalone, T!Reread, T!RereadFails, T!FailUpgrade, T!DropPair,
      T!DropRedundant, T!RemoveStandalone, T!MissPair, T!Fire, T!Finish,
      T!Throw, T!Arrive, T!CancelStay, T!CancelTurnovers, T!Open, T!Assign,
      T!Work, T!Put, T!db, T!vars, T!TypeOK
<1> QED
  BY <1>2, <1>3

LEMMA CtxNext ==
  TurnoverConstants /\ Served /\ [T!Next]_T!vars => CtxSeenTo'
<1> SUFFICES ASSUME TurnoverConstants, Served, [T!Next]_T!vars,
                    NEW h \in T!Gens, NEW k \in ctx'[h], NEW s \in About(k)
             PROVE  SeenTo(s)'
  BY DEF CtxSeenTo, About, T!Outgoing
<1>1. T!TypeOK /\ T!TypeOK' /\ StillSeenTo
  BY StillSeen, TurnoversTypedNext DEF Served
<1>2. k \in T!Keys /\ s \in T!Stays
  BY <1>1, KeyStays DEF T!TypeOK, About
<1> SUFFICES ASSUME k \notin ctx[h] PROVE SeenTo(s)'
  BY <1>1, <1>2 DEF Served, CtxSeenTo, StillSeenTo
<1>3. ASSUME NEW g \in T!Gens, T!LoadContext(g) PROVE SeenTo(s)'
  <2>1. k \in T!Rows
    BY <1>1, <1>3 DEF T!LoadContext, T!TypeOK
  <2>2. SeenTo(T!Outgoing(k)) /\ SeenTo(k[2])
    BY <2>1 DEF SeenTo, T!Serving, Served, RowsSeenTo
  <2> QED
    BY <1>1, <1>2, <2>2 DEF About, StillSeenTo
<1>4. ASSUME NEW g \in T!Gens, T!InsertStandalone(g) \/ T!Reread(g)
      PROVE  SeenTo(s)'
  <2>1. PICK b \in T!Stays :
          /\ \/ T!Put(T!Standalone(b), "pending")
             \/ stored[T!Standalone(b)] # "none" /\ UNCHANGED stored
          /\ ctx' = [ctx EXCEPT ![g] = @ \cup {T!Standalone(b)}]
    BY <1>1, <1>4 DEF T!InsertStandalone, T!Reread, T!Hold, T!TypeOK, T!db
  <2>2. k = T!Standalone(b) /\ T!Standalone(b) \in T!Keys
    BY <1>1, <2>1, KeyForms DEF T!TypeOK
  <2>3. s = b /\ k \in T!Rows'
    BY <1>1, <2>1, <2>2, KeyForms DEF About, T!Standalone, T!Rows, T!Put,
      T!TypeOK
  <2> QED
    BY <2>2, <2>3, KeyForms DEF SeenTo, T!Serving
<1>5. ASSUME NEW g \in T!Gens,
             \/ T!Upgrade(g) \/ T!MissUpgrade(g) \/ T!DropRedundant(g)
             \/ T!FailUpgrade(g)
      PROVE  SeenTo(s)'
  <2>1. PICK b \in T!Stays : /\ T!AtPair(g, b)
                           /\ ctx' = [ctx EXCEPT ![g] = @ \cup {T!PairOf(g, b)}]
    BY <1>5 DEF T!Upgrade, T!MissUpgrade, T!DropRedundant, T!RemoveStandalone,
      T!FailUpgrade, T!MayUpgrade, T!Known
  <2>2. h = g /\ k = T!PairOf(g, b) /\ step[g] = "pairs" /\ T!NeedsPair(g, b)
    BY <1>1, <2>1 DEF T!AtPair, T!TypeOK
  <2>3. s \in list[g]
    BY <1>1, <2>2, PairStays
  <2> QED
    BY <1>1, <1>2, <2>2, <2>3 DEF Served, PassSeenTo, StillSeenTo
<1> QED
  BY <1>1, <1>3, <1>4, <1>5 DEF T!Next, T!Generate, T!Start, T!ReadBookings,
    T!DropStandalone, T!ConflictStandalone, T!RereadFails, T!EndStandalones,
    T!InsertPair, T!MissPair, T!DropPair, T!Fire, T!Finish, T!Throw, T!Arrive,
    T!CancelStay, T!CancelTurnovers, T!Assign, T!Work, T!local, T!vars, T!TypeOK

LEMMA PassNext ==
  TurnoverConstants /\ Served /\ [T!Next]_T!vars => PassSeenTo'
<1> SUFFICES ASSUME TurnoverConstants, Served, [T!Next]_T!vars,
                    NEW h \in T!Gens, NEW s \in list'[h],
                    \/ step'[h] = "pairs"
                    \/ step'[h] = "standalones" /\ s < stay'[h]
                    \/ step'[h] = "reread" /\ s <= stay'[h]
             PROVE  SeenTo(s)'
  BY DEF PassSeenTo
<1>1. T!TypeOK /\ T!TypeOK' /\ StillSeenTo
  BY StillSeen, TurnoversTypedNext DEF Served
<1>2. s \in T!Stays
  BY <1>1 DEF T!TypeOK
<1> SUFFICES ASSUME ~SeenTo(s) PROVE SeenTo(s)'
  BY <1>1, <1>2 DEF StillSeenTo
<1>3. ASSUME NEW g \in T!Gens,
             T!ReadBookings(g) \/ T!LoadContext(g) \/ T!Fire(g) \/ T!Throw(g)
      PROVE  SeenTo(s)'
  <2>1. /\ \/ step'[g] \in {"idle", "read", "context", "over"}
           \/ step'[g] = "standalones" /\ stay'[g] = 1
        /\ \A f \in T!Gens \ {g} : /\ step'[f] = step[f] /\ stay'[f] = stay[f]
                                  /\ list'[f] = list[f]
    BY <1>1, <1>3 DEF T!ReadBookings, T!LoadContext, T!Fire, T!Finish, T!Throw,
      T!Goto, T!Ended, T!Retry, T!GiveUp, T!TypeOK
  <2>2. h # g
    BY <1>2, <2>1 DEF T!Stays
  <2> QED
    BY <2>1, <2>2 DEF Served, PassSeenTo
<1>4. ASSUME NEW g \in T!Gens,
             T!InsertStandalone(g) \/ T!DropStandalone(g) \/ T!ConflictStandalone(g)
      PROVE  SeenTo(s)'
  <2>1. PICK b \in T!Stays :
          /\ T!AtStandalone(g, b) /\ SeenTo(b)' /\ UNCHANGED list
          /\ \A f \in T!Gens \ {g} : stay'[f] = stay[f] /\ step'[f] = step[f]
          /\ \/ stay'[g] = b + 1 /\ step'[g] = "standalones"
             \/ stay'[g] = b /\ step'[g] = "reread"
    <3>1. CASE T!DropStandalone(g)
      BY <1>1, <3>1 DEF T!DropStandalone, T!Advance, T!AtStandalone, SeenTo,
        T!TypeOK
    <3>2. CASE T!InsertStandalone(g) \/ T!ConflictStandalone(g)
      <4>1. PICK b \in T!Stays :
              /\ T!AtStandalone(g, b) /\ UNCHANGED list
              /\ \/ T!Advance(g, b) /\ UNCHANGED step
                 \/ stay' = [stay EXCEPT ![g] = b] /\ T!Goto(g, "reread")
              /\ \/ T!Put(T!Standalone(b), "pending")
                 \/ stored[T!Standalone(b)] # "none" /\ UNCHANGED stored
        BY <3>2 DEF T!InsertStandalone, T!ConflictStandalone, T!db
      <4>2. T!Standalone(b) \in T!Rows'
        BY <1>1, <4>1, KeyForms DEF T!Put, T!Rows, T!TypeOK
      <4>3. SeenTo(b)'
        BY <4>2, KeyForms DEF SeenTo, T!Serving
      <4> QED
        BY <1>1, <4>1, <4>3 DEF T!Advance, T!Goto, T!AtStandalone, T!TypeOK
    <3> QED
      BY <1>4, <3>1, <3>2
  <2>2. CASE h # g
    BY <1>1, <2>1, <2>2 DEF Served, PassSeenTo
  <2>3. CASE h = g
    <3>1. /\ s \in list[g] /\ s <= b
          /\ stay[g] \in Nat /\ b \in Nat /\ s \in Nat
          /\ step[g] = "standalones"
      BY <1>1, <1>2, <2>1, <2>3 DEF T!AtStandalone, T!TypeOK, T!Stays
    <3>2. CASE s < stay[g]
      BY <3>1, <3>2 DEF Served, PassSeenTo
    <3>3. CASE s >= stay[g] /\ s < b
      <4>1. s \in stay[g]..(b - 1)
        BY <3>1, <3>3
      <4>2. ~T!NeedsStandalone(g, s)
        BY <2>1, <4>1 DEF T!AtStandalone
      <4> QED
        BY <1>2, <3>1, <4>2, LeftOut DEF Served
    <3>4. CASE s = b
      BY <2>1, <3>4
    <3> QED
      BY <3>1, <3>2, <3>3, <3>4
  <2> QED
    BY <2>2, <2>3
<1>5. ASSUME NEW g \in T!Gens, T!EndStandalones(g) PROVE SeenTo(s)'
  <2>1. /\ step[g] = "standalones" /\ \A b \in T!Stays : ~T!AtStandalone(g, b)
        /\ step' = [step EXCEPT ![g] = "pairs"] /\ list' = list
        /\ stay' = [stay EXCEPT ![g] = 1]
    BY <1>5 DEF T!EndStandalones, T!Goto
  <2>2. CASE h # g
    BY <1>1, <2>1, <2>2 DEF Served, PassSeenTo, T!TypeOK
  <2>3. CASE h = g
    <3>1. s \in list[g]
      BY <2>1, <2>3
    <3>2. T!NeedsStandalone(g, s)
      BY <1>2, <3>1, LeftOut DEF Served
    <3>3. s >= stay[g]
      BY <1>1, <1>2, <2>1, <3>1 DEF Served, PassSeenTo, T!TypeOK, T!Stays
    <3> DEFINE Needy ==
          {b \in T!Stays : b >= stay[g] /\ T!NeedsStandalone(g, b)}
    <3>4. Needy \subseteq Nat /\ Needy # {}
      BY <1>2, <3>2, <3>3 DEF T!Stays
    <3>5. PICK b \in Needy : \A c \in Needy : b <= c
      BY <3>4, LeastElement
    <3>6. /\ b \in T!Stays /\ b >= stay[g] /\ T!NeedsStandalone(g, b)
          /\ b \in Nat /\ stay[g] \in Nat /\ stay[g] >= 1 /\ b <= N /\ N \in Nat
      <4>1. /\ b \in T!Stays /\ b >= stay[g] /\ T!NeedsStandalone(g, b)
            /\ stay[g] \in 1..(N + 1) /\ N \in Nat
        BY <1>1, <3>5, TurnoverFacts DEF T!TypeOK
      <4> QED
        BY <4>1 DEF T!Stays
    <3>7. \A c \in stay[g]..(b - 1) : ~T!NeedsStandalone(g, c)
      <4> SUFFICES ASSUME NEW c \in stay[g]..(b - 1), T!NeedsStandalone(g, c)
                   PROVE  FALSE
        OBVIOUS
      <4>1. c \in T!Stays /\ c >= stay[g] /\ ~(b <= c)
        BY <3>6 DEF T!Stays
      <4> QED
        BY <3>5, <4>1
    <3>8. T!AtStandalone(g, b)
      BY <2>1, <3>6, <3>7 DEF T!AtStandalone
    <3> QED
      BY <2>1, <3>6, <3>8
  <2> QED
    BY <2>2, <2>3
<1>6. ASSUME NEW g \in T!Gens,
             \/ T!Upgrade(g) \/ T!MissUpgrade(g) \/ T!DropRedundant(g)
             \/ T!InsertPair(g) \/ T!MissPair(g) \/ T!FailUpgrade(g)
             \/ T!DropPair(g)
      PROVE  SeenTo(s)'
  <2>1. /\ step[g] = "pairs" /\ UNCHANGED <<step, list>>
        /\ \A f \in T!Gens \ {g} : stay'[f] = stay[f]
    BY <1>1, <1>6 DEF T!Upgrade, T!MissUpgrade, T!DropRedundant,
      T!RemoveStandalone, T!MayUpgrade, T!InsertPair, T!MissPair,
      T!FailUpgrade, T!DropPair, T!AtPair, T!Advance, T!TypeOK
  <2> QED
    BY <1>1, <2>1 DEF Served, PassSeenTo
<1>7. ASSUME T!Start(Handler) PROVE SeenTo(s)'
  BY <1>1, <1>7, TurnoverFacts DEF T!Start, T!Goto, Served, PassSeenTo,
    T!TypeOK
<1>8. ASSUME NEW g \in T!Gens, T!Reread(g) \/ T!RereadFails(g)
      PROVE  SeenTo(s)'
  <2>1. /\ step[g] = "reread" /\ UNCHANGED list
        /\ step'[g] = "standalones" /\ stay'[g] = stay[g] + 1
        /\ \A f \in T!Gens \ {g} : step'[f] = step[f] /\ stay'[f] = stay[f]
    BY <1>1, <1>8 DEF T!Reread, T!RereadFails, T!Goto, T!Advance, T!TypeOK
  <2>2. s \in Nat /\ stay[g] \in Nat
    BY <1>1, <1>2 DEF T!TypeOK, T!Stays
  <2> QED
    BY <2>1, <2>2 DEF Served, PassSeenTo
<1> QED
  BY <1>1, <1>3, <1>4, <1>5, <1>6, <1>7, <1>8 DEF T!Next, T!Generate, T!Arrive,
    T!CancelStay, T!CancelTurnovers, T!Assign, T!Work, T!local, T!vars,
    Served, PassSeenTo

LEMMA RememberedNext ==
  TurnoverConstants /\ Served /\ [T!Next]_T!vars => Remembered'
<1> SUFFICES ASSUME TurnoverConstants, Served, [T!Next]_T!vars,
                    NEW s \in T!Stays, booked'[s] = "confirmed",
                    ~SeenTo(s)', s \notin queue'
             PROVE  InHand(s)'
  BY DEF Remembered
<1>1. T!TypeOK /\ T!TypeOK' /\ StillSeenTo /\ Handler \in T!Gens
  BY StillSeen, TurnoversTypedNext, TurnoverFacts DEF Served
<1>2. ~SeenTo(s)
  BY <1>1 DEF StillSeenTo
<1>3. booked[s] = "confirmed" => s \in queue \/ InHand(s)
  BY <1>2 DEF Served, Remembered
<1>4. s # T!None
  BY DEF T!Stays, T!None
<1>5. ASSUME T!Start(Handler) PROVE InHand(s)'
  BY <1>1, <1>3, <1>4, <1>5 DEF T!Start, T!Goto, InHand, T!TypeOK
<1>6. ASSUME NEW g \in T!Gens, T!ReadBookings(g) PROVE InHand(s)'
  BY <1>1, <1>3, <1>6 DEF T!ReadBookings, T!Confirmed, T!Goto, T!Ended,
    T!EndJob, InHand, T!TypeOK
<1>7. ASSUME NEW g \in T!Gens, T!Fire(g) PROVE InHand(s)'
  <2>1. g # Handler
    BY <1>1, <1>2, <1>3, <1>7 DEF T!Fire, T!Finish, Served, PassSeenTo, InHand
  <2> QED
    BY <1>1, <1>3, <1>7, <2>1 DEF T!Fire, T!Finish, T!Goto, T!EndJob, InHand,
      T!TypeOK
<1>8. ASSUME NEW g \in T!Gens, T!Throw(g) PROVE InHand(s)'
  <2>1. CASE g # Handler
    BY <1>1, <1>3, <1>8, <2>1 DEF T!Throw, T!GiveUp, T!Goto, T!EndJob, InHand,
      T!TypeOK
  <2>2. CASE g = Handler /\ T!Retry(g)
    BY <1>1, <1>3, <1>8, <2>2 DEF T!Throw, T!Retry, T!Goto, InHand, T!TypeOK
  <2>3. CASE g = Handler /\ T!GiveUp(g)
    BY <1>3, <1>8, <2>3 DEF T!Throw, T!GiveUp, InHand, SeenTo
  <2> QED
    BY <1>8, <2>1, <2>2, <2>3 DEF T!Throw
<1>9. ASSUME NEW g \in T!Gens,
             \/ T!LoadContext(g) \/ T!EndStandalones(g)
             \/ T!ConflictStandalone(g) \/ T!Reread(g) \/ T!RereadFails(g)
      PROVE  InHand(s)'
  <2>1. UNCHANGED <<booked, queue, task, list>> /\ step[g] # "read"
    BY <1>9 DEF T!LoadContext, T!EndStandalones, T!ConflictStandalone,
      T!AtStandalone, T!Reread, T!RereadFails, T!db
  <2>2. g # Handler => step'[Handler] = step[Handler]
    BY <1>1, <1>9 DEF T!LoadContext, T!EndStandalones, T!ConflictStandalone,
      T!Reread, T!RereadFails, T!Goto, T!TypeOK
  <2> QED
    BY <1>3, <2>1, <2>2 DEF InHand
<1>10. ASSUME NEW g \in T!Gens,
             \/ T!InsertStandalone(g) \/ T!DropStandalone(g)
             \/ T!Upgrade(g) \/ T!MissUpgrade(g) \/ T!DropRedundant(g)
             \/ T!FailUpgrade(g) \/ T!InsertPair(g) \/ T!MissPair(g)
             \/ T!DropPair(g)
      PROVE  InHand(s)'
  <2>1. UNCHANGED <<booked, queue, task, step, list>>
    BY <1>10 DEF T!InsertStandalone, T!DropStandalone, T!Upgrade,
      T!MissUpgrade, T!DropRedundant, T!RemoveStandalone, T!FailUpgrade,
      T!InsertPair, T!MissPair, T!DropPair, T!db
  <2> QED
    BY <1>3, <2>1 DEF InHand
<1>11. ASSUME NEW b \in T!Stays,
              T!Arrive(b) \/ T!CancelStay(b) \/ T!CancelTurnovers(b)
       PROVE  InHand(s)'
  BY <1>1, <1>3, <1>11 DEF T!Arrive, T!CancelStay, T!CancelTurnovers, T!local,
    InHand, T!TypeOK
<1>12. ASSUME (\E k \in T!Keys : T!Assign(k) \/ T!Work(k)) \/ UNCHANGED T!vars
       PROVE  InHand(s)'
  BY <1>3, <1>12 DEF T!Assign, T!Work, T!vars, T!db, T!local, InHand
<1> QED
  BY <1>5, <1>6, <1>7, <1>8, <1>9, <1>10, <1>11, <1>12 DEF T!Next, T!Generate

LEMMA ServedNext ==
  TurnoverConstants /\ Served /\ [T!Next]_T!vars => Served'
BY TurnoversTypedNext, RowsNext, CtxNext, PassNext, RememberedNext DEF Served

LEMMA ServedInit == TurnoverConstants /\ T!Init => Served
<1> SUFFICES ASSUME TurnoverConstants, T!Init PROVE Served
  OBVIOUS
<1>1. T!TypeOK
  BY TurnoversTyped0
<1>2. RowsSeenTo /\ CtxSeenTo /\ PassSeenTo /\ Remembered
  BY DEF T!Init, RowsSeenTo, CtxSeenTo, PassSeenTo, Remembered, T!Rows
<1> QED
  BY <1>1, <1>2 DEF Served

\* No confirmed stay is forgotten (generateTurnoversForProperty, run by the
\* booking/detected handler): it has a turnover, or its event is queued, or the
\* handler's run is at that event and has the stay in the bookings it listed or
\* has them still to read, or an insert for it failed or its event has spent its
\* retries.
THEOREM StaysAreRememberedTheorem ==
  TurnoverConstants => (T!Spec => []Remembered)
<1> SUFFICES ASSUME TurnoverConstants PROVE T!Spec => []Remembered
  OBVIOUS
<1>1. T!Init => Served
  BY ServedInit
<1>2. Served /\ [T!Next]_T!vars => Served'
  BY ServedNext
<1>3. Served => Remembered
  BY DEF Served
<1> QED
  BY <1>1, <1>2, <1>3, PTL DEF T!Spec

LEMMA AttributedNext ==
  TurnoverConstants /\ T!TypeOK /\ Attributed /\ [T!Next]_T!vars => Attributed'
<1> SUFFICES ASSUME TurnoverConstants, T!TypeOK, Attributed, [T!Next]_T!vars,
                    NEW k \in T!Rows', k \notin fired' \cup undone'
             PROVE  ToAnnounce(k)'
  BY DEF Attributed
<1>1. T!TypeOK' /\ k \in T!Keys /\ stored'[k] # "none"
  BY TurnoversTypedNext DEF T!Rows
<1>2. stored[k] # "none" => k \in fired \cup undone \/ ToAnnounce(k)
  BY <1>1 DEF Attributed, T!Rows
<1> USE DEF T!TypeOK, ToAnnounce
<1>3. ASSUME NEW g \in T!Gens, T!InsertStandalone(g) PROVE ToAnnounce(k)'
  BY <1>1, <1>2, <1>3, KeyForms DEF T!InsertStandalone, T!Hold, T!Put, T!history
<1>4. ASSUME NEW g \in T!Gens, T!Upgrade(g) PROVE ToAnnounce(k)'
  <2>1. PICK b \in T!Stays :
          /\ T!AtPair(g, b) /\ stored[T!Standalone(b)] # "none"
          /\ stored' = [stored EXCEPT
                ![T!Standalone(b)] = "none",
                ![T!PairOf(g, b)] = stored[T!Standalone(b)]]
          /\ fired' = T!Rekey(fired, T!Standalone(b), T!PairOf(g, b))
          /\ undone' = T!Rekey(undone, T!Standalone(b), T!PairOf(g, b))
          /\ made' = [h \in T!Gens |->
                        T!Rekey(made[h], T!Standalone(b), T!PairOf(g, b))]
    BY <1>4 DEF T!Upgrade, T!MayUpgrade
  <2>2. /\ T!Standalone(b) \in T!Keys /\ T!PairOf(g, b) \in T!Keys
        /\ T!PairOf(g, b) # T!Standalone(b)
    BY <2>1, KeyForms, PairStays DEF T!AtPair
  <2>3. CASE k = T!PairOf(g, b)
    <3>1. T!Standalone(b) \in fired \cup undone \/ ToAnnounce(T!Standalone(b))
      BY <2>1, <2>2 DEF Attributed, T!Rows
    <3> QED
      BY <2>1, <2>2, <2>3, <3>1 DEF T!Rekey
  <2>4. CASE k # T!PairOf(g, b)
    <3>1. k # T!Standalone(b) /\ stored[k] # "none"
      BY <1>1, <2>1, <2>2, <2>4
    <3> QED
      BY <1>2, <2>1, <2>4, <3>1 DEF T!Rekey
  <2> QED
    BY <2>3, <2>4
<1>5. ASSUME NEW g \in T!Gens, T!DropRedundant(g) PROVE ToAnnounce(k)'
  BY <1>1, <1>2, <1>5 DEF T!DropRedundant, T!RemoveStandalone
<1>6. ASSUME NEW g \in T!Gens, T!InsertPair(g) PROVE ToAnnounce(k)'
  BY <1>1, <1>2, <1>6, PairForm DEF T!InsertPair, T!AtPair, T!Put, T!history
<1>7. ASSUME NEW g \in T!Gens, T!Fire(g) PROVE ToAnnounce(k)'
  BY <1>1, <1>2, <1>7 DEF T!Fire, T!Finish, T!db, T!Rows
<1>8. ASSUME NEW g \in T!Gens, T!Throw(g) PROVE ToAnnounce(k)'
  BY <1>1, <1>2, <1>8 DEF T!Throw, T!db
<1>9. ASSUME NEW g \in T!Gens,
             \/ T!ReadBookings(g) \/ T!LoadContext(g) \/ T!EndStandalones(g)
             \/ T!DropStandalone(g) \/ T!MissUpgrade(g) \/ T!MissPair(g)
             \/ T!ConflictStandalone(g) \/ T!Reread(g) \/ T!RereadFails(g)
             \/ T!FailUpgrade(g) \/ T!DropPair(g)
      PROVE  ToAnnounce(k)'
  BY <1>1, <1>2, <1>9 DEF T!ReadBookings, T!LoadContext, T!EndStandalones,
    T!DropStandalone, T!MissUpgrade, T!MissPair, T!ConflictStandalone,
    T!Reread, T!RereadFails, T!FailUpgrade, T!DropPair, T!Hold, T!db, T!history
<1>10. ASSUME \/ T!Start(Handler) \/ UNCHANGED T!vars
              \/ \E b \in T!Stays :
                   T!Arrive(b) \/ T!CancelStay(b) \/ T!CancelTurnovers(b)
              \/ \E m \in T!Keys : T!Assign(m) \/ T!Work(m)
       PROVE  ToAnnounce(k)'
  BY <1>1, <1>2, <1>10 DEF T!Start, T!Arrive, T!CancelStay, T!CancelTurnovers,
    T!Assign, T!Work, T!Open, T!Put, T!vars, T!db, T!local, T!history
<1> QED
  BY <1>3, <1>4, <1>5, <1>6, <1>7, <1>8, <1>9, <1>10 DEF T!Next, T!Generate

\* Every row of turnovers is announced or accounted for: its turnover/created
\* event is sent, or a generator in flight has it among those it created and will
\* send (created, newTurnoverIds), or the attempt that created it failed before it
\* sent them.  An upgrade carries this over to the pair's row.
THEOREM RowsAreAttributedTheorem ==
  TurnoverConstants => (T!Spec => []Attributed)
<1> SUFFICES ASSUME TurnoverConstants PROVE T!Spec => []Attributed
  OBVIOUS
<1>1. T!Init => T!TypeOK
  BY TurnoversTyped0
<1>2. T!Init => Attributed
  BY DEF T!Init, Attributed, T!Rows
<1>3. T!TypeOK /\ Attributed /\ [T!Next]_T!vars => T!TypeOK' /\ Attributed'
  BY TurnoversTypedNext, AttributedNext
<1> QED
  BY <1>1, <1>2, <1>3, PTL DEF T!Spec

-----------------------------------------------------------------------------
(***************************************************************************)
(* The sync of one calendar feed, for any number of stays: FeedSync, with  *)
(* constants and variables of its own.                                     *)
(***************************************************************************)
CONSTANTS Stays, Known, Cron, Manual, FaultAt, MaxChanges, MaxFailures

VARIABLES feed, past, bookings, detected, job, place, got, existing, new, gone,
          crew, changes, failed, settled, lapsed, unheard, forgot

F == INSTANCE FeedSync WITH MaxFaults <- MaxFailures, rows <- bookings,
                            queue <- detected, pc <- place, faults <- failed

\* FeedAssumption, of these constants.
FeedConstants ==
  Known \subseteq Stays /\ MaxChanges \in Nat /\ MaxFailures \in 0..2

LEMMA FeedFacts ==
  FeedConstants =>
    Known \subseteq Stays /\ MaxChanges \in Nat /\ MaxFailures \in 0..2
BY DEF FeedConstants

\* Places of a run that has upserted what it downloaded.
Reporting == {"absent", "turnovers", "notify", "build", "fire"}

\* A run holds what it has still to announce and to tell at the places where
\* it will, and nothing elsewhere.
HoldsWhileReporting ==
  \A s \in F!Syncs : /\ place[s] \notin Reporting => new[s] = {}
                     /\ place[s] # "notify" => crew[s] = {}

\* Bookings are not deleted, and one that was ever cancelled has settled.
RowsLast ==
  \A b \in Stays :
    /\ bookings[b] = "cancelled" => b \in settled
    /\ \A s \in F!Syncs : /\ existing[s][b] # "none" => bookings[b] # "none"
                          /\ b \in gone[s] => bookings[b] # "none"

\* A stay that came in and has not been announced is in the hands of a run.
Announced ==
  \A b \in Stays : bookings[b] # "none" =>
    b \in settled \cup forgot \/ \E s \in F!Syncs : b \in new[s]

\* So is a crew that lost its turnover.
Told ==
  \A b \in Stays : b \in unheard =>
    b \in forgot \/ \E s \in F!Syncs : b \in crew[s]

FeedInv == F!TypeOK /\ HoldsWhileReporting /\ RowsLast /\ Announced /\ Told

LEMMA FeedTypedNext ==
  FeedConstants /\ F!TypeOK /\ [F!Next]_F!vars => F!TypeOK'
<1> SUFFICES ASSUME FeedConstants, F!TypeOK, [F!Next]_F!vars PROVE F!TypeOK'
  OBVIOUS
<1> USE FeedFacts DEF F!TypeOK, F!Places
<1>1. ASSUME NEW s \in F!Syncs, F!Download(s) PROVE F!TypeOK'
  BY <1>1 DEF F!Download, F!Goto, F!db, F!bounds, F!history
<1>2. ASSUME NEW s \in F!Syncs, F!ReadExisting(s) PROVE F!TypeOK'
  BY <1>2 DEF F!ReadExisting, F!Goto, F!db, F!bounds, F!history
<1>3. ASSUME NEW s \in F!Syncs, F!Upsert(s) PROVE F!TypeOK'
  BY <1>3 DEF F!Upsert, F!NewIn, F!CancelledIn, F!Settle, F!Goto, F!bounds
<1>4. ASSUME NEW s \in F!Syncs, F!CancelAbsent(s) PROVE F!TypeOK'
  BY <1>4 DEF F!CancelAbsent, F!WriteAbsent, F!AbsentFromFeed, F!Absent,
    F!Settle, F!Record, F!Goto, F!Nowhere, F!NoRows
<1>5. ASSUME NEW s \in F!Syncs, F!LoseBookings(s) PROVE F!TypeOK'
  BY <1>5 DEF F!LoseBookings, F!WriteAbsent, F!AbsentFromFeed, F!Absent,
    F!Settle, F!Lost, F!Again, F!Goto, F!NoRows
<1>6. ASSUME NEW s \in F!Syncs, F!CancelTurnovers(s) PROVE F!TypeOK'
  BY <1>6 DEF F!CancelTurnovers, F!WriteTurnovers, F!LoseWork, F!Record, F!Goto
<1>7. ASSUME NEW s \in F!Syncs, F!LoseCrew(s) PROVE F!TypeOK'
  BY <1>7 DEF F!LoseCrew, F!WriteTurnovers, F!LoseWork, F!Lost
<1>8. ASSUME NEW s \in F!Syncs, F!Notify(s) PROVE F!TypeOK'
  BY <1>8 DEF F!Notify, F!Goto, F!db, F!bounds
<1>9. ASSUME NEW s \in F!Syncs, F!Build(s) PROVE F!TypeOK'
  BY <1>9 DEF F!Build, F!Goto, F!db, F!bounds, F!history
<1>10. ASSUME NEW s \in F!Syncs, F!Fire(s) PROVE F!TypeOK'
  BY <1>10 DEF F!Fire, F!Settle, F!Goto, F!bounds
<1>11. ASSUME NEW s \in F!Syncs, F!Throw(s) PROVE F!TypeOK'
  <2>1. CASE place[s] \in {"existing", "upsert", "absent"}
    <3>1. /\ forgot' = forgot \cup new[s] /\ new' = [new EXCEPT ![s] = {}]
          /\ existing' = [existing EXCEPT ![s] = F!NoRows]
          /\ gone' = [gone EXCEPT ![s] = {}]
          /\ place' = [place EXCEPT ![s] = "existing"]
      BY <1>11, <2>1 DEF F!Throw, F!Again, F!Goto
    <3>2. F!NoRows \in [Stays -> {"none", "confirmed", "cancelled"}]
      BY DEF F!NoRows
    <3>3. /\ forgot' \subseteq Stays /\ new' \in [F!Syncs -> SUBSET Stays]
          /\ gone' \in [F!Syncs -> SUBSET Stays]
          /\ place' \in [F!Syncs -> F!Places]
          /\ existing' \in
                [F!Syncs -> [Stays -> {"none", "confirmed", "cancelled"}]]
      BY <3>1, <3>2
    <3> QED
      BY <1>11, <3>3 DEF F!Throw, F!db
  <2>2. CASE place[s] \notin {"existing", "upsert", "absent"}
    BY <1>11, <2>2 DEF F!Throw, F!db
  <2> QED
    BY <2>1, <2>2
<1>12. ASSUME NEW b \in Stays, F!Generate(b) PROVE F!TypeOK'
  BY <1>12 DEF F!Generate, F!local, F!bounds, F!history
<1>13. ASSUME NEW b \in Stays, F!StartWork(b) PROVE F!TypeOK'
  BY <1>13 DEF F!StartWork, F!local, F!bounds, F!history
<1>14. ASSUME NEW b \in Stays,
             NEW status \in {"absent", "confirmed", "cancelled"},
             F!Publish(b, status) PROVE F!TypeOK'
  BY <1>14 DEF F!Publish, F!Change, F!db, F!local
<1>15. ASSUME F!Unpublish PROVE F!TypeOK'
  BY <1>15 DEF F!Unpublish, F!Change, F!Nowhere, F!db, F!local, F!history
<1>16. ASSUME NEW b \in Stays, F!Pass(b) PROVE F!TypeOK'
  BY <1>16 DEF F!Pass, F!Change, F!db, F!local, F!history
<1>17. ASSUME NEW b \in Stays, F!CancelBooking(b) PROVE F!TypeOK'
  BY <1>17 DEF F!CancelBooking, F!Change, F!Settle, F!local
<1>18. ASSUME UNCHANGED F!vars PROVE F!TypeOK'
  BY <1>18 DEF F!vars, F!db, F!local, F!bounds, F!history
<1> QED
  BY <1>1, <1>2, <1>3, <1>4, <1>5, <1>6, <1>7, <1>8, <1>9, <1>10, <1>11, <1>12,
    <1>13, <1>14, <1>15, <1>16, <1>17, <1>18 DEF F!Next, F!Step, F!Edit

LEMMA FeedNext ==
  FeedConstants /\ FeedInv /\ [F!Next]_F!vars => FeedInv'
<1> SUFFICES ASSUME FeedConstants, FeedInv, [F!Next]_F!vars PROVE FeedInv'
  OBVIOUS
<1> DEFINE Rest == HoldsWhileReporting /\ RowsLast /\ Announced /\ Told
<1>0. F!TypeOK'
  BY FeedTypedNext DEF FeedInv
<1> USE DEF FeedInv, F!TypeOK, HoldsWhileReporting, RowsLast, Announced, Told,
  Reporting, F!Places
<1>1. ASSUME NEW s \in F!Syncs, F!Download(s) PROVE Rest'
  BY <1>1 DEF F!Download, F!Goto, F!db, F!bounds, F!history
<1>2. ASSUME NEW s \in F!Syncs, F!ReadExisting(s) PROVE Rest'
  BY <1>2 DEF F!ReadExisting, F!Goto, F!db, F!bounds, F!history
<1>3. ASSUME NEW s \in F!Syncs, F!Upsert(s) PROVE Rest'
  <2> DEFINE after == [b \in Stays |-> IF got[s][b] = "absent" THEN bookings[b]
                                      ELSE got[s][b]]
  <2>1. /\ place[s] = "upsert" /\ bookings' = after
        /\ new' = [new EXCEPT ![s] = F!NewIn(s)]
        /\ gone' = [gone EXCEPT ![s] = F!CancelledIn(s)]
        /\ settled' = settled \cup {b \in Stays : after[b] = "cancelled"}
        /\ place' = [place EXCEPT ![s] = "absent"]
        /\ UNCHANGED <<existing, crew, unheard, forgot>>
    BY <1>3 DEF F!Upsert, F!Settle, F!Goto
  <2>2. HoldsWhileReporting'
    BY <2>1
  <2>3. \A b \in Stays : bookings[b] # "none" => bookings'[b] # "none"
    <3>1. got[s] \in [Stays -> {"absent", "confirmed", "cancelled"}]
      OBVIOUS
    <3> QED
      BY <2>1, <3>1
  <2>4. RowsLast'
    BY <2>1, <2>3 DEF F!CancelledIn
  <2>5. new[s] = {}
    BY <2>1
  <2>6. ASSUME NEW b \in Stays, bookings'[b] # "none"
        PROVE  b \in (settled \cup forgot)' \/ \E u \in F!Syncs : b \in new'[u]
    <3>1. CASE bookings[b] # "none"
      BY <2>1, <2>5, <3>1
    <3>2. CASE bookings[b] = "none"
      <4>1. existing[s][b] = "none"
        BY <3>2
      <4>2. got[s][b] \in {"confirmed", "cancelled"} /\ bookings'[b] = got[s][b]
        BY <2>1, <2>6, <3>2
      <4>3. got[s][b] = "confirmed" => b \in new'[s]
        BY <2>1, <4>1 DEF F!NewIn
      <4> QED
        BY <2>1, <4>2, <4>3
    <3> QED
      BY <3>1, <3>2
  <2>7. Announced' /\ Told'
    BY <2>1, <2>6
  <2> QED
    BY <2>2, <2>4, <2>7
<1>4. ASSUME NEW s \in F!Syncs, F!CancelAbsent(s) PROVE Rest'
  BY <1>4 DEF F!CancelAbsent, F!WriteAbsent, F!AbsentFromFeed, F!Absent,
    F!Settle, F!Record, F!Goto, F!Nowhere, F!NoRows
<1>5. ASSUME NEW s \in F!Syncs, F!LoseBookings(s) PROVE Rest'
  BY <1>5 DEF F!LoseBookings, F!WriteAbsent, F!AbsentFromFeed, F!Absent,
    F!Settle, F!Lost, F!Again, F!Goto, F!NoRows
<1>6. ASSUME NEW s \in F!Syncs, F!CancelTurnovers(s) PROVE Rest'
  BY <1>6 DEF F!CancelTurnovers, F!WriteTurnovers, F!LoseWork, F!Record, F!Goto
<1>7. ASSUME NEW s \in F!Syncs, F!LoseCrew(s) PROVE Rest'
  BY <1>7 DEF F!LoseCrew, F!WriteTurnovers, F!LoseWork, F!Lost
<1>8. ASSUME NEW s \in F!Syncs, F!Notify(s) PROVE Rest'
  BY <1>8 DEF F!Notify, F!Goto, F!db, F!bounds
<1>9. ASSUME NEW s \in F!Syncs, F!Build(s) PROVE Rest'
  BY <1>9 DEF F!Build, F!Goto, F!db, F!bounds, F!history
<1>10. ASSUME NEW s \in F!Syncs, F!Fire(s) PROVE Rest'
  BY <1>10 DEF F!Fire, F!Settle, F!Goto, F!bounds
<1>11. ASSUME NEW s \in F!Syncs, F!Throw(s) PROVE Rest'
  <2>1. CASE place[s] \in {"existing", "upsert", "absent"}
    <3>1. /\ forgot' = forgot \cup new[s] /\ new' = [new EXCEPT ![s] = {}]
          /\ existing' = [existing EXCEPT ![s] = F!NoRows]
          /\ gone' = [gone EXCEPT ![s] = {}]
          /\ place' = [place EXCEPT ![s] = "existing"]
          /\ UNCHANGED <<bookings, crew, settled, unheard>>
      BY <1>11, <2>1 DEF F!Throw, F!Again, F!Goto, F!db
    <3>2. HoldsWhileReporting' /\ RowsLast'
      BY <2>1, <3>1 DEF F!NoRows
    <3>3. Announced' /\ Told'
      BY <3>1
    <3> QED
      BY <3>2, <3>3
  <2>2. CASE place[s] \notin {"existing", "upsert", "absent"}
    BY <1>11, <2>2 DEF F!Throw, F!db
  <2> QED
    BY <2>1, <2>2
<1>12. ASSUME NEW b \in Stays, F!Generate(b) PROVE Rest'
  BY <1>12 DEF F!Generate, F!local, F!bounds, F!history
<1>13. ASSUME NEW b \in Stays, F!StartWork(b) PROVE Rest'
  BY <1>13 DEF F!StartWork, F!local, F!bounds, F!history
<1>14. ASSUME NEW b \in Stays,
             NEW status \in {"absent", "confirmed", "cancelled"},
             F!Publish(b, status) PROVE Rest'
  BY <1>14 DEF F!Publish, F!Change, F!db, F!local
<1>15. ASSUME F!Unpublish PROVE Rest'
  BY <1>15 DEF F!Unpublish, F!Change, F!Nowhere, F!db, F!local, F!history
<1>16. ASSUME NEW b \in Stays, F!Pass(b) PROVE Rest'
  BY <1>16 DEF F!Pass, F!Change, F!db, F!local, F!history
<1>17. ASSUME NEW b \in Stays, F!CancelBooking(b) PROVE Rest'
  BY <1>17 DEF F!CancelBooking, F!Change, F!Settle, F!local
<1>18. ASSUME UNCHANGED F!vars PROVE Rest'
  BY <1>18 DEF F!vars, F!db, F!local, F!bounds, F!history
<1> QED
  BY <1>0, <1>1, <1>2, <1>3, <1>4, <1>5, <1>6, <1>7, <1>8, <1>9, <1>10, <1>11,
    <1>12, <1>13, <1>14, <1>15, <1>16, <1>17, <1>18 DEF F!Next, F!Step, F!Edit

LEMMA FeedInit == FeedConstants /\ F!Init => FeedInv
BY FeedFacts DEF F!Init, FeedInv, F!TypeOK, F!Places, HoldsWhileReporting,
  Reporting,
  RowsLast, Announced, Told, F!Nowhere, F!NoRows

\* Every reachable state is typed.
THEOREM FeedTypeCorrect ==
  FeedConstants => (F!Spec => []F!TypeOK)
<1> SUFFICES ASSUME FeedConstants PROVE F!Spec => []F!TypeOK
  OBVIOUS
<1>1. FeedInv => F!TypeOK
  BY DEF FeedInv
<1>2. F!Init => FeedInv
  BY FeedInit
<1>3. FeedInv /\ [F!Next]_F!vars => FeedInv'
  BY FeedNext
<1> QED
  BY <1>1, <1>2, <1>3, PTL DEF F!Spec

\* However runs of the sync overlap, fail and start again, and whatever is
\* edited meanwhile: a stay that came in and has not been announced, and a crew
\* whose turnover was cancelled and that has not been told, is in the hands of
\* a run that will (newBookings, cancelledBookingIds of syncIcalFeed), or an
\* attempt that failed after its writes has lost it.
THEOREM NewsIsHeldTheorem ==
  FeedConstants => (F!Spec => [](Announced /\ Told))
<1> SUFFICES ASSUME FeedConstants PROVE F!Spec => [](Announced /\ Told)
  OBVIOUS
<1>1. FeedInv => Announced /\ Told
  BY DEF FeedInv
<1>2. F!Init => FeedInv
  BY FeedInit
<1>3. FeedInv /\ [F!Next]_F!vars => FeedInv'
  BY FeedNext
<1> QED
  BY <1>1, <1>2, <1>3, PTL DEF F!Spec

=============================================================================
