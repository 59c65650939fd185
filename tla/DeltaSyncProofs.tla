--------------------------- MODULE DeltaSyncProofs ---------------------------
(***************************************************************************)
(* Proofs about DeltaSync, for any number of rows, of pulls at once, of    *)
(* writes and of failures, and any overlap.                                *)
(***************************************************************************)
EXTENDS DeltaSync, WellFoundedInduction, TLAPS

LEMMA Constants ==
  /\ Overlap \in Nat \ {0} /\ MaxWrites \in Nat /\ MaxClock \in Nat
  /\ MaxFaults \in Nat /\ MaxDrops \in Nat /\ NoCursor \notin Int
  /\ NoPush \notin Requests
BY DeltaAssumption DEF Requests, Writes

\* A bounded set of numbers that is not empty has a greatest member.
LEMMA MaxOf ==
  ASSUME NEW n \in Nat, NEW S, S \subseteq 0..n, S # {}
  PROVE  Max(S) \in S /\ \A x \in S : x <= Max(S)
<1> DEFINE Below == {ss \in Nat \X Nat : ss[1] < ss[2]}
           T == {k \in Nat : n - k \in S}
<1>1. PICK y \in S : TRUE
  OBVIOUS
<1>2. y \in 0..n /\ n - y \in Nat /\ n - (n - y) = y
  OBVIOUS
<1>3. T \subseteq Nat /\ n - y \in T
  BY <1>2
<1>4. IsWellFoundedOn(Below, Nat)
  BY NatLessThanWellFounded, Zenon DEF OpToRel
<1>5. \E t \in T : \A u \in T : ~(<<u, t>> \in Below)
  <2> HIDE DEF T, Below
  <2> QED
    BY <1>3, <1>4, WFMin
<1>6. \E t \in T : \A u \in T : t <= u
  <2>1. PICK t \in T : \A u \in T : ~(<<u, t>> \in Below)
    BY <1>5
  <2> HIDE DEF T
  <2>2. ASSUME NEW u \in T PROVE t <= u
    <3>1. u \in Nat /\ t \in Nat /\ ~(<<u, t>> \in Below)
      BY <1>3, <2>1
    <3> QED
      BY <3>1
  <2> QED
    BY <2>2
<1>7. PICK t \in T : \A u \in T : t <= u
  BY <1>6
<1>8. \A x \in S : x <= n - t
  <2> TAKE x \in S
  <2>1. x \in 0..n /\ n - x \in Nat /\ n - (n - x) = x
    OBVIOUS
  <2>2. n - x \in T
    BY <2>1
  <2>3. t <= n - x
    BY <1>7, <2>2
  <2> QED
    BY <2>1, <2>3
<1>9. n - t \in S
  OBVIOUS
<1>10. \E x \in S : \A z \in S : x >= z
  BY <1>8, <1>9
<1> QED
  BY <1>10 DEF Max
-----------------------------------------------------------------------------
\* What the operators return.

\* The newest queued write of a row is queued.
LEMMA NewestQueued ==
  ASSUME TypeOK, NEW r \in Rows, Queued(r) # {}
  PROVE  LET w == Max({m.write : m \in Queued(r)})
         IN /\ w \in Writes /\ [row |-> r, write |-> w] \in queue
            /\ \A m \in Queued(r) : m.write <= w
<1> DEFINE S == {m.write : m \in Queued(r)}
<1>1. \A m \in Queued(r) : /\ m \in queue /\ m.write \in 1..MaxWrites
                           /\ m = [row |-> r, write |-> m.write]
  BY DEF Queued, TypeOK, DeviceOK, Mutations, Writes
<1>2. S \subseteq 0..MaxWrites /\ S # {}
  BY <1>1, Constants
<1>3. Max(S) \in S /\ \A x \in S : x <= Max(S)
  <2> HIDE DEF S
  <2> QED
    BY <1>2, MaxOf, Constants
<1> QED
  BY <1>1, <1>3 DEF Writes

\* computeAdvancedCursor: what it was given, or a later place, at the overlap
\* behind the newest stamp seen.
LEMMA AdvancedValue ==
  ASSUME TypeOK, NEW p \in Pulls
  PROVE  LET a == Advanced(base[p], got[p])
         IN \/ a = base[p]
            \/ /\ a \in Int /\ a + Overlap <= clock
               /\ \A g \in got[p] : g.stamp <= a + Overlap
               /\ \E g \in got[p] : g.stamp = a + Overlap
               /\ base[p] = NoCursor \/ base[p] < a
<1> DEFINE S == {g.stamp : g \in got[p]}
<1>1. clock \in Nat /\ \A g \in got[p] : g.stamp \in 0..clock
  BY Constants DEF TypeOK, PullsOK, ServerOK, Fetches
<1>2. CASE got[p] = {}
  BY <1>2 DEF Advanced
<1>3. CASE got[p] # {}
  <2>1. S \subseteq 0..clock /\ S # {}
    BY <1>1, <1>3
  <2>2. Max(S) \in S /\ \A x \in S : x <= Max(S)
    <3> HIDE DEF S
    <3> QED
      BY <1>1, <2>1, MaxOf
  <2>3. Max(S) \in 0..clock /\ \A g \in got[p] : g.stamp <= Max(S)
    BY <2>1, <2>2
  <2>4. \E g \in got[p] : g.stamp = Max(S)
    BY <2>2
  <2>5. base[p] = NoCursor \/ base[p] \in Int
    BY DEF TypeOK, PullsOK, CursorOK
  <2>6. Advanced(base[p], got[p]) = base[p]
        \/ /\ Advanced(base[p], got[p]) = Max(S) - Overlap
           /\ base[p] = NoCursor \/ base[p] < Max(S) - Overlap
    <3> HIDE DEF S
    <3>1. Max(S) \in Int /\ Overlap \in Int
      BY <1>1, <2>3, Constants
    <3>2. Advanced(base[p], got[p]) =
            IF base[p] # NoCursor /\ Max(S) - Overlap <= base[p] THEN base[p]
            ELSE Max(S) - Overlap
      BY <1>3 DEF Advanced, S
    <3> QED
      BY <2>5, <3>1, <3>2
  <2> HIDE DEF S
  <2> QED
    BY <1>1, <2>3, <2>4, <2>6, Constants
<1> QED
  BY <1>2, <1>3

\* shadowPendingMutations keeps a fetched row's name and stamp.
LEMMA RebasedValue ==
  ASSUME TypeOK, NEW p \in Pulls, NEW g \in got[p]
  PROVE  /\ Rebased(g).row = g.row /\ Rebased(g).stamp = g.stamp
         /\ Rebased(g) \in Fetches
         /\ Queued(g.row) = {} => Rebased(g) = g
         /\ Queued(g.row) # {} =>
              /\ [row |-> g.row, write |-> Rebased(g).write] \in queue
              /\ \A m \in Queued(g.row) : m.write <= Rebased(g).write
<1>1. g \in Fetches /\ g.row \in Rows
  BY DEF TypeOK, PullsOK, Fetches
<1>2. CASE Queued(g.row) = {}
  BY <1>1, <1>2 DEF Rebased
<1>3. CASE Queued(g.row) # {}
  <2> DEFINE w == Max({m.write : m \in Queued(g.row)})
  <2>1. /\ w \in Writes /\ [row |-> g.row, write |-> w] \in queue
        /\ \A m \in Queued(g.row) : m.write <= w
    BY <1>1, <1>3, NewestQueued
  <2>2. Rebased(g) = [g EXCEPT !.write = w]
    BY <1>3 DEF Rebased
  <2> HIDE DEF w
  <2> QED
    BY <1>1, <1>3, <2>1, <2>2 DEF Fetches
<1> QED
  BY <1>2, <1>3

-----------------------------------------------------------------------------
\* Type correctness.

\* Writes are numbered in the order they are made, and the upload in flight is
\* the oldest of its record's and not a failed one.
Numbered ==
  /\ \A t \in open : t.write < nextWrite
  /\ \A m \in queue : m.write < nextWrite
  /\ \A r \in Rows : val[r] < nextWrite
  /\ push # NoPush =>
       /\ push.write < nextWrite
       /\ [row |-> push.row, write |-> push.write] \notin failed
       /\ \A n \in Queued(push.row) : push.write <= n.write

LEMMA Typed0 == Init => TypeOK
<1> SUFFICES ASSUME Init PROVE TypeOK
  OBVIOUS
<1> USE Constants DEF Init
<1>1. ServerOK
  BY DEF ServerOK
<1>2. DeviceOK
  BY DEF DeviceOK, CursorOK
<1>3. PullsOK
  BY DEF PullsOK, CursorOK
<1>4. overtaken \in [Pulls -> BOOLEAN] /\ pinned \subseteq Rows
  OBVIOUS
<1>5. /\ nextWrite \in 1..(MaxWrites + 1)
      /\ faults \in 0..MaxFaults /\ drops \in 0..MaxDrops
  OBVIOUS
<1> QED
  BY <1>1, <1>2, <1>3, <1>4, <1>5 DEF TypeOK

LEMMA Numbered0 == Init => Numbered
BY Constants DEF Init, Numbered

LEMMA TypedNext == TypeOK /\ Numbered /\ [Next]_vars => TypeOK'
<1> SUFFICES ASSUME TypeOK, Numbered, [Next]_vars PROVE TypeOK'
  OBVIOUS
<1> USE Constants DEF TypeOK, ServerOK, DeviceOK, PullsOK, CursorOK, Writes,
  Requests, Mutations, Fetches
<1>1. ASSUME NEW t \in open, Commit(t) PROVE TypeOK'
  BY <1>1 DEF Commit, outbox, pulls, history, bounds
<1>2. ASSUME Tick PROVE TypeOK'
  BY <1>2 DEF Tick, outbox, pulls, history, bounds
<1>3. ASSUME NEW r \in Rows, Elsewhere(r) PROVE TypeOK'
  BY <1>3 DEF Elsewhere, outbox, pulls, history, bounds
<1>4. ASSUME NEW r \in Rows, Edit(r) PROVE TypeOK'
  BY <1>4 DEF Edit, server, pulls, history, bounds
<1>5. ASSUME NEW m \in queue, Upload(m) PROVE TypeOK'
  BY <1>5 DEF Upload, pulls, history, bounds
<1>6. ASSUME NEW m \in queue, Discard(m) PROVE TypeOK'
  BY <1>6 DEF Discard, server, pulls, history
<1>7. ASSUME Retire PROVE TypeOK'
  <2>1. queue' \subseteq Mutations /\ failed' \subseteq queue' /\ push' = NoPush
    BY <1>7 DEF Retire, Numbered
  <2>2. pinned' \subseteq Rows
    BY <1>7 DEF Retire
  <2>3. UNCHANGED <<failed, server, cache, cursor, pulls, rewinding, overtaken,
      nextWrite, bounds>>
    BY <1>7 DEF Retire
  <2> QED
    BY <2>1, <2>2, <2>3 DEF server, pulls, bounds
<1>8. ASSUME FailUpload PROVE TypeOK'
  <2>1. open' \subseteq open /\ push' = NoPush /\ faults' \in 0..MaxFaults
    BY <1>8 DEF FailUpload
  <2>2. failed' \subseteq queue
    BY <1>8 DEF FailUpload, Queued
  <2>3. UNCHANGED <<queue, val, stamp, clock, cache, cursor, pulls, rewinding,
      history, nextWrite, drops>>
    BY <1>8 DEF FailUpload
  <2> QED
    BY <2>1, <2>2, <2>3 DEF pulls, history
<1>9. ASSUME RetryAll PROVE TypeOK'
  BY <1>9 DEF RetryAll, server, pulls, history, bounds
<1>10. ASSUME Rewind PROVE TypeOK'
  <2>1. overtaken' \in [Pulls -> BOOLEAN]
    BY <1>10 DEF Rewind, Overtake
  <2>2. /\ rewinding' = FALSE /\ cursor' = NoCursor
        /\ UNCHANGED <<pinned, server, cache, outbox, pulls, nextWrite, bounds>>
    BY <1>10 DEF Rewind
  <2> QED
    BY <2>1, <2>2 DEF server, outbox, pulls, bounds
<1>11. ASSUME Interrupt PROVE TypeOK'
  <2>1. overtaken' \in [Pulls -> BOOLEAN] /\ pinned' \subseteq Rows
    BY <1>11 DEF Interrupt, Overtake, NotePinned
  <2>2. rewinding' = FALSE /\ UNCHANGED <<cursor, server, cache, outbox, pulls,
      nextWrite, bounds>>
    BY <1>11 DEF Interrupt
  <2> QED
    BY <2>1, <2>2 DEF server, outbox, pulls, bounds
<1>12. ASSUME NEW p \in Pulls, Begin(p) PROVE TypeOK'
  BY <1>12 DEF Begin, server, outbox, history, bounds
<1>13. ASSUME NEW p \in Pulls, Fetch(p) PROVE TypeOK'
  <2> DEFINE F == {Fetched(r) : r \in {x \in Rows : Newer(x, from[p])}}
  <2>1. F \in SUBSET Fetches /\ \A g \in F : g.stamp <= clock
    BY DEF Fetched
  <2>2. PullsOK'
    <3>1. /\ pc' = [pc EXCEPT ![p] = "fetched"] /\ got' = [got EXCEPT ![p] = F]
          /\ from' = [from EXCEPT ![p] = NoCursor]
          /\ UNCHANGED <<base, full, clock>>
      BY <1>13 DEF Fetch, server
    <3> HIDE DEF F, Fetches
    <3> QED
      BY <2>1, <3>1
  <2>3. UNCHANGED <<server, cache, cursor, outbox, rewinding, history,
      nextWrite, bounds>>
    BY <1>13 DEF Fetch
  <2> QED
    BY <2>2, <2>3 DEF server, outbox, history, bounds
<1>14. ASSUME NEW p \in Pulls, Overlay(p) PROVE TypeOK'
  <2>1. got' = [got EXCEPT ![p] = {Rebased(g) : g \in got[p]}]
    BY <1>14 DEF Overlay
  <2>2. \A g \in got[p] : Rebased(g) \in Fetches /\ Rebased(g).stamp <= clock
    <3> HIDE DEF TypeOK, ServerOK, DeviceOK, PullsOK, CursorOK, Fetches
    <3>1. \A g \in got[p] : Rebased(g) \in Fetches /\ Rebased(g).stamp = g.stamp
      BY RebasedValue
    <3> QED
      BY <3>1 DEF TypeOK, PullsOK
  <2>3. /\ got' \in [Pulls -> SUBSET Fetches]
        /\ \A q \in Pulls : \A g \in got'[q] : g.stamp <= clock
    <3> HIDE DEF Fetches
    <3> QED
      BY <2>1, <2>2
  <2>4. /\ pc' = [pc EXCEPT ![p] = "rebased"]
        /\ UNCHANGED <<from, base, full, server, cache, cursor, outbox,
            rewinding, history, nextWrite, bounds>>
    BY <1>14 DEF Overlay
  <2> QED
    BY <2>3, <2>4 DEF server, outbox, history, bounds
<1>15. ASSUME NEW p \in Pulls, Put(p) PROVE TypeOK'
  <2>1. cache' \in [Rows -> Writes \cup {0}]
    <3>1. \A r \in Rows : (\E g \in got[p] : g.row = r) =>
            (CHOOSE g \in got[p] : g.row = r).write \in Writes \cup {0}
      <4> TAKE r \in Rows
      <4> HAVE \E g \in got[p] : g.row = r
      <4>1. (CHOOSE g \in got[p] : g.row = r) \in got[p]
        OBVIOUS
      <4> QED
        BY <4>1
    <3> QED
      BY <3>1, <1>15 DEF Put
  <2>2. overtaken' \in [Pulls -> BOOLEAN] /\ pinned' \subseteq Rows
    BY <1>15 DEF Put, Overtake, NotePinned
  <2>3. PullsOK'
    <3>1. CASE full[p]
      BY <3>1, <1>15 DEF Put, server
    <3>2. CASE ~full[p]
      <4>1. Forget(p) /\ UNCHANGED server
        BY <3>2, <1>15 DEF Put
      <4> HIDE DEF Fetches
      <4> QED
        BY <4>1 DEF Forget, server
    <3> QED
      BY <3>1, <3>2
  <2>4. UNCHANGED <<server, cursor, outbox, rewinding, nextWrite, bounds>>
    BY <1>15 DEF Put
  <2> QED
    BY <2>1, <2>2, <2>3, <2>4 DEF server, outbox, bounds
<1>16. ASSUME NEW p \in Pulls, ReadAgain(p) PROVE TypeOK'
  BY <1>16 DEF ReadAgain, server, outbox, history, bounds
<1>17. ASSUME NEW p \in Pulls, Advance(p) PROVE TypeOK'
  <2>1. CursorOK(cursor)'
    BY <1>17, AdvancedValue DEF Advance, server
  <2>2. overtaken' \in [Pulls -> BOOLEAN] /\ pinned' \subseteq Rows
    BY <1>17 DEF Advance, Overtake, NotePinned
  <2>3. PullsOK'
    BY <1>17 DEF Advance, Forget, server
  <2>4. UNCHANGED <<server, cache, outbox, rewinding, nextWrite, bounds>>
    BY <1>17 DEF Advance
  <2> QED
    BY <2>1, <2>2, <2>3, <2>4 DEF server, outbox, bounds
<1>18. ASSUME NEW p \in Pulls, Stop(p) PROVE TypeOK'
  <2>1. overtaken' \in [Pulls -> BOOLEAN] /\ faults' \in 0..MaxFaults
    BY <1>18 DEF Stop, Overtake
  <2>2. PullsOK'
    BY <1>18 DEF Stop, Forget, server
  <2>3. UNCHANGED <<pinned, server, cache, cursor, outbox, rewinding,
      nextWrite, drops>>
    BY <1>18 DEF Stop
  <2> QED
    BY <2>1, <2>2, <2>3 DEF server, outbox
<1>19. ASSUME NEW p \in Pulls, NEW r \in Rows, Refetch(p, r) PROVE TypeOK'
  <2> DEFINE F == {Fetched(r)}
  <2>1. F \in SUBSET Fetches /\ \A g \in F : g.stamp <= clock
    BY DEF Fetched
  <2>2. PullsOK'
    <3>1. /\ pc' = [pc EXCEPT ![p] = "fetched"] /\ got' = [got EXCEPT ![p] = F]
          /\ full' = [full EXCEPT ![p] = FALSE]
          /\ UNCHANGED <<from, base, clock>>
      BY <1>19 DEF Refetch, server
    <3> HIDE DEF F, Fetches
    <3> QED
      BY <2>1, <3>1
  <2>3. UNCHANGED <<history, server, cache, cursor, outbox, rewinding,
      nextWrite, bounds>>
    BY <1>19 DEF Refetch
  <2> QED
    BY <2>2, <2>3 DEF server, outbox, history, bounds
<1>20. ASSUME UNCHANGED vars PROVE TypeOK'
  BY <1>20 DEF vars, server, outbox, pulls, history, bounds
<1> QED
  BY <1>1, <1>2, <1>3, <1>4, <1>5, <1>6, <1>7, <1>8, <1>9, <1>10, <1>11,
     <1>12, <1>13, <1>14, <1>15, <1>16, <1>17, <1>18, <1>19, <1>20
  DEF Next, PullStep

LEMMA NumberedNext == TypeOK /\ Numbered /\ [Next]_vars => Numbered'
<1> SUFFICES ASSUME TypeOK, Numbered, [Next]_vars PROVE Numbered'
  OBVIOUS
<1> USE Constants DEF Numbered, Queued, TypeOK, ServerOK, DeviceOK, Writes,
  Requests, Mutations
<1>1. ASSUME NEW t \in open, Commit(t) PROVE Numbered'
  BY <1>1 DEF Commit, outbox, pulls, history, bounds
<1>2. ASSUME Tick PROVE Numbered'
  BY <1>2 DEF Tick, outbox, pulls, history, bounds
<1>3. ASSUME NEW r \in Rows, Elsewhere(r) PROVE Numbered'
  BY <1>3 DEF Elsewhere, outbox, pulls, history, bounds
<1>4. ASSUME NEW r \in Rows, Edit(r) PROVE Numbered'
  BY <1>4 DEF Edit, server, pulls, history, bounds
<1>5. ASSUME NEW m \in queue, Upload(m) PROVE Numbered'
  BY <1>5 DEF Upload, pulls, history, bounds
<1>6. ASSUME NEW m \in queue, Discard(m) PROVE Numbered'
  BY <1>6 DEF Discard, server, pulls, history
<1>7. ASSUME Retire PROVE Numbered'
  BY <1>7 DEF Retire, server, pulls, bounds
<1>8. ASSUME FailUpload PROVE Numbered'
  BY <1>8 DEF FailUpload, pulls, history
<1>9. ASSUME RetryAll PROVE Numbered'
  BY <1>9 DEF RetryAll, server, pulls, history, bounds
<1>10. ASSUME Rewind PROVE Numbered'
  BY <1>10 DEF Rewind, server, outbox
<1>11. ASSUME Interrupt PROVE Numbered'
  BY <1>11 DEF Interrupt, server, outbox
<1>12. ASSUME NEW p \in Pulls, Begin(p) PROVE Numbered'
  BY <1>12 DEF Begin, server, outbox, history, bounds
<1>13. ASSUME NEW p \in Pulls, Fetch(p) PROVE Numbered'
  BY <1>13 DEF Fetch, server, outbox, history, bounds
<1>14. ASSUME NEW p \in Pulls, Overlay(p) PROVE Numbered'
  BY <1>14 DEF Overlay, server, outbox, history, bounds
<1>15. ASSUME NEW p \in Pulls, Put(p) PROVE Numbered'
  BY <1>15 DEF Put, server, outbox
<1>16. ASSUME NEW p \in Pulls, ReadAgain(p) PROVE Numbered'
  BY <1>16 DEF ReadAgain, server, outbox, history, bounds
<1>17. ASSUME NEW p \in Pulls, Advance(p) PROVE Numbered'
  BY <1>17 DEF Advance, server, outbox
<1>18. ASSUME NEW p \in Pulls, Stop(p) PROVE Numbered'
  BY <1>18 DEF Stop, server, outbox
<1>19. ASSUME NEW p \in Pulls, NEW r \in Rows, Refetch(p, r) PROVE Numbered'
  BY <1>19 DEF Refetch, server, outbox, history, bounds
<1>20. ASSUME UNCHANGED vars PROVE Numbered'
  BY <1>20 DEF vars, server, outbox, pulls, history, bounds
<1> QED
  BY <1>1, <1>2, <1>3, <1>4, <1>5, <1>6, <1>7, <1>8, <1>9, <1>10, <1>11,
     <1>12, <1>13, <1>14, <1>15, <1>16, <1>17, <1>18, <1>19, <1>20
  DEF Next, PullStep

\* Every reachable state is typed; in particular every cursor, those the pulls
\* hold included, trails the server's clock by the overlap.
THEOREM DeltaTypeCorrect == Spec => []TypeOK
<1> QED
  BY Typed0, TypedNext, Numbered0, NumberedNext, PTL DEF Spec

-----------------------------------------------------------------------------
\* The cursor's rule.

\* A row's newest write has reached the server.
Holds(r) ==
  /\ \A m \in Queued(r) : m.write <= val[r]
  /\ Queued(r) = {} \/ [row |-> r, write |-> val[r]] \in queue

\* Once it has, a copy with this value is the right one.
Right(r, v) == Holds(r) => v = val[r] \/ rewinding

\* A row that has changed too late for the pull p to move the cursor past it.
Late(p, r) ==
  (\A g \in got[p] : g.stamp < stamp[r] + Overlap) /\ Newer(r, cursor)

\* NothingElsePinned, strengthened for rows with queued writes.
Covered == \A r \in Rows \ pinned : Right(r, cache[r]) \/ Newer(r, cursor)

\* What a pull has and what the cache will show when it moves the cursor.
AsAsked(p) ==
  /\ pc[p] = "asking" => from[p] = cursor
  /\ pc[p] = "moving" => base[p] = cursor
AsFetched(p) ==
  pc[p] = "fetched" =>
    \A g \in got[p] : g.write = val[g.row] \/ Late(p, g.row)
AsRebased(p) ==
  pc[p] = "rebased" =>
    \A g \in got[p] : g.row \notin pinned => Right(g.row, g.write) \/ Late(p,
      g.row)
AsLeft(p) ==
  pc[p] \in {"fetched", "rebased"} /\ full[p] =>
    \A r \in Rows \ pinned :
      (\A g \in got[p] : g.row # r) => Right(r, cache[r]) \/ Late(p, r)
AsPut(p) ==
  pc[p] \in {"put", "moving"} =>
    \A r \in Rows \ pinned : Right(r, cache[r]) \/ Late(p, r)

SoundPull(p) ==
  ~overtaken[p] =>
    AsAsked(p) /\ AsFetched(p) /\ AsRebased(p) /\ AsLeft(p) /\ AsPut(p)
Sound == \A p \in Pulls : SoundPull(p)

OneEach == \A p \in Pulls : \A g, h \in got[p] : g.row = h.row => g = h

LEMMA OneEachNext == TypeOK /\ OneEach /\ [Next]_vars => OneEach'
<1> SUFFICES ASSUME TypeOK, OneEach, [Next]_vars PROVE OneEach'
  OBVIOUS
<1> USE DEF OneEach, TypeOK, PullsOK
<1>1. ASSUME NEW t \in open, Commit(t) PROVE OneEach'
  BY <1>1 DEF Commit, outbox, pulls, history, bounds
<1>2. ASSUME Tick PROVE OneEach'
  BY <1>2 DEF Tick, outbox, pulls, history, bounds
<1>3. ASSUME NEW r \in Rows, Elsewhere(r) PROVE OneEach'
  BY <1>3 DEF Elsewhere, outbox, pulls, history, bounds
<1>4. ASSUME NEW r \in Rows, Edit(r) PROVE OneEach'
  BY <1>4 DEF Edit, server, pulls, history, bounds
<1>5. ASSUME NEW m \in queue, Upload(m) PROVE OneEach'
  BY <1>5 DEF Upload, pulls, history, bounds
<1>6. ASSUME NEW m \in queue, Discard(m) PROVE OneEach'
  BY <1>6 DEF Discard, server, pulls, history
<1>7. ASSUME Retire PROVE OneEach'
  BY <1>7 DEF Retire, server, pulls, bounds
<1>8. ASSUME FailUpload PROVE OneEach'
  BY <1>8 DEF FailUpload, pulls, history
<1>9. ASSUME RetryAll PROVE OneEach'
  BY <1>9 DEF RetryAll, server, pulls, history, bounds
<1>10. ASSUME Rewind PROVE OneEach'
  BY <1>10 DEF Rewind, Overtake, server, outbox, pulls, bounds
<1>11. ASSUME Interrupt PROVE OneEach'
  BY <1>11 DEF Interrupt, Overtake, NotePinned, server, outbox, pulls, bounds
<1>12. ASSUME NEW p \in Pulls, Begin(p) PROVE OneEach'
  BY <1>12 DEF Begin, server, outbox, history, bounds
<1>13. ASSUME NEW p \in Pulls, Fetch(p) PROVE OneEach'
  BY <1>13 DEF Fetch, Fetched
<1>14. ASSUME NEW p \in Pulls, Overlay(p) PROVE OneEach'
  <2>1. \A g \in got[p] : Rebased(g).row = g.row
    BY RebasedValue
  <2> QED
    BY <2>1, <1>14 DEF Overlay
<1>15. ASSUME NEW p \in Pulls, Put(p) PROVE OneEach'
  <2>1. CASE full[p]
    BY <2>1, <1>15 DEF Put
  <2>2. CASE ~full[p]
    BY <2>2, <1>15 DEF Put, Forget
  <2> QED
    BY <2>1, <2>2
<1>16. ASSUME NEW p \in Pulls, ReadAgain(p) PROVE OneEach'
  BY <1>16 DEF ReadAgain, server, outbox, history, bounds
<1>17. ASSUME NEW p \in Pulls, Advance(p) PROVE OneEach'
  BY <1>17 DEF Advance, Forget, Overtake, NotePinned, server, outbox, bounds
<1>18. ASSUME NEW p \in Pulls, Stop(p) PROVE OneEach'
  BY <1>18 DEF Stop, Forget, Overtake, server, outbox
<1>19. ASSUME NEW p \in Pulls, NEW r \in Rows, Refetch(p, r) PROVE OneEach'
  BY <1>19 DEF Refetch
<1>20. ASSUME UNCHANGED vars PROVE OneEach'
  BY <1>20 DEF vars, server, outbox, pulls, history, bounds
<1> QED
  BY <1>1, <1>2, <1>3, <1>4, <1>5, <1>6, <1>7, <1>8, <1>9, <1>10, <1>11,
     <1>12, <1>13, <1>14, <1>15, <1>16, <1>17, <1>18, <1>19, <1>20
  DEF Next, PullStep

-----------------------------------------------------------------------------
\* Steps of the server, the outbox and other people.  For every row such a step
\* changes nothing that matters, or commits a write whose stamp is recent, or
\* leaves a write queued, or begins to give one up.
Settles(r) ==
  \/ stamp'[r] + Overlap > clock'
  \/ /\ val'[r] = val[r] /\ stamp'[r] = stamp[r] /\ (rewinding => rewinding')
     /\ \/ rewinding' \/ r \in pinned' \/ ~Holds(r)'
        \/ Holds(r) /\ cache'[r] = cache[r]

Outside ==
  /\ UNCHANGED <<cursor, pulls, overtaken>>
  /\ pinned \subseteq pinned'
  /\ \A r \in Rows : Settles(r)

LEMMA LateWhenRecent ==
  ASSUME TypeOK', NEW p \in Pulls, NEW r \in Rows, stamp'[r] + Overlap > clock'
  PROVE  Late(p, r)' /\ Newer(r, cursor)'
BY Constants DEF TypeOK, ServerOK, DeviceOK, PullsOK, CursorOK, Late, Newer,
  Fetches

LEMMA OutsideKeeps ==
  ASSUME TypeOK, TypeOK', Covered, Sound, Outside
  PROVE  Covered' /\ Sound'
<1> USE DEF Outside
<1>1. \A r \in Rows : stamp'[r] + Overlap > clock' => Newer(r, cursor)'
  BY Constants DEF TypeOK, ServerOK, DeviceOK, CursorOK, Newer
<1>2. Covered'
  BY <1>1 DEF Settles, Right, Covered, Newer
<1>3. ASSUME NEW p \in Pulls PROVE SoundPull(p)'
  <2>1. SoundPull(p)
    BY DEF Sound
  <2>2. \A r \in Rows : stamp'[r] + Overlap > clock' => Late(p, r)'
    BY LateWhenRecent
  <2>3. \A r \in Rows : stamp'[r] = stamp[r] /\ Late(p, r) => Late(p, r)'
    BY DEF Late, Newer, pulls
  <2>4. /\ pc' = pc /\ from' = from /\ got' = got /\ base' = base /\ full' = full
        /\ overtaken' = overtaken /\ cursor' = cursor
    BY DEF pulls
  <2>5. \A g \in got[p] : g.row \in Rows
    BY DEF TypeOK, PullsOK, Fetches
  <2>6. AsAsked(p) => AsAsked(p)'
    BY <2>4 DEF AsAsked
  <2>7. AsFetched(p) => AsFetched(p)'
    BY <2>2, <2>3, <2>4, <2>5 DEF AsFetched, Settles
  <2>8. AsRebased(p) => AsRebased(p)'
    BY <2>2, <2>3, <2>4, <2>5 DEF AsRebased, Settles, Right
  <2>9. AsLeft(p) => AsLeft(p)'
    BY <2>2, <2>3, <2>4 DEF AsLeft, Settles, Right
  <2>10. AsPut(p) => AsPut(p)'
    BY <2>2, <2>3, <2>4 DEF AsPut, Settles, Right
  <2> QED
    BY <2>1, <2>4, <2>6, <2>7, <2>8, <2>9, <2>10 DEF SoundPull
<1> QED
  BY <1>2, <1>3 DEF Sound

LEMMA OutsideSteps ==
  ASSUME TypeOK, Numbered,
         \/ \E t \in open : Commit(t)
         \/ Tick
         \/ \E r \in Rows : Elsewhere(r) \/ Edit(r)
         \/ \E m \in queue : Upload(m) \/ Discard(m)
         \/ Retire \/ FailUpload \/ RetryAll \/ UNCHANGED vars
  PROVE  Outside
<1> USE DEF Outside, Settles, pulls, history, bounds, outbox, server
<1>1. ASSUME NEW t \in open, Commit(t) PROVE Outside
  <2>1. t.stamp + Overlap > clock /\ t.row \in Rows
    BY Constants DEF TypeOK, ServerOK, Requests
  <2>2. \A r \in Rows \ {t.row} : Holds(r)' <=> Holds(r)
    BY <1>1 DEF Commit, Holds, Queued, TypeOK, ServerOK
  <2> QED
    BY <1>1, <2>1, <2>2 DEF Commit, TypeOK, ServerOK
<1>2. ASSUME UNCHANGED <<val, stamp, cache, queue, rewinding, cursor, pulls,
                         overtaken, pinned>>
      PROVE  Outside
  BY <1>2 DEF Holds, Queued
<1>3. ASSUME NEW r \in Rows, Edit(r) PROVE Outside
  <2>1. ~Holds(r)'
    <3>1. [row |-> r, write |-> nextWrite] \in queue' /\ val' = val
      BY <1>3 DEF Edit
    <3>2. val[r] < nextWrite /\ val[r] \in Int /\ nextWrite \in Int
      BY DEF Numbered, TypeOK, ServerOK, Writes
    <3> QED
      BY <3>1, <3>2 DEF Holds, Queued
  <2>2. \A x \in Rows \ {r} : Holds(x)' <=> Holds(x)
    BY <1>3 DEF Edit, Holds, Queued
  <2> QED
    BY <1>3, <2>1, <2>2 DEF Edit, TypeOK, DeviceOK
<1>4. ASSUME NEW m \in queue, Discard(m) PROVE Outside
  BY <1>4 DEF Discard
<1>5. ASSUME Retire PROVE Outside
  <2> DEFINE m == [row |-> push.row, write |-> push.write]
  <2>1. /\ queue' = queue \ {m}
        /\ UNCHANGED <<val, stamp, cache, cursor, pulls, rewinding, overtaken>>
        /\ pinned \subseteq pinned' /\ (val[push.row] # push.write => push.row \in pinned')
    BY <1>5 DEF Retire
  <2>2. push.row \in Rows /\ push.write \in Int
        /\ \A n \in Queued(push.row) : push.write <= n.write
    BY <1>5 DEF Retire, Numbered, TypeOK, DeviceOK, Requests, Writes
  <2>3. \A r \in Rows \ {push.row} : Holds(r)' => Holds(r)
    BY <2>1 DEF Holds, Queued
  <2>4. ASSUME NEW r \in Rows, r = push.row, Holds(r)', val[r] = push.write
        PROVE  Holds(r)
    <3>1. Queued(r) \subseteq {m}
      <4> SUFFICES ASSUME NEW n \in Queued(r), n # m PROVE FALSE
        OBVIOUS
      <4>1. n \in Queued(r)'
        BY <2>1 DEF Queued
      <4>2. m \in queue'
        BY <2>1, <2>4, <4>1 DEF Holds
      <4> QED
        BY <2>1, <4>2
    <3> QED
      BY <2>2, <2>4, <3>1 DEF Holds, Queued
  <2> QED
    BY <2>1, <2>2, <2>3, <2>4
<1> QED
  BY <1>1, <1>2, <1>3, <1>4, <1>5
  DEF Tick, Elsewhere, Upload, FailUpload, RetryAll, vars

-----------------------------------------------------------------------------
\* Steps of a pull.

LEMMA OtherPull ==
  ASSUME Sound, NEW q \in Pulls,
         UNCHANGED <<val, stamp, cache, cursor, queue, rewinding>>,
         pinned \subseteq pinned', overtaken'[q] = overtaken[q],
         pc'[q] = pc[q], from'[q] = from[q], got'[q] = got[q],
         base'[q] = base[q], full'[q] = full[q]
  PROVE  SoundPull(q)'
<1>1. SoundPull(q)
  BY DEF Sound
<1>2. \A r : Late(q, r)' <=> Late(q, r)
  BY DEF Late, Newer
<1>3. \A r, v : Right(r, v)' <=> Right(r, v)
  BY DEF Right, Holds, Queued
<1> QED
  BY <1>1, <1>2, <1>3
  DEF SoundPull, AsAsked, AsFetched, AsRebased, AsLeft, AsPut

LEMMA IdlePull ==
  ASSUME NEW q \in Pulls, pc'[q] = "idle" \/ overtaken'[q] PROVE SoundPull(q)'
BY DEF SoundPull, AsAsked, AsFetched, AsRebased, AsLeft, AsPut

\* A step that only changes what one pull has, not what others see.
LEMMA LocalStep ==
  ASSUME TypeOK, Covered, Sound, NEW p \in Pulls,
         UNCHANGED <<server, cache, cursor, outbox, rewinding, pinned>>,
         \A q \in Pulls \ {p} :
           /\ overtaken'[q] = overtaken[q] /\ pc'[q] = pc[q]
           /\ from'[q] = from[q] /\ got'[q] = got[q]
           /\ base'[q] = base[q] /\ full'[q] = full[q],
         SoundPull(p)'
  PROVE  Covered' /\ Sound'
<1>1. \A q \in Pulls \ {p} : SoundPull(q)'
  BY OtherPull DEF server, outbox
<1>2. Covered'
  BY DEF Covered, Right, Holds, Queued, Newer, server, outbox
<1> QED
  BY <1>1, <1>2 DEF Sound

\* When the cursor is lost every row is newer; when it has been moved under a
\* pull, what NotePinned leaves unpinned is right or newer.
LEMMA WhatIsLeft ==
  ASSUME NotePinned(TRUE), TypeOK' PROVE Covered'
<1>1. \A r \in Rows \ pinned' : Repairable(r)' /\ Queued(r)' = {}
  BY DEF NotePinned
<1> QED
  BY <1>1 DEF Repairable, Covered, Right

LEMMA CursorRuleNext ==
  ASSUME TypeOK, TypeOK', Numbered, OneEach, Covered, Sound, [Next]_vars
  PROVE  Covered' /\ Sound'
<1> DEFINE Goal == Covered' /\ Sound'
<1>1. ASSUME Rewind PROVE Goal
  <2>1. \A q \in Pulls : SoundPull(q)'
    BY <1>1, IdlePull DEF Rewind, Overtake
  <2>2. Covered'
    BY <1>1 DEF Rewind, Covered, Newer
  <2> QED
    BY <2>1, <2>2 DEF Sound
<1>2. ASSUME Interrupt PROVE Goal
  <2>1. \A q \in Pulls : SoundPull(q)'
    BY <1>2, IdlePull DEF Interrupt, Overtake
  <2> QED
    BY <1>2, <2>1, WhatIsLeft DEF Interrupt, Sound
<1>3. ASSUME NEW p \in Pulls, Begin(p) PROVE Goal
  <2>1. SoundPull(p)'
    BY <1>3 DEF Begin, SoundPull, AsAsked, AsFetched, AsRebased, AsLeft, AsPut,
       TypeOK, PullsOK
  <2> QED
    BY <1>3, <2>1, LocalStep DEF Begin, history
<1>4. ASSUME NEW p \in Pulls, Fetch(p) PROVE Goal
  <2> DEFINE F == {Fetched(r) : r \in {x \in Rows : Newer(x, from[p])}}
  <2>1. /\ pc[p] = "asking" /\ pc' = [pc EXCEPT ![p] = "fetched"]
        /\ got' = [got EXCEPT ![p] = F] /\ from' = [from EXCEPT ![p] = NoCursor]
        /\ UNCHANGED <<base, full, server, cache, cursor, outbox, rewinding,
                       history>>
    BY <1>4 DEF Fetch
  <2>2. pc'[p] = "fetched" /\ got'[p] = F
    BY <2>1 DEF TypeOK, PullsOK
  <2>3. \A g \in F : g.row \in Rows /\ g.write = val[g.row]
    BY DEF Fetched
  <2>4. ~overtaken[p] => from[p] = cursor
    BY <2>1 DEF Sound, SoundPull, AsAsked
  <2>5. ASSUME NEW r \in Rows, Newer(r, from[p]) PROVE \E g \in F : g.row = r
    <3>1. Fetched(r) \in F /\ Fetched(r).row = r
      BY <2>5 DEF Fetched
    <3> QED
      BY <3>1
  <2>6. SoundPull(p)'
    <3> SUFFICES ASSUME ~overtaken[p] PROVE AsFetched(p)' /\ AsLeft(p)'
      BY <2>1, <2>2 DEF SoundPull, AsAsked, AsRebased, AsPut, history
    <3>1. AsFetched(p)'
      BY <2>1, <2>2, <2>3 DEF AsFetched, server
    <3>2. \A r \in Rows \ pinned : (\A g \in F : g.row # r) => Right(r,
        cache[r])
      BY <2>4, <2>5 DEF Covered
    <3>3. \A r \in Rows \ pinned : (\A g \in F : g.row # r) => Right(r,
        cache[r])'
      BY <2>1, <3>2 DEF Right, Holds, Queued, server, outbox
    <3> QED
      BY <2>1, <2>2, <3>1, <3>3 DEF AsLeft, history
  <2> HIDE DEF F
  <2> QED
    BY <2>1, <2>6, LocalStep DEF history
<1>5. ASSUME NEW p \in Pulls, NEW r \in Rows, Refetch(p, r) PROVE Goal
  <2>1. /\ pc' = [pc EXCEPT ![p] = "fetched"]
        /\ got' = [got EXCEPT ![p] = {Fetched(r)}]
        /\ full' = [full EXCEPT ![p] = FALSE]
        /\ UNCHANGED <<from, base, history, server, cache, cursor, outbox,
                       rewinding>>
    BY <1>5 DEF Refetch
  <2>2. pc'[p] = "fetched" /\ got'[p] = {Fetched(r)} /\ ~full'[p]
    BY <2>1 DEF TypeOK, PullsOK
  <2>3. SoundPull(p)'
    BY <2>1, <2>2 DEF SoundPull, AsAsked, AsFetched, AsRebased, AsLeft, AsPut,
       Fetched, server
  <2>4. /\ UNCHANGED <<server, cache, cursor, outbox, rewinding, pinned>>
        /\ \A q \in Pulls \ {p} :
             /\ overtaken'[q] = overtaken[q] /\ pc'[q] = pc[q]
             /\ from'[q] = from[q] /\ got'[q] = got[q]
             /\ base'[q] = base[q] /\ full'[q] = full[q]
    BY <2>1 DEF history, TypeOK, PullsOK
  <2> QED
    BY <2>3, <2>4, LocalStep
<1>6. ASSUME NEW p \in Pulls, Overlay(p) PROVE Goal
  <2>1. /\ pc[p] = "fetched" /\ pc' = [pc EXCEPT ![p] = "rebased"]
        /\ got' = [got EXCEPT ![p] = {Rebased(g) : g \in got[p]}]
        /\ UNCHANGED <<from, base, full, server, cache, cursor, outbox,
                       rewinding, history>>
    BY <1>6 DEF Overlay
  <2>2. pc'[p] = "rebased" /\ got'[p] = {Rebased(g) : g \in got[p]}
    BY <2>1 DEF TypeOK, PullsOK
  <2>3. \A g \in got[p] : Rebased(g).row = g.row /\ Rebased(g).stamp = g.stamp
    BY RebasedValue
  <2>4. \A r : Late(p, r) => Late(p, r)'
    BY <2>1, <2>2, <2>3 DEF Late, Newer, server
  <2>5. \A r, v : Right(r, v)' <=> Right(r, v)
    BY <2>1 DEF Right, Holds, Queued, server, outbox
  <2>6. SoundPull(p)'
    <3> SUFFICES ASSUME ~overtaken[p] PROVE AsRebased(p)' /\ AsLeft(p)'
      BY <2>1, <2>2 DEF SoundPull, AsAsked, AsFetched, AsPut, history
    <3>1. AsFetched(p) /\ AsLeft(p)
      BY DEF Sound, SoundPull
    <3>2. ASSUME NEW g \in got[p]
          PROVE  Right(g.row, Rebased(g).write) \/ Late(p, g.row)
      <4>1. g \in Fetches /\ g.row \in Rows
        BY DEF TypeOK, PullsOK, Fetches
      <4>2. CASE Queued(g.row) = {}
        <5>1. Rebased(g) = g
          BY <4>2, RebasedValue
        <5> QED
          BY <2>1, <3>1, <5>1 DEF AsFetched, Right
      <4>3. CASE Queued(g.row) # {}
        <5>1. /\ [row |-> g.row, write |-> Rebased(g).write] \in queue
              /\ \A m \in Queued(g.row) : m.write <= Rebased(g).write
          BY <4>3, RebasedValue
        <5>2. Holds(g.row) => val[g.row] = Rebased(g).write
          BY <4>1, <4>3, <5>1 DEF Holds, Queued, TypeOK, ServerOK, DeviceOK,
             Mutations, Writes
        <5> QED
          BY <5>2 DEF Right
      <4> QED
        BY <4>2, <4>3
    <3>3. AsRebased(p)'
      BY <2>1, <2>2, <2>3, <2>4, <2>5, <3>2 DEF AsRebased, history
    <3>4. AsLeft(p)'
      BY <2>1, <2>2, <2>3, <2>4, <2>5, <3>1 DEF AsLeft, history
    <3> QED
      BY <3>3, <3>4
  <2> QED
    BY <2>1, <2>6, LocalStep DEF history
<1>7. ASSUME NEW p \in Pulls, Put(p) PROVE Goal
  <2>1. /\ pc[p] = "rebased"
        /\ cache' = [r \in Rows |->
                       IF \E g \in got[p] : g.row = r
                       THEN (CHOOSE g \in got[p] : g.row = r).write ELSE cache[r]]
        /\ Overtake(Pulls \ {p}) /\ NotePinned(overtaken[p])
        /\ UNCHANGED <<server, cursor, outbox, rewinding>>
    BY <1>7 DEF Put
  <2>2. \/ pc' = [pc EXCEPT ![p] = "put"] /\ UNCHANGED <<from, got, base, full>>
        \/ pc'[p] = "idle"
    BY <1>7 DEF Put, Forget, TypeOK, PullsOK
  <2>3. \A q \in Pulls \ {p} : SoundPull(q)'
    BY <2>1, IdlePull DEF Overtake
  <2>4. CASE overtaken[p]
    <3>1. SoundPull(p)'
      BY <2>1, <2>4, IdlePull DEF Overtake
    <3> QED
      BY <2>1, <2>3, <2>4, <3>1, WhatIsLeft DEF Sound
  <2>5. CASE ~overtaken[p]
    <3>1. pinned' = pinned
      BY <2>1, <2>5 DEF NotePinned
    <3>2. AsRebased(p) /\ AsLeft(p)
      BY <2>5 DEF Sound, SoundPull
    <3>3. \A g \in got[p] : g.row \in Rows => cache'[g.row] = g.write
      <4> TAKE g \in got[p]
      <4> HAVE g.row \in Rows
      <4>1. \A h \in got[p] : h.row = g.row => h = g
        BY DEF OneEach
      <4>2. (CHOOSE h \in got[p] : h.row = g.row) = g
        BY <4>1
      <4> QED
        BY <2>1, <4>2
    <3>4. \A r \in Rows : (\A g \in got[p] : g.row # r) => cache'[r] = cache[r]
      BY <2>1
    <3>5. \A r, v : Right(r, v)' <=> Right(r, v)
      BY <2>1 DEF Right, Holds, Queued, server, outbox
    <3>6. Covered'
      BY <2>1, <3>1, <3>2, <3>3, <3>4, <3>5
      DEF Covered, AsRebased, Late, Newer, server
    <3>7. CASE pc'[p] = "idle"
      BY <2>3, <3>6, <3>7, IdlePull DEF Sound
    <3>8. CASE pc' = [pc EXCEPT ![p] = "put"] /\ UNCHANGED <<from, got, base,
        full>>
      <4>1. full[p] => AsPut(p)'
        <5>1. \A r : Late(p, r) => Late(p, r)'
          BY <2>1, <3>8 DEF Late, Newer, server
        <5> QED
          BY <2>1, <3>1, <3>2, <3>3, <3>4, <3>5, <5>1
          DEF AsPut, AsRebased, AsLeft
      <4>2. full[p] \/ pc'[p] = "idle"
        BY <1>7 DEF Put, Forget, TypeOK, PullsOK
      <4>3. pc'[p] = "put" \/ pc'[p] = "idle"
        BY <2>2 DEF TypeOK, PullsOK
      <4>4. SoundPull(p)'
        BY <4>1, <4>2, <4>3
        DEF SoundPull, AsAsked, AsFetched, AsRebased, AsLeft, AsPut
      <4> QED
        BY <2>3, <3>6, <4>4 DEF Sound
    <3> QED
      BY <2>2, <3>7, <3>8
  <2> QED
    BY <2>4, <2>5
<1>8. ASSUME NEW p \in Pulls, ReadAgain(p) PROVE Goal
  <2>1. /\ pc[p] = "put" /\ pc' = [pc EXCEPT ![p] = "moving"]
        /\ base' = [base EXCEPT ![p] = cursor]
        /\ UNCHANGED <<from, got, full, server, cache, cursor, outbox,
                       rewinding, history>>
    BY <1>8 DEF ReadAgain
  <2>2. pc'[p] = "moving" /\ base'[p] = cursor
    BY <2>1 DEF TypeOK, PullsOK
  <2>3. SoundPull(p)'
    <3>1. \A r : Late(p, r) <=> Late(p, r)'
      BY <2>1 DEF Late, Newer, server
    <3>2. \A r, v : Right(r, v)' <=> Right(r, v)
      BY <2>1 DEF Right, Holds, Queued, server, outbox
    <3>3. ~overtaken[p] => AsPut(p)
      BY DEF Sound, SoundPull
    <3> QED
      BY <2>1, <2>2, <3>1, <3>2, <3>3
      DEF SoundPull, AsAsked, AsFetched, AsRebased, AsLeft, AsPut, history
  <2> QED
    BY <2>1, <2>3, LocalStep DEF history
<1>9. ASSUME NEW p \in Pulls, Advance(p) PROVE Goal
  <2> DEFINE a == Advanced(base[p], got[p])
  <2>1. /\ pc[p] = "moving" /\ Forget(p)
        /\ cursor' = IF a = base[p] THEN cursor ELSE a
        /\ Overtake(IF cursor' = cursor THEN {} ELSE Pulls)
        /\ NotePinned(overtaken[p])
        /\ UNCHANGED <<server, cache, outbox, rewinding>>
    BY <1>9 DEF Advance
  <2>2. \/ a = base[p]
        \/ a \in Int /\ \E h \in got[p] : h.stamp = a + Overlap
    BY AdvancedValue
  <2> HIDE DEF a
  <2>3. pc'[p] = "idle" /\ \A q \in Pulls \ {p} :
          /\ pc'[q] = pc[q] /\ from'[q] = from[q] /\ got'[q] = got[q]
          /\ base'[q] = base[q] /\ full'[q] = full[q]
    BY <2>1 DEF Forget, TypeOK, PullsOK
  <2>4. pinned \subseteq pinned'
    BY <2>1 DEF NotePinned
  <2>5. Sound'
    <3>1. ASSUME NEW q \in Pulls PROVE SoundPull(q)'
      <4>1. CASE q = p
        BY <2>3, <4>1, IdlePull
      <4>2. CASE q # p /\ cursor' = cursor
        <5>1. CASE pc[q] = "idle"
          BY <2>3, <4>2, <5>1, IdlePull
        <5>2. CASE pc[q] # "idle"
          <6>1. overtaken'[q] = overtaken[q]
            BY <2>1, <2>3, <4>2, <5>2 DEF Overtake, TypeOK
          <6> QED
            BY <2>1, <2>3, <2>4, <4>2, <6>1, OtherPull DEF server, outbox
        <5> QED
          BY <5>1, <5>2
      <4>3. CASE cursor' # cursor
        BY <2>1, <4>3, IdlePull DEF Overtake
      <4> QED
        BY <4>1, <4>2, <4>3
    <3> QED
      BY <3>1 DEF Sound
  <2>6. Covered'
    <3>1. CASE overtaken[p]
      BY <2>1, <3>1, WhatIsLeft
    <3>2. CASE ~overtaken[p]
      <4>1. pinned' = pinned
        BY <2>1, <3>2 DEF NotePinned
      <4>2. \A r, v : Right(r, v)' <=> Right(r, v)
        BY <2>1 DEF Right, Holds, Queued, server, outbox
      <4>3. CASE cursor' = cursor
        BY <2>1, <4>1, <4>2, <4>3 DEF Covered, Newer, server
      <4>4. CASE cursor' # cursor
        <5>1. /\ cursor' = a /\ a \in Int
              /\ \E h \in got[p] : h.stamp = a + Overlap
          BY <2>1, <2>2, <4>4
        <5>2. \A r \in Rows : Late(p, r) => Newer(r, cursor)'
          <6> TAKE r \in Rows
          <6> HAVE Late(p, r)
          <6>1. PICK h \in got[p] : h.stamp = a + Overlap
            BY <5>1
          <6>2. h.stamp < stamp[r] + Overlap
            BY DEF Late
          <6>3. stamp[r] \in Int /\ stamp' = stamp
            BY <2>1 DEF TypeOK, ServerOK, server
          <6> QED
            BY <5>1, <6>1, <6>2, <6>3, Constants DEF Newer
        <5>3. AsPut(p)
          BY <3>2 DEF Sound, SoundPull
        <5> QED
          BY <2>1, <4>1, <4>2, <5>2, <5>3 DEF AsPut, Covered
      <4> QED
        BY <4>3, <4>4
    <3> QED
      BY <3>1, <3>2
  <2> QED
    BY <2>5, <2>6
<1>10. ASSUME NEW p \in Pulls, Stop(p) PROVE Goal
  <2>1. Forget(p) /\ Overtake({})
        /\ UNCHANGED <<pinned, server, cache, cursor, outbox, rewinding>>
    BY <1>10 DEF Stop
  <2>2. pc'[p] = "idle" /\ \A q \in Pulls \ {p} :
          /\ pc'[q] = pc[q] /\ from'[q] = from[q] /\ got'[q] = got[q]
          /\ base'[q] = base[q] /\ full'[q] = full[q]
    BY <2>1 DEF Forget, TypeOK, PullsOK
  <2>3. ASSUME NEW q \in Pulls PROVE SoundPull(q)'
    <3>1. CASE q = p \/ pc[q] = "idle"
      BY <2>2, <3>1, IdlePull
    <3>2. CASE q # p /\ pc[q] # "idle"
      <4>1. overtaken'[q] = overtaken[q]
        BY <2>1, <2>2, <3>2 DEF Overtake, TypeOK
      <4> QED
        BY <2>1, <2>2, <3>2, <4>1, OtherPull DEF server, outbox
    <3> QED
      BY <3>1, <3>2
  <2>4. Covered'
    BY <2>1 DEF Covered, Right, Holds, Queued, Newer, server, outbox
  <2> QED
    BY <2>3, <2>4 DEF Sound
<1> HIDE DEF Goal
<1>11. Outside => Goal
  BY OutsideKeeps DEF Goal
<1> QED
  BY <1>1, <1>2, <1>3, <1>4, <1>5, <1>6, <1>7, <1>8, <1>9, <1>10, <1>11,
     OutsideSteps
  DEF Next, PullStep, Goal

\* A row that nothing is queued for shows the server's value or will be brought
\* by the next pull, however many pulls of however many tabs interleave, unless
\* one of them was overtaken (advanceCursor, invalidateCursorsFor).
THEOREM NothingElsePinnedTheorem == Spec => []NothingElsePinned
<1>1. Init => Covered /\ Sound /\ OneEach
  BY DEF Init, Covered, Right, Holds, Queued, Newer, Sound, SoundPull, AsAsked,
     AsFetched, AsRebased, AsLeft, AsPut, OneEach
<1>2. TypeOK /\ TypeOK' /\ Numbered /\ OneEach /\ Covered /\ Sound /\ [Next]_vars
        => Covered' /\ Sound'
  BY CursorRuleNext
<1>3. Covered => NothingElsePinned
  BY DEF Covered, NothingElsePinned, Repairable, Right, Holds
<1> QED
  BY <1>1, <1>2, <1>3, Typed0, TypedNext, Numbered0, NumberedNext, OneEachNext,
     PTL DEF Spec

-----------------------------------------------------------------------------
\* One pull at a time.

Alone(p) == pc[p] = "moving" => cursor \in {NoCursor, base[p]}

LEMMA AloneNext ==
  ASSUME NEW p \in Pulls, Pulls = {p}, TypeOK, Alone(p), [Next]_vars
  PROVE  Alone(p)'
<1> USE DEF Alone, TypeOK, PullsOK
<1>1. ASSUME NEW t \in open, Commit(t) PROVE Alone(p)'
  BY <1>1 DEF Commit, outbox, pulls, history, bounds
<1>2. ASSUME Tick PROVE Alone(p)'
  BY <1>2 DEF Tick, outbox, pulls, history, bounds
<1>3. ASSUME NEW r \in Rows, Elsewhere(r) PROVE Alone(p)'
  BY <1>3 DEF Elsewhere, outbox, pulls, history, bounds
<1>4. ASSUME NEW r \in Rows, Edit(r) PROVE Alone(p)'
  BY <1>4 DEF Edit, server, pulls, history, bounds
<1>5. ASSUME NEW m \in queue, Upload(m) PROVE Alone(p)'
  BY <1>5 DEF Upload, pulls, history, bounds
<1>6. ASSUME NEW m \in queue, Discard(m) PROVE Alone(p)'
  BY <1>6 DEF Discard, server, pulls, history
<1>7. ASSUME Retire PROVE Alone(p)'
  BY <1>7 DEF Retire, server, pulls, bounds
<1>8. ASSUME FailUpload PROVE Alone(p)'
  BY <1>8 DEF FailUpload, pulls, history
<1>9. ASSUME RetryAll PROVE Alone(p)'
  BY <1>9 DEF RetryAll, server, pulls, history, bounds
<1>10. ASSUME Rewind PROVE Alone(p)'
  BY <1>10 DEF Rewind, server, outbox, pulls, bounds
<1>11. ASSUME Interrupt PROVE Alone(p)'
  BY <1>11 DEF Interrupt, server, outbox, pulls, bounds
<1>12. ASSUME NEW q \in Pulls, Begin(q) PROVE Alone(p)'
  BY <1>12 DEF Begin, server, outbox, history, bounds
<1>13. ASSUME NEW q \in Pulls, Fetch(q) PROVE Alone(p)'
  BY <1>13 DEF Fetch, server, outbox, history, bounds
<1>14. ASSUME NEW q \in Pulls, Overlay(q) PROVE Alone(p)'
  BY <1>14 DEF Overlay, server, outbox, history, bounds
<1>15. ASSUME NEW q \in Pulls, Put(q) PROVE Alone(p)'
  BY <1>15 DEF Put, Forget, server, outbox, bounds
<1>16. ASSUME NEW q \in Pulls, ReadAgain(q) PROVE Alone(p)'
  BY <1>16 DEF ReadAgain, server, outbox, history, bounds
<1>17. ASSUME NEW q \in Pulls, Advance(q) PROVE Alone(p)'
  BY <1>17 DEF Advance, Forget, server, outbox, bounds
<1>18. ASSUME NEW q \in Pulls, Stop(q) PROVE Alone(p)'
  BY <1>18 DEF Stop, Forget, server, outbox
<1>19. ASSUME NEW q \in Pulls, NEW r \in Rows, Refetch(q, r) PROVE Alone(p)'
  BY <1>19 DEF Refetch, server, outbox, history, bounds
<1>20. ASSUME UNCHANGED vars PROVE Alone(p)'
  BY <1>20 DEF vars, server, outbox, pulls, history, bounds
<1> QED
  BY <1>1, <1>2, <1>3, <1>4, <1>5, <1>6, <1>7, <1>8, <1>9, <1>10, <1>11,
     <1>12, <1>13, <1>14, <1>15, <1>16, <1>17, <1>18, <1>19, <1>20
  DEF Next, PullStep

\* With one pull at a time the cursor moves forward until it is deleted
\* (advanceCursor).
THEOREM CursorMovesForwardTheorem ==
  ASSUME NEW p \in Pulls, Pulls = {p} PROVE Spec => CursorMovesForward
<1> DEFINE Forward == cursor # NoCursor /\ cursor' # NoCursor => cursor <= cursor'
<1>1. Init => Alone(p)
  BY DEF Init, Alone
<1>2. TypeOK /\ Alone(p) /\ [Next]_vars => Alone(p)'
  BY AloneNext
<1>3. TypeOK /\ Alone(p) /\ [Next]_vars => [Forward]_vars
  <2> SUFFICES ASSUME TypeOK, Alone(p), [Next]_vars, cursor # NoCursor,
                      cursor' # NoCursor
               PROVE  cursor <= cursor'
    OBVIOUS
  <2>1. cursor \in Int
    BY DEF TypeOK, DeviceOK, CursorOK
  <2>2. CASE Advance(p)
    <3>1. cursor = base[p]
      BY <2>2 DEF Advance, Alone
    <3> QED
      BY <2>1, <2>2, <3>1, AdvancedValue DEF Advance
  <2>3. CASE Rewind
    BY <2>3 DEF Rewind
  <2>4. cursor' = cursor \/ Advance(p) \/ Rewind
    BY DEF Next, PullStep, vars, Commit, Tick, Elsewhere, Edit, Upload, Discard,
       Retire, FailUpload, RetryAll, Interrupt, Begin, Fetch, Overlay, Put,
       ReadAgain, Stop, Refetch
  <2> QED
    BY <2>1, <2>2, <2>3, <2>4
<1> QED
  BY <1>1, <1>2, <1>3, DeltaTypeCorrect, PTL DEF Spec, CursorMovesForward

=============================================================================
