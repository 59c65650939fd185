----------------------------- MODULE PullProofs -----------------------------
(***************************************************************************)
(* Proofs about the pulls of a crew device: which rows they keep           *)
(* (ScopeSync, for any turnovers, any number of overlapping pulls of both  *)
(* kinds, and any changes, upsets and reloads) and when they run (Resync). *)
(***************************************************************************)
EXTENDS ScopeSync, WellFoundedInduction, TLAPS

LEMMA Constants ==
  /\ ScopePulls \cap ListPulls = {} /\ Starts \subseteq SUBSET Turnovers
  /\ MaxClock \in Nat \ {0} /\ MaxUpsets \in Nat
BY ScopeAssumption

\* A bounded set of numbers that is not empty has a greatest member.
LEMMA MaxOf ==
  ASSUME NEW n \in Nat, NEW S, S \subseteq 0..n, S # {}
  PROVE  Max(S) \in S /\ \A x \in S : x <= Max(S)
<1> DEFINE Below == {ss \in Nat \X Nat : ss[1] < ss[2]}
           T == {k \in Nat : n - k \in S}
<1>1. PICK y \in S : TRUE
  OBVIOUS
<1>2. y \in 0..n /\ n - y \in Nat /\ n - (n - y) = y
  OBVIOUS
<1>3. T \subseteq Nat /\ n - y \in T
  BY <1>2
<1>4. IsWellFoundedOn(Below, Nat)
  BY NatLessThanWellFounded, Zenon DEF OpToRel
<1>5. \E t \in T : \A u \in T : ~(<<u, t>> \in Below)
  <2> HIDE DEF T, Below
  <2> QED
    BY <1>3, <1>4, WFMin
<1>6. \E t \in T : \A u \in T : t <= u
  <2>1. PICK t \in T : \A u \in T : ~(<<u, t>> \in Below)
    BY <1>5
  <2> HIDE DEF T
  <2>2. ASSUME NEW u \in T PROVE t <= u
    <3>1. u \in Nat /\ t \in Nat /\ ~(<<u, t>> \in Below)
      BY <1>3, <2>1
    <3> QED
      BY <3>1
  <2> QED
    BY <2>2
<1>7. PICK t \in T : \A u \in T : t <= u
  BY <1>6
<1>8. \A x \in S : x <= n - t
  <2> TAKE x \in S
  <2>1. x \in 0..n /\ n - x \in Nat /\ n - (n - x) = x
    OBVIOUS
  <2>2. n - x \in T
    BY <2>1
  <2>3. t <= n - x
    BY <1>7, <2>2
  <2> QED
    BY <2>1, <2>3
<1>9. n - t \in S
  OBVIOUS
<1>10. \E x \in S : \A z \in S : x >= z
  BY <1>8, <1>9
<1> QED
  BY <1>10 DEF Max
-----------------------------------------------------------------------------
\* What the operators return.

\* The cursor a pull leaves: where it was, or the newest stamp it has put.
LEMMA NewestValue ==
  ASSUME TypeOK, NEW p \in Pulls
  PROVE  /\ Newest(p) \in 0..clock /\ cursor[table[p]] <= Newest(p)
         /\ \A g \in got[p] : g.stamp <= Newest(p)
         /\ Newest(p) = cursor[table[p]] \/ \E g \in got[p] : g.stamp = Newest(p)
<1> DEFINE S == {cursor[table[p]]} \cup {g.stamp : g \in got[p]}
<1>1. /\ clock \in Nat /\ cursor[table[p]] \in 0..clock
      /\ \A g \in got[p] : g.stamp \in 0..clock
  BY Constants DEF TypeOK
<1>2. S \subseteq 0..clock /\ S # {}
  BY <1>1
<1>3. Max(S) \in S /\ \A x \in S : x <= Max(S)
  <2> HIDE DEF S
  <2> QED
    BY <1>1, <1>2, MaxOf
<1>4. Newest(p) = Max(S)
  BY DEF Newest
<1> QED
  BY <1>2, <1>3, <1>4

\* A row a pull has in hand is put with a stamp it was fetched with.
LEMMA PutValue ==
  ASSUME TypeOK, NEW p \in Pulls, NEW x \in Ids(p)
  PROVE  LET h == CHOOSE g \in got[p] : g.id = x
         IN h \in got[p] /\ h.id = x /\ h.stamp \in 1..clock
<1>1. (CHOOSE g \in got[p] : g.id = x) \in got[p]
      /\ (CHOOSE g \in got[p] : g.id = x).id = x
  BY DEF Ids
<1> QED
  BY <1>1 DEF TypeOK

-----------------------------------------------------------------------------
\* Type correctness.

LEMMA Typed0 == Init => TypeOK
BY Constants DEF Init, TypeOK, Tables

LEMMA TypedNext == TypeOK /\ [Next]_vars => TypeOK'
<1> SUFFICES ASSUME TypeOK, [Next]_vars PROVE TypeOK'
  OBVIOUS
<1> USE Constants DEF TypeOK, Tables, server, device, locals
<1>1. ASSUME NEW p \in Pulls, FetchScope(p) PROVE TypeOK'
  BY <1>1 DEF FetchScope, Goto
<1>2. ASSUME NEW p \in Pulls, ReadLocal(p) PROVE TypeOK'
  BY <1>2 DEF ReadLocal, Goto, Cached
<1>3. ASSUME NEW p \in Pulls, ReadList(p) PROVE TypeOK'
  BY <1>3 DEF ReadList, Request, Goto, Cached
<1>4. ASSUME NEW p \in Pulls, ReadChildren(p) PROVE TypeOK'
  BY <1>4 DEF ReadChildren, Goto
<1>5. ASSUME NEW p \in Pulls, ReadBusy(p) PROVE TypeOK'
  BY <1>5 DEF ReadBusy, Removable, Goto
<1>6. ASSUME NEW p \in Pulls, DropRows(p) PROVE TypeOK'
  BY <1>6 DEF DropRows, Uncache, Cut, Idle
<1>7. ASSUME NEW p \in Pulls, DropChildren(p) PROVE TypeOK'
  BY <1>7 DEF DropChildren, Uncache, Cut, Idle
<1>8. ASSUME NEW p \in Pulls, Reconciled(p) PROVE TypeOK'
  <2>1. CASE want[p] = {}
    <3>1. Over(p) /\ UNCHANGED <<server, device, upsets, severed, caught>>
      BY <1>8, <2>1 DEF Reconciled
    <3> QED
      BY <3>1 DEF Over, Forget, Idle
  <2>2. CASE want[p] # {}
    BY <1>8, <2>2 DEF Reconciled, Request, Goto
  <2> QED
    BY <2>1, <2>2
<1>9. ASSUME NEW p \in Pulls, Fetch(p) PROVE TypeOK'
  BY <1>9 DEF Fetch, Answer, Goto
<1>10. ASSUME NEW p \in Pulls, Put(p) PROVE TypeOK'
  <2>1. cache' \in [Tables -> [Turnovers -> 0..clock]]
    BY <1>10, PutValue DEF Put
  <2> QED
    BY <1>10, <2>1 DEF Put, Goto, Severed, Amid, Ids
<1>11. ASSUME NEW p \in Pulls, Advance(p) PROVE TypeOK'
  <2>1. Newest(p) \in 0..clock
    BY NewestValue
  <2> QED
    <3>1. /\ cursor' \in [Tables -> 0..clock] /\ overtaken' \subseteq Pulls
          /\ severed' \subseteq Tables \X Turnovers
          /\ UNCHANGED <<server, cache, busy, upsets, caught>>
      BY <1>11, <2>1 DEF Advance, Amid, Cached
    <3>2. CASE table[p] = "checklists"
      <4>1. Forget(p)
        BY <1>11, <3>2 DEF Advance
      <4> QED
        BY <3>1, <4>1 DEF Forget, Idle
    <3>3. CASE table[p] # "checklists"
      BY <1>11, <3>1, <3>3 DEF Advance, Goto, Idle
    <3> QED
      BY <3>2, <3>3
<1>12. ASSUME NEW p \in Pulls, Reference(p) PROVE TypeOK'
  BY <1>12 DEF Reference, Request, Goto
<1>13. ASSUME NEW p \in Pulls, Fail(p) PROVE TypeOK'
  BY <1>13 DEF Fail, Over, Forget, Idle, Stranded, Fresh
<1>14. ASSUME Reload PROVE TypeOK'
  BY <1>14 DEF Reload, Stranded, Fresh
<1>15. ASSUME NEW x \in Turnovers, Work(x) PROVE TypeOK'
  BY <1>15 DEF Work
<1>16. ASSUME NEW x \in Turnovers, Land(x) PROVE TypeOK'
  BY <1>16 DEF Land, Touch
<1>17. ASSUME NEW x \in Turnovers, Move(x) PROVE TypeOK'
  BY <1>17 DEF Move
<1>18. ASSUME NEW x \in Turnovers, NEW t \in Tables, Change(t, x) PROVE TypeOK'
  BY <1>18 DEF Change, Touch
<1>19. ASSUME UNCHANGED vars PROVE TypeOK'
  BY <1>19 DEF vars
<1> HIDE DEF TypeOK, Tables
<1> QED
  BY <1>1, <1>2, <1>3, <1>4, <1>5, <1>6, <1>7, <1>8, <1>9, <1>10, <1>11, <1>12,
     <1>13, <1>14, <1>15, <1>16, <1>17, <1>18, <1>19 DEF Next, Pull

\* Whatever overlaps, fails or reloads, the state keeps its types: in
\* particular no cursor is ever past the clock of the server
\* (computeAdvancedCursor takes it from rows, cursors.ts).
THEOREM ScopeTypeCorrect == Spec => []TypeOK
<1> QED
  BY Typed0, TypedNext, PTL DEF Spec

-----------------------------------------------------------------------------
(***************************************************************************)
(* Work keeps its rows.                                                    *)
(***************************************************************************)
\* What a pull removes is in its hands only while it looks and deletes.
Emptied ==
  \A p \in Pulls : /\ pc[p] \notin {"busy", "drop"} => kids[p] = {}
                   /\ pc[p] # "drop" => doomed[p] = {}

\* No removal is about to take work it has had the chance to see.
Heeded == \A p \in Pulls : (busy \ caught) \cap Unseen(p) = {}

WorkInv == TypeOK /\ Emptied /\ Heeded /\ WorkKeepsItsRows

LEMMA Work0 == Init => WorkInv
<1> SUFFICES ASSUME Init PROVE WorkInv
  OBVIOUS
<1>1. TypeOK
  BY Typed0
<1> QED
  BY <1>1, Constants DEF Init, WorkInv, Emptied, Heeded, WorkKeepsItsRows, Unseen

LEMMA WorkNext == WorkInv /\ [Next]_vars => WorkInv'
<1> SUFFICES ASSUME WorkInv, [Next]_vars PROVE Emptied' /\ Heeded' /\ WorkKeepsItsRows'
  BY TypedNext DEF WorkInv
<1> DEFINE Kept == Emptied' /\ Heeded' /\ WorkKeepsItsRows'
<1> USE DEF WorkInv, TypeOK, Emptied, Heeded, WorkKeepsItsRows, Unseen, Tables
<1>1. ASSUME NEW p \in Pulls, FetchScope(p) PROVE Kept
  BY <1>1 DEF FetchScope, Goto, server, device
<1>2. ASSUME NEW p \in Pulls, ReadLocal(p) PROVE Kept
  BY <1>2 DEF ReadLocal, Goto, server, device
<1>3. ASSUME NEW p \in Pulls, ReadList(p) PROVE Kept
  BY <1>3 DEF ReadList, Request, Goto, server, device
<1>4. ASSUME NEW p \in Pulls, ReadChildren(p) PROVE Kept
  BY <1>4 DEF ReadChildren, Goto, server, device
<1>5. ASSUME NEW p \in Pulls, ReadBusy(p) PROVE Kept
  BY <1>5 DEF ReadBusy, Removable, Goto, server, device
<1>6. ASSUME NEW p \in Pulls, DropRows(p) PROVE Kept
  BY <1>6 DEF DropRows, Uncache, Idle, server
<1>7. ASSUME NEW p \in Pulls, DropChildren(p) PROVE Kept
  BY <1>7 DEF DropChildren, Uncache, Idle, server
<1>8. ASSUME NEW p \in Pulls, Reconciled(p) PROVE Kept
  <2>1. CASE want[p] = {}
    BY <1>8, <2>1 DEF Reconciled, Over, Forget, Idle, server, device
  <2>2. CASE want[p] # {}
    <3>1. /\ pc' = [pc EXCEPT ![p] = "fetch"]
          /\ UNCHANGED <<want, local, doomed, kids, cache, busy, caught>>
      BY <1>8, <2>2 DEF Reconciled, Request, Goto, server, device
    <3>2. \A q \in Pulls : Unseen(q)' = Unseen(q)
      BY <1>8, <3>1 DEF Reconciled
    <3> QED
      BY <1>8, <3>1, <3>2 DEF Reconciled
  <2> QED
    BY <2>1, <2>2
<1>9. ASSUME NEW p \in Pulls, Fetch(p) PROVE Kept
  BY <1>9 DEF Fetch, Goto, server, device
<1>10. ASSUME NEW p \in Pulls, Put(p) PROVE Kept
  <2>1. \A t \in Tables, x \in Turnovers : cache[t][x] # 0 => cache'[t][x] # 0
    BY <1>10, PutValue DEF Put
  <2> QED
    BY <1>10, <2>1 DEF Put, Goto, server
<1>11. ASSUME NEW p \in Pulls, Advance(p) PROVE Kept
  <2>1. CASE table[p] = "checklists"
    <3>1. Forget(p) /\ UNCHANGED <<server, cache, busy, caught>>
      BY <1>11, <2>1 DEF Advance
    <3> QED
      BY <3>1 DEF Forget, Idle, server
  <2>2. CASE table[p] # "checklists"
    BY <1>11, <2>2 DEF Advance, Goto, server
  <2> QED
    BY <2>1, <2>2
<1>12. ASSUME NEW p \in Pulls, Reference(p) PROVE Kept
  BY <1>12 DEF Reference, Request, Goto, server, device
<1>13. ASSUME NEW p \in Pulls, Fail(p) PROVE Kept
  BY <1>13 DEF Fail, Over, Forget, Idle, server, device
<1>14. ASSUME Reload PROVE Kept
  BY <1>14 DEF Reload, server, device
<1>15. ASSUME NEW x \in Turnovers, Work(x) PROVE Kept
  BY <1>15 DEF Work, server, locals
<1>16. ASSUME NEW x \in Turnovers, Land(x) PROVE Kept
  BY <1>16 DEF Land, Touch, locals
<1>17. ASSUME NEW x \in Turnovers, Move(x) PROVE Kept
  BY <1>17 DEF Move, device, locals
<1>18. ASSUME NEW x \in Turnovers, NEW t \in Tables, Change(t, x) PROVE Kept
  BY <1>18 DEF Change, Touch, device, locals
<1>19. ASSUME UNCHANGED vars PROVE Kept
  BY <1>19 DEF vars, server, device, locals
<1> HIDE DEF Kept, WorkInv, TypeOK, Emptied, Heeded, WorkKeepsItsRows, Unseen, Tables
<1>20. Kept
  BY <1>1, <1>2, <1>3, <1>4, <1>5, <1>6, <1>7, <1>8, <1>9, <1>10, <1>11, <1>12,
     <1>13, <1>14, <1>15, <1>16, <1>17, <1>18, <1>19 DEF Next, Pull
<1> QED
  BY <1>20 DEF Kept

\* "A turnover with unsent work stays, however it came to be a candidate"
\* (turnovers.ts:213): whatever pulls overlap, neither the turnover's row nor its
\* checklist goes while work is queued on it, but for the work a removal could
\* not see: queued after it had looked, or on a checklist it had not read.
THEOREM WorkKeepsItsRowsTheorem == Spec => []WorkKeepsItsRows
<1>1. WorkInv => WorkKeepsItsRows
  BY DEF WorkInv
<1> QED
  BY Work0, WorkNext, <1>1, PTL DEF Spec

-----------------------------------------------------------------------------
(***************************************************************************)
(* The delta covers what is cached.                                        *)
(***************************************************************************)
\* A checklists pull removes nothing and never has turnovers to put.
Listed ==
  \A p \in ListPulls :
    /\ pc[p] \in {"idle", "fetch", "put", "advance"}
    /\ pc[p] # "idle" => table[p] = "checklists"

\* The property itself, of what is cached though it is not assigned now too.
Covered == \A t \in Tables, x \in Cached : Follows(t, x) \/ <<t, x>> \in severed

\* A full fetch or a delta, from a cursor that has only moved on since.
Behind == \A p \in Pulls : from[p] <= cursor[table[p]]

\* A row that was known when the pull began and has gone since.
Orphaned ==
  \A p \in Pulls : \A x \in local[p] \ Cached : <<"checklists", x>> \in severed

\* A version newer than all that the pull has in hand: its cursor stays below.
Past(p, s) == \A g \in got[p] : g.stamp < s

\* What a pull is about to put: one version of a row, of those it asked for, and
\* unless another has gone past it the server's or one that the delta replaces.
InHand(p) == pc[p] = "put" =>
  /\ Ids(p) \subseteq want[p]
  /\ \A g, h \in got[p] : g.id = h.id => g = h
  /\ p \notin overtaken => \A g \in got[p] :
       \/ g.stamp = stamp[table[p]][g.id]
       \/ stamp[table[p]][g.id] > cursor[table[p]]

\* A row a pull has asked for: the cursor is past it already, or will not go
\* past it, or the row is in hand, or it is cut off.
Asked(p) == pc[p] = "put" => \A x \in want[p] :
  \/ stamp[table[p]][x] <= cursor[table[p]]
  \/ Past(p, stamp[table[p]][x])
  \/ [id |-> x, stamp |-> stamp[table[p]][x]] \in got[p]
  \/ x \notin Ids(p) /\ <<table[p], x>> \in severed

\* A new turnover's row that did not come is cut off.
Missed(p) == pc[p] = "put" =>
  \A x \in Fresh(p) \ Ids(p) : <<table[p], x>> \in severed

\* The same after the put, of what is cached.
Stored(p) == pc[p] = "advance" => \A x \in want[p] \cap Cached :
  \/ stamp[table[p]][x] <= cursor[table[p]]
  \/ Past(p, stamp[table[p]][x])
  \/ cache[table[p]][x] = stamp[table[p]][x]
  \/ Coming(table[p], x)
  \/ <<table[p], x>> \in severed

\* Between its put and its cursor a pull leaves to the others in hand only what
\* is the server's, or what it will not go past.
Left(p) == pc[p] = "advance" /\ got[p] # {} =>
  \A q \in Amid(p) \ overtaken : \A g \in got[q] :
    \/ g.stamp = stamp[table[p]][g.id]
    \/ Past(p, stamp[table[p]][g.id])

PullInv(p) == InHand(p) /\ Asked(p) /\ Missed(p) /\ Stored(p) /\ Left(p)

DeltaInv ==
  TypeOK /\ Listed /\ Covered /\ Behind /\ Orphaned /\ \A p \in Pulls : PullInv(p)

LEMMA Delta0 == Init => DeltaInv
<1> SUFFICES ASSUME Init PROVE DeltaInv
  OBVIOUS
<1>1. TypeOK
  BY Typed0
<1>2. Cached = {}
  BY DEF Init, Cached, Tables
<1>3. Covered /\ Behind /\ Orphaned /\ Listed
  BY <1>2 DEF Init, Covered, Behind, Orphaned, Listed, Pulls, Tables
<1>4. ASSUME NEW p \in Pulls PROVE PullInv(p)
  BY DEF Init, PullInv, InHand, Asked, Missed, Stored, Left
<1> QED
  BY <1>1, <1>3, <1>4 DEF DeltaInv

\* What a pull has put stays right while others move.
LEMMA StoredKept ==
  ASSUME TypeOK, NEW q \in Pulls, Stored(q), UNCHANGED <<stamp, cache, cursor>>,
         severed \subseteq severed',
         pc'[q] = pc[q], table'[q] = table[q], want'[q] = want[q], got'[q] = got[q],
         \A t \in Tables, x \in Cached : Coming(t, x) => Coming(t, x)' \/ <<t, x>> \in severed'
  PROVE  Stored(q)'
<1> DEFINE T == table[q]
<1>1. T \in Tables /\ table'[q] = T /\ Cached' = Cached
  BY DEF TypeOK, Cached
<1>2. \A s : Past(q, s)' <=> Past(q, s)
  BY DEF Past
<1> SUFFICES ASSUME pc[q] = "advance", NEW x \in want[q] \cap Cached
             PROVE  \/ stamp[T][x] <= cursor[T]
                    \/ Past(q, stamp[T][x])
                    \/ cache[T][x] = stamp[T][x]
                    \/ Coming(T, x)'
                    \/ <<T, x>> \in severed'
  BY <1>1, <1>2 DEF Stored
<1> QED
  BY <1>1 DEF Stored

\* A pull that moves between places where it has nothing to put and brings
\* nothing.
LEMMA Elsewhere ==
  ASSUME DeltaInv, TypeOK', NEW p \in Pulls,
         pc[p] \notin {"put", "advance", "reference"},
         pc[p] = "fetch" => table[p] # "checklists" \/ p \notin ScopePulls,
         pc'[p] \notin {"put", "advance", "reference"},
         p \in ListPulls => \/ pc'[p] = "idle"
                            \/ pc'[p] = "fetch" /\ table'[p] = "checklists",
         from'[p] <= cursor[table'[p]],
         local'[p] \subseteq local[p] \cup Cached,
         \A q \in Pulls \ {p} :
           /\ pc'[q] = pc[q] /\ table'[q] = table[q] /\ want'[q] = want[q]
           /\ local'[q] = local[q] /\ got'[q] = got[q] /\ from'[q] = from[q]
           /\ q \in overtaken => q \in overtaken',
         UNCHANGED <<server, cache, cursor, severed>>
  PROVE  DeltaInv'
<1> USE DEF DeltaInv, server
<1>1. Cached' = Cached /\ \A q \in Pulls \ {p} : Fresh(q)' = Fresh(q) /\ Ids(q)' = Ids(q)
  BY DEF Cached, Fresh, Ids
<1>2. \A t \in Tables, x \in Turnovers : Coming(t, x) => Coming(t, x)'
  BY <1>1 DEF Coming, Pulls
<1>3. Listed' /\ Behind' /\ Orphaned'
  BY <1>1 DEF Listed, Behind, Orphaned, Pulls
<1>4. Covered'
  BY <1>1, <1>2 DEF Covered, Follows, Cached
<1>5. ASSUME NEW q \in Pulls PROVE PullInv(q)'
  <2>1. CASE q = p
    BY <2>1 DEF PullInv, InHand, Asked, Missed, Stored, Left
  <2>2. CASE q # p
    <3>1. InHand(q)' /\ Asked(q)' /\ Missed(q)'
      BY <1>1, <2>2 DEF PullInv, InHand, Asked, Missed, Past
    <3>2. Stored(q)'
      BY StoredKept, <1>1, <1>2, <2>2 DEF PullInv, Cached
    <3>3. Left(q)'
      BY <1>1, <2>2 DEF PullInv, Left, Amid, Past
    <3> QED
      BY <3>1, <3>2, <3>3 DEF PullInv
  <2> QED
    BY <2>1, <2>2
<1> QED
  BY <1>3, <1>4, <1>5

\* A new version of a row is newer than any cursor and than all in hand.
LEMMA TouchStep ==
  ASSUME DeltaInv, TypeOK', NEW t \in Tables, NEW x \in Turnovers, Touch(t, x),
         UNCHANGED <<cache, cursor, locals, overtaken, severed>>
  PROVE  DeltaInv'
<1> USE DEF DeltaInv, Touch, locals
<1>1. /\ Cached' = Cached /\ \A u \in Tables, y \in Turnovers : Coming(u, y)' = Coming(u, y)
      /\ \A q \in Pulls : Fresh(q)' = Fresh(q) /\ Ids(q)' = Ids(q) /\ Amid(q)' = Amid(q)
  BY DEF Cached, Coming, Fresh, Ids, Amid
<1>2. \A u \in Tables, y \in Turnovers :
        \/ stamp'[u][y] = stamp[u][y]
        \/ /\ stamp'[u][y] > cursor[u]
           /\ \A q \in Pulls : \A g \in got[q] : g.stamp < stamp'[u][y]
  BY Constants DEF TypeOK
<1>3. Listed' /\ Behind' /\ Orphaned'
  BY <1>1 DEF Listed, Behind, Orphaned
<1>4. Covered'
  BY <1>1, <1>2 DEF Covered, Follows, Cached
<1>5. ASSUME NEW q \in Pulls PROVE PullInv(q)'
  <2>1. table[q] \in Tables /\ want[q] \subseteq Turnovers /\ Ids(q) \subseteq Turnovers
    BY DEF TypeOK, Ids
  <2>2. InHand(q)'
    BY <1>1, <1>2, <2>1 DEF PullInv, InHand, Ids
  <2>3. Asked(q)' /\ Missed(q)'
    BY <1>1, <1>2, <2>1 DEF PullInv, Asked, Missed, Past
  <2>4. Stored(q)'
    BY <1>1, <1>2, <2>1 DEF PullInv, Stored, Past
  <2>5. Left(q)'
    <3>1. \A r \in Amid(q) : \A g \in got[r] : g.id \in Turnovers
      BY DEF Amid, TypeOK
    <3> QED
      BY <1>1, <1>2, <2>1, <3>1 DEF PullInv, Left, Past
  <2> QED
    BY <2>2, <2>3, <2>4, <2>5 DEF PullInv
<1> QED
  BY <1>3, <1>4, <1>5

\* What a removal deletes is cut off.
LEMMA DropStep ==
  ASSUME DeltaInv, TypeOK', NEW t \in Tables, NEW xs \in SUBSET Turnovers,
         Uncache(t, xs), Cut(xs),
         UNCHANGED <<server, cursor, pc, table, want, local, from, got, overtaken>>
  PROVE  DeltaInv'
<1> USE DEF DeltaInv, server
<1>1. /\ \A u \in Tables, y \in Turnovers : Coming(u, y)' = Coming(u, y)
      /\ \A q \in Pulls : Fresh(q)' = Fresh(q) /\ Ids(q)' = Ids(q) /\ Amid(q)' = Amid(q)
  BY DEF Coming, Fresh, Ids, Amid
<1>2. /\ Cached' \subseteq Cached /\ Cached \ Cached' \subseteq xs
      /\ t = "turnovers" => Cached' \cap xs = {}
  BY DEF Uncache, Cached, TypeOK, Tables
<1>3. \A u \in Tables, y \in Cached' :
        \/ cache'[u][y] = cache[u][y]
        \/ u = "checklists" /\ y \in xs
  BY <1>2 DEF Uncache, Cached, TypeOK, Tables
<1>4. /\ severed \subseteq severed'
      /\ \A y \in xs : <<"checklists", y>> \in severed'
  BY DEF Cut
<1>5. Listed' /\ Behind' /\ Orphaned'
  BY <1>2, <1>4 DEF Listed, Behind, Orphaned
<1>6. Covered'
  BY <1>1, <1>2, <1>3, <1>4 DEF Covered, Follows, Cached
<1>7. ASSUME NEW q \in Pulls PROVE PullInv(q)'
  <2>1. table[q] \in Tables
    BY DEF TypeOK
  <2>2. InHand(q)' /\ Asked(q)' /\ Missed(q)' /\ Left(q)'
    BY <1>1, <1>4 DEF PullInv, InHand, Asked, Missed, Past, Left
  <2>3. Stored(q)'
    BY <1>1, <1>2, <1>3, <1>4, <2>1 DEF PullInv, Stored, Past, Cached
  <2> QED
    BY <2>2, <2>3 DEF PullInv
<1> QED
  BY <1>5, <1>6, <1>7

\* What comes back is the server's; what is passed over is cut off.
LEMMA FetchStep ==
  ASSUME DeltaInv, TypeOK', NEW p \in Pulls, Fetch(p)
  PROVE  DeltaInv'
<1> USE DEF DeltaInv, Fetch, Goto, server, device
<1>1. /\ Cached' = Cached /\ \A q \in Pulls : Fresh(q)' = Fresh(q)
      /\ \A q \in Pulls \ {p} : Ids(q)' = Ids(q) /\ got'[q] = got[q] /\ pc'[q] = pc[q]
  BY DEF Cached, Fresh, Ids, TypeOK
<1>2. \A u \in Tables, y \in Turnovers : Coming(u, y) => Coming(u, y)'
  BY <1>1 DEF Coming, Pulls, TypeOK
<1>3. severed \subseteq severed' /\ pc'[p] = "put"
  BY DEF TypeOK
<1>4. Listed' /\ Behind' /\ Orphaned'
  BY <1>1, <1>3 DEF Listed, Behind, Orphaned, Pulls
<1>5. Covered'
  BY <1>1, <1>2, <1>3 DEF Covered, Follows, Cached
<1>6. /\ Ids(p)' = Answer(p) /\ Answer(p) \subseteq want[p]
      /\ \A g \in got'[p] : g.id \in Answer(p) /\ g.stamp = stamp[table[p]][g.id]
      /\ \A g, h \in got'[p] : g.id = h.id => g = h
      /\ \A x \in Answer(p) : [id |-> x, stamp |-> stamp[table[p]][x]] \in got'[p]
  <2>1. got'[p] = {[id |-> x, stamp |-> stamp[table[p]][x]] : x \in Answer(p)}
    BY DEF TypeOK
  <2>2. Answer(p) \subseteq want[p]
    BY DEF Answer
  <2>3. /\ \A g \in got'[p] : g.id \in Answer(p) /\ g.stamp = stamp[table[p]][g.id]
        /\ \A g, h \in got'[p] : g.id = h.id => g = h
        /\ \A x \in Answer(p) : [id |-> x, stamp |-> stamp[table[p]][x]] \in got'[p]
    <3> HIDE DEF DeltaInv, Fetch
    <3> QED
      BY <2>1
  <2>4. \A x \in Answer(p) : \E g \in got'[p] : g.id = x
    <3> TAKE x \in Answer(p)
    <3>1. [id |-> x, stamp |-> stamp[table[p]][x]] \in got'[p]
      BY <2>3
    <3> QED
      BY <3>1
  <2>5. Ids(p)' = Answer(p)
    <3> HIDE DEF DeltaInv, Fetch
    <3> QED
      BY <2>3, <2>4 DEF Ids
  <2> QED
    BY <2>2, <2>3, <2>5
<1>7. \A x \in want[p] \ Answer(p) :
        \/ x \notin Fresh(p) /\ stamp[table[p]][x] <= cursor[table[p]]
        \/ <<table[p], x>> \in severed'
  <2> TAKE x \in want[p] \ Answer(p)
  <2>1. /\ x \in Turnovers /\ table[p] \in Tables /\ stamp[table[p]][x] \in Nat
        /\ from[p] \in Nat /\ cursor[table[p]] \in Nat /\ from[p] <= cursor[table[p]]
    BY DEF TypeOK, Behind
  <2>2. CASE x \in assigned
    BY <2>1, <2>2 DEF Answer
  <2>3. CASE x \notin assigned
    BY <2>3
  <2> QED
    BY <2>2, <2>3
<1>8. ASSUME NEW q \in Pulls PROVE PullInv(q)'
  <2>1. CASE q = p
    <3>1. InHand(p)'
      BY <1>6 DEF InHand
    <3>2. table'[p] = table[p] /\ want'[p] = want[p] /\ Ids(p)' = Answer(p)
      BY <1>6
    <3>3. Asked(p)'
      BY <1>6, <1>7, <3>2 DEF Asked
    <3>4. Missed(p)'
      <4>1. Fresh(p) \subseteq want[p]
        BY DEF Fresh
      <4> QED
        BY <1>1, <1>7, <3>2, <4>1 DEF Missed
    <3> QED
      BY <2>1, <3>1, <3>3, <3>4, <1>3 DEF PullInv, Stored, Left
  <2>2. CASE q # p
    <3>1. InHand(q)' /\ Asked(q)' /\ Missed(q)'
      BY <1>1, <1>3, <2>2 DEF PullInv, InHand, Asked, Missed, Past
    <3>2. Stored(q)'
      BY StoredKept, <1>1, <1>2, <1>3, <2>2 DEF PullInv, Cached
    <3>3. Left(q)'
      BY <1>1, <1>6, <2>2 DEF PullInv, Left, Amid, Past
    <3> QED
      BY <3>1, <3>2, <3>3 DEF PullInv
  <2> QED
    BY <2>1, <2>2
<1> QED
  BY <1>4, <1>5, <1>8

\* A pull that goes, alone or with all the others, has its new turnovers'
\* checklists cut off, as it will not fetch them in full.
LEMMA LeaveStep ==
  ASSUME DeltaInv, TypeOK', NEW P \in SUBSET Pulls,
         \A p \in P :
           /\ pc'[p] = "idle" /\ from'[p] = 0 /\ local'[p] = {}
           /\ Stranded(p) \subseteq severed',
         \A q \in Pulls \ P :
           /\ pc'[q] = pc[q] /\ table'[q] = table[q] /\ want'[q] = want[q]
           /\ local'[q] = local[q] /\ got'[q] = got[q] /\ from'[q] = from[q]
           /\ q \in overtaken => q \in overtaken',
         severed \subseteq severed',
         UNCHANGED <<server, device>>
  PROVE  DeltaInv'
<1> USE DEF DeltaInv, server, device
<1>1. /\ Cached' = Cached
      /\ \A q \in Pulls \ P : Fresh(q)' = Fresh(q) /\ Ids(q)' = Ids(q)
  BY DEF Cached, Fresh, Ids
<1>2. \A t \in Tables, x \in Cached :
        Coming(t, x) => Coming(t, x)' \/ <<t, x>> \in severed'
  <2> TAKE t \in Tables, x \in Cached
  <2> HAVE Coming(t, x)
  <2>1. t = "checklists"
    BY DEF Coming
  <2>2. PICK p \in ScopePulls :
          /\ x \in Fresh(p)
          /\ \/ table[p] = "turnovers" /\ pc[p] \in {"advance", "reference"}
             \/ table[p] = "checklists" /\ pc[p] \in {"fetch", "put"}
    BY DEF Coming
  <2>3. CASE p \in P
    BY <2>1, <2>2, <2>3 DEF Stranded
  <2>4. CASE p \notin P
    BY <1>1, <2>1, <2>2, <2>4 DEF Coming, Pulls
  <2> QED
    BY <2>3, <2>4
<1>3. Listed' /\ Orphaned'
  BY <1>1 DEF Listed, Orphaned, Pulls
<1>4. Behind'
  <2>1. \A q \in Pulls : table'[q] \in Tables /\ cursor'[table'[q]] \in Nat
    BY Constants DEF TypeOK
  <2> QED
    BY <2>1 DEF Behind
<1>5. Covered'
  BY <1>1, <1>2 DEF Covered, Follows, Cached
<1>6. ASSUME NEW q \in Pulls PROVE PullInv(q)'
  <2>1. CASE q \in P
    BY <2>1 DEF PullInv, InHand, Asked, Missed, Stored, Left
  <2>2. CASE q \notin P
    <3>1. InHand(q)' /\ Asked(q)' /\ Missed(q)'
      BY <1>1, <2>2 DEF PullInv, InHand, Asked, Missed, Past
    <3>2. Stored(q)'
      BY StoredKept, <1>1, <1>2, <2>2 DEF PullInv, Cached
    <3>3. Left(q)'
      BY <1>1, <2>2 DEF PullInv, Left, Amid, Past
    <3> QED
      BY <3>1, <3>2, <3>3 DEF PullInv
  <2> QED
    BY <2>1, <2>2
<1> QED
  BY <1>3, <1>4, <1>5, <1>6

\* The checklists of what is new are asked for next.
LEMMA ReferenceStep ==
  ASSUME DeltaInv, TypeOK', NEW p \in Pulls, Reference(p)
  PROVE  DeltaInv'
<1> USE DEF DeltaInv, Reference, Request, Goto, server, device
<1>1. /\ Cached' = Cached
      /\ \A q \in Pulls : Fresh(q)' = Fresh(q) /\ Ids(q)' = Ids(q)
      /\ \A q \in Pulls \ {p} : pc'[q] = pc[q] /\ table'[q] = table[q] /\ from'[q] = from[q]
      /\ pc'[p] = "fetch" /\ table'[p] = "checklists" /\ from'[p] = cursor["checklists"]
  BY DEF Cached, Fresh, Ids, TypeOK
<1>2. \A t \in Tables, x \in Turnovers : Coming(t, x) => Coming(t, x)'
  BY <1>1 DEF Coming, Pulls
<1>3. Listed' /\ Orphaned'
  BY <1>1 DEF Listed, Orphaned, Pulls
<1>4. Behind'
  <2>1. cursor["checklists"] \in Nat
    BY Constants DEF TypeOK, Tables
  <2> QED
    BY <1>1, <2>1 DEF Behind
<1>5. Covered'
  BY <1>1, <1>2 DEF Covered, Follows, Cached
<1>6. ASSUME NEW q \in Pulls PROVE PullInv(q)'
  <2>1. CASE q = p
    BY <1>1, <2>1 DEF PullInv, InHand, Asked, Missed, Stored, Left
  <2>2. CASE q # p
    <3>1. InHand(q)' /\ Asked(q)' /\ Missed(q)'
      BY <1>1, <2>2 DEF PullInv, InHand, Asked, Missed, Past
    <3>2. Stored(q)'
      BY StoredKept, <1>1, <1>2, <2>2 DEF PullInv, Cached
    <3>3. Left(q)'
      BY <1>1, <2>2 DEF PullInv, Left, Amid, Past
    <3> QED
      BY <3>1, <3>2, <3>3 DEF PullInv
  <2> QED
    BY <2>1, <2>2
<1> QED
  BY <1>3, <1>4, <1>5, <1>6

\* A cursor that moves passes over nothing of what it is responsible for: what
\* the pull asked for is stored, or newer than the cursor, and the rest is cut off.
LEMMA AdvanceStep ==
  ASSUME DeltaInv, TypeOK', NEW p \in Pulls, Advance(p)
  PROVE  DeltaInv'
<1> DEFINE t == table[p]
<1>1. /\ UNCHANGED <<assigned, stamp, clock, cache>>
      /\ pc[p] = "advance" /\ pc'[p] \in {"idle", "reference"}
      /\ pc'[p] = "idle" <=> t = "checklists"
      /\ \/ from'[p] = from[p] /\ table'[p] = table[p]
         \/ from'[p] = 0
      /\ pc'[p] = "reference" => /\ table'[p] = table[p] /\ want'[p] = want[p]
                                 /\ local'[p] = local[p]
      /\ pc'[p] = "idle" => local'[p] = {}
      /\ cursor' = [cursor EXCEPT ![t] = Newest(p)]
      /\ severed' = IF Moves(p) THEN severed \cup ({t} \X (Cached \ want[p])) ELSE severed
      /\ overtaken' = IF Moves(p) THEN overtaken \cup Amid(p) ELSE overtaken
      /\ \A q \in Pulls \ {p} :
           /\ pc'[q] = pc[q] /\ table'[q] = table[q] /\ want'[q] = want[q]
           /\ local'[q] = local[q] /\ got'[q] = got[q] /\ from'[q] = from[q]
  <2>1. CASE table[p] = "checklists"
    BY <2>1 DEF Advance, Forget, Idle, server, DeltaInv, TypeOK
  <2>2. CASE table[p] # "checklists"
    BY <2>2 DEF Advance, Goto, Idle, server, DeltaInv, TypeOK
  <2> QED
    BY <2>1, <2>2
<1> USE DEF DeltaInv
<1>2. /\ t \in Tables /\ clock \in Nat /\ Newest(p) \in 0..clock /\ cursor[t] <= Newest(p)
      /\ \A g \in got[p] : g.stamp <= Newest(p)
      /\ Newest(p) = cursor[t] \/ \E g \in got[p] : g.stamp = Newest(p)
  BY NewestValue, Constants DEF TypeOK
<1>3. /\ cursor'[t] = Newest(p)
      /\ \A u \in Tables : cursor'[u] \in Nat /\ cursor[u] \in Nat
      /\ \A u \in Tables : cursor[u] <= cursor'[u]
      /\ \A u \in Tables : u # t \/ ~Moves(p) => cursor'[u] = cursor[u]
  BY <1>1, <1>2, Constants DEF TypeOK, Moves
<1>4. /\ Cached' = Cached
      /\ \A q \in Pulls \ {p} : Fresh(q)' = Fresh(q) /\ Ids(q)' = Ids(q)
      /\ pc'[p] = "reference" => Fresh(p)' = Fresh(p)
  BY <1>1 DEF Cached, Fresh, Ids
<1>5. \A u \in Tables, x \in Turnovers : Coming(u, x) => Coming(u, x)'
  BY <1>1, <1>4 DEF Coming, Pulls
<1>6. severed \subseteq severed' /\ overtaken \subseteq overtaken'
  BY <1>1
<1> HIDE DEF t
<1>7. Listed' /\ Orphaned'
  BY <1>1, <1>4, <1>6 DEF Listed, Orphaned, Pulls, t
<1>8. Behind'
  <2> SUFFICES ASSUME NEW q \in Pulls PROVE from'[q] <= cursor'[table'[q]]
    BY DEF Behind
  <2>1. from[q] \in Nat /\ table[q] \in Tables /\ table'[q] \in Tables
    BY Constants DEF TypeOK
  <2>2. cursor'[table'[q]] \in Nat /\ cursor[table[q]] \in Nat
        /\ cursor'[table[q]] \in Nat /\ cursor[table[q]] <= cursor'[table[q]]
    BY <1>3, <2>1
  <2>3. from[q] <= cursor'[table[q]]
    BY <2>1, <2>2 DEF Behind
  <2>4. \/ from'[q] = from[q] /\ table'[q] = table[q]
        \/ from'[q] = 0
    BY <1>1
  <2> QED
    BY <2>2, <2>3, <2>4
<1>9. Covered'
  <2> SUFFICES ASSUME NEW u \in Tables, NEW x \in Cached
               PROVE  Follows(u, x)' \/ <<u, x>> \in severed'
    BY <1>4 DEF Covered
  <2>1. x \in Turnovers /\ (Follows(u, x) \/ <<u, x>> \in severed)
    BY DEF Covered, Cached
  <2>2. CASE u # t \/ ~Moves(p)
    BY <1>1, <1>3, <1>5, <1>6, <2>1, <2>2 DEF Follows
  <2>3. CASE u = t /\ Moves(p) /\ x \notin want[p]
    BY <1>1, <2>3 DEF t
  <2>4. CASE u = t /\ x \in want[p]
    <3>1. \/ stamp[t][x] <= cursor[t]
          \/ Past(p, stamp[t][x])
          \/ cache[t][x] = stamp[t][x] \/ Coming(t, x) \/ <<t, x>> \in severed
      BY <1>1, <2>4 DEF PullInv, Stored, t
    <3>2. stamp[t][x] \in Nat
      BY <1>2, <2>1, Constants DEF TypeOK
    <3>3. CASE stamp[t][x] > cursor[t] /\ Past(p, stamp[t][x])
      <4>1. stamp[t][x] > Newest(p)
        BY <1>2, <3>2, <3>3 DEF Past
      <4> QED
        BY <1>1, <1>3, <2>4, <4>1 DEF Follows
    <3>4. CASE stamp[t][x] <= cursor[t]
      BY <1>1, <1>3, <1>5, <1>6, <2>1, <2>4, <3>2, <3>4 DEF Follows
    <3> QED
      BY <1>1, <1>3, <1>5, <1>6, <2>1, <2>4, <3>1, <3>2, <3>3, <3>4 DEF Follows
  <2> QED
    BY <2>2, <2>3, <2>4
<1>10. ASSUME NEW q \in Pulls PROVE PullInv(q)'
  <2>1. CASE q = p
    BY <1>1, <2>1 DEF PullInv, InHand, Asked, Missed, Stored, Left
  <2>2. CASE q # p
    <3>1. /\ table[q] \in Tables /\ want[q] \subseteq Turnovers
          /\ \A g \in got[q] : g.id \in Turnovers
          /\ \A x \in Turnovers : stamp[table[q]][x] \in Nat
      BY Constants DEF TypeOK
    <3>2. InHand(q)'
      <4>1. pc[q] = "put" /\ Moves(p) /\ table[q] = t => q \in overtaken'
        BY <1>1, <2>2 DEF Amid, t
      <4>2. table[q] # t \/ ~Moves(p) => cursor'[table[q]] = cursor[table[q]]
        BY <1>3, <3>1
      <4> QED
        BY <1>1, <1>4, <1>6, <2>2, <4>1, <4>2 DEF PullInv, InHand
    <3>3. Asked(q)'
      BY <1>1, <1>3, <1>4, <1>6, <2>2, <3>1 DEF PullInv, Asked, Past
    <3>4. Missed(q)'
      BY <1>1, <1>4, <1>6, <2>2 DEF PullInv, Missed
    <3>5. Stored(q)'
      BY <1>1, <1>3, <1>4, <1>5, <1>6, <2>2, <3>1 DEF PullInv, Stored, Past
    <3>6. Left(q)'
      BY <1>1, <1>6, <2>2 DEF PullInv, Left, Amid, Past
    <3> QED
      BY <3>2, <3>3, <3>4, <3>5, <3>6 DEF PullInv
  <2> QED
    BY <2>1, <2>2
<1> QED
  BY <1>7, <1>8, <1>9, <1>10

\* A put leaves the device with what the pull had in hand.  What it takes off
\* the rows that are cut off follows the delta, and no other pull in hand counts
\* on it.
LEMMA PutStep ==
  ASSUME DeltaInv, TypeOK', NEW p \in Pulls, Put(p)
  PROVE  DeltaInv'
<1> DEFINE t == table[p]
<1> USE DEF DeltaInv
<1>1. /\ UNCHANGED <<server, cursor, table, want, local, from, got>>
      /\ pc[p] = "put" /\ pc' = [pc EXCEPT ![p] = "advance"]
      /\ pc'[p] = "advance" /\ \A q \in Pulls \ {p} : pc'[q] = pc[q]
      /\ t \in Tables
  BY DEF Put, Goto, TypeOK
<1>2. /\ \A q \in Pulls : Fresh(q)' = Fresh(q) /\ Ids(q)' = Ids(q)
      /\ Ids(p) \subseteq want[p] /\ Ids(p) \subseteq Turnovers
  BY <1>1 DEF Fresh, Ids, PullInv, InHand, TypeOK
<1>3. \A u \in Tables, x \in Turnovers :
        u # t \/ x \notin Ids(p) => cache'[u][x] = cache[u][x]
  BY DEF Put, TypeOK
<1>4. \A g \in got[p] : cache'[t][g.id] = g.stamp /\ g.stamp \in 1..clock
  <2> TAKE g \in got[p]
  <2>1. g.id \in Ids(p) /\ g.id \in Turnovers /\ g.stamp \in 1..clock
    BY DEF Ids, TypeOK
  <2>2. (CHOOSE h \in got[p] : h.id = g.id) = g
    <3>1. \A h, k \in got[p] : h.id = k.id => h = k
      BY <1>1 DEF PullInv, InHand
    <3> QED
      BY <3>1
  <2>3. cache'[t][g.id] = (CHOOSE h \in got[p] : h.id = g.id).stamp
    BY <1>1, <2>1 DEF Put, TypeOK
  <2> QED
    BY <2>1, <2>2, <2>3
<1>5. /\ Cached \subseteq Cached' /\ Cached' \subseteq Turnovers
      /\ Cached' \ Cached \subseteq Ids(p)
      /\ t # "turnovers" => Cached' = Cached
  <2>1. \A x \in Turnovers : cache["turnovers"][x] # 0 => cache'["turnovers"][x] # 0
    BY <1>3, <1>4, Constants DEF Ids, Tables
  <2> QED
    BY <1>3, <2>1 DEF Cached, Tables
<1>6. /\ p \in overtaken => severed' = severed \cup ({t} \X Ids(p))
      /\ p \notin overtaken =>
           severed' = severed \ ({t} \X ((Ids(p) \cap Fresh(p) \cap Cached') \ Passed(p)))
      /\ overtaken' = (IF got[p] = {} THEN overtaken ELSE overtaken \cup Amid(p)) \ {p}
  BY DEF Put, Severed
\* What stays cut off.
<1>7. /\ \A u \in Tables, x \in Turnovers : <<u, x>> \in severed =>
           \/ <<u, x>> \in severed'
           \/ /\ p \notin overtaken /\ u = t /\ x \in Ids(p) \cap Cached'
              /\ \A q \in Amid(p) : x \notin want[q] \ Ids(q)
      /\ p \in overtaken => \A x \in Ids(p) : <<t, x>> \in severed'
  BY <1>6 DEF Passed
\* A checklist that was coming is here, or cut off.
<1>8. \A x \in Turnovers \ Ids(p), u \in Tables :
        Coming(u, x) => Coming(u, x)' \/ <<u, x>> \in severed'
  <2> TAKE x \in Turnovers \ Ids(p), u \in Tables
  <2> HAVE Coming(u, x)
  <2>1. u = "checklists"
    BY DEF Coming
  <2>2. PICK q \in ScopePulls :
          /\ x \in Fresh(q)
          /\ \/ table[q] = "turnovers" /\ pc[q] \in {"advance", "reference"}
             \/ table[q] = "checklists" /\ pc[q] \in {"fetch", "put"}
    BY DEF Coming
  <2>3. CASE q = p
    <3>1. <<u, x>> \in severed
      BY <1>1, <2>1, <2>2, <2>3 DEF PullInv, Missed
    <3> QED
      BY <1>7, <3>1
  <2>4. CASE q # p
    BY <1>1, <1>2, <2>1, <2>2, <2>4 DEF Coming, Pulls
  <2> QED
    BY <2>3, <2>4
\* The checklist of a turnover that is put comes after it, or is cut off.
<1>9. \A x \in Ids(p) :
        t = "turnovers" => Coming("checklists", x)' \/ x \in Cached
                           \/ <<"checklists", x>> \in severed'
  <2> TAKE x \in Ids(p)
  <2> HAVE t = "turnovers"
  <2>1. p \in ScopePulls
    BY <1>1 DEF Listed, Pulls
  <2>2. CASE x \in Fresh(p)
    BY <1>1, <1>2, <2>1, <2>2 DEF Coming
  <2>3. CASE x \notin Fresh(p) /\ x \notin Cached
    <3>1. x \in local[p] \ Cached
      BY <1>2, <2>3 DEF Fresh
    <3>2. <<"checklists", x>> \in severed
      BY <3>1 DEF Orphaned
    <3> QED
      BY <1>2, <1>7, <3>2 DEF Tables
  <2> QED
    BY <2>2, <2>3
<1> HIDE DEF t
<1>10. Listed' /\ Behind' /\ Orphaned'
  <2>1. Listed'
    BY <1>1 DEF Listed, Pulls
  <2>2. Behind'
    BY <1>1 DEF Behind
  <2>3. Orphaned'
    <3> SUFFICES ASSUME NEW q \in Pulls, NEW x \in local[q] \ Cached'
                 PROVE  <<"checklists", x>> \in severed'
      BY <1>1 DEF Orphaned
    <3>1. <<"checklists", x>> \in severed /\ x \in Turnovers
      BY <1>5 DEF Orphaned, TypeOK
    <3> QED
      BY <1>7, <3>1 DEF Tables
  <2> QED
    BY <2>1, <2>2, <2>3
<1>11. Covered'
  <2> SUFFICES ASSUME NEW u \in Tables, NEW x \in Cached'
               PROVE  Follows(u, x)' \/ <<u, x>> \in severed'
    BY DEF Covered
  <2>1. x \in Turnovers /\ stamp' = stamp /\ cursor' = cursor
    BY <1>1, <1>5 DEF server
  <2>2. CASE u = t /\ x \in Ids(p)
    <3>1. PICK g \in got[p] : g.id = x
      BY <2>2 DEF Ids
    <3>2. CASE p \notin overtaken
      <4>1. \/ g.stamp = stamp[t][x]
            \/ stamp[t][x] > cursor[t]
        BY <1>1, <3>1, <3>2 DEF PullInv, InHand, t
      <4> QED
        BY <1>4, <2>1, <2>2, <3>1, <4>1 DEF Follows
    <3> QED
      BY <1>7, <2>2, <3>2
  <2>3. CASE u # t /\ x \notin Cached
    <3>1. x \in Ids(p) /\ t = "turnovers" /\ u = "checklists"
      BY <1>1, <1>5, <2>3 DEF Tables
    <3> QED
      BY <1>9, <2>3, <3>1 DEF Follows
  <2>4. CASE x \in Cached /\ (u # t \/ x \notin Ids(p))
    <3>1. Follows(u, x) \/ <<u, x>> \in severed
      BY <2>4 DEF Covered
    <3>2. <<u, x>> \in severed => <<u, x>> \in severed'
      BY <1>7, <2>1, <2>4
    <3>3. Coming(u, x) => Coming(u, x)' \/ <<u, x>> \in severed'
      <4>1. CASE x \notin Ids(p)
        BY <1>8, <2>1, <4>1
      <4>2. CASE u # t
        BY <1>1, <1>2, <4>2 DEF Coming, t, Pulls
      <4> QED
        BY <2>4, <4>1, <4>2
    <3> QED
      BY <1>3, <2>1, <2>4, <3>1, <3>2, <3>3 DEF Follows
  <2>5. x \in Cached \/ x \in Ids(p)
    BY <1>5
  <2> QED
    BY <2>2, <2>3, <2>4, <2>5
<1>12. ASSUME NEW q \in Pulls PROVE PullInv(q)'
  <2>1. /\ table[q] \in Tables /\ want[q] \subseteq Turnovers
        /\ stamp' = stamp /\ cursor' = cursor
    BY <1>1 DEF TypeOK, server
  <2>2. CASE q = p
    <3>1. Stored(p)'
      <4> SUFFICES ASSUME NEW x \in want[p] \cap Cached'
                   PROVE  \/ stamp[t][x] <= cursor[t]
                          \/ Past(p, stamp[t][x])
                          \/ cache'[t][x] = stamp[t][x]
                          \/ <<t, x>> \in severed'
        BY <1>1, <2>1 DEF Stored, Past, t
      <4>1. \/ stamp[t][x] <= cursor[t]
            \/ Past(p, stamp[t][x])
            \/ [id |-> x, stamp |-> stamp[t][x]] \in got[p]
            \/ x \notin Ids(p) /\ <<t, x>> \in severed
        BY <1>1 DEF PullInv, Asked, t
      <4>2. CASE [id |-> x, stamp |-> stamp[t][x]] \in got[p]
        BY <1>4, <4>2
      <4>3. CASE x \notin Ids(p) /\ <<t, x>> \in severed
        BY <1>1, <1>7, <4>3, <2>1, <2>2
      <4> QED
        BY <4>1, <4>2, <4>3
    <3>2. Left(p)'
      <4>1. \A r \in Amid(p)' : r \in Amid(p) /\ r # p
        BY <1>1 DEF Amid
      <4>2. got[p] # {} => Amid(p)' \subseteq overtaken'
        BY <1>6, <4>1
      <4> QED
        BY <1>1, <4>2 DEF Left
    <3> QED
      BY <1>1, <2>2, <3>1, <3>2 DEF PullInv, InHand, Asked, Missed
  <2>3. CASE q # p
    <3>1. pc'[q] = pc[q] /\ (q \in overtaken => q \in overtaken')
      BY <1>1, <1>6, <2>3
    <3>2. InHand(q)'
      BY <1>1, <1>2, <2>1, <3>1 DEF PullInv, InHand
    <3>3. pc[q] = "put" => \A x \in want[q] \ Ids(q) :
            <<table[q], x>> \in severed => <<table[q], x>> \in severed'
      <4> SUFFICES ASSUME pc[q] = "put", NEW x \in want[q] \ Ids(q),
                          <<table[q], x>> \in severed
                   PROVE  <<table[q], x>> \in severed'
        OBVIOUS
      <4>1. table[q] = t => q \in Amid(p)
        BY <2>3 DEF Amid, t
      <4> QED
        BY <1>7, <2>1, <4>1
    <3>4. Asked(q)'
      BY <1>1, <1>2, <2>1, <3>1, <3>3 DEF PullInv, Asked, Past
    <3>5. Missed(q)'
      <4>1. Fresh(q) \subseteq want[q]
        BY DEF Fresh
      <4> QED
        BY <1>1, <1>2, <3>1, <3>3, <4>1 DEF PullInv, Missed
    <3>6. Stored(q)'
      <4> SUFFICES ASSUME NEW u \in Tables, u = table[q], pc[q] = "advance",
                          NEW x \in want[q] \cap Cached'
                   PROVE  \/ stamp[u][x] <= cursor[u]
                          \/ Past(q, stamp[u][x])
                          \/ cache'[u][x] = stamp[u][x]
                          \/ Coming(u, x)'
                          \/ <<u, x>> \in severed'
        BY <1>1, <2>1, <3>1 DEF Stored, Past
      <4>1. CASE u = t /\ x \in Ids(p)
        <5>1. PICK g \in got[p] : g.id = x
          BY <4>1 DEF Ids
        <5>2. CASE p \notin overtaken /\ got[q] # {}
          <6>1. p \in Amid(q) \ overtaken
            BY <1>1, <2>3, <4>1, <5>2 DEF Amid, t
          <6>2. g.stamp = stamp[u][x] \/ Past(q, stamp[u][x])
            BY <5>1, <5>2, <6>1 DEF PullInv, Left
          <6> QED
            BY <1>4, <4>1, <5>1, <6>2
        <5>3. CASE got[q] = {}
          BY <5>3 DEF Past
        <5>4. CASE p \in overtaken
          BY <1>7, <4>1, <5>4
        <5> QED
          BY <5>2, <5>3, <5>4
      <4>2. CASE u # t /\ x \notin Cached
        <5>1. x \in Ids(p) /\ t = "turnovers" /\ u = "checklists"
          BY <1>1, <1>5, <2>1, <4>2 DEF Tables
        <5> QED
          BY <1>9, <4>2, <5>1
      <4>3. CASE x \in Cached /\ (u # t \/ x \notin Ids(p))
        <5>1. \/ stamp[u][x] <= cursor[u]
              \/ Past(q, stamp[u][x])
              \/ cache[u][x] = stamp[u][x]
              \/ Coming(u, x)
              \/ <<u, x>> \in severed
          BY <4>3 DEF PullInv, Stored
        <5>2. x \in Turnovers /\ cache'[u][x] = cache[u][x]
          BY <1>3, <2>1, <4>3
        <5>3. <<u, x>> \in severed => <<u, x>> \in severed'
          BY <1>7, <2>1, <4>3, <5>2
        <5>4. Coming(u, x) => Coming(u, x)' \/ <<u, x>> \in severed'
          <6>1. CASE x \notin Ids(p)
            BY <1>8, <2>1, <5>2, <6>1
          <6>2. CASE u # t
            BY <1>1, <1>2, <6>2 DEF Coming, t, Pulls
          <6> QED
            BY <4>3, <6>1, <6>2
        <5> QED
          BY <5>1, <5>2, <5>3, <5>4
      <4>4. x \in Cached \/ x \in Ids(p)
        BY <1>5
      <4> QED
        BY <4>1, <4>2, <4>3, <4>4
    <3>7. Left(q)'
      <4>1. \A r \in Amid(q)' : r \in Amid(q) /\ r # p
        BY <1>1 DEF Amid
      <4>2. \A r \in Amid(q)' \ overtaken' : r \in Amid(q) \ overtaken
        BY <1>6, <4>1
      <4> QED
        BY <1>1, <2>1, <3>1, <4>2 DEF PullInv, Left, Past
    <3> QED
      BY <3>2, <3>4, <3>5, <3>6, <3>7 DEF PullInv
  <2> QED
    BY <2>2, <2>3
<1> QED
  BY <1>10, <1>11, <1>12

LEMMA DeltaNext == DeltaInv /\ [Next]_vars => DeltaInv'
<1> SUFFICES ASSUME DeltaInv, [Next]_vars PROVE DeltaInv'
  OBVIOUS
<1>1. TypeOK /\ TypeOK'
  BY TypedNext DEF DeltaInv
<1>2. \A q \in Pulls : from[q] <= cursor[table[q]] /\ cursor[table[q]] \in Nat
  BY <1>1, Constants DEF DeltaInv, Behind, TypeOK
<1>3. /\ cursor["turnovers"] <= cursor["turnovers"] /\ 0 <= cursor["turnovers"]
      /\ cursor["checklists"] <= cursor["checklists"]
  BY <1>1, Constants DEF TypeOK, Tables
<1>4. ASSUME NEW p \in Pulls, FetchScope(p) PROVE DeltaInv'
  BY <1>1, <1>2, <1>4, Elsewhere, Constants DEF FetchScope, Goto, TypeOK, device
<1>5. ASSUME NEW p \in Pulls, ReadLocal(p) PROVE DeltaInv'
  <2>1. /\ pc[p] = "local" /\ pc'[p] \in {"drop", "children"}
        /\ table'[p] = table[p] /\ from'[p] = from[p] /\ local'[p] = Cached
        /\ UNCHANGED <<server, cache, cursor, severed>>
        /\ \A q \in Pulls \ {p} :
             /\ pc'[q] = pc[q] /\ table'[q] = table[q] /\ want'[q] = want[q]
             /\ local'[q] = local[q] /\ got'[q] = got[q] /\ from'[q] = from[q]
             /\ q \in overtaken => q \in overtaken'
    BY <1>1, <1>5 DEF ReadLocal, Goto, TypeOK, device
  <2>2. p \notin ListPulls
    BY <2>1 DEF DeltaInv, Listed
  <2> QED
    BY <1>1, <1>2, <2>1, <2>2, Elsewhere DEF server
<1>6. ASSUME NEW p \in Pulls, ReadList(p) PROVE DeltaInv'
  <2>1. /\ pc[p] = "idle" /\ p \notin ScopePulls /\ pc'[p] = "fetch"
        /\ table'[p] = "checklists" /\ from'[p] = cursor["checklists"]
        /\ local'[p] = Cached /\ UNCHANGED <<server, cache, cursor, severed>>
        /\ \A q \in Pulls \ {p} :
             /\ pc'[q] = pc[q] /\ table'[q] = table[q] /\ want'[q] = want[q]
             /\ local'[q] = local[q] /\ got'[q] = got[q] /\ from'[q] = from[q]
             /\ q \in overtaken => q \in overtaken'
    BY <1>1, <1>6, Constants DEF ReadList, Request, Goto, TypeOK, device
  <2> QED
    BY <1>1, <1>3, <2>1, Elsewhere DEF server
<1>7. ASSUME NEW p \in Pulls, ReadChildren(p) PROVE DeltaInv'
  <2>1. /\ pc[p] = "children" /\ pc'[p] = "busy"
        /\ UNCHANGED <<server, device, table, want, local, from, got, overtaken, severed>>
        /\ \A q \in Pulls \ {p} : pc'[q] = pc[q]
    BY <1>1, <1>7 DEF ReadChildren, Goto, TypeOK
  <2>2. p \notin ListPulls
    BY <2>1 DEF DeltaInv, Listed
  <2> QED
    BY <1>1, <1>2, <2>1, <2>2, Elsewhere DEF server, device
<1>8. ASSUME NEW p \in Pulls, ReadBusy(p) PROVE DeltaInv'
  <2>1. /\ pc[p] = "busy" /\ pc'[p] = "drop"
        /\ UNCHANGED <<server, device, table, want, local, from, got, overtaken, severed>>
        /\ \A q \in Pulls \ {p} : pc'[q] = pc[q]
    BY <1>1, <1>8 DEF ReadBusy, Goto, TypeOK
  <2>2. p \notin ListPulls
    BY <2>1 DEF DeltaInv, Listed
  <2> QED
    BY <1>1, <1>2, <2>1, <2>2, Elsewhere DEF server, device
<1>9. ASSUME NEW p \in Pulls, DropRows(p) PROVE DeltaInv'
  BY <1>1, <1>9, DropStep DEF DropRows, TypeOK, Tables
<1>10. ASSUME NEW p \in Pulls, DropChildren(p) PROVE DeltaInv'
  BY <1>1, <1>10, DropStep DEF DropChildren, TypeOK, Tables
<1>11. ASSUME NEW p \in Pulls, Reconciled(p) PROVE DeltaInv'
  <2>1. /\ pc[p] = "drop" /\ pc'[p] \in {"idle", "fetch"}
        /\ table'[p] = "turnovers" /\ from'[p] \in {0, cursor["turnovers"]}
        /\ local'[p] \subseteq local[p] /\ UNCHANGED <<server, cache, cursor, severed>>
        /\ \A q \in Pulls \ {p} :
             /\ pc'[q] = pc[q] /\ table'[q] = table[q] /\ want'[q] = want[q]
             /\ local'[q] = local[q] /\ got'[q] = got[q] /\ from'[q] = from[q]
             /\ q \in overtaken => q \in overtaken'
    <3>1. CASE want[p] = {}
      BY <1>1, <1>11, <3>1 DEF Reconciled, Over, Forget, Idle, TypeOK, device
    <3>2. CASE want[p] # {}
      BY <1>1, <1>11, <3>2 DEF Reconciled, Request, Goto, TypeOK, device
    <3> QED
      BY <3>1, <3>2
  <2>2. p \notin ListPulls
    BY <2>1 DEF DeltaInv, Listed
  <2> QED
    BY <1>1, <1>3, <2>1, <2>2, Elsewhere DEF server
<1>12. ASSUME NEW p \in Pulls, Fetch(p) PROVE DeltaInv'
  BY <1>1, <1>12, FetchStep
<1>13. ASSUME NEW p \in Pulls, Put(p) PROVE DeltaInv'
  BY <1>1, <1>13, PutStep
<1>14. ASSUME NEW p \in Pulls, Advance(p) PROVE DeltaInv'
  BY <1>1, <1>14, AdvanceStep
<1>15. ASSUME NEW p \in Pulls, Reference(p) PROVE DeltaInv'
  BY <1>1, <1>15, ReferenceStep
<1>16. ASSUME NEW p \in Pulls, Fail(p) PROVE DeltaInv'
  <2>1. /\ pc'[p] = "idle" /\ from'[p] = 0 /\ local'[p] = {}
        /\ Stranded(p) \subseteq severed' /\ severed \subseteq severed'
        /\ UNCHANGED <<server, device>>
        /\ \A q \in Pulls \ {p} :
             /\ pc'[q] = pc[q] /\ table'[q] = table[q] /\ want'[q] = want[q]
             /\ local'[q] = local[q] /\ got'[q] = got[q] /\ from'[q] = from[q]
             /\ q \in overtaken => q \in overtaken'
    BY <1>1, <1>16 DEF Fail, Over, Forget, Idle, TypeOK
  <2> DEFINE P == {p}
  <2>2. P \in SUBSET Pulls /\ \A q \in P : q = p
    OBVIOUS
  <2>3. p \in P
    OBVIOUS
  <2> HIDE DEF P
  <2> QED
    BY <1>1, <2>1, <2>2, <2>3, LeaveStep DEF server, device
<1>17. ASSUME Reload PROVE DeltaInv'
  <2>1. /\ severed \subseteq severed' /\ UNCHANGED <<server, device>>
        /\ \A p \in Pulls : Stranded(p) \subseteq severed'
        /\ \A p \in Pulls : pc'[p] = "idle" /\ from'[p] = 0 /\ local'[p] = {}
    BY <1>17 DEF Reload
  <2> DEFINE P == Pulls
  <2>2. P \in SUBSET Pulls /\ P \subseteq Pulls /\ Pulls \ P = {}
    OBVIOUS
  <2> HIDE DEF P
  <2> QED
    BY <1>1, <2>1, <2>2, LeaveStep DEF server, device
<1>18. ASSUME NEW t \in Tables, NEW x \in Turnovers, Change(t, x) \/ Land(x)
       PROVE  DeltaInv'
  BY <1>1, <1>18, TouchStep DEF Change, Land, device, Tables
<1>19. ASSUME UNCHANGED <<stamp, cache, cursor, locals, overtaken, severed>>
       PROVE  DeltaInv'
  <2> USE <1>19 DEF locals
  <2>1. /\ Cached' = Cached /\ \A u \in Tables, y \in Turnovers : Coming(u, y)' = Coming(u, y)
        /\ \A q \in Pulls : Fresh(q)' = Fresh(q) /\ Ids(q)' = Ids(q) /\ Amid(q)' = Amid(q)
    BY DEF Cached, Coming, Fresh, Ids, Amid
  <2>2. Listed' /\ Behind' /\ Orphaned' /\ Covered'
    BY <2>1 DEF DeltaInv, Listed, Behind, Orphaned, Covered, Follows, Cached
  <2>3. ASSUME NEW q \in Pulls PROVE PullInv(q)'
    <3>1. table[q] \in Tables /\ want[q] \subseteq Turnovers
      BY <1>1 DEF TypeOK
    <3>2. InHand(q)' /\ Asked(q)' /\ Missed(q)'
      BY <2>1 DEF DeltaInv, PullInv, InHand, Asked, Missed, Past
    <3>3. Stored(q)' /\ Left(q)'
      BY <2>1, <3>1 DEF DeltaInv, PullInv, Stored, Left, Past
    <3> QED
      BY <3>2, <3>3 DEF PullInv
  <2> QED
    BY <1>1, <2>2, <2>3 DEF DeltaInv
<1>20. ASSUME NEW x \in Turnovers, Work(x) \/ Move(x) PROVE DeltaInv'
  BY <1>19, <1>20 DEF Work, Move, server, device
<1>21. ASSUME UNCHANGED vars PROVE DeltaInv'
  BY <1>19, <1>21 DEF vars, server, device
<1>22. "checklists" \in Tables
  BY DEF Tables
<1> QED
  BY <1>4, <1>5, <1>6, <1>7, <1>8, <1>9, <1>10, <1>11, <1>12, <1>13, <1>14, <1>15,
     <1>16, <1>17, <1>18, <1>20, <1>21, <1>22 DEF Next, Pull

\* "A conservative or missing cursor can only cost bandwidth, never correctness"
\* (cursors.ts:20-21): however pulls overlap, fail and reload, a cached row of an
\* assigned turnover is the server's, or newer there than the cursor, or on its
\* way in full, but for the rows that a named step has cut off.
THEOREM DeltaCoversTheorem == Spec => []DeltaCovers
<1>1. DeltaInv => DeltaCovers
  BY DEF DeltaInv, Covered, DeltaCovers
<1> QED
  BY Delta0, DeltaNext, <1>1, PTL DEF Spec

-----------------------------------------------------------------------------
(***************************************************************************)
(* Where nothing is cut off.                                               *)
(***************************************************************************)
\* One caller, whose pulls all end, and nobody is assigned or unassigned.
Undisturbed ==
  /\ \E p : ScopePulls = {p}
  /\ ListPulls = {} /\ MaxUpsets = 0

\* Then every pull asks for what is assigned, and removes nothing.
Whole ==
  /\ severed = {} /\ overtaken = {}
  /\ Cached \subseteq assigned
  /\ \A p \in Pulls :
       /\ pc[p] \notin {"children", "busy"}
       /\ pc[p] # "idle" => want[p] = assigned
       /\ doomed[p] = {} /\ kids[p] = {}
       /\ pc[p] = "put" => Ids(p) \subseteq want[p]

AllFollow == \A t \in Tables, x \in Cached : Follows(t, x)

LEMMA Whole0 == Init => Whole
<1> SUFFICES ASSUME Init PROVE Whole
  OBVIOUS
<1>1. Cached = {}
  BY DEF Init, Cached, Tables
<1> QED
  BY <1>1 DEF Init, Whole

LEMMA WholeNext ==
  ASSUME Undisturbed, TypeOK, Whole, [Next]_vars
  PROVE  Whole'
<1> USE DEF Whole
<1>1. PICK p : Pulls = {p}
  BY DEF Undisturbed, Pulls
<1>2. upsets = 0 /\ MaxUpsets = 0 /\ Amid(p) = {}
  BY <1>1 DEF Undisturbed, TypeOK, Amid
<1>3. ASSUME FetchScope(p) PROVE Whole'
  BY <1>1, <1>3 DEF FetchScope, Goto, server, device, Cached, TypeOK
<1>4. ASSUME ReadLocal(p) PROVE Whole'
  BY <1>1, <1>4 DEF ReadLocal, Goto, server, device, Cached, TypeOK
<1>5. ASSUME ReadList(p) PROVE Whole'
  BY <1>1, <1>5 DEF ReadList, Undisturbed
<1>6. ASSUME ReadChildren(p) \/ ReadBusy(p) PROVE Whole'
  BY <1>1, <1>6 DEF ReadChildren, ReadBusy
<1>7. ASSUME DropRows(p) \/ DropChildren(p) PROVE Whole'
  BY <1>1, <1>7 DEF DropRows, DropChildren
<1>8. ASSUME Reconciled(p) PROVE Whole'
  <2>1. CASE want[p] = {}
    <3>1. Over(p) /\ UNCHANGED <<server, device, severed>>
      BY <1>8, <2>1 DEF Reconciled
    <3> QED
      BY <1>1, <3>1 DEF Over, Forget, Idle, server, device, Cached, TypeOK
  <2>2. CASE want[p] # {}
    BY <1>1, <1>8, <2>2 DEF Reconciled, Request, Goto, server, device, Cached, TypeOK
  <2> QED
    BY <2>1, <2>2
<1>9. ASSUME Fetch(p) PROVE Whole'
  <2>1. \A g \in got'[p] : g.id \in want[p]
    BY <1>1, <1>9 DEF Fetch, Answer, TypeOK
  <2>2. Ids(p)' \subseteq want'[p]
    BY <1>9, <2>1 DEF Fetch, Ids
  <2>3. severed' = {}
    BY <1>1, <1>9 DEF Fetch
  <2> QED
    BY <1>1, <1>9, <2>2, <2>3 DEF Fetch, Goto, server, device, Cached, TypeOK
<1>10. ASSUME Put(p) PROVE Whole'
  <2>1. \A x \in Turnovers \ Ids(p) : cache'["turnovers"][x] = cache["turnovers"][x]
    BY <1>1, <1>10 DEF Put, TypeOK, Tables
  <2>2. Cached' \subseteq assigned'
    BY <1>1, <1>10, <2>1 DEF Put, Cached, server
  <2>3. severed' = {} /\ overtaken' = {}
    BY <1>1, <1>2, <1>10 DEF Put, Severed
  <2> QED
    BY <1>1, <1>10, <2>2, <2>3 DEF Put, Goto, server, TypeOK
<1>11. ASSUME Advance(p) PROVE Whole'
  <2>1. severed' = {} /\ overtaken' = {} /\ UNCHANGED <<server, cache>>
    BY <1>1, <1>2, <1>11 DEF Advance
  <2>2. CASE table[p] = "checklists"
    <3>1. Forget(p)
      BY <1>11, <2>2 DEF Advance
    <3> QED
      BY <1>1, <2>1, <3>1 DEF Forget, Idle, server, Cached, TypeOK
  <2>3. CASE table[p] # "checklists"
    BY <1>1, <1>11, <2>1, <2>3 DEF Advance, Goto, server, Cached, TypeOK
  <2> QED
    BY <2>2, <2>3
<1>12. ASSUME Reference(p) PROVE Whole'
  BY <1>1, <1>12 DEF Reference, Request, Goto, server, device, Cached, TypeOK
<1>13. ~Fail(p) /\ ~Reload /\ \A x \in Turnovers : ~Move(x)
  BY <1>2 DEF Fail, Reload, Move
<1>14. ASSUME NEW x \in Turnovers, Work(x) \/ Land(x) PROVE Whole'
  BY <1>14 DEF Work, Land, Touch, server, locals, Cached, Ids
<1>15. ASSUME NEW x \in Turnovers, NEW t \in Tables, Change(t, x) PROVE Whole'
  BY <1>15 DEF Change, Touch, device, locals, Cached, Ids
<1>16. ASSUME UNCHANGED vars PROVE Whole'
  BY <1>16 DEF vars, server, device, locals, Cached, Ids
<1> QED
  BY <1>1, <1>3, <1>4, <1>5, <1>6, <1>7, <1>8, <1>9, <1>10, <1>11, <1>12, <1>13,
     <1>14, <1>15, <1>16 DEF Next, Pull

\* What DeltaCovers leaves out comes only from overlapping calls, failed pulls,
\* reloads and changed assignments: with one caller of syncAssignedTurnovers and
\* none of these, every cached row is the server's, or newer there than the
\* cursor, or on its way, whatever the server changes meanwhile.
THEOREM UndisturbedTheorem == ASSUME Undisturbed PROVE Spec => []AllFollow
<1>1. DeltaInv /\ Whole => AllFollow
  BY DEF DeltaInv, Covered, Whole, AllFollow
<1>2. TypeOK /\ Whole /\ [Next]_vars => Whole'
  BY WholeNext
<1>3. Spec => []DeltaInv
  BY Delta0, DeltaNext, PTL DEF Spec
<1> QED
  BY Whole0, ScopeTypeCorrect, <1>1, <1>2, <1>3, PTL DEF Spec

-----------------------------------------------------------------------------
(***************************************************************************)
(* When the device pulls, for any entities, interval and number of         *)
(* changes: Resync, with constants and variables of its own.               *)
(***************************************************************************)
CONSTANTS Entities, ReconcileEvery, MaxChanges, MaxFaults

VARIABLES version, seen, link, chan, greeting, mail, running, queued, todo,
          full, booted, hung, tick, spoiled, changes, faults

R == INSTANCE Resync WITH server <- version

\* ResyncAssumption, of these constants.
ResyncConstants ==
  /\ Entities \subseteq R!SyncSignalEntities /\ "work_orders" \in Entities
  /\ ReconcileEvery \in Nat \ {0} /\ MaxChanges \in Nat /\ MaxFaults \in Nat

PullsTyped ==
  /\ running \in [R!Pullers -> BOOLEAN] /\ queued \in [R!Pullers -> BOOLEAN]
  /\ todo \in [R!Pullers -> SUBSET R!Parts] /\ full \in BOOLEAN
  /\ \A x \in R!Pullers : (queued[x] \/ todo[x] # {}) => running[x]

\* The versions stay within their bound because each change is counted.
VersionsCounted == \A p \in R!Parts : version[p] <= changes

ResyncTyped == R!TypeOK /\ VersionsCounted /\ (~booted => chan = "none")

\* A pull has left no more to do than it would at most.
TodoWanted == \A x \in R!Pullers : todo[x] \subseteq R!Wants(x, TRUE)

\* A pull that will fetch p: it is in flight, or the one queued behind it.
Pulling(p) ==
  \E x \in R!Pullers \ hung :
    running[x] /\ (p \in todo[x] \/ (queued[x] /\ p \in R!Wants(x, full)))

\* What the device lacks of p, and no failure has cost it, is still to come.
OnItsWay ==
  \A p \in Entities : R!Behind(p) =>
    \/ (~booted /\ running["resync"]) \/ chan \in {"joining", "dead"} \/ greeting
    \/ p \in mail \/ Pulling(p)

WayInv == ResyncTyped /\ TodoWanted /\ OnItsWay

LEMMA WantsParts ==
  ResyncConstants =>
    /\ \A x \in R!Pullers, reconcile \in BOOLEAN :
         /\ R!Wants(x, reconcile) \subseteq R!Parts
         /\ R!Wants(x, reconcile) \subseteq R!Wants(x, TRUE)
    /\ \A e \in Entities, reconcile \in BOOLEAN : e \in R!Wants(e, reconcile)
    /\ \A reconcile \in BOOLEAN : Entities \subseteq R!Wants("resync", reconcile)
BY DEF ResyncConstants, R!Wants, R!Parts, R!SyncSignalEntities

\* Only the resync asks for more when it reconciles.
LEMMA WantsSame ==
  ResyncConstants =>
    \A x \in R!Pullers \ {"resync"}, r1, r2 \in BOOLEAN :
      R!Wants(x, r1) = R!Wants(x, r2)
BY DEF ResyncConstants, R!Wants, R!Pullers, R!SyncSignalEntities

\* Asking for a pull takes nothing out of the others, and sees to what it is
\* for.
LEMMA AskFacts ==
  ASSUME ResyncConstants, PullsTyped, NEW x \in R!Pullers,
         NEW reconcile \in BOOLEAN, R!Ask(x, reconcile), hung' = hung
  PROVE  /\ PullsTyped' /\ (TodoWanted => TodoWanted')
         /\ running["resync"] => running'["resync"]
         /\ \A p \in R!Parts : Pulling(p) => Pulling(p)'
         /\ \A p \in Entities :
              x \in {p, "resync"} => Pulling(p)' \/ R!Blocked(p)
<1>1. CASE running[x]
  <2>1. PullsTyped'
    BY <1>1 DEF PullsTyped, R!Ask
  <2>2. \A p \in R!Parts : Pulling(p) => Pulling(p)'
    BY <1>1 DEF PullsTyped, R!Ask, Pulling
  <2>3. \A p \in Entities : x \in {p, "resync"} => p \in R!Wants(x, full)
    BY WantsParts DEF PullsTyped
  <2>4. \A p \in Entities : x \in {p, "resync"} => Pulling(p)' \/ R!Blocked(p)
    <3>1. CASE x \in hung
      BY <3>1, WantsParts DEF R!Blocked
    <3>2. CASE x \notin hung
      BY <1>1, <2>3, <3>2 DEF PullsTyped, R!Ask, Pulling
    <3> QED
      BY <3>1, <3>2
  <2> QED
    BY <1>1, <2>1, <2>2, <2>4 DEF R!Ask, TodoWanted
<1>2. CASE ~running[x]
  <2>1. /\ running' = [running EXCEPT ![x] = TRUE] /\ queued' = queued
        /\ todo' = [todo EXCEPT ![x] = R!Wants(x, reconcile)]
        /\ full' = IF x = "resync" THEN reconcile ELSE full
    BY <1>2 DEF R!Ask, R!Start
  <2>2. PullsTyped'
    BY <2>1, WantsParts DEF PullsTyped
  <2>3. \A p \in R!Parts : Pulling(p) => Pulling(p)'
    <3> SUFFICES ASSUME NEW p \in R!Parts, Pulling(p) PROVE Pulling(p)'
      OBVIOUS
    <3>1. PICK y \in R!Pullers \ hung :
            running[y] /\ (p \in todo[y] \/ (queued[y] /\ p \in R!Wants(y, full)))
      BY DEF Pulling
    <3>2. y # x
      BY <1>2, <3>1
    <3>3. R!Wants(y, full') = R!Wants(y, full)
      BY <2>1, <2>2, <3>2, WantsSame DEF PullsTyped
    <3> QED
      BY <2>1, <3>1, <3>2, <3>3 DEF Pulling, PullsTyped
  <2>4. \A p \in Entities : x \in {p, "resync"} => Pulling(p)' \/ R!Blocked(p)
    <3>1. CASE x \in hung
      BY <3>1, WantsParts DEF R!Blocked
    <3>2. CASE x \notin hung
      BY <2>1, <3>2, WantsParts DEF PullsTyped, Pulling
    <3> QED
      BY <3>1, <3>2
  <2>5. TodoWanted => TodoWanted'
    BY <2>1, WantsParts DEF TodoWanted, PullsTyped
  <2>6. running["resync"] => running'["resync"]
    BY <2>1 DEF PullsTyped, R!Pullers
  <2> QED
    BY <2>2, <2>3, <2>4, <2>5, <2>6
<1> QED
  BY <1>1, <1>2

LEMMA ResyncTypedNext ==
  ResyncConstants /\ ResyncTyped /\ [R!Next]_R!vars => ResyncTyped'
<1> SUFFICES ASSUME ResyncConstants, ResyncTyped, [R!Next]_R!vars PROVE ResyncTyped'
  OBVIOUS
<1>0. PullsTyped
  BY DEF ResyncTyped, R!TypeOK, PullsTyped
<1> USE <1>0 DEF ResyncTyped, R!TypeOK, VersionsCounted, R!remote
<1>1. ASSUME NEW x \in R!Pullers, NEW p \in R!Parts, R!Fetch(x, p) PROVE ResyncTyped'
  <2>1. PullsTyped'
    BY <1>1 DEF R!Fetch, PullsTyped
  <2>2. seen' \in [R!Parts -> 0..MaxChanges]
    BY <1>1 DEF R!Fetch
  <2> QED
    BY <1>1, <2>1, <2>2 DEF R!Fetch, R!channel
<1>2. ASSUME NEW x \in R!Pullers, R!Settle(x) PROVE ResyncTyped'
  <2>3. /\ chan' \in {"none", "joining", "joined", "dead"} /\ booted' \in BOOLEAN
        /\ ~booted' => chan' = "none"
        /\ faults' \in 0..MaxFaults
    <3>1. CASE booted
      BY <1>2, <3>1 DEF R!Settle
    <3>2. CASE ~booted
      <4>1. R!Boot /\ chan = "none" /\ faults \in 0..MaxFaults
        BY <1>2, <3>2 DEF R!Settle
      <4>2. chan' \in {"none", "joining"} /\ booted' \in BOOLEAN
        BY <3>2, <4>1 DEF R!Boot
      <4>3. ~booted' => chan' = "none"
        BY <4>1 DEF R!Boot
      <4>4. faults' \in 0..MaxFaults
        BY <4>1 DEF ResyncConstants, R!Boot, R!Fault
      <4> QED
        BY <4>2, <4>3, <4>4
    <3> QED
      BY <3>1, <3>2
  <2>4. UNCHANGED <<version, changes, seen, link, greeting, mail, full, hung, tick,
                    spoiled>>
    BY <1>2 DEF R!Settle
  <2>1. CASE queued[x]
    <3>1. /\ running' = [running EXCEPT ![x] = TRUE]
          /\ queued' = [queued EXCEPT ![x] = FALSE]
          /\ todo' = [todo EXCEPT ![x] = R!Wants(x, full)] /\ full' = full
      BY <1>2, <2>1 DEF R!Settle, R!Start
    <3>2. R!Wants(x, full) \subseteq R!Parts
      BY WantsParts DEF PullsTyped
    <3>3. PullsTyped'
      BY <3>1, <3>2 DEF PullsTyped
    <3> QED
      BY <2>3, <2>4, <3>3 DEF PullsTyped
  <2>2. CASE ~queued[x]
    <3>1. PullsTyped'
      BY <1>2, <2>2 DEF R!Settle, PullsTyped
    <3> QED
      BY <2>3, <2>4, <3>1 DEF PullsTyped
  <2> QED
    BY <2>1, <2>2
<1>3. ASSUME NEW x \in R!Pullers, NEW p \in R!Parts, R!Fail(x, p) PROVE ResyncTyped'
  <2>1. PullsTyped'
    BY <1>3 DEF R!Fail, PullsTyped
  <2> QED
    BY <1>3, <2>1 DEF ResyncConstants, PullsTyped, R!Fail, R!channel, R!Fault
<1>4. ASSUME NEW p \in R!Parts, R!Change(p) PROVE ResyncTyped'
  <2>1. PullsTyped'
    BY <1>4 DEF R!Change, R!pulls, PullsTyped
  <2>2. version' \in [R!Parts -> 0..MaxChanges]
    BY <1>4 DEF ResyncConstants, R!Change
  <2>3. mail' \subseteq Entities
    BY <1>4 DEF ResyncConstants, R!Change, R!Signals, R!Parts
  <2>4. /\ \A q \in R!Parts : seen'[q] <= version'[q] /\ version'[q] <= changes'
        /\ changes' \in 0..MaxChanges
        /\ spoiled' \subseteq R!Parts /\ faults' \in 0..MaxFaults
    BY <1>4 DEF ResyncConstants, R!Change, R!Fault
  <2> QED
    BY <1>4, <2>1, <2>2, <2>3, <2>4 DEF PullsTyped, R!Change
<1>5. ASSUME NEW e \in Entities, R!Signal(e) PROVE ResyncTyped'
  <2>1. R!Ask(e, FALSE) /\ e \in R!Pullers /\ FALSE \in BOOLEAN
    BY <1>5 DEF R!Signal, R!Pullers, R!Reconciles
  <2>2. PullsTyped'
    BY <1>5, <2>1, AskFacts DEF R!Signal
  <2> QED
    BY <1>5, <2>2 DEF ResyncConstants, PullsTyped, R!Signal, R!channel
<1>6. ASSUME R!Visible PROVE ResyncTyped'
  <2>1. R!Ask("resync", TRUE) /\ "resync" \in R!Pullers /\ TRUE \in BOOLEAN
    BY <1>6 DEF R!Visible, R!Pullers, R!Reconciles
  <2>2. PullsTyped'
    BY <1>6, <2>1, AskFacts DEF R!Visible
  <2> QED
    BY <1>6, <2>2 DEF ResyncConstants, PullsTyped, R!Visible, R!channel
<1>7. ASSUME R!Tick PROVE ResyncTyped'
  <2>1. /\ R!Ask("resync", R!Reconciles(tick'))
        /\ "resync" \in R!Pullers /\ R!Reconciles(tick') \in BOOLEAN
    BY <1>7 DEF R!Tick, R!Pullers, R!Reconciles
  <2>2. PullsTyped'
    BY <1>7, <2>1, AskFacts DEF R!Tick
  <2> QED
    BY <1>7, <2>2 DEF ResyncConstants, PullsTyped, R!Tick, R!channel, R!Reconciles
<1>8. ASSUME R!Join PROVE ResyncTyped'
  BY <1>8, WantsParts DEF R!Join, R!channel, R!pulls, PullsTyped
<1>9. ASSUME R!Subscribed PROVE ResyncTyped'
  <2>1. R!Ask("resync", TRUE) /\ "resync" \in R!Pullers /\ TRUE \in BOOLEAN
    BY <1>9 DEF R!Subscribed, R!Pullers, R!Reconciles
  <2>2. PullsTyped'
    BY <1>9, <2>1, AskFacts DEF R!Subscribed
  <2> QED
    BY <1>9, <2>2 DEF ResyncConstants, PullsTyped, R!Subscribed, R!channel
<1>10. ASSUME R!Drop PROVE ResyncTyped'
  <2>1. faults' \in 0..MaxFaults /\ mail' \subseteq Entities /\ chan' = "dead"
    BY <1>10 DEF ResyncConstants, R!Drop, R!Fault
  <2>2. booted
    BY <1>10 DEF R!Drop
  <2> QED
    BY <1>10, <2>1, <2>2 DEF R!Drop, R!pulls
<1>11. ASSUME R!Reconnect PROVE ResyncTyped'
  BY <1>11 DEF ResyncConstants, R!Reconnect, R!Fault, R!pulls
<1>12. ASSUME R!GoOffline PROVE ResyncTyped'
  <2>1. faults' \in 0..MaxFaults
    BY <1>12 DEF ResyncConstants, R!GoOffline, R!Fault
  <2> QED
    BY <1>12, <2>1 DEF R!GoOffline, R!channel, R!pulls
<1>13. ASSUME R!GoOnline PROVE ResyncTyped'
  <2>1. PullsTyped'
    <3>1. CASE booted
      BY <1>13, <3>1, AskFacts DEF R!GoOnline, R!Pullers
    <3>2. CASE ~booted
      BY <1>13, <3>2 DEF R!GoOnline, R!pulls, PullsTyped
    <3> QED
      BY <3>1, <3>2
  <2> QED
    BY <1>13, <2>1 DEF ResyncConstants, PullsTyped, R!GoOnline, R!channel
<1>14. ASSUME NEW x \in R!Pullers, R!Hang(x) PROVE ResyncTyped'
  BY <1>14 DEF ResyncConstants, R!Hang, R!Fault, R!channel, R!pulls, PullsTyped
<1>15. ASSUME UNCHANGED R!vars PROVE ResyncTyped'
  BY <1>15, WantsParts DEF R!vars, R!channel, R!pulls, PullsTyped
<1> QED
  BY <1>1, <1>2, <1>3, <1>4, <1>5, <1>6, <1>7, <1>8, <1>9, <1>10, <1>11, <1>12,
    <1>13, <1>15, <1>14 DEF R!Next, R!PullStep

LEMMA TodoNext ==
  ResyncConstants /\ ResyncTyped /\ TodoWanted /\ [R!Next]_R!vars => TodoWanted'
<1> SUFFICES ASSUME ResyncConstants, ResyncTyped, TodoWanted, [R!Next]_R!vars
             PROVE  TodoWanted'
  OBVIOUS
<1>0. PullsTyped
  BY DEF ResyncTyped, R!TypeOK, PullsTyped
<1>1. ASSUME NEW x \in R!Pullers, NEW p \in R!Parts, R!Fetch(x, p) \/ R!Fail(x, p)
      PROVE  TodoWanted'
  <2>1. PICK S \in SUBSET R!Parts : todo' = [todo EXCEPT ![x] = @ \ S]
    <3>1. CASE R!Fetch(x, p)
      BY <3>1 DEF R!Fetch
    <3>2. CASE R!Fail(x, p)
      <4>1. todo' = [todo EXCEPT ![x] = @ \ (R!Abandoned(p) \cap R!Parts)]
        BY <1>0, <3>2 DEF R!Fail, PullsTyped
      <4> QED
        BY <4>1
    <3> QED
      BY <1>1, <3>1, <3>2
  <2>2. \A y \in R!Pullers : todo'[y] \subseteq todo[y]
    BY <1>0, <2>1 DEF PullsTyped
  <2> QED
    BY <2>2 DEF TodoWanted
<1>2. ASSUME NEW x \in R!Pullers, R!Settle(x) PROVE TodoWanted'
  <2>1. \/ todo' = todo
        \/ todo' = [todo EXCEPT ![x] = R!Wants(x, full)] /\ full \in BOOLEAN
    BY <1>0, <1>2 DEF R!Settle, R!Start, PullsTyped
  <2>2. R!Wants(x, full) \subseteq R!Wants(x, TRUE)
    BY <1>0, WantsParts DEF PullsTyped
  <2>3. \A y \in R!Pullers : todo'[y] \subseteq R!Wants(y, TRUE)
    BY <1>0, <2>1, <2>2 DEF PullsTyped, TodoWanted
  <2> QED
    BY <2>3 DEF TodoWanted
<1>3. ASSUME NEW x \in R!Pullers, NEW reconcile \in BOOLEAN, R!Ask(x, reconcile),
             hung' = hung
      PROVE  TodoWanted'
  BY <1>0, <1>3, AskFacts
<1>4. ASSUME NEW e \in Entities, R!Signal(e) PROVE TodoWanted'
  BY <1>3, <1>4 DEF R!Signal, R!Pullers
<1>5. ASSUME R!Visible PROVE TodoWanted'
  BY <1>3, <1>5 DEF R!Visible, R!Pullers
<1>6. ASSUME R!Tick PROVE TodoWanted'
  BY <1>3, <1>6 DEF R!Tick, R!Pullers, R!Reconciles
<1>7. ASSUME R!Subscribed PROVE TodoWanted'
  BY <1>3, <1>7 DEF R!Subscribed, R!Pullers
<1>8. ASSUME R!GoOnline PROVE TodoWanted'
  BY <1>3, <1>8 DEF R!GoOnline, R!pulls, R!Pullers, TodoWanted
<1>9. CASE UNCHANGED <<todo>>
  BY <1>9 DEF TodoWanted
<1> QED
  BY <1>1, <1>2, <1>4, <1>5, <1>6, <1>7, <1>8, <1>9
  DEF R!Next, R!PullStep, R!Change, R!Join, R!Drop, R!Reconnect, R!GoOffline, R!Hang,
      R!pulls, R!vars

LEMMA WayNext ==
  ResyncConstants /\ WayInv /\ [R!Next]_R!vars => WayInv'
<1> SUFFICES ASSUME ResyncConstants, WayInv, [R!Next]_R!vars PROVE WayInv'
  OBVIOUS
<1>0. ResyncTyped' /\ TodoWanted'
  BY ResyncTypedNext, TodoNext DEF WayInv
<1>20. PullsTyped
  BY DEF WayInv, ResyncTyped, R!TypeOK, PullsTyped
<1> USE <1>20 DEF R!Blocked, WayInv, ResyncTyped, R!TypeOK, R!remote
<1>1. ASSUME NEW x \in R!Pullers, NEW p \in R!Parts, R!Fetch(x, p) PROVE OnItsWay'
  <2>1. \A q \in R!Parts : q # p /\ Pulling(q) => Pulling(q)'
    BY <1>1 DEF R!Fetch, Pulling, PullsTyped
  <2>2. ~R!Behind(p)'
    BY <1>1 DEF R!Fetch, R!Behind
  <2> QED
    BY <1>1, <2>1, <2>2 DEF R!Fetch, R!channel, OnItsWay, R!Behind, R!Parts
<1>2. ASSUME NEW x \in R!Pullers, R!Settle(x) PROVE OnItsWay'
  <2>1. \A q \in R!Parts : Pulling(q) => Pulling(q)'
    <3> SUFFICES ASSUME NEW q \in R!Parts, Pulling(q) PROVE Pulling(q)'
      OBVIOUS
    <3>1. PICK y \in R!Pullers \ hung :
            running[y] /\ (q \in todo[y] \/ (queued[y] /\ q \in R!Wants(y, full)))
      BY DEF Pulling
    <3>2. CASE y = x
      BY <1>2, <3>1, <3>2 DEF R!Settle, R!Start, Pulling, PullsTyped
    <3>3. CASE y # x
      BY <1>2, <3>1, <3>3 DEF R!Settle, R!Start, Pulling, PullsTyped
    <3> QED
      BY <3>2, <3>3
  <2>2. CASE booted
    BY <1>2, <2>1, <2>2 DEF R!Settle, OnItsWay, R!Behind, R!Parts
  <2>3. CASE ~booted
    BY <1>2, <2>3 DEF R!Settle, R!Boot, OnItsWay, R!Behind
  <2> QED
    BY <2>2, <2>3
<1>3. ASSUME NEW x \in R!Pullers, NEW p \in R!Parts, R!Fail(x, p) PROVE OnItsWay'
  <2>1. CASE ~link
    BY <1>3, <2>1 DEF R!Fail, OnItsWay, R!Behind
  <2>2. CASE link
    <3>1. spoiled' = spoiled \cup (todo[x] \cap R!Abandoned(p))
      BY <1>3, <2>2 DEF R!Fail
    <3>2. \A q \in R!Parts : Pulling(q) => Pulling(q)' \/ q \in spoiled'
      BY <1>3, <3>1 DEF R!Fail, Pulling, PullsTyped
    <3>3. \A q \in Entities : R!Behind(q)' => R!Behind(q) /\ q \notin spoiled'
      BY <1>3, <3>1 DEF R!Fail, R!Behind, R!channel
    <3> QED
      BY <1>3, <3>2, <3>3 DEF R!Fail, R!channel, OnItsWay, R!Parts
  <2> QED
    BY <2>1, <2>2
<1>4. ASSUME NEW p \in R!Parts, R!Change(p) PROVE OnItsWay'
  <2>0. UNCHANGED <<seen, link, chan, greeting, running, queued, todo, full, booted,
                    hung>>
    BY <1>4 DEF R!Change, R!pulls
  <2>1. \A q \in Entities : q # p /\ R!Behind(q)' => R!Behind(q)
    <3>1. \A q \in Entities : q # p => version'[q] = version[q]
      BY <1>4 DEF R!Change, R!Parts
    <3>2. spoiled \subseteq spoiled'
      BY <1>4 DEF R!Change
    <3> QED
      BY <2>0, <3>1, <3>2 DEF R!Behind
  <2>2. \A q \in R!Parts : Pulling(q)' <=> Pulling(q)
    BY <1>4 DEF R!Change, Pulling, R!pulls
  <2>3. ASSUME p \in Entities, R!Behind(p)'
        PROVE  ~booted \/ chan \in {"joining", "dead"} \/ p \in mail'
    <3>1. R!Signals(p) = p
      BY <2>3 DEF ResyncConstants, R!Signals, R!SyncSignalEntities
    <3> QED
      BY <1>4, <2>3, <3>1 DEF R!Change, R!Behind
  <2>4. mail \subseteq mail'
    BY <1>4 DEF R!Change
  <2>5. ASSUME NEW q \in Entities, q # p, R!Behind(q)'
        PROVE  \/ ~booted /\ running["resync"]
               \/ chan \in {"joining", "dead"} \/ greeting
               \/ q \in mail \/ Pulling(q)
    BY <2>1, <2>5 DEF OnItsWay
  <2>6. R!Behind(p)' /\ ~booted => running["resync"]
    BY <2>0 DEF R!Behind
  <2> QED
    BY <2>0, <2>2, <2>3, <2>4, <2>5, <2>6 DEF OnItsWay, R!Parts
<1>5. ASSUME NEW e \in Entities, R!Signal(e) PROVE OnItsWay'
  <2>1. R!Ask(e, FALSE) /\ e \in R!Pullers /\ FALSE \in BOOLEAN
    BY <1>5 DEF R!Signal, R!Pullers, R!Reconciles
  <2>2. /\ \A p \in R!Parts : Pulling(p) => Pulling(p)'
        /\ \A p \in Entities : e \in {p, "resync"} => Pulling(p)' \/ R!Blocked(p)
    BY <1>5, <2>1, AskFacts DEF R!Signal
  <2> QED
    BY <1>5, <2>2 DEF R!Signal, R!channel, OnItsWay, R!Behind, R!Parts
<1>6. ASSUME R!Visible PROVE OnItsWay'
  <2>1. R!Ask("resync", TRUE) /\ "resync" \in R!Pullers /\ TRUE \in BOOLEAN
    BY <1>6 DEF R!Visible, R!Pullers, R!Reconciles
  <2>2. /\ \A p \in R!Parts : Pulling(p) => Pulling(p)'
        /\ \A p \in Entities : "resync" \in {p, "resync"} => Pulling(p)' \/ R!Blocked(p)
    BY <1>6, <2>1, AskFacts DEF R!Visible
  <2> QED
    BY <1>6, <2>2 DEF R!Visible, R!channel, OnItsWay, R!Behind, R!Parts
<1>7. ASSUME R!Tick PROVE OnItsWay'
  <2>1. /\ R!Ask("resync", R!Reconciles(tick'))
        /\ "resync" \in R!Pullers /\ R!Reconciles(tick') \in BOOLEAN
    BY <1>7 DEF R!Tick, R!Pullers, R!Reconciles
  <2>2. /\ \A p \in R!Parts : Pulling(p) => Pulling(p)'
        /\ \A p \in Entities : "resync" \in {p, "resync"} => Pulling(p)' \/ R!Blocked(p)
    BY <1>7, <2>1, AskFacts DEF R!Tick
  <2> QED
    BY <1>7, <2>2 DEF R!Tick, R!channel, OnItsWay, R!Behind, R!Parts
<1>8. ASSUME R!Join PROVE OnItsWay'
  BY <1>8 DEF R!Join, R!channel, R!pulls, OnItsWay, R!Behind, Pulling
<1>9. ASSUME R!Subscribed PROVE OnItsWay'
  <2>1. R!Ask("resync", TRUE) /\ "resync" \in R!Pullers /\ TRUE \in BOOLEAN
    BY <1>9 DEF R!Subscribed, R!Pullers, R!Reconciles
  <2>2. /\ \A p \in R!Parts : Pulling(p) => Pulling(p)'
        /\ \A p \in Entities : "resync" \in {p, "resync"} => Pulling(p)' \/ R!Blocked(p)
    BY <1>9, <2>1, AskFacts DEF R!Subscribed
  <2> QED
    BY <1>9, <2>2 DEF R!Subscribed, R!channel, OnItsWay, R!Behind, R!Parts
<1>10. ASSUME R!Drop PROVE OnItsWay'
  BY <1>10 DEF R!Drop, R!Fault, R!channel, R!pulls, OnItsWay, R!Behind, Pulling
<1>11. ASSUME R!Reconnect PROVE OnItsWay'
  BY <1>11 DEF R!Reconnect, R!Fault, R!channel, R!pulls, OnItsWay, R!Behind,
    Pulling
<1>12. ASSUME R!GoOffline PROVE OnItsWay'
  BY <1>12 DEF R!GoOffline, R!Fault, R!channel, R!pulls, OnItsWay, R!Behind,
    Pulling
<1>13. ASSUME R!GoOnline PROVE OnItsWay'
  <2>1. CASE booted
    <3>1. \A p \in Entities : Pulling(p)' \/ R!Blocked(p)
      BY <1>13, <2>1, AskFacts DEF R!GoOnline, R!Pullers
    <3> QED
      BY <1>13, <3>1 DEF R!GoOnline, OnItsWay, R!Behind
  <2>2. CASE ~booted
    BY <1>13, <2>2 DEF R!GoOnline, R!pulls, OnItsWay, R!Behind
  <2> QED
    BY <2>1, <2>2
<1>14. ASSUME NEW x \in R!Pullers, R!Hang(x) PROVE OnItsWay'
  <2>1. \A q \in R!Parts : Pulling(q) => Pulling(q)' \/ R!Blocked(q)'
    <3> SUFFICES ASSUME NEW q \in R!Parts, Pulling(q)
                 PROVE  Pulling(q)' \/ R!Blocked(q)'
      OBVIOUS
    <3>1. PICK y \in R!Pullers \ hung :
            running[y] /\ (q \in todo[y] \/ (queued[y] /\ q \in R!Wants(y, full)))
      BY DEF Pulling
    <3>2. q \in R!Wants(y, TRUE)
      BY <3>1, WantsParts DEF PullsTyped, TodoWanted
    <3> QED
      BY <1>14, <3>1, <3>2 DEF R!Hang, R!pulls, Pulling
  <2>2. \A q \in Entities : R!Behind(q)' => R!Behind(q)
    BY <1>14 DEF R!Hang, R!Fault, R!pulls, R!channel, R!Behind
  <2> QED
    BY <1>14, <2>1, <2>2 DEF R!Hang, R!pulls, R!channel, OnItsWay, R!Behind, R!Parts
<1>15. ASSUME UNCHANGED R!vars PROVE OnItsWay'
  BY <1>15 DEF R!vars, R!channel, R!pulls, OnItsWay, R!Behind, Pulling
<1> QED
  BY <1>0, <1>1, <1>2, <1>3, <1>4, <1>5, <1>6, <1>7, <1>8, <1>9, <1>10, <1>11,
    <1>12, <1>13, <1>14, <1>15 DEF R!Next, R!PullStep

LEMMA WayInit == ResyncConstants /\ R!Init => WayInv
<1> SUFFICES ASSUME ResyncConstants, R!Init PROVE WayInv
  OBVIOUS
<1>1. PullsTyped
  BY WantsParts DEF R!Init, PullsTyped, R!Pullers
<1>2. ResyncTyped
  <2>1. /\ version \in [R!Parts -> 0..MaxChanges]
        /\ seen \in [R!Parts -> 0..MaxChanges]
        /\ \A p \in R!Parts : seen[p] = 0 /\ version[p] = 0 /\ changes = 0
    BY DEF R!Init, ResyncConstants
  <2>2. /\ changes \in 0..MaxChanges /\ faults \in 0..MaxFaults
        /\ tick \in 0..(ReconcileEvery - 1)
    BY DEF R!Init, ResyncConstants
  <2>3. /\ link = TRUE /\ chan = "none" /\ greeting = FALSE /\ mail = {}
        /\ booted = FALSE /\ hung = {} /\ spoiled = {}
    BY DEF R!Init
  <2>4. VersionsCounted /\ \A p \in R!Parts : seen[p] <= version[p]
    BY <2>1 DEF VersionsCounted
  <2>5. R!TypeOK
    BY <1>1, <2>1, <2>2, <2>3, <2>4 DEF R!TypeOK, PullsTyped
  <2> QED
    BY <2>3, <2>4, <2>5 DEF ResyncTyped
<1>3. TodoWanted
  BY WantsParts DEF R!Init, TodoWanted, R!Pullers
<1>4. OnItsWay
  BY DEF R!Init, OnItsWay, R!Behind
<1> QED
  BY <1>2, <1>3, <1>4 DEF WayInv

\* Versions, channel, pulls and poll keep their types, whatever is asked for
\* while a pull is in flight (runCoalesced, runAction): a pull never brings what
\* the server does not have, and nothing is queued or left to do without one.
THEOREM ResyncTypeCorrect == ResyncConstants => (R!Spec => []R!TypeOK)
<1> SUFFICES ASSUME ResyncConstants PROVE R!Spec => []R!TypeOK
  OBVIOUS
<1>1. R!Init => ResyncTyped
  BY WayInit DEF WayInv
<1>2. ResyncTyped /\ [R!Next]_R!vars => ResyncTyped'
  BY ResyncTypedNext
<1>3. ResyncTyped => R!TypeOK
  BY DEF ResyncTyped
<1> QED
  BY <1>1, <1>2, <1>3, PTL DEF R!Spec

\* "A missed broadcast only ever costs latency" (context.tsx:439), at every
\* moment: rows that changed while the device is online, and that no failed pull
\* or lost broadcast has cost, have a broadcast on its way, a pull in flight or
\* queued behind it that fetches them (runCoalesced, runAction), or the boot or
\* a join to come whose greeting will.  MissedIsFetched adds that these happen.
THEOREM OnItsWayTheorem == ResyncConstants => (R!Spec => []OnItsWay)
<1> SUFFICES ASSUME ResyncConstants PROVE R!Spec => []OnItsWay
  OBVIOUS
<1>1. WayInv => OnItsWay
  BY DEF WayInv
<1>2. R!Init => WayInv
  BY WayInit
<1>3. WayInv /\ [R!Next]_R!vars => WayInv'
  BY WayNext
<1> QED
  BY <1>1, <1>2, <1>3, PTL DEF R!Spec

=============================================================================
