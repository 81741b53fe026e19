--------------------------- MODULE ClassifyProofs ---------------------------
(***************************************************************************)
(* The flow of every node is the one its paths define, for every graph and *)
(* every order in which the two searches may visit it.                     *)
(***************************************************************************)
EXTENDS Classify, FiniteSetTheorems, FunctionTheorems, WellFoundedInduction, TLAPS

\* What has been seen is reachable, by a path no longer than what has been
\* seen is large; what has been visited has all its targets among the seen.
SearchedBy(entry, s, open, E) ==
  /\ entry \subseteq s /\ open \subseteq s
  /\ \A n \in s : PathWithin(n, Cardinality(s), entry, E)
  /\ \A e \in E : e.from \in s \ open => e.to \in s

Searched == SearchedBy(triggered, seen, pending, Open)

IInv ==
  /\ TypeOK
  /\ Searched
  /\ pass # "sync" => syncSet = {n \in Nodes : OnPath(n, SyncEdges)}
  /\ FlowIsByPaths

LEMMA NodesFinite ==
  /\ IsFiniteSet(Nodes) /\ Cardinality(Nodes) \in Nat
  /\ \A S \in SUBSET Nodes : /\ IsFiniteSet(S) /\ Cardinality(S) \in Nat
                             /\ Cardinality(S) <= Cardinality(Nodes)
BY GraphAssumption, FS_Subset, FS_CardinalityType

\* A set of numbers has a least one: the first place where a path leaves a
\* set.
LEMMA SmallestExists ==
  ASSUME NEW S \in SUBSET Nat, S # {}
  PROVE  \E d \in S : \A e \in S : d <= e
<1>1. PICK d \in S : \A e \in S : ~(<<e, d>> \in OpToRel(<, Nat))
  BY WFMin, NatLessThanWellFounded
<1>2. \A e \in S : <<e, d>> \in OpToRel(<, Nat) <=> e < d
  BY DEF OpToRel
<1>3. \A e \in S : ~(e < d)
  BY <1>1, <1>2
<1>4. d \in Nat /\ S \subseteq Nat
  OBVIOUS
<1>5. \A e \in S : d <= e
  BY <1>3, <1>4
<1> QED BY <1>5

\* Following one more edge makes a path one longer.
LEMMA PathExtends ==
  ASSUME NEW entry, NEW E \in SUBSET Edges, NEW m \in Nat, NEW e \in E,
         PathWithin(e.from, m, entry, E)
  PROVE  PathWithin(e.to, m + 1, entry, E)
<1>0. PICK k \in 1 .. m :
        \E p \in [1 .. k -> Nodes] : IsPath(p, k, entry, E) /\ p[k] = e.from
  BY DEF PathWithin
<1>1. PICK p \in [1 .. k -> Nodes] : IsPath(p, k, entry, E) /\ p[k] = e.from
  BY <1>0
<1> DEFINE q == [i \in 1 .. (k + 1) |-> IF i = k + 1 THEN e.to ELSE p[i]]
<1>2. e.to \in Nodes
  BY DEF Edges
<1>3. q \in [1 .. (k + 1) -> Nodes]
  BY <1>1, <1>2
<1>4. \A i \in 1 .. k : q[i] = p[i]
  OBVIOUS
<1>5. q[k + 1] = e.to /\ q[1] \in entry
  BY <1>1, <1>4 DEF IsPath
<1> HIDE DEF q
<1>6. ASSUME NEW i \in 1 .. k
      PROVE  \E d \in E : d.from = q[i] /\ d.to = q[i + 1]
  <2>1. CASE i = k
    BY <2>1, <1>1, <1>4, <1>5
  <2>2. CASE i # k
    <3>1. i \in 1 .. (k - 1) /\ i + 1 \in 1 .. k
      BY <2>2
    <3> QED BY <3>1, <1>1, <1>4 DEF IsPath
  <2> QED BY <2>1, <2>2
<1>7. (k + 1) - 1 = k /\ k + 1 \in 1 .. (m + 1)
  OBVIOUS
<1>8. IsPath(q, k + 1, entry, E)
  BY <1>5, <1>6, <1>7 DEF IsPath
<1> QED BY <1>3, <1>5, <1>7, <1>8 DEF PathWithin

\* A longer bound allows every path a shorter one does.
LEMMA PathWidens ==
  ASSUME NEW entry, NEW E, NEW m \in Nat, NEW l \in Nat, m <= l, NEW n,
         PathWithin(n, m, entry, E)
  PROVE  PathWithin(n, l, entry, E)
<1>1. 1 .. m \subseteq 1 .. l
  OBVIOUS
<1> QED BY <1>1 DEF PathWithin

\* A set that holds the entrypoints and whatever E leads to from it holds
\* every node a path of E leads to: a path that left it would leave it at a
\* first place.
LEMMA PathStaysInClosed ==
  ASSUME NEW entry, NEW E, NEW S, entry \subseteq S,
         \A e \in E : e.from \in S => e.to \in S,
         NEW k \in Nat \ {0}, NEW p \in [1 .. k -> Nodes], IsPath(p, k, entry, E)
  PROVE  p[k] \in S
<1> DEFINE out == {i \in 1 .. k : p[i] \notin S}
<1> SUFFICES ASSUME out # {} PROVE FALSE
  OBVIOUS
<1>1. PICK i \in out : \A j \in out : i <= j
  <2>1. out \in SUBSET Nat
    OBVIOUS
  <2> QED BY <2>1, SmallestExists
<1>2. i # 1
  BY <1>1 DEF IsPath
<1>3. (i - 1) \in 1 .. (k - 1) /\ (i - 1) \notin out
  BY <1>1, <1>2
<1>4. p[i - 1] \in S
  BY <1>3
<1>5. PICK e \in E : e.from = p[i - 1] /\ e.to = p[(i - 1) + 1]
  BY <1>3 DEF IsPath
<1> QED BY <1>1, <1>4, <1>5

\* A search with nothing pending has seen exactly the nodes on a path.
LEMMA SearchExact ==
  ASSUME NEW entry, NEW s \in SUBSET Nodes, NEW E, SearchedBy(entry, s, {}, E)
  PROVE  s = {n \in Nodes : PathWithin(n, Cardinality(Nodes), entry, E)}
<1>1. ASSUME NEW n \in s PROVE PathWithin(n, Cardinality(Nodes), entry, E)
  <2>1. PathWithin(n, Cardinality(s), entry, E)
    BY DEF SearchedBy
  <2> QED BY <2>1, PathWidens, NodesFinite
<1>2. ASSUME NEW n \in Nodes, PathWithin(n, Cardinality(Nodes), entry, E)
      PROVE  n \in s
  <2>0. PICK k \in 1 .. Cardinality(Nodes) :
          \E p \in [1 .. k -> Nodes] : IsPath(p, k, entry, E) /\ p[k] = n
    BY <1>2 DEF PathWithin
  <2>1. PICK p \in [1 .. k -> Nodes] : IsPath(p, k, entry, E) /\ p[k] = n
    BY <2>0
  <2>2. k \in Nat \ {0}
    BY NodesFinite
  <2>3. entry \subseteq s /\ \A e \in E : e.from \in s => e.to \in s
    BY DEF SearchedBy
  <2> QED BY <2>1, <2>2, <2>3, PathStaysInClosed
<1> QED BY <1>1, <1>2

\* At the start of a search only the entrypoints are seen, each a path.
LEMMA SearchStarts ==
  ASSUME NEW entry \in SUBSET Nodes, NEW E
  PROVE  SearchedBy(entry, entry, entry, E)
<1>1. ASSUME NEW n \in entry PROVE PathWithin(n, Cardinality(entry), entry, E)
  <2>1. IsFiniteSet(entry) /\ Cardinality(entry) \in Nat /\ Cardinality(entry) # 0
    BY NodesFinite, FS_EmptySet
  <2> DEFINE p == [i \in 1 .. 1 |-> n]
  <2>2. p \in [1 .. 1 -> Nodes] /\ p[1] = n
    OBVIOUS
  <2>3. IsPath(p, 1, entry, E)
    BY <2>2 DEF IsPath
  <2>4. 1 \in 1 .. Cardinality(entry)
    BY <2>1
  <2> QED BY <2>2, <2>3, <2>4 DEF PathWithin
<1> QED BY <1>1 DEF SearchedBy

-----------------------------------------------------------------------------
LEMMA InitIInv == Init => IInv
<1> SUFFICES ASSUME Init PROVE IInv
  OBVIOUS
<1>1. TypeOK
  BY GraphAssumption DEF Init, TypeOK
<1>2. Searched
  BY SearchStarts DEF Init, Searched
<1> QED BY <1>1, <1>2 DEF Init, IInv, FlowIsByPaths

LEMMA VisitStep == IInv /\ Visit => IInv'
<1> SUFFICES ASSUME IInv, Visit PROVE IInv'
  OBVIOUS
<1>1. UNCHANGED <<edges, triggered, queues, pass, syncSet, flow>> /\ pass # "done"
  BY DEF Visit
<1>2. PICK id \in pending :
        LET new == {e.to : e \in {o \in Open : o.from = id}} \ seen IN
        seen' = seen \cup new /\ pending' = (pending \ {id}) \cup new
  BY DEF Visit
<1> DEFINE new == {e.to : e \in {o \in Open : o.from = id}} \ seen
<1>3. seen' = seen \cup new /\ pending' = (pending \ {id}) \cup new
  BY <1>2
<1>4. /\ Followed' = Followed /\ SyncEdges' = SyncEdges /\ Open' = Open
      /\ Open \in SUBSET Edges
  BY <1>1 DEF Open, SyncEdges, Followed, Synchronous, IInv, TypeOK
<1>5. \A n \in new : n \in Nodes /\ n \notin seen /\ \E e \in Open : e.from = id /\ e.to = n
  BY <1>4 DEF Edges
<1>6. \A e \in Open : e.from = id => e.to \in seen \cup new
  OBVIOUS
<1> HIDE DEF new
<1>7. TypeOK'
  BY <1>1, <1>3, <1>5 DEF IInv, TypeOK
<1>8. SearchedBy(triggered, seen', pending', Open)
  <2>1. triggered \subseteq seen' /\ pending' \subseteq seen'
    BY <1>3 DEF IInv, Searched, SearchedBy
  <2>2. \A e \in Open : e.from \in seen' \ pending' => e.to \in seen'
    BY <1>3, <1>6 DEF IInv, Searched, SearchedBy
  <2>3. /\ Cardinality(seen) \in Nat /\ Cardinality(seen') \in Nat
        /\ Cardinality(seen) <= Cardinality(seen')
    <3>1. seen \in SUBSET seen' /\ IsFiniteSet(seen')
      BY <1>3, <1>7, NodesFinite DEF TypeOK
    <3> QED BY <3>1, FS_Subset, FS_CardinalityType
  <2>4. ASSUME NEW n \in seen' PROVE PathWithin(n, Cardinality(seen'), triggered, Open)
    <3>1. CASE n \in seen
      BY <3>1, <2>3, PathWidens DEF IInv, Searched, SearchedBy
    <3>2. CASE n \in new
      <4>1. PICK e \in Open : e.from = id /\ e.to = n
        BY <3>2, <1>5
      <4>2. PathWithin(e.from, Cardinality(seen), triggered, Open)
        BY <4>1 DEF IInv, Searched, SearchedBy
      <4>3. PathWithin(n, Cardinality(seen) + 1, triggered, Open)
        BY <4>1, <4>2, <1>4, <2>3, PathExtends
      <4>4. Cardinality(seen) + 1 <= Cardinality(seen')
        <5>1. seen # seen' /\ seen \in SUBSET seen' /\ IsFiniteSet(seen')
          BY <3>2, <1>3, <1>5, <1>7, NodesFinite DEF TypeOK
        <5>2. Cardinality(seen) # Cardinality(seen')
          BY <5>1, FS_Subset
        <5> QED BY <5>2, <2>3
      <4> QED BY <4>3, <4>4, <2>3, PathWidens
    <3> QED BY <3>1, <3>2, <1>3
  <2> QED BY <2>1, <2>2, <2>4 DEF SearchedBy
<1>9. Searched'
  BY <1>1, <1>4, <1>8 DEF Searched
<1>10. (pass # "sync" => syncSet = {n \in Nodes : OnPath(n, SyncEdges)})'
  BY <1>1, <1>4 DEF IInv, OnPath
<1>11. FlowIsByPaths'
  BY <1>1 DEF FlowIsByPaths
<1> QED BY <1>7, <1>9, <1>10, <1>11 DEF IInv

LEMMA EndSyncStep == IInv /\ EndSync => IInv'
<1> SUFFICES ASSUME IInv, EndSync PROVE IInv'
  OBVIOUS
<1>1. TypeOK'
  BY DEF EndSync, IInv, TypeOK
<1>2. Searched'
  BY SearchStarts DEF EndSync, Searched, IInv, TypeOK
<1>3. Open = SyncEdges /\ SyncEdges' = SyncEdges
  BY DEF EndSync, Open, SyncEdges, Followed, Synchronous
<1>4. seen = {n \in Nodes : OnPath(n, SyncEdges)}
  BY <1>3, SearchExact DEF EndSync, IInv, TypeOK, Searched, OnPath
<1>5. (pass # "sync" => syncSet = {n \in Nodes : OnPath(n, SyncEdges)})'
  BY <1>3, <1>4 DEF EndSync, OnPath
<1>6. FlowIsByPaths'
  BY DEF EndSync, FlowIsByPaths
<1> QED BY <1>1, <1>2, <1>5, <1>6 DEF IInv

\* What the code's filters keep is what the definition in terms of paths needs.
LEMMA FiltersAgree == TypeOK => Carrying = Followed /\ Waiting = SyncEdges
<1> SUFFICES ASSUME TypeOK PROVE Carrying = Followed /\ Waiting = SyncEdges
  OBVIOUS
<1>1. \A e \in edges : /\ e.kind \in Kinds /\ e.status \in Statuses
                        /\ e.confidence \in Confidences
  BY DEF TypeOK, Edges
<1>2. Carrying = Followed
  BY <1>1 DEF Carrying, Followed, Statuses, Confidences
<1>3. \A e \in edges : Synchronous(e) <=> ~HandsOver(e)
  BY <1>1 DEF Synchronous, HandsOver, Kinds
<1>4. Followed \subseteq edges
  BY DEF Followed
<1> QED BY <1>2, <1>3, <1>4 DEF Waiting, SyncEdges

LEMMA AssignStep == IInv /\ Assign => IInv'
<1> SUFFICES ASSUME IInv, Assign PROVE IInv'
  OBVIOUS
<1>1. /\ UNCHANGED <<edges, triggered, queues, seen, pending, syncSet>>
      /\ pass = "any" /\ pass' = "done" /\ pending = {}
  BY DEF Assign
<1>2. Open = Followed /\ Open' = Open /\ Followed' = Followed /\ SyncEdges' = SyncEdges
  BY <1>1 DEF Open, SyncEdges, Followed, Synchronous
<1>3. seen = {n \in Nodes : OnPath(n, Followed)}
  BY <1>1, <1>2, SearchExact DEF IInv, TypeOK, Searched, OnPath
<1>4. syncSet = {n \in Nodes : OnPath(n, SyncEdges)}
  BY <1>1 DEF IInv
<1>5. TypeOK'
  <2>1. flow' \in [Nodes -> {"none", "entrypoint", "sync", "async", "unreached"}]
    BY DEF Assign
  <2> QED BY <2>1, <1>1 DEF IInv, TypeOK
<1>6. Searched'
  BY <1>1, <1>2 DEF IInv, Searched
<1>7. (pass # "sync" => syncSet = {n \in Nodes : OnPath(n, SyncEdges)})'
  BY <1>1, <1>2, <1>4 DEF OnPath
<1>8. flow' = [n \in Nodes |-> FlowOf(n)]
  <2>0. Carrying = Followed /\ Waiting = SyncEdges
    BY FiltersAgree DEF IInv
  <2>1. \A n \in Nodes : n \in seen <=> OnPath(n, Followed)
    BY <1>3
  <2>2. \A n \in Nodes : n \in syncSet <=> OnPath(n, SyncEdges)
    BY <1>4
  <2>3. \A n \in Nodes :
          (CASE n \in triggered -> "entrypoint"
             [] n \in syncSet \ triggered -> "sync"
             [] n \in seen \ (syncSet \cup triggered) -> "async"
             [] OTHER -> "unreached") = FlowOf(n)
    BY <2>0, <2>1, <2>2 DEF FlowOf
  <2> QED BY <2>3 DEF Assign
<1>9. FlowIsByPaths'
  <2>1. [n \in Nodes |-> FlowOf(n)]' = [n \in Nodes |-> FlowOf(n)]
    BY <1>1 DEF FlowOf, OnPath, Carrying, Waiting, HandsOver
  <2> QED BY <2>1, <1>8 DEF FlowIsByPaths
<1> QED BY <1>5, <1>6, <1>7, <1>9 DEF IInv

LEMMA StutterStep == IInv /\ UNCHANGED vars => IInv'
<1> SUFFICES ASSUME IInv, UNCHANGED vars PROVE IInv'
  OBVIOUS
<1>1. Open' = Open /\ Followed' = Followed /\ SyncEdges' = SyncEdges
  BY DEF vars, Open, SyncEdges, Followed, Synchronous
<1>2. TypeOK' /\ Searched'
  BY <1>1 DEF vars, IInv, TypeOK, Searched
<1>3. (pass # "sync" => syncSet = {n \in Nodes : OnPath(n, SyncEdges)})'
  BY <1>1 DEF vars, IInv, OnPath
<1>4. [n \in Nodes |-> FlowOf(n)]' = [n \in Nodes |-> FlowOf(n)]
  BY DEF vars, FlowOf, OnPath, Carrying, Waiting, HandsOver
<1>5. FlowIsByPaths'
  BY <1>4 DEF vars, IInv, FlowIsByPaths
<1> QED BY <1>2, <1>3, <1>5 DEF IInv

THEOREM Inductive == Spec => []IInv
<1>1. IInv /\ [Next]_vars => IInv'
  BY VisitStep, EndSyncStep, AssignStep, StutterStep DEF Next, Done
<1> QED BY InitIInv, <1>1, PTL DEF Spec

\* Whatever the graph and the order of the searches, classify gives a node
\* the flow its paths from the entrypoints define.
THEOREM FlowCorrect == Spec => []FlowIsByPaths
<1>1. IInv => FlowIsByPaths
  BY DEF IInv
<1> QED BY <1>1, Inductive, PTL
=============================================================================
