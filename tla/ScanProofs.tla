----------------------------- MODULE ScanProofs -----------------------------
(***************************************************************************)
(* What holds of a scan for every number of collectors and dependents,     *)
(* every requested concurrency and every account.                          *)
(***************************************************************************)
EXTENDS Scan, FiniteSetTheorems, FunctionTheorems, WellFoundedInduction, TLAPS

\* A set of numbers has a least one: the call a collector issues next.
LEMMA SmallestExists ==
  ASSUME NEW S \in SUBSET Nat, S # {}
  PROVE  \E d \in S : \A e \in S : d <= e
<1>1. PICK d \in S : \A e \in S : ~(<<e, d>> \in OpToRel(<, Nat))
  BY WFMin, NatLessThanWellFounded
<1>2. \A e \in S : <<e, d>> \in OpToRel(<, Nat) <=> e < d
  BY DEF OpToRel
<1>3. \A e \in S : ~(e < d)
  BY <1>1, <1>2
<1>4. d \in Nat /\ S \subseteq Nat
  OBVIOUS
<1>5. \A e \in S : d <= e
  BY <1>3, <1>4
<1> QED BY <1>5

\* Ranks are a renumbering: each position of the input gets a place of its
\* own in the output, every place is taken, and the order is kept.
LEMMA RanksRenumber ==
  ASSUME NEW n \in Nat, NEW before, StrictlyOrders(before, 1..n)
  PROVE  /\ Ranks(1..n, before) \in Bijection(1..n, 1..n)
         /\ \A i, j \in 1..n : <<i, j>> \in before =>
              Ranks(1..n, before)[i] < Ranks(1..n, before)[j]
<1> DEFINE D == 1..n
           below(i) == {j \in D : <<j, i>> \in before}
           rank == Ranks(D, before)
<1>1. IsFiniteSet(D) /\ Cardinality(D) = n
  BY FS_Interval
<1>r. rank = [i \in D |-> Cardinality(below(i)) + 1]
  BY DEF Ranks
<1>b. \A i \in D : below(i) \in SUBSET D /\ \A j \in D : j \in below(i) <=> <<j, i>> \in before
  OBVIOUS
<1> HIDE DEF below, rank
<1>2. ASSUME NEW i \in D
      PROVE  /\ IsFiniteSet(below(i))
             /\ Cardinality(below(i)) \in Nat /\ Cardinality(below(i)) < n
  <2>1. below(i) \in SUBSET D /\ i \notin below(i)
    BY <1>b DEF StrictlyOrders
  <2>2. IsFiniteSet(below(i)) /\ Cardinality(below(i)) <= n
    BY <2>1, <1>1, FS_Subset
  <2>3. Cardinality(below(i)) # n
    BY <2>1, <1>1, FS_Subset
  <2>4. Cardinality(below(i)) \in Nat
    BY <2>2, FS_CardinalityType
  <2> QED BY <2>2, <2>3, <2>4
<1>3. rank \in [D -> D]
  <2> SUFFICES ASSUME NEW i \in D PROVE Cardinality(below(i)) + 1 \in D
    BY <1>r
  <2> QED BY <1>2
<1>4. ASSUME NEW i \in D, NEW j \in D, <<i, j>> \in before
      PROVE  rank[i] < rank[j]
  <2>1. below(i) \in SUBSET below(j)
    BY <1>4, <1>b DEF StrictlyOrders
  <2>2. i \in below(j) /\ i \notin below(i)
    BY <1>4, <1>b DEF StrictlyOrders
  <2>3. Cardinality(below(i)) <= Cardinality(below(j))
    BY <2>1, <1>2, FS_Subset
  <2>4. Cardinality(below(i)) # Cardinality(below(j))
    BY <2>1, <2>2, <1>2, FS_Subset
  <2>5. Cardinality(below(i)) < Cardinality(below(j))
    BY <2>3, <2>4, <1>2
  <2> QED BY <2>5, <1>2, <1>r
<1>5. \A i, j \in D : rank[i] = rank[j] => i = j
  <2> SUFFICES ASSUME NEW i \in D, NEW j \in D, rank[i] = rank[j], i # j
               PROVE FALSE
    OBVIOUS
  <2>1. rank[i] < rank[j] \/ rank[j] < rank[i]
    BY <1>4 DEF StrictlyOrders
  <2> QED BY <2>1, <1>3
<1>6. rank \in Injection(D, D)
  BY <1>3, <1>5 DEF Injection, IsInjective
<1>7. rank \in Surjection(D, D)
  BY <1>6, <1>1, FS_Injection
<1> QED BY <1>4, <1>6, <1>7 DEF Bijection, rank

\* Sorting loses nothing, invents nothing and doubles nothing, and each
\* element stands after all those that come before it.
THEOREM StableSortPermutes ==
  ASSUME NEW S, NEW s \in Seq(S), NEW before, StrictlyOrders(before, DOMAIN s)
  PROVE  \E p \in Bijection(DOMAIN s, DOMAIN s) :
           /\ StableSort(s, before) = [k \in DOMAIN s |-> s[p[k]]]
           /\ \A k, l \in DOMAIN s : k < l => <<p[k], p[l]>> \in before
<1> DEFINE D == DOMAIN s
           rank == Ranks(D, before)
           p == [k \in D |-> CHOOSE i \in D : rank[i] = k]
<1>1. PICK n \in Nat : D = 1..n
  BY Len(s) \in Nat
<1>2. /\ rank \in Bijection(D, D)
      /\ \A i, j \in D : <<i, j>> \in before => rank[i] < rank[j]
  BY <1>1, RanksRenumber
<1>3. ASSUME NEW k \in D
      PROVE  p[k] \in D /\ rank[p[k]] = k
  <2>1. \E i \in D : rank[i] = k
    BY <1>2 DEF Bijection, Surjection
  <2> QED BY <2>1
<1>r. StableSort(s, before) = [k \in D |-> s[p[k]]]
  BY DEF StableSort
<1> HIDE DEF rank, p
<1>4. p \in Bijection(D, D)
  <2>1. p \in [D -> D]
    BY <1>3 DEF p
  <2>2. \A k, l \in D : p[k] = p[l] => k = l
    BY <1>3
  <2>3. \A i \in D : rank[i] \in D /\ p[rank[i]] = i
    <3> SUFFICES ASSUME NEW i \in D PROVE rank[i] \in D /\ p[rank[i]] = i
      OBVIOUS
    <3>1. rank[i] \in D
      BY <1>2 DEF Bijection, Surjection
    <3>2. rank[p[rank[i]]] = rank[i] /\ p[rank[i]] \in D
      BY <3>1, <1>3
    <3> QED BY <3>1, <3>2, <1>2 DEF Bijection, Injection, IsInjective
  <2> QED BY <2>1, <2>2, <2>3 DEF Bijection, Injection, IsInjective, Surjection
<1>5. ASSUME NEW k \in D, NEW l \in D, k < l
      PROVE  <<p[k], p[l]>> \in before
  <2>1. p[k] \in D /\ p[l] \in D /\ p[k] # p[l]
    BY <1>3, <1>5, <1>1
  <2>2. CASE <<p[l], p[k]>> \in before
    <3>1. rank[p[l]] < rank[p[k]]
      BY <2>1, <2>2, <1>2
    <3> QED BY <3>1, <1>3, <1>5, <1>1
  <2> QED BY <2>1, <2>2 DEF StrictlyOrders
<1> QED BY <1>4, <1>5, <1>r

\* A sorted sequence is a sequence of the same elements.
COROLLARY StableSortType ==
  ASSUME NEW S, NEW s \in Seq(S), NEW before, StrictlyOrders(before, DOMAIN s)
  PROVE  StableSort(s, before) \in Seq(S)
<1>1. PICK p \in Bijection(DOMAIN s, DOMAIN s) :
        StableSort(s, before) = [k \in DOMAIN s |-> s[p[k]]]
  BY StableSortPermutes
<1>2. p \in [DOMAIN s -> DOMAIN s]
  BY DEF Bijection, Injection
<1>3. PICK n \in Nat : DOMAIN s = 1..n
  BY Len(s) \in Nat
<1>4. \A k \in 1..n : s[p[k]] \in S
  BY <1>2, <1>3
<1>5. [k \in 1..n |-> s[p[k]]] \in Seq(S)
  BY <1>4
<1> QED BY <1>1, <1>3, <1>5
-----------------------------------------------------------------------------
Alive(w) == g[w] \in {"parked", "running", "released"}
Running  == {w \in Workers : g[w] = "running"}
Live     == {w \in Workers : Alive(w)}

\* The strengthening.  The semaphore and the WaitGroup count what they should;
Counts ==
  /\ sem = Cardinality(Running) /\ sem <= Capacity
  /\ wg = Cardinality(Live)

\* goroutines are born in order, phase after phase;
Births ==
  /\ \A w \in Workers : g[w] = "unborn" <=> w > spawned
  /\ main = "phase1" => spawned <= NumCollectors
  /\ main = "phase2" => spawned >= NumCollectors

\* a phase that is over has nobody left in it;
Barrier ==
  /\ main = "phase2" => \A w \in Collectors : ~Alive(w)
  /\ main \in {"assemble", "returned"} => \A w \in Workers : ~Alive(w)

\* only a cancelled context skips a goroutine or a call, and what is assembled
\* was complete before.
Cancelled ==
  /\ ctx = "live" => /\ \A w \in Workers : g[w] # "skipped"
                     /\ \A c \in Calls : verdict[c] # "cancelled"
  /\ main = "assemble" \/ outcome = "inventory" =>
       /\ main \in {"assemble", "returned"}
       /\ \A w \in Workers : g[w] = "done"
       /\ \A c \in Calls : verdict[c] # "cancelled"
  /\ main # "returned" => outcome = "none"

IInv == TypeOK /\ Counts /\ Births /\ Barrier /\ Cancelled

-----------------------------------------------------------------------------
(* Counting goroutines.                                                    *)

LEMMA WorkersFinite == IsFiniteSet(Workers)
BY FS_Interval, CountAssumption DEF Workers

\* One goroutine more, one goroutine less.
LEMMA CountAdd ==
  ASSUME NEW A, NEW B, NEW w, IsFiniteSet(A), w \notin A, B = A \cup {w}
  PROVE  Cardinality(B) = Cardinality(A) + 1
BY FS_AddElement

LEMMA CountRemove ==
  ASSUME NEW A, NEW B, NEW w, IsFiniteSet(A), w \in A, B = A \ {w}
  PROVE  Cardinality(B) = Cardinality(A) - 1
BY FS_RemoveElement

LEMMA CountedFinite ==
  /\ IsFiniteSet(Running) /\ Cardinality(Running) \in Nat
  /\ IsFiniteSet(Live) /\ Cardinality(Live) \in Nat
<1>1. Running \in SUBSET Workers /\ Live \in SUBSET Workers
  BY DEF Running, Live
<1> QED BY <1>1, WorkersFinite, FS_Subset, FS_CardinalityType

LEMMA CapacityType == Capacity \in Nat \ {0}
BY CountAssumption DEF Capacity

-----------------------------------------------------------------------------
(* Normalize sorts by strict orders.                                       *)

LEMMA ResourceOrderStrict ==
  ASSUME NEW s \in Seq(Resources)
  PROVE  StrictlyOrders(ResourceOrder(s), DOMAIN s)
<1>1. PICK n \in Nat : DOMAIN s = 1..n
  BY Len(s) \in Nat
<1>2. \A i \in 1..n : s[i].id \in Nat
  <2>1. \A i \in 1..n : s[i] \in Resources
    BY <1>1
  <2> QED BY <2>1, CallAssumption DEF Resources
<1>3. \A i, j \in 1..n :
        <<i, j>> \in ResourceOrder(s) <=>
          s[i].id < s[j].id \/ (s[i].id = s[j].id /\ i < j)
  BY <1>1 DEF ResourceOrder
<1> DEFINE key == [i \in 1..n |-> s[i].id]
           R   == ResourceOrder(s)
<1>4. \A i, j \in 1..n :
        <<i, j>> \in R <=> key[i] < key[j] \/ (key[i] = key[j] /\ i < j)
  BY <1>3
<1>5. key \in [1..n -> Nat]
  BY <1>2
<1> HIDE DEF key, R
<1>6. StrictlyOrders(R, 1..n)
  <2>0. \A i \in 1..n : key[i] \in Int /\ i \in Int
    BY <1>5
  <2>1. \A i \in 1..n : <<i, i>> \notin R
    BY <1>4, <2>0
  <2>2. \A i, j \in 1..n : i # j => <<i, j>> \in R \/ <<j, i>> \in R
    BY <1>4, <2>0
  <2>3. ASSUME NEW i \in 1..n, NEW j \in 1..n, NEW k \in 1..n,
               <<i, j>> \in R, <<j, k>> \in R
        PROVE  <<i, k>> \in R
    <3>1. key[i] < key[j] \/ (key[i] = key[j] /\ i < j)
      BY <1>4, <2>3
    <3>2. key[j] < key[k] \/ (key[j] = key[k] /\ j < k)
      BY <1>4, <2>3
    <3>3. key[i] < key[k] \/ (key[i] = key[k] /\ i < k)
      BY <2>0, <3>1, <3>2
    <3> QED BY <1>4, <3>3
  <2> QED BY <2>1, <2>2, <2>3 DEF StrictlyOrders
<1> QED BY <1>1, <1>6 DEF R

\* Warnings are compared like words: never both ways, and being no less than
\* is transitive.
LEMMA WarningLessWeakOrder ==
  ASSUME NEW u \in Warnings, NEW v \in Warnings, NEW w \in Warnings
  PROVE  /\ ~(WarningLess(u, v) /\ WarningLess(v, u))
         /\ ~WarningLess(v, u) /\ ~WarningLess(w, v) => ~WarningLess(w, u)
<1>1. /\ u.service \in Int /\ v.service \in Int /\ w.service \in Int
      /\ u.op \in Int /\ v.op \in Int /\ w.op \in Int
      /\ u.message \in Int /\ v.message \in Int /\ w.message \in Int
  <2>1. Workers \subseteq Int /\ Calls \cup {NoOp} \subseteq Int /\ Calls \subseteq Int
    BY CallAssumption, CountAssumption DEF Workers, NoOp
  <2>2. \A x \in Warnings : /\ x.service \in Workers /\ x.op \in Calls \cup {NoOp}
                            /\ x.message \in Calls
    BY DEF Warnings
  <2> QED BY <2>1, <2>2
<1> QED BY <1>1 DEF WarningLess

LEMMA WarningOrderStrict ==
  ASSUME NEW s \in Seq(Warnings)
  PROVE  StrictlyOrders(WarningOrder(s), DOMAIN s)
<1>1. PICK n \in Nat : DOMAIN s = 1..n
  BY Len(s) \in Nat
<1>2. \A i \in 1..n : s[i] \in Warnings
  BY <1>1
<1> DEFINE less == {p \in (1..n) \X (1..n) : WarningLess(s[p[1]], s[p[2]])}
           R    == WarningOrder(s)
<1>3. \A i, j \in 1..n :
        <<i, j>> \in R <=> <<i, j>> \in less \/ (<<j, i>> \notin less /\ i < j)
  BY <1>1 DEF WarningOrder
<1>4. \A i, j, k \in 1..n :
        /\ ~(<<i, j>> \in less /\ <<j, i>> \in less)
        /\ <<j, i>> \notin less /\ <<k, j>> \notin less => <<k, i>> \notin less
  BY <1>2, WarningLessWeakOrder
<1> HIDE DEF less, R
<1>5. StrictlyOrders(R, 1..n)
  <2>1. \A i \in 1..n : <<i, i>> \notin R
    BY <1>3, <1>4
  <2>2. \A i, j \in 1..n : i # j => <<i, j>> \in R \/ <<j, i>> \in R
    BY <1>3
  <2>3. \A i, j, k \in 1..n :
          <<i, j>> \in R /\ <<j, k>> \in R => <<i, k>> \in R
    <3> SUFFICES ASSUME NEW i \in 1..n, NEW j \in 1..n, NEW k \in 1..n,
                        <<i, j>> \in R, <<j, k>> \in R
                 PROVE  <<i, k>> \in R
      OBVIOUS
    <3>1. <<j, i>> \notin less /\ <<k, j>> \notin less
      BY <1>3, <1>4
    <3>2. <<k, i>> \notin less
      BY <3>1, <1>4
    <3>3. <<i, k>> \in less \/ i < k
      <4>1. CASE <<i, j>> \in less
        BY <4>1, <3>1, <1>4
      <4>2. CASE <<j, k>> \in less
        BY <4>2, <3>1, <1>4
      <4>3. CASE i < j /\ j < k
        BY <4>3
      <4> QED BY <4>1, <4>2, <4>3, <1>3
    <3> QED BY <3>2, <3>3, <1>3
  <2> QED BY <2>1, <2>2, <2>3 DEF StrictlyOrders
<1> QED BY <1>1, <1>5 DEF R

-----------------------------------------------------------------------------
(* The steps.  Each lemma is one action.                                   *)

LEMMA InitIInv == Init => IInv
<1> SUFFICES ASSUME Init PROVE IInv
  OBVIOUS
<1>1. TypeOK
  <2>1. 0 \in 0 .. (NumCollectors + NumDependents)
    BY CountAssumption
  <2>2. <<>> \in Seq(Resources) /\ <<>> \in Seq(Warnings)
    OBVIOUS
  <2>3. /\ [x \in Workers |-> {}] \in [Workers -> SUBSET Calls]
        /\ [x \in Workers |-> {}] \in [Workers -> SUBSET Resources]
        /\ [x \in Workers |-> {}] \in [Workers -> SUBSET Warnings]
    OBVIOUS
  <2>4. [c \in Calls |-> "unasked"] \in [Calls -> Answers \cup {"unasked"}]
    OBVIOUS
  <2> QED BY <2>1, <2>2, <2>3, <2>4 DEF Init, TypeOK
<1>2. Running = {} /\ Live = {}
  BY DEF Init, Running, Live, Alive
<1>3. Counts
  BY <1>2, FS_EmptySet, CapacityType DEF Init, Counts
<1>4. Births
  BY CountAssumption DEF Init, Births, Workers
<1>5. Barrier /\ Cancelled
  BY DEF Init, Barrier, Cancelled
<1> QED BY <1>1, <1>3, <1>4, <1>5 DEF IInv

LEMMA SpawnStep == IInv /\ Spawn => IInv'
<1> SUFFICES ASSUME IInv, Spawn PROVE IInv'
  OBVIOUS
<1> DEFINE w == spawned + 1
<1> USE CountAssumption
<1>1. w \in Workers /\ g[w] = "unborn" /\ spawned < PhaseEnd
  BY DEF IInv, TypeOK, Births, Spawn, PhaseEnd, Workers
<1>2. g' = [g EXCEPT ![w] = "parked"] /\ g \in [Workers -> {"unborn", "parked", "running", "released", "done", "skipped"}]
  BY DEF Spawn, IInv, TypeOK
<1>3. TypeOK'
  <2>1. spawned' \in 0 .. (NumCollectors + NumDependents)
    BY <1>1 DEF Spawn, Workers, IInv, TypeOK
  <2>2. todo' \in [Workers -> SUBSET Calls]
    BY <1>1, CallAssumption DEF Spawn, IInv, TypeOK
  <2> QED BY <2>1, <2>2, <1>1, <1>2 DEF Spawn, IInv, TypeOK, inv
<1>4. Running' = Running /\ Live' = Live \cup {w} /\ w \notin Live
  BY <1>1, <1>2 DEF Running, Live, Alive
<1>5. Counts'
  <2>1. Cardinality(Live') = Cardinality(Live) + 1
    BY <1>4, CountAdd, CountedFinite
  <2> QED BY <2>1, <1>4 DEF Spawn, IInv, Counts
<1>6. Births'
  <2>1. \A v \in Workers : g'[v] = "unborn" <=> v > spawned'
    BY <1>1, <1>2 DEF Spawn, IInv, Births, TypeOK, Workers
  <2> QED BY <2>1, <1>1 DEF Spawn, IInv, Births, TypeOK, PhaseEnd
<1>7. Barrier'
  BY <1>1, <1>2 DEF Spawn, IInv, Births, Barrier, TypeOK, Collectors, Workers, Alive
<1>8. Cancelled'
  BY <1>1, <1>2 DEF Spawn, IInv, Cancelled, TypeOK
<1> QED BY <1>3, <1>5, <1>6, <1>7, <1>8 DEF IInv

LEMMA AcquireStep == ASSUME NEW w \in Workers, IInv, Acquire(w) PROVE IInv'
<1>1. g' = [g EXCEPT ![w] = "running"] /\ g[w] = "parked"
  BY DEF Acquire
<1>2. g \in [Workers -> {"unborn", "parked", "running", "released", "done", "skipped"}]
  BY DEF IInv, TypeOK
<1>3. TypeOK'
  BY <1>1, <1>2 DEF Acquire, IInv, TypeOK, work, inv
<1>4. Running' = Running \cup {w} /\ w \notin Running /\ Live' = Live
  BY <1>1, <1>2 DEF Running, Live, Alive
<1>5. Counts'
  <2>1. Cardinality(Running') = Cardinality(Running) + 1
    BY <1>4, CountAdd, CountedFinite
  <2> QED BY <2>1, <1>4, CapacityType DEF Acquire, IInv, TypeOK, Counts, Capacity
<1>6. Births' /\ Barrier' /\ Cancelled'
  BY <1>1, <1>2 DEF Acquire, IInv, Births, Barrier, Cancelled, Alive, work, Collectors, Workers
<1> QED BY <1>3, <1>5, <1>6 DEF IInv

LEMMA SkipStep == ASSUME NEW w \in Workers, IInv, Skip(w) PROVE IInv'
<1>1. g' = [g EXCEPT ![w] = "skipped"] /\ g[w] = "parked" /\ ctx = "cancelled" /\ ctx' = ctx
  BY DEF Skip
<1>2. g \in [Workers -> {"unborn", "parked", "running", "released", "done", "skipped"}]
  BY DEF IInv, TypeOK
<1>4. Running' = Running /\ w \in Live /\ Live' = Live \ {w}
  BY <1>1, <1>2 DEF Running, Live, Alive
<1>5. Cardinality(Live') = Cardinality(Live) - 1 /\ Cardinality(Live') \in Nat
  BY <1>4, CountRemove, CountedFinite, FS_RemoveElement, FS_CardinalityType
<1>6. Counts'
  BY <1>4, <1>5 DEF Skip, IInv, Counts, Capacity
<1>3. TypeOK'
  BY <1>1, <1>2, <1>5 DEF Skip, IInv, TypeOK, Counts, work, inv
<1>7. Births' /\ Barrier' /\ Cancelled'
  BY <1>1, <1>2 DEF Skip, IInv, Births, Barrier, Cancelled, Alive, work, Collectors, Workers
<1> QED BY <1>3, <1>6, <1>7 DEF IInv

LEMMA CallStep == ASSUME NEW w \in Workers, IInv, Call(w) PROVE IInv'
<1> DEFINE c == CHOOSE d \in todo[w] : \A e \in todo[w] : d <= e
<1>1. todo[w] \in SUBSET Calls /\ todo[w] # {}
  BY DEF Call, IInv, TypeOK
<1>2. PICK a \in Answers :
        /\ a = "cancelled" => ctx = "cancelled"
        /\ verdict' = [verdict EXCEPT ![c] = a]
        /\ todo' = [todo EXCEPT ![w] =
             IF a = "ok" THEN (@ \ {c}) \cup Reveals[c]
             ELSE IF Recoverable(a) THEN @ \ {c} ELSE {}]
        /\ found' = [found EXCEPT ![w] =
             IF a = "ok" THEN {[id |-> i, call |-> c] : i \in Yields[c]} ELSE {}]
        /\ trouble' = [trouble EXCEPT ![w] =
             IF a = "ok" THEN {} ELSE {WarningFor(c, a)}]
  BY DEF Call
<1>3. c \in Calls
  <2>1. \E d \in todo[w] : \A e \in todo[w] : d <= e
    BY <1>1, SmallestExists, CallAssumption
  <2> QED BY <2>1, <1>1
<1> HIDE DEF c
<1>4. UNCHANGED <<ctx, main, spawned, g, wg, sem, resources, warnings, partial, prior, outcome>>
  BY DEF Call, sync, inv
<1>5. TypeOK'
  <2>1. todo' \in [Workers -> SUBSET Calls]
    BY <1>1, <1>2, <1>3, CallAssumption DEF IInv, TypeOK
  <2>2. found' \in [Workers -> SUBSET Resources]
    <3>1. {[id |-> i, call |-> c] : i \in Yields[c]} \in SUBSET Resources
      BY <1>3, CallAssumption DEF Resources
    <3> QED BY <3>1, <1>2 DEF IInv, TypeOK
  <2>3. trouble' \in [Workers -> SUBSET Warnings]
    <3>1. WarningFor(c, a) \in Warnings
      BY <1>3, CallAssumption DEF WarningFor, Warnings
    <3> QED BY <3>1, <1>2 DEF IInv, TypeOK
  <2>4. verdict' \in [Calls -> Answers \cup {"unasked"}]
    BY <1>2 DEF IInv, TypeOK
  <2> QED BY <2>1, <2>2, <2>3, <2>4, <1>4 DEF IInv, TypeOK
<1>6. Counts' /\ Births' /\ Barrier'
  BY <1>4 DEF IInv, Counts, Births, Barrier, Running, Live, Alive
<1>7. Cancelled'
  <2>1. ctx' = "live" => \A d \in Calls : verdict'[d] # "cancelled"
    BY <1>2, <1>4 DEF IInv, TypeOK, Cancelled
  <2>2. g[w] = "running"
    BY DEF Call
  <2>3. ~(main = "assemble" \/ outcome = "inventory")
    BY <2>2 DEF IInv, Cancelled
  <2> QED BY <2>1, <2>3, <1>4 DEF IInv, Cancelled
<1> QED BY <1>5, <1>6, <1>7 DEF IInv

LEMMA EmitStep == ASSUME NEW w \in Workers, IInv, Emit(w) PROVE IInv'
<1>1. PICK r \in found[w] : /\ resources' = Append(resources, r)
                            /\ found' = [found EXCEPT ![w] = @ \ {r}]
  BY DEF Emit
<1>2. r \in Resources
  BY DEF IInv, TypeOK
<1>3. resources' \in Seq(Resources) /\ found' \in [Workers -> SUBSET Resources]
  BY <1>1, <1>2 DEF IInv, TypeOK
<1>4. TypeOK'
  BY <1>3 DEF Emit, IInv, TypeOK, sync
<1>5. Counts' /\ Births' /\ Barrier' /\ Cancelled'
  BY DEF Emit, sync, IInv, Counts, Births, Barrier, Cancelled, Running, Live, Alive
<1> QED BY <1>4, <1>5 DEF IInv

LEMMA WarnStep == ASSUME NEW w \in Workers, IInv, Warn(w) PROVE IInv'
<1>1. PICK x \in trouble[w] : /\ warnings' = Append(warnings, x)
                              /\ trouble' = [trouble EXCEPT ![w] = @ \ {x}]
  BY DEF Warn
<1>2. x \in Warnings
  BY DEF IInv, TypeOK
<1>3. warnings' \in Seq(Warnings) /\ trouble' \in [Workers -> SUBSET Warnings]
  BY <1>1, <1>2 DEF IInv, TypeOK
<1>4. TypeOK'
  BY <1>3 DEF Warn, IInv, TypeOK, sync
<1>5. Counts' /\ Births' /\ Barrier' /\ Cancelled'
  BY DEF Warn, sync, IInv, Counts, Births, Barrier, Cancelled, Running, Live, Alive
<1> QED BY <1>4, <1>5 DEF IInv

LEMMA ReleaseStep == ASSUME NEW w \in Workers, IInv, Release(w) PROVE IInv'
<1>1. g' = [g EXCEPT ![w] = "released"] /\ g[w] = "running"
  BY DEF Release
<1>2. g \in [Workers -> {"unborn", "parked", "running", "released", "done", "skipped"}]
  BY DEF IInv, TypeOK
<1>3. w \in Running /\ Running' = Running \ {w} /\ Live' = Live
  BY <1>1, <1>2 DEF Running, Live, Alive
<1>4. Cardinality(Running') = Cardinality(Running) - 1 /\ Cardinality(Running') \in Nat
  BY <1>3, CountRemove, CountedFinite, FS_RemoveElement, FS_CardinalityType
<1>5. Counts'
  <2>1. sem' = Cardinality(Running') /\ wg' = Cardinality(Live')
    BY <1>3, <1>4 DEF Release, IInv, Counts
  <2>2. sem' <= Capacity'
    BY <1>4, <2>1, CountedFinite, CapacityType DEF IInv, Counts, Capacity
  <2> QED BY <2>1, <2>2 DEF Counts
<1>6. TypeOK'
  BY <1>1, <1>2, <1>4 DEF Release, IInv, TypeOK, Counts, work, inv
<1>7. Births' /\ Barrier' /\ Cancelled'
  BY <1>1, <1>2 DEF Release, IInv, Births, Barrier, Cancelled, Alive, work, Collectors, Workers
<1> QED BY <1>5, <1>6, <1>7 DEF IInv

LEMMA FinishStep == ASSUME NEW w \in Workers, IInv, Finish(w) PROVE IInv'
<1>1. g' = [g EXCEPT ![w] = "done"] /\ g[w] = "released"
  BY DEF Finish
<1>2. g \in [Workers -> {"unborn", "parked", "running", "released", "done", "skipped"}]
  BY DEF IInv, TypeOK
<1>3. Running' = Running /\ w \in Live /\ Live' = Live \ {w}
  BY <1>1, <1>2 DEF Running, Live, Alive
<1>4. Cardinality(Live') = Cardinality(Live) - 1 /\ Cardinality(Live') \in Nat
  BY <1>3, CountRemove, CountedFinite, FS_RemoveElement, FS_CardinalityType
<1>5. Counts'
  BY <1>3, <1>4 DEF Finish, IInv, Counts, Capacity
<1>6. TypeOK'
  BY <1>1, <1>2, <1>4 DEF Finish, IInv, TypeOK, Counts, work, inv
<1>7. Births' /\ Barrier' /\ Cancelled'
  BY <1>1, <1>2 DEF Finish, IInv, Births, Barrier, Cancelled, Alive, work, Collectors, Workers
<1> QED BY <1>5, <1>6, <1>7 DEF IInv

LEMMA EndPhaseStep == IInv /\ EndPhase => IInv'
<1> SUFFICES ASSUME IInv, EndPhase PROVE IInv'
  OBVIOUS
<1> USE CountAssumption
<1>1. UNCHANGED <<ctx, spawned, g, wg, sem, todo, found, trouble, verdict, resources, warnings, partial>>
  BY DEF EndPhase, sync, work, inv
<1>2. Live = {}
  BY CountedFinite, FS_EmptySet DEF EndPhase, IInv, Counts
<1>3. \A w \in Workers : ~Alive(w)
  BY <1>2 DEF Live
<1>4. TypeOK'
  BY <1>1 DEF EndPhase, IInv, TypeOK
<1>5. Counts'
  BY <1>1 DEF IInv, Counts, Running, Live, Alive
<1>6. Births' /\ Barrier'
  BY <1>1, <1>3 DEF EndPhase, PhaseEnd, IInv, TypeOK, Births, Barrier, Alive, Collectors, Workers
<1>7. main' = "assemble" => \A w \in Workers : g[w] = "done"
  <2> SUFFICES ASSUME main' = "assemble", NEW w \in Workers PROVE g[w] = "done"
    OBVIOUS
  <2>1. ctx = "live" /\ spawned = NumCollectors + NumDependents
    BY DEF EndPhase, PhaseEnd, IInv, TypeOK
  <2>2. g[w] # "unborn"
    BY <2>1 DEF IInv, Births, Workers
  <2> QED BY <2>1, <2>2, <1>3 DEF IInv, TypeOK, Cancelled, Alive
<1>8. Cancelled'
  BY <1>1, <1>7 DEF EndPhase, IInv, TypeOK, Cancelled
<1> QED BY <1>4, <1>5, <1>6, <1>8 DEF IInv

LEMMA AssembleStep == IInv /\ Assemble => IInv'
<1> SUFFICES ASSUME IInv, Assemble PROVE IInv'
  OBVIOUS
<1>1. UNCHANGED <<ctx, spawned, g, wg, sem, todo, found, trouble, verdict, partial, prior>>
  BY DEF Assemble, sync, work
<1>2. resources' \in Seq(Resources)
  BY ResourceOrderStrict, StableSortType DEF Assemble, IInv, TypeOK
<1>3. warnings' \in Seq(Warnings)
  BY WarningOrderStrict, StableSortType DEF Assemble, IInv, TypeOK
<1>4. TypeOK'
  BY <1>1, <1>2, <1>3 DEF Assemble, IInv, TypeOK
<1>5. Counts' /\ Births' /\ Barrier' /\ Cancelled'
  BY <1>1 DEF Assemble, IInv, Counts, Births, Barrier, Cancelled, Running, Live, Alive
<1> QED BY <1>4, <1>5 DEF IInv

LEMMA OtherSteps == IInv /\ (Cancel \/ UNCHANGED vars) => IInv'
<1>1. ASSUME IInv, Cancel PROVE IInv'
  BY <1>1 DEF Cancel, sync, work, inv, IInv, TypeOK, Counts, Births, Barrier,
              Cancelled, Running, Live, Alive
<1>2. ASSUME IInv, UNCHANGED vars PROVE IInv'
  BY <1>2 DEF vars, sync, work, inv, IInv, TypeOK, Counts, Births, Barrier,
              Cancelled, Running, Live, Alive
<1> QED BY <1>1, <1>2

-----------------------------------------------------------------------------
(* The theorems.                                                           *)

\* Every reachable state satisfies the inductive invariant.
THEOREM Inductive == Spec => []IInv
<1>1. IInv /\ [Next]_vars => IInv'
  BY SpawnStep, AcquireStep, SkipStep, CallStep, EmitStep, WarnStep,
     ReleaseStep, FinishStep, EndPhaseStep, AssembleStep, OtherSteps
     DEF Next, Main, Step, Returned
<1> QED BY InitIInv, <1>1, PTL DEF Spec

\* Scan's state stays within its types: in particular no counter of the
\* semaphore or of the WaitGroup ever goes below zero.
THEOREM TypeCorrect == Spec => []TypeOK
<1>1. IInv => TypeOK
  BY DEF IInv
<1> QED BY <1>1, Inductive, PTL

\* At most Capacity collectors run at once, and the tokens in the channel are
\* theirs, for every number of collectors and every requested concurrency.
THEOREM ConcurrencyBounded == Spec => []BoundedConcurrency
<1>1. IInv => BoundedConcurrency
  BY DEF IInv, Counts, Running, BoundedConcurrency
<1> QED BY <1>1, Inductive, PTL

\* No dependent starts before every collector is through, and no goroutine is
\* left when Scan assembles or returns.
THEOREM PhasesSeparate == Spec => []PhaseBarrier
<1>1. IInv => PhaseBarrier
  <2> SUFFICES ASSUME IInv PROVE PhaseBarrier
    OBVIOUS
  <2>1. ASSUME NEW d \in Dependents, g[d] # "unborn"
        PROVE  \A w \in Collectors : ~Alive(w)
    <3>1. d \in Workers /\ Collectors \subseteq Workers /\ d > NumCollectors
      BY CountAssumption DEF Dependents, Workers, Collectors
    <3>2. spawned >= d
      BY <2>1, <3>1 DEF IInv, TypeOK, Births, Workers
    <3>3. main # "phase1"
      BY <3>1, <3>2, CountAssumption DEF IInv, TypeOK, Births, Workers
    <3> QED BY <3>1, <3>3 DEF IInv, TypeOK, Barrier
  <2>2. main \in {"assemble", "returned"} => \A w \in Workers : ~Alive(w)
    BY DEF IInv, Barrier
  <2> QED BY <2>1, <2>2 DEF PhaseBarrier, Alive
<1> QED BY <1>1, Inductive, PTL

\* A returned inventory misses nothing because of Ctrl-C: every collector ran
\* to its end and no call of any of them was cancelled.
THEOREM CancelNeverDegrades == Spec => []NothingLostToCancel
<1>1. IInv => NothingLostToCancel
  BY DEF IInv, Cancelled, NothingLostToCancel
<1> QED BY <1>1, Inductive, PTL

-----------------------------------------------------------------------------
(***************************************************************************)
(* What a scan returns, for every account: which calls are made, what is   *)
(* kept of their answers, and how gaps are admitted.                       *)
(***************************************************************************)
Elements(s) == {s[i] : i \in DOMAIN s}
Asked(c)    == verdict[c] # "unasked"
GaveUp(c)   == verdict[c] \in {"failed", "cancelled"}

\* Why a call is made: its collector starts with it, or an answer revealed it.
Due(c) ==
  \/ c \in Starts /\ Needs[c] \subseteq IdsOf(prior)
  \/ \E d \in Calls : verdict[d] = "ok" /\ c \in Reveals[d]

\* The second strengthening.  A goroutine has in hand what its place allows;
InHand ==
  \A w \in Workers :
    /\ g[w] \in {"unborn", "parked", "skipped"} =>
         /\ found[w] = {} /\ trouble[w] = {}
         /\ \A c \in Calls : Owner[c] = w => ~Asked(c)
    /\ g[w] \in {"released", "done"} => todo[w] = {} /\ found[w] = {} /\ trouble[w] = {}
    /\ g[w] = "unborn" => todo[w] = {}

\* it issues its calls in order, those that are due and no others, until one
\* makes it give up;
Issued ==
  /\ \A w \in Workers : \A c \in todo[w] :
       /\ Owner[c] = w /\ Due(c)
       /\ \A d \in Calls : Owner[d] = w /\ Asked(d) => d < c /\ ~GaveUp(d)
  /\ \A c \in Calls : Asked(c) =>
       /\ Due(c)
       /\ \A d \in Calls : Owner[d] = Owner[c] /\ GaveUp(d) => c <= d
  /\ \A c \in Calls : Due(c) /\ ~Asked(c) /\ g[Owner[c]] # "unborn" =>
       \/ c \in todo[Owner[c]]
       \/ \E d \in Calls : Owner[d] = Owner[c] /\ GaveUp(d) /\ d < c

\* no call is made that an account open to all would not have seen;
Closed(S) ==
  \A c \in Calls :
    \/ c \in S
    \/ /\ ~(c \in Starts /\ \A i \in Needs[c] :
              \E d \in S : Owner[d] \in Collectors /\ i \in Yields[d])
       /\ \A d \in S : c \notin Reveals[d]

Within ==
  \A S \in SUBSET Calls : Closed(S) =>
    /\ \A c \in Calls : Asked(c) => c \in S
    /\ \A w \in Workers : todo[w] \subseteq S

\* dependents are handed what the collectors' answers hold;
Handed ==
  /\ main = "phase1" => prior = <<>>
  /\ main = "phase2" \/ spawned > NumCollectors =>
       IdsOf(prior) = UNION {Yields[d] : d \in {e \in Calls : verdict[e] = "ok"
                                                              /\ Owner[e] \in Collectors}}

\* what was read is emitted or about to be, and what went wrong is told, once;
Read ==
  Elements(resources) \cup UNION {found[w] : w \in Workers} =
    {r \in Resources : verdict[r.call] = "ok" /\ r.id \in Yields[r.call]}

Told ==
  /\ Elements(warnings) \cup UNION {trouble[w] : w \in Workers} =
       {WarningFor(c, verdict[c]) : c \in {d \in Calls : verdict[d] \notin {"ok", "unasked"}}}
  /\ partial <=> warnings # <<>>
  /\ \A i, j \in DOMAIN warnings : i # j => warnings[i].message # warnings[j].message
  /\ \A w \in Workers : \A x \in trouble[w] :
       /\ x.service = w /\ trouble[w] = {x}
       /\ \A i \in DOMAIN warnings : warnings[i].message # x.message

\* and what is returned is sorted.
Sorted ==
  outcome = "inventory" =>
    /\ \A i, j \in DOMAIN resources : i < j => resources[i].id < resources[j].id
    /\ \A i, j \in DOMAIN warnings : i < j => WarningLess(warnings[i], warnings[j])

FlowInv == InHand /\ Issued /\ Within /\ Handed /\ Read /\ Told /\ Sorted
-----------------------------------------------------------------------------
LEMMA InitFlow == Init => FlowInv
<1> SUFFICES ASSUME Init PROVE FlowInv
  OBVIOUS
<1>1. InHand /\ Issued
  BY CallAssumption DEF Init, InHand, Issued, Asked, GaveUp, Due
<1>2. Within /\ Sorted
  BY DEF Init, Within, Sorted, Asked
<1>3. Handed
  BY CountAssumption DEF Init, Handed
<1>4. UNION {found[w] : w \in Workers} = {} /\ UNION {trouble[w] : w \in Workers} = {}
  BY DEF Init
<1>5. Elements(resources) = {} /\ Elements(warnings) = {}
  BY DEF Init, Elements
<1>6. Read
  BY <1>4, <1>5, CallAssumption DEF Init, Read, Resources
<1>7. Told
  BY <1>4, <1>5 DEF Init, Told
<1> QED BY <1>1, <1>2, <1>3, <1>6, <1>7 DEF FlowInv

\* A step that only moves goroutines keeps the books.
LEMMA BooksKept ==
  ASSUME FlowInv, UNCHANGED <<main, spawned, work, inv, prior, outcome>>,
         \A w \in Workers : g'[w] = "unborn" <=> g[w] = "unborn"
  PROVE  Issued' /\ Within' /\ Handed' /\ Read' /\ Told' /\ Sorted'
<1>0. Issued /\ Within /\ Handed /\ Read /\ Told /\ Sorted
  BY DEF FlowInv
<1>1. UNCHANGED <<main, spawned, todo, found, trouble, verdict, resources, warnings, partial,
                  prior, outcome>>
  BY DEF work, inv
<1>2. \A c \in Calls : /\ Due(c)' <=> Due(c)
                       /\ Asked(c)' <=> Asked(c)
                       /\ GaveUp(c)' <=> GaveUp(c)
  BY <1>1 DEF Due, Asked, GaveUp
<1>3. \A c \in Calls : Owner[c] \in Workers
  BY CallAssumption
<1>4. Issued'
  <2>1. \A w \in Workers : \A c \in todo[w] : c \in Calls => (Due(c)' <=> Due(c))
    BY <1>2
  <2> QED BY <1>0, <1>1, <1>2, <1>3, <2>1 DEF Issued, Due, Asked, GaveUp
<1>5. Within' /\ Handed'
  BY <1>0, <1>1 DEF Within, Handed, Asked
<1>6. Read' /\ Sorted'
  BY <1>0, <1>1 DEF Read, Sorted
<1>7. Told'
  BY <1>0, <1>1 DEF Told
<1> QED BY <1>4, <1>5, <1>6, <1>7

LEMMA MoveFlow ==
  ASSUME NEW w \in Workers, IInv, FlowInv,
         Acquire(w) \/ Skip(w) \/ Release(w) \/ Finish(w)
  PROVE  FlowInv'
<1>1. UNCHANGED <<main, spawned, work, inv, prior, outcome>>
  BY DEF Acquire, Skip, Release, Finish
<1>2. UNCHANGED <<todo, found, trouble, verdict>>
  BY <1>1 DEF work
<1>3. g \in [Workers -> {"unborn", "parked", "running", "released", "done", "skipped"}]
  BY DEF IInv, TypeOK
<1>4. \A v \in Workers : g'[v] = "unborn" <=> g[v] = "unborn"
  BY <1>3 DEF Acquire, Skip, Release, Finish
<1>5. InHand
  BY DEF FlowInv
<1>6. ASSUME NEW v \in Workers
      PROVE  /\ g'[v] \in {"unborn", "parked", "skipped"} => g[v] \in {"unborn", "parked", "skipped"}
             /\ g'[v] \in {"released", "done"} =>
                  \/ g[v] \in {"released", "done"}
                  \/ todo[v] = {} /\ found[v] = {} /\ trouble[v] = {}
             /\ g'[v] = "unborn" => g[v] = "unborn"
  <2>1. CASE v # w
    BY <1>3, <2>1 DEF Acquire, Skip, Release, Finish
  <2>2. CASE v = w
    BY <1>3, <2>2 DEF Acquire, Skip, Release, Finish
  <2> QED BY <2>1, <2>2
<1>7. InHand'
  BY <1>2, <1>5, <1>6 DEF InHand, Asked
<1> QED BY <1>1, <1>4, <1>7, BooksKept DEF FlowInv

LEMMA OtherFlow == ASSUME FlowInv, Cancel \/ UNCHANGED vars PROVE FlowInv'
<1>1. UNCHANGED <<main, spawned, g, work, inv, prior, outcome>>
  BY DEF Cancel, vars, sync
<1>2. InHand'
  BY <1>1 DEF FlowInv, InHand, work, Asked
<1> QED BY <1>1, <1>2, BooksKept DEF FlowInv

LEMMA SpawnFlow == ASSUME IInv, FlowInv, Spawn PROVE FlowInv'
<1> DEFINE w == spawned + 1
<1> USE CountAssumption
<1>0. InHand /\ Issued /\ Within /\ Handed /\ Read /\ Told /\ Sorted
  BY DEF FlowInv
<1>1. w \in Workers /\ g[w] = "unborn" /\ spawned < PhaseEnd /\ w \notin {x \in Nat : x <= spawned}
  BY DEF IInv, TypeOK, Births, Spawn, PhaseEnd, Workers
<1>2. /\ UNCHANGED <<ctx, main, sem, found, trouble, verdict, resources, warnings, partial,
                     prior, outcome>>
      /\ spawned' = w
  BY DEF Spawn, inv
<1>3. /\ g' = [g EXCEPT ![w] = "parked"]
      /\ g \in [Workers -> {"unborn", "parked", "running", "released", "done", "skipped"}]
      /\ todo' = [todo EXCEPT ![w] =
                   {c \in Starts : Owner[c] = w /\ Needs[c] \subseteq IdsOf(prior)}]
      /\ todo \in [Workers -> SUBSET Calls]
  BY DEF Spawn, IInv, TypeOK
<1>4. \A c \in Calls : /\ Due(c)' <=> Due(c)
                       /\ Asked(c)' <=> Asked(c)
                       /\ GaveUp(c)' <=> GaveUp(c)
  BY <1>2 DEF Due, Asked, GaveUp
<1>5. /\ \A v \in Workers : v # w => todo'[v] = todo[v] /\ g'[v] = g[v]
      /\ todo'[w] = {c \in Starts : Owner[c] = w /\ Needs[c] \subseteq IdsOf(prior)}
      /\ g'[w] = "parked"
  BY <1>1, <1>3
<1>6. \A c \in Calls : Owner[c] = w => ~Asked(c)
  BY <1>0, <1>1 DEF InHand
<1> HIDE DEF w
<1>7. InHand'
  BY <1>0, <1>1, <1>2, <1>4, <1>5 DEF InHand
<1>8. Issued'
  <2>1. ASSUME NEW v \in Workers, NEW c \in todo'[v]
        PROVE  /\ Owner[c] = v /\ Due(c)' /\ c \in Calls
               /\ \A d \in Calls : Owner[d] = v /\ Asked(d)' => d < c /\ ~GaveUp(d)'
    <3>1. CASE v = w
      <4>1. c \in Starts /\ Owner[c] = w /\ Needs[c] \subseteq IdsOf(prior) /\ c \in Calls
        BY <1>5, <2>1, <3>1, CallAssumption
      <4>2. Due(c)'
        BY <1>2, <4>1 DEF Due
      <4> QED BY <1>4, <1>6, <3>1, <4>1, <4>2
    <3>2. CASE v # w
      <4>1. c \in todo[v] /\ c \in Calls
        BY <1>3, <1>5, <2>1, <3>2
      <4> QED BY <1>0, <1>4, <4>1 DEF Issued
    <3> QED BY <3>1, <3>2
  <2>2. \A c \in Calls : Asked(c)' =>
          /\ Due(c)'
          /\ \A d \in Calls : Owner[d] = Owner[c] /\ GaveUp(d)' => c <= d
    BY <1>0, <1>4 DEF Issued
  <2>3. ASSUME NEW c \in Calls, Due(c)', ~Asked(c)', g'[Owner[c]] # "unborn"
        PROVE  \/ c \in todo'[Owner[c]]
               \/ \E d \in Calls : Owner[d] = Owner[c] /\ GaveUp(d)' /\ d < c
    <3>1. CASE Owner[c] = w
      <4>1. Due(c)
        BY <1>4, <2>3
      <4>2. CASE c \in Starts /\ Needs[c] \subseteq IdsOf(prior)
        BY <1>5, <3>1, <4>2
      <4>3. ASSUME NEW d \in Calls, verdict[d] = "ok", c \in Reveals[d] PROVE FALSE
        <5>1. Owner[d] = w
          BY <3>1, <4>3, OrderAssumption
        <5> QED BY <1>6, <4>3, <5>1 DEF Asked
      <4> QED BY <4>1, <4>2, <4>3 DEF Due
    <3>2. CASE Owner[c] # w
      <4>1. Owner[c] \in Workers
        BY CallAssumption
      <4> QED BY <1>0, <1>4, <1>5, <2>3, <3>2, <4>1 DEF Issued
    <3> QED BY <3>1, <3>2
  <2> QED BY <2>1, <2>2, <2>3 DEF Issued
<1>9. w > NumCollectors => main = "phase2"
  BY <1>1 DEF w, PhaseEnd, Spawn, IInv, TypeOK
<1>10. Within'
  <2> SUFFICES ASSUME NEW S \in SUBSET Calls, Closed(S)
               PROVE  /\ \A c \in Calls : Asked(c)' => c \in S
                      /\ \A v \in Workers : todo'[v] \subseteq S
    BY DEF Within, Closed
  <2>1. /\ \A c \in Calls : Asked(c) => c \in S
        /\ \A v \in Workers : todo[v] \subseteq S
    BY <1>0 DEF Within
  <2>2. ASSUME NEW c \in todo'[w] PROVE c \in S
    <3>1. c \in Starts /\ Owner[c] = w /\ Needs[c] \subseteq IdsOf(prior) /\ c \in Calls
      BY <1>5, CallAssumption
    <3>2. CASE Needs[c] = {}
      BY <3>1, <3>2 DEF Closed
    <3>3. CASE Needs[c] # {}
      <4>1. w \in Dependents
        BY <3>1, <3>3, OrderAssumption
      <4>2. main = "phase2"
        BY <1>9, <4>1 DEF Dependents
      <4>3. \A i \in Needs[c] : \E d \in Calls :
               verdict[d] = "ok" /\ Owner[d] \in Collectors /\ i \in Yields[d]
        BY <1>0, <3>1, <4>2 DEF Handed
      <4>4. \A i \in Needs[c] : \E d \in S : Owner[d] \in Collectors /\ i \in Yields[d]
        BY <2>1, <4>3 DEF Asked
      <4> QED BY <3>1, <4>4 DEF Closed
    <3> QED BY <3>2, <3>3
  <2> QED BY <1>4, <1>5, <2>1, <2>2
<1>11. Handed'
  <2>1. spawned' > NumCollectors => main = "phase2"
    BY <1>2, <1>9
  <2> QED BY <1>0, <1>2, <2>1 DEF Handed
<1>12. Read' /\ Sorted'
  BY <1>0, <1>2 DEF Read, Sorted
<1>13. Told'
  <2>1. UNCHANGED <<trouble, verdict, warnings, partial>>
    BY <1>2
  <2> QED BY <1>0, <2>1 DEF Told
<1> QED BY <1>7, <1>8, <1>10, <1>11, <1>12, <1>13 DEF FlowInv
\* What a call changes, said once for the parts below.
LEMMA CallChanges ==
  ASSUME NEW w \in Workers, IInv, FlowInv, Call(w)
  PROVE  \E c \in todo[w], a \in Answers :
           /\ c \in Calls /\ Owner[c] = w /\ Due(c) /\ ~Asked(c)
           /\ \A e \in todo[w] : c <= e
           /\ verdict' = [verdict EXCEPT ![c] = a]
           /\ \A v \in Workers : v # w => /\ todo'[v] = todo[v]
                                          /\ found'[v] = found[v]
                                          /\ trouble'[v] = trouble[v]
           /\ todo'[w] = IF a = "ok" THEN (todo[w] \ {c}) \cup Reveals[c]
                         ELSE IF Recoverable(a) THEN todo[w] \ {c} ELSE {}
           /\ found'[w] = IF a = "ok" THEN {[id |-> i, call |-> c] : i \in Yields[c]} ELSE {}
           /\ trouble'[w] = IF a = "ok" THEN {} ELSE {WarningFor(c, a)}
<1> DEFINE c == CHOOSE d \in todo[w] : \A e \in todo[w] : d <= e
<1>1. todo[w] \in SUBSET Calls /\ todo[w] # {}
  BY DEF Call, IInv, TypeOK
<1>2. c \in todo[w] /\ \A e \in todo[w] : c <= e
  <2>1. \E d \in todo[w] : \A e \in todo[w] : d <= e
    BY <1>1, SmallestExists, CallAssumption
  <2> QED BY <2>1
<1>3. PICK a \in Answers :
        /\ verdict' = [verdict EXCEPT ![c] = a]
        /\ todo' = [todo EXCEPT ![w] =
             IF a = "ok" THEN (@ \ {c}) \cup Reveals[c]
             ELSE IF Recoverable(a) THEN @ \ {c} ELSE {}]
        /\ found' = [found EXCEPT ![w] =
             IF a = "ok" THEN {[id |-> i, call |-> c] : i \in Yields[c]} ELSE {}]
        /\ trouble' = [trouble EXCEPT ![w] =
             IF a = "ok" THEN {} ELSE {WarningFor(c, a)}]
  BY DEF Call
<1> HIDE DEF c
<1>4. c \in Calls /\ c \in Nat
  BY <1>1, <1>2, CallAssumption
<1>5. Owner[c] = w /\ Due(c) /\ ~Asked(c)
  <2>1. Owner[c] = w /\ Due(c) /\ \A d \in Calls : Owner[d] = w /\ Asked(d) => d < c
    BY <1>2 DEF FlowInv, Issued
  <2> QED BY <1>4, <2>1
<1>6. /\ todo \in [Workers -> SUBSET Calls]
      /\ found \in [Workers -> SUBSET Resources]
      /\ trouble \in [Workers -> SUBSET Warnings]
  BY DEF IInv, TypeOK
<1>7. /\ \A v \in Workers : v # w => /\ todo'[v] = todo[v]
                                     /\ found'[v] = found[v]
                                     /\ trouble'[v] = trouble[v]
      /\ todo'[w] = IF a = "ok" THEN (todo[w] \ {c}) \cup Reveals[c]
                    ELSE IF Recoverable(a) THEN todo[w] \ {c} ELSE {}
      /\ found'[w] = IF a = "ok" THEN {[id |-> i, call |-> c] : i \in Yields[c]} ELSE {}
      /\ trouble'[w] = IF a = "ok" THEN {} ELSE {WarningFor(c, a)}
  BY <1>3, <1>6
<1> QED BY <1>2, <1>3, <1>4, <1>5, <1>7

LEMMA CallFlow == ASSUME NEW w \in Workers, IInv, FlowInv, Call(w) PROVE FlowInv'
<1>0. InHand /\ Issued /\ Within /\ Handed /\ Read /\ Told
  BY DEF FlowInv
<1>1. PICK c \in todo[w], a \in Answers :
           /\ c \in Calls /\ Owner[c] = w /\ Due(c) /\ ~Asked(c)
           /\ \A e \in todo[w] : c <= e
           /\ verdict' = [verdict EXCEPT ![c] = a]
           /\ \A v \in Workers : v # w => /\ todo'[v] = todo[v]
                                          /\ found'[v] = found[v]
                                          /\ trouble'[v] = trouble[v]
           /\ todo'[w] = IF a = "ok" THEN (todo[w] \ {c}) \cup Reveals[c]
                         ELSE IF Recoverable(a) THEN todo[w] \ {c} ELSE {}
           /\ found'[w] = IF a = "ok" THEN {[id |-> i, call |-> c] : i \in Yields[c]} ELSE {}
           /\ trouble'[w] = IF a = "ok" THEN {} ELSE {WarningFor(c, a)}
  BY CallChanges
<1>2. UNCHANGED <<ctx, main, spawned, g, wg, sem, resources, warnings, partial, prior, outcome>>
  BY DEF Call, sync, inv
<1>3. /\ g[w] = "running" /\ found[w] = {} /\ trouble[w] = {}
      /\ a \in {"ok", "denied", "unsupported", "cancelled", "failed"}
      /\ verdict \in [Calls -> Answers \cup {"unasked"}]
      /\ todo \in [Workers -> SUBSET Calls]
      /\ \A d \in Calls : d \in Nat /\ Owner[d] \in Workers /\ Reveals[d] \subseteq Calls
  BY CallAssumption DEF Call, Answers, IInv, TypeOK
<1>4. /\ verdict'[c] = a
      /\ \A d \in Calls : d # c => verdict'[d] = verdict[d]
      /\ \A d \in Calls : Asked(d)' <=> Asked(d) \/ d = c
  BY <1>1, <1>3 DEF Asked
<1>5. \A d \in Calls : GaveUp(d)' <=> GaveUp(d) \/ (d = c /\ a \in {"failed", "cancelled"})
  BY <1>1, <1>3, <1>4 DEF GaveUp, Asked
<1>6. \A d \in Calls : Due(d)' <=> Due(d) \/ (a = "ok" /\ d \in Reveals[c])
  <2>1. \A e \in Calls : verdict'[e] = "ok" <=> verdict[e] = "ok" \/ (e = c /\ a = "ok")
    BY <1>1, <1>4 DEF Asked
  <2> QED BY <1>1, <1>2, <2>1 DEF Due
<1>7. \A e \in Reveals[c] : e \in Calls /\ e > c /\ Owner[e] = w
  BY <1>1, <1>3, OrderAssumption
<1>8. \A d \in Calls : Owner[d] = w /\ Asked(d) => d < c /\ ~GaveUp(d)
  BY <1>0, <1>1 DEF Issued
<1>9. Recoverable(a) <=> a \in {"denied", "unsupported"}
  BY DEF Recoverable
<1>10. InHand'
  <2>1. \A v \in Workers : g'[v] \in {"unborn", "parked", "skipped", "released", "done"} => v # w
    BY <1>2, <1>3
  <2> QED BY <1>0, <1>1, <1>2, <1>4, <2>1 DEF InHand
<1>11. Issued'
  <2>1. ASSUME NEW v \in Workers, NEW e \in todo'[v]
        PROVE  /\ Owner[e] = v /\ Due(e)'
               /\ \A d \in Calls : Owner[d] = v /\ Asked(d)' => d < e /\ ~GaveUp(d)'
    <3>1. CASE v # w
      <4>1. e \in todo[v] /\ e \in Calls
        BY <1>1, <1>3, <2>1, <3>1
      <4>2. /\ Owner[e] = v /\ Due(e)
            /\ \A d \in Calls : Owner[d] = v /\ Asked(d) => d < e /\ ~GaveUp(d)
        BY <1>0, <4>1 DEF Issued
      <4>3. \A d \in Calls : Owner[d] = v => d # c
        BY <1>1, <3>1
      <4> QED BY <1>4, <1>5, <1>6, <4>1, <4>2, <4>3
    <3>2. CASE v = w
      <4>1. a \notin {"failed", "cancelled"}
        BY <1>1, <1>3, <1>9, <2>1, <3>2
      <4>2. \/ e \in todo[w] /\ e # c
            \/ a = "ok" /\ e \in Reveals[c]
        BY <1>1, <1>3, <1>9, <2>1, <3>2
      <4>3. e \in Calls /\ e > c /\ Owner[e] = w /\ Due(e)'
        <5>1. CASE e \in todo[w] /\ e # c
          <6>1. e \in Calls /\ Owner[e] = w /\ Due(e) /\ c <= e
            BY <1>0, <1>1, <1>3, <5>1 DEF Issued
          <6> QED BY <1>1, <1>3, <1>6, <5>1, <6>1
        <5>2. CASE a = "ok" /\ e \in Reveals[c]
          BY <1>6, <1>7, <5>2
        <5> QED BY <4>2, <5>1, <5>2
      <4>4. \A d \in Calls : Owner[d] = w /\ Asked(d)' => d <= c /\ ~GaveUp(d)'
        <5>1. ~GaveUp(c)
          BY <1>1 DEF GaveUp, Asked
        <5> QED BY <1>3, <1>4, <1>5, <1>8, <4>1, <5>1
      <4> QED BY <1>1, <1>3, <3>2, <4>3, <4>4
    <3> QED BY <3>1, <3>2
  <2>2. ASSUME NEW e \in Calls, Asked(e)'
        PROVE  /\ Due(e)'
               /\ \A d \in Calls : Owner[d] = Owner[e] /\ GaveUp(d)' => e <= d
    <3>1. CASE e = c
      <4>1. \A d \in Calls : GaveUp(d) => Asked(d)
        BY DEF GaveUp, Asked
      <4> QED BY <1>1, <1>3, <1>5, <1>6, <1>8, <3>1, <4>1
    <3>2. CASE e # c
      <4>1. Asked(e)
        BY <1>4, <2>2, <3>2
      <4>2. Due(e) /\ \A d \in Calls : Owner[d] = Owner[e] /\ GaveUp(d) => e <= d
        BY <1>0, <4>1 DEF Issued
      <4>3. Owner[e] = w => e <= c
        BY <1>1, <1>3, <1>8, <4>1
      <4> QED BY <1>1, <1>5, <1>6, <4>2, <4>3
    <3> QED BY <3>1, <3>2
  <2>3. ASSUME NEW e \in Calls, Due(e)', ~Asked(e)', g'[Owner[e]] # "unborn"
        PROVE  \/ e \in todo'[Owner[e]]
               \/ \E d \in Calls : Owner[d] = Owner[e] /\ GaveUp(d)' /\ d < e
    <3>1. ~Asked(e) /\ e # c /\ g[Owner[e]] # "unborn"
      BY <1>2, <1>4, <2>3
    <3>2. CASE Due(e)
      <4>1. \/ e \in todo[Owner[e]]
            \/ \E d \in Calls : Owner[d] = Owner[e] /\ GaveUp(d) /\ d < e
        BY <1>0, <3>1, <3>2 DEF Issued
      <4>2. CASE \E d \in Calls : Owner[d] = Owner[e] /\ GaveUp(d) /\ d < e
        BY <1>5, <4>2
      <4>3. CASE e \in todo[Owner[e]] /\ Owner[e] # w
        BY <1>1, <1>3, <4>3
      <4>4. CASE e \in todo[Owner[e]] /\ Owner[e] = w
        <5>1. c < e
          BY <1>1, <1>3, <3>1, <4>4
        <5>2. CASE a \in {"failed", "cancelled"}
          BY <1>1, <1>5, <4>4, <5>1, <5>2
        <5>3. CASE a \notin {"failed", "cancelled"}
          BY <1>1, <1>3, <1>9, <3>1, <4>4, <5>3
        <5> QED BY <5>2, <5>3
      <4> QED BY <4>1, <4>2, <4>3, <4>4
    <3>3. CASE a = "ok" /\ e \in Reveals[c]
      BY <1>1, <1>7, <3>3
    <3> QED BY <1>6, <2>3, <3>2, <3>3
  <2> QED BY <2>1, <2>2, <2>3 DEF Issued
<1>12. Within'
  <2> SUFFICES ASSUME NEW S \in SUBSET Calls, Closed(S)
               PROVE  /\ \A d \in Calls : Asked(d)' => d \in S
                      /\ \A v \in Workers : todo'[v] \subseteq S
    BY DEF Within, Closed
  <2>1. /\ \A d \in Calls : Asked(d) => d \in S
        /\ \A v \in Workers : todo[v] \subseteq S
    BY <1>0 DEF Within
  <2>2. c \in S
    BY <1>1, <2>1
  <2>3. Reveals[c] \subseteq S
    BY <1>7, <2>2 DEF Closed
  <2>4. todo'[w] \subseteq todo[w] \cup Reveals[c]
    BY <1>1
  <2> QED BY <1>1, <1>4, <2>1, <2>2, <2>3, <2>4
<1>13. Handed'
  <2>1. ASSUME main = "phase2" \/ spawned > NumCollectors PROVE w \notin Collectors
    BY <1>3, <2>1, CountAssumption DEF IInv, TypeOK, Births, Barrier, Alive
  <2>2. ASSUME main = "phase2" \/ spawned > NumCollectors
        PROVE  {e \in Calls : verdict'[e] = "ok" /\ Owner[e] \in Collectors} =
                 {e \in Calls : verdict[e] = "ok" /\ Owner[e] \in Collectors}
    BY <1>1, <1>4, <2>1, <2>2
  <2> QED BY <1>0, <1>2, <2>2 DEF Handed
<1>14. Read'
  <2>1. UNION {found'[v] : v \in Workers} = (UNION {found[v] : v \in Workers}) \cup found'[w]
    BY <1>1, <1>3
  <2>2. {r \in Resources : verdict'[r.call] = "ok" /\ r.id \in Yields[r.call]} =
          {r \in Resources : verdict[r.call] = "ok" /\ r.id \in Yields[r.call]} \cup found'[w]
    <3>1. \A r \in Resources : r.call \in Calls /\ r.id \in Ids
      BY DEF Resources
    <3>2. \A r \in Resources : verdict[r.call] = "ok" => r.call # c
      BY <1>1 DEF Asked
    <3>3. \A r \in Resources : r.call = c => r = [id |-> r.id, call |-> c]
      BY DEF Resources
    <3>4. Yields[c] \subseteq Ids
      BY <1>1, CallAssumption
    <3>5. CASE a = "ok"
      <4>1. found'[w] = {[id |-> i, call |-> c] : i \in Yields[c]}
        BY <1>1, <3>5
      <4>2. \A r \in found'[w] : r \in Resources /\ r.call = c /\ r.id \in Yields[c]
        BY <1>1, <3>4, <4>1 DEF Resources
      <4>3. \A r \in Resources : r.call = c /\ r.id \in Yields[c] => r \in found'[w]
        BY <3>3, <4>1
      <4> QED BY <1>4, <3>1, <3>2, <3>5, <4>2, <4>3
    <3>6. CASE a # "ok"
      <4>1. found'[w] = {}
        BY <1>1, <3>6
      <4> QED BY <1>4, <3>1, <3>2, <3>6, <4>1
    <3> QED BY <3>5, <3>6
  <2> QED BY <1>0, <1>2, <2>1, <2>2 DEF Read
<1>15. Told'
  <2> DEFINE Bad     == {d \in Calls : verdict[d] \notin {"ok", "unasked"}}
             NowBad  == {d \in Calls : verdict'[d] \notin {"ok", "unasked"}}
             Said    == {WarningFor(d, verdict[d]) : d \in Bad}
             NowSaid == {WarningFor(d, verdict'[d]) : d \in NowBad}
  <2>1. UNION {trouble'[v] : v \in Workers} = (UNION {trouble[v] : v \in Workers}) \cup trouble'[w]
    BY <1>1, <1>3
  <2>2. NowSaid = Said \cup trouble'[w]
    <3>1. \A d \in Bad : d # c
      BY <1>1 DEF Asked
    <3>2. CASE a = "ok"
      <4>1. NowBad = Bad /\ trouble'[w] = {}
        BY <1>1, <1>4, <3>1, <3>2
      <4>2. \A d \in Bad : verdict'[d] = verdict[d]
        BY <1>4, <3>1
      <4> QED BY <4>1, <4>2
    <3>3. CASE a # "ok"
      <4>1. NowBad = Bad \cup {c} /\ trouble'[w] = {WarningFor(c, a)} /\ verdict'[c] = a
        BY <1>1, <1>3, <1>4, <3>1, <3>3
      <4>2. \A d \in Bad : verdict'[d] = verdict[d]
        BY <1>4, <3>1
      <4> QED BY <4>1, <4>2
    <3> QED BY <3>2, <3>3
  <2>3. Elements(warnings) \cup UNION {trouble[v] : v \in Workers} = Said
    BY <1>0 DEF Told
  <2>4. Elements(warnings) \cup UNION {trouble'[v] : v \in Workers} = NowSaid
    BY <2>1, <2>2, <2>3
  <2>5. \A i \in DOMAIN warnings : warnings[i].message # c
    <3>1. \A x \in Said : x.message \in Bad
      BY DEF WarningFor
    <3>2. \A i \in DOMAIN warnings : warnings[i] \in Said
      BY <2>3 DEF Elements
    <3>3. c \notin Bad
      BY <1>1 DEF Asked
    <3> QED BY <3>1, <3>2, <3>3
  <2>6. ASSUME NEW v \in Workers, NEW x \in trouble'[v]
        PROVE  /\ x.service = v /\ trouble'[v] = {x}
               /\ \A i \in DOMAIN warnings : warnings[i].message # x.message
    <3>1. CASE v # w
      BY <1>0, <1>1, <2>6, <3>1 DEF Told
    <3>2. CASE v = w
      <4>1. x = WarningFor(c, a) /\ trouble'[w] = {x}
        BY <1>1, <2>6, <3>2
      <4>2. x.service = w /\ x.message = c
        BY <1>1, <4>1 DEF WarningFor
      <4> QED BY <2>5, <3>2, <4>1, <4>2
    <3> QED BY <3>1, <3>2
  <2> HIDE DEF Said
  <2>7. /\ partial <=> warnings # <<>>
        /\ \A i, j \in DOMAIN warnings : i # j => warnings[i].message # warnings[j].message
    BY <1>0 DEF Told
  <2> QED BY <1>2, <2>4, <2>6, <2>7 DEF Told
<1>16. Sorted'
  BY <1>2, <1>3 DEF Sorted, IInv, Cancelled
<1> QED BY <1>10, <1>11, <1>12, <1>13, <1>14, <1>15, <1>16 DEF FlowInv
LEMMA AppendElements ==
  ASSUME NEW S, NEW s \in Seq(S), NEW x \in S
  PROVE  /\ Elements(Append(s, x)) = Elements(s) \cup {x}
         /\ Append(s, x) # <<>>
         /\ DOMAIN Append(s, x) = (DOMAIN s) \cup {Len(s) + 1}
         /\ Append(s, x)[Len(s) + 1] = x
         /\ \A i \in DOMAIN s : i # Len(s) + 1 /\ Append(s, x)[i] = s[i]
<1>1. PICK n \in Nat : n = Len(s) /\ DOMAIN s = 1..n
  OBVIOUS
<1>2. DOMAIN Append(s, x) = 1..(n + 1) /\ Append(s, x) # <<>>
  BY <1>1
<1>3. 1..(n + 1) = (1..n) \cup {n + 1} /\ n + 1 \notin 1..n
  BY <1>1
<1>4. Append(s, x)[n + 1] = x /\ \A i \in 1..n : Append(s, x)[i] = s[i]
  BY <1>1
<1> DEFINE t == Append(s, x)
<1> HIDE DEF t
<1>5. Elements(t) = Elements(s) \cup {x}
  BY <1>1, <1>2, <1>3, <1>4 DEF Elements, t
<1> QED BY <1>1, <1>2, <1>3, <1>4, <1>5 DEF t

\* What a goroutine emits or records leaves the calls alone.
LEMMA CallsKept ==
  ASSUME FlowInv, UNCHANGED <<main, spawned, g, todo, verdict, prior>>
  PROVE  Issued' /\ Within' /\ Handed'
<1>0. Issued /\ Within /\ Handed
  BY DEF FlowInv
<1>1. \A c : /\ Due(c)' <=> Due(c)
             /\ Asked(c)' <=> Asked(c)
             /\ GaveUp(c)' <=> GaveUp(c)
  BY DEF Due, Asked, GaveUp
<1>2. Issued'
  BY <1>0, <1>1 DEF Issued
<1>3. Within' /\ Handed'
  BY <1>0 DEF Within, Handed, Asked
<1> QED BY <1>2, <1>3

LEMMA EmitFlow == ASSUME NEW w \in Workers, IInv, FlowInv, Emit(w) PROVE FlowInv'
<1>0. InHand /\ Read /\ Told
  BY DEF FlowInv
<1>1. PICK r \in found[w] : /\ resources' = Append(resources, r)
                            /\ found' = [found EXCEPT ![w] = @ \ {r}]
  BY DEF Emit
<1>2. /\ g[w] = "running"
      /\ UNCHANGED <<ctx, main, spawned, g, wg, sem, todo, trouble, verdict,
                     warnings, partial, prior, outcome>>
  BY DEF Emit, sync
<1>3. found \in [Workers -> SUBSET Resources] /\ resources \in Seq(Resources) /\ r \in Resources
  BY DEF IInv, TypeOK
<1>4. InHand'
  <2>1. \A v \in Workers : v # w => found'[v] = found[v]
    BY <1>1, <1>3
  <2>2. \A v \in Workers : g'[v] \in {"unborn", "parked", "skipped", "released", "done"} => v # w
    BY <1>2
  <2> QED BY <1>0, <1>2, <2>1, <2>2 DEF InHand, Asked
<1>5. Issued' /\ Within' /\ Handed'
  BY <1>2, CallsKept
<1>6. Read'
  <2>1. Elements(resources') = Elements(resources) \cup {r}
    BY <1>1, <1>3, AppendElements
  <2>2. \A v \in Workers : v # w => found'[v] = found[v]
    BY <1>1, <1>3
  <2>3. found'[w] = found[w] \ {r}
    BY <1>1, <1>3
  <2>4. (UNION {found'[v] : v \in Workers}) \cup {r} = UNION {found[v] : v \in Workers}
    BY <1>1, <2>2, <2>3
  <2> QED BY <1>0, <1>2, <2>1, <2>4 DEF Read
<1>7. Told'
  <2>1. UNCHANGED <<trouble, verdict, warnings, partial>>
    BY <1>2
  <2> QED BY <1>0, <2>1 DEF Told
<1>8. Sorted'
  BY <1>2 DEF Sorted, IInv, Cancelled
<1> QED BY <1>4, <1>5, <1>6, <1>7, <1>8 DEF FlowInv

LEMMA WarnFlow == ASSUME NEW w \in Workers, IInv, FlowInv, Warn(w) PROVE FlowInv'
<1>0. InHand /\ Read /\ Told
  BY DEF FlowInv
<1>1. PICK x \in trouble[w] : /\ warnings' = Append(warnings, x)
                              /\ trouble' = [trouble EXCEPT ![w] = @ \ {x}]
  BY DEF Warn
<1>2. /\ g[w] = "running" /\ partial' = TRUE
      /\ UNCHANGED <<ctx, main, spawned, g, wg, sem, todo, found, verdict,
                     resources, prior, outcome>>
  BY DEF Warn, sync
<1>3. trouble \in [Workers -> SUBSET Warnings] /\ warnings \in Seq(Warnings) /\ x \in Warnings
  BY DEF IInv, TypeOK
<1>9. /\ \A v \in Workers : v # w => trouble'[v] = trouble[v]
      /\ trouble'[w] = trouble[w] \ {x}
  BY <1>1, <1>3
<1>4. InHand'
  <2>1. \A v \in Workers : g'[v] \in {"unborn", "parked", "skipped", "released", "done"} => v # w
    BY <1>2
  <2> QED BY <1>0, <1>2, <1>9, <2>1 DEF InHand, Asked
<1>5. Issued' /\ Within' /\ Handed'
  BY <1>2, CallsKept
<1>6. Read'
  BY <1>0, <1>2 DEF Read
<1>7. Told'
  <2> DEFINE Said == {WarningFor(c, verdict[c]) : c \in {d \in Calls : verdict[d] \notin {"ok", "unasked"}}}
  <2>1. /\ Elements(warnings') = Elements(warnings) \cup {x}
        /\ warnings' # <<>>
        /\ DOMAIN warnings' = (DOMAIN warnings) \cup {Len(warnings) + 1}
        /\ warnings'[Len(warnings) + 1] = x
        /\ \A i \in DOMAIN warnings : i # Len(warnings) + 1 /\ warnings'[i] = warnings[i]
    BY <1>1, <1>3, AppendElements
  <2>2. (UNION {trouble'[v] : v \in Workers}) \cup {x} = UNION {trouble[v] : v \in Workers}
    BY <1>1, <1>9
  <2>3. /\ Elements(warnings) \cup (UNION {trouble[v] : v \in Workers}) = Said
        /\ \A i, j \in DOMAIN warnings : i # j => warnings[i].message # warnings[j].message
        /\ \A v \in Workers : \A y \in trouble[v] :
             /\ y.service = v /\ trouble[v] = {y}
             /\ \A i \in DOMAIN warnings : warnings[i].message # y.message
    BY <1>0 DEF Told
  <2>4. \A y \in Said : y.service = Owner[y.message]
    BY DEF WarningFor
  <2> HIDE DEF Said
  <2>5. Elements(warnings') \cup (UNION {trouble'[v] : v \in Workers}) = Said
    BY <2>1, <2>2, <2>3
  <2>6. \A i, j \in DOMAIN warnings' : i # j => warnings'[i].message # warnings'[j].message
    BY <1>1, <2>1, <2>3
  <2>7. ASSUME NEW v \in Workers, NEW y \in trouble'[v]
        PROVE  /\ y.service = v /\ trouble'[v] = {y}
               /\ \A i \in DOMAIN warnings' : warnings'[i].message # y.message
    <3>1. v # w
      BY <1>1, <1>9, <2>3, <2>7
    <3>2. y \in trouble[v] /\ trouble'[v] = trouble[v]
      BY <1>9, <2>7, <3>1
    <3>3. y \in Said /\ x \in Said
      BY <1>1, <2>3, <3>2
    <3>4. y.service = v /\ x.service = w
      BY <1>1, <2>3, <3>2
    <3>5. x.message # y.message
      BY <2>4, <3>1, <3>3, <3>4
    <3> QED BY <2>1, <2>3, <3>2, <3>5
  <2> QED BY <1>2, <2>1, <2>5, <2>6, <2>7 DEF Told, Said
<1>8. Sorted'
  BY <1>2 DEF Sorted, IInv, Cancelled
<1> QED BY <1>4, <1>5, <1>6, <1>7, <1>8 DEF FlowInv

\* Once every collector is through, what was emitted is what they were told.
LEMMA HandedOver ==
  ASSUME IInv, FlowInv, ctx = "live", main = "phase1", spawned = NumCollectors, Live = {}
  PROVE  IdsOf(resources) =
           UNION {Yields[d] : d \in {e \in Calls : verdict[e] = "ok" /\ Owner[e] \in Collectors}}
<1>1. \A w \in Workers : g[w] \in {"unborn", "done"}
  BY DEF IInv, TypeOK, Cancelled, Live, Alive
<1>2. \A w \in Workers : found[w] = {}
  BY <1>1 DEF FlowInv, InHand
<1>3. UNION {found[w] : w \in Workers} = {}
  BY <1>2
<1>4. Elements(resources) = {r \in Resources : verdict[r.call] = "ok" /\ r.id \in Yields[r.call]}
  BY <1>3 DEF FlowInv, Read
<1>5. IdsOf(resources) = {r.id : r \in Elements(resources)}
  BY DEF IdsOf, Elements
<1>6. \A d \in Calls : verdict[d] = "ok" => Owner[d] \in Collectors
  <2> SUFFICES ASSUME NEW d \in Calls, verdict[d] = "ok" PROVE Owner[d] \in Collectors
    OBVIOUS
  <2>1. Owner[d] \in Workers
    BY CallAssumption
  <2>2. g[Owner[d]] # "unborn"
    BY <2>1 DEF FlowInv, InHand, Asked
  <2> QED BY <2>1, <2>2, CountAssumption DEF IInv, Births, Workers, Collectors
<1>7. \A r \in Resources : r.call \in Calls /\ r.id \in Ids
  BY DEF Resources
<1>8. ASSUME NEW d \in Calls, NEW i \in Yields[d], verdict[d] = "ok" PROVE i \in IdsOf(resources)
  <2> DEFINE r == [id |-> i, call |-> d]
  <2>1. r \in Resources /\ r.id = i /\ r.call = d
    BY <1>8, CallAssumption DEF Resources
  <2> HIDE DEF r
  <2>2. r \in Elements(resources)
    BY <1>4, <1>8, <2>1
  <2> QED BY <1>5, <2>1, <2>2
<1> QED BY <1>4, <1>5, <1>6, <1>7, <1>8

LEMMA EndPhaseFlow == ASSUME IInv, FlowInv, EndPhase PROVE FlowInv'
<1> USE CountAssumption
<1>0. InHand /\ Issued /\ Within /\ Handed /\ Read /\ Told
  BY DEF FlowInv
<1>1. UNCHANGED <<ctx, spawned, g, wg, sem, todo, found, trouble, verdict, resources, warnings, partial>>
  BY DEF EndPhase, sync, work, inv
<1>2. InHand' /\ Within' /\ Read'
  BY <1>0, <1>1 DEF InHand, Within, Read, Asked
<1>3. Told'
  <2>1. UNCHANGED <<trouble, verdict, warnings, partial>>
    BY <1>1
  <2> QED BY <1>0, <2>1 DEF Told
<1>4. Sorted'
  BY DEF EndPhase, Sorted, IInv, Cancelled
<1>5. CASE UNCHANGED prior /\ main' \notin {"phase1", "phase2"}
  <2>1. \A c : /\ Due(c)' <=> Due(c)
               /\ Asked(c)' <=> Asked(c)
               /\ GaveUp(c)' <=> GaveUp(c)
    BY <1>1, <1>5 DEF Due, Asked, GaveUp
  <2>2. Issued'
    BY <1>0, <1>1, <2>1 DEF Issued
  <2>3. Handed'
    BY <1>0, <1>1, <1>5 DEF Handed
  <2> QED BY <1>2, <1>3, <1>4, <2>2, <2>3 DEF FlowInv
<1>6. CASE main = "phase1" /\ main' = "phase2" /\ prior' = resources /\ ctx = "live"
  <2>1. Live = {}
    BY CountedFinite, FS_EmptySet DEF EndPhase, IInv, Counts
  <2>2. spawned = NumCollectors
    BY <1>6 DEF EndPhase, PhaseEnd
  <2>3. Handed'
    BY <1>1, <1>6, <2>1, <2>2, HandedOver DEF Handed, IdsOf
  <2>4. IdsOf(prior) = {}
    BY <1>0, <1>6 DEF Handed, IdsOf
  <2>5. \A c : /\ Asked(c)' <=> Asked(c)
               /\ GaveUp(c)' <=> GaveUp(c)
               /\ Due(c) => Due(c)'
    BY <1>1, <2>4 DEF Due, Asked, GaveUp
  <2>6. ASSUME NEW c \in Calls, Due(c)', g[Owner[c]] # "unborn" PROVE Due(c)
    <3>1. Owner[c] \in Workers
      BY CallAssumption
    <3>2. Owner[c] \notin Dependents
      BY <2>2, <2>6, <3>1 DEF IInv, Births, Workers, Dependents
    <3>3. Needs[c] = {}
      BY <3>2, OrderAssumption
    <3> QED BY <1>1, <2>6, <3>3 DEF Due
  <2>7. Issued'
    <3>1. \A v \in Workers : \A c \in todo'[v] :
            /\ Owner[c] = v /\ Due(c)'
            /\ \A d \in Calls : Owner[d] = v /\ Asked(d)' => d < c /\ ~GaveUp(d)'
      BY <1>0, <1>1, <2>5 DEF Issued
    <3>2. \A c \in Calls : Asked(c)' =>
            /\ Due(c)'
            /\ \A d \in Calls : Owner[d] = Owner[c] /\ GaveUp(d)' => c <= d
      BY <1>0, <2>5 DEF Issued
    <3>3. \A c \in Calls : Due(c)' /\ ~Asked(c)' /\ g'[Owner[c]] # "unborn" =>
            \/ c \in todo'[Owner[c]]
            \/ \E d \in Calls : Owner[d] = Owner[c] /\ GaveUp(d)' /\ d < c
      BY <1>0, <1>1, <2>5, <2>6 DEF Issued
    <3> QED BY <3>1, <3>2, <3>3 DEF Issued
  <2> QED BY <1>2, <1>3, <1>4, <2>3, <2>7 DEF FlowInv
<1> QED BY <1>5, <1>6 DEF EndPhase, IInv, TypeOK
\* Sorting keeps the elements, each as often as it was there.
LEMMA SortKeeps ==
  ASSUME NEW S, NEW s \in Seq(S), NEW before, StrictlyOrders(before, DOMAIN s)
  PROVE  \E p \in Bijection(DOMAIN s, DOMAIN s) :
           /\ DOMAIN StableSort(s, before) = DOMAIN s
           /\ \A k \in DOMAIN s : p[k] \in DOMAIN s /\ StableSort(s, before)[k] = s[p[k]]
           /\ \A k, l \in DOMAIN s : k # l => p[k] # p[l]
           /\ Elements(StableSort(s, before)) = Elements(s)
           /\ \A k, l \in DOMAIN s : k < l => <<p[k], p[l]>> \in before
<1>1. PICK p \in Bijection(DOMAIN s, DOMAIN s) :
           /\ StableSort(s, before) = [k \in DOMAIN s |-> s[p[k]]]
           /\ \A k, l \in DOMAIN s : k < l => <<p[k], p[l]>> \in before
  BY StableSortPermutes
<1> DEFINE t == StableSort(s, before)
<1> HIDE DEF t
<1>2. DOMAIN t = DOMAIN s /\ \A k \in DOMAIN s : t[k] = s[p[k]]
  BY <1>1 DEF t
<1>3. /\ \A k \in DOMAIN s : p[k] \in DOMAIN s
      /\ \A i \in DOMAIN s : \E k \in DOMAIN s : p[k] = i
      /\ \A k, l \in DOMAIN s : k # l => p[k] # p[l]
  BY DEF Bijection, Injection, Surjection, IsInjective
<1>4. Elements(t) = Elements(s)
  <2>1. ASSUME NEW k \in DOMAIN t PROVE t[k] \in Elements(s)
    <3>1. t[k] = s[p[k]] /\ p[k] \in DOMAIN s
      BY <1>2, <1>3, <2>1
    <3> QED BY <3>1 DEF Elements
  <2>2. ASSUME NEW i \in DOMAIN s PROVE s[i] \in Elements(t)
    <3>1. PICK k \in DOMAIN s : p[k] = i
      BY <1>3
    <3> QED BY <1>2, <3>1 DEF Elements
  <2> QED BY <2>1, <2>2 DEF Elements
<1> QED BY <1>1, <1>2, <1>3, <1>4 DEF t

LEMMA AssembleFlow == ASSUME IInv, FlowInv, Assemble PROVE FlowInv'
<1>0. InHand /\ Issued /\ Within /\ Handed /\ Read /\ Told
  BY DEF FlowInv
<1>1. /\ UNCHANGED <<ctx, spawned, g, wg, sem, todo, found, trouble, verdict, partial, prior>>
      /\ main = "assemble" /\ main' = "returned"
      /\ resources' = StableSort(resources, ResourceOrder(resources))
      /\ warnings' = StableSort(warnings, WarningOrder(warnings))
      /\ outcome' = IF Duplicates(resources') = {} THEN "inventory" ELSE "duplicate"
  BY DEF Assemble, sync, work
<1>2. resources \in Seq(Resources) /\ warnings \in Seq(Warnings)
  BY DEF IInv, TypeOK
<1>3. PICK p \in Bijection(DOMAIN resources, DOMAIN resources) :
           /\ DOMAIN resources' = DOMAIN resources
           /\ \A k \in DOMAIN resources : p[k] \in DOMAIN resources /\ resources'[k] = resources[p[k]]
           /\ Elements(resources') = Elements(resources)
           /\ \A k, l \in DOMAIN resources : k < l => <<p[k], p[l]>> \in ResourceOrder(resources)
  BY <1>1, <1>2, SortKeeps, ResourceOrderStrict
<1>4. PICK q \in Bijection(DOMAIN warnings, DOMAIN warnings) :
           /\ DOMAIN warnings' = DOMAIN warnings
           /\ \A k \in DOMAIN warnings : q[k] \in DOMAIN warnings /\ warnings'[k] = warnings[q[k]]
           /\ \A k, l \in DOMAIN warnings : k # l => q[k] # q[l]
           /\ Elements(warnings') = Elements(warnings)
           /\ \A k, l \in DOMAIN warnings : k < l => <<q[k], q[l]>> \in WarningOrder(warnings)
  BY <1>1, <1>2, SortKeeps, WarningOrderStrict
<1>6. InHand' /\ Within'
  BY <1>0, <1>1 DEF InHand, Within, Asked
<1>7. Issued'
  <2>1. \A c : /\ Due(c)' <=> Due(c)
               /\ Asked(c)' <=> Asked(c)
               /\ GaveUp(c)' <=> GaveUp(c)
    BY <1>1 DEF Due, Asked, GaveUp
  <2> QED BY <1>0, <1>1, <2>1 DEF Issued
<1>8. Handed'
  BY <1>0, <1>1 DEF Handed
<1>9. Read'
  BY <1>0, <1>1, <1>3 DEF Read
<1>10. \A k, l \in DOMAIN warnings' : k # l => warnings'[k].message # warnings'[l].message
  BY <1>0, <1>4 DEF Told
<1>11. Told'
  <2>1. \A w \in Workers : trouble[w] = {}
    BY <1>0, <1>1 DEF InHand, IInv, Cancelled
  <2>2. warnings' # <<>> <=> warnings # <<>>
    BY <1>2, <1>4
  <2>3. UNCHANGED <<trouble, verdict, partial, Elements(warnings)>>
    BY <1>1, <1>4 DEF Elements
  <2> QED BY <1>0, <1>10, <2>1, <2>2, <2>3 DEF Told
<1>12. Sorted'
  <2> SUFFICES ASSUME outcome' = "inventory"
               PROVE  /\ \A i, j \in DOMAIN resources' : i < j => resources'[i].id < resources'[j].id
                      /\ \A i, j \in DOMAIN warnings' : i < j => WarningLess(warnings'[i], warnings'[j])
    BY DEF Sorted
  <2>1. Duplicates(resources') = {}
    BY <1>1
  <2>2. ASSUME NEW i \in DOMAIN resources', NEW j \in DOMAIN resources', i < j
        PROVE  resources'[i].id < resources'[j].id
    <3>1. <<p[i], p[j]>> \in ResourceOrder(resources)
      BY <1>3, <2>2
    <3>2. resources[p[i]].id < resources[p[j]].id \/ resources[p[i]].id = resources[p[j]].id
      BY <3>1 DEF ResourceOrder
    <3>3. resources'[i].id # resources'[j].id
      <4>1. i # j
        BY <1>2, <1>3, <2>2
      <4>2. resources'[i].id = resources'[j].id => resources'[i].id \in Duplicates(resources')
        BY <2>2, <4>1 DEF Duplicates
      <4> QED BY <2>1, <4>2
    <3> QED BY <1>3, <2>2, <3>2, <3>3
  <2>3. ASSUME NEW i \in DOMAIN warnings', NEW j \in DOMAIN warnings', i < j
        PROVE  WarningLess(warnings'[i], warnings'[j])
    <3> DEFINE v == warnings[q[i]]
    <3> DEFINE x == warnings[q[j]]
    <3>1. <<q[i], q[j]>> \in WarningOrder(warnings)
      BY <1>4, <2>3
    <3>2. WarningLess(v, x) \/ ~WarningLess(x, v)
      BY <3>1 DEF WarningOrder
    <3>3. v = warnings'[i] /\ x = warnings'[j] /\ v \in Warnings /\ x \in Warnings
      BY <1>2, <1>4, <2>3
    <3>4. v.message # x.message
      BY <1>2, <1>4, <1>10, <2>3, <3>3
    <3> HIDE DEF v, x
    <3>5. /\ v.service \in Nat /\ v.op \in Nat /\ v.message \in Nat
          /\ x.service \in Nat /\ x.op \in Nat /\ x.message \in Nat
      <4>1. \A y \in Warnings : y.service \in Workers /\ y.op \in Calls \cup {0} /\ y.message \in Calls
        BY DEF Warnings, NoOp
      <4>2. Workers \subseteq Nat /\ Calls \subseteq Nat
        BY CallAssumption, CountAssumption DEF Workers
      <4>3. \A y \in Warnings : y.service \in Nat /\ y.op \in Nat /\ y.message \in Nat
        <5>1. Calls \cup {0} \subseteq Nat
          BY <4>2
        <5> QED BY <4>1, <4>2, <5>1
      <4> QED BY <3>3, <4>3
    <3>6. WarningLess(v, x)
      BY <3>2, <3>4, <3>5 DEF WarningLess
    <3> QED BY <3>3, <3>6
  <2> QED BY <2>2, <2>3
<1> QED BY <1>6, <1>7, <1>8, <1>9, <1>11, <1>12 DEF FlowInv

-----------------------------------------------------------------------------
(* What is returned.                                                       *)

\* When an inventory is returned, nothing is left in anybody's hands.
LEMMA AllTold ==
  ASSUME IInv, FlowInv, outcome = "inventory"
  PROVE  /\ \A w \in Workers : g[w] = "done" /\ todo[w] = {} /\ found[w] = {} /\ trouble[w] = {}
         /\ Elements(resources) = {r \in Resources : verdict[r.call] = "ok" /\ r.id \in Yields[r.call]}
         /\ Elements(warnings) =
              {WarningFor(c, verdict[c]) : c \in {d \in Calls : verdict[d] \notin {"ok", "unasked"}}}
<1>1. \A w \in Workers : g[w] = "done" /\ todo[w] = {} /\ found[w] = {} /\ trouble[w] = {}
  BY DEF IInv, Cancelled, FlowInv, InHand
<1>2. UNION {found[w] : w \in Workers} = {} /\ UNION {trouble[w] : w \in Workers} = {}
  BY <1>1
<1>3. Elements(resources) = {r \in Resources : verdict[r.call] = "ok" /\ r.id \in Yields[r.call]}
  BY <1>2 DEF FlowInv, Read
<1>4. Elements(warnings) =
        {WarningFor(c, verdict[c]) : c \in {d \in Calls : verdict[d] \notin {"ok", "unasked"}}}
  BY <1>2 DEF FlowInv, Told
<1> QED BY <1>1, <1>3, <1>4

\* What was due then is what the answers called for.
LEMMA DueMeans ==
  ASSUME IInv, FlowInv, outcome = "inventory", NEW c \in Calls
  PROVE  Due(c) <=> \/ c \in Starts /\ \A i \in Needs[c] :
                         \E d \in Answered : Owner[d] \in Collectors /\ i \in Yields[d]
                    \/ \E d \in Answered : c \in Reveals[d]
<1>1. CASE Needs[c] = {}
  BY <1>1 DEF Due, Answered
<1>2. CASE Needs[c] # {}
  <2>1. Owner[c] \in Dependents /\ Owner[c] \in Workers
    BY <1>2, OrderAssumption, CallAssumption
  <2>2. g[Owner[c]] # "unborn"
    BY <2>1, AllTold
  <2>3. spawned > NumCollectors
    BY <2>1, <2>2, CountAssumption DEF IInv, TypeOK, Births, Workers, Dependents
  <2>4. IdsOf(prior) = UNION {Yields[d] : d \in {e \in Calls : verdict[e] = "ok" /\ Owner[e] \in Collectors}}
    BY <2>3 DEF FlowInv, Handed
  <2>5. Needs[c] \subseteq IdsOf(prior) <=>
          \A i \in Needs[c] : \E d \in Answered : Owner[d] \in Collectors /\ i \in Yields[d]
    BY <2>4 DEF Answered
  <2> QED BY <2>5 DEF Due, Answered
<1> QED BY <1>1, <1>2

\* Whatever was due was asked, unless its collector had given up.
LEMMA DueIsAsked ==
  ASSUME IInv, FlowInv, outcome = "inventory", NEW c \in Calls, Due(c), ~Asked(c)
  PROVE  \E d \in Calls : Owner[d] = Owner[c] /\ GaveUp(d) /\ d < c
<1>1. Owner[c] \in Workers
  BY CallAssumption
<1>2. g[Owner[c]] # "unborn" /\ todo[Owner[c]] = {}
  BY <1>1, AllTold
<1> QED BY <1>2 DEF FlowInv, Issued

LEMMA GapsTold == IInv /\ FlowInv => EveryGapWarned
<1> SUFFICES ASSUME IInv, FlowInv, outcome = "inventory"
             PROVE  /\ partial <=> warnings # <<>>
                    /\ {warnings[i].message : i \in DOMAIN warnings} =
                         {c \in Calls : verdict[c] \notin {"ok", "unasked"}}
                    /\ \A i \in DOMAIN warnings : warnings[i].service = Owner[warnings[i].message]
  BY DEF EveryGapWarned
<1> DEFINE Bad  == {c \in Calls : verdict[c] \notin {"ok", "unasked"}}
           Said == {WarningFor(c, verdict[c]) : c \in Bad}
<1>1. Elements(warnings) = Said
  BY AllTold
<1>2. partial <=> warnings # <<>>
  BY DEF FlowInv, Told
<1>3. \A c \in Bad : WarningFor(c, verdict[c]).message = c /\ WarningFor(c, verdict[c]).service = Owner[c]
  BY DEF WarningFor
<1>4. {warnings[i].message : i \in DOMAIN warnings} = {x.message : x \in Elements(warnings)}
  BY DEF Elements
<1>5. \A i \in DOMAIN warnings : warnings[i] \in Elements(warnings)
  BY DEF Elements
<1> HIDE DEF Bad
<1>6. {x.message : x \in Said} = Bad
  BY <1>3
<1>7. \A x \in Said : x.service = Owner[x.message]
  BY <1>3
<1> QED BY <1>1, <1>2, <1>4, <1>5, <1>6, <1>7 DEF Bad

LEMMA SilentIsWhole == IInv /\ FlowInv => CompleteUnlessPartial
<1> SUFFICES ASSUME IInv, FlowInv, outcome = "inventory", ~partial
             PROVE  IdsOf(resources) = UNION {Yields[c] : c \in AllReachable}
  BY DEF CompleteUnlessPartial
<1>1. {c \in Calls : verdict[c] \notin {"ok", "unasked"}} = {}
  <2>1. warnings = <<>>
    BY DEF FlowInv, Told
  <2>2. {warnings[i].message : i \in DOMAIN warnings} = {}
    BY <2>1
  <2> QED BY <2>2, GapsTold DEF EveryGapWarned
<1>2. \A c \in Calls : Asked(c) <=> c \in Answered
  BY <1>1 DEF Asked, Answered
<1>3. \A d \in Calls : ~GaveUp(d)
  BY <1>1 DEF GaveUp
<1>4. Answered \in SUBSET Calls
  BY DEF Answered
<1>5. Closed(Answered)
  <2>1. \A c \in Calls : c \notin Answered => ~Due(c)
    BY <1>2, <1>3, DueIsAsked
  <2> QED BY <2>1, DueMeans DEF Closed
<1>6. \A S \in SUBSET Calls : Closed(S) => Answered \subseteq S
  BY <1>2 DEF FlowInv, Within, Answered
<1>7. AllReachable = {c \in Calls : \A S \in SUBSET Calls : Closed(S) => c \in S}
  BY DEF AllReachable, Closed
<1>8. AllReachable = Answered
  BY <1>4, <1>5, <1>6, <1>7
<1>9. IdsOf(resources) = {r.id : r \in Elements(resources)}
  BY DEF IdsOf, Elements
<1>10. Elements(resources) = {r \in Resources : verdict[r.call] = "ok" /\ r.id \in Yields[r.call]}
  BY AllTold
<1>11. \A r \in Elements(resources) : r.call \in Answered /\ r.id \in Yields[r.call]
  BY <1>10 DEF Resources, Answered
<1>12. ASSUME NEW c \in Answered, NEW i \in Yields[c] PROVE i \in IdsOf(resources)
  <2> DEFINE r == [id |-> i, call |-> c]
  <2>1. r \in Resources /\ r.id = i /\ r.call = c /\ verdict[c] = "ok"
    BY <1>4, CallAssumption DEF Resources, Answered
  <2> HIDE DEF r
  <2>2. r \in Elements(resources)
    BY <1>10, <2>1
  <2> QED BY <1>9, <2>1, <2>2
<1> QED BY <1>8, <1>9, <1>11, <1>12

-----------------------------------------------------------------------------
(* The theorems about what is returned.                                    *)

\* The books of a scan balance in every reachable state.
THEOREM FlowInductive == Spec => [](IInv /\ FlowInv)
<1>1. Init => IInv /\ FlowInv
  BY InitIInv, InitFlow
<1>2. IInv /\ FlowInv /\ [Next]_vars => (IInv /\ FlowInv)'
  <2>1. IInv /\ [Next]_vars => IInv'
    BY SpawnStep, AcquireStep, SkipStep, CallStep, EmitStep, WarnStep,
       ReleaseStep, FinishStep, EndPhaseStep, AssembleStep, OtherSteps
       DEF Next, Main, Step, Returned
  <2>2. IInv /\ FlowInv /\ [Next]_vars => FlowInv'
    BY SpawnFlow, MoveFlow, CallFlow, EmitFlow, WarnFlow, EndPhaseFlow, AssembleFlow, OtherFlow
       DEF Next, Main, Step, Returned
  <2> QED BY <2>1, <2>2
<1> QED BY <1>1, <1>2, PTL DEF Spec

\* A returned inventory admits what it lacks, for every account and every
\* interleaving: unless it says it is partial it holds everything the account
\* would show, and each call that was not answered left a warning naming it.
THEOREM GapsAreAdmitted == Spec => []GapsAdmitted
<1>1. IInv /\ FlowInv => GapsAdmitted
  BY GapsTold, SilentIsWhole DEF GapsAdmitted
<1> QED BY <1>1, FlowInductive, PTL

\* Which calls a scan makes depends on the answers alone: the concurrency
\* bound, the scheduler and the other dependents have no say in it.
THEOREM AnswersDecide == Spec => []ScheduleIndependent
<1>1. IInv /\ FlowInv => ScheduleIndependent
  <2> SUFFICES ASSUME IInv, FlowInv, outcome = "inventory"
               PROVE  {c \in Calls : verdict[c] # "unasked"} = DueCalls
    BY DEF ScheduleIndependent
  <2>1. \A c \in Calls : c \in DueCalls <=>
          Due(c) /\ ~\E d \in Calls : d < c /\ Owner[d] = Owner[c] /\ GaveUp(d)
    BY DueMeans DEF DueCalls, GaveUp
  <2>2. \A c \in Calls : Asked(c) =>
          Due(c) /\ \A d \in Calls : Owner[d] = Owner[c] /\ GaveUp(d) => c <= d
    BY DEF FlowInv, Issued
  <2>3. \A c, d \in Calls : c <= d => ~(d < c)
    BY CallAssumption
  <2>4. \A c \in Calls : Asked(c) <=> c \in DueCalls
    BY <2>1, <2>2, <2>3, DueIsAsked
  <2> QED BY <2>4 DEF Asked, DueCalls
<1> QED BY <1>1, FlowInductive, PTL

\* The inventory is a function of the answers: every resource of every call
\* that answered, once, in the order of the ids, and the warnings in theirs.
THEOREM InventoryIsCanonical == Spec => []CanonicalInventory
<1>1. IInv /\ FlowInv => CanonicalInventory
  <2> SUFFICES ASSUME IInv, FlowInv, outcome = "inventory"
               PROVE  {resources[i] : i \in DOMAIN resources} =
                        {r \in Resources : r.call \in Answered /\ r.id \in Yields[r.call]}
    BY DEF CanonicalInventory, FlowInv, Sorted
  <2>1. Elements(resources) = {r \in Resources : verdict[r.call] = "ok" /\ r.id \in Yields[r.call]}
    BY AllTold
  <2>2. \A r \in Resources : r.call \in Calls
    BY DEF Resources
  <2> QED BY <2>1, <2>2 DEF Elements, Answered
<1> QED BY <1>1, FlowInductive, PTL
=============================================================================
