------------------------------ MODULE Ordering ------------------------------
(***************************************************************************)
(* sort.SliceStable, as inventory.Normalize uses it: what comes out is a   *)
(* function of a strict order on the positions of what goes in.            *)
(***************************************************************************)
EXTENDS Integers, FiniteSets, Sequences

StrictlyOrders(before, D) ==
  /\ \A i \in D : <<i, i>> \notin before
  /\ \A i, j \in D : i # j => <<i, j>> \in before \/ <<j, i>> \in before
  /\ \A i, j, k \in D :
       <<i, j>> \in before /\ <<j, k>> \in before => <<i, k>> \in before

\* How many elements come before i, counting i itself.
Ranks(D, before) ==
  [i \in D |-> Cardinality({j \in D : <<j, i>> \in before}) + 1]

\* The element at i moves to the position that leaves room for those before
\* it.  The order is one on positions, so that elements that compare equal
\* can be told to stay in the order they arrived in.
StableSort(s, before) ==
  LET rank == Ranks(DOMAIN s, before)
  IN  [k \in DOMAIN s |-> s[CHOOSE i \in DOMAIN s : rank[i] = k]]
=============================================================================
