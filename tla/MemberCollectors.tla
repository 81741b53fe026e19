-------------------------- MODULE MemberCollectors --------------------------
(***************************************************************************)
(* RDS.Collect and ElastiCache.Collect: groups (Aurora clusters,           *)
(* replication groups) are listed, then what may belong to one (instances, *)
(* cache clusters), then, for ElastiCache, the serverless caches; the      *)
(* listings are joined in memory and emitted.  The account changes between *)
(* the pages of these listings.                                            *)
(***************************************************************************)
EXTENDS Integers, FiniteSets, FiniteSetsExt, AwsCalls

CONSTANTS
  Items,      \* instances, cache clusters
  Groups,     \* clusters, replication groups
  Serverless, \* serverless caches
  Standing,   \* clusters that exist without a member
  Foreign,    \* of Items and Groups, what RDS lists of docdb and neptune
  InitialGroup, \* of a service's items, the group, or Alone, or Absent
  MaxChanges

Alone == 0
Absent == -1

MemberAssumption ==
  /\ Items \cup Groups \cup Serverless \subseteq Nat \ {0}
  /\ \A i \in Items, g \in Groups : i < g
  /\ \A x \in Items \cup Groups, s \in Serverless : x < s
  /\ InitialGroup \in [{"RDS", "ElastiCache"} -> [Items -> Groups \cup {Alone, Absent}]]
  /\ \A i \in Items : LET g == InitialGroup["RDS"][i] IN
       g \in Groups => (i \in Foreign) = (g \in Foreign)

VARIABLES
  service,  \* "RDS" or "ElastiCache"
  group,    \* of an item, its group now
  touched,  \* what somebody changed while the collector ran
  at, next, \* the listing, and the first of the rest of it: a page holds one
  saw,      \* the items listed, with their group as it was
  sawGroup, \* the groups listed, with their members as they were
  todo,     \* what is to be emitted, in order
  emitted, warnings, result

listings == <<at, next, saw, sawGroup>>
vars == <<service, group, touched, listings, todo, emitted, warnings, result>>

Members(g) == {i \in Items : group[i] = g}
Exists(x) ==
  \/ x \in Serverless /\ service = "ElastiCache"
  \/ x \in Items /\ group[x] # Absent
  \/ x \in Groups /\ (Members(x) # {} \/ (x \in Standing /\ service = "RDS"))

Init ==
  /\ service \in {"RDS", "ElastiCache"} /\ group = InitialGroup[service]
  /\ touched = {} /\ at = "groups" /\ next = 1 /\ saw = {} /\ sawGroup = {}
  /\ todo = {} /\ emitted = {} /\ warnings = {} /\ result = "running"

Listing == result = "running" /\ at \in {"groups", "items", "serverless"}

\* An item is created, deleted, or, for ElastiCache, becomes the primary of a new
\* group, or outlives its group. Bounds: each changes once, MaxChanges in all,
\* and only while something is still to be listed: nothing is read after that.
Regroup(i, m) ==
  /\ Listing /\ m # group[i]
  /\ i \notin touched /\ Cardinality(touched \cap Items) < MaxChanges
  /\ service = "RDS" => /\ Absent \in {m, group[i]}
                        /\ m \in Groups => (i \in Foreign) = (m \in Foreign)
  /\ group' = [group EXCEPT ![i] = m]
  /\ touched' = touched \cup {i, m, group[i]}
  /\ UNCHANGED <<service, listings, todo, emitted, warnings, result>>

Listed == [groups |-> Groups, items |-> Items,
           serverless |-> IF service = "RDS" THEN {} ELSE Serverless]
After == [groups |-> "items", items |-> "serverless", serverless |-> "join"]
Left == {x \in Listed[at] : x >= next}

ListPage ==
  /\ Listing /\ Left # {}
  /\ LET x == Min(Left) IN
     /\ next' = x + 1
     /\ sawGroup' = IF Exists(x) /\ at = "groups"
                    THEN sawGroup \cup {[id |-> x, members |-> Members(x)]} ELSE sawGroup
     /\ saw' = IF Exists(x) /\ at # "groups"
               THEN saw \cup {[id |-> x, group |-> IF at = "items" THEN group[x] ELSE Alone]}
               ELSE saw
  /\ UNCHANGED <<service, group, touched, at, todo, emitted, warnings, result>>

\* A denied page ends its listing, and the next one begins: break.
DenyPage ==
  /\ Listing
  /\ warnings' = warnings \cup {<<at, 0>>}
  /\ at' = After[at] /\ next' = 1
  /\ UNCHANGED <<service, group, touched, saw, sawGroup, todo, emitted, result>>

EndListing ==
  /\ Listing /\ Left = {}
  /\ at' = After[at] /\ next' = 1
  /\ UNCHANGED <<service, group, touched, saw, sawGroup, todo, emitted, warnings, result>>

OwnGroups == {g.id : g \in sawGroup}

Others == IF service = "RDS" THEN Foreign ELSE {}

\* Standalone items, the groups the listing of groups had, the serverless caches.
ToEmit == {s.id : s \in {t \in saw : t.group = Alone}} \cup OwnGroups

\* Mutant of Join: another engine is left out without a word.
JoinInSilence ==
  /\ result = "running" /\ at = "join" /\ at' = "emit"
  /\ todo' = ToEmit \ Others
  /\ UNCHANGED <<service, group, touched, next, saw, sawGroup, emitted, warnings, result>>

\* members, and notRDS: another engine's cluster, or its instance without one, is
\* reported and left out.
Join ==
  /\ result = "running" /\ at = "join" /\ at' = "emit"
  /\ todo' = ToEmit \ Others
  /\ warnings' = warnings \cup {<<"out-of-scope", x>> : x \in ToEmit \cap Others}
  /\ UNCHANGED <<service, group, touched, next, saw, sawGroup, emitted, result>>

\* Mutant of Nodes: what the listing of items says, alone.
NodesListed(x) == {s.id : s \in {t \in saw : t.group = x}}

\* emitCluster: the members the cluster names, whether or not they were listed.
\* replicationGroup: those, and the ones that name the group.
Nodes(x) ==
  (UNION {g.members : g \in {h \in sawGroup : h.id = x}})
    \cup (IF service = "RDS" THEN {} ELSE {s.id : s \in {t \in saw : t.group = x}})

\* Mutant of Emit: a denial of the tags costs the cache.
EmitTagged ==
  /\ result = "running" /\ at = "emit" /\ todo # {}
  /\ LET x == Min(todo) IN
     /\ todo' = todo \ {x}
     /\ \/ /\ emitted' = emitted \cup {[id |-> x, nodes |-> Nodes(x)]} /\ UNCHANGED warnings
        \/ /\ service = "ElastiCache"
           /\ warnings' = warnings \cup {<<"ListTagsForResource", x>>} /\ UNCHANGED emitted
  /\ UNCHANGED <<service, group, touched, listings, result>>

\* emit: ElastiCache asks for the tags first, and a denial costs them; rds has them.
Emit ==
  /\ result = "running" /\ at = "emit" /\ todo # {}
  /\ LET x == Min(todo) IN
     /\ todo' = todo \ {x}
     /\ emitted' = emitted \cup {[id |-> x, nodes |-> Nodes(x)]}
     /\ warnings' \in {warnings} \cup
          (IF service = "RDS" THEN {} ELSE {warnings \cup {<<"ListTagsForResource", x>>}})
  /\ UNCHANGED <<service, group, touched, listings, result>>

\* Any other error; that of a cache deleted before its tags were asked for too.
Fail ==
  /\ Listing \/ (result = "running" /\ service = "ElastiCache" /\ at = "emit" /\ todo # {})
  /\ result' = "error"
  /\ UNCHANGED <<service, group, touched, listings, todo, emitted, warnings>>

Return ==
  /\ result = "running" /\ at = "emit" /\ todo = {}
  /\ result' = "nil"
  /\ UNCHANGED <<service, group, touched, listings, todo, emitted, warnings>>

Done == result # "running" /\ UNCHANGED vars

Next ==
  \/ \E i \in Items, m \in Groups \cup {Alone, Absent} : Regroup(i, m)
  \/ ListPage \/ DenyPage \/ EndListing \/ Join \/ Emit \/ Fail \/ Return \/ Done

Spec == Init /\ [][Next]_vars
-----------------------------------------------------------------------------
TypeOK ==
  /\ group \in [Items -> Groups \cup {Alone, Absent}]
  /\ OwnGroups \subseteq Groups /\ todo \subseteq OwnGroups \cup {s.id : s \in saw}
  /\ \A e \in emitted : e.id \in Items \cup Groups \cup Serverless /\ e.nodes \subseteq Items
  /\ result \in {"running", "nil", "error"}

\* A denied listing, under which anything it would have had may be missing.
Denied == \E w \in warnings : w[2] = 0

\* Three listings of an account that moves do not lose what stands still: what
\* nobody touched is in the inventory, as a resource of its own or as a node of its
\* group and never as both, whether or not its tags could be read.
WhatStaysIsCollected ==
  result = "nil" /\ ~Denied =>
    \A x \in (Items \cup Groups \cup Serverless) \ (Others \cup touched) : Exists(x) =>
      LET alone == \E e \in emitted : e.id = x
          node  == \E e \in emitted : x \in e.nodes IN
      IF x \in Items /\ group[x] # Alone
      THEN ~alone /\ \E e \in emitted : e.id = group[x] /\ x \in e.nodes
      ELSE alone /\ ~node

\* "A member the instance listing did not return (denied, or not yet visible) is
\* kept with what the cluster says".
MembersSurviveDenial ==
  \A e \in emitted, g \in sawGroup : e.id = g.id => g.members \subseteq e.nodes

\* notRDS: a DocumentDB or Neptune database never becomes a node, and is reported,
\* by itself or by its cluster.
ForeignIsReported ==
  /\ \A e \in emitted : ({e.id} \cup e.nodes) \cap Others = {}
  /\ result = "nil" /\ ~Denied => \A x \in Others \ touched : Exists(x) =>
       <<"out-of-scope", IF x \in Items /\ group[x] # Alone THEN group[x] ELSE x>> \in warnings
=============================================================================
