---------------------------- MODULE MCCollectors ----------------------------
(* A small account for each collector. *)
EXTENDS Collectors

(* Two pages: the second holds what a denial must not take with it. *)
MCResources == 1 .. 3
MCPages == <<{1, 2}, {3}>>

(* Two roles that share a policy, one with an unreadable inline document and *)
(* a boundary, and a third that only another account's workload names.       *)
Ref(by, kind, account, name) == [by |-> by, kind |-> kind, account |-> account, name |-> name]
MCReferences ==
  {Ref("task", "role", "own", 1), Ref("function", "role", "own", 1),
   Ref("function", "role", "own", 2), Ref("api", "role", "other", 2),
   Ref("api", "role", "other", 3), Ref("api", "user", "own", 3)}
MCRoles == 1 .. 3
MCPolicies == 11 .. 12
MCInlinePages == <<<<{21}, {22}>>, <<>>, <<>>>>
MCAttachedPages == <<<<{11}>>, <<{11}, {12}>>, <<>>>>
MCBoundary == <<{12}, {}, {}>>
MCUnparseable == {22}

(* Three clusters on two pages, described two at a time; a name and a task     *)
(* definition two clusters share; a service without one; a cluster with two    *)
(* pages of services.                                                          *)
MCClusterPages == <<{"prod", "web"}, {"dev"}>>
MCServicePages == [prod |-> <<{"web", "jobs"}, {"api"}>>, web |-> <<{}>>, dev |-> <<{"web"}>>]
MCDefinition == [prod |-> [web |-> "app:1", jobs |-> "", api |-> "app:2"], web |-> [x \in {} |-> ""], dev |-> [web |-> "app:1"]]

\* The same with the third cluster called "cluster".
NamedClusterPages == <<{"prod", "web"}, {"cluster"}>>
NamedServicePages == [prod |-> <<{"web"}>>, web |-> <<{}>>, cluster |-> <<{"web"}>>]
NamedDefinition == [prod |-> [web |-> "app:1"], web |-> [x \in {} |-> ""], cluster |-> [web |-> "app:1"]]

(* A member of a group, an item alone, one not created yet and another         *)
(* engine's; a group in use, one that may be created, an empty one of another  *)
(* engine and one with a member.                                               *)
MCItems == 1 .. 4
MCGroups == 11 .. 13
MCServerless == {21}
MCStanding == {13}
MCForeign == {4, 13}
\* In a group, alone (0), or absent (-1).
MCInitialGroup == [RDS |-> <<11, 0, -1, 13>>,
                   ElastiCache |-> <<11, 0, -1, -1>>]
=============================================================================
