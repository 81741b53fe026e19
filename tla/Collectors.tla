----------------------------- MODULE Collectors -----------------------------
(***************************************************************************)
(* The collectors, each a module of its own: ReadEach (seven of them),     *)
(* IamCollector, EcsCollector, MemberCollectors (RDS and ElastiCache).     *)
(* What they have in common is the account they read, the promise behind   *)
(* Collector.Collect and nothing else: none sees what another emits, so    *)
(* one behaviour is of one collector (Scan has their interleavings).       *)
(***************************************************************************)
EXTENDS Integers, Sequences

CONSTANTS
  Resources, Pages,                                          \* ReadEach
  References, Roles, Policies, InlinePages, AttachedPages,
  Boundary, Unparseable,                                     \* IamCollector
  ClusterPages, ServicePages, Definition,
  ClustersBatch, ServicesBatch,                              \* EcsCollector
  Items, Groups, Serverless, Standing, Foreign,
  InitialGroup, MaxChanges                                   \* MemberCollectors

VARIABLES
  service,                                   \* the collector that runs
  alive, page, todo, at, names,              \* what several have, each in its own way
  step, lacks, unread,                       \* ReadEach
  role, spec, policies,                      \* IamCollector
  arns, described, taskDefs,                 \* EcsCollector
  group, touched, next, saw, sawGroup,       \* MemberCollectors
  emitted, lost, warnings, result

ofEach == <<step, lacks, unread>>
ofIam == <<role, spec, policies>>
ofEcs == <<arns, described, taskDefs>>
ofMembers == <<group, touched, next, saw, sawGroup>>
vars == <<service, alive, page, todo, at, names, ofEach, ofIam, ofEcs, ofMembers,
          emitted, lost, warnings, result>>

Each == INSTANCE ReadEach
Iam == INSTANCE IamCollector
Ecs == INSTANCE EcsCollector
Joined == INSTANCE MemberCollectors

ASSUME CollectorsAssumption ==
  Each!PageAssumption /\ Iam!IamAssumption /\ Ecs!EcsAssumption /\ Joined!MemberAssumption

EachRuns == service \in DOMAIN Each!Rows
IamRuns == service = "IAM"
EcsRuns == service = "ECS"
JoinedRuns == service \in {"RDS", "ElastiCache"}

\* The variables of the collectors that do not run.
NoEach == step = 0 /\ lacks = {} /\ unread = {}
NoIam == role = 0 /\ spec = <<>> /\ policies = {}
NoEcs == arns = {} /\ described = {} /\ taskDefs = {}
NoJoined == group = <<>> /\ touched = {} /\ next = 0 /\ saw = {} /\ sawGroup = {}

Init ==
  \/ Each!Init /\ at = "" /\ names = {} /\ NoIam /\ NoEcs /\ NoJoined
  \/ service = "IAM" /\ Iam!Init /\ NoEach /\ NoEcs /\ NoJoined
  \/ service = "ECS" /\ Ecs!Init /\ todo = {} /\ NoEach /\ NoIam /\ NoJoined
  \/ /\ Joined!Init
     /\ alive = {} /\ page = 0 /\ names = {} /\ lost = {} /\ NoEach /\ NoIam /\ NoEcs

Next ==
  \/ EachRuns /\ Each!Next /\ UNCHANGED <<at, names, ofIam, ofEcs, ofMembers>>
  \/ IamRuns /\ Iam!Next /\ UNCHANGED <<service, ofEach, ofEcs, ofMembers>>
  \/ EcsRuns /\ Ecs!Next /\ UNCHANGED <<service, todo, ofEach, ofIam, ofMembers>>
  \/ JoinedRuns /\ Joined!Next /\ UNCHANGED <<alive, page, names, lost, ofEach, ofIam, ofEcs>>

Spec == Init /\ [][Next]_vars
-----------------------------------------------------------------------------
\* What the collector that runs owes at the moment, what exists and what it has
\* emitted. RDS and ElastiCache join their listings in memory, and owe what came of it,
\* whatever happens to the account.
Owed == CASE EachRuns -> Each!Owed [] IamRuns -> Iam!Owed [] EcsRuns -> Ecs!Owed [] OTHER -> todo
Existing == CASE IamRuns -> alive \ Iam!Inline
              [] JoinedRuns -> Items \cup Groups \cup Serverless [] OTHER -> alive
Ids == IF EcsRuns THEN emitted ELSE {e.id : e \in emitted}

Promise == INSTANCE CollectorPromise
  WITH owed <- Owed, alive <- Existing, emitted <- Ids, warned <- warnings # {}

\* "Degrades, never fails": what a collector has learnt of is emitted once, given
\* up with a warning, or found deleted, or the whole collector ends in an error;
\* it returns nil owing nothing.
KeepsPromise == Promise!Spec

\* What a listing returned is read in full or says so: nothing is missing without a
\* warning ("never trust a first page"), a denied call costs its own part of its own
\* resource ("a denial here must not cost us the queue itself"), and a spec without
\* that part is marked ("'no policy' and 'not allowed to read it' looked the same").
ReadInFull ==
  EachRuns => Each!TypeOK /\ Each!Complete /\ Each!DenialCostsItsPart /\ Each!UnreadIsMarked

\* A role is this account's and without a mark has every policy it still has: one of
\* another account is never looked up here by its name, and is reported.
RolesAreWhole == IamRuns => Iam!TypeOK /\ Iam!NoNamesake /\ Iam!UnmarkedIsWhole

\* Of the clusters and services that exist, only what a denied or failed call was
\* about is missing, and each has its task definition or a warning.
ServicesAreWhole == EcsRuns => Ecs!TypeOK /\ Ecs!DenialCostsItsBatch /\ Ecs!ServiceHasDefinition

\* "A duplicate ID is a collector bug": no two ECS resources share one.
UniqueIds == EcsRuns => Ecs!UniqueIds

\* What nobody touches while groups and members are listed is collected once, a member
\* whose own listing was denied with what its group says of it; a DocumentDB or
\* Neptune database never becomes a node, and is reported.
JoinLosesNothing ==
  JoinedRuns => /\ Joined!TypeOK /\ Joined!WhatStaysIsCollected
                /\ Joined!MembersSurviveDenial /\ Joined!ForeignIsReported
=============================================================================
