----------------------------- MODULE StateRules -----------------------------
(***************************************************************************)
(* The rules of tier 1, each family a module of its own, with what its     *)
(* collector leaves it: LoadBalancers, ApiRoutes, TopicDelivery.  They     *)
(* read different resources and claim different edges, so one behaviour is *)
(* of one family (LinkBuilder has what becomes of several claims).         *)
(***************************************************************************)
CONSTANTS
  BalancerPages, GroupPages, TypeOf, Facing, ListenersOf, RulePages,
  DefaultTo, TargetType, TargetsOf, Registers, BalancerNodes,    \* LoadBalancers
  Routes, Authorizers, Stages, Definition, Existing, FirstPage, FirstTarget,
  ValueOf, Secret, Guards, AuthorizerCalls, ApiNodes,            \* ApiRoutes
  Topics, Queues, Functions, Policies, Patterned, Subscribing,
  Mappings, DeadLetters                                          \* TopicDelivery

VARIABLES
  family,                                        \* whose rules are looked at
  at, edges, findings, todo,                     \* what several have
  page, lbs, tgs, gateways, open, rules, read, invLbs, invTgs,
  warnings, result, graph,                       \* LoadBalancers
  exists, target, byID, routes, stages, auths,
  warned, late, linked,                          \* ApiRoutes
  subs, policy, unread, blind, expected, triggers \* TopicDelivery

ofBalancers == <<page, lbs, tgs, gateways, open, rules, read, invLbs, invTgs, warnings, result, graph>>
ofApis == <<exists, target, byID, routes, stages, auths, warned, late, linked>>
ofTopics == <<subs, policy, unread, blind, expected, triggers, todo>>
vars == <<family, at, edges, findings, ofBalancers, ofApis, ofTopics>>

Balancers == INSTANCE LoadBalancers WITH Nodes <- BalancerNodes
Apis == INSTANCE ApiRoutes WITH Nodes <- ApiNodes
Delivery == INSTANCE TopicDelivery

ASSUME StateRulesAssumption ==
  Balancers!BalancerAssumption /\ Apis!ApiAssumption /\ Delivery!DeliveryAssumption

\* The variables of the families that are not looked at.
NoBalancers ==
  /\ page = 0 /\ lbs = <<>> /\ tgs = <<>> /\ gateways = {} /\ open = <<>> /\ rules = {} /\ read = {}
  /\ invLbs = {} /\ invTgs = {} /\ warnings = {} /\ result = "" /\ graph = <<>>
NoApis ==
  /\ exists = {} /\ target = <<>> /\ byID = {} /\ routes = <<>> /\ stages = {}
  /\ auths = {} /\ warned = {} /\ late = {} /\ linked = {}
NoTopics ==
  subs = <<>> /\ policy = <<>> /\ unread = {} /\ blind = {} /\ expected = {} /\ triggers = {} /\ todo = {}

Init ==
  \/ /\ family = "balancers" /\ Balancers!Init
     /\ edges = {} /\ findings = {} /\ NoApis /\ NoTopics
  \/ family = "apis" /\ Apis!Init /\ NoBalancers /\ NoTopics
  \/ family = "topics" /\ Delivery!Init /\ at = "" /\ NoBalancers /\ NoApis

Next ==
  \/ /\ family = "balancers" /\ Balancers!Next
     /\ UNCHANGED <<family, edges, findings, ofApis, ofTopics>>
  \/ family = "apis" /\ Apis!Next /\ UNCHANGED <<family, ofBalancers, ofTopics>>
  \/ family = "topics" /\ Delivery!Next /\ UNCHANGED <<family, at, ofBalancers, ofApis>>

Spec == Init /\ [][Next]_vars
-----------------------------------------------------------------------------
\* Whatever receives a balancer's traffic has an edge from it, or is reported, or the
\* very call that would have told was denied: what was listed is in the inventory,
\* and a listener whose rules could not be read keeps its default actions.
TrafficAccounted ==
  family = "balancers" => /\ Balancers!TypeOK /\ Balancers!NoRouteLostInSilence
                          /\ Balancers!ListedIsEmitted /\ Balancers!NoListenerWithoutRules

\* A service the internet reaches is an entrypoint or behind one, and one marked on
\* its own word is one whose group nothing was read of, or is gone.
EntrypointsKnown == family = "balancers" => Balancers!EntrypointsKnown

\* An edge of an API is a call requests can really make, of this account.
EdgeIsTrue == family = "apis" => Apis!TypeOK /\ Apis!EdgeIsTrue

\* A route comes to an edge or a finding, for every readable stage of a templated
\* integration and not only the first, or is one of the forms named there.
RouteAccounted == family = "apis" => Apis!RouteAccounted /\ Apis!EveryStageCounts

\* A delivery said to be active is one AWS makes, but for the forms of policy nobody
\* judges; one said to be refused is one AWS refuses though a policy was not read; and
\* of several declarations a disabled or pending one never silences a live one.
DeliveryIsTrue ==
  family = "topics" => /\ Delivery!TypeOK /\ Delivery!BlockedIsRefused
                       /\ Delivery!ActiveIsDelivered /\ Delivery!LiveliestWins

\* Whoever a policy lets send has an edge, a stale permission or an entrypoint, but
\* for the forms named there; what is called stale is; and the sender's reading of the
\* policy never contradicts the receiver's.
GrantIsSaid ==
  family = "topics" => Delivery!GrantIsSaid /\ Delivery!StaleIsTrue /\ Delivery!RulesAgree
=============================================================================
