---------------------------- MODULE MCStateRules ----------------------------
(* A small account for each family of rules. *)
EXTENDS StateRules

(* A public balancer with two listeners, one with two pages of rules; a        *)
(* network balancer that forwards to it; a gateway one; a group of every type, *)
(* one of them reached by no balancer, one by no service; a service in a group *)
(* that is gone.                                                               *)
MCBalancerPages == <<"public", "edge", "gateway">>
MCTypeOf == [public |-> "application", edge |-> "network", gateway |-> "gateway"]
MCFacing == {"public"}
MCListenersOf == [public |-> <<"l80", "l443">>, edge |-> <<"n80">>, gateway |-> <<>>]
MCRulePages ==
  [l80  |-> <<{{"web"}}>>,
   l443 |-> <<{{"hosts"}, {"web"}}, {{"fn", "web"}}>>]
MCDefaultTo == [l80 |-> {"web"}, l443 |-> {"hosts"}, n80 |-> {"alb"}]
MCGroupPages == <<"web", "fn", "alb", "hosts", "idle">>
MCTargetType == [web |-> "ip", fn |-> "lambda", alb |-> "alb", hosts |-> "instance", idle |-> "ip"]
MCTargetsOf == [web |-> {}, fn |-> {"orders-fn", "gone-fn"}, alb |-> {"public"}, hosts |-> {}, idle |-> {}]
MCRegisters == [api |-> {"web"}, jobs |-> {"idle"}, legacy |-> {"gone"}]
MCBalancerNodes == {"api", "jobs", "legacy", "orders-fn"}

(* Two or three routes over integrations of every form: a function here and    *)
(* its namesake elsewhere, a deleted one, queues, a third party, VPC links,    *)
(* templated URIs; three stages, one of them with a withheld value.            *)
Variable == "${stageVariables.backend}"
Def(kind, on, here, vpc) == [kind |-> kind, on |-> on, here |-> here, vpc |-> vpc]
MCDefinition ==
  [fn |-> Def("invoke", "orders", TRUE, FALSE),
   arn |-> Def("function", "gone", TRUE, FALSE),
   twin |-> Def("invoke", "orders", FALSE, FALSE),
   path |-> Def("path", "jobs", TRUE, FALSE),
   flow |-> Def("states", "flow", TRUE, FALSE),
   url |-> Def("http", "pay", TRUE, FALSE),
   nlb |-> Def("http", "edge", TRUE, TRUE),
   lost |-> Def("http", "else", TRUE, TRUE),
   alb |-> Def("listener", "edge", TRUE, TRUE),
   map |-> Def("cloudmap", "ns", TRUE, TRUE),
   send |-> Def("send", "jobs", TRUE, FALSE),
   mock |-> Def("mock", "mock", TRUE, FALSE),
   bad |-> Def("garbled", "pay", TRUE, FALSE),
   tfn |-> Def("invoke", Variable, TRUE, FALSE),
   turl |-> Def("http", Variable, TRUE, FALSE),
   tflow |-> Def("states", Variable, TRUE, FALSE)]
MCRoutes == {"get", "post"}
MCAuthorizers == {"guard", "unused"}
MCStages == {"dev", "live", "beta"}
MCExisting == DOMAIN MCDefinition \ {"fn"}
MCFirstPage == {"tfn", "fn", "path"}
MCFirst == [r \in MCRoutes |-> IF r = "get" THEN "tfn" ELSE "twin"]
MCValueOf == [dev |-> "orders", live |-> "bills", beta |-> "hidden"]
MCSecret == {"beta"}
MCGuards == [guard |-> {"get"}, unused |-> {}]
MCCalls == [guard |-> <<"orders", TRUE>>, unused |-> <<"orders", TRUE>>]
MCApiNodes == {"orders", "jobs", "edge"}

(* Two topics, a queue, a function and a dead-letter queue; up to three        *)
(* subscriptions each; the queue's policy in every form beside a few of the    *)
(* function's, and the other way round; two mappings of one pair, on and off.  *)
Nowhere == "none"   \* no source in a condition, no dead-letter queue
St(who, source) == [allow |-> TRUE, action |-> "yes", who |-> who, source |-> source,
                    besides |-> {}, own |-> FALSE, met |-> TRUE]
MCTopics == {"events", "quiet"}
MCQueues == {"jobs"}
MCFunctions == {"fn"}
MCPatterned == {"events"}
Own == [St("anyone", Nowhere) EXCEPT !.own = TRUE]
Events == St("sns", "events")
Forms ==
  {{st} : st \in {Own, St("anyone", "events"), St("sns", "foreign"), St("sns", Nowhere),
    St("other", Nowhere), St("service", Nowhere), St("role", Nowhere), St("notOthers", Nowhere),
    St("notSns", Nowhere), [Events EXCEPT !.action = "butThis"], [Events EXCEPT !.action = "butOthers"],
    [Events EXCEPT !.action = "wild"], [St("sns", "quiet") EXCEPT !.action = "no"],
    [Events EXCEPT !.met = FALSE], [St("sns", "foreign") EXCEPT !.besides = {"events"}]}}
  \cup {{St("sns", "quiet"), St("sns", "pattern")},
        {Events, [St("anyone", Nowhere) EXCEPT !.allow = FALSE]},
        {Events, [Events EXCEPT !.allow = FALSE, !.met = FALSE]}}
Few == {{}, {Events}}
PolicyOf(events, jobs, fn) ==
  [x \in MCTopics \cup MCQueues \cup MCFunctions |->
     CASE x = "quiet" -> {Own} [] x = "events" -> events [] x = "jobs" -> jobs [] x = "fn" -> fn]
MCPolicies ==
  {PolicyOf({Own}, p[1], p[2]) : p \in ((Forms \cup Few) \X Few) \cup (Few \X Forms)}
  \cup {PolicyOf({St("service", Nowhere)}, p, p) : p \in Few}
\* One not confirmed is listed without an ARN, unless it has attributes worth asking for.
Sub(to, here, pending, dlq) ==
  [to |-> to, here |-> here, pending |-> pending, arn |-> ~pending \/ dlq # Nowhere, dlq |-> dlq]
MCSubscribing ==
 [quiet |-> {{}, {Sub("jobs", TRUE, TRUE, Nowhere)}}, events |->
  {{}, {Sub("jobs", TRUE, FALSE, Nowhere), Sub("jobs", TRUE, TRUE, Nowhere)},
   {Sub("fn", TRUE, FALSE, "jobs")}, {Sub("fn", TRUE, TRUE, "jobs"), Sub("jobs", FALSE, FALSE, Nowhere)},
   {Sub("url", TRUE, FALSE, Nowhere), Sub("stream", TRUE, FALSE, Nowhere), Sub("person", TRUE, FALSE, Nowhere)}}]
Mapping(from, here, enabled) == [from |-> from, to |-> "fn", here |-> here, enabled |-> enabled]
MCMappings == {Mapping("jobs", TRUE, "on"), Mapping("jobs", TRUE, "off"), Mapping("stream", FALSE, "unknown")}
MCDeadLetters == {[from |-> "jobs", to |-> "jobs", here |-> FALSE]}
=============================================================================
