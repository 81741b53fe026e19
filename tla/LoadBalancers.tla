--------------------------- MODULE LoadBalancers ----------------------------
(***************************************************************************)
(* ELBv2.Collect and the linker's rules over what it leaves behind: from   *)
(* the listener rules of an account, some of which may not be read, to the *)
(* edges that say where its traffic goes.  A rule is the set of groups it  *)
(* forwards to; that rules are sorted by priority changes no edge.         *)
(***************************************************************************)
EXTENDS Integers, Sequences

CONSTANTS
  BalancerPages, GroupPages, \* the listings, in order: a page holds one
  TypeOf,      \* of a balancer: "application", "network" or "gateway"
  Facing,      \* the internet-facing ones
  ListenersOf, \* of a balancer, its listeners
  RulePages,   \* of an application listener, the pages of rules DescribeRules returns
  DefaultTo,   \* of a listener, the groups its default actions forward to
  TargetType,  \* of a group: "ip", "instance", "lambda" or "alb"
  TargetsOf,   \* of a lambda or alb group, the resources registered in it
  Registers,   \* of an ECS service, the groups it names, one of which may be gone
  Nodes        \* the services and functions of the inventory

SeqToSet(s) == {s[k] : k \in DOMAIN s}

Groups == SeqToSet(GroupPages)
Services == DOMAIN Registers

\* "An Application Load Balancer's rules include its default"; only functions and
\* balancers are registered by name; the services are nodes, and no balancer's id
\* is a service's.
BalancerAssumption ==
  /\ BalancerPages \in Seq(DOMAIN TypeOf) /\ GroupPages \in Seq(DOMAIN TargetType)
  /\ DOMAIN ListenersOf = SeqToSet(BalancerPages)
  /\ \A b \in DOMAIN ListenersOf : ListenersOf[b] \in Seq(DOMAIN DefaultTo)
  /\ \A l \in DOMAIN DefaultTo : DefaultTo[l] \subseteq Groups
  /\ \A b \in DOMAIN ListenersOf : TypeOf[b] = "application" =>
       \A l \in SeqToSet(ListenersOf[b]) :
         /\ RulePages[l] \in Seq(SUBSET SUBSET Groups)
         /\ DefaultTo[l] \in UNION SeqToSet(RulePages[l])
  /\ \A t \in Groups : TargetType[t] \notin {"lambda", "alb"} => TargetsOf[t] = {}
  /\ Services \subseteq Nodes /\ Services \cap SeqToSet(BalancerPages) = {}

VARIABLES
  at, page,
  lbs, tgs,   \* listed and kept, in order
  gateways,   \* listed and not kept
  open,       \* listeners of Head(lbs) still to be read
  rules,      \* of Head(open), those read so far
  read,       \* listeners of Head(lbs) that were read, with their rules
  invLbs,     \* emitted, with their listeners
  invTgs,     \* emitted, with their targets
  warnings, result,
  graph       \* edges, findings and triggers, once Link has run

collecting == <<lbs, tgs, gateways, open, rules, read>>
vars == <<at, page, collecting, invLbs, invTgs, warnings, result, graph>>

None == [edges |-> {}, findings |-> {}, triggers |-> {}]

Init ==
  /\ at = "balancers" /\ page = 1
  /\ lbs = <<>> /\ tgs = <<>> /\ gateways = {} /\ open = <<>> /\ rules = {} /\ read = {}
  /\ invLbs = {} /\ invTgs = {} /\ warnings = {} /\ result = "running" /\ graph = None

Asks(op) == result = "running" /\ at = op

\* Any other error ends the collector.
Fail ==
  /\ result = "running" /\ result' = "error"
  /\ at = "listeners" => lbs # <<>> \/ tgs # <<>>
  /\ UNCHANGED <<at, page, collecting, invLbs, invTgs, warnings, graph>>

\* A page of balancers, the gateway ones apart.
ListBalancers ==
  /\ Asks("balancers") /\ page <= Len(BalancerPages)
  /\ LET b == BalancerPages[page] IN
     IF TypeOf[b] = "gateway" THEN gateways' = gateways \cup {b} /\ UNCHANGED lbs
     ELSE lbs' = Append(lbs, b) /\ UNCHANGED gateways
  /\ page' = page + 1
  /\ UNCHANGED <<at, tgs, open, rules, read, invLbs, invTgs, warnings, result, graph>>

ListGroups ==
  /\ Asks("groups") /\ page <= Len(GroupPages)
  /\ tgs' = Append(tgs, GroupPages[page]) /\ page' = page + 1
  /\ UNCHANGED <<at, lbs, open, rules, read, invLbs, invTgs, warnings, result, graph, gateways>>

\* The end of either listing, or a denied page, which keeps what was listed. Only after
\* the groups are the gateway balancers reported, each as out of scope.
EndListing ==
  LET end == IF at = "balancers" THEN Len(BalancerPages) ELSE Len(GroupPages)
      outOfScope == IF at = "groups" THEN {<<"out-of-scope", b>> : b \in gateways} ELSE {} IN
  /\ Asks("balancers") \/ Asks("groups")
  /\ \/ page > end /\ warnings' = warnings \cup outOfScope
     \/ warnings' = warnings \cup {<<at, "">>} \cup outOfScope
  /\ at' = IF at = "balancers" THEN "groups" ELSE "tags"
  /\ page' = 1
  /\ UNCHANGED <<collecting, invLbs, invTgs, result, graph>>

\* tags, in batches: a denial ends them, and costs nothing else.
Tags ==
  /\ Asks("tags") /\ at' = "listeners"
  /\ warnings' \in {warnings, warnings \cup {<<"tags", "">>}}
  /\ open' = IF lbs = <<>> THEN <<>> ELSE ListenersOf[Head(lbs)]
  /\ UNCHANGED <<page, lbs, tgs, rules, read, invLbs, invTgs, result, graph, gateways>>

Listener == Head(open)
IsApplication == TypeOf[Head(lbs)] = "application"

\* A page of rules.
ReadRules ==
  /\ Asks("listeners") /\ open # <<>> /\ IsApplication
  /\ page <= Len(RulePages[Listener])
  /\ rules' = rules \cup RulePages[Listener][page] /\ page' = page + 1
  /\ UNCHANGED <<at, lbs, tgs, open, read, invLbs, invTgs, warnings, result, graph, gateways>>

\* Mutant of Complete: a listener without rules has none.
CompleteBare(rs) == rs

\* What a listener's spec holds: its rules, or its default actions when there are none.
Complete(rs) == IF rs = {} THEN {DefaultTo[Listener]} ELSE rs

\* The listener's rules are all read, or it is not asked for any.
EndRules ==
  /\ Asks("listeners") /\ open # <<>>
  /\ IsApplication => page > Len(RulePages[Listener])
  /\ read' = read \cup {[id |-> Listener, rules |-> Complete(rules)]}
  /\ open' = Tail(open) /\ rules' = {} /\ page' = 1
  /\ UNCHANGED <<at, lbs, tgs, invLbs, invTgs, warnings, result, graph, gateways>>

\* A denied page of rules: the early return hands back those read.
DenyRules ==
  /\ Asks("listeners") /\ open # <<>> /\ IsApplication
  /\ page <= Len(RulePages[Listener])
  /\ read' = read \cup {[id |-> Listener, rules |-> Complete(rules)]}
  /\ open' = Tail(open) /\ rules' = {} /\ page' = 1
  /\ warnings' = warnings \cup {<<"rules", Listener>>}
  /\ UNCHANGED <<at, lbs, tgs, invLbs, invTgs, result, graph, gateways>>

\* A denied page of listeners: the balancer keeps those it has. It is emitted when
\* its listeners are done, and the next one's begin.
EmitBalancer ==
  /\ Asks("listeners") /\ lbs # <<>> /\ rules = {} /\ page = 1
  /\ warnings' \in {w \in {warnings, warnings \cup {<<"listeners", Head(lbs)>>}} :
                      open = <<>> \/ w # warnings}
  /\ invLbs' = invLbs \cup {[id |-> Head(lbs), listeners |-> read]}
  /\ lbs' = Tail(lbs) /\ read' = {}
  /\ open' = IF lbs' = <<>> THEN <<>> ELSE ListenersOf[Head(lbs')]
  /\ UNCHANGED <<at, page, tgs, rules, invTgs, result, graph, gateways>>

\* Mutant of EmitGroup: a group whose health is denied is not emitted.
EmitGroupHealthy ==
  LET t == Head(tgs)
      asked == TargetType[t] \in {"lambda", "alb"} IN
  /\ Asks("listeners") /\ lbs = <<>> /\ tgs # <<>>
  /\ \/ /\ invTgs' = invTgs \cup {[id |-> t, targets |-> IF asked THEN TargetsOf[t] ELSE {}]}
        /\ UNCHANGED warnings
     \/ asked /\ warnings' = warnings \cup {<<"health", "">>} /\ UNCHANGED invTgs
  /\ tgs' = Tail(tgs)
  /\ UNCHANGED <<at, page, lbs, open, rules, read, invLbs, result, graph, gateways>>

\* targetGroup: only lambda and alb targets are asked for; a denial costs them.
EmitGroup ==
  LET t == Head(tgs)
      asked == TargetType[t] \in {"lambda", "alb"}
      with(targets) == invTgs' = invTgs \cup {[id |-> t, targets |-> targets]} IN
  /\ Asks("listeners") /\ lbs = <<>> /\ tgs # <<>>
  /\ \/ with(IF asked THEN TargetsOf[t] ELSE {}) /\ UNCHANGED warnings
     \/ asked /\ with({}) /\ warnings' = warnings \cup {<<"health", t>>}
  /\ tgs' = Tail(tgs)
  /\ UNCHANGED <<at, page, lbs, open, rules, read, invLbs, result, graph, gateways>>
-----------------------------------------------------------------------------
GroupsRead == {t.id : t \in invTgs}
Targets(t) == UNION {g.targets : g \in {x \in invTgs : x.id = t}}
Registered(t) == {s \in DOMAIN Registers : t \in Registers[s]}

\* Mutant of Forwards: only what a listener does by default.
ForwardsDefault(lb) == UNION {DefaultTo[l.id] : l \in lb.listeners}

\* Every rule's target groups.
Forwards(lb) == UNION {UNION l.rules : l \in lb.listeners}

\* The groups some balancer's rules name, as DescribeTargetGroups has them.
Attached ==
  UNION {UNION {DefaultTo[l] \cup (IF TypeOf[b] # "application" THEN {} ELSE
    UNION {UNION RulePages[l][k] : k \in DOMAIN RulePages[l]}) :
      l \in SeqToSet(ListenersOf[b])} : b \in SeqToSet(BalancerPages)}

\* forward, for one group: its services, its targets in the inventory, or word of
\* what it reaches that is not there.
Present == Nodes \cup {b.id : b \in invLbs}
Reaches(t) == IF t \in GroupsRead THEN (Registered(t) \cup Targets(t)) \cap Present ELSE {}
Missing(t) ==
  IF t \notin GroupsRead THEN {t}
  ELSE (Targets(t) \ Present) \cup
       (IF TargetType[t] \in {"ip", "instance"} /\ Registered(t) = {} THEN {t} ELSE {})

\* <<b, t>>: some rule of b, as the inventory has it, sends to t.
Sent == UNION {{<<b.id, t>> : t \in Forwards(b)} : b \in invLbs}

\* Mutant of ServiceSays: a service is an entrypoint for registering anywhere.
ServiceSaysMore(s) ==
  [trigger |-> Registers[s] # {}, unreached |-> {t \in Registers[s] : t \in GroupsRead \ Attached}]

\* loadBalancerRule: an entrypoint when a group of its is not in the inventory; a
\* finding when no balancer forwards to it.
ServiceSays(s) ==
  [trigger   |-> Registers[s] \ GroupsRead # {},
   unreached |-> {t \in Registers[s] : t \in GroupsRead \ Attached}]

\* elbListenerRule and loadBalancerRule over the whole inventory.
Link ==
  /\ Asks("listeners") /\ lbs = <<>> /\ tgs = <<>> /\ result' = "nil"
  /\ graph' =
       [edges    |-> UNION {{<<f[1], n>> : n \in Reaches(f[2])} : f \in Sent},
        findings |-> UNION {{<<f[1], m>> : m \in Missing(f[2])} : f \in Sent}
                       \cup UNION {{<<s, t>> : t \in ServiceSays(s).unreached} : s \in Services},
        triggers |-> {b.id : b \in {x \in invLbs : x.id \in Facing}}
                       \cup {s \in Services : ServiceSays(s).trigger}]
  /\ UNCHANGED <<at, page, collecting, invLbs, invTgs, warnings>>

Done == result # "running" /\ UNCHANGED vars

Next ==
  \/ ListBalancers \/ ListGroups \/ EndListing \/ Tags \/ ReadRules \/ EndRules \/ DenyRules
  \/ EmitBalancer \/ EmitGroup \/ Link \/ Fail \/ Done

Spec == Init /\ [][Next]_vars
-----------------------------------------------------------------------------
TypeOK ==
  /\ SeqToSet(lbs) \cup {b.id : b \in invLbs} \subseteq SeqToSet(BalancerPages)
  /\ SeqToSet(tgs) \cup GroupsRead \subseteq Groups
  /\ \A b \in invLbs : {l.id : l \in b.listeners} \subseteq SeqToSet(ListenersOf[b.id])
  /\ result \in {"running", "nil", "error"}

\* What the account really does: balancer b sends requests to t by listener l.
Forwarding ==
  {f \in SeqToSet(BalancerPages) \X (DOMAIN DefaultTo) \X Groups :
     LET b == f[1]
         l == f[2]
         t == f[3]
     IN  /\ TypeOf[b] # "gateway" /\ l \in SeqToSet(ListenersOf[b])
         /\ \/ t \in DefaultTo[l]
            \/ /\ TypeOf[b] = "application"
               /\ \E k \in DOMAIN RulePages[l] : \E r \in RulePages[l][k] : t \in r}

\* The calls a route was learnt by, one of which was denied.
Unheard(b, l, t) ==
  \/ {<<"balancers", "">>, <<"listeners", b>>, <<"rules", l>>} \cap warnings # {}
  \/ t \notin GroupsRead

\* "What it cannot reach is said": whatever receives a balancer's traffic has an
\* edge from it, or is reported, or the very call that would have told was denied.
NoRouteLostInSilence ==
  result = "nil" => \A r \in Forwarding :
    \/ Unheard(r[1], r[2], r[3])
    \/ \A n \in Registered(r[3]) \cup TargetsOf[r[3]] :
         \/ <<r[1], n>> \in graph.edges \/ <<r[1], n>> \in graph.findings
         \/ <<"health", r[3]>> \in warnings

\* "A denial costs" only what it would have read: a target group that was listed is
\* in the inventory with whatever its other calls gave.
ListedIsEmitted ==
  result = "nil" => /\ <<"groups", "">> \notin warnings => GroupsRead = Groups
                    /\ <<"balancers", "">> \notin warnings =>
                         \A b \in SeqToSet(BalancerPages) :
                           TypeOf[b] # "gateway" => \E x \in invLbs : x.id = b

\* "The entrypoint the services behind it used to be": a service marked an
\* entrypoint on its declaration alone is one whose group nothing was read of, the
\* listing having been denied or the group being gone; and
\* a service the internet reaches is marked, or has a marked balancer before it,
\* unless a call that would have told was denied.
EntrypointsKnown ==
  result = "nil" =>
    /\ \A s \in graph.triggers \cap DOMAIN Registers :
         <<"groups", "">> \in warnings \/ ~(Registers[s] \subseteq Groups)
    /\ \A r \in Forwarding : r[1] \in Facing => \A s \in Registered(r[3]) :
         \/ s \in graph.triggers \/ \E b \in graph.triggers : <<b, s>> \in graph.edges
         \/ {<<"balancers", "">>, <<"listeners", r[1]>>, <<"rules", r[2]>>} \cap warnings # {}

\* "A Network Load Balancer has no rules, only its listener's default actions", and
\* a listener whose rules could not be read at all still has those.
NoListenerWithoutRules == \A b \in invLbs : \A l \in b.listeners : l.rules # {}
=============================================================================
