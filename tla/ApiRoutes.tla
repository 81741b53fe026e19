----------------------------- MODULE ApiRoutes -----------------------------
(***************************************************************************)
(* An HTTP API from its account to its edges: the lists the collector      *)
(* reads one after the other (apigateway.go), what it makes of each        *)
(* integration's definition (resolveIntegration), and the edges and        *)
(* findings the linker draws from what it was given (rule_apigw.go).       *)
(*                                                                         *)
(* A definition is a record: kind is the form of its URI or subtype, on    *)
(* the name it carries (StageVariable where the URI is templated), here    *)
(* whether its ARN is of the scanned account and region, vpc whether the   *)
(* connection is a VPC link.  Names repeat across accounts, which is why   *)
(* here matters.                                                           *)
(***************************************************************************)
EXTENDS Sequences

CONSTANTS
    Routes, Authorizers, Stages,
    Definition,     \* [integration id -> its definition]
    Existing,       \* the integrations that exist before the scan
    FirstPage,      \* those the first page of GetIntegrations would hold
    FirstTarget,    \* [Routes -> Existing]
    ValueOf,        \* [Stages -> what the stage gives the variable, or NoName]
    Secret,         \* the stages whose value redaction withholds
    Guards,         \* [Authorizers -> the routes it guards]
    AuthorizerCalls, \* [Authorizers -> <<name, here>>, or <<>> for JWT, Cognito]
    Nodes           \* the names that are nodes of the graph

Integrations == DOMAIN Definition
StageVariable == "${stageVariables.backend}"
NoName == "none"

VARIABLES
    exists,     \* the integrations the API has now
    target,     \* the integration each route has now
    at,         \* the call the collector makes next, then "link", "done"
    byID,       \* the integrations it read
    routes,     \* the routes it read, each with the integration it found
    stages,     \* the stages it read
    auths,      \* the authorizers it read
    warned,     \* the calls that were denied
    late,       \* routes whose integration came after GetIntegrations
    linked,     \* routes and authorizers the linker went through
    edges,      \* <<route or authorizer, kind, node>>
    findings    \* <<route or authorizer, what it is about>>

vars == <<exists, target, at, byID, routes, stages, auths, warned, late,
          linked, edges, findings>>
collected == <<byID, routes, stages, auths, warned, late>>
drawn == <<linked, edges, findings>>

NoIntegration == "nil"
Kinds == {"mock", "http", "garbled", "listener", "cloudmap", "states",
          "invoke", "function", "path", "send"}

(* A VPC link leads into the scanned account, and all that is read of its  *)
(* URL is the host; routes and authorizers have ids of their own.          *)
ApiAssumption ==
    /\ Existing \cup FirstPage \subseteq Integrations /\ NoIntegration \notin Integrations
    /\ FirstTarget \in [Routes -> Existing] /\ Routes \cap Authorizers = {}
    /\ \A i \in Integrations :
          /\ DOMAIN Definition[i] = {"kind", "on", "here", "vpc"}
          /\ Definition[i].kind \in Kinds /\ Definition[i].here \in BOOLEAN
          /\ Definition[i].vpc => Definition[i].here /\ Definition[i].kind # "garbled"
    /\ \A a \in Authorizers :
          AuthorizerCalls[a] = <<>> \/ AuthorizerCalls[a] \in STRING \X BOOLEAN

----------------------------------------------------------------------------
(* resolveIntegration: service and target from the definition alone.       *)

Templated(d) == d.on = StageVariable

Service(d) ==
    CASE Templated(d) -> "templated"
      [] d.kind \in {"invoke", "function"} -> "lambda"
      [] d.kind \in {"path", "send"} -> "sqs"
      [] OTHER -> d.kind     \* mock, http, garbled, listener, cloudmap, states

(* <<>> is the nil target: a queue named in a withheld mapping template or  *)
(* by a parameter that is no https literal is not in the definition.       *)
Target(d) ==
    IF d.kind \in {"invoke", "function", "path"} THEN <<d.on, d.here>> ELSE <<>>

----------------------------------------------------------------------------
(* The account, while the collector reads it.                              *)

Create(i) ==
    /\ at \in {"integrations", "routes"} /\ i \notin exists
    /\ exists' = exists \cup {i}
    /\ UNCHANGED <<target, at, collected, drawn>>

Retarget(r, i) ==
    /\ at \in {"integrations", "routes"} /\ i \in exists /\ target[r] # i
    /\ target' = [target EXCEPT ![r] = i]
    /\ UNCHANGED <<exists, at, collected, drawn>>

----------------------------------------------------------------------------
(* collectAPI.  A denied list keeps the pages it had (v2List), warns and   *)
(* goes on.                                                                *)

Lists(all, got, call) ==
    \/ got = all /\ warned' = warned
    \/ got # all /\ warned' = warned \cup {call}

GetIntegrations(got) ==
    /\ at = "integrations" /\ got \subseteq exists
    /\ Lists(exists, got, "GetIntegrations")
    /\ byID' = got /\ at' = "routes"
    /\ UNCHANGED <<exists, target, routes, stages, auths, late, drawn>>

IntegrationOf(r) == IF target[r] \in byID THEN target[r] ELSE NoIntegration

GetRoutes(got) ==
    /\ at = "routes" /\ got \subseteq Routes
    /\ Lists(Routes, got, "GetRoutes")
    /\ routes' = [r \in got |-> IntegrationOf(r)]
    /\ late' = IF "GetIntegrations" \in warned THEN {}
               ELSE {r \in got : target[r] \notin byID}
    /\ at' = "stages"
    /\ UNCHANGED <<exists, target, byID, stages, auths, drawn>>

GetStages(got) ==
    /\ at = "stages" /\ got \subseteq Stages
    /\ Lists(Stages, got, "GetStages")
    /\ stages' = got /\ at' = "authorizers"
    /\ UNCHANGED <<exists, target, byID, routes, auths, late, drawn>>

GetAuthorizers(got) ==
    /\ at = "authorizers" /\ got \subseteq Authorizers
    /\ Lists(Authorizers, got, "GetAuthorizers")
    /\ auths' = got /\ at' = "link"
    /\ UNCHANGED <<exists, target, byID, routes, stages, late, drawn>>

----------------------------------------------------------------------------
(* The linker.  What one reference comes to is a pair of sets: edges and   *)
(* findings.                                                               *)

Nothing == [edges |-> {}, findings |-> {}]
Edge(from, kind, to) ==
    IF to \in Nodes THEN [edges |-> {<<from, kind, to>>}, findings |-> {}]
    ELSE [edges |-> {}, findings |-> {<<from, to>>}]
Unresolved(from, about) == [edges |-> {}, findings |-> {<<from, about>>}]

LocalByName(from, kind, ref) ==
    IF ref = <<>> THEN Nothing ELSE Edge(from, kind, ref[1])
Local(from, kind, ref) ==
    CASE ref = <<>> -> Nothing
      [] ref # <<>> /\ ~ref[2] -> Unresolved(from, ref[1])
      [] OTHER -> Edge(from, kind, ref[1])

(* linkIntegration, for service and ref resolved by the collector or here. *)
LinkIntegration(r, service, ref, d) ==
    CASE service = "mock" -> Nothing
      [] service = "lambda" -> Local(r, "invoke", ref)
      [] service = "sqs" -> Local(r, "publish", ref)
      [] service = "http" /\ ~d.vpc ->
            [edges |-> {<<r, "external", d.on>>}, findings |-> {}]
      [] service = "garbled" -> Nothing     \* a URL External refuses
      [] service = "http" /\ d.vpc /\ d.on \in Nodes -> Edge(r, "http", d.on)
      [] service = "listener" /\ d.on \in Nodes /\ d.here -> Edge(r, "http", d.on)
      [] OTHER -> Unresolved(r, d.on)

Substitutes(s) == s \in stages /\ ValueOf[s] # NoName /\ s \notin Secret
Substituted(d, s) == [d EXCEPT !.on = ValueOf[s]]

(* One stage of a templated URI: every arn:aws:apigateway: one is taken     *)
(* for a function's, and a queue's path or a service's action names none.  *)
Resolves(d, s) == Substitutes(s) /\ d.kind \notin {"mock", "listener", "cloudmap"}
LinkStage(r, d, s) ==
    LET sd == Substituted(d, s)
    IN  IF d.kind \in {"http", "garbled"} THEN LinkIntegration(r, d.kind, <<>>, sd)
        ELSE LinkIntegration(r, "lambda",
                             IF d.kind \in {"invoke", "function"} THEN Target(sd) ELSE <<>>, sd)

Drawn(comes) == [edges |-> UNION {c.edges : c \in comes},
                 findings |-> UNION {c.findings : c \in comes}]

LinkTemplatedOnce(r, d) ==
    LET by == {s \in Stages : Resolves(d, s)}
    IN  IF by = {} THEN Unresolved(r, d.on) ELSE LinkStage(r, d, CHOOSE s \in by : TRUE)
LinkTemplatedQuietly(r, d) == Drawn({LinkStage(r, d, s) : s \in {x \in Stages : Resolves(d, x)}})
LinkTemplated(r, d) ==
    LET by == {s \in Stages : Resolves(d, s)}
    IN  IF by = {} THEN Unresolved(r, d.on) ELSE Drawn({LinkStage(r, d, s) : s \in by})

Link(r) ==
    IF routes[r] = NoIntegration THEN Nothing
    ELSE LET d == Definition[routes[r]]
         IN  IF Templated(d) THEN LinkTemplated(r, d)
             ELSE LinkIntegration(r, Service(d), Target(d), d)

Draw(x, come) ==
    /\ linked' = linked \cup {x}
    /\ edges' = edges \cup come.edges
    /\ findings' = findings \cup come.findings
    /\ UNCHANGED <<exists, target, at, collected>>

LinkRoute(r) == at = "link" /\ r \in DOMAIN routes \ linked /\ Draw(r, Link(r))

LinkAuthorizer(a) ==
    /\ at = "link" /\ a \in auths \ linked
    /\ Draw(a, IF Guards[a] \cap DOMAIN routes = {} THEN Nothing
               ELSE Local(a, "invoke", AuthorizerCalls[a]))

Finish ==
    /\ at = "link" /\ DOMAIN routes \cup auths \subseteq linked /\ at' = "done"
    /\ UNCHANGED <<exists, target, collected, drawn>>

Init ==
    /\ exists = Existing /\ target = FirstTarget /\ at = "integrations"
    /\ byID = {} /\ routes = [r \in {} |-> NoIntegration] /\ stages = {}
    /\ auths = {} /\ warned = {} /\ late = {}
    /\ linked = {} /\ edges = {} /\ findings = {}

Done == at = "done" /\ UNCHANGED vars

Next ==
    \/ \E i \in Integrations : Create(i)
    \/ \E got \in {{}, FirstPage \cap exists, exists} : GetIntegrations(got)
    \/ \E r \in Routes, i \in Integrations : Retarget(r, i)
    \/ \E got \in SUBSET Routes : GetRoutes(got)
    \/ \E got \in SUBSET Stages : GetStages(got)
    \/ \E got \in SUBSET Authorizers : GetAuthorizers(got)
    \/ \E r \in Routes : LinkRoute(r)
    \/ \E a \in Authorizers : LinkAuthorizer(a)
    \/ Finish
    \/ Done

Spec == Init /\ [][Next]_vars

----------------------------------------------------------------------------
(* The types: what was read is of the API, and only read routes and        *)
(* authorizers have edges or findings.                                     *)
TypeOK ==
    /\ exists \subseteq Integrations /\ target \in [Routes -> Integrations]
    /\ byID \subseteq exists /\ DOMAIN routes \subseteq Routes
    /\ stages \subseteq Stages /\ auths \subseteq Authorizers
    /\ late \subseteq DOMAIN routes /\ linked \subseteq DOMAIN routes \cup auths
    /\ \A r \in DOMAIN routes : routes[r] \in byID \cup {NoIntegration}
    /\ {e[1] : e \in edges} \cup {f[1] : f \in findings} \subseteq linked

(* What an integration really calls, whatever the scan could read of it:   *)
(* the name and whether it is of this account, for every stage.            *)
Calls(d) ==
    IF Templated(d) THEN {<<ValueOf[s], d.here>> : s \in Stages} ELSE {<<d.on, d.here>>}

(* An edge of the map is a call requests can really make: what it leads to *)
(* is what the route's integration calls in some stage, in this account    *)
(* unless it left it for the internet, and an authorizer's edge is that of *)
(* one that runs (linkIntegration, Local, apiAuthorizerRule).              *)
EdgeIsTrue ==
    \A e \in edges :
        IF e[1] \in Authorizers
        THEN Guards[e[1]] # {} /\ AuthorizerCalls[e[1]] = <<e[3], TRUE>>
        ELSE LET d == Definition[routes[e[1]]]
                 called == IF e[2] = "external" THEN {FALSE, TRUE} ELSE {TRUE}
             IN  \E here \in called : <<e[3], here>> \in Calls(d)

(* The definitions the linker drops without a word: a queue the definition *)
(* does not name, a URL that does not parse, and a templated URI of a      *)
(* service other than Lambda that some stage completes.                    *)
Silent(d) ==
    \/ d.kind \in {"send", "garbled"}
    \/ d.kind \in {"path", "states"} /\ Templated(d)

(* A route of a finished link has its edge or its finding: what silently   *)
(* disappears is only what API Gateway answers itself, a route moved to an *)
(* integration made between GetIntegrations and GetRoutes, an integration  *)
(* a warning speaks of, or one of the Silent forms.                        *)
RouteAccounted ==
    at = "done" => \A r \in DOMAIN routes :
        \/ \E x \in edges \cup findings : x[1] = r
        \/ r \in late
        \/ routes[r] = NoIntegration /\ "GetIntegrations" \in warned
        \/ routes[r] # NoIntegration /\ Definition[routes[r]].kind = "mock"
        \/ routes[r] # NoIntegration /\ Silent(Definition[routes[r]])

(* A templated integration counts once per stage that resolves it: each    *)
(* readable stage's backend is drawn or reported, not only the first's     *)
(* (linkTemplated loops over the stages), for the forms a stage's value    *)
(* completes to something linkTemplated tells.                             *)
EveryStageCounts ==
    at = "done" => \A r \in DOMAIN routes :
        LET d == Definition[routes[r]]
        IN  (routes[r] # NoIntegration /\ Templated(d) /\ d.kind \in {"invoke", "function", "http"}) =>
                \A s \in {v \in stages \ Secret : ValueOf[v] # NoName} :
                    \E x \in edges \cup findings : x[1] = r /\ x[Len(x)] = ValueOf[s]
=============================================================================
