---------------------------- MODULE EcsCollector ----------------------------
(***************************************************************************)
(* ECS.Collect: the clusters, described in batches; for each, its          *)
(* services, described in batches; and at the end every task definition a  *)
(* service named, once.  A resource is <<type, scope, name>>.              *)
(***************************************************************************)
EXTENDS Integers, Sequences, FiniteSets, AwsCalls

CONSTANTS
  ClusterPages,  \* the pages of ListClusters: sets of cluster names
  ServicePages,  \* of a cluster, the pages of ListServices
  Definition,    \* of a cluster and a service name, its task definition, or ""
  ClustersBatch, ServicesBatch \* describeClustersBatch, describeServicesBatch

AllOf(pages) == UNION {pages[k] : k \in DOMAIN pages}

\* There is a first page.
EcsAssumption ==
  /\ ClustersBatch \in Nat \ {0} /\ ServicesBatch \in Nat \ {0}
  /\ ClusterPages \in Seq(SUBSET STRING) \ {<<>>}
  /\ \A c \in AllOf(ClusterPages) : ServicePages[c] \in Seq(SUBSET STRING)

Cluster(c) == <<"cluster", "", c>>
Service(c, n) == <<"service", c, n>>
TaskDef(f) == <<"taskdef", "", f>>

Clusters == {Cluster(c) : c \in AllOf(ClusterPages)}
Services == UNION {{Service(c, n) : n \in AllOf(ServicePages[c])} : c \in AllOf(ClusterPages)}
DefinitionOf(s) == Definition[s[2]][s[3]]
TaskDefs == {TaskDef(DefinitionOf(s)) : s \in {x \in Services : DefinitionOf(x) # ""}}

\* Mutant of Id: a service goes by its bare name.
IdUnscoped(x) == IF x[1] = "service" THEN <<"ecs", x[3]>> ELSE <<"ecs", x[1], x[3]>>

\* "ecs/cluster/<name>", "ecs/<cluster>/<name>", "ecs/taskdef/<family>:<revision>".
Id(x) == <<"ecs", IF x[1] = "service" THEN x[2] ELSE x[1], x[3]>>

VARIABLES
  alive,
  at,        \* "clusters", "describe", "services", "batches" or "definitions"
  page,      \* the next page of the listing
  arns,      \* cluster names listed and not yet described
  described, \* described clusters whose turn has not ended
  names,     \* services of the one whose turn it is, listed and not yet described
  taskDefs,  \* the set collectServices adds to
  emitted, lost, warnings, result

Current == CHOOSE c \in described : TRUE

lists == <<arns, described, names>>
vars == <<alive, at, page, lists, taskDefs, emitted, lost, warnings, result>>

Init ==
  /\ alive = Clusters \cup Services \cup TaskDefs
  /\ at = "clusters" /\ page = 1 /\ arns = {} /\ described = {} /\ names = {}
  /\ taskDefs = {} /\ emitted = {} /\ lost = {} /\ warnings = {} /\ result = "running"

\* The owner deletes a service, or a cluster that has none. A task definition a
\* service has used can be described for good.
Delete(x) ==
  /\ result = "running" /\ x \in alive
  /\ x[1] = "cluster" => \A y \in alive : y[2] # x[3]
  /\ alive' = alive \ {x}
  /\ UNCHANGED <<at, page, lists, taskDefs, emitted, lost, warnings, result>>

Asks(op) == result = "running" /\ at = op

\* Every other error, a vanished cluster among them, ends the collector.
End(answer) ==
  /\ Fails(answer) /\ result' = "error"
  /\ UNCHANGED <<alive, at, page, lists, taskDefs, emitted, lost, warnings>>

\* listClusters: a denied page drops what the pages before it listed.
ListClusters ==
  /\ Asks("clusters")
  /\ \E answer \in Answers(TRUE) :
       \/ /\ answer = "ok"
          /\ arns' = arns \cup {c \in ClusterPages[page] : Cluster(c) \in alive}
          /\ IF page < Len(ClusterPages) THEN page' = page + 1 /\ UNCHANGED at
                                         ELSE page' = 1 /\ at' = "describe"
          /\ UNCHANGED <<alive, described, names, taskDefs, emitted, lost, warnings, result>>
       \/ /\ Degrades(answer) /\ result' = "nil"
          /\ lost' = {Cluster(c) : c \in arns} /\ arns' = {}
          /\ warnings' = warnings \cup {<<"ListClusters", "", "">>}
          /\ UNCHANGED <<alive, at, page, described, names, taskDefs, emitted>>
       \/ End(answer)

\* chunk: a batch is full or the last, and holds what the listing had next, whose
\* order is not known.
Batches(S, n) ==
  {b \in SUBSET S : Cardinality(b) = IF n < Cardinality(S) THEN n ELSE Cardinality(S)}

\* Mutant of DescribeClusters: a cluster that is not in the answer is passed over.
DescribeFoundOnly ==
  /\ Asks("describe") /\ described = {} /\ arns # {}
  /\ \E batch \in Batches(arns, ClustersBatch) :
       /\ arns' = arns \ batch
       /\ described' = {c \in batch : Cluster(c) \in alive}
       /\ lost' = lost \cup {Cluster(c) : c \in batch \ described'}
  /\ UNCHANGED <<alive, at, page, names, taskDefs, emitted, warnings, result>>

\* One batch: what it names and does not find is a warning each; a denial costs the
\* batch and nothing else.
DescribeClusters ==
  /\ Asks("describe") /\ described = {} /\ arns # {}
  /\ \E batch \in Batches(arns, ClustersBatch), answer \in Answers(TRUE) :
       \/ /\ answer = "ok" /\ arns' = arns \ batch
          /\ described' = {c \in batch : Cluster(c) \in alive}
          /\ warnings' = warnings \cup {Cluster(c) : c \in batch \ described'}
          /\ UNCHANGED <<alive, at, page, names, taskDefs, emitted, lost, result>>
       \/ /\ Degrades(answer) /\ arns' = arns \ batch
          /\ lost' = lost \cup {Cluster(c) : c \in batch}
          /\ warnings' = warnings \cup {Cluster(c) : c \in batch}
          /\ UNCHANGED <<alive, at, page, described, names, taskDefs, emitted, result>>
       \/ End(answer)

EmitCluster ==
  /\ Asks("describe") /\ described # {}
  /\ emitted' = emitted \cup {Cluster(Current)}
  /\ at' = "services" /\ page' = 1
  /\ UNCHANGED <<alive, lists, taskDefs, lost, warnings, result>>

\* A page of the cluster's services; a denial drops those listed before.
ListServices ==
  LET c == Current IN
  /\ Asks("services")
  /\ \E answer \in Answers(Cluster(c) \in alive) :
       \/ /\ answer = "ok"
          /\ IF page > Len(ServicePages[c])
             THEN at' = "batches" /\ UNCHANGED <<page, names>>
             ELSE /\ names' = names \cup {n \in ServicePages[c][page] : Service(c, n) \in alive}
                  /\ page' = page + 1 /\ UNCHANGED at
          /\ UNCHANGED <<alive, arns, described, taskDefs, emitted, lost, warnings, result>>
       \/ /\ Degrades(answer) /\ at' = "describe" /\ described' = described \ {c}
          /\ lost' = lost \cup {Service(c, n) : n \in names} /\ names' = {}
          /\ warnings' = warnings \cup {<<"ListServices", c, "">>}
          /\ UNCHANGED <<alive, page, arns, taskDefs, emitted, result>>
       \/ End(answer)

\* Mutant of Learn: the empty name counts for one.
LearnEmpty(found) == {TaskDef(DefinitionOf(x)) : x \in found}

\* Mutant of Learn: one service of a batch speaks for it.
LearnFirst(found) == IF found = {} THEN {} ELSE LearnEmpty({CHOOSE x \in found : TRUE})

\* The task definitions the services of a batch run; an external deployment has
\* none.
Learn(found) == {TaskDef(DefinitionOf(x)) : x \in {y \in found : DefinitionOf(y) # ""}}

\* One batch of services: each emitted under its cluster's name.
DescribeServices ==
  /\ Asks("batches") /\ names # {}
  /\ \E some \in Batches(names, ServicesBatch), answer \in Answers(Cluster(Current) \in alive) :
       LET batch == {Service(Current, n) : n \in some}
           found == batch \cap alive IN
       \/ /\ answer = "ok" /\ names' = names \ some
          /\ emitted' = emitted \cup found
          /\ taskDefs' = taskDefs \cup Learn(found)
          /\ warnings' = warnings \cup (batch \ found)
          /\ UNCHANGED <<alive, at, page, arns, described, lost, result>>
       \/ /\ Degrades(answer) /\ names' = names \ some
          /\ lost' = lost \cup batch /\ warnings' = warnings \cup batch
          /\ UNCHANGED <<alive, at, page, arns, described, taskDefs, emitted, result>>
       \/ End(answer)

\* The services of a cluster are done: the next one.
NextCluster ==
  /\ Asks("batches") /\ names = {}
  /\ described' = described \ {Current} /\ at' = "describe"
  /\ UNCHANGED <<alive, page, arns, names, taskDefs, emitted, lost, warnings, result>>

\* Every cluster is done: the task definitions, each described once.
Definitions ==
  /\ Asks("describe") /\ described = {} /\ arns = {}
  /\ at' = "definitions"
  /\ UNCHANGED <<alive, page, lists, taskDefs, emitted, lost, warnings, result>>

DescribeTaskDefinition(d) ==
  /\ Asks("definitions") /\ d \in taskDefs
  /\ \E answer \in Answers(TRUE) :
       \/ /\ answer = "ok" /\ taskDefs' = taskDefs \ {d} /\ emitted' = emitted \cup {d}
          /\ UNCHANGED <<alive, at, page, lists, lost, warnings, result>>
       \/ /\ Degrades(answer) /\ taskDefs' = taskDefs \ {d}
          /\ lost' = lost \cup {d} /\ warnings' = warnings \cup {d}
          /\ UNCHANGED <<alive, at, page, lists, emitted, result>>
       \/ End(answer)

Return ==
  /\ Asks("definitions") /\ taskDefs = {}
  /\ result' = "nil"
  /\ UNCHANGED <<alive, at, page, lists, taskDefs, emitted, lost, warnings>>

Done == result # "running" /\ UNCHANGED vars

Next ==
  \/ \E x \in Clusters \cup Services : Delete(x)
  \/ ListClusters \/ DescribeClusters \/ EmitCluster \/ ListServices \/ DescribeServices
  \/ NextCluster \/ Definitions \/ Return \/ Done
  \/ \E d \in TaskDefs : DescribeTaskDefinition(d)

Spec == Init /\ [][Next]_vars
-----------------------------------------------------------------------------
Owed ==
  ({Cluster(c) : c \in arns \cup described} \ emitted)
    \cup {Service(Current, n) : n \in names} \cup taskDefs

TypeOK ==
  /\ alive \cup emitted \cup lost \cup taskDefs \subseteq Clusters \cup Services \cup TaskDefs
  /\ at \in {"clusters", "describe", "services", "batches", "definitions"}
  /\ (at \in {"services", "batches"} => described # {}) /\ (names # {} => described # {})
  /\ emitted \cap lost = {} /\ result \in {"running", "nil", "error"}

\* A denial, or a service deleted under the collector's hands, costs its batch: of
\* what exists, only what a denied call was about is missing, and each service is
\* missing under the name of its own cluster's call.
DenialCostsItsBatch ==
  /\ \A x \in lost : x \in warnings \/ <<"ListClusters", "", "">> \in warnings
                       \/ <<"ListServices", x[2], "">> \in warnings
  /\ result = "nil" /\ <<"ListClusters", "", "">> \notin warnings =>
       \A x \in alive \cap (Clusters \cup Services) :
         x \in emitted \cup warnings \/ <<"ListServices", x[2], "">> \in warnings
           \/ Cluster(x[2]) \in lost

\* What the linker starts from: a service in the inventory has its task definition
\* there too, unless a warning names it.
ServiceHasDefinition ==
  result = "nil" => \A x \in emitted : x[1] = "service" /\ DefinitionOf(x) # "" =>
    TaskDef(DefinitionOf(x)) \in emitted \cup warnings

\* "Two different services in accounts that reuse names across clusters": no two
\* resources share an id. "A duplicate ID is a collector bug", and Write refuses
\* the whole inventory.
UniqueIds == \A x, y \in emitted : Id(x) = Id(y) => x = y
=============================================================================
