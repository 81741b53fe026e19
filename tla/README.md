# cloud-echo in TLA+

cloud-echo reads an AWS account (`scan`), writes a normalized inventory, and infers
from it what talks to what (`graph`). This directory models the parts of it whose
correctness depends on order, concurrency or failure, checks them with TLC on small
instances, and proves the central ones with TLAPS for every instance.

## The system

    AWS ──calls──> collectors ──Emit/Warn──> inventory ──file──> linker ──file──> graph
                   (scan.go)                 (inventory.go)      (graph.go, linker.go)

| Part | State | Operations | What is hard about it | What makes it correct |
|---|---|---|---|---|
| scan engine: `discovery/scan.go`, `collector.go` | semaphore, WaitGroup, ctx, sink, phase-1 snapshot | `Scan`, `runPhase`, `Emit`, `Warn`, `snapshot`, `warnOrFail` | ten goroutines, a bound, two phases, Ctrl-C at any moment, any call denied or failing | bounded, phases separated, every gap admitted, nothing lost to Ctrl-C, same file from the same answers |
| inventory: `inventory/` | resources, warnings, partial | `Add`, `Warn`, `Normalize`, `Duplicates`, `Read`, `Write` | arrival order; two resources with one id | sorted, no duplicates, partial iff something is missing |
| collectors that list and describe: `sqs.go`, `dynamodb.go`, `sns.go`, `lambda.go`, `apigateway.go` | the page, the resource being described, its marks | one listing, a fixed list of calls per resource | a page or call denied, a resource gone in between, in each collector differently | nothing learnt of is lost in silence; a denial costs its part |
| IAM: `iam.go` | roles assumed, the role being read, policies met | `assumedRoles`, `collectRole`, `collectPolicy` | namesakes of other accounts, policies deleted halfway | a role without a mark is whole |
| ECS: `ecs.go` | clusters, batches, task definitions learnt | two listings, two batchings, one description per definition | short and denied batches, ids built from names | only what was denied is missing; ids differ |
| RDS, ElastiCache: `rds.go`, `elasticache.go` | three listings joined in memory | list, list, list, join, emit | the account regroups while it is listed | what stands still is collected once |
| redaction: `discovery/redact.go` | lists of what was withheld | rules over values, URLs, mappings, arguments | rules overlap; a redacted value comes back in a second scan | no secret recorded, linking signal kept, the list honest |
| session and guard: `awsx/` | allow-list tables | SDK middleware, policy generation | the list, the middleware and the policy must agree | not modelled |
| graph builder: `linker/graph.go`, `Context` in `linker.go` | nodes, edges, corroborations, permissions, findings, evals | `Edge`, `Corroborate`, `Permit`, four resolution passes, `graph` | merges of many sources, deletion from a map that is being ranged over | independent of order, high only when earned, no reference lost |
| permissions (tier 3): `linker/rule_iam.go`, `iampolicy.go` | the parsed role, `iamEval`, findings | `readRole`, `cancelled`, `evaluate`, `claim`, `reportBlocked`, `reportOutside`, `wildMatch` | allow, deny and boundary together, documents that could not be read, wildcards | what is claimed is granted, what is concluded from absence is true |
| state rules (tier 1): `rule_elbv2.go`, `rule_ecs.go`, `rule_apigw.go`, `rule_sns.go`, `rule_sqs.go`, `rule_lambda.go`, `local.go` | indexes, corroborations | one `Apply` per rule | the two ends of a route are read by different calls, any of which may be denied or stale | an edge is what AWS does; what comes to no edge is said |
| configuration rules (tier 2): `rule_config.go`, `configscan.go`, `databases.go` | none | `scan` of every string a workload holds | namesakes, ambiguous words, redacted values | an edge leads where the value leads; every reference is answered |
| classification: `classify`, `reach` | seen, queue, flow | two searches | order, cycles | flow is defined by paths |
| artifact files: `writeAtomic`, `graphCmd` | target, temp files | create, write, close, rename, remove; open, read | concurrent commands, errors, kills | one register |
| command line, rendering, spikes | — | — | terminal output | not modelled |

The parts meet in four places. Collectors call the sink and read the snapshot: `Scan`
has their interleavings, with a collector as a tree of calls, and the collector modules
have one collector each, against an account that changes. What a collector leaves out
because a call was denied is what a rule reads later: `LoadBalancers`, `ApiRoutes`,
`TopicDelivery` and `ConfigScan` go from the API calls (or from redaction) to edges and
findings. Rules call the `Context` of the builder: in `LinkBuilder` each such call is a
claim, and its graph is what `Classify` starts from. `scan` and `graph` meet in a file,
which is `Artifact`.

## Modules

| Module | Models | Lines of the source |
|---|---|---|
| `Ordering` | `sort.SliceStable` as a function of an order on positions | `inventory.go` |
| `Scan` | the scan engine with any number of collectors and dependents | `discovery/scan.go`, `collector.go`, `inventory.go` |
| `Classify` | `classify` and `reach` over any graph | `linker.go`, `graph.go` |
| `WildMatch` | the loop of `wildMatch`, character by character | `iampolicy.go` |
| `IamEvaluate` | one role evaluated for one workload on every target | `rule_iam.go`, `iampolicy.go` |
| `LinkClaims` | the vocabulary of the builder: keys, claims, ranks | `graph.go` |
| `LinkGraph` | abstract: the graph as a function of the claims | the promise of `Link` |
| `LinkBuilder` | the builder, claim by claim and pass by pass | `graph.go`, `linker.go` |
| `WholeFile` | abstract: a file as a register | the promise of `writeAtomic` |
| `Artifact` | `writeAtomic` by several commands, and readers | `cmd/cloud-echo/scan.go`, `graph.go` |
| `AwsCalls` | how a call can end and what `warnOrFail` makes of it | `collector.go` |
| `CollectorPromise` | abstract: a collector | the rules in front of `Collector` |
| `ReadEach` | the seven listings that describe one thing at a time, a row each | `sqs.go`, `dynamodb.go`, `sns.go`, `lambda.go`, `apigateway.go` |
| `IamCollector` | `CollectFrom`, with roles and policies deleted meanwhile | `iam.go` |
| `EcsCollector` | `ECS.Collect` and its batches | `ecs.go` |
| `MemberCollectors` | groups and members listed apart, and their join | `rds.go`, `elasticache.go` |
| `Collectors` | the sum of the four; its refinement of `CollectorPromise` | |
| `LoadBalancers` | from `DescribeRules` to edges and entrypoints | `elbv2.go`, `rule_elbv2.go`, `rule_ecs.go` |
| `ApiRoutes` | from `GetIntegrations` to edges, stage by stage | `apigateway.go`, `rule_apigw.go`, `local.go` |
| `TopicDelivery` | subscriptions and the policies of both ends | `rule_sns.go`, `rule_sqs.go`, `rule_lambda.go`, `graph.go` |
| `StateRules` | the sum of the three | `linker.go` |
| `ConfigValues` | what redaction makes of one value | `redact.go`, `apigateway.go` |
| `Redaction` | a container's configuration redacted, and scanned again | `redact.go`, `ecs.go`, `lambda.go` |
| `ConfigScan` | workloads' configuration redacted, then linked | `configscan.go`, `databases.go`, `rule_config.go` |
| `Configuration` | the sum of the two | |
| `*Proofs` | theorems of `Scan` (with `Ordering`), `Classify`, `Artifact`, `LinkBuilder`, `Collectors`, `StateRules`, `Configuration`; `IamPolicyProofs` has those of `WildMatch` and `IamEvaluate` | |
| `MC*` | the instances TLC checks | |

Definitions called a *mutant* are the same action with a plausible bug; no
specification uses them. Each is paired in `PROJECT.json` with the property that
catches it, which shows that the property can fail.

### Scan

One goroutine per collector, in the places `parked` (in the `select`), `running` (inside
`run(i)`), `released` (the deferred `<-sem` has run), `done`. `Spawn` is one turn of
`runPhase`'s loop, `Acquire` and `Skip` are the two cases of the `select`, `Finish` is
`wg.Done`, `EndPhase` is what follows `wg.Wait`, `Assemble` is `Normalize` and
`Duplicates`, `Cancel` is Ctrl-C. A mutex-protected method is one action, because its
lock makes it one.

A collector is abstracted to the calls it makes. The constants say which calls it
starts with (`Starts`), which become known from an answer (`Reveals`), what an answer
contains (`Yields`) and what a dependent must have been told to make the call
(`Needs`). `Call` takes the next one and lets it answer `ok`, `denied`, `unsupported`,
`cancelled` (only after Ctrl-C) or `failed`; `warnOrFail` decides whether the collector
goes on. An answer that is not `ok` always leaves a warning here, as it does in the
paths of `warnOrFail` and `runPhase`; collectors that treat a not-found as no failure
(`lambda:GetPolicy`) correspond to an `ok` that yields nothing. The warnings collectors
record about resources they *could* read (an undecryptable environment) are left out.

`Terminates` assumes weak fairness of every goroutine and of `Scan` itself: the Go
scheduler is preemptive, and the SDK ends every call by an answer, an error after its
retries, or the context. It does not assume that Ctrl-C is ever pressed.

### LinkBuilder

A claim is one call of `Edge`, `Corroborate` or `Permit`, and doubles as the evidence
it leaves. The rules may make their claims in any order (`Options.Rules` is the
caller's), then the four passes run in the order of `Link`. `Absorb` takes one
reference at a time in any order, as Go ranges over a map. Confidence and status are
the ranks of `confidenceRank` and `statusRank`. Evidence and findings are sets, as
`graph()` removes repeats; that their printed order is stable is *not* covered.

Two facts about the rules are constraints on the inputs. `OneIntent`: for one holder
and one target `evaluate` permits stated intents or a reference, never both. `Permits`:
what a claim rests on is in `iamEval.permitted`. `ClaimAssumption` says that only
workloads hold references, that no workload is the source of a consume edge, that only
the permission rules permit, and that a rule which draws a typed edge has read its target:
no rule calls `Edge` below high confidence except for a reference.

`LinkGraph` says what the result is without any order: the surest claim of each of up
to three independent sources decides, two at medium make high. `Implements` checks that
every run of the builder ends in exactly that graph and those findings. `HighIsEarned`,
`ReferenceKept` and `StatusIsDeclared` are stated on the builder alone, so that they do
not rest on `LinkGraph` being right.

### Classify

The code's search takes nodes first in, first out over a sorted edge list. The model may
take any pending node, which includes the code's order and shows that order does not
matter. `FlowIsByPaths` compares with the definition in `docs/03-linker.md`, in terms of
paths. Weak fairness is that of a single goroutine that never waits.

### WildMatch

One action per arm of the loop's `switch`, one for the loop over trailing stars, one for
the `return`. Offsets count from 0 as in the code. Folding is done where the code does
it, before the loop. A text holds no `*` or `?`: it is an ARN the scan read or an action
of the catalogue. The code tests for a literal before it tests for a star, so without
this assumption a star in the text would be taken for the letter `*`. `MatchIsExact`
compares with a definition that cuts the text into one piece for each character of the
pattern. `Decides` assumes weak fairness of the single goroutine.

### IamEvaluate

An action is a pair of service and verb, an ARN a target and a part of it (the queue
itself, a table's index or stream). An entry of `Action` or `Resource` is the set of
what it matches, which is what `WildMatch` decides; `wideAction` and `nameSegment` are
attributes of the entry, as they depend on its spelling alone. `Start` is `evaluate` up
to its loop, `Evaluate(t)` one turn of it (the classes of actions of `t`, the findings
of `reportBlocked`, `ev.permitted`, `claim`), `Report` what follows the loop, `Missing`
a workload whose role is not in the inventory. Targets may be taken in any order.
Which workloads run as a role (`Apply`), the parsing of policy documents and what a
queue's own policy says to `resourcePolicyMayGrant` are inputs; a document that does not
parse and one that was never read are both "not readable". Claims are what
`LinkBuilder` receives, `eval` is its `iamEval`. `RoleAssumption` asks for finitely many
targets, mappings among them, and one boundary at most.

`AbsenceIsKnown` and `MediumIsGranted` compare with IAM's own evaluation (`IamAllows`),
over every document there is, the unread ones included: this is what makes them say
something about a role that was read in part. A conditional Deny cancels nothing in
the code nor in the definition, as nobody can tell from a policy whether it applies.

`IntentIsRead` is a finding: the comment in `rule_iam.go` says that intent comes from
the actions a statement names, but `statement.action` returns the first entry that
matches. For `Action: ["sqs:*", "sqs:SendMessage"]` that is the wide one, so the named
verb becomes a reference without intent; with the list turned round it is a publish
edge. `iam_named` shows it.

### Collectors

`CollectorPromise` is what the comment in front of `Collector` asks of every one of them
("Degrades, never fails"): a resource it has learnt of is emitted once, given up with a
warning, or turns out to be deleted; it returns nil owing nothing, or an error. `Owed`,
`Existing` and `Ids` are the refinement mapping, and `KeepsPromise` checks it for every
collector in `Registry` but ELBv2: the other nine of the first phase and IAM. Lambda's two
listings, functions and event source mappings, are two rows of `ReadEach`, and run as two.
ELBv2 has a module of its own, `LoadBalancers`, with properties of its own; that it
refines `CollectorPromise` is not shown.
A collector sees nothing of the others, so a behaviour of `Collectors` is of one of
them: `service` says of which, and the variables of the other modules keep one value.

A call can be denied (which stands for `isUnsupported` too), gone, failed or answered;
what exists is never said to be gone. `ReadEach` has one action per outcome and a row per
collector that says what a denial costs: the resource, the part, or the part and a mark
in `Unread`. Listing is one page at a time, and the account may lose a resource between
any two calls. `DenyPage` keeps or drops the pages before it, as the row says.

`IamCollector` reads the roles of `References` in this account, one call per action, with
listings of inline and attached policies page by page; it learns of managed policies
as it reads roles and describes each once. `EcsCollector` keeps both batchings and what
services teach of task definitions; its listings are sets, and `Batches` is `chunk` in any
order, so that nothing can depend on the order of a batch. `MemberCollectors`
lists one group or member per page while `Regroup` moves members between groups, at most
`MaxChanges` times and each once; the join happens in memory when the last page is in.
The account there only has to be told apart from what the listings saw, so
`WhatStaysIsCollected` is about what nobody touched: a member that moves between the listings may
be joined to where it no longer is, or be missed.

The assumptions are about pages and names: an account has a first page, though it may be
empty; the pages of a listing do not overlap; roles, managed and inline policies have
different ARNs; a cluster of one engine has no member of another's. Items are numbered
before groups and groups before serverless caches, which is the order of the listings.

`UniqueIds` is a finding. A service's id is `ecs/<cluster>/<name>` and a cluster's
`ecs/cluster/<name>`; an account with a cluster called `cluster` can hold two resources
of one id, and `Write` then refuses the whole inventory. `ecs_named` shows it; with
other names (`collectors`) ids differ.

### LoadBalancers

The collector lists balancers and groups, reads each listener's rules page by page, and
may be denied any of it. `Complete` is what a listener becomes: its rules, or its default
actions where it has none or they were denied. A rule is the set of groups it forwards to:
the order of priorities is left out, as no edge depends on it. The rules over the result
are one action, `Link`, since they read a finished inventory. `BalancerAssumption` says that
an application listener's rules include its default, that only functions and balancers are
registered in a group by name, and that services are nodes and no balancer has the id of one.
`TrafficAccounted` starts from what the account *does* (`Forwarding`), not from what was collected: whoever receives a
balancer's traffic has an edge, a finding, or a warning about the very call that would
have told. `EntrypointsKnown` relates two rules, one reading the balancer's side and one the
service's: a service marked on its own word is one whose group was not read, because the
listing was denied or because the group is gone (a service may still name it). Gateway
balancers are reported where the code reports them, after the groups were listed.

### ApiRoutes

The four lists of an HTTP API are read one after the other while its owner creates
integrations and points routes elsewhere; each may be cut short by a denial. A
definition is its form and a name: `resolveIntegration` sees no more. `LinkTemplated`
substitutes each stage's variables. `ApiAssumption` says that a definition is of one of the
`Kinds` `resolveIntegration` tells apart, that a VPC link leads into the scanned account with a
URL that parses, and that routes and authorizers have ids of their own. A templated URI is told by what it
starts with: any `arn:aws:apigateway:` one is taken for a function's, so a queue's or a state
machine's becomes a Lambda integration without a target, which is neither drawn nor reported.
A `garbled` URL is one `External` refuses, and is dropped the same way. `EdgeIsTrue` asks of every edge whether requests can
make that call; `RouteAccounted` names the forms the linker drops without a word (`Silent`) and the routes
moved to an integration made between the two listings (`late`), and `EveryStageCounts` asks of the forms a
stage's value completes (`invoke`, `function`, `http`) that each readable stage be told.

### TopicDelivery

AWS delivers when the subscription is confirmed and the receiver's policy lets the topic
in. `Grants` is AWS's evaluation of that policy: some Allow applies and no Deny does, where a
NotAction or NotPrincipal covers what it does not list, a condition has all its values and other
conditions may fail. The code never computes it. It reads the policy twice: `policyLetsService`
(`Lets`) generously, to claim a refusal, and `snsSource` (`Expects`) narrowly, to expect a sender;
both skip Deny statements, read the first `aws:SourceArn` and no other condition.
`BlockedIsRefused` and `ActiveIsDelivered` compare each with `Grants`. What `Lets` lets pass without
judging is `Unjudged`, and one thing makes a refusal false: a topic named second in a condition.

A topic's subscriptions come in pages, and what was listed before a denied one is linked; their
attributes stop at the first denial, and with them the dead-letter queues and whether one listed
with an ARN is confirmed (`ReadOf`, `Listed`): such a one is taken for confirmed (`Taken`). `unread` and `blind` are the topics this happened to. Rules are applied in any
order, `Resolve` afterwards. `StaleIsTrue` holds a stale permission against the subscriptions in
AWS, `GrantIsSaid` what a policy allows against what is told of it, and `Unsaid` names the four
forms no rule speaks of. `DeliveryAssumption` is about types: what a
statement says, and that topics do not receive, poll or dead-letter.

### Redaction and ConfigScan

A value is its form, the thing it names, the places in it shaped like a secret and the
places already masked. A URL has six: `sanitizeURL` looks at three of them (`Searched`: the
password, each segment of the path, the value of each parameter) and leaves a user without
a password, a parameter without `=` and the fragment as they are. `NoSecretIsRecorded` makes
exactly these three an exception, and `SecondScanFindsNothing` has them come back. Which strings the regular expressions and the entropy test accept
is an input; the order of the rules, which is what the comments in `redact.go` argue
about, is the model. `Redaction` goes through keys in any order and arguments in order,
then scans what it recorded as if it had come from AWS. `ConfigScan` redacts and links:
`EdgeIsMeant` and `SignalSurvives` compare the edges with the values in AWS (`raw`), which
the linker never sees. A host a rule recognises and cannot resolve is a finding; a URL
that does not parse (a templated port) and a name inside the workload are nothing.

A container's values are any (`ContainerAssumption`); an argument without a flag has no
secret's key. For the linker, `ConfigurationsAssumption` says how what AWS holds is
written: no marker inside a URL, no secret in what `hostnamePattern` accepts, only an
endpoint's host standing alone, a queue as the path of a URL, a secret only by its ARN.

### Artifact

A directory maps names to inodes; a reader's open file is a handle on an inode. Writers
are commands writing their own version chunk by chunk, each of `CreateTemp`, `write`,
`Close`, `Rename` may fail, the deferred `os.Remove` always runs unless the command is
killed. `CreateTemp` names are taken to be fresh: the code relies on 32 random bits. A
power loss is not modelled; the code does not fsync, and what survives is not its choice.
`ActsAsRegister` is the refinement of `WholeFile`.

## Runs

| Run | Instance | Distinct states | Question |
|---|---|---|---|
| `scan_account` | 3 collectors, 1 dependent, 2 slots | 129,428 | do gaps, phases, bound and Ctrl-C hold together? |
| `scan_chain` | 1 collector, 2 dependents that may find one resource, 2 slots, fairness | 10,944 | are the calls independent of the schedule, is the inventory canonical, does it end? |
| `classify` | all graphs of 3 nodes, at most 3 edges of 6 makes, fairness | 2,757,082 | is every flow the one of its paths, do the searches end? |
| `link` | worker, queue, table, a deleted queue; up to 4 claims of 8 kinds about the queue or about the table | 374,176 | does the builder implement `LinkGraph`? |
| `artifact` | 2 writers, 2 readers, 2 chunks | 24,341 | is the file one register? |
| `wild_match` | patterns of up to 4 of `a A * ?`, texts of up to 5 of `a A`, fairness | 122,020 | are IAM's wildcards decided exactly, does the loop end? |
| `iam_evaluate` | 2 queues one pattern matches, a table with index and stream; two documents out of eleven statements, each read or not, a boundary or none; service, function or API | 182,904 | is what is claimed granted, what is absent really absent? |
| `collectors` | 3 resources on 2 pages; 3 roles, 2 policies; 3 clusters, 4 services, batches of 2; 4 members, 3 groups, 2 changes | 2,159,151 | does each collector keep the promise, and what does a denial cost? |
| `state_rules` | 3 balancers, 4 listeners, 5 groups; 2 routes over 16 integrations, 3 stages; 2 topics, a queue, a function, about 20 policies, subscriptions read in full or in part | 2,176,472 | is an edge what AWS does, and is the rest said? |
| `configuration` | 3 keys, up to 2 arguments, values of every form; 4 holders with 7 positions, about 35 values each | 1,513,536 | what is withheld, what is kept, where does the linker take it? |
| `iam_named` (violation) | one statement listing `sqs:*` before `sqs:SendMessage` | | is intent read from what a statement names? |
| `ecs_named` (violation) | the `collectors` instance with a cluster named `cluster` | | do two resources share an id? |

Several properties of a module are checked under one name in its run: the run's property
is their conjunction, defined beside them (`GapsAdmitted`, `EvidenceKept`,
`MediumIsEarned`, and those of `Collectors`, `StateRules` and `Configuration`), and each
part has a mutant of its own.

Why the bounds are enough. Three collectors on two slots is the least that has one
waiting while two run; one dependent shows the snapshot and two show that neither sees
the other. Three nodes hold every cycle shape and a path that is synchronous one way
and asynchronous the other. Edges of different pairs of nodes never meet in the
builder, so one pair in each direction is enough, and four claims are enough to have
three sources on an edge and a fourth that turns it off. Four characters hold two stars with a literal between and
a `?` beside one, and a text of five makes the last star come back past a partial match.
Two statements are the least in which one allows and one denies, and a second document
the least that can be unread while the first is not; two queues are the least a pattern
can fail to tell apart. Two chunks are the least that
can be torn; two writers and two readers are the least that interfere.

A second page is the least a denial can take with it or spare, and a third resource the
least that is on it while two share the first; batches of two leave a short last batch
of three clusters. Two roles that share a policy are the least that can read it twice. Two
changes are the least that move one member out of a group while another enters. A balancer
with two pages of rules, one that has only defaults and one that is left out
are the shapes a listener can have; every type of target group is there once. The
integrations are one of each form `resolveIntegration` tells apart, with a namesake and
a deleted function; three stages are one that resolves to a node, one that resolves to
none and one that is withheld. Policies hold every form of statement the two readings, or AWS, tell
apart, alone and an Allow beside a Deny, for a queue and for a function; of two subscriptions one
may be read and the other not, and one has a dead-letter queue its attributes may be denied for.
For configuration, every value occurs at one position of each kind while the
others hold one of three common ones: positions are read one by one, and meet only in
the edges they draw.

## Proofs

| Theorem | Says, for every value of the constants |
|---|---|
| `ScanProofs!TypeCorrect`, `ConcurrencyBounded`, `PhasesSeparate`, `CancelNeverDegrades` | the `Scan` invariants of the same content |
| `ScanProofs!GapsAreAdmitted` | partial iff there are warnings, these are the calls that were not answered, and without any all there was to find is there |
| `ScanProofs!AnswersDecide`, `InventoryIsCanonical` | calls and inventory are functions of the answers; the inventory is sorted, without repeats |
| `ScanProofs!StableSortPermutes` | the sort of `Ordering` returns a permutation |
| `ClassifyProofs!FlowCorrect` | `FlowIsByPaths` for every finite graph and every order |
| `IamPolicyProofs!GreedyIsExact` | `MatchIsExact` for every pattern and every text |
| `ArtifactProofs!ReadsWhole`, `TempsKept`, `Refines` | no torn read; temp files accounted for; `Artifact` implements `WholeFile`, for any number of commands |
| `LinkBuilderProofs!HighEarned`, `EvidenceIsKept`, `StatusDeclared` | high is earned, no reference vanishes, no status is made up |
| `LinkBuilderProofs!Refines` | the builder implements `LinkGraph` |
| `IamPolicyProofs!AbsenceKnown`, `MediumEarned`, `IntentNamed`, `GrantAccountedFor` | the four properties of the run, for any role and any targets |
| `ConfigurationProofs!SecretsStay`, `ListHonest`, `SignalKept`, `EdgesMeant`, `NothingSilent` | the five properties of the run, for any values, keys, arguments and holders |
| `CollectorsProofs!Inductive`, `PromiseKept` | each collector keeps its invariant; all but ELBv2 implement `CollectorPromise` |
| `CollectorsProofs!ReadsInFull`, `RolesStayWhole`, `ServicesStayWhole`, `JoinKeepsAll` | what a denial costs, collector by collector, for any account |
| `CollectorsProofs!IdsAreUnique` | `UniqueIds` where no cluster is named `cluster` or `taskdef`; `ecs_named` shows the need for it |
| `StateRulesProofs!DeliveryTrue`, `GrantSaid` | `DeliveryIsTrue` and `GrantIsSaid`, for any policies, any part of them read and any order of the rules |
| `StateRulesProofs!EdgeTrue`, `RoutesAccounted` | `EdgeIsTrue` and `RouteAccounted`, for any APIs, edited while they are read |
| `StateRulesProofs!TrafficIsAccounted`, `EntrypointsAreKnown` | `TrafficAccounted` and `EntrypointsKnown`, for any balancers, with any call denied |

`ScanProofs` uses two inductive invariants. `IInv` is about goroutines: `TypeOK` alone does
not carry the bound, so `Counts` ties `sem` to the goroutines that run and `wg` to those
alive, `Births` ties who exists to `spawned`, `Barrier` keeps phase 1 finished once phase 2
has started, and `Cancelled` says that a skipped goroutine or a cancelled call implies that
ctx is done, so that `EndPhase` cannot go on. `FlowInv` is about data, on top of it: every
call that is due is answered, in its collector's hands or after one that made it give up
(`InHand`, `Issued`); no call is made that an account open to all would not have seen
(`Within`); dependents hold the answers of phase 1 (`Handed`); what was found and what went
wrong is in the inventory or about to be (`Read`, `Told`). At the end nothing is in hand,
and what is left is a function of the answers; `Sorted` with an order that tells any two
entries apart makes the file one too.

`ClassifyProofs` keeps: what is seen lies on a path from an entrypoint; what is seen and
no longer pending has all its successors seen. When nothing is pending the seen set is
closed, so a path cannot leave it. The definition bounds paths by the number of nodes;
that a longer one can be shortened is proved by renumbering a minimal set of nodes.

For `wildMatch`, `IamPolicyProofs` keeps two facts: what has been consumed is a cut of the text so far,
and no cut of the whole text has its last passed star reach less far than `mark`. The second is
what justifies forgetting the earlier stars: a match that needed them to take more could
be shifted to the last one. When the loop gives up, the two together leave no cut at all.

`ArtifactProofs` keeps: a file being written holds only its own version; what a name or a
handle leads to was published; a reader has read a prefix of the version it opened. The
refinement maps `Rename` to `Replace`, `Remove`, `Kill` and a failing `Stage` to `Say`,
`Open` to `Look`, and the read that reaches the end to `Tell`; everything else stutters.

`LinkBuilderProofs` keeps: permissions become evidence only after all corroborations did
(`Phases`); what an edge holds was claimed of it or of the reference it absorbed
(`Sourced`); an edge is at least as sure as what it was told and medium only by a claim
(`Weighed`); every claim that names something is on its way or has arrived (`Arriving`).
`HighIsEarned` needs the first: when a permission meets an edge of medium confidence, what
made the edge medium came from another rule, and so the two are independent. The refinement needs more:
`Progress` says, phase by phase, what the edges and findings are as a function of the claims
taken so far, so that claims commute and so do the references `Absorb` meets in a map's order.

For a role, `IamPolicyProofs` keeps that claims, `eval` and the findings are what the targets passed
so far add, each by itself (`Drawn`, `Known`, `Told`); the properties are then about one
target. The lemmas under them say that the first entry that matches decides as the set of
matches does, and what the code's `cancelled` and boundary leave of a grant is what
`IamAllows` does wherever everything was read.

`ConfigurationProofs` keeps that each position is decided once, by itself: what is recorded
and listed is a function of what was read. All three ways through `redactArgs` come to one
rule on one value (but for an empty argument after a secret's flag, which `redactArgs` withholds and
`redactValue` keeps), and that rule leaves its own result alone (`Settled`), which is why a
second scan adds nothing. `Clean` says where in a URL something shaped like a secret may be left. On the linking side what is found at a position of the
redacted configuration is compared, form by form, with what `raw` names there.

`CollectorsProofs` has one invariant per collector. For the seven listings: what was listed
is held, emitted or given up with a warning, and what is noted of the resource in turn
belongs to it. For IAM: an unmarked spec holds all of the listed policies that still exist.
For ECS: clusters that wait are untouched, and what exists is still listed, waits, is in
turn or is accounted for. For the joins: what nobody touched was seen as it is. The
refinement then takes two lemmas: a step that settles some of what is owed, emitting what
it says, giving up what warnings say and dropping what is gone, is a step of the promise
(`Answered`); one that changes none of these is a stutter (`Unmoved`). Each action of
each collector is shown to be of one kind.

`StateRulesProofs` has one invariant per family. For topics (`DeliveryInv`): an active edge
has a subscription behind it that is confirmed, or taken for it, and a receiver whose policy `Lets` it in (`Drawn`); what is
said to be refused is not let in and what a policy makes expected is, so no pair is both (`Said`);
what an applied rule declares is there, at least as lively, since `AddEdges` only raises a status
(`Applied`, which says nothing of the order of the rules, and so it does not matter); and a topic
that was read in full has an edge or a refusal for every place its subscriptions lead to, one that was
not is said to be unread (`Shown`). Lemmas then compare `Lets` and `Expects` with `Grants`, form by
form: what AWS grants, `Lets` lets in, unless a topic is named second. For APIs (`ApisInv`):
nothing is linked before all was read; an integration, form by form, comes to edges that are
calls of its definition and to a word on the route and on each of its stages (`RouteHonest`);
and what was drawn is never taken back (`Told`). For balancers (`BalancersInv`): what was listed is
waiting or emitted, or a denied page cut the listing short (`Listed`); each listener of the one in
turn is open, or read with all it sends to, or its rules were denied (`Reading`); what was
emitted is whole or a warning says what is not (`Emitted`); and the graph is that of the
inventory (`Ended`), so that a route of the account can be followed through it.

The assumptions are the `ASSUME`s of the modules, which TLC evaluates on each instance.
Every invariant and action property of the passing runs is proved. Only model-checked: liveness
(`Terminates`, `Classifies`, `Decides`), which is outside TLAPS here, and the two violations.

## What the code says and does differently

Two disagreements are runs (`iam_named`, `ecs_named`). Modelling the collectors and rules
met these too; the models do as the code does, and no property asks for the other reading.

- A denied page of `ListQueues` or `ListTables` returns before any queue or table of
  the pages before it is emitted (`sqs.go:38`, `dynamodb.go:32`). `collector.go:36` asks for
  "partial results" to survive; Lambda, SNS and both API Gateways keep them.
- A denied `ListTagsForResource` of a topic is a warning and no mark, though `sns.go:23` says
  every denial is recorded in `Unread` (`sns.go:107`).
- `ListRolePolicies`, `GetRolePolicy`, `ListAttachedRolePolicies` and `GetPolicyVersion`
  do not ask `isNotFound`: a role or policy deleted halfway ends the collector, while
  `iam.go:158` says of a role that is gone that it is "not a reason to stop reading the others".
- A denied page of `DescribeRules` returns before the sort, so earlier pages keep the API's
  order (`elbv2.go:206`); `elbv2.go:214` and `docs/02-discovery.md:269` promise priority order.
- An SQS integration whose queue is in a mapping template has a nil target, which `Local`
  answers with nothing (`rule_apigw.go:79`); `docs/03-linker.md:405` says it "stays unresolved".
- A queue's generated name can look like a token, and its URL is then masked
  (`redact.go:226`); `docs/07-security.md:74` says a URL without credentials is kept.
- `deliver` claims a refusal when no Allow lets the topic in, and "anything it cannot rule out
  — a NotAction, a wildcard principal, a condition it does not read — counts as allowing"
  (`rule_sns.go:180`). It reads no Deny (`rule_sns.go:188`) and no condition but the source, so
  an edge may be active though AWS drops the message. It reads the first value of an
  `aws:SourceArn` only (`rule_lambda.go:211`), so a topic named second is called blocked though
  AWS delivers.
- With a topic's subscriptions unread, its receiver's permission is called stale
  (`rule_sns.go:265`), though `rule_sns.go:39` says what it delivers to is unknown; the
  `unscanned` finding always stands beside it. With only the attributes of subscriptions denied
  (`sns.go:150`), a dead-letter queue is not known, and its permission is called stale with no word
  of that from the linker; and an unconfirmed subscription that is listed with an ARN is drawn active
  (`sns.go:163` provides for one, as Floci lists them), where `rule_sns.go:51` has "nothing is
  delivered until the endpoint confirms".
- A dead-letter queue of a subscription whose target is not in the scan is not linked
  (`rule_sns.go:62`).
- A NotAction or NotPrincipal that grants is skipped by the receivers' own rules (`rule_sqs.go:33`),
  and a function's action is looked up in the list (`rule_lambda.go:120`): `lambda:Invoke*` grants, and is not told.
- A templated `arn:aws:apigateway:` URI is always taken for a Lambda function's (`rule_apigw.go:138`): with
  a queue's or a state machine's the stage counts as resolved and nothing comes of it, while
  `rule_apigw.go:124` says such an integration "is reported, never guessed". A URL `External` refuses is dropped too
  (`rule_apigw.go:96`, `configscan.go:135`).
- A route pointed at an integration made between `GetIntegrations` and `GetRoutes` has none
  (`apigateway.go:357`), and nothing says so.
- In a URL, a user without a password (`redact.go:208`), a parameter without `=` (`redact.go:236`) and
  the fragment (`redact.go:214`, `252`) are recorded as they are, be they tokens; `redact.go:180` says
  secrets travel "in three places" and these are not among them.
  `docs/07-security.md:71` says values that look secret-shaped are replaced before they reach disk,
  and that the heuristic "will miss things".

## Not modelled

- `awsx/`: the allow-list, the guard and the generated policy are tables compared when the
  program starts, and one lookup per call. Their consequence, that a call may be
  refused, is in every collector.
- The field-by-field translation of AWS answers into specs, ARNs' and policies' syntax, the
  regular expressions of redaction and of the scanner: their results are inputs.
- Of the rules: which workloads run as a role (`iamPolicyRule.Apply`), a function policy's
  permissions for balancers and APIs, `apigw.entrypoint`, on-failure destinations.
- `graph()`'s sorts. Findings are sorted by node, target and rule, unstably, and
  repeats are removed only when adjacent (`graph.go:469`); in the models they are a set.
- JSON encoding, the format version, summary and rendering, flags and exit codes.
- `src/spikes`: experiments outside the product.

## Plan

1. *Done*: every module above, and the proofs of all of them.
2. `IamCollector` composed with `IamEvaluate`: an unread page of a policy leaves the role
   marked, from the account to the finding.
3. `Findings`: the sort and the removal of repeats.
