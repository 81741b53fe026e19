------------------------------ MODULE Classify ------------------------------
(***************************************************************************)
(* classify: every node of the linked graph gets the flow it sits in.  Two *)
(* searches from the entrypoints, one over synchronous edges and one over  *)
(* all of them, decide it.                                                 *)
(*                                                                         *)
(* The search of the code is a queue fed in the order of a sorted edge     *)
(* list.  Here it may visit any pending node next: the flow is meant not   *)
(* to depend on the order, and is checked and proved under all of them.    *)
(***************************************************************************)
EXTENDS Integers, FiniteSets

CONSTANTS
  Nodes,    \* ids of the graph's nodes
  EdgeSets  \* the edge sets classified

Kinds       == {"invoke", "http", "read", "write", "connect", "publish",
                "consume", "references"}
Confidences == {"certain", "high", "medium", "low"}
Statuses    == {"active", "unsettled", "disabled"}

Edges == [from : Nodes, to : Nodes, kind : Kinds,
          confidence : Confidences, status : Statuses]

ASSUME GraphAssumption == IsFiniteSet(Nodes) /\ EdgeSets \subseteq SUBSET Edges

VARIABLES
  edges,     \* g.Edges
  triggered, \* the nodes with Triggers
  queues,    \* the nodes that are a queue or a topic
  pass,      \* "sync", "any", then "done"
  seen,      \* reach's seen set
  pending,   \* reach's queue
  syncSet,   \* what the first search returned
  flow       \* Node.Flow

vars == <<edges, triggered, queues, pass, seen, pending, syncSet, flow>>

\* Kind.Synchronous, and Graph.Synchronous: a reference is what its target is.
Synchronous(e) ==
  IF e.kind = "references" THEN e.to \notin queues
  ELSE e.kind \in {"invoke", "http", "read", "write", "connect"}

\* Mutant of Followed: a disabled edge is walked.
FollowedThoughDisabled == {e \in edges : e.confidence # "low"}

\* Disabled edges carry nothing; low ones are a suggestion nobody accepted.
Followed == {e \in edges : e.status # "disabled" /\ e.confidence # "low"}

SyncEdges == {e \in Followed : Synchronous(e)}

\* What the search under way may follow.
Open == IF pass = "sync" THEN SyncEdges ELSE Followed

Init ==
  /\ edges \in EdgeSets
  /\ triggered \in SUBSET Nodes /\ queues \in SUBSET Nodes
  /\ pass = "sync" /\ seen = triggered /\ pending = triggered
  /\ syncSet = {} /\ flow = [n \in Nodes |-> "none"]

\* Mutant of Visit: reach forgets what it has seen.
VisitAgain ==
  /\ pass # "done"
  /\ \E id \in pending :
       LET new == {e.to : e \in {o \in Open : o.from = id}} IN
       /\ seen' = seen \cup new
       /\ pending' = (pending \ {id}) \cup new
  /\ UNCHANGED <<edges, triggered, queues, pass, syncSet, flow>>

\* One turn of reach's loop.
Visit ==
  /\ pass # "done"
  /\ \E id \in pending :
       LET new == {e.to : e \in {o \in Open : o.from = id}} \ seen IN
       /\ seen' = seen \cup new
       /\ pending' = (pending \ {id}) \cup new
  /\ UNCHANGED <<edges, triggered, queues, pass, syncSet, flow>>

\* syncSet := reach(...), and the second search starts from the entrypoints.
EndSync ==
  /\ pass = "sync" /\ pending = {}
  /\ pass' = "any" /\ syncSet' = seen
  /\ seen' = triggered /\ pending' = triggered
  /\ UNCHANGED <<edges, triggered, queues, flow>>

\* anySet := reach(...), and the switch over every node.
Assign ==
  /\ pass = "any" /\ pending = {}
  /\ pass' = "done"
  /\ flow' = [n \in Nodes |-> CASE n \in triggered -> "entrypoint"
                                [] n \in syncSet \ triggered -> "sync"
                                [] n \in seen \ (syncSet \cup triggered) -> "async"
                                [] OTHER -> "unreached"]
  /\ UNCHANGED <<edges, triggered, queues, seen, pending, syncSet>>

Done == pass = "done" /\ UNCHANGED vars

Next == Visit \/ EndSync \/ Assign \/ Done

Spec == Init /\ [][Next]_vars

\* classify runs in one goroutine and nothing in it waits.
FairSpec == Spec /\ WF_vars(Visit \/ EndSync \/ Assign)

-----------------------------------------------------------------------------
TypeOK ==
  /\ edges \in SUBSET Edges
  /\ triggered \in SUBSET Nodes /\ queues \in SUBSET Nodes
  /\ pass \in {"sync", "any", "done"}
  /\ seen \in SUBSET Nodes /\ pending \in SUBSET Nodes /\ syncSet \in SUBSET Nodes
  /\ flow \in [Nodes -> {"none", "entrypoint", "sync", "async", "unreached"}]

\* A path from one of entry: k nodes, each joined to the next by an edge of E.
IsPath(p, k, entry, E) ==
  /\ p[1] \in entry
  /\ \A i \in 1 .. (k - 1) : \E e \in E : e.from = p[i] /\ e.to = p[i + 1]

PathWithin(n, m, entry, E) ==
  \E k \in 1 .. m : \E p \in [1 .. k -> Nodes] : IsPath(p, k, entry, E) /\ p[k] = n

\* A path need never be longer than the graph has nodes.
OnPath(n, E) == PathWithin(n, Cardinality(Nodes), triggered, E)

\* The edges docs/03-linker.md lets a flow rest on, and those of them where the
\* caller waits: all but a hand-over to or from a queue or a topic.
Carrying == {e \in edges : /\ e.status \in {"active", "unsettled"}
                          /\ e.confidence \in {"certain", "high", "medium"}}

HandsOver(e) ==
  \/ e.kind \in {"publish", "consume"}
  \/ e.kind = "references" /\ e.to \in queues

Waiting == {e \in Carrying : ~HandsOver(e)}

\* The flow as docs/03-linker.md defines it, in terms of paths.
FlowOf(n) ==
  IF n \in triggered THEN "entrypoint"
  ELSE IF OnPath(n, Waiting) THEN "sync"
  ELSE IF OnPath(n, Carrying) THEN "async"
  ELSE "unreached"

\* "A node is sync if any path from an entrypoint to it is all synchronous;
\* otherwise async if it is reachable at all", whatever the order in which the
\* search visits nodes, whatever cycles the graph has, and with no flow resting
\* on a disabled or a low-confidence edge.
FlowIsByPaths == pass = "done" => flow = [n \in Nodes |-> FlowOf(n)]

\* The two searches end: a cycle is not walked for ever.
Classifies == <>(pass = "done")
=============================================================================
