----------------------------- MODULE LinkClaims -----------------------------
(***************************************************************************)
(* What rules tell the graph builder.  A rule states that one resource     *)
(* does something to another (Context.Edge), offers evidence for an edge   *)
(* another rule may have drawn (Context.Corroborate), or says that a role  *)
(* permits it (Context.Permit).  Each call is a claim here, and a claim is *)
(* also the piece of evidence it leaves on the edge.                       *)
(***************************************************************************)
EXTENDS Integers, FiniteSets

CONSTANTS
  Ids,        \* resource ids a claim may name
  Nodes,      \* the ids that are nodes of the graph
  Workloads,  \* the nodes that hold configuration and a role
  Governed,   \* the nodes IAM decides about: not a database, not a cache
  ClaimSets   \* what the rules of one run may claim

\* confidenceRank and statusRank.
Low == 1
Medium == 2
High == 3
Certain == 4

Disabled == 1
Unsettled == 2
Active == 3

Kinds == {"invoke", "http", "read", "write", "connect", "publish", "consume",
          "references"}

Keys == [from : Ids, to : Ids, kind : Kinds]

\* source tells two claims of one rule apart: two variables, two statements.
\* orElse: the finding a corroboration becomes when its edge does not exist.
Claims == [op : {"edge", "corroborate", "permit"}, key : Keys,
           rule : {"tier1", "config", "iam"}, source : Nat,
           conf : Low .. Certain, status : Disabled .. Active, orElse : BOOLEAN]

Edge == [conf : Low .. Certain, status : Disabled .. Active,
         evidence : SUBSET Claims]

Findings == [kind : {"unresolved", "stale-permission", "unpermitted"},
             node : Ids, target : Ids]

\* Only a workload's configuration or role names something, what triggers a
\* consumer is not a workload, only roles permit, and a rule that types an edge
\* has read its target, not guessed it.
ASSUME ClaimAssumption ==
  /\ Nodes \subseteq Ids /\ Workloads \subseteq Nodes /\ Governed \subseteq Nodes
  /\ \A cs \in ClaimSets :
       /\ cs \subseteq Claims /\ IsFiniteSet(cs)
       /\ \A c \in cs :
            /\ c.key.kind = "references" => c.key.from \in Workloads
            /\ c.key.kind = "consume" => c.key.from \notin Workloads
            /\ c.op = "permit" => c.rule = "iam"
            /\ c.op = "edge" => c.rule # "iam"
            /\ c.op = "edge" /\ c.key.kind # "references" => c.conf >= High

Highest(S) == CHOOSE r \in S : \A o \in S : o <= r

\* The two ends of a pair, whichever way the edge points.
Ends(k) == {k.from, k.to}

\* evaluate states intents for a target, or a reference to it, never both.
OneIntent(cs) ==
  \A p, q \in {c \in cs : c.op = "permit"} :
    Ends(p.key) = Ends(q.key) /\ p.key.kind = "references" => q.key.kind = "references"

\* What roles are known to permit includes everything the claims rest on.
Permits(cs) ==
  {p \in Workloads \X Nodes :
     \E c \in cs : c.op = "permit" /\ Ends(c.key) = {p[1], p[2]}}
=============================================================================
