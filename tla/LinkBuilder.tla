----------------------------- MODULE LinkBuilder -----------------------------
(***************************************************************************)
(* Link: rules make their claims, in any order; then corroborations,       *)
(* permissions, references and the unpermitted check are resolved, in that *)
(* order, the last two by walking a Go map, whose order is any order.      *)
(* graph() sorts and removes repeats: evidence and findings are sets here. *)
(***************************************************************************)
EXTENDS LinkClaims

VARIABLES
  claims,         \* the claims the rules have to make
  readInFull,     \* the holders whose iamEval is complete
  permitted,      \* iamEval.permitted, for every holder
  phase,          \* how far Link has got
  todo,           \* claims not yet made
  edges,          \* builder.edges
  corroborations, \* builder.corroborations
  permissions,    \* builder.permissions
  findings,       \* builder.findings
  refs            \* references absorbReferences has still to come to

inputs == <<claims, readInFull, permitted>>
vars == <<inputs, phase, todo, edges, corroborations, permissions, findings, refs>>

Larger(a, b) == IF b > a THEN b ELSE a

\* agree: two independent sources at medium or better mean high.
Agree(a, b) ==
  IF a >= Medium /\ b >= Medium THEN Larger(Larger(a, b), High) ELSE Larger(a, b)

Finding(kind, node, target) == [kind |-> kind, node |-> node, target |-> target]

Init ==
  /\ claims \in ClaimSets /\ OneIntent(claims)
  /\ readInFull \in SUBSET Workloads
  /\ permitted \in SUBSET (Workloads \X Nodes) /\ Permits(claims) \subseteq permitted
  /\ phase = "rules" /\ todo = claims
  /\ edges = [k \in {} |-> 0]
  /\ corroborations = {} /\ permissions = {} /\ findings = {} /\ refs = {}

\* Mutant of AddEdge: the rule that comes last decides the status.
AddEdgeLastWins(c) ==
  [k \in DOMAIN edges \cup {c.key} |->
     IF k # c.key THEN edges[k]
     ELSE IF k \in DOMAIN edges
     THEN [conf     |-> Larger(edges[k].conf, c.conf),
           status   |-> c.status,
           evidence |-> edges[k].evidence \cup {c}]
     ELSE [conf |-> c.conf, status |-> c.status, evidence |-> {c}]]

\* addEdge: the most confident and the most active of what rules declare.
AddEdge(c) ==
  [k \in DOMAIN edges \cup {c.key} |->
     IF k # c.key THEN edges[k]
     ELSE IF k \in DOMAIN edges
     THEN [conf     |-> Larger(edges[k].conf, c.conf),
           status   |-> Larger(edges[k].status, c.status),
           evidence |-> edges[k].evidence \cup {c}]
     ELSE [conf |-> c.conf, status |-> c.status, evidence |-> {c}]]

\* Context.Edge: an edge to nowhere is reported instead.
DrawEdge(c) ==
  /\ phase = "rules" /\ c \in todo /\ c.op = "edge"
  /\ todo' = todo \ {c}
  /\ IF c.key.from \notin Nodes
       THEN /\ findings' = findings \cup {Finding("unresolved", c.key.to, c.key.from)}
            /\ UNCHANGED edges
       ELSE IF c.key.to \notin Nodes
       THEN /\ findings' = findings \cup {Finding("unresolved", c.key.from, c.key.to)}
            /\ UNCHANGED edges
       ELSE edges' = AddEdge(c) /\ UNCHANGED findings
  /\ UNCHANGED <<inputs, phase, corroborations, permissions, refs>>

\* Context.Corroborate.
Corroborate(c) ==
  /\ phase = "rules" /\ c \in todo /\ c.op = "corroborate"
  /\ todo' = todo \ {c}
  /\ corroborations' = corroborations \cup {c}
  /\ UNCHANGED <<inputs, phase, edges, permissions, findings, refs>>

\* Context.Permit.
Permit(c) ==
  /\ phase = "rules" /\ c \in todo /\ c.op = "permit"
  /\ todo' = todo \ {c}
  /\ IF Ends(c.key) \subseteq Nodes
       THEN permissions' = permissions \cup {c} /\ UNCHANGED findings
       ELSE /\ findings' = findings \cup {Finding("unresolved", c.key.from, c.key.to)}
            /\ UNCHANGED permissions
  /\ UNCHANGED <<inputs, phase, edges, corroborations, refs>>

\* resolveCorroborations: evidence for an edge that exists, never an edge.
ResolveCorroborations ==
  /\ phase = "rules" /\ todo = {}
  /\ phase' = "corroborated"
  /\ edges' = [k \in DOMAIN edges |->
       [edges[k] EXCEPT !.evidence = @ \cup {c \in corroborations : c.key = k}]]
  /\ findings' = findings \cup
       {Finding("stale-permission", c.key.from, c.key.to) :
          c \in {d \in corroborations : d.orElse /\ d.key \notin DOMAIN edges}}
  /\ UNCHANGED <<inputs, todo, corroborations, permissions, refs>>

\* Mutant of Permitted: a permission wakes a disabled edge.
PermittedAndActive(k) ==
  LET ps == {p \in permissions : p.key = k}
      c  == Highest({p.conf : p \in ps}) IN
  IF k \notin DOMAIN edges THEN [conf |-> c, status |-> Active, evidence |-> ps]
  ELSE IF ps = {} THEN edges[k]
  ELSE [conf |-> Agree(edges[k].conf, c), status |-> Active,
        evidence |-> edges[k].evidence \cup ps]

\* Mutant of Permitted: each statement of a role counts as a source.
PermittedPerStatement(k) ==
  LET ps == {p \in permissions : p.key = k}
      c  == IF \E p, r \in ps : p # r /\ p.conf >= Medium /\ r.conf >= Medium
              THEN High ELSE Highest({p.conf : p \in ps}) IN
  IF k \notin DOMAIN edges THEN [conf |-> c, status |-> Active, evidence |-> ps]
  ELSE IF ps = {} THEN edges[k]
  ELSE [edges[k] EXCEPT !.conf = Agree(@, c), !.evidence = @ \cup ps]

\* resolvePermissions, for one key: the statements of a role are one source.
Permitted(k) ==
  LET ps == {p \in permissions : p.key = k}
      c  == Highest({p.conf : p \in ps}) IN
  IF k \notin DOMAIN edges THEN [conf |-> c, status |-> Active, evidence |-> ps]
  ELSE IF ps = {} THEN edges[k]
  ELSE [edges[k] EXCEPT !.conf = Agree(@, c), !.evidence = @ \cup ps]

ResolvePermissions ==
  /\ phase = "corroborated"
  /\ phase' = "permitted"
  /\ edges' = [k \in DOMAIN edges \cup {p.key : p \in permissions} |-> Permitted(k)]
  /\ refs' = {k \in DOMAIN edges' : k.kind = "references"}
  /\ UNCHANGED <<inputs, todo, corroborations, permissions, findings>>

\* Mutant of Absorbers: a disabled consume edge absorbs too.
AbsorbersDisabledToo(k) ==
  LET live == {e \in DOMAIN edges : e.kind # "references" /\ edges[e].status # Disabled}
      same == {e \in live : e.from = k.from /\ e.to = k.to}
      polls == {e \in DOMAIN edges :
                  /\ e = [from |-> k.to, to |-> k.from, kind |-> "consume"]
                  /\ \E c \in edges[e].evidence : c.rule = "iam"}
  IN  IF same # {} THEN same ELSE polls

\* The edges absorbReferences folds reference k into.
Absorbers(k) ==
  LET live == {e \in DOMAIN edges : e.kind # "references" /\ edges[e].status # Disabled}
      same == {e \in live : e.from = k.from /\ e.to = k.to}
      polls == {e \in live : /\ e = [from |-> k.to, to |-> k.from, kind |-> "consume"]
                             /\ \E c \in edges[e].evidence : c.rule = "iam"}
  IN  IF same # {} THEN same ELSE polls

\* Mutant of Absorb: the references still to come are not kept to references
\* once one has been folded away.
AbsorbTwice(k) ==
  /\ phase = "permitted" /\ k \in refs
  /\ refs' = (refs \ {k}) \cup Absorbers(k)
  /\ IF Absorbers(k) = {} THEN UNCHANGED edges
     ELSE edges' = [e \in DOMAIN edges \ {k} |->
            IF e \in Absorbers(k) /\ edges[k].conf # Low
              THEN [edges[e] EXCEPT !.conf = Agree(@, edges[k].conf),
                                    !.evidence = @ \cup edges[k].evidence]
              ELSE edges[e]]
  /\ UNCHANGED <<inputs, phase, todo, corroborations, permissions, findings>>

\* absorbReferences, for one reference.  Absorbing changes no status and
\* removes no typed edge, so typedBetween need not be kept apart.
Absorb(k) ==
  /\ phase = "permitted" /\ k \in refs
  /\ refs' = refs \ {k}
  /\ IF Absorbers(k) = {} THEN UNCHANGED edges
     ELSE edges' = [e \in DOMAIN edges \ {k} |->
            IF e \in Absorbers(k) /\ edges[k].conf # Low
              THEN [edges[e] EXCEPT !.conf = Agree(@, edges[k].conf),
                                    !.evidence = @ \cup edges[k].evidence]
              ELSE edges[e]]
  /\ UNCHANGED <<inputs, phase, todo, corroborations, permissions, findings>>

\* checkUnpermitted.
CheckUnpermitted ==
  /\ phase = "permitted" /\ refs = {}
  /\ phase' = "done"
  /\ findings' = findings \cup
       {Finding("unpermitted", k.from, k.to) :
          k \in {r \in DOMAIN edges :
                   /\ r.kind = "references" /\ r.from \in readInFull
                   /\ r.to \in Governed /\ <<r.from, r.to>> \notin permitted}}
  /\ UNCHANGED <<inputs, todo, edges, corroborations, permissions, refs>>

Linked == phase = "done" /\ UNCHANGED vars

Next == \/ \E c \in todo : DrawEdge(c) \/ Corroborate(c) \/ Permit(c)
        \/ ResolveCorroborations \/ ResolvePermissions
        \/ \E k \in refs : Absorb(k)
        \/ CheckUnpermitted \/ Linked

Spec == Init /\ [][Next]_vars

-----------------------------------------------------------------------------
TypeOK ==
  /\ claims \in SUBSET Claims /\ todo \in SUBSET claims
  /\ readInFull \in SUBSET Workloads /\ permitted \in SUBSET (Workloads \X Nodes)
  /\ phase \in {"rules", "corroborated", "permitted", "done"}
  /\ DOMAIN edges \subseteq Keys /\ \A k \in DOMAIN edges : edges[k] \in Edge
  /\ corroborations \in SUBSET claims /\ permissions \in SUBSET claims
  /\ findings \in SUBSET Findings
  /\ refs \subseteq {k \in DOMAIN edges : k.kind = "references"}

\* The graph Link returns is the one LinkGraph defines from the claims alone:
\* no order of rules, of statements or of map iteration shows in it.
Promise == INSTANCE LinkGraph WITH
  graph <- IF phase = "done" THEN <<[edges |-> edges, findings |-> findings]>> ELSE <<>>

Implements == Promise!Spec

\* "Certain and high enter a plan automatically": an edge gets there because a
\* rule is that sure, or because two independent sources are each at medium.
\* Two statements of one role, or two variables of one holder, are one source,
\* and an edge its own claims leave at low stays out of every plan.
HighIsEarned ==
  \A k \in DOMAIN edges : edges[k].conf >= High =>
    LET told == {c \in edges[k].evidence : c.op # "corroborate"} IN
    \/ \E c \in told : c.conf >= High
    \/ \E c, d \in told : c.rule # d.rule /\ c.conf >= Medium /\ d.conf >= Medium

\* "A permission says nothing about whether an edge carries traffic now": a
\* mapping that is off stays off whatever the role allows and the
\* configuration names, and no rule turns off what another saw running.
StatusIsDeclared ==
  [][\A k \in DOMAIN edges \cap DOMAIN edges' :
       /\ edges'[k].status >= edges[k].status
       /\ edges'[k].status # edges[k].status =>
            \E c \in todo \ todo' : c.key = k /\ c.status = edges'[k].status]_vars

\* No named target vanishes from the graph: the reference is still an edge, or
\* edges between the same two nodes that carry traffic hold it as evidence.  A
\* low one may be dropped, but only where such an edge stands.
ReferenceKept ==
  phase = "done" =>
    \A c \in claims :
      c.op # "corroborate" /\ c.key.kind = "references" /\ Ends(c.key) \subseteq Nodes =>
        \/ c.key \in DOMAIN edges /\ c \in edges[c.key].evidence
        \/ \E k \in DOMAIN edges :
             /\ Ends(k) = Ends(c.key) /\ edges[k].status # Disabled
             /\ c.conf # Low => c \in edges[k].evidence

\* What rules say of a reference stays evidence of an edge, of its type, to the end
\* (absorbReferences deletes from the map it ranges over).
EvidenceKept == TypeOK /\ ReferenceKept
=============================================================================
