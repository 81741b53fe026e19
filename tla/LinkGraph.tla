------------------------------ MODULE LinkGraph ------------------------------
(***************************************************************************)
(* What Link promises, whatever order its rules run in and whatever order  *)
(* its maps are walked in: one graph, a function of the claims.            *)
(*                                                                         *)
(* An edge is as sure as the surest of its independent sources, and high   *)
(* when two of them are at least medium.  The sources are what the rules   *)
(* declare, what the role permits, and the reference that names the pair.  *)
(***************************************************************************)
EXTENDS LinkClaims

VARIABLES
  claims,     \* every claim of every rule
  readInFull, \* workloads whose role could be read in full
  permitted,  \* <<w, t>>: w's role allows something on t
  graph       \* <<the graph>> once it is returned, <<>> until then

Of(op, k) == {c \in claims : c.op = op /\ c.key = k /\ Ends(k) \subseteq Nodes}

\* The keys some rule drew, and all those an edge may come to exist for.
Declared == {c.key : c \in {d \in claims : Of("edge", d.key) # {}}}
Known    == {c.key : c \in {d \in claims : Of("edge", d.key) \cup Of("permit", d.key) # {}}}

Status(k) == IF k \in Declared THEN Highest({c.status : c \in Of("edge", k)})
                               ELSE Active

\* The surest claim of each source, as a level; Nothing when it is silent.
Nothing == 0
Level(op, k) == IF Of(op, k) = {} THEN Nothing ELSE Highest({c.conf : c \in Of(op, k)})

\* Two sources that are each good enough make high.
Together(levels) ==
  LET top == Highest({levels[i] : i \in DOMAIN levels}) IN
  IF \E i, j \in DOMAIN levels : i # j /\ levels[i] >= Medium /\ levels[j] >= Medium
    THEN Highest({top, High})
    ELSE top

Naming(k) == [from |-> k.from, to |-> k.to, kind |-> "references"]
Reversed(k) == [from |-> k.to, to |-> k.from, kind |-> "references"]
Live(k) == k \in Known /\ k.kind # "references" /\ Status(k) # Disabled

OwnEvidence(k) == Of("edge", k) \cup Of("permit", k)
                    \cup (IF k \in Declared THEN Of("corroborate", k) ELSE {})

\* The edges that explain a reference: those of its pair that carry traffic,
\* or else the consume edge the holder's role backs.
Explains(r, k) ==
  /\ Live(k)
  /\ \/ Naming(k) = r
     \/ /\ ~\E j \in Known : Live(j) /\ Naming(j) = r
        /\ k.kind = "consume" /\ Reversed(k) = r
        /\ \E c \in OwnEvidence(k) : c.rule = "iam"

References == {r \in Known : r.kind = "references"}
Explained == {r \in References : \E k \in Known : Explains(r, k)}

ReferenceConf(r) == Together(<<Level("edge", r), Level("permit", r)>>)

\* The references that are evidence for k.  A low one is not evidence.
Backing(k) == {r \in References : Explains(r, k) /\ ReferenceConf(r) # Low}

Merged ==
  [k \in Known \ Explained |->
     [conf |-> IF Backing(k) = {}
                 THEN Together(<<Level("edge", k), Level("permit", k)>>)
                 ELSE Together(<<Level("edge", k), Level("permit", k),
                                 Highest({ReferenceConf(r) : r \in Backing(k)})>>),
      status |-> Status(k),
      evidence |-> OwnEvidence(k) \cup UNION {OwnEvidence(r) : r \in Backing(k)}]]

\* What could not become an edge: a claim about something that is not there, a
\* permission nothing uses, and a name whose holder may not act on it.
Reported ==
  {[kind |-> "unresolved", node |-> c.key.from, target |-> c.key.to] :
     c \in {d \in claims : /\ d.op # "corroborate" /\ d.key.to \notin Nodes
                           /\ d.op = "edge" => d.key.from \in Nodes}}
  \cup
  {[kind |-> "unresolved", node |-> c.key.to, target |-> c.key.from] :
     c \in {d \in claims : d.op = "edge" /\ d.key.from \notin Nodes}}
  \cup
  {[kind |-> "unresolved", node |-> c.key.from, target |-> c.key.to] :
     c \in {d \in claims : d.op = "permit" /\ d.key.from \notin Nodes}}
  \cup
  {[kind |-> "stale-permission", node |-> c.key.from, target |-> c.key.to] :
     c \in {d \in claims : d.op = "corroborate" /\ d.orElse /\ d.key \notin Declared}}
  \cup
  {[kind |-> "unpermitted", node |-> r.from, target |-> r.to] :
     r \in {s \in References \ Explained : /\ s.from \in readInFull /\ s.to \in Governed
                                           /\ <<s.from, s.to>> \notin permitted}}

Init ==
  /\ claims \in SUBSET Claims /\ OneIntent(claims)
  /\ readInFull \in SUBSET Workloads
  /\ permitted \in SUBSET (Workloads \X Nodes) /\ Permits(claims) \subseteq permitted
  /\ graph = <<>>

Link ==
  /\ graph = <<>> /\ graph' # <<>>
  /\ graph' = <<[edges |-> Merged, findings |-> Reported]>>
  /\ UNCHANGED <<claims, readInFull, permitted>>

Spec == Init /\ [][Link]_<<claims, readInFull, permitted, graph>>
=============================================================================
