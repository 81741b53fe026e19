-------------------------- MODULE LinkBuilderProofs --------------------------
(***************************************************************************)
(* What holds of the graph builder for every set of claims its rules can   *)
(* make, every order they are made in and every order its maps are walked. *)
(***************************************************************************)
EXTENDS LinkBuilder, TLAPS

\* The reference an edge may come to hold as evidence: the one that names its
\* target, or for a consume edge the one that names its source.
Reference(k) ==
  [from |-> IF k.kind = "consume" THEN k.to ELSE k.from,
   to   |-> IF k.kind = "consume" THEN k.from ELSE k.to,
   kind |-> "references"]

Told(k) == {c \in edges[k].evidence : c.op # "corroborate"}
Names(c) == c.op # "corroborate" /\ c.key.kind = "references" /\ Ends(c.key) \subseteq Nodes

\* What it takes to be high.
Earned(told) ==
  \/ \E c \in told : c.conf >= High
  \/ \E c, d \in told : c.rule # d.rule /\ c.conf >= Medium /\ d.conf >= Medium

\* The strengthening.  The inputs are those of one run of the rules;
Inputs == claims \in ClaimSets /\ OneIntent(claims)

\* permissions become evidence after all corroborations have, and what is kept
\* of the two is what was made;
Phases ==
  /\ \A c \in permissions : c.op = "permit"
  /\ \A c \in corroborations : c.op = "corroborate"
  /\ phase \in {"rules", "corroborated"} =>
       refs = {} /\ \A k \in DOMAIN edges : \A c \in edges[k].evidence : c.op # "permit"
  /\ phase # "rules" => todo = {}

\* what an edge holds was claimed of it, some of it at least, or of the reference
\* it has absorbed;
Sourced ==
  \A k \in DOMAIN edges :
    /\ \E c \in edges[k].evidence : c.key = k
    /\ \A c \in edges[k].evidence :
         /\ c \in claims
         /\ \/ c.key = k
            \/ /\ phase \in {"permitted", "done"} /\ k.kind # "references"
               /\ c.key = Reference(k) /\ Reference(k) \notin DOMAIN edges

\* an edge is at least as sure as all it was told, and medium by one of them;
Weighed ==
  \A k \in DOMAIN edges :
    /\ \A c \in Told(k) : c.conf <= edges[k].conf
    /\ edges[k].conf >= Medium => \E c \in Told(k) : c.conf >= Medium

\* and a claim that names something is on its way to an edge, or has arrived.
Arrives(c) ==
  \/ c \in todo
  \/ phase \in {"rules", "corroborated"} /\ c \in permissions
  \/ c.key \in DOMAIN edges /\ c \in edges[c.key].evidence
  \/ /\ phase \in {"permitted", "done"}
     /\ \E k \in DOMAIN edges :
          /\ Ends(k) = Ends(c.key) /\ edges[k].status # Disabled /\ k.kind # "references"
          /\ c.conf # Low => c \in edges[k].evidence
Arriving == \A c \in claims : Names(c) => Arrives(c)

IInv == TypeOK /\ Inputs /\ Phases /\ Sourced /\ Weighed /\ HighIsEarned /\ Arriving

-----------------------------------------------------------------------------
(* Ranks and claims.                                                       *)

\* A set of ranks has a highest one, silence being the lowest.
LEMMA HighestIs ==
  ASSUME NEW S \in SUBSET (0 .. Certain), S # {}
  PROVE  Highest(S) \in S /\ \A o \in S : o <= Highest(S)
<1>1. \E r \in S : \A o \in S : o <= r
  <2>1. S \subseteq {0, 1, 2, 3, 4}
    BY DEF Certain
  <2>2. CASE 4 \in S
    BY <2>1, <2>2
  <2>3. CASE 4 \notin S /\ 3 \in S
    BY <2>1, <2>3
  <2>4. CASE 4 \notin S /\ 3 \notin S /\ 2 \in S
    BY <2>1, <2>4
  <2>5. CASE 4 \notin S /\ 3 \notin S /\ 2 \notin S /\ 1 \in S
    BY <2>1, <2>5
  <2>6. CASE 4 \notin S /\ 3 \notin S /\ 2 \notin S /\ 1 \notin S
    <3>1. S = {0}
      BY <2>1, <2>6
    <3> QED BY <3>1
  <2> QED BY <2>2, <2>3, <2>4, <2>5, <2>6
<1> QED BY <1>1 DEF Highest

\* Two sources agree on no less than either, and are high only if one is or both
\* are medium.
LEMMA AgreeIs ==
  ASSUME NEW a \in Low .. Certain, NEW b \in Low .. Certain
  PROVE  /\ Agree(a, b) \in Low .. Certain /\ a <= Agree(a, b) /\ b <= Agree(a, b)
         /\ Agree(a, b) >= Medium => a >= Medium \/ b >= Medium
         /\ Agree(a, b) >= High => a >= High \/ b >= High \/ (a >= Medium /\ b >= Medium)
BY DEF Agree, Larger, Low, Medium, High, Certain

LEMMA LargerIs ==
  ASSUME NEW a \in Int, NEW b \in Int
  PROVE  Larger(a, b) \in {a, b} /\ a <= Larger(a, b) /\ b <= Larger(a, b)
BY DEF Larger

\* What the code's rules can claim.
LEMMA ClaimFacts ==
  ASSUME Inputs, NEW c \in claims
  PROVE  /\ c \in Claims
         /\ c.key \in Keys /\ c.conf \in Low .. Certain /\ c.status \in Disabled .. Active
         /\ c.op \in {"edge", "corroborate", "permit"}
         /\ c.key.kind = "references" => c.key.from \in Workloads
         /\ c.key.kind = "consume" => c.key.from \notin Workloads
         /\ c.op = "permit" => c.rule = "iam"
         /\ c.op = "edge" => c.rule # "iam"
         /\ c.op = "edge" /\ c.key.kind # "references" => c.conf >= High
BY ClaimAssumption DEF Inputs, Claims

\* A key is its three fields.
LEMMA KeyFields ==
  ASSUME NEW k \in Keys, NEW l \in Keys
  PROVE  k = l <=> k.from = l.from /\ k.to = l.to /\ k.kind = l.kind
BY DEF Keys

LEMMA ReferenceFacts ==
  ASSUME NEW k \in Keys
  PROVE  /\ Reference(k) \in Keys /\ Reference(k).kind = "references"
         /\ Ends(Reference(k)) = Ends(k)
BY DEF Reference, Keys, Kinds, Ends

LEMMA HighIsEarnedIs ==
  HighIsEarned <=> \A k \in DOMAIN edges : edges[k].conf >= High => Earned(Told(k))
BY DEF HighIsEarned, Earned, Told

LEMMA EarnedGrows ==
  ASSUME NEW T, NEW U, T \subseteq U, Earned(T)
  PROVE  Earned(U)
BY DEF Earned

-----------------------------------------------------------------------------
LEMMA InitIInv == Init => IInv
<1> SUFFICES ASSUME Init PROVE IInv
  OBVIOUS
<1>1. Inputs
  BY DEF Init, Inputs
<1>2. claims \in SUBSET Claims
  BY ClaimAssumption DEF Init
<1>3. TypeOK
  BY <1>2 DEF Init, TypeOK
<1>4. Phases /\ Sourced /\ Weighed /\ HighIsEarned
  BY DEF Init, Phases, Sourced, Weighed, HighIsEarned
<1>5. Arriving
  BY DEF Init, Arriving, Arrives
<1> QED BY <1>1, <1>3, <1>4, <1>5 DEF IInv
-----------------------------------------------------------------------------
(* The steps.  Each lemma is one action.                                   *)

\* One edge drawn: the others keep what they have, this one has what it had and
\* the claim.
LEMMA AddEdgeIs ==
  ASSUME NEW c \in claims, TypeOK, Inputs, edges' = AddEdge(c)
  PROVE  /\ DOMAIN edges' = DOMAIN edges \cup {c.key}
         /\ \A k \in DOMAIN edges : k # c.key => edges'[k] = edges[k]
         /\ edges'[c.key] \in Edge
         /\ edges'[c.key].conf >= c.conf
         /\ IF c.key \in DOMAIN edges
            THEN /\ edges'[c.key].evidence = edges[c.key].evidence \cup {c}
                 /\ edges'[c.key].conf \in {edges[c.key].conf, c.conf}
                 /\ edges'[c.key].conf >= edges[c.key].conf
                 /\ edges'[c.key].status \in {edges[c.key].status, c.status}
                 /\ edges'[c.key].status >= edges[c.key].status
                 /\ edges'[c.key].status >= c.status
            ELSE /\ edges'[c.key].evidence = {c} /\ edges'[c.key].conf = c.conf
                 /\ edges'[c.key].status = c.status
<1> DEFINE k == c.key
<1>1. /\ c \in Claims /\ c.conf \in Low .. Certain /\ c.status \in Disabled .. Active
      /\ c.conf \in Int /\ c.status \in Int
  BY ClaimFacts DEF Low, Certain, Disabled, Active
<1>2. /\ DOMAIN edges' = DOMAIN edges \cup {k}
      /\ \A l \in DOMAIN edges : l # k => edges'[l] = edges[l]
  BY DEF AddEdge
<1>3. CASE k \in DOMAIN edges
  <2>1. edges'[k] = [conf     |-> Larger(edges[k].conf, c.conf),
                     status   |-> Larger(edges[k].status, c.status),
                     evidence |-> edges[k].evidence \cup {c}]
    BY <1>3 DEF AddEdge
  <2>2. edges[k] \in Edge
    BY <1>3 DEF TypeOK
  <2>3. /\ edges[k].conf \in Low .. Certain /\ edges[k].status \in Disabled .. Active
        /\ edges[k].conf \in Int /\ edges[k].status \in Int
        /\ edges[k].evidence \in SUBSET Claims
    BY <2>2 DEF Edge, Low, Certain, Disabled, Active
  <2>4. /\ Larger(edges[k].conf, c.conf) \in {edges[k].conf, c.conf}
        /\ edges[k].conf <= Larger(edges[k].conf, c.conf)
        /\ c.conf <= Larger(edges[k].conf, c.conf)
        /\ Larger(edges[k].status, c.status) \in {edges[k].status, c.status}
        /\ edges[k].status <= Larger(edges[k].status, c.status)
        /\ c.status <= Larger(edges[k].status, c.status)
    BY <1>1, <2>3, LargerIs
  <2>5. edges'[k] \in Edge
    BY <2>1, <2>3, <2>4, <1>1 DEF Edge
  <2> QED BY <1>2, <1>3, <2>1, <2>3, <2>4, <2>5, <1>1
<1>4. CASE k \notin DOMAIN edges
  <2>1. edges'[k] = [conf |-> c.conf, status |-> c.status, evidence |-> {c}]
    BY <1>4 DEF AddEdge
  <2>2. edges'[k] \in Edge
    BY <2>1, <1>1 DEF Edge
  <2> QED BY <1>2, <1>4, <2>1, <2>2, <1>1
<1> QED BY <1>3, <1>4

LEMMA DrawEdgeStep == ASSUME NEW c \in todo, IInv, DrawEdge(c) PROVE IInv'
<1>0. TypeOK /\ Inputs /\ Phases /\ Sourced /\ Weighed /\ HighIsEarned /\ Arriving
  BY DEF IInv
<1>1. /\ c \in claims /\ c \in Claims /\ c.key \in Keys /\ c.op = "edge" /\ c.rule # "iam"
      /\ c.conf \in Low .. Certain /\ c.conf \in Int
      /\ c.key.kind # "references" => c.conf >= High
  <2>1. c \in claims /\ c.op = "edge"
    BY <1>0 DEF TypeOK, DrawEdge
  <2> QED BY <2>1, <1>0, ClaimFacts DEF Low, Certain
<1>2. UNCHANGED <<claims, readInFull, permitted, phase, corroborations, permissions, refs>>
  BY DEF DrawEdge, inputs
<1>3. phase = "rules" /\ todo' = todo \ {c} /\ refs = {}
  BY <1>0 DEF DrawEdge, Phases
<1>4. c.key.from \in Ids /\ c.key.to \in Ids
  BY <1>1 DEF Keys
<1>5. Inputs'
  BY <1>0, <1>2 DEF Inputs
<1>6. CASE ~(Ends(c.key) \subseteq Nodes)
  <2>1. edges' = edges
    BY <1>6 DEF DrawEdge, Ends
  <2>2. findings' \in SUBSET Findings
    BY <1>0, <1>4 DEF DrawEdge, TypeOK, Finding, Findings
  <2>3. TypeOK'
    BY <1>0, <1>2, <1>3, <2>1, <2>2 DEF TypeOK
  <2>4. Phases' /\ Sourced' /\ Weighed' /\ HighIsEarned'
    BY <1>0, <1>2, <1>3, <2>1 DEF Phases, Sourced, Weighed, HighIsEarned, Told
  <2>5. Arriving'
    BY <1>0, <1>2, <1>3, <1>6, <2>1 DEF Arriving, Arrives, Names
  <2> QED BY <1>5, <2>3, <2>4, <2>5 DEF IInv
<1>7. CASE Ends(c.key) \subseteq Nodes
  <2> DEFINE k == c.key
  <2>1. edges' = AddEdge(c) /\ findings' = findings
    BY <1>7 DEF DrawEdge, Ends
  <2>2. /\ DOMAIN edges' = DOMAIN edges \cup {k}
        /\ \A l \in DOMAIN edges : l # k => edges'[l] = edges[l]
        /\ edges'[k] \in Edge
        /\ edges'[k].conf >= c.conf
        /\ k \in DOMAIN edges =>
             /\ edges'[k].evidence = edges[k].evidence \cup {c}
             /\ edges'[k].conf \in {edges[k].conf, c.conf}
             /\ edges'[k].conf >= edges[k].conf
        /\ k \notin DOMAIN edges =>
             edges'[k].evidence = {c} /\ edges'[k].conf = c.conf
    BY <2>1, <1>0, <1>1, AddEdgeIs
  <2> HIDE DEF k
  <2>k. k = c.key
    BY DEF k
  <2>3. TypeOK'
    BY <1>0, <1>1, <1>2, <1>3, <2>1, <2>2, <2>k DEF TypeOK
  <2>4. \A l \in DOMAIN edges' : \A d \in edges'[l].evidence :
           (d = c /\ l = k) \/ (l \in DOMAIN edges /\ d \in edges[l].evidence)
    BY <2>2
  <2>5. Phases'
    BY <1>0, <1>1, <1>2, <1>3, <2>4 DEF Phases
  <2>6. Sourced'
    <3>1. \A l \in DOMAIN edges : \A d \in edges[l].evidence : d \in claims /\ d.key = l
      BY <1>0, <1>3 DEF Sourced
    <3>2. \A l \in DOMAIN edges' : \E d \in edges'[l].evidence : d.key = l
      <4>1. \E d \in edges'[k].evidence : d.key = k
        BY <2>2, <2>k
      <4> QED BY <1>0, <2>2, <4>1 DEF Sourced
    <3> QED BY <1>1, <1>2, <2>4, <2>k, <3>1, <3>2 DEF Sourced
  <2>7. /\ \A l \in DOMAIN edges : l # k => Told(l)' = Told(l)
        /\ Told(k)' = (IF k \in DOMAIN edges THEN Told(k) ELSE {}) \cup {c}
    BY <1>1, <2>2 DEF Told
  <2>8. /\ \A l \in DOMAIN edges : edges[l].conf \in Int
        /\ \A l \in DOMAIN edges : \A d \in Told(l) : d.conf \in Int
    <3>1. \A l \in DOMAIN edges : edges[l].conf \in Low .. Certain
      BY <1>0 DEF TypeOK, Edge
    <3>2. \A l \in DOMAIN edges : \A d \in Told(l) : d.conf \in Low .. Certain
      BY <1>0 DEF TypeOK, Edge, Told, Claims
    <3> QED BY <3>1, <3>2 DEF Low, Certain
  <2>c. edges'[k].conf \in Int
    BY <1>1, <2>2, <2>8
  <2>9. Weighed'
    <3> SUFFICES ASSUME NEW l \in DOMAIN edges'
                 PROVE  /\ \A d \in Told(l)' : d.conf <= edges'[l].conf
                        /\ edges'[l].conf >= Medium => \E d \in Told(l)' : d.conf >= Medium
      BY DEF Weighed
    <3>1. CASE l # k
      BY <1>0, <2>2, <2>7, <3>1 DEF Weighed
    <3>2. CASE l = k /\ k \in DOMAIN edges
      <4>1. \A d \in Told(k) : d.conf <= edges'[k].conf
        BY <1>0, <2>2, <2>8, <2>c, <3>2 DEF Weighed
      <4>2. edges[k].conf >= Medium => \E d \in Told(k) : d.conf >= Medium
        BY <1>0, <3>2 DEF Weighed
      <4> QED BY <1>1, <2>2, <2>7, <3>2, <4>1, <4>2
    <3>3. CASE l = k /\ k \notin DOMAIN edges
      BY <1>1, <2>2, <2>7, <3>3
    <3> QED BY <3>1, <3>2, <3>3
  <2>10. HighIsEarned'
    <3>1. \A l \in DOMAIN edges : edges[l].conf >= High => Earned(Told(l))
      BY <1>0, HighIsEarnedIs
    <3> SUFFICES ASSUME NEW l \in DOMAIN edges', edges'[l].conf >= High
                 PROVE  Earned(Told(l)')
      BY DEF HighIsEarned, Earned, Told
    <3>2. CASE l # k
      BY <2>2, <2>7, <3>1, <3>2
    <3>3. CASE l = k /\ k \in DOMAIN edges /\ edges'[k].conf = edges[k].conf
      <4>1. Earned(Told(k)) /\ Told(k) \subseteq Told(l)'
        BY <2>7, <3>1, <3>3
      <4> QED BY <4>1, EarnedGrows
    <3>4. CASE l = k /\ edges'[k].conf = c.conf
      BY <2>7, <3>4 DEF Earned
    <3> QED BY <2>2, <3>2, <3>3, <3>4
  <2>11. Arriving'
    <3> SUFFICES ASSUME NEW d \in claims, Names(d) PROVE Arrives(d)'
      BY <1>2 DEF Arriving, Names
    <3>1. Arrives(d)
      BY <1>0 DEF Arriving
    <3>2. CASE d = c
      BY <2>2, <2>k, <3>2 DEF Arrives
    <3>3. CASE d # c
      BY <1>2, <1>3, <2>2, <3>1, <3>3 DEF Arrives
    <3> QED BY <3>2, <3>3
  <2> QED BY <1>5, <2>3, <2>5, <2>6, <2>9, <2>10, <2>11 DEF IInv
<1> QED BY <1>6, <1>7
LEMMA CorroborateStep == ASSUME NEW c \in todo, IInv, Corroborate(c) PROVE IInv'
<1>0. TypeOK /\ Inputs /\ Phases /\ Sourced /\ Weighed /\ HighIsEarned /\ Arriving
  BY DEF IInv
<1>1. /\ UNCHANGED <<claims, readInFull, permitted, phase, edges, permissions, findings, refs>>
      /\ phase = "rules" /\ todo' = todo \ {c} /\ c.op = "corroborate"
      /\ corroborations' = corroborations \cup {c} /\ c \in claims
  BY <1>0 DEF Corroborate, inputs, TypeOK
<1>2. TypeOK' /\ Inputs'
  BY <1>0, <1>1 DEF TypeOK, Inputs
<1>3. Phases' /\ Sourced' /\ Weighed' /\ HighIsEarned'
  BY <1>0, <1>1 DEF Phases, Sourced, Weighed, HighIsEarned, Told
<1>4. Arriving'
  BY <1>0, <1>1 DEF Arriving, Arrives, Names
<1> QED BY <1>2, <1>3, <1>4 DEF IInv

LEMMA PermitStep == ASSUME NEW c \in todo, IInv, Permit(c) PROVE IInv'
<1>0. TypeOK /\ Inputs /\ Phases /\ Sourced /\ Weighed /\ HighIsEarned /\ Arriving
  BY DEF IInv
<1>1. /\ UNCHANGED <<claims, readInFull, permitted, phase, edges, corroborations, refs>>
      /\ phase = "rules" /\ todo' = todo \ {c} /\ c.op = "permit" /\ c \in claims
  BY <1>0 DEF Permit, inputs, TypeOK
<1>2. c.key.from \in Ids /\ c.key.to \in Ids
  BY <1>0, <1>1, ClaimFacts DEF Keys
<1>3. /\ permissions' \subseteq permissions \cup {c} /\ permissions \subseteq permissions'
      /\ Ends(c.key) \subseteq Nodes => c \in permissions'
      /\ findings' \subseteq findings \cup {Finding("unresolved", c.key.from, c.key.to)}
  BY DEF Permit
<1>4. Finding("unresolved", c.key.from, c.key.to) \in Findings
  BY <1>2 DEF Finding, Findings
<1>5. TypeOK' /\ Inputs'
  BY <1>0, <1>1, <1>3, <1>4 DEF TypeOK, Inputs
<1>6. Phases' /\ Sourced' /\ Weighed' /\ HighIsEarned'
  BY <1>0, <1>1, <1>3 DEF Phases, Sourced, Weighed, HighIsEarned, Told
<1>7. Arriving'
  BY <1>0, <1>1, <1>3 DEF Arriving, Arrives, Names
<1> QED BY <1>5, <1>6, <1>7 DEF IInv

LEMMA ResolveCorroborationsStep == IInv /\ ResolveCorroborations => IInv'
<1> SUFFICES ASSUME IInv, ResolveCorroborations PROVE IInv'
  OBVIOUS
<1>0. TypeOK /\ Inputs /\ Phases /\ Sourced /\ Weighed /\ HighIsEarned /\ Arriving
  BY DEF IInv
<1>1. /\ UNCHANGED <<claims, readInFull, permitted, todo, corroborations, permissions, refs>>
      /\ phase = "rules" /\ phase' = "corroborated" /\ todo = {}
  BY DEF ResolveCorroborations, inputs
<1>2. /\ DOMAIN edges' = DOMAIN edges
      /\ \A k \in DOMAIN edges :
           edges'[k] = [edges[k] EXCEPT !.evidence = @ \cup {c \in corroborations : c.key = k}]
  BY DEF ResolveCorroborations
<1>3. \A k \in DOMAIN edges : edges[k] \in Edge
  BY <1>0 DEF TypeOK
<1>4. \A k \in DOMAIN edges :
        /\ edges'[k].conf = edges[k].conf /\ edges'[k].status = edges[k].status
        /\ edges'[k].evidence = edges[k].evidence \cup {c \in corroborations : c.key = k}
        /\ edges'[k] \in Edge
  <2>1. corroborations \subseteq Claims
    BY <1>0 DEF TypeOK
  <2> QED BY <1>2, <1>3, <2>1 DEF Edge
<1>5. TypeOK' /\ Inputs'
  <2>1. \A c \in corroborations : Finding("stale-permission", c.key.from, c.key.to) \in Findings
    <3>1. \A c \in corroborations : c.key \in Keys
      BY <1>0, ClaimFacts DEF TypeOK
    <3> QED BY <3>1 DEF Keys, Finding, Findings
  <2>2. findings' \in SUBSET Findings
    BY <1>0, <2>1 DEF ResolveCorroborations, TypeOK
  <2> QED BY <1>0, <1>1, <1>2, <1>4, <2>2 DEF TypeOK, Inputs
<1>6. \A k \in DOMAIN edges : Told(k)' = Told(k)
  BY <1>0, <1>2, <1>4 DEF Told, Phases
<1>7. Phases'
  BY <1>0, <1>1, <1>2, <1>4 DEF Phases
<1>8. Sourced'
  BY <1>0, <1>1, <1>2, <1>4 DEF Sourced, TypeOK
<1>9. Weighed'
  BY <1>0, <1>2, <1>4, <1>6 DEF Weighed
<1>10. HighIsEarned'
  <2>1. \A k \in DOMAIN edges : edges[k].conf >= High => Earned(Told(k))
    BY <1>0, HighIsEarnedIs
  <2>2. \A k \in DOMAIN edges' : edges'[k].conf >= High => Earned(Told(k)')
    BY <1>2, <1>4, <1>6, <2>1
  <2> QED BY <2>2 DEF HighIsEarned, Earned, Told
<1>11. Arriving'
  <2> SUFFICES ASSUME NEW d \in claims, Names(d) PROVE Arrives(d)'
    BY <1>1 DEF Arriving, Names
  <2>1. Arrives(d)
    BY <1>0 DEF Arriving
  <2> QED BY <1>1, <1>2, <1>4, <2>1 DEF Arrives
<1> QED BY <1>5, <1>7, <1>8, <1>9, <1>10, <1>11 DEF IInv
\* What a role permits of one edge, weighed: the statements are one source.
LEMMA PermittedIs ==
  ASSUME NEW k \in DOMAIN edges \cup {p.key : p \in permissions}, TypeOK, Inputs, Phases
  PROVE  LET ps  == {p \in permissions : p.key = k}
             top == Highest({p.conf : p \in ps}) IN
         /\ Permitted(k) \in Edge
         /\ ps # {} => /\ top \in Low .. Certain /\ \E p \in ps : p.conf = top
                       /\ \A p \in ps : p.conf <= top
         /\ k \notin DOMAIN edges =>
              ps # {} /\ Permitted(k) = [conf |-> top, status |-> Active, evidence |-> ps]
         /\ k \in DOMAIN edges =>
              /\ Permitted(k).evidence = edges[k].evidence \cup ps
              /\ Permitted(k).status = edges[k].status
              /\ ps = {} => Permitted(k) = edges[k]
              /\ ps # {} => Permitted(k).conf = Agree(edges[k].conf, top)
<1> DEFINE ps  == {p \in permissions : p.key = k}
           top == Highest({p.conf : p \in ps})
<1>1. \A p \in ps : p \in Claims /\ p.conf \in Low .. Certain
  BY ClaimFacts DEF TypeOK
<1>2. ps # {} => /\ top \in Low .. Certain /\ \E p \in ps : p.conf = top
                 /\ \A p \in ps : p.conf <= top
  <2> DEFINE S == {p.conf : p \in ps}
  <2> SUFFICES ASSUME ps # {} PROVE Highest(S) \in S /\ \A o \in S : o <= Highest(S)
    BY <1>1
  <2>1. S \in SUBSET (0 .. Certain) /\ S # {}
    BY <1>1 DEF Low, Certain
  <2> HIDE DEF S
  <2> QED BY <2>1, HighestIs
<1>3. k \notin DOMAIN edges => ps # {}
  OBVIOUS
<1> HIDE DEF top
<1>4. CASE k \notin DOMAIN edges
  <2>1. Permitted(k) = [conf |-> top, status |-> Active, evidence |-> ps]
    BY <1>4 DEF Permitted, top
  <2>2. Permitted(k) \in Edge
    BY <1>1, <1>2, <1>3, <1>4, <2>1 DEF Edge, Active, Disabled
  <2> QED BY <1>2, <1>3, <1>4, <2>1, <2>2 DEF top
<1>5. CASE k \in DOMAIN edges /\ ps = {}
  <2>1. Permitted(k) = edges[k]
    BY <1>5 DEF Permitted
  <2> QED BY <1>5, <2>1 DEF TypeOK
<1>6. CASE k \in DOMAIN edges /\ ps # {}
  <2>1. Permitted(k) = [edges[k] EXCEPT !.conf = Agree(@, top), !.evidence = @ \cup ps]
    BY <1>6 DEF Permitted, top
  <2>2. edges[k] \in Edge /\ edges[k].conf \in Low .. Certain
    BY <1>6 DEF TypeOK, Edge
  <2>3. Agree(edges[k].conf, top) \in Low .. Certain
    BY <1>2, <1>6, <2>2, AgreeIs
  <2>4. /\ Permitted(k) \in Edge /\ Permitted(k).evidence = edges[k].evidence \cup ps
        /\ Permitted(k).status = edges[k].status
        /\ Permitted(k).conf = Agree(edges[k].conf, top)
    BY <1>1, <2>1, <2>2, <2>3 DEF Edge
  <2> QED BY <1>2, <1>6, <2>4 DEF top
<1> QED BY <1>4, <1>5, <1>6

LEMMA ResolvePermissionsStep == IInv /\ ResolvePermissions => IInv'
<1> SUFFICES ASSUME IInv, ResolvePermissions PROVE IInv'
  OBVIOUS
<1> DEFINE Of(k)  == {p \in permissions : p.key = k}
           Top(k) == Highest({p.conf : p \in Of(k)})
<1>0. TypeOK /\ Inputs /\ Phases /\ Sourced /\ Weighed /\ HighIsEarned /\ Arriving
  BY DEF IInv
<1>1. /\ UNCHANGED <<claims, readInFull, permitted, todo, corroborations, permissions, findings>>
      /\ phase = "corroborated" /\ phase' = "permitted" /\ todo = {}
      /\ refs' = {k \in DOMAIN edges' : k.kind = "references"}
  BY <1>0 DEF ResolvePermissions, inputs, Phases
<1>2. /\ DOMAIN edges' = DOMAIN edges \cup {p.key : p \in permissions}
      /\ \A k \in DOMAIN edges' : edges'[k] = Permitted(k)
  BY DEF ResolvePermissions
<1>3. \A k \in DOMAIN edges' :
         /\ edges'[k] \in Edge
         /\ Of(k) # {} => /\ Top(k) \in Low .. Certain /\ \E p \in Of(k) : p.conf = Top(k)
                          /\ \A p \in Of(k) : p.conf <= Top(k)
         /\ k \notin DOMAIN edges =>
              Of(k) # {} /\ edges'[k].conf = Top(k) /\ edges'[k].evidence = Of(k)
         /\ k \in DOMAIN edges =>
              /\ edges'[k].evidence = edges[k].evidence \cup Of(k)
              /\ Of(k) = {} => edges'[k] = edges[k]
              /\ Of(k) # {} => edges'[k].conf = Agree(edges[k].conf, Top(k))
  <2> TAKE k \in DOMAIN edges'
  <2>1. edges'[k] = Permitted(k) /\ k \in DOMAIN edges \cup {p.key : p \in permissions}
    BY <1>2
  <2>2. /\ Permitted(k) \in Edge
        /\ Of(k) # {} => /\ Top(k) \in Low .. Certain /\ \E p \in Of(k) : p.conf = Top(k)
                         /\ \A p \in Of(k) : p.conf <= Top(k)
        /\ k \notin DOMAIN edges =>
             /\ Of(k) # {}
             /\ Permitted(k) = [conf |-> Top(k), status |-> Active, evidence |-> Of(k)]
        /\ k \in DOMAIN edges =>
             /\ Permitted(k).evidence = edges[k].evidence \cup Of(k)
             /\ Of(k) = {} => Permitted(k) = edges[k]
             /\ Of(k) # {} => Permitted(k).conf = Agree(edges[k].conf, Top(k))
    BY <1>0, <2>1, PermittedIs
  <2> HIDE DEF Of, Top
  <2> QED BY <2>1, <2>2
<1> HIDE DEF Top
<1>4. \A p \in permissions : /\ p \in claims /\ p.key \in Keys /\ p.rule = "iam"
                             /\ p.op = "permit" /\ p.conf \in Low .. Certain
  BY <1>0, ClaimFacts DEF TypeOK, Phases
<1>5. TypeOK' /\ Inputs' /\ Phases'
  BY <1>0, <1>1, <1>2, <1>3, <1>4 DEF TypeOK, Inputs, Phases
<1>6. \A k \in DOMAIN edges : \A c \in edges[k].evidence : c \in claims /\ c.key = k
  BY <1>0, <1>1 DEF Sourced
<1>7. Sourced'
  <2>1. \A k \in DOMAIN edges : \E c \in edges[k].evidence : c.key = k
    BY <1>0 DEF Sourced
  <2>2. \A k \in DOMAIN edges' : \E c \in edges'[k].evidence : c.key = k
    BY <1>2, <1>3, <2>1
  <2>3. \A k \in DOMAIN edges' : \A c \in edges'[k].evidence : c \in claims /\ c.key = k
    BY <1>2, <1>3, <1>4, <1>6
  <2> QED BY <1>1, <2>2, <2>3 DEF Sourced
<1>8. \A k \in DOMAIN edges' :
         Told(k)' = (IF k \in DOMAIN edges THEN Told(k) ELSE {}) \cup Of(k)
  BY <1>2, <1>3, <1>4 DEF Told
<1>9. /\ \A k \in DOMAIN edges : edges[k].conf \in Low .. Certain
      /\ \A k \in DOMAIN edges : \A c \in Told(k) :
           c \in claims /\ c.conf \in Low .. Certain /\ c.op # "permit" /\ c.rule # "iam"
  <2>1. \A k \in DOMAIN edges : edges[k].conf \in Low .. Certain
    BY <1>0 DEF TypeOK, Edge
  <2>2. \A k \in DOMAIN edges : \A c \in Told(k) :
           c \in claims /\ c.op # "permit" /\ c.op # "corroborate"
    BY <1>0, <1>1, <1>6 DEF Told, Phases
  <2> QED BY <1>0, <2>1, <2>2, ClaimFacts
<1>10. \A k \in DOMAIN edges' :
         /\ \A c \in Told(k)' : c.conf <= edges'[k].conf
         /\ edges'[k].conf >= Medium => \E c \in Told(k)' : c.conf >= Medium
         /\ edges'[k].conf >= High => Earned(Told(k)')
  <2> SUFFICES ASSUME NEW k \in DOMAIN edges'
               PROVE  /\ \A c \in Told(k)' : c.conf <= edges'[k].conf
                      /\ edges'[k].conf >= Medium => \E c \in Told(k)' : c.conf >= Medium
                      /\ edges'[k].conf >= High => Earned(Told(k)')
    OBVIOUS
  <2>1. CASE k \notin DOMAIN edges
    BY <1>3, <1>8, <2>1 DEF Earned
  <2>2. /\ k \in DOMAIN edges => \A c \in Told(k) : c.conf <= edges[k].conf
        /\ k \in DOMAIN edges /\ edges[k].conf >= Medium => \E c \in Told(k) : c.conf >= Medium
        /\ k \in DOMAIN edges /\ edges[k].conf >= High => Earned(Told(k))
    BY <1>0, HighIsEarnedIs DEF Weighed
  <2>3. CASE k \in DOMAIN edges /\ Of(k) = {}
    BY <1>3, <1>8, <2>2, <2>3
  <2>4. CASE k \in DOMAIN edges /\ Of(k) # {}
    <3>1. /\ Told(k)' = Told(k) \cup Of(k)
          /\ edges'[k].conf = Agree(edges[k].conf, Top(k))
          /\ edges[k].conf \in Low .. Certain /\ Top(k) \in Low .. Certain
      BY <1>3, <1>8, <1>9, <2>4
    <3>2. /\ edges'[k].conf \in Low .. Certain
          /\ edges[k].conf <= edges'[k].conf /\ Top(k) <= edges'[k].conf
          /\ edges'[k].conf >= Medium => edges[k].conf >= Medium \/ Top(k) >= Medium
          /\ edges'[k].conf >= High => \/ edges[k].conf >= High \/ Top(k) >= High
                                       \/ (edges[k].conf >= Medium /\ Top(k) >= Medium)
      <4> DEFINE a == edges[k].conf
                 b == Top(k)
      <4>1. a \in Low .. Certain /\ b \in Low .. Certain /\ edges'[k].conf = Agree(a, b)
        BY <3>1
      <4> HIDE DEF a, b
      <4>2. /\ edges'[k].conf \in Low .. Certain /\ a <= edges'[k].conf /\ b <= edges'[k].conf
            /\ edges'[k].conf >= Medium => a >= Medium \/ b >= Medium
            /\ edges'[k].conf >= High => a >= High \/ b >= High \/ (a >= Medium /\ b >= Medium)
        BY <4>1, AgreeIs
      <4> QED BY <4>2 DEF a, b
    <3>i. /\ edges[k].conf \in Int /\ Top(k) \in Int /\ edges'[k].conf \in Int
          /\ \A c \in Told(k) \cup Of(k) : c.conf \in Int
      BY <1>4, <1>9, <2>4, <3>1, <3>2 DEF Low, Certain
    <3>3. PICK p \in Of(k) : p.conf = Top(k)
      BY <1>3, <2>4
    <3>4. \A c \in Told(k)' : c.conf <= edges'[k].conf
      BY <1>3, <2>2, <2>4, <3>1, <3>2, <3>i
    <3>5. edges'[k].conf >= Medium => \E c \in Told(k)' : c.conf >= Medium
      BY <2>2, <2>4, <3>1, <3>2, <3>3
    <3>6. edges'[k].conf >= High => Earned(Told(k)')
      <4>1. ASSUME edges[k].conf >= Medium, Top(k) >= Medium PROVE Earned(Told(k)')
        <5>1. PICK c \in Told(k) : c.conf >= Medium
          BY <2>2, <2>4, <4>1
        <5>2. c.rule # p.rule /\ p.conf >= Medium
          BY <1>4, <1>9, <2>4, <3>3, <4>1, <5>1
        <5> QED BY <3>1, <3>3, <5>1, <5>2 DEF Earned
      <4>2. edges[k].conf >= High => Earned(Told(k)')
        BY <2>2, <2>4, <3>1, EarnedGrows
      <4>3. Top(k) >= High => Earned(Told(k)')
        BY <3>1, <3>3 DEF Earned
      <4> QED BY <3>2, <4>1, <4>2, <4>3
    <3> QED BY <3>4, <3>5, <3>6
  <2> QED BY <2>1, <2>3, <2>4
<1>11. Weighed' /\ HighIsEarned'
  BY <1>10 DEF Weighed, HighIsEarned, Earned, Told
<1>12. Arriving'
  <2> SUFFICES ASSUME NEW d \in claims, Names(d) PROVE Arrives(d)'
    BY <1>1 DEF Arriving, Names
  <2>1. Arrives(d)
    BY <1>0 DEF Arriving
  <2>2. CASE d \in permissions
    <3>1. d.key \in DOMAIN edges' /\ d \in Of(d.key)
      BY <1>2, <2>2
    <3>2. d \in edges'[d.key].evidence
      BY <1>3, <3>1
    <3> QED BY <3>1, <3>2 DEF Arrives
  <2>3. CASE d.key \in DOMAIN edges /\ d \in edges[d.key].evidence
    BY <1>2, <1>3, <2>3 DEF Arrives
  <2> QED BY <1>1, <2>1, <2>2, <2>3 DEF Arrives
<1> QED BY <1>5, <1>7, <1>11, <1>12 DEF IInv
\* An edge that absorbs a reference joins its two ends and carries traffic; a
\* reference that is more than a guess is the only one that edge can absorb.
LEMMA AbsorbersAre ==
  ASSUME IInv, NEW k \in refs, NEW e \in Absorbers(k)
  PROVE  /\ k \in DOMAIN edges /\ k.kind = "references" /\ k \in Keys
         /\ e \in DOMAIN edges /\ e.kind # "references" /\ e \in Keys
         /\ edges[e].status # Disabled /\ Ends(e) = Ends(k)
         /\ Reference(e) = k
<1>0. TypeOK /\ Inputs /\ Sourced
  BY DEF IInv
<1>1. k \in DOMAIN edges /\ k.kind = "references" /\ k \in Keys
  BY <1>0 DEF TypeOK
<1>2. /\ e \in DOMAIN edges /\ e.kind # "references" /\ edges[e].status # Disabled
      /\ \/ e.from = k.from /\ e.to = k.to
         \/ e = [from |-> k.to, to |-> k.from, kind |-> "consume"]
  BY DEF Absorbers
<1>3. e \in Keys
  BY <1>0, <1>2 DEF TypeOK
<1>4. Ends(e) = Ends(k)
  BY <1>2 DEF Ends
<1>5. Reference(e) = k
  <2>1. PICK c \in edges[k].evidence : c.key = k /\ c \in claims
    BY <1>0, <1>1 DEF Sourced
  <2>2. k.from \in Workloads
    BY <1>0, <1>1, <2>1, ClaimFacts
  <2>3. PICK d \in edges[e].evidence : d.key = e /\ d \in claims
    BY <1>0, <1>2 DEF Sourced
  <2>4. e.kind = "consume" => e.from \notin Workloads
    BY <1>0, <2>3, ClaimFacts
  <2>5. /\ Reference(e).kind = "references"
        /\ Reference(e).from = k.from /\ Reference(e).to = k.to
    BY <1>2, <2>2, <2>4 DEF Reference
  <2> QED BY <1>1, <1>3, <2>5, KeyFields, ReferenceFacts
<1> QED BY <1>1, <1>2, <1>3, <1>4, <1>5

\* Two medium claims, one of a typed edge and one of the reference it absorbs,
\* come from two rules: the roles speak of one or of the other.
LEMMA TwoSources ==
  ASSUME Inputs, NEW c \in claims, NEW d \in claims,
         c.op # "corroborate", d.op # "corroborate",
         c.key.kind # "references", d.key.kind = "references", Ends(c.key) = Ends(d.key)
  PROVE  c.conf >= High \/ c.rule # d.rule
<1>1. /\ c.op = "permit" => c.rule = "iam"
      /\ d.op = "edge" => d.rule # "iam"
      /\ c.op = "edge" => c.conf >= High
      /\ c.op \in {"edge", "permit"} /\ d.op \in {"edge", "permit"}
  BY ClaimFacts
<1>2. ~(c.op = "permit" /\ d.op = "permit")
  BY DEF Inputs, OneIntent
<1> QED BY <1>1, <1>2

LEMMA AbsorbStep == ASSUME NEW k \in refs, IInv, Absorb(k) PROVE IInv'
<1>0. TypeOK /\ Inputs /\ Phases /\ Sourced /\ Weighed /\ HighIsEarned /\ Arriving
  BY DEF IInv
<1>1. /\ UNCHANGED <<claims, readInFull, permitted, phase, todo, corroborations,
                     permissions, findings>>
      /\ phase = "permitted" /\ todo = {} /\ refs' = refs \ {k}
  BY <1>0 DEF Absorb, inputs, Phases
<1>2. Inputs'
  BY <1>0, <1>1 DEF Inputs
<1>3. CASE Absorbers(k) = {}
  <2>1. edges' = edges
    BY <1>3 DEF Absorb
  <2>2. TypeOK' /\ Phases'
    BY <1>0, <1>1, <2>1 DEF TypeOK, Phases
  <2>3. Sourced' /\ Weighed' /\ HighIsEarned'
    BY <1>0, <1>1, <2>1 DEF Sourced, Weighed, HighIsEarned, Told
  <2>4. Arriving'
    BY <1>0, <1>1, <2>1 DEF Arriving, Arrives, Names
  <2> QED BY <1>2, <2>2, <2>3, <2>4 DEF IInv
<1>4. CASE Absorbers(k) # {}
  <2> DEFINE A == Absorbers(k)
  <2>1. \A e \in A : /\ k \in DOMAIN edges /\ k.kind = "references"
                     /\ e \in DOMAIN edges /\ e.kind # "references"
                     /\ edges[e].status # Disabled /\ Ends(e) = Ends(k)
                     /\ Reference(e) = k
    BY AbsorbersAre
  <2>2. k \in DOMAIN edges /\ k.kind = "references"
    BY <1>4, <2>1
  <2>3. /\ DOMAIN edges' = DOMAIN edges \ {k}
        /\ \A e \in DOMAIN edges \ {k} :
             edges'[e] = IF e \in A /\ edges[k].conf # Low
                           THEN [edges[e] EXCEPT !.conf = Agree(@, edges[k].conf),
                                                 !.evidence = @ \cup edges[k].evidence]
                           ELSE edges[e]
    BY <1>4 DEF Absorb
  <2> HIDE DEF A
  <2>4. \A e \in DOMAIN edges : /\ edges[e] \in Edge /\ edges[e].conf \in Low .. Certain
                                /\ edges[e].conf \in Int /\ edges[e].evidence \subseteq Claims
    BY <1>0 DEF TypeOK, Edge, Low, Certain
  <2>5. \A e \in DOMAIN edges' :
          IF e \in A /\ edges[k].conf # Low
            THEN /\ edges'[e] \in Edge /\ edges'[e].status = edges[e].status
                 /\ edges'[e].conf = Agree(edges[e].conf, edges[k].conf)
                 /\ edges'[e].evidence = edges[e].evidence \cup edges[k].evidence
            ELSE edges'[e] = edges[e]
    <3> SUFFICES ASSUME NEW e \in DOMAIN edges', e \in A, edges[k].conf # Low
                 PROVE  /\ edges'[e] \in Edge /\ edges'[e].status = edges[e].status
                        /\ edges'[e].conf = Agree(edges[e].conf, edges[k].conf)
                        /\ edges'[e].evidence = edges[e].evidence \cup edges[k].evidence
      BY <2>3
    <3>1. edges'[e] = [edges[e] EXCEPT !.conf = Agree(@, edges[k].conf),
                                       !.evidence = @ \cup edges[k].evidence]
      BY <2>3
    <3>2. /\ edges[e] \in Edge /\ Agree(edges[e].conf, edges[k].conf) \in Low .. Certain
          /\ edges[k].evidence \subseteq Claims
      BY <2>2, <2>3, <2>4, AgreeIs
    <3> QED BY <3>1, <3>2 DEF Edge
  <2>6. TypeOK'
    <3>1. DOMAIN edges' \subseteq DOMAIN edges /\ k \notin DOMAIN edges'
      BY <2>3
    <3>2. \A e \in DOMAIN edges' : edges'[e] \in Edge
      BY <2>4, <2>5, <3>1
    <3> QED BY <1>0, <1>1, <3>1, <3>2, <2>3 DEF TypeOK
  <2>7. Phases'
    BY <1>0, <1>1 DEF Phases
  <2>8. /\ \A c \in edges[k].evidence : c \in claims /\ c.key = k
        /\ \A e \in A : \A c \in edges[e].evidence : c \in claims /\ c.key = e
    BY <1>0, <2>1, <2>2 DEF Sourced
  <2>9. Sourced'
    <3> SUFFICES ASSUME NEW e \in DOMAIN edges'
                 PROVE  /\ \E c \in edges'[e].evidence : c.key = e
                        /\ \A c \in edges'[e].evidence :
                             /\ c \in claims
                             /\ \/ c.key = e
                                \/ /\ phase \in {"permitted", "done"} /\ e.kind # "references"
                                   /\ c.key = Reference(e)
                                   /\ Reference(e) \notin DOMAIN edges'
      BY <1>1 DEF Sourced
    <3>1. CASE e \in A /\ edges[k].conf # Low
      <4>1. PICK c \in edges[e].evidence : c.key = e
        BY <1>0, <2>1, <3>1 DEF Sourced
      <4>2. edges'[e].evidence = edges[e].evidence \cup edges[k].evidence
        BY <2>5, <3>1
      <4>3. /\ e \in DOMAIN edges /\ e.kind # "references" /\ Reference(e) = k
            /\ k \notin DOMAIN edges'
        BY <2>1, <2>3, <3>1
      <4>4. \A d \in edges'[e].evidence : d \in claims /\ (d.key = e \/ d.key = k)
        BY <2>8, <3>1, <4>2
      <4> QED BY <1>1, <4>1, <4>2, <4>3, <4>4
    <3>2. CASE ~(e \in A /\ edges[k].conf # Low)
      BY <1>0, <2>3, <2>5, <3>2 DEF Sourced
    <3> QED BY <3>1, <3>2
  <2>10. \A e \in DOMAIN edges' :
           Told(e)' = Told(e) \cup IF e \in A /\ edges[k].conf # Low THEN Told(k) ELSE {}
    BY <2>5 DEF Told
  <2>11. \A e \in DOMAIN edges : \A c \in Told(e) :
           /\ c \in claims /\ c.op # "corroborate" /\ c \in edges[e].evidence
           /\ c.conf \in Low .. Certain /\ c.conf \in Int
    <3>1. \A e \in DOMAIN edges : \A c \in Told(e) :
            c \in claims /\ c.op # "corroborate" /\ c \in edges[e].evidence
      BY <1>0 DEF Sourced, Told
    <3> QED BY <1>0, <3>1, ClaimFacts DEF Low, Certain
  <2>12. \A e \in DOMAIN edges :
           /\ \A c \in Told(e) : c.conf <= edges[e].conf
           /\ edges[e].conf >= Medium => \E c \in Told(e) : c.conf >= Medium
           /\ edges[e].conf >= High => Earned(Told(e))
    BY <1>0, HighIsEarnedIs DEF Weighed
  <2>13. \A e \in DOMAIN edges' :
           /\ \A c \in Told(e)' : c.conf <= edges'[e].conf
           /\ edges'[e].conf >= Medium => \E c \in Told(e)' : c.conf >= Medium
           /\ edges'[e].conf >= High => Earned(Told(e)')
    <3> SUFFICES ASSUME NEW e \in DOMAIN edges'
                 PROVE  /\ \A c \in Told(e)' : c.conf <= edges'[e].conf
                        /\ edges'[e].conf >= Medium => \E c \in Told(e)' : c.conf >= Medium
                        /\ edges'[e].conf >= High => Earned(Told(e)')
      OBVIOUS
    <3>e. e \in DOMAIN edges
      BY <2>3
    <3>1. CASE ~(e \in A /\ edges[k].conf # Low)
      BY <2>5, <2>10, <2>12, <3>1, <3>e
    <3>2. CASE e \in A /\ edges[k].conf # Low
      <4>1. /\ Told(e)' = Told(e) \cup Told(k)
            /\ edges'[e].conf = Agree(edges[e].conf, edges[k].conf)
            /\ edges[e].conf \in Low .. Certain /\ edges[k].conf \in Low .. Certain
        BY <2>2, <2>4, <2>5, <2>10, <3>2, <3>e
      <4>2. /\ edges'[e].conf \in Low .. Certain
            /\ edges[e].conf <= edges'[e].conf /\ edges[k].conf <= edges'[e].conf
            /\ edges'[e].conf >= Medium => edges[e].conf >= Medium \/ edges[k].conf >= Medium
            /\ edges'[e].conf >= High =>
                 \/ edges[e].conf >= High \/ edges[k].conf >= High
                 \/ (edges[e].conf >= Medium /\ edges[k].conf >= Medium)
        <5> DEFINE a == edges[e].conf
                   b == edges[k].conf
        <5>1. a \in Low .. Certain /\ b \in Low .. Certain /\ edges'[e].conf = Agree(a, b)
          BY <4>1
        <5> HIDE DEF a, b
        <5>2. /\ edges'[e].conf \in Low .. Certain /\ a <= edges'[e].conf /\ b <= edges'[e].conf
              /\ edges'[e].conf >= Medium => a >= Medium \/ b >= Medium
              /\ edges'[e].conf >= High => a >= High \/ b >= High \/ (a >= Medium /\ b >= Medium)
          BY <5>1, AgreeIs
        <5> QED BY <5>2 DEF a, b
      <4>i. /\ edges[e].conf \in Int /\ edges[k].conf \in Int /\ edges'[e].conf \in Int
            /\ \A c \in Told(e) \cup Told(k) : c.conf \in Int
        BY <2>2, <2>4, <2>11, <3>e, <4>2 DEF Low, Certain
      <4>3. \A c \in Told(e)' : c.conf <= edges'[e].conf
        BY <2>2, <2>12, <3>e, <4>1, <4>2, <4>i
      <4>4. edges'[e].conf >= Medium => \E c \in Told(e)' : c.conf >= Medium
        BY <2>2, <2>12, <3>e, <4>1, <4>2
      <4>5. edges'[e].conf >= High => Earned(Told(e)')
        <5>1. edges[e].conf >= High => Earned(Told(e)')
          BY <2>12, <3>e, <4>1, EarnedGrows
        <5>2. edges[k].conf >= High => Earned(Told(e)')
          BY <2>2, <2>12, <4>1, EarnedGrows
        <5>3. ASSUME edges[e].conf >= Medium, edges[k].conf >= Medium
              PROVE  Earned(Told(e)')
          <6>1. PICK c \in Told(e) : c.conf >= Medium
            BY <2>12, <3>e, <5>3
          <6>2. PICK d \in Told(k) : d.conf >= Medium
            BY <2>2, <2>12, <5>3
          <6>3. /\ c \in claims /\ d \in claims /\ c.key = e /\ d.key = k
                /\ c.op # "corroborate" /\ d.op # "corroborate"
            BY <2>2, <2>8, <2>11, <3>2, <3>e, <6>1, <6>2
          <6>4. c.conf >= High \/ c.rule # d.rule
            BY <1>0, <2>1, <3>2, <6>3, TwoSources
          <6> QED BY <4>1, <6>1, <6>2, <6>4 DEF Earned
        <5> QED BY <4>2, <5>1, <5>2, <5>3
      <4> QED BY <4>3, <4>4, <4>5
    <3> QED BY <3>1, <3>2
  <2>14. Weighed' /\ HighIsEarned'
    BY <2>13 DEF Weighed, HighIsEarned, Earned, Told
  <2>15. Arriving'
    <3> SUFFICES ASSUME NEW d \in claims, Names(d) PROVE Arrives(d)'
      BY <1>1 DEF Arriving, Names
    <3>1. \A e \in DOMAIN edges' : /\ edges'[e].status = edges[e].status
                                   /\ edges[e].evidence \subseteq edges'[e].evidence
      BY <2>5
    <3>2. Arrives(d)
      BY <1>0 DEF Arriving
    <3>3. CASE d.key = k /\ d \in edges[k].evidence
      <4>1. PICK e : e \in A
        BY <1>4 DEF A
      <4>2. /\ e \in DOMAIN edges' /\ Ends(e) = Ends(d.key) /\ e.kind # "references"
            /\ edges'[e].status # Disabled
        BY <2>1, <2>3, <3>1, <3>3, <4>1
      <4>3. d.conf # Low => d \in edges'[e].evidence
        <5>1. CASE edges[k].conf # Low
          BY <2>5, <3>3, <4>1, <4>2, <5>1
        <5>2. CASE edges[k].conf = Low
          <6>1. d \in Told(k)
            BY <3>3 DEF Told, Names
          <6>2. d.conf <= Low /\ d.conf \in Low .. Certain
            BY <2>2, <2>11, <2>12, <5>2, <6>1
          <6> QED BY <6>2 DEF Low, Certain
        <5> QED BY <5>1, <5>2
      <4> QED BY <1>1, <4>2, <4>3 DEF Arrives
    <3>4. CASE d.key \in DOMAIN edges /\ d.key # k /\ d \in edges[d.key].evidence
      BY <2>3, <3>1, <3>4 DEF Arrives
    <3>5. ASSUME NEW e \in DOMAIN edges, Ends(e) = Ends(d.key), edges[e].status # Disabled,
                 e.kind # "references", d.conf # Low => d \in edges[e].evidence
          PROVE  Arrives(d)'
      <4>1. e \in DOMAIN edges'
        BY <2>2, <2>3, <3>5
      <4> QED BY <1>1, <3>1, <3>5, <4>1 DEF Arrives
    <3> QED BY <1>1, <3>2, <3>3, <3>4, <3>5 DEF Arrives
  <2> QED BY <1>2, <2>6, <2>7, <2>9, <2>14, <2>15 DEF IInv
<1> QED BY <1>3, <1>4

LEMMA CheckUnpermittedStep == IInv /\ CheckUnpermitted => IInv'
<1> SUFFICES ASSUME IInv, CheckUnpermitted PROVE IInv'
  OBVIOUS
<1>0. TypeOK /\ Inputs /\ Phases /\ Sourced /\ Weighed /\ HighIsEarned /\ Arriving
  BY DEF IInv
<1>1. /\ UNCHANGED <<claims, readInFull, permitted, todo, edges, corroborations,
                     permissions, refs>>
      /\ phase = "permitted" /\ phase' = "done"
  BY DEF CheckUnpermitted, inputs
<1>2. findings' \in SUBSET Findings
  <2>1. \A r \in DOMAIN edges : Finding("unpermitted", r.from, r.to) \in Findings
    <3>1. \A r \in DOMAIN edges : r \in Keys
      BY <1>0 DEF TypeOK
    <3> QED BY <3>1 DEF Keys, Finding, Findings
  <2> QED BY <1>0, <2>1 DEF CheckUnpermitted, TypeOK
<1>3. TypeOK' /\ Inputs' /\ Phases'
  BY <1>0, <1>1, <1>2 DEF TypeOK, Inputs, Phases
<1>4. Sourced' /\ Weighed' /\ HighIsEarned'
  BY <1>0, <1>1 DEF Sourced, Weighed, HighIsEarned, Told
<1>5. Arriving'
  BY <1>0, <1>1 DEF Arriving, Arrives, Names
<1> QED BY <1>3, <1>4, <1>5 DEF IInv

LEMMA NextStep == IInv /\ [Next]_vars => IInv'
<1> SUFFICES ASSUME IInv, [Next]_vars PROVE IInv'
  OBVIOUS
<1>1. ASSUME NEW c \in todo, DrawEdge(c) PROVE IInv'
  BY <1>1, DrawEdgeStep
<1>2. ASSUME NEW c \in todo, Corroborate(c) PROVE IInv'
  BY <1>2, CorroborateStep
<1>3. ASSUME NEW c \in todo, Permit(c) PROVE IInv'
  BY <1>3, PermitStep
<1>4. CASE ResolveCorroborations
  BY <1>4, ResolveCorroborationsStep
<1>5. CASE ResolvePermissions
  BY <1>5, ResolvePermissionsStep
<1>6. ASSUME NEW k \in refs, Absorb(k) PROVE IInv'
  BY <1>6, AbsorbStep
<1>7. CASE CheckUnpermitted
  BY <1>7, CheckUnpermittedStep
<1>8. CASE UNCHANGED vars
  <2>1. UNCHANGED <<claims, readInFull, permitted, phase, todo, edges, corroborations,
                    permissions, findings, refs>>
    BY <1>8 DEF vars, inputs
  <2>2. TypeOK' /\ Inputs' /\ Phases' /\ Sourced' /\ Weighed' /\ HighIsEarned' /\ Arriving'
    BY <2>1 DEF IInv, TypeOK, Inputs, Phases, Sourced, Weighed, HighIsEarned, Told,
                Arriving, Arrives, Names
  <2> QED BY <2>2 DEF IInv
<1> QED BY <1>1, <1>2, <1>3, <1>4, <1>5, <1>6, <1>7, <1>8 DEF Next, Linked

-----------------------------------------------------------------------------
(* What holds of Link.                                                     *)

LEMMA Always == Spec => []IInv
BY InitIInv, NextStep, PTL DEF Spec

\* An edge of Link's graph enters a plan because a rule is that sure of it or two
\* independent sources are each at medium, whatever the claims and the order.
THEOREM HighEarned == Spec => []HighIsEarned
<1>1. IInv => HighIsEarned
  BY DEF IInv
<1> QED BY Always, <1>1, PTL

\* What a rule says a workload names stays evidence in the graph: of its own
\* edge, or of one between the same two nodes that carries traffic.
THEOREM EvidenceIsKept == Spec => []EvidenceKept
<1>1. IInv => EvidenceKept
  <2> SUFFICES ASSUME IInv PROVE EvidenceKept
    OBVIOUS
  <2>1. TypeOK /\ Phases /\ Arriving
    BY DEF IInv
  <2>2. ReferenceKept
    <3> SUFFICES ASSUME phase = "done", NEW c \in claims, c.op # "corroborate",
                        c.key.kind = "references", Ends(c.key) \subseteq Nodes
                 PROVE  \/ c.key \in DOMAIN edges /\ c \in edges[c.key].evidence
                        \/ \E k \in DOMAIN edges :
                             /\ Ends(k) = Ends(c.key) /\ edges[k].status # Disabled
                             /\ c.conf # Low => c \in edges[k].evidence
      BY DEF ReferenceKept
    <3>1. Arrives(c) /\ todo = {}
      BY <2>1 DEF Arriving, Names, Phases
    <3> QED BY <3>1 DEF Arrives
  <2> QED BY <2>1, <2>2 DEF EvidenceKept
<1> QED BY Always, <1>1, PTL

\* Only what a rule declares changes an edge's status, and only towards more
\* active: no permission and no absorbed reference wakes a mapping that is off.
THEOREM StatusDeclared == Spec => StatusIsDeclared
<1> DEFINE Declares ==
      \A k \in DOMAIN edges \cap DOMAIN edges' :
        /\ edges'[k].status >= edges[k].status
        /\ edges'[k].status # edges[k].status =>
             \E c \in todo \ todo' : c.key = k /\ c.status = edges'[k].status
<1>1. IInv /\ [Next]_vars => [Declares]_vars
  <2> SUFFICES ASSUME IInv, [Next]_vars PROVE Declares
    BY DEF Declares
  <2>0. TypeOK /\ Inputs /\ Phases
    BY DEF IInv
  <2>1. /\ \A k \in DOMAIN edges : edges[k] \in Edge
        /\ \A k \in DOMAIN edges : edges[k].status \in Disabled .. Active
        /\ \A k \in DOMAIN edges : edges[k].status \in Int
    BY <2>0 DEF TypeOK, Edge, Disabled, Active
  <2>2. ASSUME \A k \in DOMAIN edges \cap DOMAIN edges' : edges'[k].status = edges[k].status
        PROVE  Declares
    BY <2>1, <2>2
  <2>3. ASSUME NEW c \in todo, DrawEdge(c) PROVE Declares
    <3>1. CASE edges' = edges
      BY <2>2, <3>1
    <3>2. CASE edges' = AddEdge(c)
      <4>1. c \in claims /\ c \in todo \ todo'
        BY <2>0, <2>3 DEF TypeOK, DrawEdge
      <4>2. /\ \A k \in DOMAIN edges : k # c.key => edges'[k] = edges[k]
            /\ c.key \in DOMAIN edges => /\ edges'[c.key].status \in {edges[c.key].status, c.status}
                                         /\ edges'[c.key].status >= edges[c.key].status
        BY <2>0, <3>2, <4>1, AddEdgeIs
      <4> QED BY <2>1, <4>1, <4>2
    <3> QED BY <2>3, <3>1, <3>2 DEF DrawEdge
  <2>4. ASSUME NEW c \in todo, Corroborate(c) \/ Permit(c) PROVE Declares
    BY <2>2, <2>4 DEF Corroborate, Permit
  <2>5. CASE ResolveCorroborations
    <3>1. \A k \in DOMAIN edges : edges'[k].status = edges[k].status
      BY <2>1, <2>5 DEF ResolveCorroborations, Edge
    <3> QED BY <2>2, <3>1
  <2>6. CASE ResolvePermissions
    <3>1. \A k \in DOMAIN edges : edges'[k].status = edges[k].status
      BY <2>0, <2>6, PermittedIs DEF ResolvePermissions
    <3> QED BY <2>2, <3>1
  <2>7. ASSUME NEW k \in refs, Absorb(k) PROVE Declares
    <3>1. \A e \in DOMAIN edges \cap DOMAIN edges' : edges'[e].status = edges[e].status
      BY <2>1, <2>7 DEF Absorb, Edge
    <3> QED BY <2>2, <3>1
  <2>8. CASE CheckUnpermitted \/ UNCHANGED vars
    BY <2>2, <2>8 DEF CheckUnpermitted, vars
  <2> QED BY <2>3, <2>4, <2>5, <2>6, <2>7, <2>8 DEF Next, Linked
<1>2. Spec => [][Declares]_vars
  BY Always, <1>1, PTL DEF Spec
<1> QED BY <1>2 DEF StatusIsDeclared
-----------------------------------------------------------------------------
(***************************************************************************)
(* The refinement: Link returns the graph LinkGraph defines from the       *)
(* claims alone.  Each step of the builder, whatever order it comes in,    *)
(* leaves in the builder a function of the claims it has dealt with.       *)
(***************************************************************************)

Made == claims \ todo
Draws(k) == {c \in Made : c.op = "edge" /\ c.key = k /\ Ends(k) \subseteq Nodes}

\* What is kept for later is what was made of it;
Kept ==
  /\ corroborations = {c \in Made : c.op = "corroborate"}
  /\ permissions = {c \in Made : c.op = "permit" /\ Ends(c.key) \subseteq Nodes}

\* an edge is, until permissions come, the most of what was declared of it;
Drawing ==
  phase \in {"rules", "corroborated"} =>
    /\ DOMAIN edges = {c.key : c \in {d \in Made : d.op = "edge" /\ Ends(d.key) \subseteq Nodes}}
    /\ \A k \in DOMAIN edges :
         /\ edges[k].conf = Highest({c.conf : c \in Draws(k)})
         /\ edges[k].status = Highest({c.status : c \in Draws(k)})
         /\ edges[k].evidence = Draws(k) \cup
              {c \in corroborations : c.key = k /\ phase = "corroborated"}

\* and, from then on, the edge of LinkGraph that backs it with the references
\* absorbReferences has come to;
Come(k) == Promise!Backing(k) \ refs

Weight(k) ==
  IF Come(k) = {}
    THEN Promise!Together(<<Promise!Level("edge", k), Promise!Level("permit", k)>>)
    ELSE Promise!Together(<<Promise!Level("edge", k), Promise!Level("permit", k),
                            Promise!Highest({Promise!ReferenceConf(r) : r \in Come(k)})>>)

Folding ==
  phase \in {"permitted", "done"} =>
    /\ DOMAIN edges = Promise!Known \ (Promise!Explained \ refs)
    /\ \A k \in DOMAIN edges :
         /\ edges[k].conf = Weight(k)
         /\ edges[k].status = Promise!Status(k)
         /\ edges[k].evidence = Promise!OwnEvidence(k)
                                  \cup UNION {Promise!OwnEvidence(r) : r \in Come(k)}

\* and what is reported is what could not become an edge.
Rejected(c) == c.op # "corroborate" /\ ~(Ends(c.key) \subseteq Nodes)
Rejection(c) ==
  IF c.op = "edge" /\ c.key.from \notin Nodes
    THEN Finding("unresolved", c.key.to, c.key.from)
    ELSE Finding("unresolved", c.key.from, c.key.to)
Stale == {Finding("stale-permission", c.key.from, c.key.to) :
            c \in {d \in claims : /\ d.op = "corroborate" /\ d.orElse
                                  /\ d.key \notin Promise!Declared}}

Reporting ==
  findings =
    IF phase = "done" THEN Promise!Reported
    ELSE {Rejection(c) : c \in {d \in Made : Rejected(d)}}
           \cup IF phase = "rules" THEN {} ELSE Stale

Function == edges = [k \in DOMAIN edges |-> edges[k]]

Given ==
  /\ readInFull \in SUBSET Workloads
  /\ permitted \in SUBSET (Workloads \X Nodes) /\ Permits(claims) \subseteq permitted
  /\ phase = "done" => refs = {}

Progress == Kept /\ Drawing /\ Folding /\ Reporting /\ Function /\ Given
-----------------------------------------------------------------------------
(* The graph of LinkGraph, in the builder's terms.                         *)

LEMMA HighestSame == \A S : Promise!Highest(S) = Highest(S)
BY DEF Promise!Highest, Highest

LEMMA OfIs ==
  \A op, k : Promise!Of(op, k) =
    {c \in claims : c.op = op /\ c.key = k /\ Ends(k) \subseteq Nodes}
BY DEF Promise!Of, Promise!Ends, Ends

\* The highest is the only rank that is in the set and tops it.
LEMMA HighestUnique ==
  ASSUME NEW S \in SUBSET (0 .. Certain), NEW r \in S, \A o \in S : o <= r
  PROVE  Highest(S) = r
<1>1. Highest(S) \in S /\ \A o \in S : o <= Highest(S)
  BY HighestIs
<1>2. r \in Int /\ Highest(S) \in Int
  <2>1. 0 .. Certain \subseteq Int
    BY DEF Certain
  <2> QED BY <1>1, <2>1
<1> QED BY <1>1, <1>2

LEMMA HighestOfTwo ==
  ASSUME NEW a \in 0 .. Certain, NEW b \in 0 .. Certain
  PROVE  Highest({a, b}) = Larger(a, b)
<1> DEFINE S == {a, b}
           r == Larger(a, b)
<1>1. S \in SUBSET (0 .. Certain) /\ r \in S /\ \A o \in S : o <= r
  BY DEF Larger, Certain
<1> HIDE DEF S, r
<1>2. Highest(S) = r
  BY <1>1, HighestUnique
<1> QED BY <1>2 DEF S, r

LEMMA HighestOfThree ==
  ASSUME NEW a \in 0 .. Certain, NEW b \in 0 .. Certain, NEW c \in 0 .. Certain
  PROVE  Highest({a, b, c}) = Larger(Larger(a, b), c)
<1> DEFINE S == {a, b, c}
           r == Larger(Larger(a, b), c)
<1>1. S \in SUBSET (0 .. Certain) /\ r \in S /\ \A o \in S : o <= r
  BY DEF Larger, Certain
<1> HIDE DEF S, r
<1>2. Highest(S) = r
  BY <1>1, HighestUnique
<1> QED BY <1>2 DEF S, r

\* Two sources taken together are the two of them agreeing.
LEMMA TogetherTwo ==
  ASSUME NEW a \in 0 .. Certain, NEW b \in 0 .. Certain
  PROVE  Promise!Together(<<a, b>>) = Agree(a, b)
<1> DEFINE levels == <<a, b>>
<1>1. DOMAIN levels = {1, 2} /\ levels[1] = a /\ levels[2] = b
  OBVIOUS
<1>2. {levels[i] : i \in DOMAIN levels} = {a, b}
  BY <1>1
<1>3. (\E i, j \in DOMAIN levels : i # j /\ levels[i] >= Medium /\ levels[j] >= Medium)
        <=> (a >= Medium /\ b >= Medium)
  BY <1>1
<1>4. Larger(a, b) \in 0 .. Certain /\ High \in 0 .. Certain
  BY DEF Larger, Certain, High
<1>5. /\ Highest({a, b}) = Larger(a, b)
      /\ Highest({Larger(a, b), High}) = Larger(Larger(a, b), High)
  BY <1>4, HighestOfTwo
<1> HIDE DEF levels
<1>6. Promise!Together(levels) = IF a >= Medium /\ b >= Medium
                                   THEN Highest({Larger(a, b), High}) ELSE Larger(a, b)
  BY <1>2, <1>3, <1>5, HighestSame
     DEF Promise!Together, Promise!Medium, Promise!High, Medium, High
<1> QED BY <1>5, <1>6 DEF Agree, levels

\* A third agrees with what the first two came to.
LEMMA TogetherThree ==
  ASSUME NEW a \in 0 .. Certain, NEW b \in 0 .. Certain, NEW c \in 0 .. Certain
  PROVE  Promise!Together(<<a, b, c>>) = Agree(Agree(a, b), c)
<1> DEFINE levels == <<a, b, c>>
           top == Larger(Larger(a, b), c)
           two == \/ a >= Medium /\ b >= Medium
                  \/ a >= Medium /\ c >= Medium
                  \/ b >= Medium /\ c >= Medium
<1>1. DOMAIN levels = {1, 2, 3} /\ levels[1] = a /\ levels[2] = b /\ levels[3] = c
  OBVIOUS
<1>2. {levels[i] : i \in DOMAIN levels} = {a, b, c}
  BY <1>1
<1>3. (\E i, j \in DOMAIN levels : i # j /\ levels[i] >= Medium /\ levels[j] >= Medium)
        <=> two
  BY <1>1
<1>4. top \in 0 .. Certain /\ High \in 0 .. Certain
  BY DEF Larger, Certain, High
<1>5. Highest({a, b, c}) = top
  BY HighestOfThree
<1>6. Agree(Agree(a, b), c) = IF two THEN Larger(top, High) ELSE top
  BY DEF Agree, Larger, Certain, High, Medium
<1> HIDE DEF levels, top, two
<1>7. Highest({top, High}) = Larger(top, High)
  BY <1>4, HighestOfTwo
<1>8. Promise!Together(levels) = IF two THEN Highest({top, High}) ELSE top
  BY <1>2, <1>3, <1>5, HighestSame
     DEF Promise!Together, Promise!Medium, Promise!High, Medium, High
<1> QED BY <1>6, <1>7, <1>8 DEF levels

\* How sure a source is: silent, or as sure as its surest claim.
LEMMA LevelIs ==
  ASSUME Inputs, NEW op, NEW k
  PROVE  LET S == Promise!Of(op, k) IN
         /\ Promise!Level(op, k) \in 0 .. Certain
         /\ S = {} => Promise!Level(op, k) = 0
         /\ S # {} => /\ Promise!Level(op, k) = Highest({c.conf : c \in S})
                      /\ Promise!Level(op, k) \in Low .. Certain
<1> DEFINE S == Promise!Of(op, k)
           T == {c.conf : c \in S}
<1>1. \A c \in S : c.conf \in Low .. Certain
  BY ClaimFacts, OfIs
<1>2. T \in SUBSET (Low .. Certain) /\ T \in SUBSET (0 .. Certain) /\ (S # {} => T # {})
  BY <1>1 DEF Low, Certain
<1>3. Promise!Level(op, k) = IF S = {} THEN 0 ELSE Highest(T)
  BY HighestSame DEF Promise!Level, Promise!Nothing
<1> HIDE DEF S, T
<1>4. S # {} => Highest(T) \in Low .. Certain
  BY <1>2, HighestIs
<1>5. Low .. Certain \subseteq 0 .. Certain /\ 0 \in 0 .. Certain
  BY DEF Low, Certain
<1> QED BY <1>3, <1>4, <1>5 DEF S, T

\* An edge explains one reference at most.
LEMMA OneReference ==
  ASSUME Inputs, NEW k \in Promise!Known, NEW r \in Promise!References, Promise!Explains(r, k)
  PROVE  r = Reference(k) /\ k.kind # "references" /\ k \in Keys /\ r \in Keys
<1>1. PICK c \in claims : c.key = k
  BY OfIs DEF Promise!Known
<1>2. PICK d \in claims : d.key = r /\ r.kind = "references"
  BY OfIs DEF Promise!Known, Promise!References
<1>3. k \in Keys /\ r \in Keys /\ r.from \in Workloads
  BY <1>1, <1>2, ClaimFacts
<1>4. k.kind # "references"
  BY DEF Promise!Explains, Promise!Live
<1>5. CASE Promise!Naming(k) = r
  <2>1. r.from = k.from /\ r.to = k.to
    BY <1>5 DEF Promise!Naming
  <2>2. k.kind # "consume"
    BY <1>1, <1>3, <2>1, ClaimFacts
  <2> QED BY <1>2, <1>3, <1>4, <2>1, <2>2, KeyFields, ReferenceFacts DEF Reference
<1>6. CASE k.kind = "consume" /\ Promise!Reversed(k) = r
  <2>1. r = Reference(k)
    BY <1>6 DEF Promise!Reversed, Reference
  <2> QED BY <1>3, <1>4, <2>1
<1> QED BY <1>5, <1>6 DEF Promise!Explains

\* The claims do not change, and the graph they make does not either.
LEMMA PromiseStays ==
  ASSUME UNCHANGED <<claims, readInFull, permitted>>
  PROVE  /\ \A op, k : Promise!Of(op, k)' = Promise!Of(op, k)
         /\ UNCHANGED <<Promise!Declared, Promise!Known, Promise!References, Promise!Explained,
                        Promise!Reported, Promise!Merged>>
         /\ \A op, k : Promise!Level(op, k)' = Promise!Level(op, k)
         /\ \A k : /\ Promise!Status(k)' = Promise!Status(k)
                   /\ Promise!OwnEvidence(k)' = Promise!OwnEvidence(k)
                   /\ Promise!ReferenceConf(k)' = Promise!ReferenceConf(k)
                   /\ Promise!Backing(k)' = Promise!Backing(k)
<1>1. \A op, k : Promise!Of(op, k)' = Promise!Of(op, k)
  BY DEF Promise!Of
<1>2. Promise!Declared' = Promise!Declared /\ Promise!Known' = Promise!Known
  BY <1>1 DEF Promise!Declared, Promise!Known
<1>3. Promise!References' = Promise!References
  BY <1>2 DEF Promise!References
<1>4. \A op, k : Promise!Level(op, k)' = Promise!Level(op, k)
  BY <1>1 DEF Promise!Level
<1>5. \A k : /\ Promise!Status(k)' = Promise!Status(k)
             /\ Promise!OwnEvidence(k)' = Promise!OwnEvidence(k)
             /\ Promise!ReferenceConf(k)' = Promise!ReferenceConf(k)
  BY <1>1, <1>2, <1>4 DEF Promise!Status, Promise!OwnEvidence, Promise!ReferenceConf
<1>6. \A r, k : Promise!Explains(r, k)' <=> Promise!Explains(r, k)
  BY <1>2, <1>5 DEF Promise!Explains, Promise!Live
<1>7. Promise!Explained' = Promise!Explained
  BY <1>2, <1>3, <1>6 DEF Promise!Explained
<1>8. \A k : Promise!Backing(k)' = Promise!Backing(k)
  BY <1>3, <1>5, <1>6 DEF Promise!Backing
<1>9. Promise!Merged' = Promise!Merged
  BY <1>2, <1>4, <1>5, <1>7, <1>8 DEF Promise!Merged
<1>10. Promise!Reported' = Promise!Reported
  BY <1>2, <1>3, <1>7 DEF Promise!Reported
<1> QED BY <1>1, <1>2, <1>3, <1>4, <1>5, <1>7, <1>8, <1>9, <1>10
-----------------------------------------------------------------------------
LEMMA InitProgress == Init => Progress
<1> SUFFICES ASSUME Init PROVE Progress
  OBVIOUS
<1>1. Made = {}
  BY DEF Init, Made
<1>2. Kept /\ Drawing
  BY <1>1 DEF Init, Kept, Drawing
<1>3. Folding /\ Function /\ Given
  BY DEF Init, Folding, Function, Given
<1>4. Reporting
  BY <1>1 DEF Init, Reporting
<1> QED BY <1>2, <1>3, <1>4 DEF Progress

\* A claim made becomes part of what is made.
LEMMA MadeGrows ==
  ASSUME TypeOK, NEW c \in todo, todo' = todo \ {c}, claims' = claims
  PROVE  c \in claims /\ Made' = Made \cup {c} /\ c \notin Made
BY DEF TypeOK, Made

\* What a rejected claim adds to the findings.
LEMMA RejectedGrows ==
  ASSUME NEW c, Made' = Made \cup {c}
  PROVE  {Rejection(d) : d \in {x \in Made : Rejected(x)}}' =
           {Rejection(d) : d \in {x \in Made : Rejected(x)}}
             \cup IF Rejected(c) THEN {Rejection(c)} ELSE {}
BY DEF Rejected, Rejection

LEMMA DrawEdgeProgress ==
  ASSUME NEW c \in todo, IInv, Progress, DrawEdge(c) PROVE Progress'
<1>0. TypeOK /\ Inputs /\ Kept /\ Drawing /\ Reporting /\ Function /\ Given
  BY DEF IInv, Progress
<1>1. /\ UNCHANGED <<claims, readInFull, permitted, phase, corroborations, permissions, refs>>
      /\ phase = "rules" /\ todo' = todo \ {c} /\ c.op = "edge"
  BY DEF DrawEdge, inputs
<1>2. c \in claims /\ Made' = Made \cup {c} /\ c \notin Made
  BY <1>0, <1>1, MadeGrows
<1>3. Kept' /\ Folding' /\ Given'
  BY <1>0, <1>1, <1>2 DEF Kept, Folding, Given
<1>4. Reporting'
  <2>1. findings' = findings \cup IF Rejected(c) THEN {Rejection(c)} ELSE {}
    BY <1>1 DEF DrawEdge, Rejected, Rejection, Ends
  <2> QED BY <1>0, <1>1, <1>2, <2>1, RejectedGrows DEF Reporting
<1>5. CASE Rejected(c)
  <2>1. edges' = edges
    BY <1>1, <1>5 DEF DrawEdge, Rejected, Ends
  <2>2. \A k : Draws(k)' = Draws(k)
    BY <1>2, <1>5 DEF Draws, Rejected
  <2>3. {d.key : d \in {x \in Made' : x.op = "edge" /\ Ends(x.key) \subseteq Nodes}}
          = {d.key : d \in {x \in Made : x.op = "edge" /\ Ends(x.key) \subseteq Nodes}}
    BY <1>2, <1>5 DEF Rejected
  <2>4. Drawing' /\ Function'
    BY <1>0, <1>1, <2>1, <2>2, <2>3 DEF Drawing, Function
  <2> QED BY <1>3, <1>4, <2>4 DEF Progress
<1>6. CASE ~Rejected(c)
  <2> DEFINE k == c.key
             D == {d.key : d \in {x \in Made : x.op = "edge" /\ Ends(x.key) \subseteq Nodes}}
  <2>1. edges' = AddEdge(c) /\ Ends(k) \subseteq Nodes
    BY <1>1, <1>6 DEF DrawEdge, Rejected, Ends
  <2>2. /\ DOMAIN edges' = DOMAIN edges \cup {k}
        /\ \A l \in DOMAIN edges : l # k => edges'[l] = edges[l]
        /\ edges'[k] \in Edge
        /\ edges'[k].conf >= c.conf
        /\ k \in DOMAIN edges =>
             /\ edges'[k].evidence = edges[k].evidence \cup {c}
             /\ edges'[k].conf \in {edges[k].conf, c.conf}
             /\ edges'[k].conf >= edges[k].conf
             /\ edges'[k].status \in {edges[k].status, c.status}
             /\ edges'[k].status >= edges[k].status /\ edges'[k].status >= c.status
        /\ k \notin DOMAIN edges =>
             edges'[k].evidence = {c} /\ edges'[k].conf = c.conf /\ edges'[k].status = c.status
    BY <1>0, <1>2, <2>1, AddEdgeIs
  <2>3. DOMAIN edges = D
    BY <1>0, <1>1 DEF Drawing
  <2>4. D' = D \cup {k}
    BY <1>1, <1>2, <2>1
  <2>5. /\ \A l : l # k => Draws(l)' = Draws(l)
        /\ Draws(k)' = Draws(k) \cup {c}
        /\ k \in D <=> Draws(k) # {}
    BY <1>1, <1>2, <2>1 DEF Draws
  <2>6. \A d \in Draws(k) \cup {c} : /\ d \in claims
                                     /\ d.conf \in 0 .. Certain /\ d.status \in 0 .. Certain
    <3>1. \A d \in Draws(k) \cup {c} : d \in claims
      BY <1>2 DEF Draws, Made
    <3>2. Low .. Certain \subseteq 0 .. Certain /\ Disabled .. Active \subseteq 0 .. Certain
      BY DEF Low, Certain, Disabled, Active
    <3> QED BY <1>0, <3>1, <3>2, ClaimFacts
  <2> HIDE DEF k, D
  <2> DEFINE confs == {d.conf : d \in Draws(k)}
             stats == {d.status : d \in Draws(k)}
  <2>7. /\ confs \in SUBSET (0 .. Certain) /\ stats \in SUBSET (0 .. Certain)
        /\ confs \cup {c.conf} \in SUBSET (0 .. Certain)
        /\ stats \cup {c.status} \in SUBSET (0 .. Certain)
        /\ k \in D => confs # {} /\ stats # {}
        /\ k \notin D => confs = {} /\ stats = {}
    BY <2>5, <2>6
  <2>8. k \in D => edges[k].conf = Highest(confs) /\ edges[k].status = Highest(stats)
    BY <1>0, <1>1, <2>3 DEF Drawing
  <2>9. /\ {d.conf : d \in Draws(k)'} = confs \cup {c.conf}
        /\ {d.status : d \in Draws(k)'} = stats \cup {c.status}
    BY <2>5
  <2> HIDE DEF confs, stats
  <2>i. 0 .. Certain \subseteq Int
    BY DEF Certain
  <2>n. /\ \A o \in confs \cup {c.conf} : o \in Int
        /\ \A o \in stats \cup {c.status} : o \in Int
    BY <2>7, <2>i
  <2>10. /\ edges'[k].conf = Highest(confs \cup {c.conf})
         /\ edges'[k].status = Highest(stats \cup {c.status})
    <3>1. CASE k \in D
      <4>1. /\ edges[k].conf \in confs /\ \A o \in confs : o <= edges[k].conf
            /\ edges[k].status \in stats /\ \A o \in stats : o <= edges[k].status
        BY <2>7, <2>8, <3>1, HighestIs
      <4>2. /\ edges'[k].conf \in confs \cup {c.conf}
            /\ edges'[k].status \in stats \cup {c.status}
        BY <2>2, <2>3, <3>1, <4>1
      <4>3. /\ \A o \in confs \cup {c.conf} : o <= edges'[k].conf
            /\ \A o \in stats \cup {c.status} : o <= edges'[k].status
        <5>1. /\ edges'[k].conf \in Int /\ edges[k].conf \in Int
              /\ edges'[k].status \in Int /\ edges[k].status \in Int
          BY <2>n, <4>1, <4>2
        <5>2. /\ edges'[k].conf >= edges[k].conf /\ edges'[k].conf >= c.conf
              /\ edges'[k].status >= edges[k].status /\ edges'[k].status >= c.status
          BY <2>2, <2>3, <3>1
        <5> QED BY <2>n, <4>1, <5>1, <5>2
      <4> QED BY <2>7, <4>2, <4>3, HighestUnique
    <3>2. CASE k \notin D
      <4>1. /\ confs \cup {c.conf} = {c.conf} /\ stats \cup {c.status} = {c.status}
            /\ edges'[k].conf = c.conf /\ edges'[k].status = c.status
        BY <2>2, <2>3, <2>7, <3>2
      <4>2. Highest({c.conf}) = c.conf /\ Highest({c.status}) = c.status
        <5>1. ASSUME NEW x \in 0 .. Certain PROVE Highest({x}) = x
          <6>1. {x} \in SUBSET (0 .. Certain) /\ x \in {x} /\ \A o \in {x} : o <= x
            BY <2>i
          <6> QED BY <6>1, HighestUnique
        <5> QED BY <2>6, <5>1
      <4> QED BY <4>1, <4>2
    <3> QED BY <3>1, <3>2
  <2>11. edges'[k].evidence = Draws(k)'
    <3>1. CASE k \in D
      BY <1>0, <1>1, <2>2, <2>3, <2>5, <3>1 DEF Drawing
    <3>2. CASE k \notin D
      BY <2>2, <2>3, <2>5, <3>2
    <3> QED BY <3>1, <3>2
  <2>12. Drawing'
    <3>1. DOMAIN edges' = D'
      BY <2>2, <2>3, <2>4
    <3>2. \A l \in DOMAIN edges' :
             /\ edges'[l].conf = Highest({d.conf : d \in Draws(l)'})
             /\ edges'[l].status = Highest({d.status : d \in Draws(l)'})
             /\ edges'[l].evidence = Draws(l)'
      <4>1. \A l \in DOMAIN edges :
             /\ edges[l].conf = Highest({d.conf : d \in Draws(l)})
             /\ edges[l].status = Highest({d.status : d \in Draws(l)})
             /\ edges[l].evidence = Draws(l)
        BY <1>0, <1>1 DEF Drawing
      <4> TAKE l \in DOMAIN edges'
      <4>2. CASE l = k
        BY <2>9, <2>10, <2>11, <4>2
      <4>3. CASE l # k
        <5>1. l \in DOMAIN edges /\ edges'[l] = edges[l] /\ Draws(l)' = Draws(l)
          BY <2>2, <2>5, <4>3
        <5> QED BY <4>1, <5>1
      <4> QED BY <4>2, <4>3
    <3> QED BY <1>1, <3>1, <3>2 DEF Drawing, D
  <2>13. Function'
    <3>1. edges' = [l \in DOMAIN edges \cup {c.key} |->
                      IF l # c.key THEN edges[l]
                      ELSE IF l \in DOMAIN edges
                      THEN [conf     |-> Larger(edges[l].conf, c.conf),
                            status   |-> Larger(edges[l].status, c.status),
                            evidence |-> edges[l].evidence \cup {c}]
                      ELSE [conf |-> c.conf, status |-> c.status, evidence |-> {c}]]
      BY <2>1 DEF AddEdge
    <3> QED BY <3>1 DEF Function
  <2> QED BY <1>3, <1>4, <2>12, <2>13 DEF Progress
<1> QED BY <1>5, <1>6

LEMMA CorroborateProgress ==
  ASSUME NEW c \in todo, IInv, Progress, Corroborate(c) PROVE Progress'
<1>0. TypeOK /\ Kept /\ Drawing /\ Reporting /\ Function /\ Given
  BY DEF IInv, Progress
<1>1. /\ UNCHANGED <<claims, readInFull, permitted, phase, edges, permissions, findings, refs>>
      /\ phase = "rules" /\ todo' = todo \ {c} /\ c.op = "corroborate"
      /\ corroborations' = corroborations \cup {c}
  BY DEF Corroborate, inputs
<1>2. c \in claims /\ Made' = Made \cup {c} /\ c \notin Made
  BY <1>0, <1>1, MadeGrows
<1>3. Kept' /\ Folding' /\ Given' /\ Function'
  BY <1>0, <1>1, <1>2 DEF Kept, Folding, Given, Function
<1>4. Reporting'
  <2>1. ~Rejected(c)
    BY <1>1 DEF Rejected
  <2> QED BY <1>0, <1>1, <1>2, <2>1, RejectedGrows DEF Reporting
<1>5. Drawing'
  <2>1. \A k : Draws(k)' = Draws(k)
    BY <1>1, <1>2 DEF Draws
  <2>2. {d.key : d \in {x \in Made' : x.op = "edge" /\ Ends(x.key) \subseteq Nodes}}
          = {d.key : d \in {x \in Made : x.op = "edge" /\ Ends(x.key) \subseteq Nodes}}
    BY <1>1, <1>2
  <2> QED BY <1>0, <1>1, <2>1, <2>2 DEF Drawing
<1> QED BY <1>3, <1>4, <1>5 DEF Progress

LEMMA PermitProgress ==
  ASSUME NEW c \in todo, IInv, Progress, Permit(c) PROVE Progress'
<1>0. TypeOK /\ Kept /\ Drawing /\ Reporting /\ Function /\ Given
  BY DEF IInv, Progress
<1>1. /\ UNCHANGED <<claims, readInFull, permitted, phase, edges, corroborations, refs>>
      /\ phase = "rules" /\ todo' = todo \ {c} /\ c.op = "permit"
  BY DEF Permit, inputs
<1>2. c \in claims /\ Made' = Made \cup {c} /\ c \notin Made
  BY <1>0, <1>1, MadeGrows
<1>3. Kept' /\ Folding' /\ Given' /\ Function'
  BY <1>0, <1>1, <1>2 DEF Permit, Kept, Folding, Given, Function
<1>4. Reporting'
  <2>1. findings' = findings \cup IF Rejected(c) THEN {Rejection(c)} ELSE {}
    BY <1>1 DEF Permit, Rejected, Rejection
  <2> QED BY <1>0, <1>1, <1>2, <2>1, RejectedGrows DEF Reporting
<1>5. Drawing'
  <2>1. \A k : Draws(k)' = Draws(k)
    BY <1>1, <1>2 DEF Draws
  <2>2. {d.key : d \in {x \in Made' : x.op = "edge" /\ Ends(x.key) \subseteq Nodes}}
          = {d.key : d \in {x \in Made : x.op = "edge" /\ Ends(x.key) \subseteq Nodes}}
    BY <1>1, <1>2
  <2> QED BY <1>0, <1>1, <2>1, <2>2 DEF Drawing
<1> QED BY <1>3, <1>4, <1>5 DEF Progress
\* An edge that has come to no other reference weighs what it did.
LEMMA WeightStays ==
  ASSUME UNCHANGED <<claims, readInFull, permitted>>, NEW e, Come(e)' = Come(e)
  PROVE  /\ Weight(e)' = Weight(e)
         /\ (UNION {Promise!OwnEvidence(r) : r \in Come(e)})'
              = UNION {Promise!OwnEvidence(r) : r \in Come(e)}
<1>1. /\ Promise!Level("edge", e)' = Promise!Level("edge", e)
      /\ Promise!Level("permit", e)' = Promise!Level("permit", e)
      /\ \A r : /\ Promise!ReferenceConf(r)' = Promise!ReferenceConf(r)
                /\ Promise!OwnEvidence(r)' = Promise!OwnEvidence(r)
  BY PromiseStays
<1>2. {Promise!ReferenceConf(r) : r \in Come(e)}' = {Promise!ReferenceConf(r) : r \in Come(e)}
  BY <1>1
<1>3. {Promise!OwnEvidence(r) : r \in Come(e)}' = {Promise!OwnEvidence(r) : r \in Come(e)}
  BY <1>1
<1>4. Weight(e)' = Weight(e)
  BY <1>1, <1>2 DEF Weight
<1> QED BY <1>3, <1>4

\* The keys of LinkGraph are those some claim could give an edge.
LEMMA KnownIs ==
  /\ Promise!Declared = {c.key : c \in {d \in claims : d.op = "edge" /\ Ends(d.key) \subseteq Nodes}}
  /\ Promise!Known = Promise!Declared \cup
       {c.key : c \in {d \in claims : d.op = "permit" /\ Ends(d.key) \subseteq Nodes}}
  /\ \A k : k \in Promise!Declared <=> Promise!Of("edge", k) # {}
  /\ \A k : k \in Promise!Known <=> Promise!Of("edge", k) # {} \/ Promise!Of("permit", k) # {}
  /\ Promise!Explained \subseteq Promise!References
  /\ Promise!References = {r \in Promise!Known : r.kind = "references"}
<1>1. \A k : k \in Promise!Declared <=> Promise!Of("edge", k) # {}
  BY OfIs DEF Promise!Declared
<1>2. \A k : k \in Promise!Known <=> Promise!Of("edge", k) # {} \/ Promise!Of("permit", k) # {}
  BY OfIs DEF Promise!Known
<1>3. Promise!Declared = {c.key : c \in {d \in claims : d.op = "edge" /\ Ends(d.key) \subseteq Nodes}}
  BY <1>1, OfIs
<1>4. Promise!Known = Promise!Declared \cup
        {c.key : c \in {d \in claims : d.op = "permit" /\ Ends(d.key) \subseteq Nodes}}
  BY <1>1, <1>2, OfIs
<1> QED BY <1>1, <1>2, <1>3, <1>4 DEF Promise!References, Promise!Explained

LEMMA ResolveCorroborationsProgress ==
  ASSUME IInv, Progress, ResolveCorroborations PROVE Progress'
<1>0. TypeOK /\ Kept /\ Drawing /\ Reporting /\ Function /\ Given
  BY DEF IInv, Progress
<1>1. /\ UNCHANGED <<claims, readInFull, permitted, todo, corroborations, permissions, refs>>
      /\ phase = "rules" /\ phase' = "corroborated" /\ todo = {}
      /\ findings' = findings \cup
           {Finding("stale-permission", c.key.from, c.key.to) :
              c \in {d \in corroborations : d.orElse /\ d.key \notin DOMAIN edges}}
  BY DEF ResolveCorroborations, inputs
<1>2. Made = claims /\ Made' = Made
  BY <1>1 DEF Made
<1>3. Kept' /\ Folding' /\ Given'
  BY <1>0, <1>1, <1>2 DEF Kept, Folding, Given
<1>4. /\ edges' = [k \in DOMAIN edges |->
           [edges[k] EXCEPT !.evidence = @ \cup {c \in corroborations : c.key = k}]]
      /\ DOMAIN edges' = DOMAIN edges
      /\ \A k \in DOMAIN edges :
           edges'[k] = [edges[k] EXCEPT !.evidence = @ \cup {c \in corroborations : c.key = k}]
  BY DEF ResolveCorroborations
<1>5. \A k \in DOMAIN edges :
        /\ edges'[k].conf = edges[k].conf /\ edges'[k].status = edges[k].status
        /\ edges'[k].evidence = edges[k].evidence \cup {c \in corroborations : c.key = k}
  BY <1>0, <1>4 DEF TypeOK, Edge
<1>6. Function'
  BY <1>4 DEF Function
<1>7. Drawing'
  <2>1. \A k : Draws(k)' = Draws(k)
    BY <1>1, <1>2 DEF Draws
  <2>2. \A k \in DOMAIN edges : edges[k].evidence = Draws(k)
    BY <1>0, <1>1 DEF Drawing
  <2>3. \A k \in DOMAIN edges :
          edges'[k].evidence = Draws(k)' \cup
            {c \in corroborations' : c.key = k /\ phase' = "corroborated"}
    BY <1>1, <1>5, <2>1, <2>2
  <2> QED BY <1>0, <1>1, <1>2, <1>4, <1>5, <2>1, <2>3 DEF Drawing
<1>8. Reporting'
  <2>1. DOMAIN edges = Promise!Declared
    BY <1>0, <1>1, <1>2, KnownIs DEF Drawing
  <2>2. findings' = findings \cup Stale
    BY <1>0, <1>1, <1>2, <2>1 DEF Stale, Kept
  <2>3. Stale' = Stale
    BY <1>1, PromiseStays DEF Stale
  <2> QED BY <1>0, <1>1, <1>2, <2>2, <2>3 DEF Reporting
<1> QED BY <1>3, <1>6, <1>7, <1>8 DEF Progress

\* Nothing agrees with what the other source says.
LEMMA AgreeSilent ==
  ASSUME NEW a \in 0 .. Certain
  PROVE  Agree(a, 0) = a /\ Agree(0, a) = a
BY DEF Agree, Larger, Medium, Certain

LEMMA ResolvePermissionsProgress ==
  ASSUME IInv, Progress, ResolvePermissions PROVE Progress'
<1>0. TypeOK /\ Inputs /\ Phases /\ Kept /\ Drawing /\ Reporting /\ Given
  BY DEF IInv, Progress
<1>1. /\ UNCHANGED <<claims, readInFull, permitted, todo, corroborations, permissions, findings>>
      /\ phase = "corroborated" /\ phase' = "permitted" /\ todo = {}
      /\ refs' = {k \in DOMAIN edges' : k.kind = "references"}
  BY <1>0 DEF ResolvePermissions, inputs, Phases
<1>2. Made = claims /\ Made' = Made
  BY <1>1 DEF Made
<1>3. Kept' /\ Drawing' /\ Given'
  BY <1>0, <1>1, <1>2 DEF Kept, Drawing, Given
<1>4. /\ edges' = [k \in DOMAIN edges \cup {p.key : p \in permissions} |-> Permitted(k)]
      /\ DOMAIN edges' = DOMAIN edges \cup {p.key : p \in permissions}
      /\ \A k \in DOMAIN edges' : edges'[k] = Permitted(k)
  BY DEF ResolvePermissions
<1>5. Function'
  BY <1>4 DEF Function
<1>6. DOMAIN edges = Promise!Declared /\ DOMAIN edges' = Promise!Known
  <2>1. DOMAIN edges = Promise!Declared
    BY <1>0, <1>1, <1>2, KnownIs DEF Drawing
  <2>2. permissions = {c \in claims : c.op = "permit" /\ Ends(c.key) \subseteq Nodes}
    BY <1>0, <1>2 DEF Kept
  <2> QED BY <1>4, <2>1, <2>2, KnownIs
<1>7. refs' = Promise!References
  BY <1>1, <1>6, KnownIs
<1>8. Reporting'
  <2>1. Stale' = Stale
    BY <1>1, PromiseStays DEF Stale
  <2> QED BY <1>0, <1>1, <1>2, <2>1 DEF Reporting
<1>9. \A k : Come(k)' = {}
  <2>1. \A k : Promise!Backing(k)' \subseteq Promise!References
    BY <1>1, PromiseStays DEF Promise!Backing
  <2> QED BY <1>7, <2>1 DEF Come
<1>10. \A k \in DOMAIN edges' :
         /\ edges'[k].conf = Agree(Promise!Level("edge", k), Promise!Level("permit", k))
         /\ edges'[k].status = Promise!Status(k)
         /\ edges'[k].evidence = Promise!OwnEvidence(k)
  <2> SUFFICES ASSUME NEW k \in DOMAIN edges'
               PROVE  /\ edges'[k].conf = Agree(Promise!Level("edge", k), Promise!Level("permit", k))
                      /\ edges'[k].status = Promise!Status(k)
                      /\ edges'[k].evidence = Promise!OwnEvidence(k)
    OBVIOUS
  <2> DEFINE ps == {p \in permissions : p.key = k}
             top == Highest({p.conf : p \in ps})
             E == Promise!Level("edge", k)
             P == Promise!Level("permit", k)
  <2>1. /\ k \notin DOMAIN edges =>
             ps # {} /\ edges'[k] = [conf |-> top, status |-> Active, evidence |-> ps]
        /\ k \in DOMAIN edges =>
             /\ edges'[k].evidence = edges[k].evidence \cup ps
             /\ edges'[k].status = edges[k].status
             /\ ps = {} => edges'[k] = edges[k]
             /\ ps # {} => edges'[k].conf = Agree(edges[k].conf, top)
    <3>1. edges'[k] = Permitted(k) /\ k \in DOMAIN edges \cup {p.key : p \in permissions}
      BY <1>4
    <3> QED BY <1>0, <3>1, PermittedIs
  <2>2. ps = Promise!Of("permit", k)
    BY <1>0, <1>2, OfIs DEF Kept
  <2>3. /\ E \in 0 .. Certain /\ P \in 0 .. Certain
        /\ ps = {} => P = 0
        /\ ps # {} => P = top
        /\ Promise!Of("edge", k) = {} => E = 0
        /\ Promise!Of("edge", k) # {} => E = Highest({c.conf : c \in Promise!Of("edge", k)})
    BY <1>0, <2>2, LevelIs
  <2>4. Draws(k) = Promise!Of("edge", k)
    BY <1>2, OfIs DEF Draws
  <2>5. k \in DOMAIN edges <=> Promise!Of("edge", k) # {}
    BY <1>6, KnownIs
  <2>6. k \in DOMAIN edges =>
          /\ edges[k].conf = E
          /\ edges[k].status = Highest({c.status : c \in Promise!Of("edge", k)})
          /\ edges[k].evidence = Promise!Of("edge", k) \cup Promise!Of("corroborate", k)
    <3> SUFFICES ASSUME k \in DOMAIN edges
                 PROVE  /\ edges[k].conf = E
                        /\ edges[k].status = Highest({c.status : c \in Promise!Of("edge", k)})
                        /\ edges[k].evidence = Promise!Of("edge", k) \cup Promise!Of("corroborate", k)
      OBVIOUS
    <3>1. /\ edges[k].conf = Highest({c.conf : c \in Promise!Of("edge", k)})
          /\ edges[k].status = Highest({c.status : c \in Promise!Of("edge", k)})
          /\ edges[k].evidence = Promise!Of("edge", k) \cup {c \in corroborations : c.key = k}
      BY <1>0, <1>1, <2>4 DEF Drawing
    <3>2. {c \in corroborations : c.key = k} = Promise!Of("corroborate", k)
      <4>1. Ends(k) \subseteq Nodes
        BY <2>5, OfIs
      <4> QED BY <1>0, <1>2, <4>1, OfIs DEF Kept
    <3> QED BY <2>3, <2>5, <3>1, <3>2
  <2> HIDE DEF ps, top, E, P
  <2>7. CASE k \notin DOMAIN edges
    <3>1. edges'[k].conf = Agree(E, P)
      BY <2>1, <2>3, <2>5, <2>7, AgreeSilent
    <3>2. edges'[k].status = Promise!Status(k)
      BY <1>6, <2>1, <2>7 DEF Promise!Status, Active, Promise!Active
    <3>3. edges'[k].evidence = Promise!OwnEvidence(k)
      BY <1>6, <2>1, <2>2, <2>5, <2>7 DEF Promise!OwnEvidence
    <3> QED BY <3>1, <3>2, <3>3 DEF E, P
  <2>8. CASE k \in DOMAIN edges
    <3>1. edges'[k].conf = Agree(E, P)
      BY <2>1, <2>3, <2>6, <2>8, AgreeSilent
    <3>2. edges'[k].status = Promise!Status(k)
      BY <1>6, <2>1, <2>6, <2>8, HighestSame DEF Promise!Status
    <3>3. edges'[k].evidence = Promise!OwnEvidence(k)
      BY <1>6, <2>1, <2>2, <2>6, <2>8 DEF Promise!OwnEvidence
    <3> QED BY <3>1, <3>2, <3>3 DEF E, P
  <2> QED BY <2>7, <2>8
<1>11. Folding'
  <2>1. DOMAIN edges' = (Promise!Known \ (Promise!Explained \ refs))'
    <3>1. Promise!Explained \subseteq refs'
      BY <1>7, KnownIs
    <3> QED BY <1>1, <1>6, <3>1, PromiseStays
  <2>2. \A k \in DOMAIN edges' :
          Weight(k)' = Agree(Promise!Level("edge", k), Promise!Level("permit", k))
    <3> TAKE k \in DOMAIN edges'
    <3>1. /\ Promise!Level("edge", k)' = Promise!Level("edge", k)
          /\ Promise!Level("permit", k)' = Promise!Level("permit", k)
      BY <1>1, PromiseStays
    <3>2. Weight(k)' = Promise!Together(<<Promise!Level("edge", k), Promise!Level("permit", k)>>)
      BY <1>9, <3>1 DEF Weight
    <3>3. Promise!Level("edge", k) \in 0 .. Certain /\ Promise!Level("permit", k) \in 0 .. Certain
      BY <1>0, LevelIs
    <3> QED BY <3>2, <3>3, TogetherTwo
  <2>3. \A k \in DOMAIN edges' :
          /\ Promise!Status(k)' = Promise!Status(k)
          /\ (Promise!OwnEvidence(k) \cup UNION {Promise!OwnEvidence(r) : r \in Come(k)})'
               = Promise!OwnEvidence(k)
    BY <1>1, <1>9, PromiseStays
  <2> QED BY <1>10, <2>1, <2>2, <2>3 DEF Folding
<1> QED BY <1>3, <1>5, <1>8, <1>11 DEF Progress
\* Nothing explains by being a reference, and what is evidence for an edge is
\* the one reference it explains.
LEMMA BackingIs ==
  ASSUME Inputs, NEW k \in Promise!Known
  PROVE  /\ \A r \in Promise!Backing(k) :
              /\ r \in Promise!References /\ r = Reference(k) /\ k.kind # "references"
              /\ Promise!Explains(r, k) /\ Promise!ReferenceConf(r) # Low
         /\ k.kind = "references" => Promise!Backing(k) = {}
<1>1. \A r \in Promise!Backing(k) :
        /\ r \in Promise!References /\ Promise!Explains(r, k) /\ Promise!ReferenceConf(r) # Low
  BY DEF Promise!Backing, Promise!Low, Low
<1>2. \A r \in Promise!Backing(k) : r = Reference(k) /\ k.kind # "references"
  BY <1>1, OneReference
<1> QED BY <1>1, <1>2

\* absorbReferences folds a reference into the edges that explain it, however
\* many it has come to before: absorbing changes no status, removes no typed
\* edge, and gives an edge only the reference it explains.
LEMMA AbsorbersExplain ==
  ASSUME IInv, Progress, phase = "permitted", NEW k \in refs
  PROVE  /\ Absorbers(k) = {e \in Promise!Known : Promise!Explains(k, e)}
         /\ k \in Promise!References /\ k \in DOMAIN edges
<1>0. TypeOK /\ Inputs /\ Folding
  BY DEF IInv, Progress
<1>1. /\ DOMAIN edges = Promise!Known \ (Promise!Explained \ refs)
      /\ \A e \in DOMAIN edges :
           /\ edges[e].status = Promise!Status(e)
           /\ edges[e].evidence = Promise!OwnEvidence(e)
                                    \cup UNION {Promise!OwnEvidence(r) : r \in Come(e)}
  BY <1>0 DEF Folding
<1>2. k \in DOMAIN edges /\ k.kind = "references" /\ k \in Keys /\ k \in Promise!References
  BY <1>0, <1>1, KnownIs DEF TypeOK
<1>3. \A e \in Promise!Known : e \in Keys
  BY <1>0, ClaimFacts, KnownIs
<1> DEFINE live == {e \in DOMAIN edges : e.kind # "references" /\ edges[e].status # Disabled}
           same == {e \in live : e.from = k.from /\ e.to = k.to}
           polls == {e \in live : /\ e = [from |-> k.to, to |-> k.from, kind |-> "consume"]
                                  /\ \E c \in edges[e].evidence : c.rule = "iam"}
<1>4. Absorbers(k) = IF same # {} THEN same ELSE polls
  BY DEF Absorbers
<1>5. \A e : e \in live <=> Promise!Live(e)
  <2>1. \A e \in Promise!Known : e.kind # "references" => e \in DOMAIN edges
    BY <1>1, KnownIs
  <2> QED BY <1>1, <2>1 DEF Promise!Live, Promise!Disabled, Disabled
<1> HIDE DEF live
<1>6. \A e \in live : e \in Promise!Known /\ e \in DOMAIN edges /\ e \in Keys
  <2>1. \A e \in live : e \in DOMAIN edges
    BY DEF live
  <2> QED BY <1>1, <1>3, <2>1
<1>7. \A e \in live : e \in same <=> Promise!Naming(e) = k
  <2> SUFFICES ASSUME NEW e \in live
               PROVE  (e.from = k.from /\ e.to = k.to) <=> Promise!Naming(e) = k
    OBVIOUS
  <2>1. /\ Promise!Naming(e).from = e.from /\ Promise!Naming(e).to = e.to
        /\ Promise!Naming(e).kind = "references" /\ Promise!Naming(e) \in Keys
    BY <1>6 DEF Promise!Naming, Keys, Kinds
  <2> QED BY <1>2, <2>1, KeyFields
<1>8. \A e \in live :
        e = [from |-> k.to, to |-> k.from, kind |-> "consume"]
          <=> e.kind = "consume" /\ Promise!Reversed(e) = k
  <2> TAKE e \in live
  <2>1. /\ Promise!Reversed(e).from = e.to /\ Promise!Reversed(e).to = e.from
        /\ Promise!Reversed(e).kind = "references" /\ Promise!Reversed(e) \in Keys
    BY <1>6 DEF Promise!Reversed, Keys, Kinds
  <2>2. Promise!Reversed(e) = k <=> e.to = k.from /\ e.from = k.to
    BY <1>2, <2>1, KeyFields
  <2> DEFINE f == [from |-> k.to, to |-> k.from, kind |-> "consume"]
  <2>3. f \in Keys /\ f.from = k.to /\ f.to = k.from /\ f.kind = "consume"
    BY <1>2 DEF Keys, Kinds
  <2> HIDE DEF f
  <2>4. e = f <=> e.from = k.to /\ e.to = k.from /\ e.kind = "consume"
    BY <1>6, <2>3, KeyFields
  <2> QED BY <2>2, <2>4 DEF f
<1>9. \A e \in live :
        e.kind = "consume" /\ Promise!Reversed(e) = k =>
          edges[e].evidence = Promise!OwnEvidence(e)
  <2> SUFFICES ASSUME NEW e \in live, e.kind = "consume", Promise!Reversed(e) = k
               PROVE  edges[e].evidence = Promise!OwnEvidence(e)
    OBVIOUS
  <2>1. Reference(e) = k
    BY DEF Reference, Promise!Reversed
  <2>2. \A r \in Promise!Backing(e) : r = k
    BY <1>0, <1>6, <2>1, BackingIs
  <2>3. Come(e) = {}
    BY <2>2 DEF Come
  <2>4. UNION {Promise!OwnEvidence(r) : r \in Come(e)} = {}
    BY <2>3
  <2>5. edges[e].evidence = Promise!OwnEvidence(e)
                              \cup UNION {Promise!OwnEvidence(r) : r \in Come(e)}
    BY <1>1, <1>6
  <2> QED BY <2>4, <2>5
<1>10. CASE same # {}
  <2>1. \E j \in Promise!Known : Promise!Live(j) /\ Promise!Naming(j) = k
    BY <1>5, <1>6, <1>7, <1>10
  <2>2. \A e : Promise!Explains(k, e) <=> Promise!Live(e) /\ Promise!Naming(e) = k
    BY <2>1 DEF Promise!Explains
  <2>3. \A e : e \in same <=> e \in Promise!Known /\ Promise!Explains(k, e)
    BY <1>5, <1>6, <1>7, <2>2
  <2> QED BY <1>2, <1>4, <1>10, <2>3
<1>11. CASE same = {}
  <2>1. ~ \E j \in Promise!Known : Promise!Live(j) /\ Promise!Naming(j) = k
    BY <1>5, <1>7, <1>11
  <2>2. \A e \in live : Promise!Naming(e) # k
    BY <1>7, <1>11
  <2>3. \A e : Promise!Explains(k, e) <=>
                 /\ Promise!Live(e) /\ e.kind = "consume" /\ Promise!Reversed(e) = k
                 /\ \E c \in Promise!OwnEvidence(e) : c.rule = "iam"
    BY <1>5, <2>1, <2>2 DEF Promise!Explains
  <2>4. \A e : e \in polls <=> e \in Promise!Known /\ Promise!Explains(k, e)
    BY <1>5, <1>6, <1>8, <1>9, <2>3
  <2> QED BY <1>2, <1>4, <1>11, <2>4
<1> QED BY <1>10, <1>11

LEMMA AbsorbProgress ==
  ASSUME NEW k \in refs, IInv, Progress, Absorb(k) PROVE Progress'
<1>0. TypeOK /\ Inputs /\ Kept /\ Folding /\ Reporting /\ Function /\ Given
  BY DEF IInv, Progress
<1>1. /\ UNCHANGED <<claims, readInFull, permitted, phase, todo, corroborations,
                     permissions, findings>>
      /\ phase = "permitted" /\ refs' = refs \ {k}
  BY DEF Absorb, inputs
<1>2. Made' = Made
  BY <1>1 DEF Made
<1>3. Kept' /\ Drawing' /\ Given'
  BY <1>0, <1>1, <1>2 DEF Kept, Drawing, Given
<1>4. Reporting'
  <2>1. Stale' = Stale
    BY <1>1, PromiseStays DEF Stale
  <2> QED BY <1>0, <1>1, <1>2, <2>1 DEF Reporting
<1> DEFINE A == Absorbers(k)
<1>5. /\ A = {e \in Promise!Known : Promise!Explains(k, e)}
      /\ k \in Promise!References /\ k \in DOMAIN edges /\ k.kind = "references"
  BY <1>1, AbsorbersExplain, KnownIs
<1>6. k \in Promise!Explained <=> A # {}
  BY <1>5 DEF Promise!Explained
<1>7. /\ DOMAIN edges = Promise!Known \ (Promise!Explained \ refs)
      /\ \A e \in DOMAIN edges :
           /\ edges[e].conf = Weight(e)
           /\ edges[e].status = Promise!Status(e)
           /\ edges[e].evidence = Promise!OwnEvidence(e)
                                    \cup UNION {Promise!OwnEvidence(r) : r \in Come(e)}
  BY <1>0, <1>1 DEF Folding
<1>8. \A e : Come(e)' = Come(e) \cup (Promise!Backing(e) \cap {k})
  <2>1. \A e : Promise!Backing(e)' = Promise!Backing(e)
    BY <1>1, PromiseStays
  <2> QED BY <1>1, <2>1 DEF Come
<1>9. \A e : Come(e)' = Come(e) =>
        /\ Weight(e)' = Weight(e)
        /\ (UNION {Promise!OwnEvidence(r) : r \in Come(e)})'
             = UNION {Promise!OwnEvidence(r) : r \in Come(e)}
  BY <1>1, WeightStays
<1>10. CASE A = {}
  <2>1. edges' = edges
    BY <1>10 DEF Absorb
  <2>2. Promise!Explained' \ refs' = Promise!Explained \ refs
    BY <1>1, <1>6, <1>10, PromiseStays
  <2>3. \A e \in DOMAIN edges : Come(e)' = Come(e)
    <3>1. \A e \in DOMAIN edges : k \notin Promise!Backing(e)
      BY <1>0, <1>5, <1>7, <1>10, BackingIs
    <3> QED BY <1>8, <3>1
  <2>4. Folding'
    BY <1>1, <1>7, <1>9, <2>1, <2>2, <2>3, PromiseStays DEF Folding
  <2>5. Function'
    BY <1>0, <2>1 DEF Function
  <2> QED BY <1>3, <1>4, <2>4, <2>5 DEF Progress
<1>11. CASE A # {}
  <2>1. edges' = [e \in DOMAIN edges \ {k} |->
            IF e \in A /\ edges[k].conf # Low
              THEN [edges[e] EXCEPT !.conf = Agree(@, edges[k].conf),
                                    !.evidence = @ \cup edges[k].evidence]
              ELSE edges[e]]
    BY <1>11 DEF Absorb
  <2>2. Function'
    BY <2>1 DEF Function
  <2>3. DOMAIN edges' = Promise!Known' \ (Promise!Explained' \ refs')
    <3>1. Promise!Known' = Promise!Known /\ Promise!Explained' = Promise!Explained
      BY <1>1, PromiseStays
    <3> QED BY <1>1, <1>5, <1>6, <1>7, <1>11, <2>1, <3>1
  <2>4. /\ edges[k].conf = Promise!ReferenceConf(k)
        /\ edges[k].evidence = Promise!OwnEvidence(k)
        /\ edges[k].conf \in 0 .. Certain
    <3>1. k \in Promise!Known
      BY <1>5, KnownIs
    <3>2. Come(k) = {}
      BY <1>0, <1>5, <3>1, BackingIs DEF Come
    <3>3. edges[k].conf \in Low .. Certain
      BY <1>0, <1>5 DEF TypeOK, Edge
    <3>4. UNION {Promise!OwnEvidence(r) : r \in Come(k)} = {}
      BY <3>2
    <3>5. edges[k].conf = Promise!ReferenceConf(k)
      BY <1>5, <1>7, <3>2 DEF Weight, Promise!ReferenceConf
    <3>6. edges[k].evidence = Promise!OwnEvidence(k)
      BY <1>5, <1>7, <3>4
    <3>7. Low .. Certain \subseteq 0 .. Certain
      BY DEF Low, Certain
    <3> QED BY <3>3, <3>5, <3>6, <3>7
  <2>5. \A e \in DOMAIN edges' :
          /\ edges'[e].conf = Weight(e)'
          /\ edges'[e].status = Promise!Status(e)'
          /\ edges'[e].evidence = Promise!OwnEvidence(e)'
                                    \cup (UNION {Promise!OwnEvidence(r) : r \in Come(e)})'
    <3> SUFFICES ASSUME NEW e \in DOMAIN edges'
                 PROVE  /\ edges'[e].conf = Weight(e)'
                        /\ edges'[e].status = Promise!Status(e)'
                        /\ edges'[e].evidence = Promise!OwnEvidence(e)'
                                    \cup (UNION {Promise!OwnEvidence(r) : r \in Come(e)})'
      OBVIOUS
    <3>1. /\ e \in DOMAIN edges /\ e \in Promise!Known /\ edges[e] \in Edge
          /\ Promise!Status(e)' = Promise!Status(e)
          /\ Promise!OwnEvidence(e)' = Promise!OwnEvidence(e)
      BY <1>0, <1>1, <1>7, <2>1, PromiseStays DEF TypeOK
    <3>2. CASE ~(e \in A /\ edges[k].conf # Low)
      <4>1. edges'[e] = edges[e]
        BY <2>1, <3>1, <3>2
      <4>2. k \notin Promise!Backing(e)
        BY <1>0, <1>5, <2>4, <3>1, <3>2, BackingIs
      <4>3. Come(e)' = Come(e)
        BY <1>8, <4>2
      <4> QED BY <1>7, <1>9, <3>1, <4>1, <4>3
    <3>3. CASE e \in A /\ edges[k].conf # Low
      <4> DEFINE E == Promise!Level("edge", e)
                 P == Promise!Level("permit", e)
                 R == edges[k].conf
      <4>1. /\ edges'[e].conf = Agree(edges[e].conf, R)
            /\ edges'[e].status = edges[e].status
            /\ edges'[e].evidence = edges[e].evidence \cup edges[k].evidence
        <5>1. edges'[e] = [edges[e] EXCEPT !.conf = Agree(@, edges[k].conf),
                                           !.evidence = @ \cup edges[k].evidence]
          BY <2>1, <3>3
        <5> QED BY <3>1, <5>1 DEF Edge
      <4>2. Promise!Backing(e) = {k}
        <5>1. k \in Promise!Backing(e)
          BY <1>5, <2>4, <3>3 DEF Promise!Backing, Promise!Low, Low
        <5> QED BY <1>0, <3>1, <5>1, BackingIs
      <4>3. Come(e) = {} /\ Come(e)' = {k}
        BY <1>8, <4>2 DEF Come
      <4>4. E \in 0 .. Certain /\ P \in 0 .. Certain /\ R \in 0 .. Certain
        BY <1>0, <2>4, LevelIs
      <4>5. E' = E /\ P' = P /\ Promise!ReferenceConf(k)' = R /\
            Promise!OwnEvidence(k)' = Promise!OwnEvidence(k)
        BY <1>1, <2>4, PromiseStays
      <4>6. Promise!Highest({Promise!ReferenceConf(r) : r \in Come(e)})' = R
        <5>1. {Promise!ReferenceConf(r) : r \in Come(e)}' = {R}
          BY <4>3, <4>5
        <5>2. Promise!Highest({R}) = R
          <6>1. {R} \in SUBSET (0 .. Certain) /\ R \in {R} /\ \A o \in {R} : o <= R
            <7>1. R \in Int
              BY <4>4 DEF Certain
            <7> QED BY <4>4, <7>1
          <6> QED BY <6>1, HighestUnique, HighestSame
        <5>3. Promise!Highest({Promise!ReferenceConf(r) : r \in Come(e)})'
                = Promise!Highest({Promise!ReferenceConf(r) : r \in Come(e)}')
          BY DEF Promise!Highest
        <5> QED BY <5>1, <5>2, <5>3
      <4> HIDE DEF E, P, R
      <4>7. edges[e].conf = Agree(E, P)
        BY <1>7, <3>1, <4>3, <4>4, TogetherTwo DEF Weight, E, P
      <4>8. Weight(e)' = Promise!Together(<<E, P, R>>)
        BY <4>3, <4>5, <4>6 DEF Weight, E, P, Promise!Together
      <4>9. edges'[e].conf = Weight(e)'
        BY <4>1, <4>4, <4>7, <4>8, TogetherThree
      <4>10. (UNION {Promise!OwnEvidence(r) : r \in Come(e)})' = Promise!OwnEvidence(k)
        BY <4>3, <4>5
      <4>11. edges[e].evidence = Promise!OwnEvidence(e)
        <5>1. (UNION {Promise!OwnEvidence(r) : r \in Come(e)}) = {}
          BY <4>3
        <5>2. edges[e].evidence = Promise!OwnEvidence(e)
                \cup (UNION {Promise!OwnEvidence(r) : r \in Come(e)})
          BY <1>7, <3>1
        <5> QED BY <5>1, <5>2
      <4> QED BY <1>7, <2>4, <3>1, <4>1, <4>9, <4>10, <4>11
    <3> QED BY <3>2, <3>3
  <2>6. Folding'
    BY <1>1, <2>3, <2>5 DEF Folding
  <2> QED BY <1>3, <1>4, <2>2, <2>6 DEF Progress
<1> QED BY <1>10, <1>11
\* What LinkGraph reports, claim by claim.
LEMMA ReportedIs ==
  ASSUME Inputs
  PROVE  Promise!Reported =
           {Rejection(c) : c \in {d \in claims : Rejected(d)}} \cup Stale \cup
           {Finding("unpermitted", r.from, r.to) :
              r \in {s \in Promise!References \ Promise!Explained :
                       /\ s.from \in readInFull /\ s.to \in Governed
                       /\ <<s.from, s.to>> \notin permitted}}
<1> DEFINE A == {[kind |-> "unresolved", node |-> c.key.from, target |-> c.key.to] :
                   c \in {d \in claims : /\ d.op # "corroborate" /\ d.key.to \notin Nodes
                                         /\ d.op = "edge" => d.key.from \in Nodes}}
           B == {[kind |-> "unresolved", node |-> c.key.to, target |-> c.key.from] :
                   c \in {d \in claims : d.op = "edge" /\ d.key.from \notin Nodes}}
           C == {[kind |-> "unresolved", node |-> c.key.from, target |-> c.key.to] :
                   c \in {d \in claims : d.op = "permit" /\ d.key.from \notin Nodes}}
           R == {Rejection(c) : c \in {d \in claims : Rejected(d)}}
<1>1. ASSUME NEW c \in claims, Rejected(c) PROVE Rejection(c) \in A \cup B \cup C
  <2>1. c.op \in {"edge", "permit"} /\ (c.key.from \notin Nodes \/ c.key.to \notin Nodes)
    BY <1>1, ClaimFacts DEF Rejected, Ends
  <2>2. CASE c.op = "edge" /\ c.key.from \notin Nodes
    BY <2>2 DEF Rejection, Finding
  <2>3. CASE c.op = "permit" /\ c.key.from \notin Nodes
    BY <2>3 DEF Rejection, Finding
  <2>4. CASE c.key.from \in Nodes /\ c.key.to \notin Nodes
    BY <2>1, <2>4 DEF Rejection, Finding
  <2> QED BY <2>1, <2>2, <2>3, <2>4
<1>2. A \subseteq R
  BY DEF Rejection, Rejected, Finding, Ends
<1>3. B \subseteq R
  BY DEF Rejection, Rejected, Finding, Ends
<1>4. C \subseteq R
  BY DEF Rejection, Rejected, Finding, Ends
<1>5. A \cup B \cup C = R
  <2>1. R \subseteq A \cup B \cup C
    BY <1>1
  <2> QED BY <1>2, <1>3, <1>4, <2>1
<1>6. Stale = {[kind |-> "stale-permission", node |-> c.key.from, target |-> c.key.to] :
                 c \in {d \in claims : /\ d.op = "corroborate" /\ d.orElse
                                       /\ d.key \notin Promise!Declared}}
  BY DEF Stale, Finding
<1> DEFINE unpermitted ==
      {s \in Promise!References \ Promise!Explained :
         s.from \in readInFull /\ s.to \in Governed /\ <<s.from, s.to>> \notin permitted}
<1>7. {Finding("unpermitted", r.from, r.to) : r \in unpermitted}
        = {[kind |-> "unpermitted", node |-> r.from, target |-> r.to] : r \in unpermitted}
  BY DEF Finding
<1>8. Promise!Reported =
        A \cup B \cup C
          \cup {[kind |-> "stale-permission", node |-> c.key.from, target |-> c.key.to] :
                 c \in {d \in claims : /\ d.op = "corroborate" /\ d.orElse
                                       /\ d.key \notin Promise!Declared}}
          \cup {[kind |-> "unpermitted", node |-> r.from, target |-> r.to] : r \in unpermitted}
  BY DEF Promise!Reported
<1> HIDE DEF A, B, C, R
<1> QED BY <1>5, <1>6, <1>7, <1>8 DEF R

LEMMA CheckUnpermittedProgress ==
  ASSUME IInv, Progress, CheckUnpermitted PROVE Progress'
<1>0. Inputs /\ Phases /\ Kept /\ Folding /\ Reporting /\ Function /\ Given
  BY DEF IInv, Progress
<1>1. /\ UNCHANGED <<claims, readInFull, permitted, todo, edges, corroborations,
                     permissions, refs>>
      /\ phase = "permitted" /\ phase' = "done" /\ refs = {} /\ todo = {}
      /\ findings' = findings \cup
           {Finding("unpermitted", k.from, k.to) :
              k \in {r \in DOMAIN edges :
                       /\ r.kind = "references" /\ r.from \in readInFull
                       /\ r.to \in Governed /\ <<r.from, r.to>> \notin permitted}}
  BY <1>0 DEF CheckUnpermitted, inputs, Phases
<1>2. Made = claims /\ Made' = Made
  BY <1>1 DEF Made
<1>3. Kept' /\ Drawing' /\ Function' /\ Given'
  BY <1>0, <1>1, <1>2 DEF Kept, Drawing, Function, Given
<1>4. Folding'
  <2>1. \A k : Come(k)' = Come(k)
    BY <1>1, PromiseStays DEF Come
  <2>2. \A k : /\ Weight(k)' = Weight(k)
               /\ (UNION {Promise!OwnEvidence(r) : r \in Come(k)})'
                    = UNION {Promise!OwnEvidence(r) : r \in Come(k)}
    BY <1>1, <2>1, WeightStays
  <2> QED BY <1>0, <1>1, <2>2, PromiseStays DEF Folding
<1>5. Reporting'
  <2>1. {r \in DOMAIN edges : r.kind = "references"} = Promise!References \ Promise!Explained
    BY <1>0, <1>1, KnownIs DEF Folding
  <2>2. findings' = findings \cup
          {Finding("unpermitted", r.from, r.to) :
             r \in {s \in Promise!References \ Promise!Explained :
                      /\ s.from \in readInFull /\ s.to \in Governed
                      /\ <<s.from, s.to>> \notin permitted}}
    BY <1>1, <2>1
  <2>3. findings' = Promise!Reported
    BY <1>0, <1>1, <1>2, <2>2, ReportedIs DEF Reporting
  <2>4. Promise!Reported' = Promise!Reported
    BY <1>1, PromiseStays
  <2> QED BY <1>1, <2>3, <2>4 DEF Reporting
<1> QED BY <1>3, <1>4, <1>5 DEF Progress

LEMMA ProgressStutters ==
  ASSUME Progress, UNCHANGED vars PROVE Progress'
<1>1. /\ UNCHANGED <<claims, readInFull, permitted>>
      /\ UNCHANGED <<phase, todo, edges, corroborations, permissions, findings, refs>>
  BY DEF vars, inputs
<1>2. Made' = Made /\ \A k : Draws(k)' = Draws(k)
  BY <1>1 DEF Made, Draws
<1>3. Kept' /\ Drawing' /\ Function' /\ Given'
  BY <1>1, <1>2 DEF Progress, Kept, Drawing, Function, Given
<1>4. Reporting'
  BY <1>1, <1>2, PromiseStays DEF Progress, Reporting, Stale
<1>5. \A k : Come(k)' = Come(k)
  BY <1>1, PromiseStays DEF Come
<1>6. \A k : /\ Weight(k)' = Weight(k)
             /\ (UNION {Promise!OwnEvidence(r) : r \in Come(k)})'
                  = UNION {Promise!OwnEvidence(r) : r \in Come(k)}
  BY <1>1, <1>5, WeightStays
<1>7. Folding'
  BY <1>1, <1>6, PromiseStays DEF Progress, Folding
<1> QED BY <1>3, <1>4, <1>7 DEF Progress

LEMMA NextProgress == IInv /\ Progress /\ [Next]_vars => Progress'
<1> SUFFICES ASSUME IInv, Progress, [Next]_vars PROVE Progress'
  OBVIOUS
<1>1. ASSUME NEW c \in todo, DrawEdge(c) PROVE Progress'
  BY <1>1, DrawEdgeProgress
<1>2. ASSUME NEW c \in todo, Corroborate(c) PROVE Progress'
  BY <1>2, CorroborateProgress
<1>3. ASSUME NEW c \in todo, Permit(c) PROVE Progress'
  BY <1>3, PermitProgress
<1>4. CASE ResolveCorroborations
  BY <1>4, ResolveCorroborationsProgress
<1>5. CASE ResolvePermissions
  BY <1>5, ResolvePermissionsProgress
<1>6. ASSUME NEW k \in refs, Absorb(k) PROVE Progress'
  BY <1>6, AbsorbProgress
<1>7. CASE CheckUnpermitted
  BY <1>7, CheckUnpermittedProgress
<1>8. CASE UNCHANGED vars
  BY <1>8, ProgressStutters
<1> QED BY <1>1, <1>2, <1>3, <1>4, <1>5, <1>6, <1>7, <1>8 DEF Next, Linked

-----------------------------------------------------------------------------
(* Link implements LinkGraph.                                              *)

LEMMA AlwaysProgress == Spec => [](IInv /\ Progress)
<1>1. Init => IInv /\ Progress
  BY InitIInv, InitProgress
<1>2. IInv /\ Progress /\ [Next]_vars => (IInv /\ Progress)'
  BY NextStep, NextProgress
<1> QED BY <1>1, <1>2, PTL DEF Spec

\* When Link is done its edges and its findings are those of the one graph the
\* claims have.
Result == phase = "done" => edges = Promise!Merged /\ findings = Promise!Reported

LEMMA DoneIs == IInv /\ Progress => Result
<1> SUFFICES ASSUME IInv, Progress, phase = "done"
             PROVE  edges = Promise!Merged /\ findings = Promise!Reported
  BY DEF Result
<1>0. TypeOK /\ Folding /\ Reporting /\ Function /\ Given
  BY DEF IInv, Progress
<1>1. findings = Promise!Reported
  BY <1>0 DEF Reporting
<1>2. /\ DOMAIN edges = Promise!Known \ Promise!Explained
      /\ \A k : Come(k) = Promise!Backing(k)
  BY <1>0 DEF Folding, Given, Come
<1> DEFINE M(k) ==
      [conf |-> IF Promise!Backing(k) = {}
                  THEN Promise!Together(<<Promise!Level("edge", k), Promise!Level("permit", k)>>)
                  ELSE Promise!Together(<<Promise!Level("edge", k), Promise!Level("permit", k),
                         Promise!Highest({Promise!ReferenceConf(r) : r \in Promise!Backing(k)})>>),
       status |-> Promise!Status(k),
       evidence |-> Promise!OwnEvidence(k)
                      \cup UNION {Promise!OwnEvidence(r) : r \in Promise!Backing(k)}]
<1>3. \A k \in DOMAIN edges : edges[k] = M(k)
  <2> TAKE k \in DOMAIN edges
  <2>1. edges[k] \in Edge
    BY <1>0 DEF TypeOK
  <2>2. edges[k] = [conf |-> edges[k].conf, status |-> edges[k].status,
                    evidence |-> edges[k].evidence]
    BY <2>1 DEF Edge
  <2>3. Come(k) = Promise!Backing(k)
    BY <1>2
  <2>4. Weight(k) = M(k).conf
    BY <2>3 DEF Weight
  <2>5. /\ edges[k].conf = Weight(k) /\ edges[k].status = Promise!Status(k)
        /\ edges[k].evidence = Promise!OwnEvidence(k)
                      \cup UNION {Promise!OwnEvidence(r) : r \in Promise!Backing(k)}
    BY <1>0, <2>3 DEF Folding
  <2> QED BY <2>2, <2>4, <2>5
<1>4. Promise!Merged = [k \in Promise!Known \ Promise!Explained |-> M(k)]
  BY DEF Promise!Merged
<1> HIDE DEF M
<1>5. edges = [k \in DOMAIN edges |-> M(k)]
  BY <1>0, <1>3 DEF Function
<1> QED BY <1>1, <1>2, <1>4, <1>5

\* Whatever order the rules make their claims in and the maps are walked in,
\* Link returns the graph LinkGraph defines from the claims, or has not returned:
\* the builder's runs are runs of the one-step specification.
THEOREM Refines == Spec => Implements
<1> DEFINE graph == IF phase = "done" THEN <<[edges |-> edges, findings |-> findings]>> ELSE <<>>
<1>1. Init => Promise!Init
  BY ClaimAssumption
     DEF Init, Promise!Init, Promise!Claims, Claims, Promise!OneIntent, OneIntent,
         Promise!Permits, Permits, Promise!Ends, Ends, Promise!Keys, Keys, Promise!Kinds, Kinds,
         Promise!Low, Low, Promise!Certain, Certain, Promise!Disabled, Disabled,
         Promise!Active, Active
<1>2. ASSUME IInv, Progress, Result', [Next]_vars
      PROVE  [Promise!Link]_<<claims, readInFull, permitted, graph>>
  <2>1. UNCHANGED <<claims, readInFull, permitted>>
    BY <1>2 DEF Next, DrawEdge, Corroborate, Permit, ResolveCorroborations, ResolvePermissions,
                Absorb, CheckUnpermitted, Linked, vars, inputs
  <2>2. CASE phase # "done" /\ phase' = "done"
    <3>1. /\ graph = <<>> /\ graph' # <<>>
          /\ graph' = <<[edges |-> edges', findings |-> findings']>>
      BY <2>2
    <3>2. edges' = Promise!Merged' /\ findings' = Promise!Reported'
      BY <1>2, <2>2 DEF Result
    <3>3. Promise!Merged' = Promise!Merged /\ Promise!Reported' = Promise!Reported
      BY <2>1, PromiseStays
    <3> QED BY <2>1, <3>1, <3>2, <3>3 DEF Promise!Link
  <2>3. CASE phase # "done" /\ phase' # "done"
    BY <2>1, <2>3
  <2>4. CASE phase = "done"
    <3>1. UNCHANGED vars
      <4>1. IInv /\ todo = {} /\ refs = {}
        BY <1>2, <2>4 DEF IInv, Phases, Progress, Given
      <4> QED BY <1>2, <2>4, <4>1
              DEF Next, ResolveCorroborations, ResolvePermissions, CheckUnpermitted, Linked
    <3> QED BY <2>1, <3>1 DEF vars
  <2> QED BY <2>2, <2>3, <2>4
<1>3. Spec => []Result
  BY AlwaysProgress, DoneIs, PTL
<1> QED BY <1>1, <1>2, <1>3, AlwaysProgress, PTL DEF Spec, Implements, Promise!Spec
=============================================================================
