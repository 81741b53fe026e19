-------------------------- MODULE StateRulesProofs --------------------------
(***************************************************************************)
(* What holds of the rules of tier 1 for every account: any topics,        *)
(* policies and mappings, any APIs and stages, any balancers and listeners.*)
(***************************************************************************)
EXTENDS StateRules, Integers, Sequences, TLAPS

----------------------------------------------------------------------------
(* Topics.  The account stays; an active edge has a subscription behind it *)
(* and a policy that is not read as a refusal;                             *)

Statuses == {"active", "unsettled", "disabled"}

Given ==
  /\ policy \in [Topics \cup Delivery!Receivers -> SUBSET Delivery!Statements]
  /\ subs \in [Topics -> SUBSET Delivery!Subscriptions]
  /\ unread \subseteq Topics \cup Functions
  /\ \/ todo = {}
     \/ <<"resolve", "all">> \in todo

Drawn ==
  /\ \A k \in DOMAIN edges : edges[k] \in Statuses
  /\ \A k \in DOMAIN edges : k[3] = "publish" /\ k[1] \in Topics => <<"sns", k[1]>> \notin todo
  /\ \A k \in DOMAIN edges : k[1] \in Topics /\ k[2] \in Delivery!Receivers /\ edges[k] = "active" =>
       /\ ~Delivery!Refuses(k[2], k[1])
       /\ \E sub \in subs[k[1]] : Delivery!Taken(k[1], sub) /\ k[2] \in Delivery!Targets(sub)

\* what is said to be refused is read so, and what is expected is not, so that nothing
\* is both;
Said ==
  /\ \A f \in findings : f[1] \in {"blocked", "unresolved", "unscanned", "stale"}
  /\ \A f \in findings : f[1] = "blocked" => f[3] \in Delivery!Receivers /\ Delivery!Refuses(f[3], f[2])
  /\ expected \subseteq Topics \X Delivery!Receivers
  /\ \A x \in expected : ~Delivery!Refuses(x[2], x[1])
  /\ triggers \subseteq Topics \cup Delivery!Receivers
  /\ Delivery!RulesAgree
  /\ \A f \in findings : f[1] = "stale" => todo = {} /\ f[3] \in Topics

\* and what a rule that has been applied declares is there, at least as lively, and
\* every way it was shown to a receiver is an edge or refused.
Applied ==
  /\ <<"declared", "all">> \notin todo =>
       \A m \in Mappings : m.here =>
         /\ <<m.from, m.to, "consume">> \in DOMAIN edges
         /\ Delivery!Rank(edges[<<m.from, m.to, "consume">>]) >= Delivery!Rank(Delivery!MappingStatus(m))
  /\ \A t \in Topics \ unread : <<"sns", t>> \notin todo =>
       \A sub \in {x \in subs[t] : Delivery!ToReceiver(x) /\ ~x.pending} :
         \/ <<"blocked", t, sub.to>> \in findings
         \/ <<t, sub.to, "publish">> \in DOMAIN edges /\ edges[<<t, sub.to, "publish">>] = "active"
  /\ \A r \in Delivery!Receivers \ unread : <<"policy", r>> \notin todo =>
       /\ Delivery!Expects(r) \subseteq expected
       /\ Delivery!OutsideSends(r) => r \in triggers
  /\ <<"resolve", "all">> \notin todo =>
       \A x \in expected : \/ <<x[1], x[2], "publish">> \in DOMAIN edges
                           \/ <<"stale", x[2], x[1]>> \in findings
Shown ==
  /\ \A t \in Topics \cap unread : <<"sns", t>> \notin todo => <<"unscanned", t, t>> \in findings
  /\ \A t \in Topics \ unread : <<"sns", t>> \notin todo =>
       \A sub \in subs[t] : \A x \in Delivery!Targets(Delivery!Seen(t, sub)) :
         \/ <<t, x, "publish">> \in DOMAIN edges
         \/ <<"blocked", t, x>> \in findings

DeliveryInv == Given /\ Drawn /\ Said /\ Applied /\ Shown

\* Of several statuses there is a liveliest one.
LEMMA LiveliestIs ==
  ASSUME NEW S \in SUBSET Statuses, S # {}
  PROVE  /\ Delivery!Liveliest(S) \in S
         /\ \A x \in S : Delivery!Rank(Delivery!Liveliest(S)) >= Delivery!Rank(x)
<1>1. \A s \in Statuses : Delivery!Rank(s) \in 0 .. 2
  BY DEF Statuses, Delivery!Rank
<1>2. \E s \in S : \A x \in S : Delivery!Rank(s) >= Delivery!Rank(x)
  <2>1. CASE "active" \in S
    BY <1>1, <2>1 DEF Statuses, Delivery!Rank
  <2>2. CASE "active" \notin S /\ "unsettled" \in S
    BY <1>1, <2>2 DEF Statuses, Delivery!Rank
  <2>3. CASE "active" \notin S /\ "unsettled" \notin S
    BY <1>1, <2>3 DEF Statuses, Delivery!Rank
  <2> QED BY <2>1, <2>2, <2>3
<1> QED BY <1>2 DEF Delivery!Liveliest

\* What declaring edges leaves: each is old or declared, and none is less lively
\* than any of its declarations.
LEMMA EdgesAdded ==
  ASSUME NEW declared, Delivery!AddEdges(declared),
         \A d \in declared : d[2] \in Statuses,
         \A k \in DOMAIN edges : edges[k] \in Statuses
  PROVE  /\ DOMAIN edges' = DOMAIN edges \cup {d[1] : d \in declared}
         /\ \A k \in DOMAIN edges' :
              /\ edges'[k] \in Statuses
              /\ \/ k \in DOMAIN edges /\ edges'[k] = edges[k]
                 \/ \E d \in declared : d[1] = k /\ edges'[k] = d[2]
         /\ \A d \in declared : Delivery!Rank(edges'[d[1]]) >= Delivery!Rank(d[2])
         /\ \A k \in DOMAIN edges : Delivery!Rank(edges'[k]) >= Delivery!Rank(edges[k])
<1> DEFINE of(k) == {d[2] : d \in {x \in declared : x[1] = k}}
                      \cup {edges[old] : old \in DOMAIN edges \cap {k}}
<1>1. edges' = [k \in DOMAIN edges \cup {d[1] : d \in declared} |-> Delivery!Liveliest(of(k))]
  BY DEF Delivery!AddEdges
<1>2. \A k : of(k) \in SUBSET Statuses
  OBVIOUS
<1>3. \A d \in declared : d[2] \in of(d[1])
  OBVIOUS
<1>4. \A k \in DOMAIN edges : edges[k] \in of(k)
  OBVIOUS
<1>5. \A k : \A s \in of(k) : \/ k \in DOMAIN edges /\ s = edges[k]
                              \/ \E d \in declared : d[1] = k /\ s = d[2]
  OBVIOUS
<1>6. \A k \in DOMAIN edges' : edges'[k] = Delivery!Liveliest(of(k)) /\ of(k) # {}
  BY <1>1, <1>3, <1>4
<1> HIDE DEF of
<1>7. \A k \in DOMAIN edges' :
        /\ edges'[k] \in of(k)
        /\ \A x \in of(k) : Delivery!Rank(edges'[k]) >= Delivery!Rank(x)
  BY <1>2, <1>6, LiveliestIs
<1>8. DOMAIN edges' = DOMAIN edges \cup {d[1] : d \in declared}
  BY <1>1
<1> QED BY <1>2, <1>3, <1>4, <1>5, <1>7, <1>8

\* What is let in AWS lets in, or has a form that is not judged.
LEMMA LetIsGranted ==
  ASSUME Given, NEW r \in Delivery!Receivers, NEW t, Delivery!Lets(policy[r], t)
  PROVE  Delivery!Grants(r, t) \/ Delivery!Unjudged(r, t)
<1>1. PICK st \in policy[r] : /\ st.allow /\ st.action # "no" /\ Delivery!Topical(st, t)
                              /\ st.who \in {"sns", "anyone", "notSns", "notOthers"}
  BY DEF Delivery!Lets
<1>2. st.action \in {"yes", "wild", "no", "butThis", "butOthers"}
  BY DEF Given, Delivery!Statements
<1>3. CASE st.action = "butThis" \/ st.who = "notSns" \/ ~st.met
  BY <1>1, <1>3 DEF Delivery!Unjudged
<1>4. CASE ~(st.action = "butThis" \/ st.who = "notSns" \/ ~st.met)
  BY <1>1, <1>2, <1>4 DEF Delivery!Grants, Delivery!Applies, Delivery!Unjudged
<1> QED BY <1>3, <1>4

\* What is refused AWS refuses, unless a condition names the topic second.
LEMMA RefusedIsDropped ==
  ASSUME NEW r, NEW t, Delivery!Refuses(r, t), Delivery!Grants(r, t)
  PROVE  \E st \in policy[r] : t \in st.besides
<1>1. PICK st \in policy[r] : st.allow /\ Delivery!Applies(st, t)
  BY DEF Delivery!Grants
<1>2. ~Delivery!Topical(st, t)
  BY <1>1 DEF Delivery!Applies, Delivery!Refuses, Delivery!Lets
<1> QED BY <1>1, <1>2 DEF Delivery!Applies

\* What a policy expects, it lets in.
LEMMA ExpectedIsLet ==
  ASSUME NEW r \in Delivery!Receivers, NEW x \in Delivery!Expects(r)
  PROVE  x \in Topics \X {r} /\ ~Delivery!Refuses(r, x[1])
<1>1. PICK st \in Delivery!SnsStatements(r) : st.source \in Topics /\ x = <<st.source, r>>
  BY DEF Delivery!Expects
<1>2. st \in policy[r] /\ st.allow /\ st.action \in {"yes", "wild"} /\ st.who \in {"sns", "anyone"}
  BY DEF Delivery!SnsStatements, Delivery!Names, Delivery!Allows
<1> QED BY <1>1, <1>2 DEF Delivery!Refuses, Delivery!Lets, Delivery!Topical

LEMMA DeliveryBegins == Delivery!Init => DeliveryInv
<1> SUFFICES ASSUME Delivery!Init PROVE DeliveryInv
  OBVIOUS
<1>1. Given
  <2>1. /\ Policies \subseteq [Topics \cup Delivery!Receivers -> SUBSET Delivery!Statements]
        /\ \A t \in Topics : Subscribing[t] \subseteq SUBSET Delivery!Subscriptions
    BY StateRulesAssumption DEF Delivery!DeliveryAssumption
  <2>2. subs \in [Topics -> SUBSET Delivery!Subscriptions]
    <3>1. /\ subs \in [Topics -> UNION {Subscribing[t] : t \in Topics}]
          /\ \A t \in Topics : subs[t] \in Subscribing[t]
      BY DEF Delivery!Init
    <3> QED BY <2>1, <3>1
  <2> QED BY <2>1, <2>2 DEF Given, Delivery!Init
<1>2. /\ \A t \in Topics : <<"sns", t>> \in todo
      /\ \A r \in Delivery!Receivers : <<"policy", r>> \in todo
      /\ <<"declared", "all">> \in todo /\ <<"resolve", "all">> \in todo
      /\ DOMAIN edges = {} /\ expected = {} /\ triggers = {} /\ findings = {}
  BY DEF Delivery!Init
<1>3. Drawn /\ Said /\ Applied /\ Shown
  BY <1>2 DEF Drawn, Said, Applied, Shown, Delivery!RulesAgree
<1> QED BY <1>1, <1>3 DEF DeliveryInv

\* What one subscription declares: only its own topic's edges, and an active one to a
\* receiver that does not refuse it.
LEMMA DeclaredBySub ==
  ASSUME NEW t, NEW sub, NEW d \in Delivery!Delivery(t, sub).edges
  PROVE  \E to : /\ d = <<<<t, to, "publish">>, Delivery!Status(sub)>>
                 /\ to \in Delivery!Receivers => to \in Delivery!Targets(sub)
                 /\ to \in Delivery!Receivers /\ ~sub.pending => ~Delivery!Refuses(to, t)
<1>1. \/ d = <<<<t, sub.to, "publish">>, Delivery!Status(sub)>> /\ Delivery!Delivers(t, sub)
      \/ /\ d = <<<<t, sub.dlq, "publish">>, Delivery!Status(sub)>>
         /\ Delivery!HasDlq(sub) /\ ~Delivery!Refuses(sub.dlq, t)
  BY DEF Delivery!Delivery, Delivery!When
<1>2. Delivery!Delivers(t, sub) /\ sub.to \in Delivery!Receivers =>
        Delivery!ToReceiver(sub) /\ (sub.pending \/ ~Delivery!Refuses(sub.to, t))
  BY StateRulesAssumption DEF Delivery!Delivers, Delivery!DeliveryAssumption
<1> QED BY <1>1, <1>2 DEF Delivery!Targets, Delivery!When

\* What one subscription has the rule report.
LEMMA SaidOfSub ==
  ASSUME NEW t, NEW sub, NEW f \in Delivery!Delivery(t, sub).findings
  PROVE  /\ f[1] \in {"blocked", "unresolved"} /\ f[2] = t
         /\ f[1] = "blocked" => f[3] \in Delivery!Receivers /\ Delivery!Refuses(f[3], t)
<1>1. \/ f = <<"blocked", t, sub.to>> /\ Delivery!Blocked(t, sub)
      \/ f = <<"blocked", t, sub.dlq>> /\ Delivery!HasDlq(sub) /\ Delivery!Refuses(sub.dlq, t)
      \/ f = <<"unresolved", t, sub.to>>
  BY DEF Delivery!Delivery, Delivery!When
<1>2. Delivery!Blocked(t, sub) => sub.to \in Delivery!Receivers /\ Delivery!Refuses(sub.to, t)
  BY DEF Delivery!Blocked, Delivery!ToReceiver
<1>3. Delivery!HasDlq(sub) => sub.dlq \in Delivery!Receivers
  BY DEF Delivery!HasDlq, Delivery!Receivers
<1> QED BY <1>1, <1>2, <1>3

\* A confirmed subscription of a receiver comes to an edge or a finding,
LEMMA ConfirmedIsSaid ==
  ASSUME NEW t, NEW sub, Delivery!ToReceiver(sub), ~sub.pending
  PROVE  \/ <<"blocked", t, sub.to>> \in Delivery!Delivery(t, sub).findings
         \/ <<<<t, sub.to, "publish">>, "active">> \in Delivery!Delivery(t, sub).edges
BY DEF Delivery!Delivery, Delivery!Delivers, Delivery!Blocked, Delivery!When, Delivery!Status

\* and so does whatever it leads to.
LEMMA TargetIsSaid ==
  ASSUME NEW t, NEW sub, NEW x \in Delivery!Targets(sub)
  PROVE  \/ <<"blocked", t, x>> \in Delivery!Delivery(t, sub).findings
         \/ <<<<t, x, "publish">>, Delivery!Status(sub)>> \in Delivery!Delivery(t, sub).edges
<1>1. CASE x = sub.to /\ Delivery!ToReceiver(sub)
  BY <1>1 DEF Delivery!Delivery, Delivery!Delivers, Delivery!Blocked, Delivery!When
<1>2. CASE x = sub.dlq /\ Delivery!HasDlq(sub)
  BY <1>2 DEF Delivery!Delivery, Delivery!When
<1> QED BY <1>1, <1>2 DEF Delivery!Targets, Delivery!When

\* A subscription without its attributes has no dead-letter queue, and is pending only
\* if it has no ARN.
LEMMA UnattributedIs ==
  ASSUME NEW sub \in Delivery!Subscriptions
  PROVE  LET bare == Delivery!Unattributed(sub)
         IN  /\ bare.to = sub.to /\ bare.here = sub.here /\ (bare.pending <=> ~sub.arn)
             /\ ~Delivery!HasDlq(bare)
<1>1. Delivery!NoQueue \notin Queues
  BY StateRulesAssumption DEF Delivery!DeliveryAssumption, Delivery!Receivers
<1> QED BY <1>1 DEF Delivery!Subscriptions, Delivery!Unattributed, Delivery!HasDlq

\* What a topic is read to have: subscriptions of its own, each with or without its
\* attributes; all of them and with all the attributes it has where nothing was denied.
LEMMA ListedIs ==
  ASSUME Given, NEW t \in Topics, NEW asked \in Delivery!ReadOf(t)
  PROVE  /\ \A got \in Delivery!Listed(asked) : \E sub \in subs[t] :
              got = sub \/ ((t \in blind \/ ~sub.arn) /\ got = Delivery!Unattributed(sub))
         /\ t \notin unread => \A sub \in subs[t] : \E got \in Delivery!Listed(asked) :
              got = sub \/ ((t \in blind \/ ~sub.arn) /\ got = Delivery!Unattributed(sub))
<1>1. PICK kept \in SUBSET subs[t], some \in SUBSET subs[t] :
        /\ t \notin unread => kept = subs[t]
        /\ t \notin blind => some = subs[t]
        /\ asked = [sub \in kept |-> sub \in some]
  BY DEF Delivery!ReadOf
<1>2. Delivery!Listed(asked) =
        {IF sub \in some /\ sub.arn THEN sub ELSE Delivery!Unattributed(sub) : sub \in kept}
  BY <1>1 DEF Delivery!Listed
<1> QED BY <1>1, <1>2

\* As lively as active is active.
LEMMA LivelyIsActive ==
  ASSUME NEW s \in Statuses, Delivery!Rank(s) >= Delivery!Rank("active")
  PROVE  s = "active"
BY DEF Statuses, Delivery!Rank

LEMMA SnsStep ==
  ASSUME DeliveryInv, NEW t \in Topics, Delivery!SnsRule(t)
  PROVE  DeliveryInv'
<1>0. Given /\ Drawn /\ Said /\ Applied /\ Shown
  BY DEF DeliveryInv
<1>a. PICK asked \in Delivery!ReadOf(t) :
        /\ Delivery!AddEdges(UNION {Delivery!Delivery(t, sub).edges : sub \in Delivery!Listed(asked)})
        /\ findings' = findings \cup Delivery!When(t \in unread, <<"unscanned", t, t>>)
             \cup UNION {Delivery!Delivery(t, sub).findings : sub \in Delivery!Listed(asked)}
  BY DEF Delivery!SnsRule
<1> DEFINE subsRead == Delivery!Listed(asked)
           declared == UNION {Delivery!Delivery(t, sub).edges : sub \in subsRead}
           told == UNION {Delivery!Delivery(t, sub).findings : sub \in subsRead}
<1>1. /\ <<"sns", t>> \in todo /\ todo' = todo \ {<<"sns", t>>}
      /\ Delivery!AddEdges(declared)
      /\ findings' = findings \cup Delivery!When(t \in unread, <<"unscanned", t, t>>) \cup told
      /\ triggers' = triggers \cup Delivery!When(Delivery!OutsidePublishes(t), t)
      /\ UNCHANGED <<subs, policy, unread, blind, expected>>
  BY <1>a DEF Delivery!SnsRule, Delivery!account
<1>b. \A got \in subsRead : \E sub \in subs[t] :
        /\ ~got.pending => Delivery!Taken(t, sub)
        /\ Delivery!Targets(got) \subseteq Delivery!Targets(sub)
  <2> SUFFICES ASSUME NEW got \in subsRead
               PROVE  \E sub \in subs[t] :
                        /\ ~got.pending => Delivery!Taken(t, sub)
                        /\ Delivery!Targets(got) \subseteq Delivery!Targets(sub)
    OBVIOUS
  <2>1. PICK sub \in subs[t] :
          got = sub \/ ((t \in blind \/ ~sub.arn) /\ got = Delivery!Unattributed(sub))
    BY <1>0, ListedIs
  <2>2. sub \in Delivery!Subscriptions
    BY <1>0 DEF Given
  <2>3. Delivery!Targets(Delivery!Unattributed(sub)) \subseteq Delivery!Targets(sub)
    BY <2>2, UnattributedIs DEF Delivery!Targets, Delivery!When, Delivery!ToReceiver
  <2> QED BY <2>1, <2>2, <2>3, UnattributedIs DEF Delivery!Taken
<1>c. ASSUME NEW sub \in subs[t], t \notin unread
      PROVE  \E got \in subsRead :
               /\ got.to = sub.to /\ got.here = sub.here /\ (~sub.pending => ~got.pending)
               /\ Delivery!Targets(Delivery!Seen(t, sub)) \subseteq Delivery!Targets(got)
  <2>1. PICK got \in subsRead :
          got = sub \/ ((t \in blind \/ ~sub.arn) /\ got = Delivery!Unattributed(sub))
    BY <1>0, <1>c, ListedIs
  <2>2. sub \in Delivery!Subscriptions
    BY <1>0 DEF Given
  <2>3. Delivery!Targets(Delivery!Unattributed(sub)) \subseteq Delivery!Targets(sub)
    BY <2>2, UnattributedIs DEF Delivery!Targets, Delivery!When, Delivery!ToReceiver
  <2> QED BY <2>1, <2>2, <2>3, UnattributedIs DEF Delivery!Seen, Delivery!Subscriptions
<1>2. \A d \in declared : \E sub \in subs[t] : \E to :
        /\ d[1] = <<t, to, "publish">> /\ d[2] \in {"active", "disabled"}
        /\ to \in Delivery!Receivers => to \in Delivery!Targets(sub)
        /\ to \in Delivery!Receivers /\ d[2] = "active" =>
             Delivery!Taken(t, sub) /\ ~Delivery!Refuses(to, t)
  <2> SUFFICES ASSUME NEW got \in subsRead, NEW d \in Delivery!Delivery(t, got).edges
               PROVE  \E sub \in subs[t] : \E to :
                 /\ d[1] = <<t, to, "publish">> /\ d[2] \in {"active", "disabled"}
                 /\ to \in Delivery!Receivers => to \in Delivery!Targets(sub)
                 /\ to \in Delivery!Receivers /\ d[2] = "active" =>
                      Delivery!Taken(t, sub) /\ ~Delivery!Refuses(to, t)
    OBVIOUS
  <2>1. PICK to : /\ d = <<<<t, to, "publish">>, Delivery!Status(got)>>
                  /\ to \in Delivery!Receivers => to \in Delivery!Targets(got)
                  /\ to \in Delivery!Receivers /\ ~got.pending => ~Delivery!Refuses(to, t)
    BY DeclaredBySub
  <2>2. PICK sub \in subs[t] : /\ ~got.pending => Delivery!Taken(t, sub)
                               /\ Delivery!Targets(got) \subseteq Delivery!Targets(sub)
    BY <1>b
  <2> QED BY <2>1, <2>2 DEF Delivery!Status
<1>3. \A f \in findings' \ findings :
        /\ f[1] \in {"blocked", "unresolved", "unscanned"} /\ f[2] = t
        /\ f[1] = "blocked" => f[3] \in Delivery!Receivers /\ Delivery!Refuses(f[3], t)
  BY <1>1, SaidOfSub DEF Delivery!When
<1>4. \A d \in declared : d[2] \in {"active", "disabled"}
  BY <1>2
<1>5. findings \subseteq findings' /\ told \subseteq findings'
      /\ (t \in unread => <<"unscanned", t, t>> \in findings')
  BY <1>1 DEF Delivery!When
<1>t. <<"resolve", "all">> \in todo /\ <<"resolve", "all">> \in todo'
  BY <1>0, <1>1 DEF Given
<1>6. ASSUME NEW sub \in subs[t], t \notin unread, Delivery!ToReceiver(sub), ~sub.pending
      PROVE  \/ <<"blocked", t, sub.to>> \in findings'
             \/ <<<<t, sub.to, "publish">>, "active">> \in declared
  <2>1. PICK got \in subsRead : got.to = sub.to /\ got.here = sub.here /\ ~got.pending
    BY <1>6, <1>c
  <2>2. Delivery!ToReceiver(got)
    BY <1>6, <2>1 DEF Delivery!ToReceiver
  <2> QED BY <1>5, <1>6, <2>1, <2>2, ConfirmedIsSaid
<1>e. ASSUME NEW sub \in subs[t], t \notin unread, NEW x \in Delivery!Targets(Delivery!Seen(t, sub))
      PROVE  \/ <<"blocked", t, x>> \in findings'
             \/ \E status : <<<<t, x, "publish">>, status>> \in declared
  <2>1. PICK got \in subsRead : Delivery!Targets(Delivery!Seen(t, sub)) \subseteq Delivery!Targets(got)
    BY <1>e, <1>c
  <2> QED BY <1>5, <1>e, <2>1, TargetIsSaid
<1> HIDE DEF declared, told, subsRead
<1>7. /\ DOMAIN edges' = DOMAIN edges \cup {d[1] : d \in declared}
      /\ \A k \in DOMAIN edges' :
           /\ edges'[k] \in Statuses
           /\ \/ k \in DOMAIN edges /\ edges'[k] = edges[k]
              \/ \E d \in declared : d[1] = k /\ edges'[k] = d[2]
      /\ \A d \in declared : Delivery!Rank(edges'[d[1]]) >= Delivery!Rank(d[2])
      /\ \A k \in DOMAIN edges : Delivery!Rank(edges'[k]) >= Delivery!Rank(edges[k])
  BY <1>0, <1>1, <1>4, EdgesAdded DEF Drawn, Statuses
<1>8. Given'
  BY <1>0, <1>1, <1>t DEF Given
<1>9. Drawn'
  <2>1. ASSUME NEW k \in DOMAIN edges', k[3] = "publish", k[1] \in Topics
        PROVE  <<"sns", k[1]>> \notin todo'
    BY <1>0, <1>1, <1>2, <1>7, <2>1 DEF Drawn
  <2>2. ASSUME NEW k \in DOMAIN edges', k[1] \in Topics, k[2] \in Delivery!Receivers,
               edges'[k] = "active"
        PROVE  /\ ~Delivery!Refuses(k[2], k[1])
               /\ \E sub \in subs[k[1]] : Delivery!Taken(k[1], sub) /\ k[2] \in Delivery!Targets(sub)
    <3>1. CASE k \in DOMAIN edges /\ edges'[k] = edges[k]
      BY <1>0, <2>2, <3>1 DEF Drawn
    <3>2. CASE \E d \in declared : d[1] = k /\ edges'[k] = d[2]
      <4>0. PICK sub \in subs[t] : \E to :
              /\ k = <<t, to, "publish">>
              /\ to \in Delivery!Receivers => to \in Delivery!Targets(sub)
              /\ to \in Delivery!Receivers => Delivery!Taken(t, sub) /\ ~Delivery!Refuses(to, t)
        BY <1>2, <2>2, <3>2
      <4>1. PICK to :
              /\ k = <<t, to, "publish">>
              /\ to \in Delivery!Receivers => to \in Delivery!Targets(sub)
              /\ to \in Delivery!Receivers => Delivery!Taken(t, sub) /\ ~Delivery!Refuses(to, t)
        BY <4>0
      <4>2. k[1] = t /\ k[2] = to
        BY <4>1
      <4> QED BY <2>2, <4>1, <4>2
    <3> QED BY <1>7, <3>1, <3>2
  <2> QED BY <1>1, <1>7, <2>1, <2>2
          DEF Drawn, Delivery!Taken, Delivery!Refuses, Delivery!Lets, Delivery!Topical,
              Delivery!Targets, Delivery!When,
              Delivery!ToReceiver, Delivery!HasDlq, Delivery!Receivers
<1>10. Said'
  <2>1. \A f \in findings' : f[1] = "blocked" =>
          f[3] \in Delivery!Receivers /\ Delivery!Refuses(f[3], f[2])
    BY <1>0, <1>3 DEF Said
  <2>2. \A f \in findings' : f[1] # "stale"
    BY <1>0, <1>3, <1>t DEF Said
  <2>3. triggers' \subseteq Topics \cup Delivery!Receivers
    BY <1>0, <1>1 DEF Said, Delivery!When
  <2> QED BY <1>0, <1>1, <1>3, <2>1, <2>2, <2>3
          DEF Said, Delivery!RulesAgree, Delivery!Refuses, Delivery!Lets, Delivery!Topical, Delivery!Receivers
<1>11. Applied'
  <2>1. <<"declared", "all">> \notin todo' =>
          \A m \in Mappings : m.here =>
            /\ <<m.from, m.to, "consume">> \in DOMAIN edges'
            /\ Delivery!Rank(edges'[<<m.from, m.to, "consume">>]) >= Delivery!Rank(Delivery!MappingStatus(m))
    <3>1. \A s \in Statuses : Delivery!Rank(s) \in 0 .. 2
      BY DEF Statuses, Delivery!Rank
    <3>2. \A m : Delivery!MappingStatus(m) \in Statuses
      BY DEF Statuses, Delivery!MappingStatus
    <3>3. \A k \in DOMAIN edges : edges[k] \in Statuses /\ edges'[k] \in Statuses
      BY <1>0, <1>7 DEF Drawn
    <3>4. ASSUME NEW m \in Mappings, m.here, <<"declared", "all">> \notin todo
          PROVE  /\ <<m.from, m.to, "consume">> \in DOMAIN edges'
                 /\ Delivery!Rank(edges'[<<m.from, m.to, "consume">>]) >= Delivery!Rank(Delivery!MappingStatus(m))
      <4> DEFINE k == <<m.from, m.to, "consume">>
      <4>1. k \in DOMAIN edges /\ Delivery!Rank(edges[k]) >= Delivery!Rank(Delivery!MappingStatus(m))
        BY <1>0, <3>4 DEF Applied
      <4>2. Delivery!Rank(edges'[k]) >= Delivery!Rank(edges[k])
        BY <1>7, <4>1
      <4>3. /\ Delivery!Rank(edges'[k]) \in 0 .. 2 /\ Delivery!Rank(edges[k]) \in 0 .. 2
            /\ Delivery!Rank(Delivery!MappingStatus(m)) \in 0 .. 2
        BY <3>1, <3>2, <3>3, <4>1
      <4> HIDE DEF k
      <4> QED BY <1>7, <4>1, <4>2, <4>3 DEF k
    <3> QED BY <1>1, <3>4
  <2>2. ASSUME NEW u \in Topics \ unread, <<"sns", u>> \notin todo',
               NEW sub \in subs[u], Delivery!ToReceiver(sub), ~sub.pending
        PROVE  \/ <<"blocked", u, sub.to>> \in findings'
               \/ <<u, sub.to, "publish">> \in DOMAIN edges' /\ edges'[<<u, sub.to, "publish">>] = "active"
    <3>1. CASE u = t
      <4>1. CASE <<<<t, sub.to, "publish">>, "active">> \in declared
        BY <1>7, <3>1, <4>1, LivelyIsActive
      <4> QED BY <1>6, <2>2, <3>1, <4>1
    <3>2. CASE u # t
      <4>1. <<"sns", u>> \notin todo
        BY <1>1, <2>2, <3>2
      <4>2. \/ <<"blocked", u, sub.to>> \in findings
            \/ <<u, sub.to, "publish">> \in DOMAIN edges /\ edges[<<u, sub.to, "publish">>] = "active"
        BY <1>0, <2>2, <4>1 DEF Applied
      <4> QED BY <1>5, <1>7, <4>2, LivelyIsActive
    <3> QED BY <3>1, <3>2
  <2>3. \A r \in Delivery!Receivers \ unread : <<"policy", r>> \notin todo' =>
          /\ Delivery!Expects(r) \subseteq expected
          /\ Delivery!OutsideSends(r) => r \in triggers'
    BY <1>0, <1>1 DEF Applied
  <2> QED BY <1>1, <1>t, <2>1, <2>2, <2>3
          DEF Applied, Delivery!ToReceiver, Delivery!Receivers, Delivery!Expects, Delivery!SnsStatements,
              Delivery!Names, Delivery!Allows, Delivery!OutsideSends, Delivery!Rank, Delivery!MappingStatus
<1>12. Shown'
  <2>1. ASSUME NEW u \in Topics \cap unread, <<"sns", u>> \notin todo'
        PROVE  <<"unscanned", u, u>> \in findings'
    <3>1. CASE u = t
      BY <1>5, <2>1, <3>1
    <3>2. CASE u # t
      BY <1>0, <1>1, <1>5, <2>1, <3>2 DEF Shown
    <3> QED BY <3>1, <3>2
  <2>2. ASSUME NEW u \in Topics \ unread, <<"sns", u>> \notin todo', NEW sub \in subs[u],
               NEW x \in Delivery!Targets(Delivery!Seen(u, sub))
        PROVE  <<u, x, "publish">> \in DOMAIN edges' \/ <<"blocked", u, x>> \in findings'
    <3>1. CASE u = t
      <4>1. \/ <<"blocked", t, x>> \in findings'
            \/ \E status : <<<<t, x, "publish">>, status>> \in declared
        BY <1>e, <2>2, <3>1
      <4>2. \A status : <<<<t, x, "publish">>, status>> \in declared =>
              <<t, x, "publish">> \in {d[1] : d \in declared}
        OBVIOUS
      <4> QED BY <1>7, <3>1, <4>1, <4>2
    <3>2. CASE u # t
      <4>1. <<"sns", u>> \notin todo
        BY <1>1, <2>2, <3>2
      <4>2. <<u, x, "publish">> \in DOMAIN edges \/ <<"blocked", u, x>> \in findings
        BY <1>0, <2>2, <4>1 DEF Shown
      <4> QED BY <1>5, <1>7, <4>2
    <3> QED BY <3>1, <3>2
  <2> QED BY <1>1, <2>1, <2>2
          DEF Shown, Delivery!Seen, Delivery!Unattributed, Delivery!Targets, Delivery!When,
              Delivery!ToReceiver,
              Delivery!HasDlq, Delivery!Receivers
<1> QED BY <1>8, <1>9, <1>10, <1>11, <1>12 DEF DeliveryInv

\* With the account, nothing that a rule of topics left is lost by another rule.
LEMMA ShownStays ==
  ASSUME Shown, UNCHANGED <<subs, unread, blind>>, findings \subseteq findings',
         \A k \in DOMAIN edges : k \in DOMAIN edges',
         \A t \in Topics : <<"sns", t>> \in todo' <=> <<"sns", t>> \in todo
  PROVE  Shown'
<1>1. ASSUME NEW t \in Topics \ unread, <<"sns", t>> \notin todo', NEW sub \in subs[t],
             NEW x \in Delivery!Targets(Delivery!Seen(t, sub))
      PROVE  <<t, x, "publish">> \in DOMAIN edges' \/ <<"blocked", t, x>> \in findings'
  BY <1>1 DEF Shown
<1>2. \A t \in Topics \cap unread : <<"sns", t>> \notin todo' => <<"unscanned", t, t>> \in findings'
  BY DEF Shown
<1> QED BY <1>1, <1>2
        DEF Shown, Delivery!Seen, Delivery!Unattributed, Delivery!Targets, Delivery!When, Delivery!ToReceiver,
            Delivery!HasDlq, Delivery!Receivers

\* A policy adds what it expects, which it lets in, and outside senders.
LEMMA PolicyStep ==
  ASSUME DeliveryInv, NEW r \in Delivery!Receivers, Delivery!PolicyRule(r)
  PROVE  DeliveryInv'
<1>0. Given /\ Drawn /\ Said /\ Applied /\ Shown
  BY DEF DeliveryInv
<1>1. /\ <<"policy", r>> \in todo /\ todo' = todo \ {<<"policy", r>>}
      /\ expected' = expected \cup (IF r \in unread THEN {} ELSE Delivery!Expects(r))
      /\ triggers' = triggers \cup Delivery!When(r \notin unread /\ Delivery!OutsideSends(r), r)
      /\ UNCHANGED <<subs, policy, unread, blind, edges, findings>>
  BY DEF Delivery!PolicyRule, Delivery!account
<1>t. <<"resolve", "all">> \in todo /\ <<"resolve", "all">> \in todo'
  BY <1>0, <1>1 DEF Given
<1>2. Given'
  BY <1>0, <1>1, <1>t DEF Given
<1>3. Drawn'
  BY <1>0, <1>1 DEF Drawn, Delivery!Taken, Delivery!Refuses, Delivery!Lets, Delivery!Topical,
         Delivery!Targets, Delivery!When, Delivery!ToReceiver, Delivery!HasDlq, Delivery!Receivers
<1>4. Said'
  <2>1. expected' \subseteq Topics \X Delivery!Receivers
    BY <1>0, <1>1, ExpectedIsLet DEF Said
  <2>2. \A x \in expected' : ~Delivery!Refuses(x[2], x[1])
    BY <1>0, <1>1, ExpectedIsLet DEF Said
  <2>3. triggers' \subseteq Topics \cup Delivery!Receivers
    BY <1>0, <1>1 DEF Said, Delivery!When
  <2>4. \A f \in findings : f[1] # "stale"
    BY <1>0, <1>t DEF Said
  <2> QED BY <1>0, <1>1, <2>1, <2>2, <2>3, <2>4
          DEF Said, Delivery!RulesAgree, Delivery!Refuses, Delivery!Lets, Delivery!Topical, Delivery!Receivers
<1>5. Applied'
  <2>1. ASSUME NEW q \in Delivery!Receivers \ unread, <<"policy", q>> \notin todo'
        PROVE  /\ Delivery!Expects(q) \subseteq expected'
               /\ Delivery!OutsideSends(q) => q \in triggers'
    <3>1. CASE q = r
      BY <1>1, <2>1, <3>1 DEF Delivery!When
    <3>2. CASE q # r
      BY <1>0, <1>1, <2>1, <3>2 DEF Applied
    <3> QED BY <3>1, <3>2
  <2>2. /\ <<"declared", "all">> \in todo' <=> <<"declared", "all">> \in todo
        /\ \A t \in Topics : <<"sns", t>> \in todo' <=> <<"sns", t>> \in todo
    BY <1>1
  <2> QED BY <1>0, <1>1, <1>t, <2>1, <2>2
          DEF Applied, Delivery!ToReceiver, Delivery!Receivers, Delivery!Expects, Delivery!SnsStatements,
              Delivery!Names, Delivery!Allows, Delivery!OutsideSends, Delivery!Rank, Delivery!MappingStatus
<1>6. Shown'
  BY <1>0, <1>1, ShownStays
<1> QED BY <1>2, <1>3, <1>4, <1>5, <1>6 DEF DeliveryInv

\* Declarations are no topic's edges, and only make an edge livelier.
LEMMA DeclaredStep ==
  ASSUME DeliveryInv, Delivery!DeclaredRule
  PROVE  DeliveryInv'
<1> DEFINE mapped == {<<<<m.from, m.to, "consume">>, Delivery!MappingStatus(m)>> :
                        m \in {x \in Mappings : x.here}}
           failed == {<<<<d.from, d.to, "publish">>, "active">> : d \in {x \in DeadLetters : x.here}}
           declared == mapped \cup failed
<1>0. Given /\ Drawn /\ Said /\ Applied /\ Shown
  BY DEF DeliveryInv
<1>1. /\ <<"declared", "all">> \in todo /\ todo' = todo \ {<<"declared", "all">>}
      /\ Delivery!AddEdges(declared)
      /\ findings' = findings
            \cup {<<"unresolved", m.to, m.from>> : m \in {x \in Mappings : ~x.here}}
            \cup {<<"unresolved", d.from, d.to>> : d \in {x \in DeadLetters : ~x.here}}
      /\ UNCHANGED <<subs, policy, unread, blind, expected, triggers>>
  BY DEF Delivery!DeclaredRule, Delivery!account
<1>2. \A m : Delivery!MappingStatus(m) \in Statuses
  BY DEF Statuses, Delivery!MappingStatus
<1>3. \A d \in declared : d[2] \in Statuses /\ d[1][1] \notin Topics
  <2>1. \A m \in Mappings \cup DeadLetters : m.from \notin Topics
    BY StateRulesAssumption DEF Delivery!DeliveryAssumption
  <2> QED BY <1>2, <2>1 DEF Statuses
<1>4. \A m \in Mappings : m.here =>
        <<<<m.from, m.to, "consume">>, Delivery!MappingStatus(m)>> \in declared
  OBVIOUS
<1> HIDE DEF declared
<1>t. <<"resolve", "all">> \in todo /\ <<"resolve", "all">> \in todo'
  BY <1>0, <1>1 DEF Given
<1>5. /\ \A k \in DOMAIN edges' :
           /\ edges'[k] \in Statuses
           /\ \/ k \in DOMAIN edges /\ edges'[k] = edges[k]
              \/ \E d \in declared : d[1] = k /\ edges'[k] = d[2]
      /\ \A d \in declared : /\ d[1] \in DOMAIN edges'
                             /\ Delivery!Rank(edges'[d[1]]) >= Delivery!Rank(d[2])
      /\ \A k \in DOMAIN edges : /\ k \in DOMAIN edges'
                                 /\ Delivery!Rank(edges'[k]) >= Delivery!Rank(edges[k])
  <2>1. /\ DOMAIN edges' = DOMAIN edges \cup {d[1] : d \in declared}
        /\ \A k \in DOMAIN edges' :
             /\ edges'[k] \in Statuses
             /\ \/ k \in DOMAIN edges /\ edges'[k] = edges[k]
                \/ \E d \in declared : d[1] = k /\ edges'[k] = d[2]
        /\ \A d \in declared : Delivery!Rank(edges'[d[1]]) >= Delivery!Rank(d[2])
        /\ \A k \in DOMAIN edges : Delivery!Rank(edges'[k]) >= Delivery!Rank(edges[k])
    BY <1>0, <1>1, <1>3, EdgesAdded DEF Drawn
  <2> QED BY <2>1
<1>6. \A k \in DOMAIN edges' : k[1] \in Topics => k \in DOMAIN edges /\ edges'[k] = edges[k]
  BY <1>3, <1>5
<1>7. Given'
  BY <1>0, <1>1, <1>t DEF Given
<1>8. Drawn'
  BY <1>0, <1>1, <1>5, <1>6 DEF Drawn, Delivery!Taken, Delivery!Refuses, Delivery!Lets, Delivery!Topical,
         Delivery!Targets, Delivery!When, Delivery!ToReceiver, Delivery!HasDlq, Delivery!Receivers
<1>9. Said'
  <2>1. \A f \in findings' \ findings : f[1] = "unresolved"
    BY <1>1
  <2>2. \A f \in findings' : f[1] # "stale"
    BY <1>0, <1>t, <2>1 DEF Said
  <2> QED BY <1>0, <1>1, <2>1, <2>2
          DEF Said, Delivery!RulesAgree, Delivery!Refuses, Delivery!Lets, Delivery!Topical, Delivery!Receivers
<1>10. Applied'
  <2>1. \A m \in Mappings : m.here =>
          /\ <<m.from, m.to, "consume">> \in DOMAIN edges'
          /\ Delivery!Rank(edges'[<<m.from, m.to, "consume">>]) >= Delivery!Rank(Delivery!MappingStatus(m))
    <3>1. \A d \in declared : /\ d[1] \in DOMAIN edges'
                              /\ Delivery!Rank(edges'[d[1]]) >= Delivery!Rank(d[2])
      BY <1>5
    <3> HIDE <1>5
    <3> QED BY <1>4, <3>1
  <2>2. ASSUME NEW u \in Topics \ unread, <<"sns", u>> \notin todo',
               NEW sub \in subs[u], Delivery!ToReceiver(sub), ~sub.pending
        PROVE  \/ <<"blocked", u, sub.to>> \in findings'
               \/ <<u, sub.to, "publish">> \in DOMAIN edges' /\ edges'[<<u, sub.to, "publish">>] = "active"
    <3>1. \/ <<"blocked", u, sub.to>> \in findings
          \/ <<u, sub.to, "publish">> \in DOMAIN edges /\ edges[<<u, sub.to, "publish">>] = "active"
      BY <1>0, <1>1, <2>2 DEF Applied
    <3> QED BY <1>1, <1>5, <3>1, LivelyIsActive
  <2>3. \A r \in Delivery!Receivers \ unread : <<"policy", r>> \notin todo' =>
          /\ Delivery!Expects(r) \subseteq expected
          /\ Delivery!OutsideSends(r) => r \in triggers
    BY <1>0, <1>1 DEF Applied
  <2> QED BY <1>1, <1>t, <2>1, <2>2, <2>3
          DEF Applied, Delivery!ToReceiver, Delivery!Receivers, Delivery!Expects, Delivery!SnsStatements,
              Delivery!Names, Delivery!Allows, Delivery!OutsideSends, Delivery!Rank, Delivery!MappingStatus
<1>11. Shown'
  <2>1. findings \subseteq findings' /\ \A k \in DOMAIN edges : k \in DOMAIN edges'
    BY <1>1, <1>5
  <2>2. \A t \in Topics : <<"sns", t>> \in todo' <=> <<"sns", t>> \in todo
    BY <1>1
  <2> QED BY <1>0, <1>1, <2>1, <2>2, ShownStays
<1> QED BY <1>7, <1>8, <1>9, <1>10, <1>11 DEF DeliveryInv

\* What nobody declared is stale, and is not refused: the policy lets it.
LEMMA ResolveStep ==
  ASSUME DeliveryInv, Delivery!Resolve
  PROVE  DeliveryInv'
<1> DEFINE missing == {y \in expected : <<y[1], y[2], "publish">> \notin DOMAIN edges}
           stale == {<<"stale", x[2], x[1]>> : x \in missing}
<1>0. Given /\ Drawn /\ Said /\ Applied /\ Shown
  BY DEF DeliveryInv
<1>1. /\ todo = {<<"resolve", "all">>} /\ todo' = {} /\ findings' = findings \cup stale
      /\ UNCHANGED <<subs, policy, unread, blind, edges, expected, triggers>>
  BY DEF Delivery!Resolve, Delivery!account
<1>2. \A f \in findings : f[1] # "stale"
  BY <1>0, <1>1 DEF Said
<1>3. \A f \in stale : /\ f[1] = "stale" /\ <<f[3], f[2], "publish">> \notin DOMAIN edges
                       /\ ~Delivery!Refuses(f[2], f[3]) /\ f[3] \in Topics
  <2>1. \A x \in missing : /\ x[1] \in Topics /\ ~Delivery!Refuses(x[2], x[1])
                            /\ <<x[1], x[2], "publish">> \notin DOMAIN edges
    BY <1>0 DEF Said
  <2> HIDE DEF missing
  <2> SUFFICES ASSUME NEW x \in missing, NEW f, f = <<"stale", x[2], x[1]>>
               PROVE  /\ f[1] = "stale" /\ <<f[3], f[2], "publish">> \notin DOMAIN edges
                      /\ ~Delivery!Refuses(f[2], f[3]) /\ f[3] \in Topics
    OBVIOUS
  <2>2. f[1] = "stale" /\ f[2] = x[2] /\ f[3] = x[1]
    OBVIOUS
  <2> QED BY <2>1, <2>2
<1>4. \A x \in missing : <<"stale", x[2], x[1]>> \in stale
  OBVIOUS
<1>5. \A x \in expected : \/ <<x[1], x[2], "publish">> \in DOMAIN edges
                          \/ <<"stale", x[2], x[1]>> \in findings'
  BY <1>1, <1>4
<1> HIDE DEF stale, missing
<1>6. Given'
  BY <1>0, <1>1 DEF Given
<1>7. Drawn'
  BY <1>0, <1>1 DEF Drawn, Delivery!Taken, Delivery!Refuses, Delivery!Lets, Delivery!Topical,
         Delivery!Targets, Delivery!When, Delivery!ToReceiver, Delivery!HasDlq, Delivery!Receivers
<1>8. Said'
  <2>1. ASSUME NEW f \in findings', f[1] = "stale"
        PROVE  /\ <<f[3], f[2], "publish">> \notin DOMAIN edges
               /\ <<"blocked", f[3], f[2]>> \notin findings'
    <3>1. f \in stale
      BY <1>1, <1>2, <2>1
    <3>2. <<"blocked", f[3], f[2]>> \notin findings
      BY <1>0, <1>3, <3>1 DEF Said
    <3> QED BY <1>1, <1>3, <3>1, <3>2
  <2>2. \A f \in findings' : f[1] = "blocked" => f \in findings
    BY <1>1, <1>3
  <2>3. \A f \in findings' : f[1] = "stale" => f[3] \in Topics
    BY <1>1, <1>2, <1>3
  <2> QED BY <1>0, <1>1, <1>3, <2>1, <2>2, <2>3
          DEF Said, Delivery!RulesAgree, Delivery!Refuses, Delivery!Lets, Delivery!Topical, Delivery!Receivers
<1>9. Applied'
  BY <1>0, <1>1, <1>5
     DEF Applied, Delivery!ToReceiver, Delivery!Receivers, Delivery!Expects, Delivery!SnsStatements,
         Delivery!Names, Delivery!Allows, Delivery!OutsideSends, Delivery!Rank, Delivery!MappingStatus
<1>10. Shown'
  <2>1. \A t : <<"sns", t>> \notin todo /\ <<"sns", t>> \notin todo'
    BY <1>1
  <2> QED BY <1>0, <1>1, <2>1, ShownStays
<1> QED BY <1>6, <1>7, <1>8, <1>9, <1>10 DEF DeliveryInv

LEMMA DeliveryStays ==
  ASSUME DeliveryInv, UNCHANGED <<subs, policy, unread, blind, todo, edges, expected, triggers, findings>>
  PROVE  DeliveryInv'
<1>1. Shown'
  BY ShownStays DEF DeliveryInv
<1>2. (Given /\ Drawn /\ Said /\ Applied)'
  BY DEF DeliveryInv, Given, Drawn, Said, Applied, Delivery!Taken, Delivery!RulesAgree,
         Delivery!Refuses, Delivery!Lets,
         Delivery!Topical, Delivery!Targets, Delivery!When, Delivery!HasDlq, Delivery!Receivers,
         Delivery!ToReceiver, Delivery!Expects, Delivery!SnsStatements, Delivery!Names, Delivery!Allows,
         Delivery!OutsideSends, Delivery!Rank, Delivery!MappingStatus
<1> QED BY <1>1, <1>2 DEF DeliveryInv

LEMMA DeliveryKept ==
  ASSUME DeliveryInv, Delivery!Next
  PROVE  DeliveryInv'
<1>1. CASE \E t \in Topics : Delivery!SnsRule(t)
  BY <1>1, SnsStep
<1>2. CASE \E r \in Delivery!Receivers : Delivery!PolicyRule(r)
  BY <1>2, PolicyStep
<1>3. CASE Delivery!DeclaredRule
  BY <1>3, DeclaredStep
<1>4. CASE Delivery!Resolve
  BY <1>4, ResolveStep
<1>5. CASE Delivery!Done
  BY <1>5, DeliveryStays DEF Delivery!Done, Delivery!vars
<1> QED BY <1>1, <1>2, <1>3, <1>4, <1>5 DEF Delivery!Next

\* The properties, from the invariant.
LEMMA DeliveryHolds ==
  ASSUME DeliveryInv
  PROVE  /\ Delivery!TypeOK /\ Delivery!BlockedIsRefused
         /\ Delivery!ActiveIsDelivered /\ Delivery!LiveliestWins
         /\ Delivery!GrantIsSaid /\ Delivery!StaleIsTrue /\ Delivery!RulesAgree
<1>0. Given /\ Drawn /\ Said /\ Applied /\ Shown
  BY DEF DeliveryInv
<1>1. Delivery!TypeOK
  BY <1>0 DEF Drawn, Said, Statuses, Delivery!TypeOK
<1>2. Delivery!LiveliestWins
  <2> SUFFICES ASSUME todo = {} PROVE Delivery!LiveliestWins!2
    BY DEF Delivery!LiveliestWins
  <2>1. \A m \in Mappings : m.here =>
          Delivery!Rank(edges[<<m.from, m.to, "consume">>]) >= Delivery!Rank(Delivery!MappingStatus(m))
    BY <1>0 DEF Applied
  <2>2. \A t \in Topics \ unread : \A sub \in {x \in subs[t] : Delivery!ToReceiver(x) /\ ~x.pending} :
          \/ <<"blocked", t, sub.to>> \in findings
          \/ edges[<<t, sub.to, "publish">>] = "active"
    BY <1>0 DEF Applied
  <2> QED BY <2>1, <2>2
<1>3. Delivery!GrantIsSaid
  <2> SUFFICES ASSUME todo = {}, NEW r \in Delivery!Receivers \ unread, NEW st \in policy[r],
                      st.allow, st.action # "no", ~Delivery!Unsaid(r, st)
               PROVE  \/ r \in triggers
                      \/ <<st.source, r, "publish">> \in DOMAIN edges
                      \/ /\ <<"stale", r, st.source>> \in findings
                         /\ st.source \in unread => <<"unscanned", st.source, st.source>> \in findings
    BY DEF Delivery!GrantIsSaid
  <2>1. /\ st.action \in {"yes", "wild", "no", "butThis", "butOthers"}
        /\ st.who \in {"sns", "anyone", "service", "other", "role", "notSns", "notOthers"}
        /\ st.source \in Topics \cup Delivery!Outside \cup {Delivery!NoSource}
    BY <1>0 DEF Given, Delivery!Statements
  <2>2. /\ Delivery!Expects(r) \subseteq expected
        /\ Delivery!OutsideSends(r) => r \in triggers
    BY <1>0 DEF Applied
  <2>3. Delivery!Allows(r, st) /\ st.who \in {"sns", "anyone", "service", "other"}
    BY <2>1 DEF Delivery!Allows, Delivery!Unsaid, Delivery!Receivers
  <2>4. CASE st \in Delivery!SnsStatements(r) /\ st.source \in Topics
    <3>1. <<st.source, r>> \in expected
      BY <2>2, <2>4 DEF Delivery!Expects
    <3>2. \/ <<st.source, r, "publish">> \in DOMAIN edges
          \/ <<"stale", r, st.source>> \in findings
      BY <1>0, <3>1 DEF Applied
    <3>3. st.source \in unread => <<"unscanned", st.source, st.source>> \in findings
      BY <1>0, <2>4 DEF Shown
    <3> QED BY <3>2, <3>3
  <2>5. CASE st \in Delivery!SnsStatements(r) /\ st.source \notin Topics
    BY <2>2, <2>5 DEF Delivery!OutsideSends
  <2>6. CASE st \notin Delivery!SnsStatements(r)
    <3>1. /\ st.who # "sns"
          /\ st.who = "anyone" => r \in Functions \/ st.source = Delivery!NoSource
      BY <2>1, <2>3, <2>6 DEF Delivery!SnsStatements, Delivery!Names
    <3>2. st.who = "anyone" => r \in Functions \/ ~st.own
      BY <3>1 DEF Delivery!Unsaid, Delivery!Receivers
    <3> QED BY <2>2, <2>3, <2>6, <3>1, <3>2 DEF Delivery!OutsideSends
  <2> QED BY <2>4, <2>5, <2>6
<1>4. Delivery!BlockedIsRefused
  BY <1>0, RefusedIsDropped DEF Said, Delivery!BlockedIsRefused
<1>5. Delivery!ActiveIsDelivered
  <2> SUFFICES ASSUME NEW k \in DOMAIN edges, k[1] \in Topics, k[2] \in Delivery!Receivers, edges[k] = "active"
               PROVE  /\ k[2] \in unread \/ Delivery!Grants(k[2], k[1]) \/ Delivery!Unjudged(k[2], k[1])
                      /\ \E sub \in subs[k[1]] : Delivery!Taken(k[1], sub) /\ k[2] \in Delivery!Targets(sub)
    BY DEF Delivery!ActiveIsDelivered
  <2>1. /\ ~Delivery!Refuses(k[2], k[1])
        /\ \E sub \in subs[k[1]] : Delivery!Taken(k[1], sub) /\ k[2] \in Delivery!Targets(sub)
    BY <1>0 DEF Drawn
  <2>2. k[2] \notin unread => Delivery!Lets(policy[k[2]], k[1])
    BY <2>1 DEF Delivery!Refuses
  <2> QED BY <1>0, <2>1, <2>2, LetIsGranted
<1>6. Delivery!StaleIsTrue
  <2> SUFFICES ASSUME NEW f \in findings, f[1] = "stale"
               PROVE  IF f[3] \in unread THEN <<"unscanned", f[3], f[3]>> \in findings
                      ELSE \A sub \in subs[f[3]] : f[2] \notin Delivery!Targets(Delivery!Seen(f[3], sub))
    BY DEF Delivery!StaleIsTrue
  <2>1. /\ todo = {} /\ f[3] \in Topics /\ <<f[3], f[2], "publish">> \notin DOMAIN edges
        /\ <<"blocked", f[3], f[2]>> \notin findings
    BY <1>0 DEF Said, Delivery!RulesAgree
  <2>2. <<"sns", f[3]>> \notin todo
    BY <2>1
  <2>3. CASE f[3] \in unread
    BY <1>0, <2>1, <2>2, <2>3 DEF Shown
  <2>4. CASE f[3] \notin unread
    BY <1>0, <2>1, <2>2, <2>4 DEF Shown
  <2> QED BY <2>3, <2>4
<1> QED BY <1>0, <1>1, <1>2, <1>3, <1>4, <1>5, <1>6 DEF Said

TopicsInv == family = "topics" => DeliveryInv

LEMMA TopicsAlways == Spec => []TopicsInv
<1>1. Init => TopicsInv
  BY DeliveryBegins DEF Init, TopicsInv
<1>2. TopicsInv /\ [Next]_vars => TopicsInv'
  <2> SUFFICES ASSUME TopicsInv, [Next]_vars, family' = "topics"
               PROVE  DeliveryInv'
    BY DEF TopicsInv
  <2>1. CASE family = "topics" /\ Delivery!Next
    BY <2>1, DeliveryKept DEF TopicsInv
  <2>2. CASE UNCHANGED vars
    BY <2>2, DeliveryStays DEF TopicsInv, vars, ofTopics
  <2> QED BY <2>1, <2>2 DEF Next
<1> QED BY <1>1, <1>2, PTL DEF Spec

(* For all topics, receivers and policies: a delivery said to be active    *)
(* leads where a subscription leads that is confirmed, or taken for it as  *)
(* its attributes were not read, through a policy that was not read, that  *)
(* AWS takes for a grant, or that has a form nobody judges (a Deny, a      *)
(* NotAction or NotPrincipal that names the send, a condition on another   *)
(* key); one said to be refused is one AWS refuses, though a policy was    *)
(* not read, unless a condition names the topic second; and the liveliest  *)
(* of several declarations decides what an edge carries.                   *)
THEOREM DeliveryTrue == Spec => []DeliveryIsTrue
<1>1. TopicsInv => DeliveryIsTrue
  BY DeliveryHolds DEF TopicsInv, DeliveryIsTrue
<1> QED BY <1>1, TopicsAlways, PTL

(* For all of them: whoever a policy lets send has an edge, a stale        *)
(* permission or an entrypoint, but for a NotAction or NotPrincipal, a     *)
(* role, the account's own services and a function's wildcard action; a    *)
(* stale permission is one no subscription uses, or stands beside the word *)
(* that the topic's were not read (dead-letter queues whose attributes     *)
(* nobody read apart); and the sender's rule never contradicts the         *)
(* receiver's.                                                             *)
THEOREM GrantSaid == Spec => []GrantIsSaid
<1>1. TopicsInv => GrantIsSaid
  BY DeliveryHolds DEF TopicsInv, GrantIsSaid
<1> QED BY <1>1, TopicsAlways, PTL

----------------------------------------------------------------------------
(* APIs.  What an integration comes to, form by form: one edge to what it  *)
(* names, one finding, or nothing for what API Gateway answers itself and  *)
(* for a target the definition does not name.                              *)

LEMMA LocalComes ==
  ASSUME NEW from, NEW kind, NEW ref, ref # <<>>
  PROVE  \/ ref[2] /\ Apis!Local(from, kind, ref) = [edges |-> {<<from, kind, ref[1]>>}, findings |-> {}]
         \/ Apis!Local(from, kind, ref) = [edges |-> {}, findings |-> {<<from, ref[1]>>}]
<1>1. CASE ~ref[2]
  BY <1>1 DEF Apis!Local, Apis!Unresolved
<1>2. CASE ref[2]
  <2>1. Apis!Local(from, kind, ref) = Apis!Edge(from, kind, ref[1])
    BY <1>2 DEF Apis!Local
  <2> QED BY <1>2, <2>1 DEF Apis!Edge
<1> QED BY <1>1, <1>2

LEMMA FunctionComes ==
  ASSUME NEW r, NEW ref, NEW d
  PROVE  /\ Apis!LinkIntegration(r, "lambda", ref, d) = Apis!Local(r, "invoke", ref)
         /\ Apis!LinkIntegration(r, "sqs", ref, d) = Apis!Local(r, "publish", ref)
         /\ Apis!LinkIntegration(r, "mock", ref, d) = Apis!Nothing
         /\ Apis!LinkIntegration(r, "garbled", ref, d) = Apis!Nothing
BY DEF Apis!LinkIntegration

LEMMA HostComes ==
  ASSUME NEW r, NEW service, service \notin {"mock", "garbled", "lambda", "sqs"}, NEW ref, NEW d
  PROVE  LET comes == Apis!LinkIntegration(r, service, ref, d)
         IN  \/ /\ service = "http"
                /\ comes = [edges |-> {<<r, "external", d.on>>}, findings |-> {}]
             \/ /\ d.vpc \/ d.here
                /\ comes = [edges |-> {<<r, "http", d.on>>}, findings |-> {}]
             \/ comes = [edges |-> {}, findings |-> {<<r, d.on>>}]
<1>1. CASE service = "http" /\ ~d.vpc
  BY <1>1 DEF Apis!LinkIntegration
<1>2. CASE service = "http" /\ d.vpc /\ d.on \in ApiNodes
  BY <1>2 DEF Apis!LinkIntegration, Apis!Edge
<1>3. CASE service = "listener" /\ d.on \in ApiNodes /\ d.here
  BY <1>3 DEF Apis!LinkIntegration, Apis!Edge
<1>4. CASE ~(service = "http" /\ ~d.vpc) /\ ~(service = "http" /\ d.vpc /\ d.on \in ApiNodes)
           /\ ~(service = "listener" /\ d.on \in ApiNodes /\ d.here)
  BY <1>4 DEF Apis!LinkIntegration, Apis!Unresolved
<1> QED BY <1>1, <1>2, <1>3, <1>4

\* An edge of route r to what d names: of the account, or left for the internet.
TrueOf(r, d, e) ==
  \/ e = <<r, "external", d.on>>
  \/ d.here /\ \E kind \in {"invoke", "publish", "http"} : e = <<r, kind, d.on>>

\* One reference is told truly, or is of a form that comes to nothing.
Honest(r, service, ref, d, comes) ==
  /\ \A e \in comes.edges : TrueOf(r, d, e)
  /\ \A f \in comes.findings : f = <<r, d.on>>
  /\ \/ service \in {"mock", "garbled"} \/ (service \in {"lambda", "sqs"} /\ ref = <<>>)
     \/ comes.edges # {} \/ comes.findings # {}

LEMMA IntegrationComes ==
  ASSUME NEW r, NEW service, NEW d, d.here \in BOOLEAN, d.vpc => d.here,
         NEW ref, ref \in {<<>>, <<d.on, d.here>>}
  PROVE  Honest(r, service, ref, d, Apis!LinkIntegration(r, service, ref, d))
<1> DEFINE comes == Apis!LinkIntegration(r, service, ref, d)
<1> SUFFICES Honest(r, service, ref, d, comes)
  OBVIOUS
<1> USE DEF Honest
<1>1. CASE \/ service \in {"mock", "garbled"}
           \/ service \in {"lambda", "sqs"} /\ ref = <<>>
  <2>1. \A kind : ref = <<>> => Apis!Local(r, kind, ref) = Apis!Nothing
    BY DEF Apis!Local
  <2>2. comes = Apis!Nothing
    BY <1>1, <2>1, FunctionComes
  <2> HIDE DEF comes
  <2>3. comes.edges = {} /\ comes.findings = {}
    BY <2>2 DEF Apis!Nothing
  <2> QED BY <1>1, <2>3 DEF comes
<1>2. CASE \E e : TrueOf(r, d, e) /\ comes = [edges |-> {e}, findings |-> {}]
  <2>1. PICK e : TrueOf(r, d, e) /\ comes = [edges |-> {e}, findings |-> {}]
    BY <1>2
  <2> HIDE DEF comes
  <2>2. comes.edges = {e} /\ comes.findings = {}
    BY <2>1
  <2> QED BY <2>1, <2>2 DEF comes
<1>3. CASE comes = [edges |-> {}, findings |-> {<<r, d.on>>}]
  <2> HIDE DEF comes
  <2>1. comes.edges = {} /\ comes.findings = {<<r, d.on>>}
    BY <1>3
  <2> QED BY <2>1 DEF comes
<1>4. CASE service \in {"lambda", "sqs"} /\ ref # <<>>
  <2>1. ref = <<d.on, d.here>> /\ ref[1] = d.on /\ ref[2] = d.here
    BY <1>4
  <2>2. PICK kind \in {"invoke", "publish"} : comes = Apis!Local(r, kind, ref)
    BY <1>4, FunctionComes
  <2> HIDE DEF comes
  <2>3. \/ d.here /\ comes = [edges |-> {<<r, kind, d.on>>}, findings |-> {}]
        \/ comes = [edges |-> {}, findings |-> {<<r, d.on>>}]
    <3>1. ref # <<>>
      BY <1>4
    <3> HIDE <1>4, <2>1
    <3>2. \/ ref[2] /\ comes = [edges |-> {<<r, kind, ref[1]>>}, findings |-> {}]
          \/ comes = [edges |-> {}, findings |-> {<<r, ref[1]>>}]
      BY <2>2, <3>1, LocalComes
    <3> QED BY <2>1, <3>2
  <2>4. d.here => TrueOf(r, d, <<r, kind, d.on>>)
    BY DEF TrueOf
  <2> QED BY <1>2, <1>3, <2>3, <2>4 DEF comes
<1>5. CASE service \notin {"mock", "garbled", "lambda", "sqs"}
  <2>1. \/ comes = [edges |-> {<<r, "external", d.on>>}, findings |-> {}]
        \/ d.here /\ comes = [edges |-> {<<r, "http", d.on>>}, findings |-> {}]
        \/ comes = [edges |-> {}, findings |-> {<<r, d.on>>}]
    BY <1>5, HostComes
  <2>2. /\ TrueOf(r, d, <<r, "external", d.on>>)
        /\ d.here => TrueOf(r, d, <<r, "http", d.on>>)
    BY DEF TrueOf
  <2> HIDE DEF comes
  <2> QED BY <1>2, <1>3, <2>1, <2>2 DEF comes
<1> QED BY <1>1, <1>4, <1>5

\* An edge of route r to what its integration really calls.
RouteEdgeTrue(r, e) ==
  /\ e[1] = r
  /\ \E here \in (IF e[2] = "external" THEN {FALSE, TRUE} ELSE {TRUE}) :
       <<e[3], here>> \in Apis!Calls(Definition[routes[r]])

\* The types of a definition.
LEMMA DefinitionIs ==
  ASSUME NEW i \in Apis!Integrations
  PROVE  /\ DOMAIN Definition[i] = {"kind", "on", "here", "vpc"}
         /\ Definition[i].kind \in Apis!Kinds /\ Definition[i].here \in BOOLEAN
         /\ Definition[i].vpc => Definition[i].here
BY StateRulesAssumption DEF Apis!ApiAssumption

\* What one stage s of a templated definition d comes to, sd being d with its value.
StageHonest(r, d, s, sd, comes) ==
  /\ sd.on = ValueOf[s] /\ sd.here = d.here
  /\ \A e \in comes.edges : TrueOf(r, sd, e)
  /\ \A f \in comes.findings : f = <<r, ValueOf[s]>>
  /\ d.kind \in {"invoke", "function", "http"} => comes.edges # {} \/ comes.findings # {}

LEMMA StageComes ==
  ASSUME NEW r, NEW i \in Apis!Integrations, NEW s
  PROVE  StageHonest(r, Definition[i], s, Apis!Substituted(Definition[i], s),
                     Apis!LinkStage(r, Definition[i], s))
<1> DEFINE d == Definition[i]
           sd == Apis!Substituted(d, s)
           comes == Apis!LinkStage(r, d, s)
<1>1. /\ DOMAIN d = {"kind", "on", "here", "vpc"}
      /\ d.kind \in Apis!Kinds /\ d.here \in BOOLEAN
      /\ d.vpc => d.here
  BY DefinitionIs
<1>2. sd = [d EXCEPT !.on = ValueOf[s]]
  BY DEF Apis!Substituted
<1> HIDE DEF d
<1>3. sd.on = ValueOf[s] /\ sd.here = d.here /\ sd.kind = d.kind /\ sd.vpc = d.vpc
  BY <1>1, <1>2
<1>4. Apis!Target(sd) \in {<<>>, <<sd.on, sd.here>>}
  BY DEF Apis!Target
<1>5. d.kind \in {"invoke", "function"} => Apis!Target(sd) # <<>>
  BY <1>3 DEF Apis!Target
<1>6. PICK service \in {"http", "garbled", "lambda"}, ref \in {<<>>, Apis!Target(sd)} :
        /\ comes = Apis!LinkIntegration(r, service, ref, sd)
        /\ d.kind = "http" => service = "http"
        /\ d.kind \in {"invoke", "function"} => service = "lambda" /\ ref = Apis!Target(sd)
  <2>1. comes = IF d.kind \in {"http", "garbled"} THEN Apis!LinkIntegration(r, d.kind, <<>>, sd)
                ELSE Apis!LinkIntegration(r, "lambda",
                       IF d.kind \in {"invoke", "function"} THEN Apis!Target(sd) ELSE <<>>, sd)
    BY DEF Apis!LinkStage, d
  <2> HIDE DEF sd, comes
  <2>2. CASE d.kind \in {"http", "garbled"}
    BY <2>1, <2>2
  <2>3. CASE d.kind \in {"invoke", "function"}
    BY <2>1, <2>3
  <2>4. CASE d.kind \notin {"http", "garbled", "invoke", "function"}
    BY <2>1, <2>4
  <2> QED BY <2>2, <2>3, <2>4
<1> HIDE DEF sd, comes
<1>7. /\ \A e \in comes.edges : TrueOf(r, sd, e)
      /\ \A f \in comes.findings : f = <<r, sd.on>>
      /\ \/ service \in {"mock", "garbled"} \/ (service \in {"lambda", "sqs"} /\ ref = <<>>)
         \/ comes.edges # {} \/ comes.findings # {}
  <2>1. sd.here \in BOOLEAN /\ (sd.vpc => sd.here)
    BY <1>1, <1>3
  <2>2. ref \in {<<>>, <<sd.on, sd.here>>}
    BY <1>4
  <2>3. Honest(r, service, ref, sd, comes)
    BY <1>6, <2>1, <2>2, IntegrationComes
  <2> QED BY <2>3 DEF Honest
<1>8. d.kind \in {"invoke", "function", "http"} => comes.edges # {} \/ comes.findings # {}
  BY <1>5, <1>6, <1>7
<1>9. StageHonest(r, d, s, sd, comes)
  BY <1>3, <1>7, <1>8 DEF StageHonest
<1> QED BY <1>9 DEF d, sd, comes

LEMMA EdgeCalls ==
  ASSUME NEW r, NEW d, d.here \in BOOLEAN, NEW e, TrueOf(r, d, e),
         <<d.on, d.here>> \in Apis!Calls(Definition[routes[r]])
  PROVE  RouteEdgeTrue(r, e)
<1>1. CASE e = <<r, "external", d.on>>
  <2>1. e[1] = r /\ e[2] = "external" /\ e[3] = d.on
    BY <1>1
  <2> QED BY <2>1 DEF RouteEdgeTrue
<1>2. CASE d.here /\ \E kind \in {"invoke", "publish", "http"} : e = <<r, kind, d.on>>
  <2>1. e[1] = r /\ e[2] # "external" /\ e[3] = d.on /\ d.here = TRUE
    BY <1>2
  <2> QED BY <2>1 DEF RouteEdgeTrue
<1> QED BY <1>1, <1>2 DEF TrueOf

\* What a route comes to: true edges, and a word on it, and on each of its stages,
\* unless it is of a form named.
RouteHonest(r, comes) ==
  LET d == Definition[routes[r]]
  IN  /\ \A e \in comes.edges : RouteEdgeTrue(r, e)
      /\ \A f \in comes.findings : f[1] = r
      /\ routes[r] # Apis!NoIntegration /\ d.kind # "mock" /\ ~Apis!Silent(d) =>
           \E x \in comes.edges \cup comes.findings : x[1] = r
      /\ (/\ routes[r] # Apis!NoIntegration /\ Apis!Templated(d)
          /\ d.kind \in {"invoke", "function", "http"}) =>
           \A s \in {v \in stages \ Secret : ValueOf[v] # Apis!NoName} :
             \E x \in comes.edges \cup comes.findings : x[1] = r /\ x[Len(x)] = ValueOf[s]

LEMMA OnStages ==
  ASSUME NEW r, NEW d, NEW x, TrueOf(r, d, x) \/ x = <<r, d.on>>
  PROVE  x[1] = r /\ x[Len(x)] = d.on
<1>1. \/ x = <<r, d.on>>
      \/ \E kind : x = <<r, kind, d.on>>
  BY DEF TrueOf
<1> QED BY <1>1

LEMMA PlainComes ==
  ASSUME NEW r, NEW i \in Apis!Integrations, routes[r] = i, ~Apis!Templated(Definition[i])
  PROVE  RouteHonest(r, Apis!LinkIntegration(r, Apis!Service(Definition[i]),
                                             Apis!Target(Definition[i]), Definition[i]))
<1> DEFINE d == Definition[i]
           comes == Apis!LinkIntegration(r, Apis!Service(d), Apis!Target(d), d)
<1>1. /\ d.kind \in Apis!Kinds /\ d.here \in BOOLEAN
      /\ d.vpc => d.here
  BY DefinitionIs
<1>2. Apis!Target(d) \in {<<>>, <<d.on, d.here>>}
  BY DEF Apis!Target
<1>3. <<d.on, d.here>> \in Apis!Calls(d)
  BY DEF Apis!Calls
<1>4. /\ d.kind \in {"invoke", "function"} => Apis!Service(d) = "lambda"
      /\ d.kind \in {"path", "send"} => Apis!Service(d) = "sqs"
      /\ d.kind \in {"mock", "http", "garbled", "listener", "cloudmap", "states"} =>
           Apis!Service(d) = d.kind
  BY DEF Apis!Service
<1>5. d.kind \in {"invoke", "function", "path"} => Apis!Target(d) # <<>>
  BY DEF Apis!Target
<1>6. d.kind \notin {"mock", "send", "garbled"} =>
        /\ Apis!Service(d) \notin {"mock", "garbled"}
        /\ Apis!Service(d) \in {"lambda", "sqs"} => Apis!Target(d) # <<>>
  BY <1>1, <1>4, <1>5 DEF Apis!Kinds
<1>7. Honest(r, Apis!Service(d), Apis!Target(d), d, comes)
  BY <1>1, <1>2, IntegrationComes
<1> HIDE DEF comes, d
<1>8. /\ \A e \in comes.edges : TrueOf(r, d, e)
      /\ \A f \in comes.findings : f = <<r, d.on>>
      /\ d.kind \notin {"mock", "send", "garbled"} => comes.edges # {} \/ comes.findings # {}
  BY <1>6, <1>7 DEF Honest
<1>9. \A e \in comes.edges : RouteEdgeTrue(r, e)
  <2>1. <<d.on, d.here>> \in Apis!Calls(Definition[routes[r]])
    BY <1>3 DEF d
  <2> QED BY <1>1, <1>8, <2>1, EdgeCalls
<1>10. \A x \in comes.edges \cup comes.findings : x[1] = r
  BY <1>8, OnStages
<1>11. ~Apis!Silent(d) => d.kind \notin {"send", "garbled"}
  BY DEF Apis!Silent
<1>12. ~Apis!Templated(d)
  BY DEF d
<1>13. RouteHonest(r, comes)
  BY <1>8, <1>9, <1>10, <1>11, <1>12 DEF RouteHonest, d
<1> QED BY <1>13 DEF comes, d

LEMMA TemplatedComes ==
  ASSUME NEW r, NEW i \in Apis!Integrations, routes[r] = i, Apis!Templated(Definition[i]),
         stages \subseteq Stages
  PROVE  RouteHonest(r, Apis!LinkTemplated(r, Definition[i]))
<1> DEFINE d == Definition[i]
           comes == Apis!LinkTemplated(r, d)
           by == {s \in Stages : Apis!Resolves(d, s)}
           each == {Apis!LinkStage(r, d, s) : s \in by}
<1>1. /\ d.kind \in Apis!Kinds /\ d.here \in BOOLEAN
      /\ d.vpc => d.here
  BY DefinitionIs
<1>2. \A s \in Stages : <<ValueOf[s], d.here>> \in Apis!Calls(d)
  BY DEF Apis!Calls
<1>3. ASSUME NEW s \in Stages
      PROVE  LET come == Apis!LinkStage(r, d, s)
             IN  /\ \A e \in come.edges : RouteEdgeTrue(r, e) /\ e[Len(e)] = ValueOf[s]
                 /\ \A f \in come.findings : f[1] = r /\ f[Len(f)] = ValueOf[s]
                 /\ d.kind \in {"invoke", "function", "http"} =>
                      come.edges # {} \/ come.findings # {}
  <2> DEFINE come == Apis!LinkStage(r, d, s)
             sd == Apis!Substituted(d, s)
  <2>1. /\ sd.on = ValueOf[s] /\ sd.here = d.here
        /\ \A e \in come.edges : TrueOf(r, sd, e)
        /\ \A f \in come.findings : f = <<r, ValueOf[s]>>
        /\ d.kind \in {"invoke", "function", "http"} =>
             come.edges # {} \/ come.findings # {}
    <3>1. StageHonest(r, d, s, sd, come)
      BY StageComes
    <3> HIDE DEF d, sd, come
    <3> QED BY <3>1 DEF StageHonest
  <2>2. <<sd.on, sd.here>> \in Apis!Calls(Definition[routes[r]]) /\ sd.here \in BOOLEAN
    BY <1>1, <1>2, <2>1
  <2> HIDE DEF come, sd, d
  <2>3. \A e \in come.edges : RouteEdgeTrue(r, e) /\ e[Len(e)] = ValueOf[s]
    BY <2>1, <2>2, EdgeCalls, OnStages
  <2> QED BY <2>1, <2>3 DEF come
<1>4. CASE by = {}
  <2>1. comes = [edges |-> {}, findings |-> {<<r, d.on>>}]
    BY <1>4 DEF Apis!LinkTemplated, Apis!Unresolved
  <2>2. ~(d.kind \in {"invoke", "function", "http"} /\
            \E s \in {v \in stages \ Secret : ValueOf[v] # Apis!NoName} : TRUE)
    BY <1>4 DEF Apis!Resolves, Apis!Substitutes
  <2> HIDE DEF comes, d
  <2>3. comes.edges = {} /\ comes.findings = {<<r, d.on>>}
    BY <2>1
  <2>4. RouteHonest(r, comes)
    BY <2>2, <2>3 DEF RouteHonest, d
  <2> QED BY <2>4 DEF comes, d
<1>5. CASE by # {}
  <2>1. comes = [edges |-> UNION {c.edges : c \in each}, findings |-> UNION {c.findings : c \in each}]
    BY <1>5 DEF Apis!LinkTemplated, Apis!Drawn
  <2>2. \A s \in by : s \in Stages /\ Apis!LinkStage(r, d, s) \in each
    OBVIOUS
  <2>3. \A c \in each : \E s \in by : c = Apis!LinkStage(r, d, s)
    OBVIOUS
  <2>4. d.kind \in {"invoke", "function", "http"} =>
          \A s \in {v \in stages \ Secret : ValueOf[v] # Apis!NoName} : s \in by
    BY DEF Apis!Resolves, Apis!Substitutes
  <2>5. d.kind # "mock" /\ ~Apis!Silent(d) => d.kind \in {"invoke", "function", "http"}
    BY <1>1, <1>5 DEF Apis!Resolves, Apis!Silent, Apis!Kinds
  <2> HIDE DEF comes, by, each
  <2>6. /\ comes.edges = UNION {c.edges : c \in each}
        /\ comes.findings = UNION {c.findings : c \in each}
    BY <2>1
  <2>7. \A e \in comes.edges : RouteEdgeTrue(r, e)
    BY <1>3, <2>2, <2>3, <2>6
  <2>8. \A f \in comes.findings : f[1] = r
    BY <1>3, <2>2, <2>3, <2>6
  <2>9. ASSUME NEW s \in by, d.kind \in {"invoke", "function", "http"}
        PROVE  \E x \in comes.edges \cup comes.findings : x[1] = r /\ x[Len(x)] = ValueOf[s]
    <3>1. PICK x \in Apis!LinkStage(r, d, s).edges \cup Apis!LinkStage(r, d, s).findings : TRUE
      BY <1>3, <2>2, <2>9
    <3>2. x \in comes.edges \cup comes.findings
      BY <2>2, <2>6, <3>1
    <3>3. x[1] = r /\ x[Len(x)] = ValueOf[s]
      BY <1>3, <2>2, <3>1 DEF RouteEdgeTrue
    <3> QED BY <3>2, <3>3
  <2>10. RouteHonest(r, comes)
    <3> HIDE DEF d
    <3>1. \E s : s \in by
      BY <1>5
    <3> QED BY <2>4, <2>5, <2>7, <2>8, <2>9, <3>1 DEF RouteHonest, d
  <2> QED BY <2>10 DEF comes
<1> QED BY <1>4, <1>5

LEMMA LinkComes ==
  ASSUME Apis!TypeOK, NEW r \in DOMAIN routes
  PROVE  RouteHonest(r, Apis!Link(r))
<1>1. CASE routes[r] = Apis!NoIntegration
  <2>1. Apis!Link(r) = [edges |-> {}, findings |-> {}]
    BY <1>1 DEF Apis!Link, Apis!Nothing
  <2> QED BY <1>1, <2>1 DEF RouteHonest
<1>2. CASE routes[r] # Apis!NoIntegration
  <2>1. routes[r] \in Apis!Integrations /\ stages \subseteq Stages
    BY <1>2 DEF Apis!TypeOK
  <2>2. CASE Apis!Templated(Definition[routes[r]])
    BY <1>2, <2>1, <2>2, TemplatedComes DEF Apis!Link
  <2>3. CASE ~Apis!Templated(Definition[routes[r]])
    BY <1>2, <2>1, <2>3, PlainComes DEF Apis!Link
  <2> QED BY <2>2, <2>3
<1> QED BY <1>1, <1>2

\* What EdgeIsTrue says of one edge.
TrueEdge(e) ==
  IF e[1] \in Authorizers
  THEN Guards[e[1]] # {} /\ AuthorizerCalls[e[1]] = <<e[3], TRUE>>
  ELSE RouteEdgeTrue(e[1], e)

LEMMA EdgesTrue == Apis!EdgeIsTrue <=> \A e \in edges : TrueEdge(e)
BY DEF Apis!EdgeIsTrue, TrueEdge, RouteEdgeTrue

\* A route the linker went through is told, from what was drawn so far.
Told(r) ==
  LET d == Definition[routes[r]]
  IN  /\ routes[r] # Apis!NoIntegration /\ d.kind # "mock" /\ ~Apis!Silent(d) =>
           \E x \in edges \cup findings : x[1] = r
      /\ (/\ routes[r] # Apis!NoIntegration /\ Apis!Templated(d)
          /\ d.kind \in {"invoke", "function", "http"}) =>
           \A s \in {v \in stages \ Secret : ValueOf[v] # Apis!NoName} :
             \E x \in edges \cup findings : x[1] = r /\ x[Len(x)] = ValueOf[s]

\* Nothing is linked before all was read, and what was read stays until it is.
ApisInv ==
  /\ Apis!TypeOK
  /\ at \notin {"link", "done"} => linked = {}
  /\ at \in {"integrations", "routes"} => DOMAIN routes = {}
  /\ \A r \in DOMAIN routes :
       routes[r] = Apis!NoIntegration => r \in late \/ "GetIntegrations" \in warned
  /\ Apis!EdgeIsTrue
  /\ \A r \in linked \cap DOMAIN routes : Told(r)
  /\ at = "done" => DOMAIN routes \cup auths \subseteq linked

LEMMA ApisBegin == Apis!Init => ApisInv
<1> SUFFICES ASSUME Apis!Init PROVE ApisInv
  OBVIOUS
<1>1. Apis!TypeOK
  BY StateRulesAssumption DEF Apis!Init, Apis!TypeOK, Apis!ApiAssumption
<1> QED BY <1>1 DEF Apis!Init, ApisInv, Apis!EdgeIsTrue

\* Before anything is linked there is no edge and no finding.
LEMMA OnlyOfLinked ==
  ASSUME Apis!TypeOK
  PROVE  /\ \A x \in edges \cup findings : x[1] \in linked
         /\ linked = {} => edges = {} /\ findings = {}
<1>1. {e[1] : e \in edges} \cup {f[1] : f \in findings} \subseteq linked
  BY DEF Apis!TypeOK
<1>2. \A x \in edges \cup findings :
        x[1] \in {e[1] : e \in edges} \cup {f[1] : f \in findings}
  OBVIOUS
<1> QED BY <1>1, <1>2

\* A step that reads, while nothing is linked.
LEMMA ReadingKept ==
  ASSUME ApisInv, at \notin {"link", "done"}, at' # "done", UNCHANGED <<linked, edges, findings>>,
         Apis!TypeOK', at' \in {"integrations", "routes"} => DOMAIN routes' = {},
         \A r \in DOMAIN routes' :
            routes'[r] = Apis!NoIntegration => r \in late' \/ "GetIntegrations" \in warned'
  PROVE  ApisInv'
<1>1. linked' = {} /\ linked = {}
  BY DEF ApisInv
<1>2. edges' = {} /\ findings' = {}
  BY <1>1, OnlyOfLinked DEF ApisInv
<1> QED BY <1>1, <1>2 DEF ApisInv, Apis!EdgeIsTrue, Apis!NoIntegration

LEMMA ApiReads ==
  ASSUME ApisInv,
         \/ \E i \in Apis!Integrations : Apis!Create(i)
         \/ \E got \in {{}, FirstPage \cap exists, exists} : Apis!GetIntegrations(got)
         \/ \E r \in Routes, i \in Apis!Integrations : Apis!Retarget(r, i)
         \/ \E got \in SUBSET Routes : Apis!GetRoutes(got)
         \/ \E got \in SUBSET Stages : Apis!GetStages(got)
         \/ \E got \in SUBSET Authorizers : Apis!GetAuthorizers(got)
  PROVE  ApisInv'
<1>0. /\ Apis!TypeOK
      /\ at \in {"integrations", "routes"} => DOMAIN routes = {}
      /\ \A r \in DOMAIN routes :
           routes[r] = Apis!NoIntegration => r \in late \/ "GetIntegrations" \in warned
  BY DEF ApisInv
<1> USE DEF Apis!collected, Apis!drawn, Apis!Lists
<1>1. ASSUME NEW i \in Apis!Integrations, Apis!Create(i) PROVE ApisInv'
  <2>1. Apis!TypeOK'
    BY <1>0, <1>1 DEF Apis!TypeOK, Apis!Create, Apis!NoIntegration
  <2> QED BY <1>0, <1>1, <2>1, ReadingKept DEF Apis!Create, Apis!NoIntegration
<1>2. ASSUME NEW got \in {{}, FirstPage \cap exists, exists}, Apis!GetIntegrations(got) PROVE ApisInv'
  <2>1. Apis!TypeOK'
    BY <1>0, <1>2 DEF Apis!TypeOK, Apis!GetIntegrations, Apis!NoIntegration
  <2> QED BY <1>0, <1>2, <2>1, ReadingKept DEF Apis!GetIntegrations, Apis!NoIntegration
<1>3. ASSUME NEW r \in Routes, NEW i \in Apis!Integrations, Apis!Retarget(r, i) PROVE ApisInv'
  <2>1. Apis!TypeOK'
    BY <1>0, <1>3 DEF Apis!TypeOK, Apis!Retarget, Apis!NoIntegration
  <2> QED BY <1>0, <1>3, <2>1, ReadingKept DEF Apis!Retarget, Apis!NoIntegration
<1>4. ASSUME NEW got \in SUBSET Routes, Apis!GetRoutes(got) PROVE ApisInv'
  <2>1. /\ routes' = [r \in got |-> Apis!IntegrationOf(r)]
        /\ \A r \in got : Apis!IntegrationOf(r) \in byID \cup {Apis!NoIntegration}
    BY <1>4 DEF Apis!GetRoutes, Apis!IntegrationOf
  <2>2. Apis!TypeOK'
    <3>1. linked' = {} /\ edges' = {} /\ findings' = {}
      BY <1>0, <1>4, OnlyOfLinked DEF Apis!GetRoutes, ApisInv
    <3> QED BY <1>0, <1>4, <2>1, <3>1 DEF Apis!TypeOK, Apis!GetRoutes, Apis!NoIntegration
  <2>3. \A r \in got : Apis!IntegrationOf(r) = Apis!NoIntegration => target[r] \notin byID
    <3>1. \A r \in got : target[r] \in Apis!Integrations
      BY <1>0 DEF Apis!TypeOK
    <3>2. Apis!NoIntegration \notin Apis!Integrations
      BY StateRulesAssumption DEF Apis!ApiAssumption
    <3> QED BY <3>1, <3>2 DEF Apis!IntegrationOf
  <2>4. \A r \in DOMAIN routes' :
          routes'[r] = Apis!NoIntegration => r \in late' \/ "GetIntegrations" \in warned'
    BY <1>4, <2>1, <2>3 DEF Apis!GetRoutes
  <2> QED BY <1>4, <2>2, <2>4, ReadingKept DEF Apis!GetRoutes
<1>5. ASSUME NEW got \in SUBSET Stages, Apis!GetStages(got) PROVE ApisInv'
  <2>1. Apis!TypeOK'
    BY <1>0, <1>5 DEF Apis!TypeOK, Apis!GetStages, Apis!NoIntegration
  <2> QED BY <1>0, <1>5, <2>1, ReadingKept DEF Apis!GetStages, Apis!NoIntegration
<1>6. ASSUME NEW got \in SUBSET Authorizers, Apis!GetAuthorizers(got) PROVE ApisInv'
  <2>1. linked = {}
    BY <1>6 DEF ApisInv, Apis!GetAuthorizers
  <2>2. Apis!TypeOK'
    BY <1>0, <1>6, <2>1 DEF Apis!TypeOK, Apis!GetAuthorizers, Apis!NoIntegration
  <2> QED BY <1>0, <1>6, <2>2, ReadingKept DEF Apis!GetAuthorizers, Apis!NoIntegration
<1> QED BY <1>1, <1>2, <1>3, <1>4, <1>5, <1>6
\* Linking a route draws what its integration honestly comes to.
LEMMA RouteStep ==
  ASSUME ApisInv, NEW r \in Routes, Apis!LinkRoute(r)
  PROVE  ApisInv'
<1> DEFINE comes == Apis!Link(r)
<1>0. /\ at = "link" /\ r \in DOMAIN routes \ linked
      /\ linked' = linked \cup {r}
      /\ edges' = edges \cup comes.edges
      /\ findings' = findings \cup comes.findings
      /\ UNCHANGED <<exists, target, at, byID, routes, stages, auths, warned, late>>
  BY DEF Apis!LinkRoute, Apis!Draw, Apis!collected
<1>1. Apis!TypeOK
  BY DEF ApisInv
<1>2. RouteHonest(r, comes)
  BY <1>0, <1>1, LinkComes
<1> HIDE DEF comes
<1>3. /\ \A e \in comes.edges : RouteEdgeTrue(r, e)
      /\ \A f \in comes.findings : f[1] = r
  BY <1>2 DEF RouteHonest
<1>4. Apis!TypeOK'
  <2>1. \A x \in edges' \cup findings' : x[1] \in linked'
    BY <1>0, <1>1, <1>3, OnlyOfLinked DEF RouteEdgeTrue
  <2>2. {e[1] : e \in edges'} \cup {f[1] : f \in findings'} \subseteq linked'
    BY <2>1
  <2> QED BY <1>0, <1>1, <2>2 DEF Apis!TypeOK, Apis!NoIntegration
<1>5. Apis!EdgeIsTrue'
  <2>1. r \notin Authorizers
    BY <1>0, <1>1, StateRulesAssumption DEF Apis!TypeOK, Apis!ApiAssumption
  <2>2. \A e \in comes.edges : TrueEdge(e)
    BY <1>3, <2>1 DEF RouteEdgeTrue, TrueEdge
  <2>3. \A e \in edges : TrueEdge(e)
    BY EdgesTrue DEF ApisInv
  <2>4. \A e : TrueEdge(e)' <=> TrueEdge(e)
    BY <1>0 DEF TrueEdge, RouteEdgeTrue
  <2>5. (\A e \in edges : TrueEdge(e))'
    BY <1>0, <2>2, <2>3, <2>4
  <2> QED BY <2>5, EdgesTrue, PTL
<1>6. ASSUME NEW q \in linked' \cap DOMAIN routes PROVE Told(q)'
  <2>1. CASE q = r
    BY <1>0, <1>2, <2>1 DEF Told, RouteHonest, Apis!NoIntegration, Apis!Silent, Apis!Templated
  <2>2. CASE q # r
    BY <1>0, <1>6, <2>2 DEF ApisInv, Told, Apis!NoIntegration, Apis!Silent, Apis!Templated
  <2> QED BY <2>1, <2>2
<1> QED BY <1>0, <1>4, <1>5, <1>6 DEF ApisInv, Apis!NoIntegration

\* Linking an authorizer draws the call of one that guards a route that was read.
LEMMA AuthorizerStep ==
  ASSUME ApisInv, NEW a \in Authorizers, Apis!LinkAuthorizer(a)
  PROVE  ApisInv'
<1> DEFINE comes == IF Guards[a] \cap DOMAIN routes = {} THEN Apis!Nothing
                    ELSE Apis!Local(a, "invoke", AuthorizerCalls[a])
<1>0. /\ at = "link" /\ a \in auths \ linked
      /\ linked' = linked \cup {a}
      /\ edges' = edges \cup comes.edges
      /\ findings' = findings \cup comes.findings
      /\ UNCHANGED <<exists, target, at, byID, routes, stages, auths, warned, late>>
  BY DEF Apis!LinkAuthorizer, Apis!Draw, Apis!collected
<1>1. Apis!TypeOK
  BY DEF ApisInv
<1>2. /\ \A e \in comes.edges : e[1] = a /\ Guards[a] # {} /\ AuthorizerCalls[a] = <<e[3], TRUE>>
      /\ \A f \in comes.findings : f[1] = a
  <2>1. CASE comes = Apis!Nothing
    <3> HIDE DEF comes
    <3>1. comes.edges = {} /\ comes.findings = {}
      BY <2>1 DEF Apis!Nothing
    <3> QED BY <3>1
  <2>2. CASE comes # Apis!Nothing
    <3>1. /\ Guards[a] # {} /\ comes = Apis!Local(a, "invoke", AuthorizerCalls[a])
      BY <2>2
    <3>2. AuthorizerCalls[a] # <<>>
      BY <2>2, <3>1 DEF Apis!Local
    <3>3. AuthorizerCalls[a] \in STRING \X BOOLEAN
      BY <3>2, StateRulesAssumption DEF Apis!ApiAssumption
    <3>4. PICK ref \in STRING \X BOOLEAN : AuthorizerCalls[a] = ref
      BY <3>3
    <3>5. ref = <<ref[1], ref[2]>> /\ ref[2] \in BOOLEAN
      BY <3>4
    <3>6. \/ ref[2] /\ comes = [edges |-> {<<a, "invoke", ref[1]>>}, findings |-> {}]
          \/ comes = [edges |-> {}, findings |-> {<<a, ref[1]>>}]
      <4>1. ref # <<>> /\ comes = Apis!Local(a, "invoke", ref)
        BY <3>1, <3>2, <3>4
      <4> HIDE DEF comes
      <4> HIDE <3>1, <3>2, <3>3, <3>4, <3>5
      <4> QED BY <4>1, LocalComes
    <3> HIDE DEF comes
    <3>7. CASE ref[2] /\ comes = [edges |-> {<<a, "invoke", ref[1]>>}, findings |-> {}]
      <4>1. comes.edges = {<<a, "invoke", ref[1]>>} /\ comes.findings = {}
        BY <3>7
      <4>2. ref[2] = TRUE
        BY <3>5, <3>7
      <4>3. AuthorizerCalls[a] = <<ref[1], TRUE>>
        BY <3>4, <3>5, <4>2
      <4> HIDE <3>4, <3>5
      <4>4. \A e \in comes.edges : e[1] = a /\ e[3] = ref[1]
        BY <4>1
      <4> QED BY <3>1, <4>1, <4>3, <4>4
    <3>8. CASE comes = [edges |-> {}, findings |-> {<<a, ref[1]>>}]
      <4>1. comes.edges = {} /\ comes.findings = {<<a, ref[1]>>}
        BY <3>8
      <4> QED BY <4>1
    <3> QED BY <3>6, <3>7, <3>8
  <2> QED BY <2>1, <2>2
<1> HIDE DEF comes
<1>4. Apis!TypeOK'
  <2>1. \A x \in edges' \cup findings' : x[1] \in linked'
    BY <1>0, <1>1, <1>2, OnlyOfLinked
  <2>2. {e[1] : e \in edges'} \cup {f[1] : f \in findings'} \subseteq linked'
    BY <2>1
  <2> QED BY <1>0, <1>1, <2>2 DEF Apis!TypeOK, Apis!NoIntegration
<1>5. Apis!EdgeIsTrue'
  <2>1. \A e \in comes.edges : TrueEdge(e)
    BY <1>2 DEF TrueEdge
  <2>2. \A e \in edges : TrueEdge(e)
    BY EdgesTrue DEF ApisInv
  <2>3. \A e : TrueEdge(e)' <=> TrueEdge(e)
    BY <1>0 DEF TrueEdge, RouteEdgeTrue
  <2>4. (\A e \in edges : TrueEdge(e))'
    BY <1>0, <2>1, <2>2, <2>3
  <2> QED BY <2>4, EdgesTrue, PTL
<1>6. ASSUME NEW q \in linked' \cap DOMAIN routes PROVE Told(q)'
  <2>1. q # a
    BY <1>1, StateRulesAssumption DEF Apis!TypeOK, Apis!ApiAssumption
  <2> QED BY <1>0, <1>6, <2>1 DEF ApisInv, Told, Apis!NoIntegration, Apis!Silent, Apis!Templated
<1> QED BY <1>0, <1>4, <1>5, <1>6 DEF ApisInv, Apis!NoIntegration

\* What was read and drawn stays, at the end of the link too.
LEMMA DrawnStays ==
  ASSUME ApisInv,
         UNCHANGED <<exists, target, byID, routes, stages, auths, warned, late, linked, edges, findings>>,
         at' = at \/ (at = "link" /\ at' = "done" /\ DOMAIN routes \cup auths \subseteq linked)
  PROVE  ApisInv'
<1>1. Apis!TypeOK'
  BY DEF ApisInv, Apis!TypeOK, Apis!NoIntegration
<1>2. Apis!EdgeIsTrue'
  <2>1. \A e \in edges : TrueEdge(e)
    BY EdgesTrue DEF ApisInv
  <2>2. \A e : TrueEdge(e)' <=> TrueEdge(e)
    BY DEF TrueEdge, RouteEdgeTrue
  <2>3. (\A e \in edges : TrueEdge(e))'
    BY <2>1, <2>2
  <2> QED BY <2>3, EdgesTrue, PTL
<1>3. ASSUME NEW r \in linked \cap DOMAIN routes PROVE Told(r)'
  BY <1>3 DEF ApisInv, Told, Apis!NoIntegration, Apis!Silent, Apis!Templated
<1> QED BY <1>1, <1>2, <1>3 DEF ApisInv, Apis!NoIntegration

LEMMA ApisStay ==
  ASSUME ApisInv, UNCHANGED <<at, edges, findings, ofApis>>
  PROVE  ApisInv'
<1>1. UNCHANGED <<at, edges, findings, exists, target, byID, routes, stages, auths, warned, late, linked>>
  BY DEF ofApis
<1> QED BY <1>1, DrawnStays

LEMMA ApisKept ==
  ASSUME ApisInv, Apis!Next
  PROVE  ApisInv'
<1>1. CASE \/ \E i \in Apis!Integrations : Apis!Create(i)
           \/ \E got \in {{}, FirstPage \cap exists, exists} : Apis!GetIntegrations(got)
           \/ \E r \in Routes, i \in Apis!Integrations : Apis!Retarget(r, i)
           \/ \E got \in SUBSET Routes : Apis!GetRoutes(got)
           \/ \E got \in SUBSET Stages : Apis!GetStages(got)
           \/ \E got \in SUBSET Authorizers : Apis!GetAuthorizers(got)
  BY <1>1, ApiReads
<1>2. CASE \E r \in Routes : Apis!LinkRoute(r)
  BY <1>2, RouteStep
<1>3. CASE \E a \in Authorizers : Apis!LinkAuthorizer(a)
  BY <1>3, AuthorizerStep
<1>4. CASE Apis!Finish
  BY <1>4, DrawnStays DEF Apis!Finish, Apis!collected, Apis!drawn
<1>5. CASE Apis!Done
  BY <1>5, ApisStay DEF Apis!Done, Apis!vars, ofApis
<1> QED BY <1>1, <1>2, <1>3, <1>4, <1>5 DEF Apis!Next

LEMMA ApisHold ==
  ASSUME ApisInv
  PROVE  Apis!TypeOK /\ Apis!EdgeIsTrue /\ Apis!RouteAccounted /\ Apis!EveryStageCounts
<1>1. ASSUME at = "done", NEW r \in DOMAIN routes
      PROVE  /\ Told(r)
             /\ routes[r] = Apis!NoIntegration => r \in late \/ "GetIntegrations" \in warned
  BY <1>1 DEF ApisInv
<1>2. Apis!RouteAccounted
  BY <1>1 DEF Apis!RouteAccounted, Told
<1>3. Apis!EveryStageCounts
  BY <1>1 DEF Apis!EveryStageCounts, Told
<1> QED BY <1>2, <1>3 DEF ApisInv

OfApis == family = "apis" => ApisInv

LEMMA ApisAlways == Spec => []OfApis
<1>1. Init => OfApis
  BY ApisBegin DEF Init, OfApis
<1>2. OfApis /\ [Next]_vars => OfApis'
  <2> SUFFICES ASSUME OfApis, [Next]_vars, family' = "apis"
               PROVE  ApisInv'
    BY DEF OfApis
  <2>1. CASE family = "apis" /\ Apis!Next
    BY <2>1, ApisKept DEF OfApis
  <2>2. CASE UNCHANGED vars
    BY <2>2, ApisStay DEF OfApis, vars
  <2> QED BY <2>1, <2>2 DEF Next
<1> QED BY <1>1, <1>2, PTL DEF Spec

(* For all routes, integrations, stages and authorizers, however the       *)
(* collector's reads and the API's changes fall: an edge is a call         *)
(* requests can really make, of this account.                              *)
THEOREM EdgeTrue == Spec => []EdgeIsTrue
<1>1. OfApis => EdgeIsTrue
  BY ApisHold DEF OfApis, EdgeIsTrue
<1> QED BY <1>1, ApisAlways, PTL

(* For all of them: a route comes to an edge or a finding, but for one     *)
(* API Gateway answers itself, one whose integration came too late or was  *)
(* denied, and the forms the linker drops without a word: a queue the      *)
(* definition does not name, a URL that does not parse, a templated URI of *)
(* a service other than Lambda that some stage completes; and every        *)
(* readable stage of a templated function or URL comes to one too.         *)
THEOREM RoutesAccounted == Spec => []RouteAccounted
<1>1. OfApis => RouteAccounted
  BY ApisHold DEF OfApis, RouteAccounted
<1> QED BY <1>1, ApisAlways, PTL

----------------------------------------------------------------------------
(* Balancers.  What the listings gave is kept, in order, until it is       *)
(* emitted, unless a denied page cut them short;                           *)

\* A page of the listing was denied.
CutShort(listing) == <<listing, "">> \in warnings

Listed ==
  /\ at \in {"balancers", "groups", "tags", "listeners"} /\ page \in Nat \ {0}
  /\ lbs \in Seq(Balancers!SeqToSet(BalancerPages)) /\ tgs \in Seq(Balancers!Groups)
  /\ at # "listeners" =>
       open = <<>> /\ rules = {} /\ read = {} /\ invLbs = {} /\ invTgs = {} /\ result # "nil"
  /\ at = "tags" => page = 1
  /\ at = "balancers" => \A k \in DOMAIN BalancerPages :
       k < page /\ TypeOf[BalancerPages[k]] # "gateway" => BalancerPages[k] \in Balancers!SeqToSet(lbs)
  /\ at = "groups" => \A k \in DOMAIN GroupPages :
       k < page => GroupPages[k] \in Balancers!SeqToSet(tgs)
  /\ at # "balancers" => \/ CutShort("balancers")
                         \/ \A b \in Balancers!SeqToSet(BalancerPages) : TypeOf[b] # "gateway" =>
                              b \in Balancers!SeqToSet(lbs) \/ \E e \in invLbs : e.id = b
  /\ at \in {"tags", "listeners"} =>
       \/ CutShort("groups")
       \/ \A t \in Balancers!Groups : t \in Balancers!SeqToSet(tgs) \/ \E g \in invTgs : g.id = t

\* of the balancer being read, a listener is still open or read with all it sends to,
\* unless its rules were denied;
Sends(b, l) ==
  DefaultTo[l] \cup (IF TypeOf[b] = "application"
                     THEN UNION {UNION RulePages[l][k] : k \in DOMAIN RulePages[l]} ELSE {})
Known(b, l, listeners) ==
  \E x \in listeners : x.id = l /\ (<<"rules", l>> \in warnings \/ Sends(b, l) \subseteq UNION x.rules)
OfBalancer(b, listeners) ==
  \A x \in listeners : x.id \in Balancers!SeqToSet(ListenersOf[b]) /\ x.rules # {}

Reading ==
  /\ open \in Seq(DOMAIN DefaultTo)
  /\ lbs = <<>> => open = <<>> /\ read = {}
  /\ at = "listeners" /\ open = <<>> => rules = {} /\ page = 1
  /\ open # <<>> =>
       IF TypeOf[Head(lbs)] = "application"
       THEN \A k \in DOMAIN RulePages[Head(open)] : k < page => RulePages[Head(open)][k] \subseteq rules
       ELSE rules = {}
  /\ at = "listeners" /\ lbs # <<>> =>
       /\ Balancers!SeqToSet(open) \subseteq Balancers!SeqToSet(ListenersOf[Head(lbs)])
       /\ OfBalancer(Head(lbs), read)
       /\ \A l \in Balancers!SeqToSet(ListenersOf[Head(lbs)]) :
            l \in Balancers!SeqToSet(open) \/ Known(Head(lbs), l, read)

\* what was emitted is whole, or a warning says what is not; and the graph, once there
\* is one, is that of the inventory.
Emitted ==
  /\ \A e \in invLbs :
       /\ e.id \in Balancers!SeqToSet(BalancerPages) /\ OfBalancer(e.id, e.listeners)
       /\ \A l \in Balancers!SeqToSet(ListenersOf[e.id]) :
            <<"listeners", e.id>> \in warnings \/ Known(e.id, l, e.listeners)
  /\ \A g \in invTgs :
       g.id \in Balancers!Groups /\ (TargetsOf[g.id] \subseteq g.targets \/ <<"health", g.id>> \in warnings)

TrafficEdges ==
  UNION {{<<f[1], n>> : n \in Balancers!Reaches(f[2])} : f \in Balancers!Sent}
TrafficFindings ==
  UNION {{<<f[1], m>> : m \in Balancers!Missing(f[2])} : f \in Balancers!Sent}
    \cup UNION {{<<s, t>> : t \in Balancers!ServiceSays(s).unreached} : s \in Balancers!Services}
Entrypoints ==
  {b.id : b \in {x \in invLbs : x.id \in Facing}}
    \cup {s \in Balancers!Services : Balancers!ServiceSays(s).trigger}
LinkedGraph == [edges |-> TrafficEdges, findings |-> TrafficFindings, triggers |-> Entrypoints]
Ended ==
  /\ result \in {"running", "nil", "error"}
  /\ result = "nil" => at = "listeners" /\ lbs = <<>> /\ tgs = <<>> /\ graph = LinkedGraph

BalancersInv == Listed /\ Reading /\ Emitted /\ Ended

\* Sequences and what they hold.
LEMMA SetOfSeq ==
  ASSUME NEW S, NEW s \in Seq(S)
  PROVE  /\ Balancers!SeqToSet(s) \subseteq S /\ s \in Seq(Balancers!SeqToSet(s))
         /\ Balancers!SeqToSet(<<>>) = {}
         /\ \A x \in S : Append(s, x) \in Seq(S)
                         /\ Balancers!SeqToSet(Append(s, x)) = Balancers!SeqToSet(s) \cup {x}
         /\ s # <<>> => /\ Head(s) \in Balancers!SeqToSet(s) /\ Tail(s) \in Seq(S)
                        /\ Balancers!SeqToSet(s) = {Head(s)} \cup Balancers!SeqToSet(Tail(s))
<1> USE DEF Balancers!SeqToSet
<1>1. Balancers!SeqToSet(s) \subseteq S /\ s \in Seq(Balancers!SeqToSet(s))
  OBVIOUS
<1>2. ASSUME NEW x \in S
      PROVE  /\ Append(s, x) \in Seq(S)
             /\ Balancers!SeqToSet(Append(s, x)) = Balancers!SeqToSet(s) \cup {x}
  <2>1. Append(s, x) \in Seq(S)
    OBVIOUS
  <2>2. DOMAIN Append(s, x) = DOMAIN s \cup {Len(s) + 1}
    OBVIOUS
  <2>3. /\ \A k \in DOMAIN s : Append(s, x)[k] = s[k]
        /\ Append(s, x)[Len(s) + 1] = x
    OBVIOUS
  <2> QED BY <2>1, <2>2, <2>3
<1>3. ASSUME s # <<>>
      PROVE  /\ Head(s) \in Balancers!SeqToSet(s) /\ Tail(s) \in Seq(S)
             /\ Balancers!SeqToSet(s) = {Head(s)} \cup Balancers!SeqToSet(Tail(s))
  <2>1. Len(s) \in Nat \ {0} /\ DOMAIN s = 1 .. Len(s) /\ Head(s) = s[1]
    BY <1>3
  <2>2. /\ Tail(s) \in Seq(S) /\ DOMAIN Tail(s) = 1 .. Len(s) - 1
        /\ \A k \in 1 .. Len(s) - 1 : Tail(s)[k] = s[k + 1]
    BY <1>3
  <2>3. \A k \in 1 .. Len(s) : k = 1 \/ (k - 1 \in 1 .. Len(s) - 1 /\ s[k] = Tail(s)[k - 1])
    BY <2>1, <2>2
  <2>4. \A k \in 1 .. Len(s) - 1 : k + 1 \in 1 .. Len(s)
    BY <2>1
  <2>5. Head(s) \in Balancers!SeqToSet(s)
    BY <2>1
  <2>6. ASSUME NEW x \in Balancers!SeqToSet(s)
        PROVE  x \in {Head(s)} \cup Balancers!SeqToSet(Tail(s))
    <3>1. PICK k \in 1 .. Len(s) : x = s[k]
      BY <2>1
    <3> QED BY <2>1, <2>2, <2>3, <3>1
  <2>7. ASSUME NEW x \in Balancers!SeqToSet(Tail(s)) PROVE x \in Balancers!SeqToSet(s)
    <3>1. PICK k \in 1 .. Len(s) - 1 : x = Tail(s)[k]
      BY <2>2
    <3> QED BY <2>1, <2>2, <2>4, <3>1
  <2> QED BY <2>2, <2>5, <2>6, <2>7
<1>4. Balancers!SeqToSet(<<>>) = {}
  OBVIOUS
<1> QED BY <1>1, <1>2, <1>3, <1>4

\* The types of the account.
LEMMA Account ==
  /\ BalancerPages \in Seq(Balancers!SeqToSet(BalancerPages))
  /\ GroupPages \in Seq(Balancers!Groups)
  /\ \A b \in Balancers!SeqToSet(BalancerPages) :
       /\ ListenersOf[b] \in Seq(DOMAIN DefaultTo)
       /\ TypeOf[b] = "application" => \A l \in Balancers!SeqToSet(ListenersOf[b]) :
            /\ RulePages[l] \in Seq(SUBSET SUBSET Balancers!Groups)
            /\ DefaultTo[l] \in UNION Balancers!SeqToSet(RulePages[l])
  /\ \A t \in Balancers!Groups : TargetType[t] \notin {"lambda", "alb"} => TargetsOf[t] = {}
<1>1. Balancers!BalancerAssumption
  BY StateRulesAssumption
<1>2. /\ BalancerPages \in Seq(Balancers!SeqToSet(BalancerPages))
      /\ GroupPages \in Seq(Balancers!Groups)
  BY <1>1, SetOfSeq DEF Balancers!BalancerAssumption, Balancers!Groups
<1> QED BY <1>1, <1>2 DEF Balancers!BalancerAssumption

LEMMA BalancersBegin == Balancers!Init => BalancersInv
<1> SUFFICES ASSUME Balancers!Init PROVE BalancersInv
  OBVIOUS
<1>1. Listed
  BY SetOfSeq, Account DEF Balancers!Init, Listed, Balancers!SeqToSet
<1>2. Reading /\ Emitted /\ Ended
  BY DEF Balancers!Init, Reading, Emitted, Ended
<1> QED BY <1>1, <1>2 DEF BalancersInv

\* What is known stays known: warnings are only added.
LEMMA KnownStays ==
  ASSUME warnings \subseteq warnings', NEW b, NEW l, NEW listeners, Known(b, l, listeners)
  PROVE  Known(b, l, listeners)'
BY DEF Known, Sends

LEMMA CutStays ==
  ASSUME warnings \subseteq warnings', NEW listing, CutShort(listing)
  PROVE  CutShort(listing)'
BY DEF CutShort

LEMMA EmittedStays ==
  ASSUME Emitted, warnings \subseteq warnings', UNCHANGED <<invLbs, invTgs>>
  PROVE  Emitted'
<1>1. ASSUME NEW e \in invLbs, NEW l \in Balancers!SeqToSet(ListenersOf[e.id])
      PROVE  <<"listeners", e.id>> \in warnings' \/ Known(e.id, l, e.listeners)'
  BY KnownStays DEF Emitted
<1>2. \A e \in invLbs : e.id \in Balancers!SeqToSet(BalancerPages) /\ OfBalancer(e.id, e.listeners)
  BY DEF Emitted
<1>3. \A g \in invTgs :
        g.id \in Balancers!Groups /\ (TargetsOf[g.id] \subseteq g.targets \/ <<"health", g.id>> \in warnings')
  BY DEF Emitted
<1> QED BY <1>1, <1>2, <1>3 DEF Emitted, OfBalancer, Balancers!SeqToSet, Balancers!Groups

LEMMA ReadingStays ==
  ASSUME Reading, warnings \subseteq warnings', UNCHANGED <<at, page, lbs, open, rules, read>>
  PROVE  Reading'
<1>1. ASSUME at = "listeners", lbs # <<>>, NEW l \in Balancers!SeqToSet(ListenersOf[Head(lbs)])
      PROVE  l \in Balancers!SeqToSet(open) \/ Known(Head(lbs), l, read)'
  BY <1>1, KnownStays DEF Reading
<1> QED BY <1>1 DEF Reading, OfBalancer, Balancers!SeqToSet

LEMMA BalancersStay ==
  ASSUME BalancersInv, UNCHANGED <<at, ofBalancers>>
  PROVE  BalancersInv'
<1>1. UNCHANGED <<at, page, lbs, tgs, open, rules, read, invLbs, invTgs, warnings, result, graph>>
  BY DEF ofBalancers
<1>2. Listed'
  BY <1>1, CutStays DEF BalancersInv, Listed, Balancers!SeqToSet, Balancers!Groups
<1>3. Reading' /\ Emitted'
  BY <1>1, ReadingStays, EmittedStays DEF BalancersInv
<1>4. LinkedGraph' = LinkedGraph
  BY <1>1 DEF LinkedGraph, TrafficEdges, TrafficFindings, Entrypoints, Balancers!Reaches, Balancers!Sent,
              Balancers!Missing, Balancers!ServiceSays,
              Balancers!Services, Balancers!GroupsRead, Balancers!Targets, Balancers!Registered,
              Balancers!Forwards, Balancers!Attached, Balancers!Present
<1>5. Ended'
  BY <1>1, <1>4 DEF BalancersInv, Ended
<1> QED BY <1>2, <1>3, <1>5 DEF BalancersInv

LEMMA FailStep == ASSUME BalancersInv, Balancers!Fail PROVE BalancersInv'
<1>1. /\ result = "running" /\ result' = "error"
      /\ UNCHANGED <<at, page, lbs, tgs, open, rules, read, invLbs, invTgs, warnings, graph>>
  BY DEF Balancers!Fail, Balancers!collecting
<1>2. Listed'
  BY <1>1, CutStays DEF BalancersInv, Listed, Balancers!SeqToSet, Balancers!Groups
<1>3. Reading' /\ Emitted'
  BY <1>1, ReadingStays, EmittedStays DEF BalancersInv
<1> QED BY <1>1, <1>2, <1>3 DEF BalancersInv, Ended

LEMMA ListBalancersStep == ASSUME BalancersInv, Balancers!ListBalancers PROVE BalancersInv'
<1> DEFINE b == BalancerPages[page]
<1>0. /\ page \in Nat \ {0} /\ tgs \in Seq(Balancers!Groups)
      /\ lbs \in Seq(Balancers!SeqToSet(BalancerPages))
  BY DEF BalancersInv, Listed
<1>c. /\ DOMAIN BalancerPages = 1 .. Len(BalancerPages) /\ DOMAIN GroupPages = 1 .. Len(GroupPages)
      /\ Len(BalancerPages) \in Nat /\ Len(GroupPages) \in Nat
  BY Account
<1>1. /\ result = "running" /\ at = "balancers" /\ page <= Len(BalancerPages) /\ page' = page + 1
      /\ \/ TypeOf[b] = "gateway" /\ lbs' = lbs
         \/ TypeOf[b] # "gateway" /\ lbs' = Append(lbs, b)
      /\ UNCHANGED <<at, tgs, open, rules, read, invLbs, invTgs, warnings, result, graph>>
  BY DEF Balancers!ListBalancers, Balancers!Asks
<1>2. page \in DOMAIN BalancerPages /\ b \in Balancers!SeqToSet(BalancerPages)
  BY <1>0, <1>c, <1>1 DEF Balancers!SeqToSet
<1>3. /\ lbs' \in Seq(Balancers!SeqToSet(BalancerPages))
      /\ Balancers!SeqToSet(lbs) \subseteq Balancers!SeqToSet(lbs')
      /\ TypeOf[b] # "gateway" => b \in Balancers!SeqToSet(lbs')
  <2>1. /\ Append(lbs, b) \in Seq(Balancers!SeqToSet(BalancerPages))
        /\ Balancers!SeqToSet(Append(lbs, b)) = Balancers!SeqToSet(lbs) \cup {b}
    BY <1>0, <1>2, SetOfSeq
  <2> HIDE DEF b
  <2> QED BY <1>0, <1>1, <2>1
<1>4. \A k \in DOMAIN BalancerPages : k < page' => k < page \/ k = page
  BY <1>0, <1>c, <1>1
<1>5. ASSUME NEW k \in DOMAIN BalancerPages, k < page', TypeOf[BalancerPages[k]] # "gateway"
      PROVE  BalancerPages[k] \in Balancers!SeqToSet(lbs')
  BY <1>1, <1>3, <1>4, <1>5 DEF BalancersInv, Listed
<1> HIDE DEF b
<1>6. Listed'
  BY <1>0, <1>1, <1>3, <1>5, CutStays DEF BalancersInv, Listed, Balancers!SeqToSet, Balancers!Groups
<1>7. Reading'
  BY <1>1 DEF BalancersInv, Listed, Reading
<1>8. Emitted'
  BY <1>1, EmittedStays DEF BalancersInv
<1> QED BY <1>1, <1>6, <1>7, <1>8 DEF BalancersInv, Ended

LEMMA ListGroupsStep == ASSUME BalancersInv, Balancers!ListGroups PROVE BalancersInv'
<1> DEFINE t == GroupPages[page]
<1>0. /\ page \in Nat \ {0} /\ tgs \in Seq(Balancers!Groups)
      /\ lbs \in Seq(Balancers!SeqToSet(BalancerPages))
  BY DEF BalancersInv, Listed
<1>c. /\ DOMAIN BalancerPages = 1 .. Len(BalancerPages) /\ DOMAIN GroupPages = 1 .. Len(GroupPages)
      /\ Len(BalancerPages) \in Nat /\ Len(GroupPages) \in Nat
  BY Account
<1>1. /\ result = "running" /\ at = "groups" /\ page <= Len(GroupPages) /\ page' = page + 1
      /\ tgs' = Append(tgs, t)
      /\ UNCHANGED <<at, lbs, open, rules, read, invLbs, invTgs, warnings, result, graph>>
  BY DEF Balancers!ListGroups, Balancers!Asks
<1>2. page \in DOMAIN GroupPages /\ t \in Balancers!Groups
  BY <1>0, <1>c, <1>1 DEF Balancers!SeqToSet, Balancers!Groups
<1>3. /\ tgs' \in Seq(Balancers!Groups)
      /\ Balancers!SeqToSet(tgs') = Balancers!SeqToSet(tgs) \cup {t}
  BY <1>0, <1>1, <1>2, SetOfSeq
<1>4. \A k \in DOMAIN GroupPages : k < page' => k < page \/ k = page
  BY <1>0, <1>c, <1>1
<1>5. ASSUME NEW k \in DOMAIN GroupPages, k < page'
      PROVE  GroupPages[k] \in Balancers!SeqToSet(tgs')
  BY <1>1, <1>3, <1>4, <1>5 DEF BalancersInv, Listed
<1> HIDE DEF t
<1>6. Listed'
  <2>1. page' \in Nat \ {0}
    BY <1>0, <1>1
  <2>2. Listed
    BY DEF BalancersInv
  <2>3. /\ Balancers!Groups' = Balancers!Groups /\ Balancers!SeqToSet(lbs)' = Balancers!SeqToSet(lbs)
        /\ Balancers!SeqToSet(BalancerPages)' = Balancers!SeqToSet(BalancerPages)
        /\ Balancers!SeqToSet(tgs)' = Balancers!SeqToSet(tgs')
    BY <1>1 DEF Balancers!Groups, Balancers!SeqToSet
  <2> QED BY <1>1, <1>3, <1>5, <2>1, <2>2, <2>3, CutStays DEF Listed
<1>7. Reading' /\ Emitted'
  BY <1>1, EmittedStays DEF BalancersInv, Listed, Reading
<1> QED BY <1>1, <1>6, <1>7 DEF BalancersInv, Ended

\* A listing that ends was read to its last page, or was denied one.
LEMMA EndListingStep == ASSUME BalancersInv, Balancers!EndListing PROVE BalancersInv'
<1>0. /\ page \in Nat \ {0} /\ tgs \in Seq(Balancers!Groups)
      /\ lbs \in Seq(Balancers!SeqToSet(BalancerPages))
  BY DEF BalancersInv, Listed
<1>c. /\ DOMAIN BalancerPages = 1 .. Len(BalancerPages) /\ DOMAIN GroupPages = 1 .. Len(GroupPages)
      /\ Len(BalancerPages) \in Nat /\ Len(GroupPages) \in Nat
  BY Account
<1>1. /\ result = "running" /\ at \in {"balancers", "groups"} /\ page' = 1
      /\ warnings \subseteq warnings'
      /\ at = "balancers" => page > Len(BalancerPages) \/ CutShort("balancers")'
      /\ at = "groups" => page > Len(GroupPages) \/ CutShort("groups")'
      /\ at' = IF at = "balancers" THEN "groups" ELSE "tags"
      /\ UNCHANGED <<lbs, tgs, open, rules, read, invLbs, invTgs, result, graph>>
  BY DEF Balancers!EndListing, Balancers!Asks, Balancers!collecting, CutShort
<1>3. at = "balancers" => \/ CutShort("balancers")'
                          \/ \A b \in Balancers!SeqToSet(BalancerPages) :
                               TypeOf[b] # "gateway" => b \in Balancers!SeqToSet(lbs)
  <2> SUFFICES ASSUME at = "balancers", ~CutShort("balancers")',
                      NEW k \in DOMAIN BalancerPages, TypeOf[BalancerPages[k]] # "gateway"
               PROVE  BalancerPages[k] \in Balancers!SeqToSet(lbs)
    BY DEF Balancers!SeqToSet
  <2>1. k < page
    <3>1. k \in 1 .. Len(BalancerPages) /\ page > Len(BalancerPages)
      BY <1>c, <1>1
    <3> QED BY <1>0, <1>c, <3>1
  <2> QED BY <2>1 DEF BalancersInv, Listed
<1>4. at = "groups" => \/ CutShort("groups")'
                       \/ \A t \in Balancers!Groups : t \in Balancers!SeqToSet(tgs)
  <2> SUFFICES ASSUME at = "groups", ~CutShort("groups")', NEW k \in DOMAIN GroupPages
               PROVE  GroupPages[k] \in Balancers!SeqToSet(tgs)
    BY DEF Balancers!SeqToSet, Balancers!Groups
  <2>1. k < page
    <3>1. k \in 1 .. Len(GroupPages) /\ page > Len(GroupPages)
      BY <1>c, <1>1
    <3> QED BY <1>0, <1>c, <3>1
  <2> QED BY <2>1 DEF BalancersInv, Listed
<1>5. \A k \in DOMAIN GroupPages : ~(k < page')
  <2> SUFFICES ASSUME NEW k \in 1 .. Len(GroupPages) PROVE ~(k < 1)
    BY <1>c, <1>1
  <2> QED BY <1>c
<1>6. Listed'
  <2>1. Listed
    BY DEF BalancersInv
  <2>2. /\ Balancers!Groups' = Balancers!Groups /\ Balancers!SeqToSet(lbs)' = Balancers!SeqToSet(lbs)
        /\ Balancers!SeqToSet(BalancerPages)' = Balancers!SeqToSet(BalancerPages)
        /\ Balancers!SeqToSet(tgs)' = Balancers!SeqToSet(tgs)
    BY <1>1 DEF Balancers!Groups, Balancers!SeqToSet
  <2>3. page' \in Nat \ {0}
    BY <1>1
  <2>4. CASE at = "balancers"
    BY <1>0, <1>1, <1>3, <1>5, <2>1, <2>2, <2>3, <2>4 DEF Listed
  <2>5. CASE at = "groups"
    BY <1>0, <1>1, <1>4, <2>1, <2>2, <2>3, <2>5, CutStays DEF Listed
  <2> QED BY <1>1, <2>4, <2>5
<1>7. Reading' /\ Emitted'
  BY <1>1, EmittedStays DEF BalancersInv, Listed, Reading
<1> QED BY <1>1, <1>6, <1>7 DEF BalancersInv, Ended

\* Once the listings are over.
LEMMA ListedStays ==
  ASSUME Listed, at \in {"tags", "listeners"}, at' = "listeners", page' \in Nat \ {0},
         warnings \subseteq warnings', UNCHANGED <<lbs, tgs, invLbs, invTgs>>
  PROVE  Listed'
<1>1. /\ Balancers!Groups' = Balancers!Groups /\ Balancers!SeqToSet(lbs)' = Balancers!SeqToSet(lbs)
      /\ Balancers!SeqToSet(BalancerPages)' = Balancers!SeqToSet(BalancerPages)
      /\ Balancers!SeqToSet(tgs)' = Balancers!SeqToSet(tgs)
  BY DEF Balancers!Groups, Balancers!SeqToSet
<1> QED BY <1>1, CutStays DEF Listed

LEMMA HeadIsListed ==
  ASSUME Listed, lbs # <<>>
  PROVE  /\ Head(lbs) \in Balancers!SeqToSet(BalancerPages)
         /\ Head(lbs) \in Balancers!SeqToSet(lbs)
         /\ Tail(lbs) \in Seq(Balancers!SeqToSet(BalancerPages))
         /\ Balancers!SeqToSet(lbs) = {Head(lbs)} \cup Balancers!SeqToSet(Tail(lbs))
<1>1. lbs \in Seq(Balancers!SeqToSet(BalancerPages))
  BY DEF Listed
<1> QED BY <1>1, SetOfSeq

\* The next balancer's listeners are all open, and none was read.
LEMMA NextBalancer ==
  ASSUME NEW coming \in Seq(Balancers!SeqToSet(BalancerPages)),
         lbs' = coming, open' = (IF lbs' = <<>> THEN <<>> ELSE ListenersOf[Head(lbs')]),
         rules' = {}, read' = {}, page' = 1
  PROVE  Reading'
<1>1. CASE coming = <<>>
  <2>1. open' = <<>> /\ <<>> \in Seq(DOMAIN DefaultTo)
    BY <1>1
  <2> QED BY <1>1, <2>1 DEF Reading
<1>2. CASE coming # <<>>
  <2>1. Head(coming) \in Balancers!SeqToSet(BalancerPages)
    BY <1>2, SetOfSeq
  <2>2. open' = ListenersOf[Head(coming)] /\ open' \in Seq(DOMAIN DefaultTo)
    BY <1>2, <2>1, Account
  <2>3. ASSUME open' # <<>>, TypeOf[Head(coming)] = "application",
               NEW k \in DOMAIN RulePages[Head(open')]
        PROVE  ~(k < 1)
    <3>1. Head(open') \in Balancers!SeqToSet(ListenersOf[Head(coming)])
      BY <2>2, <2>3, SetOfSeq
    <3>2. RulePages[Head(open')] \in Seq(SUBSET SUBSET Balancers!Groups)
      BY <2>1, <2>3, <3>1, Account
    <3>3. k \in 1 .. Len(RulePages[Head(open')]) /\ Len(RulePages[Head(open')]) \in Nat
      BY <3>2
    <3> QED BY <3>3
  <2>4. /\ Balancers!SeqToSet(open)' = Balancers!SeqToSet(ListenersOf[Head(lbs)])'
        /\ OfBalancer(Head(lbs), read)'
    BY <2>2 DEF OfBalancer, Balancers!SeqToSet
  <2> QED BY <1>2, <2>2, <2>3, <2>4 DEF Reading, Balancers!SeqToSet
<1> QED BY <1>1, <1>2

LEMMA TagsStep == ASSUME BalancersInv, Balancers!Tags PROVE BalancersInv'
<1>1. /\ result = "running" /\ at = "tags" /\ at' = "listeners"
      /\ warnings \subseteq warnings'
      /\ open' = IF lbs = <<>> THEN <<>> ELSE ListenersOf[Head(lbs)]
      /\ UNCHANGED <<page, lbs, tgs, rules, read, invLbs, invTgs, result, graph>>
  BY DEF Balancers!Tags, Balancers!Asks
<1>2. page = 1 /\ rules = {} /\ read = {} /\ lbs \in Seq(Balancers!SeqToSet(BalancerPages))
  BY <1>1 DEF BalancersInv, Listed
<1>3. Listed'
  BY <1>1, <1>2, ListedStays DEF BalancersInv
<1>4. Reading'
  BY <1>1, <1>2, NextBalancer
<1>5. Emitted'
  BY <1>1, EmittedStays DEF BalancersInv
<1> QED BY <1>1, <1>3, <1>4, <1>5 DEF BalancersInv, Ended

\* Of the listener that is read next.
LEMMA OpenListener ==
  ASSUME BalancersInv, at = "listeners", open # <<>>
  PROVE  /\ lbs # <<>> /\ Head(lbs) \in Balancers!SeqToSet(BalancerPages)
         /\ Head(open) \in Balancers!SeqToSet(ListenersOf[Head(lbs)])
         /\ Tail(open) \in Seq(DOMAIN DefaultTo)
         /\ Balancers!SeqToSet(open) = {Head(open)} \cup Balancers!SeqToSet(Tail(open))
         /\ TypeOf[Head(lbs)] = "application" =>
              /\ DOMAIN RulePages[Head(open)] = 1 .. Len(RulePages[Head(open)])
              /\ Len(RulePages[Head(open)]) \in Nat
              /\ DefaultTo[Head(open)] \in UNION Balancers!SeqToSet(RulePages[Head(open)])
<1>1. lbs # <<>> /\ open \in Seq(DOMAIN DefaultTo)
  BY DEF BalancersInv, Reading
<1>2. Head(lbs) \in Balancers!SeqToSet(BalancerPages)
  BY <1>1, HeadIsListed DEF BalancersInv
<1>3. /\ Head(open) \in Balancers!SeqToSet(open) /\ Tail(open) \in Seq(DOMAIN DefaultTo)
      /\ Balancers!SeqToSet(open) = {Head(open)} \cup Balancers!SeqToSet(Tail(open))
  BY <1>1, SetOfSeq
<1>4. Balancers!SeqToSet(open) \subseteq Balancers!SeqToSet(ListenersOf[Head(lbs)])
  BY <1>1 DEF BalancersInv, Reading
<1>5. TypeOf[Head(lbs)] = "application" =>
        /\ RulePages[Head(open)] \in Seq(SUBSET SUBSET Balancers!Groups)
        /\ DefaultTo[Head(open)] \in UNION Balancers!SeqToSet(RulePages[Head(open)])
  BY <1>2, <1>3, <1>4, Account
<1> QED BY <1>1, <1>2, <1>3, <1>4, <1>5

LEMMA ReadRulesStep == ASSUME BalancersInv, Balancers!ReadRules PROVE BalancersInv'
<1>1. /\ result = "running" /\ at = "listeners" /\ open # <<>> /\ TypeOf[Head(lbs)] = "application"
      /\ page <= Len(RulePages[Head(open)])
      /\ rules' = rules \cup RulePages[Head(open)][page] /\ page' = page + 1
      /\ UNCHANGED <<at, lbs, tgs, open, read, invLbs, invTgs, warnings, result, graph>>
  BY DEF Balancers!ReadRules, Balancers!Asks, Balancers!IsApplication, Balancers!Listener
<1>2. page \in Nat \ {0}
  BY DEF BalancersInv, Listed
<1>3. Listed'
  BY <1>1, <1>2, ListedStays DEF BalancersInv
<1>4. ASSUME NEW k \in DOMAIN RulePages[Head(open)], k < page'
      PROVE  RulePages[Head(open)][k] \subseteq rules'
  <2>1. k < page \/ k = page
    BY <1>1, <1>2, <1>4, OpenListener
  <2>2. k < page => RulePages[Head(open)][k] \subseteq rules
    BY <1>1 DEF BalancersInv, Reading
  <2> QED BY <1>1, <2>1, <2>2
<1>5. Reading'
  <2>1. ASSUME lbs # <<>>, NEW l \in Balancers!SeqToSet(ListenersOf[Head(lbs)])
        PROVE  l \in Balancers!SeqToSet(open) \/ Known(Head(lbs), l, read)'
    BY <1>1, <2>1, KnownStays DEF BalancersInv, Reading
  <2> QED BY <1>1, <1>4, <2>1 DEF BalancersInv, Reading, OfBalancer, Balancers!SeqToSet
<1>6. Emitted'
  BY <1>1, EmittedStays DEF BalancersInv
<1> QED BY <1>1, <1>3, <1>5, <1>6 DEF BalancersInv, Ended

\* A listener that was read, to its last page or to a denial, has rules, and all it
\* sends to unless a warning says that its rules were denied.
LEMMA ListenerRead ==
  ASSUME BalancersInv, at = "listeners", open # <<>>,
         read' = read \cup {[id |-> Head(open), rules |-> Balancers!Complete(rules)]},
         open' = Tail(open), rules' = {}, page' = 1, warnings \subseteq warnings',
         \/ <<"rules", Head(open)>> \in warnings'
         \/ TypeOf[Head(lbs)] = "application" => page > Len(RulePages[Head(open)]),
         UNCHANGED <<at, lbs>>
  PROVE  Reading'
<1> DEFINE b == Head(lbs)
           l == Head(open)
           x == [id |-> l, rules |-> Balancers!Complete(rules)]
<1>0. page \in Nat \ {0}
  BY DEF BalancersInv, Listed
<1>1. /\ lbs # <<>> /\ b \in Balancers!SeqToSet(BalancerPages)
      /\ l \in Balancers!SeqToSet(ListenersOf[b])
      /\ Tail(open) \in Seq(DOMAIN DefaultTo)
      /\ Balancers!SeqToSet(open) = {l} \cup Balancers!SeqToSet(Tail(open))
      /\ TypeOf[b] = "application" =>
           /\ DOMAIN RulePages[l] = 1 .. Len(RulePages[l]) /\ Len(RulePages[l]) \in Nat
           /\ DefaultTo[l] \in UNION Balancers!SeqToSet(RulePages[l])
  BY OpenListener
<1>2. /\ Balancers!SeqToSet(open) \subseteq Balancers!SeqToSet(ListenersOf[b])
      /\ OfBalancer(b, read)
      /\ \A m \in Balancers!SeqToSet(ListenersOf[b]) : m \in Balancers!SeqToSet(open) \/ Known(b, m, read)
      /\ TypeOf[b] = "application" => \A k \in DOMAIN RulePages[l] : k < page => RulePages[l][k] \subseteq rules
      /\ TypeOf[b] # "application" => rules = {}
  BY <1>1 DEF BalancersInv, Reading
<1>3. /\ Balancers!Complete(rules) # {}
      /\ rules # {} => Balancers!Complete(rules) = rules
      /\ rules = {} => Balancers!Complete(rules) = {DefaultTo[l]}
  BY DEF Balancers!Complete, Balancers!Listener
<1>b. b' = b
  OBVIOUS
<1> HIDE DEF b, l
<1>4. <<"rules", l>> \in warnings' \/ Sends(b, l) \subseteq UNION Balancers!Complete(rules)
  <2>1. CASE TypeOf[b] # "application"
    BY <1>2, <1>3, <2>1 DEF Sends
  <2>2. CASE TypeOf[b] = "application" /\ page > Len(RulePages[l])
    <3>1. \A k \in DOMAIN RulePages[l] : RulePages[l][k] \subseteq rules
      BY <1>0, <1>1, <1>2, <2>2
    <3>2. DefaultTo[l] \in rules
      BY <1>1, <2>2, <3>1 DEF Balancers!SeqToSet
    <3>3. Balancers!Complete(rules) = rules
      BY <1>3, <3>2
    <3> QED BY <2>2, <3>1, <3>2, <3>3 DEF Sends
  <2> QED BY <2>1, <2>2 DEF b, l
<1> HIDE DEF x
<1>5. x.id = l /\ x.rules # {}
  BY <1>3 DEF x
<1>6. x \in read' /\ read \subseteq read' /\ (\A y \in read' : y \in read \/ y = x)
  BY DEF x, l
<1>7. OfBalancer(b, read')
  BY <1>1, <1>2, <1>5, <1>6 DEF OfBalancer
<1>8. ASSUME NEW m \in Balancers!SeqToSet(ListenersOf[b])
      PROVE  m \in Balancers!SeqToSet(Tail(open)) \/ Known(b, m, read)'
  <2>1. CASE m = l
    <3>1. <<"rules", m>> \in warnings' \/ Sends(b, m) \subseteq UNION x.rules
      BY <1>4, <2>1 DEF x
    <3>2. x \in read' /\ x.id = m
      BY <1>5, <1>6, <2>1
    <3> QED BY <1>b, <3>1, <3>2 DEF Known, Sends
  <2>2. CASE Known(b, m, read)
    <3>1. PICK y \in read : y.id = m /\ (<<"rules", m>> \in warnings \/ Sends(b, m) \subseteq UNION y.rules)
      BY <2>2 DEF Known
    <3>2. y \in read' /\ (<<"rules", m>> \in warnings' \/ Sends(b, m) \subseteq UNION y.rules)
      BY <1>6, <3>1
    <3> QED BY <1>b, <3>1, <3>2 DEF Known, Sends
  <2>3. m = l \/ m \in Balancers!SeqToSet(Tail(open)) \/ Known(b, m, read)
    <3>1. m \in Balancers!SeqToSet(open) \/ Known(b, m, read)
      BY <1>2
    <3>2. Balancers!SeqToSet(open) = {l} \cup Balancers!SeqToSet(Tail(open))
      BY <1>1
    <3> QED BY <3>1, <3>2
  <2> QED BY <2>1, <2>2, <2>3
<1>10. OfBalancer(b, read)'
  BY <1>b, <1>7 DEF OfBalancer, Balancers!SeqToSet
<1>11. /\ Balancers!SeqToSet(open)' \subseteq Balancers!SeqToSet(ListenersOf[b])'
       /\ \A m \in Balancers!SeqToSet(ListenersOf[b])' :
            m \in Balancers!SeqToSet(open)' \/ Known(b, m, read)'
  BY <1>b, <1>1, <1>2, <1>8 DEF Balancers!SeqToSet
<1>12. open' # <<>> /\ TypeOf[b] = "application" =>
         \A k \in DOMAIN RulePages[Head(open')] : ~(k < 1)
  <2> SUFFICES ASSUME open' # <<>>, TypeOf[b] = "application", NEW k \in DOMAIN RulePages[Head(open')]
               PROVE  ~(k < 1)
    OBVIOUS
  <2>1. Head(open') \in Balancers!SeqToSet(open')
    BY <1>1, SetOfSeq
  <2>2. Head(open') \in Balancers!SeqToSet(ListenersOf[b])
    BY <1>1, <1>2, <2>1
  <2>3. RulePages[Head(open')] \in Seq(SUBSET SUBSET Balancers!Groups)
    BY <1>1, <2>2, Account
  <2>4. k \in 1 .. Len(RulePages[Head(open')]) /\ Len(RulePages[Head(open')]) \in Nat
    BY <2>3
  <2> QED BY <2>4
<1> QED BY <1>1, <1>10, <1>11, <1>12 DEF Reading, b

LEMMA ListenerStep ==
  ASSUME BalancersInv, Balancers!EndRules \/ Balancers!DenyRules
  PROVE  BalancersInv'
<1>1. /\ result = "running" /\ at = "listeners" /\ open # <<>>
      /\ \/ <<"rules", Head(open)>> \in warnings'
         \/ TypeOf[Head(lbs)] = "application" => page > Len(RulePages[Head(open)])
      /\ read' = read \cup {[id |-> Head(open), rules |-> Balancers!Complete(rules)]}
      /\ open' = Tail(open) /\ rules' = {} /\ page' = 1 /\ warnings \subseteq warnings'
      /\ UNCHANGED <<at, lbs, tgs, invLbs, invTgs, result, graph>>
  BY DEF Balancers!EndRules, Balancers!DenyRules, Balancers!Asks, Balancers!IsApplication,
         Balancers!Listener
<1>2. Listed'
  BY <1>1, ListedStays DEF BalancersInv
<1>3. Reading'
  BY <1>1, ListenerRead
<1>4. Emitted'
  BY <1>1, EmittedStays DEF BalancersInv
<1> QED BY <1>1, <1>2, <1>3, <1>4 DEF BalancersInv, Ended

\* A balancer is emitted with every listener it has, or a warning on them.
LEMMA EmitBalancerStep == ASSUME BalancersInv, Balancers!EmitBalancer PROVE BalancersInv'
<1> DEFINE b == Head(lbs)
           e == [id |-> b, listeners |-> read]
<1>1. /\ result = "running" /\ at = "listeners" /\ lbs # <<>> /\ rules = {} /\ page = 1
      /\ warnings \subseteq warnings'
      /\ open = <<>> \/ <<"listeners", b>> \in warnings'
      /\ invLbs' = invLbs \cup {e}
      /\ lbs' = Tail(lbs) /\ read' = {}
      /\ open' = IF lbs' = <<>> THEN <<>> ELSE ListenersOf[Head(lbs')]
      /\ UNCHANGED <<at, page, tgs, rules, invTgs, result, graph>>
  BY DEF Balancers!EmitBalancer, Balancers!Asks
<1>2. /\ b \in Balancers!SeqToSet(BalancerPages)
      /\ Tail(lbs) \in Seq(Balancers!SeqToSet(BalancerPages))
      /\ Balancers!SeqToSet(lbs) = {b} \cup Balancers!SeqToSet(Tail(lbs))
  BY <1>1, HeadIsListed DEF BalancersInv
<1>3. /\ OfBalancer(b, read)
      /\ \A l \in Balancers!SeqToSet(ListenersOf[b]) : l \in Balancers!SeqToSet(open) \/ Known(b, l, read)
  BY <1>1 DEF BalancersInv, Reading
<1>4. e.id = b /\ e.listeners = read /\ e \in invLbs' /\ invLbs \subseteq invLbs'
      /\ \A x \in invLbs' : x \in invLbs \/ x = e
  BY <1>1
<1> HIDE DEF b, e
<1>5. Listed'
  <2>1. /\ Balancers!Groups' = Balancers!Groups
        /\ Balancers!SeqToSet(BalancerPages)' = Balancers!SeqToSet(BalancerPages)
        /\ Balancers!SeqToSet(tgs)' = Balancers!SeqToSet(tgs)
        /\ Balancers!SeqToSet(lbs)' = Balancers!SeqToSet(Tail(lbs))
    BY <1>1 DEF Balancers!Groups, Balancers!SeqToSet
  <2>2. \/ CutShort("balancers")'
        \/ \A c \in Balancers!SeqToSet(BalancerPages) : TypeOf[c] # "gateway" =>
             c \in Balancers!SeqToSet(Tail(lbs)) \/ \E x \in invLbs' : x.id = c
    <3> SUFFICES ASSUME ~CutShort("balancers")', NEW c \in Balancers!SeqToSet(BalancerPages),
                        TypeOf[c] # "gateway"
                 PROVE  c \in Balancers!SeqToSet(Tail(lbs)) \/ \E x \in invLbs' : x.id = c
      OBVIOUS
    <3>1. ~CutShort("balancers")
      BY <1>1, CutStays
    <3>2. c \in Balancers!SeqToSet(lbs) \/ \E x \in invLbs : x.id = c
      BY <1>1, <3>1 DEF BalancersInv, Listed
    <3> QED BY <1>2, <1>4, <3>2
  <2>3. Listed
    BY DEF BalancersInv
  <2> QED BY <1>1, <1>2, <2>1, <2>2, <2>3, CutStays DEF Listed
<1>6. Reading'
  BY <1>1, <1>2, NextBalancer
<1>7. Emitted'
  <2>1. ASSUME NEW x \in invLbs', NEW l \in Balancers!SeqToSet(ListenersOf[x.id])
        PROVE  <<"listeners", x.id>> \in warnings' \/ Known(x.id, l, x.listeners)'
    <3>1. CASE x \in invLbs
      BY <1>1, <2>1, <3>1, KnownStays DEF BalancersInv, Emitted
    <3>2. CASE x = e
      <4>1. CASE open = <<>>
        <5>1. Known(b, l, read)
          BY <1>3, <1>4, <2>1, <3>2, <4>1 DEF Balancers!SeqToSet
        <5>2. \A c, listeners : Known(c, l, listeners) => Known(c, l, listeners)'
          BY <1>1, KnownStays
        <5>3. Known(x.id, l, x.listeners)
          BY <1>4, <3>2, <5>1
        <5> QED BY <1>1, <5>3, KnownStays
      <4> QED BY <1>1, <1>4, <3>2, <4>1
    <3> QED BY <1>4, <3>1, <3>2
  <2>2. \A x \in invLbs' : x.id \in Balancers!SeqToSet(BalancerPages) /\ OfBalancer(x.id, x.listeners)
    BY <1>2, <1>3, <1>4 DEF BalancersInv, Emitted
  <2>3. \A g \in invTgs :
          g.id \in Balancers!Groups /\ (TargetsOf[g.id] \subseteq g.targets \/ <<"health", g.id>> \in warnings')
    BY <1>1 DEF BalancersInv, Emitted
  <2> QED BY <1>1, <2>1, <2>2, <2>3 DEF Emitted, OfBalancer, Balancers!SeqToSet, Balancers!Groups
<1> QED BY <1>1, <1>5, <1>6, <1>7 DEF BalancersInv, Ended

LEMMA EmitGroupStep == ASSUME BalancersInv, Balancers!EmitGroup PROVE BalancersInv'
<1> DEFINE t == Head(tgs)
<1>0. PICK targets :
        /\ result = "running" /\ at = "listeners" /\ lbs = <<>> /\ tgs # <<>>
        /\ invTgs' = invTgs \cup {[id |-> t, targets |-> targets]}
        /\ \/ targets = (IF TargetType[t] \in {"lambda", "alb"} THEN TargetsOf[t] ELSE {})
           \/ <<"health", t>> \in warnings'
        /\ warnings \subseteq warnings' /\ tgs' = Tail(tgs)
        /\ UNCHANGED <<at, page, lbs, open, rules, read, invLbs, result, graph>>
  BY DEF Balancers!EmitGroup, Balancers!Asks
<1> DEFINE g == [id |-> t, targets |-> targets]
<1>1. tgs \in Seq(Balancers!Groups) /\ page \in Nat \ {0}
  BY DEF BalancersInv, Listed
<1>2. /\ t \in Balancers!Groups /\ Tail(tgs) \in Seq(Balancers!Groups)
      /\ Balancers!SeqToSet(tgs) = {t} \cup Balancers!SeqToSet(Tail(tgs))
  BY <1>0, <1>1, SetOfSeq
<1>3. TargetsOf[t] \subseteq targets \/ <<"health", t>> \in warnings'
  BY <1>0, <1>2, Account
<1>4. g.id = t /\ g.targets = targets /\ g \in invTgs' /\ invTgs \subseteq invTgs'
      /\ \A x \in invTgs' : x \in invTgs \/ x = g
  BY <1>0
<1> HIDE DEF t, g
<1>5. Listed'
  <2>1. /\ Balancers!Groups' = Balancers!Groups
        /\ Balancers!SeqToSet(BalancerPages)' = Balancers!SeqToSet(BalancerPages)
        /\ Balancers!SeqToSet(lbs)' = Balancers!SeqToSet(lbs)
        /\ Balancers!SeqToSet(tgs)' = Balancers!SeqToSet(Tail(tgs))
    BY <1>0 DEF Balancers!Groups, Balancers!SeqToSet
  <2>2. \/ CutShort("groups")'
        \/ \A u \in Balancers!Groups :
             u \in Balancers!SeqToSet(Tail(tgs)) \/ \E x \in invTgs' : x.id = u
    <3> SUFFICES ASSUME ~CutShort("groups")', NEW u \in Balancers!Groups
                 PROVE  u \in Balancers!SeqToSet(Tail(tgs)) \/ \E x \in invTgs' : x.id = u
      OBVIOUS
    <3>1. ~CutShort("groups")
      BY <1>0, CutStays
    <3>2. u \in Balancers!SeqToSet(tgs) \/ \E x \in invTgs : x.id = u
      BY <1>0, <3>1 DEF BalancersInv, Listed
    <3> QED BY <1>2, <1>4, <3>2
  <2>3. Listed
    BY DEF BalancersInv
  <2> QED BY <1>0, <1>1, <1>2, <2>1, <2>2, <2>3, CutStays DEF Listed
<1>6. Reading'
  BY <1>0, ReadingStays DEF BalancersInv
<1>7. Emitted'
  <2>1. ASSUME NEW e \in invLbs, NEW l \in Balancers!SeqToSet(ListenersOf[e.id])
        PROVE  <<"listeners", e.id>> \in warnings' \/ Known(e.id, l, e.listeners)'
    BY <1>0, <2>1, KnownStays DEF BalancersInv, Emitted
  <2>2. \A e \in invLbs : e.id \in Balancers!SeqToSet(BalancerPages) /\ OfBalancer(e.id, e.listeners)
    BY DEF BalancersInv, Emitted
  <2>3. \A x \in invTgs' :
          x.id \in Balancers!Groups /\ (TargetsOf[x.id] \subseteq x.targets \/ <<"health", x.id>> \in warnings')
    <3>1. \A x \in invTgs :
            x.id \in Balancers!Groups /\ (TargetsOf[x.id] \subseteq x.targets \/ <<"health", x.id>> \in warnings)
      BY DEF BalancersInv, Emitted
    <3> QED BY <1>0, <1>2, <1>3, <1>4, <3>1
  <2> QED BY <1>0, <2>1, <2>2, <2>3 DEF Emitted, OfBalancer, Balancers!SeqToSet, Balancers!Groups
<1> QED BY <1>0, <1>5, <1>6, <1>7 DEF BalancersInv, Ended

LEMMA LinkStep == ASSUME BalancersInv, Balancers!Link PROVE BalancersInv'
<1>1. /\ at = "listeners" /\ lbs = <<>> /\ tgs = <<>> /\ result' = "nil"
      /\ graph' = LinkedGraph
      /\ UNCHANGED <<at, page, lbs, tgs, open, rules, read, invLbs, invTgs, warnings>>
  BY DEF Balancers!Link, Balancers!Asks, Balancers!collecting, LinkedGraph, TrafficEdges,
         TrafficFindings, Entrypoints
<1>2. page \in Nat \ {0}
  BY DEF BalancersInv, Listed
<1>3. Listed' /\ Reading' /\ Emitted'
  BY <1>1, <1>2, ListedStays, ReadingStays, EmittedStays DEF BalancersInv
<1>4. LinkedGraph' = LinkedGraph
  BY <1>1 DEF LinkedGraph, TrafficEdges, TrafficFindings, Entrypoints, Balancers!Reaches, Balancers!Sent,
              Balancers!Missing, Balancers!ServiceSays,
              Balancers!Services, Balancers!GroupsRead, Balancers!Targets, Balancers!Registered,
              Balancers!Forwards, Balancers!Attached, Balancers!Present
<1> QED BY <1>1, <1>3, <1>4 DEF BalancersInv, Ended

LEMMA BalancersKept == ASSUME BalancersInv, Balancers!Next PROVE BalancersInv'
<1>1. CASE Balancers!ListBalancers \/ Balancers!ListGroups \/ Balancers!EndListing \/ Balancers!Tags
  BY <1>1, ListBalancersStep, ListGroupsStep, EndListingStep, TagsStep
<1>2. CASE Balancers!ReadRules \/ Balancers!EndRules \/ Balancers!DenyRules
  BY <1>2, ReadRulesStep, ListenerStep
<1>3. CASE Balancers!EmitBalancer \/ Balancers!EmitGroup \/ Balancers!Link \/ Balancers!Fail
  BY <1>3, EmitBalancerStep, EmitGroupStep, LinkStep, FailStep
<1>4. CASE Balancers!Done
  BY <1>4, BalancersStay DEF Balancers!Done, Balancers!vars, Balancers!collecting, ofBalancers
<1> QED BY <1>1, <1>2, <1>3, <1>4 DEF Balancers!Next

\* What the graph holds, read off it.
LEMMA GraphIs ==
  ASSUME graph = LinkedGraph
  PROVE  /\ \A f \in Balancers!Sent : /\ \A n \in Balancers!Reaches(f[2]) : <<f[1], n>> \in graph.edges
                                      /\ \A m \in Balancers!Missing(f[2]) : <<f[1], m>> \in graph.findings
         /\ \A e \in invLbs : e.id \in Facing => e.id \in graph.triggers
         /\ \A s \in graph.triggers : \/ \E e \in invLbs : e.id = s
                                      \/ s \in Balancers!Services /\ Balancers!ServiceSays(s).trigger
         /\ \A s \in Balancers!Services : Balancers!ServiceSays(s).trigger => s \in graph.triggers
<1>1. graph.edges = TrafficEdges /\ graph.findings = TrafficFindings /\ graph.triggers = Entrypoints
  BY DEF LinkedGraph
<1>2. \A f \in Balancers!Sent : /\ \A n \in Balancers!Reaches(f[2]) : <<f[1], n>> \in TrafficEdges
                               /\ \A m \in Balancers!Missing(f[2]) : <<f[1], m>> \in TrafficFindings
  <2>1. ASSUME NEW f \in Balancers!Sent, NEW n \in Balancers!Reaches(f[2])
        PROVE  <<f[1], n>> \in TrafficEdges
    <3>1. <<f[1], n>> \in {<<f[1], x>> : x \in Balancers!Reaches(f[2])}
      OBVIOUS
    <3> QED BY <3>1 DEF TrafficEdges
  <2>2. ASSUME NEW f \in Balancers!Sent, NEW m \in Balancers!Missing(f[2])
        PROVE  <<f[1], m>> \in TrafficFindings
    <3>1. <<f[1], m>> \in {<<f[1], x>> : x \in Balancers!Missing(f[2])}
      OBVIOUS
    <3> QED BY <3>1 DEF TrafficFindings
  <2> QED BY <2>1, <2>2
<1>3. /\ \A e \in invLbs : e.id \in Facing => e.id \in Entrypoints
      /\ \A s \in Entrypoints : \/ \E e \in invLbs : e.id = s
                                \/ s \in Balancers!Services /\ Balancers!ServiceSays(s).trigger
      /\ \A s \in Balancers!Services : Balancers!ServiceSays(s).trigger => s \in Entrypoints
  BY DEF Entrypoints
<1> QED BY <1>1, <1>2, <1>3

\* A group requests are forwarded to is one its balancer, as the inventory has it,
\* sends to, unless a call that would have told was denied.
LEMMA ForwardingIsSent ==
  ASSUME BalancersInv, result = "nil", NEW r \in Balancers!Forwarding, ~CutShort("balancers"),
         {<<"listeners", r[1]>>, <<"rules", r[2]>>} \cap warnings = {}
  PROVE  \E e \in invLbs : e.id = r[1] /\ <<e.id, r[3]>> \in Balancers!Sent
<1> DEFINE b == r[1]
           l == r[2]
           t == r[3]
<1>1. /\ b \in Balancers!SeqToSet(BalancerPages) /\ TypeOf[b] # "gateway"
      /\ l \in Balancers!SeqToSet(ListenersOf[b])
      /\ \/ t \in DefaultTo[l]
         \/ /\ TypeOf[b] = "application"
            /\ \E k \in DOMAIN RulePages[l] : \E rule \in RulePages[l][k] : t \in rule
  BY DEF Balancers!Forwarding
<1>2. t \in Sends(b, l)
  BY <1>1 DEF Sends
<1> HIDE DEF b, l, t
<1>3. at = "listeners" /\ Balancers!SeqToSet(lbs) = {}
  BY DEF BalancersInv, Ended, Balancers!SeqToSet
<1>4. PICK e \in invLbs : e.id = b
  BY <1>1, <1>3 DEF BalancersInv, Listed
<1>5. Known(b, l, e.listeners)
  BY <1>1, <1>4 DEF BalancersInv, Emitted, b
<1>6. PICK x \in e.listeners : Sends(b, l) \subseteq UNION x.rules
  BY <1>5 DEF Known, l
<1>7. t \in Balancers!Forwards(e)
  BY <1>2, <1>6 DEF Balancers!Forwards
<1>8. <<e.id, t>> \in Balancers!Sent
  BY <1>7 DEF Balancers!Sent
<1> QED BY <1>4, <1>8 DEF b, t

LEMMA BalancersHold ==
  ASSUME BalancersInv
  PROVE  /\ Balancers!TypeOK /\ Balancers!NoRouteLostInSilence /\ Balancers!ListedIsEmitted
         /\ Balancers!NoListenerWithoutRules /\ Balancers!EntrypointsKnown
<1>0. Listed /\ Reading /\ Emitted /\ Ended
  BY DEF BalancersInv
<1>g. \A t : t \in Balancers!GroupsRead <=> \E g \in invTgs : g.id = t
  BY DEF Balancers!GroupsRead
<1>1. Balancers!TypeOK
  <2>1. /\ Balancers!SeqToSet(lbs) \subseteq Balancers!SeqToSet(BalancerPages)
        /\ Balancers!SeqToSet(tgs) \subseteq Balancers!Groups
    BY <1>0, SetOfSeq DEF Listed
  <2> QED BY <1>0, <1>g, <2>1 DEF Emitted, Ended, OfBalancer, Balancers!TypeOK
<1>2. Balancers!NoListenerWithoutRules
  BY <1>0 DEF Emitted, OfBalancer, Balancers!NoListenerWithoutRules
<1>3. ASSUME result = "nil", ~CutShort("groups") PROVE Balancers!GroupsRead = Balancers!Groups
  <2>1. \A t \in Balancers!Groups : t \in Balancers!GroupsRead
    BY <1>0, <1>3, <1>g DEF Listed, Ended, Balancers!SeqToSet
  <2>2. Balancers!GroupsRead \subseteq Balancers!Groups
    BY <1>1 DEF Balancers!TypeOK
  <2> QED BY <2>1, <2>2
<1>4. Balancers!ListedIsEmitted
  <2>1. result = "nil" /\ ~CutShort("balancers") =>
          \A b \in Balancers!SeqToSet(BalancerPages) :
            TypeOf[b] # "gateway" => \E x \in invLbs : x.id = b
    BY <1>0 DEF Listed, Ended, Balancers!SeqToSet
  <2> QED BY <1>3, <2>1 DEF Balancers!ListedIsEmitted, CutShort
<1>5. ASSUME result = "nil", NEW r \in Balancers!Forwarding, ~CutShort("balancers"),
             {<<"listeners", r[1]>>, <<"rules", r[2]>>} \cap warnings = {},
             r[3] \in Balancers!GroupsRead,
             NEW n \in Balancers!Registered(r[3]) \cup TargetsOf[r[3]]
      PROVE  \/ <<r[1], n>> \in graph.edges \/ <<r[1], n>> \in graph.findings
             \/ <<"health", r[3]>> \in warnings
  <2>1. <<r[1], r[3]>> \in Balancers!Sent
    BY <1>5, ForwardingIsSent
  <2>2. graph = LinkedGraph
    BY <1>0, <1>5 DEF Ended
  <2>3. /\ n \in Balancers!Reaches(r[3]) => <<r[1], n>> \in graph.edges
        /\ n \in Balancers!Missing(r[3]) => <<r[1], n>> \in graph.findings
    BY <2>1, <2>2, GraphIs
  <2>4. CASE n \in Balancers!Registered(r[3])
    <3>1. n \in Balancers!Present
      BY <2>4, StateRulesAssumption
         DEF Balancers!BalancerAssumption, Balancers!Registered, Balancers!Services, Balancers!Present
    <3> QED BY <1>5, <2>3, <2>4, <3>1 DEF Balancers!Reaches
  <2>5. CASE n \in TargetsOf[r[3]] /\ <<"health", r[3]>> \notin warnings
    <3>1. PICK g \in invTgs : g.id = r[3]
      BY <1>5, <1>g
    <3>2. n \in g.targets
      BY <1>0, <2>5, <3>1 DEF Emitted
    <3>3. n \in Balancers!Targets(r[3])
      BY <3>1, <3>2 DEF Balancers!Targets
    <3>4. n \in Balancers!Reaches(r[3]) \/ n \in Balancers!Missing(r[3])
      BY <1>5, <3>3 DEF Balancers!Reaches, Balancers!Missing
    <3> QED BY <2>3, <3>4
  <2> QED BY <1>5, <2>4, <2>5
<1>6. Balancers!NoRouteLostInSilence
  <2> SUFFICES ASSUME result = "nil", NEW r \in Balancers!Forwarding,
                      ~Balancers!Unheard(r[1], r[2], r[3]),
                      NEW n \in Balancers!Registered(r[3]) \cup TargetsOf[r[3]]
               PROVE  \/ <<r[1], n>> \in graph.edges \/ <<r[1], n>> \in graph.findings
                      \/ <<"health", r[3]>> \in warnings
    BY DEF Balancers!NoRouteLostInSilence
  <2>1. /\ ~CutShort("balancers") /\ r[3] \in Balancers!GroupsRead
        /\ {<<"listeners", r[1]>>, <<"rules", r[2]>>} \cap warnings = {}
    BY DEF Balancers!Unheard, CutShort
  <2> QED BY <1>5, <2>1
<1>7. ASSUME result = "nil", NEW s \in graph.triggers \cap Balancers!Services
      PROVE  CutShort("groups") \/ ~(Registers[s] \subseteq Balancers!Groups)
  <2>1. graph = LinkedGraph
    BY <1>0, <1>7 DEF Ended
  <2>2. ~\E e \in invLbs : e.id = s
    BY <1>0, <1>7, StateRulesAssumption DEF Emitted, Balancers!BalancerAssumption
  <2>3. Balancers!ServiceSays(s).trigger
    BY <1>7, <2>1, <2>2, GraphIs
  <2>4. Registers[s] \ Balancers!GroupsRead # {}
    BY <2>3 DEF Balancers!ServiceSays
  <2> QED BY <1>3, <1>7, <2>4
<1>8. ASSUME result = "nil", NEW r \in Balancers!Forwarding, r[1] \in Facing,
             NEW s \in Balancers!Registered(r[3]), ~CutShort("balancers"),
             {<<"listeners", r[1]>>, <<"rules", r[2]>>} \cap warnings = {}
      PROVE  s \in graph.triggers \/ \E b \in graph.triggers : <<b, s>> \in graph.edges
  <2>1. graph = LinkedGraph
    BY <1>0, <1>8 DEF Ended
  <2>2. s \in Balancers!Services /\ r[3] \in Registers[s]
    BY DEF Balancers!Registered, Balancers!Services
  <2>3. CASE r[3] \notin Balancers!GroupsRead
    <3>1. Balancers!ServiceSays(s).trigger
      BY <2>2, <2>3 DEF Balancers!ServiceSays
    <3> QED BY <2>1, <2>2, <3>1, GraphIs
  <2>4. CASE r[3] \in Balancers!GroupsRead
    <3>1. PICK e \in invLbs : e.id = r[1] /\ <<e.id, r[3]>> \in Balancers!Sent
      BY <1>8, ForwardingIsSent
    <3>2. s \in Balancers!Present
      BY <2>2, StateRulesAssumption DEF Balancers!BalancerAssumption, Balancers!Present
    <3>3. s \in Balancers!Reaches(r[3])
      BY <2>4, <3>2 DEF Balancers!Reaches
    <3>4. r[1] \in graph.triggers
      BY <1>8, <2>1, <3>1, GraphIs
    <3>5. <<r[1], s>> \in graph.edges
      BY <2>1, <3>1, <3>3, GraphIs
    <3> QED BY <3>4, <3>5
  <2> QED BY <2>3, <2>4
<1>9. Balancers!EntrypointsKnown
  <2> SUFFICES ASSUME result = "nil"
               PROVE  /\ \A s \in graph.triggers \cap DOMAIN Registers :
                           <<"groups", "">> \in warnings \/ ~(Registers[s] \subseteq Balancers!Groups)
                      /\ \A r \in Balancers!Forwarding : r[1] \in Facing =>
                           \A s \in Balancers!Registered(r[3]) :
                             \/ s \in graph.triggers \/ \E b \in graph.triggers : <<b, s>> \in graph.edges
                             \/ {<<"balancers", "">>, <<"listeners", r[1]>>, <<"rules", r[2]>>} \cap warnings # {}
    BY DEF Balancers!EntrypointsKnown
  <2>1. \A s \in graph.triggers \cap DOMAIN Registers :
          <<"groups", "">> \in warnings \/ ~(Registers[s] \subseteq Balancers!Groups)
    BY <1>7 DEF CutShort, Balancers!Services
  <2>2. ASSUME NEW r \in Balancers!Forwarding, r[1] \in Facing, NEW s \in Balancers!Registered(r[3]),
               {<<"balancers", "">>, <<"listeners", r[1]>>, <<"rules", r[2]>>} \cap warnings = {}
        PROVE  s \in graph.triggers \/ \E b \in graph.triggers : <<b, s>> \in graph.edges
    <3>1. /\ ~CutShort("balancers")
          /\ {<<"listeners", r[1]>>, <<"rules", r[2]>>} \cap warnings = {}
      BY <2>2 DEF CutShort
    <3> QED BY <1>8, <2>2, <3>1
  <2> QED BY <2>1, <2>2
<1> QED BY <1>1, <1>2, <1>4, <1>6, <1>9

OfBalancers == family = "balancers" => BalancersInv

LEMMA BalancersAlways == Spec => []OfBalancers
<1>1. Init => OfBalancers
  BY BalancersBegin DEF Init, OfBalancers
<1>2. OfBalancers /\ [Next]_vars => OfBalancers'
  <2> SUFFICES ASSUME OfBalancers, [Next]_vars, family' = "balancers"
               PROVE  BalancersInv'
    BY DEF OfBalancers
  <2>1. CASE family = "balancers" /\ Balancers!Next
    BY <2>1, BalancersKept DEF OfBalancers
  <2>2. CASE UNCHANGED vars
    BY <2>2, BalancersStay DEF OfBalancers, vars
  <2> QED BY <2>1, <2>2 DEF Next
<1> QED BY <1>1, <1>2, PTL DEF Spec

(* For all balancers, listeners, rules, groups and targets, and all calls  *)
(* that may be denied: whatever receives a balancer's traffic has an edge  *)
(* from it, or is reported, or the call that would have told was denied;   *)
(* what was listed is emitted, and no listener is without rules.           *)
THEOREM TrafficIsAccounted == Spec => []TrafficAccounted
<1>1. OfBalancers => TrafficAccounted
  BY BalancersHold DEF OfBalancers, TrafficAccounted
<1> QED BY <1>1, BalancersAlways, PTL

(* For all of them: a service the internet reaches is an entrypoint or     *)
(* behind one, and one marked on its own word is one whose group nothing   *)
(* was read of, or is gone.                                                *)
THEOREM EntrypointsAreKnown == Spec => []EntrypointsKnown
<1>1. OfBalancers => EntrypointsKnown
  BY BalancersHold DEF OfBalancers, EntrypointsKnown
<1> QED BY <1>1, BalancersAlways, PTL
=============================================================================
