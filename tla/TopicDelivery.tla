--------------------------- MODULE TopicDelivery ----------------------------
(***************************************************************************)
(* What topics, queues and mappings hand on, and to whom (rule_sns.go,     *)
(* rule_sqs.go, rule_lambda.go).  A subscription is only a declaration:    *)
(* the receiver's own policy decides whether SNS may deliver.  Receivers'  *)
(* policies say in turn what they expect, and are held against the edges   *)
(* once every rule has run.                                                *)
(*                                                                         *)
(* A statement is a record: whether it allows or denies; its action, "yes" *)
(* when its list has the one asked about (or, for a function, lambda:* or  *)
(* any), "wild" when only another pattern covers it, "butThis" or          *)
(* "butOthers" for a NotAction with or without it; who it names, "notSns"  *)
(* and "notOthers" for a NotPrincipal; the first aws:SourceArn it is       *)
(* conditioned on, or NoSource, and the topics its further values let      *)
(* besides; whether it is conditioned on the account's own sources (a      *)
(* topic here is one); whether its other conditions, which no rule reads,  *)
(* are met by a delivery.                                                  *)
(***************************************************************************)
EXTENDS Naturals, FiniteSets

CONSTANTS
    Topics, Queues, Functions,  \* all of them nodes
    Policies,       \* what the policies may be: [Topics and Receivers -> statements]
    Patterned,      \* the topics an aws:SourceArn with a wildcard matches
    Subscribing,    \* [Topics -> the sets of subscriptions it may have]
    Mappings,       \* event source mappings [from, to, here, enabled]
    DeadLetters     \* redrive policies and function DLQs [from, to, here]

Receivers == Queues \cup Functions
NoSource == "none"
NoQueue == "none"
Outside == {"foreign", "pattern"}   \* a topic elsewhere; one named with * or ?

(* Only a receiver polls or hands on its failures; what is subscribed and  *)
(* no node, and what a condition says that is no topic, are names apart.   *)
Statements ==
    [allow : BOOLEAN, action : {"yes", "wild", "no", "butThis", "butOthers"},
     who : {"sns", "anyone", "service", "other", "role", "notSns", "notOthers"},
     source : Topics \cup Outside \cup {NoSource}, besides : SUBSET Topics,
     own : BOOLEAN, met : BOOLEAN]

(* A subscription not confirmed may be listed without an ARN, or be told   *)
(* by its attributes, which are asked for by that ARN.                     *)
Subscriptions ==
    {sub \in [to : Receivers \cup {"url", "stream", "person"}, here : BOOLEAN,
             pending : BOOLEAN, arn : BOOLEAN, dlq : Queues \cup {NoQueue}] : sub.arn \/ sub.pending}
DeliveryAssumption ==
    /\ Topics \cap Receivers = {} /\ {"url", "stream", NoQueue} \cap Receivers = {}
    /\ Topics \cap (Outside \cup {NoSource}) = {} /\ Patterned \subseteq Topics
    /\ Policies \subseteq [Topics \cup Receivers -> SUBSET Statements]
    /\ \A t \in Topics : Subscribing[t] \subseteq SUBSET Subscriptions
    /\ \A m \in Mappings \cup DeadLetters : m.from \notin Topics

VARIABLES
    subs,       \* [Topics -> its subscriptions in AWS]
    policy,     \* [Topics and Receivers -> the statements of its policy]
    unread,     \* topics whose subscriptions, functions whose policy were denied
    blind,      \* topics the attributes of whose subscriptions were denied
    todo,       \* the rule and thing applications left
    edges,      \* [<<from, to, kind>> -> status], drawn so far
    expected,   \* corroborations: <<topic, receiver>> a policy names
    triggers,   \* nodes reachable from outside the graph
    findings    \* <<kind, node, target>>

vars == <<subs, policy, unread, blind, todo, edges, expected, triggers, findings>>
account == <<subs, policy, unread, blind>>

Rank(status) == CASE status = "active" -> 2 [] status = "unsettled" -> 1 [] OTHER -> 0
Dullest(ss) == CHOOSE s \in ss : \A x \in ss : Rank(s) <= Rank(x)
Liveliest(ss) == CHOOSE s \in ss : \A x \in ss : Rank(s) >= Rank(x)
When(condition, x) == IF condition THEN {x} ELSE {}

\* addEdge, for declarations <<key, status>>: the liveliest status wins.
AddEdges(declared) ==
    edges' = [k \in DOMAIN edges \cup {d[1] : d \in declared} |->
                Liveliest({d[2] : d \in {x \in declared : x[1] = k}}
                            \cup {edges[old] : old \in DOMAIN edges \cap {k}})]

----------------------------------------------------------------------------
(* Policies.                                                               *)

Topical(st, topic) ==
    st.source \in {NoSource, topic} \/ (st.source = "pattern" /\ topic \in Patterned)

(* policyLetsService: generous, it is used to claim a refusal.             *)
LetsPositive(statements, topic) ==
    \E st \in statements :
        st.allow /\ st.action \in {"yes", "wild"} /\ st.who \in {"sns", "anyone"} /\ Topical(st, topic)
Lets(statements, topic) ==
    \E st \in statements :
        /\ st.allow /\ st.action # "no"
        /\ st.who \in {"sns", "anyone", "notSns", "notOthers"}
        /\ Topical(st, topic)

RefusesUnread(r, topic) == ~Lets(IF r \in unread THEN {} ELSE policy[r], topic)
Refuses(r, topic) == r \notin unread /\ ~Lets(policy[r], topic)

----------------------------------------------------------------------------
(* sns.subscription.  A subscription goes to a receiver, with or without a *)
(* dead-letter queue, to a third party ("url"), to what has no collector   *)
(* ("stream"), or to a person, whose address is withheld.                  *)

StatusActive(sub) == "active"
Status(sub) == IF sub.pending THEN "disabled" ELSE "active"
ToReceiver(sub) == sub.to \in Receivers /\ sub.here

Delivers(topic, sub) ==
    sub.to = "url" \/ (ToReceiver(sub) /\ (sub.pending \/ ~Refuses(sub.to, topic)))
Blocked(topic, sub) == ToReceiver(sub) /\ ~sub.pending /\ Refuses(sub.to, topic)
HasDlq(sub) == ToReceiver(sub) /\ sub.dlq \in Queues

Delivery(topic, sub) ==
    [edges |-> When(Delivers(topic, sub), <<<<topic, sub.to, "publish">>, Status(sub)>>)
                \cup When(HasDlq(sub) /\ ~Refuses(sub.dlq, topic),
                          <<<<topic, sub.dlq, "publish">>, Status(sub)>>),
     findings |-> When(Blocked(topic, sub), <<"blocked", topic, sub.to>>)
                \cup When(HasDlq(sub) /\ Refuses(sub.dlq, topic), <<"blocked", topic, sub.dlq>>)
                \cup When(sub.to = "stream" \/ (sub.to \in Receivers /\ ~sub.here),
                          <<"unresolved", topic, sub.to>>)]

\* An Allow that covers publishing, to a service or to anyone beyond the account.
OutsidePublishes(topic) ==
    \E st \in policy[topic] :
        /\ st.allow /\ st.action \in {"yes", "wild"}
        /\ st.who \in {"service", "sns", "other"} \/ (st.who = "anyone" /\ ~st.own)

(* A denied page of subscriptions keeps those before it; once the          *)
(* attributes of one are denied, those of the rest are not asked for.      *)
(* Without them there is no dead-letter queue, and only what was listed    *)
(* without an ARN is known to be pending.                                  *)
Unattributed(sub) == [sub EXCEPT !.dlq = NoQueue, !.pending = ~sub.arn]
ReadOfAttributed(t) ==
    {[sub \in kept |-> TRUE] :
        kept \in IF t \in unread \cup blind THEN SUBSET subs[t] ELSE {subs[t]}}
ReadOf(t) ==
    {[sub \in kept |-> sub \in asked] : kept \in IF t \in unread THEN SUBSET subs[t] ELSE {subs[t]},
                                        asked \in IF t \in blind THEN SUBSET subs[t] ELSE {subs[t]}}
Listed(asked) ==
    {IF asked[sub] /\ sub.arn THEN sub ELSE Unattributed(sub) : sub \in DOMAIN asked}

SnsRule(t) ==
    /\ <<"sns", t>> \in todo /\ todo' = todo \ {<<"sns", t>>}
    /\ \E asked \in ReadOf(t) :
          /\ AddEdges(UNION {Delivery(t, sub).edges : sub \in Listed(asked)})
          /\ findings' = findings \cup When(t \in unread, <<"unscanned", t, t>>)
                           \cup UNION {Delivery(t, sub).findings : sub \in Listed(asked)}
    /\ triggers' = triggers \cup When(OutsidePublishes(t), t)
    /\ UNCHANGED <<account, expected>>

----------------------------------------------------------------------------
(* sqs.resource-policy and lambda.resource-policy: who may send or invoke. *)

Names(st) == \/ st.who = "sns"
             \/ st.who = "anyone" /\ st.source \in Topics \cup Outside

\* A function's rule looks the action up in the list, a queue's matches patterns.
Allows(r, st) == st.allow /\ st.action \in (IF r \in Functions THEN {"yes"} ELSE {"yes", "wild"})

\* A function's policy reads no SourceArn of a statement for anyone.
SnsStatements(r) ==
    {st \in policy[r] : Allows(r, st) /\ Names(st) /\ (r \in Functions => st.who = "sns")}
ExpectsAnywhere(r) == {<<st.source, r>> : st \in {x \in SnsStatements(r) : x.source # NoSource}}
Expects(r) == {<<st.source, r>> : st \in {x \in SnsStatements(r) : x.source \in Topics}}
OutsideSendsNamed(r) ==
    \/ \E st \in SnsStatements(r) : st.source \in Outside
    \/ \E st \in policy[r] \ SnsStatements(r) : Allows(r, st) /\ st.who = "other"
OutsideSends(r) ==
    \/ \E st \in SnsStatements(r) : st.source \notin Topics
    \/ \E st \in policy[r] \ SnsStatements(r) :
          /\ Allows(r, st)
          /\ st.who \in {"service", "other"}
                \/ (st.who = "anyone" /\ (r \in Functions \/ ~st.own))

PolicyRule(r) ==
    /\ <<"policy", r>> \in todo /\ todo' = todo \ {<<"policy", r>>}
    /\ expected' = expected \cup (IF r \in unread THEN {} ELSE Expects(r))
    /\ triggers' = triggers \cup When(r \notin unread /\ OutsideSends(r), r)
    /\ UNCHANGED <<account, edges, findings>>

----------------------------------------------------------------------------
(* lambda.event-source-mapping, lambda.dead-letter and sqs.redrive.        *)

MappingStatus(m) ==
    CASE m.enabled = "on" -> "active" [] m.enabled = "off" -> "disabled" [] OTHER -> "unsettled"

DeclaredRule ==
    /\ <<"declared", "all">> \in todo /\ todo' = todo \ {<<"declared", "all">>}
    /\ AddEdges({<<<<m.from, m.to, "consume">>, MappingStatus(m)>> : m \in {x \in Mappings : x.here}}
                \cup {<<<<d.from, d.to, "publish">>, "active">> : d \in {x \in DeadLetters : x.here}})
    /\ findings' = findings
          \cup {<<"unresolved", m.to, m.from>> : m \in {x \in Mappings : ~x.here}}
          \cup {<<"unresolved", d.from, d.to>> : d \in {x \in DeadLetters : ~x.here}}
    /\ UNCHANGED <<account, expected, triggers>>

(* resolveCorroborations, after every rule: evidence for an edge that      *)
(* exists, and otherwise the finding the rule supplied.                    *)
ResolveEarly ==
    /\ <<"resolve", "all">> \in todo
    /\ todo' = todo \ {<<"resolve", "all">>}
    /\ findings' = findings \cup {<<"stale", x[2], x[1]>> :
            x \in {y \in expected : <<y[1], y[2], "publish">> \notin DOMAIN edges}}
    /\ UNCHANGED <<account, edges, expected, triggers>>
Resolve ==
    /\ todo = {<<"resolve", "all">>} /\ todo' = {}
    /\ findings' = findings \cup {<<"stale", x[2], x[1]>> :
            x \in {y \in expected : <<y[1], y[2], "publish">> \notin DOMAIN edges}}
    /\ UNCHANGED <<account, edges, expected, triggers>>

Init ==
    /\ subs \in {f \in [Topics -> UNION {Subscribing[t] : t \in Topics}] :
                    \A t \in Topics : f[t] \in Subscribing[t]}
    /\ policy \in Policies
    /\ unread \in SUBSET (Topics \cup Functions)
    /\ blind \in SUBSET {t \in Topics : \E sub \in subs[t] : sub.arn /\ Unattributed(sub) # sub}
    /\ todo = ({"sns"} \X Topics) \cup ({"policy"} \X Receivers)
                \cup {<<"declared", "all">>, <<"resolve", "all">>}
    /\ edges = [k \in {} |-> "active"] /\ expected = {} /\ triggers = {} /\ findings = {}

Done == todo = {} /\ UNCHANGED vars

Next ==
    \/ \E t \in Topics : SnsRule(t)
    \/ \E r \in Receivers : PolicyRule(r)
    \/ DeclaredRule
    \/ Resolve
    \/ Done

Spec == Init /\ [][Next]_vars

----------------------------------------------------------------------------
(* The types: edges lead from what was applied, findings to known kinds.   *)
TypeOK ==
    /\ \A k \in DOMAIN edges : edges[k] \in {"active", "unsettled", "disabled"}
    /\ \A k \in DOMAIN edges : k[3] = "publish" /\ k[1] \in Topics => <<"sns", k[1]>> \notin todo
    /\ expected \subseteq Topics \X Receivers /\ triggers \subseteq Topics \cup Receivers
    /\ \A f \in findings : f[1] \in {"blocked", "unresolved", "unscanned", "stale"}

(* What AWS itself does: some statement allows the delivery and none       *)
(* denies it, a NotAction or NotPrincipal covering what it does not list.  *)
Applies(st, topic) ==
    /\ st.action \in {"yes", "wild", "butOthers"} /\ st.who \in {"sns", "anyone", "notOthers"}
    /\ Topical(st, topic) \/ topic \in st.besides
    /\ st.met
Grants(r, topic) ==
    /\ \E st \in policy[r] : st.allow /\ Applies(st, topic)
    /\ ~\E st \in policy[r] : ~st.allow /\ Applies(st, topic)

(* What policyLetsService lets pass without looking: a Deny, a NotAction   *)
(* or NotPrincipal that names the very send, a condition on another key.   *)
Unjudged(r, topic) ==
    \E st \in policy[r] :
        \/ ~st.allow /\ Applies(st, topic)
        \/ st.allow /\ (st.action = "butThis" \/ st.who = "notSns" \/ ~st.met)

(* Where a subscription really leads, in this account; what of it the scan *)
(* could see; and whether it is taken for confirmed, as one whose          *)
(* attributes nobody read is.                                              *)
Targets(sub) == When(ToReceiver(sub), sub.to) \cup When(HasDlq(sub), sub.dlq)
Seen(t, sub) == IF t \in blind \/ ~sub.arn THEN Unattributed(sub) ELSE sub
Taken(t, sub) == ~sub.pending \/ (t \in blind /\ sub.arn)

(* A refusal is claimed only when nothing could allow: what is blocked is  *)
(* really dropped by AWS, whatever form the grant has and though a policy  *)
(* could not be read, unless a condition names the topic second; and an    *)
(* active edge is a delivery AWS makes, unless the policy was not read or  *)
(* has a form that is not judged, or whether the subscription is confirmed *)
(* was not read (policyLetsService, sourceArn, deliver, SNS.topic).        *)
BlockedIsRefused ==
    \A f \in findings : f[1] = "blocked" /\ Grants(f[3], f[2]) =>
        \E st \in policy[f[3]] : f[2] \in st.besides
ActiveIsDelivered ==
    \A k \in {x \in DOMAIN edges : x[1] \in Topics /\ x[2] \in Receivers} :
        edges[k] = "active" => /\ k[2] \in unread \/ Grants(k[2], k[1]) \/ Unjudged(k[2], k[1])
                               /\ \E sub \in subs[k[1]] : Taken(k[1], sub) /\ k[2] \in Targets(sub)

(* The sender's rule and the receiver's never contradict each other: a     *)
(* topic said to be refused is not also expected, and one that delivers,   *)
(* or would once confirmed, has no stale permission (policyLetsService and *)
(* snsSource read the same policy in two ways).                            *)
RulesAgree ==
    \A f \in findings :
        f[1] = "stale" => /\ <<f[3], f[2], "publish">> \notin DOMAIN edges
                          /\ <<"blocked", f[3], f[2]>> \notin findings

(* Several declarations make one edge, and the liveliest of them decides   *)
(* what it carries: a disabled mapping, or a subscription not confirmed,   *)
(* never silences one that is.                                             *)
LiveliestWins ==
    todo = {} =>
        /\ \A m \in Mappings : m.here => Rank(edges[<<m.from, m.to, "consume">>]) >= Rank(MappingStatus(m))
        /\ \A t \in Topics \ unread : \A sub \in {x \in subs[t] : ToReceiver(x) /\ ~x.pending} :
              \/ <<"blocked", t, sub.to>> \in findings
              \/ edges[<<t, sub.to, "publish">>] = "active"

(* A permission said to be stale is: no subscription of that topic leads   *)
(* to the receiver, unless the topic is said to be unread, or what does is *)
(* a dead-letter queue whose attributes nobody read, which nothing says    *)
(* (snsSource's finding against what deliver was given to read).           *)
StaleIsTrue ==
    \A f \in findings : f[1] = "stale" =>
        IF f[3] \in unread THEN <<"unscanned", f[3], f[3]>> \in findings
        ELSE \A sub \in subs[f[3]] : f[2] \notin Targets(Seen(f[3], sub))

(* The grants no rule of this tier speaks of: by a NotAction or a          *)
(* NotPrincipal, to a role of the account (Tier 3's), to the account's own *)
(* services (AWS's default statement), and to a function by a wildcard.    *)
Unsaid(r, st) ==
    \/ st.action \in {"butThis", "butOthers"} \/ st.who \in {"notSns", "notOthers", "role"}
    \/ r \in Queues /\ st.who = "anyone" /\ st.own /\ st.source = NoSource
    \/ r \in Functions /\ st.action = "wild"

(* Whoever a policy lets send is accounted for, but for the Unsaid forms:  *)
(* by the topic's edge, as a stale permission, or as the reason the        *)
(* receiver is an entrypoint; and where the topic's subscriptions were not *)
(* read, the stale permission does not stand without that being said.      *)
GrantIsSaid ==
    todo = {} => \A r \in Receivers \ unread : \A st \in policy[r] :
        st.allow /\ st.action # "no" /\ ~Unsaid(r, st) =>
            \/ r \in triggers
            \/ <<st.source, r, "publish">> \in DOMAIN edges
            \/ /\ <<"stale", r, st.source>> \in findings
               /\ st.source \in unread => <<"unscanned", st.source, st.source>> \in findings
=============================================================================
