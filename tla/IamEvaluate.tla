---------------------------- MODULE IamEvaluate ----------------------------
(***************************************************************************)
(* iam.policy-resource: what one workload's role allows on the targets of  *)
(* the inventory, turned into claims, into what is known to be permitted,  *)
(* and into findings.                                                      *)
(*                                                                         *)
(* An action is <<service, verb>>; an ARN is <<target, part>>.  An entry   *)
(* of a policy stands for what wildMatch makes it match (WildMatch): an    *)
(* Action entry covers actions and is wide when it grants a whole service, *)
(* a Resource entry reaches ARNs and its name segment is "exact", a        *)
(* "pattern", or "every".  NotAction is one wide entry, NotResource one    *)
(* entry named "every".                                                    *)
(***************************************************************************)
EXTENDS Integers, Sequences, FiniteSets

CONSTANTS
  Targets,     \* queues, tables and functions that are nodes
  TypeOf,      \* TypeOf[t]: "queue", "table" or "function"
  PartsOf,     \* PartsOf[t]: the ARNs it has beside its own: "index", "stream"
  Holders,     \* what runs as the role: "service", "function", "api"
  Mappings,    \* sets of targets event source mappings may link to it
  OwnPolicies, \* what the targets' own policies may say
  Roles        \* roles as they are: policies and boundary, read or not

Low == 1
Medium == 2

ArnsOf(t) == {<<t, part>> : part \in PartsOf[t] \cup {"own"}}

ActionEntries == [covers : SUBSET (STRING \X STRING), wide : BOOLEAN]
ResourceEntries == [reaches : SUBSET UNION {ArnsOf(t) : t \in Targets},
                    name : {"exact", "pattern", "every"},
                    lost : {"queue", "table", "function", "no"}]

Statements == [allow : BOOLEAN, conditional : BOOLEAN,
               actions : Seq(ActionEntries), resources : Seq(ResourceEntries)]

ASSUME RoleAssumption ==
  /\ TypeOf \in [Targets -> {"queue", "table", "function"}]
  /\ PartsOf \in [Targets -> SUBSET {"index", "stream"}]
  /\ IsFiniteSet(Targets) /\ Mappings \subseteq SUBSET Targets
  /\ \A r \in Roles : r.boundary = <<>> \/ DOMAIN r.boundary = {1}
  /\ \A r \in Roles : \A d \in r.documents \cup {r.boundary[k] : k \in DOMAIN r.boundary} :
       d.statements \subseteq Statements

\* The classes of actions that state an intent, and the ARNs each of their
\* actions is checked against.  The other reads behave as GetItem or as Query,
\* the other writes as PutItem; databases, caches and topics as queues do.
ActionClasses(type) ==
  CASE type = "queue" ->
         {[kind |-> "publish", reverse |-> FALSE,
           on |-> [a \in {<<"sqs", "SendMessage">>} |-> {"own"}]],
          [kind |-> "consume", reverse |-> TRUE,
           on |-> [a \in {<<"sqs", "ReceiveMessage">>} |-> {"own"}]]}
    [] type = "table" ->
         {[kind |-> "read", reverse |-> FALSE,
           on |-> [a \in {<<"dynamodb", "GetItem">>, <<"dynamodb", "Query">>} |->
                     IF a[2] = "Query" THEN {"own", "index"} ELSE {"own"}]],
          [kind |-> "write", reverse |-> FALSE,
           on |-> [a \in {<<"dynamodb", "PutItem">>} |-> {"own"}]],
          [kind |-> "consume", reverse |-> TRUE,
           on |-> [a \in {<<"dynamodb", "GetRecords">>} |-> {"stream"}]]}
    [] type = "function" ->
         {[kind |-> "invoke", reverse |-> FALSE,
           on |-> [a \in {<<"lambda", "InvokeFunction">>} |-> {"own"}]]}

VARIABLES
  holder,   \* one of Holders
  role,     \* the role it runs as, or <<>> when it is not in the inventory
  mapped,   \* targets an event source mapping links to the holder
  policies, \* policies[t]: the target's own policy: "none", "grants", "unread"
  at,       \* "start", "targets", "done"
  todo,     \* targets still to evaluate
  claims,   \* what was permitted or corroborated
  eval,     \* b.evals[holder]: <<>>, or what is known
  broad,    \* services reached by a grant on everything
  findings

inputs == <<holder, role, mapped, policies>>
vars == <<inputs, at, todo, claims, eval, broad, findings>>

Finding(kind, target) == [kind |-> kind, target |-> target]

-----------------------------------------------------------------------------
\* readRole: the statements that could be read, and what could not.
Identity == UNION {d.statements : d \in {e \in role[1].documents : e.readable}}
Unread == role[1].unread \/ \E d \in role[1].documents : ~d.readable
HasBoundary == role[1].boundary # <<>>
BoundaryUnread == HasBoundary /\ ~role[1].boundary[1].readable

\* Mutant of ActionEntry: only the first entry is compared.
ActionEntryOfFirst(st, a) ==
  {st.actions[k] : k \in {j \in DOMAIN st.actions : j = 1 /\ a \in st.actions[j].covers}}

\* statement.action and statement.resource: the first entry that matches.
ActionEntry(st, a) ==
  {st.actions[k] : k \in {j \in DOMAIN st.actions :
     /\ a \in st.actions[j].covers
     /\ \A l \in 1 .. (j - 1) : a \notin st.actions[l].covers}}

ResourceEntry(st, arn) ==
  {st.resources[k] : k \in {j \in DOMAIN st.resources :
     /\ arn \in st.resources[j].reaches
     /\ \A l \in 1 .. (j - 1) : arn \notin st.resources[l].reaches}}

Applies(st, a, arn) == ActionEntry(st, a) # {} /\ ResourceEntry(st, arn) # {}

Denies(sts, a, arn) ==
  \E st \in sts : ~st.allow /\ ~st.conditional /\ Applies(st, a, arn)

\* Mutant of Cancelled: the boundary's allowances are not asked for.
CancelledByDeny(a, arn) ==
  \/ Denies(Identity, a, arn)
  \/ /\ HasBoundary /\ ~BoundaryUnread
     /\ Denies(role[1].boundary[1].statements, a, arn)

\* roleView.cancelled: a boundary that could not be read cancels nothing.
Cancelled(a, arn) ==
  \/ Denies(Identity, a, arn)
  \/ /\ HasBoundary /\ ~BoundaryUnread
     /\ LET sts == role[1].boundary[1].statements IN
        Denies(sts, a, arn) \/ ~\E st \in sts : st.allow /\ Applies(st, a, arn)

\* The actions of a class with the ARNs of a target each is checked on.
Checks(t, cl) == {x \in (DOMAIN cl.on) \X ArnsOf(t) : x[2][2] \in cl.on[x[1]]}

\* The statements that allow an action of a class on a target, with the entries
\* that made them match.
Grants(t, cl) ==
  UNION {{[st |-> st, granted |-> x[1], on |-> x[2], action |-> ae, entry |-> re] :
            ae \in ActionEntry(st, x[1]), re \in ResourceEntry(st, x[2])} :
         st \in {s \in Identity : s.allow}, x \in Checks(t, cl)}

Allowed(t, cl) == {g \in Grants(t, cl) : ~Cancelled(g.granted, g.on)}
Specific(t, cl) == {g \in Allowed(t, cl) : g.entry.name # "every"}

\* matchCount: how many targets of t's type an entry reaches.
MatchCount(entry, t) ==
  Cardinality({u \in Targets : TypeOf[u] = TypeOf[t] /\ ArnsOf(u) \cap entry.reaches # {}})

\* Mutant of Confidence: a pattern is taken for the one target it was met on.
ConfidenceOfAny(t, grants, poll) ==
  IF grants # {} /\ ~BoundaryUnread /\ ~poll THEN Medium ELSE Low

\* Mutant of Confidence: a role is taken for a use.
ConfidenceOfUse(t, grants, poll) ==
  IF BoundaryUnread \/ poll THEN Low ELSE Medium + 1

\* A permission is medium at most, and low where it may be another target's.
Confidence(t, grants, poll) ==
  IF /\ \E g \in grants : g.entry.name = "exact" \/ MatchCount(g.entry, t) = 1
     /\ ~BoundaryUnread /\ ~poll
  THEN Medium ELSE Low

\* claim: one claim for each statement and entry that grants it.
Claim(t, kind, reverse, grants, poll) ==
  {[op   |-> IF holder = "api" THEN "corroborate" ELSE "permit",
    target |-> t, kind |-> kind, reverse |-> reverse,
    conf |-> Confidence(t, grants, poll), st |-> g.st, entry |-> g.entry] : g \in grants}

\* Mutant of ClaimsOn: every verb a wide grant permits is drawn.
ClaimsOnUnstated(t) ==
  LET results == {cl \in ActionClasses(TypeOf[t]) : Specific(t, cl) # {}} IN
  UNION {Claim(t, cl.kind, cl.reverse, Specific(t, cl),
               cl.reverse /\ holder = "function" /\ t \notin mapped) : cl \in results}

\* Intent comes from actions a statement names; without one, a reference.  A
\* function receives through a mapping: without one, a leftover grant.
ClaimsOn(t) ==
  LET results == {cl \in ActionClasses(TypeOf[t]) : Specific(t, cl) # {}}
      stated  == {cl \in results : \E g \in Specific(t, cl) : ~g.action.wide} IN
  IF stated = {}
  THEN Claim(t, "references", FALSE, UNION {Specific(t, cl) : cl \in results}, FALSE)
  ELSE UNION {Claim(t, cl.kind, cl.reverse, Specific(t, cl),
                    cl.reverse /\ holder = "function" /\ t \notin mapped) : cl \in stated}

\* reportBlocked: guardrails, which name neither, are not reported.
Blocked(t) ==
  \E cl \in ActionClasses(TypeOf[t]) :
    \E g \in Grants(t, cl) \ Allowed(t, cl) : g.entry.name # "every" /\ ~g.action.wide

Init ==
  /\ holder \in Holders /\ role \in {<<r>> : r \in Roles} \cup {<<>>}
  /\ mapped \in Mappings /\ policies \in OwnPolicies
  /\ at = "start" /\ todo = Targets /\ claims = {} /\ eval = <<>>
  /\ broad = {} /\ findings = {}

\* The role is not in the inventory: nothing is evaluated.  An API's is not
\* looked for.
Missing ==
  /\ at = "start" /\ role = <<>>
  /\ at' = "done"
  /\ findings' = IF holder = "api" THEN findings
                 ELSE findings \cup {Finding("unscanned", "role")}
  /\ UNCHANGED <<inputs, todo, claims, eval, broad>>

\* evaluate, up to its loop.
Start ==
  /\ at = "start" /\ role # <<>>
  /\ at' = "targets"
  /\ eval' = IF holder = "api" THEN <<>>
             ELSE <<[complete |-> ~Unread /\ ~BoundaryUnread, permitted |-> {}]>>
  /\ findings' = findings \cup (IF Unread THEN {Finding("unscanned", "role")} ELSE {})
                          \cup (IF BoundaryUnread THEN {Finding("unscanned", "boundary")} ELSE {})
  /\ UNCHANGED <<inputs, todo, claims, broad>>

\* Mutant of Permitted: only what draws an edge counts.
PermittedIfDrawn(t) ==
  policies[t] # "none" \/ \E cl \in ActionClasses(TypeOf[t]) : Specific(t, cl) # {}

\* A broad grant counts, and so does a policy of the target's own.
Permitted(t) ==
  policies[t] # "none" \/ \E cl \in ActionClasses(TypeOf[t]) : Allowed(t, cl) # {}

\* One turn of evaluate's loop over the targets.
Evaluate(t) ==
  /\ at = "targets" /\ t \in todo
  /\ todo' = todo \ {t}
  /\ claims' = claims \cup ClaimsOn(t)
  /\ broad' = broad \cup {g.granted[1] : g \in
       UNION {Allowed(t, cl) \ Specific(t, cl) : cl \in ActionClasses(TypeOf[t])}}
  /\ eval' = IF eval # <<>> /\ Permitted(t)
             THEN <<[eval[1] EXCEPT !.permitted = @ \cup {t}]>> ELSE eval
  /\ findings' = IF holder # "api" /\ Blocked(t)
                 THEN findings \cup {Finding("blocked", t)} ELSE findings
  /\ UNCHANGED <<inputs, at>>

\* reportOutside: the types of what a grant names exactly and is not a node.
Outside ==
  {type \in {"queue", "table", "function"} :
     \E st \in {s \in Identity : s.allow} :
       /\ \E k \in DOMAIN st.resources : st.resources[k].lost = type
       /\ \E cl \in ActionClasses(type) :
            \E a \in DOMAIN cl.on : ActionEntry(st, a) # {}}

\* The end of evaluate: an API is left at its routes.
Report ==
  /\ at = "targets" /\ todo = {}
  /\ at' = "done"
  /\ findings' = IF holder = "api" THEN findings
                 ELSE findings \cup {Finding("unresolved", type) : type \in Outside}
                               \cup {Finding("broad-access", s) : s \in broad}
  /\ UNCHANGED <<inputs, todo, claims, eval, broad>>

Done == at = "done" /\ UNCHANGED vars

Next == Missing \/ Start \/ (\E t \in todo : Evaluate(t)) \/ Report \/ Done

Spec == Init /\ [][Next]_vars
-----------------------------------------------------------------------------
\* IAM's own evaluation, with every document there is, read or not, and every
\* list of a statement taken as the set it is.
Says(st, a, arn) ==
  /\ \E k \in DOMAIN st.actions : a \in st.actions[k].covers
  /\ \E k \in DOMAIN st.resources : arn \in st.resources[k].reaches

AllDocuments == UNION {d.statements : d \in role[1].documents}
AllBoundary == UNION {role[1].boundary[k].statements : k \in DOMAIN role[1].boundary}

IamAllows(a, arn) ==
  /\ \E st \in AllDocuments : st.allow /\ Says(st, a, arn)
  /\ ~\E st \in AllDocuments \cup AllBoundary :
        ~st.allow /\ ~st.conditional /\ Says(st, a, arn)
  /\ HasBoundary => \E st \in AllBoundary : st.allow /\ Says(st, a, arn)

\* What a role may do that is of one kind, and what it may do at all.
MayDo(t, kind) ==
  \E cl \in {c \in ActionClasses(TypeOf[t]) : kind \in {c.kind, "references"}} :
    \E x \in Checks(t, cl) : IamAllows(x[1], x[2])
May(t) == MayDo(t, "references")

TypeOK ==
  /\ holder \in Holders /\ mapped \subseteq Targets
  /\ at \in {"start", "targets", "done"} /\ todo \subseteq Targets
  /\ \A c \in claims : /\ c.op \in {"permit", "corroborate"} /\ c.target \in Targets
                        /\ c.conf \in {Low, Medium}
                        /\ c.kind \in {"publish", "consume", "read", "write", "invoke",
                                       "references"}
  /\ \A k \in DOMAIN eval : eval[k].permitted \subseteq Targets

\* "A reference the holder's role cannot act on" is concluded only from a role
\* read in full, and then it is true: the documents and the boundary, evaluated
\* as IAM does, allow nothing there and the target's own policy could not
\* either.  What is permitted is not called unpermitted, and the other way.
AbsenceIsKnown ==
  at = "done" /\ eval # <<>> /\ eval[1].complete =>
      eval[1].permitted = {t \in Targets : May(t) \/ policies[t] # "none"}

\* A claim that enters a plan is one IAM would grant: no Deny, no boundary and
\* no document that could not be read stands against it, unless the role is
\* reported as partly read.
MediumIsGranted ==
  \A c \in claims : c.conf = Medium =>
    MayDo(c.target, c.kind) \/ Finding("unscanned", "role") \in findings

\* "A pattern reaching several resources is a candidate, not a fact": a medium
\* claim rests on an entry that means this target alone, and a boundary that
\* could not be read leaves nothing at medium.
MediumIsOne ==
  \A c \in claims : c.conf = Medium =>
    /\ ~BoundaryUnread
    /\ c.kind = "consume" /\ holder = "function" => c.target \in mapped
    /\ \E st \in Identity : st.allow /\ \E k \in DOMAIN st.resources :
         LET e == st.resources[k] IN
         /\ \E part \in {"own", "index", "stream"} : <<c.target, part>> \in e.reaches
         /\ e.name = "exact"
              \/ \A x \in e.reaches : TypeOf[x[1]] = TypeOf[c.target] => x[1] = c.target

\* Medium, which is enough to enter a plan, is granted to one target.
MediumIsEarned == TypeOK /\ MediumIsGranted /\ MediumIsOne

\* "Drawing both would invent a consumer": a verb is claimed only where an entry
\* names it, and a target has verbs or a reference, never both, which the
\* builder's passes rely on.
IntentIsNamed ==
  \A c \in claims :
    IF c.kind = "references"
    THEN \A d \in claims : d.target = c.target => d.kind = "references"
    ELSE \E st \in Identity, cl \in ActionClasses(TypeOf[c.target]) :
           /\ st.allow /\ cl.kind = c.kind
           /\ \E k \in DOMAIN st.actions :
                ~st.actions[k].wide /\ st.actions[k].covers \cap DOMAIN cl.on # {}

\* "The missing edge is explainable": what a statement grants by name, entry by
\* entry, is claimed, or reported as blocked.
ByName(st) ==
  /\ st.allow
  /\ \A k \in DOMAIN st.actions : ~st.actions[k].wide
  /\ \A k \in DOMAIN st.resources : st.resources[k].name # "every"

GrantIsAccountedFor ==
  at = "done" /\ role # <<>> /\ holder # "api" =>
    \A st \in {s \in Identity : ByName(s)}, t \in Targets :
      \A cl \in ActionClasses(TypeOf[t]) :
        (\E x \in Checks(t, cl) : Says(st, x[1], x[2])) =>
          \/ \E c \in claims : c.target = t /\ c.kind = cl.kind
          \/ Finding("blocked", t) \in findings

\* "Intent comes from actions a statement names": a role that is allowed a verb
\* by an entry naming it and by a resource naming the target claims the verb.
NamesVerb(st, a) == \E k \in DOMAIN st.actions : a \in st.actions[k].covers /\ ~st.actions[k].wide

IntentIsRead ==
  at = "done" /\ role # <<>> =>
    \A st \in {s \in Identity : s.allow}, t \in Targets :
      \A cl \in ActionClasses(TypeOf[t]) :
        (\E x \in Checks(t, cl) :
           /\ NamesVerb(st, x[1]) /\ ~Cancelled(x[1], x[2])
           /\ \E k \in DOMAIN st.resources : x[2] \in st.resources[k].reaches
           /\ \A k \in DOMAIN st.resources : st.resources[k].name # "every") =>
          \E c \in claims : c.target = t /\ c.kind = cl.kind
=============================================================================
