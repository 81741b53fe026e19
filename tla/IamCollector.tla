---------------------------- MODULE IamCollector ----------------------------
(***************************************************************************)
(* IAM.CollectFrom: the roles the workloads of phase 1 assume, each with   *)
(* its inline policies, and every managed policy they name, read once.     *)
(* The account may lose a role or a policy between any two calls.          *)
(***************************************************************************)
EXTENDS Integers, Sequences, FiniteSetsExt, AwsCalls

CONSTANTS
  References,    \* [by, kind, account, name]: what the workloads assume
  Roles,         \* the roles of this account, in the order of their names
  Policies,      \* the managed policies, in the order of their ARNs
  InlinePages,   \* of a role, the inline policies ListRolePolicies pages
  AttachedPages, \* of a role, the policies ListAttachedRolePolicies pages
  Boundary,      \* of a role, the set of its one permissions boundary, or {}
  Unparseable    \* the inline policies whose document is not JSON

AllOf(pages) == UNION {pages[k] : k \in DOMAIN pages}
Inline == UNION {AllOf(InlinePages[r]) : r \in Roles}

IamAssumption ==
  /\ Roles \cup Policies \cup Inline \subseteq Nat \ {0}
  /\ Roles \cap Policies = {} /\ Inline \cap (Roles \cup Policies) = {}
  /\ InlinePages \in [Roles -> Seq(SUBSET Inline)]
  /\ AttachedPages \in [Roles -> Seq(SUBSET Policies)]
  /\ Boundary \in [Roles -> SUBSET Policies]

VARIABLES
  alive,    \* roles, managed and inline policies that exist
  todo,     \* names still to be looked up
  role,     \* the role being read, or 0
  at,       \* the next call
  page,     \* the next page of a listing
  names,    \* inline policies listed and not yet asked for
  spec,     \* what the role's spec holds so far
  policies, \* the managed policies to be read
  emitted, lost, warnings, result

acct == <<emitted, lost, warnings>>
vars == <<alive, todo, role, at, page, names, spec, policies, acct, result>>

Empty == [inline |-> {}, attached |-> {}, boundary |-> {}, unread |-> {}]

Init ==
  /\ alive = Roles \cup Policies \cup Inline
  /\ todo = {} /\ role = 0 /\ at = "start" /\ page = 1 /\ names = {} /\ spec = Empty
  /\ policies = {} /\ emitted = {} /\ lost = {} /\ warnings = {}
  /\ result = "running"

\* The owner deletes a role, with what is in it, or a policy.
Delete(x) ==
  /\ result = "running" /\ x \in alive
  /\ alive' = alive \ ({x} \cup (IF x \in Roles THEN AllOf(InlinePages[x]) ELSE {}))
  /\ UNCHANGED <<todo, role, at, page, names, spec, policies, acct, result>>

\* Mutant of Assumed: the account of the ARN is not looked at.
AssumedAnywhere(r) == {x.by : x \in {y \in References : y.kind = "role" /\ y.name = r}}

\* refs[name]: the workloads of this account's role; a user is not an identity to
\* read.
Assumed(r) ==
  {x.by : x \in {y \in References : y.kind = "role" /\ y.account = "own" /\ y.name = r}}

\* assumedRoles: a role of another account is reported, and not looked up.
Start ==
  /\ at = "start"
  /\ todo' = {r \in Roles : Assumed(r) # {}}
  /\ warnings' = {<<"out-of-scope", x.by, x.name>> :
                    x \in {y \in References : y.kind = "role" /\ y.account # "own"}}
  /\ at' = "GetRole"
  /\ UNCHANGED <<alive, role, page, names, spec, policies, emitted, lost, result>>

Reading(op) == result = "running" /\ at = op

\* Every error warnOrFail hands back ends CollectFrom.
End(answer) ==
  /\ Fails(answer) /\ result' = "error"
  /\ UNCHANGED <<alive, todo, role, at, page, names, spec, policies, acct>>

\* collectRole up to the boundary. A denial costs the role; a role that does not
\* exist is a warning.
GetRole ==
  LET r == Min(todo) IN
  /\ Reading("GetRole") /\ todo # {}
  /\ \E answer \in Answers(r \in alive) :
       \/ /\ answer = "ok"
          /\ role' = r /\ at' = "ListRolePolicies" /\ page' = 1
          /\ spec' = [Empty EXCEPT !.boundary = Boundary[r]]
          /\ policies' = policies \cup Boundary[r]
          /\ todo' = todo \ {r}
          /\ UNCHANGED <<alive, names, acct, result>>
       \/ /\ Degrades(answer) \/ answer = "gone"
          /\ todo' = todo \ {r}
          /\ lost' = IF Degrades(answer) THEN lost \cup {r} ELSE lost
          /\ warnings' = warnings \cup {<<"GetRole", answer, r>>}
          /\ UNCHANGED <<alive, role, at, page, names, spec, policies, emitted, result>>
       \/ answer # "gone" /\ End(answer)

Marked(what) == [spec EXCEPT !.unread = @ \cup {what}]

\* A page of the inline policies' names; a denial ends the listing and is marked.
ListInline ==
  /\ Reading("ListRolePolicies")
  /\ IF page > Len(InlinePages[role])
     THEN /\ at' = "GetRolePolicy"
          /\ UNCHANGED <<alive, todo, role, page, names, spec, policies, acct, result>>
     ELSE \E answer \in Answers(role \in alive) :
       \/ /\ answer = "ok"
          /\ names' = names \cup (InlinePages[role][page] \cap alive) /\ page' = page + 1
          /\ UNCHANGED <<alive, todo, role, at, spec, policies, acct, result>>
       \/ /\ Degrades(answer)
          /\ at' = "GetRolePolicy"
          /\ spec' = Marked(<<"inline policies", 0>>)
          /\ warnings' = warnings \cup {<<"ListRolePolicies", answer, role>>}
          /\ UNCHANGED <<alive, todo, role, page, names, policies, emitted, lost, result>>
       \/ End(answer)

\* Mutant of Got: a document that does not parse is left out in silence.
GotInSilence(pn) ==
  [spec EXCEPT !.inline = IF pn \in Unparseable THEN @ ELSE @ \cup {pn}]

\* document: nil for one that does not parse, and the role is marked.
Got(pn) ==
  IF pn \in Unparseable THEN Marked(<<"inline policy", pn>>)
                        ELSE [spec EXCEPT !.inline = @ \cup {pn}]

\* The inline documents, one call each, in the order of their names.
GetInline ==
  /\ Reading("GetRolePolicy")
  /\ IF names = {}
     THEN /\ at' = "ListAttachedRolePolicies" /\ page' = 1
          /\ UNCHANGED <<alive, todo, role, names, spec, policies, acct, result>>
     ELSE LET pn == Min(names) IN
       \E answer \in Answers(pn \in alive) :
         \/ /\ answer = "ok" \/ Degrades(answer)
            /\ names' = names \ {pn}
            /\ spec' = IF answer = "ok" THEN Got(pn) ELSE Marked(<<"inline policy", pn>>)
            /\ warnings' = IF answer = "ok" /\ pn \notin Unparseable THEN warnings
                           ELSE warnings \cup {<<"GetRolePolicy", answer, pn>>}
            /\ UNCHANGED <<alive, todo, role, at, page, policies, emitted, lost, result>>
         \/ End(answer)

\* Mutant of EmitRole: the policies are those of one role.
EmitRoleAlone ==
  /\ emitted' = emitted \cup {[id |-> role, by |-> Assumed(role), spec |-> spec]}
  /\ role' = 0 /\ at' = "GetRole" /\ policies' = spec.attached \cup spec.boundary
  /\ UNCHANGED <<alive, todo, page, names, spec, lost, result>>

EmitRole ==
  /\ emitted' = emitted \cup {[id |-> role, by |-> Assumed(role), spec |-> spec]}
  /\ role' = 0 /\ at' = "GetRole"
  /\ UNCHANGED <<alive, todo, page, names, spec, policies, lost, result>>

\* A page of the attached policies, then the role is emitted.
ListAttached ==
  /\ Reading("ListAttachedRolePolicies")
  /\ IF page > Len(AttachedPages[role])
     THEN EmitRole /\ UNCHANGED warnings
     ELSE \E answer \in Answers(role \in alive) :
       \/ /\ answer = "ok"
          /\ LET listed == AttachedPages[role][page] \cap alive IN
             /\ spec' = [spec EXCEPT !.attached = @ \cup listed]
             /\ policies' = policies \cup listed
          /\ page' = page + 1
          /\ UNCHANGED <<alive, todo, role, at, names, acct, result>>
       \/ /\ Degrades(answer)
          /\ spec' = Marked(<<"attached policies", 0>>)
          /\ page' = Len(AttachedPages[role]) + 1
          /\ warnings' = warnings \cup {<<"ListAttachedRolePolicies", answer, role>>}
          /\ UNCHANGED <<alive, todo, role, at, names, policies, emitted, lost, result>>
       \/ End(answer)

\* collectPolicy's second call: the default version GetPolicy named may be
\* replaced and deleted before it is asked for.
GetVersion ==
  /\ Reading("GetPolicyVersion")
  /\ LET p == Min(policies) IN
     \E answer \in Answers(p \in alive) \cup Answers(FALSE) :
       \/ /\ answer = "ok" \/ Degrades(answer)
          /\ policies' = policies \ {p} /\ at' = "GetRole"
          /\ IF answer = "ok"
             THEN /\ emitted' = emitted \cup {[id |-> p, by |-> {}, spec |-> Empty]}
                  /\ UNCHANGED <<lost, warnings>>
             ELSE /\ lost' = lost \cup {p}
                  /\ warnings' = warnings \cup {<<"GetPolicyVersion", answer, p>>}
                  /\ UNCHANGED emitted
          /\ UNCHANGED <<alive, todo, role, page, names, spec, result>>
       \/ End(answer)

\* When every role has been read, the policies, once each.
GetPolicy ==
  /\ Reading("GetRole") /\ todo = {} /\ policies # {}
  /\ LET p == Min(policies) IN
     \E answer \in Answers(p \in alive) :
       \/ /\ answer = "ok" /\ at' = "GetPolicyVersion"
          /\ UNCHANGED <<alive, todo, role, page, names, spec, policies, acct, result>>
       \/ /\ Degrades(answer) \/ answer = "gone"
          /\ policies' = policies \ {p}
          /\ lost' = IF Degrades(answer) THEN lost \cup {p} ELSE lost
          /\ warnings' = warnings \cup {<<"GetPolicy", answer, p>>}
          /\ UNCHANGED <<alive, todo, role, at, page, names, spec, emitted, result>>
       \/ answer # "gone" /\ End(answer)

Return ==
  /\ Reading("GetRole") /\ todo = {} /\ policies = {}
  /\ result' = "nil"
  /\ UNCHANGED <<alive, todo, role, at, page, names, spec, policies, acct>>

Done == result # "running" /\ UNCHANGED vars

Next ==
  \/ \E x \in Roles \cup Policies \cup Inline : Delete(x)
  \/ Start \/ GetRole \/ ListInline \/ GetInline \/ ListAttached
  \/ GetPolicy \/ GetVersion \/ Return \/ Done

Spec == Init /\ [][Next]_vars
-----------------------------------------------------------------------------
Emitted == {e.id : e \in emitted}

\* The policies learnt of while the roles are read are owed too.
Owed == todo \cup policies \cup ({role} \ {0})

TypeOK ==
  /\ alive \subseteq Roles \cup Policies \cup Inline /\ todo \subseteq Roles
  /\ role \in Roles \cup {0} /\ names \subseteq Inline /\ policies \subseteq Policies
  /\ spec.inline \subseteq Inline /\ spec.attached \cup spec.boundary \subseteq Policies
  /\ Emitted \cap lost = {} /\ Emitted \cup lost \subseteq Roles \cup Policies
  /\ result \in {"running", "nil", "error"}

\* "GetRole with that name would silently return a different role, if one existed
\* locally": a role is emitted for the workloads that assume this account's role
\* of that name and for nothing else, and the others are reported.
NoNamesake ==
  /\ \A e \in emitted : e.id \in Roles =>
       /\ e.by # {}
       /\ e.by = {x.by : x \in {y \in References :
                    y.kind = "role" /\ y.account = "own" /\ y.name = e.id}}
  /\ at # "start" => \A x \in References : x.kind = "role" /\ x.account # "own" =>
       <<"out-of-scope", x.by, x.name>> \in warnings

\* What the linker takes for all a role may do is all of it: a role without a mark
\* in its spec has every inline policy and names every managed one it still has.
UnmarkedIsWhole ==
  \A e \in emitted : e.id \in Roles /\ e.spec.unread = {} =>
    /\ AllOf(InlinePages[e.id]) \cap alive \subseteq e.spec.inline
    /\ AllOf(AttachedPages[e.id]) \cap alive \subseteq e.spec.attached
    /\ e.spec.boundary = Boundary[e.id]
=============================================================================
