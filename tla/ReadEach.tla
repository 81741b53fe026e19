------------------------------ MODULE ReadEach ------------------------------
(***************************************************************************)
(* The collectors that list things and then make the same calls for each:  *)
(* SQS, DynamoDB, SNS, Lambda (functions, then mappings), and both API     *)
(* Gateways.  What they do alike is the actions; where they differ, in     *)
(* what a denied page or call costs, is the row of each.                   *)
(***************************************************************************)
EXTENDS Integers, Sequences, FiniteSetsExt, AwsCalls

CONSTANTS
  Resources, \* what can be listed, numbered in the order of the listing
  Pages      \* the pages of a listing while nothing is deleted

PageAssumption ==
  /\ Resources \subseteq Nat \ {0}
  /\ Pages \in Seq(SUBSET Resources) \ {<<>>}
  /\ UNION {Pages[i] : i \in DOMAIN Pages} = Resources
  /\ \A i, j \in DOMAIN Pages : i # j => Pages[i] \cap Pages[j] = {}

\* A call made for one resource: what a denial costs, which is the resource
\* ("skip"), what it would have read ("without"), or that and a mark in the
\* spec ("unread"); and what isNotFound does, where it is asked.
Call(op, denied, gone) == [op |-> op, denied |-> denied, gone |-> gone]

\* keeps: a denied page leaves what was listed before; byPage: each page is
\* handled before the next is asked for.
Sqs == [keeps |-> FALSE, byPage |-> FALSE,
        calls |-> <<Call("GetQueueAttributes", "skip", "fail"),
                    Call("ListQueueTags", "without", "fail")>>]

DynamoDB == [keeps |-> FALSE, byPage |-> FALSE,
             calls |-> <<Call("DescribeTable", "skip", "fail"),
                         Call("DescribeTimeToLive", "without", "fail"),
                         Call("ListTagsOfResource", "without", "fail")>>]

\* A topic's subscriptions are read page by page, and their attributes one by
\* one until the first denial: one call each, as a topic is either read in full
\* or marked.
Sns == [keeps |-> TRUE, byPage |-> FALSE,
        calls |-> <<Call("GetTopicAttributes", "unread", "skip"),
                    Call("ListTagsForResource", "without", "fail"),
                    Call("ListSubscriptionsByTopic", "unread", "fail"),
                    Call("GetSubscriptionAttributes", "unread", "fail")>>]

Lambda == [keeps |-> TRUE, byPage |-> TRUE,
           calls |-> <<Call("GetPolicy", "unread", "none")>>]

\* Event source mappings, which Lambda's Collect ends with.
Mappings == [keeps |-> TRUE, byPage |-> TRUE, calls |-> <<>>]

RestApis == [keeps |-> TRUE, byPage |-> TRUE,
             calls |-> <<Call("GetResources", "without", "fail"),
                         Call("GetStages", "without", "fail"),
                         Call("GetAuthorizers", "without", "fail")>>]

HttpApis == [keeps |-> TRUE, byPage |-> TRUE,
             calls |-> <<Call("GetIntegrations", "without", "fail"),
                         Call("GetRoutes", "without", "fail"),
                         Call("GetStages", "without", "fail"),
                         Call("GetAuthorizers", "without", "fail")>>]

Rows == [SQS |-> Sqs, DynamoDB |-> DynamoDB, SNS |-> Sns, Lambda |-> Lambda,
         Mappings |-> Mappings, RestApis |-> RestApis, HttpApis |-> HttpApis]

VARIABLES
  service,  \* which collector runs
  alive,    \* what exists
  page,     \* the next page to ask for
  todo,     \* listed and not yet handled
  step,     \* the next call for the first of these; 0 while listing
  lacks,    \* the calls denied for it
  unread,   \* the calls recorded as such in its spec
  emitted,  \* what was emitted, with what it lacks and is marked with
  lost,     \* given up
  warnings, \* <<operation, resource>>, "List" for the listing
  result

reading == <<lacks, unread>>
vars == <<service, alive, page, todo, step, reading, emitted, lost, warnings, result>>

Emitted == {e.id : e \in emitted}
Row == Rows[service]
Current == Min(todo)

Init ==
  /\ service \in DOMAIN Rows /\ alive = Resources
  /\ page = 1 /\ todo = {} /\ step = 0 /\ lacks = {} /\ unread = {}
  /\ emitted = {} /\ lost = {} /\ warnings = {} /\ result = "running"

\* The owner of the account deletes something.
Delete(r) ==
  /\ result = "running" /\ r \in alive
  /\ alive' = alive \ {r}
  /\ UNCHANGED <<service, page, todo, step, reading, emitted, lost, warnings, result>>

Listing == result = "running" /\ step = 0 /\ page <= Len(Pages)

\* NextPage: what was deleted before is not in the page.
ListPage ==
  /\ Listing
  /\ todo' = todo \cup (Pages[page] \cap alive)
  /\ page' = page + 1
  /\ step' = IF Row.byPage \/ page = Len(Pages) THEN 1 ELSE 0
  /\ UNCHANGED <<service, alive, reading, emitted, lost, warnings, result>>

\* A denied page: break, with what was listed, or return, without.
DenyPage ==
  /\ Listing
  /\ warnings' = warnings \cup {<<"List", 0>>}
  /\ page' = Len(Pages) + 1 /\ step' = 1
  /\ todo' = IF Row.keeps THEN todo ELSE {}
  /\ lost' = IF Row.keeps THEN lost ELSE todo
  /\ UNCHANGED <<service, alive, reading, emitted, result>>

\* Mutant of Advance: the marks of one resource stay for the next.
AdvanceKeepingMarks == todo' = todo \ {Current} /\ step' = 1 /\ lacks' = {} /\ UNCHANGED unread

\* The turn of the next one.
Advance == todo' = todo \ {Current} /\ step' = 1 /\ lacks' = {} /\ unread' = {}

Asking == result = "running" /\ step \in 1 .. Len(Row.calls) /\ todo # {}

Ok ==
  /\ Asking /\ Current \in alive
  /\ step' = step + 1
  /\ UNCHANGED <<service, alive, page, todo, reading, emitted, lost, warnings, result>>

\* Mutant of Denied: the spec is not marked.
DeniedUnmarked ==
  LET r == Current
      call == Row.calls[step] IN
  /\ Asking
  /\ warnings' = warnings \cup {<<call.op, r>>}
  /\ step' = step + 1 /\ lacks' = lacks \cup {call.op}
  /\ UNCHANGED <<service, alive, page, todo, unread, emitted, lost, result>>

\* warnOrFail turns the error into a warning.
Denied ==
  LET r == Current
      call == Row.calls[step] IN
  /\ Asking
  /\ warnings' = warnings \cup {<<call.op, r>>}
  /\ IF call.denied = "skip"
     THEN Advance /\ lost' = lost \cup {r}
     ELSE /\ step' = step + 1 /\ lacks' = lacks \cup {call.op}
          /\ unread' = IF call.denied = "unread" THEN unread \cup {call.op} ELSE unread
          /\ UNCHANGED <<todo, lost>>
  /\ UNCHANGED <<service, alive, page, emitted, result>>

\* isNotFound, where the caller asks it: the topic is skipped, the function has
\* no policy.
NotFound ==
  LET call == Row.calls[step] IN
  /\ Asking
  /\ \/ call.gone = "skip" /\ Current \notin alive /\ Advance
     \/ call.gone = "none" /\ step' = step + 1 /\ UNCHANGED <<todo, reading>>
  /\ UNCHANGED <<service, alive, page, emitted, lost, warnings, result>>

\* Mutant of Emit: the loop's variables outlive their turn.
EmitCarryingOver ==
  /\ result = "running" /\ step = Len(Row.calls) + 1 /\ todo # {}
  /\ emitted' = emitted \cup {[id |-> Current, lacks |-> lacks, unread |-> unread]}
  /\ todo' = todo \ {Current} /\ step' = 1
  /\ UNCHANGED <<service, alive, page, reading, lost, warnings, result>>

Emit ==
  /\ result = "running" /\ step = Len(Row.calls) + 1 /\ todo # {}
  /\ emitted' = emitted \cup {[id |-> Current, lacks |-> lacks, unread |-> unread]}
  /\ Advance
  /\ UNCHANGED <<service, alive, page, lost, warnings, result>>

\* Every other error, a vanished queue or table among them, ends the collector.
Fail ==
  /\ Listing \/ Asking
  /\ result' = "error"
  /\ UNCHANGED <<service, alive, page, todo, step, reading, emitted, lost, warnings>>

\* Mutant of Turn: the first page is taken for the whole listing.
TurnAtFirst ==
  /\ result = "running" /\ step > 0 /\ todo = {}
  /\ result' = "nil" /\ UNCHANGED step
  /\ UNCHANGED <<service, alive, page, todo, reading, emitted, lost, warnings>>

\* The loop is empty: ask for the next page, or return.
Turn ==
  /\ result = "running" /\ step > 0 /\ todo = {}
  /\ IF page <= Len(Pages) THEN step' = 0 /\ UNCHANGED result
                           ELSE result' = "nil" /\ UNCHANGED step
  /\ UNCHANGED <<service, alive, page, todo, reading, emitted, lost, warnings>>

Done == result # "running" /\ UNCHANGED vars

Next ==
  \/ \E r \in Resources : Delete(r)
  \/ ListPage \/ DenyPage \/ Ok \/ Denied \/ NotFound \/ Emit \/ Fail \/ Turn \/ Done

Spec == Init /\ [][Next]_vars
-----------------------------------------------------------------------------
Owed == todo

TypeOK ==
  /\ service \in DOMAIN Rows /\ alive \subseteq Resources
  /\ page \in 1 .. (Len(Pages) + 1) /\ todo \subseteq Resources
  /\ step \in 0 .. (Len(Row.calls) + 1) /\ unread \subseteq lacks
  /\ Emitted \subseteq Resources /\ lost \subseteq Resources
  /\ result \in {"running", "nil", "error"}

\* "Never trust a first page": a collector that returns nil without a warning has
\* emitted everything that exists.
Complete == result = "nil" /\ warnings = {} => alive \subseteq Emitted

\* "A denial here must not cost us the queue itself": a resource is given up only
\* when the listing or the call that describes it was denied, and one that is
\* emitted lacks what was denied for it, and nothing another was denied.
DenialCostsItsPart ==
  /\ \A r \in lost : <<"List", 0>> \in warnings \/ <<Row.calls[1].op, r>> \in warnings
  /\ \A e \in emitted : e.lacks = {w[1] : w \in {x \in warnings : x[2] = e.id}}

\* "'No policy' and 'not allowed to read it' looked the same": what the linker
\* judges a delivery by, a function's policy, a topic's attributes and its
\* subscriptions, is missing from a spec only under a mark.
UnreadIsMarked ==
  \A e \in emitted : service \in {"Lambda", "SNS"} =>
    e.lacks \ {"ListTagsForResource"} = e.unread
=============================================================================
