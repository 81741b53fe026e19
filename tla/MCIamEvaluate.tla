--------------------------- MODULE MCIamEvaluate ---------------------------
(* Two queues whose names one pattern matches, and a table with an index and *)
(* a stream.  Roles hold up to two documents, of one statement each.         *)
EXTENDS IamEvaluate

CONSTANTS q1, q2, tb

ThreeTargets == {q1, q2, tb}
Types == [t \in ThreeTargets |-> IF t = tb THEN "table" ELSE "queue"]
Parts == [t \in ThreeTargets |-> IF t = tb THEN {"index", "stream"} ELSE {}]

Sqs == {<<"sqs", "SendMessage">>, <<"sqs", "ReceiveMessage">>}
Ddb == {<<"dynamodb", v>> : v \in {"GetItem", "Query", "PutItem", "GetRecords"}}

Verb(service, v) == [covers |-> {<<service, v>>}, wide |-> FALSE]
Every(actions) == [covers |-> actions, wide |-> TRUE]

Own(t) == {<<t, "own">>}
AllArns == (ThreeTargets \X {"own"}) \cup {<<tb, "index">>, <<tb, "stream">>}
Named(arns) == [reaches |-> arns, name |-> "exact", lost |-> "no"]
Matching(arns) == [reaches |-> arns, name |-> "pattern", lost |-> "no"]
Everything == [reaches |-> AllArns, name |-> "every", lost |-> "no"]
Elsewhere == [reaches |-> {}, name |-> "exact", lost |-> "queue"]

Allow(actions, resources) ==
  [allow |-> TRUE, conditional |-> FALSE, actions |-> actions, resources |-> resources]
Deny(actions, resources, conditional) ==
  [allow |-> FALSE, conditional |-> conditional, actions |-> actions, resources |-> resources]

Grantings ==
  {Allow(<<Verb("sqs", "SendMessage")>>, <<Named(Own(q1))>>),
   Allow(<<Verb("sqs", "ReceiveMessage")>>, <<Matching(Own(q1) \cup Own(q2))>>),
   Allow(<<Verb("sqs", "SendMessage"), Verb("sqs", "ReceiveMessage")>>,
         <<Matching(Own(q2)), Elsewhere>>),
   Allow(<<Every(Sqs)>>, <<Named(Own(q1))>>),
   Allow(<<Every(Sqs), Verb("sqs", "SendMessage")>>, <<Named(Own(q1))>>),
   Allow(<<Verb("dynamodb", "GetItem"), Verb("dynamodb", "Query")>>,
         <<Named({<<tb, "index">>})>>),
   Allow(<<Verb("dynamodb", "PutItem"), Verb("dynamodb", "GetRecords")>>,
         <<Named(Own(tb)), Named({<<tb, "stream">>})>>),
   Allow(<<Every(Ddb)>>, <<Everything>>)}

Refusals ==
  {Deny(<<Every(Sqs)>>, <<Named(Own(q1))>>, FALSE),
   Deny(<<Verb("sqs", "SendMessage")>>, <<Everything>>, TRUE),
   Deny(<<Verb("dynamodb", "PutItem")>>, <<Everything>>, FALSE)}

Policies == {[statements |-> {st}, readable |-> r] :
               st \in Grantings \cup Refusals, r \in BOOLEAN}

Boundaries ==
  {<<>>} \cup {<<[statements |-> {Allow(<<Every(Sqs)>>, <<Everything>>)}, readable |-> r]>> :
                 r \in BOOLEAN}

SmallMappings == {{}, {q1, tb}}

SmallOwnPolicies ==
  {[t \in ThreeTargets |-> "none"],
   [t \in ThreeTargets |-> IF t = q1 THEN "grants" ELSE IF t = q2 THEN "unread" ELSE "none"]}

SmallRoles ==
  {[documents |-> ds, unread |-> u, boundary |-> b] :
     ds \in {{}} \cup {{d, e} : d \in Policies, e \in Policies},
     u \in BOOLEAN, b \in Boundaries}
=============================================================================
