------------------------------- MODULE MCScan -------------------------------
(* Small accounts for Scan. *)
EXTENDS Scan, TLC

MCIds == 1 .. 3

\* SQS lists (1) and then describes (2) a queue; ECS lists services (3) and
\* then describes a task definition (4); SNS lists topics (5), of which there
\* are none; IAM reads the role (6) that the task definition, id 2, names.
AccountCalls   == 1 .. 6
AccountOwner   == <<1, 1, 2, 2, 3, 4>>
AccountStarts  == {1, 3, 5, 6}
AccountNeeds   == <<{}, {}, {}, {}, {}, {2}>>
AccountReveals == <<{2}, {}, {4}, {}, {}, {}>>
AccountYields  == <<{}, {1}, {}, {2}, {}, {3}>>

\* One collector with a page of two resources and an independent second list,
\* and two dependents: what the first emits (id 3) is what call 5, of the
\* second, would look for, and what call 4 emits is named like a resource of the
\* page.
ChainCalls   == 1 .. 5
ChainOwner   == <<1, 1, 2, 3, 3>>
ChainStarts  == {1, 2, 3, 4, 5}
ChainNeeds   == <<{}, {}, {1}, {2}, {3}>>
ChainReveals == <<{}, {}, {}, {}, {}>>
ChainYields  == <<{1, 2}, {}, {3}, {1}, {}>>
=============================================================================
