------------------------------ MODULE AwsCalls ------------------------------
(***************************************************************************)
(* How a call to AWS can end for a collector, and what warnOrFail makes of *)
(* it.  "denied" stands for the codes of isAccessDenied and isUnsupported, *)
(* "gone" for those of isNotFound, "failed" for everything else: a         *)
(* throttle, a broken connection, Ctrl-C.                                  *)
(***************************************************************************)

\* A thing that exists is never said to be gone, and one that does not cannot
\* be read.
Answers(exists) == {"denied", "failed", IF exists THEN "ok" ELSE "gone"}

\* isAccessDenied, isUnsupported: a warning, and the collector goes on.
Degrades(answer) == answer = "denied"

\* warnOrFail hands every other error back.  A caller that asks isNotFound
\* first does so explicitly.
Fails(answer) == answer \in {"gone", "failed"}
=============================================================================
