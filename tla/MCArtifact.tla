----------------------------- MODULE MCArtifact -----------------------------
(* Two commands writing one artifact and two reading it.                    *)
EXTENDS Artifact
=============================================================================
