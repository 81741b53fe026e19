------------------------------ MODULE WholeFile ------------------------------
(***************************************************************************)
(* What the pipeline relies on when it keeps an artifact in a file: the    *)
(* file is replaced as a whole, at one instant, by a command that may then *)
(* report success, and a command that reads it gets all of what was there  *)
(* at one instant.                                                         *)
(***************************************************************************)
CONSTANTS
  Writers,  \* commands that write the artifact, each its own version of it
  Readers,  \* commands that read it
  Old,      \* the version an earlier command left
  Absent    \* no file at all

VARIABLES
  file,      \* whose version is in the file
  published, \* the writers that have replaced it
  said,      \* said[w]: what writer w has reported
  seen,      \* seen[r]: the version reader r has found
  told       \* told[r]: what it has made of it

whole == <<file, published, said, seen, told>>

Init ==
  /\ file \in {Old, Absent} /\ published = {}
  /\ said = [w \in Writers |-> "nothing"]
  /\ seen = [r \in Readers |-> {}]
  /\ told = [r \in Readers |-> {}]

Replace(w) ==
  /\ said[w] = "nothing" /\ w \notin published
  /\ file' = w /\ published' = published \cup {w}
  /\ UNCHANGED <<said, seen, told>>

\* Success means the file was replaced, failure that it was left alone; a
\* writer that was killed says neither.
Say(w, s) ==
  /\ said[w] = "nothing"
  /\ s = "ok" => w \in published
  /\ s = "error" => w \notin published
  /\ said' = [said EXCEPT ![w] = s]
  /\ UNCHANGED <<file, published, seen, told>>

\* A reader may know at once: there is no file.
Look(r) ==
  /\ seen[r] = {}
  /\ seen' = [seen EXCEPT ![r] = {file}]
  /\ told' \in {told, [told EXCEPT ![r] = {file}]}
  /\ UNCHANGED <<file, published, said>>

Tell(r) ==
  /\ seen[r] # {} /\ told[r] = {}
  /\ told' = [told EXCEPT ![r] = seen[r]]
  /\ UNCHANGED <<file, published, said, seen>>

Next ==
  \/ \E w \in Writers : Replace(w) \/ \E s \in {"ok", "error", "killed"} : Say(w, s)
  \/ \E r \in Readers : Look(r) \/ Tell(r)

Spec == Init /\ [][Next]_whole
=============================================================================
