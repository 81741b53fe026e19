------------------------------ MODULE Artifact ------------------------------
(***************************************************************************)
(* writeAtomic: an artifact is staged in a temp file of the target's       *)
(* directory and renamed into place, while other commands write and read   *)
(* the same target, any step may fail, and any command may be killed.      *)
(*                                                                         *)
(* The directory maps a name to an inode and an open file is a handle on   *)
(* an inode: what was opened stays readable after its name is gone.  The   *)
(* names CreateTemp makes up are fresh (O_EXCL and 32 random bits).        *)
(***************************************************************************)
EXTENDS Integers, Sequences

CONSTANTS
  Writers,  \* commands that write the artifact
  Readers,  \* commands that read it
  Old,      \* the artifact an earlier command left
  Absent,   \* no file
  Chunks    \* how many writes an artifact takes

ASSUME ArtifactAssumption ==
  /\ Chunks \in Nat \ {0}
  /\ Writers \cap Readers = {} /\ Old \notin Writers /\ Absent \notin Writers \cup {Old}

\* The file a writer creates is an inode of its own.
Inodes == Writers \cup {Old}

VARIABLES
  target,  \* the inode the target's name leads to, or Absent
  temps,   \* the temp names in the directory: whose they are
  data,    \* data[i]: inode i's contents, each chunk tagged with its version
  at,      \* at[w]: the writer's place in writeAtomic
  killed,  \* commands that were killed
  handle,  \* handle[r]: what the reader's open file refers to
  got,     \* got[r]: what it has read so far
  read     \* read[r]: "none", "whole" when decoding succeeded, "missing", "broken"

vars == <<target, temps, data, at, killed, handle, got, read>>
reading == <<handle, got, read>>
writing == <<target, temps, data, at>>

\* The contents of a complete artifact.
Whole(v) == [i \in 1 .. Chunks |-> v]

Init ==
  /\ target \in {Old, Absent}
  /\ temps = {}
  /\ data = [i \in Inodes |-> IF i = Old THEN Whole(Old) ELSE <<>>]
  /\ at = [w \in Writers |-> "start"]
  /\ killed = {}
  /\ handle = [r \in Readers |-> Absent]
  /\ got = [r \in Readers |-> <<>>]
  /\ read = [r \in Readers |-> "none"]

\* os.MkdirAll and os.CreateTemp: without the temp file there is nothing to
\* clean up.
Stage(w) ==
  /\ at[w] = "start" /\ w \notin killed
  /\ \/ temps' = temps \cup {w} /\ at' = [at EXCEPT ![w] = "staged"]
     \/ at' = [at EXCEPT ![w] = "error"] /\ UNCHANGED temps
  /\ UNCHANGED <<target, data, killed, reading>>

\* Mutant of Write: the error of a short write is not looked at.
WriteUnchecked(w) ==
  /\ at[w] = "staged" /\ w \notin killed /\ Len(data[w]) < Chunks
  /\ \/ data' = [data EXCEPT ![w] = Append(@, w)] /\ UNCHANGED at
     \/ at' = [at EXCEPT ![w] = "closed"] /\ UNCHANGED data
  /\ UNCHANGED <<target, temps, killed, reading>>

\* write(tmp): one chunk, or an error, which closes the file and gives up.
Write(w) ==
  /\ at[w] = "staged" /\ w \notin killed /\ Len(data[w]) < Chunks
  /\ \/ data' = [data EXCEPT ![w] = Append(@, w)] /\ UNCHANGED at
     \/ at' = [at EXCEPT ![w] = "failed"] /\ UNCHANGED data
  /\ UNCHANGED <<target, temps, killed, reading>>

\* tmp.Close(), once everything is written.
Close(w) ==
  /\ at[w] = "staged" /\ w \notin killed /\ Len(data[w]) = Chunks
  /\ \E next \in {"closed", "failed"} : at' = [at EXCEPT ![w] = next]
  /\ UNCHANGED <<target, temps, data, killed, reading>>

\* os.Rename: the temp name is gone and the target leads to its inode.
Rename(w) ==
  /\ at[w] = "closed" /\ w \notin killed
  /\ \/ target' = w /\ temps' = temps \ {w} /\ at' = [at EXCEPT ![w] = "renamed"]
     \/ at' = [at EXCEPT ![w] = "failed"] /\ UNCHANGED <<target, temps>>
  /\ UNCHANGED <<data, killed, reading>>

\* Mutant of Remove: os.Remove only runs after a rename that worked.
RemoveOnSuccess(w) ==
  /\ at[w] \in {"renamed", "failed"} /\ w \notin killed
  /\ temps' = IF at[w] = "renamed" THEN temps \ {w} ELSE temps
  /\ at' = [at EXCEPT ![w] = IF @ = "renamed" THEN "ok" ELSE "error"]
  /\ UNCHANGED <<target, data, killed, reading>>

\* Mutant of Remove: what os.Rename returned is dropped.
RemoveAndCheer(w) ==
  /\ at[w] \in {"renamed", "failed"} /\ w \notin killed
  /\ temps' = temps \ {w}
  /\ at' = [at EXCEPT ![w] = "ok"]
  /\ UNCHANGED <<target, data, killed, reading>>

\* The deferred os.Remove(tmp.Name()), then writeAtomic returns.
Remove(w) ==
  /\ at[w] \in {"renamed", "failed"} /\ w \notin killed
  /\ temps' = temps \ {w}
  /\ at' = [at EXCEPT ![w] = IF @ = "renamed" THEN "ok" ELSE "error"]
  /\ UNCHANGED <<target, data, killed, reading>>

\* The process dies: nothing deferred runs.
Kill(w) ==
  /\ at[w] \notin {"ok", "error"} /\ w \notin killed
  /\ killed' = killed \cup {w}
  /\ UNCHANGED <<writing, reading>>

\* os.Open(*invPath).
Open(r) ==
  /\ handle[r] = Absent /\ read[r] = "none"
  /\ IF target = Absent
       THEN read' = [read EXCEPT ![r] = "missing"] /\ UNCHANGED handle
       ELSE handle' = [handle EXCEPT ![r] = target] /\ UNCHANGED read
  /\ UNCHANGED <<writing, killed, got>>

\* inventory.Read: a chunk of what is in the file by now, and at the end of it
\* a decoder that refuses half a document.
Read(r) ==
  /\ handle[r] # Absent /\ read[r] = "none"
  /\ LET have == data[handle[r]]
         next == Len(got[r]) + 1
     IN  IF next <= Len(have)
           THEN got' = [got EXCEPT ![r] = Append(@, have[next])] /\ UNCHANGED read
           ELSE /\ read' = [read EXCEPT ![r] =
                     IF Len(got[r]) = Chunks THEN "whole" ELSE "broken"]
                /\ UNCHANGED got
  /\ UNCHANGED <<writing, killed, handle>>

Ended ==
  /\ \A w \in Writers : at[w] \in {"ok", "error"} \/ w \in killed
  /\ \A r \in Readers : read[r] # "none"
  /\ UNCHANGED vars

Put(w) == Stage(w) \/ Write(w) \/ Close(w) \/ Rename(w) \/ Remove(w)
Get(r) == Open(r) \/ Read(r)

Next == \/ \E w \in Writers : Put(w) \/ Kill(w)
        \/ \E r \in Readers : Get(r)
        \/ Ended

Spec == Init /\ [][Next]_vars

-----------------------------------------------------------------------------
TypeOK ==
  /\ target \in Inodes \cup {Absent} /\ temps \in SUBSET Writers
  /\ data \in [Inodes -> Seq(Inodes)]
  /\ at \in [Writers -> {"start", "staged", "failed", "closed", "renamed", "ok", "error"}]
  /\ killed \in SUBSET Writers
  /\ handle \in [Readers -> Inodes \cup {Absent}]
  /\ got \in [Readers -> Seq(Inodes)]
  /\ read \in [Readers -> {"none", "whole", "missing", "broken"}]

\* "A reader sees the old file or the new one, never half of either", however
\* writers, readers and kills interleave.
NeverHalf ==
  \A r \in Readers :
    /\ read[r] # "broken"
    /\ read[r] = "whole" => got[r] = Whole(handle[r])

\* A command that ends by itself, successfully or not, leaves no temp file and
\* takes no one else's away: what is left belongs to those still at work or
\* killed at it.
TempsAccountedFor ==
  temps = {w \in Writers : at[w] \in {"staged", "closed", "failed"}}

\* The whole of it: several commands, failing and killed anywhere, behave as if
\* each replaced the file at one instant or not at all, and said which.
Register == INSTANCE WholeFile WITH
  file <- target,
  published <- {w \in Writers : at[w] \in {"renamed", "ok"}},
  said <- [w \in Writers |-> IF w \in killed THEN "killed"
                             ELSE IF at[w] \in {"ok", "error"} THEN at[w] ELSE "nothing"],
  seen <- [r \in Readers |-> IF read[r] = "missing" THEN {Absent}
                             ELSE IF handle[r] # Absent THEN {handle[r]} ELSE {}],
  told <- [r \in Readers |-> CASE read[r] = "whole" -> {got[r][i] : i \in DOMAIN got[r]}
                               [] read[r] = "missing" -> {Absent}
                               [] OTHER -> {}]

ActsAsRegister == Register!Spec
=============================================================================
