--------------------------- MODULE ArtifactProofs ---------------------------
(***************************************************************************)
(* writeAtomic behaves as one register, for any number of commands and     *)
(* artifacts of any length.                                                *)
(***************************************************************************)
EXTENDS Artifact, TLAPS

\* All of v's version, and nothing else, is in s.
Complete(s, v) == s \in Seq({v}) /\ Len(s) = Chunks

Published == {w \in Writers : at[w] \in {"renamed", "ok"}}

\* A file being written holds its own version only, and no more than all of it.
Staging ==
  \A w \in Writers :
    /\ data[w] \in Seq({w}) /\ Len(data[w]) <= Chunks
    /\ at[w] \in {"closed", "renamed", "ok"} => Len(data[w]) = Chunks

\* What a name or a handle leads to was published, or is the old artifact.
Reachable ==
  /\ Complete(data[Old], Old)
  /\ target \in Writers => target \in Published
  /\ \A r \in Readers : handle[r] \in Writers => handle[r] \in Published

\* A reader has read some of the one version its handle refers to.
Progress ==
  \A r \in Readers :
    /\ read[r] # "broken"
    /\ handle[r] = Absent => got[r] = <<>> /\ read[r] \in {"none", "missing"}
    /\ handle[r] # Absent =>
         /\ got[r] \in Seq({handle[r]}) /\ Len(got[r]) <= Chunks
         /\ read[r] \in {"none", "whole"}
         /\ read[r] = "whole" => Len(got[r]) = Chunks

IInv == TypeOK /\ TempsAccountedFor /\ Staging /\ Reachable /\ Progress

-----------------------------------------------------------------------------
\* Appending the version a file is of keeps it of that version.
LEMMA AppendOwn ==
  ASSUME NEW v, NEW s \in Seq({v})
  PROVE  /\ Append(s, v) \in Seq({v}) /\ Len(Append(s, v)) = Len(s) + 1
         /\ Len(s) \in Nat
         /\ \A i \in 1 .. Len(s) : s[i] = v
OBVIOUS

LEMMA WholeComplete ==
  ASSUME NEW v
  PROVE  Complete(Whole(v), v)
<1>1. Chunks \in Nat
  BY ArtifactAssumption
<1> QED BY <1>1 DEF Complete, Whole

\* Every file a reader or the target's name can lead to is complete.
LEMMA LedToComplete ==
  ASSUME IInv, NEW i \in Inodes, i \in Writers => i \in Published
  PROVE  Complete(data[i], i)
BY DEF IInv, Staging, Reachable, Inodes, Complete, Published

LEMMA InitInv == Init => IInv
<1> SUFFICES ASSUME Init PROVE IInv
  OBVIOUS
<1> USE DEF Init
<1>a. /\ Chunks \in Nat \ {0} /\ Old \notin Writers
      /\ Absent \notin Writers /\ Absent # Old
  BY ArtifactAssumption
<1>b. Complete(Whole(Old), Old)
  BY WholeComplete
<1>c. Whole(Old) \in Seq(Inodes)
  <2>1. Old \in Inodes
    BY DEF Inodes
  <2> QED BY <1>a, <2>1 DEF Whole
<1>d. \A w \in Writers : data[w] = <<>> /\ at[w] = "start"
  BY <1>a DEF Inodes
<1>e. data[Old] = Whole(Old)
  BY DEF Inodes
<1>1. TypeOK
  BY <1>c DEF TypeOK, Inodes
<1>2. TempsAccountedFor
  BY DEF TempsAccountedFor
<1>3. Staging
  <2> SUFFICES ASSUME NEW w \in Writers
               PROVE  /\ data[w] \in Seq({w}) /\ Len(data[w]) <= Chunks
                      /\ at[w] \notin {"closed", "renamed", "ok"}
    BY DEF Staging
  <2>1. <<>> \in Seq({w}) /\ Len(<<>>) <= Chunks
    BY <1>a
  <2> QED BY <1>d, <2>1
<1>4. Reachable
  BY <1>a, <1>b, <1>e DEF Reachable
<1>5. Progress
  BY DEF Progress
<1> QED BY <1>1, <1>2, <1>3, <1>4, <1>5 DEF IInv

LEMMA StepInv == IInv /\ [Next]_vars => IInv'
<1> SUFFICES ASSUME IInv, [Next]_vars PROVE IInv'
  OBVIOUS
<1> USE DEF IInv
<1>a. /\ Chunks \in Nat \ {0} /\ Old \notin Writers
      /\ Absent \notin Writers /\ Absent # Old
  BY ArtifactAssumption
<1>1. ASSUME NEW w \in Writers, Stage(w) PROVE IInv'
  <2>1. TypeOK' BY <1>1 DEF Stage, TypeOK, reading
  <2>2. TempsAccountedFor' BY <1>1 DEF Stage, TempsAccountedFor, TypeOK
  <2>3. Staging' BY <1>1 DEF Stage, Staging, TypeOK
  <2>4. Reachable' BY <1>1 DEF Stage, Reachable, Published, TypeOK, reading
  <2>5. Progress' BY <1>1 DEF Stage, Progress, reading
  <2> QED BY <2>1, <2>2, <2>3, <2>4, <2>5
<1>2. ASSUME NEW w \in Writers, Write(w) PROVE IInv'
  <2>0. w \in Inodes /\ data[w] \in Seq({w}) /\ Len(data[w]) \in Nat
    BY AppendOwn DEF Inodes, Staging
  <2>1. TypeOK'
    <3>1. Append(data[w], w) \in Seq(Inodes)
      BY <2>0 DEF TypeOK
    <3> QED BY <1>2, <3>1 DEF Write, TypeOK, reading
  <2>2. TempsAccountedFor' BY <1>2 DEF Write, TempsAccountedFor, TypeOK
  <2>3. Staging'
    <3>1. CASE data' = [data EXCEPT ![w] = Append(@, w)] /\ UNCHANGED at
      <4> DEFINE new == Append(data[w], w)
      <4>1. data'[w] = new /\ new \in Seq({w}) /\ Len(new) = Len(data[w]) + 1
        BY <2>0, <3>1, AppendOwn DEF TypeOK
      <4>2. \A v \in Writers : v # w => data'[v] = data[v]
        BY <3>1 DEF TypeOK
      <4>3. Len(data[w]) < Chunks /\ at[w] = "staged"
        BY <1>2 DEF Write
      <4> HIDE DEF new
      <4> QED BY <1>a, <2>0, <3>1, <4>1, <4>2, <4>3 DEF Staging
    <3>2. CASE at' = [at EXCEPT ![w] = "failed"] /\ UNCHANGED data
      BY <3>2 DEF Staging, TypeOK
    <3> QED BY <1>2, <3>1, <3>2 DEF Write
  <2>4. Reachable'
    BY <1>2, <1>a DEF Write, Reachable, Published, TypeOK, reading, Inodes
  <2>5. Progress' BY <1>2 DEF Write, Progress, reading
  <2> QED BY <2>1, <2>2, <2>3, <2>4, <2>5
<1>3. ASSUME NEW w \in Writers, Close(w) PROVE IInv'
  <2>1. TypeOK' BY <1>3 DEF Close, TypeOK, reading
  <2>2. TempsAccountedFor' BY <1>3 DEF Close, TempsAccountedFor, TypeOK
  <2>3. Staging' BY <1>3 DEF Close, Staging, TypeOK
  <2>4. Reachable'
    <3>1. UNCHANGED <<target, data, handle>>
      BY <1>3 DEF Close, reading
    <3>2. \A v \in Writers : at'[v] \in {"renamed", "ok"} <=> at[v] \in {"renamed", "ok"}
      <4>1. PICK n \in {"closed", "failed"} : at' = [at EXCEPT ![w] = n]
        BY <1>3 DEF Close
      <4>2. at[w] = "staged" /\ at'[w] = n
        BY <1>3, <4>1 DEF Close, TypeOK
      <4>3. \A v \in Writers : v # w => at'[v] = at[v]
        BY <4>1 DEF TypeOK
      <4> QED BY <4>2, <4>3
    <3> QED BY <3>1, <3>2 DEF Reachable, Published
  <2>5. Progress' BY <1>3 DEF Close, Progress, reading
  <2> QED BY <2>1, <2>2, <2>3, <2>4, <2>5
<1>4. ASSUME NEW w \in Writers, Rename(w) PROVE IInv'
  <2>1. TypeOK' BY <1>4 DEF Rename, TypeOK, reading, Inodes
  <2>2. TempsAccountedFor' BY <1>4 DEF Rename, TempsAccountedFor, TypeOK
  <2>3. Staging' BY <1>4 DEF Rename, Staging, TypeOK
  <2>4. Reachable'
    <3>1. UNCHANGED <<data, handle>> /\ at[w] = "closed"
      BY <1>4 DEF Rename, reading
    <3>2. CASE target' = w /\ at' = [at EXCEPT ![w] = "renamed"]
      BY <3>1, <3>2 DEF Reachable, Published, TypeOK
    <3>3. CASE at' = [at EXCEPT ![w] = "failed"] /\ UNCHANGED target
      BY <3>1, <3>3 DEF Reachable, Published, TypeOK
    <3> QED BY <1>4, <3>2, <3>3 DEF Rename
  <2>5. Progress' BY <1>4 DEF Rename, Progress, reading
  <2> QED BY <2>1, <2>2, <2>3, <2>4, <2>5
<1>5. ASSUME NEW w \in Writers, Remove(w) PROVE IInv'
  <2>1. TypeOK' BY <1>5 DEF Remove, TypeOK, reading
  <2>2. TempsAccountedFor' BY <1>5 DEF Remove, TempsAccountedFor, TypeOK
  <2>3. Staging' BY <1>5 DEF Remove, Staging, TypeOK
  <2>4. Reachable' BY <1>5 DEF Remove, Reachable, Published, TypeOK, reading
  <2>5. Progress' BY <1>5 DEF Remove, Progress, reading
  <2> QED BY <2>1, <2>2, <2>3, <2>4, <2>5
<1>6. ASSUME NEW w \in Writers, Kill(w) PROVE IInv'
  <2>0. /\ UNCHANGED <<target, temps, data, at, handle, got, read>>
        /\ killed' = killed \cup {w}
    BY <1>6 DEF Kill, writing, reading
  <2>1. TypeOK' BY <2>0 DEF TypeOK
  <2>2. TempsAccountedFor' BY <2>0 DEF TempsAccountedFor
  <2>3. Staging' BY <2>0 DEF Staging
  <2>4. Reachable' BY <2>0 DEF Reachable, Published
  <2>5. Progress' BY <2>0 DEF Progress
  <2> QED BY <2>1, <2>2, <2>3, <2>4, <2>5
<1>7. ASSUME NEW r \in Readers, Open(r) PROVE IInv'
  <2>1. TypeOK' BY <1>7 DEF Open, TypeOK, writing
  <2>2. TempsAccountedFor' BY <1>7 DEF Open, TempsAccountedFor, writing
  <2>3. Staging' BY <1>7 DEF Open, Staging, writing
  <2>4. Reachable' BY <1>7 DEF Open, Reachable, Published, TypeOK, writing
  <2>5. Progress'
    <3>0. \A q \in Readers : q # r => /\ read'[q] = read[q] /\ handle'[q] = handle[q]
                                      /\ got'[q] = got[q]
      BY <1>7 DEF Open, TypeOK
    <3>1. got'[r] = <<>> /\ handle[r] = Absent /\ read[r] = "none"
      BY <1>7 DEF Open, Progress
    <3>2. CASE target = Absent
      BY <1>7, <3>0, <3>1, <3>2 DEF Open, Progress, TypeOK
    <3>3. CASE target # Absent
      <4>1. handle'[r] = target /\ read'[r] = "none"
        BY <1>7, <3>1, <3>3 DEF Open, TypeOK
      <4>2. <<>> \in Seq({target}) /\ Len(<<>>) <= Chunks
        BY <1>a
      <4> QED BY <3>0, <3>1, <3>3, <4>1, <4>2 DEF Progress
    <3> QED BY <3>2, <3>3
  <2> QED BY <2>1, <2>2, <2>3, <2>4, <2>5
<1>8. ASSUME NEW r \in Readers, Read(r) PROVE IInv'
  <2> DEFINE i == handle[r]
             have == data[i]
             next == Len(got[r]) + 1
  <2>a. i \in Inodes /\ i # Absent
    BY <1>8 DEF Read, TypeOK
  <2>b. Complete(have, i)
    BY <2>a, LedToComplete DEF Reachable
  <2>c. got[r] \in Seq({i}) /\ Len(got[r]) <= Chunks /\ read[r] = "none"
    BY <1>8, <2>a DEF Read, Progress
  <2>d. Len(got[r]) \in Nat /\ Append(got[r], i) \in Seq({i})
        /\ Len(Append(got[r], i)) = next
    BY <2>c, AppendOwn
  <2>e. next <= Len(have) => have[next] = i
    BY <2>b, <2>d, AppendOwn DEF Complete
  <2>f. CASE next <= Len(have)
    <3>1. got' = [got EXCEPT ![r] = Append(@, i)] /\ UNCHANGED <<read, handle>>
      BY <1>8, <2>e, <2>f DEF Read
    <3>2. next <= Chunks
      BY <2>b, <2>f DEF Complete
    <3>3. TypeOK'
      BY <1>8, <2>a, <3>1 DEF Read, TypeOK, writing
    <3>4. Progress'
      <4>1. got'[r] = Append(got[r], i) /\ \A q \in Readers : q # r => got'[q] = got[q]
        BY <3>1 DEF TypeOK
      <4> HIDE DEF i, have, next
      <4>2. got'[r] \in Seq({i}) /\ Len(got'[r]) <= Chunks
        BY <2>d, <3>2, <4>1
      <4> QED BY <2>a, <2>c, <3>1, <4>1, <4>2 DEF Progress, i
    <3> QED BY <1>8, <3>1, <3>3, <3>4
            DEF Read, TempsAccountedFor, Staging, Reachable, Published, writing
  <2>g. CASE ~(next <= Len(have))
    <3>1. Len(got[r]) = Chunks
      BY <1>a, <2>b, <2>c, <2>d, <2>g DEF Complete
    <3>2. read' = [read EXCEPT ![r] = "whole"] /\ UNCHANGED <<got, handle>>
      BY <1>8, <2>g, <3>1 DEF Read
    <3>3. TypeOK'
      BY <1>8, <3>2 DEF Read, TypeOK, writing
    <3>4. Progress'
      BY <2>a, <3>1, <3>2 DEF Progress, TypeOK
    <3> QED BY <1>8, <3>2, <3>3, <3>4
            DEF Read, TempsAccountedFor, Staging, Reachable, Published, writing
  <2> QED BY <2>f, <2>g
<1>9. CASE UNCHANGED vars
  <2>0. UNCHANGED <<target, temps, data, at, killed, handle, got, read>>
    BY <1>9 DEF vars
  <2>1. TypeOK' BY <2>0 DEF TypeOK
  <2>2. TempsAccountedFor' BY <2>0 DEF TempsAccountedFor
  <2>3. Staging' BY <2>0 DEF Staging
  <2>4. Reachable' BY <2>0 DEF Reachable, Published
  <2>5. Progress' BY <2>0 DEF Progress
  <2> QED BY <2>1, <2>2, <2>3, <2>4, <2>5
<1> QED
  BY <1>1, <1>2, <1>3, <1>4, <1>5, <1>6, <1>7, <1>8, <1>9 DEF Next, Put, Get, Ended

\* The invariant that everything below rests on.
THEOREM Inductive == Spec => []IInv
BY InitInv, StepInv, PTL DEF Spec

-----------------------------------------------------------------------------
\* No reader ever gets half of an artifact, or parts of two: writeAtomic's
\* "the old file or the new one, never half of either".
THEOREM ReadsWhole == Spec => []NeverHalf
<1>1. ASSUME IInv PROVE NeverHalf
  <2> SUFFICES ASSUME NEW r \in Readers
               PROVE  /\ read[r] # "broken"
                      /\ read[r] = "whole" => got[r] = Whole(handle[r])
    BY DEF NeverHalf
  <2>1. read[r] # "broken"
    BY <1>1 DEF IInv, Progress
  <2>2. ASSUME read[r] = "whole" PROVE got[r] = Whole(handle[r])
    <3>1. got[r] \in Seq({handle[r]}) /\ Len(got[r]) = Chunks
      BY <1>1, <2>2 DEF IInv, Progress
    <3>2. \A k \in 1 .. Len(got[r]) : got[r][k] = handle[r]
      BY <3>1, AppendOwn
    <3> QED BY <3>1, <3>2 DEF Whole
  <2> QED BY <2>1, <2>2
<1> QED BY <1>1, Inductive, PTL

\* No command leaves a temp file behind or takes away another's, unless it is
\* killed: the deferred os.Remove.
THEOREM TempsKept == Spec => []TempsAccountedFor
<1>1. IInv => TempsAccountedFor
  BY DEF IInv
<1> QED BY <1>1, Inductive, PTL

-----------------------------------------------------------------------------
(* The register behind the file: what each variable of WholeFile stands for. *)
Said == [w \in Writers |-> IF w \in killed THEN "killed"
                           ELSE IF at[w] \in {"ok", "error"} THEN at[w] ELSE "nothing"]
Seen == [r \in Readers |-> IF read[r] = "missing" THEN {Absent}
                           ELSE IF handle[r] # Absent THEN {handle[r]} ELSE {}]
ToldBy(r) == CASE read[r] = "whole" -> {got[r][i] : i \in DOMAIN got[r]}
               [] read[r] = "missing" -> {Absent}
               [] OTHER -> {}
Told == [r \in Readers |-> ToldBy(r)]

LEMMA InitRefines == Init => Register!Init
<1> SUFFICES ASSUME Init PROVE Register!Init
  OBVIOUS
<1>1. Published = {}
  BY DEF Init, Published
<1>2. Said = [w \in Writers |-> "nothing"]
  BY DEF Init, Said
<1>3. Seen = [r \in Readers |-> {}]
  BY DEF Init, Seen
<1>4. Told = [r \in Readers |-> {}]
  BY DEF Init, Told, ToldBy
<1>5. target \in {Old, Absent}
  BY DEF Init
<1> QED BY <1>1, <1>2, <1>3, <1>4, <1>5 DEF Register!Init, Published, Said, Seen, Told, ToldBy

\* What a writer says changes with its own place only.
LEMMA WriterSays ==
  ASSUME IInv, NEW w \in Writers, NEW s,
         \A v \in Writers : v # w => at'[v] = at[v] /\ (v \in killed' <=> v \in killed),
         Said'[w] = s
  PROVE  Said' = [Said EXCEPT ![w] = s]
BY DEF Said

LEMMA StepRefines ==
  IInv /\ [Next]_vars => [Register!Next]_<<target, Published, Said, Seen, Told>>
<1> SUFFICES ASSUME IInv, [Next]_vars
             PROVE  [Register!Next]_<<target, Published, Said, Seen, Told>>
  OBVIOUS
<1> USE DEF IInv
<1> DEFINE same == <<target, Published, Said, Seen, Told>>
<1>w. ASSUME NEW w \in Writers, Put(w) \/ Kill(w)
      PROVE  /\ Seen' = Seen /\ Told' = Told
             /\ w \notin killed
             /\ \A v \in Writers : v # w => /\ at'[v] = at[v]
                                          /\ (v \in killed' <=> v \in killed)
  <2>1. UNCHANGED reading /\ w \notin killed
    BY <1>w DEF Put, Kill, Stage, Write, Close, Rename, Remove, writing, reading
  <2>2. Seen' = Seen /\ Told' = Told
    BY <2>1 DEF Seen, Told, ToldBy, reading
  <2>3. \A v \in Writers : v # w => at'[v] = at[v]
    BY <1>w DEF Put, Kill, Stage, Write, Close, Rename, Remove, TypeOK, writing
  <2>4. killed' \in {killed, killed \cup {w}}
    BY <1>w DEF Put, Kill, Stage, Write, Close, Rename, Remove
  <2> QED BY <2>1, <2>2, <2>3, <2>4
<1>1. ASSUME NEW w \in Writers, Stage(w) \/ Write(w) \/ Close(w),
             at'[w] \in {"staged", "failed", "closed"}
      PROVE  UNCHANGED same
  <2>1. Published' = Published
    BY <1>1, <1>w DEF Stage, Write, Close, Published, Put
  <2>2. Said' = Said
    BY <1>1, <1>w DEF Stage, Write, Close, Said, Put
  <2>3. target' = target
    BY <1>1 DEF Stage, Write, Close
  <2> QED BY <1>1, <1>w, <2>1, <2>2, <2>3 DEF Put
<1>2. ASSUME NEW w \in Writers, Stage(w), at'[w] = "error"
      PROVE  Register!Say(w, "error")
  <2>1. Published' = Published /\ w \notin Published /\ target' = target
    BY <1>2, <1>w DEF Stage, Published, Put
  <2>2. Said[w] = "nothing" /\ Said'[w] = "error"
    BY <1>2, <1>w DEF Stage, Said, Put
  <2>3. Said' = [Said EXCEPT ![w] = "error"]
    BY <1>2, <1>w, <2>2, WriterSays DEF Put
  <2> QED BY <1>2, <1>w, <2>1, <2>2, <2>3
          DEF Put, Register!Say, Published, Said, Seen, Told, ToldBy
<1>3. ASSUME NEW w \in Writers, Rename(w), at'[w] = "renamed"
      PROVE  Register!Replace(w)
  <2>1. w \notin Published /\ target' = w /\ Published' = Published \cup {w}
    BY <1>3, <1>w DEF Rename, Published, Put, TypeOK
  <2>2. Said[w] = "nothing" /\ Said' = Said
    BY <1>3, <1>w DEF Rename, Said, Put
  <2> QED BY <1>3, <1>w, <2>1, <2>2 DEF Put, Register!Replace, Published, Said, Seen, Told, ToldBy
<1>4. ASSUME NEW w \in Writers, Rename(w), at'[w] = "failed"
      PROVE  UNCHANGED same
  <2>1. Published' = Published /\ target' = target
    BY <1>4, <1>w DEF Rename, Published, Put, TypeOK
  <2>2. Said' = Said
    BY <1>4, <1>w DEF Rename, Said, Put
  <2> QED BY <1>4, <1>w, <2>1, <2>2 DEF Put
<1>5. ASSUME NEW w \in Writers, Remove(w)
      PROVE  Register!Say(w, "ok") \/ Register!Say(w, "error")
  <2>1. Published' = Published /\ target' = target
    BY <1>5, <1>w DEF Remove, Published, Put, TypeOK
  <2>2. Said[w] = "nothing" /\ Said'[w] = at'[w]
    BY <1>5, <1>w DEF Remove, Said, Put, TypeOK
  <2>3. Said' = [Said EXCEPT ![w] = at'[w]]
    BY <1>5, <1>w, <2>2, WriterSays DEF Put
  <2>4. \/ at'[w] = "ok" /\ w \in Published
        \/ at'[w] = "error" /\ w \notin Published
    BY <1>5 DEF Remove, TypeOK, Published
  <2>5. CASE at'[w] = "ok" /\ w \in Published
    <3>1. Said' = [Said EXCEPT ![w] = "ok"]
      BY <2>3, <2>5
    <3>2. Register!Say(w, "ok")
      BY <1>5, <1>w, <2>1, <2>2, <2>5, <3>1
         DEF Put, Register!Say, Published, Said, Seen, Told, ToldBy
    <3> QED BY <3>2
  <2>6. CASE at'[w] = "error" /\ w \notin Published
    <3>1. Said' = [Said EXCEPT ![w] = "error"]
      BY <2>3, <2>6
    <3>2. Register!Say(w, "error")
      BY <1>5, <1>w, <2>1, <2>2, <2>6, <3>1
         DEF Put, Register!Say, Published, Said, Seen, Told, ToldBy
    <3> QED BY <3>2
  <2> QED BY <2>4, <2>5, <2>6
<1>6. ASSUME NEW w \in Writers, Kill(w) PROVE Register!Say(w, "killed")
  <2>1. Published' = Published /\ target' = target
    BY <1>6 DEF Kill, Published, writing
  <2>2. Said[w] = "nothing" /\ Said'[w] = "killed"
    BY <1>6, <1>w DEF Kill, Said
  <2>3. Said' = [Said EXCEPT ![w] = "killed"]
    BY <1>6, <1>w, <2>2, WriterSays
  <2> QED BY <1>6, <1>w, <2>1, <2>2, <2>3 DEF Register!Say, Published, Said, Seen, Told, ToldBy
<1>r. ASSUME NEW r \in Readers, Get(r)
      PROVE  target' = target /\ Published' = Published /\ Said' = Said
  BY <1>r DEF Get, Open, Read, writing, Published, Said
<1>7. ASSUME NEW r \in Readers, Open(r) PROVE Register!Look(r)
  <2>0. got[r] = <<>> /\ handle[r] = Absent /\ read[r] = "none"
    BY <1>7 DEF Open, Progress
  <2>1. Seen[r] = {} /\ Told[r] = {}
    BY <2>0 DEF Seen, Told, ToldBy
  <2>2. CASE target = Absent
    <3>1. Seen' = [Seen EXCEPT ![r] = {target}]
      BY <1>7, <2>2 DEF Open, Seen, TypeOK
    <3>2. Told' = [Told EXCEPT ![r] = {target}]
      <4>1. got' = got /\ read' = [read EXCEPT ![r] = "missing"]
        BY <1>7, <2>2 DEF Open
      <4>2. ToldBy(r)' = {target} /\ \A q \in Readers : q # r => ToldBy(q)' = ToldBy(q)
        BY <2>2, <4>1 DEF ToldBy, TypeOK
      <4> QED BY <4>2 DEF Told
    <3> QED BY <1>7, <1>r, <2>1, <3>1, <3>2 DEF Get, Register!Look, Published, Said, Seen, Told, ToldBy
  <2>3. CASE target # Absent
    <3>1. Seen' = [Seen EXCEPT ![r] = {target}]
      BY <1>7, <2>0, <2>3 DEF Open, Seen, TypeOK
    <3>2. Told' = Told
      BY <1>7, <2>3 DEF Open, Told, ToldBy
    <3> QED BY <1>7, <1>r, <2>1, <3>1, <3>2 DEF Get, Register!Look, Published, Said, Seen, Told, ToldBy
  <2> QED BY <2>2, <2>3
<1>8. ASSUME NEW r \in Readers, Read(r) PROVE UNCHANGED same \/ Register!Tell(r)
  <2>0. handle[r] # Absent /\ read[r] = "none" /\ handle' = handle
    BY <1>8 DEF Read
  <2>1. CASE read' = read
    <3>1. Seen' = Seen
      BY <2>0, <2>1 DEF Seen
    <3>2. Told' = Told
      <4>1. \A q \in Readers : q # r => got'[q] = got[q]
        BY <1>8 DEF Read, TypeOK
      <4>2. \A q \in Readers : ToldBy(q)' = ToldBy(q)
        BY <2>0, <2>1, <4>1 DEF ToldBy
      <4> QED BY <4>2 DEF Told
    <3> QED BY <1>8, <1>r, <3>1, <3>2 DEF Get
  <2>2. CASE read' # read
    <3>1. got' = got /\ read' = [read EXCEPT ![r] = read'[r]]
      BY <1>8, <2>2 DEF Read, TypeOK
    <3>2. read'[r] = "whole" /\ Len(got[r]) = Chunks /\ got[r] \in Seq({handle[r]})
      <4>1. Progress'
        BY StepInv
      <4>2. read'[r] \in {"none", "whole"}
        BY <2>0, <4>1 DEF Progress
      <4>3. read'[r] # "none"
        BY <2>0, <2>2, <3>1 DEF TypeOK
      <4> QED BY <2>0, <3>1, <4>1, <4>2, <4>3 DEF Progress
    <3>3. {got[r][i] : i \in DOMAIN got[r]} = {handle[r]}
      <4>1. 1 \in DOMAIN got[r] /\ DOMAIN got[r] = 1 .. Len(got[r])
        BY <3>2, ArtifactAssumption
      <4>2. \A i \in 1 .. Len(got[r]) : got[r][i] = handle[r]
        BY <3>2, AppendOwn
      <4> QED BY <4>1, <4>2
    <3>4. Seen' = Seen
      BY <2>0, <3>1, <3>2 DEF Seen, TypeOK
    <3>5. Seen[r] = {handle[r]} /\ Told[r] = {}
      BY <2>0 DEF Seen, Told, ToldBy
    <3>6. Told' = [Told EXCEPT ![r] = {handle[r]}]
      <4>1. ToldBy(r)' = {handle[r]}
        BY <3>1, <3>2, <3>3 DEF ToldBy
      <4>2. \A q \in Readers : q # r => ToldBy(q)' = ToldBy(q)
        BY <3>1 DEF ToldBy, TypeOK
      <4> QED BY <4>1, <4>2 DEF Told
    <3> QED BY <1>8, <1>r, <3>4, <3>5, <3>6 DEF Get, Register!Tell, Published, Said, Seen, Told, ToldBy
  <2> QED BY <2>1, <2>2
<1>9. CASE UNCHANGED vars
  BY <1>9 DEF vars, reading, writing, Published, Said, Seen, Told, ToldBy
<1> HIDE DEF IInv
<1>10. ASSUME NEW w \in Writers, Put(w) \/ Kill(w)
       PROVE  UNCHANGED same \/ Register!Next
  <2>1. CASE Stage(w) \/ Write(w) \/ Close(w)
    <3>1. at'[w] \in {"staged", "failed", "closed", "error"}
      BY <2>1 DEF Stage, Write, Close, IInv, TypeOK
    <3>2. at'[w] = "error" => Stage(w)
      BY <2>1 DEF Write, Close, IInv, TypeOK
    <3> QED BY <1>1, <1>2, <2>1, <3>1, <3>2 DEF Register!Next
  <2>2. CASE Rename(w)
    <3>1. at'[w] \in {"renamed", "failed"}
      BY <2>2 DEF Rename, IInv, TypeOK
    <3> QED BY <1>3, <1>4, <2>2, <3>1 DEF Register!Next
  <2>3. CASE Remove(w)
    BY <1>5, <2>3 DEF Register!Next
  <2>4. CASE Kill(w)
    BY <1>6, <2>4 DEF Register!Next
  <2> QED BY <1>10, <2>1, <2>2, <2>3, <2>4 DEF Put
<1>11. ASSUME NEW r \in Readers, Get(r) PROVE UNCHANGED same \/ Register!Next
  BY <1>7, <1>8, <1>11 DEF Get, Register!Next
<1> QED BY <1>9, <1>10, <1>11 DEF Next, Ended

\* Any number of commands that write an artifact, failing and killed anywhere,
\* and that read it, act as on one register: writeAtomic's contract.
THEOREM Refines == Spec => ActsAsRegister
<1>1. Init => Register!Init
  BY InitRefines
<1>2. IInv /\ [Next]_vars => [Register!Next]_(Register!whole)
  BY StepRefines DEF Register!whole, Published, Said, Seen, Told, ToldBy
<1> QED BY <1>1, <1>2, Inductive, PTL DEF Spec, ActsAsRegister, Register!Spec
=============================================================================
