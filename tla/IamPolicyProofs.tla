-------------------------- MODULE IamPolicyProofs ---------------------------
(***************************************************************************)
(* What is concluded from the policies of a role.  First, what a pattern   *)
(* in them matches: the greedy loop of wildMatch is exact, for patterns    *)
(* and texts of any length.  Then, for every role that can be written down *)
(* and every set of targets: a verb, a medium claim and an absence are     *)
(* each backed by what IAM itself would decide.                            *)
(***************************************************************************)
EXTENDS IamEvaluate, WildMatch, FiniteSetTheorems, FunctionTheorems,
        WellFoundedInduction, TLAPS

(***************************************************************************)
(* wildMatch.  Soundness carries a cut of what has matched so far, and one *)
(* of what stands before the last *.  Completeness says that no cut of the *)
(* whole lies to the left of where the loop is: the loop tries the         *)
(* leftmost place first, so that skipping it never loses a match.          *)
(***************************************************************************)

\* What has been read is in range, and a text holds no wildcard;
Bounds ==
  /\ Len(pattern) \in Nat /\ Len(text) \in Nat
  /\ \A k \in 1 .. Len(text) : text[k] \notin {Star, One}

\* what has matched is a cut, and so is what stands before the last star;
Sound ==
  /\ Covers(pAt, iAt)
  /\ star >= 0 => /\ pattern[star + 1] = Star
                  /\ \E m \in 0 .. mark : Covers(star, m)

Cuts == {c \in [0 .. Len(pattern) -> 0 .. Len(text)] : IsCut(c, Len(pattern), Len(text))}

\* Between the last * and p there are only characters that stand for one.
Lag(c) == IF star < 0 THEN c[pAt] = iAt ELSE c[pAt] - c[star + 1] = iAt - mark

\* and no cut of the whole has been left behind.
Complete ==
  \A c \in Cuts : /\ c[pAt] >= iAt
                  /\ star >= 0 => c[star + 1] >= mark
                  /\ iAt < Len(text) => Lag(c)

Matching == MatchTypeOK /\ Bounds /\ Sound /\ Complete /\ MatchIsExact

-----------------------------------------------------------------------------
\* A cut goes on with one more character of the pattern.
LEMMA CutGrows ==
  ASSUME NEW k \in Nat, NEW m \in Nat, NEW n \in Nat, m <= n,
         Covers(k, m), Takes(pattern[k + 1], m, n)
  PROVE  Covers(k + 1, n)
<1>1. PICK cut \in [0 .. k -> 0 .. m] : IsCut(cut, k, m)
  BY DEF Covers
<1> DEFINE longer == [j \in 0 .. (k + 1) |-> IF j = k + 1 THEN n ELSE cut[j]]
<1>2. longer \in [0 .. (k + 1) -> 0 .. n]
  OBVIOUS
<1>3. longer[0] = 0 /\ longer[k + 1] = n
  BY <1>1 DEF IsCut
<1>4. ASSUME NEW j \in 1 .. (k + 1)
      PROVE  Takes(pattern[j], longer[j - 1], longer[j])
  <2>1. CASE j = k + 1
    <3>1. longer[j - 1] = m /\ longer[j] = n
      BY <1>1, <2>1 DEF IsCut
    <3> QED BY <2>1, <3>1
  <2>2. CASE j # k + 1
    <3>1. j \in 1 .. k /\ longer[j - 1] = cut[j - 1] /\ longer[j] = cut[j]
      BY <2>2
    <3> QED BY <1>1, <3>1 DEF IsCut
  <2> QED BY <2>1, <2>2
<1> HIDE DEF longer
<1>5. IsCut(longer, k + 1, n)
  BY <1>3, <1>4 DEF IsCut
<1> QED BY <1>2, <1>5 DEF Covers

\* One character of the pattern in a cut of the whole.
LEMMA CutStep ==
  ASSUME Bounds, NEW c \in Cuts, NEW k \in 0 .. (Len(pattern) - 1)
  PROVE  /\ c[k] \in 0 .. Len(text) /\ c[k + 1] \in 0 .. Len(text)
         /\ c[k] <= c[k + 1]
         /\ pattern[k + 1] # Star => /\ c[k + 1] = c[k] + 1
                                     /\ pattern[k + 1] \in {One, text[c[k] + 1]}
<1>1. k \in 0 .. Len(pattern) /\ k + 1 \in 1 .. Len(pattern) /\ (k + 1) - 1 = k
  BY DEF Bounds
<1>2. c \in [0 .. Len(pattern) -> 0 .. Len(text)]
  BY DEF Cuts
<1>3. Takes(pattern[k + 1], c[k], c[k + 1])
  BY <1>1 DEF Cuts, IsCut
<1>4. c[k] \in 0 .. Len(text) /\ c[k + 1] \in 0 .. Len(text)
  BY <1>1, <1>2 DEF Bounds
<1>5. CASE pattern[k + 1] = Star
  BY <1>3, <1>4, <1>5 DEF Takes, Bounds
<1>6. CASE pattern[k + 1] # Star
  BY <1>3, <1>4, <1>6 DEF Takes, Bounds
<1> QED BY <1>4, <1>5, <1>6

\* What a cut of the whole is at its ends.
LEMMA CutEnds ==
  ASSUME Bounds, NEW c \in Cuts
  PROVE  c[0] = 0 /\ c[Len(pattern)] = Len(text)
BY DEF Cuts, IsCut

\* Where the loop cannot go on with p and i, no cut of the whole has p at i.
LEMMA Stuck ==
  ASSUME MatchTypeOK, Bounds, NEW c \in Cuts, iAt < Len(text), ~AtLetter, ~AtStar
  PROVE  c[pAt] # iAt
<1>1. CASE pAt = Len(pattern)
  BY <1>1, CutEnds DEF MatchTypeOK, Bounds
<1>2. CASE pAt # Len(pattern)
  <2>1. pAt \in 0 .. (Len(pattern) - 1)
    BY <1>2 DEF MatchTypeOK, Bounds
  <2>2. pattern[pAt + 1] # Star /\ pattern[pAt + 1] \notin {One, text[iAt + 1]}
    BY <2>1 DEF AtLetter, AtStar, Bounds
  <2> QED BY <2>1, <2>2, CutStep
<1> QED BY <1>1, <1>2

-----------------------------------------------------------------------------
LEMMA MatchBegins == MatchInit => Matching
<1> SUFFICES ASSUME MatchInit PROVE Matching
  OBVIOUS
<1>1. PICK q \in Patterns, t \in Texts, fold \in BOOLEAN :
        /\ pattern = IF fold THEN Lowered(q) ELSE q
        /\ text = IF fold THEN Lowered(t) ELSE t
  BY DEF MatchInit
<1>2. q \in Seq(STRING) /\ t \in Seq(STRING)
  BY TextAssumption
<1>3. ASSUME NEW s \in Seq(STRING)
      PROVE  /\ Len(Lowered(s)) = Len(s) /\ Len(s) \in Nat
             /\ \A k \in 1 .. Len(s) : Lowered(s)[k] = LowerOf(s[k])
  <2>1. Len(s) \in Nat
    OBVIOUS
  <2>2. Lowered(s) \in Seq({LowerOf(s[k]) : k \in 1 .. Len(s)})
    BY <2>1 DEF Lowered
  <2> QED BY <2>1, <2>2 DEF Lowered
<1>4. Len(pattern) \in Nat
  BY <1>1, <1>2, <1>3
<1>5. Len(text) = Len(t) /\ Len(t) \in Nat
  BY <1>1, <1>2, <1>3
<1>6. \A k \in 1 .. Len(text) : text[k] \notin {Star, One}
  BY <1>1, <1>2, <1>3, <1>5, TextAssumption
<1>7. Bounds
  BY <1>4, <1>5, <1>6 DEF Bounds
<1>8. pAt = 0 /\ iAt = 0 /\ star = -1 /\ mark = 0 /\ result = "running"
  BY DEF MatchInit
<1>9. MatchTypeOK
  BY <1>4, <1>5, <1>8 DEF MatchTypeOK
<1>10. Covers(0, 0)
  <2> DEFINE none == [j \in 0 .. 0 |-> 0]
  <2>1. none \in [0 .. 0 -> 0 .. 0] /\ IsCut(none, 0, 0)
    BY DEF IsCut
  <2> QED BY <2>1 DEF Covers
<1>11. Sound
  BY <1>8, <1>10 DEF Sound
<1>12. Complete
  BY <1>7, <1>8, CutEnds DEF Complete, Lag
<1>13. MatchIsExact
  BY <1>8 DEF MatchIsExact
<1> QED BY <1>7, <1>9, <1>11, <1>12, <1>13 DEF Matching

\* What no step changes.
LEMMA TextsStay ==
  ASSUME UNCHANGED <<pattern, text>>
  PROVE  /\ Bounds => Bounds'
         /\ Cuts' = Cuts
         /\ \A k, m : Covers(k, m)' <=> Covers(k, m)
BY DEF Bounds, Cuts, Covers, IsCut, Takes

LEMMA LiteralStep == Matching /\ Literal => Matching'
<1> SUFFICES ASSUME Matching, Literal PROVE Matching'
  OBVIOUS
<1> USE DEF Matching
<1>1. /\ UNCHANGED <<pattern, text, star, mark, result>>
      /\ pAt' = pAt + 1 /\ iAt' = iAt + 1 /\ iAt < Len(text) /\ result = "running"
      /\ pAt < Len(pattern) /\ pattern[pAt + 1] \in {One, text[iAt + 1]}
  BY DEF Literal, AtLetter
<1>2. /\ pAt \in Nat /\ iAt \in Nat /\ Len(pattern) \in Nat /\ Len(text) \in Nat
      /\ star \in Int /\ mark \in Nat /\ star < pAt /\ mark <= iAt
  BY DEF MatchTypeOK, Bounds
<1>3. pattern[pAt + 1] # Star
  BY <1>1, <1>2 DEF Bounds, Star, One
<1>4. MatchTypeOK' /\ Bounds' /\ MatchIsExact'
  BY <1>1, <1>2, TextsStay DEF MatchTypeOK, MatchIsExact
<1>5. Sound'
  <2>1. Takes(pattern[pAt + 1], iAt, iAt + 1)
    BY <1>1, <1>2, <1>3 DEF Takes
  <2>2. Covers(pAt + 1, iAt + 1)
    BY <1>2, <2>1, CutGrows DEF Sound
  <2> QED BY <1>1, <2>2, TextsStay DEF Sound
<1>6. Complete'
  <2> SUFFICES ASSUME NEW c \in Cuts
               PROVE  /\ c[pAt + 1] >= iAt + 1
                      /\ star >= 0 => c[star + 1] >= mark
                      /\ IF star < 0 THEN c[pAt + 1] = iAt + 1
                                     ELSE c[pAt + 1] - c[star + 1] = (iAt + 1) - mark
    BY <1>1, TextsStay DEF Complete, Lag
  <2>1. pAt \in 0 .. (Len(pattern) - 1)
    BY <1>1, <1>2
  <2>2. c[pAt + 1] = c[pAt] + 1 /\ c[pAt] \in Nat
    BY <1>3, <2>1, CutStep
  <2>3. c[pAt] >= iAt /\ (star >= 0 => c[star + 1] >= mark) /\ Lag(c)
    BY <1>1 DEF Complete
  <2>4. star >= 0 => c[star + 1] \in Int
    <3>1. star >= 0 => star \in 0 .. (Len(pattern) - 1)
      BY <1>1, <1>2
    <3> QED BY <3>1, CutStep
  <2>5. c[pAt + 1] >= iAt + 1
    BY <1>2, <2>2, <2>3
  <2>6. CASE star < 0
    BY <1>2, <2>2, <2>3, <2>5, <2>6 DEF Lag
  <2>7. CASE star >= 0
    <3>1. c[pAt] - c[star + 1] = iAt - mark
      BY <1>2, <2>3, <2>7 DEF Lag
    <3>2. c[pAt + 1] - c[star + 1] = (iAt + 1) - mark
      <4> DEFINE x == c[star + 1]
                 y == c[pAt]
      <4>1. x \in Int /\ y \in Nat /\ c[pAt + 1] = y + 1 /\ y - x = iAt - mark
        BY <2>2, <2>4, <2>7, <3>1
      <4> HIDE DEF x, y
      <4>2. (y + 1) - x = (iAt + 1) - mark
        BY <1>2, <4>1
      <4> QED BY <4>1, <4>2 DEF x
    <3> QED BY <1>2, <2>3, <2>5, <2>7, <3>2
  <2> QED BY <1>2, <2>6, <2>7
<1> QED BY <1>4, <1>5, <1>6

LEMMA PassStarStep == Matching /\ PassStar => Matching'
<1> SUFFICES ASSUME Matching, PassStar PROVE Matching'
  OBVIOUS
<1> USE DEF Matching
<1>1. /\ UNCHANGED <<pattern, text, iAt, result>>
      /\ star' = pAt /\ mark' = iAt /\ pAt' = pAt + 1 /\ iAt < Len(text) /\ result = "running"
      /\ pAt < Len(pattern) /\ pattern[pAt + 1] = Star
  BY DEF PassStar, AtStar
<1>2. /\ pAt \in Nat /\ iAt \in Nat /\ Len(pattern) \in Nat /\ Len(text) \in Nat
  BY DEF MatchTypeOK, Bounds
<1>3. MatchTypeOK' /\ Bounds' /\ MatchIsExact'
  BY <1>1, <1>2, TextsStay DEF MatchTypeOK, MatchIsExact
<1>4. Sound'
  <2>1. Takes(pattern[pAt + 1], iAt, iAt)
    BY <1>1, <1>2 DEF Takes
  <2>2. Covers(pAt + 1, iAt) /\ Covers(pAt, iAt)
    BY <1>2, <2>1, CutGrows DEF Sound
  <2>3. iAt \in 0 .. iAt
    BY <1>2
  <2> QED BY <1>1, <2>2, <2>3, TextsStay DEF Sound
<1>5. Complete'
  <2> SUFFICES ASSUME NEW c \in Cuts
               PROVE  c[pAt + 1] >= iAt /\ c[pAt + 1] - c[pAt + 1] = iAt - iAt
    BY <1>1, <1>2, TextsStay DEF Complete, Lag
  <2>1. c[pAt + 1] >= c[pAt] /\ c[pAt] \in Nat /\ c[pAt + 1] \in Nat
    BY <1>1, <1>2, CutStep
  <2>2. c[pAt] >= iAt
    BY DEF Complete
  <2> QED BY <1>2, <2>1, <2>2
<1> QED BY <1>3, <1>4, <1>5

LEMMA BacktrackStep == Matching /\ Backtrack => Matching'
<1> SUFFICES ASSUME Matching, Backtrack PROVE Matching'
  OBVIOUS
<1> USE DEF Matching
<1>1. /\ UNCHANGED <<pattern, text, star, result>>
      /\ pAt' = star + 1 /\ mark' = mark + 1 /\ iAt' = mark + 1
      /\ iAt < Len(text) /\ result = "running" /\ ~AtLetter /\ ~AtStar /\ star >= 0
  BY DEF Backtrack
<1>2. /\ pAt \in Nat /\ iAt \in Nat /\ Len(pattern) \in Nat /\ Len(text) \in Nat
      /\ star \in Nat /\ mark \in Nat /\ star < pAt /\ pAt <= Len(pattern) /\ mark <= iAt
  BY <1>1 DEF MatchTypeOK, Bounds
<1>3. MatchTypeOK' /\ Bounds' /\ MatchIsExact'
  BY <1>1, <1>2, TextsStay DEF MatchTypeOK, MatchIsExact
<1>4. Sound'
  <2>1. PICK m \in 0 .. mark : Covers(star, m)
    BY <1>1 DEF Sound
  <2>2. m \in Nat /\ m <= mark + 1 /\ mark + 1 \in Nat
    BY <1>2
  <2>3. pattern[star + 1] = Star
    BY <1>1 DEF Sound
  <2>4. Takes(pattern[star + 1], m, mark + 1)
    BY <2>2, <2>3 DEF Takes
  <2>5. Covers(star + 1, mark + 1)
    BY <1>2, <2>1, <2>2, <2>4, CutGrows
  <2>6. m \in 0 .. (mark + 1)
    BY <1>2, <2>2
  <2> QED BY <1>1, <2>1, <2>3, <2>5, <2>6, TextsStay DEF Sound
<1>5. Complete'
  <2> SUFFICES ASSUME NEW c \in Cuts PROVE c[star + 1] >= mark + 1
    <3>1. ASSUME NEW c \in Cuts PROVE c[star + 1] \in Int
      <4>1. star \in 0 .. (Len(pattern) - 1)
        BY <1>2
      <4>2. c[star + 1] \in 0 .. Len(text)
        BY <4>1, CutStep
      <4> QED BY <1>2, <4>2
    <3> QED BY <1>1, <1>2, <3>1, TextsStay DEF Complete, Lag
  <2>1. star \in 0 .. (Len(pattern) - 1)
    BY <1>2
  <2>2. c[star + 1] \in Nat
    <3>1. c[star + 1] \in 0 .. Len(text)
      BY <2>1, CutStep
    <3> QED BY <1>2, <3>1
  <2>3. c[star + 1] >= mark /\ Lag(c)
    BY <1>1 DEF Complete
  <2>4. c[pAt] - c[star + 1] = iAt - mark
    BY <1>2, <2>3 DEF Lag
  <2>5. c[pAt] # iAt
    BY <1>1, Stuck
  <2>6. c[pAt] \in Nat
    <3>1. c \in [0 .. Len(pattern) -> 0 .. Len(text)] /\ pAt \in 0 .. Len(pattern)
      BY <1>2 DEF Cuts
    <3> QED BY <1>2, <3>1
  <2> QED BY <1>2, <2>2, <2>3, <2>4, <2>5, <2>6
<1> QED BY <1>3, <1>4, <1>5

LEMMA GiveUpStep == Matching /\ GiveUp => Matching'
<1> SUFFICES ASSUME Matching, GiveUp PROVE Matching'
  OBVIOUS
<1> USE DEF Matching
<1>1. /\ UNCHANGED <<pattern, text, pAt, iAt, star, mark>> /\ result' = "differs"
      /\ iAt < Len(text) /\ ~AtLetter /\ ~AtStar /\ star < 0
  BY DEF GiveUp
<1>2. MatchTypeOK' /\ Bounds' /\ Sound' /\ Complete'
  BY <1>1, TextsStay DEF MatchTypeOK, Sound, Complete, Lag
<1>3. Cuts = {}
  <2>1. ASSUME NEW c \in Cuts PROVE FALSE
    <3>1. c[pAt] = iAt
      BY <1>1 DEF Complete, Lag
    <3>2. c[pAt] # iAt
      BY <1>1, Stuck
    <3> QED BY <3>1, <3>2
  <2> QED BY <2>1
<1>4. ~Covers(Len(pattern), Len(text))
  BY <1>3 DEF Covers, Cuts
<1>5. MatchIsExact'
  BY <1>1, <1>4, TextsStay DEF MatchIsExact
<1> QED BY <1>2, <1>5

LEMMA TrailingStep == Matching /\ Trailing => Matching'
<1> SUFFICES ASSUME Matching, Trailing PROVE Matching'
  OBVIOUS
<1> USE DEF Matching
<1>1. /\ UNCHANGED <<pattern, text, iAt, star, mark, result>> /\ pAt' = pAt + 1
      /\ iAt = Len(text) /\ result = "running"
      /\ pAt < Len(pattern) /\ pattern[pAt + 1] = Star
  BY DEF Trailing, AtStar
<1>2. /\ pAt \in Nat /\ iAt \in Nat /\ Len(pattern) \in Nat /\ Len(text) \in Nat
  BY DEF MatchTypeOK, Bounds
<1>3. MatchTypeOK' /\ Bounds' /\ MatchIsExact'
  BY <1>1, <1>2, TextsStay DEF MatchTypeOK, MatchIsExact
<1>4. Sound'
  <2>1. Takes(pattern[pAt + 1], iAt, iAt)
    BY <1>1, <1>2 DEF Takes
  <2>2. Covers(pAt + 1, iAt)
    BY <1>2, <2>1, CutGrows DEF Sound
  <2> QED BY <1>1, <2>2, TextsStay DEF Sound
<1>5. Complete'
  <2> SUFFICES ASSUME NEW c \in Cuts
               PROVE  c[pAt + 1] >= iAt /\ (star >= 0 => c[star + 1] >= mark)
    BY <1>1, <1>2, TextsStay DEF Complete
  <2>1. c[pAt + 1] >= c[pAt] /\ c[pAt] \in Nat /\ c[pAt + 1] \in Nat
    BY <1>1, <1>2, CutStep
  <2>2. c[pAt] >= iAt /\ (star >= 0 => c[star + 1] >= mark)
    BY DEF Complete
  <2> QED BY <1>2, <2>1, <2>2
<1> QED BY <1>3, <1>4, <1>5

LEMMA VerdictStep == Matching /\ Verdict => Matching'
<1> SUFFICES ASSUME Matching, Verdict PROVE Matching'
  OBVIOUS
<1> USE DEF Matching
<1>1. /\ UNCHANGED <<pattern, text, pAt, iAt, star, mark>>
      /\ result' = IF pAt = Len(pattern) THEN "match" ELSE "differs"
      /\ iAt = Len(text) /\ ~AtStar
  BY DEF Verdict
<1>2. MatchTypeOK' /\ Bounds' /\ Sound' /\ Complete'
  BY <1>1, TextsStay DEF MatchTypeOK, Sound, Complete, Lag
<1>3. pAt = Len(pattern) => Covers(Len(pattern), Len(text))
  BY <1>1 DEF Sound
<1>4. ASSUME pAt # Len(pattern) PROVE ~Covers(Len(pattern), Len(text))
  <2>1. ASSUME NEW c \in Cuts PROVE FALSE
    <3>1. pAt \in 0 .. (Len(pattern) - 1) /\ Len(text) \in Nat
      BY <1>4 DEF MatchTypeOK, Bounds
    <3>2. pattern[pAt + 1] # Star
      BY <1>1, <3>1 DEF AtStar, Bounds
    <3>3. c[pAt + 1] = c[pAt] + 1 /\ c[pAt] \in 0 .. Len(text) /\ c[pAt + 1] \in 0 .. Len(text)
      BY <3>1, <3>2, CutStep
    <3>4. c[pAt] >= Len(text)
      BY <1>1 DEF Complete
    <3> QED BY <3>1, <3>3, <3>4
  <2> QED BY <2>1 DEF Covers, Cuts
<1>5. MatchIsExact'
  BY <1>1, <1>3, <1>4, TextsStay DEF MatchIsExact
<1> QED BY <1>2, <1>5

-----------------------------------------------------------------------------
THEOREM MatchingKept == MatchSpec => []Matching
<1>1. Matching /\ UNCHANGED matchVars => Matching'
  BY TextsStay DEF matchVars, Matching, MatchTypeOK, Sound, Complete, Lag, MatchIsExact
<1>2. Matching /\ [MatchNext]_matchVars => Matching'
  BY <1>1, LiteralStep, PassStarStep, BacktrackStep, GiveUpStep, TrailingStep,
     VerdictStep DEF MatchNext, Decided
<1> QED BY MatchBegins, <1>2, PTL DEF MatchSpec

\* A greedy loop that comes back to the last * only decides IAM's wildcards
\* exactly, for every pattern and every text.
THEOREM GreedyIsExact == MatchSpec => []MatchIsExact
<1>1. Matching => MatchIsExact
  BY DEF Matching
<1> QED BY <1>1, MatchingKept, PTL
-----------------------------------------------------------------------------
(* evaluate.                                                               *)

\* The strengthening.  The inputs stay; the loop runs over every target, and
\* only for a role that was found;
Inputs ==
  /\ holder \in Holders /\ mapped \in Mappings
  /\ role = <<>> \/ \E r \in Roles : role = <<r>>

Phases ==
  /\ at \in {"start", "targets", "done"} /\ todo \subseteq Targets
  /\ at = "start" \/ role = <<>> => todo = Targets /\ eval = <<>>
  /\ at = "targets" => role # <<>>
  /\ at = "done" /\ role # <<>> => todo = {}

\* what is claimed, known and told is what the targets passed so far add;
Drawn == claims = UNION {ClaimsOn(t) : t \in Targets \ todo}

Known ==
  eval # <<>> =>
    eval = <<[complete  |-> ~Unread /\ ~BoundaryUnread,
              permitted |-> {t \in Targets \ todo : Permitted(t)}]>>

\* and neither an unread document nor a blocked grant goes untold.
Told ==
  /\ at # "start" /\ role # <<>> /\ Unread => Finding("unscanned", "role") \in findings
  /\ holder # "api" =>
       \A t \in Targets \ todo : Blocked(t) => Finding("blocked", t) \in findings

IInv == Inputs /\ Phases /\ Drawn /\ Known /\ Told
-----------------------------------------------------------------------------
(* Matching.                                                               *)

\* A set of numbers has a least one: the entry that matches first.
LEMMA SmallestExists ==
  ASSUME NEW S \in SUBSET Nat, S # {}
  PROVE  \E d \in S : \A e \in S : d <= e
<1>1. PICK d \in S : \A e \in S : ~(<<e, d>> \in OpToRel(<, Nat))
  BY WFMin, NatLessThanWellFounded
<1>2. \A e \in S : <<e, d>> \in OpToRel(<, Nat) <=> e < d
  BY DEF OpToRel
<1>3. \A e \in S : ~(e < d)
  BY <1>1, <1>2
<1>4. d \in Nat /\ S \subseteq Nat
  OBVIOUS
<1>5. \A e \in S : d <= e
  BY <1>3, <1>4
<1> QED BY <1>5

\* A statement's action and resource are each one of its own entries, one that
\* matches, and they are there as soon as any entry matches.
LEMMA ActionEntryIs ==
  ASSUME NEW st \in Statements, NEW a
  PROVE  /\ \A e \in ActionEntry(st, a) :
              \E k \in DOMAIN st.actions : e = st.actions[k] /\ a \in e.covers
         /\ ActionEntry(st, a) # {} <=> \E k \in DOMAIN st.actions : a \in st.actions[k].covers
<1> DEFINE M == {k \in DOMAIN st.actions : a \in st.actions[k].covers}
<1>1. st.actions \in Seq(ActionEntries)
  BY DEF Statements
<1>2. DOMAIN st.actions \subseteq Nat
  BY <1>1
<1>3. \A e \in ActionEntry(st, a) :
        \E k \in DOMAIN st.actions : e = st.actions[k] /\ a \in e.covers
  BY DEF ActionEntry
<1>4. ASSUME M # {} PROVE ActionEntry(st, a) # {}
  <2>1. PICK k \in M : \A l \in M : k <= l
    BY <1>2, <1>4, SmallestExists
  <2>2. DOMAIN st.actions = 1 .. Len(st.actions) /\ Len(st.actions) \in Nat
    BY <1>1
  <2>3. \A l \in 1 .. (k - 1) : a \notin st.actions[l].covers
    BY <2>1, <2>2
  <2> QED BY <2>1, <2>3 DEF ActionEntry
<1> QED BY <1>3, <1>4

LEMMA ResourceEntryIs ==
  ASSUME NEW st \in Statements, NEW arn
  PROVE  /\ \A e \in ResourceEntry(st, arn) :
              \E k \in DOMAIN st.resources : e = st.resources[k] /\ arn \in e.reaches
         /\ ResourceEntry(st, arn) # {} <=> \E k \in DOMAIN st.resources : arn \in st.resources[k].reaches
<1> DEFINE M == {k \in DOMAIN st.resources : arn \in st.resources[k].reaches}
<1>1. st.resources \in Seq(ResourceEntries)
  BY DEF Statements
<1>2. DOMAIN st.resources \subseteq Nat
  BY <1>1
<1>3. \A e \in ResourceEntry(st, arn) :
        \E k \in DOMAIN st.resources : e = st.resources[k] /\ arn \in e.reaches
  BY DEF ResourceEntry
<1>4. ASSUME M # {} PROVE ResourceEntry(st, arn) # {}
  <2>1. PICK k \in M : \A l \in M : k <= l
    BY <1>2, <1>4, SmallestExists
  <2>2. DOMAIN st.resources = 1 .. Len(st.resources) /\ Len(st.resources) \in Nat
    BY <1>1
  <2>3. \A l \in 1 .. (k - 1) : arn \notin st.resources[l].reaches
    BY <2>1, <2>2
  <2> QED BY <2>1, <2>3 DEF ResourceEntry
<1> QED BY <1>3, <1>4

\* Taking the first match of each list is taking the lists as sets.
LEMMA AppliesSays ==
  ASSUME NEW st \in Statements, NEW a, NEW arn
  PROVE  Applies(st, a, arn) <=> Says(st, a, arn)
BY ActionEntryIs, ResourceEntryIs DEF Applies, Says

\* What the classes of actions are.
LEMMA ClassesAre ==
  ASSUME NEW type \in {"queue", "table", "function"}, NEW cl \in ActionClasses(type)
  PROVE  /\ cl.kind \in {"publish", "consume", "read", "write", "invoke"}
         /\ cl.kind = "consume" => cl.reverse
<1>1. CASE type = "queue"
  BY <1>1 DEF ActionClasses
<1>2. CASE type = "table"
  BY <1>2 DEF ActionClasses
<1>3. CASE type = "function"
  BY <1>3 DEF ActionClasses
<1> QED BY <1>1, <1>2, <1>3

\* The documents of a role hold statements, readable or not.
LEMMA StatementsAre ==
  ASSUME Inputs, role # <<>>
  PROVE  /\ Identity \subseteq Statements /\ AllDocuments \subseteq Statements
         /\ AllBoundary \subseteq Statements /\ Identity \subseteq AllDocuments
         /\ HasBoundary => AllBoundary = role[1].boundary[1].statements
         /\ ~HasBoundary => AllBoundary = {}
<1>1. PICK r \in Roles : role = <<r>>
  BY DEF Inputs
<1>2. role[1] = r
  BY <1>1
<1>3. \A d \in r.documents \cup {r.boundary[k] : k \in DOMAIN r.boundary} : d.statements \subseteq Statements
  BY RoleAssumption
<1>4. r.boundary = <<>> \/ DOMAIN r.boundary = {1}
  BY RoleAssumption
<1>5. AllDocuments \subseteq Statements /\ Identity \subseteq AllDocuments
  BY <1>2, <1>3 DEF AllDocuments, Identity
<1>6. AllBoundary \subseteq Statements
  BY <1>2, <1>3 DEF AllBoundary
<1>7. DOMAIN r.boundary = {1} => AllBoundary = r.boundary[1].statements
  BY <1>2 DEF AllBoundary
<1>8. r.boundary = <<>> => AllBoundary = {}
  BY <1>2 DEF AllBoundary
<1> QED BY <1>2, <1>4, <1>5, <1>6, <1>7, <1>8 DEF HasBoundary

-----------------------------------------------------------------------------
(* What a class of actions is allowed on a target.                         *)

LEMMA GrantsAre ==
  ASSUME Inputs, role # <<>>, NEW t \in Targets, NEW cl
  PROVE  /\ \A g \in Grants(t, cl) :
              /\ <<g.granted, g.on>> \in Checks(t, cl)
              /\ g.st \in Identity /\ g.st.allow /\ g.st \in Statements
              /\ g.action \in ActionEntry(g.st, g.granted)
              /\ g.entry \in ResourceEntry(g.st, g.on)
         /\ \A st \in Identity : \A x \in Checks(t, cl) :
              st.allow /\ Applies(st, x[1], x[2]) =>
                \E g \in Grants(t, cl) : g.st = st /\ g.granted = x[1] /\ g.on = x[2]
<1>1. ASSUME NEW g \in Grants(t, cl)
      PROVE  /\ <<g.granted, g.on>> \in Checks(t, cl)
             /\ g.st \in Identity /\ g.st.allow
             /\ g.action \in ActionEntry(g.st, g.granted)
             /\ g.entry \in ResourceEntry(g.st, g.on)
  <2>1. PICK st \in {s \in Identity : s.allow}, x \in Checks(t, cl) :
          g \in {[st |-> st, granted |-> x[1], on |-> x[2], action |-> ae, entry |-> re] :
                   ae \in ActionEntry(st, x[1]), re \in ResourceEntry(st, x[2])}
    BY DEF Grants
  <2>2. PICK ae \in ActionEntry(st, x[1]), re \in ResourceEntry(st, x[2]) :
          g = [st |-> st, granted |-> x[1], on |-> x[2], action |-> ae, entry |-> re]
    BY <2>1
  <2>3. x = <<x[1], x[2]>>
    BY DEF Checks
  <2> QED BY <2>2, <2>3
<1>2. ASSUME NEW st \in Identity, NEW x \in Checks(t, cl), st.allow, Applies(st, x[1], x[2])
      PROVE  \E g \in Grants(t, cl) : g.st = st /\ g.granted = x[1] /\ g.on = x[2]
  <2>1. PICK ae \in ActionEntry(st, x[1]), re \in ResourceEntry(st, x[2]) : TRUE
    BY <1>2 DEF Applies
  <2> DEFINE g == [st |-> st, granted |-> x[1], on |-> x[2], action |-> ae, entry |-> re]
  <2> DEFINE F(s, y) == {[st |-> s, granted |-> y[1], on |-> y[2], action |-> a, entry |-> r] :
                           a \in ActionEntry(s, y[1]), r \in ResourceEntry(s, y[2])}
  <2>2. Grants(t, cl) = UNION {F(s, y) : s \in {u \in Identity : u.allow}, y \in Checks(t, cl)}
    BY DEF Grants
  <2>3. g \in F(st, x) /\ g.st = st /\ g.granted = x[1] /\ g.on = x[2]
    OBVIOUS
  <2> HIDE DEF F, g
  <2>4. g \in Grants(t, cl)
    BY <1>2, <2>2, <2>3
  <2> QED BY <2>3, <2>4
<1>3. Identity \subseteq Statements
  BY StatementsAre
<1> QED BY <1>1, <1>2, <1>3

\* A class is allowed on a target when some check of it is.
LEMMA AllowedIs ==
  ASSUME Inputs, role # <<>>, NEW t \in Targets, NEW cl
  PROVE  Allowed(t, cl) # {} <=>
           \E x \in Checks(t, cl) :
             /\ \E st \in Identity : st.allow /\ Applies(st, x[1], x[2])
             /\ ~Cancelled(x[1], x[2])
<1>1. ASSUME NEW g \in Allowed(t, cl)
      PROVE  \E x \in Checks(t, cl) :
               /\ \E st \in Identity : st.allow /\ Applies(st, x[1], x[2])
               /\ ~Cancelled(x[1], x[2])
  <2>1. g \in Grants(t, cl) /\ ~Cancelled(g.granted, g.on)
    BY DEF Allowed
  <2>2. /\ <<g.granted, g.on>> \in Checks(t, cl)
        /\ g.st \in Identity /\ g.st.allow
        /\ Applies(g.st, g.granted, g.on)
    BY <2>1, GrantsAre DEF Applies
  <2>3. <<g.granted, g.on>>[1] = g.granted /\ <<g.granted, g.on>>[2] = g.on
    OBVIOUS
  <2> QED BY <2>1, <2>2, <2>3
<1>2. ASSUME NEW x \in Checks(t, cl), ~Cancelled(x[1], x[2]),
             NEW st \in Identity, st.allow, Applies(st, x[1], x[2])
      PROVE  Allowed(t, cl) # {}
  <2>1. PICK g \in Grants(t, cl) : g.st = st /\ g.granted = x[1] /\ g.on = x[2]
    BY <1>2, GrantsAre
  <2> QED BY <1>2, <2>1 DEF Allowed
<1> QED BY <1>1, <1>2

\* A role read in full is judged as IAM judges it.
LEMMA WholeIsIam ==
  ASSUME Inputs, role # <<>>, ~Unread, ~BoundaryUnread, NEW a, NEW arn
  PROVE  IamAllows(a, arn) <=>
           /\ \E st \in Identity : st.allow /\ Applies(st, a, arn)
           /\ ~Cancelled(a, arn)
<1>1. Identity = AllDocuments
  BY DEF Unread, Identity, AllDocuments
<1>2. /\ AllDocuments \subseteq Statements /\ AllBoundary \subseteq Statements
      /\ HasBoundary => AllBoundary = role[1].boundary[1].statements
      /\ ~HasBoundary => AllBoundary = {}
  BY StatementsAre
<1>3. \A st \in AllDocuments \cup AllBoundary : Applies(st, a, arn) <=> Says(st, a, arn)
  BY <1>2, AppliesSays
<1>4. Denies(Identity, a, arn) <=>
        \E st \in AllDocuments : ~st.allow /\ ~st.conditional /\ Says(st, a, arn)
  BY <1>1, <1>3 DEF Denies
<1>5. CASE HasBoundary
  <2> DEFINE sts == role[1].boundary[1].statements
  <2>1. AllBoundary = sts
    BY <1>2, <1>5
  <2> HIDE DEF sts
  <2>2. Cancelled(a, arn) <=>
          \/ Denies(Identity, a, arn)
          \/ Denies(sts, a, arn) \/ ~\E st \in sts : st.allow /\ Applies(st, a, arn)
    BY <1>5 DEF Cancelled, sts
  <2>3. Denies(sts, a, arn) <=>
          \E st \in AllBoundary : ~st.allow /\ ~st.conditional /\ Says(st, a, arn)
    BY <1>3, <2>1 DEF Denies
  <2>4. (\E st \in sts : st.allow /\ Applies(st, a, arn)) <=>
          \E st \in AllBoundary : st.allow /\ Says(st, a, arn)
    BY <1>3, <2>1
  <2>5. (\E st \in Identity : st.allow /\ Applies(st, a, arn)) <=>
          \E st \in AllDocuments : st.allow /\ Says(st, a, arn)
    BY <1>1, <1>3
  <2> QED BY <1>4, <1>5, <2>2, <2>3, <2>4, <2>5 DEF IamAllows
<1>6. CASE ~HasBoundary
  <2>1. AllBoundary = {}
    BY <1>2, <1>6
  <2>2. Cancelled(a, arn) <=> Denies(Identity, a, arn)
    BY <1>6 DEF Cancelled
  <2>3. (\E st \in Identity : st.allow /\ Applies(st, a, arn)) <=>
          \E st \in AllDocuments : st.allow /\ Says(st, a, arn)
    BY <1>1, <1>3
  <2> QED BY <1>4, <1>6, <2>1, <2>2, <2>3 DEF IamAllows
<1> QED BY <1>5, <1>6

\* An allowed class means that IAM allows one of its checks.
LEMMA AllowedMay ==
  ASSUME Inputs, role # <<>>, ~Unread, ~BoundaryUnread, NEW t \in Targets, NEW cl
  PROVE  Allowed(t, cl) # {} <=> \E x \in Checks(t, cl) : IamAllows(x[1], x[2])
BY AllowedIs, WholeIsIam
-----------------------------------------------------------------------------
(* The actions.                                                            *)

LEMMA InitIInv == Init => IInv
<1> SUFFICES ASSUME Init PROVE IInv
  OBVIOUS
<1>1. Inputs /\ Phases
  BY DEF Init, Inputs, Phases
<1>2. Targets \ todo = {}
  BY DEF Init
<1>3. Drawn
  <2>1. UNION {ClaimsOn(t) : t \in Targets \ todo} = {}
    BY <1>2
  <2> QED BY <2>1 DEF Init, Drawn
<1>4. Known /\ Told
  BY <1>2 DEF Init, Known, Told
<1> QED BY <1>1, <1>3, <1>4 DEF IInv

\* What is concluded about a target depends on the inputs alone.
LEMMA Frozen ==
  ASSUME UNCHANGED inputs
  PROVE  /\ Unread' <=> Unread
         /\ BoundaryUnread' <=> BoundaryUnread
         /\ \A t : /\ ClaimsOn(t)' = ClaimsOn(t)
                   /\ Permitted(t)' <=> Permitted(t)
                   /\ Blocked(t)' <=> Blocked(t)
<1>1. UNCHANGED <<holder, role, mapped, policies>>
  BY DEF inputs
<1>2. /\ Identity' = Identity
      /\ Unread' <=> Unread
      /\ HasBoundary' <=> HasBoundary
  BY <1>1 DEF Identity, Unread, HasBoundary
<1>3. BoundaryUnread' <=> BoundaryUnread
  BY <1>1, <1>2 DEF BoundaryUnread
<1>4. \A a, arn : Denies(Identity, a, arn)' <=> Denies(Identity, a, arn)
  BY <1>2 DEF Denies
<1>5. \A a, arn : Cancelled(a, arn)' <=> Cancelled(a, arn)
  BY <1>1, <1>2, <1>3, <1>4 DEF Cancelled
<1>6. \A t, cl : Grants(t, cl)' = Grants(t, cl)
  BY <1>2 DEF Grants
<1>7. \A t, cl : Allowed(t, cl)' = Allowed(t, cl)
  BY <1>5, <1>6 DEF Allowed
<1>8. \A t, cl : Specific(t, cl)' = Specific(t, cl)
  BY <1>7 DEF Specific
<1>9. \A t, grants, poll : Confidence(t, grants, poll)' = Confidence(t, grants, poll)
  BY <1>3 DEF Confidence
<1>10. \A t, kind, reverse, grants, poll :
         Claim(t, kind, reverse, grants, poll)' = Claim(t, kind, reverse, grants, poll)
  BY <1>1, <1>9 DEF Claim
<1>11. \A t : ClaimsOn(t)' = ClaimsOn(t)
  BY <1>1, <1>8, <1>10 DEF ClaimsOn
<1>12. \A t : Permitted(t)' <=> Permitted(t)
  BY <1>1, <1>7 DEF Permitted
<1>13. \A t : Blocked(t)' <=> Blocked(t)
  BY <1>6, <1>7 DEF Blocked
<1> QED BY <1>2, <1>3, <1>11, <1>12, <1>13

\* A step that evaluates no target keeps what was drawn from those before.
LEMMA OtherSteps == IInv /\ (Missing \/ Start \/ Report \/ UNCHANGED vars) => IInv'
<1> SUFFICES ASSUME IInv, Missing \/ Start \/ Report \/ UNCHANGED vars PROVE IInv'
  OBVIOUS
<1>1. UNCHANGED <<inputs, todo, claims>>
  BY DEF Missing, Start, Report, vars
<1>2. UNCHANGED <<holder, role, mapped, policies>>
  BY <1>1 DEF inputs
<1>3. Inputs' /\ Phases'
  BY <1>2 DEF IInv, Inputs, Phases, Missing, Start, Report, vars
<1>4. Drawn'
  BY <1>1, Frozen DEF IInv, Drawn
<1>5. findings \subseteq findings'
  BY DEF Missing, Start, Report, vars
<1>6. Known'
  <2>1. CASE UNCHANGED eval
    BY <1>1, <2>1, Frozen DEF IInv, Known
  <2>2. CASE Start
    <3>1. {t \in Targets \ todo' : Permitted(t)'} = {}
      BY <1>1, <2>2 DEF IInv, Phases, Start
    <3>2. eval' # <<>> => eval' = <<[complete |-> ~Unread /\ ~BoundaryUnread, permitted |-> {}]>>
      BY <2>2 DEF Start
    <3> QED BY <1>1, <3>1, <3>2, Frozen DEF Known
  <2> QED BY <2>1, <2>2 DEF Missing, Report, vars
<1>7. Told'
  <2>1. \A t \in Targets \ todo : Blocked(t)' <=> Blocked(t)
    BY <1>1, Frozen
  <2>2. holder' # "api" =>
          \A t \in Targets \ todo' : Blocked(t)' => Finding("blocked", t) \in findings'
    BY <1>1, <1>2, <1>5, <2>1 DEF IInv, Told
  <2>3. at' # "start" /\ role' # <<>> /\ Unread' => Finding("unscanned", "role") \in findings'
    BY <1>1, <1>2, <1>5, Frozen DEF IInv, Told, Phases, Missing, Start, Report, vars
  <2> QED BY <2>2, <2>3 DEF Told, Finding
<1> QED BY <1>3, <1>4, <1>6, <1>7 DEF IInv

LEMMA Widened ==
  ASSUME NEW k, NEW P, NEW x
  PROVE  [[complete |-> k, permitted |-> P] EXCEPT !.permitted = @ \cup x]
           = [complete |-> k, permitted |-> P \cup x]
OBVIOUS

LEMMA EvaluateStep == ASSUME IInv, NEW t \in todo, Evaluate(t) PROVE IInv'
<1>1. /\ UNCHANGED inputs /\ at' = at /\ at = "targets"
      /\ todo' = todo \ {t}
      /\ claims' = claims \cup ClaimsOn(t)
      /\ findings \subseteq findings'
      /\ holder # "api" /\ Blocked(t) => Finding("blocked", t) \in findings'
  BY DEF Evaluate
<1>2. UNCHANGED <<holder, role, mapped, policies>>
  BY <1>1 DEF inputs
<1>3. t \in Targets /\ Targets \ todo' = (Targets \ todo) \cup {t} /\ role # <<>>
  BY <1>1 DEF IInv, Phases
<1>4. Inputs' /\ Phases'
  BY <1>1, <1>2, <1>3 DEF IInv, Inputs, Phases
<1>5. Drawn'
  <2>1. \A u : ClaimsOn(u)' = ClaimsOn(u)
    BY <1>1, Frozen
  <2>2. UNION {ClaimsOn(u)' : u \in Targets \ todo'} =
          (UNION {ClaimsOn(u) : u \in Targets \ todo}) \cup ClaimsOn(t)
    BY <1>3, <2>1
  <2> QED BY <1>1, <2>2 DEF IInv, Drawn
<1>6. Known'
  <2> SUFFICES ASSUME eval' # <<>>
               PROVE  eval' = <<[complete  |-> ~Unread' /\ ~BoundaryUnread',
                                 permitted |-> {u \in Targets \ todo' : Permitted(u)'}]>>
    BY DEF Known
  <2> DEFINE P == {u \in Targets \ todo : Permitted(u)}
             Q == {u \in Targets \ todo' : Permitted(u)'}
             k == ~Unread /\ ~BoundaryUnread
             j == ~Unread' /\ ~BoundaryUnread'
  <2>1. eval # <<>>
    BY DEF Evaluate
  <2>2. eval = <<[complete |-> k, permitted |-> P]>>
    BY <2>1 DEF IInv, Known
  <2>3. j = k
    BY <1>1, Frozen
  <2>4. \A u : Permitted(u)' <=> Permitted(u)
    BY <1>1, Frozen
  <2>5. Q = IF Permitted(t) THEN P \cup {t} ELSE P
    BY <1>3, <2>4
  <2>6. eval' = IF Permitted(t) THEN <<[eval[1] EXCEPT !.permitted = @ \cup {t}]>> ELSE eval
    BY <2>1 DEF Evaluate
  <2> HIDE DEF P, Q, k, j
  <2>7. [eval[1] EXCEPT !.permitted = @ \cup {t}] = [complete |-> k, permitted |-> P \cup {t}]
    <3> DEFINE e == [complete |-> k, permitted |-> P]
    <3>1. eval[1] = e
      BY <2>2
    <3>2. [e EXCEPT !.permitted = @ \cup {t}] = [complete |-> k, permitted |-> P \cup {t}]
      BY Widened
    <3> QED BY <3>1, <3>2
  <2>8. eval' = <<[complete |-> k, permitted |-> Q]>>
    BY <2>2, <2>5, <2>6, <2>7
  <2>9. eval' = <<[complete |-> j, permitted |-> Q]>>
    BY <2>3, <2>8
  <2> QED BY <2>9 DEF Q, j
<1>7. Told'
  <2>1. \A u : Blocked(u)' <=> Blocked(u)
    BY <1>1, Frozen
  <2>2. holder' # "api" =>
          \A u \in Targets \ todo' : Blocked(u)' => Finding("blocked", u) \in findings'
    BY <1>1, <1>2, <1>3, <2>1 DEF IInv, Told
  <2>3. at' # "start" /\ role' # <<>> /\ Unread' => Finding("unscanned", "role") \in findings'
    BY <1>1, <1>2, Frozen DEF IInv, Told
  <2> QED BY <2>2, <2>3 DEF Told, Finding
<1> QED BY <1>4, <1>5, <1>6, <1>7 DEF IInv

\* Every reachable state satisfies the inductive invariant.
THEOREM Inductive == Spec => []IInv
<1>1. IInv /\ [Next]_vars => IInv'
  BY OtherSteps, EvaluateStep DEF Next, Done
<1> QED BY InitIInv, <1>1, PTL DEF Spec
-----------------------------------------------------------------------------
(* What a claim stands on.                                                 *)

Kinds == {"publish", "consume", "read", "write", "invoke"}

LEMMA ConfidenceIs ==
  ASSUME NEW t, NEW grants, NEW poll \in BOOLEAN
  PROVE  /\ Confidence(t, grants, poll) \in {Low, Medium}
         /\ Confidence(t, grants, poll) = Medium =>
              /\ ~BoundaryUnread /\ ~poll
              /\ \E g \in grants : g.entry.name = "exact" \/ MatchCount(g.entry, t) = 1
BY DEF Confidence, Low, Medium

LEMMA ClaimOfGrant ==
  ASSUME NEW t, NEW kind, NEW reverse, NEW grants, NEW poll, NEW g \in grants
  PROVE  \E c \in Claim(t, kind, reverse, grants, poll) : c.target = t /\ c.kind = kind
<1> DEFINE op == IF holder = "api" THEN "corroborate" ELSE "permit"
           c  == [op |-> op, target |-> t, kind |-> kind, reverse |-> reverse,
                  conf |-> Confidence(t, grants, poll), st |-> g.st, entry |-> g.entry]
<1>1. c \in Claim(t, kind, reverse, grants, poll)
  BY DEF Claim
<1>2. c.target = t /\ c.kind = kind
  OBVIOUS
<1> HIDE DEF c
<1> QED BY <1>1, <1>2

LEMMA ClaimForms ==
  ASSUME NEW t \in Targets, NEW c \in ClaimsOn(t)
  PROVE  /\ c.target = t /\ c.op \in {"permit", "corroborate"} /\ c.conf \in {Low, Medium}
         /\ c.kind \in Kinds \cup {"references"}
         /\ c.conf = Medium =>
              /\ ~BoundaryUnread
              /\ c.kind = "consume" /\ holder = "function" => t \in mapped
              /\ \E cl \in ActionClasses(TypeOf[t]) : \E g \in Specific(t, cl) :
                   /\ c.kind \in {cl.kind, "references"}
                   /\ g.entry.name = "exact" \/ MatchCount(g.entry, t) = 1
         /\ IF c.kind = "references"
            THEN \A d \in ClaimsOn(t) : d.kind = "references"
            ELSE \E cl \in ActionClasses(TypeOf[t]) :
                   /\ c.kind = cl.kind
                   /\ \E g \in Specific(t, cl) : ~g.action.wide
<1> DEFINE results == {cl \in ActionClasses(TypeOf[t]) : Specific(t, cl) # {}}
           stated  == {cl \in results : \E g \in Specific(t, cl) : ~g.action.wide}
           some    == UNION {Specific(t, cl) : cl \in results}
           poll(cl) == cl.reverse /\ holder = "function" /\ t \notin mapped
           no      == FALSE
<1>0. TypeOf[t] \in {"queue", "table", "function"}
  BY RoleAssumption
<1>1. \A cl \in ActionClasses(TypeOf[t]) : cl.kind \in Kinds /\ (cl.kind = "consume" => cl.reverse)
  BY <1>0, ClassesAre DEF Kinds
<1>2. \A cl \in results : cl \in ActionClasses(TypeOf[t])
  OBVIOUS
<1>3. \A cl \in stated : cl \in results /\ \E g \in Specific(t, cl) : ~g.action.wide
  OBVIOUS
<1>4. \A g \in some : \E cl \in results : g \in Specific(t, cl)
  OBVIOUS
<1>5. ClaimsOn(t) = IF stated = {} THEN Claim(t, "references", no, some, no)
                    ELSE UNION {Claim(t, cl.kind, cl.reverse, Specific(t, cl), poll(cl)) : cl \in stated}
  BY DEF ClaimsOn
<1>6. no \in BOOLEAN /\ \A cl : poll(cl) \in BOOLEAN
  OBVIOUS
<1>7. \A kind, reverse, grants, p : \A d \in Claim(t, kind, reverse, grants, p) :
        /\ d.target = t /\ d.op \in {"permit", "corroborate"} /\ d.kind = kind
        /\ d.conf = Confidence(t, grants, p)
  BY DEF Claim
<1>8. \A cl : ~poll(cl) /\ cl.reverse /\ holder = "function" => t \in mapped
  OBVIOUS
<1> HIDE DEF results, stated, some, poll, no
<1>9. CASE stated = {}
  <2>1. \A d \in ClaimsOn(t) : d \in Claim(t, "references", no, some, no)
    BY <1>5, <1>9
  <2>2. \A d \in ClaimsOn(t) : d.kind = "references"
    BY <1>7, <2>1
  <2>3. c.target = t /\ c.op \in {"permit", "corroborate"} /\ c.conf = Confidence(t, some, no)
    BY <1>7, <2>1
  <2>4. ASSUME c.conf = Medium
        PROVE  /\ ~BoundaryUnread
               /\ \E cl \in ActionClasses(TypeOf[t]) : \E g \in Specific(t, cl) :
                    g.entry.name = "exact" \/ MatchCount(g.entry, t) = 1
    <3>1. /\ ~BoundaryUnread
          /\ \E g \in some : g.entry.name = "exact" \/ MatchCount(g.entry, t) = 1
      BY <1>6, <2>3, <2>4, ConfidenceIs
    <3> QED BY <1>2, <1>4, <3>1
  <2>5. c.conf \in {Low, Medium}
    BY <1>6, <2>3, ConfidenceIs
  <2> QED BY <2>2, <2>3, <2>4, <2>5
<1>10. CASE stated # {}
  <2>1. \A d \in ClaimsOn(t) : \E cl \in stated :
          d \in Claim(t, cl.kind, cl.reverse, Specific(t, cl), poll(cl))
    BY <1>5, <1>10
  <2>2. PICK cl \in stated : c \in Claim(t, cl.kind, cl.reverse, Specific(t, cl), poll(cl))
    BY <2>1
  <2>3. /\ cl \in ActionClasses(TypeOf[t]) /\ cl.kind \in Kinds /\ cl.kind # "references"
        /\ cl.kind = "consume" => cl.reverse
        /\ \E g \in Specific(t, cl) : ~g.action.wide
    BY <1>1, <1>2, <1>3 DEF Kinds
  <2>4. /\ c.target = t /\ c.op \in {"permit", "corroborate"} /\ c.kind = cl.kind
        /\ c.conf = Confidence(t, Specific(t, cl), poll(cl))
    BY <1>7, <2>2
  <2>5. /\ c.conf \in {Low, Medium}
        /\ c.conf = Medium =>
             /\ ~BoundaryUnread /\ ~poll(cl)
             /\ \E g \in Specific(t, cl) : g.entry.name = "exact" \/ MatchCount(g.entry, t) = 1
    BY <1>6, <2>4, ConfidenceIs
  <2> QED BY <1>8, <2>3, <2>4, <2>5
<1> QED BY <1>9, <1>10

LEMMA ClaimIs ==
  ASSUME IInv, NEW c \in claims
  PROVE  /\ role # <<>> /\ c.target \in Targets
         /\ \A d \in claims : d.target = c.target => d \in ClaimsOn(c.target)
<1>1. \A d \in claims : \E t \in Targets \ todo : d \in ClaimsOn(t)
  BY DEF IInv, Drawn
<1>2. \A d \in claims : d.target \in Targets \ todo /\ d \in ClaimsOn(d.target)
  BY <1>1, ClaimForms
<1> QED BY <1>2 DEF IInv, Phases

-----------------------------------------------------------------------------
(* The theorems.                                                           *)

LEMMA TypesKept == IInv => TypeOK
<1> SUFFICES ASSUME IInv PROVE TypeOK
  OBVIOUS
<1>1. /\ holder \in Holders /\ mapped \subseteq Targets
      /\ at \in {"start", "targets", "done"} /\ todo \subseteq Targets
  BY RoleAssumption DEF IInv, Inputs, Phases
<1>2. \A c \in claims : /\ c.op \in {"permit", "corroborate"} /\ c.target \in Targets
                        /\ c.conf \in {Low, Medium}
                        /\ c.kind \in {"publish", "consume", "read", "write", "invoke", "references"}
  BY ClaimIs, ClaimForms DEF Kinds
<1>3. \A k \in DOMAIN eval : eval[k].permitted \subseteq Targets
  <2> DEFINE P == {t \in Targets \ todo : Permitted(t)}
             k == ~Unread /\ ~BoundaryUnread
  <2>1. eval # <<>> => eval = <<[complete |-> k, permitted |-> P]>>
    BY DEF IInv, Known
  <2>2. P \subseteq Targets
    OBVIOUS
  <2> HIDE DEF P, k
  <2>3. CASE eval = <<>>
    BY <2>3
  <2>4. CASE eval = <<[complete |-> k, permitted |-> P]>>
    <3>1. DOMAIN eval = {1} /\ eval[1].permitted = P
      BY <2>4
    <3> QED BY <2>2, <3>1
  <2> QED BY <2>1, <2>3, <2>4
<1> QED BY <1>1, <1>2, <1>3 DEF TypeOK

\* What a function is said not to be allowed, it is not: an evaluation that
\* calls itself complete knows exactly what IAM and the targets' own policies
\* permit, for every role, every boundary and every set of targets.
THEOREM AbsenceKnown == Spec => []AbsenceIsKnown
<1>1. IInv => AbsenceIsKnown
  <2> SUFFICES ASSUME IInv, at = "done", eval # <<>>, eval[1].complete
               PROVE  eval[1].permitted = {t \in Targets : May(t) \/ policies[t] # "none"}
    BY DEF AbsenceIsKnown
  <2> DEFINE P == {t \in Targets \ todo : Permitted(t)}
             k == ~Unread /\ ~BoundaryUnread
  <2>1. eval = <<[complete |-> k, permitted |-> P]>>
    BY DEF IInv, Known
  <2>2. role # <<>> /\ todo = {} /\ Inputs
    BY DEF IInv, Phases
  <2>3. eval[1].permitted = P /\ eval[1].complete = k
    BY <2>1
  <2>4. ~Unread /\ ~BoundaryUnread
    BY <2>3
  <2>5. ASSUME NEW t \in Targets PROVE Permitted(t) <=> May(t) \/ policies[t] # "none"
    <3>1. \A cl : Allowed(t, cl) # {} <=> \E x \in Checks(t, cl) : IamAllows(x[1], x[2])
      BY <2>2, <2>4, AllowedMay
    <3>2. May(t) <=> \E cl \in ActionClasses(TypeOf[t]) :
                       \E x \in Checks(t, cl) : IamAllows(x[1], x[2])
      BY DEF May, MayDo
    <3> QED BY <3>1, <3>2 DEF Permitted
  <2> QED BY <2>2, <2>3, <2>5
<1> QED BY <1>1, Inductive, PTL

\* A medium claim is one IAM would grant, unless the role is reported as read
\* in part.
LEMMA MediumGranted == IInv => MediumIsGranted
<1> SUFFICES ASSUME IInv, NEW c \in claims, c.conf = Medium, ~Unread
             PROVE  MayDo(c.target, c.kind)
  <2>1. ASSUME IInv, Unread, NEW c \in claims PROVE Finding("unscanned", "role") \in findings
    <3>1. role # <<>> /\ c.target \in Targets \ todo
      <4>1. \E t \in Targets \ todo : c \in ClaimsOn(t)
        BY <2>1 DEF IInv, Drawn
      <4> QED BY <2>1, <4>1, ClaimIs, ClaimForms
    <3>2. at # "start"
      BY <2>1, <3>1 DEF IInv, Phases
    <3> QED BY <2>1, <3>1, <3>2 DEF IInv, Told
  <2> QED BY <2>1 DEF MediumIsGranted
<1> DEFINE t == c.target
<1>1. t \in Targets /\ c \in ClaimsOn(t) /\ role # <<>> /\ Inputs
  BY ClaimIs DEF IInv
<1> HIDE DEF t
<1>2. /\ ~BoundaryUnread
      /\ \E cl \in ActionClasses(TypeOf[t]) :
           Specific(t, cl) # {} /\ c.kind \in {cl.kind, "references"}
  BY <1>1, ClaimForms
<1>3. PICK cl \in ActionClasses(TypeOf[t]) : Specific(t, cl) # {} /\ c.kind \in {cl.kind, "references"}
  BY <1>2
<1>4. Allowed(t, cl) # {}
  BY <1>3 DEF Specific
<1>5. \E x \in Checks(t, cl) : IamAllows(x[1], x[2])
  BY <1>1, <1>2, <1>4, AllowedMay
<1>6. MayDo(t, c.kind)
  BY <1>3, <1>5 DEF MayDo
<1> QED BY <1>6 DEF t

\* An entry that matches one target of a type reaches no other of that type.
LEMMA MatchIsOne ==
  ASSUME NEW t \in Targets, NEW entry \in ResourceEntries, NEW arn \in ArnsOf(t) \cap entry.reaches,
         MatchCount(entry, t) = 1, NEW x \in entry.reaches, TypeOf[x[1]] = TypeOf[t]
  PROVE  x[1] = t
<1> DEFINE M == {u \in Targets : TypeOf[u] = TypeOf[t] /\ ArnsOf(u) \cap entry.reaches # {}}
<1>1. IsFiniteSet(M) /\ Cardinality(M) = 1
  <2>1. M \in SUBSET Targets
    OBVIOUS
  <2> QED BY <2>1, RoleAssumption, FS_Subset DEF MatchCount
<1>2. PICK m : M = {m}
  BY <1>1, FS_Singleton
<1>3. t \in M
  OBVIOUS
<1>4. PICK u \in Targets : x \in ArnsOf(u)
  BY DEF ResourceEntries
<1>5. x[1] = u
  BY <1>4 DEF ArnsOf
<1>6. u \in M
  BY <1>4, <1>5
<1> QED BY <1>2, <1>3, <1>5, <1>6

LEMMA MediumOne == IInv => MediumIsOne
<1> SUFFICES ASSUME IInv, NEW c \in claims, c.conf = Medium
             PROVE  /\ ~BoundaryUnread
                    /\ c.kind = "consume" /\ holder = "function" => c.target \in mapped
                    /\ \E st \in Identity : st.allow /\ \E k \in DOMAIN st.resources :
                         LET e == st.resources[k] IN
                         /\ \E part \in {"own", "index", "stream"} : <<c.target, part>> \in e.reaches
                         /\ e.name = "exact"
                              \/ \A x \in e.reaches : TypeOf[x[1]] = TypeOf[c.target] => x[1] = c.target
  BY DEF MediumIsOne
<1> DEFINE t == c.target
<1>1. t \in Targets /\ c \in ClaimsOn(t) /\ role # <<>> /\ Inputs
  BY ClaimIs DEF IInv
<1> HIDE DEF t
<1>2. ~BoundaryUnread /\ (c.kind = "consume" /\ holder = "function" => t \in mapped)
  BY <1>1, ClaimForms
<1>3. PICK cl \in ActionClasses(TypeOf[t]) : \E g \in Specific(t, cl) :
        g.entry.name = "exact" \/ MatchCount(g.entry, t) = 1
  BY <1>1, ClaimForms
<1>4. PICK g \in Specific(t, cl) : g.entry.name = "exact" \/ MatchCount(g.entry, t) = 1
  BY <1>3
<1>5. g \in Grants(t, cl)
  BY DEF Specific, Allowed
<1>6. /\ <<g.granted, g.on>> \in Checks(t, cl)
      /\ g.st \in Identity /\ g.st.allow /\ g.st \in Statements
      /\ g.entry \in ResourceEntry(g.st, g.on)
  BY <1>1, <1>5, GrantsAre
<1>7. PICK k \in DOMAIN g.st.resources : g.entry = g.st.resources[k] /\ g.on \in g.entry.reaches
  BY <1>6, ResourceEntryIs
<1>8. g.on \in ArnsOf(t)
  BY <1>6 DEF Checks
<1>9. \E part \in {"own", "index", "stream"} : g.on = <<t, part>>
  BY <1>1, <1>8, RoleAssumption DEF ArnsOf
<1>10. g.entry \in ResourceEntries
  BY <1>6, <1>7 DEF Statements
<1>11. g.entry.name = "exact" \/ \A x \in g.entry.reaches : TypeOf[x[1]] = TypeOf[t] => x[1] = t
  BY <1>1, <1>4, <1>7, <1>8, <1>10, MatchIsOne
<1> QED BY <1>2, <1>6, <1>7, <1>9, <1>11 DEF t

\* What is confident enough to enter a plan is granted, and to that target
\* alone, for every role that can be written down.
THEOREM MediumEarned == Spec => []MediumIsEarned
<1>1. IInv => MediumIsEarned
  BY TypesKept, MediumGranted, MediumOne DEF MediumIsEarned
<1> QED BY <1>1, Inductive, PTL

\* A verb is claimed only where a statement names it, and no target has both a
\* verb and a reference.
THEOREM IntentNamed == Spec => []IntentIsNamed
<1>1. IInv => IntentIsNamed
  <2> SUFFICES ASSUME IInv, NEW c \in claims
               PROVE  IF c.kind = "references"
                      THEN \A d \in claims : d.target = c.target => d.kind = "references"
                      ELSE \E st \in Identity, cl \in ActionClasses(TypeOf[c.target]) :
                             /\ st.allow /\ cl.kind = c.kind
                             /\ \E k \in DOMAIN st.actions :
                                  ~st.actions[k].wide /\ st.actions[k].covers \cap DOMAIN cl.on # {}
    BY DEF IntentIsNamed
  <2> DEFINE t == c.target
  <2>1. t \in Targets /\ role # <<>> /\ Inputs
    BY ClaimIs DEF IInv
  <2>2. \A d \in claims : d.target = t => d \in ClaimsOn(t)
    BY ClaimIs
  <2>3. c \in ClaimsOn(t)
    BY <2>2
  <2> HIDE DEF t
  <2>4. CASE c.kind = "references"
    BY <2>1, <2>2, <2>3, <2>4, ClaimForms DEF t
  <2>5. CASE c.kind # "references"
    <3>1. PICK cl \in ActionClasses(TypeOf[t]) :
            c.kind = cl.kind /\ \E g \in Specific(t, cl) : ~g.action.wide
      BY <2>1, <2>3, <2>5, ClaimForms
    <3>2. PICK g \in Specific(t, cl) : ~g.action.wide
      BY <3>1
    <3>3. g \in Grants(t, cl)
      BY DEF Specific, Allowed
    <3>4. /\ <<g.granted, g.on>> \in Checks(t, cl)
          /\ g.st \in Identity /\ g.st.allow /\ g.st \in Statements
          /\ g.action \in ActionEntry(g.st, g.granted)
      BY <2>1, <3>3, GrantsAre
    <3>5. PICK k \in DOMAIN g.st.actions : g.action = g.st.actions[k] /\ g.granted \in g.action.covers
      BY <3>4, ActionEntryIs
    <3>6. g.granted \in DOMAIN cl.on
      BY <3>4 DEF Checks
    <3>7. g.st.actions[k].covers \cap DOMAIN cl.on # {}
      BY <3>5, <3>6
    <3> QED BY <2>5, <3>1, <3>2, <3>4, <3>5, <3>7 DEF t
  <2> QED BY <2>4, <2>5
<1> QED BY <1>1, Inductive, PTL

\* A missing edge is explainable: what a statement grants by name is claimed
\* or reported as blocked.
THEOREM GrantAccountedFor == Spec => []GrantIsAccountedFor
<1>1. IInv => GrantIsAccountedFor
  <2> SUFFICES ASSUME IInv, at = "done", role # <<>>, holder # "api",
                      NEW st \in {s \in Identity : ByName(s)}, NEW t \in Targets,
                      NEW cl \in ActionClasses(TypeOf[t]),
                      NEW x \in Checks(t, cl), Says(st, x[1], x[2])
               PROVE  \/ \E c \in claims : c.target = t /\ c.kind = cl.kind
                      \/ Finding("blocked", t) \in findings
    BY DEF GrantIsAccountedFor
  <2>1. Inputs /\ todo = {}
    BY DEF IInv, Phases
  <2>2. st \in Identity /\ st \in Statements /\ ByName(st)
    BY <2>1, StatementsAre
  <2>3. Applies(st, x[1], x[2])
    BY <2>2, AppliesSays
  <2>4. PICK g \in Grants(t, cl) : g.st = st /\ g.granted = x[1] /\ g.on = x[2]
    BY <2>1, <2>2, <2>3, GrantsAre DEF ByName
  <2>5. g.action \in ActionEntry(st, g.granted) /\ g.entry \in ResourceEntry(st, g.on)
    BY <2>1, <2>4, GrantsAre
  <2>6. ~g.action.wide /\ g.entry.name # "every"
    BY <2>2, <2>5, ActionEntryIs, ResourceEntryIs DEF ByName
  <2>7. CASE g \notin Allowed(t, cl)
    <3>1. Blocked(t)
      BY <2>6, <2>7 DEF Blocked
    <3> QED BY <2>1, <3>1 DEF IInv, Told
  <2>8. CASE g \in Allowed(t, cl)
    <3> DEFINE results == {k \in ActionClasses(TypeOf[t]) : Specific(t, k) # {}}
               stated  == {k \in results : \E h \in Specific(t, k) : ~h.action.wide}
               F(k)    == Claim(t, k.kind, k.reverse, Specific(t, k),
                                k.reverse /\ holder = "function" /\ t \notin mapped)
    <3>1. g \in Specific(t, cl)
      BY <2>6, <2>8 DEF Specific
    <3>2. cl \in stated
      BY <2>6, <3>1
    <3>3. ClaimsOn(t) = UNION {F(k) : k \in stated}
      BY <3>2 DEF ClaimsOn
    <3> DEFINE poll == cl.reverse /\ holder = "function" /\ t \notin mapped
    <3>4. F(cl) = Claim(t, cl.kind, cl.reverse, Specific(t, cl), poll)
      OBVIOUS
    <3> HIDE DEF poll, F
    <3>5. PICK c \in F(cl) : c.target = t /\ c.kind = cl.kind
      BY <3>1, <3>4, ClaimOfGrant
    <3> HIDE DEF stated, results
    <3>6. c \in ClaimsOn(t)
      BY <3>2, <3>3, <3>5
    <3>7. ClaimsOn(t) \subseteq claims
      BY <2>1 DEF IInv, Drawn
    <3> QED BY <3>5, <3>6, <3>7
  <2> QED BY <2>7, <2>8
<1> QED BY <1>1, Inductive, PTL
=============================================================================
