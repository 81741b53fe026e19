----------------------------- MODULE WildMatch -----------------------------
(***************************************************************************)
(* wildMatch: does an IAM pattern match an action or an ARN?  * is any run *)
(* of characters, ? is exactly one.  The code goes forward greedily and    *)
(* comes back to the last * only.                                          *)
(*                                                                         *)
(* pAt and iAt (p and i in the code), star and mark are offsets from 0; a  *)
(* text holds no wildcard, since it is an ARN or an action of the          *)
(* catalogue.  The names leave those of IamEvaluate free.                  *)
(***************************************************************************)
EXTENDS Integers, Sequences

CONSTANTS
  Patterns,   \* what a policy may hold
  Texts,      \* what it is matched against
  LowerOf(_)  \* strings.ToLower, one character at a time

Star == "*"
One == "?"

ASSUME TextAssumption ==
  /\ \A s \in Patterns \cup Texts : s \in Seq(STRING)
  /\ \A t \in Texts : \A k \in 1 .. Len(t) :
       t[k] \notin {Star, One} /\ LowerOf(t[k]) \notin {Star, One}
  /\ LowerOf(Star) = Star /\ LowerOf(One) = One

VARIABLES
  pattern, text,  \* both in lower case when fold is set
  pAt, iAt,       \* how far they have matched
  star, mark,     \* the last * passed, or -1, and where what follows it starts
  result          \* "running", then "match" or "differs"

matchVars == <<pattern, text, pAt, iAt, star, mark, result>>

Lowered(s) == [k \in 1 .. Len(s) |-> LowerOf(s[k])]

MatchInit ==
  /\ \E q \in Patterns, t \in Texts, fold \in BOOLEAN :
       /\ pattern = IF fold THEN Lowered(q) ELSE q
       /\ text = IF fold THEN Lowered(t) ELSE t
  /\ pAt = 0 /\ iAt = 0 /\ star = -1 /\ mark = 0 /\ result = "running"

AtLetter == pAt < Len(pattern) /\ pattern[pAt + 1] \in {One, text[iAt + 1]}
AtStar   == pAt < Len(pattern) /\ pattern[pAt + 1] = Star

\* The character the pattern asks for.
Literal ==
  /\ result = "running" /\ iAt < Len(text) /\ AtLetter
  /\ pAt' = pAt + 1 /\ iAt' = iAt + 1
  /\ UNCHANGED <<pattern, text, star, mark, result>>

\* A * is passed, taking nothing yet.
PassStar ==
  /\ result = "running" /\ iAt < Len(text) /\ ~AtLetter /\ AtStar
  /\ star' = pAt /\ mark' = iAt /\ pAt' = pAt + 1
  /\ UNCHANGED <<pattern, text, iAt, result>>

\* Mutant of Backtrack: what the * takes does not grow.
BacktrackInPlace ==
  /\ result = "running" /\ iAt < Len(text) /\ ~AtLetter /\ ~AtStar /\ star >= 0
  /\ pAt' = star + 1 /\ iAt' = mark
  /\ UNCHANGED <<pattern, text, star, mark, result>>

\* Mutant of Backtrack: the text goes on from where it stopped matching.
BacktrackPatternOnly ==
  /\ result = "running" /\ iAt < Len(text) /\ ~AtLetter /\ ~AtStar /\ star >= 0
  /\ pAt' = star + 1 /\ mark' = iAt + 1 /\ iAt' = iAt + 1
  /\ UNCHANGED <<pattern, text, star, result>>

\* The last * takes one character more.
Backtrack ==
  /\ result = "running" /\ iAt < Len(text) /\ ~AtLetter /\ ~AtStar /\ star >= 0
  /\ pAt' = star + 1 /\ mark' = mark + 1 /\ iAt' = mark + 1
  /\ UNCHANGED <<pattern, text, star, result>>

\* Nothing fits and there is no * to come back to.
GiveUp ==
  /\ result = "running" /\ iAt < Len(text) /\ ~AtLetter /\ ~AtStar /\ star < 0
  /\ result' = "differs"
  /\ UNCHANGED <<pattern, text, pAt, iAt, star, mark>>

\* The text is used up: what is left of the pattern may be stars only.
Trailing ==
  /\ result = "running" /\ iAt = Len(text) /\ AtStar
  /\ pAt' = pAt + 1
  /\ UNCHANGED <<pattern, text, iAt, star, mark, result>>

\* return p == len(pattern).
Verdict ==
  /\ result = "running" /\ iAt = Len(text) /\ ~AtStar
  /\ result' = IF pAt = Len(pattern) THEN "match" ELSE "differs"
  /\ UNCHANGED <<pattern, text, pAt, iAt, star, mark>>

Decided == result # "running" /\ UNCHANGED matchVars

MatchNext == Literal \/ PassStar \/ Backtrack \/ GiveUp \/ Trailing \/ Verdict \/ Decided

MatchSpec == MatchInit /\ [][MatchNext]_matchVars

\* The loop waits for nothing.
FairMatchSpec == MatchSpec /\ WF_matchVars(MatchNext)

-----------------------------------------------------------------------------
MatchTypeOK ==
  /\ pAt \in 0 .. Len(pattern) /\ iAt \in 0 .. Len(text)
  /\ star \in -1 .. (pAt - 1) /\ mark \in 0 .. iAt
  /\ result \in {"running", "match", "differs"}

\* What one character of a pattern may stand for.
Takes(c, from, to) ==
  IF c = Star THEN from <= to ELSE to = from + 1 /\ c \in {One, text[to]}

\* The first k characters of the pattern stand for the first m of the text:
\* cut[j] is how far the first j reach.
IsCut(cut, k, m) ==
  /\ cut[0] = 0 /\ cut[k] = m
  /\ \A j \in 1 .. k : Takes(pattern[j], cut[j - 1], cut[j])

Covers(k, m) == \E cut \in [0 .. k -> 0 .. m] : IsCut(cut, k, m)

\* Coming back to the last * only is enough: the greedy loop finds a match
\* exactly when the text can be cut into what the pattern's characters stand
\* for, however many stars there are.
MatchIsExact ==
  result # "running" => (result = "match" <=> Covers(Len(pattern), Len(text)))

\* The loop comes back at most once for each character of the text and star.
Decides == <>(result # "running")
=============================================================================
