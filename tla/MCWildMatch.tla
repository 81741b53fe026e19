---------------------------- MODULE MCWildMatch ----------------------------
(* Every pattern and every text up to the bounds, over one letter in both    *)
(* cases: "a" and "A" differ or agree as the case is kept or folded.         *)
EXTENDS WildMatch, SequencesExt

CONSTANTS MaxPattern, MaxText

SmallPatterns == BoundedSeq({"a", "A", "*", "?"}, MaxPattern)
SmallTexts == BoundedSeq({"a", "A"}, MaxText)
LowerLetter(c) == IF c = "A" THEN "a" ELSE c
=============================================================================
