SPECIFICATION FairMatchSpec
CONSTANTS
  MaxPattern = 4
  MaxText = 5
  Patterns <- SmallPatterns
  Texts <- SmallTexts
  LowerOf <- LowerLetter
INVARIANT
  MatchIsExact
PROPERTY
  Decides
