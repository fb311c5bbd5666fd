\* The limits are smaller than the texts are long.
CONSTANTS
  Texts <- ShortAndLong
  EnGrams <- EnPairs
  RuGrams <- RuPairs
  SplitLimit = 2
  FindLimit = 2
  Enough = 2
  ScoreUnit = 2
SPECIFICATION Spec
INVARIANTS
  TypeOK
  ReadsInside
  GramsOfTheText
\* The detector returns.
CHECK_DEADLOCK FALSE
