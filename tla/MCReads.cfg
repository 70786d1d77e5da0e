SPECIFICATION MCSpec
CONSTANTS
  MinBudget = 12
  MaxBudget = 30
  Frame = 5
  PathChars = 2
  HashChars = 3
  ErrorFrame = 6
  DetailChars = 40
  WitnessChars = 3
  Documents <- MCDocuments
  Programs <- MCPrograms
  Calls <- MCCalls
  MaxCandidates = 3
  MaxVal = 2
  MaxWrites = 2
  MaxOuter = 1
  MaxFaults = 1
  MaxReads = 1
INVARIANTS ReadTruthful AnswerComplete AnswerFits PlacedExactly SearchOfOneGeneration
CHECK_DEADLOCK FALSE
