SPECIFICATION FairSpec
CONSTANTS
  PartMax = 4
  Requirements <- MCRequirements
  Candidate <- MCCandidate
  CommandLines <- MCCommandLines
INVARIANTS
  TypeOK
  NeverRefuses
  ExactIsDefinite
  BestOfRepository
  EarlierRepositoriesExhausted
  PrereleaseIsLastResort
  EffortBounded
PROPERTIES
  AlwaysAnswers
