SPECIFICATION CSpec
CONSTANTS
  None = None
  Key <- MCKey
  Version <- MCVersion
  Extra = {"x", "y"}
  Dist <- MCDist
  Rank <- MCRank
  MaxObjects <- MCMaxObjects
  MaxStack = 40
  Published <- MCPublished
  DoNotUse <- MCDoNotUse
  MaxDowngrade = 2
  MaxDepth = 12
  MaxRounds = 2
  Project <- ThreeProjects
  Offers <- SameProjectOffers
  Inputs <- SameProjectInputs
INVARIANTS
  SolvedIsSolution
