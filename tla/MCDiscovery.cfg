SPECIFICATION FairSpec
CONSTANTS
  Thread = {main, worker1, worker2}
  Main = main
  Chunks = 1
  Lingers = FALSE
  Source <- MCSource
  Shape <- MCShape
  Provided <- MCProvided
  Root = "src"
  Parent <- MCParent
  Named <- MCNamed
  Marked <- MCMarked
  Excluding <- MCExcluding
INVARIANTS
  TypeOK
  FindsEveryProject
  OneThreadUndoesPatches
PROPERTIES
  DiscoveryEnds
CHECK_DEADLOCK FALSE
