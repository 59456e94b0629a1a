SPECIFICATION FairSpec
CONSTANTS
  Thread = {main}
  Main = main
  Chunks = 1
  Lingers = TRUE
  Source <- MCSource
  Shape <- MCShape
  Provided <- MCProvided
  Hashed <- MCHashed
  Spelling = {normalised, raw}
  Pages <- MCPages
  Retries = 1
  Pythons <- MCPythons
INVARIANTS
  TypeOK
  OutputComplete
  SdistIdentity
  TempsRemoved
  WholeOrNothing
  LinksComplete
PROPERTIES
  KeepsVerified
  CondemnsOnlyWhole
  OneListing
  AlwaysAnswers
