SPECIFICATION Spec
CONSTANTS
  Base = 1
  Size = 4
  MaxVip = 6
  EntryPoint = 2
  Insns <- MCInsns
  Opaque = Opaque
  DebugBuild = FALSE
INVARIANTS
  TypeOK
  OneActivation
  OpenBlocksAreSwept
  BlocksAreStraightLine
  BlocksKeepFlow
  LinksMatchBranches
  ConventionDeclared
  ReturnsComplete
PROPERTIES
  LeadersNotOverrun
  CompleteBlocksFrozen
  SearchesFlow
CHECK_DEADLOCK FALSE
