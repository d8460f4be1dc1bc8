SPECIFICATION FairSpec
CONSTANTS
  Base = 1
  Size = 3
  MaxVip = 5
  EntryPoint = 2
  Insns <- MCInsns
  Opaque = Opaque
  DebugBuild = TRUE
PROPERTIES
  Termination
  StepsLeadToEnd
CHECK_DEADLOCK FALSE
