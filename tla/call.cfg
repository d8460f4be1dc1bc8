SPECIFICATION Spec
CONSTANTS
  Base = 1
  Size = 3
  MaxVip = 5
  EntryPoint = 2
  Insns <- MCInsns
  Opaque = Opaque
  DebugBuild = TRUE
INVARIANTS
  PopulateIsCalledRight
CHECK_DEADLOCK FALSE
