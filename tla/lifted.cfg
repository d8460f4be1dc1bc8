SPECIFICATION Spec
CONSTANTS
  Half = 4
  Regs = {rax, rcx}
  rax = rax
  rcx = rcx
  Rcx = rcx
  Insns <- MCFaithful
  BitAnd <- MCAnd
  BitOr <- MCOr
  BitXor <- MCXor
  Popcnt <- MCPopcnt
INVARIANTS
  TypeOK
  ConditionsAgree
PROPERTIES
  ActsAsNative
  ComparisonsDecide
