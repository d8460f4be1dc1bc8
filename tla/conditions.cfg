SPECIFICATION Spec
CONSTANTS
  Half = 4
  Regs = {rax, rcx}
  rax = rax
  rcx = rcx
  Rcx = rcx
  Insns <- MCConditional
  BitAnd <- MCAnd
  BitOr <- MCOr
  BitXor <- MCXor
  Popcnt <- MCPopcnt
INVARIANTS
  ConditionsAgree
