SPECIFICATION Spec
CONSTANTS
  Half = 4
  Regs = {rax, rcx}
  rax = rax
  rcx = rcx
  Rcx = rcx
  Insns <- MCAdc
  BitAnd <- MCAnd
  BitOr <- MCOr
  BitXor <- MCXor
  Popcnt <- MCPopcnt
PROPERTIES
  CarryChains
