CONSTANTS
  rax = rax
  rcx = rcx
  xmm = xmm
  rip = rip
  Rip = rip
  Internal = internal
  Eflags = eflags
  Regs = {rax, rcx, xmm, rip}
  Generic = {rax, rcx, rip}
  FlagNames = {"CF", "OF"}
  Insns <- MCInsns
  Steps = 3

SPECIFICATION Spec

INVARIANTS
  
  ReadIsPinned
PROPERTY
  WrittenIsPinned

\* Blocks are Steps instructions long.
CHECK_DEADLOCK FALSE
