CONSTANTS
  Radix = 2
  rsp = rsp
  rax = rax
  rcx = rcx
  rsi = rsi
  rdi = rdi
  Regs = {rsp, rax, rcx, rsi, rdi}
  Rsp = rsp
  Rax = rax
  Rcx = rcx
  Rsi = rsi
  Rdi = rdi
  Insns <- MCInsns
  Starts <- MCStarts
  Base = 12
  Steps = 2

SPECIFICATION Spec

INVARIANT TypeOK
PROPERTIES
  ActsAsNative
  StackDiscipline

\* Programs are Steps instructions long.
CHECK_DEADLOCK FALSE
