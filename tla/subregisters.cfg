CONSTANTS
  Radix = 2
  rax = rax
  rcx = rcx
  rdx = rdx
  Regs = {rax, rcx, rdx}
  Rax = rax
  Rdx = rdx
  Insns <- MCInsns
  NextRip <- MCNextRip
  Starts <- MCStarts
  Unknown <- MCUnknown
  Steps = 1

SPECIFICATION Spec

INVARIANT TypeOK
PROPERTIES
  RegistersFollow
  ExchangesIfEqual
  FlagsFollow

\* Programs are Steps instructions long.
CHECK_DEADLOCK FALSE
