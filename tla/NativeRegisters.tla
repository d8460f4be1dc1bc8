-------------------------- MODULE NativeRegisters --------------------------
(***************************************************************************)
(* What the processor does to registers of which instructions name parts:   *)
(* the reference for LiftedRegisters.  Writing four bytes clears the four   *)
(* above; writing one or two leaves the others alone.                       *)
(***************************************************************************)
EXTENDS Bytes

CONSTANT NextRip    \* the address after the instruction

VARIABLES regs, flag, insn

Put(q, v, x) ==
  [q EXCEPT ![v.reg] =
     [i \in 0 .. 7 |->
        CASE i \in v.low .. v.low + v.size - 1 -> x[i - v.low]
          [] v.size = 4 /\ i > 3               -> 0
          [] OTHER                             -> @[i]]]

Dst == Read(regs, insn.dst)
Src == Read(regs, insn.src)
N == insn.src.size

-----------------------------------------------------------------------------
(* Moves, conversions and exchanges. *)

MoveOps == {"mov", "movzx", "movsx", "movsxd"}
ConvertOps == {"cbw", "cwde", "cdqe", "cwd", "cdq", "cqo"}

Moved ==
  Put(regs, insn.dst,
      IF insn.op \in {"mov", "movzx"} THEN ZeroExtend(Src, insn.dst.size)
                                      ELSE SignExtend(Src, insn.dst.size))

(* The source of a conversion, and the whole of what it makes of it. *)
From ==
  Low(Rax, CASE insn.op = "cbw"            -> 1
             [] insn.op \in {"cwde", "cwd"} -> 2
             [] insn.op \in {"cdqe", "cdq"} -> 4
             [] insn.op = "cqo"            -> 8)

Converted ==
  LET n == From.size
      x == SignExtend(Read(regs, From), 2 * n)
  IN IF insn.op \in {"cbw", "cwde", "cdqe"}
       THEN Put(regs, Low(Rax, 2 * n), x)
       ELSE Put(regs, Low(Rdx, n), [i \in 0 .. n - 1 |-> x[i + n]])

Exchanged == Put(Put(regs, insn.src, Dst), insn.dst, Src)

(* Of two bytes the outcome is undefined. *)
Swapped ==
  LET n == insn.dst.size
  IN {Put(regs, insn.dst, x) :
        x \in IF n = 2 THEN Value(2) ELSE {[i \in 0 .. n - 1 |-> Dst[n - 1 - i]]}}

-----------------------------------------------------------------------------
(* Addresses wrap at the size of the registers they are made of. *)

Term(part) ==
  CASE part = None -> 0 [] part = Rip -> Unsigned(NextRip)
    [] OTHER -> Unsigned(Read(regs, part))

AddressSize == IF \E p \in {insn.base, insn.index} \ {None, Rip} : p.size = 4 THEN 4 ELSE 8

Address ==
  Wrap(Term(insn.base) + insn.scale * Term(insn.index) + insn.disp, AddressSize)

Addressed == Put(regs, insn.dst, ZeroExtend(Address, insn.dst.size))

-----------------------------------------------------------------------------
(* Arithmetic: the accumulator is AX, or the pair of DX and AX. *)

Half(k) == IF N = 1 THEN High(Rax) ELSE Low(Rdx, k)

PutPair(lo, hi) == Put(Put(regs, Low(Rax, N), lo), Half(N), hi)

AsNumber(x) == IF insn.op \in {"imul1", "imul", "imul3", "idiv"} THEN Signed(x) ELSE Unsigned(x)

Accumulator == Read(regs, Low(Rax, N))
Factors ==
  CASE insn.op \in {"mul", "imul1"} -> <<Accumulator, Src>>
    [] insn.op = "imul"             -> <<Dst, Src>>
    [] insn.op = "imul3"            -> <<Src, Wrap(insn.imm, N)>>
Product == AsNumber(Factors[1]) * AsNumber(Factors[2])

(* The dividend is twice as wide as the divisor. *)
Dividend ==
  LET hi == Read(regs, Half(N))
  IN AsNumber([i \in 0 .. 2 * N - 1 |-> IF i < N THEN Accumulator[i] ELSE hi[i - N]])
Divisor == AsNumber(Src)

(* The processor raises an exception if the quotient does not fit. *)
Faults ==
  /\ insn.op \in {"div", "idiv"}
  /\ \/ Divisor = 0
     \/ AsNumber(Wrap(Quotient(Dividend, Divisor), N)) # Quotient(Dividend, Divisor)

Sum == Unsigned(Dst) + Unsigned(Src)

(* Compare and exchange: the accumulator with the destination.  If they     *)
(* differ the destination may be written back.                             *)
CompareExchanged ==
  IF Accumulator = Dst
    THEN {Put(regs, insn.dst, Src)}
    ELSE {Put(q, Low(Rax, N), Dst) : q \in {regs, Put(regs, insn.dst, Dst)}}

Registers ==
  CASE insn.op \in MoveOps          -> {Moved}
    [] insn.op \in ConvertOps       -> {Converted}
    [] insn.op = "xchg"             -> {Exchanged}
    [] insn.op = "bswap"            -> Swapped
    [] insn.op = "lea"              -> {Addressed}
    [] insn.op = "xadd"             -> {Put(Put(regs, insn.src, Dst), insn.dst, Wrap(Sum, N))}
    [] insn.op = "cmpxchg"          -> CompareExchanged
    [] insn.op \in {"mul", "imul1"} -> {PutPair(Wrap(Product, N), Wrap(Product \div Place[N], N))}
    [] insn.op \in {"imul", "imul3"} -> {Put(regs, insn.dst, Wrap(Product, N))}
    [] insn.op \in {"div", "idiv"}  -> {PutPair(Wrap(Quotient(Dividend, Divisor), N),
                                                Wrap(Remainder(Dividend, Divisor), N))}

(* Carry and overflow of a + b or a - b: the exact result does not fit. *)
Outcome(k, carry, signed) ==
  [CF |-> Bit(carry), OF |-> Bit(signed # Signed(Wrap(k, N))),
   SF |-> Bit(Negative(Wrap(k, N))), ZF |-> Bit(Wrap(k, N) = Zeros(N))]

Kept == {flag}
FlagsAllowed ==
  CASE insn.op \in {"mul", "imul1", "imul", "imul3"} ->
         LET lost == Bit(Product # AsNumber(Wrap(Product, N)))
         IN {f \in Flags : f.CF = lost /\ f.OF = lost}
    [] insn.op \in {"div", "idiv"} -> Flags
    [] insn.op = "xadd" ->
         {Outcome(Sum, Sum >= Place[N], Signed(Dst) + Signed(Src))}
    [] insn.op = "cmpxchg" ->
         {Outcome(Unsigned(Accumulator) - Unsigned(Dst),
                  Unsigned(Accumulator) < Unsigned(Dst),
                  Signed(Accumulator) - Signed(Dst))}
    [] OTHER -> Kept
=============================================================================
