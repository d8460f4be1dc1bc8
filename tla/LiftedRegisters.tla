-------------------------- MODULE LiftedRegisters --------------------------
(***************************************************************************)
(* What the VTIL emitted for moves, conversions, exchanges, addresses,     *)
(* multiplication and division does to registers of which instructions     *)
(* name parts.  VTIL writes any part of a register without touching the    *)
(* rest: that four bytes clear those above is up to the lifter             *)
(* (store_operand), and the handlers that do not use it have to see to it. *)
(*                                                                         *)
(* PF and AF are left out; what is left undefined is any value.            *)
(***************************************************************************)
EXTENDS Bytes

CONSTANTS
  Insns,      \* the instructions that occur
  NextRip,    \* the address after the instruction
  Starts,     \* registers and flags there may be at first
  Unknown,    \* values a register nothing has written may hold
  Steps       \* bound on the length of a program

ASSUME RegistersAssumption ==
  /\ Starts \subseteq [regs : [Regs -> Quad], flag : Flags]
  /\ Unknown \subseteq Quad /\ Unknown # {} /\ NextRip \in Quad
  /\ \A i \in Insns : Encodable(i)
  /\ Steps \in Nat

VARIABLES
  regs,       \* the general registers
  flag,
  insn,       \* the instruction being executed, or Idle
  left        \* instructions left

vars == <<regs, flag, insn, left>>

Native == INSTANCE NativeRegisters

-----------------------------------------------------------------------------
(* mov and movsx of VTIL, to a part of a register. *)
MovWith(q, v, x) ==
  [q EXCEPT ![v.reg] =
     [i \in 0 .. 7 |-> IF i - v.low \in 0 .. v.size - 1 THEN x[i - v.low] ELSE @[i]]]

Mov(q, v, x) == MovWith(q, v, ZeroExtend(x, v.size))
Movsx(q, v, x) == MovWith(q, v, SignExtend(x, v.size))

(* The 32 bits above those of v: bit_offset += 32. *)
Above(v) == [v EXCEPT !.low = @ + 4]
ClearAbove(q, v) == Mov(q, Above(v), Zeros(1))

(* Mutation: the upper half is cleared for every register narrower than 64. *)
StoreOperandNarrow(q, v, x) ==
  Mov(IF v.size < 8 THEN ClearAbove(q, Low(v.reg, 4)) ELSE q, v, x)

StoreOperand(q, v, x) == Mov(IF v.size = 4 THEN ClearAbove(q, v) ELSE q, v, x)

LoadOperand(v) == Read(regs, v)

Handle(op) == insn # Idle /\ insn.op = op /\ insn' = Idle /\ UNCHANGED left

Dst == LoadOperand(insn.dst)
Src == LoadOperand(insn.src)
N == insn.src.size

-----------------------------------------------------------------------------
(* MOV, MOVABS and MOVZX are one handler. *)
Move ==
  /\ Handle("mov") \/ Handle("movzx")
  /\ regs' = StoreOperand(regs, insn.dst, Src)
  /\ UNCHANGED flag

MoveSigned ==
  /\ Handle("movsx") \/ Handle("movsxd")
  /\ regs' = StoreOperand(regs, insn.dst, SignExtend(Src, insn.dst.size))
  /\ UNCHANGED flag

Xchg ==
  /\ Handle("xchg")
  /\ regs' = StoreOperand(StoreOperand(regs, insn.dst, Src), insn.src, Dst)
  /\ UNCHANGED flag

(* Two bytes are left zero. *)
Bswap ==
  LET n == insn.dst.size IN
  /\ Handle("bswap")
  /\ regs' = StoreOperand(regs, insn.dst,
               IF n = 2 THEN Zeros(2) ELSE [i \in 0 .. n - 1 |-> Dst[n - 1 - i]])
  /\ UNCHANGED flag

(* Mutation: the sign itself, where its negation belongs. *)
NegatedByte(x) == [i \in DOMAIN x |-> -x[i]]

Negated(x) == Wrap(-Unsigned(x), Size(x))

(* DEFINE_CX: the sign of in as a number, negated. *)
Cx(op, n) ==
  /\ Handle(op)
  /\ LET sign == Wrap(Bit(Negative(Read(regs, Low(Rax, n)))), n)
     IN regs' = Mov(regs, Low(Rdx, n), Negated(sign))
  /\ UNCHANGED flag

(* DEFINE_CXE *)
Cxe(op, n) ==
  /\ Handle(op)
  /\ regs' = Movsx(regs, Low(Rax, 2 * n), Read(regs, Low(Rax, n)))
  /\ UNCHANGED flag

Convert ==
  \/ Cx("cwd", 2) \/ Cx("cdq", 4) \/ Cx("cqo", 8)
  \/ Cxe("cbw", 1) \/ Cxe("cwde", 2) \/ Cxe("cdqe", 4)

-----------------------------------------------------------------------------
(* reg2op knows the instruction pointer; register_cast alone gives a        *)
(* register of which nothing is known.                                     *)
Reg2Op(part) == IF part = Rip THEN NextRip ELSE LoadOperand(part)

(* get_disp_from_operand, as the set of what it may return: a temporary of  *)
(* 64 bits, or the base itself if there is nothing to add.  The temporary   *)
(* of an address without any part is never written.                        *)
GetDisp ==
  LET index == IF insn.index = None THEN 0 ELSE insn.scale * Unsigned(Reg2Op(insn.index))
      base == IF insn.base = None THEN 0 ELSE Unsigned(Reg2Op(insn.base))
  IN IF insn.index = None /\ insn.disp = 0
       THEN IF insn.base \in {None, Rip} THEN Unknown ELSE {LoadOperand(insn.base)}
       ELSE {Wrap(index + base + insn.disp, 8)}

Lea ==
  /\ Handle("lea")
  /\ \E address \in GetDisp : regs' = StoreOperand(regs, insn.dst, address)
  /\ UNCHANGED flag

-----------------------------------------------------------------------------
(* process_flags<add> *)
FlagsOfAdd(lhs, rhs, result) ==
  LET sign(x) == Negative(x) IN
  [OF |-> Bit(sign(lhs) # sign(result) /\ sign(rhs) # sign(result)),
   CF |-> Bit(Unsigned(lhs) > Unsigned(result)),
   SF |-> Bit(sign(result)),
   ZF |-> Bit(Unsigned(result) = 0)]

Xadd ==
  LET tmp == Wrap(Unsigned(Dst) + Unsigned(Src), N) IN
  /\ Handle("xadd")
  /\ flag' = FlagsOfAdd(Dst, Src, tmp)
  /\ regs' = StoreOperand(StoreOperand(regs, insn.dst, tmp), insn.src, Src)

(* Mutation: the two outcomes are exchanged. *)
CmpxchgKept ==
  LET lhs == ZeroExtend(Dst, 8)
      equal == regs[Rax] = lhs
      q == Mov(regs, Low(Rax, 8), lhs)
  IN /\ Handle("cmpxchg")
     /\ flag' = [flag EXCEPT !.ZF = Bit(equal)]
     /\ \E again \in {equal, q[Rax] = lhs} :
          regs' = StoreOperand(q, insn.dst, IF again THEN Dst ELSE Src)

(* The accumulator is always RAX, whole, and it is compared again after it  *)
(* was written, unless the translator remembers the comparison.            *)
Cmpxchg ==
  LET lhs == ZeroExtend(Dst, 8)
      equal == regs[Rax] = lhs
      q == Mov(regs, Low(Rax, 8), lhs)
  IN /\ Handle("cmpxchg")
     /\ flag' = [flag EXCEPT !.ZF = Bit(equal)]
     /\ \E again \in {equal, q[Rax] = lhs} :
          regs' = StoreOperand(q, insn.dst, IF again THEN Src ELSE Dst)

-----------------------------------------------------------------------------
(* mul, mulhi and imulhi of VTIL, given the numbers they multiply. *)
LowPart(a, b, n) == Wrap(a * b, n)
HighPart(a, b, n) == Wrap((a * b) \div Place[n], n)

(* tne of hi with zero, to both flags. *)
Overflow(hi) ==
  LET lost == Bit(Unsigned(hi) # 0) IN flag' = [flag EXCEPT !.CF = lost, !.OF = lost]

(* To DX and AX; of four bytes the halves above are cleared, afterwards. *)
ToPair(lo, hi) ==
  LET q == Mov(Mov(regs, Low(Rax, N), lo), Low(Rdx, N), hi)
  IN IF N = 4 THEN ClearAbove(ClearAbove(q, Low(Rax, 4)), Low(Rdx, 4)) ELSE q

(* MUL and IMUL of one operand; number is how VTIL reads the operands of    *)
(* mul and imul.  AL is widened without its sign for both.                 *)
MultiplyByte(op, number(_)) ==
  LET al == ZeroExtend(Read(regs, Low(Rax, 1)), 2)
      tmp == LowPart(number(al), number(Src), 2)
  IN /\ Handle(op) /\ N = 1
     /\ regs' = Mov(regs, Low(Rax, 2), tmp)
     /\ Overflow(Wrap(tmp[1], 1))

MultiplyPair(op, number(_)) ==
  LET a == number(Read(regs, Low(Rax, N)))
      b == number(Src)
  IN /\ Handle(op) /\ N > 1
     /\ regs' = ToPair(LowPart(a, b, N), HighPart(a, b, N))
     /\ Overflow(HighPart(a, b, N))

Mul == MultiplyByte("mul", Unsigned) \/ MultiplyPair("mul", Unsigned)
Imul1 == MultiplyByte("imul1", Signed) \/ MultiplyPair("imul1", Signed)

(* Mutation: any high part is a loss. *)
TruncatesIfAny(lo, hi) == Unsigned(hi) # 0

(* What CF and OF are after IMUL of two and three operands. *)
Truncates(lo, hi) == Negative(hi) # Negative(lo)

(* IMUL of two and three operands multiplies by mul and mulhi, without sign. *)
ImulTo(op, lhs, rhs) ==
  LET lo == LowPart(Unsigned(lhs), Unsigned(rhs), N)
      hi == HighPart(Unsigned(lhs), Unsigned(rhs), N)
      lost == Bit(Truncates(lo, hi))
  IN /\ Handle(op)
     /\ flag' = [flag EXCEPT !.CF = lost, !.OF = lost]
     /\ regs' = StoreOperand(regs, insn.dst, lo)

Imul == ImulTo("imul", Dst, Src) \/ ImulTo("imul3", Src, Wrap(insn.imm, N))

(* DIV and IDIV of a byte take AL for the whole of AX: t1 has eight bits. *)
DivideByte(op, number(_)) ==
  LET a == number(Extend(Read(regs, Low(Rax, 1)), 2, 0))
      b == number(Src)
      q == Mov(regs, Low(Rax, 1), Wrap(Quotient(a, b), 1))
  IN /\ Handle(op) /\ N = 1
     /\ regs' = Mov(q, High(Rax), Wrap(Remainder(a, b), 1))

DividePair(op, number(_)) ==
  LET lo == Read(regs, Low(Rax, N))
      hi == Read(regs, Low(Rdx, N))
      a == number([i \in 0 .. 2 * N - 1 |-> IF i < N THEN lo[i] ELSE hi[i - N]])
      b == number(Src)
  IN /\ Handle(op) /\ N > 1
     /\ regs' = ToPair(Wrap(Quotient(a, b), N), Wrap(Remainder(a, b), N))

(* All six flags are UNDEFINED after both. *)
Divide ==
  /\ \/ DivideByte("div", Unsigned) \/ DividePair("div", Unsigned)
     \/ DivideByte("idiv", Signed) \/ DividePair("idiv", Signed)
  /\ flag' \in Flags

-----------------------------------------------------------------------------
Init ==
  /\ \E s \in Starts : regs = s.regs /\ flag = s.flag
  /\ insn = Idle
  /\ left = Steps

(* An instruction that raises an exception does not go on. *)
Fetch ==
  /\ insn = Idle /\ left > 0
  /\ insn' \in Insns
  /\ left' = left - 1
  /\ UNCHANGED <<regs, flag>>
  /\ ~Native!Faults'

Execute ==
  \/ Move \/ MoveSigned \/ Xchg \/ Bswap \/ Convert \/ Lea
  \/ Xadd \/ Cmpxchg \/ Mul \/ Imul1 \/ Imul \/ Divide

Next == Fetch \/ Execute

Spec == Init /\ [][Next]_vars

-----------------------------------------------------------------------------
(* Registers are eight bytes, flags are bits. *)
TypeOK ==
  /\ regs \in [Regs -> Quad]
  /\ flag \in Flags
  /\ insn \in Insns \cup {Idle}
  /\ left \in 0 .. Steps

(* What an exact account of the registers has to except: CWDE and CDQ leave *)
(* the half above as it was (arithmetic.cpp:903, 912); XADD stores the      *)
(* source back (892); AL is widened without its sign (298), and AX narrowed *)
(* to AL (425, 509); an address of 32-bit registers does not wrap           *)
(* (amd64.cpp:55-105).                                                     *)
WrongRegisters ==
  LET upper(r) == Read(regs, Above(Low(r, 4))) IN
  CASE insn.op = "cdq"   -> upper(Rdx) # Zeros(4)
    [] insn.op = "cwde"  -> upper(Rax) # Zeros(4)
    [] insn.op = "xadd"  -> Dst # IF insn.dst = insn.src THEN Zeros(N) ELSE Src
    [] insn.op = "imul1" ->
         N = 1 /\ Negative(Read(regs, Low(Rax, 1))) /\ Src # Zeros(1)
    [] insn.op = "div"   -> N = 1 /\ Read(regs, High(Rax)) # Zeros(1)
    [] insn.op = "idiv"  ->
         N = 1 /\ Read(regs, High(Rax)) # Zeros(1) /\ Abs(Signed(Src)) # 1
    [] insn.op = "lea"   ->
         /\ insn.dst.size > Native!AddressSize
         /\ Native!Term(insn.base) + insn.scale * Native!Term(insn.index) + insn.disp
              \notin 0 .. Place[4] - 1
    [] OTHER -> FALSE

(* CMPXCHG and an address with nothing known about it have their own rules. *)
Nowhere ==
  insn.op = "lea" /\ insn.index = None /\ insn.disp = 0 /\ insn.base \in {None, Rip}

(* The registers are the processor's, but for the cases above, in which      *)
(* they never are: 32-bit writes clear, narrower ones keep what is above,   *)
(* products, quotients and remainders are exact, exchanges lose nothing.    *)
RegistersFollow ==
  [][insn # Idle /\ insn.op # "cmpxchg" /\ ~Nowhere
       => (regs' \in Native!Registers <=> ~WrongRegisters)]_vars

(* CMPXCHG reports whether RAX as a whole equals the destination, and if so  *)
(* acts as the processor.  In either case and at any size RAX then holds    *)
(* what the destination held, the destination that or the source, and other *)
(* registers what they held (comparison.cpp:84-93): which of the two the    *)
(* destination gets depends, if they differ, on the second comparison.      *)
ExchangesIfEqual ==
  [][insn # Idle /\ insn.op = "cmpxchg" =>
       /\ flag'.ZF = 1 <=> regs[Rax] = ZeroExtend(Dst, 8)
       /\ flag'.ZF = 1 => regs' \in Native!Registers
       /\ insn.dst.reg # Rax => regs'[Rax] = ZeroExtend(Dst, 8)
       /\ Read(regs', insn.dst) \in {Dst, Src}
       /\ \A r \in Regs \ {Rax, insn.dst.reg} : regs'[r] = regs[r]]_vars

(* CF and OF tell whether a product was truncated, and the flags of XADD are *)
(* those of an addition, but: IMUL of one operand says so of a negative     *)
(* product that fits, and not of one with a high half of zero that does not; *)
(* IMUL of two or three says so of a negative product that fits, and not of *)
(* one that does not fit and has a low half without the sign.              *)
FlagsRight ==
  LET product == Native!Product
      lo == Wrap(product, N)
  IN CASE insn.op = "imul1" -> ~(Negative(lo) /\ product \div Place[N] \in {0, -1})
       [] insn.op \in {"imul", "imul3"} -> (product = Signed(lo) <=> ~Negative(lo))
       [] OTHER -> TRUE

(* Where AL is widened without its sign, where both factors of IMUL of two   *)
(* or three operands are negative, and in CMPXCHG, flags may be either.     *)
FlagsVary ==
  CASE insn.op = "imul1" -> N = 1 /\ Negative(Read(regs, Low(Rax, 1)))
    [] insn.op \in {"imul", "imul3"} ->
         Negative(Native!Factors[1]) /\ Negative(Native!Factors[2])
    [] OTHER -> insn.op = "cmpxchg"

(* The flags are the processor's where FlagsRight says so, and nowhere else,  *)
(* but for FlagsVary (arithmetic.cpp:283-401).                              *)
FlagsFollow ==
  [][insn # Idle /\ ~FlagsVary => (flag' \in Native!FlagsAllowed <=> FlagsRight)]_vars
=============================================================================
