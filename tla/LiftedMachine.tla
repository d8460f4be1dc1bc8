--------------------------- MODULE LiftedMachine ---------------------------
(***************************************************************************)
(* What the VTIL the lifter emits for an instruction does: one action per  *)
(* handler of NativeLifters-Core/amd64/semantic, for register operands of  *)
(* one width (32 or 64 bits), and the flag formulas of amd64/flags.hpp     *)
(* they are built from.  An action is the whole handler: what it loads,    *)
(* the flags it moves and what it stores, in an order in which no value is *)
(* read after it was overwritten (load_operand copies to a temporary).     *)
(*                                                                         *)
(* AF and the flags no handler here touches are left out.                  *)
(***************************************************************************)
EXTENDS Words

VARIABLES reg, flag, branch, insn

vars == <<reg, flag, branch, insn>>

Init ==
  /\ reg \in [Regs -> Word]
  /\ flag \in Flags
  /\ branch = "next"
  /\ insn = Idle

(* The next instruction of the input. *)
Fetch ==
  /\ insn = Idle
  /\ insn' \in Insns
  /\ branch' = "next"
  /\ UNCHANGED <<reg, flag>>

(***************************************************************************)
(* Operatives.  Comparisons give one bit; these are the operators on bits. *)
(***************************************************************************)
Eq(x, y) == Bit(x = y)
Ne(x, y) == Eq(Eq(x, y), 0)
And1(x, y) == Bit(x = 1 /\ y = 1)
Or1(x, y) == Bit(x = 1 \/ y = 1)
Xor1(x, y) == Bit(x # y)
Not1(x) == 1 - x
If(c, v) == IF c = 1 THEN v ELSE 0

(***************************************************************************)
(* The flag formulas.                                                      *)
(***************************************************************************)
Zero(v) == Eq(v, 0)
Sign(v) == Bit(v >= Half)
Parity(v) == Eq(Popcnt(v % 256) % 2, 0)

OverflowAdd(lhs, rhs, result) ==
  And1(Xor1(Sign(lhs), Sign(result)), Xor1(Sign(rhs), Sign(result)))

(* Mutation: the formula of the addition. *)
OverflowSubAsAdd(lhs, rhs, result) ==
  And1(Xor1(Sign(lhs), Sign(result)), Xor1(Sign(rhs), Sign(result)))

OverflowSub(lhs, rhs, result) ==
  And1(Xor1(Sign(lhs), Sign(rhs)), Xor1(Sign(lhs), Sign(result)))

(* carry<add> and carry<sub> look at lhs and the result, not at the carry   *)
(* that came in.                                                           *)
CarryAdd(lhs, result) == Bit(lhs > result)
CarrySub(lhs, result) == Bit(result > lhs)

(* overflow<> and carry<> of band, bor and bxor *)
OverflowLogic == 0
CarryLogic == 0

SetFlags(cf, of, result) ==
  [CF |-> cf, OF |-> of, SF |-> Sign(result), ZF |-> Zero(result),
   PF |-> Parity(result)]

(* process_flags<op> *)
ProcessFlags(op, lhs, rhs, result) ==
  CASE op = "add" -> SetFlags(CarryAdd(lhs, result),
                              OverflowAdd(lhs, rhs, result), result)
    [] op = "sub" -> SetFlags(CarrySub(lhs, result),
                              OverflowSub(lhs, rhs, result), result)
    [] OTHER      -> SetFlags(CarryLogic, OverflowLogic, result)

(***************************************************************************)
(* Handlers.                                                               *)
(***************************************************************************)
Lhs == reg[insn.dst]
Rhs == reg[insn.src]

Handle(op) == insn.op = op /\ insn' = Idle

Store(v) == reg' = [reg EXCEPT ![insn.dst] = v]

GoOn == branch' = "next"

(* DEFINE_BINOP *)
BinopResult(op) ==
  CASE op = "add" -> Wrap(Lhs + Rhs)
    [] op = "sub" -> Wrap(Lhs - Rhs)
    [] op = "and" -> BitAnd(Lhs, Rhs)
    [] op = "or"  -> BitOr(Lhs, Rhs)
    [] op = "xor" -> BitXor(Lhs, Rhs)

Binop(op) ==
  /\ Handle(op)
  /\ flag' = ProcessFlags(op, Lhs, Rhs, BinopResult(op))
  /\ Store(BinopResult(op))
  /\ GoOn

(* Mutation: the carry is left out. *)
AdcAsAdd ==
  LET tmp == Wrap(Lhs + Rhs) IN
  /\ Handle("adc")
  /\ flag' = ProcessFlags("add", Lhs, Rhs, tmp)
  /\ Store(tmp)
  /\ GoOn

Adc ==
  LET tmp == Wrap(Wrap(Lhs + Rhs) + flag.CF) IN
  /\ Handle("adc")
  /\ flag' = ProcessFlags("add", Lhs, Rhs, tmp)
  /\ Store(tmp)
  /\ GoOn

Sbb ==
  LET tmp == Wrap(Wrap(Lhs - Rhs) - flag.CF) IN
  /\ Handle("sbb")
  /\ flag' = ProcessFlags("sub", Lhs, Rhs, tmp)
  /\ Store(tmp)
  /\ GoOn

Cmp ==
  LET result == Wrap(Lhs - Rhs) IN
  /\ Handle("cmp")
  /\ flag' = SetFlags(CarrySub(Lhs, result), OverflowSub(Lhs, Rhs, result),
                      result)
  /\ GoOn
  /\ UNCHANGED reg

Test ==
  /\ Handle("test")
  /\ flag' = SetFlags(0, 0, BitAnd(Lhs, Rhs))
  /\ GoOn
  /\ UNCHANGED reg

(* Mutation: INC sets the flags ADD does. *)
IncAsAdd ==
  LET result == Wrap(Lhs + 1) IN
  /\ Handle("inc")
  /\ flag' = ProcessFlags("add", Lhs, 1, result)
  /\ Store(result)
  /\ GoOn

(* INC and DEC leave CF alone. *)
Inc ==
  LET result == Wrap(Lhs + 1) IN
  /\ Handle("inc")
  /\ flag' = SetFlags(flag.CF, OverflowAdd(Lhs, 1, result), result)
  /\ Store(result)
  /\ GoOn

(* The second operand of the subtraction is given as -1. *)
Dec ==
  LET result == Wrap(Lhs - 1) IN
  /\ Handle("dec")
  /\ flag' = SetFlags(flag.CF, OverflowSub(Lhs, Mod - 1, result), result)
  /\ Store(result)
  /\ GoOn

Neg ==
  LET result == Wrap(0 - Lhs) IN
  /\ Handle("neg")
  /\ flag' = SetFlags(Ne(Lhs, 0), OverflowSub(0, Lhs, result), result)
  /\ Store(result)
  /\ GoOn

Complement ==
  /\ Handle("not")
  /\ Store(Mod - 1 - Lhs)
  /\ GoOn
  /\ UNCHANGED flag

Mov ==
  /\ Handle("mov")
  /\ Store(Rhs)
  /\ GoOn
  /\ UNCHANGED flag

Xchg ==
  /\ Handle("xchg")
  /\ reg' = [reg EXCEPT ![insn.dst] = Rhs, ![insn.src] = Lhs]
  /\ GoOn
  /\ UNCHANGED flag

(* CLC, STC *)
MovCarry(op, cf) ==
  /\ Handle(op)
  /\ flag' = [flag EXCEPT !.CF = cf]
  /\ GoOn
  /\ UNCHANGED reg

(* Mutation: the complement is taken of more than the one bit. *)
CmcWide ==
  /\ Handle("cmc")
  /\ flag' = [flag EXCEPT !.CF = Mod - 1 - @]
  /\ GoOn
  /\ UNCHANGED reg

Cmc ==
  /\ Handle("cmc")
  /\ flag' = [flag EXCEPT !.CF = Not1(@)]
  /\ GoOn
  /\ UNCHANGED reg

(***************************************************************************)
(* The conditions, three times: as SETcc, CMOVcc and Jcc compute them from *)
(* flags f.                                                                *)
(***************************************************************************)
SetUnsigned(c, f) ==
  CASE c = "a"  -> And1(Eq(f.CF, 0), Eq(f.ZF, 0))
    [] c = "ae" -> Eq(f.CF, 0)
    [] c = "b"  -> f.CF
    [] c = "be" -> Or1(f.CF, f.ZF)

SetSigned(c, f) ==
  CASE c = "ge" -> And1(f.SF, f.OF)
    [] c = "g"  -> And1(Eq(f.ZF, 0), Eq(f.SF, f.OF))
    [] c = "le" -> And1(f.ZF, Ne(f.SF, f.OF))
    [] c = "l"  -> Ne(f.SF, f.OF)

SetSingle(c, f) ==
  CASE c = "e"  -> f.ZF
    [] c = "ne" -> Eq(f.ZF, 0)
    [] c = "no" -> Eq(f.OF, 0)
    [] c = "np" -> Eq(f.PF, 0)
    [] c = "ns" -> Eq(f.SF, 0)
    [] c = "o"  -> f.OF
    [] c = "p"  -> f.PF
    [] c = "s"  -> f.SF

CmovUnsigned(c, f) ==
  CASE c = "a"  -> And1(Eq(f.ZF, 0), Eq(f.CF, 0))
    [] c = "ae" -> Eq(f.CF, 0)
    [] c = "b"  -> Eq(f.CF, 1)
    [] c = "be" -> Or1(Eq(f.ZF, 1), Eq(f.CF, 1))

(* Mutation: CMOVG does not look at ZF. *)
CmovSignedWeak(c, f) ==
  CASE c = "g"  -> Eq(f.SF, f.OF)
    [] c = "ge" -> Eq(f.SF, f.OF)
    [] c = "l"  -> Ne(f.SF, f.OF)
    [] c = "le" -> Or1(Eq(f.ZF, 1), Ne(f.SF, f.OF))

CmovSigned(c, f) ==
  CASE c = "g"  -> And1(Eq(f.ZF, 0), Eq(f.SF, f.OF))
    [] c = "ge" -> Eq(f.SF, f.OF)
    [] c = "l"  -> Ne(f.SF, f.OF)
    [] c = "le" -> Or1(Eq(f.ZF, 1), Ne(f.SF, f.OF))

CmovSingle(c, f) ==
  CASE c = "e"  -> Eq(f.ZF, 1)
    [] c = "ne" -> Eq(f.ZF, 0)
    [] c = "no" -> Eq(f.OF, 0)
    [] c = "np" -> Eq(f.PF, 0)
    [] c = "ns" -> Eq(f.SF, 0)
    [] c = "o"  -> Eq(f.OF, 1)
    [] c = "p"  -> Eq(f.PF, 1)
    [] c = "s"  -> Eq(f.SF, 1)

JccUnsigned(c, f) ==
  CASE c = "ae" -> Eq(f.CF, 0)
    [] c = "a"  -> And1(Eq(f.CF, 0), Eq(f.ZF, 0))
    [] c = "be" -> And1(Eq(f.CF, 1), Eq(f.ZF, 1))
    [] c = "b"  -> Eq(f.CF, 1)

JccSigned(c, f) ==
  CASE c = "ge" -> Eq(f.SF, f.OF)
    [] c = "g"  -> And1(Eq(f.ZF, 0), Eq(f.SF, f.OF))
    [] c = "le" -> And1(Eq(f.ZF, 1), Ne(f.SF, f.OF))
    [] c = "l"  -> Ne(f.SF, f.OF)

JccSingle(c, f) ==
  CASE c = "e"  -> Eq(f.ZF, 1)
    [] c = "ne" -> Eq(f.ZF, 0)
    [] c = "no" -> Eq(f.OF, 0)
    [] c = "np" -> Eq(f.PF, 0)
    [] c = "ns" -> Eq(f.SF, 0)
    [] c = "o"  -> Eq(f.OF, 1)
    [] c = "p"  -> Eq(f.PF, 1)
    [] c = "s"  -> Eq(f.SF, 1)

UnsignedConditions == {"a", "ae", "b", "be"}
SignedConditions == {"g", "ge", "l", "le"}

SetCondition(c, f) ==
  IF c \in UnsignedConditions THEN SetUnsigned(c, f)
  ELSE IF c \in SignedConditions THEN SetSigned(c, f) ELSE SetSingle(c, f)

CmovCondition(c, f) ==
  IF c \in UnsignedConditions THEN CmovUnsigned(c, f)
  ELSE IF c \in SignedConditions THEN CmovSigned(c, f) ELSE CmovSingle(c, f)

JccCondition(c, f) ==
  IF c \in UnsignedConditions THEN JccUnsigned(c, f)
  ELSE IF c \in SignedConditions THEN JccSigned(c, f) ELSE JccSingle(c, f)

(* The result is stored as a word, 0 or 1. *)
Setcc ==
  /\ Handle("set")
  /\ Store(SetCondition(insn.cc, flag))
  /\ GoOn
  /\ UNCHANGED flag

(* The destination is stored whether or not the condition holds. *)
Cmovcc ==
  LET result == CmovCondition(insn.cc, flag) IN
  /\ Handle("cmov")
  /\ Store(BitOr(If(result, Rhs), If(Not1(result), Lhs)))
  /\ GoOn
  /\ UNCHANGED flag

(* js: to the target if the bit is set, else to the next instruction. *)
Js(condition) == branch' = IF condition = 1 THEN "target" ELSE "next"

Jcc ==
  /\ Handle("jcc")
  /\ Js(JccCondition(insn.cc, flag))
  /\ UNCHANGED <<reg, flag>>

Jrcxz ==
  /\ Handle("jrcxz")
  /\ Js(Eq(reg[Rcx], 0))
  /\ UNCHANGED <<reg, flag>>

(* The counter is decremented before the condition reads it. *)
LoopWhile(op, condition) ==
  LET count == Wrap(reg[Rcx] - 1) IN
  /\ Handle(op)
  /\ reg' = [reg EXCEPT ![Rcx] = count]
  /\ Js(And1(Ne(count, 0), condition))
  /\ UNCHANGED flag

Loop == LoopWhile("loop", 1)
Loope == LoopWhile("loope", Eq(flag.ZF, 1))
Loopne == LoopWhile("loopne", Eq(flag.ZF, 0))

Execute ==
  \/ \E op \in {"add", "sub", "and", "or", "xor"} : Binop(op)
  \/ Adc \/ Sbb \/ Cmp \/ Test \/ Inc \/ Dec \/ Neg \/ Complement
  \/ Mov \/ Xchg
  \/ MovCarry("clc", 0) \/ MovCarry("stc", 1) \/ Cmc
  \/ Setcc \/ Cmovcc \/ Jcc \/ Jrcxz
  \/ Loop \/ Loope \/ Loopne

Next == Fetch \/ Execute

Spec == Init /\ [][Next]_vars

(***************************************************************************)
(* Properties.                                                             *)
(***************************************************************************)

(* Every register holds a word, every flag a bit. *)
TypeOK ==
  /\ reg \in [Regs -> Word]
  /\ flag \in Flags
  /\ branch \in {"next", "target"}
  /\ insn \in Insns \cup {Idle}

(* The lifted form of an instruction does to the registers, to the flags    *)
(* and to the control flow what the processor does with the instruction    *)
(* (what fuzzer.hpp:210-234 compares after a run on random inputs).        *)
Native == INSTANCE NativeMachine

ActsAsNative == Native!Spec

(* Whatever becomes of the flags, an instruction leaves in the registers    *)
(* what the processor leaves there (fuzzer.hpp:210-221).                   *)
RegistersFollow == [][insn # Idle => reg' = Native!Registers]_vars

JccConditions == {i.cc : i \in {j \in Insns : j.op = "jcc"}}
SetConditions == {i.cc : i \in {j \in Insns : j.op = "set"}}
CmovConditions == {i.cc : i \in {j \in Insns : j.op = "cmov"}}

(* A condition means the same to a conditional jump, a conditional set and  *)
(* a conditional move.                                                      *)
ConditionsAgree ==
  /\ \A c \in JccConditions \cap CmovConditions :
       JccCondition(c, flag) = CmovCondition(c, flag)
  /\ \A c \in SetConditions \cap CmovConditions :
       SetCondition(c, flag) = CmovCondition(c, flag)

(* The order of a and b that condition c stands for after comparing them. *)
Ordered(c, a, b) ==
  CASE c = "a"  -> a > b
    [] c = "ae" -> a >= b
    [] c = "b"  -> a < b
    [] c = "be" -> a <= b
    [] c = "g"  -> Signed(a) > Signed(b)
    [] c = "ge" -> Signed(a) >= Signed(b)
    [] c = "l"  -> Signed(a) < Signed(b)
    [] c = "le" -> Signed(a) <= Signed(b)
    [] c = "e"  -> a = b
    [] c = "ne" -> a # b

OrderConditions ==
  UnsignedConditions \cup SignedConditions \cup {"e", "ne"}

Decides(f, a, b) ==
  \A c \in OrderConditions :
    /\ c \in JccConditions => (JccCondition(c, f) = 1 <=> Ordered(c, a, b))
    /\ c \in SetConditions => (SetCondition(c, f) = 1 <=> Ordered(c, a, b))
    /\ c \in CmovConditions => (CmovCondition(c, f) = 1 <=> Ordered(c, a, b))

(* A conditional instruction after a comparison or a subtraction goes by    *)
(* the order of the operands, signed or unsigned as its condition says,    *)
(* however far the difference is out of range; after a test of a register  *)
(* with itself, by its order with zero.                                    *)
ComparisonsDecide ==
  [][/\ insn.op \in {"cmp", "sub"} => Decides(flag', Lhs, Rhs)
     /\ insn.op = "test" /\ insn.dst = insn.src => Decides(flag', Lhs, 0)]_vars

(* The carry an addition or subtraction leaves is the one the next word of  *)
(* a longer number needs.                                                   *)
CarryChains ==
  [][/\ insn.op \in {"add", "adc"} =>
          LET c == IF insn.op = "adc" THEN flag.CF ELSE 0
          IN reg'[insn.dst] + Mod * flag'.CF = Lhs + Rhs + c
     /\ insn.op \in {"sub", "sbb"} =>
          LET c == IF insn.op = "sbb" THEN flag.CF ELSE 0
          IN reg'[insn.dst] - Mod * flag'.CF = Lhs - Rhs - c]_vars
=============================================================================
