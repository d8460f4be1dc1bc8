------------------------- MODULE LiftedMachineProofs -------------------------
(***************************************************************************)
(* Proofs about LiftedMachine for words of every width: the machine keeps  *)
(* its types, and but for the instructions named in Divergent it does what *)
(* NativeMachine does.                                                     *)
(***************************************************************************)
EXTENDS LiftedMachine, TLAPS

(* The instructions lifted to something else than the processor does. *)
Divergent ==
  {i \in Insns : \/ i.op \in {"adc", "sbb", "dec"}
                 \/ i.op = "jcc" /\ i.cc \in {"be", "le"}
                 \/ i.op = "set" /\ i.cc \in {"ge", "le"}}

(* A sum or difference of words, wrapped, is a word. *)
LEMMA WrapType ==
  ASSUME NEW a \in Word, NEW b \in Word
  PROVE  Wrap(a + b) \in Word /\ Wrap(a - b) \in Word
BY WordsAssumption DEF Wrap, Word, Mod

(* Zero, one and all ones are words. *)
LEMMA SmallWords == 0 \in Word /\ 1 \in Word /\ Mod - 1 \in Word
BY WordsAssumption DEF Word, Mod

(* The flag formulas give bits. *)
LEMMA SetFlagsType ==
  ASSUME NEW cf \in 0 .. 1, NEW of \in 0 .. 1, NEW v
  PROVE  SetFlags(cf, of, v) \in Flags
BY DEF SetFlags, Flags, Sign, Zero, Parity, Eq, Bit

(* Carry and overflow are bits. *)
LEMMA FormulaTypes ==
  ASSUME NEW a, NEW b, NEW v
  PROVE  /\ OverflowAdd(a, b, v) \in 0 .. 1
         /\ OverflowSub(a, b, v) \in 0 .. 1
         /\ CarryAdd(a, v) \in 0 .. 1
         /\ CarrySub(a, v) \in 0 .. 1
BY DEF OverflowAdd, OverflowSub, CarryAdd, CarrySub, And1, Bit

(* process_flags gives bits. *)
LEMMA ProcessFlagsType ==
  ASSUME NEW op, NEW a, NEW b, NEW v
  PROVE  ProcessFlags(op, a, b, v) \in Flags
<1>1. CASE op = "add"
  BY <1>1, FormulaTypes, SetFlagsType DEF ProcessFlags
<1>2. CASE op = "sub"
  BY <1>2, FormulaTypes, SetFlagsType DEF ProcessFlags
<1>3. CASE op # "add" /\ op # "sub"
  BY <1>3, SetFlagsType DEF ProcessFlags, CarryLogic, OverflowLogic
<1> QED BY <1>1, <1>2, <1>3

(***************************************************************************)
(* The flag formulas mean what the processor's flags mean.                 *)
(***************************************************************************)

(* The sign bit formula is the sign. *)
LEMMA SignMeans ==
  ASSUME NEW v \in Word
  PROVE  Sign(v) = Bit(Signed(v) < 0)
BY WordsAssumption DEF Sign, Signed, Bit, Word, Mod

(* ADD, and INC with b = 1. *)
LEMMA AddCarry ==
  ASSUME NEW a \in Word, NEW b \in Word
  PROVE  CarryAdd(a, Wrap(a + b)) = Bit(a + b + 0 >= Mod)
BY WordsAssumption DEF CarryAdd, Wrap, Bit, Word, Mod

(* The overflow formula of ADD: the signed sum does not fit a word.         *)
LEMMA AddOverflow ==
  ASSUME NEW a \in Word, NEW b \in Word
  PROVE  OverflowAdd(a, b, Wrap(a + b))
           = Bit(~Native!FitsSigned(Signed(a) + Signed(b) + 0))
BY WordsAssumption
   DEF OverflowAdd, Native!FitsSigned, Signed, Sign, Wrap, And1, Xor1, Bit,
       Word, Mod

(* SUB and CMP, and NEG with a = 0. *)
LEMMA SubCarry ==
  ASSUME NEW a \in Word, NEW b \in Word
  PROVE  CarrySub(a, Wrap(a - b)) = Bit(a < b + 0)
BY WordsAssumption DEF CarrySub, Wrap, Bit, Word, Mod

(* The overflow formula of SUB: the signed difference does not fit.         *)
LEMMA SubOverflow ==
  ASSUME NEW a \in Word, NEW b \in Word
  PROVE  OverflowSub(a, b, Wrap(a - b))
           = Bit(~Native!FitsSigned(Signed(a) - Signed(b) - 0))
BY WordsAssumption
   DEF OverflowSub, Native!FitsSigned, Signed, Sign, Wrap, And1, Xor1, Bit,
       Word, Mod

(* The three flags read off the result. *)
LEMMA StatusMeans ==
  ASSUME NEW v \in Word, NEW cf, NEW of
  PROVE  SetFlags(cf, of, v) = Native!Status(cf, of, v)
BY SignMeans
   DEF SetFlags, Native!Status, Zero, Parity, Eq, Bit, Native!Bit,
       Signed, Native!Signed, Mod, Native!Mod

(* Together: the flags of ADD are those of the processor.                   *)
LEMMA AddFlags ==
  ASSUME NEW a \in Word, NEW b \in Word
  PROVE  SetFlags(CarryAdd(a, Wrap(a + b)), OverflowAdd(a, b, Wrap(a + b)),
                  Wrap(a + b))
           = Native!Sum(a, b, 0)
<1>1. a + b + 0 = a + b
  BY WordsAssumption DEF Word, Mod
<1>2. Native!Wrap(a + b) = Wrap(a + b)
  BY DEF Native!Wrap, Wrap, Native!Mod, Mod
<1>3. Native!Bit(a + b + 0 >= Native!Mod) = CarryAdd(a, Wrap(a + b))
  BY AddCarry DEF Native!Bit, Bit, Native!Mod, Mod
<1>4. Native!Bit(~Native!FitsSigned(Native!Signed(a) + Native!Signed(b) + 0))
        = OverflowAdd(a, b, Wrap(a + b))
  BY AddOverflow DEF Native!Bit, Bit, Native!Signed, Signed, Native!Mod, Mod
<1> QED
  BY <1>1, <1>2, <1>3, <1>4, WrapType, StatusMeans DEF Native!Sum

(* Together: the flags of SUB and CMP are those of the processor.           *)
LEMMA SubFlags ==
  ASSUME NEW a \in Word, NEW b \in Word
  PROVE  SetFlags(CarrySub(a, Wrap(a - b)), OverflowSub(a, b, Wrap(a - b)),
                  Wrap(a - b))
           = Native!Difference(a, b, 0)
<1>1. a - b - 0 = a - b
  BY WordsAssumption DEF Word, Mod
<1>2. Native!Wrap(a - b) = Wrap(a - b)
  BY DEF Native!Wrap, Wrap, Native!Mod, Mod
<1>3. Native!Bit(a < b + 0) = CarrySub(a, Wrap(a - b))
  BY SubCarry DEF Native!Bit, Bit
<1>4. Native!Bit(~Native!FitsSigned(Native!Signed(a) - Native!Signed(b) - 0))
        = OverflowSub(a, b, Wrap(a - b))
  BY SubOverflow DEF Native!Bit, Bit, Native!Signed, Signed, Native!Mod, Mod
<1> QED
  BY <1>1, <1>2, <1>3, <1>4, WrapType, StatusMeans DEF Native!Difference

(* NEG: the carry is whether there was anything to negate. *)
LEMMA NegFlags ==
  ASSUME NEW a \in Word
  PROVE  SetFlags(Ne(a, 0), OverflowSub(0, a, Wrap(0 - a)), Wrap(0 - a))
           = Native!Difference(0, a, 0)
<1>1. Ne(a, 0) = CarrySub(0, Wrap(0 - a))
  BY WordsAssumption DEF Ne, Eq, Bit, CarrySub, Wrap, Word, Mod
<1> QED BY <1>1, SubFlags, SmallWords

(***************************************************************************)
(* The conditions mean what the processor's conditions mean.               *)
(***************************************************************************)
LEMMA CmovMeans ==
  ASSUME NEW c \in Conditions, NEW f \in Flags
  PROVE  /\ CmovCondition(c, f) \in 0 .. 1
         /\ CmovCondition(c, f) = 1 <=> Native!Holds(c, f)
<1> USE DEF UnsignedConditions, SignedConditions, Native!Holds, Flags, Eq,
            Ne, And1, Or1, Bit, CmovCondition, CmovUnsigned, CmovSigned,
            CmovSingle
<1>1. CASE c = "o"  BY <1>1
<1>2. CASE c = "no"  BY <1>2
<1>3. CASE c = "b"  BY <1>3
<1>4. CASE c = "ae"  BY <1>4
<1>5. CASE c = "e"  BY <1>5
<1>6. CASE c = "ne"  BY <1>6
<1>7. CASE c = "be"  BY <1>7
<1>8. CASE c = "a"  BY <1>8
<1>9. CASE c = "s"  BY <1>9
<1>10. CASE c = "ns"  BY <1>10
<1>11. CASE c = "p"  BY <1>11
<1>12. CASE c = "np"  BY <1>12
<1>13. CASE c = "l"  BY <1>13
<1>14. CASE c = "ge"  BY <1>14
<1>15. CASE c = "le"  BY <1>15
<1>16. CASE c = "g"  BY <1>16
<1> QED
  BY <1>1, <1>2, <1>3, <1>4, <1>5, <1>6, <1>7, <1>8, <1>9, <1>10, <1>11,
     <1>12, <1>13, <1>14, <1>15, <1>16 DEF Conditions

(* SETcc: all but SETGE and SETLE.                                          *)
LEMMA SetMeans ==
  ASSUME NEW c \in Conditions, NEW f \in Flags
  PROVE  /\ SetCondition(c, f) \in 0 .. 1
         /\ c \notin {"ge", "le"} =>
              SetCondition(c, f) = Native!Bit(Native!Holds(c, f))
<1> USE DEF UnsignedConditions, SignedConditions, Native!Holds, Flags, Eq,
            Ne, And1, Or1, Bit, Native!Bit, SetCondition, SetUnsigned,
            SetSigned, SetSingle
<1>1. CASE c = "o"  BY <1>1
<1>2. CASE c = "no"  BY <1>2
<1>3. CASE c = "b"  BY <1>3
<1>4. CASE c = "ae"  BY <1>4
<1>5. CASE c = "e"  BY <1>5
<1>6. CASE c = "ne"  BY <1>6
<1>7. CASE c = "be"  BY <1>7
<1>8. CASE c = "a"  BY <1>8
<1>9. CASE c = "s"  BY <1>9
<1>10. CASE c = "ns"  BY <1>10
<1>11. CASE c = "p"  BY <1>11
<1>12. CASE c = "np"  BY <1>12
<1>13. CASE c = "l"  BY <1>13
<1>14. CASE c = "ge"  BY <1>14
<1>15. CASE c = "le"  BY <1>15
<1>16. CASE c = "g"  BY <1>16
<1> QED
  BY <1>1, <1>2, <1>3, <1>4, <1>5, <1>6, <1>7, <1>8, <1>9, <1>10, <1>11,
     <1>12, <1>13, <1>14, <1>15, <1>16 DEF Conditions

(* Jcc: all but JBE and JLE.                                                *)
LEMMA JccMeans ==
  ASSUME NEW c \in Conditions \ {"be", "le"}, NEW f \in Flags
  PROVE  /\ JccCondition(c, f) \in 0 .. 1
         /\ JccCondition(c, f) = 1 <=> Native!Holds(c, f)
<1> USE DEF UnsignedConditions, SignedConditions, Native!Holds, Flags, Eq,
            Ne, And1, Or1, Bit, JccCondition, JccUnsigned, JccSigned,
            JccSingle
<1>1. CASE c = "o"  BY <1>1
<1>2. CASE c = "no"  BY <1>2
<1>3. CASE c = "b"  BY <1>3
<1>4. CASE c = "ae"  BY <1>4
<1>5. CASE c = "e"  BY <1>5
<1>6. CASE c = "ne"  BY <1>6
<1>7. CASE c = "a"  BY <1>7
<1>8. CASE c = "s"  BY <1>8
<1>9. CASE c = "ns"  BY <1>9
<1>10. CASE c = "p"  BY <1>10
<1>11. CASE c = "np"  BY <1>11
<1>12. CASE c = "l"  BY <1>12
<1>13. CASE c = "ge"  BY <1>13
<1>14. CASE c = "g"  BY <1>14
<1> QED
  BY <1>1, <1>2, <1>3, <1>4, <1>5, <1>6, <1>7, <1>8, <1>9, <1>10, <1>11,
     <1>12, <1>13, <1>14 DEF Conditions

(***************************************************************************)
(* Type correctness.                                                       *)
(***************************************************************************)

(* The instruction about to be executed, its operands and the counter. *)
LEMMA Operands ==
  ASSUME TypeOK, insn # Idle
  PROVE  /\ insn \in Insns /\ insn \in Insn
         /\ insn.dst \in Regs /\ insn.src \in Regs /\ insn.cc \in Conditions
         /\ Lhs \in Word /\ Rhs \in Word /\ reg[Rcx] \in Word
         /\ flag.CF \in 0 .. 1 /\ flag.CF \in Word
BY WordsAssumption, SmallWords DEF TypeOK, Insn, Lhs, Rhs, Flags

(* A result stored in the destination.                                      *)
LEMMA StoreType ==
  ASSUME TypeOK, insn # Idle, NEW v \in Word, Store(v)
  PROVE  reg' \in [Regs -> Word]
BY Operands DEF TypeOK, Store

(* A handler runs on an instruction and consumes it.                        *)
LEMMA HandleIdle ==
  ASSUME NEW op, Handle(op), op # "idle"
  PROVE  insn # Idle /\ insn.op = op /\ insn' = Idle
BY DEF Handle, Idle

(* Each handler finishes with words in the registers and bits in the flags. *)
LEMMA HandlerTypes ==
  ASSUME TypeOK, Execute
  PROVE  TypeOK'
<1> SUFFICES insn # Idle /\ insn' = Idle /\ reg' \in [Regs -> Word]
             /\ flag' \in Flags /\ branch' \in {"next", "target"}
  BY DEF TypeOK
<1> USE DEF GoOn
<1>1. ASSUME NEW op \in {"add", "sub", "and", "or", "xor"}, Binop(op)
      PROVE  /\ insn # Idle /\ insn' = Idle /\ reg' \in [Regs -> Word]
             /\ flag' \in Flags /\ branch' \in {"next", "target"}
  <2>1. insn # Idle /\ insn' = Idle
    BY <1>1, HandleIdle DEF Binop
  <2>2. BinopResult(op) \in Word
    <3>1. CASE op \in {"add", "sub"}
      BY <3>1, <2>1, Operands, WrapType DEF BinopResult
    <3>2. CASE op \in {"and", "or", "xor"}
      BY <3>2, <2>1, Operands, BitwiseAssumption DEF BinopResult
    <3> QED BY <3>1, <3>2
  <2> QED
    BY <1>1, <2>1, <2>2, StoreType, ProcessFlagsType DEF Binop
<1>2. CASE Adc
  BY <1>2, HandleIdle, Operands, WrapType, StoreType, ProcessFlagsType DEF Adc
<1>3. CASE Sbb
  BY <1>3, HandleIdle, Operands, WrapType, StoreType, ProcessFlagsType DEF Sbb
<1>4. CASE Cmp
  BY <1>4, HandleIdle, SetFlagsType, FormulaTypes DEF Cmp, TypeOK
<1>5. CASE Test
  BY <1>5, HandleIdle, SetFlagsType DEF Test, TypeOK
<1>6. CASE Inc
  BY <1>6, HandleIdle, Operands, WrapType, SmallWords, StoreType,
     SetFlagsType, FormulaTypes DEF Inc
<1>7. CASE Dec
  BY <1>7, HandleIdle, Operands, WrapType, SmallWords, StoreType,
     SetFlagsType, FormulaTypes DEF Dec
<1>8. CASE Neg
  <2>1. Ne(Lhs, 0) \in 0 .. 1
    BY DEF Ne, Eq, Bit
  <2> QED
    BY <1>8, <2>1, HandleIdle, Operands, WrapType, SmallWords, StoreType,
       SetFlagsType, FormulaTypes DEF Neg
<1>9. CASE Complement
  <2>1. insn # Idle /\ insn' = Idle
    BY <1>9, HandleIdle DEF Complement
  <2>2. Mod - 1 - Lhs \in Word
    BY <2>1, Operands, WordsAssumption DEF Word, Mod
  <2> QED
    BY <1>9, <2>1, <2>2, StoreType DEF Complement, TypeOK
<1>10. CASE Mov
  BY <1>10, HandleIdle, Operands, StoreType DEF Mov, TypeOK
<1>11. CASE Xchg
  BY <1>11, HandleIdle, Operands DEF Xchg, TypeOK
<1>12. ASSUME NEW op \in {"clc", "stc"}, NEW cf \in 0 .. 1, MovCarry(op, cf)
       PROVE  /\ insn # Idle /\ insn' = Idle /\ reg' \in [Regs -> Word]
              /\ flag' \in Flags /\ branch' \in {"next", "target"}
  BY <1>12, HandleIdle DEF MovCarry, TypeOK, Flags
<1>13. CASE Cmc
  BY <1>13, HandleIdle DEF Cmc, TypeOK, Flags, Not1
<1>14. CASE Setcc
  <2>1. insn # Idle /\ insn' = Idle
    BY <1>14, HandleIdle DEF Setcc
  <2>2. SetCondition(insn.cc, flag) \in Word
    <3>1. SetCondition(insn.cc, flag) \in 0 .. 1
      BY <2>1, Operands, SetMeans DEF TypeOK
    <3> QED BY <3>1, SmallWords
  <2> QED
    BY <1>14, <2>1, <2>2, StoreType DEF Setcc, TypeOK
<1>15. CASE Cmovcc
  <2>1. insn # Idle /\ insn' = Idle
    BY <1>15, HandleIdle DEF Cmovcc
  <2>2. BitOr(If(CmovCondition(insn.cc, flag), Rhs),
              If(Not1(CmovCondition(insn.cc, flag)), Lhs)) \in Word
    BY <2>1, Operands, SmallWords, BitwiseAssumption DEF If
  <2> QED
    BY <1>15, <2>1, <2>2, StoreType DEF Cmovcc, TypeOK
<1>16. CASE Jcc
  BY <1>16, HandleIdle DEF Jcc, Js, TypeOK
<1>17. CASE Jrcxz
  BY <1>17, HandleIdle DEF Jrcxz, Js, TypeOK
<1>18. ASSUME NEW op \in {"loop", "loope", "loopne"}, NEW condition,
              LoopWhile(op, condition)
       PROVE  /\ insn # Idle /\ insn' = Idle /\ reg' \in [Regs -> Word]
              /\ flag' \in Flags /\ branch' \in {"next", "target"}
  <2>1. insn # Idle /\ insn' = Idle
    BY <1>18, HandleIdle DEF LoopWhile
  <2>2. Wrap(reg[Rcx] - 1) \in Word
    BY <2>1, Operands, SmallWords, WrapType
  <2> QED
    BY <1>18, <2>1, <2>2 DEF LoopWhile, Js, TypeOK
<1> QED
  BY <1>1, <1>2, <1>3, <1>4, <1>5, <1>6, <1>7, <1>8, <1>9, <1>10, <1>11,
     <1>12, <1>13, <1>14, <1>15, <1>16, <1>17, <1>18
     DEF Execute, Loop, Loope, Loopne

(* Registers hold words and flags hold bits, whatever is executed: no       *)
(* handler lets a result out of its width.                                 *)
THEOREM LiftedTypes == Spec => []TypeOK
<1>1. Init => TypeOK
  BY DEF Init, TypeOK
<1>2. TypeOK /\ [Next]_vars => TypeOK'
  <2> SUFFICES ASSUME TypeOK, [Next]_vars PROVE TypeOK'
    OBVIOUS
  <2>1. CASE Fetch
    BY <2>1 DEF Fetch, TypeOK
  <2>2. CASE Execute
    BY <2>2, HandlerTypes
  <2>3. CASE UNCHANGED vars
    BY <2>3 DEF vars, TypeOK
  <2> QED BY <2>1, <2>2, <2>3 DEF Next
<1> QED BY <1>1, <1>2, PTL DEF Spec

(***************************************************************************)
(* Registers: every instruction but SETGE and SETLE.                       *)
(***************************************************************************)

(* Both machines wrap alike. *)
LEMMA WrapSame == \A n : Native!Wrap(n) = Wrap(n)
BY DEF Native!Wrap, Wrap, Native!Mod, Mod

(* Adding the carry after wrapping or before makes no difference. *)
LEMMA WrapCarry ==
  ASSUME NEW a \in Word, NEW b \in Word, NEW c \in 0 .. 1
  PROVE  /\ Wrap(Wrap(a + b) + c) = Wrap(a + b + c)
         /\ Wrap(Wrap(a - b) - c) = Wrap(a - b - c)
BY WordsAssumption DEF Wrap, Word, Mod

(* Every handler but those two leaves the registers of the processor.       *)
LEMMA RegistersMatch ==
  ASSUME TypeOK, Execute,
         ~(insn.op = "set" /\ insn.cc \in {"ge", "le"})
  PROVE  reg' = Native!Registers
<1> USE DEF Lhs, Rhs
<1>1. ASSUME NEW op \in {"add", "sub", "and", "or", "xor"}, Binop(op)
      PROVE  reg' = Native!Registers
  <2>1. insn.op = op /\ Store(BinopResult(op))
    BY <1>1 DEF Binop, Handle
  <2>2. CASE op = "add"
    BY <2>1, <2>2, WrapSame DEF Native!Registers, BinopResult, Store
  <2>3. CASE op = "sub"
    BY <2>1, <2>3, WrapSame DEF Native!Registers, BinopResult, Store
  <2>4. CASE op = "and"
    BY <2>1, <2>4 DEF Native!Registers, BinopResult, Store
  <2>5. CASE op = "or"
    BY <2>1, <2>5 DEF Native!Registers, BinopResult, Store
  <2>6. CASE op = "xor"
    BY <2>1, <2>6 DEF Native!Registers, BinopResult, Store
  <2> QED BY <2>2, <2>3, <2>4, <2>5, <2>6
<1>2. CASE Adc
  <2>1. insn.op = "adc" /\ Store(Wrap(Wrap(Lhs + Rhs) + flag.CF))
    BY <1>2 DEF Adc, Handle
  <2>2. Wrap(Wrap(Lhs + Rhs) + flag.CF) = Wrap(Lhs + Rhs + flag.CF)
    BY <1>2, HandleIdle, Operands, WrapCarry DEF Adc
  <2> QED BY <2>1, <2>2, WrapSame DEF Native!Registers, Store
<1>3. CASE Sbb
  <2>1. insn.op = "sbb" /\ Store(Wrap(Wrap(Lhs - Rhs) - flag.CF))
    BY <1>3 DEF Sbb, Handle
  <2>2. Wrap(Wrap(Lhs - Rhs) - flag.CF) = Wrap(Lhs - Rhs - flag.CF)
    BY <1>3, HandleIdle, Operands, WrapCarry DEF Sbb
  <2> QED BY <2>1, <2>2, WrapSame DEF Native!Registers, Store
<1>4. CASE Cmp
  BY <1>4 DEF Cmp, Handle, Native!Registers
<1>5. CASE Test
  BY <1>5 DEF Test, Handle, Native!Registers
<1>6. CASE Inc
  BY <1>6, WrapSame DEF Inc, Handle, Store, Native!Registers
<1>7. CASE Dec
  BY <1>7, WrapSame DEF Dec, Handle, Store, Native!Registers
<1>8. CASE Neg
  BY <1>8, WrapSame DEF Neg, Handle, Store, Native!Registers
<1>9. CASE Complement
  BY <1>9 DEF Complement, Handle, Store, Native!Registers, Native!Mod, Mod
<1>10. CASE Mov
  BY <1>10 DEF Mov, Handle, Store, Native!Registers
<1>11. CASE Xchg
  BY <1>11, HandleIdle, Operands
     DEF Xchg, Handle, Native!Registers, TypeOK
<1>12. ASSUME NEW op \in {"clc", "stc"}, NEW cf \in 0 .. 1, MovCarry(op, cf)
       PROVE  reg' = Native!Registers
  BY <1>12 DEF MovCarry, Handle, Native!Registers
<1>13. CASE Cmc
  BY <1>13 DEF Cmc, Handle, Native!Registers
<1>14. CASE Setcc
  <2>1. insn.op = "set" /\ Store(SetCondition(insn.cc, flag))
    BY <1>14 DEF Setcc, Handle
  <2>2. SetCondition(insn.cc, flag) = Native!Bit(Native!Holds(insn.cc, flag))
    BY <1>14, <2>1, HandleIdle, Operands, SetMeans DEF Setcc, TypeOK
  <2> QED BY <2>1, <2>2 DEF Native!Registers, Store
<1>15. CASE Cmovcc
  <2>1. insn # Idle /\ insn.op = "cmov"
    BY <1>15, HandleIdle DEF Cmovcc
  <2>2. Native!Registers = IF Native!Holds(insn.cc, flag)
                           THEN [reg EXCEPT ![insn.dst] = Rhs] ELSE reg
    BY <2>1 DEF Native!Registers
  <2>3. /\ CmovCondition(insn.cc, flag) \in 0 .. 1
        /\ CmovCondition(insn.cc, flag) = 1 <=> Native!Holds(insn.cc, flag)
    BY <2>1, Operands, CmovMeans DEF TypeOK
  <2>4. CASE CmovCondition(insn.cc, flag) = 1
    <3>1. BitOr(If(1, Rhs), If(Not1(1), Lhs)) = Rhs
      BY <2>1, Operands, BitwiseAssumption DEF If, Not1
    <3> QED BY <1>15, <2>2, <2>3, <2>4, <3>1 DEF Cmovcc, Store
  <2>5. CASE CmovCondition(insn.cc, flag) = 0
    <3>1. BitOr(If(0, Rhs), If(Not1(0), Lhs)) = Lhs
      BY <2>1, Operands, BitwiseAssumption DEF If, Not1
    <3>2. reg' = [reg EXCEPT ![insn.dst] = Lhs]
      BY <1>15, <2>5, <3>1 DEF Cmovcc, Store
    <3> QED BY <2>1, <2>2, <2>3, <2>5, <3>2, Operands DEF TypeOK
  <2> QED BY <2>3, <2>4, <2>5
<1>16. CASE Jcc
  BY <1>16 DEF Jcc, Handle, Native!Registers
<1>17. CASE Jrcxz
  BY <1>17 DEF Jrcxz, Handle, Native!Registers
<1>18. ASSUME NEW op \in {"loop", "loope", "loopne"}, NEW condition,
              LoopWhile(op, condition)
       PROVE  reg' = Native!Registers
  BY <1>18, WrapSame, WordsAssumption
     DEF LoopWhile, Handle, Native!Registers, TypeOK
<1> QED
  BY <1>1, <1>2, <1>3, <1>4, <1>5, <1>6, <1>7, <1>8, <1>9, <1>10, <1>11,
     <1>12, <1>13, <1>14, <1>15, <1>16, <1>17, <1>18
     DEF Execute, Loop, Loope, Loopne

(* Every instruction but SETGE and SETLE leaves in the registers what the   *)
(* processor leaves there, ADC and SBB with whatever carry came in.        *)
THEOREM RegistersRight ==
  ASSUME \A i \in Insns : ~(i.op = "set" /\ i.cc \in {"ge", "le"})
  PROVE  Spec => RegistersFollow
<1>1. TypeOK /\ [Next]_vars => [insn # Idle => reg' = Native!Registers]_vars
  <2> SUFFICES ASSUME TypeOK, Next, insn # Idle PROVE reg' = Native!Registers
    OBVIOUS
  <2>1. Execute
    BY DEF Next, Fetch
  <2>2. insn \in Insns
    BY DEF TypeOK
  <2> QED BY <2>1, <2>2, RegistersMatch
<1> QED BY <1>1, LiftedTypes, PTL DEF Spec, RegistersFollow

(***************************************************************************)
(* Flags: every instruction but ADC, SBB and DEC.                          *)
(***************************************************************************)
LEMMA FlagsMatch ==
  ASSUME TypeOK, Execute, insn.op \notin {"adc", "sbb", "dec"}
  PROVE  flag' = Native!FlagsAfter
<1> USE DEF Lhs, Rhs
<1>1. ASSUME NEW op \in {"add", "sub", "and", "or", "xor"}, Binop(op)
      PROVE  flag' = Native!FlagsAfter
  <2>1. /\ insn.op = op
        /\ flag' = ProcessFlags(op, Lhs, Rhs, BinopResult(op))
    BY <1>1 DEF Binop, Handle
  <2>2. insn # Idle
    BY <1>1, HandleIdle DEF Binop
  <2>3. CASE op = "add"
    BY <2>1, <2>2, <2>3, Operands, AddFlags
       DEF Native!FlagsAfter, BinopResult, ProcessFlags
  <2>4. CASE op = "sub"
    BY <2>1, <2>2, <2>4, Operands, SubFlags
       DEF Native!FlagsAfter, BinopResult, ProcessFlags
  <2>5. CASE op = "and"
    BY <2>1, <2>2, <2>5, Operands, BitwiseAssumption, StatusMeans
       DEF Native!FlagsAfter, BinopResult, ProcessFlags, CarryLogic,
           OverflowLogic
  <2>6. CASE op = "or"
    BY <2>1, <2>2, <2>6, Operands, BitwiseAssumption, StatusMeans
       DEF Native!FlagsAfter, BinopResult, ProcessFlags, CarryLogic,
           OverflowLogic
  <2>7. CASE op = "xor"
    BY <2>1, <2>2, <2>7, Operands, BitwiseAssumption, StatusMeans
       DEF Native!FlagsAfter, BinopResult, ProcessFlags, CarryLogic,
           OverflowLogic
  <2> QED BY <2>3, <2>4, <2>5, <2>6, <2>7
<1>2. CASE Adc
  BY <1>2 DEF Adc, Handle
<1>3. CASE Sbb
  BY <1>3 DEF Sbb, Handle
<1>4. CASE Cmp
  <2>1. insn # Idle /\ insn.op = "cmp"
    BY <1>4, HandleIdle DEF Cmp
  <2> QED
    BY <1>4, <2>1, Operands, SubFlags DEF Cmp, Native!FlagsAfter
<1>5. CASE Test
  <2>1. insn # Idle /\ insn.op = "test"
    BY <1>5, HandleIdle DEF Test
  <2> QED
    BY <1>5, <2>1, Operands, BitwiseAssumption, StatusMeans
       DEF Test, Native!FlagsAfter
<1>6. CASE Inc
  <2>1. insn # Idle /\ insn.op = "inc"
    BY <1>6, HandleIdle DEF Inc
  <2>2. Native!FlagsAfter = [Native!Sum(Lhs, 1, 0) EXCEPT !.CF = flag.CF]
    BY <2>1 DEF Native!FlagsAfter
  <2>3. Native!Sum(Lhs, 1, 0)
          = SetFlags(CarryAdd(Lhs, Wrap(Lhs + 1)),
                     OverflowAdd(Lhs, 1, Wrap(Lhs + 1)), Wrap(Lhs + 1))
    BY <2>1, Operands, SmallWords, AddFlags
  <2> QED
    BY <1>6, <2>2, <2>3 DEF Inc, SetFlags
<1>7. CASE Dec
  BY <1>7 DEF Dec, Handle
<1>8. CASE Neg
  <2>1. insn # Idle /\ insn.op = "neg"
    BY <1>8, HandleIdle DEF Neg
  <2> QED
    BY <1>8, <2>1, Operands, NegFlags DEF Neg, Native!FlagsAfter
<1>9. CASE Complement
  BY <1>9 DEF Complement, Handle, Native!FlagsAfter
<1>10. CASE Mov
  BY <1>10 DEF Mov, Handle, Native!FlagsAfter
<1>11. CASE Xchg
  BY <1>11 DEF Xchg, Handle, Native!FlagsAfter
<1>12. CASE MovCarry("clc", 0)
  BY <1>12 DEF MovCarry, Handle, Native!FlagsAfter
<1>13. CASE MovCarry("stc", 1)
  BY <1>13 DEF MovCarry, Handle, Native!FlagsAfter
<1>14. CASE Cmc
  BY <1>14 DEF Cmc, Handle, Native!FlagsAfter, Not1
<1>15. CASE Setcc
  BY <1>15 DEF Setcc, Handle, Native!FlagsAfter
<1>16. CASE Cmovcc
  BY <1>16 DEF Cmovcc, Handle, Native!FlagsAfter
<1>17. CASE Jcc
  BY <1>17 DEF Jcc, Handle, Native!FlagsAfter
<1>18. CASE Jrcxz
  BY <1>18 DEF Jrcxz, Handle, Native!FlagsAfter
<1>19. ASSUME NEW op \in {"loop", "loope", "loopne"}, NEW condition,
              LoopWhile(op, condition)
       PROVE  flag' = Native!FlagsAfter
  BY <1>19 DEF LoopWhile, Handle, Native!FlagsAfter
<1> QED
  BY <1>1, <1>2, <1>3, <1>4, <1>5, <1>6, <1>7, <1>8, <1>9, <1>10, <1>11,
     <1>12, <1>13, <1>14, <1>15, <1>16, <1>17, <1>18, <1>19
     DEF Execute, Loop, Loope, Loopne

(***************************************************************************)
(* Control flow: every instruction but JBE and JLE.                        *)
(***************************************************************************)
LEMMA BranchMatches ==
  ASSUME TypeOK, Execute, ~(insn.op = "jcc" /\ insn.cc \in {"be", "le"})
  PROVE  branch' = IF Native!Jumps THEN "target" ELSE "next"
<1>1. ASSUME GoOn,
             insn.op \notin {"jcc", "jrcxz", "loop", "loope", "loopne"}
      PROVE  branch' = IF Native!Jumps THEN "target" ELSE "next"
  BY <1>1 DEF GoOn, Native!Jumps
<1>2. ASSUME NEW op \in {"add", "sub", "and", "or", "xor"}, Binop(op)
      PROVE  branch' = IF Native!Jumps THEN "target" ELSE "next"
  BY <1>1, <1>2 DEF Binop, Handle
<1>3. CASE Adc \/ Sbb \/ Cmp \/ Test \/ Inc \/ Dec \/ Neg \/ Complement
           \/ Mov \/ Xchg \/ MovCarry("clc", 0) \/ MovCarry("stc", 1) \/ Cmc
           \/ Setcc \/ Cmovcc
  BY <1>1, <1>3 DEF Handle, Adc, Sbb, Cmp, Test, Inc, Dec, Neg, Complement,
     Mov, Xchg, MovCarry, Cmc, Setcc, Cmovcc
<1>4. CASE Jcc
  <2>1. insn # Idle /\ insn.op = "jcc"
    BY <1>4, HandleIdle DEF Jcc
  <2>2. JccCondition(insn.cc, flag) = 1 <=> Native!Holds(insn.cc, flag)
    BY <2>1, Operands, JccMeans DEF TypeOK
  <2>3. Native!Jumps <=> Native!Holds(insn.cc, flag)
    BY <2>1 DEF Native!Jumps
  <2> QED BY <1>4, <2>2, <2>3 DEF Jcc, Js
<1>5. CASE Jrcxz
  BY <1>5 DEF Jrcxz, Handle, Js, Eq, Bit, Native!Jumps
<1>6. CASE Loop
  BY <1>6, WrapSame
     DEF Loop, LoopWhile, Handle, Js, And1, Ne, Eq, Bit, Native!Jumps
<1>7. CASE Loope
  BY <1>7, WrapSame
     DEF Loope, LoopWhile, Handle, Js, And1, Ne, Eq, Bit, Native!Jumps
<1>8. CASE Loopne
  BY <1>8, WrapSame
     DEF Loopne, LoopWhile, Handle, Js, And1, Ne, Eq, Bit, Native!Jumps
<1> QED
  BY <1>2, <1>3, <1>4, <1>5, <1>6, <1>7, <1>8 DEF Execute

(***************************************************************************)
(* Refinement.                                                             *)
(***************************************************************************)
LEMMA StateSame ==
  /\ Native!vars = vars /\ Native!Idle = Idle
  /\ Native!Word = Word /\ Native!Flags = Flags
BY DEF Native!vars, vars, Native!Idle, Idle, Native!Word, Word,
       Native!Mod, Mod, Native!Flags, Flags

(* Unless the input holds one of the divergent instructions, the lifted     *)
(* code does what the processor does, step by step, at every width.        *)
THEOREM LiftedImplementsNative ==
  ASSUME Divergent = {}
  PROVE  Spec => ActsAsNative
<1>1. Init => Native!Init
  BY StateSame DEF Init, Native!Init
<1>2. TypeOK /\ [Next]_vars => [Native!Next]_(Native!vars)
  <2> SUFFICES ASSUME TypeOK, [Next]_vars PROVE [Native!Next]_(Native!vars)
    OBVIOUS
  <2>1. CASE Fetch
    BY <2>1, StateSame DEF Fetch, Native!Next, Native!Fetch
  <2>2. CASE Execute
    <3>1. insn # Idle /\ insn' = Idle
      BY <2>2, HandleIdle
         DEF Execute, Binop, Adc, Sbb, Cmp, Test, Inc, Dec, Neg, Complement,
             Mov, Xchg, MovCarry, Cmc, Setcc, Cmovcc, Jcc, Jrcxz,
             Loop, Loope, Loopne, LoopWhile
    <3>2. insn \in Insns
      BY <3>1 DEF TypeOK
    <3>3. /\ insn.op \notin {"adc", "sbb", "dec"}
          /\ ~(insn.op = "jcc" /\ insn.cc \in {"be", "le"})
          /\ ~(insn.op = "set" /\ insn.cc \in {"ge", "le"})
      BY <3>2 DEF Divergent
    <3>4. /\ reg' = Native!Registers
          /\ flag' = Native!FlagsAfter
          /\ branch' = IF Native!Jumps THEN "target" ELSE "next"
      BY <2>2, <3>3, RegistersMatch, FlagsMatch, BranchMatches
    <3> QED
      BY <3>1, <3>4, StateSame DEF Native!Next, Native!Execute
  <2>3. CASE UNCHANGED vars
    BY <2>3 DEF vars, Native!vars
  <2> QED BY <2>1, <2>2, <2>3 DEF Next
<1> QED
  BY <1>1, <1>2, LiftedTypes, PTL DEF Spec, ActsAsNative, Native!Spec
(***************************************************************************)
(* Comparisons.                                                            *)
(***************************************************************************)

(* Flags that tell below, equal and less tell every order condition. *)
LEMMA FlagsOrder ==
  ASSUME NEW f, NEW a \in Int, NEW b \in Int, NEW c \in OrderConditions,
         f.CF \in 0 .. 1, f.ZF \in 0 .. 1,
         f.CF = 1 <=> a < b,
         f.ZF = 1 <=> a = b,
         f.SF # f.OF <=> Signed(a) < Signed(b),
         Signed(a) \in Int, Signed(b) \in Int,
         Signed(a) = Signed(b) <=> a = b
  PROVE  Native!Holds(c, f) <=> Ordered(c, a, b)
<1> USE DEF Native!Holds, Ordered
<1>1. CASE c = "a"  BY <1>1
<1>2. CASE c = "ae"  BY <1>2
<1>3. CASE c = "b"  BY <1>3
<1>4. CASE c = "be"  BY <1>4
<1>5. CASE c = "g"  BY <1>5
<1>6. CASE c = "ge"  BY <1>6
<1>7. CASE c = "l"  BY <1>7
<1>8. CASE c = "le"  BY <1>8
<1>9. CASE c = "e"  BY <1>9
<1>10. CASE c = "ne"  BY <1>10
<1> QED
  BY <1>1, <1>2, <1>3, <1>4, <1>5, <1>6, <1>7, <1>8, <1>9, <1>10
     DEF OrderConditions, UnsignedConditions, SignedConditions

(* The flags of a difference carry the order of its operands. *)
LEMMA DifferenceOrders ==
  ASSUME NEW a \in Word, NEW b \in Word, NEW c \in OrderConditions,
         NEW f, f = Native!Difference(a, b, 0)
  PROVE  Native!Holds(c, f) <=> Ordered(c, a, b)
<1>1. f.CF = 1 <=> a < b
  BY WordsAssumption DEF Native!Difference, Native!Status, Native!Bit,
     Word, Mod
<1>2. f.ZF = 1 <=> a = b
  BY WordsAssumption DEF Native!Difference, Native!Status, Native!Bit,
     Native!Wrap, Native!Mod, Word, Mod
<1>3. f.SF # f.OF <=> Signed(a) < Signed(b)
  BY WordsAssumption DEF Native!Difference, Native!Status, Native!Bit,
     Native!Wrap, Native!FitsSigned, Native!Signed, Signed, Native!Mod,
     Word, Mod
<1>4. f.CF \in 0 .. 1 /\ f.ZF \in 0 .. 1
  BY DEF Native!Difference, Native!Status, Native!Bit
<1>5. /\ a \in Int /\ b \in Int /\ Signed(a) \in Int /\ Signed(b) \in Int
      /\ Signed(a) = Signed(b) <=> a = b
  BY WordsAssumption DEF Word, Mod, Signed
<1> QED BY <1>1, <1>2, <1>3, <1>4, <1>5, FlagsOrder

(* The flags of a test of a word with itself are those of its difference    *)
(* with zero.                                                              *)
LEMMA TestIsDifference ==
  ASSUME NEW a \in Word
  PROVE  Native!Status(0, 0, a) = Native!Difference(a, 0, 0)
BY WordsAssumption DEF Native!Difference, Native!Status, Native!Bit,
   Native!Wrap, Native!FitsSigned, Native!Signed, Native!Mod, Word, Mod

(* The lifted conditions read the flags of a difference as the order. *)
LEMMA DifferenceDecides ==
  ASSUME Divergent = {}, NEW a \in Word, NEW b \in Word,
         NEW f \in Flags, f = Native!Difference(a, b, 0)
  PROVE  Decides(f, a, b)
<1> SUFFICES ASSUME NEW c \in OrderConditions
    PROVE  /\ c \in JccConditions =>
                (JccCondition(c, f) = 1 <=> Ordered(c, a, b))
           /\ c \in SetConditions =>
                (SetCondition(c, f) = 1 <=> Ordered(c, a, b))
           /\ c \in CmovConditions =>
                (CmovCondition(c, f) = 1 <=> Ordered(c, a, b))
  BY DEF Decides
<1>1. c \in Conditions
  BY DEF OrderConditions, UnsignedConditions, SignedConditions, Conditions
<1>2. Native!Holds(c, f) <=> Ordered(c, a, b)
  BY DifferenceOrders
<1>3. ASSUME c \in JccConditions
      PROVE  JccCondition(c, f) = 1 <=> Ordered(c, a, b)
  <2>1. c \notin {"be", "le"}
    BY <1>3 DEF JccConditions, Divergent
  <2> QED BY <1>1, <1>2, <2>1, JccMeans
<1>4. ASSUME c \in SetConditions
      PROVE  SetCondition(c, f) = 1 <=> Ordered(c, a, b)
  <2>1. c \notin {"ge", "le"}
    BY <1>4 DEF SetConditions, Divergent
  <2>2. SetCondition(c, f) = Native!Bit(Native!Holds(c, f))
    BY <1>1, <2>1, SetMeans
  <2> QED BY <1>2, <2>2 DEF Native!Bit
<1>5. CmovCondition(c, f) = 1 <=> Ordered(c, a, b)
  BY <1>1, <1>2, CmovMeans
<1> QED BY <1>3, <1>4, <1>5

(* After a comparison the conditional instructions decide by the order of   *)
(* the operands, at every width and for every pair of operands.            *)
THEOREM ComparisonsRight ==
  ASSUME Divergent = {}
  PROVE  Spec => ComparisonsDecide
<1>1. TypeOK /\ TypeOK' /\ [Next]_vars =>
        [/\ insn.op \in {"cmp", "sub"} => Decides(flag', Lhs, Rhs)
         /\ insn.op = "test" /\ insn.dst = insn.src =>
              Decides(flag', Lhs, 0)]_vars
  <2> SUFFICES ASSUME TypeOK, TypeOK', Next,
                      insn.op \in {"cmp", "sub", "test"}
      PROVE  /\ insn.op \in {"cmp", "sub"} => Decides(flag', Lhs, Rhs)
             /\ insn.op = "test" /\ insn.dst = insn.src =>
                  Decides(flag', Lhs, 0)
    OBVIOUS
  <2>1. insn # Idle
    BY DEF Idle
  <2>2. Execute /\ flag' \in Flags
    BY <2>1 DEF Next, Fetch, TypeOK
  <2>3. flag' = Native!FlagsAfter
    BY <2>2, FlagsMatch
  <2>4. ASSUME insn.op \in {"cmp", "sub"}
        PROVE  Decides(flag', Lhs, Rhs)
    <3>1. flag' = Native!Difference(Lhs, Rhs, 0)
      BY <2>3, <2>4 DEF Native!FlagsAfter, Lhs, Rhs
    <3> QED BY <2>1, <2>2, <3>1, Operands, DifferenceDecides
  <2>5. ASSUME insn.op = "test", insn.dst = insn.src
        PROVE  Decides(flag', Lhs, 0)
    <3>1. flag' = Native!Status(0, 0, Lhs)
      BY <2>1, <2>3, <2>5, Operands, BitwiseAssumption
         DEF Native!FlagsAfter, Lhs, Rhs
    <3> QED
      BY <2>1, <2>2, <3>1, Operands, SmallWords, TestIsDifference,
         DifferenceDecides
  <2> QED BY <2>4, <2>5
<1> QED BY <1>1, LiftedTypes, PTL DEF Spec, ComparisonsDecide
(* A condition means the same to the three kinds of instruction, whatever   *)
(* the flags; the jumps and sets that misread theirs are set aside.        *)
THEOREM ConditionsMatch ==
  ASSUME JccConditions \cap {"be", "le"} = {},
         SetConditions \cap {"ge", "le"} = {}
  PROVE  Spec => []ConditionsAgree
<1>1. TypeOK => ConditionsAgree
  <2> SUFFICES ASSUME TypeOK PROVE ConditionsAgree
    OBVIOUS
  <2> DEFINE Used == {i.cc : i \in Insns}
  <2>1. Used \subseteq Conditions
    BY WordsAssumption DEF Insn
  <2>2. flag \in Flags
    BY DEF TypeOK
  <2>3. ASSUME NEW c \in JccConditions
        PROVE  JccCondition(c, flag) = CmovCondition(c, flag)
    <3>1. c \in Conditions \ {"be", "le"}
      BY <2>1 DEF JccConditions
    <3>2. /\ JccCondition(c, flag) \in 0 .. 1
          /\ JccCondition(c, flag) = 1 <=> Native!Holds(c, flag)
      BY <2>2, <3>1, JccMeans
    <3>3. /\ CmovCondition(c, flag) \in 0 .. 1
          /\ CmovCondition(c, flag) = 1 <=> Native!Holds(c, flag)
      BY <2>2, <3>1, CmovMeans
    <3> QED BY <3>2, <3>3
  <2>4. ASSUME NEW c \in SetConditions
        PROVE  SetCondition(c, flag) = CmovCondition(c, flag)
    <3>1. c \in Conditions \ {"ge", "le"}
      BY <2>1 DEF SetConditions
    <3>2. SetCondition(c, flag) = Native!Bit(Native!Holds(c, flag))
      BY <2>2, <3>1, SetMeans
    <3>3. /\ CmovCondition(c, flag) \in 0 .. 1
          /\ CmovCondition(c, flag) = 1 <=> Native!Holds(c, flag)
      BY <2>2, <3>1, CmovMeans
    <3> QED BY <3>2, <3>3 DEF Native!Bit
  <2> QED BY <2>3, <2>4 DEF ConditionsAgree
<1> QED BY <1>1, LiftedTypes, PTL
=============================================================================
