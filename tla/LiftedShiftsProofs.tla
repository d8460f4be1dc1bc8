------------------------- MODULE LiftedShiftsProofs -------------------------
(***************************************************************************)
(* Proofs about LiftedShifts for operands of every width: the types, the   *)
(* results and, wherever Faithful holds, the flags.  The processor shifts  *)
(* by one place at a time (NativeShifts), the handlers by the amount.  The *)
(* bridge is a tape of bits, the operand with what comes in beside it:     *)
(* after n single steps the operand is the window that begins n places on. *)
(***************************************************************************)
EXTENDS LiftedShifts, Arithmetic

(* Place gives the powers of two, which are not zero. *)
LEMMA Places == \A i \in Positions : Place[i] \in Nat /\ Place[i] > 0
<1> DEFINE m == Width - 1
<1>1. m \in Nat /\ Positions = 0 .. m
  BY BitWordsAssumption DEF Positions
<1>2. Place = CHOOSE f : Powers(f, m, 2)
  BY DEF Place, Powers, Positions
<1> HIDE DEF m
<1> DEFINE r == 2
<1>3. r \in Nat /\ r > 0 /\ Place = CHOOSE f : Powers(f, m, r)
  BY <1>2
<1> HIDE DEF r
<1>4. Powers(Place, m, r)
  BY <1>1, <1>3, PowersExist
<1> QED BY <1>1, <1>3, <1>4, PowersFacts

(* Bits. *)
LEMMA Bits ==
  /\ \A p : Bit(p) \in 0 .. 1
  /\ \A a, b : Xor1(a, b) \in 0 .. 1
  /\ \A a, b \in 0 .. 1 : Xor1(a, Xor1(a, b)) = b
  /\ \A a \in 0 .. 1 : Xor1(a, a) = 0 /\ Xor1(0, a) = a /\ Xor1(a, 0) = a
BY DEF Bit, Xor1

(* Select with a condition is a choice. *)
LEMMA SelectIs ==
  ASSUME NEW f \in 0 .. 1, NEW c, NEW b \in 0 .. 1
  PROVE  Select(f, c, b) = IF c THEN b ELSE f
BY Bits DEF Select, Toggle

(* A position outside the operand reads as a zero. *)
LEMMA AtType ==
  ASSUME NEW x \in BitWord, NEW i
  PROVE  At(x, i) \in 0 .. 1
BY DEF At, BitWord

(* Shifting, completing, adding and the tests give words and bits. *)
LEMMA WordTypes ==
  ASSUME NEW x \in BitWord, NEW y \in BitWord, NEW n \in Int, NEW b \in 0 .. 1
  PROVE  /\ Left(x, n) \in BitWord /\ Right(x, n) \in BitWord
         /\ Or(x, y) \in BitWord /\ Only(b) \in BitWord
         /\ RotateLeft(x, n) \in BitWord /\ RotateRight(x, n) \in BitWord
         /\ Number(n) \in BitWord /\ Zeros \in BitWord /\ Ones \in BitWord
         /\ Sign(x) \in 0 .. 1 /\ Zero(x) \in 0 .. 1 /\ Parity(x) \in 0 .. 1
<1>1. Left(x, n) \in BitWord /\ Right(x, n) \in BitWord
  BY AtType DEF Left, Right, BitWord
<1>2. Or(x, y) \in BitWord /\ Only(b) \in BitWord
  BY Bits DEF Or, Only, BitWord
<1>3. ASSUME NEW i \in Positions
      PROVE  (i - n) % Width \in Positions /\ (i + n) % Width \in Positions
  BY BitWordsAssumption, Division DEF Positions
<1>4. RotateLeft(x, n) \in BitWord /\ RotateRight(x, n) \in BitWord
  BY <1>3 DEF RotateLeft, RotateRight, BitWord
<1>5. Number(n) \in BitWord
  <2> SUFFICES ASSUME NEW i \in Positions PROVE (n \div Place[i]) % 2 \in 0 .. 1
    BY DEF Number, BitWord
  <2>1. n \div Place[i] \in Int
    BY Places, Division
  <2> QED BY <2>1
<1>6. Zeros \in BitWord /\ Ones \in BitWord
  BY DEF Zeros, Ones, BitWord
<1>7. Sign(x) \in 0 .. 1
  BY BitWordsAssumption DEF Sign, Top, BitWord, Positions
<1>8. Zero(x) \in 0 .. 1 /\ Parity(x) \in 0 .. 1
  BY Bits DEF Zero, Parity
<1> QED BY <1>1, <1>2, <1>4, <1>5, <1>6, <1>7, <1>8

(* Amounts are below the turn. *)
LEMMA MaskedType ==
  ASSUME insn.count \in Nat
  PROVE  Masked \in 0 .. Turn - 1 /\ Masked \in Int
BY BitWordsAssumption, Division DEF Masked

(* The instruction about to be executed. *)
LEMMA Shapes ==
  ASSUME TypeOK, insn # Idle
  PROVE  /\ insn.op \in ShiftOps \cup TestOps \cup ScanOps
         /\ insn.count \in Nat /\ insn.src \in BitWord
         /\ insn.lost \in {{}, MayLose(insn.op)}
         /\ Masked \in 0 .. Turn - 1 /\ Masked \in Int
<1>1. insn \in Insn
  BY DEF TypeOK
<1>2. PICK op \in ShiftOps \cup TestOps \cup ScanOps :
        insn \in [op : {op},
                  count : IF op \in ScanOps THEN {0} ELSE Counts,
                  src : IF op \in {"shld", "shrd"} \cup ScanOps THEN BitWord ELSE {Zeros},
                  lost : {{}, MayLose(op)}]
  BY <1>1 DEF Insn
<1>3. insn.op = op /\ insn.lost \in {{}, MayLose(op)}
  BY <1>2
<1>4. insn.count \in Nat
  <2>1. insn.count \in {0} \cup Counts
    BY <1>2
  <2>2. {0} \cup Counts \subseteq Nat
    BY BitWordsAssumption
  <2> HIDE DEF Idle
  <2> QED BY <2>1, <2>2, Zenon
<1>5. insn.src \in BitWord
  BY <1>2 DEF Zeros, BitWord
<1> QED BY <1>3, <1>4, <1>5, MaskedType

(* What process() calls undefined may be anything, the rest is new. *)
FlagNames == {"CF", "OF", "SF", "ZF", "PF"}

(* What process() calls undefined may be anything, the rest is new. *)
LEMMA LeaveGives ==
  ASSUME NEW new \in Flags, insn.lost \subseteq FlagNames, Leave(new)
  PROVE  /\ flag' \in Flags
         /\ "CF" \notin insn.lost => flag'.CF = new.CF
         /\ "OF" \notin insn.lost => flag'.OF = new.OF
         /\ "SF" \notin insn.lost => flag'.SF = new.SF
         /\ "ZF" \notin insn.lost => flag'.ZF = new.ZF
         /\ "PF" \notin insn.lost => flag'.PF = new.PF
<1>1. PICK f \in [insn.lost -> 0 .. 1] :
        flag' = [k \in DOMAIN new |-> IF k \in insn.lost THEN f[k] ELSE new[k]]
  BY DEF Leave
<1>2. DOMAIN new = FlagNames /\ \A k \in FlagNames : new[k] \in 0 .. 1
  BY DEF Flags, FlagNames
<1>3. flag' = [k \in FlagNames |-> IF k \in insn.lost THEN f[k] ELSE new[k]]
  BY <1>1, <1>2
<1>4. \A k \in FlagNames : flag'[k] \in 0 .. 1
  BY <1>1, <1>2, <1>3
<1>5. flag' \in Flags
  BY <1>3, <1>4 DEF Flags, FlagNames
<1> QED BY <1>3, <1>5 DEF FlagNames

(***************************************************************************)
(* Type correctness.                                                       *)
(***************************************************************************)
(* SF, ZF and PF stay bits. *)
LEMMA StatusType ==
  ASSUME TypeOK, NEW c, NEW x \in BitWord, NEW cf \in 0 .. 1, NEW of \in 0 .. 1
  PROVE  Status(c, x, cf, of) \in Flags
<1>1. flag.SF \in 0 .. 1 /\ flag.ZF \in 0 .. 1 /\ flag.PF \in 0 .. 1
  BY DEF TypeOK, Flags
<1>2. Sign(x) \in 0 .. 1 /\ Zero(x) \in 0 .. 1 /\ Parity(x) \in 0 .. 1
  BY WordTypes, Bits
<1> QED BY <1>1, <1>2, SelectIs DEF Status, Flags

(* The parts of the state have their types. *)
LEMMA FlagTypes ==
  ASSUME TypeOK
  PROVE  /\ flag.CF \in 0 .. 1 /\ flag.OF \in 0 .. 1 /\ flag.SF \in 0 .. 1
         /\ flag.ZF \in 0 .. 1 /\ flag.PF \in 0 .. 1
         /\ dst \in BitWord
BY DEF TypeOK, Flags

(* What an instruction leaves undefined are flags. *)
LEMMA LostNames ==
  ASSUME TypeOK, insn # Idle
  PROVE  /\ insn.lost \subseteq FlagNames
         /\ insn.op \in ShiftOps => insn.lost \subseteq {"OF"}
         /\ insn.op \in TestOps => insn.lost \subseteq {"OF", "SF", "PF"}
         /\ insn.op \in ScanOps => insn.lost \subseteq {"CF", "OF", "SF", "PF"}
<1>1. insn.lost \in {{}, MayLose(insn.op)} /\ insn.op \in ShiftOps \cup TestOps \cup ScanOps
  BY Shapes
<1> QED BY <1>1 DEF MayLose, ShiftOps, TestOps, ScanOps, FlagNames

(* What an instruction leaves, whatever the flags are it computes. *)
LEMMA LeavesTypes ==
  ASSUME TypeOK, insn # Idle, insn' = Idle, dst' \in BitWord,
         NEW new \in Flags, Leave(new)
  PROVE  TypeOK'
BY LeaveGives, LostNames DEF TypeOK

(* A toggle of two bits is a bit. *)
LEMMA TogglesType ==
  ASSUME NEW f \in 0 .. 1, NEW c, NEW b
  PROVE  Toggle(f, c, b) \in 0 .. 1
BY Bits DEF Toggle

(* SHL and SAL keep the types. *)
LEMMA ShlType ==
  ASSUME TypeOK, Shl
  PROVE  TypeOK'
<1> DEFINE n == Masked
           result == Left(dst, n)
           of == Select(flag.OF, n # 0, Xor1(Sign(result), Sign(dst)))
           cf == Select(flag.CF, n # 0, At(dst, Width - n))
<1>1. insn # Idle /\ insn' = Idle /\ dst' = result
  BY DEF Shl, Handle
<1>2. PICK o \in IF n > 1 THEN 0 .. 1 ELSE {of} : Leave(Status(n # 0, result, cf, o))
  BY DEF Shl
<1>3. result \in BitWord
  BY <1>1, Shapes, FlagTypes, WordTypes, Bits
<1>4. of \in 0 .. 1 /\ cf \in 0 .. 1
  BY FlagTypes, AtType, Bits, SelectIs
<1> HIDE DEF of, cf, n, result
<1>5. o \in 0 .. 1
  BY <1>2, <1>4
<1>6. Status(n # 0, result, cf, o) \in Flags
  BY <1>3, <1>4, <1>5, StatusType
<1> QED BY <1>1, <1>2, <1>3, <1>6, LeavesTypes

(* SHR keeps the types. *)
LEMMA ShrType ==
  ASSUME TypeOK, Shr
  PROVE  TypeOK'
<1> DEFINE cond == insn.count # 0
           result == Right(dst, Masked)
           cf == Select(flag.CF, cond, dst[0])
           of == Select(flag.OF, cond, Sign(dst))
<1>1. insn # Idle /\ insn' = Idle /\ dst' = result /\ Leave(Status(cond, result, cf, of))
  BY DEF Shr, Handle
<1>2. result \in BitWord
  BY <1>1, Shapes, FlagTypes, WordTypes, Bits
<1>3. cf \in 0 .. 1 /\ of \in 0 .. 1
  <2>1. dst[0] \in 0 .. 1 /\ Sign(dst) \in 0 .. 1
    BY FlagTypes, BitWordsAssumption, WordTypes DEF BitWord, Positions, Sign, Top
  <2> QED BY <2>1, FlagTypes, SelectIs
<1> HIDE DEF cond, result, cf, of
<1>4. Status(cond, result, cf, of) \in Flags
  BY <1>2, <1>3, StatusType
<1> QED BY <1>1, <1>2, <1>4, LeavesTypes

(* SAR keeps the types. *)
LEMMA SarType ==
  ASSUME TypeOK, Sar
  PROVE  TypeOK'
<1> DEFINE cond == insn.count # 0
           top == [i \in Positions |-> IF i = Width - 1 THEN dst[i] ELSE 0]
           result == Or(Right(dst, Masked), top)
           cf == Select(flag.CF, cond, dst[0])
           of == Toggle(flag.OF, cond, flag.OF)
           new == Status(cond, result, cf, of)
<1>1. insn # Idle /\ insn' = Idle /\ dst' = result
  BY DEF Sar, Handle
<1>2. PICK sign \in {0, Sign(result)} :
        Leave([new EXCEPT !.SF = Select(flag.SF, cond, sign)])
  BY DEF Sar
<1>3. result \in BitWord
  <2>1. top \in BitWord
    BY FlagTypes DEF BitWord
  <2>2. Right(dst, Masked) \in BitWord
    BY <1>1, Shapes, FlagTypes, WordTypes, Bits
  <2> HIDE DEF top
  <2> QED BY <2>1, <2>2 , Bits DEF Or, BitWord
<1>4. cf \in 0 .. 1 /\ of \in 0 .. 1
  <2>1. dst[0] \in 0 .. 1
    BY FlagTypes, BitWordsAssumption DEF BitWord, Positions
  <2> QED BY <2>1, FlagTypes, SelectIs, TogglesType
<1> HIDE DEF result, cf, of, cond
<1>5. new \in Flags
  BY <1>3, <1>4, StatusType
<1>6. Select(flag.SF, cond, sign) \in 0 .. 1
  <2>1. Sign(result) \in 0 .. 1
    BY <1>3, BitWordsAssumption DEF BitWord, Positions, Sign, Top
  <2> QED BY <2>1, FlagTypes, SelectIs
<1> HIDE DEF new
<1>7. [new EXCEPT !.SF = Select(flag.SF, cond, sign)] \in Flags
  BY <1>5, <1>6 DEF Flags
<1> QED BY <1>1, <1>2, <1>3, <1>7, LeavesTypes

(* SHLD and SHRD keep the types. *)
LEMMA DoubleType ==
  ASSUME TypeOK, Shld \/ Shrd
  PROVE  TypeOK'
<1> DEFINE n == Masked
           left == Or(Left(dst, n), Right(insn.src, Width - n))
           right == Or(Right(dst, n), Left(insn.src, Width - n))
<1>1. insn # Idle /\ insn' = Idle /\ dst' \in {left, right}
  BY DEF Shld, Shrd, Handle
<1>2. left \in BitWord /\ right \in BitWord
  BY <1>1, Shapes, FlagTypes, Bits, BitWordsAssumption DEF Or, BitWord
<1>3. PICK x \in BitWord, cf \in 0 .. 1, of \in 0 .. 1 : Leave(Status(n # 0, x, cf, of))
  <2>1. Sign(dst) \in 0 .. 1
    BY FlagTypes, BitWordsAssumption DEF BitWord, Positions, Sign, Top
  <2>2. /\ Select(flag.CF, n # 0, At(dst, Width - n)) \in 0 .. 1
        /\ Select(flag.CF, n # 0, At(dst, n - 1)) \in 0 .. 1
        /\ Select(flag.OF, n # 0, Xor1(Sign(left), Sign(dst))) \in 0 .. 1
        /\ Select(flag.OF, n # 0, Sign(dst)) \in 0 .. 1
    <3> HIDE DEF n, left
    <3> QED BY <2>1, FlagTypes, AtType, Bits, SelectIs
  <2> QED BY <1>2, <2>2 DEF Shld, Shrd
<1> HIDE DEF n, left, right
<1>4. Status(n # 0, x, cf, of) \in Flags
  BY StatusType
<1> QED BY <1>1, <1>2, <1>3, <1>4, LeavesTypes

(* ROL and ROR keep the types. *)
LEMMA RotateType ==
  ASSUME TypeOK, Rol \/ Ror
  PROVE  TypeOK'
<1>1. insn # Idle /\ insn' = Idle
  BY DEF Rol, Ror, Handle
<1>2. dst' \in BitWord
  <2>1. insn.count \in Int
    BY <1>1, Shapes
  <2>2. RotateLeft(dst, insn.count) \in BitWord /\ RotateRight(dst, insn.count) \in BitWord
    BY <2>1, FlagTypes, WordTypes, Bits
  <2> QED BY <2>2 DEF Rol, Ror
<1>3. PICK c, b : Leave([flag EXCEPT !.CF = Toggle(flag.CF, c, b)])
  BY DEF Rol, Ror
<1>4. [flag EXCEPT !.CF = Toggle(flag.CF, c, b)] \in Flags
  BY FlagTypes, TogglesType DEF TypeOK, Flags
<1> QED BY <1>1, <1>2, <1>3, <1>4, LeavesTypes

(* RCL and RCR keep the types. *)
LEMMA ThroughCarryType ==
  ASSUME TypeOK, Rcl \/ Rcr
  PROVE  TypeOK'
<1>1. insn # Idle /\ insn' = Idle
  BY DEF Rcl, Rcr, Handle
<1>2. dst' \in BitWord
  BY Bits DEF Rcl, Rcr, Or, BitWord
<1>3. PICK cf \in 0 .. 1, of \in 0 .. 1 : Leave([flag EXCEPT !.CF = cf, !.OF = of])
  <2>1. ASSUME NEW c, NEW b
        PROVE  Toggle(flag.CF, c, b) \in 0 .. 1 /\ Toggle(flag.OF, c, b) \in 0 .. 1
    BY FlagTypes, TogglesType
  <2> QED BY <2>1 DEF Rcl, Rcr
<1>4. [flag EXCEPT !.CF = cf, !.OF = of] \in Flags
  BY DEF TypeOK, Flags
<1> QED BY <1>1, <1>2, <1>3, <1>4, LeavesTypes

(* The bit tests keep the types. *)
LEMMA BitTestType ==
  ASSUME TypeOK, Bt \/ Btc \/ Btr \/ Bts
  PROVE  TypeOK'
<1> DEFINE i == insn.count % Width
<1>1. insn # Idle /\ insn' = Idle
  BY DEF Bt, Btc, Btr, Bts, BitTest, Handle
<1>2. i \in Positions
  BY <1>1, Shapes, BitWordsAssumption, Division DEF Positions
<1>3. PICK b \in {dst[i], 1 - dst[i], 0, 1} : dst' = [dst EXCEPT ![i] = b]
  BY DEF Bt, Btc, Btr, Bts, BitTest
<1>4. Leave([flag EXCEPT !.CF = dst[i]])
  BY DEF Bt, Btc, Btr, Bts, BitTest
<1> HIDE DEF i
<1>5. dst[i] \in 0 .. 1 /\ b \in 0 .. 1
  BY <1>2, FlagTypes DEF BitWord
<1>6. dst' \in BitWord
  BY <1>2, <1>3, <1>5, FlagTypes DEF BitWord
<1>7. [flag EXCEPT !.CF = dst[i]] \in Flags
  BY <1>5 DEF TypeOK, Flags
<1> QED BY <1>1, <1>4, <1>6, <1>7, LeavesTypes

(* The lowest and the highest bit set. *)
LEMMA Extremes ==
  ASSUME NEW S \in SUBSET Positions, S # {}
  PROVE  /\ \E k \in S : \A i \in S : k <= i
         /\ \E k \in S : \A i \in S : k >= i
<1>1. Width - 1 \in Nat /\ S \in SUBSET (0 .. Width - 1) /\ S \in SUBSET Nat
  BY BitWordsAssumption DEF Positions
<1> QED BY <1>1, Smallest, Largest

(* BSF and BSR keep the types. *)
LEMMA BitScanType ==
  ASSUME TypeOK, Bsf \/ Bsr
  PROVE  TypeOK'
<1> DEFINE set == {i \in Positions : insn.src[i] = 1}
           low == CHOOSE k \in set : \A i \in set : k <= i
           high == CHOOSE k \in set : \A i \in set : k >= i
<1>1. insn # Idle /\ insn' = Idle
  BY DEF Bsf, Bsr, BitScan, Handle
<1>2. dst' \in BitWord
  <2>1. CASE set = {}
    <3>1. dst' = Ones
      BY <2>1 DEF Bsf, Bsr, BitScan
    <3> QED BY <3>1, FlagTypes, WordTypes, Bits
  <2>2. CASE set # {}
    <3>1. dst' \in {Number(low), Number(high)}
      BY <2>2 DEF Bsf, Bsr, BitScan
    <3>2. low \in set /\ high \in set
      <4>1. /\ \E k \in set : \A i \in set : k <= i
            /\ \E k \in set : \A i \in set : k >= i
        <5>1. set \in SUBSET Positions
          OBVIOUS
        <5> HIDE DEF set
        <5> QED BY <2>2, <5>1, Extremes
      <4> HIDE DEF set
      <4> QED BY <4>1
    <3>3. low \in Int /\ high \in Int
      BY <3>2, BitWordsAssumption DEF Positions
    <3>4. \A k \in Int : Number(k) \in BitWord
      BY FlagTypes, WordTypes, Bits
    <3> HIDE DEF low, high
    <3> QED BY <3>1, <3>3, <3>4
  <2> QED BY <2>1, <2>2
<1>3. Leave([flag EXCEPT !.ZF = Bit(set = {})])
  BY DEF Bsf, Bsr, BitScan
<1> HIDE DEF set
<1>4. [flag EXCEPT !.ZF = Bit(set = {})] \in Flags
  <2>1. Bit(set = {}) \in 0 .. 1
    BY Bits
  <2> QED BY <2>1 DEF TypeOK, Flags
<1> QED BY <1>1, <1>2, <1>3, <1>4, LeavesTypes

(* The operand stays a word and flags stay bits, for operands of every     *)
(* width: every handler stores what fits (arithmetic.cpp:51-77, 585-739,   *)
(* 843-876, flags.cpp:145-208).                                            *)
THEOREM ShiftTypes == Spec => []TypeOK
<1>1. Init => TypeOK
  BY DEF Init, TypeOK
<1>2. TypeOK /\ [Next]_vars => TypeOK'
  <2> SUFFICES ASSUME TypeOK, [Next]_vars PROVE TypeOK'
    OBVIOUS
  <2>1. CASE Fetch
    BY <2>1 DEF Fetch, TypeOK
  <2>2. CASE Execute
    BY <2>2, ShlType, ShrType, SarType, DoubleType, RotateType, ThroughCarryType, BitTestType,
       BitScanType DEF Execute
  <2>3. CASE UNCHANGED vars
    BY <2>3 DEF vars, TypeOK
  <2> QED BY <2>1, <2>2, <2>3 DEF Next
<1> QED BY <1>1, <1>2, PTL DEF Spec

(***************************************************************************)
(* The processor shifts by one place at a time.  What it ends with is the  *)
(* window of a tape of bits that moves by one place with every step.       *)
(***************************************************************************)

(* Both machines have the same bits. *)
LEMMA NativeBits ==
  /\ Native!Positions = Positions /\ Native!BitWord = BitWord /\ Native!Zeros = Zeros
  /\ Native!ShiftOps = ShiftOps /\ Native!TestOps = TestOps /\ Native!ScanOps = ScanOps
  /\ Native!Flags = Flags /\ Native!Idle = Idle /\ Native!Masked = Masked
  /\ \A p : Native!Bit(p) = Bit(p)
  /\ \A a, b : Native!Xor1(a, b) = Xor1(a, b)
  /\ \A x : Native!Top(x) = Top(x) /\ Native!Number(x) = Number(x)
<1>1. Native!Positions = Positions
  BY DEF Native!Positions, Positions
<1>2. Native!BitWord = BitWord /\ Native!Zeros = Zeros
  BY <1>1 DEF Native!BitWord, BitWord, Native!Zeros, Zeros
<1>3. Native!ShiftOps = ShiftOps /\ Native!TestOps = TestOps /\ Native!ScanOps = ScanOps
  BY DEF Native!ShiftOps, Native!TestOps, Native!ScanOps, ShiftOps, TestOps, ScanOps
<1>4. Native!Flags = Flags /\ Native!Idle = Idle /\ Native!Masked = Masked
  BY DEF Native!Flags, Native!Idle, Native!Masked, Flags, Idle, Masked
<1>5. \A p : Native!Bit(p) = Bit(p)
  BY DEF Native!Bit, Bit
<1>6. \A a, b : Native!Xor1(a, b) = Xor1(a, b)
  BY DEF Native!Xor1, Xor1, Native!Bit, Bit
<1>7. \A x : Native!Top(x) = Top(x)
  BY DEF Native!Top, Top
<1>8. \A x : Native!Number(x) = Number(x)
  BY DEF Native!Number, Number, Native!Place, Place, Native!Positions, Positions
<1> QED BY <1>1, <1>2, <1>3, <1>4, <1>5, <1>6, <1>7, <1>8

(* Whatever takes as many steps from the operands on is what the processor  *)
(* ends with.                                                              *)
Start == [x |-> dst, y |-> insn.src, c |-> flag.CF]

(* What follows the single steps of the processor holds after the last one. *)
LEMMA ClosedForm ==
  ASSUME Native!Amount \in 0 .. Turn, NEW G,
         G[0] = Start,
         \A n \in 1 .. Turn : G[n] = Native!ByOne(insn.op, G[n - 1])
  PROVE  Native!Shifted = G[Native!Amount]
<1> DEFINE After(f) == f = [n \in 0 .. Turn |-> IF n = 0 THEN Start
                                                ELSE Native!ByOne(insn.op, f[n - 1])]
           g == CHOOSE f : After(f)
           h == [n \in 0 .. Turn |-> G[n]]
           S == {n \in 0 .. Turn : g[n] = G[n]}
<1>1. Native!Shifted = g[Native!Amount]
  BY DEF Native!Shifted, Start
<1>2. Turn \in Nat
  BY BitWordsAssumption
<1>3. After(h)
  <2>1. ASSUME NEW n \in 0 .. Turn
        PROVE  h[n] = IF n = 0 THEN Start ELSE Native!ByOne(insn.op, h[n - 1])
    <3>1. n # 0 => n \in 1 .. Turn /\ n - 1 \in 0 .. Turn
      BY <1>2
    <3>2. n # 0 => h[n - 1] = G[n - 1]
      BY <3>1
    <3> QED BY <3>1, <3>2
  <2>2. h = [n \in 0 .. Turn |-> h[n]]
    OBVIOUS
  <2> HIDE DEF h
  <2> QED BY <2>1, <2>2
<1>4. After(g)
  <2> HIDE DEF After, h
  <2> QED BY <1>3
<1>5. g[0] = Start /\ \A n \in 1 .. Turn : g[n] = Native!ByOne(insn.op, g[n - 1])
  <2> HIDE DEF g
  <2> QED BY <1>2, <1>4
<1> HIDE DEF g
<1>6. 0 \in S
  BY <1>2, <1>5
<1>7. ASSUME NEW n \in 0 .. Turn - 1, n \in S
      PROVE  n + 1 \in S
  <2>1. n + 1 \in 1 .. Turn /\ (n + 1) - 1 = n
    BY <1>2
  <2> QED BY <1>5, <1>7, <2>1
<1>8. 0 .. Turn \subseteq S
  <2> HIDE DEF S
  <2> QED BY <1>2, <1>6, <1>7, UpTo
<1> QED BY <1>1, <1>8

(* The amounts of a shift that is executed. *)
LEMMA AmountType ==
  ASSUME TypeOK, insn # Idle
  PROVE  /\ Native!Amount \in 0 .. Turn
         /\ insn.op \notin {"rcl", "rcr"} => Native!Amount = Masked
         /\ insn.op \in {"rcl", "rcr"} =>
              Native!Amount = Masked % (Width + 1) /\ Native!Amount \in 0 .. Width
<1>1. Masked \in 0 .. Turn - 1 /\ Masked \in Int
  BY Shapes
<1>2. Width + 1 \in Nat /\ Width + 1 > 0 /\ Turn \in Nat /\ Turn >= Width
  BY BitWordsAssumption
<1>3. Masked % (Width + 1) \in 0 .. Width
  <2> DEFINE w == Width + 1
  <2>1. w \in Nat /\ w > 0 /\ Width = w - 1
    BY BitWordsAssumption
  <2> HIDE DEF w
  <2>2. Masked % w \in 0 .. w - 1
    BY <1>1, <2>1
  <2> QED BY <2>1, <2>2 DEF w
<1> QED BY <1>1, <1>2, <1>3, NativeBits DEF Native!Amount

(* One step of each kind. *)
LEMMA StepLeft ==
  ASSUME insn.op \in {"shl", "shld", "rol", "rcl"}, NEW s
  PROVE  Native!ByOne(insn.op, s)
           = [x |-> Native!PushLeft(s.x, CASE insn.op = "shl"  -> 0
                                           [] insn.op = "shld" -> Top(s.y)
                                           [] insn.op = "rol"  -> Top(s.x)
                                           [] insn.op = "rcl"  -> s.c),
              y |-> Native!PushLeft(s.y, 0), c |-> Top(s.x)]
BY NativeBits DEF Native!ByOne, Native!InFromRight

(* One step to the right. *)
LEMMA StepRight ==
  ASSUME insn.op \in {"shr", "sar", "shrd", "ror", "rcr"}, NEW s
  PROVE  Native!ByOne(insn.op, s)
           = [x |-> Native!PushRight(s.x, CASE insn.op = "shr"  -> 0
                                            [] insn.op = "sar"  -> Top(s.x)
                                            [] insn.op = "shrd" -> s.y[0]
                                            [] insn.op = "ror"  -> s.x[0]
                                            [] insn.op = "rcr"  -> s.c),
              y |-> Native!PushRight(s.y, 0), c |-> s.x[0]]
BY NativeBits DEF Native!ByOne, Native!InFromLeft

(***************************************************************************)
(* Shifting is looking at a tape from further on: the word at its start,    *)
(* and beyond it the bits that come in.                                    *)
(***************************************************************************)
(* Positions of bits are integers below the width. *)
LEMMA PositionsAre ==
  /\ \A i : i \in Positions <=> i \in Int /\ 0 <= i /\ i < Width
  /\ 0 \in Positions /\ Width - 1 \in Positions /\ Width - 2 \in Positions
  /\ Width \in Int /\ Turn \in Int /\ Width <= Turn /\ Width > 1
BY BitWordsAssumption DEF Positions

(* Steps to the left are a window that moves down a tape. *)
LEMMA LeftTape ==
  ASSUME TypeOK, insn # Idle, insn.op \in {"shl", "shld", "rol", "rcl"},
         NEW L \in [Int -> 0 .. 1],
         \A i \in Positions : L[i] = dst[i],
         \A n \in 1 .. Turn :
           /\ insn.op = "shl" => L[-n] = 0
           /\ insn.op = "shld" => L[-n] = At(insn.src, Width - n)
           /\ insn.op = "rol" => L[-n] = L[Width - n]
           /\ insn.op = "rcl" => L[-n] = IF n = 1 THEN flag.CF ELSE L[Width + 1 - n]
  PROVE  LET n == Native!Amount IN
         /\ Native!Shifted.x = [i \in Positions |-> L[i - n]]
         /\ Native!Shifted.c = IF n = 0 THEN flag.CF ELSE L[Width - n]
<1> DEFINE X(n) == [i \in Positions |-> L[i - n]]
           Y(n) == [i \in Positions |-> At(insn.src, i - n)]
           C(n) == IF n = 0 THEN flag.CF ELSE L[Width - n]
           G == [n \in 0 .. Turn |-> [x |-> X(n), y |-> Y(n), c |-> C(n)]]
<1>1. dst \in BitWord /\ insn.src \in BitWord
  BY Shapes, FlagTypes
<1>2. X(0) = dst
  <2>1. \A i \in Positions : i - 0 = i
    BY PositionsAre
  <2>2. dst = [i \in Positions |-> dst[i]]
    BY <1>1 DEF BitWord
  <2> QED BY <2>1, <2>2
<1>3. Y(0) = insn.src
  <2>1. ASSUME NEW i \in Positions
        PROVE  At(insn.src, i - 0) = insn.src[i]
    <3>1. i - 0 = i
      BY PositionsAre
    <3> QED BY <3>1 DEF At
  <2>2. insn.src = [i \in Positions |-> insn.src[i]]
    BY <1>1 DEF BitWord
  <2> QED BY <2>1, <2>2
<1>4. G[0] = Start
  <2>1. 0 \in 0 .. Turn
    BY PositionsAre
  <2> HIDE DEF X, Y
  <2> QED BY <1>2, <1>3, <2>1 DEF Start
<1>5. ASSUME NEW n \in 1 .. Turn
      PROVE  G[n] = Native!ByOne(insn.op, G[n - 1])
  <2>1. n \in Int /\ n - 1 \in Int /\ n - 1 \in 0 .. Turn /\ n \in 0 .. Turn /\ n # 0
    BY PositionsAre
  <2>2. G[n] = [x |-> X(n), y |-> Y(n), c |-> C(n)]
        /\ G[n - 1] = [x |-> X(n - 1), y |-> Y(n - 1), c |-> C(n - 1)]
    BY <2>1
  <2>3. Top(X(n - 1)) = L[Width - n] /\ Top(Y(n - 1)) = At(insn.src, Width - n)
    <3>1. Width - 1 \in Positions /\ (Width - 1) - (n - 1) = Width - n
      BY <2>1, PositionsAre
    <3> QED BY <3>1 DEF Top
  <2>4. Native!PushLeft(X(n - 1), L[-n]) = X(n)
    <3> SUFFICES ASSUME NEW i \in Positions
                 PROVE  (IF i = 0 THEN L[-n] ELSE X(n - 1)[i - 1]) = L[i - n]
      BY NativeBits DEF Native!PushLeft
    <3>1. i = 0 => -n = i - n
      BY <2>1
    <3>2. i # 0 => i - 1 \in Positions /\ (i - 1) - (n - 1) = i - n
      BY <2>1, PositionsAre
    <3> QED BY <3>1, <3>2
  <2>5. Native!PushLeft(Y(n - 1), 0) = Y(n)
    <3> SUFFICES ASSUME NEW i \in Positions
                 PROVE  (IF i = 0 THEN 0 ELSE Y(n - 1)[i - 1]) = At(insn.src, i - n)
      BY NativeBits DEF Native!PushLeft
    <3>1. i = 0 => i - n \notin Positions
      BY <2>1, PositionsAre
    <3>2. i # 0 => i - 1 \in Positions /\ (i - 1) - (n - 1) = i - n
      BY <2>1, PositionsAre
    <3> QED BY <3>1, <3>2 DEF At
  <2>6. C(n) = L[Width - n] /\ C(n - 1) = IF n = 1 THEN flag.CF ELSE L[Width + 1 - n]
    <3>1. Width - (n - 1) = Width + 1 - n /\ (n - 1 = 0 <=> n = 1)
      BY <2>1, PositionsAre
    <3> QED BY <2>1, <3>1
  <2> HIDE DEF X, Y, C, G
  <2>7. (CASE insn.op = "shl"  -> 0
           [] insn.op = "shld" -> Top(G[n - 1].y)
           [] insn.op = "rol"  -> Top(G[n - 1].x)
           [] insn.op = "rcl"  -> G[n - 1].c) = L[-n]
    BY <2>2, <2>3, <2>6
  <2>8. Native!ByOne(insn.op, G[n - 1])
          = [x |-> Native!PushLeft(G[n - 1].x, L[-n]),
             y |-> Native!PushLeft(G[n - 1].y, 0), c |-> Top(G[n - 1].x)]
    BY <2>7, StepLeft
  <2> QED BY <2>2, <2>3, <2>4, <2>5, <2>6, <2>8
<1>6. Native!Amount \in 0 .. Turn
  BY AmountType
<1>7. Native!Shifted = G[Native!Amount]
  <2> HIDE DEF G
  <2> QED BY <1>4, <1>5, <1>6, ClosedForm
<1> HIDE DEF X, Y, C
<1>8. Native!Shifted.x = X(Native!Amount) /\ Native!Shifted.c = C(Native!Amount)
  BY <1>6, <1>7
<1> QED BY <1>8 DEF X, C

(* Steps to the right are a window that moves up a tape. *)
LEMMA RightTape ==
  ASSUME TypeOK, insn # Idle, insn.op \in {"shr", "sar", "shrd", "ror", "rcr"},
         NEW R \in [Int -> 0 .. 1],
         \A i \in Positions : R[i] = dst[i],
         \A n \in 1 .. Turn :
           /\ insn.op = "shr" => R[Width - 1 + n] = 0
           /\ insn.op = "sar" => R[Width - 1 + n] = R[Width - 2 + n]
           /\ insn.op = "shrd" => R[Width - 1 + n] = At(insn.src, n - 1)
           /\ insn.op = "ror" => R[Width - 1 + n] = R[n - 1]
           /\ insn.op = "rcr" => R[Width - 1 + n] = IF n = 1 THEN flag.CF ELSE R[n - 2]
  PROVE  LET n == Native!Amount IN
         /\ Native!Shifted.x = [i \in Positions |-> R[i + n]]
         /\ Native!Shifted.c = IF n = 0 THEN flag.CF ELSE R[n - 1]
<1> DEFINE X(n) == [i \in Positions |-> R[i + n]]
           Y(n) == [i \in Positions |-> At(insn.src, i + n)]
           C(n) == IF n = 0 THEN flag.CF ELSE R[n - 1]
           G == [n \in 0 .. Turn |-> [x |-> X(n), y |-> Y(n), c |-> C(n)]]
<1>1. dst \in BitWord /\ insn.src \in BitWord
  BY Shapes, FlagTypes
<1>2. X(0) = dst
  <2>1. \A i \in Positions : i + 0 = i
    BY PositionsAre
  <2>2. dst = [i \in Positions |-> dst[i]]
    BY <1>1 DEF BitWord
  <2> QED BY <2>1, <2>2
<1>3. Y(0) = insn.src
  <2>1. \A i \in Positions : i + 0 = i /\ At(insn.src, i) = insn.src[i]
    BY PositionsAre DEF At
  <2>2. insn.src = [i \in Positions |-> insn.src[i]]
    BY <1>1 DEF BitWord
  <2> QED BY <2>1, <2>2
<1>4. G[0] = Start
  <2>1. 0 \in 0 .. Turn
    BY PositionsAre
  <2> HIDE DEF X, Y
  <2> QED BY <1>2, <1>3, <2>1 DEF Start
<1>5. ASSUME NEW n \in 1 .. Turn
      PROVE  G[n] = Native!ByOne(insn.op, G[n - 1])
  <2>1. n \in Int /\ n - 1 \in Int /\ n - 1 \in 0 .. Turn /\ n \in 0 .. Turn /\ n # 0
    BY PositionsAre
  <2>2. G[n] = [x |-> X(n), y |-> Y(n), c |-> C(n)]
        /\ G[n - 1] = [x |-> X(n - 1), y |-> Y(n - 1), c |-> C(n - 1)]
    BY <2>1
  <2>3. /\ X(n - 1)[0] = R[n - 1] /\ Y(n - 1)[0] = At(insn.src, n - 1)
        /\ Top(X(n - 1)) = R[Width - 2 + n]
    <3>1. /\ Width - 1 \in Positions /\ (Width - 1) + (n - 1) = Width - 2 + n
          /\ 0 \in Positions /\ 0 + (n - 1) = n - 1
      BY <2>1, PositionsAre
    <3> QED BY <3>1 DEF Top
  <2>4. Native!PushRight(X(n - 1), R[Width - 1 + n]) = X(n)
    <3> SUFFICES ASSUME NEW i \in Positions
                 PROVE  (IF i = Width - 1 THEN R[Width - 1 + n] ELSE X(n - 1)[i + 1]) = R[i + n]
      BY NativeBits DEF Native!PushRight
    <3>1. i # Width - 1 => i + 1 \in Positions /\ (i + 1) + (n - 1) = i + n
      BY <2>1, PositionsAre
    <3> QED BY <3>1
  <2>5. Native!PushRight(Y(n - 1), 0) = Y(n)
    <3> SUFFICES ASSUME NEW i \in Positions
                 PROVE  (IF i = Width - 1 THEN 0 ELSE Y(n - 1)[i + 1]) = At(insn.src, i + n)
      BY NativeBits DEF Native!PushRight
    <3>1. i = Width - 1 => i + n \notin Positions
      BY <2>1, PositionsAre
    <3>2. i # Width - 1 => i + 1 \in Positions /\ (i + 1) + (n - 1) = i + n
      BY <2>1, PositionsAre
    <3> QED BY <3>1, <3>2 DEF At
  <2>6. C(n) = R[n - 1] /\ C(n - 1) = IF n = 1 THEN flag.CF ELSE R[n - 2]
    <3>1. (n - 1) - 1 = n - 2 /\ (n - 1 = 0 <=> n = 1)
      BY <2>1
    <3> QED BY <2>1, <3>1
  <2> HIDE DEF X, Y, C, G
  <2>7. (CASE insn.op = "shr"  -> 0
           [] insn.op = "sar"  -> Top(G[n - 1].x)
           [] insn.op = "shrd" -> G[n - 1].y[0]
           [] insn.op = "ror"  -> G[n - 1].x[0]
           [] insn.op = "rcr"  -> G[n - 1].c) = R[Width - 1 + n]
    BY <2>2, <2>3, <2>6
  <2>8. Native!ByOne(insn.op, G[n - 1])
          = [x |-> Native!PushRight(G[n - 1].x, R[Width - 1 + n]),
             y |-> Native!PushRight(G[n - 1].y, 0), c |-> G[n - 1].x[0]]
    BY <2>7, StepRight
  <2> QED BY <2>2, <2>3, <2>4, <2>5, <2>6, <2>8
<1>6. Native!Amount \in 0 .. Turn
  BY AmountType
<1>7. Native!Shifted = G[Native!Amount]
  <2> HIDE DEF G
  <2> QED BY <1>4, <1>5, <1>6, ClosedForm
<1> HIDE DEF X, Y, C
<1>8. Native!Shifted.x = X(Native!Amount) /\ Native!Shifted.c = C(Native!Amount)
  BY <1>6, <1>7
<1> QED BY <1>8 DEF X, C

(***************************************************************************)
(* The result and the last bit out of each shift and rotate by its amount. *)
(***************************************************************************)

(* Positions of a word, and those outside it. *)
LEMMA InWord ==
  ASSUME NEW x \in BitWord
  PROVE  /\ \A i \in Positions : At(x, i) = x[i] /\ x[i] \in 0 .. 1
         /\ \A i : i \notin Positions => At(x, i) = 0
BY DEF At, BitWord

(* SHL: zeros come in from below. *)
LEMMA ShlForm ==
  ASSUME TypeOK, insn # Idle, insn.op = "shl"
  PROVE  /\ Native!Shifted.x = Left(dst, Masked)
         /\ Native!Shifted.c = IF Masked = 0 THEN flag.CF ELSE At(dst, Width - Masked)
<1> DEFINE L == [j \in Int |-> At(dst, j)]
           n == Masked
<1>1. dst \in BitWord
  BY FlagTypes
<1>2. L \in [Int -> 0 .. 1] /\ \A i \in Positions : L[i] = dst[i]
  BY <1>1, AtType, InWord, PositionsAre
<1>3. \A k \in 1 .. Turn : L[-k] = 0
  <2> SUFFICES ASSUME NEW k \in 1 .. Turn PROVE At(dst, -k) = 0
    OBVIOUS
  <2>1. -k \notin Positions
    BY PositionsAre
  <2> QED BY <1>1, <2>1, InWord
<1>4. n = Native!Amount /\ n \in Nat /\ n \in Int
  BY AmountType, Shapes
<1> HIDE DEF n, L
<1>5. /\ Native!Shifted.x = [i \in Positions |-> L[i - n]]
      /\ Native!Shifted.c = IF n = 0 THEN flag.CF ELSE L[Width - n]
  BY <1>2, <1>3, <1>4, LeftTape
<1>6. Left(dst, n) = [i \in Positions |-> L[i - n]]
  BY <1>4, PositionsAre DEF Left, L
<1>7. L[Width - n] = At(dst, Width - n)
  BY <1>4, PositionsAre DEF L
<1> QED BY <1>5, <1>6, <1>7 DEF n

(* SHLD: the source comes in from below. *)
LEMMA ShldForm ==
  ASSUME TypeOK, insn # Idle, insn.op = "shld", Masked <= Width
  PROVE  /\ Native!Shifted.x = Or(Left(dst, Masked), Right(insn.src, Width - Masked))
         /\ Native!Shifted.c = IF Masked = 0 THEN flag.CF ELSE At(dst, Width - Masked)
<1> DEFINE L == [j \in Int |-> IF j < 0 THEN At(insn.src, Width + j) ELSE At(dst, j)]
           n == Masked
<1>1. dst \in BitWord /\ insn.src \in BitWord
  BY FlagTypes, Shapes
<1>2. L \in [Int -> 0 .. 1] /\ \A i \in Positions : L[i] = dst[i]
  BY <1>1, AtType, InWord, PositionsAre
<1>3. \A k \in 1 .. Turn : L[-k] = At(insn.src, Width - k)
  <2> SUFFICES ASSUME NEW k \in 1 .. Turn PROVE L[-k] = At(insn.src, Width - k)
    OBVIOUS
  <2>1. -k < 0 /\ -k \in Int /\ Width + (-k) = Width - k
    BY PositionsAre
  <2> QED BY <2>1
<1>4. n = Native!Amount /\ n \in Nat /\ n \in Int /\ n <= Width
  BY AmountType, Shapes
<1> HIDE DEF n, L
<1>5. /\ Native!Shifted.x = [i \in Positions |-> L[i - n]]
      /\ Native!Shifted.c = IF n = 0 THEN flag.CF ELSE L[Width - n]
  BY <1>2, <1>3, <1>4, LeftTape
<1>6. Or(Left(dst, n), Right(insn.src, Width - n)) = [i \in Positions |-> L[i - n]]
  <2> SUFFICES ASSUME NEW i \in Positions
               PROVE  Bit(Left(dst, n)[i] = 1 \/ Right(insn.src, Width - n)[i] = 1) = L[i - n]
    BY DEF Or
  <2>1. Left(dst, n)[i] = At(dst, i - n)
    BY <1>4 DEF Left
  <2>2. Right(insn.src, Width - n)[i] = At(insn.src, i + (Width - n))
    BY <1>4, PositionsAre DEF Right
  <2>3. i - n \in Int /\ i + (Width - n) = Width + (i - n)
    BY <1>4, PositionsAre
  <2>4. CASE i - n < 0
    <3>1. At(dst, i - n) = 0
      BY <1>1, <2>4, InWord, PositionsAre
    <3>2. L[i - n] = At(insn.src, Width + (i - n))
      BY <2>3, <2>4 DEF L
    <3>3. L[i - n] \in 0 .. 1
      BY <1>2, <2>3
    <3> QED BY <2>1, <2>2, <2>3, <3>1, <3>2, <3>3 DEF Bit
  <2>5. CASE ~(i - n < 0)
    <3>1. Width + (i - n) \notin Positions
      BY <1>4, <2>3, <2>5, PositionsAre
    <3>2. At(insn.src, Width + (i - n)) = 0
      BY <1>1, <3>1, InWord
    <3>3. L[i - n] = At(dst, i - n)
      BY <2>3, <2>5 DEF L
    <3>4. L[i - n] \in 0 .. 1
      BY <1>2, <2>3
    <3> QED BY <2>1, <2>2, <2>3, <3>2, <3>3, <3>4 DEF Bit
  <2> QED BY <2>4, <2>5
<1>7. L[Width - n] = At(dst, Width - n)
  BY <1>4, PositionsAre DEF L
<1> QED BY <1>5, <1>6, <1>7 DEF n

(* SHR: zeros come in from above. *)
LEMMA ShrForm ==
  ASSUME TypeOK, insn # Idle, insn.op = "shr"
  PROVE  /\ Native!Shifted.x = Right(dst, Masked)
         /\ Native!Shifted.c = IF Masked = 0 THEN flag.CF ELSE At(dst, Masked - 1)
<1> DEFINE R == [j \in Int |-> At(dst, j)]
           n == Masked
<1>1. dst \in BitWord
  BY FlagTypes
<1>2. R \in [Int -> 0 .. 1] /\ \A i \in Positions : R[i] = dst[i]
  BY <1>1, AtType, InWord, PositionsAre
<1>3. \A k \in 1 .. Turn : R[Width - 1 + k] = 0
  <2> SUFFICES ASSUME NEW k \in 1 .. Turn PROVE R[Width - 1 + k] = 0
    OBVIOUS
  <2>1. Width - 1 + k \notin Positions /\ Width - 1 + k \in Int
    BY PositionsAre
  <2> QED BY <1>1, <2>1, InWord
<1>4. n = Native!Amount /\ n \in Nat /\ n \in Int
  BY AmountType, Shapes
<1> HIDE DEF n, R
<1>5. /\ Native!Shifted.x = [i \in Positions |-> R[i + n]]
      /\ Native!Shifted.c = IF n = 0 THEN flag.CF ELSE R[n - 1]
  BY <1>2, <1>3, <1>4, RightTape
<1>6. Right(dst, n) = [i \in Positions |-> R[i + n]]
  BY <1>4, PositionsAre DEF Right, R
<1>7. R[n - 1] = At(dst, n - 1)
  BY <1>4 DEF R
<1> QED BY <1>5, <1>6, <1>7 DEF n

(* SAR: copies of the sign come in from above. *)
LEMMA SarForm ==
  ASSUME TypeOK, insn # Idle, insn.op = "sar"
  PROVE  /\ Native!Shifted.x = [i \in Positions |-> IF i + Masked < Width THEN dst[i + Masked]
                                                                        ELSE Top(dst)]
         /\ Native!Shifted.c = IF Masked = 0 THEN flag.CF
                               ELSE IF Masked - 1 < Width THEN dst[Masked - 1] ELSE Top(dst)
<1> DEFINE R == [j \in Int |-> IF j < Width THEN At(dst, j) ELSE Top(dst)]
           n == Masked
<1>1. dst \in BitWord /\ Top(dst) \in 0 .. 1
  BY FlagTypes, PositionsAre, InWord DEF Top
<1>2. R \in [Int -> 0 .. 1] /\ \A i \in Positions : R[i] = dst[i]
  BY <1>1, AtType, InWord, PositionsAre
<1>3. \A k \in 1 .. Turn : R[Width - 1 + k] = R[Width - 2 + k]
  <2> SUFFICES ASSUME NEW k \in 1 .. Turn PROVE R[Width - 1 + k] = R[Width - 2 + k]
    OBVIOUS
  <2>1. R[Width - 1 + k] = Top(dst)
    BY PositionsAre
  <2>2. CASE k = 1
    <3> HIDE DEF R
    <3>1. R[Width - 1] = dst[Width - 1] /\ Width - 2 + k = Width - 1
      BY <1>2, <2>2, PositionsAre
    <3> QED BY <2>1, <3>1 DEF Top
  <2>3. CASE k # 1
    BY <2>1, <2>3, PositionsAre
  <2> QED BY <2>2, <2>3
<1>4. n = Native!Amount /\ n \in Nat /\ n \in Int
  BY AmountType, Shapes
<1> HIDE DEF n, R
<1>5. /\ Native!Shifted.x = [i \in Positions |-> R[i + n]]
      /\ Native!Shifted.c = IF n = 0 THEN flag.CF ELSE R[n - 1]
  BY <1>2, <1>3, <1>4, RightTape
<1>6. \A j \in Nat : R[j] = IF j < Width THEN dst[j] ELSE Top(dst)
  BY <1>1, InWord, PositionsAre DEF R
<1>7. \A i \in Positions : i + n \in Nat
  BY <1>4, PositionsAre
<1>8. n # 0 => n - 1 \in Nat
  BY <1>4
<1> QED BY <1>5, <1>6, <1>7, <1>8 DEF n

(* SHRD: the source comes in from above. *)
LEMMA ShrdForm ==
  ASSUME TypeOK, insn # Idle, insn.op = "shrd", Masked <= Width
  PROVE  /\ Native!Shifted.x = Or(Right(dst, Masked), Left(insn.src, Width - Masked))
         /\ Native!Shifted.c = IF Masked = 0 THEN flag.CF ELSE At(dst, Masked - 1)
<1> DEFINE R == [j \in Int |-> IF j < Width THEN At(dst, j) ELSE At(insn.src, j - Width)]
           n == Masked
<1>1. dst \in BitWord /\ insn.src \in BitWord
  BY FlagTypes, Shapes
<1>2. R \in [Int -> 0 .. 1] /\ \A i \in Positions : R[i] = dst[i]
  BY <1>1, AtType, InWord, PositionsAre
<1>3. \A k \in 1 .. Turn : R[Width - 1 + k] = At(insn.src, k - 1)
  <2> SUFFICES ASSUME NEW k \in 1 .. Turn PROVE R[Width - 1 + k] = At(insn.src, k - 1)
    OBVIOUS
  <2>1. ~(Width - 1 + k < Width) /\ Width - 1 + k \in Int /\ (Width - 1 + k) - Width = k - 1
    BY PositionsAre
  <2> QED BY <2>1
<1>4. n = Native!Amount /\ n \in Nat /\ n \in Int /\ n <= Width
  BY AmountType, Shapes
<1> HIDE DEF n, R
<1>5. /\ Native!Shifted.x = [i \in Positions |-> R[i + n]]
      /\ Native!Shifted.c = IF n = 0 THEN flag.CF ELSE R[n - 1]
  BY <1>2, <1>3, <1>4, RightTape
<1>6. Or(Right(dst, n), Left(insn.src, Width - n)) = [i \in Positions |-> R[i + n]]
  <2> SUFFICES ASSUME NEW i \in Positions
               PROVE  Bit(Right(dst, n)[i] = 1 \/ Left(insn.src, Width - n)[i] = 1) = R[i + n]
    BY DEF Or
  <2>1. Right(dst, n)[i] = At(dst, i + n)
    BY <1>4 DEF Right
  <2>2. Left(insn.src, Width - n)[i] = At(insn.src, i - (Width - n))
    BY <1>4, PositionsAre DEF Left
  <2>3. i + n \in Int /\ i - (Width - n) = (i + n) - Width /\ R[i + n] \in 0 .. 1
    BY <1>2, <1>4, PositionsAre
  <2>4. CASE i + n < Width
    <3>1. (i + n) - Width \notin Positions
      BY <2>3, <2>4, PositionsAre
    <3>2. At(insn.src, (i + n) - Width) = 0
      BY <1>1, <3>1, InWord
    <3>3. R[i + n] = At(dst, i + n)
      BY <2>3, <2>4 DEF R
    <3> QED BY <2>1, <2>2, <2>3, <3>2, <3>3 DEF Bit
  <2>5. CASE ~(i + n < Width)
    <3>1. At(dst, i + n) = 0
      BY <1>1, <2>5, InWord, PositionsAre
    <3>2. R[i + n] = At(insn.src, (i + n) - Width)
      BY <2>3, <2>5 DEF R
    <3> QED BY <2>1, <2>2, <2>3, <3>1, <3>2 DEF Bit
  <2> QED BY <2>4, <2>5
<1>7. n # 0 => R[n - 1] = At(dst, n - 1)
  BY <1>4, PositionsAre DEF R
<1> QED BY <1>5, <1>6, <1>7 DEF n

(* Rotates go round in the operand: whole turns of it change nothing. *)
LEMMA WholeTurns ==
  ASSUME insn.count \in Nat, NEW i \in Int
  PROVE  /\ (i - Masked) % Width = (i - insn.count) % Width
         /\ (i + Masked) % Width = (i + insn.count) % Width
         /\ (i + Width) % Width = i % Width
<1> DEFINE w == Width
           t == Turn \div Width
           q == insn.count \div Turn
           n == Masked
           c == insn.count
           k == t * q
<1>1. w \in Nat /\ w > 0 /\ Turn \in Nat /\ Turn > 0 /\ Turn % w = 0
  BY BitWordsAssumption
<1>2. t \in Int /\ Turn = w * t
  <2>1. t \in Int /\ Turn = w * t + (Turn % w) /\ w * t \in Int
    BY <1>1, Division
  <2> HIDE DEF t, w
  <2> QED BY <1>1, <2>1
<1>3. q \in Int /\ n \in Int /\ c = Turn * q + n /\ c \in Int
  BY <1>1, Division DEF Masked
<1> HIDE DEF w, t, q, n, c, k
<1>4. k \in Int /\ Turn * q = w * k
  BY <1>1, <1>2, <1>3 DEF k
<1>5. w * k \in Int /\ c = w * k + n
  BY <1>1, <1>3, <1>4
<1> DEFINE a == i - c
           b == i + n
<1>6. \A x \in Int : (x + w * k) % w = x % w
  BY <1>1, <1>4, PlusMultiple
<1>7. a \in Int /\ b \in Int
  BY <1>3
<1>8. (a + w * k) % w = a % w /\ (b + w * k) % w = b % w
  <2> HIDE DEF a, b
  <2> QED BY <1>6, <1>7
<1>9. (i - c) % w = (i - n) % w
  <2>1. ((i - c) + w * k) % w = (i - c) % w
    BY <1>8
  <2>2. (i - c) + w * k = i - n
    BY <1>3, <1>5
  <2> QED BY <2>1, <2>2
<1>10. (i + c) % w = (i + n) % w
  <2>1. ((i + n) + w * k) % w = (i + n) % w
    BY <1>8
  <2>2. (i + n) + w * k = i + c
    BY <1>3, <1>5
  <2> QED BY <2>1, <2>2
<1>11. (i + w) % w = i % w
  <2> DEFINE one == 1
  <2>1. one \in Int /\ w * one = w
    BY <1>1
  <2> HIDE DEF one
  <2>2. (i + w * one) % w = i % w
    BY <1>1, <2>1, PlusMultiple
  <2> QED BY <2>1, <2>2
<1> QED BY <1>9, <1>10, <1>11 DEF w, n, c

(* ROL: the operand comes in again from below. *)
LEMMA RolForm ==
  ASSUME TypeOK, insn # Idle, insn.op = "rol"
  PROVE  /\ Native!Shifted.x = RotateLeft(dst, insn.count)
         /\ Native!Shifted.c = IF Masked = 0 THEN flag.CF ELSE RotateLeft(dst, insn.count)[0]
<1> DEFINE L == [j \in Int |-> dst[j % Width]]
           n == Masked
<1>1. dst \in BitWord /\ insn.count \in Nat
  BY FlagTypes, Shapes
<1>2. \A j \in Int : j % Width \in Positions
  BY BitWordsAssumption, Division DEF Positions
<1>3. \A i \in Positions : i % Width = i
  BY BitWordsAssumption DEF Positions
<1>4. L \in [Int -> 0 .. 1] /\ \A i \in Positions : L[i] = dst[i]
  <2>1. \A j \in Int : dst[j % Width] \in 0 .. 1
    BY <1>1, <1>2, InWord
  <2> QED BY <1>3, <2>1, PositionsAre
<1>5. \A k \in 1 .. Turn : L[-k] = L[Width - k]
  <2> SUFFICES ASSUME NEW k \in 1 .. Turn PROVE L[-k] = L[Width - k]
    OBVIOUS
  <2>1. -k \in Int /\ -k + Width = Width - k /\ Width - k \in Int
    BY PositionsAre
  <2>2. (-k + Width) % Width = (-k) % Width
    BY <1>1, <2>1, WholeTurns
  <2> QED BY <2>1, <2>2
<1>6. n = Native!Amount /\ n \in Int
  BY AmountType, Shapes
<1> HIDE DEF n, L
<1>7. /\ Native!Shifted.x = [i \in Positions |-> L[i - n]]
      /\ Native!Shifted.c = IF n = 0 THEN flag.CF ELSE L[Width - n]
  BY <1>4, <1>5, <1>6, LeftTape
<1>8. ASSUME NEW i \in Positions
      PROVE  L[i - n] = dst[(i - insn.count) % Width]
  <2>1. i \in Int /\ i - n \in Int
    BY <1>6, PositionsAre
  <2>2. (i - n) % Width = (i - insn.count) % Width
    BY <1>1, <2>1, WholeTurns DEF n
  <2> QED BY <2>1, <2>2 DEF L
<1>9. L[Width - n] = RotateLeft(dst, insn.count)[0]
  <2>1. 0 \in Positions /\ 0 - n \in Int /\ (0 - n) + Width = Width - n /\ Width - n \in Int
    BY <1>6, PositionsAre
  <2>2. ((0 - n) + Width) % Width = (0 - n) % Width
    BY <1>1, <2>1, WholeTurns
  <2>3. L[Width - n] = L[0 - n]
    BY <2>1, <2>2 DEF L
  <2> QED BY <1>8, <2>1, <2>3 DEF RotateLeft
<1> QED BY <1>7, <1>8, <1>9 DEF RotateLeft, n

(* ROR: the operand comes in again from above. *)
LEMMA RorForm ==
  ASSUME TypeOK, insn # Idle, insn.op = "ror"
  PROVE  /\ Native!Shifted.x = RotateRight(dst, insn.count)
         /\ Native!Shifted.c = IF Masked = 0 THEN flag.CF
                               ELSE Sign(RotateRight(dst, insn.count))
<1> DEFINE R == [j \in Int |-> dst[j % Width]]
           n == Masked
<1>1. dst \in BitWord /\ insn.count \in Nat
  BY FlagTypes, Shapes
<1>2. \A j \in Int : j % Width \in Positions
  BY BitWordsAssumption, Division DEF Positions
<1>3. \A i \in Positions : i % Width = i
  BY BitWordsAssumption DEF Positions
<1>4. R \in [Int -> 0 .. 1] /\ \A i \in Positions : R[i] = dst[i]
  <2>1. \A j \in Int : dst[j % Width] \in 0 .. 1
    BY <1>1, <1>2, InWord
  <2> QED BY <1>3, <2>1, PositionsAre
<1>5. \A j \in Int : R[j + Width] = R[j]
  <2> SUFFICES ASSUME NEW j \in Int PROVE R[j + Width] = R[j]
    OBVIOUS
  <2>1. (j + Width) % Width = j % Width
    BY <1>1, WholeTurns
  <2>2. j + Width \in Int
    BY PositionsAre
  <2> QED BY <2>1, <2>2
<1>6. n = Native!Amount /\ n \in Int
  BY AmountType, Shapes
<1> HIDE DEF n, R
<1>7. \A k \in 1 .. Turn : R[Width - 1 + k] = R[k - 1]
  <2> SUFFICES ASSUME NEW k \in 1 .. Turn PROVE R[Width - 1 + k] = R[k - 1]
    OBVIOUS
  <2>1. k - 1 \in Int /\ (k - 1) + Width = Width - 1 + k
    BY PositionsAre
  <2> QED BY <1>5, <2>1
<1>8. /\ Native!Shifted.x = [i \in Positions |-> R[i + n]]
      /\ Native!Shifted.c = IF n = 0 THEN flag.CF ELSE R[n - 1]
  BY <1>4, <1>6, <1>7, RightTape
<1>9. ASSUME NEW i \in Positions
      PROVE  R[i + n] = dst[(i + insn.count) % Width]
  <2>1. i \in Int /\ i + n \in Int
    BY <1>6, PositionsAre
  <2>2. (i + n) % Width = (i + insn.count) % Width
    BY <1>1, <2>1, WholeTurns DEF n
  <2> QED BY <2>1, <2>2 DEF R
<1>10. R[n - 1] = Sign(RotateRight(dst, insn.count))
  <2>1. Width - 1 \in Positions /\ n - 1 \in Int /\ (n - 1) + Width = (Width - 1) + n
    BY <1>6, PositionsAre
  <2>2. R[n - 1] = R[(Width - 1) + n]
    BY <1>5, <2>1
  <2> QED BY <1>9, <2>1, <2>2 DEF RotateRight, Sign, Top
<1> QED BY <1>8, <1>9, <1>10 DEF RotateRight, n

(* Rotates through the carry go round in a ring of one bit more. *)
Ring == [j \in Int |-> IF j % (Width + 1) = Width THEN flag.CF ELSE dst[j % (Width + 1)]]

(* The ring is the operand with the carry above it, over and over. *)
LEMMA RingIs ==
  ASSUME TypeOK
  PROVE  /\ Ring \in [Int -> 0 .. 1]
         /\ \A j \in Int : Ring[j + (Width + 1)] = Ring[j]
         /\ \A j \in Positions : Ring[j] = dst[j]
         /\ Ring[Width] = flag.CF
<1> DEFINE w == Width + 1
<1>1. w \in Nat /\ w > 0 /\ Width = w - 1 /\ Width \in Int
  BY BitWordsAssumption
<1>2. dst \in BitWord /\ flag.CF \in 0 .. 1
  BY FlagTypes
<1>3. \A i : i \in Positions <=> i \in 0 .. w - 2
  BY <1>1, PositionsAre
<1> HIDE DEF w
<1>4. \A j \in Int : j % w \in 0 .. w - 1
  BY <1>1, Division
<1>5. Ring = [j \in Int |-> IF j % w = Width THEN flag.CF ELSE dst[j % w]]
  BY DEF Ring, w
<1>6. Ring \in [Int -> 0 .. 1]
  <2> SUFFICES ASSUME NEW j \in Int, j % w # Width PROVE dst[j % w] \in 0 .. 1
    BY <1>2, <1>5
  <2>1. j % w \in 0 .. w - 2
    BY <1>1, <1>4
  <2>2. j % w \in Positions
    BY <1>3, <2>1
  <2> QED BY <1>2, <2>2, InWord
<1>7. ASSUME NEW j \in Int
      PROVE  Ring[j + w] = Ring[j]
  <2> DEFINE one == 1
  <2>1. one \in Int /\ w * one = w
    BY <1>1
  <2> HIDE DEF one
  <2>2. (j + w * one) % w = j % w
    BY <1>1, <2>1, PlusMultiple
  <2>3. (j + w) % w = j % w /\ j + w \in Int
    BY <1>1, <2>1, <2>2
  <2> QED BY <1>5, <2>3
<1>8. \A j \in 0 .. w - 1 : j % w = j
  BY <1>1
<1>9. \A j \in Positions : Ring[j] = dst[j]
  <2> SUFFICES ASSUME NEW j \in Positions PROVE Ring[j] = dst[j]
    OBVIOUS
  <2>1. j \in 0 .. w - 1 /\ j # Width /\ j \in Int
    BY <1>1, <1>3
  <2> QED BY <1>5, <1>8, <2>1
<1>10. Ring[Width] = flag.CF
  <2>1. Width \in 0 .. w - 1
    BY <1>1
  <2> QED BY <1>1, <1>5, <1>8, <2>1
<1> QED BY <1>6, <1>7, <1>9, <1>10 DEF w

(* RCL: the ring comes in from below. *)
LEMMA RclForm ==
  ASSUME TypeOK, insn # Idle, insn.op = "rcl", Masked <= Width + 1
  PROVE  /\ Native!Shifted.x = Or(Or(Left(dst, Masked), Right(dst, Width - Masked + 1)),
                                 Left(Only(flag.CF), Masked - 1))
         /\ Masked = 0 => Native!Shifted.c = flag.CF
<1> DEFINE n == Masked
           a == Native!Amount
           only == Only(flag.CF)
           result == Or(Or(Left(dst, n), Right(dst, Width - n + 1)), Left(only, n - 1))
<1>1. dst \in BitWord /\ only \in BitWord /\ flag.CF \in 0 .. 1
  BY FlagTypes, WordTypes, Bits
<1>2. \A k \in 1 .. Turn : Ring[-k] = IF k = 1 THEN flag.CF ELSE Ring[Width + 1 - k]
  <2> SUFFICES ASSUME NEW k \in 1 .. Turn
               PROVE  Ring[-k] = IF k = 1 THEN flag.CF ELSE Ring[Width + 1 - k]
    OBVIOUS
  <2>1. -k \in Int /\ -k + (Width + 1) = Width + 1 - k /\ (k = 1 => Width + 1 - k = Width)
    BY PositionsAre
  <2> QED BY <2>1, RingIs
<1>3. n \in Nat /\ n \in Int /\ n <= Width + 1
      /\ a = (IF n = Width + 1 THEN 0 ELSE n)
  <2>1. n \in Nat /\ n \in Int /\ a = n % (Width + 1)
    BY AmountType, Shapes
  <2> HIDE DEF n
  <2>2. n <= Width + 1
    BY DEF n
  <2> DEFINE w == Width + 1
  <2>3. w \in Nat /\ w > 0
    BY BitWordsAssumption
  <2> HIDE DEF w
  <2>4. n <= w => n % w = IF n = w THEN 0 ELSE n
    BY <2>1, <2>3
  <2> QED BY <2>1, <2>2, <2>4 DEF w
<1>4. \A i \in Positions : Ring[i] = dst[i]
  BY RingIs
<1> HIDE DEF n, a
<1>5. /\ Native!Shifted.x = [i \in Positions |-> Ring[i - a]]
      /\ Native!Shifted.c = IF a = 0 THEN flag.CF ELSE Ring[Width - a]
  BY <1>2, <1>4, RingIs, LeftTape DEF a
<1>6. ASSUME NEW i \in Positions
      PROVE  result[i] = Ring[i - a]
  <2>1. Left(dst, n)[i] = At(dst, i - n)
    BY <1>3 DEF Left
  <2>2. Right(dst, Width - n + 1)[i] = At(dst, i + (Width - n + 1))
    BY <1>3, PositionsAre DEF Right
  <2>3. Left(only, n - 1)[i] = IF n > 0 /\ i = n - 1 THEN flag.CF ELSE 0
    <3>1. CASE n = 0
      BY <3>1 DEF Left
    <3>2. CASE n # 0
      <4>1. Left(only, n - 1)[i] = At(only, i - (n - 1))
        BY <1>3, <3>2 DEF Left
      <4>2. At(only, i - (n - 1)) = IF i - (n - 1) = 0 THEN flag.CF ELSE 0
        BY PositionsAre DEF At, Only
      <4> QED BY <1>3, <3>2, <4>1, <4>2, PositionsAre
    <3> QED BY <3>1, <3>2
  <2>4. result[i] = Bit(Bit(At(dst, i - n) = 1 \/ At(dst, i + (Width - n + 1)) = 1) = 1
                        \/ Left(only, n - 1)[i] = 1)
    BY <2>1, <2>2 DEF Or
  <2> HIDE DEF result, only
  <2>5. i - a \in Int /\ Ring[i - a] \in 0 .. 1
    BY <1>3, RingIs, PositionsAre
  <2>6. CASE n = Width + 1
    <3>1. i - n \notin Positions /\ i + (Width - n + 1) = i /\ i # n - 1 /\ i - a = i
      BY <1>3, <2>6, PositionsAre
    <3>2. At(dst, i - n) = 0 /\ At(dst, i + (Width - n + 1)) = dst[i]
      BY <1>1, <3>1, InWord
    <3>3. Ring[i - a] = dst[i]
      BY <1>4, <3>1
    <3> QED BY <2>3, <2>4, <2>5, <3>1, <3>2, <3>3 DEF Bit
  <2>7. CASE n # Width + 1 /\ i - n >= 0
    <3>1. i - n \in Positions /\ i + (Width - n + 1) \notin Positions /\ i # n - 1 /\ a = n
      BY <1>3, <2>7, PositionsAre
    <3>2. At(dst, i - n) = dst[i - n] /\ At(dst, i + (Width - n + 1)) = 0
      BY <1>1, <3>1, InWord
    <3>3. Ring[i - a] = dst[i - n]
      BY <1>4, <3>1
    <3> QED BY <2>3, <2>4, <2>5, <3>1, <3>2, <3>3 DEF Bit
  <2>8. CASE n # Width + 1 /\ i - n = -1
    <3>1. i - n \notin Positions /\ i + (Width - n + 1) \notin Positions /\ i = n - 1 /\ n > 0
          /\ a = n /\ (i - a) + (Width + 1) = Width
      BY <1>3, <2>8, PositionsAre
    <3>2. At(dst, i - n) = 0 /\ At(dst, i + (Width - n + 1)) = 0
      BY <1>1, <3>1, InWord
    <3>3. Ring[i - a] = flag.CF
      BY <2>5, <3>1, RingIs
    <3> QED BY <2>3, <2>4, <2>5, <3>1, <3>2, <3>3 DEF Bit
  <2>9. CASE n # Width + 1 /\ i - n < -1
    <3>1. i - n \notin Positions /\ i + (Width - n + 1) \in Positions /\ i # n - 1
          /\ a = n /\ (i - a) + (Width + 1) = i + (Width - n + 1)
      BY <1>3, <2>9, PositionsAre
    <3>2. At(dst, i - n) = 0 /\ At(dst, i + (Width - n + 1)) = dst[i + (Width - n + 1)]
      BY <1>1, <3>1, InWord
    <3>3. Ring[i - a] = dst[i + (Width - n + 1)]
      BY <1>4, <2>5, <3>1, RingIs
    <3> QED BY <2>3, <2>4, <2>5, <3>1, <3>2, <3>3 DEF Bit
  <2>10. i - n >= 0 \/ i - n = -1 \/ i - n < -1
    BY <1>3, PositionsAre
  <2> QED BY <2>6, <2>7, <2>8, <2>9, <2>10
<1>7. result = [i \in Positions |-> result[i]]
  BY DEF Or
<1>8. n = 0 => a = 0
  BY <1>3, PositionsAre
<1> HIDE DEF result
<1>9. Native!Shifted.x = result
  BY <1>5, <1>6, <1>7
<1> QED BY <1>5, <1>8, <1>9 DEF result, n

(* RCR: the ring comes in from above. *)
LEMMA RcrForm ==
  ASSUME TypeOK, insn # Idle, insn.op = "rcr", Masked <= Width + 1
  PROVE  /\ Native!Shifted.x = Or(Or(Right(dst, Masked), Left(dst, Width - Masked + 1)),
                                 Left(Only(flag.CF), Width - Masked))
         /\ Masked <= Width =>
              Native!Shifted.c = IF Masked = 0 THEN flag.CF ELSE At(dst, Masked - 1)
<1> DEFINE n == Masked
           a == Native!Amount
           only == Only(flag.CF)
           result == Or(Or(Right(dst, n), Left(dst, Width - n + 1)), Left(only, Width - n))
<1>1. dst \in BitWord /\ only \in BitWord /\ flag.CF \in 0 .. 1
  BY FlagTypes, WordTypes, Bits
<1>2. \A k \in 1 .. Turn : Ring[Width - 1 + k] = IF k = 1 THEN flag.CF ELSE Ring[k - 2]
  <2> SUFFICES ASSUME NEW k \in 1 .. Turn
               PROVE  Ring[Width - 1 + k] = IF k = 1 THEN flag.CF ELSE Ring[k - 2]
    OBVIOUS
  <2>1. k - 2 \in Int /\ (k - 2) + (Width + 1) = Width - 1 + k
        /\ (k = 1 => Width - 1 + k = Width)
    BY PositionsAre
  <2> QED BY <2>1, RingIs
<1>3. n \in Nat /\ n \in Int /\ n <= Width + 1
      /\ a = (IF n = Width + 1 THEN 0 ELSE n)
  <2>1. n \in Nat /\ n \in Int /\ a = n % (Width + 1)
    BY AmountType, Shapes
  <2> HIDE DEF n
  <2>2. n <= Width + 1
    BY DEF n
  <2> DEFINE w == Width + 1
  <2>3. w \in Nat /\ w > 0
    BY BitWordsAssumption
  <2> HIDE DEF w
  <2>4. n <= w => n % w = IF n = w THEN 0 ELSE n
    BY <2>1, <2>3
  <2> QED BY <2>1, <2>2, <2>4 DEF w
<1>4. \A i \in Positions : Ring[i] = dst[i]
  BY RingIs
<1> HIDE DEF n, a
<1>5. /\ Native!Shifted.x = [i \in Positions |-> Ring[i + a]]
      /\ Native!Shifted.c = IF a = 0 THEN flag.CF ELSE Ring[a - 1]
  BY <1>2, <1>4, RingIs, RightTape DEF a
<1>6. ASSUME NEW i \in Positions
      PROVE  result[i] = Ring[i + a]
  <2>1. Right(dst, n)[i] = At(dst, i + n)
    BY <1>3 DEF Right
  <2>2. Left(dst, Width - n + 1)[i] = At(dst, i - (Width - n + 1))
    BY <1>3, PositionsAre DEF Left
  <2>3. Left(only, Width - n)[i] = IF n <= Width /\ i = Width - n THEN flag.CF ELSE 0
    <3>1. CASE n = Width + 1
      <4>1. Width - n < 0 /\ ~(n <= Width)
        BY <3>1, PositionsAre
      <4> QED BY <4>1 DEF Left
    <3>2. CASE n # Width + 1
      <4>1. Left(only, Width - n)[i] = At(only, i - (Width - n))
        BY <1>3, <3>2, PositionsAre DEF Left
      <4>2. At(only, i - (Width - n)) = IF i - (Width - n) = 0 THEN flag.CF ELSE 0
        BY PositionsAre DEF At, Only
      <4> QED BY <1>3, <3>2, <4>1, <4>2, PositionsAre
    <3> QED BY <3>1, <3>2
  <2>4. result[i] = Bit(Bit(At(dst, i + n) = 1 \/ At(dst, i - (Width - n + 1)) = 1) = 1
                        \/ Left(only, Width - n)[i] = 1)
    BY <2>1, <2>2 DEF Or
  <2> HIDE DEF result, only
  <2>5. i + a \in Int /\ Ring[i + a] \in 0 .. 1
    BY <1>3, RingIs, PositionsAre
  <2>6. CASE n = Width + 1
    <3>1. i + n \notin Positions /\ i - (Width - n + 1) = i /\ ~(n <= Width) /\ i + a = i
      BY <1>3, <2>6, PositionsAre
    <3>2. At(dst, i + n) = 0 /\ At(dst, i - (Width - n + 1)) = dst[i]
      BY <1>1, <3>1, InWord
    <3>3. Ring[i + a] = dst[i]
      BY <1>4, <3>1
    <3> QED BY <2>3, <2>4, <2>5, <3>1, <3>2, <3>3 DEF Bit
  <2>7. CASE n # Width + 1 /\ i + n < Width
    <3>1. i + n \in Positions /\ i - (Width - n + 1) \notin Positions /\ i # Width - n
          /\ a = n
      BY <1>3, <2>7, PositionsAre
    <3>2. At(dst, i + n) = dst[i + n] /\ At(dst, i - (Width - n + 1)) = 0
      BY <1>1, <3>1, InWord
    <3>3. Ring[i + a] = dst[i + n]
      BY <1>4, <3>1
    <3> QED BY <2>3, <2>4, <2>5, <3>1, <3>2, <3>3 DEF Bit
  <2>8. CASE n # Width + 1 /\ i + n = Width
    <3>1. i + n \notin Positions /\ i - (Width - n + 1) \notin Positions /\ i = Width - n
          /\ n <= Width /\ a = n /\ i + a = Width
      BY <1>3, <2>8, PositionsAre
    <3>2. At(dst, i + n) = 0 /\ At(dst, i - (Width - n + 1)) = 0
      BY <1>1, <3>1, InWord
    <3>3. Ring[i + a] = flag.CF
      BY <3>1, RingIs
    <3> QED BY <2>3, <2>4, <2>5, <3>1, <3>2, <3>3 DEF Bit
  <2>9. CASE n # Width + 1 /\ i + n > Width
    <3>1. i + n \notin Positions /\ i - (Width - n + 1) \in Positions /\ i # Width - n
          /\ a = n /\ (i - (Width - n + 1)) + (Width + 1) = i + a
      BY <1>3, <2>9, PositionsAre
    <3>2. At(dst, i + n) = 0 /\ At(dst, i - (Width - n + 1)) = dst[i - (Width - n + 1)]
      BY <1>1, <3>1, InWord
    <3>3. Ring[i + a] = dst[i - (Width - n + 1)]
      <4>1. i - (Width - n + 1) \in Int
        BY <3>1, PositionsAre
      <4> QED BY <1>4, <3>1, <4>1, RingIs
    <3> QED BY <2>3, <2>4, <2>5, <3>1, <3>2, <3>3 DEF Bit
  <2>10. i + n < Width \/ i + n = Width \/ i + n > Width
    BY <1>3, PositionsAre
  <2> QED BY <2>6, <2>7, <2>8, <2>9, <2>10
<1>7. result = [i \in Positions |-> result[i]]
  BY DEF Or
<1>8. n <= Width => a = n /\ (n # 0 => n - 1 \in Positions)
  BY <1>3, PositionsAre
<1> HIDE DEF result
<1>9. Native!Shifted.x = result
  BY <1>5, <1>6, <1>7
<1>10. n <= Width => Native!Shifted.c = IF n = 0 THEN flag.CF ELSE At(dst, n - 1)
  BY <1>1, <1>4, <1>5, <1>8, InWord
<1> QED BY <1>9, <1>10 DEF result, n

(***************************************************************************)
(* Results.                                                                *)
(***************************************************************************)

(* A result is right if it is the one the processor gets by single steps,   *)
(* or if that is undefined.                                                *)
LEMMA ResultsAre ==
  ASSUME TypeOK, insn # Idle
  PROVE  /\ Native!Undefined <=> insn.op \in {"shld", "shrd"} /\ Masked > Width
         /\ Native!Undefined => Native!Results = BitWord
         /\ ~Native!Undefined => Native!Results = {Native!Shifted.x}
BY AmountType, NativeBits DEF Native!Undefined, Native!Results

(* SHL and SHR have the result of the processor. *)
LEMMA ShiftResult ==
  ASSUME TypeOK, Shl \/ Shr
  PROVE  dst' \in Native!Results /\ ~WrongResult
<1>1. insn # Idle /\ insn.op \in {"shl", "shr"}
  BY DEF Shl, Shr, Handle
<1>2. Native!Results = {Native!Shifted.x}
  BY <1>1, ResultsAre
<1>3. CASE Shl
  <2>1. insn.op = "shl" /\ dst' = Left(dst, Masked)
    BY <1>3 DEF Shl, Handle
  <2> QED BY <1>1, <1>2, <2>1, ShlForm DEF WrongResult
<1>4. CASE Shr
  <2>1. insn.op = "shr" /\ dst' = Right(dst, Masked)
    BY <1>4 DEF Shr, Handle
  <2> QED BY <1>1, <1>2, <2>1, ShrForm DEF WrongResult
<1> QED BY <1>3, <1>4

(* SHLD and SHRD have it when the amount is within the operand. *)
LEMMA DoubleResult ==
  ASSUME TypeOK, Shld \/ Shrd
  PROVE  dst' \in Native!Results /\ ~WrongResult
<1>1. insn # Idle /\ insn.op \in {"shld", "shrd"}
  BY DEF Shld, Shrd, Handle
<1>2. Masked \in Int /\ Width \in Int
  BY <1>1, Shapes, PositionsAre
<1>3. CASE Masked > Width
  <2>1. Native!Results = BitWord
    BY <1>1, <1>3, ResultsAre
  <2>2. dst' \in BitWord
    BY DoubleType DEF TypeOK
  <2> QED BY <1>1, <2>1, <2>2 DEF WrongResult
<1>4. CASE Masked <= Width
  <2>1. ~(Masked > Width)
    BY <1>2, <1>4
  <2>2. Native!Results = {Native!Shifted.x}
    BY <1>1, <2>1, ResultsAre
  <2>3. CASE Shld
    <3>1. insn.op = "shld" /\ dst' = Or(Left(dst, Masked), Right(insn.src, Width - Masked))
      BY <2>3 DEF Shld, Handle
    <3> QED BY <1>1, <1>4, <2>2, <3>1, ShldForm DEF WrongResult
  <2>4. CASE Shrd
    <3>1. insn.op = "shrd" /\ dst' = Or(Right(dst, Masked), Left(insn.src, Width - Masked))
      BY <2>4 DEF Shrd, Handle
    <3> QED BY <1>1, <1>4, <2>2, <3>1, ShrdForm DEF WrongResult
  <2> QED BY <2>3, <2>4
<1> QED BY <1>2, <1>3, <1>4

(* ROL and ROR have it. *)
LEMMA RotateResult ==
  ASSUME TypeOK, Rol \/ Ror
  PROVE  dst' \in Native!Results /\ ~WrongResult
<1>1. insn # Idle /\ insn.op \in {"rol", "ror"}
  BY DEF Rol, Ror, Handle
<1>2. Native!Results = {Native!Shifted.x}
  BY <1>1, ResultsAre
<1>3. CASE Rol
  <2>1. insn.op = "rol" /\ dst' = RotateLeft(dst, insn.count)
    BY <1>3 DEF Rol, Handle
  <2> QED BY <1>1, <1>2, <2>1, RolForm DEF WrongResult
<1>4. CASE Ror
  <2>1. insn.op = "ror" /\ dst' = RotateRight(dst, insn.count)
    BY <1>4 DEF Ror, Handle
  <2> QED BY <1>1, <1>2, <2>1, RorForm DEF WrongResult
<1> QED BY <1>3, <1>4

(* SAR has it. *)
LEMMA SarResult ==
  ASSUME TypeOK, Sar
  PROVE  dst' \in Native!Results <=> ~WrongResult
<1> DEFINE n == Masked
           top == [i \in Positions |-> IF i = Width - 1 THEN dst[i] ELSE 0]
           result == Or(Right(dst, n), top)
           x == Native!Shifted.x
<1>1. insn # Idle /\ insn.op = "sar" /\ dst' = result
  BY DEF Sar, Handle
<1>2. Native!Results = {x} /\ (WrongResult <=> Top(dst) = 1 /\ n > 1)
  BY <1>1, ResultsAre DEF WrongResult, Sign
<1>3. x = [i \in Positions |-> IF i + n < Width THEN dst[i + n] ELSE Top(dst)]
  BY <1>1, SarForm
<1>4. dst \in BitWord /\ n \in Nat /\ n \in Int /\ Top(dst) \in 0 .. 1
  BY <1>1, FlagTypes, Shapes, InWord, PositionsAre DEF Top
<1> HIDE DEF n
<1>5. ASSUME NEW i \in Positions
      PROVE  result[i] = Bit(At(dst, i + n) = 1 \/ (i = Width - 1 /\ dst[i] = 1))
  <2>1. Right(dst, n)[i] = At(dst, i + n)
    BY <1>4 DEF Right
  <2>2. top[i] = 1 <=> i = Width - 1 /\ dst[i] = 1
    OBVIOUS
  <2> HIDE DEF top
  <2>3. result[i] = Bit(Right(dst, n)[i] = 1 \/ top[i] = 1)
    BY DEF Or
  <2> HIDE DEF result
  <2> QED BY <2>1, <2>2, <2>3
<1>6. result = [i \in Positions |-> result[i]]
  BY DEF Or
<1> HIDE DEF result, x
<1>7. ASSUME NEW i \in Positions
      PROVE  /\ i + n \in Int
             /\ i + n < Width => /\ i + n \in Positions /\ (i = Width - 1 => n = 0)
                                 /\ At(dst, i + n) = dst[i + n] /\ dst[i + n] \in 0 .. 1
             /\ ~(i + n < Width) => At(dst, i + n) = 0
  <2>1. i + n \in Int /\ (i + n < Width <=> i + n \in Positions)
        /\ (i + n < Width /\ i = Width - 1 => n = 0)
    BY <1>4, PositionsAre
  <2> QED BY <1>4, <2>1, InWord
<1>8. CASE ~(Top(dst) = 1 /\ n > 1)
  <2>1. ASSUME NEW i \in Positions
        PROVE  result[i] = x[i]
    <3>1. CASE i + n < Width
      <4>1. x[i] = dst[i + n] /\ result[i] = Bit(dst[i + n] = 1 \/ (i = Width - 1 /\ dst[i] = 1))
        BY <1>3, <1>5, <1>7, <3>1
      <4>2. i = Width - 1 => i + n = i
        BY <1>4, <1>7, <3>1, PositionsAre
      <4>3. result[i] = Bit(dst[i + n] = 1)
        BY <4>1, <4>2
      <4> QED BY <1>7, <3>1, <4>1, <4>3 DEF Bit
    <3>2. CASE ~(i + n < Width)
      <4>1. x[i] = Top(dst) /\ result[i] = Bit(i = Width - 1 /\ dst[i] = 1)
        BY <1>3, <1>5, <1>7, <3>2
      <4>2. CASE Top(dst) = 0
        BY <4>1, <4>2 DEF Bit, Top
      <4>3. CASE Top(dst) = 1
        <5>1. i = Width - 1
          BY <1>4, <1>8, <3>2, <4>3, PositionsAre
        <5> QED BY <4>1, <4>3, <5>1 DEF Bit, Top
      <4> QED BY <1>4, <4>2, <4>3
    <3> QED BY <3>1, <3>2
  <2>2. result = x
    BY <1>3, <1>6, <2>1
  <2> QED BY <1>1, <1>2, <1>8, <2>2
<1>9. CASE Top(dst) = 1 /\ n > 1
  <2> DEFINE i == Width - 2
  <2>1. i \in Positions /\ ~(i + n < Width) /\ i # Width - 1
    BY <1>4, <1>9, PositionsAre
  <2> HIDE DEF i
  <2>2. x[i] = 1
    BY <1>3, <1>9, <2>1
  <2>3. result[i] = 0
    BY <1>5, <1>7, <2>1 DEF Bit
  <2>4. result # x
    BY <2>2, <2>3
  <2> QED BY <1>1, <1>2, <1>9, <2>4
<1> QED BY <1>8, <1>9

(* A result of zeros. *)
LEMMA ZerosAre ==
  ASSUME NEW x \in BitWord, NEW y \in BitWord, NEW z \in BitWord,
         \A i \in Positions : x[i] = 0 /\ y[i] = 0 /\ z[i] = 0
  PROVE  Or(Or(x, y), z) = Zeros
BY DEF Or, Zeros, Bit

(* RCL and RCR have it unless the ring is passed by one place. *)
LEMMA ThroughCarryResult ==
  ASSUME TypeOK, Rcl \/ Rcr
  PROVE  dst' \in Native!Results <=> ~WrongResult
<1> DEFINE n == Masked
           only == Only(flag.CF)
           left == Or(Or(Left(dst, n), Right(dst, Width - n + 1)), Left(only, n - 1))
           right == Or(Or(Right(dst, n), Left(dst, Width - n + 1)), Left(only, Width - n))
<1>1. insn # Idle /\ insn.op \in {"rcl", "rcr"}
  BY DEF Rcl, Rcr, Handle
<1>2. Native!Results = {Native!Shifted.x}
      /\ (WrongResult <=> n > Width + 1 /\ Native!Shifted.x # Zeros)
  BY <1>1, ResultsAre DEF WrongResult
<1>3. n \in Nat /\ n \in Int /\ Width \in Int /\ Width + 1 \in Int
  BY <1>1, Shapes, PositionsAre
<1>4. CASE n <= Width + 1
  <2>1. ~(n > Width + 1)
    BY <1>3, <1>4
  <2>2. dst' = Native!Shifted.x
    <3>1. CASE Rcl
      <4>1. insn.op = "rcl" /\ dst' = left
        BY <3>1 DEF Rcl, Handle
      <4> QED BY <1>1, <1>4, <4>1, RclForm
    <3>2. CASE Rcr
      <4>1. insn.op = "rcr" /\ dst' = right
        BY <3>2 DEF Rcr, Handle
      <4> QED BY <1>1, <1>4, <4>1, RcrForm
    <3> QED BY <3>1, <3>2
  <2> QED BY <1>2, <2>1, <2>2
<1>5. CASE n > Width + 1
  <2>1. dst \in BitWord /\ only \in BitWord
    BY FlagTypes, WordTypes, Bits
  <2>2. /\ Width - n + 1 < 0 /\ Width - n < 0 /\ n - 1 \in Int /\ n - 1 > Width
        /\ Width - n + 1 \in Int /\ Width - n \in Int
    BY <1>3, <1>5
  <2> HIDE DEF n, only
  <2>3. /\ Left(dst, n) \in BitWord /\ Right(dst, n) \in BitWord
        /\ Left(dst, Width - n + 1) \in BitWord /\ Right(dst, Width - n + 1) \in BitWord
        /\ Left(only, n - 1) \in BitWord /\ Left(only, Width - n) \in BitWord
    <3>1. \A x \in BitWord, k \in Int : Left(x, k) \in BitWord /\ Right(x, k) \in BitWord
      BY AtType DEF Left, Right, BitWord
    <3> QED BY <1>3, <2>1, <2>2, <3>1
  <2>4. ASSUME NEW i \in Positions
        PROVE  /\ Left(dst, n)[i] = 0 /\ Right(dst, n)[i] = 0
               /\ Left(dst, Width - n + 1)[i] = 0 /\ Right(dst, Width - n + 1)[i] = 0
               /\ Left(only, n - 1)[i] = 0 /\ Left(only, Width - n)[i] = 0
    <3>1. i - n \notin Positions /\ i + n \notin Positions /\ i - (n - 1) \notin Positions
      BY <1>3, <1>5, PositionsAre
    <3>2. At(dst, i - n) = 0 /\ At(dst, i + n) = 0 /\ At(only, i - (n - 1)) = 0
      BY <3>1 DEF At
    <3> QED BY <2>2, <3>2 DEF Left, Right
  <2>5. left = Zeros /\ right = Zeros
    BY <2>3, <2>4, ZerosAre
  <2>6. dst' \in {left, right}
    BY DEF Rcl, Rcr, n, only
  <2> QED BY <1>2, <1>5, <2>5, <2>6
<1> QED BY <1>3, <1>4, <1>5

(* The result of a shift or rotate is one of those the processor may leave *)
(* unless WrongResult holds, and then it is not: for every width, operand  *)
(* and amount (arithmetic.cpp:51-77, 585-739).                             *)
THEOREM ShiftResultsFollow == Spec => ResultsFollow
<1>1. TypeOK /\ [Next]_vars
        => [insn # Idle /\ insn.op \in ShiftOps => (dst' \in Native!Results <=> ~WrongResult)]_vars
  <2> SUFFICES ASSUME TypeOK, Next, insn # Idle, insn.op \in ShiftOps
               PROVE  dst' \in Native!Results <=> ~WrongResult
    OBVIOUS
  <2>1. \/ Shl \/ Shr \/ Sar \/ Shld \/ Shrd \/ Rol \/ Ror \/ Rcl \/ Rcr
    BY DEF Next, Fetch, Execute, ShiftOps, Bt, Btc, Btr, Bts, BitTest, Bsf, Bsr, BitScan, Handle
  <2> QED BY <2>1, ShiftResult, SarResult, DoubleResult, RotateResult, ThroughCarryResult
<1> QED BY <1>1, ShiftTypes, PTL DEF Spec, ResultsFollow

(***************************************************************************)
(* Flags as well.                                                          *)
(***************************************************************************)

(* SF, ZF and PF tell of the result, if there was a shift. *)
LEMMA StatusMeans ==
  ASSUME TypeOK, NEW x \in BitWord, NEW c, c <=> Native!SetsStatus, NEW f,
         f.SF = Select(flag.SF, c, Sign(x)), f.ZF = Select(flag.ZF, c, Zero(x)),
         f.PF = Select(flag.PF, c, Parity(x))
  PROVE  Native!StatusOf(x, f)
<1>1. Sign(x) \in 0 .. 1 /\ Zero(x) \in 0 .. 1 /\ Parity(x) \in 0 .. 1
  BY WordTypes, Bits
<1>2. /\ f.SF = IF c THEN Sign(x) ELSE flag.SF
      /\ f.ZF = IF c THEN Zero(x) ELSE flag.ZF
      /\ f.PF = IF c THEN Parity(x) ELSE flag.PF
  BY <1>1, FlagTypes, SelectIs
<1>3. Sign(x) = Native!Top(x) /\ Zero(x) = Native!Bit(x = Native!Zeros)
  BY NativeBits DEF Sign, Zero
<1>4. Parity(x) = Native!Bit(Native!Ones8(x) % 2 = 0)
  BY DEF Parity, Native!Ones8, Native!Positions, Positions, Native!Bit, Bit,
         Cardinality, Native!Cardinality
<1> QED BY <1>2, <1>3, <1>4 DEF Native!StatusOf

(* What a shift has to leave for the processor to leave the same. *)
LEMMA ShiftActs ==
  ASSUME TypeOK, insn # Idle, insn.op \in ShiftOps, insn' = Idle, dst' \in Native!Results,
         Native!Amount = Masked,
         "OF" \in insn.lost => ~ByOneOrNone,
         NEW new \in Flags, Leave(new),
         ~Native!Undefined => new.CF \in Native!Carries,
         ByOneOrNone => new.OF \in Native!Overflows,
         ~Native!Undefined => Native!StatusOf(dst', new)
  PROVE  Native!Execute
<1>1. insn.lost \subseteq FlagNames /\ insn.lost \subseteq {"OF"}
  BY LostNames
<1>2. /\ flag' \in Flags /\ flag'.CF = new.CF /\ flag'.SF = new.SF
      /\ flag'.ZF = new.ZF /\ flag'.PF = new.PF
      /\ "OF" \notin insn.lost => flag'.OF = new.OF
  BY <1>1, LeaveGives
<1>3. flag'.CF \in Native!Carries
  <2>1. Native!Undefined => Native!Carries = 0 .. 1
    BY DEF Native!Carries
  <2>2. new.CF \in 0 .. 1
    BY DEF Flags
  <2> QED BY <1>2, <2>1, <2>2
<1>4. flag'.OF \in Native!Overflows
  <2>1. CASE ByOneOrNone
    BY <1>2, <2>1
  <2>2. CASE ~ByOneOrNone
    <3>1. Native!Overflows = 0 .. 1
      BY <2>2 DEF ByOneOrNone, Native!Overflows
    <3> QED BY <1>2, <3>1 DEF Flags
  <2> QED BY <2>1, <2>2
<1>5. ~Native!Undefined => Native!StatusOf(dst', flag')
  BY <1>2 DEF Native!StatusOf
<1>6. Native!Shift
  BY <1>2, <1>3, <1>4, <1>5, NativeBits DEF Native!Shift
<1> QED BY <1>6, NativeBits DEF Native!Execute

(* What Faithful leaves of an instruction that shifts. *)
LEMMA FaithfulShifts ==
  ASSUME TypeOK, insn # Idle, insn.op \in ShiftOps, Faithful
  PROVE  /\ "OF" \in insn.lost => ~ByOneOrNone
         /\ insn.count = 0 => Masked = 0
         /\ Native!Amount = Masked
         /\ \/ insn.count = 0
            \/ insn.op \in {"shl", "shld"}
            \/ insn.op = "shr" /\ Masked = 1
            \/ insn.op = "sar" /\ Masked = 1 /\ Sign(dst) = 0
            \/ insn.op = "shrd" /\ (Masked = 1 => insn.src[0] = 0)
            \/ insn.op \in {"rol", "ror"} /\ ~ByOneOrNone /\ flag.CF = 0
            \/ insn.op = "rcl" /\ Masked = 0
            \/ insn.op = "rcr" /\ Masked # 1 /\ Masked <= Width
<1>1. insn.op \notin TestOps \cup ScanOps
  BY DEF ShiftOps, TestOps, ScanOps
<1>2. insn.count = 0 => Masked = 0
  BY BitWordsAssumption DEF Masked
<1>3. insn.op \in {"rcl", "rcr"} => Masked <= Width
  BY <1>1, <1>2, PositionsAre DEF Faithful
<1>4. Native!Amount = Masked
  <2>1. CASE insn.op \in {"rcl", "rcr"}
    <3> DEFINE w == Width + 1
               n == Masked
    <3>1. Native!Amount = n % w
      BY <2>1, AmountType
    <3>2. n \in Nat /\ w \in Nat /\ n < w
      BY <1>3, <2>1, Shapes, BitWordsAssumption
    <3> HIDE DEF n, w
    <3>3. n % w = n
      BY <3>2
    <3> QED BY <3>1, <3>3 DEF n
  <2> QED BY <2>1, AmountType
<1> QED BY <1>1, <1>2, <1>4 DEF Faithful

(* SHL and SAL do what the processor does. *)
LEMMA ShlNative ==
  ASSUME TypeOK, Shl, Faithful
  PROVE  Native!Execute
<1> DEFINE n == Masked
           result == Left(dst, n)
           of == Select(flag.OF, n # 0, Xor1(Sign(result), Sign(dst)))
           cf == Select(flag.CF, n # 0, At(dst, Width - n))
<1>1. insn # Idle /\ insn' = Idle /\ dst' = result /\ insn.op = "shl" /\ insn.op \in ShiftOps
  BY DEF Shl, Handle, ShiftOps
<1>2. PICK o \in IF n > 1 THEN 0 .. 1 ELSE {of} : Leave(Status(n # 0, result, cf, o))
  BY DEF Shl
<1> DEFINE new == Status(n # 0, result, cf, o)
<1>3. n \in Nat /\ n \in Int /\ dst \in BitWord /\ result \in BitWord
  <2>1. n \in Nat /\ n \in Int /\ dst \in BitWord
    BY <1>1, Shapes, FlagTypes
  <2> QED BY <2>1, WordTypes, Bits
<1>4. of \in 0 .. 1 /\ cf \in 0 .. 1
      /\ cf = (IF n = 0 THEN flag.CF ELSE At(dst, Width - n))
      /\ of = (IF n = 0 THEN flag.OF ELSE Xor1(Sign(result), Sign(dst)))
  <2>1. At(dst, Width - n) \in 0 .. 1 /\ Xor1(Sign(result), Sign(dst)) \in 0 .. 1
    BY <1>3, AtType, Bits
  <2> HIDE DEF n, result
  <2> QED BY <2>1, FlagTypes, Bits DEF Select, Toggle
<1>5. /\ Native!Shifted.x = result
      /\ Native!Shifted.c = cf
  BY <1>1, <1>4, ShlForm
<1>6. dst' \in Native!Results /\ ~Native!Undefined
  BY <1>1, ShiftResult, ResultsAre
<1>7. Native!Amount = n /\ ("OF" \in insn.lost => ~ByOneOrNone)
  BY <1>1, FaithfulShifts
<1>8. o \in 0 .. 1 /\ (ByOneOrNone => o = of)
  BY <1>2, <1>3, <1>4 DEF ByOneOrNone
<1> HIDE DEF result, of, cf
<1>9. new \in Flags
  BY <1>3, <1>4, <1>8, StatusType
<1>10. new.CF = cf /\ new.OF = o
       /\ new.SF = Select(flag.SF, n # 0, Sign(result))
       /\ new.ZF = Select(flag.ZF, n # 0, Zero(result))
       /\ new.PF = Select(flag.PF, n # 0, Parity(result))
  BY DEF Status
<1> HIDE DEF new
<1>11. new.CF \in Native!Carries
  BY <1>4, <1>5, <1>6, <1>10 DEF Native!Carries
<1>12. ByOneOrNone => new.OF \in Native!Overflows
  <2> SUFFICES ASSUME n = 0 \/ n = 1, o = of PROVE o \in Native!Overflows
    BY <1>8, <1>10 DEF ByOneOrNone
  <2>1. n = 1 => of = Native!OverflowByOne
    BY <1>1, <1>4, <1>5, NativeBits DEF Native!OverflowByOne, Sign
  <2> HIDE DEF n
  <2> QED BY <1>4, <1>7, <2>1 DEF Native!Overflows
<1>13. Native!StatusOf(dst', new)
  <2>1. (n # 0) <=> Native!SetsStatus
    BY <1>1, <1>3, <1>7 DEF Native!SetsStatus
  <2> HIDE DEF n
  <2> QED BY <1>1, <1>3, <1>10, <2>1, StatusMeans
<1>14. Leave(new)
  BY <1>2 DEF new
<1> HIDE DEF n
<1> QED BY <1>1, <1>6, <1>7, <1>9, <1>11, <1>12, <1>13, <1>14, ShiftActs DEF n

(* SHR does what the processor does. *)
LEMMA ShrNative ==
  ASSUME TypeOK, Shr, Faithful
  PROVE  Native!Execute
<1> DEFINE n == Masked
           cond == insn.count # 0
           result == Right(dst, n)
           cf == Select(flag.CF, cond, dst[0])
           of == Select(flag.OF, cond, Sign(dst))
           new == Status(cond, result, cf, of)
<1>1. /\ insn # Idle /\ insn' = Idle /\ dst' = result /\ Leave(new)
      /\ insn.op = "shr" /\ insn.op \in ShiftOps
  BY DEF Shr, Handle, ShiftOps
<1>2. n \in Nat /\ n \in Int /\ dst \in BitWord /\ result \in BitWord
  <2>1. n \in Nat /\ n \in Int /\ dst \in BitWord
    BY <1>1, Shapes, FlagTypes
  <2> QED BY <2>1, WordTypes, Bits
<1>3. /\ Native!Amount = n /\ ("OF" \in insn.lost => ~ByOneOrNone)
      /\ n \in {0, 1} /\ (cond <=> n = 1)
  BY <1>1, FaithfulShifts
<1>4. dst[0] \in 0 .. 1 /\ Sign(dst) \in 0 .. 1 /\ At(dst, 0) = dst[0]
  BY <1>2, PositionsAre, InWord DEF Sign, Top
<1>5. Native!Shifted.x = result /\ Native!Shifted.c = IF n = 0 THEN flag.CF ELSE At(dst, n - 1)
  BY <1>1, ShrForm
<1>6. dst' \in Native!Results /\ ~Native!Undefined
  BY <1>1, ShiftResult, ResultsAre
<1>7. new.CF = cf /\ new.OF = of
      /\ new.SF = Select(flag.SF, cond, Sign(result))
      /\ new.ZF = Select(flag.ZF, cond, Zero(result))
      /\ new.PF = Select(flag.PF, cond, Parity(result))
  BY DEF Status
<1> HIDE DEF n, cond, result
<1>8. /\ cf \in 0 .. 1 /\ of \in 0 .. 1
      /\ cf = (IF cond THEN dst[0] ELSE flag.CF) /\ of = (IF cond THEN Sign(dst) ELSE flag.OF)
  BY <1>4, FlagTypes, Bits DEF Select, Toggle
<1> HIDE DEF cf, of
<1>9. new \in Flags
  BY <1>2, <1>8, StatusType
<1> HIDE DEF new
<1>10. new.CF \in Native!Carries
  <2>1. Native!Shifted.c = cf
    BY <1>3, <1>4, <1>5, <1>8
  <2>2. ~(n >= Width)
    BY <1>3, PositionsAre
  <2> QED BY <1>3, <1>6, <1>7, <2>1, <2>2 DEF Native!Carries
<1>11. new.OF \in Native!Overflows
  <2>1. Native!OverflowByOne = Sign(dst)
    BY <1>1, NativeBits DEF Native!OverflowByOne, Sign
  <2> QED BY <1>3, <1>7, <1>8, <2>1 DEF Native!Overflows
<1>12. Native!StatusOf(dst', new)
  <2>1. cond <=> Native!SetsStatus
    BY <1>1, <1>3 DEF Native!SetsStatus
  <2> QED BY <1>1, <1>2, <1>7, <2>1, StatusMeans
<1> QED BY <1>1, <1>3, <1>6, <1>9, <1>10, <1>11, <1>12, ShiftActs DEF n

(* SAR does what the processor does. *)
LEMMA SarNative ==
  ASSUME TypeOK, Sar, Faithful
  PROVE  Native!Execute
<1> DEFINE n == Masked
           cond == insn.count # 0
           top == [i \in Positions |-> IF i = Width - 1 THEN dst[i] ELSE 0]
           result == Or(Right(dst, n), top)
           cf == Select(flag.CF, cond, dst[0])
           of == Toggle(flag.OF, cond, flag.OF)
           status == Status(cond, result, cf, of)
<1>1. /\ insn # Idle /\ insn' = Idle /\ dst' = result
      /\ insn.op = "sar" /\ insn.op \in ShiftOps
  BY DEF Sar, Handle, ShiftOps
<1>2. PICK sign \in {0, Sign(result)} :
        Leave([status EXCEPT !.SF = Select(flag.SF, cond, sign)])
  BY DEF Sar
<1> DEFINE new == [status EXCEPT !.SF = Select(flag.SF, cond, sign)]
<1>3. n \in Int /\ dst \in BitWord /\ dst' \in BitWord
  BY <1>1, Shapes, FlagTypes, SarType DEF TypeOK
<1>4. /\ Native!Amount = n /\ ("OF" \in insn.lost => ~ByOneOrNone)
      /\ n \in {0, 1} /\ (cond <=> n = 1) /\ (cond => Sign(dst) = 0)
  BY <1>1, FaithfulShifts
<1>5. dst[0] \in 0 .. 1
  BY <1>3, PositionsAre, InWord
<1>6. dst' \in Native!Results /\ ~Native!Undefined /\ dst' = Native!Shifted.x
  <2>1. ~WrongResult
    BY <1>1, <1>4 DEF WrongResult
  <2> QED BY <1>1, <2>1, SarResult, ResultsAre
<1>7. /\ cond => Sign(result) = 0
      /\ Native!Shifted.c = IF n = 0 THEN flag.CF ELSE dst[0]
  <2>1. Native!Shifted.x = [i \in Positions |-> IF i + n < Width THEN dst[i + n] ELSE Top(dst)]
    BY <1>1, SarForm
  <2>2. Native!Shifted.c = IF n = 0 THEN flag.CF
                           ELSE IF n - 1 < Width THEN dst[n - 1] ELSE Top(dst)
    BY <1>1, SarForm
  <2> HIDE DEF result, cond, n
  <2>3. cond => dst'[Width - 1] = Top(dst)
    <3>1. Width - 1 \in Positions /\ (cond => ~((Width - 1) + n < Width))
      BY <1>4, PositionsAre
    <3> QED BY <1>6, <2>1, <3>1
  <2>4. n = 1 => n - 1 = 0 /\ n - 1 < Width
    BY PositionsAre
  <2> QED BY <1>1, <1>4, <2>2, <2>3, <2>4 DEF Sign, Top
<1>8. sign \in {0, Sign(result)}
  BY <1>2
<1> HIDE DEF n, cond, result
<1>9. /\ cf \in 0 .. 1 /\ of \in 0 .. 1
      /\ cf = (IF cond THEN dst[0] ELSE flag.CF) /\ of = (IF cond THEN 0 ELSE flag.OF)
  BY <1>5, FlagTypes, Bits DEF Select, Toggle
<1> HIDE DEF cf, of
<1>10. status \in Flags
  BY <1>1, <1>3, <1>9, StatusType
<1>11. /\ status.CF = cf /\ status.OF = of
       /\ status.ZF = Select(flag.ZF, cond, Zero(result))
       /\ status.PF = Select(flag.PF, cond, Parity(result))
  BY DEF Status
<1> HIDE DEF status
<1>12. Select(flag.SF, cond, sign) = Select(flag.SF, cond, Sign(result))
       /\ Select(flag.SF, cond, sign) \in 0 .. 1
  <2>1. Sign(result) \in 0 .. 1
    BY <1>1, <1>3, PositionsAre, InWord DEF Sign, Top
  <2> QED BY <1>7, <1>8, <2>1, FlagTypes, Bits DEF Select, Toggle
<1>13. /\ new \in Flags /\ new.CF = cf /\ new.OF = of
       /\ new.SF = Select(flag.SF, cond, Sign(result))
       /\ new.ZF = status.ZF /\ new.PF = status.PF
  BY <1>10, <1>11, <1>12 DEF Flags
<1>14. Leave(new)
  BY <1>2 DEF status
<1> HIDE DEF new
<1>15. new.CF \in Native!Carries
  <2>1. Native!Shifted.c = cf
    BY <1>4, <1>7, <1>9
  <2> QED BY <1>1, <1>6, <1>13, <2>1 DEF Native!Carries
<1>16. new.OF \in Native!Overflows
  <2>1. Native!OverflowByOne = 0
    BY <1>1 DEF Native!OverflowByOne
  <2> QED BY <1>4, <1>9, <1>13, <2>1 DEF Native!Overflows
<1>17. Native!StatusOf(dst', new)
  <2>1. cond <=> Native!SetsStatus
    BY <1>1, <1>4 DEF Native!SetsStatus
  <2> QED BY <1>1, <1>3, <1>11, <1>13, <2>1, StatusMeans
<1> QED BY <1>1, <1>4, <1>6, <1>13, <1>14, <1>15, <1>16, <1>17, ShiftActs DEF n

(* SHLD and SHRD do what the processor does. *)
LEMMA DoubleNative ==
  ASSUME TypeOK, Shld \/ Shrd, Faithful
  PROVE  Native!Execute
<1> DEFINE n == Masked
           left == Shld
           cf == Select(flag.CF, n # 0, IF left THEN At(dst, Width - n) ELSE At(dst, n - 1))
           of == Select(flag.OF, n # 0, IF left THEN Xor1(Sign(dst'), Sign(dst)) ELSE Sign(dst))
           new == Status(n # 0, dst', cf, of)
<1>1. /\ insn # Idle /\ insn' = Idle /\ insn.op \in ShiftOps
      /\ insn.op = IF left THEN "shld" ELSE "shrd"
  BY DEF Shld, Shrd, Handle, ShiftOps
<1>2. Leave(new)
  BY DEF Shld, Shrd
<1>3. n \in Nat /\ n \in Int /\ dst \in BitWord /\ dst' \in BitWord /\ insn.src \in BitWord
  BY <1>1, Shapes, FlagTypes, DoubleType DEF TypeOK
<1>4. /\ Native!Amount = n /\ ("OF" \in insn.lost => ~ByOneOrNone)
      /\ (~left /\ n = 1 => insn.src[0] = 0)
  <2>1. insn.count = 0 => n = 0
    BY <1>1, FaithfulShifts
  <2> QED BY <1>1, <2>1, FaithfulShifts
<1>5. dst' \in Native!Results /\ (Native!Undefined <=> n > Width)
  BY <1>1, DoubleResult, ResultsAre
<1>6. n <= Width => Native!Results = {Native!Shifted.x}
  BY <1>1, <1>3, ResultsAre, PositionsAre
<1>7. n <= Width =>
        Native!Shifted.c = IF n = 0 THEN flag.CF
                           ELSE IF left THEN At(dst, Width - n) ELSE At(dst, n - 1)
  BY <1>1, ShldForm, ShrdForm
<1>8. ~left /\ n = 1 => Sign(dst') = 0
  <2> SUFFICES ASSUME ~left, n = 1 PROVE Top(dst') = 0
    BY DEF Sign
  <2>1. Shrd /\ insn.op = "shrd"
    BY <1>1
  <2>2. dst' = Or(Right(dst, n), Left(insn.src, Width - n))
    BY <2>1 DEF Shrd
  <2>3. Right(dst, n)[Width - 1] = 0
    <3>1. Width - 1 \in Positions /\ (Width - 1) + n \notin Positions /\ ~(n < 0)
      BY PositionsAre
    <3> HIDE DEF n
    <3> QED BY <3>1 DEF Right, At
  <2>4. Left(insn.src, Width - n)[Width - 1] = 0
    <3>1. /\ Width - 1 \in Positions /\ (Width - 1) - (Width - n) = 0 /\ ~(Width - n < 0)
          /\ 0 \in Positions
      BY PositionsAre
    <3> HIDE DEF n
    <3> QED BY <1>4, <3>1 DEF Left, At
  <2> HIDE DEF n
  <2>5. dst'[Width - 1] = Bit(FALSE)
    BY <2>2, <2>3, <2>4, PositionsAre DEF Or, Bit
  <2> QED BY <2>5 DEF Top, Bit
<1> HIDE DEF n, left
<1>9. /\ cf \in 0 .. 1 /\ of \in 0 .. 1
      /\ cf = (IF n = 0 THEN flag.CF ELSE IF left THEN At(dst, Width - n) ELSE At(dst, n - 1))
      /\ of = (IF n = 0 THEN flag.OF
               ELSE IF left THEN Xor1(Sign(dst'), Sign(dst)) ELSE Sign(dst))
  <2>1. /\ At(dst, Width - n) \in 0 .. 1 /\ At(dst, n - 1) \in 0 .. 1
        /\ Xor1(Sign(dst'), Sign(dst)) \in 0 .. 1 /\ Sign(dst) \in 0 .. 1
    BY <1>3, AtType, Bits, InWord, PositionsAre DEF Sign, Top
  <2> QED BY <2>1, FlagTypes, Bits DEF Select, Toggle
<1> HIDE DEF cf, of
<1>10. new \in Flags
  BY <1>3, <1>9, StatusType
<1>11. new.CF = cf /\ new.OF = of
       /\ new.SF = Select(flag.SF, n # 0, Sign(dst'))
       /\ new.ZF = Select(flag.ZF, n # 0, Zero(dst'))
       /\ new.PF = Select(flag.PF, n # 0, Parity(dst'))
  BY DEF Status
<1> HIDE DEF new
<1>12. ~Native!Undefined => new.CF \in Native!Carries
  <2> SUFFICES ASSUME n <= Width, ~Native!Undefined PROVE new.CF \in Native!Carries
    BY <1>3, <1>5, PositionsAre
  <2>1. Native!Shifted.c = cf
    BY <1>7, <1>9
  <2> QED BY <1>1, <1>11, <2>1 DEF Native!Carries
<1>13. ByOneOrNone => new.OF \in Native!Overflows
  <2> SUFFICES ASSUME n = 0 \/ n = 1 PROVE new.OF \in Native!Overflows
    BY DEF ByOneOrNone, n
  <2>1. dst' = Native!Shifted.x
    BY <1>5, <1>6, PositionsAre
  <2>2. Native!OverflowByOne = Xor1(Top(dst'), Top(dst))
    BY <1>1, <2>1, NativeBits DEF Native!OverflowByOne
  <2>3. n = 1 /\ ~left => Xor1(Top(dst'), Top(dst)) = Sign(dst)
    <3>1. Top(dst) \in 0 .. 1
      BY <1>3, InWord, PositionsAre DEF Top
    <3> QED BY <1>8, <3>1, Bits DEF Sign
  <2>4. n = 1 => of = Native!OverflowByOne
    BY <1>9, <2>2, <2>3 DEF Sign
  <2> QED BY <1>4, <1>9, <1>11, <2>4 DEF Native!Overflows
<1>14. Native!StatusOf(dst', new)
  <2>1. (n # 0) <=> Native!SetsStatus
    BY <1>1, <1>3, <1>4 DEF Native!SetsStatus
  <2> QED BY <1>3, <1>11, <2>1, StatusMeans
<1>15. Leave(new)
  BY <1>2 DEF new, cf, of, n
<1> QED BY <1>1, <1>4, <1>5, <1>10, <1>12, <1>13, <1>14, <1>15, ShiftActs DEF n

(* ROL and ROR do what the processor does. *)
LEMMA RotateNative ==
  ASSUME TypeOK, Rol \/ Ror, Faithful
  PROVE  Native!Execute
<1> DEFINE n == Masked
           b == IF Rol THEN RotateLeft(dst, insn.count)[0]
                ELSE Sign(RotateRight(dst, insn.count))
           cf == Toggle(flag.CF, insn.count # 0, b)
           new == [flag EXCEPT !.CF = cf]
<1>1. /\ insn # Idle /\ insn' = Idle /\ insn.op \in ShiftOps
      /\ insn.op = IF Rol THEN "rol" ELSE "ror"
  BY DEF Rol, Ror, Handle, ShiftOps
<1>2. Leave(new)
  BY DEF Rol, Ror
<1>3. n \in Nat /\ n \in Int /\ dst \in BitWord /\ insn.count \in Int
  BY <1>1, Shapes, FlagTypes
<1>4. /\ Native!Amount = n /\ ("OF" \in insn.lost => ~ByOneOrNone)
      /\ insn.count = 0 => n = 0
      /\ insn.count # 0 => n # 0 /\ n # 1 /\ flag.CF = 0
  <2>1. /\ Native!Amount = n /\ ("OF" \in insn.lost => ~ByOneOrNone)
        /\ insn.count = 0 => n = 0
        /\ insn.count = 0 \/ (~ByOneOrNone /\ flag.CF = 0)
    BY <1>1, FaithfulShifts
  <2> QED BY <2>1 DEF ByOneOrNone
<1>5. dst' \in Native!Results /\ ~Native!Undefined
  BY <1>1, RotateResult, ResultsAre
<1>6. Native!Shifted.c = IF n = 0 THEN flag.CF ELSE b
  BY <1>1, RolForm, RorForm
<1>7. b \in 0 .. 1
  <2>1. RotateLeft(dst, insn.count) \in BitWord /\ RotateRight(dst, insn.count) \in BitWord
    BY <1>3, WordTypes, Bits
  <2> QED BY <2>1, InWord, PositionsAre DEF Sign, Top
<1> HIDE DEF n, b
<1>8. cf \in 0 .. 1 /\ cf = Native!Shifted.c
  BY <1>4, <1>6, <1>7, FlagTypes, Bits DEF Toggle
<1> HIDE DEF cf
<1>9. /\ new \in Flags /\ new.CF = cf /\ new.OF = flag.OF
      /\ new.SF = flag.SF /\ new.ZF = flag.ZF /\ new.PF = flag.PF
  BY <1>8 DEF TypeOK, Flags
<1> HIDE DEF new
<1>10. new.CF \in Native!Carries
  BY <1>1, <1>5, <1>8, <1>9 DEF Native!Carries
<1>11. ByOneOrNone => new.OF \in Native!Overflows
  <2> SUFFICES ASSUME n = 0 \/ n = 1 PROVE new.OF \in Native!Overflows
    BY DEF ByOneOrNone, n
  <2> QED BY <1>4, <1>9 DEF Native!Overflows
<1>12. Native!StatusOf(dst', new)
  <2>1. ~Native!SetsStatus
    BY <1>1 DEF Native!SetsStatus
  <2> QED BY <1>9, <2>1 DEF Native!StatusOf
<1>13. Leave(new)
  BY <1>2 DEF new, cf, b
<1> QED BY <1>1, <1>4, <1>5, <1>9, <1>10, <1>11, <1>12, <1>13, ShiftActs DEF n

(* RCL and RCR do what the processor does. *)
LEMMA ThroughCarryNative ==
  ASSUME TypeOK, Rcl \/ Rcr, Faithful
  PROVE  Native!Execute
<1> DEFINE n == Masked
<1>1. insn # Idle /\ insn' = Idle /\ insn.op \in ShiftOps /\ insn.op = IF Rcl THEN "rcl" ELSE "rcr"
  BY DEF Rcl, Rcr, Handle, ShiftOps
<1>2. n \in Nat /\ n \in Int /\ dst \in BitWord /\ Width \in Int
  BY <1>1, Shapes, FlagTypes, PositionsAre
<1>3. /\ Native!Amount = n /\ ("OF" \in insn.lost => ~ByOneOrNone)
      /\ Rcl => n = 0
      /\ n # 1 /\ n <= Width
  <2>1. /\ Native!Amount = n /\ ("OF" \in insn.lost => ~ByOneOrNone)
        /\ n = 0 \/ (~Rcl /\ n # 1 /\ n <= Width)
    BY <1>1, FaithfulShifts
  <2> QED BY <2>1, PositionsAre
<1>4. dst' \in Native!Results /\ ~Native!Undefined
  <2>1. ~(n > Width + 1)
    BY <1>2, <1>3
  <2>2. ~WrongResult
    BY <1>1, <2>1 DEF WrongResult
  <2> QED BY <1>1, <2>2, ThroughCarryResult, ResultsAre
<1>5. Native!Shifted.c = IF n = 0 THEN flag.CF ELSE At(dst, n - 1)
  <2>1. n <= Width + 1
    BY <1>2, <1>3
  <2> QED BY <1>1, <1>3, <2>1, RclForm, RcrForm
<1>6. \E cf, of \in 0 .. 1 : /\ Leave([flag EXCEPT !.CF = cf, !.OF = of])
                             /\ cf = Native!Shifted.c /\ (n = 0 => of = flag.OF)
  <2>1. CASE Rcl
    <3> DEFINE cf == Toggle(flag.CF, n # 0 /\ Left(Number(Width), n)[0] = 1, dst[0])
               of == Toggle(flag.OF, n # 0, Xor1(cf, Sign(dst')))
    <3>1. Leave([flag EXCEPT !.CF = cf, !.OF = of])
      BY <2>1 DEF Rcl
    <3> HIDE DEF n
    <3>2. cf = flag.CF
      BY <1>3, <2>1 DEF Toggle
    <3>3. of = flag.OF
      <4> HIDE DEF cf
      <4> QED BY <1>3, <2>1 DEF Toggle
    <3> QED BY <1>3, <1>5, <2>1, <3>1, <3>2, <3>3, FlagTypes
  <2>2. CASE Rcr
    <3> DEFINE cf == Toggle(flag.CF, n # 0, Xor1(flag.CF, At(dst, n - 1)))
               of == Toggle(flag.OF, n # 0, Xor1(cf, Sign(dst)))
    <3>1. Leave([flag EXCEPT !.CF = cf, !.OF = of])
      BY <2>2 DEF Rcr
    <3> HIDE DEF n
    <3>2. cf = (IF n = 0 THEN flag.CF ELSE At(dst, n - 1)) /\ cf \in 0 .. 1
      BY <1>2, AtType, FlagTypes, Bits DEF Toggle
    <3> HIDE DEF cf
    <3>3. of \in 0 .. 1 /\ (n = 0 => of = flag.OF)
      BY FlagTypes, Bits DEF Toggle
    <3> QED BY <1>5, <3>1, <3>2, <3>3
  <2> QED BY <2>1, <2>2
<1>7. PICK cf \in 0 .. 1, of \in 0 .. 1 :
        /\ Leave([flag EXCEPT !.CF = cf, !.OF = of])
        /\ cf = Native!Shifted.c /\ (n = 0 => of = flag.OF)
  BY <1>6
<1> DEFINE new == [flag EXCEPT !.CF = cf, !.OF = of]
<1>8. /\ new \in Flags /\ new.CF = cf /\ new.OF = of
      /\ new.SF = flag.SF /\ new.ZF = flag.ZF /\ new.PF = flag.PF
  BY DEF TypeOK, Flags
<1>9. Leave(new)
  BY <1>7
<1> HIDE DEF new, n
<1>10. new.CF \in Native!Carries
  BY <1>1, <1>4, <1>7, <1>8 DEF Native!Carries
<1>11. ByOneOrNone => new.OF \in Native!Overflows
  <2> SUFFICES ASSUME n = 0 PROVE new.OF \in Native!Overflows
    BY <1>3 DEF ByOneOrNone, n
  <2> QED BY <1>3, <1>7, <1>8 DEF Native!Overflows
<1>12. Native!StatusOf(dst', new)
  <2>1. ~Native!SetsStatus
    BY <1>1 DEF Native!SetsStatus
  <2> QED BY <1>8, <2>1 DEF Native!StatusOf
<1> QED BY <1>1, <1>3, <1>4, <1>8, <1>9, <1>10, <1>11, <1>12, ShiftActs DEF n

(* The bit tests do what the processor does. *)
LEMMA BitTestNative ==
  ASSUME TypeOK, Bt \/ Btc \/ Btr \/ Bts
  PROVE  Native!Execute
<1> DEFINE i == insn.count % Width
<1>1. insn # Idle /\ insn' = Idle /\ insn.op \in TestOps
  BY DEF Bt, Btc, Btr, Bts, BitTest, Handle, TestOps
<1>2. i \in Positions
  BY <1>1, Shapes, BitWordsAssumption, Division DEF Positions
<1>3. Leave([flag EXCEPT !.CF = dst[i]])
  BY DEF Bt, Btc, Btr, Bts, BitTest
<1>4. dst' = [dst EXCEPT ![i] = CASE insn.op = "bt"  -> @
                                  [] insn.op = "btc" -> 1 - @
                                  [] insn.op = "btr" -> 0
                                  [] insn.op = "bts" -> 1]
  BY DEF Bt, Btc, Btr, Bts, BitTest, Handle
<1>5. [flag EXCEPT !.CF = dst[i]] \in Flags
  <2> HIDE DEF i
  <2>1. dst[i] \in 0 .. 1
    BY <1>2, FlagTypes, InWord
  <2> QED BY <2>1 DEF TypeOK, Flags
<1> DEFINE new == [flag EXCEPT !.CF = dst[i]]
<1>6. new.CF = dst[i] /\ new.ZF = flag.ZF
  BY DEF TypeOK, Flags
<1>7. new \in Flags /\ Leave(new)
  BY <1>3, <1>5
<1> HIDE DEF new, i
<1>8. insn.lost \subseteq FlagNames /\ "CF" \notin insn.lost /\ "ZF" \notin insn.lost
  BY <1>1, LostNames
<1>9. flag' \in Flags /\ flag'.CF = dst[i] /\ flag'.ZF = flag.ZF
  BY <1>6, <1>7, <1>8, LeaveGives
<1>10. Native!BitTest
  BY <1>1, <1>4, <1>9, NativeBits DEF Native!BitTest, i
<1> QED BY <1>1, <1>10, NativeBits DEF Native!Execute

(* BSF and BSR do what the processor does. *)
LEMMA BitScanNative ==
  ASSUME TypeOK, Bsf \/ Bsr
  PROVE  Native!Execute
<1> DEFINE set == {i \in Positions : insn.src[i] = 1}
           low == CHOOSE k \in set : \A i \in set : k <= i
           high == CHOOSE k \in set : \A i \in set : k >= i
<1>1. /\ insn # Idle /\ insn' = Idle /\ insn.op \in ScanOps
      /\ insn.op = IF Bsf THEN "bsf" ELSE "bsr"
  BY DEF Bsf, Bsr, BitScan, Handle, ScanOps
<1>2. dst' \in BitWord
  BY BitScanType DEF TypeOK
<1>3. ASSUME NEW k \in set, IF insn.op = "bsf" THEN \A i \in set : k <= i ELSE \A i \in set : i <= k
      PROVE  dst' = Number(k)
  <2>1. set # {} /\ set \in SUBSET Positions
    BY <1>3
  <2>2. dst' = Number(IF Bsf THEN low ELSE high)
    BY <2>1 DEF Bsf, Bsr, BitScan
  <2>3. /\ \E j \in set : \A i \in set : j <= i
        /\ \E j \in set : \A i \in set : j >= i
    <3> HIDE DEF set
    <3> QED BY <2>1, Extremes
  <2>4. /\ low \in set /\ \A i \in set : low <= i
        /\ high \in set /\ \A i \in set : high >= i
    <3> HIDE DEF set
    <3> QED BY <2>3
  <2>5. \A i \in set : i \in Int
    BY PositionsAre
  <2> HIDE DEF set, low, high
  <2>6. k = IF Bsf THEN low ELSE high
    BY <1>1, <1>3, <2>4, <2>5
  <2> QED BY <2>2, <2>6
<1> DEFINE new == [flag EXCEPT !.ZF = Bit(set = {})]
<1>4. new.ZF = Bit(set = {}) /\ new \in Flags /\ Leave(new)
  <2>1. Bit(set = {}) \in 0 .. 1
    BY Bits
  <2>2. Leave(new)
    BY DEF Bsf, Bsr, BitScan
  <2> HIDE DEF set
  <2> QED BY <2>1, <2>2 DEF TypeOK, Flags
<1> HIDE DEF new
<1>5. insn.lost \subseteq FlagNames /\ "ZF" \notin insn.lost
  BY <1>1, LostNames
<1>6. flag' \in Flags /\ flag'.ZF = Bit(set = {})
  <2> HIDE DEF set
  <2> QED BY <1>4, <1>5, LeaveGives
<1>7. Native!BitScan
  <2>1. set = {i \in Native!Positions : insn.src[i] = 1}
    BY NativeBits
  <2> HIDE DEF set
  <2> QED BY <1>1, <1>2, <1>3, <1>6, <2>1, NativeBits DEF Native!BitScan
<1> QED BY <1>1, <1>7, NativeBits DEF Native!Execute

(* RCL leaves the carry as it was, so the processor's is lost when it is     *)
(* another one.                                                            *)
LEMMA CarryStays ==
  ASSUME TypeOK, Execute, CarryMoves
  PROVE  ~Native!Execute
<1>1. insn # Idle /\ insn.op = "rcl" /\ insn.lost \subseteq {"OF"} /\ Rcl
  <2>1. insn.op = "rcl"
    BY DEF CarryMoves
  <2>2. \/ Shl \/ Shr \/ Sar \/ Shld \/ Shrd \/ Rol \/ Ror \/ Rcl \/ Rcr
    BY <2>1 DEF Execute, Bt, Btc, Btr, Bts, BitTest, Bsf, Bsr, BitScan, Handle
  <2>3. Rcl
    BY <2>1, <2>2 DEF Shl, Shr, Sar, Shld, Shrd, Rol, Ror, Rcr, Handle
  <2>4. insn # Idle
    BY <2>3 DEF Rcl, Handle
  <2> QED BY <2>1, <2>3, <2>4, LostNames DEF ShiftOps
<1> DEFINE n == Masked
           mask == Left(Number(Width), n)
           cf == Toggle(flag.CF, n # 0 /\ mask[0] = 1, dst[0])
           of == Toggle(flag.OF, n # 0, Xor1(cf, Sign(dst')))
<1>2. Leave([flag EXCEPT !.CF = cf, !.OF = of])
  BY <1>1 DEF Rcl
<1>3. n \in Nat
  BY <1>1, Shapes
<1>4. n # 0 => mask[0] = 0
  <2> HIDE DEF n
  <2>1. 0 \in Positions /\ (n # 0 => 0 - n \notin Positions)
    BY <1>3, PositionsAre
  <2> QED BY <1>3, <2>1 DEF Left, At
<1>5. cf = flag.CF
  <2> HIDE DEF n, mask
  <2> QED BY <1>4 DEF Toggle
<1>6. flag'.CF = flag.CF
  <2>1. cf \in 0 .. 1 /\ of \in 0 .. 1 /\ insn.lost \subseteq FlagNames
    <3> HIDE DEF n, mask
    <3> QED BY <1>1, <1>5, FlagTypes, TogglesType DEF FlagNames
  <2> HIDE DEF cf, of
  <2> DEFINE new == [flag EXCEPT !.CF = cf, !.OF = of]
  <2>2. new \in Flags /\ new.CF = cf
    BY <2>1 DEF TypeOK, Flags
  <2> HIDE DEF new
  <2>3. flag'.CF = new.CF
    BY <1>1, <1>2, <2>1, <2>2, LeaveGives DEF new
  <2> QED BY <1>5, <2>2, <2>3
<1>7. ASSUME Native!Execute
      PROVE  flag'.CF \in Native!Carries
  BY <1>1, <1>7, NativeBits DEF Native!Execute, Native!Shift, Native!BitTest, Native!BitScan,
     TestOps, ScanOps
<1>8. Native!Carries = {Native!Shifted.c}
  BY <1>1 DEF Native!Carries, Native!Undefined
<1> QED BY <1>6, <1>7, <1>8 DEF CarryMoves

(* Shifts, rotates, bit tests and scans and their lifted forms leave the   *)
(* same operand and flags wherever Faithful holds, and RCL does not when    *)
(* the carry moves, for every width, operand and amount                     *)
(* (arithmetic.cpp:51-77, 585-739, 843-876, flags.cpp:145-208).            *)
THEOREM ShiftsActAsNative == Spec => ActsAsNative
<1>1. TypeOK /\ [Next]_vars
        => [insn # Idle => /\ Faithful => Native!Execute
                           /\ CarryMoves => ~Native!Execute]_vars
  <2> SUFFICES ASSUME TypeOK, Next, insn # Idle
               PROVE  /\ Faithful => Native!Execute
                      /\ CarryMoves => ~Native!Execute
    OBVIOUS
  <2>1. Execute
    BY DEF Next, Fetch
  <2>2. Faithful => Native!Execute
    BY <2>1, ShlNative, ShrNative, SarNative, DoubleNative, RotateNative,
       ThroughCarryNative, BitTestNative, BitScanNative DEF Execute
  <2>3. CarryMoves => ~Native!Execute
    BY <2>1, CarryStays
  <2> QED BY <2>2, <2>3
<1> QED BY <1>1, ShiftTypes, PTL DEF Spec, ActsAsNative
=============================================================================
