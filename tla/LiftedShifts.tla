---------------------------- MODULE LiftedShifts ----------------------------
(***************************************************************************)
(* What the VTIL emitted for shifts, rotates, bit tests and bit scans does *)
(* to a register of Width bits: the handlers of semantic/arithmetic.cpp    *)
(* (SHL, SAL .. RCR, BSF, BSR) and semantic/flags.cpp (BT and its kin).    *)
(* The handlers put a flag f under a condition by `bxor f, cond & x`: x is *)
(* what is added to the old flag, not the new one.                         *)
(*                                                                         *)
(* AF is left out: the handlers leave it alone.                            *)
(***************************************************************************)
EXTENDS BitWords

VARIABLES
  dst,      \* the first operand
  flag,
  insn

vars == <<dst, flag, insn>>

Init ==
  /\ dst \in BitWord
  /\ flag \in Flags
  /\ insn = Idle

Fetch ==
  /\ insn = Idle
  /\ insn' \in Insn
  /\ UNCHANGED <<dst, flag>>

Handle(op) == insn # Idle /\ insn.op = op /\ insn' = Idle

(* The flags are new, but for those process() then calls undefined. *)
Leave(new) ==
  \E f \in [insn.lost -> 0 .. 1] :
    flag' = [k \in DOMAIN new |-> IF k \in insn.lost THEN f[k] ELSE new[k]]

Masked == insn.count % Turn

Sign(x) == Top(x)
Zero(x) == Bit(x = Zeros)
Parity(x) == Bit(Cardinality({i \in Positions : i < 8 /\ x[i] = 1}) % 2 = 0)

(* Mutation: the handlers add. *)
ToggleByAdd(f, cond, x) == IF cond THEN f + x ELSE f

(* bxor(f, cond & x), and what the handlers mostly mean by it: x is the old *)
(* flag xor the new one.                                                   *)
Toggle(f, cond, x) == IF cond THEN Xor1(f, x) ELSE f
Select(f, cond, new) == Toggle(f, cond, Xor1(f, new))

(* The flags after a shift to result, under the condition. *)
Status(cond, result, cf, of) ==
  [CF |-> cf, OF |-> of,
   SF |-> Select(flag.SF, cond, Sign(result)),
   ZF |-> Select(flag.ZF, cond, Zero(result)),
   PF |-> Select(flag.PF, cond, Parity(result))]

(* Mutation: the bit next to the last one shifted out. *)
ShlBesides ==
  LET n == Masked
      result == Left(dst, n)
      of == Select(flag.OF, n # 0, Xor1(Sign(result), Sign(dst)))
  IN /\ Handle("shl")
     /\ dst' = result
     /\ \E o \in IF n > 1 THEN 0 .. 1 ELSE {of} :
          Leave(Status(n # 0, result,
                         Select(flag.CF, n # 0, At(dst, Width - n - 1)), o))

(* SHL and SAL.  After a shift by more than one OF has UNDEFINED added. *)
Shl ==
  LET n == Masked
      result == Left(dst, n)
      of == Select(flag.OF, n # 0, Xor1(Sign(result), Sign(dst)))
  IN /\ Handle("shl")
     /\ dst' = result
     /\ \E o \in IF n > 1 THEN 0 .. 1 ELSE {of} :
          Leave(Status(n # 0, result,
                         Select(flag.CF, n # 0, At(dst, Width - n)), o))

(* SHR and SAR go by the count as it is given, not by the masked one. *)
Shr ==
  LET cond == insn.count # 0
      result == Right(dst, Masked)
  IN /\ Handle("shr")
     /\ dst' = result
     /\ Leave(Status(cond, result, Select(flag.CF, cond, dst[0]),
                       Select(flag.OF, cond, Sign(dst))))

(* The sign is put back into the top bit after a shift that brings zeros   *)
(* in.  The mask for it has 64 bits; if VTIL makes the result as wide, the *)
(* sign taken of it is 0.                                                  *)
Sar ==
  LET cond == insn.count # 0
      top == [i \in Positions |-> IF i = Width - 1 THEN dst[i] ELSE 0]
      result == Or(Right(dst, Masked), top)
      new == Status(cond, result, Select(flag.CF, cond, dst[0]),
                    Toggle(flag.OF, cond, flag.OF))
  IN /\ Handle("sar")
     /\ dst' = result
     /\ \E sign \in {0, Sign(result)} :
          Leave([new EXCEPT !.SF = Select(flag.SF, cond, sign)])

Shld ==
  LET n == Masked
      result == Or(Left(dst, n), Right(insn.src, Width - n))
  IN /\ Handle("shld")
     /\ dst' = result
     /\ Leave(Status(n # 0, result, Select(flag.CF, n # 0, At(dst, Width - n)),
                       Select(flag.OF, n # 0, Xor1(Sign(result), Sign(dst)))))

Shrd ==
  LET n == Masked
      result == Or(Right(dst, n), Left(insn.src, Width - n))
  IN /\ Handle("shrd")
     /\ dst' = result
     /\ Leave(Status(n # 0, result, Select(flag.CF, n # 0, At(dst, n - 1)),
                       Select(flag.OF, n # 0, Sign(dst))))

(* brol and bror take any count. *)
Rol ==
  LET result == RotateLeft(dst, insn.count) IN
  /\ Handle("rol")
  /\ dst' = result
  /\ Leave([flag EXCEPT !.CF = Toggle(@, insn.count # 0, result[0])])

Ror ==
  LET result == RotateRight(dst, insn.count) IN
  /\ Handle("ror")
  /\ dst' = result
  /\ Leave([flag EXCEPT !.CF = Toggle(@, insn.count # 0, Sign(result))])

(* Mutation: the ring has no place for the carry. *)
RclShort ==
  LET n == Masked
      result == Or(Or(Left(dst, n), Right(dst, Width - n)),
                   Left(Only(flag.CF), n - 1))
      cf == Toggle(flag.CF, n # 0 /\ Left(Number(Width), n)[0] = 1, dst[0])
  IN /\ Handle("rcl")
     /\ dst' = result
     /\ Leave([flag EXCEPT !.CF = cf,
                             !.OF = Toggle(@, n # 0, Xor1(cf, Sign(result)))])

(* What RCL adds to the carry is the low bit of lhs & (bit_count << count), *)
(* and the OF of both rotates is computed from the carry just written.     *)
Rcl ==
  LET n == Masked
      result == Or(Or(Left(dst, n), Right(dst, Width - n + 1)),
                   Left(Only(flag.CF), n - 1))
      cf == Toggle(flag.CF, n # 0 /\ Left(Number(Width), n)[0] = 1, dst[0])
  IN /\ Handle("rcl")
     /\ dst' = result
     /\ Leave([flag EXCEPT !.CF = cf,
                             !.OF = Toggle(@, n # 0, Xor1(cf, Sign(result)))])

Rcr ==
  LET n == Masked
      result == Or(Or(Right(dst, n), Left(dst, Width - n + 1)),
                   Left(Only(flag.CF), Width - n))
      cf == Toggle(flag.CF, n # 0, Xor1(flag.CF, At(dst, n - 1)))
  IN /\ Handle("rcr")
     /\ dst' = result
     /\ Leave([flag EXCEPT !.CF = cf,
                             !.OF = Toggle(@, n # 0, Xor1(cf, Sign(dst)))])

(* simple_bt, and what its four users store. *)
BitTest(op, new(_)) ==
  LET i == insn.count % Width IN
  /\ Handle(op)
  /\ dst' = [dst EXCEPT ![i] = new(@)]
  /\ Leave([flag EXCEPT !.CF = dst[i]])

Bt == BitTest("bt", LAMBDA b : b)
Btc == BitTest("btc", LAMBDA b : 1 - b)
Btr == BitTest("btr", LAMBDA b : 0)
Bts == BitTest("bts", LAMBDA b : 1)

(* bsf and bsr of VTIL count positions from one and give zero for none; the *)
(* handlers subtract one.                                                  *)
BitScan(op, Found(_, _)) ==
  LET set == {i \in Positions : insn.src[i] = 1} IN
  /\ Handle(op)
  /\ dst' = IF set = {} THEN Ones
            ELSE Number(CHOOSE k \in set : \A i \in set : Found(k, i))
  /\ Leave([flag EXCEPT !.ZF = Bit(set = {})])

Bsf == BitScan("bsf", LAMBDA k, i : k <= i)
Bsr == BitScan("bsr", LAMBDA k, i : k >= i)

Execute ==
  \/ Shl \/ Shr \/ Sar \/ Shld \/ Shrd \/ Rol \/ Ror \/ Rcl \/ Rcr
  \/ Bt \/ Btc \/ Btr \/ Bts \/ Bsf \/ Bsr

Next == Fetch \/ Execute

Spec == Init /\ [][Next]_vars

-----------------------------------------------------------------------------
Native == INSTANCE NativeShifts

(* Operands hold bits and flags are bits: a flag that is toggled stays one. *)
TypeOK ==
  /\ dst \in BitWord
  /\ flag \in Flags
  /\ insn \in Insn \cup {Idle}

(* A result is wrong in two cases only, and then always: SAR of a negative  *)
(* word by more than one brings zeros in under the sign, and RCL or RCR of  *)
(* a narrow operand by more than the ring has places gives zero, because    *)
(* the handlers do not reduce the count by the ring (arithmetic.cpp:611,    *)
(* 712, 730).  Every other shift, rotate, test and scan leaves a result the *)
(* processor may leave, whatever the count.                                *)
WrongResult ==
  \/ insn.op = "sar" /\ Sign(dst) = 1 /\ Masked > 1
  \/ /\ insn.op \in {"rcl", "rcr"} /\ Masked > Width + 1
     /\ Native!Shifted.x # Zeros

ResultsFollow ==
  [][insn # Idle /\ insn.op \in ShiftOps
       => (dst' \in Native!Results <=> ~WrongResult)]_vars

(* When flags and result all are the processor's.  SHL, SHLD, SHR and SAR   *)
(* by one bit, bit tests and scans keep every flag right that is not listed *)
(* as lost; rotates do so only from a clear carry, and the ones through the *)
(* carry only from left to right; a count of zero changes nothing.          *)
ByOneOrNone == Masked \in {0, 1}

Faithful ==
  \/ insn.op \in TestOps \cup ScanOps
  \/ /\ "OF" \in insn.lost => ~ByOneOrNone
     /\ \/ insn.count = 0
        \/ insn.op \in {"shl", "shld"}
        \/ insn.op = "shr" /\ Masked = 1
        \/ insn.op = "sar" /\ Masked = 1 /\ Sign(dst) = 0
        \/ insn.op = "shrd" /\ (Masked = 1 => insn.src[0] = 0)
        \/ insn.op \in {"rol", "ror"} /\ ~ByOneOrNone /\ flag.CF = 0
        \/ insn.op = "rcl" /\ Masked = 0
        \/ insn.op = "rcr" /\ Masked # 1 /\ Masked <= Width

(* The carry that goes round in RCL is another one than before: the mask    *)
(* that should pick it has no low bit (arithmetic.cpp:713).                *)
CarryMoves == insn.op = "rcl" /\ Native!Shifted.c # flag.CF

(* The lifted code acts as the processor wherever Faithful says so, and     *)
(* never when the carry moves through RCL.                                 *)
(* (arithmetic.cpp:53-77, 584-739, 843-876; flags.cpp:145-208)             *)
ActsAsNative ==
  [][insn # Idle => /\ Faithful => Native!Execute
                    /\ CarryMoves => ~Native!Execute]_vars
=============================================================================
