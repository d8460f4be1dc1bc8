---------------------------- MODULE NativeShifts ----------------------------
(***************************************************************************)
(* What the processor does with shifts, rotates, bit tests and bit scans:  *)
(* the reference for LiftedShifts.  A shift or rotate by n is n times the  *)
(* shift or rotate by one; the carry is the bit that went out last.  What  *)
(* the processor leaves undefined may be anything.                         *)
(***************************************************************************)
EXTENDS BitWords

VARIABLES dst, flag, insn

Masked == insn.count % Turn

(* Rotates through the carry turn a ring of Width + 1 bits. *)
Amount == IF insn.op \in {"rcl", "rcr"} THEN Masked % (Width + 1) ELSE Masked

(* One bit: x is what is shifted, y what is shifted in, c the carry. *)
PushLeft(x, b) == [i \in Positions |-> IF i = 0 THEN b ELSE x[i - 1]]
PushRight(x, b) == [i \in Positions |-> IF i = Width - 1 THEN b ELSE x[i + 1]]

InFromRight(op, s) ==
  CASE op = "shl"  -> 0
    [] op = "shld" -> Top(s.y)
    [] op = "rol"  -> Top(s.x)
    [] op = "rcl"  -> s.c

InFromLeft(op, s) ==
  CASE op = "shr"  -> 0
    [] op = "sar"  -> Top(s.x)
    [] op = "shrd" -> s.y[0]
    [] op = "ror"  -> s.x[0]
    [] op = "rcr"  -> s.c

ByOne(op, s) ==
  IF op \in {"shl", "shld", "rol", "rcl"}
    THEN [x |-> PushLeft(s.x, InFromRight(op, s)),
          y |-> PushLeft(s.y, 0), c |-> Top(s.x)]
    ELSE [x |-> PushRight(s.x, InFromLeft(op, s)),
          y |-> PushRight(s.y, 0), c |-> s.x[0]]

Shifted ==
  LET after[n \in 0 .. Turn] ==
        IF n = 0 THEN [x |-> dst, y |-> insn.src, c |-> flag.CF]
                 ELSE ByOne(insn.op, after[n - 1])
  IN after[Amount]

(* A double shift by more than the width is undefined altogether. *)
Undefined == insn.op \in {"shld", "shrd"} /\ Amount > Width

Results == IF Undefined THEN BitWord ELSE {Shifted.x}

Carries ==
  IF Undefined \/ (insn.op \in {"shl", "shr"} /\ Amount >= Width /\ Amount > 0)
    THEN 0 .. 1
    ELSE {Shifted.c}

(* OF is defined for amounts of one only, and left alone by those of zero. *)
OverflowByOne ==
  CASE insn.op \in {"shl", "shld", "shrd"} -> Xor1(Top(Shifted.x), Top(dst))
    [] insn.op = "shr" -> Top(dst)
    [] insn.op = "sar" -> 0
    [] insn.op \in {"rol", "rcl"} -> Xor1(Top(Shifted.x), Shifted.c)
    [] insn.op \in {"ror", "rcr"} -> Xor1(Top(Shifted.x), Shifted.x[Width - 2])

Overflows ==
  IF Amount = 0 THEN {flag.OF}
  ELSE IF Amount = 1 THEN {OverflowByOne} ELSE 0 .. 1

Ones8(x) == Cardinality({i \in Positions : i < 8 /\ x[i] = 1})

(* SF, ZF and PF tell of the result of a shift by more than zero; rotates   *)
(* leave them alone.                                                       *)
SetsStatus == insn.op \in {"shl", "shr", "sar", "shld", "shrd"} /\ Amount > 0

StatusOf(x, f) ==
  /\ f.SF = IF SetsStatus THEN Top(x) ELSE flag.SF
  /\ f.ZF = IF SetsStatus THEN Bit(x = Zeros) ELSE flag.ZF
  /\ f.PF = IF SetsStatus THEN Bit(Ones8(x) % 2 = 0) ELSE flag.PF

Shift ==
  /\ insn.op \in ShiftOps
  /\ dst' \in Results
  /\ flag' \in Flags
  /\ flag'.CF \in Carries
  /\ Undefined \/ flag'.OF \in Overflows
  /\ Undefined \/ StatusOf(dst', flag')

(* Bit tests: the bit asked for goes to CF and is then kept, complemented,  *)
(* cleared or set.  OF, SF and PF are undefined.                           *)
BitTest ==
  LET i == insn.count % Width IN
  /\ insn.op \in TestOps
  /\ dst' = [dst EXCEPT ![i] = CASE insn.op = "bt"  -> @
                                 [] insn.op = "btc" -> 1 - @
                                 [] insn.op = "btr" -> 0
                                 [] insn.op = "bts" -> 1]
  /\ flag' \in Flags /\ flag'.CF = dst[i] /\ flag'.ZF = flag.ZF

(* Bit scans: the position of the lowest or highest bit set.  Of a source   *)
(* without one the result is undefined; so are all flags but ZF.           *)
BitScan ==
  LET set == {i \in Positions : insn.src[i] = 1} IN
  /\ insn.op \in ScanOps
  /\ dst' \in BitWord
  /\ \A k \in set :
       (IF insn.op = "bsf" THEN \A i \in set : k <= i ELSE \A i \in set : i <= k)
         => dst' = Number(k)
  /\ flag' \in Flags /\ flag'.ZF = Bit(set = {})

Execute ==
  /\ insn # Idle
  /\ Shift \/ BitTest \/ BitScan
  /\ insn' = Idle
=============================================================================
