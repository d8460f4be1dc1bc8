------------------------------ MODULE BitWords ------------------------------
(***************************************************************************)
(* Words as functions from bit positions, for the instructions that move   *)
(* bits about: shifts, rotates, bit tests and bit scans.  Common ground of *)
(* the processor and of VTIL.                                              *)
(***************************************************************************)
EXTENDS Integers, FiniteSets

CONSTANTS
  Width,      \* bits in the operands: 8, 16, 32 or 64
  Turn,       \* counts are taken modulo this: 64 for 64 bits, else 32
  Counts      \* the counts that occur, immediate or in CL

Positions == 0 .. Width - 1
BitWord == [Positions -> 0 .. 1]

Zeros == [i \in Positions |-> 0]
Ones == [i \in Positions |-> 1]

ShiftOps == {"shl", "shr", "sar", "shld", "shrd", "rol", "ror", "rcl", "rcr"}
TestOps == {"bt", "btc", "btr", "bts"}
ScanOps == {"bsf", "bsr"}

Flags == [CF : 0 .. 1, OF : 0 .. 1, SF : 0 .. 1, ZF : 0 .. 1, PF : 0 .. 1]

(* The flags an instruction may be listed with as undefined after it, if it *)
(* is listed with any.  The lists are the disassembler's and go by opcode,  *)
(* not by count.                                                           *)
MayLose(op) ==
  CASE op \in ShiftOps -> {"OF"}
    [] op \in TestOps  -> {"OF", "SF", "PF"}
    [] op \in ScanOps  -> {"CF", "OF", "SF", "PF"}

(* An instruction with its second register, if it has one. *)
Insn ==
  UNION {[op : {op},
          count : IF op \in ScanOps THEN {0} ELSE Counts,
          src : IF op \in {"shld", "shrd"} \cup ScanOps THEN BitWord ELSE {Zeros},
          lost : {{}, MayLose(op)}] : op \in ShiftOps \cup TestOps \cup ScanOps}

ASSUME BitWordsAssumption ==
  /\ Width \in Nat /\ Width > 1
  /\ Turn \in Nat /\ Turn >= Width /\ Turn % Width = 0
  /\ Counts \subseteq Nat

(* No instruction: the machine is between two of them. *)
Idle == [op |-> "idle"]

Bit(p) == IF p THEN 1 ELSE 0
Xor1(a, b) == Bit(a # b)

Top(x) == x[Width - 1]

(* The low bit of x >> i: bits that are not there are 0. *)
At(x, i) == IF i \in Positions THEN x[i] ELSE 0

(* x << n and x >> n.  An amount below zero is a huge one: it was computed *)
(* by a subtraction of unsigned words.                                     *)
Left(x, n) == [i \in Positions |-> IF n < 0 THEN 0 ELSE At(x, i - n)]
Right(x, n) == [i \in Positions |-> IF n < 0 THEN 0 ELSE At(x, i + n)]

RotateLeft(x, n) == [i \in Positions |-> x[(i - n) % Width]]
RotateRight(x, n) == [i \in Positions |-> x[(i + n) % Width]]

Or(x, y) == [i \in Positions |-> Bit(x[i] = 1 \/ y[i] = 1)]

(* The word that holds bit b at position 0 and nothing else. *)
Only(b) == [i \in Positions |-> IF i = 0 THEN b ELSE 0]

(* What a bit counts for, and the word that holds the number k. *)
Place[i \in Positions] == IF i = 0 THEN 1 ELSE 2 * Place[i - 1]
Number(k) == [i \in Positions |-> (k \div Place[i]) % 2]
=============================================================================
