------------------------------- MODULE Words -------------------------------
(***************************************************************************)
(* Machine words of one width, the registers and flags that hold them, and *)
(* the instructions the semantics modules are about.  A word of W bits is  *)
(* a number below 2^W; Half is 2^(W-1), the least word whose top bit is    *)
(* set.  Everything here is common ground of the processor and of VTIL.    *)
(***************************************************************************)
EXTENDS Integers

CONSTANTS
  Half,                     \* 2^(W-1)
  Regs,                     \* the registers, each of the width of the words
  Rcx,                      \* the one that counts loops
  Insns,                    \* the instructions that may be executed
  BitAnd(_, _), BitOr(_, _), BitXor(_, _), Popcnt(_)

Mod == 2 * Half
Word == 0 .. Mod - 1

Conditions ==
  {"o", "no", "b", "ae", "e", "ne", "be", "a",
   "s", "ns", "p", "np", "l", "ge", "le", "g"}

Ops ==
  {"add", "sub", "and", "or", "xor", "adc", "sbb", "cmp", "test", "inc",
   "dec", "neg", "not", "mov", "xchg", "clc", "stc", "cmc", "set", "cmov",
   "jcc", "jrcxz", "loop", "loope", "loopne"}

(* cc is the condition of jcc, set and cmov; the others do not look at it. *)
Insn == [op : Ops, cc : Conditions, dst : Regs, src : Regs]

Flags == [CF : 0 .. 1, OF : 0 .. 1, SF : 0 .. 1, ZF : 0 .. 1, PF : 0 .. 1]

ASSUME WordsAssumption ==
  /\ Half \in Nat /\ Half > 1
  /\ Rcx \in Regs
  /\ Insns \subseteq Insn

ASSUME BitwiseAssumption ==
  /\ \A x, y \in Word : BitAnd(x, y) \in Word
  /\ \A x, y \in Word : BitOr(x, y) \in Word
  /\ \A x, y \in Word : BitXor(x, y) \in Word
  /\ \A x \in Word : BitAnd(x, x) = x /\ BitOr(x, 0) = x /\ BitOr(0, x) = x

(* No instruction: the machine is between two of them. *)
Idle == [op |-> "idle"]

Bit(p) == IF p THEN 1 ELSE 0

(* A sum or difference of two words, and a carry, brought back into range. *)
Wrap(n) == IF n < 0 THEN n + Mod ELSE IF n >= Mod THEN n - Mod ELSE n

Signed(v) == IF v < Half THEN v ELSE v - Mod
=============================================================================
