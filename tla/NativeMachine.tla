--------------------------- MODULE NativeMachine ---------------------------
(***************************************************************************)
(* What the processor does: the reference the lifter has to meet.  It is   *)
(* the machine NativeLifters-Tests/fuzzer.hpp runs the input on beside the *)
(* lifted routine, to compare registers and flags afterwards.  Carry and   *)
(* overflow are stated by what they mean: the exact result is not          *)
(* representable as a word, or as a signed word.                           *)
(***************************************************************************)
EXTENDS Words

VARIABLES
  reg,      \* the registers
  flag,     \* the status flags
  branch,   \* where the last instruction left off: the next one or its target
  insn      \* the instruction to execute, or Idle

vars == <<reg, flag, branch, insn>>

Init ==
  /\ reg \in [Regs -> Word]
  /\ flag \in Flags
  /\ branch = "next"
  /\ insn = Idle

(* The next instruction of the input. *)
Fetch ==
  /\ insn = Idle
  /\ insn' \in Insns
  /\ branch' = "next"
  /\ UNCHANGED <<reg, flag>>

(***************************************************************************)
(* Flags.                                                                  *)
(***************************************************************************)
Status(cf, of, v) ==
  [CF |-> cf, OF |-> of, SF |-> Bit(Signed(v) < 0), ZF |-> Bit(v = 0),
   PF |-> Bit(Popcnt(v % 256) % 2 = 0)]

FitsSigned(n) == -Half <= n /\ n < Half

Sum(a, b, c) ==
  Status(Bit(a + b + c >= Mod),
         Bit(~FitsSigned(Signed(a) + Signed(b) + c)),
         Wrap(a + b + c))

Difference(a, b, c) ==
  Status(Bit(a < b + c),
         Bit(~FitsSigned(Signed(a) - Signed(b) - c)),
         Wrap(a - b - c))

(* Does condition c hold of flags f? *)
Holds(c, f) ==
  CASE c = "o"  -> f.OF = 1
    [] c = "no" -> f.OF = 0
    [] c = "b"  -> f.CF = 1
    [] c = "ae" -> f.CF = 0
    [] c = "e"  -> f.ZF = 1
    [] c = "ne" -> f.ZF = 0
    [] c = "be" -> f.CF = 1 \/ f.ZF = 1
    [] c = "a"  -> ~(f.CF = 1 \/ f.ZF = 1)
    [] c = "s"  -> f.SF = 1
    [] c = "ns" -> f.SF = 0
    [] c = "p"  -> f.PF = 1
    [] c = "np" -> f.PF = 0
    [] c = "l"  -> f.SF # f.OF
    [] c = "ge" -> f.SF = f.OF
    [] c = "le" -> f.ZF = 1 \/ f.SF # f.OF
    [] c = "g"  -> ~(f.ZF = 1 \/ f.SF # f.OF)

(***************************************************************************)
(* The registers, the flags and the branch after insn.                     *)
(***************************************************************************)
Registers ==
  LET a == reg[insn.dst]
      b == reg[insn.src]
      Put(v) == [reg EXCEPT ![insn.dst] = v]
  IN CASE insn.op = "add"  -> Put(Wrap(a + b))
       [] insn.op = "adc"  -> Put(Wrap(a + b + flag.CF))
       [] insn.op = "sub"  -> Put(Wrap(a - b))
       [] insn.op = "sbb"  -> Put(Wrap(a - b - flag.CF))
       [] insn.op = "and"  -> Put(BitAnd(a, b))
       [] insn.op = "or"   -> Put(BitOr(a, b))
       [] insn.op = "xor"  -> Put(BitXor(a, b))
       [] insn.op = "inc"  -> Put(Wrap(a + 1))
       [] insn.op = "dec"  -> Put(Wrap(a - 1))
       [] insn.op = "neg"  -> Put(Wrap(0 - a))
       [] insn.op = "not"  -> Put(Mod - 1 - a)
       [] insn.op = "mov"  -> Put(b)
       [] insn.op = "xchg" -> [Put(b) EXCEPT ![insn.src] = a]
       [] insn.op = "set"  -> Put(Bit(Holds(insn.cc, flag)))
       [] insn.op = "cmov" -> IF Holds(insn.cc, flag) THEN Put(b) ELSE reg
       [] insn.op \in {"loop", "loope", "loopne"} ->
            [reg EXCEPT ![Rcx] = Wrap(@ - 1)]
       [] OTHER -> reg

FlagsAfter ==
  LET a == reg[insn.dst]
      b == reg[insn.src]
  IN CASE insn.op = "add"  -> Sum(a, b, 0)
       [] insn.op = "adc"  -> Sum(a, b, flag.CF)
       [] insn.op \in {"sub", "cmp"} -> Difference(a, b, 0)
       [] insn.op = "sbb"  -> Difference(a, b, flag.CF)
       [] insn.op \in {"and", "test"} -> Status(0, 0, BitAnd(a, b))
       [] insn.op = "or"   -> Status(0, 0, BitOr(a, b))
       [] insn.op = "xor"  -> Status(0, 0, BitXor(a, b))
       [] insn.op = "inc"  -> [Sum(a, 1, 0) EXCEPT !.CF = flag.CF]
       [] insn.op = "dec"  -> [Difference(a, 1, 0) EXCEPT !.CF = flag.CF]
       [] insn.op = "neg"  -> Difference(0, a, 0)
       [] insn.op = "clc"  -> [flag EXCEPT !.CF = 0]
       [] insn.op = "stc"  -> [flag EXCEPT !.CF = 1]
       [] insn.op = "cmc"  -> [flag EXCEPT !.CF = 1 - @]
       [] OTHER -> flag

Jumps ==
  LET count == Wrap(reg[Rcx] - 1)
  IN \/ insn.op = "jcc" /\ Holds(insn.cc, flag)
     \/ insn.op = "jrcxz" /\ reg[Rcx] = 0
     \/ insn.op = "loop" /\ count # 0
     \/ insn.op = "loope" /\ count # 0 /\ flag.ZF = 1
     \/ insn.op = "loopne" /\ count # 0 /\ flag.ZF = 0

Execute ==
  /\ insn # Idle
  /\ reg' = Registers
  /\ flag' = FlagsAfter
  /\ branch' = IF Jumps THEN "target" ELSE "next"
  /\ insn' = Idle

Next == Fetch \/ Execute

Spec == Init /\ [][Next]_vars
=============================================================================
