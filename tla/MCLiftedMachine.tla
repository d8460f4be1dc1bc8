-------------------------- MODULE MCLiftedMachine --------------------------
(***************************************************************************)
(* Instances of LiftedMachine for TLC: words of three bits, two registers, *)
(* every instruction with every pair of registers.                         *)
(***************************************************************************)
EXTENDS LiftedMachine, Bitwise, FiniteSets

MCAnd(x, y) == x & y
MCOr(x, y) == x | y
MCXor(x, y) == x ^^ y
MCPopcnt(x) == Cardinality({n \in 0 .. 7 : (x \div 2^n) % 2 = 1})

Plain(ops) == [op : ops, cc : {"e"}, dst : Regs, src : Regs]
Unary(ops) == {i \in Plain(ops) : i.src = i.dst}
Control(ops) == [op : ops, cc : {"e"}, dst : {Rcx}, src : {Rcx}]

Sets(c) == {[op |-> "set", cc |-> c, dst |-> r, src |-> r] : r \in Regs}
Cmovs(c) == [op : {"cmov"}, cc : {c}, dst : Regs, src : Regs]
Jccs(c) == [op : {"jcc"}, cc : {c}, dst : {Rcx}, src : {Rcx}]

(* The instructions lifted as the processor executes them. *)
MCFaithful ==
  Plain({"add", "sub", "and", "or", "xor", "cmp", "test", "mov", "xchg"})
    \cup Unary({"inc", "neg", "not"})
    \cup Control({"clc", "stc", "cmc", "jrcxz", "loop", "loope", "loopne"})
    \cup UNION {Sets(c) : c \in Conditions \ {"ge", "le"}}
    \cup UNION {Cmovs(c) : c \in Conditions}
    \cup UNION {Jccs(c) : c \in Conditions \ {"be", "le"}}

(* With those that leave other flags, or jump elsewhere. *)
MCRegisters ==
  MCFaithful \cup Plain({"adc", "sbb"}) \cup Unary({"dec"})
             \cup Jccs("be") \cup Jccs("le")

MCAdc == Plain({"add", "sub", "adc", "sbb"})
MCDec == Unary({"inc", "dec"})
MCConditional == UNION {Cmovs(c) \cup Jccs(c) \cup Sets(c) : c \in Conditions}
=============================================================================
