--------------------------- MODULE MCLiftedMemory ---------------------------
(***************************************************************************)
(* Sixteen cells of one bit, programs of two instructions.  Any four cells  *)
(* in a row occur once in the first memory, so that a word tells where it   *)
(* was read.  Stack pointer and operands are such that they wrap, overlap   *)
(* and coincide.                                                           *)
(***************************************************************************)
EXTENDS LiftedMemory

CONSTANTS rsp, rax, rcx, rsi, rdi    \* registers

EveryWord == <<0, 0, 0, 0, 1, 0, 0, 1, 1, 0, 1, 0, 1, 1, 1, 1>>
Memories == {[c \in Word |-> EveryWord[c + 1]], [c \in Word |-> 1 - EveryWord[c + 1]]}

MCStarts ==
  {[mem |-> m,
    regs |-> [r \in Regs |-> CASE r = rsp -> sp [] r = rax -> a [] r = rcx -> c
                               [] r = rsi -> s [] r = rdi -> 6]] :
     m \in Memories, sp \in {2, 8}, a \in {5, 9}, c \in {0, 1, 2, 12}, s \in {4, 11}}

On(op, operands) == {[op |-> op, src |-> o, next |-> 13] : o \in operands}
Into(op, operands) == {[op |-> op, dst |-> o, next |-> 13] : o \in operands}
Pairs(op, pairs) == {[op |-> op, dst |-> p[1], src |-> p[2], next |-> 13] : p \in pairs}

MCInsns ==
  On("push", {Register(rax, 4), Register(rax, 1), Register(rsp, 4),
              Memory(rsp, 0, 4), Memory(rsi, -1, 4), Memory(rsp, -2, 1), Immediate(5, 4)})
  \cup Into("pop", {Register(rax, 4), Register(rax, 1), Register(rsp, 4),
                    Memory(rsp, 0, 4), Memory(rdi, 1, 1), Memory(rdi, 0, 4)})
  \cup Pairs("mov", UNION {{<<Register(rax, n), Memory(rax, 1, n)>>,
                            <<Memory(rsi, -3, n), Register(rcx, n)>>,
                            <<Memory(rsp, 0, n), Immediate(10, n)>>} : n \in Sizes})
  \cup Pairs("mov", {<<Register(rsp, 4), Register(rax, 4)>>})
  \cup Pairs("xchg", UNION {{<<Memory(rax, 0, n), Register(rax, n)>>,
                             <<Memory(rsi, 0, n), Register(rcx, n)>>,
                             <<Register(rax, n), Register(rsp, n)>>} : n \in Sizes})
  \cup [op : {"lods", "stos"}, size : Sizes, rep : BOOLEAN, next : {13}]
  \cup [op : {"cld", "std"}, next : {13}]
  \cup UNION {Pairs(op, {<<Memory(rsi, 0, 4), Register(rcx, 4)>>,
                         <<Memory(rdi, 0, 4), Register(rax, 4)>>}) :
                op \in {"bt", "btc", "btr", "bts"}}
  \cup On("jmp", {Immediate(6, 4), Register(rsp, 4), Memory(rsp, 2, 4)})
  \cup [op : {"jcxz", "jecxz"}, target : {3}, next : {13}]
  \cup On("call", {Immediate(6, 4), Register(rax, 4), Register(rsp, 4),
                   Memory(rsi, 0, 4), Memory(rsp, 1, 4)})
  \cup [op : {"ret"}, extra : {0, 1}, next : {13}]
=============================================================================
