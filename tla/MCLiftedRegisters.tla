------------------------- MODULE MCLiftedRegisters -------------------------
(***************************************************************************)
(* Bytes of one bit, so that registers have eight.  Initially the third and *)
(* fourth byte of a register are the same, and so are the upper four: every *)
(* part that an instruction names or extends can then be zero, negative or  *)
(* both.  Programs of one instruction: any state of the registers may be    *)
(* the first.                                                              *)
(***************************************************************************)
EXTENDS LiftedRegisters

CONSTANTS rax, rcx, rdx    \* registers

Spread(a, b, c, d) ==
  [i \in 0 .. 7 |-> CASE i = 0 -> a [] i = 1 -> b [] i \in 2 .. 3 -> c [] OTHER -> d]
Samples == {Spread(a, b, c, d) : a \in Byte, b \in Byte, c \in Byte, d \in Byte}
Few == {Spread(0, 0, 0, 0), Spread(1, 1, 1, 1), Spread(1, 0, 1, 0), Spread(0, 1, 0, 1)}

(* The flags go with the lowest byte of rdx. *)
MCStarts ==
  {[regs |-> [r \in Regs |-> CASE r = rax -> a [] r = rcx -> c [] r = rdx -> d],
    flag |-> [CF |-> d[0], OF |-> d[0], SF |-> d[0], ZF |-> d[0]]] :
     a \in Samples, c \in Samples, d \in Few}
MCUnknown == {Zeros(8), Spread(1, 1, 1, 1)}
MCNextRip == Spread(0, 1, 1, 0)

Lows(r) == {Low(r, n) : n \in Sizes}
Firsts(r) == {Low(r, 1), High(r)}

(* Two operands: of one size, in two registers or one; of a smaller second. *)
Same == {p \in (Lows(rax) \cup Firsts(rax)) \X (Lows(rcx) \cup Lows(rax) \cup Firsts(rcx)) :
           p[1].size = p[2].size}
Wider == {p \in Lows(rax) \X (Lows(rcx) \cup {High(rax)}) : p[1].size > p[2].size}

Binary(ops, pairs) == {[op |-> o, dst |-> p[1], src |-> p[2]] : o \in ops, p \in pairs}
Unary(ops, operands) == {[op |-> o, dst |-> v, src |-> v] : o \in ops, v \in operands}

Products3 ==
  {[op |-> "imul3", dst |-> p[1], src |-> p[2], imm |-> k] :
     p \in {x \in Same : x[1].size > 1}, k \in {-1, 3}}

SomeAddresses ==
  {i \in [op : {"lea"}, dst : {Low(rax, n) : n \in {2, 4, 8}},
          base : {None, Rip, Low(rcx, 4), Low(rcx, 8), Low(rax, 8)},
          index : {None, Low(rdx, 4), Low(rdx, 8)}, scale : {1, 2}, disp : {-1, 0, 3}] :
     /\ i.index = None => i.scale = 1
     /\ i.base = Rip => i.index = None
     /\ ~ {4, 8} \subseteq {p.size : p \in {i.base, i.index} \ {None, Rip}}}

MCInsns ==
  Binary({"mov", "xchg", "xadd", "cmpxchg"}, Same)
    \cup Binary({"movzx", "movsx"}, {p \in Wider : p[2].size < 4})
    \cup Binary({"movsxd"}, {p \in Wider : p[2].size = 4})
    \cup Binary({"imul"}, {p \in Same : p[1].size > 1})
    \cup Unary({"bswap"}, {v \in Lows(rcx) : v.size > 1})
    \cup Unary({"mul", "imul1", "div", "idiv"},
                Lows(rcx) \cup {Low(rdx, 4), Low(rdx, 8), Low(rax, 2)})
    \cup {[op |-> o] : o \in {"cbw", "cwde", "cdqe", "cwd", "cdq", "cqo"}}
    \cup Products3 \cup SomeAddresses
=============================================================================
