------------------------------- MODULE Cells -------------------------------
(***************************************************************************)
(* Memory, and the instructions that go through it.  Memory is a ring of    *)
(* cells of 16 bits; a cell has Radix values and a word of 64 bits four     *)
(* cells, lowest first, so that words are the addresses of cells.           *)
(* Common ground of the processor and of VTIL.                             *)
(***************************************************************************)
EXTENDS Integers

CONSTANTS
  Radix,                        \* values of a cell
  Regs,                         \* the registers there are
  Rsp, Rax, Rcx, Rsi, Rdi       \* those with a part of their own

(* What a cell counts for in a word. *)
Place[i \in 0 .. 4] == IF i = 0 THEN 1 ELSE Radix * Place[i - 1]

Turn == Place[4]
Word == 0 .. Turn - 1
Cell == 0 .. Radix - 1

ASSUME CellsAssumption ==
  /\ Radix \in Nat /\ Radix > 1
  /\ {Rsp, Rax, Rcx, Rsi, Rdi} \subseteq Regs
  /\ Rsp \notin {Rax, Rcx, Rsi, Rdi} /\ Rax \notin {Rcx, Rsi, Rdi}
  /\ Rcx \notin {Rsi, Rdi} /\ Rsi # Rdi

(* Sizes are in cells: 16, 32 and 64 bits. *)
Sizes == {1, 2, 4}

Plus(a, b) == (a + b) % Turn
Truncate(x, n) == x % Place[n]

(* Writing 32 bits of a register clears the rest, writing 16 does not. *)
PutRegister(old, n, x) ==
  IF n = 1 THEN old - Truncate(old, 1) + Truncate(x, 1) ELSE Truncate(x, n)

Digit(x, i) == (x \div Place[i]) % Radix

LoadCells(mem, a, n) ==
  LET sum[i \in 0 .. 4] == IF i = 0 THEN 0
                           ELSE sum[i - 1] + mem[Plus(a, i - 1)] * Place[i - 1]
  IN sum[n]

StoreCells(mem, a, n, x) ==
  [c \in Word |-> IF (c - a) % Turn < n THEN Digit(x, (c - a) % Turn) ELSE mem[c]]

(* Operands. *)
Register(r, n) == [kind |-> "reg", reg |-> r, size |-> n]
Memory(r, d, n) == [kind |-> "mem", base |-> r, disp |-> d, size |-> n]
Immediate(k, n) == [kind |-> "imm", imm |-> Truncate(k, n), size |-> n]

(* A machine is its registers and its memory. *)
Effective(s, o) == Plus(s.regs[o.base], o.disp)

Fetched(s, o) ==
  CASE o.kind = "imm" -> o.imm
    [] o.kind = "reg" -> Truncate(s.regs[o.reg], o.size)
    [] o.kind = "mem" -> LoadCells(s.mem, Effective(s, o), o.size)

(* The operands an instruction may have: what it can read, what it can      *)
(* write.  An immediate is given as wide as it is used.                    *)
RegisterOperands(sizes) == [kind : {"reg"}, reg : Regs, size : sizes]
MemoryOperands(sizes) == [kind : {"mem"}, base : Regs, disp : Int, size : sizes]
Immediates(sizes) ==
  UNION {[kind : {"imm"}, imm : 0 .. Place[n] - 1, size : {n}] : n \in sizes}

Destinations(sizes) == RegisterOperands(sizes) \cup MemoryOperands(sizes)
Sources(sizes) == Destinations(sizes) \cup Immediates(sizes)

(* The instructions of 64-bit code: PUSH and POP are of 16 or 64 bits, the  *)
(* two operands of a move are of one size, and the second one of XCHG and   *)
(* of a bit test is a register.                                            *)
BitOps == {"bt", "btc", "btr", "bts"}

Encodable(i) ==
  \/ i \in [op : {"push"}, src : Sources({1, 4}), next : Word]
  \/ i \in [op : {"pop"}, dst : Destinations({1, 4}), next : Word]
  \/ \E n \in Sizes :
       i \in [op : {"mov"}, dst : Destinations({n}), src : Sources({n}), next : Word]
  \/ \E n \in Sizes :
       i \in [op : {"xchg"}, dst : Destinations({n}), src : RegisterOperands({n}),
              next : Word]
  \/ i \in [op : {"lods", "stos"}, size : Sizes, rep : BOOLEAN, next : Word]
  \/ i \in [op : {"cld", "std"}, next : Word]
  \/ i \in [op : BitOps, dst : MemoryOperands({4}), src : RegisterOperands({4}),
            next : Word]
  \/ i \in [op : {"jmp", "call"}, src : Sources({4}), next : Word]
  \/ i \in [op : {"jcxz", "jecxz"}, target : Word, next : Word]
  \/ i \in [op : {"ret"}, extra : Nat, next : Word]

Idle == [op |-> "idle"]
=============================================================================
