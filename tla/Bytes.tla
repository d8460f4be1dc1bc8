------------------------------- MODULE Bytes -------------------------------
(***************************************************************************)
(* Registers as eight bytes, the parts of them that instructions name, and *)
(* values of one, two, four or eight bytes.  Common ground of the          *)
(* processor and of VTIL.  A byte counts to Radix, which is even: the sign *)
(* of a value is in its last byte.                                         *)
(***************************************************************************)
EXTENDS Integers, FiniteSets

CONSTANTS
  Radix,      \* values of a byte
  Regs,       \* general registers
  Rax, Rdx    \* the two with a part in multiplication and division

ASSUME BytesAssumption ==
  /\ Radix \in Nat /\ Radix > 1 /\ Radix % 2 = 0
  /\ Rax \in Regs /\ Rdx \in Regs /\ Rax # Rdx

Byte == 0 .. Radix - 1
Quad == [0 .. 7 -> Byte]
Value(n) == [0 .. n - 1 -> Byte]

Size(x) == Cardinality(DOMAIN x)

(* Part of a register: size bytes from low on.  Only the second byte has a *)
(* name of its own, AH and its like.                                       *)
View(r, low, n) == [reg |-> r, low |-> low, size |-> n]
Views ==
  {View(r, 0, n) : r \in Regs, n \in {1, 2, 4, 8}} \cup {View(r, 1, 1) : r \in Regs}

Low(r, n) == View(r, 0, n)
High(r) == View(r, 1, 1)

(* The bytes of view v in the registers q. *)
Read(q, v) == [i \in 0 .. v.size - 1 |-> q[v.reg][i + v.low]]

Zeros(n) == [i \in 0 .. n - 1 |-> 0]
Negative(x) == 2 * x[Size(x) - 1] >= Radix
Extend(x, n, fill) == [i \in 0 .. n - 1 |-> IF i \in DOMAIN x THEN x[i] ELSE fill]
ZeroExtend(x, n) == Extend(x, n, 0)
SignExtend(x, n) == Extend(x, n, IF Negative(x) THEN Radix - 1 ELSE 0)

(* What a byte counts for: the powers of Radix. *)
Place[i \in 0 .. 16] == IF i = 0 THEN 1 ELSE Radix * Place[i - 1]

(* Numbers of values, and values of numbers, wrapped to their size. *)
Unsigned(x) ==
  LET sum[n \in 0 .. Size(x)] ==
        IF n = 0 THEN 0 ELSE sum[n - 1] + x[n - 1] * Place[n - 1]
  IN sum[Size(x)]
Signed(x) == Unsigned(x) - (IF Negative(x) THEN Place[Size(x)] ELSE 0)
Wrap(k, n) == [i \in 0 .. n - 1 |-> (k \div Place[i]) % Radix]

(* Division that rounds towards zero, as both machines do. *)
Abs(k) == IF k < 0 THEN -k ELSE k
Quotient(a, b) == (IF (a < 0) = (b < 0) THEN 1 ELSE -1) * (Abs(a) \div Abs(b))
Remainder(a, b) == a - b * Quotient(a, b)

(* What an address is made of may be missing. *)
None == [none |-> TRUE]
Rip == [rip |-> TRUE]

(* The operands instructions have: registers and parts of them of some     *)
(* sizes; two operands are of one size but for moves that extend.  A        *)
(* displacement has four bytes with a sign; an address by the instruction   *)
(* pointer has no other register, and two registers are of one size.       *)
Sizes == {1, 2, 4, 8}
Operands(sizes) == {v \in Views : v.size \in sizes}

Wholes == {Low(r, n) : r \in Regs, n \in {4, 8}}
Addresses ==
  {a \in [op : {"lea"}, dst : Operands({2, 4, 8}), base : {None, Rip} \cup Wholes,
          index : {None} \cup Wholes, scale : Sizes, disp : Int] :
     /\ 2 * a.disp \in -Place[4] .. Place[4] - 1
     /\ a.base = Rip => a.index = None
     /\ a.base \in Wholes /\ a.index \in Wholes => a.base.size = a.index.size}

Encodable(i) ==
  \/ \E n \in Sizes :
       i \in [op : {"mov", "xchg", "xadd", "cmpxchg", "mul", "imul1", "div", "idiv"},
              dst : Operands({n}), src : Operands({n})]
  \/ \E n \in {2, 4, 8} :
       \/ i \in [op : {"imul", "bswap"}, dst : Operands({n}), src : Operands({n})]
       \/ i \in [op : {"imul3"}, dst : Operands({n}), src : Operands({n}), imm : Int]
  \/ /\ i \in [op : {"movzx", "movsx"}, dst : Operands({2, 4, 8}), src : Operands({1, 2})]
     /\ i.src.size < i.dst.size
  \/ i \in [op : {"movsxd"}, dst : Operands({8}), src : Operands({4})]
  \/ i \in [op : {"cbw", "cwde", "cdqe", "cwd", "cdq", "cqo"}]
  \/ i \in Addresses

Bit(p) == IF p THEN 1 ELSE 0
Flags == [CF : 0 .. 1, OF : 0 .. 1, SF : 0 .. 1, ZF : 0 .. 1]
Idle == [op |-> "idle"]
=============================================================================
