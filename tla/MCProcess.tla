------------------------------ MODULE MCProcess -----------------------------
(***************************************************************************)
(* Blocks of three instructions over two general registers, the instruction *)
(* pointer, a register that is not general, and two flags; every            *)
(* combination of access, operand width, implicit registers and flag        *)
(* effects the rules of process() can tell apart is in some instruction,    *)
(* the flags register listed or not.                                       *)
(***************************************************************************)
EXTENDS Process

CONSTANTS rax, rcx, xmm, rip     \* registers

View(r, p) == [reg |-> r, part |-> p]
Reg(r, p, a) == [type |-> "reg", reg |-> View(r, p), access |-> a]
Mem(b, x, d) == [type |-> "mem", base |-> b, index |-> x, disp |-> d]

OperandSets ==
  {{},
   {Reg(rax, "dword", {"w"}), Reg(rcx, "upper", {"r"})},
   {Reg(rax, "qword", {"r", "w"}), Mem(View(rcx, "qword"), None, FALSE)},
   {Reg(rcx, "word", {"w"}), Mem(View(rax, "qword"), View(rcx, "dword"), TRUE)},
   {Reg(rax, "dword", {"w"}), Mem(View(rip, "qword"), None, TRUE)},
   {Reg(rcx, "qword", {"w"}), Mem(View(rip, "qword"), None, FALSE)},
   {Reg(xmm, "qword", {"w"}), Reg(rax, "qword", {"r"})},
   {Mem(None, View(xmm, "qword"), FALSE), Reg(rcx, "dword", {"r"})}}

FlagLists ==
  {[f \in FlagNames |-> IF f = "CF" THEN p[1] ELSE p[2]] :
     p \in {<<{}, {}>>, <<{"test"}, {}>>, <<{"test", "modify"}, {"reset"}>>,
            <<{"undefined"}, {"modify"}>>}}

Lists ==
  {[read |-> {}, write |-> {}], [read |-> {TheFlags}, write |-> {}],
   [read |-> {}, write |-> {View(rcx, "qword"), TheFlags}],
   [read |-> {View(rcx, "qword")}, write |-> {View(rax, "dword")}],
   [read |-> {View(rip, "qword")}, write |-> {View(rip, "qword")}]}

MCInsns ==
  UNION {[handled : BOOLEAN, operands : OperandSets, regs_read : {l.read},
          regs_write : {l.write}, eflags : FlagLists] : l \in Lists}
=============================================================================
