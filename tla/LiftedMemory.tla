---------------------------- MODULE LiftedMemory ----------------------------
(***************************************************************************)
(* What the VTIL emitted for stack, string and memory instructions does:    *)
(* the handlers of semantic/misc.cpp, CALL (inlined) and RET of             *)
(* semantic/branch.cpp, bit tests in memory, and the memory half of         *)
(* load_operand and store_operand in amd64.cpp.                             *)
(*                                                                         *)
(* A handler is a row of VTIL instructions, each of which sees what those   *)
(* before it did.  sp_offset of a block is zero: what changes it (push and  *)
(* pop of VTIL-Core, which ENTER, LEAVE, PUSHFQ and POPFQ use) is not here. *)
(***************************************************************************)
EXTENDS Cells

CONSTANTS
  Insns,      \* the instructions that occur
  Starts,     \* registers and memory there may be at first
  Base,       \* where the stack began
  Steps       \* bound on the length of a program

ASSUME MemoryAssumption ==
  /\ \A i \in Insns : Encodable(i)
  /\ Starts \subseteq [regs : [Regs -> Word], mem : [Word -> Cell]]
  /\ Base \in Word /\ Steps \in Nat

VARIABLES
  regs, mem,
  cf, df,     \* carry and direction
  vip,        \* where control went
  insn,       \* the instruction being executed, or Idle
  left        \* instructions left

vars == <<regs, mem, cf, df, vip, insn, left>>

-----------------------------------------------------------------------------
(* VTIL instructions, and rows of them. *)
Ldd(s, r, n) == LoadCells(s.mem, s.regs[r], n)
Str(s, a, n, x) == [s EXCEPT !.mem = StoreCells(@, a, n, x)]
Add(s, r, k) == [s EXCEPT !.regs[r] = Plus(@, k)]
Sub(s, r, k) == Add(s, r, -k)

(* get_disp_from_operand with a base: of address parts see LiftedRegisters. *)
GetDisp(s, o) == Effective(s, o)

LoadOperand(s, o) == Fetched(s, o)

(* A store to memory is as wide as what is stored. *)
StoreOperand(s, o, x, width) ==
  IF o.kind = "reg"
    THEN [s EXCEPT !.regs[o.reg] = PutRegister(@, o.size, x)]
    ELSE Str(s, GetDisp(s, o), width, x)

Now == [regs |-> regs, mem |-> mem]

Handle(op) == insn # Idle /\ insn.op = op /\ insn' = Idle /\ UNCHANGED left

(* The handler ends with the machine as s; control goes on. *)
Becomes(s) == regs' = s.regs /\ mem' = s.mem
Falls(s) == Becomes(s) /\ vip' = insn.next

-----------------------------------------------------------------------------
(* Mutation: stores first, then makes room. *)
PushOver ==
  LET oper == LoadOperand(Now, insn.src)
      n == insn.src.size
  IN /\ Handle("push")
     /\ Falls(Sub(Str(Now, regs[Rsp], n, oper), Rsp, n))
     /\ UNCHANGED <<cf, df>>

(* 16 bits move the stack pointer by two bytes, all else by eight. *)
Push ==
  LET oper == LoadOperand(Now, insn.src)
      s == Sub(Now, Rsp, IF insn.src.size = 1 THEN 1 ELSE 4)
  IN /\ Handle("push")
     /\ Falls(Str(s, s.regs[Rsp], insn.src.size, oper))
     /\ UNCHANGED <<cf, df>>

(* The temporary always has 64 bits. *)
Pop ==
  LET tmp == Ldd(Now, Rsp, 4)
      s == Add(Now, Rsp, IF insn.dst.size = 1 THEN 1 ELSE 4)
  IN /\ Handle("pop")
     /\ Falls(StoreOperand(s, insn.dst, tmp, 4))
     /\ UNCHANGED <<cf, df>>

Mov ==
  /\ Handle("mov")
  /\ Falls(StoreOperand(Now, insn.dst, LoadOperand(Now, insn.src), insn.src.size))
  /\ UNCHANGED <<cf, df>>

(* Mutation: the second operand is read after the first was written. *)
XchgLate ==
  LET t1 == LoadOperand(Now, insn.src)
      s == StoreOperand(Now, insn.dst, t1, insn.src.size)
  IN /\ Handle("xchg")
     /\ Falls(StoreOperand(s, insn.src, LoadOperand(s, insn.dst), insn.dst.size))
     /\ UNCHANGED <<cf, df>>

Xchg ==
  LET t0 == LoadOperand(Now, insn.dst)
      t1 == LoadOperand(Now, insn.src)
      s == StoreOperand(Now, insn.dst, t1, insn.src.size)
  IN /\ Handle("xchg")
     /\ Falls(StoreOperand(s, insn.src, t0, insn.dst.size))
     /\ UNCHANGED <<cf, df>>

-----------------------------------------------------------------------------
(* (-(df << 1) + 1) * size *)
Stride == (1 - 2 * df) * insn.size

(* LODSB to LODSQ; no prefix is looked at. *)
Lods ==
  LET s == StoreOperand(Now, Register(Rax, insn.size), Ldd(Now, Rsi, insn.size), insn.size)
  IN /\ Handle("lods")
     /\ Falls(Add(s, Rsi, Stride))
     /\ UNCHANGED <<cf, df>>

(* STOSB to STOSQ *)
Stos ==
  LET s == Str(Now, regs[Rdi], insn.size, Truncate(regs[Rax], insn.size))
  IN /\ Handle("stos")
     /\ Falls(Add(s, Rdi, Stride))
     /\ UNCHANGED <<cf, df>>

Cld == Handle("cld") /\ df' = 0 /\ vip' = insn.next /\ UNCHANGED <<regs, mem, cf>>
Std == Handle("std") /\ df' = 1 /\ vip' = insn.next /\ UNCHANGED <<regs, mem, cf>>

-----------------------------------------------------------------------------
(* simple_bt of 64 bits of memory: the index is taken modulo the operand,   *)
(* and the operand is stored back whole.  Bits are taken to be cells.       *)
BitTest(op, new(_)) ==
  LET i == regs[insn.src.reg] % 4
      a == GetDisp(Now, insn.dst)
      lhs == [k \in 0 .. 3 |-> mem[Plus(a, k)]]
  IN /\ Handle(op)
     /\ cf' = lhs[i]
     /\ Falls([Now EXCEPT !.mem[Plus(a, i)] = new(@)])
     /\ UNCHANGED df

Bt == BitTest("bt", LAMBDA b : b)
(* Mutation: adds to the bit. *)
BtcByAdd == BitTest("btc", LAMBDA b : b + 1)

Btc == BitTest("btc", LAMBDA b : Radix - 1 - b)
Btr == BitTest("btr", LAMBDA b : 0)
Bts == BitTest("bts", LAMBDA b : Radix - 1)

-----------------------------------------------------------------------------
Jmp ==
  /\ Handle("jmp")
  /\ vip' = LoadOperand(Now, insn.src)
  /\ UNCHANGED <<regs, mem, cf, df>>

(* A jump on the n lowest cells of the counter. *)
JumpIfZero(op, n) ==
  /\ Handle(op)
  /\ vip' = IF LoadOperand(Now, Register(Rcx, n)) = 0 THEN insn.target ELSE insn.next
  /\ UNCHANGED <<regs, mem, cf, df>>

Jcxz == JumpIfZero("jcxz", 1)
Jecxz == JumpIfZero("jecxz", 2)

(* CALL with inline_calls: the destination is loaded when the return        *)
(* address has been pushed.                                                *)
Call ==
  LET s0 == Sub(Now, Rsp, 4)
      s == Str(s0, s0.regs[Rsp], 4, insn.next)
  IN /\ Handle("call")
     /\ Becomes(s) /\ vip' = LoadOperand(s, insn.src)
     /\ UNCHANGED <<cf, df>>

Ret ==
  LET retaddr == Ldd(Now, Rsp, 4)
  IN /\ Handle("ret")
     /\ Becomes(Add(Now, Rsp, insn.extra + 4)) /\ vip' = retaddr
     /\ UNCHANGED <<cf, df>>

-----------------------------------------------------------------------------
Init ==
  /\ \E s \in Starts : regs = s.regs /\ mem = s.mem
  /\ cf = 0 /\ df = 0
  /\ vip = 0
  /\ insn = Idle
  /\ left = Steps

Fetch ==
  /\ insn = Idle /\ left > 0
  /\ insn' \in Insns
  /\ left' = left - 1
  /\ UNCHANGED <<regs, mem, cf, df, vip>>

Execute ==
  \/ Push \/ Pop \/ Mov \/ Xchg \/ Lods \/ Stos \/ Cld \/ Std
  \/ Bt \/ Btc \/ Btr \/ Bts \/ Jmp \/ Jcxz \/ Jecxz \/ Call \/ Ret

Next == Fetch \/ Execute

Spec == Init /\ [][Next]_vars

-----------------------------------------------------------------------------
Native == INSTANCE NativeMemory

(* Registers hold words, memory cells, flags bits. *)
TypeOK ==
  /\ regs \in [Regs -> Word] /\ mem \in [Word -> Cell]
  /\ cf \in Cell /\ df \in 0 .. 1 /\ vip \in Word
  /\ insn \in Insns \cup {Idle}
  /\ left \in 0 .. Steps

(* Where the lifted code does what the processor does.  Not: POP of 16 bits *)
(* to memory, which stores 64 (misc.cpp:192, 198); string instructions with *)
(* a repeat prefix, which transfer once (misc.cpp:232-303); bit tests that  *)
(* reach outside of the operand (flags.cpp:167); and a CALL whose target is *)
(* read through the stack pointer, or from where the return address goes    *)
(* (branch.cpp:283-285).                                                   *)
Overlap(a, b) == (a - b) % Turn < 4 \/ (b - a) % Turn < 4

TargetKept ==
  LET o == insn.src IN
  /\ o.kind = "reg" => o.reg # Rsp
  /\ o.kind = "mem" => o.base # Rsp /\ ~Overlap(GetDisp(Now, o), Plus(regs[Rsp], -4))

Faithful ==
  CASE insn.op = "pop" -> insn.dst.kind = "mem" => insn.dst.size = 4
    [] insn.op \in {"lods", "stos"} -> ~insn.rep
    [] insn.op \in BitOps -> regs[insn.src.reg] < 4
    [] insn.op = "call" -> TargetKept
    [] OTHER -> TRUE

(* Where it surely does not: memory behind a 16-bit destination of POP held  *)
(* something else; there is a prefix; the bit outside of the operand differs *)
(* from the one tested; the target is the stack pointer.                   *)
Diverges ==
  CASE insn.op = "pop" ->
         /\ insn.dst.kind = "mem" /\ insn.dst.size = 1
         /\ \E i \in 1 .. 3 :
              mem[Plus(GetDisp(Add(Now, Rsp, 1), insn.dst), i)] # mem[Plus(regs[Rsp], i)]
    [] insn.op \in {"lods", "stos"} -> insn.rep
    [] insn.op \in BitOps ->
         mem[Native!BitAt] # mem[Plus(GetDisp(Now, insn.dst), regs[insn.src.reg] % 4)]
    [] insn.op = "call" -> insn.src.kind = "reg" /\ insn.src.reg = Rsp
    [] OTHER -> FALSE

(* One instruction of the input and its lifted form leave the same           *)
(* registers, memory, flags and continuation, if Faithful: loads come before *)
(* the stores they could be spoiled by, whatever register is the base, the   *)
(* source and the destination at once; and they never do where it Diverges   *)
(* (misc.cpp:177-303, flags.cpp:145-208, amd64.cpp:110-170).               *)
ActsAsNative ==
  [][insn # Idle => /\ Faithful => Native!Execute
                    /\ Diverges => ~Native!Execute]_vars

(* The cells from the stack pointer to where the stack began. *)
CellsOf(sp, m) == [i \in 1 .. Base - sp |-> m[sp + i - 1]]
TheStack == INSTANCE Stack WITH stack <- CellsOf(regs[Rsp], mem)

(* Instructions that use the stack as one: it is not used up, and what goes *)
(* in or out is no memory operand and not the stack pointer itself.        *)
UsesStack ==
  /\ insn.op \in {"push", "pop", "call", "ret"}
  /\ regs[Rsp] <= Base
  /\ insn.op = "pop" => insn.dst.kind = "reg" /\ insn.dst.reg # Rsp
  /\ insn.op \in {"pop", "ret"} => regs[Rsp] + 4 <= Base
  /\ insn.op \in {"push", "call"} => regs[Rsp] >= 4
  /\ insn.op = "ret" => regs[Rsp] + 4 + insn.extra <= Base

(* PUSH, POP, CALL and RET change the stack at its top only: a word that    *)
(* was pushed is still there, in one piece, when all that was pushed after *)
(* it is gone.  Holds whatever is pushed, the stack pointer included.      *)
StackDiscipline ==
  [][insn # Idle /\ UsesStack =>
       CASE insn.op = "push" -> TheStack!Push(insn.src.size)
         [] insn.op = "call" -> TheStack!Push(4)
         [] insn.op = "pop"  -> TheStack!Pop(insn.dst.size)
         [] insn.op = "ret"  -> TheStack!Pop(4 + insn.extra)]_vars
=============================================================================
