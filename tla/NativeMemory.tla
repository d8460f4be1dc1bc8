---------------------------- MODULE NativeMemory ----------------------------
(***************************************************************************)
(* What the processor does with its stack and with memory: the reference    *)
(* for LiftedMemory.  Operands are fetched before anything changes; only    *)
(* POP finds the address of its destination after it moved the stack        *)
(* pointer.                                                                 *)
(***************************************************************************)
EXTENDS Cells

VARIABLES regs, mem, cf, df, vip, insn

Now == [regs |-> regs, mem |-> mem]

(* Of what is put into an operand, its size counts. *)
Put(s, o, x) ==
  IF o.kind = "reg"
    THEN [s EXCEPT !.regs[o.reg] = PutRegister(@, o.size, x)]
    ELSE [s EXCEPT !.mem = StoreCells(@, Effective(s, o), o.size, x)]

Add(s, r, k) == [s EXCEPT !.regs[r] = Plus(@, k)]

Pushed(n, x) ==
  LET s == Add(Now, Rsp, -n)
  IN [s EXCEPT !.mem = StoreCells(@, s.regs[Rsp], n, x)]

Popped == Put(Add(Now, Rsp, insn.dst.size), insn.dst,
              LoadCells(mem, regs[Rsp], insn.dst.size))

Exchanged ==
  LET s == Put(Now, insn.dst, Fetched(Now, insn.src))
  IN IF insn.src.kind = "reg"
       THEN [s EXCEPT !.regs[insn.src.reg] =
               PutRegister(regs[insn.src.reg], insn.src.size, Fetched(Now, insn.dst))]
       ELSE s

(* One transfer of a string instruction, and as many as the prefix asks for. *)
Step(n) == IF df = 1 THEN -n ELSE n

Transferred(s) ==
  IF insn.op = "lods"
    THEN Add(Put(s, Register(Rax, insn.size), LoadCells(s.mem, s.regs[Rsi], insn.size)),
             Rsi, Step(insn.size))
    ELSE Add([s EXCEPT !.mem = StoreCells(@, s.regs[Rdi], insn.size, s.regs[Rax])],
             Rdi, Step(insn.size))

Repeated ==
  LET after[n \in Word] == IF n = 0 THEN Now ELSE Transferred(after[n - 1])
  IN [after[regs[Rcx]] EXCEPT !.regs[Rcx] = 0]

(* Bit strings: an index in a register reaches as far as it is large, in    *)
(* both directions.  Bits are taken to be cells.                           *)
Index == LET k == regs[insn.src.reg] IN IF 2 * k >= Turn THEN k - Turn ELSE k
BitAt == Plus(Effective(Now, insn.dst), Index)
BitSet ==
  [Now EXCEPT !.mem[BitAt] = CASE insn.op = "bt"  -> @
                               [] insn.op = "btc" -> Radix - 1 - @
                               [] insn.op = "btr" -> 0
                               [] insn.op = "bts" -> Radix - 1]

After ==
  CASE insn.op = "push" -> Pushed(insn.src.size, Fetched(Now, insn.src))
    [] insn.op = "pop"  -> Popped
    [] insn.op = "mov"  -> Put(Now, insn.dst, Fetched(Now, insn.src))
    [] insn.op = "xchg" -> Exchanged
    [] insn.op \in {"lods", "stos"} -> IF insn.rep THEN Repeated ELSE Transferred(Now)
    [] insn.op \in BitOps -> BitSet
    [] insn.op = "call" -> Pushed(4, insn.next)
    [] insn.op = "ret"  -> Add(Now, Rsp, 4 + insn.extra)
    [] insn.op \in {"cld", "std", "jmp", "jcxz", "jecxz"} -> Now

Goes ==
  CASE insn.op \in {"call", "jmp"} -> Fetched(Now, insn.src)
    [] insn.op = "jcxz"  -> IF Truncate(regs[Rcx], 1) = 0 THEN insn.target ELSE insn.next
    [] insn.op = "jecxz" -> IF Truncate(regs[Rcx], 2) = 0 THEN insn.target ELSE insn.next
    [] insn.op = "ret"  -> LoadCells(mem, regs[Rsp], 4)
    [] OTHER            -> insn.next

Execute ==
  /\ insn # Idle
  /\ regs' = After.regs
  /\ mem' = After.mem
  /\ vip' = Goes
  /\ cf' = IF insn.op \in BitOps THEN mem[BitAt] ELSE cf
  /\ df' = CASE insn.op = "cld" -> 0 [] insn.op = "std" -> 1 [] OTHER -> df
  /\ insn' = Idle
=============================================================================
