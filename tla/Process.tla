------------------------------ MODULE Process ------------------------------
(***************************************************************************)
(* lifter_t::process of amd64/amd64.cpp for instructions with a handler and *)
(* without, told by what later passes may take for granted.                *)
(*                                                                         *)
(* An instruction without a handler, or with an operand that is no general *)
(* register, goes into the block as its bytes.  The bytes run on the        *)
(* processor's own registers, so everything they read has to be pinned     *)
(* (vpinr) before them and everything they write after them (vpinw): what  *)
(* is not pinned keeps, for the passes, the value it had.                  *)
(*                                                                         *)
(* What an instruction reads and writes is what the disassembler lists.    *)
(* Its lists of implicit registers may name the flags register, which       *)
(* stands for all flags; which of them the instruction uses is in eflags.   *)
(***************************************************************************)
EXTENDS Integers

CONSTANTS
  Regs,           \* registers of the disassembler but the flags, general and others
  Generic,        \* the general ones and the instruction pointer
  Rip,            \* the instruction pointer, as the disassembler names it
  Internal,       \* the internal register reg2op gives for it
  Eflags,         \* the flags register, as the disassembler names it
  FlagNames,      \* flags
  Insns,          \* the instructions that occur
  Steps           \* bound on the length of a block

(* Registers come in four pieces: bits 0 .. 7, 8 .. 15, 16 .. 31, the rest. *)
Pieces == {"low", "high", "double", "quad"}

(* AL, AH, AX, EAX and RAX are views of one register.                       *)
Within ==
  [byte |-> {"low"}, upper |-> {"high"}, word |-> {"low", "high"},
   dword |-> {"low", "high", "double"}, qword |-> Pieces]

Views == [reg : Regs, part : DOMAIN Within]
TheFlags == [reg |-> Eflags, part |-> "dword"]
None == [none |-> TRUE]     \* no register, no instruction

Names == ((Regs \cup {Internal}) \X Pieces) \cup (FlagNames \X {"flag"})

(* The entries of eflags for a flag. *)
Marks == {"test", "modify", "reset", "set", "undefined"}

(* Of a displacement counts whether there is one.                           *)
Operands ==
  [type : {"reg"}, reg : Views, access : SUBSET {"r", "w"}]
    \cup [type : {"mem"}, base : Views \cup {None}, index : Views \cup {None},
           disp : BOOLEAN]

ASSUME ProcessAssumption ==
  /\ Generic \subseteq Regs /\ Rip \in Generic /\ Steps \in Nat
  /\ Internal \notin Regs /\ Eflags \notin Regs \cup {Internal}
  /\ \A i \in Insns :
       /\ i.handled \in BOOLEAN
       /\ i.operands \subseteq Operands
       /\ i.regs_read \subseteq Views \cup {TheFlags}
       /\ i.regs_write \subseteq Views \cup {TheFlags}
       /\ i.eflags \in [FlagNames -> SUBSET Marks]

VARIABLES
  stale,      \* names the passes take for unchanged since the processor changed them
  undefined,  \* names the passes take for undefined
  lost,       \* names the processor leaves undefined
  exposed,    \* what the last instruction's bytes read and was not pinned before
  last,       \* the instruction lifted last, or None
  count       \* instructions lifted

vars == <<stale, undefined, lost, exposed, last, count>>

-----------------------------------------------------------------------------
(* The disassembler's lists, as names. *)
Whole(r) == {r} \X Pieces

(* What a register covers for VTIL, and what the processor changes with it. *)
Covers(v) == IF v.reg = Eflags THEN FlagNames \X {"flag"} ELSE {v.reg} \X Within[v.part]
Changes(v) == IF v.reg \in Generic /\ v.part = "dword" THEN Whole(v.reg) ELSE Covers(v)
Covered(views) == UNION {Covers(v) : v \in views}

Marked(i, marks) == {<<f, "flag">> : f \in {g \in FlagNames : i.eflags[g] \cap marks # {}}}

Accessed(i, a) == {o.reg : o \in {p \in i.operands : p.type = "reg" /\ a \in p.access}}
Memory(i) == {o \in i.operands : o.type = "mem"}
AddressParts(i) == (UNION {{o.base, o.index} : o \in Memory(i)}) \ {None}

(* What the processor reads and writes: the registers listed, and flags as  *)
(* eflags has it.                                                          *)
Reads(i) ==
  Covered(Accessed(i, "r") \cup AddressParts(i) \cup (i.regs_read \ {TheFlags}))
    \cup Marked(i, {"test"})
Writes(i) ==
  (UNION {Changes(v) : v \in Accessed(i, "w") \cup (i.regs_write \ {TheFlags})})
    \cup Marked(i, Marks \ {"test"})

(* What of names is left undefined when an instruction is done with them.    *)
Loses(names, i) ==
  (names \ Writes(i)) \cup (IF Reads(i) \cap names = {} THEN {} ELSE Writes(i))
    \cup Marked(i, {"undefined"})

-----------------------------------------------------------------------------
(* process() *)

IsInvalid(i) ==
  \E o \in i.operands :
    IF o.type = "reg" THEN o.reg.reg \notin Generic
                      ELSE \E v \in {o.base, o.index} \ {None} : v.reg \notin Generic

Unhandled(i) == IsInvalid(i) \/ ~i.handled

(* The operand for a register: RIP, EIP and IP are the internal one, of 64,  *)
(* 32 and 8 bits.                                                          *)
Reg2Op(v) ==
  IF v.reg # Rip THEN v
  ELSE [reg |-> Internal, part |-> IF v.part = "word" THEN "byte" ELSE v.part]

(* Registers that make an address; a base alone is taken as it is.          *)
GetDisp(o) ==
  IF o.index = None /\ ~o.disp
    THEN {o.base} \ {None}
    ELSE {Reg2Op(v) : v \in {o.base, o.index} \ {None}}

(* What the code of a handler reads. *)
Loads(i) ==
  Covered({Reg2Op(v) : v \in Accessed(i, "r") \cup (i.regs_read \ {TheFlags})})
    \cup Covered(UNION {GetDisp(o) : o \in Memory(i)})
    \cup Marked(i, {"test"})

(* What each thing process() appends to the block does to what is believed; *)
(* pinned is what was pinned for reading so far.                           *)
Vpinr(s, names) == [s EXCEPT !.pinned = @ \cup names]
Vpinw(s, names) ==
  [s EXCEPT !.stale = @ \ names, !.undefined = @ \ names]
Vemit(s, i) ==
  [s EXCEPT !.stale = @ \cup Writes(i), !.exposed = Reads(i) \ s.pinned]
MovUndefined(s, names) ==
  [s EXCEPT !.stale = @ \ names, !.undefined = @ \cup names]

(* The address after the instruction goes to the internal register; the one *)
(* the processor has for it is not written.                                *)
MovRip(s) ==
  [s EXCEPT !.stale = (@ \ Whole(Internal)) \cup Whole(Rip),
            !.undefined = @ \ Whole(Internal)]

(* A handler is as good as what it reads, and does not write RIP.           *)
Handler(s, i) ==
  LET done == Writes(i) \ Whole(Rip)
      from(names) == IF Loads(i) \cap names = {} THEN {} ELSE done
  IN [s EXCEPT !.stale = (@ \ done) \cup from(s.stale),
               !.undefined = (@ \ done) \cup from(s.undefined)]

(* The bytes, with what they read pinned before and what they write after:   *)
(* the registers are pinned as the disassembler names them.                *)
PinRead(s, i) ==
  Vpinr(Vpinr(s, Covered(Accessed(i, "r") \cup AddressParts(i))), Covered(i.regs_read))
PinWritten(s, i) ==
  Vpinw(Vpinw(s, Covered(i.regs_write \cup Accessed(i, "w"))), Marked(i, {"modify"}))

(* Mutation: registers that only make an address are not pinned. *)
EmitBytesOfOperands(s, i) ==
  PinWritten(Vemit(Vpinr(s, Covered(Accessed(i, "r") \cup i.regs_read)), i), i)

(* Mutation: what is written is pinned before the bytes. *)
EmitBytesLast(s, i) == Vemit(PinWritten(PinRead(s, i), i), i)

EmitBytes(s, i) == PinWritten(Vemit(PinRead(s, i), i), i)

Lifted(s, i) == IF Unhandled(i) THEN EmitBytes(s, i) ELSE Handler(s, i)

(* Mutation: flags an instruction changes are taken for undefined. *)
EmissionOfModified(s, i) ==
  MovUndefined(Lifted(MovRip(s), i), Marked(i, {"modify", "undefined"}))

(* The instruction pointer comes first, and last the flags the disassembler *)
(* lists as undefined.                                                     *)
Emission(s, i) == MovUndefined(Lifted(MovRip(s), i), Marked(i, {"undefined"}))

Before == [stale |-> stale, undefined |-> undefined, pinned |-> {}, exposed |-> {}]

Process(i) ==
  LET after == Emission(Before, i)
  IN /\ count < Steps
     /\ last' = i
     /\ stale' = after.stale
     /\ undefined' = after.undefined
     /\ lost' = Loses(lost, i)
     /\ exposed' = after.exposed
     /\ count' = count + 1

Init ==
  /\ stale = {} /\ undefined = {} /\ lost = {} /\ exposed = {}
  /\ last = None
  /\ count = 0

Next == \E i \in Insns : Process(i)

Spec == Init /\ [][Next]_vars

-----------------------------------------------------------------------------
TypeOK ==
  /\ stale \subseteq Names /\ undefined \subseteq Names
  /\ lost \subseteq Names /\ exposed \subseteq Names
  /\ last \in Insns \cup {None}
  /\ count \in 0 .. Steps

(* What the passes take for undefined, and are free to choose, the processor *)
(* leaves undefined too, however far it was computed with since; but for     *)
(* what they are wrong about already because bytes changed it unseen         *)
(* (amd64.cpp:220-271).                                                      *)
UndefinedIsLost == undefined \ stale \subseteq lost

(* The pieces above the 32-bit registers an instruction writes, unless they *)
(* are written by another name as well.                                    *)
ClearedAbove(i) ==
  LET written == Accessed(i, "w") \cup i.regs_write
  IN {<<v.reg, "quad">> : v \in {x \in written : x.reg \in Generic /\ x.part = "dword"}}
       \ Covered(written)

(* The flags it sets or clears to a fixed value, if the disassembler does   *)
(* not list the flags register as well.                                    *)
FixedFlags(i) ==
  IF TheFlags \in i.regs_write THEN {}
  ELSE Marked(i, {"set", "reset"}) \ Marked(i, {"modify", "undefined"})

(* After an instruction that runs as bytes the passes take for unchanged,    *)
(* of all it changed, the pieces above the 32-bit registers it wrote and    *)
(* the flags it sets or clears without the flags register in the list of    *)
(* what it writes: those are not pinned (amd64.cpp:247-261).  Nothing else, *)
(* whatever was lifted before.                                             *)
WrittenIsPinned ==
  [][Unhandled(last') =>
       Writes(last') \cap stale' = ClearedAbove(last') \cup FixedFlags(last')]_vars

(* Before the bytes everything they read is pinned, what makes an address    *)
(* included, but for the flags they test when the disassembler does not     *)
(* list the flags register (amd64.cpp:226-242).                             *)
ReadIsPinned ==
  last # None /\ Unhandled(last) =>
    exposed = IF TheFlags \in last.regs_read THEN {} ELSE Marked(last, {"test"})
=============================================================================
