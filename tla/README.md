# VTIL-NativeLifters in TLA+

VTIL-NativeLifters turns x86-64 machine code into VTIL, the intermediate
language of VTIL-Core. Three things can go wrong in it: the *shape* of the lifted
routine (which blocks there are, where they end, how they are linked), decided
by the recursive descent; the *meaning* of each lifted instruction, decided
by the handlers; and what later passes may *take for granted* around an
instruction, decided by `process`. The modules here model all three from the
code, TLC checks them on small instances, and TLAPS proves the main results for
every input, width and instruction.

## The system

| Component | State | Operations | Interacts with |
|---|---|---|---|
| Recursive descent, `core/recursive_descent.hpp` | `leaders`, `owner_rtn` and its `explored_blocks`, each block's instructions and links, the native call stack of `populate` | constructor, `populate` (recursive), `explore` | `arch::process` for one instruction; `basic_block::fork`, `jmp`, `vexit`, `is_complete`; `analyze_branch` |
| `byte_input`, same file | bytes, base, size (constant) | `is_valid`, `get_at` | read by the descent |
| Operand access and dispatch, `amd64/amd64.cpp`, `amd64.hpp` | the block; the thread's `operative::translator` | `process`, `load_operand`, `store_operand`, `get_disp_from_operand`, `handle_instruction`, `merge_maps` | handlers, disassembler |
| Handlers, `amd64/semantic/*.cpp` | what the emitted VTIL changes: registers, flags, memory, control | one handler per mnemonic | `flags.hpp`, `operative.hpp` |
| Flag formulas, `amd64/flags.hpp` | none | carry, overflow, sign, zero, parity, aux carry | used by the handlers |
| Operatives, `core/operative.hpp` | none | expressions on registers, turned into VTIL | VTIL-Core's symbolic expressions |
| Fuzzer and tests, `NativeLifters-Tests` | two machines, the processor and VTIL's symbolic machine | run the same input on both, compare registers and flags | everything above |
| VTIL-Core (submodule, not in the repository) | routines and blocks | modelled only as the code here uses it | |

There is one thread, nothing is persisted and nothing is sent, so there are no
hazards of concurrency, crashes or messages. What is hard:

* **The order of exploration.** `populate` calls itself in the middle of its own
  work, with blocks of its callers half linked; loops lead back into a block
  being populated; sweeps run into blocks populated before. Which blocks exist at
  a `fork` depends on everything done so far.
* **Ways out of `populate`.** Off the input, undecodable bytes, an unresolved
  jump, a destination outside the input, a call. Each must leave a finished block.
* **Flag arithmetic at its edges.** Carry is read off a wrapped result, overflow
  off three signs; carries that come in, zero, the most negative word; shift
  counts of zero, of the width and beyond.
* **Several names for one register.** AL, AH, AX, EAX and RAX are parts of one
  another; a 32-bit write clears the upper half if it goes through
  `store_operand`, and does not if a handler writes the register itself.
* **The order of loads and stores.** PUSH RSP, POP [RSP], XCHG [RAX], RAX, CALL
  [RSP]: the register an operand is found through is one the handler changes.
* **Three copies of sixteen conditions**, in `branch.cpp`, `flags.cpp` and
  `comparison.cpp`.
* **What is not said.** For an instruction without a handler, every register and
  flag it touches has to be pinned around its bytes, or a later pass forwards a
  stale value across them.

What makes the parts correct:

* descent: each block populated once, none left without its branch; blocks hold
  straight-line code and branch where the input branches; links are exactly the
  branches; everything reachable is lifted; it ends;
* handlers: registers, flags, memory and branch after an instruction are the
  processor's, a conditional instruction after a comparison goes by the operands'
  order, and the stack is a stack;
* `process`: nothing an instruction changed is taken for unchanged, and nothing for
  undefined that the processor defines.

PROJECT.json lists each hazard at its line with the properties that watch it.

## Modules

| Part of the code | Abstract or reference | As the code does it | Instance for TLC | Proofs |
|---|---|---|---|---|
| recursive descent | `Exploration` | `RecursiveDescent` | `MCRecursiveDescent` | `RecursiveDescentProofs`, `BlockProofs` |
| conditions, linear arithmetic, logic | `NativeMachine` | `LiftedMachine` (over `Words`) | `MCLiftedMachine` | `LiftedMachineProofs` |
| shifts, rotates, bit tests and scans | `NativeShifts` | `LiftedShifts` (over `BitWords`) | `MCLiftedShifts` | `LiftedShiftsProofs` |
| parts of registers, moves, products, addresses | `NativeRegisters` | `LiftedRegisters` (over `Bytes`) | `MCLiftedRegisters` | `LiftedRegistersProofs` |
| memory, stack, strings, calls | `NativeMemory`, `Stack` | `LiftedMemory` (over `Cells`) | `MCLiftedMemory` | `LiftedMemoryProofs` |
| `process` | | `Process` | `MCProcess` | `ProcessProofs` |

`Arithmetic` holds what the last three machine proofs share: induction, functions
defined by recursion, and division.

Definitions marked "Mutation" are wrong variants of the definition that follows
them; each property fails for one of them, so none holds by the shape of a model.

### The descent

`Exploration` is the abstract specification of exploring control flow: a search
of the control-flow graph. It reaches successors of addresses reached, one at a
time in any order, and stops only when closed under successors.

`RecursiveDescent` is `recursive_descent.hpp`. A behaviour starts with an
arbitrary program: a function from addresses of the input to decoded
instructions, of the six kinds the control of `populate` tells apart. Overlapping
instructions are therefore part of every instance. With `inline_calls` a CALL is
lifted to a `jmp`, which is one of the kinds, so both settings of the flag are
covered by the choice of `Insns`. The state and the code:

| Variable | Code |
|---|---|
| `code` | the bytes of `input`, as decoded at each address |
| `explored` | `routine::explored_blocks`; a block is named by its `entry_vip` |
| `labels[b]` | the addresses between `label_begin` and `label_end` in block b |
| `term[b]`, `dest[b]` | the instruction that ends b, and its destinations |
| `next` | `basic_block::next`, as set by `fork` |
| `leaders` | `recursive_descent::leaders` |
| `stack` | the activations of `populate`: block, `vip`, where in the function, destinations left |
| `status` | of `explore()`; `crashed` is `populate(nullptr)`, `aborted` a failed `dassert` |
| `convention` | `routine_convention` |

| Action | Lines of `recursive_descent.hpp` |
|---|---|
| `EnterBlock`, `FailGetAt` | 92-97, and the `dassert` of line 51 |
| `RunOff` | 101-105 |
| `LiftPlain`, `LiftUpToLeader` | 107-111 and 123-129 |
| `LiftBranch` | 107-121, leaving the loop |
| `LiftCall`, `LiftCallToExplored` | 115-116; fork gave a block, or nullptr |
| `LiftInvalid` | 117-118 after `process` met bytes that do not decode |
| `ExitOpaque`, `Resolve` | 136-155 |
| `FollowExplored`, `FollowNew`, `FollowOut` | one turn of the loop of 159-169 |
| `Return`, `Finish` | 170, 172-174 |

`fork(v)` links the two blocks and returns a block only if it created it; that is
how lines 116-167 use it. Branch analysis is taken to find the destinations of
direct jumps and nothing for indirect ones; the order of destinations is
left open.

### The handlers

All four pairs of modules are built alike. The native module is the processor,
the reference the fuzzer (`fuzzer.hpp`) runs every input on; it is written from
what the instructions mean (a carry is an exact result that does not fit, a
rotate is as many rotates by one, a product is a product of integers). The lifted
module is what the VTIL emitted by the handlers does: one action is one handler,
and every formula is the code's own. `Fetch` chooses the next instruction, so
sequences of instructions occur in every order. `INSTANCE` of the native module
over the same variables states that the lifted code implements the processor.

| Modules | State | Handlers |
|---|---|---|
| `LiftedMachine` | registers, CF OF SF ZF PF, branch taken | ADD, SUB, CMP, INC, DEC, NEG, ADC, SBB, AND, OR, XOR, NOT, TEST, MOV and XCHG of registers, all of Jcc, SETcc, CMOVcc, JRCXZ, LOOPcc, CLC, STC, CMC |
| `LiftedShifts` | one operand as a row of bits, flags | SHL, SAL, SHR, SAR, SHLD, SHRD, ROL, ROR, RCL, RCR, BT, BTC, BTR, BTS, BSF, BSR |
| `LiftedRegisters` | three registers as rows of eight bytes, flags | MOV, MOVZX, MOVSX, MOVSXD, XCHG, BSWAP, CBW .. CQO, LEA, XADD, CMPXCHG, MUL, IMUL (1, 2, 3 operands), DIV, IDIV |
| `LiftedMemory` | five registers, memory, CF, DF, continuation | PUSH, POP, MOV, XCHG, LODS, STOS, CLD, STD, BT and its kin on memory, JMP, JCXZ, JECXZ, CALL (inlined), RET |

Each module keeps its state as small as its handlers allow: a register is a
number where only its value counts, a row of bits where bits move, a row of bytes
where its parts have names, and memory is a ring of cells where addresses wrap.
`Words`, `BitWords`, `Bytes` and `Cells` hold these views of data. What a bit, byte
or cell counts for is the function `Place`, the powers of two or of `Radix`.
`Encodable`, in `Bytes` and `Cells`, says which operands an instruction of 64-bit
code can have (sizes that agree, four-byte displacements, one instruction pointer):
it is the disassembler's part, an assumption on `Insns` in these two models.

The properties about divergences say *if and only if* wherever the code allows:
`ResultsFollow` and `RegistersFollow` name the cases where the lifted code is
wrong (`WrongResult`, `WrongRegisters`) and claim that it is wrong there *always*
and right everywhere else, and `FlagsFollow` does the same for CF and OF of
products. `ActsAsNative` of memory and of shifts has two halves: the code acts as
the processor where `Faithful` holds, and never does where `Diverges` (or
`CarryMoves`, for RCL) holds. A repair of the code, or a new mistake, breaks them.

No claim is made of: CF and OF after shifts by more than one bit, and after rotates
that move a carry other than RCL's, where `Faithful` does not hold; CF and OF of a
one-operand byte IMUL with AL negative, and of IMUL with two or three operands when
both factors are negative (`FlagsVary`); which of its two values the destination of
CMPXCHG gets when RAX differs from it; CALL through memory that the return address
goes to or that the stack pointer is the base of, where the two may differ or not.

`Stack` is the abstract specification of a stack of cells: `Push` adds above,
`Pop` takes from the top, what lies below stays. `StackDiscipline` shows PUSH,
POP, CALL and RET to implement it with the cells between the stack pointer and
where the stack began.

### process

`Process` is `lifter_t::process` told by what later passes may believe. The names
are the pieces of 64-bit registers (bits 0 to 7, 8 to 15, 16 to 31, the rest), so
that AL, AH, AX, EAX and RAX are sets of names, and the flags. What the
disassembler lists of an instruction (operands with their access, implicit registers
read and written, the marks of eflags) is external and any choice of `Insns`. The
implicit lists may hold the flags register, which covers all flags, or not; whether
an instruction is listed with it is the disassembler's affair. `register_cast`,
which gives a listed register its VTIL name, is external as well.

| Variable | Meaning |
|---|---|
| `stale` | names the passes hold unchanged although the processor changed them |
| `undefined` | names the passes hold undefined |
| `lost` | names the processor leaves undefined, and what is computed from them; not in the code |
| `exposed` | what the last instruction's bytes read and was not pinned before |

One action `Process(i)` composes, in the order of the code, the move of the next
address to the internal register (187, `MovRip`: `reg2op` gives another register
for RIP than the one the processor has), validation (190-222), `EmitBytes` with the
pins before and after (224-261) or the handler (220), and the UNDEFINED moves
(266-271). Pins take registers as the disassembler names them, RIP included; the
code of a handler reads through `Reg2Op` and `GetDisp`, so RIP is the internal
register there, unless it is a base alone (51-57).

## Runs

| Run | Instance | What it shows |
|---|---|---|
| `descent` | 50,625 programs of 4 bytes, 0.9 million states | block and link invariants, refinement of `Exploration` |
| `termination` | programs of 3 bytes, debug build | `explore()` ends; other than by returning only on programs with a call; every step uses something up |
| `call` | programs of 3 bytes, debug build | violated: `populate` is called on an address outside the input after a call |
| `lifted` | words of 3 bits, 2 registers, 155 instructions | faithful instructions act as the processor; comparisons decide by order |
| `registers` | the same with ADC, SBB, DEC, JBE, JLE | registers are right for all of these |
| `conditions` | conditional instructions | violated: the copies of the sixteen conditions disagree |
| `adc` | ADD, ADC, SUB, SBB | violated: the carry out of ADC and SBB when a carry comes in |
| `dec` | INC, DEC | violated: the overflow flag of DEC |
| `shifts` | 4-bit operands, counts 0 .. 9 taken modulo 8, 473,600 states | results right but for two cases; flags right where `Faithful` says so; RCL wrong whenever the carry moves |
| `subregisters` | registers of eight one-bit bytes, one instruction, 290,362 states | registers right but for the listed cases; CMPXCHG; CF and OF of products, exactly |
| `memory` | 16 cells of one bit, two instructions, 240,069 states | the lifted code acts as the processor on memory, and does not in the cases listed; the stack is a stack |
| `process` | blocks of three instructions, 4 registers, 2 flags, 28,626 states | what is pinned and what is not, exactly; what passes may take for undefined |

**Bounds of the descent.** `Size` bytes of input, the entry not at the first
byte, plain instructions of one and two bytes (sweeps that overlap), jumps to
every address of the input and the one below it (the one above is reached by
falling through), `MaxVip` large enough that
every instruction ends below it. Four bytes allow a loop into the block under
construction, into a caller's block, a sweep meeting a leader, a call and a
conditional jump in one program; each mutant and each divergence already shows
at three bytes. Addresses do not wrap: an input at the very top of the address
space is not covered.

**Bounds of the handlers.** In `lifted` and its kin `Half = 4`: words are -4 .. 3,
that is the extremes, zero and values of both signs between them, so every sign
combination, wrap and boundary occurs, for every pair of operands and every
setting of the flags. Two registers, one of them the counter, let operands
coincide. The proofs remove these bounds, and those of all the other models. Parity is of the low byte, which a
three-bit word does not fill; the formula is the same on both sides, so the runs
say nothing deep about PF.

In `shifts` an operand has `Width = 4` bits and a count is taken modulo
`Turn = 8`: counts below the width are what 32-bit and 64-bit operands see, those
from 4 to 7 what 8-bit and 16-bit ones do, where the masked count can exceed the
operand and the ring through the carry; 8 and 9 are zero and one once masked,
which is where the handlers that test the unmasked count differ. All
values of both operands and all flags are initial.

In `subregisters` a byte has one bit (`Radix = 2`): every part of a register can
be zero or negative, parts overlap as AH does AX, and nothing in the handlers
depends on how many bits a byte has (the proofs show it). The third and fourth byte of a register are
alike at the start, as are the upper four. Programs have one instruction
(`Steps = 1`) because any state of the registers may be the first. In `memory`
words are of four one-bit cells and addresses wrap at 16; every four cells in a
row are different in the first memory, so a wrong address shows; two instructions
(`Steps = 2`) let one undo or expose the other (STD before LODS, PUSH before POP).

In `process` three instructions let a stale or undefined name be read by a handler
and passed on, then be overwritten; instructions combine every operand shape and
access, implicit registers with and without the flags register among them, RIP as a
base and in the lists, and every kind of mark a flag can have.

**Deadlock.** `CHECK_DEADLOCK FALSE` stands where the program ends: the descent
when `explore()` returns, `subregisters`, `memory` and `process` when `Steps`
instructions are done. `LiftedMachine` and `LiftedShifts` never stop, and are
checked for deadlock.

**Fairness.** `FairSpec` is weak fairness of `Next`: one thread executes
`populate` and no statement of it waits for anything. The other modules state no
liveness: a handler is one step.

## Proofs

`RecursiveDescentProofs`, from `DescentAssumption` (the entry is in the input;
instructions are at least one byte long; the addresses they mention are below the
bound, which may be any number):

* `TypeCorrect`: TypeOK is inductive.
* `BlocksPopulatedOnce`: needs more than its statement. `Shape` adds that all
  activations but the innermost are following a branch (`CallersFollow`), that an
  activation's block exists and is open only while it is entered or swept
  (`FrameOK`), that leaders are explored and an unexplored block is open and empty
  (`BlocksOK`), and that an open explored block is being swept
  (`OpenBlocksAreSwept`). Then a block is pushed only when `fork` created it, so it
  cannot be on the stack already, and only the innermost block can be open.
* `NothingIsMissed` and `DescentSearches`: `IInv` adds to `Shape` that no successor
  of a lifted instruction is forgotten (it is seen, or some activation has still
  to follow it), that a block of the input holds its first instruction or is about
  to, that what is still to follow is a successor of something lifted, and that
  the stack is empty at the end. Each action then maps to `Discover`, `Finish` or a
  stutter of `Exploration`.
* `ExploreAdvances` and `NoEndlessDescent`, the part of `Termination` that needs no
  fairness. `Distance` is five natural numbers: whether `explore()` runs, the blocks
  that may still be made, the activations, the phases the innermost has before it,
  what is left of its phase. Every step lowers one and keeps those before it
  (`MakingIsCloser`, `ReturningIsCloser`, `WorkingIsCloser`, `EndingIsCloser`, one
  for each way), and there is no endless sequence that does so
  (`CloserWellFounded`). Types are enough for it: what bounds the recursion is that
  `fork` makes a block of an address once, and a longer sweep that an instruction
  has a length.

`BlockProofs` continues from the same invariant:

* `LeadersKept` and `BlocksFrozen` are the two action properties; they follow from
  `Shape` alone.
* `StraightLine`, `FlowKept`, `LinksRight` and `ConventionRight` need `BlockInv`,
  which says how far an activation has brought its block: while it sweeps, every
  lifted instruction is plain and followed by a lifted one or by where the sweep
  stands, and there is no link (`SweepOK`); at the branch the flow is kept unless
  the jump is opaque (`BranchOK`); while it follows, exactly the destinations not
  on its list any more are sure to be linked (`FollowOK`); and a block no
  activation works on is `Settled`. Steps only change the block of the innermost
  activation (`Untouched`), so three lemmas, one for each thing that can happen to
  the stack (`SetTopBlocks`, `PopBlocks`, `PushBlocks`), reduce every action to
  what it does to that block.

With these every invariant and action property of the `descent` run is proved, and
the action property of `termination`.

`LiftedMachineProofs`, from `WordsAssumption` (words of at least two bits) and
`BitwiseAssumption` (bitwise operators stay within a word, `x & x = x`,
`x | 0 = 0 | x = x`), for any registers and width:

* `LiftedTypes`: types are inductive.
* `RegistersRight`: registers are the processor's for every instruction but SETGE
  and SETLE.
* `LiftedImplementsNative`: if the input holds none of the instructions of
  `Divergent` (ADC, SBB, DEC, JBE, JLE, SETGE, SETLE) the lifted machine refines
  `NativeMachine`. The lemmas `AddFlags`, `SubFlags`, `NegFlags` show each flag
  formula to mean what the flag means; `CmovMeans`, `SetMeans`, `JccMeans` do the
  same for the conditions; the rest is one step per handler.
* `ComparisonsRight`: after CMP, SUB or TEST of a register with itself, every
  order condition decides by the order of the operands.
* `ConditionsMatch`: but for JBE, JLE, SETGE and SETLE a condition means the same
  to jumps, sets and conditional moves, whatever the flags.

`ProcessProofs`, from `ProcessAssumption` (the disassembler's lists are lists of
registers, the flags register and flags; the internal register and the flags
register are no other register), for any registers, flags, instructions and length:

* `ProcessTypes`: types are inductive.
* `UndefinedLost`: what the passes hold undefined and not stale the processor has
  lost. It is inductive together with the types, over rows of any length. The step
  (`UndefinedStep`) goes by the four things process appends (`EmissionFacts`,
  `HandlerFacts`, `BytesFacts`, `MovRipFacts`): a handler computes something
  undefined only from something undefined that it reads (`LoadsFacts`), and what it
  reads the processor reads too, unless it is the internal register, which is never
  undefined; after bytes whatever is still undefined was not written or is stale
  (`WritesFacts`); the last moves are of flags the processor loses.
* `ReadsPinned`, `WritesPinned`: exactly what the bytes read and write without being
  pinned. `Unpinned` computes what the pins leave out.

`Arithmetic` supplies what the other three need and the provers do not bring
along. Loads, numbers of values, powers and the processor's shifts by one place at a
time are functions defined by recursion over the length of an operand or a count.
The library's induction theorems take an operator as a parameter, which no prover here
can instantiate; `SetInduction` replaces them by induction over a *set*, proved from
the fact that a well-founded relation has minimal elements (`WFMin`). From it come
`UpTo` (induction up to a bound), `Recursion` (a function defined by recursion exists
and obeys its equations), `PowersFacts`, `DivisionUnique` and `DivisionByProduct`.

`LiftedMemoryProofs`, from `CellsAssumption` (cells of any radix above one; the five
registers with a part of their own are different) and `MemoryAssumption`
(instructions can be encoded):

* `MemoryTypes`: types are inductive. `LoadBound` bounds what a load of n cells
  gives, by induction over the cells.
* `MemoryActsAsNative`: every handler against the processor, wherever `Faithful` holds
  and, for the other half, wherever `Diverges` does.
  The lifter stores and loads truncated words, truncates again, writes a register
  twice or reads an operand later than the processor does; `LoadSame`,
  `StoreTruncated`, `DigitOfTruncate` and `PutRegisterTwice` show this to change
  nothing. For CALL the target is read after the push: `Apart` shows that the cells
  of the push and those of the target do not meet in the cases left. `PopDiverges`,
  `StringDiverges`, `BitDiverges` and `CallDiverges` each name a register, cell or
  flag in which the two differ; for a repeat prefix `RepeatedFacts` shows by
  recursion over the counter that the processor uses it up.
* `MemoryStackDiscipline`: PUSH, POP, CALL and RET are steps of `Stack`, whatever else
  the instruction overwrites. `SubStack`, `Pushes` and `Pops` compare the cells below
  the stack pointer before and after, on a ring of addresses.

`LiftedShiftsProofs`, from `BitWordsAssumption` (operands of any width above one, a
turn that is a multiple of it):

* `ShiftTypes`: types are inductive.
* `ShiftResultsFollow`: results are the processor's exactly where `WrongResult` does
  not hold. The processor shifts by one place at a time, the handler by the whole
  amount. The bridge is a *tape* of bits, the operand with what comes in beside it
  (zeros, copies of the sign, the source, the operand again, the ring through the
  carry): after n single steps the operand is the window of the tape n places on
  (`LeftTape`, `RightTape`, by induction over n), which is the handler's formula.
  Where `WrongResult` holds a bit is named in which the two differ.
* `ShiftsActAsNative`: the flags as well, wherever `Faithful` holds; `CarryStays`
  shows that RCL leaves the carry as it was.

`LiftedRegistersProofs`, from `BytesAssumption` (bytes of any even radix, any
registers, among them RAX and RDX) and `RegistersAssumption` (instructions can be
encoded):

* `RegisterTypes`: TypeOK alone is not inductive, since a quotient by zero has no
  type. `IInv` adds `NoFault`: no instruction is executed that raises an exception.
* `RegistersFollowNative`: the registers are the processor's exactly where
  `WrongRegisters` does not hold. Registers are compared byte by byte: `MovOrPut` says
  when VTIL's write to a part is the processor's (not of four bytes with something
  above), `StoreIsPut` that `store_operand` always is, `PutInjective` that different
  values leave different registers, which is the *only if*. What is computed is
  compared as numbers: `UnsignedWrap` and `WrapUnsigned` make values and remainders
  the same thing, `SignedIs` relates the two readings of a value. Then
  `UnsignedProducts` shows why the low half of a product needs no sign, `AddedByte`
  when IMUL of a byte is right all the same, `UnsignedQuotients` and
  `SignedQuotients` when a division that drops AH is (AH zero, or division by 1 or
  -1), and `WidenedAddress` when the upper half of an address is.
* `ExchangesWhenEqual`: ZF of CMPXCHG says exactly whether RAX as a whole equals the
  destination, and then the registers are the processor's. If it does not, RAX still
  ends with what the destination held, the destination with that or the source, and
  every other register is as it was.
* `FlagsFollowNative`: CF and OF are the processor's exactly where `FlagsRight` holds,
  but for `FlagsVary`: a high half of zero means that nothing was lost, for products
  without sign (`UnsignedLost`), and with sign (`SignedLost`, `SmallFactor`) when the
  low half does not look negative; the sign rule of the addition is the overflow of
  XADD (`XaddFlags`).

With these every invariant and action property of every passing run is proved, for
every value of the constants: any program, any operand width or radix, any registers,
any number of steps. What is only model-checked is `Termination`, because liveness
under fairness is out of the prover's reach (`NoEndlessDescent` says that `explore()`
cannot go on for ever; that it does not stop early needs fairness and ENABLED), and that `LiftedMachine` and
`LiftedShifts` never deadlock, because ENABLED is. The runs with a violation are
counterexamples; there is nothing to prove about them. The proofs say nothing that
the models leave out: AF, PF of `LiftedRegisters`, and what is listed below.

## Where the code disagrees with itself, and with the processor

Shown by a run that ends in a violation:

1. `recursive_descent.hpp:116` populates what `fork` returns without asking
   whether the return address is in the input and whether `fork` returned a block
   at all; lines 162 and 164 do both for branches (`call`).
2. `branch.cpp:79,164` (JBE, JLE) and `flags.cpp:81,99` (SETGE, SETLE) compute
   other conditions than `comparison.cpp:151,200,235` (`conditions`).
3. `flags.hpp:215,226` used by ADC and SBB lose the carry when a carry comes in
   and the source is all ones (`adc`).
4. `arithmetic.cpp:766` (DEC) gives the overflow formula -1 in place of 1 (`dec`).

Found in modelling, and stated by the properties of the passing runs as the exact
cases in which lifted code and processor differ:

5. `arithmetic.cpp:611`: SAR of a negative operand by more than one shifts zeros
   in under the sign. 595, 614: SHR and SAR take CF from bit 0 whatever the count,
   and decide by the unmasked count whether flags change.
6. `arithmetic.cpp:712,730`: RCL and RCR do not reduce the count by the ring of
   8-bit and 16-bit operands; 684, 700, 713, 731: rotates toggle CF and OF by the
   new value in place of setting them.
7. `arithmetic.cpp:892`: XADD stores the source back where the old destination
   belongs. 903, 912: CWDE and CDQ leave the upper half.
8. `arithmetic.cpp:298`: IMUL of a byte widens AL without its sign; 425, 509: DIV
   and IDIV of a byte take AL for AX; 316, 375: CF and OF of IMUL.
9. `comparison.cpp:84-93`: CMPXCHG compares the whole of RAX at any operand size.
10. `amd64.cpp:52-105`: addresses of 32-bit registers do not wrap at 32 bits, and
    the address of an operand with nothing to add is never written.
11. `misc.cpp:192,198`: POP of 16 bits to memory stores 64. 232-303: string
    instructions ignore a repeat prefix. `flags.cpp:167`: bit tests of memory do
    not reach beyond the operand. `branch.cpp:283-285`: an inlined CALL reads its
    target after the return address was pushed.
12. `amd64.cpp:247-261`: after the bytes of an unhandled instruction the cleared
    upper half of a 32-bit register is not pinned. Flags set or cleared to a fixed
    value after the bytes, and flags tested before them (226-242), are pinned only if
    the disassembler lists the flags register among the implicit ones; the marks
    of eflags are looked at for MODIFY alone. For which instructions that leaves
    a flag unpinned is decided by tables that are not in the repository.

## Not modelled, and why

* AAA, AAS, DAA, DAS: not instructions of 64-bit code, which is what is lifted.
* ENTER, LEAVE, PUSHFQ, POPFQ and what PUSH and POP do to the block's virtual stack
  offset: the offset is kept by VTIL-Core's `push`, `pop` and `shift_sp`.
* LAHF, SAHF, CLI, STI: the models keep flags one by one, not as a register that is
  read and written as a word.
* AF: bit 4 of a word needs words of more than four bits, and it plays no part in
  any condition.
* With `inline_calls`, what a RET resolves to: VTIL-Core's branch analysis.
* An instruction that straddles the end of the input: what is read behind it is no
  state of the program. The depth of the native stack.
* The emulator of the test project (register contexts switched in machine code),
  `main.cpp` (a fixed set of examples), the build files, and VTIL-Core itself.

## Plan

Everything planned for the parts above is done. What is left to model needs VTIL-Core in the
repository (the virtual stack pointer, branch analysis of returns) or a model of
flags as the bits of one register (LAHF, SAHF, PUSHFQ, POPFQ).
