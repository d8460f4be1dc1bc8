-------------------------- MODULE RecursiveDescent --------------------------
(***************************************************************************)
(* The explorer of NativeLifters-Core/core/recursive_descent.hpp, with the *)
(* default processing_flags (inline_calls = false).                        *)
(*                                                                         *)
(* explore() calls populate() on the entry block.  populate() sweeps       *)
(* forward from the entry of its block, lifting one instruction at a time  *)
(* with arch::process, until the block is complete, runs off the input or  *)
(* meets the entry of a block populated before; then it analyses the       *)
(* branch that ends the block, forks a block for each destination and      *)
(* calls itself on those that are new.  One frame of "stack" is one        *)
(* activation of populate().                                               *)
(*                                                                         *)
(* An instruction is what the control of populate() can tell apart:        *)
(*   plain    execution continues with the next instruction                *)
(*   jmp      a jump whose destination branch analysis finds constant      *)
(*   jcc      a conditional jump (js): its target, or the next instruction *)
(*   opaque   a jump whose destination is not a constant (ret, jmp reg)    *)
(*   call     lifted to vxcall                                             *)
(*   invalid  does not disassemble                                         *)
(* The routine itself (basic_block, routine) and the branch analysis live  *)
(* in VTIL-Core, outside this repository: Fork and the operand sets of     *)
(* "dest" are modelled from how populate() uses them.                      *)
(***************************************************************************)
EXTENDS Integers, Sequences, FiniteSets

CONSTANTS
  Base, Size,     \* the byte_input: first address and number of bytes
  MaxVip,         \* bound on the addresses instructions mention or end at
  EntryPoint,     \* the address handed to the constructor
  Insns,          \* the decoded instructions a program may consist of
  Opaque,         \* a destination that is not a constant
  DebugBuild      \* are dassert()s compiled in?

Vips == 0 .. MaxVip

(* byte_input::is_valid *)
IsValid(v) == v >= Base /\ v - Base < Size

Input == {v \in Vips : IsValid(v)}

Kinds == {"plain", "jmp", "jcc", "opaque", "call", "invalid"}

ASSUME DescentAssumption ==
  /\ Base \in Nat /\ Size \in Nat /\ MaxVip \in Nat
  /\ EntryPoint \in Input
  /\ Insns \subseteq [kind : Kinds, len : Nat, target : Vips]
  /\ \A i \in Insns : \A v \in Input : v + i.len \in Vips
  /\ \A i \in Insns : i.len > 0
  /\ Opaque \notin Vips
  /\ DebugBuild \in BOOLEAN

VARIABLES
  code,        \* the program: the instruction each address decodes to
  explored,    \* routine::explored_blocks, blocks named by their entry_vip
  labels,      \* the addresses lifted into each block (label_begin)
  term,        \* the branch that ends each block, "open" if it has none yet
  dest,        \* the destinations of that branch
  next,        \* links between blocks (basic_block::next and ::prev)
  leaders,     \* recursive_descent::leaders
  stack,       \* the activations of populate(), the innermost last
  status,      \* of explore(): see Statuses
  convention   \* routine_convention, "caller" as set before explore()

vars == <<code, explored, labels, term, dest, next, leaders, stack, status,
          convention>>

blockVars == <<explored, labels, term, dest, next>>

Statuses == {"running", "done", "aborted", "crashed"}
Phases == {"enter", "sweep", "branch", "follow"}
Terms == {"open", "jmp", "js", "vxcall", "vexit"}
Frames == [blk : Vips, vip : Vips, phase : Phases, todo : SUBSET Vips]

(***************************************************************************)
(* The program.                                                            *)
(***************************************************************************)

(* The address after the instruction at v: vip += offs. *)
After(v) == v + code[v].len

(* The terminator process() leaves at the end of the block, if any. *)
Terminator(i) ==
  CASE i.kind = "plain"   -> "open"
    [] i.kind = "jcc"     -> "js"
    [] i.kind = "call"    -> "vxcall"
    [] i.kind = "invalid" -> "vexit"
    [] OTHER              -> "jmp"

(* Mutation: an absolute target taken for a displacement. *)
DestinationsRelative(v) ==
  CASE code[v].kind = "jmp"    -> {After(v) + code[v].target}
    [] code[v].kind = "jcc"    -> {After(v) + code[v].target, After(v)}
    [] code[v].kind = "opaque" -> {Opaque}
    [] OTHER                   -> {}

(* The destinations branch analysis finds for the jump at v. *)
Destinations(v) ==
  CASE code[v].kind = "jmp"    -> {code[v].target}
    [] code[v].kind = "jcc"    -> {code[v].target, After(v)}
    [] code[v].kind = "opaque" -> {Opaque}
    [] OTHER                   -> {}

(***************************************************************************)
(* The activation stack.                                                   *)
(***************************************************************************)
Top == stack[Len(stack)]

Running(phase) == status = "running" /\ stack # <<>> /\ Top.phase = phase

NewFrame(b) == [blk |-> b, vip |-> b, phase |-> "enter", todo |-> {}]

(* Replace the innermost activation; return from it; call from it. *)
SetTop(f) == [stack EXCEPT ![Len(stack)] = f]
Pop == SubSeq(stack, 1, Len(stack) - 1)
Push(f, b) == Append(SetTop(f), NewFrame(b))

(***************************************************************************)
(* basic_block::fork links the two blocks, and creates the second unless   *)
(* it is explored already, in which case it returns nullptr.               *)
(***************************************************************************)
Fork(b, d) ==
  /\ explored' = explored \cup {d}
  /\ next' = next \cup {<<b, d>>}

(* Mutation: fork() makes a block again that exists. *)
ForksAgain(d) == d \in Vips

ForksNew(d) == d \notin explored

Init ==
  /\ code \in [Input -> Insns]
  /\ explored = {EntryPoint}
  /\ labels = [b \in Vips |-> {}]
  /\ term = [b \in Vips |-> "open"]
  /\ dest = [b \in Vips |-> {}]
  /\ next = {}
  /\ leaders = {}
  /\ stack = <<NewFrame(EntryPoint)>>
  /\ status = "running"
  /\ convention = "caller"

(***************************************************************************)
(* The head of populate(): get_at, then leaders.emplace.                   *)
(***************************************************************************)
EnterBlock ==
  /\ Running("enter")
  /\ DebugBuild => IsValid(Top.vip)
  /\ leaders' = leaders \cup {Top.vip}
  /\ stack' = SetTop([Top EXCEPT !.phase = "sweep"])
  /\ UNCHANGED <<code, blockVars, status, convention>>

(* The dassert of get_at fires. *)
FailGetAt ==
  /\ Running("enter")
  /\ DebugBuild /\ ~IsValid(Top.vip)
  /\ status' = "aborted"
  /\ UNCHANGED <<code, blockVars, leaders, stack, convention>>

(***************************************************************************)
(* The sweep.                                                              *)
(***************************************************************************)

(* The sweep has left the input: vexit(vip). *)
RunOff ==
  /\ Running("sweep")
  /\ ~IsValid(Top.vip)
  /\ term' = [term EXCEPT ![Top.blk] = "vexit"]
  /\ stack' = Pop
  /\ UNCHANGED <<code, explored, labels, dest, next, leaders, status,
                 convention>>

(* Lift the instruction at the sweep's address into the block. *)
Lift(kinds) ==
  /\ Running("sweep")
  /\ IsValid(Top.vip)
  /\ code[Top.vip].kind \in kinds
  /\ labels' = [labels EXCEPT ![Top.blk] = @ \cup {Top.vip}]

(* Mutation: the sweep advances by one byte, whatever the instruction. *)
LiftPlainByte ==
  /\ Lift({"plain"})
  /\ After(Top.vip) \notin leaders
  /\ stack' = SetTop([Top EXCEPT !.vip = @ + 1])
  /\ UNCHANGED <<code, explored, term, dest, next, leaders, status,
                 convention>>

(* Mutation: the sweep ignores the blocks populated before. *)
LiftPlainOver ==
  /\ Lift({"plain"})
  /\ stack' = SetTop([Top EXCEPT !.vip = After(Top.vip)])
  /\ UNCHANGED <<code, explored, term, dest, next, leaders, status,
                 convention>>

(* The block goes on with the next instruction. *)
LiftPlain ==
  /\ Lift({"plain"})
  /\ After(Top.vip) \notin leaders
  /\ stack' = SetTop([Top EXCEPT !.vip = After(Top.vip)])
  /\ UNCHANGED <<code, explored, term, dest, next, leaders, status,
                 convention>>

(* Mutation: the jump goes to the instruction just lifted. *)
LiftUpToLeaderEarly ==
  /\ Lift({"plain"})
  /\ After(Top.vip) \in leaders
  /\ term' = [term EXCEPT ![Top.blk] = "jmp"]
  /\ dest' = [dest EXCEPT ![Top.blk] = {Top.vip}]
  /\ Fork(Top.blk, Top.vip)
  /\ stack' = SetTop([Top EXCEPT !.vip = After(Top.vip), !.phase = "branch"])
  /\ UNCHANGED <<code, leaders, status, convention>>

(* The next instruction begins a block populated before: jump there. *)
LiftUpToLeader ==
  /\ Lift({"plain"})
  /\ After(Top.vip) \in leaders
  /\ term' = [term EXCEPT ![Top.blk] = "jmp"]
  /\ dest' = [dest EXCEPT ![Top.blk] = {After(Top.vip)}]
  /\ Fork(Top.blk, After(Top.vip))
  /\ stack' = SetTop([Top EXCEPT !.vip = After(Top.vip), !.phase = "branch"])
  /\ UNCHANGED <<code, leaders, status, convention>>

(* The instruction is a jump and completes the block. *)
LiftBranch ==
  /\ Lift({"jmp", "jcc", "opaque"})
  /\ term' = [term EXCEPT ![Top.blk] = Terminator(code[Top.vip])]
  /\ dest' = [dest EXCEPT ![Top.blk] = Destinations(Top.vip)]
  /\ stack' = SetTop([Top EXCEPT !.vip = After(Top.vip), !.phase = "branch"])
  /\ UNCHANGED <<code, explored, next, leaders, status, convention>>

(***************************************************************************)
(* The instruction is a call: return populate(start_block->fork(vip)).     *)
(* The caller's activation has nothing left to follow.  The result of fork *)
(* is not looked at: when the return address is explored already it is     *)
(* nullptr, and populate() reads through it.                               *)
(***************************************************************************)
CallFrame ==
  [Top EXCEPT !.vip = After(Top.vip), !.phase = "follow", !.todo = {}]

CallReturn ==
  /\ Lift({"call"})
  /\ term' = [term EXCEPT ![Top.blk] = Terminator(code[Top.vip])]
  /\ dest' = [dest EXCEPT ![Top.blk] = {After(Top.vip)}]
  /\ Fork(Top.blk, After(Top.vip))
  /\ UNCHANGED <<code, leaders, convention>>

LiftCall ==
  /\ CallReturn
  /\ ForksNew(After(Top.vip))
  /\ stack' = Push(CallFrame, After(Top.vip))
  /\ UNCHANGED status

LiftCallToExplored ==
  /\ CallReturn
  /\ ~ForksNew(After(Top.vip))
  /\ status' = "crashed"
  /\ stack' = SetTop(CallFrame)

(* The bytes do not disassemble: process() ends the block with vexit. *)
LiftInvalid ==
  /\ Lift({"invalid"})
  /\ term' = [term EXCEPT ![Top.blk] = Terminator(code[Top.vip])]
  /\ stack' = Pop
  /\ UNCHANGED <<code, explored, dest, next, leaders, status, convention>>

(***************************************************************************)
(* Following the branch that ends the block.                               *)
(***************************************************************************)

(* Mutation: the calling convention is left as it is. *)
ExitOpaqueQuietly ==
  /\ Running("branch")
  /\ Opaque \in dest[Top.blk]
  /\ term' = [term EXCEPT ![Top.blk] = "vexit"]
  /\ stack' = Pop
  /\ UNCHANGED <<code, explored, labels, dest, next, leaders, status,
                 convention>>

(* A destination is not constant: the jump becomes a vexit. *)
ExitOpaque ==
  /\ Running("branch")
  /\ Opaque \in dest[Top.blk]
  /\ term' = [term EXCEPT ![Top.blk] = "vexit"]
  /\ convention' = "preserve_all"
  /\ stack' = Pop
  /\ UNCHANGED <<code, explored, labels, dest, next, leaders, status>>

(* Mutation: only one destination is followed. *)
ResolveOne ==
  /\ Running("branch")
  /\ Opaque \notin dest[Top.blk]
  /\ \E d \in dest[Top.blk] :
       stack' = SetTop([Top EXCEPT !.phase = "follow", !.todo = {d}])
  /\ UNCHANGED <<code, blockVars, leaders, status, convention>>

(* All destinations are constant: go through them, in any order. *)
Resolve ==
  /\ Running("branch")
  /\ Opaque \notin dest[Top.blk]
  /\ stack' = SetTop([Top EXCEPT !.phase = "follow", !.todo = dest[Top.blk]])
  /\ UNCHANGED <<code, blockVars, leaders, status, convention>>

(* Mutation: blocks that exist are skipped before fork() links them. *)
FollowExploredUnlinked(d) ==
  /\ Running("follow") /\ d \in Top.todo
  /\ ~ForksNew(d)
  /\ stack' = SetTop([Top EXCEPT !.todo = @ \ {d}])
  /\ UNCHANGED <<code, blockVars, leaders, status, convention>>

(* Mutation: a destination that exists stays on the list. *)
FollowExploredKept(d) ==
  /\ Running("follow") /\ d \in Top.todo
  /\ ~ForksNew(d)
  /\ Fork(Top.blk, d)
  /\ UNCHANGED <<code, labels, term, dest, leaders, stack, status, convention>>

FollowExplored(d) ==
  /\ Running("follow") /\ d \in Top.todo
  /\ ~ForksNew(d)
  /\ Fork(Top.blk, d)
  /\ stack' = SetTop([Top EXCEPT !.todo = @ \ {d}])
  /\ UNCHANGED <<code, labels, term, dest, leaders, status, convention>>

FollowNew(d) ==
  /\ Running("follow") /\ d \in Top.todo
  /\ ForksNew(d) /\ IsValid(d)
  /\ Fork(Top.blk, d)
  /\ stack' = Push([Top EXCEPT !.todo = @ \ {d}], d)
  /\ UNCHANGED <<code, labels, term, dest, leaders, status, convention>>

(* Mutation: a new block outside the input is left empty. *)
FollowOutOpen(d) ==
  /\ Running("follow") /\ d \in Top.todo
  /\ ForksNew(d) /\ ~IsValid(d)
  /\ Fork(Top.blk, d)
  /\ stack' = SetTop([Top EXCEPT !.todo = @ \ {d}])
  /\ UNCHANGED <<code, labels, term, dest, leaders, status, convention>>

(* A new block outside the input is a vexit and nothing else. *)
FollowOut(d) ==
  /\ Running("follow") /\ d \in Top.todo
  /\ ForksNew(d) /\ ~IsValid(d)
  /\ Fork(Top.blk, d)
  /\ term' = [term EXCEPT ![d] = "vexit"]
  /\ stack' = SetTop([Top EXCEPT !.todo = @ \ {d}])
  /\ UNCHANGED <<code, labels, dest, leaders, status, convention>>

Follow ==
  \E d \in Vips : FollowExplored(d) \/ FollowNew(d) \/ FollowOut(d)

(* Mutation: the walk over the destinations is left before its end. *)
ReturnEarly ==
  /\ Running("follow")
  /\ stack' = Pop
  /\ UNCHANGED <<code, blockVars, leaders, status, convention>>

Return ==
  /\ Running("follow") /\ Top.todo = {}
  /\ stack' = Pop
  /\ UNCHANGED <<code, blockVars, leaders, status, convention>>

(* explore() returns. *)
Finish ==
  /\ status = "running" /\ stack = <<>>
  /\ status' = "done"
  /\ UNCHANGED <<code, blockVars, leaders, stack, convention>>

Next ==
  \/ EnterBlock \/ FailGetAt
  \/ RunOff \/ LiftPlain \/ LiftUpToLeader \/ LiftBranch
  \/ LiftCall \/ LiftCallToExplored \/ LiftInvalid
  \/ ExitOpaque \/ Resolve \/ Follow \/ Return
  \/ Finish

Spec == Init /\ [][Next]_vars

(* One thread runs explore() and nothing blocks it. *)
FairSpec == Spec /\ WF_vars(Next)

(***************************************************************************)
(* Properties.                                                             *)
(***************************************************************************)

(* Types of the explorer's state. *)
TypeOK ==
  /\ code \in [Input -> Insns]
  /\ explored \subseteq Vips
  /\ labels \in [Vips -> SUBSET Input]
  /\ term \in [Vips -> Terms]
  /\ dest \in [Vips -> SUBSET (Vips \cup {Opaque})]
  /\ next \subseteq Vips \X Vips
  /\ leaders \subseteq Vips
  /\ stack \in Seq(Frames)
  /\ status \in Statuses
  /\ convention \in {"caller", "preserve_all"}

Active(b) == \E i \in DOMAIN stack : stack[i].blk = b

Sweeping(b, v) ==
  \E i \in DOMAIN stack :
    /\ stack[i].blk = b /\ stack[i].vip = v
    /\ stack[i].phase \in {"enter", "sweep"}

(* A block is populated by one activation of populate() at a time, however  *)
(* the program loops back into it: the code relies on fork() returning a   *)
(* block only once (recursive_descent.hpp:162).                            *)
OneActivation ==
  \A i, j \in DOMAIN stack : stack[i].blk = stack[j].blk => i = j

(* No block is left without the branch that ends it: a block still open is  *)
(* being swept.  Every user of the routine relies on it, e.g. blk->back()   *)
(* in main.cpp:80 on every block explored.                                  *)
OpenBlocksAreSwept ==
  \A b \in explored : term[b] = "open" => \E v \in Vips : Sweeping(b, v)

(* Every address lifted into a block, but its entry, is where a plain       *)
(* instruction of the same block ends.                                      *)
BlocksAreStraightLine ==
  \A b \in Vips : \A v \in labels[b] \ {b} :
    \E u \in labels[b] : code[u].kind = "plain" /\ v = After(u)

(* Control leaves the lifted form of an instruction where it leaves the     *)
(* instruction: into the next one of the block, through the block's branch  *)
(* to the same addresses, or out of the routine when there is nothing to    *)
(* lift.                                                                    *)
KeepsFlow(b, u) ==
  CASE code[u].kind = "plain" ->
         \/ After(u) \in labels[b]
         \/ term[b] = "jmp" /\ dest[b] = {After(u)}
         \/ term[b] = "vexit" /\ ~IsValid(After(u))
    [] code[u].kind = "call" -> term[b] = "vxcall" /\ dest[b] = {After(u)}
    [] code[u].kind \in {"jmp", "jcc"} ->
         term[b] = Terminator(code[u]) /\ dest[b] = Destinations(u)
    [] OTHER -> term[b] = "vexit"

BlocksKeepFlow ==
  \A b \in explored : ~Active(b) => \A u \in labels[b] : KeepsFlow(b, u)

(* A block populated is linked to the blocks its branch goes to, and to no  *)
(* other; the first successor found explored is linked as well as new ones. *)
LinksMatchBranches ==
  \A b \in explored :
    ~Active(b) => {d \in Vips : <<b, d>> \in next} =
                 IF term[b] = "vexit" THEN {} ELSE dest[b]

(* The calling convention the caller chose is replaced if and only if some  *)
(* jump could not be resolved (recursive_descent.hpp:144-152).              *)
ConventionDeclared ==
  convention = "preserve_all" <=>
    \E b \in explored : term[b] = "vexit" /\ dest[b] = {Opaque}

(* A block never sweeps across the entry of a block populated before.       *)
LeadersNotOverrun ==
  [][\A b \in Vips : (labels'[b] \ labels[b]) \cap leaders \subseteq {b}]_vars

(* A block that has its branch is finished: nothing is lifted into it any   *)
(* more, and all that may still happen is that a jmp turns into a vexit.    *)
CompleteBlocksFrozen ==
  [][\A b \in explored : term[b] # "open" =>
       /\ labels'[b] = labels[b] /\ dest'[b] = dest[b]
       /\ term'[b] = term[b] \/ (term[b] = "jmp" /\ term'[b] = "vexit")]_vars

(* The control flow of the input between the addresses it covers. *)
Flow ==
  {e \in Input \X Input :
    LET i == code[e[1]] IN
      \/ i.kind \in {"plain", "jcc", "call"} /\ e[2] = After(e[1])
      \/ i.kind \in {"jmp", "jcc"} /\ e[2] = i.target}

(* The addresses reached: entries of blocks, instructions lifted, and where *)
(* the sweeps under way stand.                                              *)
Seen ==
  {v \in Input : \/ v \in explored
                 \/ \E b \in Vips : v \in labels[b] \/ Sweeping(b, v)}

(* The descent is a search of the control-flow graph: it reaches nothing    *)
(* the program cannot reach from its entry, and does not return before      *)
(* everything reachable is explored.                                        *)
Search == INSTANCE Exploration WITH
            Addresses <- Input, Entry <- EntryPoint,
            edges <- Flow, seen <- Seen, finished <- (status = "done")

SearchesFlow == Search!Spec

(* When explore() returns, every successor in the input of every address    *)
(* reached was lifted into some block.                                      *)
Lifted == UNION {labels[b] : b \in Vips}

ReturnsComplete ==
  status = "done" => Search!Closed(Seen) /\ Seen = Lifted

(* explore() ends, and only a call can make it end otherwise than by        *)
(* returning.                                                               *)
Termination ==
  <>(\/ status = "done"
     \/ status # "running" /\ \E v \in Input : code[v].kind = "call")

(* How far explore() is from its end, the most significant number first:    *)
(* whether it runs, the blocks that may still be made, the activations,     *)
(* the phases the innermost has before it, and the part of its phase that   *)
(* is left: destinations to follow, or addresses above the sweep.           *)
PhasesLeft == [enter |-> 4, sweep |-> 3, branch |-> 2, follow |-> 1]

PartLeft(f) ==
  IF f.phase = "follow" THEN Cardinality(f.todo) ELSE MaxVip - f.vip

Distance ==
  <<IF status = "running" THEN 1 ELSE 0,
    Cardinality(Vips \ explored),
    Len(stack),
    IF stack = <<>> THEN 0 ELSE PhasesLeft[Top.phase],
    IF stack = <<>> THEN 0 ELSE PartLeft(Top)>>

Closer(d, e) ==
  \E i \in 1 .. 5 : d[i] < e[i] /\ \A j \in 1 .. i - 1 : d[j] = e[j]

(* Every step of explore() brings it closer to its end, however the program *)
(* loops: a sweep, a fork, a return and the walk over the destinations all  *)
(* use something up that is never given back but for the making of a block  *)
(* (recursive_descent.hpp:90-170).                                          *)
StepsLeadToEnd == [][Closer(Distance', Distance)]_vars

(* "Generic recursive descent parser used for exploring control flow"       *)
(* (recursive_descent.hpp:56): populate() is always given a block, and asks *)
(* get_at only for addresses of the input, whatever the program; the        *)
(* dassert of recursive_descent.hpp:51 never fires.                         *)
PopulateIsCalledRight == status \notin {"crashed", "aborted"}
=============================================================================
