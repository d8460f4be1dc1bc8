----------------------------- MODULE BlockProofs -----------------------------
(***************************************************************************)
(* Proofs about the blocks RecursiveDescent makes: what they hold, how they *)
(* end and what they are linked to, for every input and instruction set.   *)
(***************************************************************************)
EXTENDS RecursiveDescentProofs

(***************************************************************************)
(* What a step may never do to blocks.                                     *)
(***************************************************************************)

(* The actions that lift nothing leave the lifted addresses alone.          *)
LEMMA LabelsChange ==
  ASSUME [Next]_vars, labels' # labels
  PROVE  \E kinds : Lift(kinds)
BY DEF Next, vars, blockVars, EnterBlock, FailGetAt, RunOff, LiftPlain, LiftUpToLeader,
   LiftBranch, LiftCall, LiftCallToExplored, CallReturn, LiftInvalid, ExitOpaque,
   Resolve, Follow, FollowExplored, FollowNew, FollowOut, Return, Finish

(* populate() never sweeps across the entry of a block populated before     *)
(* (recursive_descent.hpp:123-127), for any program.                        *)
THEOREM LeadersKept == Spec => LeadersNotOverrun
<1> DEFINE A == \A b \in Vips : (labels'[b] \ labels[b]) \cap leaders \subseteq {b}
<1>1. Shape /\ [Next]_vars => [A]_vars
  <2> SUFFICES ASSUME Shape, [Next]_vars PROVE A
    OBVIOUS
  <2>1. CASE labels' = labels
    BY <2>1
  <2>2. CASE labels' # labels
    <3>1. PICK kinds : Lift(kinds)
      BY <2>2, LabelsChange
    <3>2. /\ labels' = [labels EXCEPT ![Top.blk] = @ \cup {Top.vip}]
          /\ FrameOK(Top) /\ Top.phase = "sweep"
      BY <3>1, LiftFacts
    <3>3. Top.vip = Top.blk \/ Top.vip \notin leaders
      BY <3>2 DEF FrameOK
    <3> QED
      BY <3>2, <3>3 DEF Shape, TypeOK
  <2> QED
    BY <2>1, <2>2
<1> QED
  BY <1>1, ShapeAlways, PTL DEF Spec, LeadersNotOverrun

(* A block that has its branch is only ever changed by turning an           *)
(* unresolved jmp into vexit (recursive_descent.hpp:144-152).               *)
THEOREM BlocksFrozen == Spec => CompleteBlocksFrozen
<1> DEFINE A == \A b \in explored : term[b] # "open" =>
                  /\ labels'[b] = labels[b] /\ dest'[b] = dest[b]
                  /\ term'[b] = term[b] \/ (term[b] = "jmp" /\ term'[b] = "vexit")
<1>1. Shape /\ [Next]_vars => [A]_vars
  <2> SUFFICES ASSUME Shape, [Next]_vars PROVE A
    OBVIOUS
  <2>type. /\ labels \in [Vips -> SUBSET Input] /\ term \in [Vips -> Terms]
           /\ dest \in [Vips -> SUBSET (Vips \cup {Opaque})] /\ explored \subseteq Vips
    BY DEF Shape, TypeOK
  <2>1. CASE UNCHANGED <<labels, term, dest>>
    BY <2>1
  <2>2. CASE RunOff
    <3>1. stack # <<>> /\ Top.phase = "sweep" /\ term[Top.blk] = "open"
      BY <2>2, TopOK DEF RunOff, Running, FrameOK
    <3> QED
      BY <2>type, <2>2, <3>1 DEF RunOff
  <2>3. ASSUME NEW kinds, Lift(kinds),
               \A b \in Vips \ {Top.blk} : term'[b] = term[b] /\ dest'[b] = dest[b]
        PROVE  A
    BY <2>type, <2>3, LiftFacts
  <2>4. CASE LiftPlain
    <3>1. Lift({"plain"}) /\ UNCHANGED <<term, dest>>
      BY <2>4 DEF LiftPlain
    <3> QED
      BY <2>3, <3>1
  <2>5. CASE LiftUpToLeader
    <3>1. /\ Lift({"plain"})
          /\ \A b \in Vips \ {Top.blk} : term'[b] = term[b] /\ dest'[b] = dest[b]
      BY <2>type, <2>5 DEF LiftUpToLeader
    <3> QED
      BY <2>3, <3>1
  <2>6. CASE LiftBranch
    <3>1. /\ Lift({"jmp", "jcc", "opaque"})
          /\ \A b \in Vips \ {Top.blk} : term'[b] = term[b] /\ dest'[b] = dest[b]
      BY <2>type, <2>6 DEF LiftBranch
    <3> QED
      BY <2>3, <3>1
  <2>7. CASE LiftCall \/ LiftCallToExplored
    <3>1. /\ Lift({"call"})
          /\ \A b \in Vips \ {Top.blk} : term'[b] = term[b] /\ dest'[b] = dest[b]
      BY <2>type, <2>7 DEF LiftCall, LiftCallToExplored, CallReturn
    <3> QED
      BY <2>3, <3>1
  <2>8. CASE LiftInvalid
    <3>1. /\ Lift({"invalid"})
          /\ \A b \in Vips \ {Top.blk} : term'[b] = term[b] /\ dest'[b] = dest[b]
      BY <2>type, <2>8 DEF LiftInvalid
    <3> QED
      BY <2>3, <3>1
  <2>9. CASE ExitOpaque
    <3>1. /\ stack # <<>> /\ Top.phase = "branch" /\ Opaque \in dest[Top.blk]
          /\ term[Top.blk] = "jmp"
      BY <2>9, TopOK DEF ExitOpaque, Running, FrameOK
    <3> QED
      BY <2>type, <2>9, <3>1 DEF ExitOpaque
  <2>10. ASSUME NEW d \in Vips, FollowOut(d) PROVE A
    <3>1. d \notin explored
      BY <2>10 DEF FollowOut, ForksNew
    <3> QED
      BY <2>type, <2>10, <3>1 DEF FollowOut
  <2> QED
    BY <2>1, <2>2, <2>4, <2>5, <2>6, <2>7, <2>8, <2>9, <2>10
       DEF Next, vars, blockVars, EnterBlock, FailGetAt, Resolve, Follow,
           FollowExplored, FollowNew, Return, Finish
<1> QED
  BY <1>1, ShapeAlways, PTL DEF Spec, CompleteBlocksFrozen

(***************************************************************************)
(* The inductive invariant of the blocks.                                  *)
(***************************************************************************)
Links(b) == {d \in Vips : <<b, d>> \in next}

(* A block no activation works on any more. *)
Settled(b) ==
  /\ \A u \in labels[b] : KeepsFlow(b, u)
  /\ Links(b) = IF term[b] = "vexit" THEN {} ELSE dest[b]

AllSettled == \A b \in explored : ~Active(b) => Settled(b)

(* The instruction at u is followed in the block by what the input has       *)
(* behind it, the address v included, where the sweep stands.               *)
Continues(b, u, v) ==
  code[u].kind = "plain" /\ (After(u) \in labels[b] \/ After(u) = v)

(* How far an activation has brought its block.                             *)
SweepOK(f) ==
  f.phase \in {"enter", "sweep"} =>
    /\ Links(f.blk) = {}
    /\ \A u \in labels[f.blk] : Continues(f.blk, u, f.vip)
    /\ \/ f.vip = f.blk
       \/ \E u \in labels[f.blk] : code[u].kind = "plain" /\ f.vip = After(u)

BranchOK(f) ==
  f.phase = "branch" =>
    /\ Links(f.blk) \subseteq dest[f.blk]
    /\ \A u \in labels[f.blk] :
         \/ Opaque \notin dest[f.blk] /\ KeepsFlow(f.blk, u)
         \/ Opaque \in dest[f.blk] /\ code[u].kind = "plain" /\ After(u) \in labels[f.blk]
         \/ Opaque \in dest[f.blk] /\ code[u].kind = "opaque"

FollowOK(f) ==
  f.phase = "follow" =>
    /\ dest[f.blk] \ f.todo \subseteq Links(f.blk)
    /\ Links(f.blk) \cup f.todo \subseteq dest[f.blk]
    /\ Opaque \notin dest[f.blk] /\ term[f.blk] # "vexit"
    /\ \A u \in labels[f.blk] : KeepsFlow(f.blk, u)

PhaseOK(f) == SweepOK(f) /\ BranchOK(f) /\ FollowOK(f)

PhasesOK == \A i \in DOMAIN stack : PhaseOK(stack[i])

Unlinked == \A b \in Vips \ explored : Links(b) = {}

OpenGoesNowhere == \A b \in Vips : term[b] = "open" => dest[b] = {}

BlockInv ==
  /\ PhasesOK
  /\ AllSettled
  /\ Unlinked
  /\ OpenGoesNowhere
  /\ ConventionDeclared
  /\ BlocksAreStraightLine

(***************************************************************************)
(* Steps only change the block of the innermost activation.                *)
(***************************************************************************)

(* The others stay as they are, and so does what is true of them.           *)
Untouched ==
  /\ code' = code
  /\ \A b \in explored \ {Top.blk} :
       /\ labels'[b] = labels[b] /\ term'[b] = term[b] /\ dest'[b] = dest[b]
       /\ Links(b)' = Links(b)

(* Whether the flow of an instruction is kept depends on its block alone.   *)
LEMMA FlowUnchanged ==
  ASSUME NEW b, NEW u, code' = code,
         labels'[b] = labels[b], term'[b] = term[b], dest'[b] = dest[b]
  PROVE  KeepsFlow(b, u)' = KeepsFlow(b, u)
<1>1. After(u)' = After(u)
  BY DEF After
<1>2. Destinations(u)' = Destinations(u)
  BY DEF Destinations, After
<1> QED
  BY <1>1, <1>2, Zenon DEF KeepsFlow

(* What kind of instruction goes where.                                     *)
LEMMA FlowKinds ==
  ASSUME NEW b, NEW u
  PROVE  /\ code[u].kind = "plain" =>
              (KeepsFlow(b, u) <=> \/ After(u) \in labels[b]
                                   \/ term[b] = "jmp" /\ dest[b] = {After(u)}
                                   \/ term[b] = "vexit" /\ ~IsValid(After(u)))
         /\ code[u].kind = "call" =>
              (KeepsFlow(b, u) <=> term[b] = "vxcall" /\ dest[b] = {After(u)})
         /\ code[u].kind \in {"jmp", "jcc"} =>
              (KeepsFlow(b, u) <=> term[b] = Terminator(code[u]) /\ dest[b] = Destinations(u))
         /\ code[u].kind \notin {"plain", "call", "jmp", "jcc"} =>
              (KeepsFlow(b, u) <=> term[b] = "vexit")
<1>1. CASE code[u].kind = "plain"
  BY <1>1 DEF KeepsFlow
<1>2. CASE code[u].kind = "call"
  BY <1>2 DEF KeepsFlow
<1>3. CASE code[u].kind \in {"jmp", "jcc"}
  BY <1>3 DEF KeepsFlow
<1>4. CASE code[u].kind \notin {"plain", "call", "jmp", "jcc"}
  BY <1>4 DEF KeepsFlow
<1> QED
  BY <1>1, <1>2, <1>3, <1>4

(* Blocks and callers untouched.                                            *)
LEMMA UntouchedFacts ==
  ASSUME Untouched, NEW b \in explored \ {Top.blk}
  PROVE  /\ Settled(b) => Settled(b)'
         /\ \A f \in Frames : f.blk = b /\ f.phase = "follow" /\ PhaseOK(f) => PhaseOK(f)'
<1>1. \A u : KeepsFlow(b, u)' = KeepsFlow(b, u)
  BY FlowUnchanged DEF Untouched
<1>2. Settled(b) => Settled(b)'
  BY <1>1 DEF Untouched, Settled
<1>3. ASSUME NEW f \in Frames, f.blk = b, f.phase = "follow", PhaseOK(f) PROVE PhaseOK(f)'
  BY <1>1, <1>3 DEF Untouched, PhaseOK, SweepOK, BranchOK, FollowOK
<1> QED
  BY <1>2, <1>3

(* The callers of the innermost activation, and the blocks left.            *)
LEMMA OthersKept ==
  ASSUME Shape, PhasesOK, AllSettled, Untouched, stack # <<>>
  PROVE  /\ \A i \in DOMAIN stack : \A f \in Frames :
              i # Len(stack) /\ stack[i] = f => PhaseOK(f)' /\ f.blk # Top.blk
         /\ \A b \in explored : ~Active(b) => Settled(b)' /\ b # Top.blk
<1>1. Len(stack) \in DOMAIN stack
  BY TopOK
<1>2. ASSUME NEW i \in DOMAIN stack, NEW f \in Frames, i # Len(stack), stack[i] = f
      PROVE  PhaseOK(f)' /\ f.blk # Top.blk
  <2>1. f.blk # Top.blk
    BY <1>1, <1>2 DEF Shape, OneActivation, Top
  <2>2. f.phase = "follow" /\ f.blk \in explored
    BY <1>2 DEF Shape, TypeOK, CallersFollow, FramesOK, FrameOK
  <2>3. PhaseOK(f)
    BY <1>2 DEF PhasesOK
  <2> QED
    BY <2>1, <2>2, <2>3, UntouchedFacts
<1>3. ASSUME NEW b \in explored, ~Active(b) PROVE Settled(b)' /\ b # Top.blk
  <2>1. b # Top.blk
    BY <1>1, <1>3 DEF Active, Top
  <2> QED
    BY <1>3, <2>1, UntouchedFacts DEF AllSettled
<1> QED
  BY <1>2, <1>3

(* The activation goes on; new blocks are settled at once.                  *)
LEMMA SetTopBlocks ==
  ASSUME Shape, PhasesOK, AllSettled, Untouched, stack # <<>>,
         NEW f \in Frames, f.blk = Top.blk, stack' = SetTop(f), PhaseOK(f)',
         \A d \in explored' \ explored : Settled(d)'
  PROVE  PhasesOK' /\ AllSettled'
<1>1. /\ DOMAIN stack' = DOMAIN stack /\ Len(stack) \in DOMAIN stack
      /\ \A i \in DOMAIN stack : /\ stack[i] \in Frames
                                 /\ stack'[i] = IF i = Len(stack) THEN f ELSE stack[i]
  BY SetTopFacts, TopOK DEF Shape, TypeOK
<1>2. ASSUME NEW i \in DOMAIN stack' PROVE PhaseOK(stack[i])'
  <2>1. PICK g \in Frames : g = stack'[i]
    BY <1>1
  <2>2. PhaseOK(g)'
    <3>1. CASE i = Len(stack)
      BY <1>1, <2>1, <3>1
    <3>2. CASE i # Len(stack)
      BY <1>1, <2>1, <3>2, OthersKept
    <3> QED
      BY <3>1, <3>2
  <2> QED
    BY <2>1, <2>2 DEF PhaseOK, SweepOK, BranchOK, FollowOK
<1>3. ASSUME NEW b \in explored', ~Active(b)' PROVE Settled(b)'
  <2>1. ~Active(b)
    BY <1>1, <1>3 DEF Active, Top
  <2> QED
    BY <2>1, OthersKept
<1> QED
  BY <1>2, <1>3 DEF PhasesOK, AllSettled

(* The activation returns, and leaves its block settled.                    *)
LEMMA PopBlocks ==
  ASSUME Shape, PhasesOK, AllSettled, Untouched, stack # <<>>,
         stack' = Pop, explored' = explored, NEW c, c = Top.blk, Settled(c)'
  PROVE  PhasesOK' /\ AllSettled'
<1>1. /\ DOMAIN stack' = DOMAIN stack \ {Len(stack)} /\ Len(stack) \in DOMAIN stack
      /\ \A i \in DOMAIN stack' : stack[i] \in Frames /\ stack'[i] = stack[i]
  BY PopFacts, TopOK DEF Shape, TypeOK
<1>2. ASSUME NEW i \in DOMAIN stack' PROVE PhaseOK(stack[i])'
  <2>1. PICK g \in Frames : g = stack'[i]
    BY <1>1
  <2>2. PhaseOK(g)'
    BY <1>1, <2>1, OthersKept
  <2> QED
    BY <2>1, <2>2 DEF PhaseOK, SweepOK, BranchOK, FollowOK
<1>3. ASSUME NEW b \in explored', ~Active(b)' PROVE Settled(b)'
  <2>1. CASE b = c
    BY <2>1
  <2>2. CASE b # c
    <3>1. ~Active(b)
      BY <1>1, <1>3, <2>2 DEF Active, Top
    <3> QED
      BY <3>1, OthersKept
  <2> QED
    BY <2>1, <2>2
<1> QED
  BY <1>2, <1>3 DEF PhasesOK, AllSettled

(* The activation calls populate() on a new block.                          *)
LEMMA PushBlocks ==
  ASSUME Shape, PhasesOK, AllSettled, Untouched, stack # <<>>,
         NEW f \in Frames, f.blk = Top.blk, NEW d \in Vips, stack' = Push(f, d),
         PhaseOK(f)', explored' = explored \cup {d},
         labels'[d] = {}, Links(d)' = {}
  PROVE  PhasesOK' /\ AllSettled'
<1>1. /\ DOMAIN stack' = DOMAIN stack \cup {Len(stack) + 1}
      /\ \A i \in DOMAIN stack : /\ stack[i] \in Frames
                                 /\ stack'[i] = IF i = Len(stack) THEN f ELSE stack[i]
      /\ stack'[Len(stack) + 1] = NewFrame(d)
      /\ Len(stack) \in DOMAIN stack
  <2>1. stack \in Seq(Frames) /\ Len(stack) \in DOMAIN stack
    BY TopOK DEF Shape, TypeOK
  <2>2. \A i \in DOMAIN stack : stack[i] \in Frames
    BY <2>1
  <2> QED
    BY <2>1, <2>2, PushFacts
<1>2. PhaseOK(NewFrame(d))'
  BY DEF PhaseOK, SweepOK, BranchOK, FollowOK, NewFrame
<1>3. ASSUME NEW i \in DOMAIN stack' PROVE PhaseOK(stack[i])'
  <2>1. CASE i = Len(stack) + 1
    BY <1>1, <1>2, <2>1 DEF PhaseOK, SweepOK, BranchOK, FollowOK, NewFrame
  <2>2. CASE i \in DOMAIN stack
    <3>1. PICK g \in Frames : g = stack'[i]
      BY <1>1, <2>2
    <3>2. PhaseOK(g)'
      <4>1. CASE i = Len(stack)
        BY <1>1, <3>1, <4>1
      <4>2. CASE i # Len(stack)
        BY <1>1, <2>2, <3>1, <4>2, OthersKept
      <4> QED
        BY <4>1, <4>2
    <3> QED
      BY <3>1, <3>2 DEF PhaseOK, SweepOK, BranchOK, FollowOK
  <2> QED
    BY <1>1, <2>1, <2>2
<1>4. ASSUME NEW b \in explored', ~Active(b)' PROVE Settled(b)'
  <2>1. b # d
    BY <1>1, <1>4 DEF Active, NewFrame
  <2>2. ~Active(b)
    BY <1>1, <1>4 DEF Active, Top
  <2> QED
    BY <2>1, <2>2, OthersKept
<1> QED
  BY <1>3, <1>4 DEF PhasesOK, AllSettled

(***************************************************************************)
(* Every action keeps the blocks well formed.                              *)
(***************************************************************************)

(* What is known of the innermost activation before a step.                 *)
LEMMA TopPhase ==
  ASSUME Shape, BlockInv, stack # <<>>
  PROVE  /\ PhaseOK(Top) /\ Top \in Frames /\ FrameOK(Top)
         /\ Top.blk \in explored /\ Top.blk \in Vips /\ Top.vip \in Vips
BY TopOK DEF BlockInv, PhasesOK, FrameOK, Frames, Top

(* Entering a block. *)
LEMMA EnterBlocks == Shape /\ BlockInv /\ EnterBlock => BlockInv'
<1> SUFFICES ASSUME Shape, BlockInv, EnterBlock PROVE BlockInv'
  OBVIOUS
<1>f. PICK f : f = [Top EXCEPT !.phase = "sweep"]
  OBVIOUS
<1>1. /\ stack # <<>> /\ Top.phase = "enter" /\ stack' = SetTop(f)
      /\ UNCHANGED <<code, explored, labels, term, dest, next, convention>>
  BY <1>f DEF EnterBlock, Running, blockVars
<1>2. PhaseOK(Top) /\ Top \in Frames /\ FrameOK(Top)
  BY <1>1, TopPhase
<1>3. /\ f \in Frames /\ f.blk = Top.blk /\ f.vip = Top.vip /\ f.phase = "sweep"
  BY <1>2, <1>f DEF Frames, Phases
<1>4. PhaseOK(f)'
  BY <1>1, <1>2, <1>3 DEF PhaseOK, SweepOK, BranchOK, FollowOK, Links, Continues, After
<1>5. PhasesOK' /\ AllSettled'
  BY <1>1, <1>3, <1>4, SetTopBlocks DEF BlockInv, Untouched, Links
<1> QED
  BY <1>1, <1>5 DEF BlockInv, Unlinked, Links, OpenGoesNowhere, ConventionDeclared,
     BlocksAreStraightLine, After

(* Running off the input. *)
LEMMA RunOffBlocks == Shape /\ BlockInv /\ RunOff => BlockInv'
<1> SUFFICES ASSUME Shape, BlockInv, RunOff PROVE BlockInv'
  OBVIOUS
<1>b. PICK b : b = Top.blk
  OBVIOUS
<1>1. /\ stack # <<>> /\ Top.phase = "sweep" /\ ~IsValid(Top.vip) /\ stack' = Pop
      /\ term' = [term EXCEPT ![b] = "vexit"]
      /\ UNCHANGED <<code, explored, labels, dest, next, convention>>
  BY <1>b DEF RunOff, Running
<1>2. /\ PhaseOK(Top) /\ FrameOK(Top) /\ b \in explored /\ b \in Vips
  BY <1>1, <1>b, TopPhase
<1>3. /\ term'[b] = "vexit" /\ \A c \in Vips \ {b} : term'[c] = term[c]
      /\ explored \subseteq Vips
  BY <1>1, <1>2 DEF Shape, TypeOK
<1>4. /\ Links(b) = {} /\ term[b] = "open" /\ dest[b] = {}
      /\ \A u \in labels[b] : Continues(b, u, Top.vip)
  BY <1>1, <1>2, <1>b DEF PhaseOK, SweepOK, FrameOK, BlockInv, OpenGoesNowhere
<1>5. \A u \in labels'[b] : KeepsFlow(b, u)'
  <2>1. ASSUME NEW u \in labels[b] PROVE KeepsFlow(b, u)'
    <3>1. /\ code'[u].kind = "plain" /\ After(u)' = After(u)
          /\ After(u) \in labels'[b] \/ ~IsValid(After(u))
      BY <1>1, <1>4 DEF Continues, After
    <3> QED
      BY <1>3, <3>1 DEF KeepsFlow
  <2> QED
    BY <1>1, <2>1
<1>6. Settled(b)'
  BY <1>1, <1>3, <1>4, <1>5 DEF Settled, Links
<1>7. PhasesOK' /\ AllSettled'
  BY <1>b, <1>1, <1>3, <1>6, PopBlocks DEF BlockInv, Untouched, Links
<1>8. ConventionDeclared'
  <2>1. \A c \in explored : term'[c] = "vexit" /\ dest'[c] = {Opaque}
                              <=> term[c] = "vexit" /\ dest[c] = {Opaque}
    BY <1>1, <1>3, <1>4
  <2> QED
    BY <1>1, <2>1 DEF BlockInv, ConventionDeclared
<1> QED
  BY <1>1, <1>3, <1>7, <1>8 DEF BlockInv, Unlinked, Links, OpenGoesNowhere,
     BlocksAreStraightLine, After

(* A plain instruction, and the sweep goes on. *)
LEMMA LiftPlainBlocks == Shape /\ BlockInv /\ LiftPlain => BlockInv'
<1> SUFFICES ASSUME Shape, BlockInv, LiftPlain PROVE BlockInv'
  OBVIOUS
<1>f. PICK f : f = [Top EXCEPT !.vip = After(Top.vip)]
  OBVIOUS
<1>b. PICK b, v : b = Top.blk /\ v = Top.vip
  OBVIOUS
<1>1. /\ Lift({"plain"}) /\ stack' = SetTop(f)
      /\ UNCHANGED <<code, explored, term, dest, next, convention>>
  BY <1>f DEF LiftPlain
<1>2. /\ stack # <<>> /\ Top \in Frames /\ Top.phase = "sweep"
      /\ code[v].kind = "plain" /\ After(v) \in Vips /\ b \in Vips
      /\ labels' = [labels EXCEPT ![b] = @ \cup {v}]
  BY <1>1, <1>b, LiftFacts
<1>3. /\ f \in Frames /\ f.blk = b /\ f.vip = After(v) /\ f.phase = "sweep"
  BY <1>2, <1>b, <1>f DEF Frames
<1>4. /\ labels'[b] = labels[b] \cup {v} /\ \A c \in Vips \ {b} : labels'[c] = labels[c]
      /\ explored \subseteq Vips
  BY <1>2 DEF Shape, TypeOK
<1>5. /\ Links(b) = {} /\ \A u \in labels[b] : Continues(b, u, v)
      /\ v = b \/ \E u \in labels[b] : code[u].kind = "plain" /\ v = After(u)
  BY <1>2, <1>b, TopPhase DEF PhaseOK, SweepOK
<1>6. \A u : After(u)' = After(u)
  BY <1>1 DEF After
<1>7. PhaseOK(f)'
  <2>1. \A u \in labels'[b] : Continues(b, u, After(v))'
    BY <1>1, <1>2, <1>4, <1>5, <1>6 DEF Continues
  <2> QED
    BY <1>1, <1>2, <1>3, <1>4, <1>5, <1>6, <2>1
       DEF PhaseOK, SweepOK, BranchOK, FollowOK, Links, Continues
<1>8. PhasesOK' /\ AllSettled'
  BY <1>1, <1>2, <1>3, <1>4, <1>7, <1>b, SetTopBlocks DEF BlockInv, Untouched, Links
<1>9. BlocksAreStraightLine'
  BY <1>1, <1>4, <1>5, <1>6 DEF BlockInv, BlocksAreStraightLine
<1> QED
  BY <1>1, <1>8, <1>9 DEF BlockInv, Unlinked, Links, OpenGoesNowhere, ConventionDeclared

(***************************************************************************)
(* What the instructions that end a block have in common: the block had no  *)
(* link, went straight on to the instruction, and is now at f.             *)
(***************************************************************************)
LEMMA EndsBlock ==
  ASSUME Shape, BlockInv, NEW kinds, Lift(kinds), NEW b, NEW v,
         b = Top.blk, v = Top.vip, code' = code
  PROVE  /\ stack # <<>> /\ Top \in Frames /\ b \in explored /\ b \in Vips
         /\ v \in Input /\ After(v) \in Vips
         /\ Links(b) = {} /\ term[b] = "open" /\ dest[b] = {}
         /\ labels'[b] = labels[b] \cup {v}
         /\ \A c \in Vips \ {b} : labels'[c] = labels[c]
         /\ code'[v].kind \in kinds
         /\ \A u : After(u)' = After(u) /\ Destinations(u)' = Destinations(u)
         /\ \A u \in labels[b] : code'[u].kind = "plain"
                                   /\ (After(u) \in labels'[b])
         /\ BlocksAreStraightLine'
         /\ explored \subseteq Vips
<1>1. /\ stack # <<>> /\ Top \in Frames /\ Top.phase = "sweep" /\ b \in explored
      /\ code[v].kind \in kinds /\ After(v) \in Vips /\ b \in Vips /\ v \in Input
      /\ labels' = [labels EXCEPT ![b] = @ \cup {v}] /\ term[b] = "open"
  BY LiftFacts
<1>2. /\ labels'[b] = labels[b] \cup {v} /\ \A c \in Vips \ {b} : labels'[c] = labels[c]
      /\ explored \subseteq Vips
  BY <1>1 DEF Shape, TypeOK
<1>3. /\ Links(b) = {} /\ \A u \in labels[b] : Continues(b, u, v)
      /\ v = b \/ \E u \in labels[b] : code[u].kind = "plain" /\ v = After(u)
  BY <1>1, TopPhase DEF PhaseOK, SweepOK
<1>4. \A u : After(u)' = After(u) /\ Destinations(u)' = Destinations(u)
  BY DEF After, Destinations
<1>5. dest[b] = {}
  BY <1>1 DEF BlockInv, OpenGoesNowhere
<1>6. BlocksAreStraightLine'
  BY <1>2, <1>3, <1>4 DEF BlockInv, BlocksAreStraightLine
<1> QED
  BY <1>1, <1>2, <1>3, <1>4, <1>5, <1>6 DEF Continues

(* A block that ends otherwise than unresolved leaves the convention alone. *)
LEMMA SameConvention ==
  ASSUME ConventionDeclared, convention' = convention, explored \subseteq explored',
         \A c \in explored' : term'[c] = "vexit" /\ dest'[c] = {Opaque}
                                <=> c \in explored /\ term[c] = "vexit" /\ dest[c] = {Opaque}
  PROVE  ConventionDeclared'
BY DEF ConventionDeclared

(* The instruction before a block populated before: a jmp to it.            *)
LEMMA LiftUpToLeaderBlocks == Shape /\ BlockInv /\ LiftUpToLeader => BlockInv'
<1> SUFFICES ASSUME Shape, BlockInv, LiftUpToLeader PROVE BlockInv'
  OBVIOUS
<1>f. PICK f : f = [Top EXCEPT !.vip = After(Top.vip), !.phase = "branch"]
  OBVIOUS
<1>b. PICK b, v : b = Top.blk /\ v = Top.vip
  OBVIOUS
<1>1. /\ Lift({"plain"}) /\ After(v) \in leaders /\ stack' = SetTop(f)
      /\ term' = [term EXCEPT ![b] = "jmp"] /\ dest' = [dest EXCEPT ![b] = {After(v)}]
      /\ explored' = explored \cup {After(v)} /\ next' = next \cup {<<b, After(v)>>}
      /\ UNCHANGED <<code, convention>>
  BY <1>f, <1>b DEF LiftUpToLeader, Fork
<1>2. /\ stack # <<>> /\ Top \in Frames /\ b \in explored /\ b \in Vips
      /\ v \in Input /\ After(v) \in Vips
      /\ Links(b) = {} /\ term[b] = "open" /\ dest[b] = {}
      /\ labels'[b] = labels[b] \cup {v}
      /\ \A c \in Vips \ {b} : labels'[c] = labels[c]
      /\ code'[v].kind = "plain" /\ \A u : After(u)' = After(u)
      /\ \A u \in labels[b] : code'[u].kind = "plain" /\ (After(u) \in labels'[b])
      /\ BlocksAreStraightLine' /\ explored \subseteq Vips
  BY <1>1, <1>b, EndsBlock
<1>3. /\ f \in Frames /\ f.blk = b /\ f.phase = "branch"
  BY <1>2, <1>b, <1>f DEF Frames, Phases
<1>4. /\ term'[b] = "jmp" /\ dest'[b] = {After(v)}
      /\ \A c \in Vips \ {b} : term'[c] = term[c] /\ dest'[c] = dest[c]
      /\ explored' = explored
  BY <1>1, <1>2 DEF Shape, TypeOK, BlocksOK
<1>5. Links(b)' = {After(v)} /\ \A c \in Vips \ {b} : Links(c)' = Links(c)
  BY <1>1, <1>2 DEF Links
<1>6. PhaseOK(f)'
  <2>1. \A u \in labels'[b] : KeepsFlow(b, u)'
    BY <1>2, <1>4 DEF KeepsFlow
  <2>2. Opaque \notin dest'[b]
    BY <1>2, <1>4, DescentAssumption
  <2> QED
    BY <1>3, <1>4, <1>5, <2>1, <2>2 DEF PhaseOK, SweepOK, BranchOK, FollowOK
<1>7. PhasesOK' /\ AllSettled'
  BY <1>1, <1>2, <1>3, <1>4, <1>5, <1>6, <1>b, SetTopBlocks DEF BlockInv, Untouched
<1>8. ConventionDeclared'
  <2>1. \A c \in explored : term'[c] = "vexit" /\ dest'[c] = {Opaque}
                              <=> term[c] = "vexit" /\ dest[c] = {Opaque}
    BY <1>2, <1>4
  <2> QED
    BY <1>1, <1>4, <2>1, SameConvention DEF BlockInv
<1>9. Unlinked' /\ OpenGoesNowhere'
  BY <1>2, <1>4, <1>5 DEF BlockInv, Unlinked, OpenGoesNowhere
<1> QED
  BY <1>2, <1>7, <1>8, <1>9 DEF BlockInv

(* A jump ends the block. *)
LEMMA LiftBranchBlocks == Shape /\ BlockInv /\ LiftBranch => BlockInv'
<1> SUFFICES ASSUME Shape, BlockInv, LiftBranch PROVE BlockInv'
  OBVIOUS
<1>f. PICK f : f = [Top EXCEPT !.vip = After(Top.vip), !.phase = "branch"]
  OBVIOUS
<1>b. PICK b, v : b = Top.blk /\ v = Top.vip
  OBVIOUS
<1>1. /\ Lift({"jmp", "jcc", "opaque"}) /\ stack' = SetTop(f)
      /\ term' = [term EXCEPT ![b] = Terminator(code[v])]
      /\ dest' = [dest EXCEPT ![b] = Destinations(v)]
      /\ UNCHANGED <<code, explored, next, convention>>
  BY <1>f, <1>b DEF LiftBranch
<1>2. /\ stack # <<>> /\ Top \in Frames /\ b \in explored /\ b \in Vips
      /\ v \in Input /\ After(v) \in Vips
      /\ Links(b) = {} /\ term[b] = "open" /\ dest[b] = {}
      /\ labels'[b] = labels[b] \cup {v}
      /\ \A c \in Vips \ {b} : labels'[c] = labels[c]
      /\ code'[v].kind \in {"jmp", "jcc", "opaque"}
      /\ \A u : After(u)' = After(u) /\ Destinations(u)' = Destinations(u)
      /\ \A u \in labels[b] : code'[u].kind = "plain" /\ (After(u) \in labels'[b])
      /\ BlocksAreStraightLine' /\ explored \subseteq Vips
  BY <1>1, <1>b, EndsBlock
<1>3. /\ f \in Frames /\ f.blk = b /\ f.phase = "branch"
  BY <1>2, <1>b, <1>f DEF Frames, Phases
<1>4. /\ term'[b] = Terminator(code[v]) /\ dest'[b] = Destinations(v)
      /\ \A c \in Vips \ {b} : term'[c] = term[c] /\ dest'[c] = dest[c]
  BY <1>1, <1>2 DEF Shape, TypeOK
<1>5. \A c : Links(c)' = Links(c)
  BY <1>1 DEF Links
<1>6. term'[b] \in {"jmp", "js"} /\ code'[v] = code[v]
  BY <1>1, <1>2, <1>4 DEF Terminator
<1>7. Opaque \in Destinations(v) <=> code[v].kind = "opaque"
  <2>1. code[v] \in Insns /\ code[v].target \in Vips
    BY <1>2, DescentAssumption DEF Shape, TypeOK
  <2> QED
    BY <1>2, <1>6, <2>1, DescentAssumption DEF Destinations
<1>8. PhaseOK(f)'
  <2>1. \A u \in labels[b] : KeepsFlow(b, u)'
    BY <1>2 DEF KeepsFlow
  <2>2. code'[v].kind \in {"jmp", "jcc"} => KeepsFlow(b, v)'
    BY <1>2, <1>4, <1>6 DEF KeepsFlow
  <2>3. \A u \in labels'[b] :
          \/ Opaque \notin dest'[b] /\ KeepsFlow(b, u)'
          \/ Opaque \in dest'[b] /\ code'[u].kind = "plain" /\ (After(u)' \in labels'[b])
          \/ Opaque \in dest'[b] /\ code'[u].kind = "opaque"
    BY <1>2, <1>4, <1>6, <1>7, <2>1, <2>2
  <2> QED
    BY <1>2, <1>3, <1>5, <2>3 DEF PhaseOK, SweepOK, BranchOK, FollowOK
<1>9. PhasesOK' /\ AllSettled'
  BY <1>1, <1>2, <1>3, <1>4, <1>5, <1>8, <1>b, SetTopBlocks DEF BlockInv, Untouched
<1>10. ConventionDeclared'
  <2>1. \A c \in explored : term'[c] = "vexit" /\ dest'[c] = {Opaque}
                              <=> term[c] = "vexit" /\ dest[c] = {Opaque}
    BY <1>2, <1>4, <1>6
  <2> QED
    BY <1>1, <2>1, SameConvention DEF BlockInv
<1>11. Unlinked' /\ OpenGoesNowhere'
  BY <1>1, <1>2, <1>4, <1>5, <1>6 DEF BlockInv, Unlinked, OpenGoesNowhere
<1> QED
  BY <1>2, <1>9, <1>10, <1>11 DEF BlockInv

(* A call ends the block with the address behind it as its only successor, *)
(* which becomes a block unless it is one.                                  *)
LEMMA LiftCallBlocks ==
  Shape /\ BlockInv /\ (LiftCall \/ LiftCallToExplored) => BlockInv'
<1> SUFFICES ASSUME Shape, BlockInv, LiftCall \/ LiftCallToExplored PROVE BlockInv'
  OBVIOUS
<1>f. PICK f : f = CallFrame
  OBVIOUS
<1>b. PICK b, v : b = Top.blk /\ v = Top.vip
  OBVIOUS
<1>1. /\ Lift({"call"})
      /\ term' = [term EXCEPT ![b] = Terminator(code[v])]
      /\ dest' = [dest EXCEPT ![b] = {After(v)}]
      /\ explored' = explored \cup {After(v)} /\ next' = next \cup {<<b, After(v)>>}
      /\ UNCHANGED <<code, convention>>
      /\ \/ After(v) \notin explored /\ stack' = Push(f, After(v))
         \/ After(v) \in explored /\ stack' = SetTop(f)
  BY <1>f, <1>b DEF LiftCall, LiftCallToExplored, CallReturn, Fork, ForksNew
<1>2. /\ stack # <<>> /\ Top \in Frames /\ b \in explored /\ b \in Vips
      /\ v \in Input /\ After(v) \in Vips
      /\ Links(b) = {} /\ term[b] = "open" /\ dest[b] = {}
      /\ labels'[b] = labels[b] \cup {v}
      /\ \A c \in Vips \ {b} : labels'[c] = labels[c]
      /\ code'[v].kind = "call" /\ \A u : After(u)' = After(u)
      /\ \A u \in labels[b] : code'[u].kind = "plain" /\ (After(u) \in labels'[b])
      /\ BlocksAreStraightLine' /\ explored \subseteq Vips
  BY <1>1, <1>b, EndsBlock
<1>3. /\ f \in Frames /\ f.blk = b /\ f.phase = "follow" /\ f.todo = {}
  <2>1. f = [Top EXCEPT !.vip = After(v), !.phase = "follow", !.todo = {}]
    BY <1>f, <1>b DEF CallFrame
  <2> QED
    BY <1>2, <1>b, <2>1 DEF Frames, Phases
<1>4. /\ term'[b] = "vxcall" /\ dest'[b] = {After(v)}
      /\ \A c \in Vips \ {b} : term'[c] = term[c] /\ dest'[c] = dest[c]
  BY <1>1, <1>2 DEF Shape, TypeOK, Terminator
<1>5. Links(b)' = {After(v)} /\ \A c \in Vips \ {b} : Links(c)' = Links(c)
  BY <1>1, <1>2 DEF Links
<1>6. PhaseOK(f)'
  <2>1. \A u \in labels'[b] : KeepsFlow(b, u)'
    BY <1>2, <1>4 DEF KeepsFlow
  <2>2. Opaque \notin dest'[b]
    BY <1>2, <1>4, DescentAssumption
  <2> QED
    BY <1>3, <1>4, <1>5, <2>1, <2>2 DEF PhaseOK, SweepOK, BranchOK, FollowOK
<1>7. Untouched
  BY <1>1, <1>2, <1>4, <1>5, <1>b DEF Untouched
<1>8. PhasesOK' /\ AllSettled'
  <2>1. CASE After(v) \in explored /\ stack' = SetTop(f)
    BY <1>1, <1>2, <1>3, <1>6, <1>7, <1>b, <2>1, SetTopBlocks DEF BlockInv
  <2>2. CASE After(v) \notin explored /\ stack' = Push(f, After(v))
    <3>1. labels'[After(v)] = {} /\ Links(After(v))' = {}
      <4>1. After(v) # b /\ labels[After(v)] = {} /\ Links(After(v)) = {}
        BY <1>2, <2>2 DEF BlockInv, Unlinked, Shape, BlocksOK
      <4>d. PICK d \in Vips : d = After(v)
        BY <1>2
      <4>2. labels'[d] = {} /\ Links(d)' = {}
        BY <1>2, <1>5, <4>1, <4>d
      <4> QED
        BY <1>2, <4>2, <4>d
    <3>d. PICK d \in Vips : d = After(v)
      BY <1>2
    <3>2. labels'[d] = {} /\ Links(d)' = {}
      BY <1>2, <3>1, <3>d
    <3> QED
      BY <1>1, <1>2, <1>3, <1>6, <1>7, <1>b, <2>2, <3>2, <3>d, PushBlocks DEF BlockInv
  <2> QED
    BY <1>1, <2>1, <2>2
<1>9. ConventionDeclared'
  <2>1. ASSUME NEW c \in explored'
        PROVE  term'[c] = "vexit" /\ dest'[c] = {Opaque}
                 <=> c \in explored /\ term[c] = "vexit" /\ dest[c] = {Opaque}
    <3>1. c \notin explored => term[c] = "open" /\ c \in Vips
      BY <1>1, <1>2 DEF Shape, BlocksOK
    <3> QED
      BY <1>1, <1>2, <1>4, <3>1
  <2> QED
    BY <1>1, <2>1, SameConvention DEF BlockInv
<1>10. Unlinked' /\ OpenGoesNowhere'
  BY <1>1, <1>2, <1>4, <1>5 DEF BlockInv, Unlinked, OpenGoesNowhere
<1> QED
  BY <1>2, <1>8, <1>9, <1>10 DEF BlockInv

(* What does not disassemble ends the block with vexit. *)
LEMMA LiftInvalidBlocks == Shape /\ BlockInv /\ LiftInvalid => BlockInv'
<1> SUFFICES ASSUME Shape, BlockInv, LiftInvalid PROVE BlockInv'
  OBVIOUS
<1>b. PICK b, v : b = Top.blk /\ v = Top.vip
  OBVIOUS
<1>1. /\ Lift({"invalid"}) /\ stack' = Pop
      /\ term' = [term EXCEPT ![b] = Terminator(code[v])]
      /\ UNCHANGED <<code, explored, dest, next, convention>>
  BY <1>b DEF LiftInvalid
<1>2. /\ stack # <<>> /\ Top \in Frames /\ b \in explored /\ b \in Vips
      /\ Links(b) = {} /\ term[b] = "open" /\ dest[b] = {}
      /\ labels'[b] = labels[b] \cup {v}
      /\ \A c \in Vips \ {b} : labels'[c] = labels[c]
      /\ code'[v].kind = "invalid" /\ \A u : After(u)' = After(u)
      /\ \A u \in labels[b] : code'[u].kind = "plain" /\ (After(u) \in labels'[b])
      /\ BlocksAreStraightLine' /\ explored \subseteq Vips
  BY <1>1, <1>b, EndsBlock
<1>3. term'[b] = "vexit" /\ \A c \in Vips \ {b} : term'[c] = term[c]
  BY <1>1, <1>2 DEF Shape, TypeOK, Terminator
<1>4. \A c : Links(c)' = Links(c)
  BY <1>1 DEF Links
<1>5. Settled(b)'
  <2>1. \A u \in labels'[b] : KeepsFlow(b, u)'
    BY <1>2, <1>3 DEF KeepsFlow
  <2> QED
    BY <1>2, <1>3, <1>4, <2>1 DEF Settled
<1>6. PhasesOK' /\ AllSettled'
  BY <1>1, <1>2, <1>3, <1>4, <1>5, <1>b, PopBlocks DEF BlockInv, Untouched
<1>7. ConventionDeclared'
  <2>1. \A c \in explored : term'[c] = "vexit" /\ dest'[c] = {Opaque}
                              <=> term[c] = "vexit" /\ dest[c] = {Opaque}
    BY <1>1, <1>2, <1>3
  <2> QED
    BY <1>1, <2>1, SameConvention DEF BlockInv
<1>8. Unlinked' /\ OpenGoesNowhere'
  BY <1>1, <1>2, <1>3, <1>4 DEF BlockInv, Unlinked, OpenGoesNowhere
<1> QED
  BY <1>2, <1>6, <1>7, <1>8 DEF BlockInv

(* A jump that is not resolved becomes vexit. *)
LEMMA ExitOpaqueBlocks == IInv /\ BlockInv /\ ExitOpaque => BlockInv'
<1> SUFFICES ASSUME IInv, BlockInv, ExitOpaque PROVE BlockInv'
  OBVIOUS
<1>b. PICK b : b = Top.blk
  OBVIOUS
<1>1. /\ stack # <<>> /\ Top.phase = "branch" /\ Opaque \in dest[b] /\ stack' = Pop
      /\ term' = [term EXCEPT ![b] = "vexit"] /\ convention' = "preserve_all"
      /\ UNCHANGED <<code, explored, labels, dest, next>>
  BY <1>b DEF ExitOpaque, Running
<1>2. /\ Shape /\ PhaseOK(Top) /\ b \in explored /\ b \in Vips
  BY <1>1, <1>b, TopPhase DEF IInv
<1>3. /\ term'[b] = "vexit" /\ \A c \in Vips \ {b} : term'[c] = term[c]
      /\ explored \subseteq Vips
  BY <1>1, <1>2 DEF Shape, TypeOK
<1>4. dest[b] = {Opaque}
  BY <1>1, <1>2 DEF IInv, OpaqueAlone
<1>5. /\ Links(b) \subseteq dest[b]
      /\ \A u \in labels[b] : \/ code[u].kind = "plain" /\ After(u) \in labels[b]
                              \/ code[u].kind = "opaque"
  BY <1>1, <1>2, <1>b DEF PhaseOK, BranchOK
<1>6. Links(b)' = {}
  BY <1>1, <1>4, <1>5, DescentAssumption DEF Links
<1>7. Settled(b)'
  <2>1. ASSUME NEW u \in labels[b] PROVE KeepsFlow(b, u)'
    <3>1. After(u)' = After(u)
      BY <1>1 DEF After
    <3> QED
      BY <1>1, <1>3, <1>5, <3>1 DEF KeepsFlow
  <2> QED
    BY <1>1, <1>3, <1>6, <2>1 DEF Settled
<1>8. PhasesOK' /\ AllSettled'
  BY <1>1, <1>2, <1>3, <1>7, <1>b, PopBlocks DEF BlockInv, Untouched, Links
<1>9. ConventionDeclared'
  BY <1>1, <1>2, <1>3, <1>4 DEF ConventionDeclared
<1> QED
  BY <1>1, <1>3, <1>8, <1>9 DEF BlockInv, Unlinked, Links, OpenGoesNowhere,
     BlocksAreStraightLine, After

(* A resolved jump: its destinations are gone through. *)
LEMMA ResolveBlocks == Shape /\ BlockInv /\ Resolve => BlockInv'
<1> SUFFICES ASSUME Shape, BlockInv, Resolve PROVE BlockInv'
  OBVIOUS
<1>f. PICK f : f = [Top EXCEPT !.phase = "follow", !.todo = dest[Top.blk]]
  OBVIOUS
<1>b. PICK b : b = Top.blk
  OBVIOUS
<1>1. /\ stack # <<>> /\ Top.phase = "branch" /\ Opaque \notin dest[b] /\ stack' = SetTop(f)
      /\ UNCHANGED <<code, explored, labels, term, dest, next, convention>>
  BY <1>f, <1>b DEF Resolve, Running, blockVars
<1>2. /\ PhaseOK(Top) /\ FrameOK(Top) /\ Top \in Frames /\ b \in Vips
  BY <1>1, <1>b, TopPhase
<1>3. dest[b] \subseteq Vips
  BY <1>1, <1>2 DEF Shape, TypeOK
<1>4. f \in Frames /\ f.blk = b /\ f.phase = "follow" /\ f.todo = dest[b]
  BY <1>2, <1>3, <1>b, <1>f DEF Frames, Phases
<1>5. /\ Links(b) \subseteq dest[b] /\ \A u \in labels[b] : KeepsFlow(b, u)
      /\ term[b] # "vexit"
  BY <1>1, <1>2, <1>b DEF PhaseOK, BranchOK, FrameOK
<1>6. PhaseOK(f)'
  <2>1. \A u \in labels[b] : KeepsFlow(b, u)'
    BY <1>1, <1>5, FlowUnchanged
  <2> QED
    BY <1>1, <1>4, <1>5, <2>1 DEF PhaseOK, SweepOK, BranchOK, FollowOK, Links
<1>7. PhasesOK' /\ AllSettled'
  BY <1>1, <1>2, <1>4, <1>6, <1>b, SetTopBlocks DEF BlockInv, Untouched, Links
<1> QED
  BY <1>1, <1>7 DEF BlockInv, Unlinked, Links, OpenGoesNowhere, ConventionDeclared,
     BlocksAreStraightLine, After

(* Returning, when nothing is left to follow. *)
LEMMA ReturnBlocks == Shape /\ BlockInv /\ Return => BlockInv'
<1> SUFFICES ASSUME Shape, BlockInv, Return PROVE BlockInv'
  OBVIOUS
<1>b. PICK b : b = Top.blk
  OBVIOUS
<1>1. /\ stack # <<>> /\ Top.phase = "follow" /\ Top.todo = {} /\ stack' = Pop
      /\ UNCHANGED <<code, explored, labels, term, dest, next, convention>>
  BY <1>b DEF Return, Running, blockVars
<1>2. PhaseOK(Top)
  BY <1>1, TopPhase
<1>3. /\ Links(b) = dest[b] /\ term[b] # "vexit"
      /\ \A u \in labels[b] : KeepsFlow(b, u)
  BY <1>1, <1>2, <1>b DEF PhaseOK, FollowOK
<1>4. Settled(b)'
  <2>1. \A u \in labels[b] : KeepsFlow(b, u)'
    BY <1>1, <1>3, FlowUnchanged
  <2> QED
    BY <1>1, <1>3, <2>1 DEF Settled, Links
<1>5. PhasesOK' /\ AllSettled'
  BY <1>1, <1>4, <1>b, PopBlocks DEF BlockInv, Untouched, Links
<1> QED
  BY <1>1, <1>5 DEF BlockInv, Unlinked, Links, OpenGoesNowhere, ConventionDeclared,
     BlocksAreStraightLine, After

(* A destination is linked, and a block made of it unless it is one: new     *)
(* blocks are populated next, or are vexit outside the input.               *)
LEMMA FollowBlocks == Shape /\ BlockInv /\ Follow => BlockInv'
<1> SUFFICES ASSUME Shape, BlockInv,
                    NEW d \in Vips, FollowExplored(d) \/ FollowNew(d) \/ FollowOut(d)
             PROVE  BlockInv'
  BY DEF Follow
<1>f. PICK f : f = [Top EXCEPT !.todo = @ \ {d}]
  OBVIOUS
<1>b. PICK b : b = Top.blk
  OBVIOUS
<1>1. /\ Running("follow") /\ d \in Top.todo
      /\ explored' = explored \cup {d} /\ next' = next \cup {<<b, d>>}
      /\ UNCHANGED <<code, labels, dest, convention>>
      /\ \/ d \in explored /\ term' = term /\ stack' = SetTop(f)
         \/ d \notin explored /\ term' = term /\ stack' = Push(f, d)
         \/ d \notin explored /\ term' = [term EXCEPT ![d] = "vexit"] /\ stack' = SetTop(f)
  BY <1>f, <1>b DEF FollowExplored, FollowNew, FollowOut, Fork, ForksNew
<1>2. /\ stack # <<>> /\ Top \in Frames /\ Top.phase = "follow" /\ f \in Frames
      /\ b \in explored /\ b \in Vips
  BY <1>1, <1>f, <1>b, FollowFacts
<1>3. f.blk = b /\ f.phase = "follow" /\ f.todo = Top.todo \ {d}
  BY <1>2, <1>f, <1>b DEF Frames
<1>4. /\ dest[b] \ Top.todo \subseteq Links(b) /\ Links(b) \cup Top.todo \subseteq dest[b]
      /\ Opaque \notin dest[b] /\ term[b] # "vexit"
      /\ \A u \in labels[b] : KeepsFlow(b, u)
  BY <1>2, <1>b, TopPhase DEF PhaseOK, FollowOK
<1>5. /\ \A c \in Vips \ {d} : term'[c] = term[c]
      /\ d \in explored => term'[d] = term[d]
      /\ term'[d] = term[d] \/ term'[d] = "vexit"
      /\ explored \subseteq Vips
  BY <1>1 DEF Shape, TypeOK
<1>6. Links(b)' = Links(b) \cup {d} /\ \A c \in Vips \ {b} : Links(c)' = Links(c)
  BY <1>1 DEF Links
<1>7. term'[b] = term[b]
  BY <1>2, <1>5
<1>8. PhaseOK(f)'
  <2>1. \A u \in labels[b] : KeepsFlow(b, u)'
    BY <1>1, <1>4, <1>7, FlowUnchanged
  <2> QED
    BY <1>1, <1>3, <1>4, <1>6, <1>7, <2>1 DEF PhaseOK, SweepOK, BranchOK, FollowOK
<1>9. Untouched
  BY <1>1, <1>2, <1>5, <1>6, <1>b DEF Untouched
<1>10. d \notin explored =>
         d # b /\ labels[d] = {} /\ Links(d)' = {} /\ term[d] = "open" /\ dest[d] = {}
  BY <1>2, <1>6 DEF BlockInv, Unlinked, OpenGoesNowhere, Shape, BlocksOK
<1>11. PhasesOK' /\ AllSettled'
  <2>1. CASE d \in explored /\ stack' = SetTop(f)
    BY <1>1, <1>2, <1>3, <1>8, <1>9, <1>b, <2>1, SetTopBlocks DEF BlockInv
  <2>2. CASE d \notin explored /\ stack' = Push(f, d)
    BY <1>1, <1>2, <1>3, <1>8, <1>9, <1>10, <1>b, <2>2, PushBlocks DEF BlockInv
  <2>3. CASE /\ d \notin explored /\ term' = [term EXCEPT ![d] = "vexit"]
             /\ stack' = SetTop(f)
    <3>1. term'[d] = "vexit"
      BY <2>3 DEF Shape, TypeOK
    <3>2. ASSUME NEW c \in explored' \ explored PROVE Settled(c)'
      <4>1. c = d
        BY <1>1, <3>2
      <4>2. labels'[c] = {} /\ Links(c)' = {} /\ term'[c] = "vexit"
        BY <1>1, <1>5, <1>6, <1>10, <1>2, <2>3, <3>1, <4>1 DEF Links, BlockInv, Unlinked
      <4> QED
        BY <4>2 DEF Settled
    <3> QED
      BY <1>1, <1>2, <1>3, <1>8, <1>9, <1>b, <2>3, <3>2, SetTopBlocks DEF BlockInv
  <2> QED
    BY <1>1, <2>1, <2>2, <2>3
<1>12. ConventionDeclared'
  <2>1. ASSUME NEW c \in explored'
        PROVE  term'[c] = "vexit" /\ dest'[c] = {Opaque}
                 <=> c \in explored /\ term[c] = "vexit" /\ dest[c] = {Opaque}
    BY <1>1, <1>5, <1>10
  <2> QED
    BY <1>1, <2>1, SameConvention DEF BlockInv
<1>13. Unlinked' /\ OpenGoesNowhere'
  BY <1>1, <1>2, <1>5, <1>6, <1>10 DEF BlockInv, Unlinked, OpenGoesNowhere
<1>14. BlocksAreStraightLine'
  BY <1>1 DEF BlockInv, BlocksAreStraightLine, After
<1> QED
  BY <1>11, <1>12, <1>13, <1>14 DEF BlockInv

(* The end of explore(), a dassert, and steps that change nothing. *)
LEMMA QuietBlocks ==
  ASSUME BlockInv, UNCHANGED <<code, explored, labels, term, dest, next, stack, convention>>
  PROVE  BlockInv'
<1>1. \A b, u : KeepsFlow(b, u)' = KeepsFlow(b, u)
  BY FlowUnchanged
<1>2. PhasesOK'
  BY <1>1 DEF BlockInv, PhasesOK, PhaseOK, SweepOK, BranchOK, FollowOK, Links, Continues, After
<1>3. AllSettled'
  BY <1>1 DEF BlockInv, AllSettled, Settled, Active, Links
<1> QED
  BY <1>2, <1>3 DEF BlockInv, Unlinked, Links, OpenGoesNowhere, ConventionDeclared,
     BlocksAreStraightLine, After

(* One empty block, being entered. *)
LEMMA BlockInit == Init => BlockInv
<1> SUFFICES ASSUME Init PROVE BlockInv
  OBVIOUS
<1>1. /\ DOMAIN stack = {1} /\ stack[1] = NewFrame(EntryPoint) /\ EntryPoint \in Vips
      /\ \A b \in Vips : labels[b] = {} /\ term[b] = "open" /\ dest[b] = {} /\ Links(b) = {}
      /\ explored = {EntryPoint} /\ convention = "caller"
  BY DescentAssumption DEF Init, Input, Links
<1>2. PhasesOK
  BY <1>1 DEF PhasesOK, PhaseOK, SweepOK, BranchOK, FollowOK, NewFrame
<1>3. AllSettled
  BY <1>1 DEF AllSettled, Active, NewFrame
<1>4. Unlinked /\ OpenGoesNowhere /\ ConventionDeclared /\ BlocksAreStraightLine
  BY <1>1 DEF Unlinked, OpenGoesNowhere, ConventionDeclared, BlocksAreStraightLine
<1> QED
  BY <1>2, <1>3, <1>4 DEF BlockInv

(* Every step keeps the blocks well formed: one case per action.            *)
LEMMA BlockStep == IInv /\ BlockInv /\ [Next]_vars => BlockInv'
<1> SUFFICES ASSUME IInv, BlockInv, [Next]_vars PROVE BlockInv'
  OBVIOUS
<1>1. Shape
  BY DEF IInv
<1>2. CASE FailGetAt \/ Finish \/ UNCHANGED vars
  BY <1>2, QuietBlocks DEF FailGetAt, Finish, vars, blockVars
<1>3. CASE EnterBlock
  BY <1>1, <1>3, EnterBlocks
<1>4. CASE RunOff
  BY <1>1, <1>4, RunOffBlocks
<1>5. CASE LiftPlain
  BY <1>1, <1>5, LiftPlainBlocks
<1>6. CASE LiftUpToLeader
  BY <1>1, <1>6, LiftUpToLeaderBlocks
<1>7. CASE LiftBranch
  BY <1>1, <1>7, LiftBranchBlocks
<1>8. CASE LiftCall \/ LiftCallToExplored
  BY <1>1, <1>8, LiftCallBlocks
<1>9. CASE LiftInvalid
  BY <1>1, <1>9, LiftInvalidBlocks
<1>10. CASE ExitOpaque
  BY <1>10, ExitOpaqueBlocks
<1>11. CASE Resolve
  BY <1>1, <1>11, ResolveBlocks
<1>12. CASE Follow
  BY <1>1, <1>12, FollowBlocks
<1>13. CASE Return
  BY <1>1, <1>13, ReturnBlocks
<1> QED
  BY <1>2, <1>3, <1>4, <1>5, <1>6, <1>7, <1>8, <1>9, <1>10, <1>11, <1>12, <1>13 DEF Next

(* The temporal step. *)
LEMMA BlockAlways == Spec => []BlockInv
BY BlockInit, BlockStep, InvAlways, PTL DEF Spec

(***************************************************************************)
(* The theorems.                                                           *)
(***************************************************************************)

(* A block holds a run of plain instructions from its entry on, for any     *)
(* program (recursive_descent.hpp:104-133).                                 *)
THEOREM StraightLine == Spec => []BlocksAreStraightLine
<1>1. BlockInv => BlocksAreStraightLine
  BY DEF BlockInv
<1> QED
  BY <1>1, BlockAlways, PTL

(* Control leaves the lifted form of each instruction of a finished block   *)
(* where it leaves the instruction (recursive_descent.hpp:104-152).         *)
THEOREM FlowKept == Spec => []BlocksKeepFlow
<1>1. BlockInv => BlocksKeepFlow
  BY DEF BlockInv, AllSettled, Settled, BlocksKeepFlow
<1> QED
  BY <1>1, BlockAlways, PTL

(* A finished block is linked to the destinations of its branch and to no   *)
(* other block (recursive_descent.hpp:155-169).                             *)
THEOREM LinksRight == Spec => []LinksMatchBranches
<1>1. BlockInv => LinksMatchBranches
  BY DEF BlockInv, AllSettled, Settled, Links, LinksMatchBranches
<1> QED
  BY <1>1, BlockAlways, PTL

(* The convention is replaced exactly when a jump was left unresolved       *)
(* (recursive_descent.hpp:144-152).                                         *)
THEOREM ConventionRight == Spec => []ConventionDeclared
<1>1. BlockInv => ConventionDeclared
  BY DEF BlockInv
<1> QED
  BY <1>1, BlockAlways, PTL
=============================================================================
