----------------------- MODULE RecursiveDescentProofs -----------------------
(***************************************************************************)
(* Proofs about RecursiveDescent, for every input, entry point and         *)
(* instruction set.                                                        *)
(***************************************************************************)
EXTENDS RecursiveDescent, SequenceTheorems, FiniteSetTheorems,
        WellFoundedInduction, TLAPS

(***************************************************************************)
(* The activation stack.                                                   *)
(***************************************************************************)

(* Replacing the innermost activation leaves the others where they are. *)
LEMMA SetTopFacts ==
  ASSUME stack \in Seq(Frames), stack # <<>>, NEW f \in Frames
  PROVE  /\ SetTop(f) \in Seq(Frames)
         /\ Len(SetTop(f)) = Len(stack)
         /\ DOMAIN SetTop(f) = DOMAIN stack
         /\ \A i \in DOMAIN stack :
              SetTop(f)[i] = IF i = Len(stack) THEN f ELSE stack[i]
<1>1. Len(stack) \in DOMAIN stack /\ DOMAIN stack = 1 .. Len(stack)
  BY SMT
<1> QED
  BY <1>1, SMT DEF SetTop

(* Returning from it removes it. *)
LEMMA PopFacts ==
  ASSUME stack \in Seq(Frames), stack # <<>>
  PROVE  /\ Pop \in Seq(Frames)
         /\ Len(Pop) = Len(stack) - 1
         /\ DOMAIN Pop = DOMAIN stack \ {Len(stack)}
         /\ \A i \in DOMAIN Pop : Pop[i] = stack[i]
<1>1. DOMAIN stack = 1 .. Len(stack) /\ Len(stack) \in Nat /\ Len(stack) > 0
  BY SMT
<1> QED
  BY <1>1, SMT DEF Pop

(* Calling from it adds one above it. *)
LEMMA PushFacts ==
  ASSUME stack \in Seq(Frames), stack # <<>>, NEW f \in Frames, NEW b \in Vips
  PROVE  /\ Push(f, b) \in Seq(Frames)
         /\ Len(Push(f, b)) = Len(stack) + 1
         /\ DOMAIN Push(f, b) = DOMAIN stack \cup {Len(stack) + 1}
         /\ \A i \in DOMAIN stack :
              Push(f, b)[i] = IF i = Len(stack) THEN f ELSE stack[i]
         /\ Push(f, b)[Len(stack) + 1] = NewFrame(b)
<1>1. NewFrame(b) \in Frames
  BY DEF NewFrame, Frames, Phases
<1>2. DOMAIN stack = 1 .. Len(stack) /\ Len(stack) \in Nat
  BY SMT
<1> QED
  BY <1>1, <1>2, SetTopFacts, SMT DEF Push

(* There is an innermost activation while the stack is not empty. *)
LEMMA TopFacts ==
  ASSUME stack \in Seq(Frames), stack # <<>>
  PROVE  Len(stack) \in DOMAIN stack /\ Top \in Frames
BY SMT DEF Top

(***************************************************************************)
(* The program: what an instruction of the input mentions is in Vips.      *)
(***************************************************************************)
LEMMA InsnFacts ==
  ASSUME code \in [Input -> Insns], NEW v \in Input
  PROVE  /\ After(v) \in Vips /\ After(v) # v
         /\ Destinations(v) \subseteq Vips \cup {Opaque}
         /\ Terminator(code[v]) \in Terms
<1>1. code[v] \in Insns /\ v \in Nat
  BY DEF Input, Vips
<1>2. code[v] \in [kind : Kinds, len : Nat, target : Vips]
  BY <1>1, DescentAssumption
<1>3. code[v].len \in Nat /\ code[v].len > 0 /\ v + code[v].len \in Vips
  BY <1>1, <1>2, DescentAssumption
<1>4. After(v) \in Vips /\ After(v) # v
  BY <1>1, <1>3 DEF After
<1>5. Destinations(v) \subseteq Vips \cup {Opaque}
  BY <1>2, <1>4 DEF Destinations
<1>6. Terminator(code[v]) \in Terms
  BY <1>2 DEF Terminator, Terms, Kinds
<1> QED
  BY <1>4, <1>5, <1>6

(***************************************************************************)
(* Type correctness.                                                       *)
(***************************************************************************)
LEMMA TypeInit == Init => TypeOK
<1> SUFFICES ASSUME Init PROVE TypeOK
  OBVIOUS
<1>1. EntryPoint \in Vips
  BY DescentAssumption DEF Input
<1>2. NewFrame(EntryPoint) \in Frames
  BY <1>1 DEF NewFrame, Frames, Phases
<1>3. stack \in Seq(Frames)
  BY <1>2 DEF Init
<1> QED
  BY <1>1, <1>3 DEF Init, TypeOK, Terms, Statuses

(* Every step keeps the types: one case per action.                         *)
LEMMA TypeStep == TypeOK /\ [Next]_vars => TypeOK'
<1> SUFFICES ASSUME TypeOK, [Next]_vars PROVE TypeOK'
  OBVIOUS
<1> USE DEF TypeOK
<1>top. ASSUME NEW p \in Phases, Running(p)
        PROVE  stack # <<>> /\ Top \in Frames /\ Top.blk \in Vips /\ Top.vip \in Vips
  BY <1>top, TopFacts DEF Running, Frames
<1>1. CASE EnterBlock
  <2>1. Top \in Frames /\ stack # <<>>
    BY <1>1, <1>top DEF EnterBlock, Phases
  <2>2. [Top EXCEPT !.phase = "sweep"] \in Frames
    BY <2>1 DEF Frames, Phases
  <2>3. stack' \in Seq(Frames)
    BY <1>1, <2>1, <2>2, SetTopFacts DEF EnterBlock
  <2> QED
    BY <1>1, <2>1, <2>3 DEF EnterBlock, blockVars, Frames
<1>2. CASE FailGetAt
  BY <1>2 DEF FailGetAt, blockVars, Statuses
<1>3. CASE RunOff
  <2>1. stack # <<>> /\ Top.blk \in Vips
    BY <1>3, <1>top DEF RunOff, Phases
  <2> QED
    BY <1>3, <2>1, PopFacts DEF RunOff, Terms
<1>lift. ASSUME NEW kinds, Lift(kinds)
         PROVE  /\ stack # <<>> /\ Top \in Frames
                /\ Top.blk \in Vips /\ Top.vip \in Input
                /\ After(Top.vip) \in Vips
                /\ Terminator(code[Top.vip]) \in Terms
                /\ Destinations(Top.vip) \subseteq Vips \cup {Opaque}
                /\ labels' \in [Vips -> SUBSET Input]
  <2>1. /\ stack # <<>> /\ Top \in Frames
        /\ Top.blk \in Vips /\ Top.vip \in Input
    BY <1>lift, <1>top DEF Lift, Phases, Input
  <2>2. labels' \in [Vips -> SUBSET Input]
    BY <1>lift, <2>1 DEF Lift
  <2> QED
    BY <2>1, <2>2, InsnFacts
<1>fork. ASSUME NEW b \in Vips, NEW d \in Vips, Fork(b, d)
         PROVE  explored' \subseteq Vips /\ next' \subseteq Vips \X Vips
  BY <1>fork DEF Fork
<1>4. CASE LiftPlain
  <2>1. [Top EXCEPT !.vip = After(Top.vip)] \in Frames
    BY <1>4, <1>lift DEF LiftPlain, Frames
  <2>2. stack' \in Seq(Frames)
    BY <1>4, <1>lift, <2>1, SetTopFacts DEF LiftPlain
  <2> QED
    BY <1>4, <1>lift, <2>2 DEF LiftPlain
<1>5. CASE LiftUpToLeader
  <2>1. [Top EXCEPT !.vip = After(Top.vip), !.phase = "branch"] \in Frames
    BY <1>5, <1>lift DEF LiftUpToLeader, Frames, Phases
  <2>2. stack' \in Seq(Frames)
    BY <1>5, <1>lift, <2>1, SetTopFacts DEF LiftUpToLeader
  <2>3. explored' \subseteq Vips /\ next' \subseteq Vips \X Vips
    BY <1>5, <1>lift, <1>fork DEF LiftUpToLeader
  <2> QED
    BY <1>5, <1>lift, <2>2, <2>3 DEF LiftUpToLeader, Terms
<1>6. CASE LiftBranch
  <2>1. [Top EXCEPT !.vip = After(Top.vip), !.phase = "branch"] \in Frames
    BY <1>6, <1>lift DEF LiftBranch, Frames, Phases
  <2>2. stack' \in Seq(Frames)
    BY <1>6, <1>lift, <2>1, SetTopFacts DEF LiftBranch
  <2> QED
    BY <1>6, <1>lift, <2>2 DEF LiftBranch
<1>call. ASSUME CallReturn
         PROVE  /\ CallFrame \in Frames
                /\ stack # <<>> /\ After(Top.vip) \in Vips
                /\ term' \in [Vips -> Terms]
                /\ dest' \in [Vips -> SUBSET (Vips \cup {Opaque})]
                /\ labels' \in [Vips -> SUBSET Input]
                /\ explored' \subseteq Vips /\ next' \subseteq Vips \X Vips
  <2>1. CallFrame \in Frames
    BY <1>call, <1>lift DEF CallReturn, CallFrame, Frames, Phases
  <2>2. explored' \subseteq Vips /\ next' \subseteq Vips \X Vips
    BY <1>call, <1>lift, <1>fork DEF CallReturn
  <2> QED
    BY <1>call, <1>lift, <2>1, <2>2 DEF CallReturn
<1>7. CASE LiftCall
  <2>1. stack' \in Seq(Frames)
    BY <1>7, <1>call, PushFacts DEF LiftCall
  <2> QED
    BY <1>7, <1>call, <2>1 DEF LiftCall, CallReturn
<1>8. CASE LiftCallToExplored
  <2>1. stack' \in Seq(Frames)
    BY <1>8, <1>call, SetTopFacts DEF LiftCallToExplored
  <2> QED
    BY <1>8, <1>call, <2>1 DEF LiftCallToExplored, CallReturn, Statuses
<1>9. CASE LiftInvalid
  BY <1>9, <1>lift, PopFacts DEF LiftInvalid
<1>10. CASE ExitOpaque
  <2>1. stack # <<>> /\ Top.blk \in Vips
    BY <1>10, <1>top DEF ExitOpaque, Phases
  <2> QED
    BY <1>10, <2>1, PopFacts DEF ExitOpaque, Terms
<1>11. CASE Resolve
  <2>1. stack # <<>> /\ Top \in Frames /\ Top.blk \in Vips
    BY <1>11, <1>top DEF Resolve, Phases
  <2>2. dest[Top.blk] \subseteq Vips
    BY <1>11, <2>1 DEF Resolve
  <2>3. [Top EXCEPT !.phase = "follow", !.todo = dest[Top.blk]] \in Frames
    BY <2>1, <2>2 DEF Frames, Phases
  <2> QED
    BY <1>11, <2>1, <2>3, SetTopFacts DEF Resolve, blockVars
<1>todo. ASSUME NEW d \in Vips, Running("follow")
         PROVE  /\ stack # <<>> /\ Top.blk \in Vips
                /\ [Top EXCEPT !.todo = @ \ {d}] \in Frames
  BY <1>todo, <1>top DEF Frames, Phases
<1>12. ASSUME NEW d \in Vips, FollowExplored(d) PROVE TypeOK'
  BY <1>12, <1>todo, <1>fork, SetTopFacts DEF FollowExplored
<1>13. ASSUME NEW d \in Vips, FollowNew(d) PROVE TypeOK'
  BY <1>13, <1>todo, <1>fork, PushFacts DEF FollowNew
<1>14. ASSUME NEW d \in Vips, FollowOut(d) PROVE TypeOK'
  BY <1>14, <1>todo, <1>fork, SetTopFacts DEF FollowOut, Terms
<1>15. CASE Return
  BY <1>15, PopFacts DEF Return, Running, blockVars
<1>16. CASE Finish
  BY <1>16 DEF Finish, blockVars, Statuses
<1>17. CASE UNCHANGED vars
  BY <1>17 DEF vars, blockVars
<1> QED
  BY <1>1, <1>2, <1>3, <1>4, <1>5, <1>6, <1>7, <1>8, <1>9, <1>10, <1>11,
     <1>12, <1>13, <1>14, <1>15, <1>16, <1>17 DEF Next, Follow

(* The explorer's state keeps its types: in particular every address it    *)
(* sweeps over, forks or links stays within the addresses the input's      *)
(* instructions mention (recursive_descent.hpp:90-170).                    *)
THEOREM TypeCorrect == Spec => []TypeOK
<1>1. Init => TypeOK
  BY TypeInit
<1>2. TypeOK /\ [Next]_vars => TypeOK'
  BY TypeStep
<1> QED
  BY <1>1, <1>2, PTL DEF Spec

(***************************************************************************)
(* The inductive invariant.                                                *)
(***************************************************************************)

(* Only the innermost activation works; those below follow a branch.       *)
CallersFollow ==
  \A i \in DOMAIN stack : i # Len(stack) => stack[i].phase = "follow"

(* An activation belongs to a block that exists, and only begins or sweeps  *)
(* while the block is open; what it follows are the block's destinations.   *)
FrameOK(f) ==
  /\ f.blk \in explored
  /\ f.phase = "enter" => f.vip = f.blk
  /\ f.phase \in {"enter", "sweep"} => term[f.blk] = "open"
  /\ f.phase = "sweep" => f.vip = f.blk \/ f.vip \notin leaders
  /\ f.phase = "branch" => /\ term[f.blk] \in {"jmp", "js"}
                           /\ Opaque \in dest[f.blk] => term[f.blk] = "jmp"
  /\ f.phase = "follow" => term[f.blk] # "open"

FramesOK == \A i \in DOMAIN stack : FrameOK(stack[i])

BlocksOK ==
  /\ leaders \subseteq explored
  /\ \A b \in Vips \ explored : term[b] = "open" /\ labels[b] = {}

Shape ==
  /\ TypeOK
  /\ CallersFollow
  /\ OneActivation
  /\ FramesOK
  /\ BlocksOK
  /\ OpenBlocksAreSwept

(* The destinations the activations have still to follow. *)
Due(d) ==
  \E i \in DOMAIN stack :
    \/ stack[i].phase = "branch" /\ d \in dest[stack[i].blk]
    \/ stack[i].phase = "follow" /\ d \in stack[i].todo

(* No successor of a lifted instruction is forgotten. *)
NothingForgotten ==
  \A b \in Vips : \A u \in labels[b] : \A w \in Input :
    <<u, w>> \in Flow => w \in Seen \/ Due(w)

(* A block of the input holds its first instruction, or is about to. *)
BlocksBegun ==
  \A b \in explored : IsValid(b) => b \in labels[b] \/ Sweeping(b, b)

(* What the activations still have to follow are successors of lifted       *)
(* instructions.                                                            *)
DueIsReachable ==
  \A w \in Input : Due(w) =>
    \E b \in Vips : \E u \in labels[b] : <<u, w>> \in Flow

StopsEmpty == status = "done" => stack = <<>>

(* A branch has an opaque destination or constant ones. *)
OpaqueAlone == \A b \in Vips : Opaque \in dest[b] => dest[b] = {Opaque}

IInv ==
  /\ Shape
  /\ NothingForgotten
  /\ BlocksBegun
  /\ DueIsReachable
  /\ StopsEmpty
  /\ OpaqueAlone

(***************************************************************************)
(* Shape is inductive.                                                     *)
(***************************************************************************)

(* What the three ways of changing the stack do to its shape. *)
LEMMA SetTopShape ==
  ASSUME TypeOK, stack # <<>>, CallersFollow, OneActivation,
         NEW f \in Frames, f.blk = Top.blk, stack' = SetTop(f)
  PROVE  CallersFollow' /\ OneActivation'
<1>1. /\ Len(stack') = Len(stack) /\ DOMAIN stack' = DOMAIN stack
      /\ \A i \in DOMAIN stack :
           stack'[i] = IF i = Len(stack) THEN f ELSE stack[i]
  BY SetTopFacts DEF TypeOK
<1>2. \A i \in DOMAIN stack : stack'[i].blk = stack[i].blk
  BY <1>1 DEF Top
<1> QED
  BY <1>1, <1>2 DEF CallersFollow, OneActivation

(* Returning removes an activation; the others are as they were.            *)
LEMMA PopShape ==
  ASSUME TypeOK, stack # <<>>, CallersFollow, OneActivation, stack' = Pop
  PROVE  CallersFollow' /\ OneActivation'
<1>1. /\ DOMAIN stack' = DOMAIN stack \ {Len(stack)}
      /\ \A i \in DOMAIN stack' : stack'[i] = stack[i]
  BY PopFacts DEF TypeOK
<1> QED
  BY <1>1 DEF CallersFollow, OneActivation

(* Following adds an activation, of a block that was not explored.          *)
LEMMA PushShape ==
  ASSUME TypeOK, stack # <<>>, CallersFollow, OneActivation, FramesOK,
         NEW f \in Frames, f.blk = Top.blk, f.phase = "follow",
         NEW b \in Vips \ explored, stack' = Push(f, b)
  PROVE  CallersFollow' /\ OneActivation'
<1>1. /\ Len(stack') = Len(stack) + 1 /\ Len(stack) \in Nat
      /\ DOMAIN stack = 1 .. Len(stack)
      /\ DOMAIN stack' = DOMAIN stack \cup {Len(stack) + 1}
      /\ \A i \in DOMAIN stack :
           stack'[i] = IF i = Len(stack) THEN f ELSE stack[i]
      /\ stack'[Len(stack) + 1].blk = b
  <2>1. stack \in Seq(Frames)
    BY DEF TypeOK
  <2>2. DOMAIN stack = 1 .. Len(stack) /\ Len(stack) \in Nat
    BY <2>1, SMT
  <2>3. stack'[Len(stack) + 1] = NewFrame(b) /\ NewFrame(b).blk = b
    BY <2>1, PushFacts DEF NewFrame
  <2> QED
    BY <2>1, <2>2, <2>3, PushFacts
<1>2. \A i \in DOMAIN stack : stack'[i].blk = stack[i].blk /\ stack[i].blk # b
  BY <1>1 DEF Top, FramesOK, FrameOK
<1>3. OneActivation'
  BY <1>1, <1>2 DEF OneActivation
<1>4. CallersFollow'
  BY <1>1 DEF CallersFollow
<1> QED
  BY <1>3, <1>4

(* The only block that may be open is the one being swept. *)
LEMMA OpenIsTop ==
  ASSUME Shape, NEW b \in explored, term[b] = "open"
  PROVE  stack # <<>> /\ Top.blk = b /\ Top.phase \in {"enter", "sweep"}
<1>1. PICK i \in DOMAIN stack :
        stack[i].blk = b /\ stack[i].phase \in {"enter", "sweep"}
  BY DEF Shape, OpenBlocksAreSwept, Sweeping
<1>2. i = Len(stack)
  BY <1>1 DEF Shape, CallersFollow
<1>3. stack # <<>>
  BY <1>1, <1>2, SMT DEF Shape, TypeOK
<1> QED
  BY <1>1, <1>2, <1>3 DEF Top

(* The innermost activation is one of them. *)
LEMMA TopOK ==
  ASSUME Shape, stack # <<>>
  PROVE  FrameOK(Top) /\ Top \in Frames /\ Len(stack) \in DOMAIN stack
BY TopFacts DEF Shape, TypeOK, FramesOK, Top

(* Activations other than the innermost only depend on their block having   *)
(* its branch, which nothing takes away.                                    *)
LEMMA CallerFrames ==
  ASSUME Shape, NEW i \in DOMAIN stack, i # Len(stack),
         explored \subseteq explored',
         \A b \in explored : term[b] # "open" => term'[b] # "open"
  PROVE  /\ stack[i].blk \in explored' /\ stack[i].phase = "follow"
         /\ term'[stack[i].blk] # "open"
BY DEF Shape, CallersFollow, FramesOK, FrameOK

(* A changed innermost activation, with the callers as they were. *)
LEMMA SetTopFrames ==
  ASSUME Shape, stack # <<>>, NEW f \in Frames, stack' = SetTop(f),
         explored \subseteq explored',
         \A b \in explored : term[b] # "open" => term'[b] # "open",
         FrameOK(f)'
  PROVE  FramesOK'
<1>1. /\ DOMAIN stack' = DOMAIN stack
      /\ \A i \in DOMAIN stack :
           stack'[i] = IF i = Len(stack) THEN f ELSE stack[i]
  BY SetTopFacts DEF Shape, TypeOK
<1>2. ASSUME NEW i \in DOMAIN stack' PROVE FrameOK(stack[i])'
  <2>1. CASE i = Len(stack)
    BY <1>1, <2>1 DEF FrameOK
  <2>2. CASE i # Len(stack)
    BY <1>1, <2>2, CallerFrames DEF FrameOK
  <2> QED
    BY <2>1, <2>2
<1> QED
  BY <1>2 DEF FramesOK

(* Returning leaves the callers well formed.                                *)
LEMMA PopFrames ==
  ASSUME Shape, stack # <<>>, stack' = Pop,
         explored \subseteq explored',
         \A b \in explored : term[b] # "open" => term'[b] # "open"
  PROVE  FramesOK'
<1>1. /\ DOMAIN stack' = DOMAIN stack \ {Len(stack)}
      /\ \A i \in DOMAIN stack' : stack'[i] = stack[i]
  BY PopFacts DEF Shape, TypeOK
<1>2. ASSUME NEW i \in DOMAIN stack' PROVE FrameOK(stack[i])'
  BY <1>1, <1>2, CallerFrames DEF FrameOK
<1> QED
  BY <1>2 DEF FramesOK

(* A caller that follows a branch, and the new activation above it.         *)
LEMMA PushFrames ==
  ASSUME Shape, stack # <<>>, NEW f \in Frames, NEW d \in Vips,
         stack' = Push(f, d),
         explored \subseteq explored', d \in explored', term'[d] = "open",
         \A b \in explored : term[b] # "open" => term'[b] # "open",
         FrameOK(f)'
  PROVE  FramesOK'
<1>1. /\ DOMAIN stack' = DOMAIN stack \cup {Len(stack) + 1}
      /\ \A i \in DOMAIN stack :
           stack'[i] = IF i = Len(stack) THEN f ELSE stack[i]
      /\ stack'[Len(stack) + 1] = NewFrame(d)
  BY PushFacts DEF Shape, TypeOK
<1>2. ASSUME NEW i \in DOMAIN stack' PROVE FrameOK(stack[i])'
  <2>1. CASE i = Len(stack) /\ i \in DOMAIN stack
    BY <1>1, <2>1 DEF FrameOK
  <2>2. CASE i # Len(stack) /\ i \in DOMAIN stack
    BY <1>1, <2>2, CallerFrames DEF FrameOK
  <2>3. CASE i \notin DOMAIN stack
    BY <1>1, <2>3 DEF FrameOK, NewFrame
  <2> QED
    BY <2>1, <2>2, <2>3
<1> QED
  BY <1>2 DEF FramesOK

(* While a branch is looked at or followed, no block is open. *)
LEMMA NoneOpen ==
  ASSUME Shape, \/ Running("branch") \/ Running("follow")
  PROVE  \A b \in explored : term[b] # "open"
BY OpenIsTop DEF Running

(* One activation, of the entry block.                                      *)
LEMMA ShapeInit == Init => Shape
<1> SUFFICES ASSUME Init PROVE Shape
  OBVIOUS
<1>1. TypeOK
  BY TypeInit
<1>2. stack = <<NewFrame(EntryPoint)>> /\ EntryPoint \in Vips
  BY DescentAssumption DEF Init, Input
<1>3. DOMAIN stack = {1} /\ Len(stack) = 1 /\ stack[1] = NewFrame(EntryPoint)
  BY <1>2
<1>4. CallersFollow /\ OneActivation
  BY <1>3 DEF CallersFollow, OneActivation
<1>5. FramesOK /\ BlocksOK
  BY <1>2, <1>3 DEF FramesOK, FrameOK, NewFrame, BlocksOK, Init
<1>6. OpenBlocksAreSwept
  BY <1>2, <1>3 DEF OpenBlocksAreSwept, Sweeping, NewFrame, Init
<1> QED
  BY <1>1, <1>4, <1>5, <1>6 DEF Shape

(* The actions that lift an instruction, whatever it is. *)
LEMMA LiftFacts ==
  ASSUME Shape, NEW kinds, Lift(kinds)
  PROVE  /\ stack # <<>> /\ Top \in Frames /\ FrameOK(Top)
         /\ Len(stack) \in DOMAIN stack
         /\ Top.phase = "sweep" /\ code[Top.vip].kind \in kinds
         /\ Top.blk \in explored /\ Top.blk \in Vips /\ term[Top.blk] = "open"
         /\ Top.vip \in Input /\ Top.vip \in Vips
         /\ After(Top.vip) \in Vips /\ After(Top.vip) # Top.vip
         /\ labels' = [labels EXCEPT ![Top.blk] = @ \cup {Top.vip}]
         /\ Terminator(code[Top.vip]) \in Terms
         /\ \A b \in explored : term[b] = "open" => b = Top.blk
<1>1. stack # <<>> /\ Top.phase = "sweep" /\ IsValid(Top.vip)
  BY DEF Lift, Running
<1>2. Top \in Frames /\ FrameOK(Top) /\ Len(stack) \in DOMAIN stack
  BY <1>1, TopOK
<1>3. Top.vip \in Input /\ Top.vip \in Vips /\ Top.blk \in Vips
  BY <1>1, <1>2 DEF Frames, Input
<1>4. /\ After(Top.vip) \in Vips /\ After(Top.vip) # Top.vip
      /\ Terminator(code[Top.vip]) \in Terms
  BY <1>3, InsnFacts DEF Shape, TypeOK
<1>5. \A b \in explored : term[b] = "open" => b = Top.blk
  BY OpenIsTop
<1> QED
  BY <1>1, <1>2, <1>3, <1>4, <1>5 DEF Lift, FrameOK

(* Likewise the actions that follow a branch. *)
LEMMA FollowFacts ==
  ASSUME Shape, Running("follow"), NEW d \in Vips
  PROVE  /\ stack # <<>> /\ Top \in Frames /\ FrameOK(Top)
         /\ Len(stack) \in DOMAIN stack
         /\ Top.phase = "follow" /\ Top.blk \in explored /\ Top.blk \in Vips
         /\ [Top EXCEPT !.todo = @ \ {d}] \in Frames
         /\ \A b \in explored : term[b] # "open"
<1>1. stack # <<>> /\ Top.phase = "follow"
  BY DEF Running
<1>2. Top \in Frames /\ FrameOK(Top) /\ Len(stack) \in DOMAIN stack
  BY <1>1, TopOK
<1>3. [Top EXCEPT !.todo = @ \ {d}] \in Frames /\ Top.blk \in Vips
  BY <1>2 DEF Frames
<1> QED
  BY <1>1, <1>2, <1>3, NoneOpen DEF FrameOK

(* Every step keeps the shape: one case per action.                         *)
LEMMA ShapeStep == Shape /\ [Next]_vars => Shape'
<1> SUFFICES ASSUME Shape, [Next]_vars PROVE Shape'
  OBVIOUS
<1>shape. TypeOK /\ CallersFollow /\ OneActivation /\ FramesOK /\ BlocksOK
  BY DEF Shape
<1>type. TypeOK'
  BY <1>shape, TypeStep
<1>1. CASE EnterBlock
  <2>f. PICK f : f = [Top EXCEPT !.phase = "sweep"]
    OBVIOUS
  <2>1. /\ stack # <<>> /\ Top \in Frames /\ FrameOK(Top) /\ Top.phase = "enter"
        /\ Len(stack) \in DOMAIN stack
    BY <1>1, TopOK DEF EnterBlock, Running
  <2>2. /\ f \in Frames /\ f.blk = Top.blk /\ f.vip = Top.vip /\ f.phase = "sweep"
        /\ Top.blk \in explored /\ Top.vip = Top.blk /\ term[Top.blk] = "open"
    BY <2>1, <2>f DEF Frames, Phases, FrameOK
  <2>3. /\ stack' = SetTop(f) /\ explored' = explored /\ term' = term
        /\ labels' = labels /\ leaders' = leaders \cup {Top.vip}
    BY <1>1, <2>f DEF EnterBlock, blockVars
  <2>4. CallersFollow' /\ OneActivation'
    BY <1>shape, <2>1, <2>2, <2>3, SetTopShape
  <2>5. FrameOK(f)'
    BY <2>2, <2>3 DEF FrameOK
  <2>6. FramesOK'
    BY <2>1, <2>2, <2>3, <2>5, SetTopFrames
  <2>7. BlocksOK'
    BY <1>shape, <2>2, <2>3 DEF BlocksOK
  <2>8. stack'[Len(stack)] = f /\ Len(stack) \in DOMAIN stack'
    BY <1>shape, <2>1, <2>2, <2>3, SetTopFacts DEF TypeOK
  <2>9. \A b \in explored : term[b] = "open" => b = Top.blk
    BY OpenIsTop
  <2>10. f.vip \in Vips
    BY <2>2, <2>f DEF Frames
  <2>11. OpenBlocksAreSwept'
    BY <2>2, <2>3, <2>8, <2>9, <2>10 DEF OpenBlocksAreSwept, Sweeping
  <2> QED
    BY <1>type, <2>4, <2>6, <2>7, <2>11 DEF Shape
<1>2. CASE FailGetAt
  BY <1>2 DEF FailGetAt, blockVars, Shape, TypeOK, CallersFollow,
     OneActivation, FramesOK, FrameOK, BlocksOK, OpenBlocksAreSwept, Sweeping,
     Statuses
<1>ends. ASSUME NEW b \in explored, NEW t \in Terms \ {"open"},
                Top.blk = b, stack # <<>>, FrameOK(Top),
                \A c \in explored : term[c] = "open" => c = b,
                term' = [term EXCEPT ![b] = t],
                explored' = explored, leaders' = leaders,
                \A c \in Vips \ {b} : labels'[c] = labels[c]
         PROVE  /\ OpenBlocksAreSwept' /\ BlocksOK'
                /\ \A c \in explored : term[c] # "open" => term'[c] # "open"
  <2>1. \A c \in Vips : c # b => term'[c] = term[c]
    BY <1>shape, <1>ends DEF TypeOK
  <2>2. term'[b] # "open" /\ b \in Vips
    BY <1>shape, <1>ends DEF TypeOK
  <2>3. \A c \in explored' : term'[c] # "open"
    BY <1>shape, <1>ends, <2>1, <2>2 DEF TypeOK
  <2>4. BlocksOK'
    BY <1>shape, <1>ends, <2>1, <2>2 DEF BlocksOK
  <2> QED
    BY <1>ends, <2>3, <2>4 DEF OpenBlocksAreSwept
<1>3. CASE RunOff
  <2>1. /\ stack # <<>> /\ Top.phase = "sweep" /\ stack' = Pop
        /\ term' = [term EXCEPT ![Top.blk] = "vexit"]
        /\ explored' = explored /\ leaders' = leaders /\ labels' = labels
    BY <1>3 DEF RunOff, Running
  <2>2. FrameOK(Top) /\ Top.blk \in explored
    BY <2>1, TopOK DEF FrameOK
  <2>3. \A c \in explored : term[c] = "open" => c = Top.blk
    BY OpenIsTop
  <2>4. "vexit" \in Terms \ {"open"}
    BY DEF Terms
  <2>5. /\ OpenBlocksAreSwept' /\ BlocksOK'
        /\ \A c \in explored : term[c] # "open" => term'[c] # "open"
    BY <1>ends, <2>1, <2>2, <2>3, <2>4
  <2>6. FramesOK'
    BY <2>1, <2>5, PopFrames
  <2> QED
    BY <1>shape, <1>type, <2>1, <2>5, <2>6, PopShape DEF Shape
<1>4. CASE LiftPlain
  <2>f. PICK f : f = [Top EXCEPT !.vip = After(Top.vip)]
    OBVIOUS
  <2>1. Lift({"plain"}) /\ stack' = SetTop(f)
    BY <1>4, <2>f DEF LiftPlain
  <2>2. /\ stack # <<>> /\ Top \in Frames /\ FrameOK(Top)
        /\ Len(stack) \in DOMAIN stack
        /\ Top.phase = "sweep" /\ Top.blk \in explored /\ Top.blk \in Vips
        /\ term[Top.blk] = "open" /\ After(Top.vip) \in Vips
        /\ labels' = [labels EXCEPT ![Top.blk] = @ \cup {Top.vip}]
        /\ \A b \in explored : term[b] = "open" => b = Top.blk
    BY <2>1, LiftFacts
  <2>3. /\ f \in Frames /\ f.blk = Top.blk /\ f.vip = After(Top.vip)
        /\ f.phase = "sweep"
    BY <2>2, <2>f DEF Frames
  <2>4. /\ explored' = explored /\ term' = term /\ leaders' = leaders
        /\ After(Top.vip) \notin leaders
    BY <1>4 DEF LiftPlain
  <2>5. CallersFollow' /\ OneActivation'
    BY <1>shape, <2>1, <2>2, <2>3, SetTopShape
  <2>6. FrameOK(f)'
    BY <2>2, <2>3, <2>4 DEF FrameOK
  <2>7. FramesOK'
    BY <2>1, <2>2, <2>3, <2>4, <2>6, SetTopFrames
  <2>8. BlocksOK'
    BY <1>shape, <2>2, <2>4 DEF BlocksOK, TypeOK
  <2>9. stack'[Len(stack)] = f /\ Len(stack) \in DOMAIN stack'
    BY <1>shape, <2>1, <2>2, <2>3, SetTopFacts DEF TypeOK
  <2>10. OpenBlocksAreSwept'
    BY <2>2, <2>3, <2>4, <2>9 DEF OpenBlocksAreSwept, Sweeping
  <2> QED
    BY <1>type, <2>5, <2>7, <2>8, <2>10 DEF Shape
<1>5. CASE LiftUpToLeader
  <2>f. PICK f : f = [Top EXCEPT !.vip = After(Top.vip), !.phase = "branch"]
    OBVIOUS
  <2>1. Lift({"plain"}) /\ stack' = SetTop(f)
    BY <1>5, <2>f DEF LiftUpToLeader
  <2>2. /\ stack # <<>> /\ Top \in Frames /\ FrameOK(Top)
        /\ Top.blk \in explored /\ Top.blk \in Vips /\ After(Top.vip) \in Vips
        /\ labels' = [labels EXCEPT ![Top.blk] = @ \cup {Top.vip}]
        /\ \A b \in explored : term[b] = "open" => b = Top.blk
    BY <2>1, LiftFacts
  <2>3. f \in Frames /\ f.blk = Top.blk /\ f.phase = "branch"
    BY <2>2, <2>f DEF Frames, Phases
  <2>4. /\ explored' = explored /\ leaders' = leaders
        /\ term' = [term EXCEPT ![Top.blk] = "jmp"]
        /\ \A c \in Vips \ {Top.blk} : labels'[c] = labels[c]
    BY <1>5, <1>shape, <2>2 DEF LiftUpToLeader, Fork, BlocksOK, TypeOK
  <2>5. "jmp" \in Terms \ {"open"}
    BY DEF Terms
  <2>6. /\ OpenBlocksAreSwept' /\ BlocksOK'
        /\ \A c \in explored : term[c] # "open" => term'[c] # "open"
    BY <1>ends, <2>2, <2>4, <2>5
  <2>7. FrameOK(f)'
    BY <1>shape, <2>2, <2>3, <2>4 DEF FrameOK, TypeOK
  <2>8. FramesOK'
    BY <2>1, <2>2, <2>3, <2>4, <2>6, <2>7, SetTopFrames
  <2> QED
    BY <1>shape, <1>type, <2>1, <2>2, <2>3, <2>6, <2>8, SetTopShape DEF Shape
<1>6. CASE LiftBranch
  <2> DEFINE t == Terminator(code[Top.vip])
  <2>f. PICK f : f = [Top EXCEPT !.vip = After(Top.vip), !.phase = "branch"]
    OBVIOUS
  <2>1. Lift({"jmp", "jcc", "opaque"}) /\ stack' = SetTop(f)
    BY <1>6, <2>f DEF LiftBranch
  <2>2. /\ stack # <<>> /\ Top \in Frames /\ FrameOK(Top)
        /\ code[Top.vip].kind \in {"jmp", "jcc", "opaque"}
        /\ Top.blk \in explored /\ Top.blk \in Vips /\ After(Top.vip) \in Vips
        /\ Top.vip \in Input
        /\ labels' = [labels EXCEPT ![Top.blk] = @ \cup {Top.vip}]
        /\ \A b \in explored : term[b] = "open" => b = Top.blk
    BY <2>1, LiftFacts
  <2>3. f \in Frames /\ f.blk = Top.blk /\ f.phase = "branch"
    BY <2>2, <2>f DEF Frames, Phases
  <2>4. /\ explored' = explored /\ leaders' = leaders
        /\ term' = [term EXCEPT ![Top.blk] = t]
        /\ dest'[Top.blk] = Destinations(Top.vip)
        /\ \A c \in Vips \ {Top.blk} : labels'[c] = labels[c]
    BY <1>6, <1>shape, <2>2 DEF LiftBranch, TypeOK
  <2>5. t \in {"jmp", "js"} /\ t \in Terms \ {"open"}
    BY <2>2 DEF Terms, Terminator
  <2>6. Opaque \in Destinations(Top.vip) => t = "jmp"
    <3>1. code[Top.vip].target # Opaque /\ After(Top.vip) # Opaque
      BY <1>shape, <2>2, DescentAssumption DEF TypeOK
    <3> QED
      BY <2>2, <3>1 DEF Destinations, Terminator
  <2> HIDE DEF t
  <2>7. /\ OpenBlocksAreSwept' /\ BlocksOK'
        /\ \A c \in explored : term[c] # "open" => term'[c] # "open"
    BY <1>ends, <2>2, <2>4, <2>5
  <2>8. FrameOK(f)'
    BY <1>shape, <2>2, <2>3, <2>4, <2>5, <2>6 DEF FrameOK, TypeOK
  <2>9. FramesOK'
    BY <2>1, <2>2, <2>3, <2>4, <2>7, <2>8, SetTopFrames
  <2> QED
    BY <1>shape, <1>type, <2>1, <2>2, <2>3, <2>7, <2>9, SetTopShape DEF Shape
<1>call. ASSUME CallReturn,
                NEW f, f = CallFrame
         PROVE  /\ stack # <<>> /\ Top.blk \in explored /\ After(Top.vip) \in Vips
                /\ FrameOK(Top)
                /\ f \in Frames /\ f.blk = Top.blk /\ f.phase = "follow"
                /\ term' = [term EXCEPT ![Top.blk] = "vxcall"]
                /\ explored' = explored \cup {After(Top.vip)}
                /\ leaders' = leaders
                /\ \A c \in Vips \ {Top.blk} : labels'[c] = labels[c]
                /\ \A b \in explored : term[b] = "open" => b = Top.blk
                /\ FrameOK(f)'
  <2>1. /\ stack # <<>> /\ Top \in Frames /\ FrameOK(Top)
        /\ code[Top.vip].kind = "call" /\ After(Top.vip) \in Vips
        /\ Top.blk \in explored /\ Top.blk \in Vips
        /\ labels' = [labels EXCEPT ![Top.blk] = @ \cup {Top.vip}]
        /\ \A b \in explored : term[b] = "open" => b = Top.blk
    BY <1>call, LiftFacts DEF CallReturn
  <2>2. f \in Frames /\ f.blk = Top.blk /\ f.phase = "follow"
    BY <1>call, <2>1 DEF CallFrame, Frames, Phases
  <2>3. /\ term' = [term EXCEPT ![Top.blk] = "vxcall"]
        /\ explored' = explored \cup {After(Top.vip)} /\ leaders' = leaders
        /\ \A c \in Vips \ {Top.blk} : labels'[c] = labels[c]
    BY <1>call, <1>shape, <2>1 DEF CallReturn, Fork, Terminator, TypeOK
  <2>4. FrameOK(f)'
    BY <1>shape, <2>1, <2>2, <2>3 DEF FrameOK, TypeOK
  <2> QED
    BY <2>1, <2>2, <2>3, <2>4
<1>7. CASE LiftCall
  <2>f. PICK f : f = CallFrame
    OBVIOUS
  <2>d. PICK d : d = After(Top.vip)
    OBVIOUS
  <2>1. /\ stack # <<>> /\ FrameOK(Top) /\ Top.blk \in explored
        /\ f \in Frames /\ f.blk = Top.blk /\ f.phase = "follow"
        /\ d \in Vips
        /\ term' = [term EXCEPT ![Top.blk] = "vxcall"]
        /\ explored' = explored \cup {d} /\ leaders' = leaders
        /\ \A c \in Vips \ {Top.blk} : labels'[c] = labels[c]
        /\ \A b \in explored : term[b] = "open" => b = Top.blk
        /\ FrameOK(f)'
    BY <1>7, <1>call, <2>f, <2>d DEF LiftCall
  <2>2. d \notin explored /\ stack' = Push(f, d)
    BY <1>7, <2>f, <2>d DEF LiftCall, ForksNew
  <2>3. /\ term'[d] = "open" /\ term'[Top.blk] = "vxcall"
        /\ \A c \in Vips \ {Top.blk} : term'[c] = term[c]
    BY <1>shape, <2>1, <2>2 DEF BlocksOK, TypeOK
  <2>4. \A c \in explored : term'[c] # "open"
    BY <1>shape, <2>1, <2>3 DEF TypeOK
  <2>5. BlocksOK'
    BY <1>shape, <2>1, <2>3 DEF BlocksOK
  <2>6. FramesOK'
    BY <2>1, <2>2, <2>3, <2>4, PushFrames
  <2>7. CallersFollow' /\ OneActivation'
    BY <1>shape, <2>1, <2>2, PushShape
  <2>8. stack'[Len(stack) + 1] = NewFrame(d) /\ Len(stack) + 1 \in DOMAIN stack'
    BY <1>shape, <2>1, <2>2, PushFacts DEF TypeOK
  <2>9. OpenBlocksAreSwept'
    BY <2>1, <2>4, <2>8 DEF OpenBlocksAreSwept, Sweeping, NewFrame
  <2> QED
    BY <1>type, <2>5, <2>6, <2>7, <2>9 DEF Shape
<1>8. CASE LiftCallToExplored
  <2>f. PICK f : f = CallFrame
    OBVIOUS
  <2>1. /\ stack # <<>> /\ FrameOK(Top) /\ Top.blk \in explored
        /\ f \in Frames /\ f.blk = Top.blk /\ f.phase = "follow"
        /\ term' = [term EXCEPT ![Top.blk] = "vxcall"]
        /\ explored' = explored \cup {After(Top.vip)} /\ leaders' = leaders
        /\ \A c \in Vips \ {Top.blk} : labels'[c] = labels[c]
        /\ \A b \in explored : term[b] = "open" => b = Top.blk
        /\ FrameOK(f)'
    BY <1>8, <1>call, <2>f DEF LiftCallToExplored
  <2>2. explored' = explored /\ stack' = SetTop(f)
    BY <1>8, <2>1, <2>f DEF LiftCallToExplored, ForksNew
  <2>3. "vxcall" \in Terms \ {"open"}
    BY DEF Terms
  <2>4. /\ OpenBlocksAreSwept' /\ BlocksOK'
        /\ \A c \in explored : term[c] # "open" => term'[c] # "open"
    BY <1>ends, <2>1, <2>2, <2>3
  <2>5. FramesOK'
    BY <2>1, <2>2, <2>4, SetTopFrames
  <2> QED
    BY <1>shape, <1>type, <2>1, <2>2, <2>4, <2>5, SetTopShape DEF Shape
<1>9. CASE LiftInvalid
  <2>1. Lift({"invalid"}) /\ stack' = Pop
    BY <1>9 DEF LiftInvalid
  <2>2. /\ stack # <<>> /\ Top \in Frames /\ FrameOK(Top)
        /\ code[Top.vip].kind = "invalid"
        /\ Top.blk \in explored /\ Top.blk \in Vips
        /\ labels' = [labels EXCEPT ![Top.blk] = @ \cup {Top.vip}]
        /\ \A b \in explored : term[b] = "open" => b = Top.blk
    BY <2>1, LiftFacts
  <2>3. /\ explored' = explored /\ leaders' = leaders
        /\ term' = [term EXCEPT ![Top.blk] = "vexit"]
        /\ \A c \in Vips \ {Top.blk} : labels'[c] = labels[c]
    BY <1>9, <1>shape, <2>2 DEF LiftInvalid, TypeOK, Terminator
  <2>4. "vexit" \in Terms \ {"open"}
    BY DEF Terms
  <2>5. /\ OpenBlocksAreSwept' /\ BlocksOK'
        /\ \A c \in explored : term[c] # "open" => term'[c] # "open"
    BY <1>ends, <2>2, <2>3, <2>4
  <2>6. FramesOK'
    BY <2>1, <2>2, <2>3, <2>5, PopFrames
  <2> QED
    BY <1>shape, <1>type, <2>1, <2>2, <2>5, <2>6, PopShape DEF Shape
<1>10. CASE ExitOpaque
  <2>1. /\ stack # <<>> /\ Running("branch") /\ stack' = Pop
        /\ term' = [term EXCEPT ![Top.blk] = "vexit"]
        /\ explored' = explored /\ leaders' = leaders /\ labels' = labels
    BY <1>10 DEF ExitOpaque, Running
  <2>2. FrameOK(Top) /\ Top.blk \in explored
    BY <2>1, TopOK DEF FrameOK
  <2>3. \A c \in explored : term[c] # "open"
    BY <2>1, NoneOpen
  <2>4. "vexit" \in Terms \ {"open"}
    BY DEF Terms
  <2>5. /\ OpenBlocksAreSwept' /\ BlocksOK'
        /\ \A c \in explored : term[c] # "open" => term'[c] # "open"
    BY <1>ends, <2>1, <2>2, <2>3, <2>4
  <2>6. FramesOK'
    BY <2>1, <2>5, PopFrames
  <2> QED
    BY <1>shape, <1>type, <2>1, <2>5, <2>6, PopShape DEF Shape
<1>same. ASSUME explored' = explored, leaders' = leaders,
                labels' = labels, term' = term,
                \A c \in explored : term[c] # "open"
         PROVE  OpenBlocksAreSwept' /\ BlocksOK'
  BY <1>shape, <1>same DEF OpenBlocksAreSwept, BlocksOK
<1>11. CASE Resolve
  <2>f. PICK f : f = [Top EXCEPT !.phase = "follow", !.todo = dest[Top.blk]]
    OBVIOUS
  <2>1. /\ stack # <<>> /\ Running("branch") /\ stack' = SetTop(f)
        /\ explored' = explored /\ leaders' = leaders
        /\ labels' = labels /\ term' = term /\ dest[Top.blk] \in SUBSET Vips
    <3>1. stack # <<>> /\ Top.blk \in Vips
      BY <1>11, TopOK DEF Resolve, Running, Frames
    <3> QED
      BY <1>11, <1>shape, <3>1, <2>f DEF Resolve, blockVars, TypeOK
  <2>2. Top \in Frames /\ FrameOK(Top)
    BY <2>1, TopOK
  <2>3. f \in Frames /\ f.blk = Top.blk /\ f.phase = "follow"
    BY <2>1, <2>2, <2>f DEF Frames, Phases
  <2>4. \A c \in explored : term[c] # "open"
    BY <2>1, NoneOpen
  <2>5. FrameOK(f)'
    BY <2>1, <2>2, <2>3, <2>4 DEF FrameOK
  <2>6. FramesOK'
    BY <2>1, <2>3, <2>5, SetTopFrames
  <2>7. OpenBlocksAreSwept' /\ BlocksOK'
    BY <1>same, <2>1, <2>4
  <2> QED
    BY <1>shape, <1>type, <2>1, <2>3, <2>6, <2>7, SetTopShape DEF Shape
<1>12. ASSUME NEW d \in Vips, FollowExplored(d) PROVE Shape'
  <2>f. PICK f : f = [Top EXCEPT !.todo = @ \ {d}]
    OBVIOUS
  <2>1. /\ Running("follow") /\ stack' = SetTop(f)
        /\ explored' = explored /\ leaders' = leaders
        /\ labels' = labels /\ term' = term
    BY <1>12, <2>f DEF FollowExplored, Fork, ForksNew
  <2>2. /\ stack # <<>> /\ FrameOK(Top) /\ f \in Frames
        /\ f.blk = Top.blk /\ f.phase = "follow"
        /\ \A c \in explored : term[c] # "open"
    BY <2>1, FollowFacts, <2>f DEF Frames
  <2>3. FrameOK(f)'
    BY <2>1, <2>2 DEF FrameOK
  <2>4. FramesOK'
    BY <2>1, <2>2, <2>3, SetTopFrames
  <2>5. OpenBlocksAreSwept' /\ BlocksOK'
    BY <1>same, <2>1, <2>2
  <2> QED
    BY <1>shape, <1>type, <2>1, <2>2, <2>4, <2>5, SetTopShape DEF Shape
<1>13. ASSUME NEW d \in Vips, FollowNew(d) PROVE Shape'
  <2>f. PICK f : f = [Top EXCEPT !.todo = @ \ {d}]
    OBVIOUS
  <2>1. /\ Running("follow") /\ stack' = Push(f, d) /\ d \notin explored
        /\ explored' = explored \cup {d} /\ leaders' = leaders
        /\ labels' = labels /\ term' = term
    BY <1>13, <2>f DEF FollowNew, Fork, ForksNew
  <2>2. /\ stack # <<>> /\ FrameOK(Top) /\ f \in Frames
        /\ f.blk = Top.blk /\ f.phase = "follow"
        /\ \A c \in explored : term[c] # "open"
    BY <2>1, FollowFacts, <2>f DEF Frames
  <2>3. FrameOK(f)' /\ term'[d] = "open"
    BY <1>shape, <2>1, <2>2 DEF FrameOK, BlocksOK
  <2>4. FramesOK'
    BY <2>1, <2>2, <2>3, PushFrames
  <2>5. BlocksOK'
    BY <1>shape, <2>1 DEF BlocksOK
  <2>6. stack'[Len(stack) + 1] = NewFrame(d) /\ Len(stack) + 1 \in DOMAIN stack'
    BY <1>shape, <2>1, <2>2, PushFacts DEF TypeOK
  <2>7. OpenBlocksAreSwept'
    BY <2>1, <2>2, <2>6 DEF OpenBlocksAreSwept, Sweeping, NewFrame
  <2> QED
    BY <1>shape, <1>type, <2>1, <2>2, <2>4, <2>5, <2>7, PushShape DEF Shape
<1>14. ASSUME NEW d \in Vips, FollowOut(d) PROVE Shape'
  <2>f. PICK f : f = [Top EXCEPT !.todo = @ \ {d}]
    OBVIOUS
  <2>1. /\ Running("follow") /\ stack' = SetTop(f) /\ d \notin explored
        /\ explored' = explored \cup {d} /\ leaders' = leaders
        /\ labels' = labels /\ term' = [term EXCEPT ![d] = "vexit"]
    BY <1>14, <2>f DEF FollowOut, Fork, ForksNew
  <2>2. /\ stack # <<>> /\ FrameOK(Top) /\ f \in Frames
        /\ f.blk = Top.blk /\ f.phase = "follow" /\ f.blk \in explored
        /\ \A c \in explored : term[c] # "open"
    BY <2>1, FollowFacts, <2>f DEF Frames
  <2>3. term'[d] = "vexit" /\ \A c \in Vips \ {d} : term'[c] = term[c]
    BY <1>shape, <2>1 DEF TypeOK
  <2>4. \A c \in explored' : c \in Vips /\ term'[c] # "open"
    BY <1>shape, <2>1, <2>2, <2>3 DEF TypeOK
  <2>5. FrameOK(f)'
    BY <2>1, <2>2, <2>4 DEF FrameOK
  <2>6. FramesOK'
    BY <2>1, <2>2, <2>4, <2>5, SetTopFrames
  <2>7. OpenBlocksAreSwept' /\ BlocksOK'
    BY <1>shape, <2>1, <2>3, <2>4 DEF BlocksOK, OpenBlocksAreSwept
  <2> QED
    BY <1>shape, <1>type, <2>1, <2>2, <2>6, <2>7, SetTopShape DEF Shape
<1>15. CASE Return
  <2>1. /\ Running("follow") /\ stack # <<>> /\ stack' = Pop
        /\ explored' = explored /\ leaders' = leaders
        /\ labels' = labels /\ term' = term
    BY <1>15 DEF Return, Running, blockVars
  <2>2. FramesOK'
    BY <2>1, PopFrames
  <2>3. OpenBlocksAreSwept' /\ BlocksOK'
    BY <1>same, <2>1, NoneOpen
  <2> QED
    BY <1>shape, <1>type, <2>1, <2>2, <2>3, PopShape DEF Shape
<1>16. CASE Finish
  BY <1>16, <1>type DEF Finish, blockVars, Shape, CallersFollow,
     OneActivation, FramesOK, FrameOK, BlocksOK, OpenBlocksAreSwept, Sweeping
<1>17. CASE UNCHANGED vars
  BY <1>17, <1>type DEF vars, blockVars, Shape, CallersFollow,
     OneActivation, FramesOK, FrameOK, BlocksOK, OpenBlocksAreSwept, Sweeping
<1> QED
  BY <1>1, <1>2, <1>3, <1>4, <1>5, <1>6, <1>7, <1>8, <1>9, <1>10, <1>11,
     <1>12, <1>13, <1>14, <1>15, <1>16, <1>17 DEF Next, Follow

(* The temporal step.                                                       *)
LEMMA ShapeAlways == Spec => []Shape
<1> QED
  BY ShapeInit, ShapeStep, PTL DEF Spec

(* However the program loops, populate() never runs on a block that is      *)
(* already being populated, and every block ends with a branch once it is   *)
(* no longer being swept (recursive_descent.hpp:90-170).                    *)
THEOREM BlocksPopulatedOnce == Spec => [](OneActivation /\ OpenBlocksAreSwept)
<1>1. Shape => OneActivation /\ OpenBlocksAreSwept
  BY DEF Shape
<1> QED
  BY <1>1, ShapeAlways, PTL

(***************************************************************************)
(* What the actions do to the addresses reached and to those still due.    *)
(***************************************************************************)

(* What the callers still have to follow. *)
CallersDue(d) ==
  \E i \in DOMAIN stack : i # Len(stack) /\ d \in stack[i].todo

(* Only the innermost activation sweeps. *)
LEMMA SweepingTop ==
  ASSUME Shape, stack # <<>>, NEW b, NEW v
  PROVE  Sweeping(b, v) <=> /\ Top.blk = b /\ Top.vip = v
                            /\ Top.phase \in {"enter", "sweep"}
<1>1. Len(stack) \in DOMAIN stack
  BY TopOK
<1> QED
  BY <1>1 DEF Shape, CallersFollow, Sweeping, Top

(* What is due is due to a caller or to the innermost activation.           *)
LEMMA DueTop ==
  ASSUME Shape, stack # <<>>, NEW d
  PROVE  Due(d) <=> \/ CallersDue(d)
                    \/ Top.phase = "branch" /\ d \in dest[Top.blk]
                    \/ Top.phase = "follow" /\ d \in Top.todo
<1>1. Len(stack) \in DOMAIN stack
  BY TopOK
<1> QED
  BY <1>1 DEF Shape, CallersFollow, Due, CallersDue, Top

(* What is swept and due after the innermost activation moves on.           *)
LEMMA SetTopEffect ==
  ASSUME Shape, stack # <<>>, NEW f \in Frames, stack' = SetTop(f)
  PROVE  /\ \A b, v : Sweeping(b, v)' <=> /\ f.blk = b /\ f.vip = v
                                          /\ f.phase \in {"enter", "sweep"}
         /\ \A d : Due(d)' <=> \/ CallersDue(d)
                               \/ f.phase = "branch" /\ d \in dest'[f.blk]
                               \/ f.phase = "follow" /\ d \in f.todo
<1>1. /\ DOMAIN stack' = DOMAIN stack
      /\ \A i \in DOMAIN stack :
           stack'[i] = IF i = Len(stack) THEN f ELSE stack[i]
      /\ Len(stack) \in DOMAIN stack
  BY SetTopFacts, TopOK DEF Shape, TypeOK
<1>2. \A i \in DOMAIN stack : i # Len(stack) => stack[i].phase = "follow"
  BY DEF Shape, CallersFollow
<1>3. \A b, v : Sweeping(b, v)' <=> /\ f.blk = b /\ f.vip = v
                                    /\ f.phase \in {"enter", "sweep"}
  BY <1>1, <1>2 DEF Sweeping
<1>4. \A d : Due(d)' <=> \/ CallersDue(d)
                         \/ f.phase = "branch" /\ d \in dest'[f.blk]
                         \/ f.phase = "follow" /\ d \in f.todo
  BY <1>1, <1>2 DEF Due, CallersDue
<1> QED
  BY <1>3, <1>4

(* What is swept and due after it returns.                                  *)
LEMMA PopEffect ==
  ASSUME Shape, stack # <<>>, stack' = Pop
  PROVE  /\ \A b, v : ~Sweeping(b, v)'
         /\ \A d : Due(d)' <=> CallersDue(d)
<1>1. /\ DOMAIN stack' = DOMAIN stack \ {Len(stack)}
      /\ \A i \in DOMAIN stack' : stack'[i] = stack[i]
  BY PopFacts DEF Shape, TypeOK
<1>2. \A i \in DOMAIN stack : i # Len(stack) => stack[i].phase = "follow"
  BY DEF Shape, CallersFollow
<1>3. \A b, v : ~Sweeping(b, v)'
  BY <1>1, <1>2 DEF Sweeping
<1>4. \A d : Due(d)' <=> CallersDue(d)
  BY <1>1, <1>2 DEF Due, CallersDue
<1> QED
  BY <1>3, <1>4

(* What is swept and due after it calls populate on a new block.            *)
LEMMA PushEffect ==
  ASSUME Shape, stack # <<>>, NEW f \in Frames, f.phase = "follow",
         NEW c \in Vips, stack' = Push(f, c)
  PROVE  /\ \A b, v : Sweeping(b, v)' <=> b = c /\ v = c
         /\ \A d : Due(d)' <=> CallersDue(d) \/ d \in f.todo
<1>1. /\ DOMAIN stack' = DOMAIN stack \cup {Len(stack) + 1}
      /\ \A i \in DOMAIN stack :
           stack'[i] = IF i = Len(stack) THEN f ELSE stack[i]
      /\ stack'[Len(stack) + 1] = NewFrame(c)
  BY PushFacts DEF Shape, TypeOK
<1>2. \A i \in DOMAIN stack : i # Len(stack) => stack[i].phase = "follow"
  BY DEF Shape, CallersFollow
<1>3. Len(stack) \in DOMAIN stack /\ Len(stack) + 1 \notin DOMAIN stack
  <2>1. stack \in Seq(Frames)
    BY DEF Shape, TypeOK
  <2> QED
    BY <2>1, SMT
<1>4. /\ NewFrame(c).blk = c /\ NewFrame(c).vip = c
      /\ NewFrame(c).phase = "enter" /\ NewFrame(c).todo = {}
  BY DEF NewFrame
<1>5. \A b, v : Sweeping(b, v)' <=> b = c /\ v = c
  BY <1>1, <1>2, <1>3, <1>4 DEF Sweeping
<1>6. \A d : Due(d)' <=> CallersDue(d) \/ d \in f.todo
  BY <1>1, <1>2, <1>3, <1>4 DEF Due, CallersDue
<1> QED
  BY <1>5, <1>6

(* What every step keeps of the search: nothing reached or due is dropped,  *)
(* what becomes due is a successor of a lifted instruction, the successors  *)
(* of an instruction just lifted are reached or due, and at most one        *)
(* address is reached, a successor of one reached before.                   *)
Progress ==
  /\ code' = code
  /\ \A b \in Vips : labels[b] \subseteq labels'[b]
  /\ \A w \in Seen : w \in Seen'
  /\ \A w \in Input : Due(w) => w \in Seen' \/ Due(w)'
  /\ \A w \in Input :
       Due(w)' => Due(w) \/ \E b \in Vips : \E u \in labels'[b] : <<u, w>> \in Flow
  /\ \A b \in Vips : \A u \in labels'[b] \ labels[b] : \A w \in Input :
       <<u, w>> \in Flow => w \in Seen' \/ Due(w)'
  /\ \/ \A w \in Seen' : w \in Seen
     \/ \E d \in Search!Successors(Seen) :
          d \in Seen' /\ \A w \in Seen' : w \in Seen \/ w = d

Advances == Progress /\ BlocksBegun' /\ OpaqueAlone'

(* The edges of the flow graph, by the kind of the instruction.             *)
LEMMA FlowFacts ==
  ASSUME NEW u \in Input, NEW w \in Input
  PROVE  <<u, w>> \in Flow <=>
           \/ code[u].kind \in {"plain", "jcc", "call"} /\ w = After(u)
           \/ code[u].kind \in {"jmp", "jcc"} /\ w = code[u].target
BY DEF Flow

(* Entering a block lifts nothing.                                          *)
LEMMA EnterAdvances == IInv /\ EnterBlock => Advances
<1> SUFFICES ASSUME IInv, EnterBlock PROVE Advances
  OBVIOUS
<1>f. PICK f : f = [Top EXCEPT !.phase = "sweep"]
  OBVIOUS
<1>1. /\ stack # <<>> /\ Top \in Frames /\ Top.phase = "enter" /\ Shape
      /\ stack' = SetTop(f) /\ UNCHANGED <<code, explored, labels, dest>>
  BY <1>f, TopOK DEF IInv, EnterBlock, Running, blockVars
<1>2. /\ f \in Frames /\ f.blk = Top.blk /\ f.vip = Top.vip
      /\ f.phase = "sweep"
  BY <1>1, <1>f DEF Frames, Phases
<1>3. \A b, v : Sweeping(b, v)' <=> Sweeping(b, v)
  BY <1>1, <1>2, SetTopEffect, SweepingTop
<1>4. \A d : Due(d)' <=> Due(d)
  BY <1>1, <1>2, SetTopEffect, DueTop
<1>5. Seen' = Seen
  BY <1>1, <1>3 DEF Seen
<1>6. Progress
  BY <1>1, <1>4, <1>5 DEF Progress
<1>7. BlocksBegun' /\ OpaqueAlone'
  BY <1>1, <1>3 DEF IInv, BlocksBegun, OpaqueAlone
<1> QED
  BY <1>6, <1>7 DEF Advances

(* Running off the input lifts nothing.                                     *)
LEMMA RunOffAdvances == IInv /\ RunOff => Advances
<1> SUFFICES ASSUME IInv, RunOff PROVE Advances
  OBVIOUS
<1>1. /\ stack # <<>> /\ Top.phase = "sweep" /\ ~IsValid(Top.vip) /\ Shape
      /\ stack' = Pop /\ UNCHANGED <<code, explored, labels, dest>>
  BY DEF IInv, RunOff, Running
<1>2. \A b, v : Sweeping(b, v) => ~IsValid(v)
  BY <1>1, SweepingTop
<1>3. \A b, v : ~Sweeping(b, v)'
  BY <1>1, PopEffect
<1>4. \A d : Due(d)' <=> Due(d)
  BY <1>1, PopEffect, DueTop
<1>5. Seen' = Seen
  BY <1>1, <1>2, <1>3 DEF Seen, Input
<1>6. Progress
  BY <1>1, <1>4, <1>5 DEF Progress
<1>7. BlocksBegun' /\ OpaqueAlone'
  BY <1>1, <1>2, <1>3 DEF IInv, BlocksBegun, OpaqueAlone
<1> QED
  BY <1>6, <1>7 DEF Advances

(* A plain instruction: its one successor is swept next.                    *)
LEMMA LiftPlainAdvances == IInv /\ LiftPlain => Advances
<1> SUFFICES ASSUME IInv, LiftPlain PROVE Advances
  OBVIOUS
<1>f. PICK f : f = [Top EXCEPT !.vip = After(Top.vip)]
  OBVIOUS
<1>1. /\ Lift({"plain"}) /\ Shape /\ stack' = SetTop(f)
      /\ UNCHANGED <<code, explored, dest>>
  BY <1>f DEF IInv, LiftPlain
<1>2. /\ stack # <<>> /\ Top \in Frames /\ FrameOK(Top)
      /\ Top.phase = "sweep" /\ code[Top.vip].kind = "plain"
      /\ Top.blk \in Vips /\ Top.vip \in Input /\ After(Top.vip) \in Vips
      /\ labels' = [labels EXCEPT ![Top.blk] = @ \cup {Top.vip}]
  BY <1>1, LiftFacts
<1>3. /\ f \in Frames /\ f.blk = Top.blk /\ f.vip = After(Top.vip)
      /\ f.phase = "sweep"
  BY <1>2, <1>f DEF Frames
<1>4. /\ \A b, v : Sweeping(b, v) <=> b = Top.blk /\ v = Top.vip
      /\ \A b, v : Sweeping(b, v)' <=> b = Top.blk /\ v = After(Top.vip)
  BY <1>1, <1>2, <1>3, SetTopEffect, SweepingTop
<1>5. \A d : Due(d)' <=> Due(d)
  BY <1>1, <1>2, <1>3, SetTopEffect, DueTop
<1>6. /\ labels'[Top.blk] = labels[Top.blk] \cup {Top.vip}
      /\ \A b \in Vips \ {Top.blk} : labels'[b] = labels[b]
  BY <1>1, <1>2 DEF Shape, TypeOK
<1>7. Top.vip \in Seen /\ \A w \in Seen : w \in Seen'
  BY <1>1, <1>2, <1>4, <1>6 DEF Seen
<1>8. /\ \A w \in Seen' : w \in Seen \/ w = After(Top.vip)
      /\ After(Top.vip) \in Input => After(Top.vip) \in Seen'
  BY <1>1, <1>2, <1>4, <1>6, <1>7 DEF Seen
<1>9. \A w \in Input : <<Top.vip, w>> \in Flow <=> w = After(Top.vip)
  BY <1>2, FlowFacts
<1>10. Progress
  <2>1. \/ \A w \in Seen' : w \in Seen
        \/ \E d \in Search!Successors(Seen) :
             d \in Seen' /\ \A w \in Seen' : w \in Seen \/ w = d
    <3>1. CASE After(Top.vip) \in Input
      BY <1>7, <1>8, <1>9, <3>1 DEF Search!Successors
    <3>2. CASE After(Top.vip) \notin Input
      BY <1>8, <3>2 DEF Seen
    <3> QED
      BY <3>1, <3>2
  <2>2. \A b \in Vips : \A u \in labels'[b] \ labels[b] : \A w \in Input :
          <<u, w>> \in Flow => w \in Seen' \/ Due(w)'
    BY <1>6, <1>8, <1>9
  <2>3. \A b \in Vips : labels[b] \subseteq labels'[b]
    BY <1>6
  <2> QED
    BY <1>1, <1>5, <1>7, <2>1, <2>2, <2>3 DEF Progress
<1>11. BlocksBegun' /\ OpaqueAlone'
  BY <1>1, <1>2, <1>4, <1>6 DEF IInv, BlocksBegun, OpaqueAlone, Shape, TypeOK
<1> QED
  BY <1>10, <1>11 DEF Advances

(* The actions that complete the block with a branch still to be followed. *)
LEMMA LiftToBranchAdvances ==
  ASSUME IInv, NEW kinds, Lift(kinds), NEW f,
         f = [Top EXCEPT !.vip = After(Top.vip), !.phase = "branch"],
         stack' = SetTop(f), code' = code, explored' = explored,
         NEW D \in SUBSET (Vips \cup {Opaque}), dest' = [dest EXCEPT ![Top.blk] = D],
         Opaque \in D => D = {Opaque},
         \A w \in Input : <<Top.vip, w>> \in Flow <=> w \in D
  PROVE  Advances
<1>1. Shape
  BY DEF IInv
<1>2. /\ stack # <<>> /\ Top \in Frames /\ FrameOK(Top)
      /\ Top.phase = "sweep"
      /\ Top.blk \in Vips /\ Top.vip \in Input /\ After(Top.vip) \in Vips
      /\ labels' = [labels EXCEPT ![Top.blk] = @ \cup {Top.vip}]
  BY <1>1, LiftFacts
<1>3. f \in Frames /\ f.blk = Top.blk /\ f.phase = "branch"
  BY <1>2 DEF Frames, Phases
<1>4. /\ dest'[Top.blk] = D
      /\ \A b \in Vips \ {Top.blk} : dest'[b] = dest[b]
      /\ labels'[Top.blk] = labels[Top.blk] \cup {Top.vip}
      /\ \A b \in Vips \ {Top.blk} : labels'[b] = labels[b]
  BY <1>1, <1>2 DEF Shape, TypeOK
<1>5. /\ \A b, v : Sweeping(b, v) <=> b = Top.blk /\ v = Top.vip
      /\ \A b, v : ~Sweeping(b, v)'
  BY <1>1, <1>2, <1>3, SetTopEffect, SweepingTop
<1>6. \A d : Due(d)' <=> Due(d) \/ d \in D
  BY <1>1, <1>2, <1>3, <1>4, SetTopEffect, DueTop
<1>7. /\ \A w \in Seen : w \in Seen'
      /\ \A w \in Seen' : w \in Seen
  BY <1>1, <1>2, <1>4, <1>5 DEF Seen
<1>8. Progress
  <2>1. \A b \in Vips : \A u \in labels'[b] \ labels[b] : \A w \in Input :
          <<u, w>> \in Flow => w \in Seen' \/ Due(w)'
    BY <1>4, <1>6
  <2>2. \A b \in Vips : labels[b] \subseteq labels'[b]
    BY <1>4
  <2>3. \A w \in Input :
          Due(w)' => Due(w) \/ \E b \in Vips : \E u \in labels'[b] : <<u, w>> \in Flow
    BY <1>2, <1>4, <1>6
  <2> QED
    BY <1>6, <1>7, <2>1, <2>2, <2>3 DEF Progress
<1>9. BlocksBegun'
  BY <1>1, <1>2, <1>4, <1>5 DEF IInv, BlocksBegun, Shape, TypeOK
<1>10. OpaqueAlone'
  BY <1>4 DEF IInv, OpaqueAlone
<1> QED
  BY <1>8, <1>9, <1>10 DEF Advances

(* A plain instruction before a leader: its successor becomes due.          *)
LEMMA LiftUpToLeaderAdvances == IInv /\ LiftUpToLeader => Advances
<1> SUFFICES ASSUME IInv, LiftUpToLeader PROVE Advances
  OBVIOUS
<1>f. PICK f : f = [Top EXCEPT !.vip = After(Top.vip), !.phase = "branch"]
  OBVIOUS
<1>1. /\ Lift({"plain"}) /\ Shape /\ stack' = SetTop(f) /\ code' = code
      /\ dest' = [dest EXCEPT ![Top.blk] = {After(Top.vip)}]
  BY <1>f DEF IInv, LiftUpToLeader
<1>2. /\ Top.vip \in Input /\ After(Top.vip) \in Vips
      /\ code[Top.vip].kind = "plain"
  BY <1>1, LiftFacts
<1>3. explored' = explored
  BY <1>1 DEF LiftUpToLeader, Fork, Shape, BlocksOK
<1>4. /\ {After(Top.vip)} \in SUBSET (Vips \cup {Opaque})
      /\ Opaque \notin {After(Top.vip)}
  BY <1>2, DescentAssumption
<1>5. \A w \in Input : <<Top.vip, w>> \in Flow <=> w \in {After(Top.vip)}
  BY <1>2, FlowFacts
<1> QED
  BY <1>f, <1>1, <1>3, <1>4, <1>5, LiftToBranchAdvances

(* A branch: its destinations become due.                                   *)
LEMMA LiftBranchAdvances == IInv /\ LiftBranch => Advances
<1> SUFFICES ASSUME IInv, LiftBranch PROVE Advances
  OBVIOUS
<1>f. PICK f : f = [Top EXCEPT !.vip = After(Top.vip), !.phase = "branch"]
  OBVIOUS
<1>1. /\ Lift({"jmp", "jcc", "opaque"}) /\ Shape /\ stack' = SetTop(f)
      /\ code' = code /\ explored' = explored
      /\ dest' = [dest EXCEPT ![Top.blk] = Destinations(Top.vip)]
  BY <1>f DEF IInv, LiftBranch
<1>2. /\ Top.vip \in Input /\ After(Top.vip) \in Vips
      /\ code[Top.vip].kind \in {"jmp", "jcc", "opaque"}
  BY <1>1, LiftFacts
<1>3. code[Top.vip].target \in Vips /\ Opaque \notin Vips
  BY <1>1, <1>2, DescentAssumption DEF Shape, TypeOK
<1>4. Destinations(Top.vip) \in SUBSET (Vips \cup {Opaque})
  BY <1>1, <1>2, InsnFacts DEF Shape, TypeOK
<1>5. Opaque \in Destinations(Top.vip) => Destinations(Top.vip) = {Opaque}
  BY <1>2, <1>3 DEF Destinations
<1>6. ASSUME NEW w \in Input
      PROVE  <<Top.vip, w>> \in Flow <=> w \in Destinations(Top.vip)
  <2>1. w # Opaque
    BY <1>3 DEF Input
  <2> QED
    BY <1>2, <2>1, FlowFacts DEF Destinations
<1> QED
  BY <1>f, <1>1, <1>4, <1>5, <1>6, LiftToBranchAdvances

(* A call: the return address is forked, and populated if it is new. *)
LEMMA CallAdvances == IInv /\ (LiftCall \/ LiftCallToExplored) => Advances
<1> SUFFICES ASSUME IInv, LiftCall \/ LiftCallToExplored PROVE Advances
  OBVIOUS
<1>f. PICK f : f = CallFrame
  OBVIOUS
<1>d. PICK d : d = After(Top.vip)
  OBVIOUS
<1>1. /\ Lift({"call"}) /\ Shape /\ code' = code
      /\ dest' = [dest EXCEPT ![Top.blk] = {d}]
      /\ explored' = explored \cup {d}
  BY <1>d DEF IInv, LiftCall, LiftCallToExplored, CallReturn, Fork
<1>2. /\ stack # <<>> /\ Top \in Frames /\ FrameOK(Top) /\ Top.phase = "sweep"
      /\ code[Top.vip].kind = "call"
      /\ Top.blk \in Vips /\ Top.vip \in Input /\ d \in Vips
      /\ labels' = [labels EXCEPT ![Top.blk] = @ \cup {Top.vip}]
  <2>1. /\ stack # <<>> /\ Top \in Frames /\ FrameOK(Top) /\ Top.phase = "sweep"
        /\ code[Top.vip].kind \in {"call"}
        /\ Top.blk \in Vips /\ Top.vip \in Input /\ After(Top.vip) \in Vips
        /\ labels' = [labels EXCEPT ![Top.blk] = @ \cup {Top.vip}]
    BY <1>1, LiftFacts
  <2> QED
    BY <1>d, <2>1
<1>3. f \in Frames /\ f.blk = Top.blk /\ f.phase = "follow" /\ f.todo = {}
  BY <1>2, <1>f, <1>d DEF CallFrame, Frames, Phases
<1>4. /\ labels'[Top.blk] = labels[Top.blk] \cup {Top.vip}
      /\ \A b \in Vips \ {Top.blk} : labels'[b] = labels[b]
  BY <1>1, <1>2 DEF Shape, TypeOK
<1>5. \A b, v : Sweeping(b, v) <=> b = Top.blk /\ v = Top.vip
  BY <1>1, <1>2, SweepingTop
<1>6. \/ d \notin explored /\ stack' = Push(f, d)
      \/ d \in explored /\ stack' = SetTop(f)
  BY <1>f, <1>d DEF LiftCall, LiftCallToExplored, ForksNew
<1>7. /\ \A b, v : Sweeping(b, v)' <=> d \notin explored /\ b = d /\ v = d
      /\ \A e : Due(e)' <=> Due(e)
  <2>1. \A e : Due(e) <=> CallersDue(e)
    BY <1>1, <1>2, DueTop
  <2>2. CASE d \notin explored /\ stack' = Push(f, d)
    BY <1>1, <1>2, <1>3, <2>1, <2>2, PushEffect
  <2>3. CASE d \in explored /\ stack' = SetTop(f)
    BY <1>1, <1>2, <1>3, <2>1, <2>3, SetTopEffect
  <2> QED
    BY <1>6, <2>2, <2>3
<1>8. Top.vip \in Seen /\ \A w \in Seen : w \in Seen'
  BY <1>1, <1>2, <1>4, <1>5 DEF Seen
<1>9. /\ \A w \in Seen' : w \in Seen \/ w = d
      /\ d \in Input => d \in Seen'
  BY <1>1, <1>2, <1>4, <1>5, <1>7, <1>8 DEF Seen
<1>10. \A w \in Input : <<Top.vip, w>> \in Flow <=> w = d
  BY <1>2, <1>d, FlowFacts
<1>11. Progress
  <2>1. \/ \A w \in Seen' : w \in Seen
        \/ \E e \in Search!Successors(Seen) :
             e \in Seen' /\ \A w \in Seen' : w \in Seen \/ w = e
    <3>1. CASE d \in Input
      BY <1>8, <1>9, <1>10, <3>1 DEF Search!Successors
    <3>2. CASE d \notin Input
      BY <1>9, <3>2 DEF Seen
    <3> QED
      BY <3>1, <3>2
  <2>2. \A b \in Vips : \A u \in labels'[b] \ labels[b] : \A w \in Input :
          <<u, w>> \in Flow => w \in Seen' \/ Due(w)'
    BY <1>4, <1>9, <1>10
  <2>3. \A b \in Vips : labels[b] \subseteq labels'[b]
    BY <1>4
  <2> QED
    BY <1>1, <1>7, <1>8, <2>1, <2>2, <2>3 DEF Progress
<1>12. BlocksBegun'
  BY <1>1, <1>2, <1>4, <1>5, <1>7 DEF IInv, BlocksBegun, Shape, TypeOK
<1>13. OpaqueAlone'
  <2>1. d # Opaque
    BY <1>2, DescentAssumption
  <2> QED
    BY <1>1, <1>2, <2>1 DEF IInv, OpaqueAlone, Shape, TypeOK
<1> QED
  BY <1>11, <1>12, <1>13 DEF Advances

(* Bytes that decode to nothing have no successor.                          *)
LEMMA LiftInvalidAdvances == IInv /\ LiftInvalid => Advances
<1> SUFFICES ASSUME IInv, LiftInvalid PROVE Advances
  OBVIOUS
<1>1. /\ Lift({"invalid"}) /\ Shape /\ stack' = Pop
      /\ UNCHANGED <<code, explored, dest>>
  BY DEF IInv, LiftInvalid
<1>2. /\ stack # <<>> /\ Top.phase = "sweep" /\ code[Top.vip].kind = "invalid"
      /\ Top.blk \in Vips /\ Top.vip \in Input
      /\ labels' = [labels EXCEPT ![Top.blk] = @ \cup {Top.vip}]
  BY <1>1, LiftFacts
<1>3. /\ \A b, v : Sweeping(b, v) <=> b = Top.blk /\ v = Top.vip
      /\ \A b, v : ~Sweeping(b, v)'
  BY <1>1, <1>2, PopEffect, SweepingTop
<1>4. \A d : Due(d)' <=> Due(d)
  BY <1>1, <1>2, PopEffect, DueTop
<1>5. /\ labels'[Top.blk] = labels[Top.blk] \cup {Top.vip}
      /\ \A b \in Vips \ {Top.blk} : labels'[b] = labels[b]
  BY <1>1, <1>2 DEF Shape, TypeOK
<1>6. /\ \A w \in Seen : w \in Seen'
      /\ \A w \in Seen' : w \in Seen
  BY <1>1, <1>2, <1>3, <1>5 DEF Seen
<1>7. \A w \in Input : <<Top.vip, w>> \notin Flow
  BY <1>2, FlowFacts
<1>8. Progress
  <2>1. \A b \in Vips : \A u \in labels'[b] \ labels[b] : \A w \in Input :
          <<u, w>> \in Flow => w \in Seen' \/ Due(w)'
    BY <1>5, <1>7
  <2>2. \A b \in Vips : labels[b] \subseteq labels'[b]
    BY <1>5
  <2> QED
    BY <1>1, <1>4, <1>6, <2>1, <2>2 DEF Progress
<1>9. BlocksBegun' /\ OpaqueAlone'
  BY <1>1, <1>2, <1>3, <1>5 DEF IInv, BlocksBegun, OpaqueAlone, Shape, TypeOK
<1> QED
  BY <1>8, <1>9 DEF Advances

(* A destination nobody knows is not an address of the input.               *)
LEMMA ExitOpaqueAdvances == IInv /\ ExitOpaque => Advances
<1> SUFFICES ASSUME IInv, ExitOpaque PROVE Advances
  OBVIOUS
<1>1. /\ stack # <<>> /\ Top.phase = "branch" /\ Shape /\ stack' = Pop
      /\ Top.blk \in Vips /\ dest[Top.blk] = {Opaque}
      /\ UNCHANGED <<code, explored, labels, dest>>
  <2>1. stack # <<>> /\ Shape
    BY DEF ExitOpaque, Running, IInv
  <2>2. Top.blk \in Vips
    BY <2>1, TopOK DEF Frames
  <2> QED
    BY <2>1, <2>2 DEF ExitOpaque, Running, IInv, OpaqueAlone
<1>2. \A b, v : ~Sweeping(b, v) /\ ~Sweeping(b, v)'
  BY <1>1, PopEffect, SweepingTop
<1>3. \A w \in Input : Due(w)' <=> Due(w)
  <2>1. \A w \in Input : w # Opaque
    BY DescentAssumption DEF Input
  <2> QED
    BY <1>1, <2>1, PopEffect, DueTop
<1>4. Seen' = Seen
  BY <1>1, <1>2 DEF Seen
<1>5. Progress
  BY <1>1, <1>3, <1>4 DEF Progress
<1>6. BlocksBegun' /\ OpaqueAlone'
  BY <1>1, <1>2 DEF IInv, BlocksBegun, OpaqueAlone
<1> QED
  BY <1>5, <1>6 DEF Advances

(* Resolving a branch turns its destinations into work, all of them.        *)
LEMMA ResolveAdvances == IInv /\ Resolve => Advances
<1> SUFFICES ASSUME IInv, Resolve PROVE Advances
  OBVIOUS
<1>f. PICK f : f = [Top EXCEPT !.phase = "follow", !.todo = dest[Top.blk]]
  OBVIOUS
<1>1. /\ stack # <<>> /\ Top.phase = "branch" /\ Shape /\ stack' = SetTop(f)
      /\ UNCHANGED <<code, explored, labels, dest>>
  BY <1>f DEF IInv, Resolve, Running, blockVars
<1>2. Top \in Frames /\ dest[Top.blk] \in SUBSET Vips
  <2>1. Top \in Frames /\ Top.blk \in Vips
    BY <1>1, TopOK DEF Frames
  <2> QED
    BY <1>1, <2>1 DEF Resolve, Shape, TypeOK
<1>3. f \in Frames /\ f.phase = "follow" /\ f.todo = dest[Top.blk]
  BY <1>2, <1>f DEF Frames, Phases
<1>4. \A b, v : ~Sweeping(b, v) /\ ~Sweeping(b, v)'
  BY <1>1, <1>3, SetTopEffect, SweepingTop
<1>5. \A w : Due(w)' <=> Due(w)
  BY <1>1, <1>3, SetTopEffect, DueTop
<1>6. Seen' = Seen
  BY <1>1, <1>4 DEF Seen
<1>7. Progress
  BY <1>1, <1>5, <1>6 DEF Progress
<1>8. BlocksBegun' /\ OpaqueAlone'
  BY <1>1, <1>4 DEF IInv, BlocksBegun, OpaqueAlone
<1> QED
  BY <1>7, <1>8 DEF Advances

(* Following one destination, whatever becomes of it. *)
LEMMA FollowAdvances ==
  ASSUME IInv, NEW d \in Vips,
         FollowExplored(d) \/ FollowNew(d) \/ FollowOut(d)
  PROVE  Advances
<1>f. PICK f : f = [Top EXCEPT !.todo = @ \ {d}]
  OBVIOUS
<1>1. /\ Running("follow") /\ Shape /\ d \in Top.todo
      /\ UNCHANGED <<code, labels, dest>> /\ explored' = explored \cup {d}
  BY DEF IInv, FollowExplored, FollowNew, FollowOut, Fork
<1>2. /\ stack # <<>> /\ Top \in Frames /\ Top.phase = "follow"
      /\ f \in Frames /\ f.phase = "follow" /\ f.todo = Top.todo \ {d}
  BY <1>1, <1>f, FollowFacts DEF Frames
<1>3. /\ \A b, v : ~Sweeping(b, v)
      /\ \A e : Due(e) <=> CallersDue(e) \/ e \in Top.todo
  BY <1>1, <1>2, SweepingTop, DueTop
<1>4. \/ stack' = Push(f, d) /\ d \notin explored
      \/ stack' = SetTop(f) /\ (d \in explored \/ ~IsValid(d))
  BY <1>f DEF FollowExplored, FollowNew, FollowOut, ForksNew
<1>5. /\ \A e : Due(e)' <=> CallersDue(e) \/ e \in Top.todo \ {d}
      /\ \A b, v : Sweeping(b, v)' => b = d /\ v = d
      /\ IsValid(d) => d \in explored \/ Sweeping(d, d)'
  <2>1. CASE stack' = Push(f, d) /\ d \notin explored
    BY <1>1, <1>2, <2>1, PushEffect
  <2>2. CASE stack' = SetTop(f) /\ (d \in explored \/ ~IsValid(d))
    BY <1>1, <1>2, <2>2, SetTopEffect
  <2> QED
    BY <1>4, <2>1, <2>2
<1>6. /\ \A w \in Seen : w \in Seen'
      /\ \A w \in Seen' : w \in Seen \/ w = d
      /\ d \in Input => d \in Seen'
  BY <1>1, <1>3, <1>5 DEF Seen
<1>7. d \in Input => d \in Search!Successors(Seen)
  <2>1. SUFFICES ASSUME d \in Input PROVE d \in Search!Successors(Seen)
    OBVIOUS
  <2>2. PICK b \in Vips : \E u \in labels[b] : <<u, d>> \in Flow
    BY <1>1, <1>3, <2>1 DEF IInv, DueIsReachable
  <2>3. labels[b] \subseteq Seen
    BY <1>1, <2>2 DEF Seen, Shape, TypeOK
  <2> QED
    BY <2>1, <2>2, <2>3 DEF Search!Successors
<1>8. Progress
  <2>1. \/ \A w \in Seen' : w \in Seen
        \/ \E e \in Search!Successors(Seen) :
             e \in Seen' /\ \A w \in Seen' : w \in Seen \/ w = e
    <3>1. CASE d \in Input
      BY <1>6, <1>7, <3>1
    <3>2. CASE d \notin Input
      BY <1>6, <3>2 DEF Seen
    <3> QED
      BY <3>1, <3>2
  <2>2. \A w \in Input : Due(w) => w \in Seen' \/ Due(w)'
    BY <1>3, <1>5, <1>6
  <2>3. \A w \in Input : Due(w)' => Due(w)
    BY <1>3, <1>5
  <2> QED
    BY <1>1, <1>6, <2>1, <2>2, <2>3 DEF Progress
<1>9. BlocksBegun'
  BY <1>1, <1>3, <1>5 DEF IInv, BlocksBegun
<1>10. OpaqueAlone'
  BY <1>1 DEF IInv, OpaqueAlone
<1> QED
  BY <1>8, <1>9, <1>10 DEF Advances

(* An activation returns with nothing left to follow.                       *)
LEMMA ReturnAdvances == IInv /\ Return => Advances
<1> SUFFICES ASSUME IInv, Return PROVE Advances
  OBVIOUS
<1>1. /\ stack # <<>> /\ Top.phase = "follow" /\ Top.todo = {} /\ Shape
      /\ stack' = Pop /\ UNCHANGED <<code, explored, labels, dest>>
  BY DEF IInv, Return, Running, blockVars
<1>2. \A b, v : ~Sweeping(b, v) /\ ~Sweeping(b, v)'
  BY <1>1, PopEffect, SweepingTop
<1>3. \A w : Due(w)' <=> Due(w)
  BY <1>1, PopEffect, DueTop
<1>4. Seen' = Seen
  BY <1>1, <1>2 DEF Seen
<1>5. Progress
  BY <1>1, <1>3, <1>4 DEF Progress
<1>6. BlocksBegun' /\ OpaqueAlone'
  BY <1>1, <1>2 DEF IInv, BlocksBegun, OpaqueAlone
<1> QED
  BY <1>5, <1>6 DEF Advances

(* Steps that leave the blocks and the activations alone. *)
LEMMA QuietAdvances ==
  IInv /\ UNCHANGED <<code, explored, labels, dest, stack>> => Advances
<1> SUFFICES ASSUME IInv, UNCHANGED <<code, explored, labels, dest, stack>>
             PROVE  Advances
  OBVIOUS
<1>1. \A b, v : Sweeping(b, v)' <=> Sweeping(b, v)
  BY DEF Sweeping
<1>2. \A d : Due(d)' <=> Due(d)
  BY DEF Due
<1>3. Seen' = Seen
  BY <1>1 DEF Seen
<1>4. Progress
  BY <1>2, <1>3 DEF Progress
<1>5. BlocksBegun' /\ OpaqueAlone'
  BY <1>1 DEF IInv, BlocksBegun, OpaqueAlone
<1> QED
  BY <1>4, <1>5 DEF Advances

(* Every step advances the search: one case per action.                     *)
LEMMA StepAdvances == IInv /\ [Next]_vars => Advances
<1> SUFFICES ASSUME IInv, [Next]_vars PROVE Advances
  OBVIOUS
<1>1. CASE FailGetAt \/ Finish \/ UNCHANGED vars
  BY <1>1, QuietAdvances DEF FailGetAt, Finish, vars, blockVars
<1>2. CASE Follow
  BY <1>2, FollowAdvances DEF Follow
<1> QED
  BY <1>1, <1>2, EnterAdvances, RunOffAdvances, LiftPlainAdvances,
     LiftUpToLeaderAdvances, LiftBranchAdvances, CallAdvances,
     LiftInvalidAdvances, ExitOpaqueAdvances, ResolveAdvances, ReturnAdvances
     DEF Next

(***************************************************************************)
(* The inductive invariant, and what follows from it.                      *)
(***************************************************************************)
LEMMA InvInit == Init => IInv
<1> SUFFICES ASSUME Init PROVE IInv
  OBVIOUS
<1>1. Shape
  BY ShapeInit
<1>2. /\ stack = <<NewFrame(EntryPoint)>> /\ EntryPoint \in Vips
      /\ DOMAIN stack = {1} /\ stack[1] = NewFrame(EntryPoint)
  BY DescentAssumption DEF Init, Input
<1>3. /\ \A d : ~Due(d)
      /\ Sweeping(EntryPoint, EntryPoint)
  BY <1>2 DEF Due, Sweeping, NewFrame
<1>4. \A b \in Vips : labels[b] = {} /\ dest[b] = {}
  BY DEF Init
<1>5. NothingForgotten /\ BlocksBegun /\ DueIsReachable /\ OpaqueAlone
  BY <1>3, <1>4 DEF NothingForgotten, BlocksBegun, DueIsReachable,
     OpaqueAlone, Init
<1>6. StopsEmpty
  BY DEF Init, StopsEmpty
<1> QED
  BY <1>1, <1>5, <1>6 DEF IInv

(* Every step keeps the invariant.                                          *)
LEMMA InvStep == IInv /\ [Next]_vars => IInv'
<1> SUFFICES ASSUME IInv, [Next]_vars PROVE IInv'
  OBVIOUS
<1>1. Shape'
  BY ShapeStep DEF IInv
<1>2. Advances
  BY StepAdvances
<1>3. Flow' = Flow
  BY <1>2 DEF Flow, After, Advances, Progress
<1>4. \A b \in Vips : labels[b] \in SUBSET Input /\ labels'[b] \in SUBSET Input
  BY <1>1 DEF IInv, Shape, TypeOK
<1>5. NothingForgotten'
  <2>1. ASSUME NEW b \in Vips, NEW u \in labels'[b], NEW w \in Input,
               <<u, w>> \in Flow
        PROVE  w \in Seen' \/ Due(w)'
    <3>1. CASE u \in labels[b]
      BY <1>2, <2>1, <3>1 DEF IInv, NothingForgotten, Advances, Progress
    <3>2. CASE u \notin labels[b]
      BY <1>2, <2>1, <3>2 DEF Advances, Progress
    <3> QED
      BY <3>1, <3>2
  <2> QED
    BY <1>3, <2>1 DEF NothingForgotten
<1>6. DueIsReachable'
  <2>1. ASSUME NEW w \in Input, Due(w)'
        PROVE  \E b \in Vips : \E u \in labels'[b] : <<u, w>> \in Flow
    BY <1>2, <2>1 DEF IInv, DueIsReachable, Advances, Progress
  <2> QED
    BY <1>3, <2>1 DEF DueIsReachable
<1>7. StopsEmpty'
  <2>1. CASE Finish
    BY <2>1 DEF Finish, StopsEmpty
  <2>2. CASE status # "running" /\ UNCHANGED <<status, stack>>
    BY <2>2 DEF IInv, StopsEmpty
  <2>3. CASE status' # "done"
    BY <2>3 DEF StopsEmpty
  <2>4. \/ Finish \/ status' # "done"
        \/ status # "running" /\ UNCHANGED <<status, stack>>
    BY DEF Next, vars, EnterBlock, FailGetAt, RunOff, LiftPlain, LiftUpToLeader,
       LiftBranch, LiftCall, LiftCallToExplored, CallReturn, LiftInvalid, Lift,
       ExitOpaque, Resolve, Follow, FollowExplored, FollowNew, FollowOut,
       Return, Finish, Running
  <2> QED
    BY <2>1, <2>2, <2>3, <2>4
<1> QED
  BY <1>1, <1>2, <1>5, <1>6, <1>7 DEF IInv, Advances

(* The temporal step.                                                       *)
LEMMA InvAlways == Spec => []IInv
<1> QED
  BY InvInit, InvStep, PTL DEF Spec

(* explore() does not return before everything the program can reach from   *)
(* what was lifted is lifted too: no destination of a branch, no return     *)
(* address and no next instruction is dropped on the way back through the   *)
(* activations of populate() (recursive_descent.hpp:113-169).               *)
THEOREM NothingIsMissed == Spec => []ReturnsComplete
<1>1. IInv => ReturnsComplete
  <2> SUFFICES ASSUME IInv, status = "done"
               PROVE  Search!Closed(Seen) /\ Seen = Lifted
    BY DEF ReturnsComplete
  <2>1. stack = <<>> /\ DOMAIN stack = {}
    BY DEF IInv, StopsEmpty
  <2>2. /\ \A d : ~Due(d)
        /\ \A b, v : ~Sweeping(b, v)
    BY <2>1 DEF Due, Sweeping
  <2>3. \A b \in Vips : labels[b] \in SUBSET Input
    BY DEF IInv, Shape, TypeOK
  <2>4. explored \subseteq Vips
    BY DEF IInv, Shape, TypeOK
  <2>5. Seen = Lifted
    BY <2>2, <2>3, <2>4 DEF Seen, Lifted, IInv, BlocksBegun, Input
  <2>6. Search!Closed(Seen)
    BY <2>2, <2>5 DEF Search!Closed, Search!Successors, Lifted, IInv,
       NothingForgotten
  <2> QED
    BY <2>5, <2>6
<1> QED
  BY <1>1, InvAlways, PTL

(* The descent is a search of the control-flow graph: every step of         *)
(* populate() reaches one more successor of an address reached before, or   *)
(* nothing new, and explore() returns when the search is exhausted.         *)
THEOREM DescentSearches == Spec => SearchesFlow
<1>1. Init => Search!Init
  <2> SUFFICES ASSUME Init PROVE Search!Init
    OBVIOUS
  <2>1. EntryPoint \in Input /\ EntryPoint \in Vips
    BY DescentAssumption DEF Input
  <2>2. stack = <<NewFrame(EntryPoint)>> /\ DOMAIN stack = {1}
        /\ stack[1] = NewFrame(EntryPoint)
    BY <2>1 DEF Init
  <2>3. \A b, v : Sweeping(b, v) => v = EntryPoint
    BY <2>2 DEF Sweeping, NewFrame
  <2>4. Seen = {EntryPoint}
    BY <2>1, <2>3 DEF Seen, Init
  <2> QED
    BY <2>4 DEF Search!Init, Init, Flow
<1>2. ASSUME IInv, IInv', [Next]_vars PROVE [Search!Next]_(Search!vars)
  <2>1. Advances
    BY <1>2, StepAdvances
  <2>2. Flow' = Flow
    BY <2>1 DEF Flow, After, Advances, Progress
  <2>3. CASE Finish
    <3>1. stack = <<>> /\ DOMAIN stack = {}
      BY <2>3 DEF Finish
    <3>2. /\ \A d : ~Due(d)
          /\ \A b, v : ~Sweeping(b, v)
      BY <3>1 DEF Due, Sweeping
    <3>3. Seen' = Seen
      BY <2>3, <3>2 DEF Finish, Seen, Sweeping, blockVars
    <3>4. \A b \in Vips : labels[b] \in SUBSET Input
      BY <1>2 DEF IInv, Shape, TypeOK
    <3>5. Search!Closed(Seen)
      <4>1. \A v \in Seen : \E b \in Vips : v \in labels[b]
        BY <1>2, <3>2 DEF IInv, BlocksBegun, Seen, Shape, TypeOK, Input
      <4> QED
        BY <1>2, <3>2, <4>1 DEF Search!Closed, Search!Successors, IInv,
           NothingForgotten
    <3> QED
      BY <2>2, <2>3, <3>3, <3>5 DEF Search!Next, Search!Finish, Finish
  <2>4. CASE ~Finish
    <3>1. (status' = "done") <=> (status = "done")
      BY <1>2, <2>4 DEF Next, vars, EnterBlock, FailGetAt, RunOff, LiftPlain,
         LiftUpToLeader, LiftBranch, LiftCall, LiftCallToExplored, CallReturn,
         LiftInvalid, Lift, ExitOpaque, Resolve, Follow, FollowExplored,
         FollowNew, FollowOut, Return, Running
    <3>2. CASE \A w \in Seen' : w \in Seen
      <4>1. Seen' = Seen
        BY <2>1, <3>2 DEF Advances, Progress
      <4> QED
        BY <2>2, <3>1, <4>1 DEF Search!vars
    <3>3. ASSUME NEW d \in Search!Successors(Seen), d \in Seen',
                 \A w \in Seen' : w \in Seen \/ w = d
          PROVE  [Search!Next]_(Search!vars)
      <4>1. Seen' = Seen \cup {d}
        BY <2>1, <3>3 DEF Advances, Progress
      <4>2. CASE status = "done"
        <5>1. UNCHANGED vars
          BY <1>2, <2>4, <4>2 DEF Next, EnterBlock, FailGetAt, RunOff,
             LiftPlain, LiftUpToLeader, LiftBranch, LiftCall,
             LiftCallToExplored, CallReturn, LiftInvalid, Lift, ExitOpaque,
             Resolve, Follow, FollowExplored, FollowNew, FollowOut, Return,
             Running
        <5>2. Seen' = Seen
          BY <5>1 DEF vars, Seen, Sweeping
        <5> QED
          BY <2>2, <3>1, <5>2 DEF Search!vars
      <4>3. CASE status # "done"
        BY <2>2, <3>1, <3>3, <4>1, <4>3 DEF Search!Next, Search!Discover
      <4> QED
        BY <4>2, <4>3
    <3> QED
      BY <2>1, <3>2, <3>3 DEF Advances, Progress
  <2> QED
    BY <2>3, <2>4
<1>3. Spec => []IInv
  BY InvAlways
<1>4. Spec => Search!Spec
  BY <1>1, <1>2, <1>3, PTL DEF Spec, Search!Spec
<1> QED
  BY <1>4 DEF SearchesFlow

(***************************************************************************)
(* explore() cannot go on for ever.                                        *)
(***************************************************************************)
Distances == [1 .. 5 -> Nat]

(* Ways of coming closer, by the number that decides.                       *)
LEMMA CloserBy ==
  ASSUME NEW d, NEW e,
         \/ d[1] < e[1]
         \/ d[1] = e[1] /\ d[2] < e[2]
         \/ d[1] = e[1] /\ d[2] = e[2] /\ d[3] < e[3]
         \/ d[1] = e[1] /\ d[2] = e[2] /\ d[3] = e[3] /\ d[4] < e[4]
         \/ d[1] = e[1] /\ d[2] = e[2] /\ d[3] = e[3] /\ d[4] = e[4]
            /\ d[5] < e[5]
  PROVE  Closer(d, e)
<1>1. /\ 1 .. 0 = {} /\ 1 .. 1 = {1} /\ 1 .. 2 = {1, 2} /\ 1 .. 3 = {1, 2, 3}
      /\ 1 .. 4 = {1, 2, 3, 4} /\ 1 .. 5 = {1, 2, 3, 4, 5}
  BY SMT
<1>2. 1 - 1 = 0 /\ 2 - 1 = 1 /\ 3 - 1 = 2 /\ 4 - 1 = 3 /\ 5 - 1 = 4
  BY SMT
<1>3. CASE d[1] < e[1]
  <2>1. 1 \in 1 .. 5 /\ \A j \in 1 .. 1 - 1 : d[j] = e[j]
    BY <1>1, <1>2, <1>3
  <2> QED
    BY <2>1, <1>3, Zenon DEF Closer
<1>4. CASE d[1] = e[1] /\ d[2] < e[2]
  <2>1. 2 \in 1 .. 5 /\ \A j \in 1 .. 2 - 1 : d[j] = e[j]
    BY <1>1, <1>2, <1>4
  <2> QED
    BY <2>1, <1>4, Zenon DEF Closer
<1>5. CASE d[1] = e[1] /\ d[2] = e[2] /\ d[3] < e[3]
  <2>1. 3 \in 1 .. 5 /\ \A j \in 1 .. 3 - 1 : d[j] = e[j]
    BY <1>1, <1>2, <1>5
  <2> QED
    BY <2>1, <1>5, Zenon DEF Closer
<1>6. CASE d[1] = e[1] /\ d[2] = e[2] /\ d[3] = e[3] /\ d[4] < e[4]
  <2>1. 4 \in 1 .. 5 /\ \A j \in 1 .. 4 - 1 : d[j] = e[j]
    BY <1>1, <1>2, <1>6
  <2> QED
    BY <2>1, <1>6, Zenon DEF Closer
<1>7. CASE /\ d[1] = e[1] /\ d[2] = e[2] /\ d[3] = e[3] /\ d[4] = e[4]
           /\ d[5] < e[5]
  <2>1. 5 \in 1 .. 5 /\ \A j \in 1 .. 5 - 1 : d[j] = e[j]
    BY <1>1, <1>2, <1>7
  <2> QED
    BY <2>1, <1>7, Zenon DEF Closer
<1> QED
  BY <1>3, <1>4, <1>5, <1>6, <1>7

(* Sets of addresses are finite. *)
LEMMA VipsFinite ==
  ASSUME NEW S \in SUBSET Vips
  PROVE  IsFiniteSet(S) /\ Cardinality(S) \in Nat
<1>1. IsFiniteSet(Vips)
  BY DescentAssumption, FS_Interval DEF Vips
<1> QED
  BY <1>1, FS_Subset, FS_CardinalityType

(* Taking an element away makes such a set smaller.                         *)
LEMMA LessByOne ==
  ASSUME NEW S \in SUBSET Vips, NEW x \in S
  PROVE  Cardinality(S \ {x}) < Cardinality(S)
<1>1. IsFiniteSet(S) /\ Cardinality(S) \in Nat
  BY VipsFinite
<1>2. Cardinality(S \ {x}) = Cardinality(S) - 1
  BY <1>1, FS_RemoveElement
<1> QED
  BY <1>1, <1>2

(* The five numbers are natural. *)
LEMMA DistanceType == TypeOK => Distance \in Distances
<1> SUFFICES ASSUME TypeOK PROVE Distance \in Distances
  OBVIOUS
<1>1. Cardinality(Vips \ explored) \in Nat
  BY VipsFinite
<1>2. stack \in Seq(Frames) /\ Len(stack) \in Nat
  BY DEF TypeOK
<1>3. ASSUME stack # <<>> PROVE PhasesLeft[Top.phase] \in Nat /\ PartLeft(Top) \in Nat
  <2>1. Top \in Frames
    BY <1>2, <1>3, TopFacts
  <2>2. Top.phase \in Phases /\ Top.vip \in 0 .. MaxVip /\ Top.todo \in SUBSET Vips
    BY <2>1 DEF Frames, Vips
  <2>3. PhasesLeft[Top.phase] \in Nat
    BY <2>2 DEF PhasesLeft, Phases
  <2>4. Cardinality(Top.todo) \in Nat
    BY <2>2, VipsFinite
  <2>5. MaxVip - Top.vip \in Nat
    BY <2>2, DescentAssumption
  <2> QED
    BY <2>3, <2>4, <2>5 DEF PartLeft
<1> DEFINE a == IF status = "running" THEN 1 ELSE 0
           b == Cardinality(Vips \ explored)
           c == Len(stack)
           d == IF stack = <<>> THEN 0 ELSE PhasesLeft[Top.phase]
           e == IF stack = <<>> THEN 0 ELSE PartLeft(Top)
<1>4. a \in Nat /\ b \in Nat /\ c \in Nat /\ d \in Nat /\ e \in Nat
  BY <1>1, <1>2, <1>3
<1>5. Distance = <<a, b, c, d, e>>
  BY DEF Distance
<1> HIDE DEF a, b, c, d, e
<1> QED
  BY <1>4, <1>5 DEF Distances

(* explore() ends. *)
LEMMA EndingIsCloser ==
  ASSUME status = "running", status' # "running"
  PROVE  Closer(Distance', Distance)
<1>1. Distance'[1] = 0 /\ Distance[1] = 1
  BY DEF Distance
<1> QED
  BY <1>1, CloserBy

(* A block is made. *)
LEMMA MakingIsCloser ==
  ASSUME TypeOK, status' = status,
         NEW d \in Vips \ explored, explored' = explored \cup {d}
  PROVE  Closer(Distance', Distance)
<1>1. PICK u : u = Vips \ explored
  OBVIOUS
<1>2. u \in SUBSET Vips /\ d \in u /\ (Vips \ explored') = u \ {d}
  BY <1>1
<1>3. Cardinality(u \ {d}) < Cardinality(u)
  BY <1>2, LessByOne
<1>4. Cardinality(Vips \ explored') < Cardinality(Vips \ explored)
  BY <1>1, <1>2, <1>3, Zenon
<1>5. /\ Distance'[1] = Distance[1]
      /\ Distance[2] = Cardinality(Vips \ explored)
      /\ Distance'[2] = Cardinality(Vips \ explored')
  BY DEF Distance
<1> QED
  BY <1>4, <1>5, CloserBy

(* An activation returns. *)
LEMMA ReturningIsCloser ==
  ASSUME TypeOK, stack # <<>>, status' = status, explored' = explored,
         stack' = Pop
  PROVE  Closer(Distance', Distance)
<1>1. Len(stack') = Len(stack) - 1 /\ Len(stack) \in Nat
  BY PopFacts DEF TypeOK
<1>2. /\ Distance'[1] = Distance[1] /\ Distance'[2] = Distance[2]
      /\ Distance[3] = Len(stack) /\ Distance'[3] = Len(stack')
  BY DEF Distance
<1> QED
  BY <1>1, <1>2, CloserBy

(* The innermost activation comes to a later phase, or gets on with its.    *)
LEMMA WorkingIsCloser ==
  ASSUME TypeOK, stack # <<>>, status' = status, explored' = explored,
         NEW f \in Frames, stack' = SetTop(f),
         \/ PhasesLeft[f.phase] < PhasesLeft[Top.phase]
         \/ f.phase = Top.phase /\ PartLeft(f) < PartLeft(Top)
  PROVE  Closer(Distance', Distance)
<1>1. /\ Len(stack') = Len(stack) /\ stack' # <<>>
      /\ Top' = f
  BY SetTopFacts, TopFacts DEF TypeOK, Top
<1>2. PartLeft(Top)' = PartLeft(f)
  BY <1>1 DEF PartLeft
<1>3. /\ Distance'[1] = Distance[1] /\ Distance'[2] = Distance[2]
      /\ Distance'[3] = Distance[3]
  BY <1>1 DEF Distance
<1>4. Distance[4] = PhasesLeft[Top.phase] /\ Distance[5] = PartLeft(Top)
  BY DEF Distance
<1>5. Distance'[4] = PhasesLeft'[f.phase] /\ PhasesLeft' = PhasesLeft
  BY <1>1 DEF Distance, PhasesLeft
<1>6. Distance'[5] = PartLeft(f)
  BY <1>1, <1>2 DEF Distance
<1> QED
  BY <1>3, <1>4, <1>5, <1>6, CloserBy

(* Every action takes one of these ways.                                    *)
LEMMA ActionsAreCloser == TypeOK /\ Next => Closer(Distance', Distance)
<1> SUFFICES ASSUME TypeOK, Next PROVE Closer(Distance', Distance)
  OBVIOUS
<1>top. ASSUME NEW p \in Phases, Running(p)
        PROVE  /\ status = "running" /\ stack # <<>> /\ Top \in Frames
               /\ Top.phase = p /\ Top.vip \in Vips /\ Top.todo \in SUBSET Vips
  BY <1>top, TopFacts DEF Running, Frames, TypeOK
<1>lift. ASSUME NEW kinds, Lift(kinds)
         PROVE  /\ status = "running" /\ stack # <<>> /\ Top \in Frames
                /\ Top.phase = "sweep" /\ Top.vip \in Vips
                /\ After(Top.vip) \in Vips /\ Top.vip < After(Top.vip)
  <2>1. /\ status = "running" /\ stack # <<>> /\ Top \in Frames
        /\ Top.phase = "sweep" /\ Top.vip \in Vips /\ Top.vip \in Input
    BY <1>lift, <1>top DEF Lift, Phases, Input
  <2>2. After(Top.vip) \in Vips
    BY <2>1, InsnFacts DEF TypeOK
  <2>3. code[Top.vip].len \in Nat /\ code[Top.vip].len > 0
    BY <2>1, DescentAssumption DEF TypeOK
  <2>4. Top.vip < After(Top.vip)
    BY <2>1, <2>3, DescentAssumption DEF After, Vips
  <2> QED
    BY <2>1, <2>2, <2>4
<1>left. /\ PhasesLeft["sweep"] < PhasesLeft["enter"]
         /\ PhasesLeft["branch"] < PhasesLeft["sweep"]
         /\ PhasesLeft["follow"] < PhasesLeft["branch"]
  BY DEF PhasesLeft
<1>1. CASE EnterBlock
  <2>1. stack # <<>> /\ Top \in Frames /\ Top.phase = "enter"
    BY <1>1, <1>top DEF EnterBlock, Phases
  <2>f. PICK f : f = [Top EXCEPT !.phase = "sweep"]
    OBVIOUS
  <2>2. f \in Frames /\ f.phase = "sweep"
    BY <2>1, <2>f DEF Frames, Phases
  <2>3. stack' = SetTop(f) /\ status' = status /\ explored' = explored
    BY <1>1, <2>f DEF EnterBlock, blockVars
  <2> QED
    BY <1>left, <2>1, <2>2, <2>3, WorkingIsCloser
<1>2. CASE FailGetAt
  BY <1>2, EndingIsCloser DEF FailGetAt, Running
<1>3. CASE RunOff
  BY <1>3, ReturningIsCloser DEF RunOff, Running
<1>4. CASE LiftPlain
  <2>1. /\ stack # <<>> /\ Top \in Frames /\ Top.phase = "sweep"
        /\ Top.vip \in Vips /\ After(Top.vip) \in Vips /\ Top.vip < After(Top.vip)
    BY <1>4, <1>lift DEF LiftPlain
  <2>f. PICK f : f = [Top EXCEPT !.vip = After(Top.vip)]
    OBVIOUS
  <2>2. f \in Frames /\ f.phase = Top.phase /\ f.vip = After(Top.vip)
    BY <2>1, <2>f DEF Frames
  <2>3. PartLeft(f) = MaxVip - After(Top.vip) /\ PartLeft(Top) = MaxVip - Top.vip
    BY <2>1, <2>2 DEF PartLeft
  <2>4. PartLeft(f) < PartLeft(Top)
    BY <2>1, <2>3, DescentAssumption DEF Vips
  <2>5. stack' = SetTop(f) /\ status' = status /\ explored' = explored
    BY <1>4, <2>f DEF LiftPlain
  <2> QED
    BY <2>1, <2>2, <2>4, <2>5, WorkingIsCloser
<1>branch. ASSUME NEW kinds, Lift(kinds), status' = status,
                  explored' = explored,
                  stack' = SetTop([Top EXCEPT !.vip = After(Top.vip),
                                              !.phase = "branch"])
           PROVE  Closer(Distance', Distance)
  <2>1. /\ stack # <<>> /\ Top \in Frames /\ Top.phase = "sweep"
        /\ After(Top.vip) \in Vips
    BY <1>branch, <1>lift
  <2>f. PICK f : f = [Top EXCEPT !.vip = After(Top.vip), !.phase = "branch"]
    OBVIOUS
  <2>2. f \in Frames /\ f.phase = "branch"
    BY <2>1, <2>f DEF Frames, Phases
  <2> QED
    BY <1>branch, <1>left, <2>1, <2>2, <2>f, WorkingIsCloser
<1>5. CASE LiftUpToLeader
  <2>1. /\ Lift({"plain"}) /\ After(Top.vip) \in Vips /\ status' = status
        /\ explored' = explored \cup {After(Top.vip)}
        /\ stack' = SetTop([Top EXCEPT !.vip = After(Top.vip),
                                       !.phase = "branch"])
    BY <1>5, <1>lift DEF LiftUpToLeader, Fork
  <2>2. CASE After(Top.vip) \in explored
    <3>1. explored' = explored
      BY <2>1, <2>2
    <3> QED
      BY <1>branch, <2>1, <3>1
  <2>3. CASE After(Top.vip) \notin explored
    BY <2>1, <2>3, MakingIsCloser
  <2> QED
    BY <2>2, <2>3
<1>6. CASE LiftBranch
  BY <1>6, <1>branch DEF LiftBranch
<1>7. CASE LiftCall
  <2>1. /\ After(Top.vip) \in Vips \ explored /\ status' = status
        /\ explored' = explored \cup {After(Top.vip)}
    BY <1>7, <1>lift DEF LiftCall, CallReturn, Fork, ForksNew
  <2> QED
    BY <2>1, MakingIsCloser
<1>8. CASE LiftCallToExplored
  <2>1. status = "running" /\ status' # "running"
    BY <1>8, <1>lift DEF LiftCallToExplored, CallReturn
  <2> QED
    BY <2>1, EndingIsCloser
<1>9. CASE LiftInvalid
  BY <1>9, <1>lift, ReturningIsCloser DEF LiftInvalid
<1>10. CASE ExitOpaque
  BY <1>10, ReturningIsCloser DEF ExitOpaque, Running
<1>11. CASE Resolve
  <2>1. stack # <<>> /\ Top \in Frames /\ Top.phase = "branch" /\ Top.blk \in Vips
    BY <1>11, <1>top DEF Resolve, Phases, Frames
  <2>2. dest[Top.blk] \subseteq Vips
    BY <1>11, <2>1 DEF Resolve, TypeOK
  <2>f. PICK f : f = [Top EXCEPT !.phase = "follow", !.todo = dest[Top.blk]]
    OBVIOUS
  <2>3. f \in Frames /\ f.phase = "follow"
    BY <2>1, <2>2, <2>f DEF Frames, Phases
  <2>4. stack' = SetTop(f) /\ status' = status /\ explored' = explored
    BY <1>11, <2>f DEF Resolve, blockVars
  <2> QED
    BY <1>left, <2>1, <2>3, <2>4, WorkingIsCloser
<1>12. ASSUME NEW d \in Vips, FollowExplored(d)
       PROVE  Closer(Distance', Distance)
  <2>1. /\ stack # <<>> /\ Top \in Frames /\ Top.phase = "follow"
        /\ Top.todo \in SUBSET Vips /\ d \in Top.todo
    BY <1>12, <1>top DEF FollowExplored, Phases
  <2>f. PICK f : f = [Top EXCEPT !.todo = @ \ {d}]
    OBVIOUS
  <2>2. f \in Frames /\ f.phase = Top.phase /\ f.todo = Top.todo \ {d}
    BY <2>1, <2>f DEF Frames
  <2>3. PICK t : t = Top.todo
    OBVIOUS
  <2>4. Cardinality(t \ {d}) < Cardinality(t)
    BY <2>1, <2>3, LessByOne
  <2>5. PartLeft(f) < PartLeft(Top)
    BY <2>1, <2>2, <2>3, <2>4, Zenon DEF PartLeft
  <2>6. stack' = SetTop(f) /\ status' = status /\ explored' = explored
    BY <1>12, <2>f DEF FollowExplored, Fork, ForksNew
  <2> QED
    BY <2>1, <2>2, <2>5, <2>6, WorkingIsCloser
<1>13. ASSUME NEW d \in Vips, FollowNew(d) PROVE Closer(Distance', Distance)
  BY <1>13, MakingIsCloser DEF FollowNew, Fork, ForksNew
<1>14. ASSUME NEW d \in Vips, FollowOut(d) PROVE Closer(Distance', Distance)
  BY <1>14, MakingIsCloser DEF FollowOut, Fork, ForksNew
<1>15. CASE Return
  BY <1>15, ReturningIsCloser DEF Return, Running, blockVars
<1>16. CASE Finish
  BY <1>16, EndingIsCloser DEF Finish
<1> QED
  BY <1>1, <1>2, <1>3, <1>4, <1>5, <1>6, <1>7, <1>8, <1>9, <1>10, <1>11,
     <1>12, <1>13, <1>14, <1>15, <1>16 DEF Next, Follow

(* Every step of populate() uses up something that only the making of a     *)
(* block gives back, and there are finitely many blocks to make, however    *)
(* the program loops (recursive_descent.hpp:90-170).                        *)
THEOREM ExploreAdvances == Spec => StepsLeadToEnd
<1>1. TypeOK /\ [Next]_vars => [Closer(Distance', Distance)]_vars
  BY ActionsAreCloser
<1> QED
  BY <1>1, TypeCorrect, PTL DEF Spec, StepsLeadToEnd

(* Coming closer is well-founded. *)
LEMMA CloserWellFounded ==
  IsWellFoundedOn({p \in Distances \X Distances : Closer(p[1], p[2])}, Distances)
<1> DEFINE R == OpToRel(<, Nat)
<1>1. IsWellFoundedOn(R, Nat)
  BY NatLessThanWellFounded
<1>2. \A x, y \in Nat : <<x, y>> \in R <=> x < y
  BY DEF OpToRel
<1> HIDE DEF R
<1>3. IsWellFoundedOn(LexProductOrdering(R, Nat, 5), [1 .. 5 -> Nat])
  BY <1>1, WFLexProductOrdering
<1>4. LexProductOrdering(R, Nat, 5)
        = {p \in Distances \X Distances : Closer(p[1], p[2])}
  <2>1. ASSUME NEW p \in Distances \X Distances
        PROVE  Closer(p[1], p[2]) <=>
                 \E j \in 1 .. 5 :
                   /\ \A i \in 1 .. (j - 1) : p[1][i] = p[2][i]
                   /\ <<p[1][j], p[2][j]>> \in R
    <3>1. \A j \in 1 .. 5 : p[1][j] \in Nat /\ p[2][j] \in Nat
      BY DEF Distances
    <3>2. \A j \in 1 .. 5 : p[1][j] < p[2][j] <=> <<p[1][j], p[2][j]>> \in R
      BY <1>2, <3>1
    <3> QED
      BY <3>2, Zenon DEF Closer
  <2> QED
    BY <2>1, Zenon DEF LexProductOrdering, Distances
<1> QED
  BY <1>3, <1>4 DEF Distances

(* Nothing comes closer for ever: with ExploreAdvances, a run of explore()  *)
(* that always takes another step does not exist, for any program.         *)
THEOREM NoEndlessDescent ==
  \A d \in [Nat -> Distances] : \E n \in Nat : ~Closer(d[n + 1], d[n])
<1> SUFFICES ASSUME NEW d \in [Nat -> Distances],
                    \A n \in Nat : Closer(d[n + 1], d[n])
             PROVE  FALSE
  OBVIOUS
<1> DEFINE R == {p \in Distances \X Distances : Closer(p[1], p[2])}
           T == {d[n] : n \in Nat}
<1>1. IsWellFoundedOn(R, Distances)
  BY CloserWellFounded
<1>2. \A n \in Nat : <<d[n + 1], d[n]>> \in R
  BY DEF R
<1>3. T \subseteq Distances /\ T # {}
  OBVIOUS
<1>4. ASSUME NEW x \in T PROVE \E y \in T : <<y, x>> \in R
  <2>1. PICK n \in Nat : x = d[n]
    OBVIOUS
  <2>2. n + 1 \in Nat
    BY SMT
  <2>3. d[n + 1] \in T
    BY <2>2
  <2>4. <<d[n + 1], x>> \in R
    BY <1>2, <2>1, Zenon
  <2> QED
    BY <2>3, <2>4
<1> HIDE DEF R, T
<1> QED
  BY <1>1, <1>3, <1>4, WFMin
=============================================================================
