------------------------------- MODULE Stack -------------------------------
(***************************************************************************)
(* A stack of cells: it changes at its top only, by one cell or more.      *)
(***************************************************************************)
EXTENDS Integers, Sequences

VARIABLE stack      \* the top is first

(* What was there before is still there, under n cells more. *)
Push(n) ==
  /\ Len(stack') = Len(stack) + n
  /\ SubSeq(stack', n + 1, Len(stack')) = stack

Pop(n) ==
  /\ n <= Len(stack)
  /\ stack' = SubSeq(stack, n + 1, Len(stack))
=============================================================================
