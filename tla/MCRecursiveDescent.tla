-------------------------- MODULE MCRecursiveDescent --------------------------
(***************************************************************************)
(* Instances of RecursiveDescent for TLC: all programs of Size bytes, with *)
(* plain instructions of one and two bytes, and jumps of one byte to every *)
(* address of the input and to the one below it; the one above is reached  *)
(* by falling through.                                                     *)
(***************************************************************************)
EXTENDS RecursiveDescent

MCTargets == Base - 1 .. Base + Size - 1

MCInsns ==
  [kind : {"plain"}, len : {1, 2}, target : {0}]
    \cup [kind : {"jmp", "jcc"}, len : {1}, target : MCTargets]
    \cup [kind : {"opaque", "call", "invalid"}, len : {1}, target : {0}]
=============================================================================
