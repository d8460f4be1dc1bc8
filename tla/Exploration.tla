----------------------------- MODULE Exploration -----------------------------
(***************************************************************************)
(* What exploring control flow promises, with nothing of how it is done: a *)
(* search of the control-flow graph of the input.  The addresses reached   *)
(* so far only grow, one successor of a reached address at a time, and the *)
(* search may stop only when no successor of a reached address is missing. *)
(*                                                                         *)
(* RecursiveDescent implements this search (see Search there): populate()  *)
(* reaches blocks through fork() and instructions by sweeping forward.     *)
(***************************************************************************)

CONSTANTS
  Addresses,  \* the addresses the input covers
  Entry       \* where the routine begins

VARIABLES
  edges,      \* the control-flow graph of the input, a set of pairs
  seen,       \* the addresses reached so far
  finished    \* has explore() returned?

vars == <<edges, seen, finished>>

(* The addresses control can reach in one step from those of S. *)
Successors(S) == {w \in Addresses : \E v \in S : <<v, w>> \in edges}

Closed(S) == Successors(S) \subseteq S

Init ==
  /\ edges \subseteq Addresses \X Addresses
  /\ seen = {Entry}
  /\ finished = FALSE

(* Reach one more address. *)
Discover ==
  /\ ~finished
  /\ \E w \in Successors(seen) : seen' = seen \cup {w}
  /\ UNCHANGED <<edges, finished>>

(* Stop, with nothing left to reach. *)
Finish ==
  /\ ~finished
  /\ Closed(seen)
  /\ finished' = TRUE
  /\ UNCHANGED <<edges, seen>>

Next == Discover \/ Finish

Spec == Init /\ [][Next]_vars
=============================================================================
