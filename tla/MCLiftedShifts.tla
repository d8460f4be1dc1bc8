--------------------------- MODULE MCLiftedShifts ---------------------------
(***************************************************************************)
(* Operands of four bits with counts taken modulo eight: shifts by up to    *)
(* the width as 32-bit and 64-bit operands see them, and by more than the   *)
(* width and more than the ring through the carry as 8-bit operands do.     *)
(* Counts of eight and nine are zero and one once masked.                   *)
(***************************************************************************)
EXTENDS LiftedShifts

MCWidth == 4
MCTurn == 8
MCCounts == 0 .. 9
=============================================================================
