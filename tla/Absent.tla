------------------------------- MODULE Absent -------------------------------
(***************************************************************************)
(* What Python's None and an absent row stand for.                         *)
(***************************************************************************)
CONSTANT None
=============================================================================
