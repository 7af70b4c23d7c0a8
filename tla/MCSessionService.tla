-------------------------- MODULE MCSessionService --------------------------
(***************************************************************************)
(* Small instances of SessionService for TLC.                              *)
(***************************************************************************)
EXTENDS SessionService, TLC

Symmetry == Permutations(Conns)

=============================================================================
