------------------------------ MODULE PsAuxMC -------------------------------
(***************************************************************************)
(* The runs of PsAux: two processes and a ring of four slots, which four   *)
(* bytes overflow.                                                         *)
(***************************************************************************)
EXTENDS PsAux

=============================================================================
