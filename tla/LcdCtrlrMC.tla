----------------------------- MODULE LcdCtrlrMC -----------------------------
(***************************************************************************)
(* LcdCtrlr for the runs that check safety only: video modes and clock     *)
(* rates are interchangeable there.                                        *)
(***************************************************************************)
EXTENDS LcdCtrlr, TLC

Symmetry == Permutations(Modes) \cup Permutations(Freqs)

=============================================================================
