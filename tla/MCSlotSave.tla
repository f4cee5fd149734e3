----------------------------- MODULE MCSlotSave -----------------------------
(***************************************************************************)
(* Instances of SlotSave for TLC.                                          *)
(***************************************************************************)
EXTENDS SlotSave, TLC

Symmetry == Permutations(Images) \cup Permutations(Savers)

=============================================================================
