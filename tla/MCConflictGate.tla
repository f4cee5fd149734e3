--------------------------- MODULE MCConflictGate ---------------------------
(***************************************************************************)
(* Instances of ConflictGate for TLC.                                      *)
(***************************************************************************)
EXTENDS ConflictGate, TLC

NoOverlap == {}
AllOverlap == {e \in (1..NumConns) \X (1..NumConns) : e[1] < e[2]}
Symmetry == Permutations(Toggles)

=============================================================================
