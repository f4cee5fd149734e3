--------------------------- MODULE MCArtworkPush ---------------------------
(***************************************************************************)
(* Instances of ArtworkPush for TLC.  Artworks, peers and pushes are       *)
(* interchangeable, so the safety runs may identify states that differ     *)
(* only in their names.                                                    *)
(***************************************************************************)
EXTENDS ArtworkPush, TLC

Symmetry == Permutations(Art) \cup Permutations(Peers) \cup Permutations(Pushes)

=============================================================================
