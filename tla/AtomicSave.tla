----------------------------- MODULE AtomicSave -----------------------------
(***************************************************************************)
(* What SaveSlotProtected promises its callers (internal/image/backup.go): *)
(* seen from outside, the slots of a save get the new image all at once,   *)
(* or those that had an image keep it.                                     *)
(*                                                                         *)
(* The promise is weaker for the slots that had none: there is nothing to  *)
(* restore there, so a failed save may leave its image in any of them.     *)
(***************************************************************************)
CONSTANTS
    Slots,   \* the base names
    Savers,  \* the callers
    Images,  \* the images there may be
    NoImage  \* what an empty slot holds

VARIABLES
    holds, \* holds[s]: the image of slot s
    asked  \* asked[p]: the <<slots, image>> of the call p is in, or <<>>

vars == <<holds, asked>>

Init ==
    /\ holds \in [Slots -> Images \cup {NoImage}]
    /\ \A s, t \in Slots : s # t /\ holds[s] # NoImage => holds[s] # holds[t]
    /\ asked = [p \in Savers |-> <<>>]

Ask(p) ==
    /\ asked[p] = <<>>
    /\ \E Q \in (SUBSET Slots) \ {{}}, c \in Images : asked' = [asked EXCEPT ![p] = <<Q, c>>]
    /\ UNCHANGED holds

\* The call of p ends, having put its image into the slots of E.
Ends(p, E) ==
    /\ holds' = [s \in Slots |-> IF s \in E THEN asked[p][2] ELSE holds[s]]
    /\ asked' = [asked EXCEPT ![p] = <<>>]

\* All slots of the call get the image.
Save(p) ==
    /\ asked[p] # <<>>
    /\ Ends(p, asked[p][1])

\* The call fails; some of the slots that were empty may have the image.
SaveFails(p) ==
    /\ asked[p] # <<>>
    /\ \E E \in SUBSET {s \in asked[p][1] : holds[s] = NoImage} : Ends(p, E)

Next == \E p \in Savers : Ask(p) \/ Save(p) \/ SaveFails(p)

Spec == Init /\ [][Next]_vars

=============================================================================
