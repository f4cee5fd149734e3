------------------------------ MODULE MCUpdater ------------------------------
(* Updater on small instances.                                              *)
EXTENDS Updater, TLC

\* Every release is on the prerelease channel, the odd ones on stable too.
OddAreStable == ("stable" :> {t \in Tags : t % 2 = 1}) @@ ("prerelease" :> Tags)
=============================================================================
