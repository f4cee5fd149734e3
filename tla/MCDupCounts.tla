---------------------------- MODULE MCDupCounts -----------------------------
(* Two artists mapped on one connection, with a copy each or one of them.    *)
EXTENDS DupCounts, TLC

CONSTANTS c1, c2, q1, q2, k1

OneCopyEach == c1 :> q1 @@ c2 :> q2
OneCopy     == c1 :> q1
OneForBoth  == q1 :> k1 @@ q2 :> k1
=============================================================================
