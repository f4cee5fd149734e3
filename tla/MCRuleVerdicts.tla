---------------------------- MODULE MCRuleVerdicts ----------------------------
(* RuleVerdicts on small instances.                                         *)
EXTENDS RuleVerdicts, TLC

CONSTANTS e1, e2

\* Who runs what.
PassAndSubscriber == (e1 :> {"all"}) @@ (e2 :> {"health"})
PassAndFix == (e1 :> {"all"}) @@ (e2 :> {"fix"})
ScopedPassesAndFix == (e1 :> {"rule"}) @@ (e2 :> {"rule", "fix"})
OnePass == e1 :> {"all"}
OnePassOrFix == e1 :> {"all", "fix"}
=============================================================================
