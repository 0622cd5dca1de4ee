---------------------------- MODULE MCRuleStaging ----------------------------
(* RuleStaging for TLC: three calls, so that a failed call, a later one of the  *)
(* other kind and one that reuses the name all happen in one session.          *)
EXTENDS RuleStaging, TLC

CONSTANTS n1, n2

MCNames == {n1, n2}
MCSpecs == { <<"match", "effect">>, <<"effect", "bad">>, <<"effect">> }

\* The names are told apart by nothing but equality.
NameSymmetry == Permutations(MCNames)

=============================================================================
