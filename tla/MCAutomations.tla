---------------------------- MODULE MCAutomations ----------------------------
(* Instances of Automations for TLC. *)
EXTENDS Automations, TLC

CONSTANTS r1, r2, q1, h1, h2, h3

OneRule == {r1}
TwoRules == {r1, r2}
OneRequest == {q1}
TwoHandlers == {h1, h2}
ThreeHandlers == {h1, h2, h3}

Symmetry == Permutations(Handlers)

=============================================================================
