---------------------------- MODULE MCAlertEngine ----------------------------
(* Small instances of AlertEngine for TLC. *)
EXTENDS AlertEngine, TLC

CONSTANTS t1, t2, s1, s2

Rule(on, th, w, c) == [enabled |-> on, threshold |-> th, window |-> w, cooldown |-> c]

SafetyInit == {Rule(TRUE, 1, 1, 2)}
TimingInit == {Rule(TRUE, 2, 5, 2)}
SamplingInit == {Rule(TRUE, 2, 3, 1)}
Symmetry == Permutations({s1, s2})
TenantSymmetry == Permutations({t1, t2})
=============================================================================
