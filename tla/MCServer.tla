------------------------------ MODULE MCServer ------------------------------
(* Finite instances of Server for TLC. *)
EXTENDS Server, TLC

CONSTANTS w1, w2, A, B

TwoWriters == {w1, w2}
OneWriter  == {w1}
MCPlans    == {A, B}

Conf(p, e, d) == [plan |-> p, enabled |-> e, debug |-> d]

\* Armed on either plan, and switched off with either.
AllConfigs == {Conf(p, TRUE, FALSE) : p \in MCPlans} \cup {Conf(p, FALSE, TRUE) : p \in MCPlans}
\* Armed, and with an expression that does not parse.
OnOff == {Conf(A, TRUE, FALSE), Conf(NoPlan, TRUE, FALSE)}

Symmetry == Permutations(TwoWriters) \cup Permutations(MCPlans)
=============================================================================
