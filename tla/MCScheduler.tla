---------------------------- MODULE MCScheduler ----------------------------
(* Finite instances of Scheduler for TLC. *)
EXTENDS Scheduler, TLC

CONSTANTS c1, c2

Every(n) == [kind |-> "Interval", every |-> n]
At(S)    == [kind |-> "Clock", at |-> S]

MCCallers == {c1, c2}
OneCaller == {c1}

\* A short and a long interval, and an expression that fires once.
MixedSpecs == {Every(1), Every(3), At({2})}
\* The same with an expression that always has another firing.
LastingSpecs == {Every(1), Every(3), At({2, 3, 5})}
IntervalSpecs == {Every(1), Every(2), Every(3)}

Symmetry == Permutations(MCCallers)
=============================================================================
