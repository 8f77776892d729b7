------------------------------ MODULE MCStore ------------------------------
(* A finite instance of Store for TLC. *)
EXTENDS Store, TLC

CONSTANTS c1, r1, r2, r3, h1

MCConfigs   == {c1}
MCIds       == {r1, r2, r3}
\* One run, with or without a line an operator spoiled.
MCHistories == {<<r1>>, <<Bad, r1>>}
MCReaders   == {h1}
Symmetry    == Permutations({r2, r3})
=============================================================================
