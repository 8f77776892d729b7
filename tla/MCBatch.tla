------------------------------ MODULE MCBatch ------------------------------
(* A finite instance of Batch for TLC. *)
EXTENDS Batch

\* Three peers, not in the order of their names.
ThreePeers == <<2, 3, 1>>

\* A fast peer without a ping, one with, and a slow one.
MCMeasurements == {[speed |-> 3, ping |-> NoPing], [speed |-> 3, ping |-> 5],
                   [speed |-> 1, ping |-> 5]}
=============================================================================
