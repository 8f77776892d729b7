------------------------------ MODULE MCEvents ------------------------------
(* A finite instance of Events for TLC. *)
EXTENDS Events

CONSTANTS p1, q1

OnePage == {p1}
OnePeer == {q1}
=============================================================================
