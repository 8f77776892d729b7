----------------------------- MODULE TestStages -----------------------------
(***************************************************************************)
(* What dispatch relies on when it calls runPeerTest, without admin calls, *)
(* streams, limits and clocks: the stages come in order, whatever was      *)
(* built is torn down before the outcome is there, and only a test whose   *)
(* bytes began to move before the cancel has a measurement.  PeerTest.tla  *)
(* is shown to implement it, and so is each goroutine of Batch.            *)
(***************************************************************************)
VARIABLES
  at,         \* "off", "handshake", "build", "use", "teardown", "over"
  cancelled,  \* the context of the run
  moving,     \* a request got through and there may be bytes
  measured    \* the outcome is a measurement

vars == <<at, cancelled, moving, measured>>

\* The goroutine of the test may not be there yet.
Init == at \in {"off", "handshake"} /\ cancelled = FALSE /\ moving = FALSE /\ measured = FALSE

Go(from, to) == at = from /\ at' = to

Begin == Go("off", "handshake") /\ UNCHANGED <<cancelled, moving, measured>>

\* A test that fails its handshake is over: it has nothing to close.
Handshake ==
  /\ Go("handshake", "build") \/ Go("handshake", "over")
  /\ UNCHANGED <<cancelled, moving, measured>>

\* A part of the node that fails has the rest closed.
Build ==
  /\ Go("build", "use") \/ Go("build", "teardown")
  /\ UNCHANGED <<cancelled, moving, measured>>

\* No transfer is begun on a context that is cancelled.
Flow ==
  /\ at = "use" /\ ~cancelled
  /\ moving' = TRUE
  /\ UNCHANGED <<at, cancelled, measured>>

\* A transfer that had nothing to move.
Lapse ==
  /\ moving
  /\ moving' = FALSE
  /\ UNCHANGED <<at, cancelled, measured>>

\* A measurement, as the last act of the use or just before it.
Measure ==
  /\ at = "use" /\ moving
  /\ measured' = TRUE
  /\ at' \in {"use", "teardown"} /\ moving' \in BOOLEAN
  /\ UNCHANGED cancelled

\* The use is over, with a measurement or without.
Leave ==
  /\ Go("use", "teardown")
  /\ moving' = FALSE \/ UNCHANGED moving
  /\ UNCHANGED <<cancelled, measured>>

TornDown == Go("teardown", "over") /\ UNCHANGED <<cancelled, moving, measured>>

Cancel ==
  /\ ~cancelled
  /\ cancelled' = TRUE
  /\ UNCHANGED <<at, moving, measured>>

Next ==
  \/ Begin \/ Handshake \/ Build \/ Flow \/ Lapse \/ Measure \/ Leave \/ TornDown
  \/ Cancel

Spec == Init /\ [][Next]_vars
=============================================================================
