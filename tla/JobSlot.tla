------------------------------ MODULE JobSlot ------------------------------
(***************************************************************************)
(* What internal/schedule promises to those who use a Scheduler, without   *)
(* its locks, channels and timers: one in-flight job at a time, no job     *)
(* begun after a stop, and a Stop that returns only when the loop is gone. *)
(* Scheduler.tla is shown to implement it, and so is each loop of Server.  *)
(***************************************************************************)
EXTENDS Naturals

CONSTANTS
  Procs,      \* those who may run the job: the loop and the callers of RunOnce
  Loop        \* the scheduler's own goroutine, one of Procs

VARIABLES
  holders,    \* who is running the job: nobody or one of Procs
  phase,      \* the loop's life: "off", "on", "ended"
  open,       \* no Stop has been accepted
  stopping,   \* the callers inside a Stop
  completed   \* jobs completed

vars == <<holders, phase, open, stopping, completed>>

\* A user may come to know of a scheduler when it is going already.
Init ==
  /\ holders = {}
  /\ phase \in {"off", "on"}
  /\ open = TRUE
  /\ stopping = {}
  /\ completed = 0

\* Start, seen from outside.
Launch ==
  /\ phase = "off"
  /\ phase' = "on"
  /\ UNCHANGED <<holders, open, stopping, completed>>

\* The single in-flight slot goes to somebody, never once stopped.
Take(p) ==
  /\ open
  /\ holders = {}
  /\ p = Loop => phase = "on"
  /\ holders' = {p}
  /\ UNCHANGED <<phase, open, stopping, completed>>

\* A job's outcome is recorded by the act that frees the slot.
Release(p) ==
  /\ p \in holders
  /\ holders' = {}
  /\ completed' = completed + 1
  /\ UNCHANGED <<phase, open, stopping>>

\* One Stop is accepted; it does not interrupt the job.
Close(c) ==
  /\ open
  /\ open' = FALSE
  /\ stopping' = stopping \cup {c}
  /\ UNCHANGED <<holders, phase, completed>>

\* The loop ends, never in the middle of its own job.
End ==
  /\ phase = "on"
  /\ Loop \notin holders
  /\ phase' = "ended"
  /\ UNCHANGED <<holders, open, stopping, completed>>

\* Stop returns: the loop is gone for good.
Return(c) ==
  /\ c \in stopping
  /\ phase = "ended"
  /\ stopping' = stopping \ {c}
  /\ UNCHANGED <<holders, phase, open, completed>>

Next ==
  \/ Launch
  \/ End
  \/ \E p \in Procs : Take(p) \/ Release(p)
  \/ \E c \in Procs \ {Loop} : Close(c) \/ Return(c)

Spec == Init /\ [][Next]_vars
=============================================================================
