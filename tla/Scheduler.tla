----------------------------- MODULE Scheduler -----------------------------
(***************************************************************************)
(* internal/schedule: one Scheduler, the goroutine Start launches (Loop),  *)
(* and the goroutines that call its methods (Callers).                     *)
(*                                                                         *)
(* A step is what the code does inside one s.mu critical section, or one   *)
(* channel operation between two of them.  One unit of time is a minute,   *)
(* the resolution of a cron field; time may pass between any two steps.    *)
(***************************************************************************)
EXTENDS Integers, FiniteSets

CONSTANTS
  Callers,    \* goroutines that call Start, SetSpec, Stop and RunOnce
  Loop,       \* the goroutine of (s *Scheduler) loop
  Specs,      \* the schedules that may be asked for
  Ops,        \* which of "SetSpec", "Stop", "RunOnce", "Cancel" the users use
  Window,     \* how far NextAfter scans for a cron firing (four years)
  MaxTime,    \* bound: the clock stops here
  MaxCalls    \* bound: calls of SetSpec and RunOnce

ASSUME LoopAssumption  == Loop \notin Callers
ASSUME BoundAssumption == Window \in Nat /\ MaxTime \in Nat /\ MaxCalls \in Nat
ASSUME SpecsAssumption ==
  \A sp \in Specs : \/ sp.kind = "Interval" /\ sp.every \in Nat \ {0}
                    \/ sp.kind = "Clock" /\ sp.at \subseteq Nat

VARIABLES
  now,        \* the wall clock
  spec,       \* s.spec
  next,       \* s.next, NoTime when s.nextSet is false
  running,    \* s.running
  stopped,    \* s.stopped, and with it: s.stopCh is closed
  started,    \* s.stopCh # nil
  replan,     \* s.replan: the number of a channel, 0 for nil
  made,       \* how many replan channels were made
  closed,     \* the replan channels that are closed
  doneClosed, \* s.done is closed
  cancelled,  \* the context given to Start is cancelled
  runs,       \* s.runs
  skipped,    \* s.skipped
  pc,         \* where each goroutine is
  fire,       \* loop: the tick the timer is set for
  parked,     \* loop: the replan channel its select evaluated
  old,        \* wakeLoop: the channel each caller is about to close
  begun,      \* when the goroutine's job started
  took,       \* and how long it took
  calls       \* calls of SetSpec and RunOnce so far

clock   == <<now, cancelled>>
plan    == <<spec, next>>
slot    == <<running, runs, skipped>>
life    == <<started, stopped, doneClosed>>
wakes   == <<replan, made, closed, old>>
locals  == <<fire, parked, begun, took>>
vars == <<clock, plan, slot, life, wakes, locals, pc, calls>>

Procs  == Callers \cup {Loop}
NoTime == -1
InJob  == {"begin", "job", "finish"}    \* between claim and finish
Holding == InJob \cup {"advance"}

LoopPcs   == Holding \cup {"off", "plan", "unscheduled", "arm", "select",
                           "claim", "skip", "rewake", "exit", "ended"}
CallerPcs == InJob \cup {"idle", "startPlan", "startGo", "setPlan",
                         "wakeSwap", "wakeClose", "stopWait"}

Goto(p, label) == pc' = [pc EXCEPT ![p] = label]
Step(p, from, to) == pc[p] = from /\ Goto(p, to)

-----------------------------------------------------------------------------
(* Schedules *)

\* Spec.NextAfter: an interval is counted from t, a cron expression is scanned
\* minute by minute for at most Window minutes.
NextAfter(sp, t) ==
  LET first == {u \in (t + 1)..(t + Window) :
                  u \in sp.at /\ \A v \in (t + 1)..(u - 1) : v \notin sp.at}
  IN IF sp.kind = "Interval" THEN t + sp.every
     ELSE IF first = {} THEN NoTime ELSE CHOOSE u \in first : TRUE

Due_FromNow == NextAfter(spec, now)     \* Mutant: a planned tick is never kept.

\* The tick planNext settles on: the planned one while it is still ahead.
Due == IF next # NoTime /\ next > now THEN next ELSE NextAfter(spec, now)

-----------------------------------------------------------------------------
(* The critical sections that several goroutines share *)

\* planNext for a caller (Start, SetSpec), which ignores what it returns.
PlanNext == next' = IF stopped THEN next ELSE Due

\* Mutants of CanClaim: one of its two guards is dropped.
CanClaim_Running == ~stopped
CanClaim_Stopped == ~running

CanClaim == ~running /\ ~stopped

\* The job starts: started := time.Now().
BeginJob(p) ==
  /\ Step(p, "begin", "job")
  /\ begun' = [begun EXCEPT ![p] = now]
  /\ UNCHANGED <<clock, plan, slot, life, wakes, fire, parked, took, calls>>

\* The job returns, whatever it returns; finish measures before it locks.
EndJob(p) ==
  /\ Step(p, "job", "finish")
  /\ took' = [took EXCEPT ![p] = now - begun[p]]
  /\ UNCHANGED <<clock, plan, slot, life, wakes, fire, parked, begun, calls>>

\* Mutant of Missed: one too many.
Missed_Plus(p) == IF spec.kind = "Interval" /\ took[p] > spec.every
                  THEN took[p] \div spec.every + 1 ELSE 0

\* The ticks an interval run outlived, by the spec in force when it finishes.
Missed(p) == IF spec.kind = "Interval" /\ took[p] > spec.every
             THEN took[p] \div spec.every ELSE 0

\* Mutant of Finish: the run is not counted.
Finish_Uncounted(p, to) ==
  /\ Step(p, "finish", to)
  /\ running' = FALSE
  /\ skipped' = skipped + Missed(p)
  /\ begun' = [begun EXCEPT ![p] = 0]
  /\ took' = [took EXCEPT ![p] = 0]
  /\ UNCHANGED <<runs, clock, plan, life, wakes, fire, parked, calls>>

Finish(p, to) ==
  /\ Step(p, "finish", to)
  /\ running' = FALSE
  /\ runs' = runs + 1
  /\ skipped' = skipped + Missed(p)
  /\ begun' = [begun EXCEPT ![p] = 0]
  /\ took' = [took EXCEPT ![p] = 0]
  /\ UNCHANGED <<clock, plan, life, wakes, fire, parked, calls>>

-----------------------------------------------------------------------------
(* The loop *)

LoopPlan ==
  /\ pc[Loop] = "plan"
  /\ \/ /\ stopped
        /\ Goto(Loop, "exit")
        /\ UNCHANGED <<next, fire>>
     \/ /\ ~stopped
        /\ next' = Due
        /\ IF Due = NoTime
           THEN Goto(Loop, "unscheduled") /\ UNCHANGED fire
           ELSE Goto(Loop, "arm") /\ fire' = Due
  /\ UNCHANGED <<spec, clock, slot, life, wakes, parked, begun, took, calls>>

\* No firing in the window: only a stop or the context is waited for.
LoopUnscheduled ==
  /\ Step(Loop, "unscheduled", "exit")
  /\ stopped \/ cancelled
  /\ UNCHANGED <<clock, plan, slot, life, wakes, locals, calls>>

\* The timer is set and the select evaluates s.replan, with no lock held: the
\* value read may be any that s.replan had since planNext unlocked.  As nothing
\* else happens between the two, reading at once at any moment in between has
\* the same outcomes.
LoopArm ==
  /\ Step(Loop, "arm", "select")
  /\ parked' = replan
  /\ UNCHANGED <<clock, plan, slot, life, wakes, fire, begun, took, calls>>

\* The select takes any of the cases that are ready.
LoopStop ==
  /\ Step(Loop, "select", "exit")
  /\ stopped \/ cancelled
  /\ UNCHANGED <<clock, plan, slot, life, wakes, locals, calls>>

LoopWoken ==
  /\ Step(Loop, "select", "rewake")
  /\ parked \in closed
  /\ UNCHANGED <<clock, plan, slot, life, wakes, locals, calls>>

LoopTimer ==
  /\ Step(Loop, "select", "claim")
  /\ now >= fire
  /\ UNCHANGED <<clock, plan, slot, life, wakes, locals, calls>>

\* After a wake the loop installs a fresh channel and plans again.
LoopRewake ==
  /\ Step(Loop, "rewake", "plan")
  /\ made' = made + 1
  /\ replan' = made'
  /\ UNCHANGED <<closed, old, clock, plan, slot, life, locals, calls>>

LoopClaim ==
  /\ \/ CanClaim /\ Step(Loop, "claim", "advance") /\ running' = TRUE
     \/ ~CanClaim /\ Step(Loop, "claim", "skip") /\ UNCHANGED running
  /\ UNCHANGED <<clock, plan, runs, skipped, life, wakes, locals, calls>>

\* Mutant of LoopSkip: return for continue.
LoopSkip_Ends ==
  /\ Step(Loop, "skip", "exit")
  /\ skipped' = skipped + 1
  /\ UNCHANGED <<running, runs, clock, plan, life, wakes, locals, calls>>

LoopSkip ==
  /\ Step(Loop, "skip", "plan")
  /\ skipped' = skipped + 1
  /\ UNCHANGED <<running, runs, clock, plan, life, wakes, locals, calls>>

\* The tick after fire is planned before the job runs.
LoopAdvance ==
  /\ Step(Loop, "advance", "begin")
  /\ next' = IF NextAfter(spec, fire) = NoTime THEN next
             ELSE NextAfter(spec, fire)
  /\ UNCHANGED <<spec, clock, slot, life, wakes, locals, calls>>

\* Mutant of LoopExit: done is never closed.
LoopExit_Silent ==
  /\ Step(Loop, "exit", "ended")
  /\ UNCHANGED <<life, clock, plan, slot, wakes, locals, calls>>

\* awaken, deferred.
LoopExit ==
  /\ Step(Loop, "exit", "ended")
  /\ doneClosed' = TRUE
  /\ UNCHANGED <<started, stopped, clock, plan, slot, wakes, locals, calls>>

LoopNext ==
  \/ LoopPlan \/ LoopUnscheduled \/ LoopArm \/ LoopStop \/ LoopWoken
  \/ LoopTimer \/ LoopRewake \/ LoopClaim \/ LoopSkip \/ LoopAdvance \/ LoopExit
  \/ BeginJob(Loop) \/ Finish(Loop, "plan")

-----------------------------------------------------------------------------
(* The methods *)

May(op) == op \in Ops /\ calls < MaxCalls /\ calls' = calls + 1

\* Start: a no-op once started, so only the first call is a step.
Start(c) ==
  /\ Step(c, "idle", "startPlan")
  /\ ~started
  /\ started' = TRUE
  /\ made' = made + 1
  /\ replan' = made'
  /\ UNCHANGED <<stopped, doneClosed, closed, old, clock, plan, slot, locals, calls>>

StartPlan(c) ==
  /\ Step(c, "startPlan", "startGo")
  /\ PlanNext
  /\ UNCHANGED <<spec, clock, slot, life, wakes, locals, calls>>

StartGo(c) ==
  /\ pc[c] = "startGo"
  /\ pc' = [pc EXCEPT ![c] = "idle", ![Loop] = "plan"]
  /\ UNCHANGED <<clock, plan, slot, life, wakes, locals, calls>>

\* Mutant of SetSpec: the tick planned for the old spec is kept.
SetSpec_KeepsNext(c, sp) ==
  /\ May("SetSpec")
  /\ spec' = sp
  /\ \/ (~started \/ stopped) /\ Step(c, "idle", "idle")
     \/ started /\ ~stopped /\ Step(c, "idle", "setPlan")
  /\ UNCHANGED <<next, clock, slot, life, wakes, locals>>

\* SetSpec on a scheduler that is not going only stores the spec.
SetSpec(c, sp) ==
  /\ May("SetSpec")
  /\ spec' = sp
  /\ \/ /\ ~started \/ stopped
        /\ Step(c, "idle", "idle")
        /\ UNCHANGED next
     \/ /\ started /\ ~stopped
        /\ Step(c, "idle", "setPlan")
        /\ next' = NoTime
  /\ UNCHANGED <<clock, slot, life, wakes, locals>>

SetPlan(c) ==
  /\ Step(c, "setPlan", "wakeSwap")
  /\ PlanNext
  /\ UNCHANGED <<spec, clock, slot, life, wakes, locals, calls>>

\* Mutant of WakeSwap: the channel is closed without being replaced.
WakeSwap_Keeps(c) ==
  /\ Step(c, "wakeSwap", "wakeClose")
  /\ old' = [old EXCEPT ![c] = replan]
  /\ UNCHANGED <<replan, made, closed, clock, plan, slot, life, locals, calls>>

\* wakeLoop: install a fresh channel, then close the one it replaced.
WakeSwap(c) ==
  /\ Step(c, "wakeSwap", "wakeClose")
  /\ old' = [old EXCEPT ![c] = replan]
  /\ made' = made + 1
  /\ replan' = made'
  /\ UNCHANGED <<closed, clock, plan, slot, life, locals, calls>>

\* Mutant of WakeClose: the old channel is dropped, not closed.
WakeClose_Drops(c) ==
  /\ Step(c, "wakeClose", "idle")
  /\ old' = [old EXCEPT ![c] = 0]
  /\ UNCHANGED <<replan, made, closed, clock, plan, slot, life, locals, calls>>

WakeClose(c) ==
  /\ Step(c, "wakeClose", "idle")
  /\ closed' = closed \cup {old[c]}
  /\ old' = [old EXCEPT ![c] = 0]
  /\ UNCHANGED <<replan, made, clock, plan, slot, life, locals, calls>>

\* Stop returns false without effect unless started and not yet stopped.
Stop(c) ==
  /\ "Stop" \in Ops
  /\ Step(c, "idle", "stopWait")
  /\ started /\ ~stopped
  /\ stopped' = TRUE
  /\ UNCHANGED <<started, doneClosed, clock, plan, slot, wakes, locals, calls>>

\* Mutant of StopReturn: done is not waited for.
StopReturn_AtOnce(c) ==
  /\ Step(c, "stopWait", "idle")
  /\ UNCHANGED <<clock, plan, slot, life, wakes, locals, calls>>

StopReturn(c) ==
  /\ Step(c, "stopWait", "idle")
  /\ doneClosed
  /\ UNCHANGED <<clock, plan, slot, life, wakes, locals, calls>>

\* RunOnce, accepted; refused, it changes nothing.
RunOnce(c) ==
  /\ May("RunOnce")
  /\ CanClaim
  /\ Step(c, "idle", "begin")
  /\ running' = TRUE
  /\ UNCHANGED <<runs, skipped, clock, plan, life, wakes, locals>>

CallerNext(c) ==
  \/ StartPlan(c) \/ StartGo(c) \/ SetPlan(c) \/ WakeSwap(c) \/ WakeClose(c)
  \/ StopReturn(c) \/ BeginJob(c) \/ Finish(c, "idle")

Call(c) == Start(c) \/ Stop(c) \/ RunOnce(c) \/ \E sp \in Specs : SetSpec(c, sp)

-----------------------------------------------------------------------------
(* The environment *)

Tick ==
  /\ now < MaxTime
  /\ now' = now + 1
  /\ UNCHANGED <<cancelled, plan, slot, life, wakes, locals, pc, calls>>

\* The context given to Start is cancelled.
Cancel ==
  /\ "Cancel" \in Ops
  /\ ~cancelled
  /\ cancelled' = TRUE
  /\ UNCHANGED <<now, plan, slot, life, wakes, locals, pc, calls>>

Init ==
  /\ now = 0
  /\ cancelled = FALSE
  /\ spec \in Specs
  /\ next = NoTime
  /\ running = FALSE /\ runs = 0 /\ skipped = 0
  /\ started = FALSE /\ stopped = FALSE /\ doneClosed = FALSE
  /\ replan = 0 /\ made = 0 /\ closed = {} /\ old = [c \in Callers |-> 0]
  /\ fire = 0 /\ parked = 0
  /\ begun = [p \in Procs |-> 0] /\ took = [p \in Procs |-> 0]
  /\ pc = [p \in Procs |-> IF p = Loop THEN "off" ELSE "idle"]
  /\ calls = 0

Next ==
  \/ LoopNext
  \/ \E c \in Callers : CallerNext(c) \/ Call(c)
  \/ \E p \in Procs : EndJob(p)
  \/ Tick
  \/ Cancel

Spec == Init /\ [][Next]_vars

\* Goroutines that can run do run, jobs end, and the clock goes on.  Nobody is
\* obliged to make a call.
Fairness ==
  /\ WF_vars(LoopNext)
  /\ \A c \in Callers : WF_vars(CallerNext(c))
  /\ \A p \in Procs : WF_vars(EndJob(p))
  /\ WF_vars(Tick)

FairSpec == Spec /\ Fairness

-----------------------------------------------------------------------------
(* Properties *)

TypeOK ==
  /\ now \in Nat /\ cancelled \in BOOLEAN
  /\ spec \in Specs /\ next \in Nat \cup {NoTime}
  /\ running \in BOOLEAN /\ runs \in Nat /\ skipped \in Nat
  /\ started \in BOOLEAN /\ stopped \in BOOLEAN /\ doneClosed \in BOOLEAN
  /\ replan \in Nat /\ made \in Nat /\ closed \subseteq Nat
  /\ old \in [Callers -> Nat]
  /\ fire \in Nat /\ parked \in Nat
  /\ begun \in [Procs -> Nat] /\ took \in [Procs -> Nat]
  /\ pc \in [Procs -> LoopPcs \cup CallerPcs]
  /\ pc[Loop] \in LoopPcs /\ \A c \in Callers : pc[c] \in CallerPcs
  /\ calls \in Nat

\* "The job never overlaps itself": of all the goroutines that may run it, the
\* loop and every RunOnce, at most one is between claim and finish, and running
\* is set exactly then.
OneJobAtATime ==
  /\ running <=> \E p \in Procs : pc[p] \in Holding
  /\ \A p, q \in Procs : pc[p] \in Holding /\ pc[q] \in Holding => p = q

\* "Each closed channel is closed exactly once" (a second close would panic):
\* callers inside wakeLoop are about to close different channels, all of them
\* still open and none of them the one installed for the loop to park on.
WakeChannelsCloseOnce ==
  /\ replan \notin closed
  /\ \A c \in Callers : pc[c] = "wakeClose" =>
       /\ old[c] \notin closed /\ old[c] # replan
       /\ \A d \in Callers \ {c} : pc[d] = "wakeClose" => old[d] # old[c]

\* A loop parked in its select can be woken: the channel it waits on is the one
\* the next wakeLoop closes, or it is closed, or a caller is about to close it.
ParkedLoopCanBeWoken ==
  pc[Loop] = "select" =>
    \/ parked = replan
    \/ parked \in closed
    \/ \E c \in Callers : pc[c] = "wakeClose" /\ old[c] = parked

\* What Next reports is a firing of the schedule in force, never of the one
\* SetSpec replaced: no further than one interval ahead, or a cron firing.
AdvertisedTickFitsSpec ==
  next # NoTime /\ ~stopped =>
    \/ spec.kind = "Interval" /\ next <= now + spec.every
    \/ spec.kind = "Clock" /\ next \in spec.at

\* Once the Stop that was accepted has returned, the loop has ended for good:
\* it neither runs the job nor will begin another.
StopWaitsForLoop ==
  stopped /\ (\A c \in Callers : pc[c] # "stopWait") => pc[Loop] = "ended"

\* A tick is a run or a skip, never both and never two of either: an interval
\* scheduler accounts for no more ticks than its cadence has had.  (While the
\* schedule is not replaced and nobody calls RunOnce.)
EveryTickCountsOnce ==
  calls = 0 /\ spec.kind = "Interval" => runs + skipped <= now \div spec.every

\* A planned tick that is still ahead moves only because the schedule is
\* replaced or because the tick before it is served: no wake, skip or late job
\* pushes it further away.
PlannedTickStays ==
  [][next > now /\ next' # next =>
       pc[Loop] = "advance" \/ next' = NoTime]_vars

\* After a stop no job is begun, on no path.
NoJobAfterStop ==
  [][stopped => ~(running' /\ ~running)]_vars

Slot == INSTANCE JobSlot WITH
  holders   <- {p \in Procs : pc[p] \in Holding},
  phase     <- IF pc[Loop] \in {"off", "ended"} THEN pc[Loop] ELSE "on",
  open      <- ~stopped,
  stopping  <- {c \in Callers : pc[c] = "stopWait"},
  completed <- runs

\* The scheduler keeps the promise of JobSlot.
ImplementsJobSlot == Slot!Spec

\* Every accepted Stop returns, provided jobs end.
StopReturns == \A c \in Callers : pc[c] = "stopWait" ~> pc[c] # "stopWait"

\* A tick that Next reports is acted on when its time comes, unless it is
\* replaced or the scheduler ends.  The bounded clock cannot tell what becomes
\* of a loop whose timer is set beyond MaxTime.
AdvertisedTickIsServed ==
  \A t \in 1..MaxTime :
    next = t /\ pc[Loop] # "off" ~>
      \/ next # t \/ stopped \/ cancelled
      \/ pc[Loop] = "select" /\ fire > MaxTime

\* SetSpec "wakes the loop so the timer the loop set for the old cadence is
\* discarded": with no SetSpec under way and no wake pending, a parked loop
\* waits for the tick Next reports.
ArmedForAdvertisedTick ==
  /\ pc[Loop] = "select" /\ parked \notin closed /\ ~stopped
  /\ \A c \in Callers : pc[c] \notin {"setPlan", "wakeSwap", "wakeClose"}
  => fire = next
=============================================================================
