-------------------------- MODULE SchedulerProofs --------------------------
(***************************************************************************)
(* Theorems about Scheduler, for any number of callers, any schedules and  *)
(* any bounds.                                                             *)
(***************************************************************************)
EXTENDS Scheduler, TLAPS

\* NextAfter returns a later time, or none; for an interval the one that is
\* every after t, for a cron expression one of its firings.
LEMMA NextAfterIsLater ==
  ASSUME NEW sp \in Specs, NEW t \in Nat
  PROVE  /\ NextAfter(sp, t) \in Nat \cup {NoTime}
         /\ NextAfter(sp, t) # NoTime => NextAfter(sp, t) > t
         /\ sp.kind = "Interval" => NextAfter(sp, t) = t + sp.every
         /\ sp.kind = "Clock" /\ NextAfter(sp, t) # NoTime
              => NextAfter(sp, t) \in sp.at
<1> DEFINE first == {u \in (t + 1)..(t + Window) :
                       u \in sp.at /\ \A v \in (t + 1)..(u - 1) : v \notin sp.at}
<1>1. CASE sp.kind = "Interval"
  BY <1>1, SpecsAssumption DEF NextAfter, NoTime
<1>2. CASE sp.kind # "Interval" /\ first = {}
  BY <1>2, SpecsAssumption DEF NextAfter, NoTime
<1>3. CASE sp.kind # "Interval" /\ first # {}
  <2>1. (CHOOSE u \in first : TRUE) \in first
    BY <1>3
  <2>2. NextAfter(sp, t) = CHOOSE u \in first : TRUE
    BY <1>3 DEF NextAfter
  <2>3. \A u \in first : u \in Nat /\ u > t /\ u \in sp.at
    BY BoundAssumption
  <2> QED
    BY <1>3, <2>1, <2>2, <2>3 DEF NoTime
<1> QED
  BY <1>1, <1>2, <1>3

\* A tick planNext settles on is ahead.
LEMMA DueIsAhead ==
  ASSUME TypeOK
  PROVE  /\ Due \in Nat \cup {NoTime}
         /\ Due # NoTime => Due > now
BY NextAfterIsLater DEF Due, TypeOK, NoTime

LEMMA MissedIsNat ==
  ASSUME TypeOK, NEW p \in Procs
  PROVE  Missed(p) \in Nat
<1>1. CASE spec.kind = "Interval" /\ took[p] > spec.every
  <2>1. took[p] \in Nat /\ spec.every \in Nat /\ spec.every > 0
    BY <1>1, SpecsAssumption DEF TypeOK
  <2>2. took[p] \div spec.every \in Nat
    BY <2>1
  <2> QED
    BY <1>1, <2>2 DEF Missed
<1>2. CASE ~(spec.kind = "Interval" /\ took[p] > spec.every)
  BY <1>2 DEF Missed
<1> QED
  BY <1>1, <1>2

-----------------------------------------------------------------------------
(* Type correctness *)

\* TypeOK is not inductive: that took is a number of minutes needs that no job
\* begins in the future.
TypeInv == TypeOK /\ \A p \in Procs : begun[p] <= now

LEMMA TypeInit == Init => TypeInv
<1> SUFFICES ASSUME Init PROVE TypeInv
  OBVIOUS
<1>1. pc \in [Procs -> LoopPcs \cup CallerPcs]
  BY DEF Init, LoopPcs, CallerPcs, InJob, Holding
<1>2. pc[Loop] \in LoopPcs /\ \A c \in Callers : pc[c] \in CallerPcs
  BY LoopAssumption DEF Init, LoopPcs, CallerPcs, InJob, Holding, Procs
<1>3. begun \in [Procs -> Nat] /\ took \in [Procs -> Nat] /\ old \in [Callers -> Nat]
  BY DEF Init
<1>4. \A p \in Procs : begun[p] <= now
  BY DEF Init
<1> QED
  BY <1>1, <1>2, <1>3, <1>4 DEF Init, TypeInv, TypeOK, NoTime

\* What TypeOK says of pc survives a goroutine's step to a label of its own.
LEMMA StepTypes ==
  ASSUME TypeOK, NEW p \in Procs, NEW from, NEW to, Step(p, from, to),
         p = Loop => to \in LoopPcs, p \in Callers => to \in CallerPcs
  PROVE  /\ pc' \in [Procs -> LoopPcs \cup CallerPcs]
         /\ pc'[Loop] \in LoopPcs
         /\ \A c \in Callers : pc'[c] \in CallerPcs
BY LoopAssumption DEF TypeOK, Step, Goto, Procs

LEMMA TypeStep == TypeInv /\ [Next]_vars => TypeInv'
<1> SUFFICES ASSUME TypeInv, [Next]_vars PROVE TypeInv'
  OBVIOUS
<1> USE DEF clock, plan, slot, life, wakes, locals
<1>0. /\ TypeOK /\ \A p \in Procs : begun[p] \in Nat /\ begun[p] <= now /\ now \in Nat
      /\ Loop \in Procs /\ Loop \notin Callers
      /\ \A c \in Callers : c \in Procs /\ c # Loop
  BY LoopAssumption DEF Procs, TypeInv, TypeOK
<1>1. CASE LoopPlan
  <2>1. CASE Goto(Loop, "exit") /\ UNCHANGED <<next, fire>>
    BY <1>0, <1>1, <2>1, StepTypes DEF LoopPlan, TypeInv, TypeOK, Step, LoopPcs
  <2>2. CASE next' = Due /\ Due = NoTime /\ Goto(Loop, "unscheduled") /\ UNCHANGED fire
    BY <1>0, <1>1, <2>2, StepTypes DEF LoopPlan, TypeInv, TypeOK, Step, LoopPcs
  <2>3. CASE next' = Due /\ Due # NoTime /\ Goto(Loop, "arm") /\ fire' = Due
    BY <1>0, <1>1, <2>3, StepTypes, DueIsAhead DEF LoopPlan, TypeInv, TypeOK, Step, LoopPcs
  <2> QED
    BY <1>1, <2>1, <2>2, <2>3 DEF LoopPlan
<1>2. CASE LoopUnscheduled
  BY <1>0, <1>2, StepTypes DEF LoopUnscheduled, TypeInv, TypeOK, LoopPcs
<1>3. CASE LoopArm
  BY <1>0, <1>3, StepTypes DEF LoopArm, TypeInv, TypeOK, LoopPcs
<1>4. CASE LoopStop
  BY <1>0, <1>4, StepTypes DEF LoopStop, TypeInv, TypeOK, LoopPcs
<1>5. CASE LoopWoken
  BY <1>0, <1>5, StepTypes DEF LoopWoken, TypeInv, TypeOK, LoopPcs
<1>6. CASE LoopTimer
  BY <1>0, <1>6, StepTypes DEF LoopTimer, TypeInv, TypeOK, LoopPcs
<1>7. CASE LoopRewake
  BY <1>0, <1>7, StepTypes DEF LoopRewake, TypeInv, TypeOK, LoopPcs
<1>8. CASE LoopClaim
  <2>1. Step(Loop, "claim", "advance") \/ Step(Loop, "claim", "skip")
    BY <1>8 DEF LoopClaim
  <2> QED
    BY <1>0, <1>8, <2>1, StepTypes DEF LoopClaim, TypeInv, TypeOK, LoopPcs, Holding
<1>9. CASE LoopSkip
  BY <1>0, <1>9, StepTypes DEF LoopSkip, TypeInv, TypeOK, LoopPcs
<1>10. CASE LoopAdvance
  <2>1. next' \in Nat \cup {NoTime}
    BY <1>0, <1>10, NextAfterIsLater DEF LoopAdvance, TypeOK
  <2> QED
    BY <1>0, <1>10, <2>1, StepTypes DEF LoopAdvance, TypeInv, TypeOK, LoopPcs, Holding, InJob
<1>11. CASE LoopExit
  BY <1>0, <1>11, StepTypes DEF LoopExit, TypeInv, TypeOK, LoopPcs
<1>12. ASSUME NEW p \in Procs, BeginJob(p) PROVE TypeInv'
  BY <1>0, <1>12, StepTypes DEF BeginJob, TypeInv, TypeOK, LoopPcs, CallerPcs, Holding, InJob
<1>13. ASSUME NEW p \in Procs, NEW to, Finish(p, to),
              p = Loop => to \in LoopPcs, p \in Callers => to \in CallerPcs
       PROVE TypeInv'
  <2>1. runs' \in Nat /\ skipped' \in Nat
    BY <1>0, <1>13, MissedIsNat DEF Finish, TypeOK
  <2>2. /\ pc' \in [Procs -> LoopPcs \cup CallerPcs]
        /\ pc'[Loop] \in LoopPcs /\ \A c \in Callers : pc'[c] \in CallerPcs
    BY <1>0, <1>13, StepTypes DEF Finish
  <2>3. /\ begun' \in [Procs -> Nat] /\ took' \in [Procs -> Nat]
        /\ \A q \in Procs : begun'[q] <= now
    BY <1>0, <1>13 DEF Finish, TypeOK
  <2> QED
    BY <1>0, <1>13, <2>1, <2>2, <2>3 DEF Finish, TypeInv, TypeOK
<1>14. ASSUME NEW p \in Procs, EndJob(p) PROVE TypeInv'
  <2>1. took' \in [Procs -> Nat]
    BY <1>0, <1>14 DEF EndJob, TypeOK
  <2> QED
    BY <1>0, <1>14, <2>1, StepTypes DEF EndJob, TypeInv, TypeOK, LoopPcs, CallerPcs, Holding, InJob
<1>15. ASSUME NEW c \in Callers, Start(c) PROVE TypeInv'
  BY <1>0, <1>15, StepTypes DEF Start, TypeInv, TypeOK, CallerPcs
<1>16. ASSUME NEW c \in Callers, StartPlan(c) PROVE TypeInv'
  BY <1>0, <1>16, StepTypes, DueIsAhead DEF StartPlan, PlanNext, TypeInv, TypeOK, CallerPcs
<1>17. ASSUME NEW c \in Callers, StartGo(c) PROVE TypeInv'
  BY <1>0, <1>17 DEF StartGo, TypeInv, TypeOK, CallerPcs, LoopPcs
<1>18. ASSUME NEW c \in Callers, NEW sp \in Specs, SetSpec(c, sp) PROVE TypeInv'
  <2>1. Step(c, "idle", "idle") \/ Step(c, "idle", "setPlan")
    BY <1>18 DEF SetSpec
  <2>2. next' \in Nat \cup {NoTime} /\ calls' \in Nat /\ spec' \in Specs
    BY <1>0, <1>18 DEF SetSpec, May, TypeOK
  <2>3. /\ pc' \in [Procs -> LoopPcs \cup CallerPcs]
        /\ pc'[Loop] \in LoopPcs /\ \A d \in Callers : pc'[d] \in CallerPcs
    BY <1>0, <2>1, StepTypes DEF CallerPcs
  <2> QED
    BY <1>0, <1>18, <2>2, <2>3 DEF SetSpec, TypeInv, TypeOK
<1>19. ASSUME NEW c \in Callers, SetPlan(c) PROVE TypeInv'
  BY <1>0, <1>19, StepTypes, DueIsAhead DEF SetPlan, PlanNext, TypeInv, TypeOK, CallerPcs
<1>20. ASSUME NEW c \in Callers, WakeSwap(c) PROVE TypeInv'
  BY <1>0, <1>20, StepTypes DEF WakeSwap, TypeInv, TypeOK, CallerPcs
<1>21. ASSUME NEW c \in Callers, WakeClose(c) PROVE TypeInv'
  BY <1>0, <1>21, StepTypes DEF WakeClose, TypeInv, TypeOK, CallerPcs
<1>22. ASSUME NEW c \in Callers, Stop(c) PROVE TypeInv'
  BY <1>0, <1>22, StepTypes DEF Stop, TypeInv, TypeOK, CallerPcs
<1>23. ASSUME NEW c \in Callers, StopReturn(c) PROVE TypeInv'
  BY <1>0, <1>23, StepTypes DEF StopReturn, TypeInv, TypeOK, CallerPcs
<1>24. ASSUME NEW c \in Callers, RunOnce(c) PROVE TypeInv'
  BY <1>0, <1>24, StepTypes DEF RunOnce, May, TypeInv, TypeOK, CallerPcs, InJob
<1>25. CASE Tick
  BY <1>0, <1>25 DEF Tick, TypeInv, TypeOK
<1>26. CASE Cancel
  BY <1>0, <1>26 DEF Cancel, TypeInv, TypeOK
<1>27. CASE UNCHANGED vars
  BY <1>0, <1>27 DEF vars, TypeInv, TypeOK
<1>28. CASE LoopNext
  <2>1. CASE BeginJob(Loop)
    BY <1>0, <1>12, <2>1
  <2>2. CASE Finish(Loop, "plan")
    BY <1>0, <1>13, <2>2 DEF LoopPcs
  <2> QED
    BY <1>1, <1>2, <1>3, <1>4, <1>5, <1>6, <1>7, <1>8, <1>9, <1>10, <1>11,
       <1>28, <2>1, <2>2 DEF LoopNext
<1>29. ASSUME NEW c \in Callers, CallerNext(c) PROVE TypeInv'
  <2>1. CASE BeginJob(c)
    BY <1>0, <1>12, <2>1
  <2>2. CASE Finish(c, "idle")
    BY <1>0, <1>13, <2>2 DEF CallerPcs
  <2> QED
    BY <1>16, <1>17, <1>19, <1>20, <1>21, <1>23, <1>29, <2>1, <2>2 DEF CallerNext
<1>30. ASSUME NEW c \in Callers, Call(c) PROVE TypeInv'
  BY <1>15, <1>18, <1>22, <1>24, <1>30 DEF Call
<1> QED
  BY <1>14, <1>25, <1>26, <1>27, <1>28, <1>29, <1>30 DEF Next

\* TypeOK holds in every reachable state.
THEOREM TypeCorrect == Spec => []TypeOK
<1>1. Spec => []TypeInv
  BY TypeInit, TypeStep, PTL DEF Spec
<1>2. TypeInv => TypeOK
  BY DEF TypeInv
<1> QED
  BY <1>1, <1>2, PTL

-----------------------------------------------------------------------------
(* The life of the loop *)

\* Start launches the loop once; done is closed exactly when it has ended; a stop
\* that nobody waits for any more has seen it end.
LifeInv ==
  /\ ~started => pc[Loop] = "off"
  /\ \A c \in Callers : pc[c] \in {"startPlan", "startGo"} =>
       /\ started /\ pc[Loop] = "off"
       /\ \A d \in Callers : pc[d] \in {"startPlan", "startGo"} => d = c
  /\ doneClosed <=> pc[Loop] = "ended"
  /\ stopped /\ (\A c \in Callers : pc[c] # "stopWait") => doneClosed

LEMMA LifeInit == Init => LifeInv
BY LoopAssumption DEF Init, LifeInv, Procs

LEMMA LifeStep ==
  ASSUME TypeInv, LifeInv, [Next]_vars
  PROVE  LifeInv'
<1> USE DEF clock, plan, slot, life, wakes, locals
<1>0. /\ Loop \in Procs /\ Loop \notin Callers /\ pc \in [Procs -> LoopPcs \cup CallerPcs]
      /\ \A c \in Callers : c \in Procs /\ c # Loop
      /\ \A p \in Procs : p # Loop => p \in Callers
  BY LoopAssumption DEF Procs, TypeInv, TypeOK
<1>1. CASE LoopPlan
  BY <1>0, <1>1 DEF LoopPlan, Step, Goto, LifeInv
<1>2. CASE LoopUnscheduled
  BY <1>0, <1>2 DEF LoopUnscheduled, Step, Goto, LifeInv
<1>3. CASE LoopArm
  BY <1>0, <1>3 DEF LoopArm, Step, Goto, LifeInv
<1>4. CASE LoopStop
  BY <1>0, <1>4 DEF LoopStop, Step, Goto, LifeInv
<1>5. CASE LoopWoken
  BY <1>0, <1>5 DEF LoopWoken, Step, Goto, LifeInv
<1>6. CASE LoopTimer
  BY <1>0, <1>6 DEF LoopTimer, Step, Goto, LifeInv
<1>7. CASE LoopRewake
  BY <1>0, <1>7 DEF LoopRewake, Step, Goto, LifeInv
<1>8. CASE LoopClaim
  BY <1>0, <1>8 DEF LoopClaim, Step, Goto, LifeInv
<1>9. CASE LoopSkip
  BY <1>0, <1>9 DEF LoopSkip, Step, Goto, LifeInv
<1>10. CASE LoopAdvance
  BY <1>0, <1>10 DEF LoopAdvance, Step, Goto, LifeInv
<1>11. CASE LoopExit
  BY <1>0, <1>11 DEF LoopExit, Step, Goto, LifeInv
<1>12. ASSUME NEW p \in Procs, BeginJob(p) PROVE LifeInv'
  BY <1>0, <1>12 DEF BeginJob, Step, Goto, LifeInv
<1>13. ASSUME NEW p \in Procs, EndJob(p) PROVE LifeInv'
  BY <1>0, <1>13 DEF EndJob, Step, Goto, LifeInv
<1>14. ASSUME NEW p \in Procs, NEW to, Finish(p, to), to \in {"plan", "idle"},
              p = Loop <=> to = "plan"
       PROVE LifeInv'
  BY <1>0, <1>14 DEF Finish, Step, Goto, LifeInv
<1>15. ASSUME NEW c \in Callers, Start(c) PROVE LifeInv'
  BY <1>0, <1>15 DEF Start, Step, Goto, LifeInv
<1>16. ASSUME NEW c \in Callers, StartPlan(c) PROVE LifeInv'
  BY <1>0, <1>16 DEF StartPlan, Step, Goto, LifeInv
<1>17. ASSUME NEW c \in Callers, StartGo(c) PROVE LifeInv'
  BY <1>0, <1>17 DEF StartGo, Step, Goto, LifeInv
<1>18. ASSUME NEW c \in Callers, SetPlan(c) PROVE LifeInv'
  BY <1>0, <1>18 DEF SetPlan, Step, Goto, LifeInv
<1>19. ASSUME NEW c \in Callers, WakeSwap(c) PROVE LifeInv'
  BY <1>0, <1>19 DEF WakeSwap, Step, Goto, LifeInv
<1>20. ASSUME NEW c \in Callers, WakeClose(c) PROVE LifeInv'
  BY <1>0, <1>20 DEF WakeClose, Step, Goto, LifeInv
<1>21. ASSUME NEW c \in Callers, StopReturn(c) PROVE LifeInv'
  BY <1>0, <1>21 DEF StopReturn, Step, Goto, LifeInv
<1>22. ASSUME NEW c \in Callers, Stop(c) PROVE LifeInv'
  BY <1>0, <1>22 DEF Stop, Step, Goto, LifeInv
<1>23. ASSUME NEW c \in Callers, RunOnce(c) PROVE LifeInv'
  BY <1>0, <1>23 DEF RunOnce, Step, Goto, LifeInv
<1>24. ASSUME NEW c \in Callers, NEW sp \in Specs, SetSpec(c, sp) PROVE LifeInv'
  BY <1>0, <1>24 DEF SetSpec, Step, Goto, LifeInv
<1>25. CASE Tick
  BY <1>0, <1>25 DEF Tick, Step, Goto, LifeInv
<1>26. CASE Cancel
  BY <1>0, <1>26 DEF Cancel, Step, Goto, LifeInv
<1>27. CASE UNCHANGED vars
  BY <1>0, <1>27 DEF vars, Step, Goto, LifeInv
<1>28. CASE LoopNext
  BY <1>0, <1>28, <1>1, <1>2, <1>3, <1>4, <1>5, <1>6,
     <1>7, <1>8, <1>9, <1>10, <1>11, <1>12, <1>14 DEF LoopNext
<1>29. ASSUME NEW c \in Callers, CallerNext(c) PROVE LifeInv'
  BY <1>0, <1>29, <1>16, <1>17, <1>18, <1>19, <1>20, <1>21, <1>12, <1>14 DEF CallerNext
<1>30. ASSUME NEW c \in Callers, Call(c) PROVE LifeInv'
  BY <1>30, <1>15, <1>22, <1>23, <1>24 DEF Call
<1> QED
  BY <1>28, <1>29, <1>30, <1>13, <1>25, <1>26, <1>27 DEF Next

LEMMA LifeHolds == Spec => [](TypeInv /\ LifeInv)
BY TypeInit, TypeStep, LifeInit, LifeStep, PTL DEF Spec

\* Once the Stop that was accepted has returned, the loop has ended.
THEOREM StopReturnsAfterLoop == Spec => []StopWaitsForLoop
<1>1. LifeInv => StopWaitsForLoop
  BY DEF LifeInv, StopWaitsForLoop
<1> QED
  BY <1>1, LifeHolds, PTL

-----------------------------------------------------------------------------
(* The in-flight slot *)

LEMMA SlotInit == Init => OneJobAtATime
BY LoopAssumption DEF Init, OneJobAtATime, Holding, InJob, Procs

LEMMA SlotStep ==
  ASSUME TypeInv, LifeInv, OneJobAtATime, [Next]_vars
  PROVE  OneJobAtATime'
<1> USE DEF clock, plan, slot, life, wakes, locals
<1>0. /\ Loop \in Procs /\ Loop \notin Callers /\ pc \in [Procs -> LoopPcs \cup CallerPcs]
      /\ \A c \in Callers : c \in Procs /\ c # Loop
      /\ \A p \in Procs : p # Loop => p \in Callers
  BY LoopAssumption DEF Procs, TypeInv, TypeOK
<1>1. CASE LoopPlan
  BY <1>0, <1>1 DEF LoopPlan, Step, Goto, OneJobAtATime, Holding, InJob
<1>2. CASE LoopUnscheduled
  BY <1>0, <1>2 DEF LoopUnscheduled, Step, Goto, OneJobAtATime, Holding, InJob
<1>3. CASE LoopArm
  BY <1>0, <1>3 DEF LoopArm, Step, Goto, OneJobAtATime, Holding, InJob
<1>4. CASE LoopStop
  BY <1>0, <1>4 DEF LoopStop, Step, Goto, OneJobAtATime, Holding, InJob
<1>5. CASE LoopWoken
  BY <1>0, <1>5 DEF LoopWoken, Step, Goto, OneJobAtATime, Holding, InJob
<1>6. CASE LoopTimer
  BY <1>0, <1>6 DEF LoopTimer, Step, Goto, OneJobAtATime, Holding, InJob
<1>7. CASE LoopRewake
  BY <1>0, <1>7 DEF LoopRewake, Step, Goto, OneJobAtATime, Holding, InJob
<1>8. CASE LoopClaim
  BY <1>0, <1>8 DEF LoopClaim, Step, Goto, OneJobAtATime, Holding, InJob, CanClaim
<1>9. CASE LoopSkip
  BY <1>0, <1>9 DEF LoopSkip, Step, Goto, OneJobAtATime, Holding, InJob
<1>10. CASE LoopAdvance
  BY <1>0, <1>10 DEF LoopAdvance, Step, Goto, OneJobAtATime, Holding, InJob
<1>11. CASE LoopExit
  BY <1>0, <1>11 DEF LoopExit, Step, Goto, OneJobAtATime, Holding, InJob
<1>12. ASSUME NEW p \in Procs, BeginJob(p) PROVE OneJobAtATime'
  BY <1>0, <1>12 DEF BeginJob, Step, Goto, OneJobAtATime, Holding, InJob
<1>13. ASSUME NEW p \in Procs, EndJob(p) PROVE OneJobAtATime'
  BY <1>0, <1>13 DEF EndJob, Step, Goto, OneJobAtATime, Holding, InJob
<1>14. ASSUME NEW p \in Procs, NEW to, Finish(p, to), to \in {"plan", "idle"},
              p = Loop <=> to = "plan"
       PROVE OneJobAtATime'
  BY <1>0, <1>14 DEF Finish, Step, Goto, OneJobAtATime, Holding, InJob
<1>15. ASSUME NEW c \in Callers, Start(c) PROVE OneJobAtATime'
  BY <1>0, <1>15 DEF Start, Step, Goto, OneJobAtATime, Holding, InJob
<1>16. ASSUME NEW c \in Callers, StartPlan(c) PROVE OneJobAtATime'
  BY <1>0, <1>16 DEF StartPlan, Step, Goto, OneJobAtATime, Holding, InJob
<1>17. ASSUME NEW c \in Callers, StartGo(c) PROVE OneJobAtATime'
  BY <1>0, <1>17 DEF StartGo, Step, Goto, OneJobAtATime, Holding, InJob, LifeInv
<1>18. ASSUME NEW c \in Callers, SetPlan(c) PROVE OneJobAtATime'
  BY <1>0, <1>18 DEF SetPlan, Step, Goto, OneJobAtATime, Holding, InJob
<1>19. ASSUME NEW c \in Callers, WakeSwap(c) PROVE OneJobAtATime'
  BY <1>0, <1>19 DEF WakeSwap, Step, Goto, OneJobAtATime, Holding, InJob
<1>20. ASSUME NEW c \in Callers, WakeClose(c) PROVE OneJobAtATime'
  BY <1>0, <1>20 DEF WakeClose, Step, Goto, OneJobAtATime, Holding, InJob
<1>21. ASSUME NEW c \in Callers, StopReturn(c) PROVE OneJobAtATime'
  BY <1>0, <1>21 DEF StopReturn, Step, Goto, OneJobAtATime, Holding, InJob
<1>22. ASSUME NEW c \in Callers, Stop(c) PROVE OneJobAtATime'
  BY <1>0, <1>22 DEF Stop, Step, Goto, OneJobAtATime, Holding, InJob
<1>23. ASSUME NEW c \in Callers, RunOnce(c) PROVE OneJobAtATime'
  BY <1>0, <1>23 DEF RunOnce, Step, Goto, OneJobAtATime, Holding, InJob, CanClaim
<1>24. ASSUME NEW c \in Callers, NEW sp \in Specs, SetSpec(c, sp) PROVE OneJobAtATime'
  BY <1>0, <1>24 DEF SetSpec, Step, Goto, OneJobAtATime, Holding, InJob
<1>25. CASE Tick
  BY <1>0, <1>25 DEF Tick, Step, Goto, OneJobAtATime, Holding, InJob
<1>26. CASE Cancel
  BY <1>0, <1>26 DEF Cancel, Step, Goto, OneJobAtATime, Holding, InJob
<1>27. CASE UNCHANGED vars
  BY <1>0, <1>27 DEF vars, Step, Goto, OneJobAtATime, Holding, InJob
<1>28. CASE LoopNext
  BY <1>0, <1>28, <1>1, <1>2, <1>3, <1>4, <1>5, <1>6,
     <1>7, <1>8, <1>9, <1>10, <1>11, <1>12, <1>14 DEF LoopNext
<1>29. ASSUME NEW c \in Callers, CallerNext(c) PROVE OneJobAtATime'
  BY <1>0, <1>29, <1>16, <1>17, <1>18, <1>19, <1>20, <1>21, <1>12, <1>14 DEF CallerNext
<1>30. ASSUME NEW c \in Callers, Call(c) PROVE OneJobAtATime'
  BY <1>30, <1>15, <1>22, <1>23, <1>24 DEF Call
<1> QED
  BY <1>28, <1>29, <1>30, <1>13, <1>25, <1>26, <1>27 DEF Next

\* The job never overlaps itself, whoever runs it.
THEOREM NeverOverlaps == Spec => []OneJobAtATime
<1>1. Init => TypeInv /\ LifeInv /\ OneJobAtATime
  BY TypeInit, LifeInit, SlotInit
<1>2. TypeInv /\ LifeInv /\ OneJobAtATime /\ [Next]_vars
        => (TypeInv /\ LifeInv /\ OneJobAtATime)'
  BY TypeStep, LifeStep, SlotStep
<1> QED
  BY <1>1, <1>2, PTL DEF Spec

-----------------------------------------------------------------------------
(* The wake channels *)

\* Every channel in play was made; the one installed is newer than all that are
\* closed or about to be.
WakeInv ==
  /\ replan <= made /\ parked <= made
  /\ \A k \in closed : k <= made
  /\ \A c \in Callers : old[c] <= made
  /\ WakeChannelsCloseOnce
  /\ ParkedLoopCanBeWoken

LEMMA WakeInit == Init => WakeInv
BY LoopAssumption
   DEF Init, WakeInv, WakeChannelsCloseOnce, ParkedLoopCanBeWoken, Procs

LEMMA WakeStep ==
  ASSUME TypeInv, LifeInv, WakeInv, [Next]_vars
  PROVE  WakeInv'
<1> USE DEF clock, plan, slot, life, wakes, locals
<1>0. /\ Loop \in Procs /\ Loop \notin Callers /\ pc \in [Procs -> LoopPcs \cup CallerPcs]
      /\ \A c \in Callers : c \in Procs /\ c # Loop
      /\ \A p \in Procs : p # Loop => p \in Callers
      /\ made \in Nat /\ replan \in Nat /\ parked \in Nat /\ closed \subseteq Nat
      /\ old \in [Callers -> Nat]
  BY LoopAssumption DEF Procs, TypeInv, TypeOK
<1>1. CASE LoopPlan
  BY <1>0, <1>1 DEF LoopPlan, Step, Goto, WakeInv, WakeChannelsCloseOnce, ParkedLoopCanBeWoken
<1>2. CASE LoopUnscheduled
  BY <1>0, <1>2 DEF LoopUnscheduled, Step, Goto, WakeInv, WakeChannelsCloseOnce, ParkedLoopCanBeWoken
<1>3. CASE LoopArm
  BY <1>0, <1>3 DEF LoopArm, Step, Goto, WakeInv, WakeChannelsCloseOnce, ParkedLoopCanBeWoken
<1>4. CASE LoopStop
  BY <1>0, <1>4 DEF LoopStop, Step, Goto, WakeInv, WakeChannelsCloseOnce, ParkedLoopCanBeWoken
<1>5. CASE LoopWoken
  BY <1>0, <1>5 DEF LoopWoken, Step, Goto, WakeInv, WakeChannelsCloseOnce, ParkedLoopCanBeWoken
<1>6. CASE LoopTimer
  BY <1>0, <1>6 DEF LoopTimer, Step, Goto, WakeInv, WakeChannelsCloseOnce, ParkedLoopCanBeWoken
<1>7. CASE LoopRewake
  BY <1>0, <1>7 DEF LoopRewake, Step, Goto, WakeInv, WakeChannelsCloseOnce, ParkedLoopCanBeWoken
<1>8. CASE LoopClaim
  BY <1>0, <1>8 DEF LoopClaim, Step, Goto, WakeInv, WakeChannelsCloseOnce, ParkedLoopCanBeWoken
<1>9. CASE LoopSkip
  BY <1>0, <1>9 DEF LoopSkip, Step, Goto, WakeInv, WakeChannelsCloseOnce, ParkedLoopCanBeWoken
<1>10. CASE LoopAdvance
  BY <1>0, <1>10 DEF LoopAdvance, Step, Goto, WakeInv, WakeChannelsCloseOnce, ParkedLoopCanBeWoken
<1>11. CASE LoopExit
  BY <1>0, <1>11 DEF LoopExit, Step, Goto, WakeInv, WakeChannelsCloseOnce, ParkedLoopCanBeWoken
<1>12. ASSUME NEW p \in Procs, BeginJob(p) PROVE WakeInv'
  BY <1>0, <1>12 DEF BeginJob, Step, Goto, WakeInv, WakeChannelsCloseOnce, ParkedLoopCanBeWoken
<1>13. ASSUME NEW p \in Procs, EndJob(p) PROVE WakeInv'
  BY <1>0, <1>13 DEF EndJob, Step, Goto, WakeInv, WakeChannelsCloseOnce, ParkedLoopCanBeWoken
<1>14. ASSUME NEW p \in Procs, NEW to, Finish(p, to), to \in {"plan", "idle"},
              p = Loop <=> to = "plan"
       PROVE WakeInv'
  BY <1>0, <1>14 DEF Finish, Step, Goto, WakeInv, WakeChannelsCloseOnce, ParkedLoopCanBeWoken
<1>15. ASSUME NEW c \in Callers, Start(c) PROVE WakeInv'
  BY <1>0, <1>15 DEF Start, Step, Goto, WakeInv, WakeChannelsCloseOnce, ParkedLoopCanBeWoken, LifeInv
<1>16. ASSUME NEW c \in Callers, StartPlan(c) PROVE WakeInv'
  BY <1>0, <1>16 DEF StartPlan, Step, Goto, WakeInv, WakeChannelsCloseOnce, ParkedLoopCanBeWoken
<1>17. ASSUME NEW c \in Callers, StartGo(c) PROVE WakeInv'
  BY <1>0, <1>17 DEF StartGo, Step, Goto, WakeInv, WakeChannelsCloseOnce, ParkedLoopCanBeWoken
<1>18. ASSUME NEW c \in Callers, SetPlan(c) PROVE WakeInv'
  BY <1>0, <1>18 DEF SetPlan, Step, Goto, WakeInv, WakeChannelsCloseOnce, ParkedLoopCanBeWoken
<1>19. ASSUME NEW c \in Callers, WakeSwap(c) PROVE WakeInv'
  BY <1>0, <1>19 DEF WakeSwap, Step, Goto, WakeInv, WakeChannelsCloseOnce, ParkedLoopCanBeWoken
<1>20. ASSUME NEW c \in Callers, WakeClose(c) PROVE WakeInv'
  BY <1>0, <1>20 DEF WakeClose, Step, Goto, WakeInv, WakeChannelsCloseOnce, ParkedLoopCanBeWoken
<1>21. ASSUME NEW c \in Callers, StopReturn(c) PROVE WakeInv'
  BY <1>0, <1>21 DEF StopReturn, Step, Goto, WakeInv, WakeChannelsCloseOnce, ParkedLoopCanBeWoken
<1>22. ASSUME NEW c \in Callers, Stop(c) PROVE WakeInv'
  BY <1>0, <1>22 DEF Stop, Step, Goto, WakeInv, WakeChannelsCloseOnce, ParkedLoopCanBeWoken
<1>23. ASSUME NEW c \in Callers, RunOnce(c) PROVE WakeInv'
  BY <1>0, <1>23 DEF RunOnce, Step, Goto, WakeInv, WakeChannelsCloseOnce, ParkedLoopCanBeWoken
<1>24. ASSUME NEW c \in Callers, NEW sp \in Specs, SetSpec(c, sp) PROVE WakeInv'
  BY <1>0, <1>24 DEF SetSpec, Step, Goto, WakeInv, WakeChannelsCloseOnce, ParkedLoopCanBeWoken
<1>25. CASE Tick
  BY <1>0, <1>25 DEF Tick, Step, Goto, WakeInv, WakeChannelsCloseOnce, ParkedLoopCanBeWoken
<1>26. CASE Cancel
  BY <1>0, <1>26 DEF Cancel, Step, Goto, WakeInv, WakeChannelsCloseOnce, ParkedLoopCanBeWoken
<1>27. CASE UNCHANGED vars
  BY <1>0, <1>27 DEF vars, Step, Goto, WakeInv, WakeChannelsCloseOnce, ParkedLoopCanBeWoken
<1>28. CASE LoopNext
  BY <1>0, <1>28, <1>1, <1>2, <1>3, <1>4, <1>5, <1>6,
     <1>7, <1>8, <1>9, <1>10, <1>11, <1>12, <1>14 DEF LoopNext
<1>29. ASSUME NEW c \in Callers, CallerNext(c) PROVE WakeInv'
  BY <1>0, <1>29, <1>16, <1>17, <1>18, <1>19, <1>20, <1>21, <1>12, <1>14 DEF CallerNext
<1>30. ASSUME NEW c \in Callers, Call(c) PROVE WakeInv'
  BY <1>30, <1>15, <1>22, <1>23, <1>24 DEF Call
<1> QED
  BY <1>28, <1>29, <1>30, <1>13, <1>25, <1>26, <1>27 DEF Next

LEMMA WakeHolds == Spec => []WakeInv
BY TypeInit, TypeStep, LifeInit, LifeStep, WakeInit, WakeStep, PTL DEF Spec

\* No replan channel is closed twice: callers inside wakeLoop hold different
\* channels, all of them open.
THEOREM NoChannelClosesTwice == Spec => []WakeChannelsCloseOnce
BY WakeHolds, PTL DEF WakeInv

\* No wake is lost to a parked loop, in whatever order callers swap and close.
THEOREM WakesReachTheLoop == Spec => []ParkedLoopCanBeWoken
BY WakeHolds, PTL DEF WakeInv

-----------------------------------------------------------------------------
(* The planned tick *)

\* The timer the loop acts on has fired; there is no plan before Start.
FitInv ==
  /\ AdvertisedTickFitsSpec
  /\ pc[Loop] \in {"claim", "advance"} => fire <= now
  /\ ~started => next = NoTime
  /\ \A c \in Callers : pc[c] = "setPlan" => started

LEMMA FitInit == Init => FitInv
BY LoopAssumption DEF Init, FitInv, AdvertisedTickFitsSpec, Procs

\* The tick planNext settles on is a firing of the schedule in force.
LEMMA DueFits ==
  ASSUME TypeInv, FitInv, ~stopped
  PROVE  Due = NoTime \/ \/ spec.kind = "Interval" /\ Due <= now + spec.every
                         \/ spec.kind = "Clock" /\ Due \in spec.at
BY NextAfterIsLater, SpecsAssumption
   DEF Due, TypeInv, TypeOK, FitInv, AdvertisedTickFitsSpec, NoTime

LEMMA FitStep ==
  ASSUME TypeInv, LifeInv, FitInv, [Next]_vars
  PROVE  FitInv'
<1> USE DEF clock, plan, slot, life, wakes, locals
<1>0. /\ Loop \in Procs /\ Loop \notin Callers /\ pc \in [Procs -> LoopPcs \cup CallerPcs]
      /\ \A c \in Callers : c \in Procs /\ c # Loop
      /\ \A p \in Procs : p # Loop => p \in Callers
      /\ now \in Nat /\ fire \in Nat /\ next \in Nat \cup {NoTime} /\ spec \in Specs
      /\ spec.kind = "Interval" => spec.every \in Nat
  BY LoopAssumption, SpecsAssumption DEF Procs, TypeInv, TypeOK
<1>1. CASE LoopPlan
  BY <1>0, <1>1, DueFits DEF LoopPlan, Step, Goto, FitInv, AdvertisedTickFitsSpec, LifeInv
<1>2. CASE LoopUnscheduled
  BY <1>0, <1>2 DEF LoopUnscheduled, Step, Goto, FitInv, AdvertisedTickFitsSpec
<1>3. CASE LoopArm
  BY <1>0, <1>3 DEF LoopArm, Step, Goto, FitInv, AdvertisedTickFitsSpec
<1>4. CASE LoopStop
  BY <1>0, <1>4 DEF LoopStop, Step, Goto, FitInv, AdvertisedTickFitsSpec
<1>5. CASE LoopWoken
  BY <1>0, <1>5 DEF LoopWoken, Step, Goto, FitInv, AdvertisedTickFitsSpec
<1>6. CASE LoopTimer
  BY <1>0, <1>6 DEF LoopTimer, Step, Goto, FitInv, AdvertisedTickFitsSpec
<1>7. CASE LoopRewake
  BY <1>0, <1>7 DEF LoopRewake, Step, Goto, FitInv, AdvertisedTickFitsSpec
<1>8. CASE LoopClaim
  BY <1>0, <1>8 DEF LoopClaim, Step, Goto, FitInv, AdvertisedTickFitsSpec
<1>9. CASE LoopSkip
  BY <1>0, <1>9 DEF LoopSkip, Step, Goto, FitInv, AdvertisedTickFitsSpec
<1>10. CASE LoopAdvance
  <2>1. next' = next \/ (next' = NextAfter(spec, fire) /\ next' # NoTime)
    BY <1>10 DEF LoopAdvance
  <2>2. UNCHANGED <<spec, now, stopped, started, fire>> /\ fire <= now
    BY <1>10 DEF LoopAdvance, Step, FitInv
  <2>3. ASSUME next' = next PROVE AdvertisedTickFitsSpec'
    BY <2>2, <2>3 DEF FitInv, AdvertisedTickFitsSpec
  <2>4. ASSUME next' = NextAfter(spec, fire), next' # NoTime PROVE AdvertisedTickFitsSpec'
    <3>1. \/ spec.kind = "Interval" /\ spec.every \in Nat /\ next' = fire + spec.every
          \/ spec.kind = "Clock" /\ next' \in spec.at
      BY <1>0, <2>4, NextAfterIsLater, SpecsAssumption
    <3>2. spec' = spec /\ now' = now /\ fire <= now /\ fire \in Nat /\ now \in Nat
      BY <1>0, <2>2
    <3> QED
      BY <3>1, <3>2 DEF AdvertisedTickFitsSpec
  <2>5. AdvertisedTickFitsSpec'
    BY <2>1, <2>3, <2>4
  <2>6. started
    BY <1>10 DEF LoopAdvance, Step, LifeInv
  <2> QED
    BY <1>0, <1>10, <2>5, <2>6 DEF LoopAdvance, Step, Goto, FitInv
<1>11. CASE LoopExit
  BY <1>0, <1>11 DEF LoopExit, Step, Goto, FitInv, AdvertisedTickFitsSpec
<1>12. ASSUME NEW p \in Procs, BeginJob(p) PROVE FitInv'
  BY <1>0, <1>12 DEF BeginJob, Step, Goto, FitInv, AdvertisedTickFitsSpec
<1>13. ASSUME NEW p \in Procs, EndJob(p) PROVE FitInv'
  BY <1>0, <1>13 DEF EndJob, Step, Goto, FitInv, AdvertisedTickFitsSpec
<1>14. ASSUME NEW p \in Procs, NEW to, Finish(p, to), to \in {"plan", "idle"},
              p = Loop <=> to = "plan"
       PROVE FitInv'
  BY <1>0, <1>14 DEF Finish, Step, Goto, FitInv, AdvertisedTickFitsSpec
<1>15. ASSUME NEW c \in Callers, Start(c) PROVE FitInv'
  BY <1>0, <1>15 DEF Start, Step, Goto, FitInv, AdvertisedTickFitsSpec
<1>16. ASSUME NEW c \in Callers, StartPlan(c) PROVE FitInv'
  BY <1>0, <1>16, DueFits DEF StartPlan, Step, Goto, FitInv, AdvertisedTickFitsSpec, PlanNext, LifeInv
<1>17. ASSUME NEW c \in Callers, StartGo(c) PROVE FitInv'
  BY <1>0, <1>17 DEF StartGo, Step, Goto, FitInv, AdvertisedTickFitsSpec
<1>18. ASSUME NEW c \in Callers, SetPlan(c) PROVE FitInv'
  BY <1>0, <1>18, DueFits DEF SetPlan, Step, Goto, FitInv, AdvertisedTickFitsSpec, PlanNext
<1>19. ASSUME NEW c \in Callers, WakeSwap(c) PROVE FitInv'
  BY <1>0, <1>19 DEF WakeSwap, Step, Goto, FitInv, AdvertisedTickFitsSpec
<1>20. ASSUME NEW c \in Callers, WakeClose(c) PROVE FitInv'
  BY <1>0, <1>20 DEF WakeClose, Step, Goto, FitInv, AdvertisedTickFitsSpec
<1>21. ASSUME NEW c \in Callers, StopReturn(c) PROVE FitInv'
  BY <1>0, <1>21 DEF StopReturn, Step, Goto, FitInv, AdvertisedTickFitsSpec
<1>22. ASSUME NEW c \in Callers, Stop(c) PROVE FitInv'
  BY <1>0, <1>22 DEF Stop, Step, Goto, FitInv, AdvertisedTickFitsSpec
<1>23. ASSUME NEW c \in Callers, RunOnce(c) PROVE FitInv'
  BY <1>0, <1>23 DEF RunOnce, Step, Goto, FitInv, AdvertisedTickFitsSpec
<1>24. ASSUME NEW c \in Callers, NEW sp \in Specs, SetSpec(c, sp) PROVE FitInv'
  BY <1>0, <1>24 DEF SetSpec, Step, Goto, FitInv, AdvertisedTickFitsSpec
<1>25. CASE Tick
  BY <1>0, <1>25 DEF Tick, Step, Goto, FitInv, AdvertisedTickFitsSpec
<1>26. CASE Cancel
  BY <1>0, <1>26 DEF Cancel, Step, Goto, FitInv, AdvertisedTickFitsSpec
<1>27. CASE UNCHANGED vars
  BY <1>0, <1>27 DEF vars, Step, Goto, FitInv, AdvertisedTickFitsSpec
<1>28. CASE LoopNext
  BY <1>0, <1>28, <1>1, <1>2, <1>3, <1>4, <1>5, <1>6,
     <1>7, <1>8, <1>9, <1>10, <1>11, <1>12, <1>14 DEF LoopNext
<1>29. ASSUME NEW c \in Callers, CallerNext(c) PROVE FitInv'
  BY <1>0, <1>29, <1>16, <1>17, <1>18, <1>19, <1>20, <1>21, <1>12, <1>14 DEF CallerNext
<1>30. ASSUME NEW c \in Callers, Call(c) PROVE FitInv'
  BY <1>30, <1>15, <1>22, <1>23, <1>24 DEF Call
<1> QED
  BY <1>28, <1>29, <1>30, <1>13, <1>25, <1>26, <1>27 DEF Next

\* What Next reports is a firing of the schedule in force.
THEOREM AdvertisedTickFits == Spec => []AdvertisedTickFitsSpec
<1>1. FitInv => AdvertisedTickFitsSpec
  BY DEF FitInv
<1> QED
  BY <1>1, TypeInit, TypeStep, LifeInit, LifeStep, FitInit, FitStep, PTL DEF Spec

LEMMA TickStaysStep ==
  ASSUME TypeInv, next > now, next' # next, [Next]_vars
  PROVE  pc[Loop] = "advance" \/ next' = NoTime
<1> USE DEF clock, plan, slot, life, wakes, locals
<1>0. /\ Loop \in Procs /\ Loop \notin Callers /\ pc \in [Procs -> LoopPcs \cup CallerPcs]
      /\ \A c \in Callers : c \in Procs /\ c # Loop
      /\ \A p \in Procs : p # Loop => p \in Callers
      /\ now \in Nat /\ next \in Nat \cup {NoTime}
  BY LoopAssumption DEF Procs, TypeInv, TypeOK
<1>1. CASE LoopPlan
  BY <1>0, <1>1 DEF LoopPlan, Step, Goto, Due, NoTime
<1>2. CASE LoopUnscheduled
  BY <1>0, <1>2 DEF LoopUnscheduled, Step, Goto
<1>3. CASE LoopArm
  BY <1>0, <1>3 DEF LoopArm, Step, Goto
<1>4. CASE LoopStop
  BY <1>0, <1>4 DEF LoopStop, Step, Goto
<1>5. CASE LoopWoken
  BY <1>0, <1>5 DEF LoopWoken, Step, Goto
<1>6. CASE LoopTimer
  BY <1>0, <1>6 DEF LoopTimer, Step, Goto
<1>7. CASE LoopRewake
  BY <1>0, <1>7 DEF LoopRewake, Step, Goto
<1>8. CASE LoopClaim
  BY <1>0, <1>8 DEF LoopClaim, Step, Goto
<1>9. CASE LoopSkip
  BY <1>0, <1>9 DEF LoopSkip, Step, Goto
<1>10. CASE LoopAdvance
  BY <1>0, <1>10 DEF LoopAdvance, Step, Goto
<1>11. CASE LoopExit
  BY <1>0, <1>11 DEF LoopExit, Step, Goto
<1>12. ASSUME NEW p \in Procs, BeginJob(p) PROVE pc[Loop] = "advance" \/ next' = NoTime
  BY <1>0, <1>12 DEF BeginJob, Step, Goto
<1>13. ASSUME NEW p \in Procs, EndJob(p) PROVE pc[Loop] = "advance" \/ next' = NoTime
  BY <1>0, <1>13 DEF EndJob, Step, Goto
<1>14. ASSUME NEW p \in Procs, NEW to, Finish(p, to), to \in {"plan", "idle"},
              p = Loop <=> to = "plan"
       PROVE pc[Loop] = "advance" \/ next' = NoTime
  BY <1>0, <1>14 DEF Finish, Step, Goto
<1>15. ASSUME NEW c \in Callers, Start(c) PROVE pc[Loop] = "advance" \/ next' = NoTime
  BY <1>0, <1>15 DEF Start, Step, Goto
<1>16. ASSUME NEW c \in Callers, StartPlan(c) PROVE pc[Loop] = "advance" \/ next' = NoTime
  BY <1>0, <1>16 DEF StartPlan, Step, Goto, PlanNext, Due, NoTime
<1>17. ASSUME NEW c \in Callers, StartGo(c) PROVE pc[Loop] = "advance" \/ next' = NoTime
  BY <1>0, <1>17 DEF StartGo, Step, Goto
<1>18. ASSUME NEW c \in Callers, SetPlan(c) PROVE pc[Loop] = "advance" \/ next' = NoTime
  BY <1>0, <1>18 DEF SetPlan, Step, Goto, PlanNext, Due, NoTime
<1>19. ASSUME NEW c \in Callers, WakeSwap(c) PROVE pc[Loop] = "advance" \/ next' = NoTime
  BY <1>0, <1>19 DEF WakeSwap, Step, Goto
<1>20. ASSUME NEW c \in Callers, WakeClose(c) PROVE pc[Loop] = "advance" \/ next' = NoTime
  BY <1>0, <1>20 DEF WakeClose, Step, Goto
<1>21. ASSUME NEW c \in Callers, StopReturn(c) PROVE pc[Loop] = "advance" \/ next' = NoTime
  BY <1>0, <1>21 DEF StopReturn, Step, Goto
<1>22. ASSUME NEW c \in Callers, Stop(c) PROVE pc[Loop] = "advance" \/ next' = NoTime
  BY <1>0, <1>22 DEF Stop, Step, Goto
<1>23. ASSUME NEW c \in Callers, RunOnce(c) PROVE pc[Loop] = "advance" \/ next' = NoTime
  BY <1>0, <1>23 DEF RunOnce, Step, Goto
<1>24. ASSUME NEW c \in Callers, NEW sp \in Specs, SetSpec(c, sp) PROVE pc[Loop] = "advance" \/ next' = NoTime
  BY <1>0, <1>24 DEF SetSpec, Step, Goto
<1>25. CASE Tick
  BY <1>0, <1>25 DEF Tick, Step, Goto
<1>26. CASE Cancel
  BY <1>0, <1>26 DEF Cancel, Step, Goto
<1>27. CASE UNCHANGED vars
  BY <1>0, <1>27 DEF vars, Step, Goto
<1>28. CASE LoopNext
  BY <1>0, <1>28, <1>1, <1>2, <1>3, <1>4, <1>5, <1>6,
     <1>7, <1>8, <1>9, <1>10, <1>11, <1>12, <1>14 DEF LoopNext
<1>29. ASSUME NEW c \in Callers, CallerNext(c) PROVE pc[Loop] = "advance" \/ next' = NoTime
  BY <1>0, <1>29, <1>16, <1>17, <1>18, <1>19, <1>20, <1>21, <1>12, <1>14 DEF CallerNext
<1>30. ASSUME NEW c \in Callers, Call(c) PROVE pc[Loop] = "advance" \/ next' = NoTime
  BY <1>30, <1>15, <1>22, <1>23, <1>24 DEF Call
<1> QED
  BY <1>28, <1>29, <1>30, <1>13, <1>25, <1>26, <1>27 DEF Next

\* A planned tick that is still ahead moves only because the schedule is replaced
\* or because the tick before it is served.
THEOREM PlannedTicksStay == Spec => PlannedTickStays
<1>1. TypeInv /\ [Next]_vars =>
        [next > now /\ next' # next =>
           pc[Loop] = "advance" \/ next' = NoTime]_vars
  BY TickStaysStep
<1> QED
  BY <1>1, TypeInit, TypeStep, PTL DEF Spec, PlannedTickStays

-----------------------------------------------------------------------------
(* The promise of JobSlot *)

\* Nothing JobSlot speaks of changes when a goroutine steps without taking or
\* freeing the slot, and without ending the loop or a Stop.
LEMMA SlotSame ==
  ASSUME NEW p \in Procs, NEW from, NEW to, pc \in [Procs -> LoopPcs \cup CallerPcs],
         Step(p, from, to), from \in Holding <=> to \in Holding,
         {from, to} \cap {"off", "ended", "stopWait"} = {},
         UNCHANGED <<runs, stopped>>
  PROVE  UNCHANGED Slot!vars
<1>1. \A q \in Procs : pc'[q] \in Holding <=> pc[q] \in Holding
  BY DEF Step, Goto
<1>2. \A q \in Procs : \A l \in {"off", "ended", "stopWait"} : pc'[q] = l <=> pc[q] = l
  BY DEF Step, Goto
<1>3. Loop \in Procs /\ Callers \subseteq Procs
  BY DEF Procs
<1>4. {q \in Procs : pc'[q] \in Holding} = {q \in Procs : pc[q] \in Holding}
  BY <1>1
<1>5. {c \in Callers : pc'[c] = "stopWait"} = {c \in Callers : pc[c] = "stopWait"}
  BY <1>2, <1>3
<1>6. (IF pc[Loop] \in {"off", "ended"} THEN pc[Loop] ELSE "on")'
        = IF pc[Loop] \in {"off", "ended"} THEN pc[Loop] ELSE "on"
  BY <1>2, <1>3
<1> QED
  BY <1>4, <1>5, <1>6 DEF Slot!vars

\* The refinement mapping, by name.
Holders  == {p \in Procs : pc[p] \in Holding}
Phase    == IF pc[Loop] \in {"off", "ended"} THEN pc[Loop] ELSE "on"
Stopping == {c \in Callers : pc[c] = "stopWait"}

\* Claiming the slot makes its taker the only holder.
LEMMA SlotTaken ==
  ASSUME OneJobAtATime, ~running, NEW p \in Procs, NEW from, NEW to,
         pc \in [Procs -> LoopPcs \cup CallerPcs], Step(p, from, to), to \in Holding
  PROVE  Holders = {} /\ Holders' = {p}
BY DEF OneJobAtATime, Holders, Step, Goto

LEMMA SlotRefined ==
  ASSUME TypeInv, LifeInv, OneJobAtATime, [Next]_vars
  PROVE  [Slot!Next]_(Slot!vars)
<1> USE DEF clock, plan, slot, life, wakes, locals
<1>0. /\ Loop \in Procs /\ Loop \notin Callers /\ pc \in [Procs -> LoopPcs \cup CallerPcs]
      /\ \A c \in Callers : c \in Procs /\ c # Loop
      /\ \A p \in Procs : p # Loop => p \in Callers
  BY LoopAssumption DEF Procs, TypeInv, TypeOK
<1>1. CASE LoopPlan
  <2>1. PICK to \in {"exit", "unscheduled", "arm"} : Step(Loop, "plan", to)
    BY <1>1 DEF LoopPlan, Step
  <2> QED
    BY <1>0, <1>1, <2>1, SlotSame DEF LoopPlan, Holding, InJob
<1>2. CASE LoopUnscheduled
  BY <1>0, <1>2, SlotSame DEF LoopUnscheduled, Holding, InJob
<1>3. CASE LoopArm
  BY <1>0, <1>3, SlotSame DEF LoopArm, Holding, InJob
<1>4. CASE LoopStop
  BY <1>0, <1>4, SlotSame DEF LoopStop, Holding, InJob
<1>5. CASE LoopWoken
  BY <1>0, <1>5, SlotSame DEF LoopWoken, Holding, InJob
<1>6. CASE LoopTimer
  BY <1>0, <1>6, SlotSame DEF LoopTimer, Holding, InJob
<1>7. CASE LoopRewake
  BY <1>0, <1>7, SlotSame DEF LoopRewake, Holding, InJob
<1>8. CASE LoopClaim
  <2>1. CASE ~CanClaim
    BY <1>0, <1>8, <2>1, SlotSame DEF LoopClaim, Holding, InJob
  <2>2. CASE CanClaim
    <3>1. Step(Loop, "claim", "advance") /\ ~running /\ ~stopped /\ UNCHANGED <<runs, stopped>>
      BY <1>8, <2>2 DEF LoopClaim, CanClaim
    <3>2. Holders = {} /\ Holders' = {Loop}
      BY <1>0, <3>1, SlotTaken DEF Holding
    <3>3. Phase = "on" /\ UNCHANGED <<Phase, Stopping>>
      BY <1>0, <3>1 DEF Step, Goto, Phase, Stopping
    <3> QED
      BY <1>0, <3>1, <3>2, <3>3 DEF Slot!Next, Slot!Take, Holders, Phase, Stopping
  <2> QED
    BY <2>1, <2>2
<1>9. CASE LoopSkip
  BY <1>0, <1>9, SlotSame DEF LoopSkip, Holding, InJob
<1>10. CASE LoopAdvance
  BY <1>0, <1>10, SlotSame DEF LoopAdvance, Holding, InJob
<1>11. CASE LoopExit
  <2>1. Step(Loop, "exit", "ended") /\ UNCHANGED <<runs, stopped>>
    BY <1>11 DEF LoopExit
  <2>2. Phase = "on" /\ Phase' = "ended" /\ UNCHANGED <<Holders, Stopping>> /\ Loop \notin Holders
    BY <1>0, <2>1 DEF Step, Goto, Phase, Stopping, Holders, Holding, InJob
  <2> QED
    BY <2>1, <2>2 DEF Slot!Next, Slot!End, Holders, Phase, Stopping
<1>12. ASSUME NEW p \in Procs, BeginJob(p) PROVE [Slot!Next]_(Slot!vars)
  BY <1>0, <1>12, SlotSame DEF BeginJob, Holding, InJob
<1>13. ASSUME NEW p \in Procs, EndJob(p) PROVE [Slot!Next]_(Slot!vars)
  BY <1>0, <1>13, SlotSame DEF EndJob, Holding, InJob
<1>14. ASSUME NEW p \in Procs, NEW to, Finish(p, to), to \in {"plan", "idle"},
              p = Loop <=> to = "plan"
       PROVE [Slot!Next]_(Slot!vars)
  <2>1. Step(p, "finish", to) /\ runs' = runs + 1 /\ UNCHANGED stopped
    BY <1>14 DEF Finish
  <2>2. p \in Holders /\ Holders' = {}
    BY <1>0, <1>14, <2>1 DEF Step, Goto, Holders, OneJobAtATime, Holding, InJob
  <2>3. UNCHANGED <<Phase, Stopping>>
    BY <1>0, <1>14, <2>1 DEF Step, Goto, Phase, Stopping
  <2> QED
    BY <2>1, <2>2, <2>3 DEF Slot!Next, Slot!Release, Holders, Phase, Stopping
<1>15. ASSUME NEW c \in Callers, Start(c) PROVE [Slot!Next]_(Slot!vars)
  BY <1>0, <1>15, SlotSame DEF Start, Holding, InJob
<1>16. ASSUME NEW c \in Callers, StartPlan(c) PROVE [Slot!Next]_(Slot!vars)
  BY <1>0, <1>16, SlotSame DEF StartPlan, Holding, InJob
<1>17. ASSUME NEW c \in Callers, StartGo(c) PROVE [Slot!Next]_(Slot!vars)
  <2>1. pc[c] = "startGo" /\ pc' = [pc EXCEPT ![c] = "idle", ![Loop] = "plan"]
        /\ pc[Loop] = "off" /\ UNCHANGED <<runs, stopped>>
    BY <1>17 DEF StartGo, LifeInv
  <2>2. Phase = "off" /\ Phase' = "on" /\ UNCHANGED <<Holders, Stopping>>
    BY <1>0, <2>1 DEF Phase, Stopping, Holders, Holding, InJob
  <2> QED
    BY <2>1, <2>2 DEF Slot!Next, Slot!Launch, Holders, Phase, Stopping
<1>18. ASSUME NEW c \in Callers, SetPlan(c) PROVE [Slot!Next]_(Slot!vars)
  BY <1>0, <1>18, SlotSame DEF SetPlan, Holding, InJob
<1>19. ASSUME NEW c \in Callers, WakeSwap(c) PROVE [Slot!Next]_(Slot!vars)
  BY <1>0, <1>19, SlotSame DEF WakeSwap, Holding, InJob
<1>20. ASSUME NEW c \in Callers, WakeClose(c) PROVE [Slot!Next]_(Slot!vars)
  BY <1>0, <1>20, SlotSame DEF WakeClose, Holding, InJob
<1>21. ASSUME NEW c \in Callers, StopReturn(c) PROVE [Slot!Next]_(Slot!vars)
  <2>1. Step(c, "stopWait", "idle") /\ pc[Loop] = "ended" /\ UNCHANGED <<runs, stopped>>
    BY <1>21 DEF StopReturn, LifeInv
  <2>2. /\ c \in Stopping /\ Stopping' = Stopping \ {c}
        /\ Phase = "ended" /\ UNCHANGED <<Holders, Phase>>
    BY <1>0, <2>1 DEF Step, Goto, Phase, Stopping, Holders, Holding, InJob
  <2> QED
    BY <1>0, <2>1, <2>2 DEF Slot!Next, Slot!Return, Holders, Phase, Stopping
<1>22. ASSUME NEW c \in Callers, Stop(c) PROVE [Slot!Next]_(Slot!vars)
  <2>1. Step(c, "idle", "stopWait") /\ ~stopped /\ stopped' /\ UNCHANGED runs
    BY <1>22 DEF Stop
  <2>2. Stopping' = Stopping \cup {c} /\ UNCHANGED <<Holders, Phase>>
    BY <1>0, <2>1 DEF Step, Goto, Phase, Stopping, Holders, Holding, InJob
  <2> QED
    BY <1>0, <2>1, <2>2 DEF Slot!Next, Slot!Close, Holders, Phase, Stopping
<1>23. ASSUME NEW c \in Callers, RunOnce(c) PROVE [Slot!Next]_(Slot!vars)
  <2>1. Step(c, "idle", "begin") /\ ~running /\ ~stopped /\ UNCHANGED <<runs, stopped>>
    BY <1>23 DEF RunOnce, CanClaim
  <2>2. Holders = {} /\ Holders' = {c}
    BY <1>0, <2>1, SlotTaken DEF Holding, InJob
  <2>3. UNCHANGED <<Phase, Stopping>>
    BY <1>0, <2>1 DEF Step, Goto, Phase, Stopping
  <2> QED
    BY <1>0, <2>1, <2>2, <2>3 DEF Slot!Next, Slot!Take, Holders, Phase, Stopping
<1>24. ASSUME NEW c \in Callers, NEW sp \in Specs, SetSpec(c, sp) PROVE [Slot!Next]_(Slot!vars)
  BY <1>0, <1>24, SlotSame DEF SetSpec, Holding, InJob
<1>25. CASE Tick
  BY <1>25 DEF Tick, Slot!vars
<1>26. CASE Cancel
  BY <1>26 DEF Cancel, Slot!vars
<1>27. CASE UNCHANGED vars
  BY <1>27 DEF vars, Slot!vars
<1>28. CASE LoopNext
  BY <1>0, <1>28, <1>1, <1>2, <1>3, <1>4, <1>5, <1>6,
     <1>7, <1>8, <1>9, <1>10, <1>11, <1>12, <1>14 DEF LoopNext
<1>29. ASSUME NEW c \in Callers, CallerNext(c) PROVE [Slot!Next]_(Slot!vars)
  BY <1>0, <1>29, <1>16, <1>17, <1>18, <1>19, <1>20, <1>21, <1>12, <1>14 DEF CallerNext
<1>30. ASSUME NEW c \in Callers, Call(c) PROVE [Slot!Next]_(Slot!vars)
  BY <1>30, <1>15, <1>22, <1>23, <1>24 DEF Call
<1> QED
  BY <1>28, <1>29, <1>30, <1>13, <1>25, <1>26, <1>27 DEF Next


\* The scheduler implements JobSlot.
THEOREM Refinement == Spec => ImplementsJobSlot
<1>1. Init => Slot!Init
  BY LoopAssumption DEF Init, Slot!Init, Procs, Holding, InJob
<1>2. TypeInv /\ LifeInv /\ OneJobAtATime /\ [Next]_vars => [Slot!Next]_(Slot!vars)
  BY SlotRefined
<1>3. Spec => [](TypeInv /\ LifeInv)
  BY LifeHolds
<1> QED
  BY <1>1, <1>2, <1>3, NeverOverlaps, PTL DEF Spec, ImplementsJobSlot, Slot!Spec

\* After a stop no job is begun: JobSlot's Take is the only way in, and it is
\* closed.
THEOREM NoJobBeginsAfterStop == Spec => NoJobAfterStop
<1>1. ASSUME TypeInv, LifeInv, OneJobAtATime, OneJobAtATime', [Next]_vars,
             stopped, ~running
      PROVE  ~running'
  <2>1. [Slot!Next]_(Slot!vars)
    BY <1>1, SlotRefined
  <2>2. Holders = {}
    BY <1>1 DEF OneJobAtATime, Holders
  <2>3. Holders' \subseteq Holders
    BY <1>1, <2>1, <2>2
       DEF Slot!Next, Slot!Launch, Slot!Take, Slot!Release, Slot!Close,
           Slot!End, Slot!Return, Slot!vars, Holders
  <2> QED
    BY <1>1, <2>2, <2>3 DEF OneJobAtATime, Holders
<1>2. /\ TypeInv /\ LifeInv /\ OneJobAtATime /\ OneJobAtATime' /\ [Next]_vars
      => [stopped => ~(running' /\ ~running)]_vars
  BY <1>1
<1> QED
  BY <1>2, LifeHolds, NeverOverlaps, PTL DEF Spec, NoJobAfterStop

-----------------------------------------------------------------------------
(* The cadence *)

\* Products and quotients of durations, which the provers take one fact at a time.
LEMMA Products ==
  ASSUME NEW a \in Nat, NEW b \in Nat, NEW e \in Nat \ {0}
  PROVE  /\ a * e \in Nat /\ b * e \in Nat
         /\ (a + 1) * e = a * e + e /\ (a + b) * e = a * e + b * e
OBVIOUS

LEMMA Quotient ==
  ASSUME NEW t \in Nat, NEW e \in Nat \ {0}
  PROVE  t \div e \in Nat /\ (t \div e) * e <= t /\ t < (t \div e) * e + e
OBVIOUS

\* a whole intervals that fit into t are counted by t \div e.
LEMMA WholeIntervals ==
  ASSUME NEW a \in Nat, NEW t \in Nat, NEW e \in Nat \ {0}, a * e <= t
  PROVE  a <= t \div e
<1> SUFFICES ASSUME a >= (t \div e) + 1 PROVE FALSE
  BY Quotient
<1>1. PICK d \in Nat : d = t \div e
  BY Quotient
<1>2. PICK b \in Nat : a = d + 1 + b
  <2>1. a - (d + 1) \in Nat /\ a = d + 1 + (a - (d + 1))
    BY <1>1
  <2> QED
    BY <2>1
<1>3. a * e = d * e + e + b * e
  BY <1>2, Products
<1> QED
  BY <1>1, <1>3, Quotient, Products

Cadence == calls = 0 /\ spec.kind = "Interval"
Counted == runs + skipped
Timed   == {"arm", "select", "claim", "skip", "advance"}
Served  == {"begin", "job", "finish"}
Called  == Holding \cup {"setPlan"}     \* where only RunOnce and SetSpec bring a caller

\* The ticks counted so far fit before now, and one more of them before the tick
\* that is planned or served; a run ends no earlier than its tick and its length
\* say, and its missed ticks fit into what it took.
CadenceInv ==
  Cadence =>
    /\ \A c \in Callers : pc[c] \notin Called
    /\ Counted * spec.every <= now
    /\ next > now => (Counted + 1) * spec.every <= next
    /\ pc[Loop] \in Timed => next = fire
    /\ pc[Loop] \in Served => next = fire + spec.every
    /\ pc[Loop] \in Timed \cup Served => (Counted + 1) * spec.every <= fire
    /\ pc[Loop] \in {"claim", "skip", "advance"} \cup Served => fire <= now
    /\ pc[Loop] \in {"job", "finish"} => fire <= begun[Loop]
    /\ pc[Loop] = "finish" => begun[Loop] + took[Loop] <= now

LEMMA CadenceInit == Init => CadenceInv
<1> SUFFICES ASSUME Init PROVE CadenceInv
  OBVIOUS
<1>1. ASSUME Cadence PROVE spec.every \in Nat \ {0}
  BY <1>1, SpecsAssumption DEF Init, Cadence
<1>2. Cadence => Counted * spec.every = 0
  BY <1>1 DEF Init, Counted
<1>3. pc[Loop] = "off" /\ \A c \in Callers : pc[c] = "idle"
  BY LoopAssumption DEF Init, Procs
<1> QED
  BY <1>2, <1>3 DEF Init, CadenceInv, Timed, Served, Called, Holding, InJob, NoTime

\* A step of the loop or of a caller after which the counts, the plan and the
\* timer are what they were.
LEMMA CadenceStays ==
  ASSUME TypeInv, CadenceInv, NEW p \in Procs, NEW from, NEW to, Step(p, from, to),
         p \in Callers => to \notin Called,
         p = Loop => \/ to \notin Timed \cup Served
                     \/ from = "arm" /\ to = "select"
                     \/ from = "claim" /\ to \in {"skip", "advance"}
                     \/ from = "select" /\ to = "claim" /\ fire <= now,
         UNCHANGED <<now, spec, next, runs, skipped, fire, begun, took, calls>>
  PROVE  CadenceInv'
<1>1. Cadence' = Cadence /\ Counted' = Counted
  BY DEF Cadence, Counted
<1>2. /\ Loop \notin Callers /\ Loop \in Procs /\ pc \in [Procs -> LoopPcs \cup CallerPcs]
      /\ pc' = [pc EXCEPT ![p] = to] /\ pc[p] = from
  BY LoopAssumption DEF TypeInv, TypeOK, Procs, Step, Goto
<1>3. /\ \A c \in Callers : c \in Procs /\ (pc'[c] = pc[c] \/ pc'[c] \notin Called)
      /\ pc'[Loop] = IF p = Loop THEN to ELSE pc[Loop]
  BY <1>2 DEF Procs
<1>4. CASE p = Loop /\ to \notin Timed \cup Served
  BY <1>1, <1>2, <1>3, <1>4 DEF CadenceInv, Timed, Served
<1>5. CASE p = Loop /\ to \in Timed \cup Served
  BY <1>1, <1>2, <1>3, <1>5 DEF CadenceInv, Timed, Served
<1>6. CASE p # Loop
  BY <1>1, <1>2, <1>3, <1>6 DEF CadenceInv
<1> QED
  BY <1>4, <1>5, <1>6

\* planNext: a tick that is kept is what it was, a new one is an interval from now.
LEMMA CadencePlans ==
  ASSUME TypeInv, CadenceInv, Cadence
  PROVE  /\ spec.every \in Nat \ {0} /\ Counted \in Nat /\ Due \in Nat /\ Due > now
         /\ (Counted + 1) * spec.every <= Due
<1>1. /\ spec.every \in Nat \ {0} /\ Counted \in Nat /\ now \in Nat /\ next \in Nat \cup {NoTime}
      /\ NextAfter(spec, now) = now + spec.every
  BY SpecsAssumption, NextAfterIsLater DEF TypeInv, TypeOK, Cadence, Counted
<1>2. (Counted + 1) * spec.every = Counted * spec.every + spec.every /\ Counted * spec.every \in Nat
  BY <1>1, Products
<1>3. CASE next # NoTime /\ next > now
  BY <1>1, <1>3 DEF Due, CadenceInv, NoTime
<1>4. CASE ~(next # NoTime /\ next > now)
  BY <1>1, <1>2, <1>4 DEF Due, CadenceInv
<1> QED
  BY <1>3, <1>4

\* The run of the tick fire ends: with it are counted the intervals that it took.
LEMMA CadenceFinishes ==
  ASSUME TypeInv, CadenceInv, Finish(Loop, "plan")
  PROVE  CadenceInv'
<1> SUFFICES ASSUME Cadence' PROVE CadenceInv'
  BY DEF CadenceInv
<1>1. /\ Cadence /\ pc[Loop] = "finish" /\ pc' = [pc EXCEPT ![Loop] = "plan"]
      /\ runs' = runs + 1 /\ skipped' = skipped + Missed(Loop)
      /\ UNCHANGED <<now, spec, next, fire, calls>>
  BY DEF Finish, Step, Goto, Cadence, clock, plan
<1>2. PICK e \in Nat \ {0}, n \in Nat, m \in Nat, k \in Nat :
        e = spec.every /\ n = Counted /\ m = Missed(Loop) /\ k = took[Loop]
  BY <1>1, SpecsAssumption, MissedIsNat, SMTT(30) DEF TypeInv, TypeOK, Cadence, Counted, Procs
<1>3. Counted' = n + 1 + m
  BY <1>1, <1>2 DEF Counted, TypeInv, TypeOK
<1>4. /\ m = IF k > e THEN k \div e ELSE 0
      /\ m * e <= k
  BY <1>1, <1>2, Quotient, Products, SMTT(30) DEF Missed, Cadence
<1>5. /\ n * e + e <= fire /\ fire + k <= now /\ next = fire + e
      /\ fire \in Nat /\ now \in Nat /\ begun[Loop] \in Nat
  BY <1>1, <1>2, Products DEF CadenceInv, Timed, Served, TypeInv, TypeOK, Procs
<1>6. (n + 1 + m) * e = n * e + e + m * e /\ n * e \in Nat /\ m * e \in Nat
      /\ (n + 1 + m + 1) * e = n * e + e + m * e + e
  BY Products
<1>7. (n + 1 + m) * e <= now
  BY <1>4, <1>5, <1>6
<1>8. next > now => (n + 1 + m + 1) * e <= next
  <2>1. next > now => k <= e /\ m * e = 0
    BY <1>4, <1>5
  <2> QED
    BY <1>5, <1>6, <2>1
<1>9. pc'[Loop] = "plan" /\ \A c \in Callers : pc'[c] = pc[c]
  BY <1>1, LoopAssumption DEF TypeInv, TypeOK, Procs
<1> QED
  BY <1>1, <1>2, <1>3, <1>7, <1>8, <1>9 DEF CadenceInv, Timed, Served

LEMMA CadenceStep ==
  ASSUME TypeInv, LifeInv, CadenceInv, [Next]_vars
  PROVE  CadenceInv'
<1> USE DEF clock, plan, slot, life, wakes, locals
<1>0. /\ Loop \in Procs /\ Loop \notin Callers /\ pc \in [Procs -> LoopPcs \cup CallerPcs]
      /\ \A c \in Callers : c \in Procs /\ c # Loop
      /\ \A p \in Procs : p # Loop => p \in Callers
      /\ now \in Nat /\ fire \in Nat /\ next \in Nat \cup {NoTime} /\ spec \in Specs
      /\ begun \in [Procs -> Nat] /\ took \in [Procs -> Nat] /\ calls \in Nat
      /\ Cadence => spec.every \in Nat \ {0}
  BY LoopAssumption, SpecsAssumption DEF Procs, TypeInv, TypeOK, Cadence
<1>1. CASE LoopPlan
  <2>1. CASE Goto(Loop, "exit") /\ UNCHANGED <<next, fire>>
    BY <1>0, <1>1, <2>1, CadenceStays DEF LoopPlan, Step, Timed, Served
  <2>2. CASE next' = Due /\ Due = NoTime
    <3>1. ~Cadence /\ Cadence' = Cadence
      BY <1>1, <2>2, CadencePlans DEF LoopPlan, Cadence, NoTime
    <3> QED
      BY <3>1 DEF CadenceInv
  <2>3. CASE next' = Due /\ Due # NoTime /\ Goto(Loop, "arm") /\ fire' = Due
    <3>1. Cadence' = Cadence /\ Counted' = Counted /\ UNCHANGED <<spec, now>>
      BY <1>1 DEF LoopPlan, Cadence, Counted
    <3>2. pc'[Loop] = "arm" /\ \A c \in Callers : pc'[c] = pc[c]
      BY <1>0, <2>3 DEF Goto
    <3> QED
      BY <2>3, <3>1, <3>2, CadencePlans DEF CadenceInv, Timed, Served
  <2> QED
    BY <1>1, <2>1, <2>2, <2>3 DEF LoopPlan

<1>2. CASE LoopUnscheduled
  BY <1>0, <1>2, CadenceStays DEF LoopUnscheduled, Step, Timed, Served
<1>3. CASE LoopArm
  BY <1>0, <1>3, CadenceStays DEF LoopArm, Step, Timed, Served
<1>4. CASE LoopStop
  BY <1>0, <1>4, CadenceStays DEF LoopStop, Step, Timed, Served
<1>5. CASE LoopWoken
  BY <1>0, <1>5, CadenceStays DEF LoopWoken, Step, Timed, Served
<1>6. CASE LoopTimer
  BY <1>0, <1>6, CadenceStays DEF LoopTimer, Step, Timed, Served
<1>7. CASE LoopRewake
  BY <1>0, <1>7, CadenceStays DEF LoopRewake, Step, Timed, Served
<1>8. CASE LoopClaim
  BY <1>0, <1>8, CadenceStays DEF LoopClaim, Step, Timed, Served
<1>9. CASE LoopSkip
  <2> SUFFICES ASSUME Cadence' PROVE CadenceInv'
    BY DEF CadenceInv
  <2>1. /\ Cadence /\ pc[Loop] = "skip" /\ skipped' = skipped + 1
        /\ UNCHANGED <<now, spec, next, fire, runs>>
    BY <1>9 DEF LoopSkip, Step, Cadence
  <2>2. Counted' = Counted + 1 /\ Counted \in Nat
    BY <2>1 DEF Counted, TypeInv, TypeOK
  <2>3. pc'[Loop] = "plan" /\ \A c \in Callers : pc'[c] = pc[c]
    BY <1>0, <1>9 DEF LoopSkip, Step, Goto
  <2>4. (Counted + 1) * spec.every <= fire /\ fire <= now /\ next = fire
    BY <2>1 DEF CadenceInv, Timed, Served
  <2>5. (Counted + 1) * spec.every \in Nat
    BY <1>0, <2>1, <2>2, Products
  <2>6. Counted' * spec.every' <= now' /\ ~(next' > now')
    BY <1>0, <2>1, <2>2, <2>4, <2>5
  <2> QED
    BY <2>1, <2>3, <2>6 DEF CadenceInv, Timed, Served
<1>10. CASE LoopAdvance
  <2> SUFFICES ASSUME Cadence' PROVE CadenceInv'
    BY DEF CadenceInv
  <2>1. Cadence /\ pc[Loop] = "advance" /\ UNCHANGED <<now, spec, fire, begun, took>>
    BY <1>10 DEF LoopAdvance, Step, Cadence
  <2>2. next' = fire + spec.every
    BY <1>0, <1>10, <2>1, NextAfterIsLater DEF LoopAdvance, Cadence, NoTime
  <2>3. Counted' = Counted /\ Counted \in Nat
    BY <1>10 DEF LoopAdvance, Counted, TypeInv, TypeOK
  <2>4. pc'[Loop] = "begin" /\ \A c \in Callers : pc'[c] = pc[c]
    BY <1>0, <1>10 DEF LoopAdvance, Step, Goto
  <2>5. (Counted + 1) * spec.every <= fire /\ fire <= now /\ Counted * spec.every <= now
    BY <2>1 DEF CadenceInv, Timed, Served
  <2>6. (Counted + 1) * spec.every \in Nat
    BY <1>0, <2>1, <2>3, Products
  <2>7. (Counted + 1) * spec.every <= next'
    BY <1>0, <2>1, <2>2, <2>5, <2>6
  <2>8. \A c \in Callers : pc'[c] \notin Called
    BY <2>1, <2>4 DEF CadenceInv
  <2> QED
    BY <2>1, <2>2, <2>3, <2>4, <2>5, <2>7, <2>8 DEF CadenceInv, Timed, Served
<1>11. CASE LoopExit
  BY <1>0, <1>11, CadenceStays DEF LoopExit, Step, Timed, Served
<1>12. ASSUME NEW p \in Procs, BeginJob(p) PROVE CadenceInv'
  <2> SUFFICES ASSUME Cadence' PROVE CadenceInv'
    BY DEF CadenceInv
  <2>1. /\ Cadence /\ Counted' = Counted /\ pc[p] = "begin" /\ pc' = [pc EXCEPT ![p] = "job"]
        /\ begun' = [begun EXCEPT ![p] = now] /\ UNCHANGED <<now, spec, next, fire, took>>
    BY <1>12 DEF BeginJob, Step, Goto, Cadence, Counted
  <2>2. p = Loop
    BY <1>0, <2>1 DEF CadenceInv, Called, Holding, InJob
  <2>3. pc'[Loop] = "job" /\ begun'[Loop] = now /\ \A c \in Callers : pc'[c] = pc[c]
    BY <1>0, <2>1, <2>2
  <2> QED
    BY <2>1, <2>2, <2>3 DEF CadenceInv, Timed, Served
<1>13. ASSUME NEW p \in Procs, EndJob(p) PROVE CadenceInv'
  <2> SUFFICES ASSUME Cadence' PROVE CadenceInv'
    BY DEF CadenceInv
  <2>1. /\ Cadence /\ Counted' = Counted /\ pc[p] = "job" /\ pc' = [pc EXCEPT ![p] = "finish"]
        /\ took' = [took EXCEPT ![p] = now - begun[p]]
        /\ UNCHANGED <<now, spec, next, fire, begun>>
    BY <1>13 DEF EndJob, Step, Goto, Cadence, Counted
  <2>2. p = Loop
    BY <1>0, <2>1 DEF CadenceInv, Called, Holding, InJob
  <2>3. /\ pc'[Loop] = "finish" /\ took'[Loop] = now - begun[Loop] /\ begun[Loop] \in Nat
        /\ \A c \in Callers : pc'[c] = pc[c]
    BY <1>0, <2>1, <2>2
  <2> QED
    BY <1>0, <2>1, <2>2, <2>3 DEF CadenceInv, Timed, Served
<1>14. ASSUME NEW c \in Callers, Finish(c, "idle") PROVE CadenceInv'
  <2>1. Cadence' = Cadence /\ pc[c] = "finish"
    BY <1>14 DEF Finish, Step, Cadence
  <2> QED
    BY <2>1 DEF CadenceInv, Called, Holding, InJob
<1>15. ASSUME NEW c \in Callers, Start(c) PROVE CadenceInv'
  BY <1>0, <1>15, CadenceStays DEF Start, Called, Holding, InJob
<1>16. ASSUME NEW c \in Callers, StartPlan(c) PROVE CadenceInv'
  <2> SUFFICES ASSUME Cadence' PROVE CadenceInv'
    BY DEF CadenceInv
  <2>1. /\ Cadence /\ Counted' = Counted /\ next' = IF stopped THEN next ELSE Due
        /\ UNCHANGED <<now, spec, fire, begun, took>>
    BY <1>16 DEF StartPlan, PlanNext, Cadence, Counted
  <2>2. /\ pc[Loop] = "off" /\ pc'[Loop] = "off"
        /\ \A d \in Callers : pc'[d] = pc[d] \/ pc'[d] \notin Called
    BY <1>0, <1>16 DEF StartPlan, Step, Goto, LifeInv, Called, Holding, InJob
  <2> QED
    BY <2>1, <2>2, CadencePlans DEF CadenceInv, Timed, Served
<1>17. ASSUME NEW c \in Callers, StartGo(c) PROVE CadenceInv'
  <2>1. /\ Cadence' = Cadence /\ Counted' = Counted
        /\ UNCHANGED <<now, spec, next, fire, begun, took>>
    BY <1>17 DEF StartGo, Cadence, Counted
  <2>2. pc'[Loop] = "plan" /\ \A d \in Callers : pc'[d] = pc[d] \/ pc'[d] \notin Called
    BY <1>0, <1>17 DEF StartGo, Called, Holding, InJob
  <2> QED
    BY <2>1, <2>2 DEF CadenceInv, Timed, Served
<1>18. ASSUME NEW c \in Callers, SetPlan(c) PROVE CadenceInv'
  <2>1. Cadence' = Cadence /\ pc[c] = "setPlan"
    BY <1>18 DEF SetPlan, Step, Cadence
  <2> QED
    BY <2>1 DEF CadenceInv, Called

<1>19. ASSUME NEW c \in Callers, WakeSwap(c) PROVE CadenceInv'
  BY <1>0, <1>19, CadenceStays DEF WakeSwap, Called, Holding, InJob
<1>20. ASSUME NEW c \in Callers, WakeClose(c) PROVE CadenceInv'
  BY <1>0, <1>20, CadenceStays DEF WakeClose, Called, Holding, InJob
<1>21. ASSUME NEW c \in Callers, StopReturn(c) PROVE CadenceInv'
  BY <1>0, <1>21, CadenceStays DEF StopReturn, Called, Holding, InJob
<1>22. ASSUME NEW c \in Callers, Stop(c) PROVE CadenceInv'
  BY <1>0, <1>22, CadenceStays DEF Stop, Called, Holding, InJob
<1>23. ASSUME NEW c \in Callers, (RunOnce(c) \/ \E sp \in Specs : SetSpec(c, sp)) PROVE CadenceInv'
  <2>1. calls' = calls + 1
    BY <1>23 DEF RunOnce, SetSpec, May
  <2> QED
    BY <1>0, <2>1 DEF CadenceInv, Cadence
<1>24. CASE Tick
  <2> SUFFICES ASSUME Cadence' PROVE CadenceInv'
    BY DEF CadenceInv
  <2>1. /\ Cadence /\ Counted' = Counted /\ now' = now + 1
        /\ UNCHANGED <<spec, next, fire, begun, took, pc>>
    BY <1>24 DEF Tick, Cadence, Counted
  <2>2. Counted \in Nat /\ Counted * spec.every \in Nat
    BY <1>0, <2>1, Products DEF Counted, TypeInv, TypeOK
  <2>3. begun[Loop] \in Nat /\ took[Loop] \in Nat
    BY <1>0
  <2> QED
    BY <1>0, <2>1, <2>2, <2>3 DEF CadenceInv
<1>25. CASE Cancel \/ UNCHANGED vars
  BY <1>25 DEF Cancel, vars, CadenceInv, Cadence, Counted
<1>26. CASE LoopNext
  BY <1>0, <1>26, <1>1, <1>2, <1>3, <1>4, <1>5, <1>6, <1>7, <1>8, <1>9, <1>10, <1>11,
     <1>12, CadenceFinishes DEF LoopNext
<1>27. ASSUME NEW c \in Callers, CallerNext(c) PROVE CadenceInv'
  BY <1>0, <1>27, <1>12, <1>14, <1>16, <1>17, <1>18, <1>19, <1>20, <1>21 DEF CallerNext
<1>28. ASSUME NEW c \in Callers, Call(c) PROVE CadenceInv'
  BY <1>28, <1>15, <1>22, <1>23 DEF Call
<1> QED
  BY <1>13, <1>24, <1>25, <1>26, <1>27, <1>28 DEF Next

\* loop, finish: while the schedule is not replaced and nobody calls RunOnce, runs and
\* skips together are never more than the ticks the cadence has had.
THEOREM TicksCountOnce == Spec => []EveryTickCountsOnce
<1>1. TypeInv /\ CadenceInv => EveryTickCountsOnce
  <2> SUFFICES ASSUME TypeInv, CadenceInv, Cadence PROVE runs + skipped <= now \div spec.every
    BY DEF EveryTickCountsOnce, Cadence
  <2>1. Counted \in Nat /\ now \in Nat /\ spec.every \in Nat \ {0}
    BY SpecsAssumption DEF TypeInv, TypeOK, Counted, Cadence
  <2>2. Counted <= now \div spec.every
    BY <2>1, WholeIntervals DEF CadenceInv
  <2> QED
    BY <2>2 DEF Counted
<1> QED
  BY <1>1, TypeInit, TypeStep, LifeInit, LifeStep, CadenceInit, CadenceStep, PTL DEF Spec

=============================================================================
