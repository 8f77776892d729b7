---------------------------- MODULE ServerProofs ----------------------------
(***************************************************************************)
(* Theorems about Server, for any number of PUT handlers, configurations,  *)
(* requests, firings and runs: who may hold which lock where, that one run *)
(* is on at a time, what the file, the process and the armed scheduler     *)
(* have to do with each other, and what the history keeps.                 *)
(***************************************************************************)
EXTENDS Server, ListProofs, FiniteSetTheorems

-----------------------------------------------------------------------------
(* What a step leaves alone, by group of variables *)

\* The steps that may change the configuration; the seven lemmas after it say the same
\* of the other groups of variables.
LEMMA ConfigFrame ==
  [Next]_vars =>
    \/ UNCHANGED config
    \/ \E w \in Writers, c \in Configs : PutSave(w, c)
    \/ \E w \in Writers : PutSwap(w) \/ PutDebug(w)
    \/ \E r \in RunIds : RunLoad(r) \/ RunWrite(r) \/ RunUnwritten(r) \/ DeleteLoad(r)
    \/ DeleteWrite
  BY DEF Next, vars, PutNext, LoopNext, RunNext, others, PutArm, PutStayOff, PutStop,
         PutStopped, PutStatus, PostRun, LoopTick, LoopJob, LoopAwait, LoopFinish,
         LoopEnd, RunFailFast, RunMeasured, RunPanic, RunStatus, RunRelease, RunClose,
         CancelRun, Cancel, RunUnread

LEMMA ArmedFrame ==
  [Next]_vars =>
    \/ UNCHANGED armed
    \/ \E w \in Writers : PutArm(w) \/ PutStayOff(w) \/ PutStop(w) \/ PutStopped(w)
  BY DEF Next, vars, PutNext, LoopNext, RunNext, others, PutSave, PutSwap, PutDebug,
         PutStatus, PostRun, LoopTick, LoopJob, LoopAwait, LoopFinish, LoopEnd,
         RunFailFast, RunMeasured, RunPanic, RunLoad, RunWrite, RunUnread,
         RunUnwritten, RunStatus, RunRelease, RunClose, CancelRun, DeleteLoad,
         DeleteWrite, Cancel

LEMMA HandlersFrame ==
  [Next]_vars =>
    \/ UNCHANGED handlers
    \/ \E w \in Writers, c \in Configs : PutSave(w, c)
    \/ \E w \in Writers : PutSwap(w) \/ PutDebug(w) \/ PutArm(w) \/ PutStayOff(w) \/
         PutStop(w) \/ PutStopped(w) \/ PutStatus(w)
  BY DEF Next, vars, PutNext, LoopNext, RunNext, others, PostRun, LoopTick, LoopJob,
         LoopAwait, LoopFinish, LoopEnd, RunFailFast, RunMeasured, RunPanic, RunLoad,
         RunWrite, RunUnread, RunUnwritten, RunStatus, RunRelease, RunClose,
         CancelRun, DeleteLoad, DeleteWrite, Cancel

LEMMA LoopsFrame ==
  [Next]_vars =>
    \/ UNCHANGED loops
    \/ \E w \in Writers : PutArm(w) \/ PutStop(w)
    \/ \E g \in Gens : LoopTick(g) \/ LoopJob(g) \/ LoopAwait(g) \/ LoopFinish(g) \/
         LoopEnd(g)
  BY DEF Next, vars, PutNext, LoopNext, RunNext, others, PutSave, PutSwap, PutDebug,
         PutStayOff, PutStopped, PutStatus, PostRun, RunFailFast, RunMeasured,
         RunPanic, RunLoad, RunWrite, RunUnread, RunUnwritten, RunStatus, RunRelease,
         RunClose, CancelRun, DeleteLoad, DeleteWrite, Cancel

LEMMA JobFrame ==
  [Next]_vars =>
    \/ UNCHANGED job
    \/ \E g \in Gens : LoopJob(g)
    \/ \E r \in RunIds : RunRelease(r)
    \/ PostRun
  BY DEF Next, vars, PutNext, LoopNext, RunNext, others, PutSave, PutSwap, PutDebug,
         PutArm, PutStayOff, PutStop, PutStopped, PutStatus, LoopTick, LoopAwait,
         LoopFinish, LoopEnd, RunFailFast, RunMeasured, RunPanic, RunLoad, RunWrite,
         RunUnread, RunUnwritten, RunStatus, RunClose, CancelRun, DeleteLoad,
         DeleteWrite, Cancel

LEMMA RunsFrame ==
  [Next]_vars =>
    \/ UNCHANGED runs
    \/ \E g \in Gens : LoopJob(g)
    \/ \E r \in RunIds : RunFailFast(r) \/ RunMeasured(r) \/ RunPanic(r) \/
         RunLoad(r) \/ RunWrite(r) \/ RunUnread(r) \/ RunUnwritten(r) \/
         RunStatus(r) \/ RunRelease(r) \/ RunClose(r) \/ CancelRun(r)
    \/ PostRun
  BY DEF Next, vars, PutNext, LoopNext, RunNext, others, PutSave, PutSwap, PutDebug,
         PutArm, PutStayOff, PutStop, PutStopped, PutStatus, LoopTick, LoopAwait,
         LoopFinish, LoopEnd, DeleteLoad, DeleteWrite, Cancel

LEMMA RecordsFrame ==
  [Next]_vars =>
    \/ UNCHANGED records
    \/ \E r \in RunIds : RunLoad(r) \/ RunWrite(r) \/ RunUnread(r) \/
         RunUnwritten(r) \/ DeleteLoad(r)
    \/ DeleteWrite
  BY DEF Next, vars, PutNext, LoopNext, RunNext, others, PutSave, PutSwap, PutDebug,
         PutArm, PutStayOff, PutStop, PutStopped, PutStatus, PostRun, LoopTick,
         LoopJob, LoopAwait, LoopFinish, LoopEnd, RunFailFast, RunMeasured, RunPanic,
         RunStatus, RunRelease, RunClose, CancelRun, Cancel

LEMMA ClientsFrame ==
  [Next]_vars =>
    \/ UNCHANGED clients
    \/ \E r \in RunIds : CancelRun(r)
    \/ Cancel
  BY DEF Next, vars, PutNext, LoopNext, RunNext, others, PutSave, PutSwap, PutDebug,
         PutArm, PutStayOff, PutStop, PutStopped, PutStatus, PostRun, LoopTick,
         LoopJob, LoopAwait, LoopFinish, LoopEnd, RunFailFast, RunMeasured, RunPanic,
         RunLoad, RunWrite, RunUnread, RunUnwritten, RunStatus, RunRelease, RunClose,
         DeleteLoad, DeleteWrite

-----------------------------------------------------------------------------
(* Types *)

ConfigType ==
  /\ file \in Configs /\ cfg \in Configs /\ debug \in BOOLEAN
  /\ storeMu \in Writers \cup RunIds \cup {Deleter, Nobody}
ArmedType ==
  /\ shown \in [plan : Plans \cup {NoPlan}, enabled : BOOLEAN]
  /\ sched \in Gens \cup {0} /\ schedMu \in Writers \cup {Nobody}
PutType == put \in [Writers -> PutPcs] /\ want \in [Writers -> Configs] /\ puts \in Nat
LoopType ==
  /\ gens \in Gens \cup {0} /\ ticks \in Nat
  /\ loop \in [Gens -> LoopPcs] /\ halted \in [Gens -> BOOLEAN]
  /\ plan \in [Gens -> Plans \cup {NoPlan}]
  /\ awaits \in [Gens -> RunIds \cup {0}] /\ count \in [Gens -> 0..MaxTicks]
JobType ==
  /\ busy \in BOOLEAN /\ current \in RunIds \cup {0} /\ made \in RunIds \cup {0}
  /\ manual \in Nat /\ owner \in [RunIds -> Gens \cup {0}]
RunType ==
  /\ run \in [RunIds -> RunPcs]
  /\ stop \in [RunIds -> BOOLEAN] /\ finished \in [RunIds -> BOOLEAN]
  /\ outcome \in [RunIds -> {"other", "cancelled"}]
RecordType ==
  /\ history \in Seq(RunIds) /\ loaded \in [RunIds \cup {Deleter} -> Seq(RunIds)]
  /\ target \in RunIds \cup {0}
  /\ deleted \subseteq RunIds /\ unrecorded \subseteq RunIds
ClientType == asked \subseteq RunIds /\ down \in BOOLEAN

Types ==
  /\ ConfigType /\ ArmedType /\ PutType /\ LoopType /\ JobType /\ RunType
  /\ RecordType /\ ClientType

\* The groups make up the type invariant.
LEMMA TypesSuffice == Types => TypeOK
  BY DEF Types, ConfigType, ArmedType, PutType, LoopType, JobType, RunType,
         RecordType, ClientType, TypeOK

-----------------------------------------------------------------------------
(* The invariant *)

\* storeMu is held in the middle of a save, of an AppendRun or of a DELETE, by
\* the one who is there; what the last two loaded is the history meanwhile.
StoreLockInv ==
  /\ \A w \in Writers : put[w] = "swap" <=> storeMu = w
  /\ \A r \in RunIds : run[r] = "write" <=> storeMu = r
  /\ target # 0 <=> storeMu = Deleter
  /\ \A r \in RunIds : run[r] = "write" => loaded[r] = history
  /\ target # 0 => loaded[Deleter] = history
  /\ storeMu \notin Writers => file = cfg
  /\ \A w \in Writers : put[w] = "swap" => file = want[w]

\* schedMu is held by a PUT that waits for the loop it stopped; only the armed
\* scheduler's loop is there, and it is halted only while it is waited for.
SchedLockInv ==
  /\ \A w \in Writers : put[w] = "stopWait" <=> schedMu = w
  /\ schedMu # Nobody => sched # 0
  /\ sched <= gens
  /\ \A g \in Gens : loop[g] \notin {"off", "ended"} => g = sched
  /\ \A g \in Gens : loop[g] = "off" <=> g > gens
  /\ \A g \in Gens : g > gens => ~halted[g]
  /\ sched # 0 => (halted[sched] <=> schedMu # Nobody)

\* Nobody who will still reconcile is needed for the scheduler to be what the
\* configuration asks for, but for one it is being stopped by.
SettledInv ==
  (\A w \in Writers : put[w] \notin {"debug", "reconcile"}) =>
    /\ shown = View(cfg)
    /\ schedMu = Nobody => (sched # 0 <=> IsArmed(cfg))
    /\ schedMu # Nobody => ~IsArmed(cfg)
    /\ sched # 0 /\ schedMu = Nobody => plan[sched] = cfg.plan

\* Runs are numbered as they start; the one that is on is the last.
SlotInv ==
  /\ busy <=> current # 0
  /\ current \in {0, made}
  /\ \A r \in RunIds : run[r] = "none" <=> r > made
  /\ \A r \in RunIds : Active(r) => busy /\ current = r
  /\ busy => Active(current)

\* No more runs are started than were asked for, and no more schedulers than
\* PUTs, of which those that have still to reconcile have made none.
Pending == {w \in Writers : put[w] \in {"swap", "debug", "reconcile"}}
RunBound ==
  /\ manual <= MaxManual /\ ticks <= MaxTicks
  /\ made <= Earlier + manual + ticks
  /\ \A g \in Gens : loop[g] = "job" => made < Earlier + manual + ticks
GenBound == puts <= MaxPuts /\ gens + Cardinality(Pending) <= puts + 1
CountBound ==
  \A g \in Gens :
    count[g] + (IF loop[g] \in {"job", "await", "finish"} THEN 1 ELSE 0) <= ticks
BoundInv == RunBound /\ GenBound /\ CountBound

\* A run that has come to finish is not finished again.
FinishInv ==
  \A r \in RunIds :
    finished[r] <=> run[r] \in {"write", "status", "release", "close", "closed"}

\* Only what was asked for is cancelled.
CancelInv ==
  /\ \A r \in RunIds : stop[r] => r \in asked
  /\ \A r \in RunIds : outcome[r] = "cancelled" => r \in asked \/ down

\* The loop that started a run waits for it, until the server goes down.
JobInv ==
  /\ \A r \in RunIds : r > made => owner[r] = 0
  /\ ~down => \A g \in Gens, r \in RunIds :
       owner[r] = g /\ run[r] # "closed" => loop[g] = "await" /\ awaits[g] = r

\* Records are in the order of their runs and belong to runs that are over; what is
\* missing was not stored, was deleted or has as many newer ones as the limit.
Newer(r) == {q \in RunIds : q > r /\ Recorded(q)}
HistoryInv ==
  /\ \A i, j \in 1..Len(history) : i < j => history[i] < history[j]
  /\ \A i \in 1..Len(history) : Recorded(history[i]) /\ history[i] \notin deleted
  /\ \A r \in deleted : Recorded(r)
  /\ \A r \in unrecorded : Finished(r)
  /\ \A r \in RunIds :
       /\ Recorded(r) /\ r \notin deleted
       /\ HistoryLimit = 0 \/ Cardinality(Newer(r)) < HistoryLimit
       => \E i \in 1..Len(history) : history[i] = r

Inv ==
  /\ Types
  /\ StoreLockInv /\ SchedLockInv /\ SettledInv /\ SlotInv /\ BoundInv
  /\ FinishInv /\ CancelInv /\ JobInv /\ HistoryInv


-----------------------------------------------------------------------------
(* Types are kept *)

\* The bounds as numbers.
LEMMA Constants ==
  /\ RunIds \subseteq Nat \ {0} /\ Gens \subseteq Nat \ {0}
  /\ \A n \in Nat : n > 0 /\ n <= Earlier + MaxManual + MaxTicks => n \in RunIds
  /\ \A n \in Nat : n > 0 /\ n <= MaxPuts + 1 => n \in Gens
  /\ MaxManual \in Nat /\ MaxTicks \in Nat /\ MaxPuts \in Nat /\ HistoryLimit \in Nat
  /\ Earlier \in Nat
  BY BoundAssumption DEF RunIds, Gens

\* Those who may hold a lock are told apart.
LEMMA Handlers ==
  /\ \A w \in Writers : w # Nobody /\ w # Deleter
  /\ \A r \in RunIds : r \notin Writers /\ r # Nobody /\ r # Deleter
  /\ Nobody # Deleter
  BY HandlersAssumption, NamesAssumption

\* What a PUT's step does to the number of those that have still to reconcile.
LEMMA PendingStep ==
  ASSUME Types, NEW w \in Writers, NEW from, NEW to, Go(put, w, from, to)
  PROVE  LET P == {"swap", "debug", "reconcile"} IN
         /\ Cardinality(Pending) \in Nat
         /\ (from \in P <=> to \in P) => Cardinality(Pending') = Cardinality(Pending)
         /\ from \notin P /\ to \in P => Cardinality(Pending') = Cardinality(Pending) + 1
         /\ from \in P /\ to \notin P => Cardinality(Pending') = Cardinality(Pending) - 1
<1> DEFINE P == {"swap", "debug", "reconcile"}
<1>0. IsFiniteSet(Pending) /\ put \in [Writers -> PutPcs]
  BY HandlersAssumption, FS_Subset DEF Pending, Types, PutType
<1>1. Cardinality(Pending) \in Nat
  BY <1>0, FS_CardinalityType
<1>2. CASE from \in P <=> to \in P
  <2>1. Pending' = Pending
    BY <1>0, <1>2 DEF Pending, Go
  <2> QED
    BY <1>1, <1>2, <2>1
<1>3. CASE from \notin P /\ to \in P
  <2>1. Pending' = Pending \cup {w} /\ w \notin Pending
    BY <1>0, <1>3 DEF Pending, Go
  <2> QED
    BY <1>0, <1>1, <1>3, <2>1, FS_AddElement
<1>4. CASE from \in P /\ to \notin P
  <2>1. Pending' = Pending \ {w} /\ w \in Pending
    BY <1>0, <1>4 DEF Pending, Go
  <2> QED
    BY <1>0, <1>1, <1>4, <2>1, FS_RemoveElement
<1> QED
  BY <1>1, <1>2, <1>3, <1>4

\* While a PUT has to reconcile there is room for the Scheduler it may arm.
LEMMA RoomForScheduler ==
  ASSUME Inv, NEW w \in Writers, put[w] = "reconcile"
  PROVE  gens + 1 \in Gens /\ gens \in Nat
<1>1. IsFiniteSet(Pending) /\ w \in Pending
  BY HandlersAssumption, FS_Subset DEF Pending
<1>2. Cardinality(Pending) \in Nat /\ Cardinality(Pending \ {w}) \in Nat
  BY <1>1, FS_CardinalityType, FS_Subset
<1>3. Cardinality(Pending \ {w}) = Cardinality(Pending) - 1
  BY <1>1, FS_RemoveElement
<1>4. gens \in Nat /\ puts \in Nat /\ puts <= MaxPuts
  BY Constants DEF Inv, Types, LoopType, PutType, BoundInv, GenBound
<1>5. gens + 1 <= MaxPuts + 1
  BY <1>2, <1>3, <1>4, Constants DEF Inv, BoundInv, RunBound, GenBound
<1> QED
  BY <1>4, <1>5, Constants

\* A run that may be started has an id.
LEMMA RoomForRun ==
  ASSUME Inv, \/ manual < MaxManual
              \/ \E g \in Gens : loop[g] = "job"
  PROVE  made + 1 \in RunIds /\ made \in Nat
<1>1. made \in Nat /\ manual \in Nat /\ ticks \in Nat
  BY Constants DEF Inv, Types, LoopType, JobType
<1>2. made + 1 <= Earlier + MaxManual + MaxTicks
  BY <1>1, Constants DEF Inv, BoundInv, RunBound, GenBound
<1> QED
  BY <1>1, <1>2, Constants

\* A run that starts was not there, and no other is on.
LEMMA Starting ==
  ASSUME Inv, NEW g, StartRun(g), made + 1 \in RunIds
  PROVE  /\ ~busy /\ busy' = TRUE /\ made' = made + 1 /\ current' = made + 1
         /\ run[made + 1] = "none" /\ \A r \in RunIds : ~Active(r)
         /\ run' = [run EXCEPT ![made + 1] = "execute"]
         /\ owner' = [owner EXCEPT ![made + 1] = g]
         /\ UNCHANGED <<stop, outcome, finished>>
<1>1. made + 1 > made
  BY Constants DEF Inv, Types, JobType
<1> QED
  BY <1>1 DEF StartRun, CanStart, Inv, SlotInv

\* Every step keeps the type of the configuration's variables.
LEMMA ConfigTypeStep == Inv /\ [Next]_vars => ConfigType'
<1> SUFFICES ASSUME Inv, [Next]_vars PROVE ConfigType'
  OBVIOUS
<1>1. ASSUME NEW w \in Writers, NEW c \in Configs, PutSave(w, c) PROVE ConfigType'
  BY <1>1 DEF PutSave, Inv, Types, ConfigType, PutType, Go
<1>2. ASSUME NEW w \in Writers, PutSwap(w) PROVE ConfigType'
  BY <1>2 DEF PutSwap, Inv, Types, ConfigType, PutType, Go
<1>3. ASSUME NEW w \in Writers, PutDebug(w) PROVE ConfigType'
  <2>1. want[w] \in Configs
    BY DEF Inv, Types, PutType
  <2>2. want[w].debug \in BOOLEAN
    BY <2>1, ConfigAssumption
  <2> QED
    BY <1>3, <2>2 DEF PutDebug, Inv, Types, ConfigType
<1>4. ASSUME NEW r \in RunIds, RunLoad(r) PROVE ConfigType'
  BY <1>4 DEF RunLoad, Inv, Types, ConfigType, PutType, Go
<1>5. ASSUME NEW r \in RunIds, RunWrite(r) \/ RunUnwritten(r) PROVE ConfigType'
  BY <1>5 DEF RunWrite, RunUnwritten, Inv, Types, ConfigType, PutType, Go
<1>6. ASSUME NEW r \in RunIds, DeleteLoad(r) PROVE ConfigType'
  BY <1>6 DEF DeleteLoad, Inv, Types, ConfigType, PutType, Go
<1>7. ASSUME DeleteWrite PROVE ConfigType'
  BY <1>7 DEF DeleteWrite, Inv, Types, ConfigType, PutType, Go
<1>8. ASSUME UNCHANGED config PROVE ConfigType'
  BY <1>8 DEF Inv, Types, ConfigType, PutType, Go, config
<1> QED
  BY <1>1, <1>2, <1>3, <1>4, <1>5, <1>6, <1>7, <1>8, ConfigFrame

\* Every step keeps the type of the schedulers' variables.
LEMMA ArmedTypeStep == Inv /\ [Next]_vars => ArmedType'
<1> SUFFICES ASSUME Inv, [Next]_vars PROVE ArmedType'
  OBVIOUS
<1>1. ASSUME NEW w \in Writers, PutArm(w) PROVE ArmedType'
  <2>1. View(cfg) \in [plan : Plans \cup {NoPlan}, enabled : BOOLEAN]
    BY ConfigAssumption DEF View, IsArmed, Inv, Types, ConfigType
  <2>2. gens + 1 \in Gens
    BY <1>1, RoomForScheduler DEF PutArm, Go
  <2> QED
    BY <1>1, <2>1, <2>2 DEF PutArm, Arm, Retime, Inv, Types, ArmedType
<1>2. ASSUME NEW w \in Writers, PutStayOff(w) PROVE ArmedType'
  <2>1. View(cfg) \in [plan : Plans \cup {NoPlan}, enabled : BOOLEAN]
    BY ConfigAssumption DEF View, IsArmed, Inv, Types, ConfigType
  <2> QED
    BY <1>2, <2>1 DEF PutStayOff, Inv, Types, ArmedType
<1>3. ASSUME NEW w \in Writers, PutStop(w) PROVE ArmedType'
  <2>1. View(cfg) \in [plan : Plans \cup {NoPlan}, enabled : BOOLEAN]
    BY ConfigAssumption DEF View, IsArmed, Inv, Types, ConfigType
  <2> QED
    BY <1>3, <2>1 DEF PutStop, Inv, Types, ArmedType
<1>4. ASSUME NEW w \in Writers, PutStopped(w) PROVE ArmedType'
  BY <1>4 DEF PutStopped, Inv, Types, ArmedType
<1>5. ASSUME UNCHANGED armed PROVE ArmedType'
  BY <1>5 DEF Inv, Types, ArmedType, armed
<1> QED
  BY <1>1, <1>2, <1>3, <1>4, <1>5, ArmedFrame

\* Every step keeps the type of the PUT handlers' variables.
LEMMA PutTypeStep == Inv /\ [Next]_vars => PutType'
<1> SUFFICES ASSUME Inv, [Next]_vars PROVE PutType'
  OBVIOUS
<1>1. ASSUME NEW w \in Writers, NEW c \in Configs, PutSave(w, c) PROVE PutType'
  BY <1>1 DEF PutSave, Inv, Types, PutType, Go, PutPcs
<1>2. ASSUME NEW w \in Writers, PutSwap(w) PROVE PutType'
  BY <1>2 DEF PutSwap, Inv, Types, PutType, Go, PutPcs
<1>3. ASSUME NEW w \in Writers, PutDebug(w) PROVE PutType'
  BY <1>3 DEF PutDebug, Inv, Types, PutType, Go, PutPcs
<1>4. ASSUME NEW w \in Writers, PutArm(w) PROVE PutType'
  BY <1>4 DEF PutArm, Arm, Retime, Inv, Types, PutType, Go, PutPcs
<1>5. ASSUME NEW w \in Writers, PutStayOff(w) PROVE PutType'
  BY <1>5 DEF PutStayOff, Inv, Types, PutType, Go, PutPcs
<1>6. ASSUME NEW w \in Writers, PutStop(w) PROVE PutType'
  BY <1>6 DEF PutStop, Inv, Types, PutType, Go, PutPcs
<1>7. ASSUME NEW w \in Writers, PutStopped(w) PROVE PutType'
  BY <1>7 DEF PutStopped, Inv, Types, PutType, Go, PutPcs
<1>8. ASSUME NEW w \in Writers, PutStatus(w) PROVE PutType'
  BY <1>8 DEF PutStatus, Inv, Types, PutType, Go, PutPcs
<1>9. ASSUME UNCHANGED handlers PROVE PutType'
  BY <1>9 DEF Inv, Types, PutType, Go, PutPcs, handlers
<1> QED
  BY <1>1, <1>2, <1>3, <1>4, <1>5, <1>6, <1>7, <1>8, <1>9, HandlersFrame

\* Every step keeps the type of the loops' variables.
LEMMA LoopTypeStep == Inv /\ [Next]_vars => LoopType'
<1> SUFFICES ASSUME Inv, [Next]_vars PROVE LoopType'
  OBVIOUS
<1>1. ASSUME NEW w \in Writers, PutArm(w) PROVE LoopType'
  <2>1. gens + 1 \in Gens
    BY <1>1, RoomForScheduler DEF PutArm, Go
  <2>2. cfg.plan \in Plans
    BY <1>1, ConfigAssumption DEF PutArm, IsArmed, Inv, Types, ConfigType
  <2> QED
    BY <1>1, <2>1, <2>2 DEF PutArm, Arm, Retime, Inv, Types, ArmedType, LoopType, LoopPcs
<1>2. ASSUME NEW w \in Writers, PutStop(w) PROVE LoopType'
  <2> QED
    BY <1>2 DEF PutStop, Inv, Types, ArmedType, LoopType
<1>3. ASSUME NEW g \in Gens, LoopTick(g) PROVE LoopType'
  BY <1>3 DEF LoopTick, Inv, Types, LoopType, Go, LoopPcs
<1>4. ASSUME NEW g \in Gens, LoopJob(g) PROVE LoopType'
  <2>1. made + 1 \in RunIds
    BY <1>4, RoomForRun DEF LoopJob, Go
  <2>2. awaits' \in [Gens -> RunIds \cup {0}]
    BY <1>4, <2>1 DEF LoopJob, StartRun, Inv, Types, LoopType
  <2>3. loop' \in [Gens -> LoopPcs]
    BY <1>4 DEF LoopJob, Go, Inv, Types, LoopType, LoopPcs
  <2> QED
    BY <1>4, <2>2, <2>3 DEF LoopJob, Inv, Types, LoopType
<1>5. ASSUME NEW g \in Gens, LoopAwait(g) PROVE LoopType'
  BY <1>5 DEF LoopAwait, JobOver, Inv, Types, LoopType, Go, LoopPcs
<1>6. ASSUME NEW g \in Gens, LoopFinish(g) PROVE LoopType'
  <2>1. count[g] + 1 <= MaxTicks /\ count[g] \in Nat
    <3>1. count[g] \in Nat /\ ticks \in Nat
      BY Constants DEF Inv, Types, LoopType
    <3>2. count[g] + 1 <= ticks /\ ticks <= MaxTicks
      BY <1>6, <3>1 DEF LoopFinish, Go, Inv, BoundInv, RunBound, CountBound
    <3> QED
      BY <3>1, <3>2, Constants
  <2>2. count[g] + 1 \in 0..MaxTicks
    BY <2>1, Constants
  <2> QED
    BY <1>6, <2>2 DEF LoopFinish, Go, Inv, Types, LoopType, LoopPcs
<1>7. ASSUME NEW g \in Gens, LoopEnd(g) PROVE LoopType'
  BY <1>7 DEF LoopEnd, Inv, Types, LoopType, Go, LoopPcs
<1>8. ASSUME UNCHANGED loops PROVE LoopType'
  BY <1>8 DEF Inv, Types, LoopType, Go, LoopPcs, loops
<1> QED
  BY <1>1, <1>2, <1>3, <1>4, <1>5, <1>6, <1>7, <1>8, LoopsFrame

\* Every step keeps the type of the jobs' variables.
LEMMA JobTypeStep == Inv /\ [Next]_vars => JobType'
<1> SUFFICES ASSUME Inv, [Next]_vars PROVE JobType'
  OBVIOUS
<1>1. ASSUME PostRun PROVE JobType'
  <2>1. made + 1 \in RunIds
    BY <1>1, RoomForRun DEF PostRun, Go
  <2> QED
    BY <1>1, <2>1 DEF PostRun, StartRun, Inv, Types, JobType
<1>2. ASSUME NEW g \in Gens, LoopJob(g) PROVE JobType'
  <2>1. made + 1 \in RunIds
    BY <1>2, RoomForRun DEF LoopJob, Go
  <2> QED
    BY <1>2, <2>1 DEF LoopJob, StartRun, Inv, Types, JobType
<1>3. ASSUME NEW r \in RunIds, RunRelease(r) PROVE JobType'
  BY <1>3 DEF RunRelease, Inv, Types, JobType
<1>4. ASSUME UNCHANGED job PROVE JobType'
  BY <1>4 DEF Inv, Types, JobType, job
<1> QED
  BY <1>1, <1>2, <1>3, <1>4, JobFrame

\* Every step keeps the type of the runs' variables.
LEMMA RunTypeStep == Inv /\ [Next]_vars => RunType'
<1> SUFFICES ASSUME Inv, [Next]_vars PROVE RunType'
  OBVIOUS
<1>1. ASSUME PostRun PROVE RunType'
  BY <1>1 DEF PostRun, StartRun, CanStart, Inv, Types, RunType, Go, RunPcs
<1>2. ASSUME NEW g \in Gens, LoopJob(g) PROVE RunType'
  <2>1. CASE StartRun(g)
    BY <2>1 DEF StartRun, Inv, Types, RunType, RunPcs
  <2>2. CASE UNCHANGED runs
    BY <2>2 DEF runs, Inv, Types, RunType
  <2> QED
    BY <1>2, <2>1, <2>2 DEF LoopJob, runs
<1>3. ASSUME NEW r \in RunIds, RunFailFast(r) PROVE RunType'
  BY <1>3 DEF RunFailFast, Inv, Types, RunType, Go, RunPcs
<1>4. ASSUME NEW r \in RunIds, RunMeasured(r) PROVE RunType'
  BY <1>4 DEF RunMeasured, Cancelled, Inv, Types, RunType, Go, RunPcs
<1>5. ASSUME NEW r \in RunIds, RunPanic(r) PROVE RunType'
  BY <1>5 DEF RunPanic, Inv, Types, RunType, Go, RunPcs
<1>6. ASSUME NEW r \in RunIds, RunLoad(r) PROVE RunType'
  BY <1>6 DEF RunLoad, Inv, Types, RunType, Go, RunPcs
<1>7. ASSUME NEW r \in RunIds, RunWrite(r) \/ RunUnread(r) \/ RunUnwritten(r)
      PROVE  RunType'
  BY <1>7 DEF RunWrite, RunUnread, RunUnwritten, Inv, Types, RunType, Go, RunPcs
<1>8. ASSUME NEW r \in RunIds, RunStatus(r) PROVE RunType'
  BY <1>8 DEF RunStatus, Inv, Types, RunType, Go, RunPcs
<1>9. ASSUME NEW r \in RunIds, RunRelease(r) PROVE RunType'
  BY <1>9 DEF RunRelease, Inv, Types, RunType, Go, RunPcs
<1>10. ASSUME NEW r \in RunIds, RunClose(r) PROVE RunType'
  BY <1>10 DEF RunClose, Inv, Types, RunType, Go, RunPcs
<1>11. ASSUME NEW r \in RunIds, CancelRun(r) PROVE RunType'
  BY <1>11 DEF CancelRun, IsCurrent, Inv, Types, RunType, Go, RunPcs
<1>12. ASSUME UNCHANGED runs PROVE RunType'
  BY <1>12 DEF Inv, Types, RunType, Go, RunPcs, runs
<1> QED
  BY <1>1, <1>2, <1>3, <1>4, <1>5, <1>6, <1>7, <1>8, <1>9, <1>10, <1>11, <1>12,
     RunsFrame

\* Every step keeps the type of the records' variables.
LEMMA RecordTypeStep == Inv /\ [Next]_vars => RecordType'
<1> SUFFICES ASSUME Inv, [Next]_vars PROVE RecordType'
  OBVIOUS
<1>1. ASSUME NEW r \in RunIds, RunLoad(r) PROVE RecordType'
  BY <1>1 DEF RunLoad, Inv, Types, RecordType
<1>2. ASSUME NEW r \in RunIds, RunWrite(r) PROVE RecordType'
  <2>1. Append(loaded[r], r) \in Seq(RunIds) /\ HistoryLimit \in Int
    BY Constants DEF Inv, Types, RecordType
  <2>2. Newest(Append(loaded[r], r), HistoryLimit) \in Seq(RunIds)
    BY <2>1, NewestIsSuffix
  <2> QED
    BY <1>2, <2>2 DEF RunWrite, Inv, Types, RecordType
<1>3. ASSUME NEW r \in RunIds, DeleteLoad(r) PROVE RecordType'
  BY <1>3 DEF DeleteLoad, Inv, Types, RecordType
<1>4. ASSUME DeleteWrite PROVE RecordType'
  <2>1. loaded[Deleter] \in Seq(RunIds)
    BY DEF Inv, Types, RecordType
  <2>2. Without(loaded[Deleter], {target}) \in Seq(RunIds)
    BY <2>1, WithoutKeepsTheRest
  <2>3. <<>> \in Seq(RunIds) /\ 0 \in RunIds \cup {0}
    OBVIOUS
  <2> QED
    BY <1>4, <2>2, <2>3 DEF DeleteWrite, Inv, Types, RecordType
<1>5. ASSUME NEW r \in RunIds, RunUnread(r) \/ RunUnwritten(r) PROVE RecordType'
  <2>1. <<>> \in Seq(RunIds) /\ unrecorded' = unrecorded \cup {r}
    BY <1>5 DEF RunUnread, RunUnwritten, Unrecorded
  <2>2. loaded' = loaded \/ loaded' = [loaded EXCEPT ![r] = <<>>]
    BY <1>5 DEF RunUnread, RunUnwritten
  <2>3. UNCHANGED <<history, target, deleted>>
    BY <1>5 DEF RunUnread, RunUnwritten
  <2> QED
    BY <2>1, <2>2, <2>3 DEF Inv, Types, RecordType
<1>6. ASSUME UNCHANGED records PROVE RecordType'
  BY <1>6 DEF Inv, Types, RecordType, records
<1> QED
  BY <1>1, <1>2, <1>3, <1>4, <1>5, <1>6, RecordsFrame

\* Every step keeps the type of the clients' variables.
LEMMA ClientTypeStep == Inv /\ [Next]_vars => ClientType'
<1> SUFFICES ASSUME Inv, [Next]_vars PROVE ClientType'
  OBVIOUS
<1>1. ASSUME NEW r \in RunIds, CancelRun(r) PROVE ClientType'
  BY <1>1 DEF CancelRun, IsCurrent, Inv, Types, ClientType
<1>2. ASSUME Cancel PROVE ClientType'
  BY <1>2 DEF Cancel, Inv, Types, ClientType
<1>3. ASSUME UNCHANGED clients PROVE ClientType'
  BY <1>3 DEF Inv, Types, ClientType, clients
<1> QED
  BY <1>1, <1>2, <1>3, ClientsFrame

\* Every group of variables keeps its type.
LEMMA TypeStep == Inv /\ [Next]_vars => Types'
  BY ConfigTypeStep, ArmedTypeStep, PutTypeStep, LoopTypeStep, JobTypeStep, RunTypeStep,
     RecordTypeStep, ClientTypeStep DEF Types

-----------------------------------------------------------------------------
(* The invariant is kept *)

\* storeMu: a save, an AppendRun and a DELETE exclude one another.
LEMMA StoreLockInvStep == Inv /\ [Next]_vars => StoreLockInv'
<1> SUFFICES ASSUME Inv, [Next]_vars PROVE StoreLockInv'
  OBVIOUS
<1>1. ASSUME NEW w \in Writers, NEW c \in Configs, PutSave(w, c) PROVE StoreLockInv'
  BY <1>1, Constants, Handlers
  DEF PutSave, Inv, Types, StoreLockInv, ConfigType, PutType, RunType, RecordType, Go,
      config, handlers, runs, records, others
<1>2. ASSUME NEW w \in Writers, PutSwap(w) PROVE StoreLockInv'
  BY <1>2, Constants, Handlers
  DEF PutSwap, Inv, Types, StoreLockInv, ConfigType, PutType, RunType, RecordType, Go,
      config, handlers, runs, records, others
<1>3. ASSUME NEW w \in Writers, PutDebug(w) PROVE StoreLockInv'
  BY <1>3, Constants, Handlers
  DEF PutDebug, Inv, Types, StoreLockInv, ConfigType, PutType, RunType, RecordType, Go,
      config, handlers, runs, records, others
<1>4. ASSUME NEW w \in Writers, PutArm(w) PROVE StoreLockInv'
  BY <1>4, Constants, Handlers
  DEF PutArm, Arm, Retime, Inv, Types, StoreLockInv, ConfigType, PutType, RunType,
      RecordType, Go, config, handlers, runs, records, others
<1>5. ASSUME NEW w \in Writers, PutStayOff(w) PROVE StoreLockInv'
  BY <1>5, Constants, Handlers
  DEF PutStayOff, Inv, Types, StoreLockInv, ConfigType, PutType, RunType, RecordType,
      Go, config, handlers, runs, records, others
<1>6. ASSUME NEW w \in Writers, PutStop(w) PROVE StoreLockInv'
  BY <1>6, Constants, Handlers
  DEF PutStop, Inv, Types, StoreLockInv, ConfigType, PutType, RunType, RecordType, Go,
      config, handlers, runs, records, others
<1>7. ASSUME NEW w \in Writers, PutStopped(w) PROVE StoreLockInv'
  BY <1>7, Constants, Handlers
  DEF PutStopped, Inv, Types, StoreLockInv, ConfigType, PutType, RunType, RecordType,
      Go, config, handlers, runs, records, others
<1>8. ASSUME NEW w \in Writers, PutStatus(w) PROVE StoreLockInv'
  BY <1>8, Constants, Handlers
  DEF PutStatus, Inv, Types, StoreLockInv, ConfigType, PutType, RunType, RecordType,
      Go, config, handlers, runs, records, others
<1>9. ASSUME PostRun PROVE StoreLockInv'
  <2>1. made + 1 \in RunIds /\ StartRun(0)
    BY <1>9, RoomForRun DEF PostRun
  <2> QED
    BY <1>9, <2>1, Starting, ZenonT(40)
    DEF PostRun, config, handlers, records, runs, Inv, Types, RunType, StoreLockInv
<1>10. ASSUME NEW g \in Gens, LoopJob(g) PROVE StoreLockInv'
  <2>1. made + 1 \in RunIds
    BY <1>10, RoomForRun DEF LoopJob, Go
  <2>2. CASE StartRun(g)
    BY <1>10, <2>1, <2>2, Starting, ZenonT(40)
    DEF LoopJob, config, handlers, records, runs, Inv, Types, RunType, StoreLockInv
  <2>3. CASE UNCHANGED <<busy, current, made, owner, runs>>
    BY <1>10, <2>3
    DEF LoopJob, Go, config, handlers, records, runs, Inv, Types, RunType, StoreLockInv
  <2> QED
    BY <1>10, <2>2, <2>3 DEF LoopJob
<1>11. ASSUME NEW r \in RunIds, RunFailFast(r) PROVE StoreLockInv'
  BY <1>11, Constants, Handlers
  DEF RunFailFast, Inv, Types, StoreLockInv, ConfigType, PutType, RunType, RecordType,
      Go, config, handlers, runs, records, others
<1>12. ASSUME NEW r \in RunIds, RunMeasured(r) PROVE StoreLockInv'
  BY <1>12, Constants, Handlers
  DEF RunMeasured, Cancelled, Inv, Types, StoreLockInv, ConfigType, PutType, RunType,
      RecordType, Go, config, handlers, runs, records, others
<1>13. ASSUME NEW r \in RunIds, RunPanic(r) PROVE StoreLockInv'
  BY <1>13, Constants, Handlers
  DEF RunPanic, Inv, Types, StoreLockInv, ConfigType, PutType, RunType, RecordType, Go,
      config, handlers, runs, records, others
<1>14. ASSUME NEW r \in RunIds, RunLoad(r) PROVE StoreLockInv'
  BY <1>14, Constants, Handlers
  DEF RunLoad, Inv, Types, StoreLockInv, ConfigType, PutType, RunType, RecordType, Go,
      config, handlers, runs, records, others
<1>15. ASSUME NEW r \in RunIds, RunWrite(r) \/ RunUnread(r) \/ RunUnwritten(r)
       PROVE  StoreLockInv'
  <2>1. CASE RunWrite(r)
    BY <2>1, Constants, Handlers
    DEF RunWrite, Inv, Types, StoreLockInv, ConfigType, PutType, RunType, RecordType, Go,
        config, handlers, runs, records, others
  <2>2. CASE RunUnread(r)
    BY <2>2, Constants, Handlers
    DEF RunUnread, Inv, Types, StoreLockInv, ConfigType, PutType, RunType, RecordType, Go,
        config, handlers, runs, records, others
  <2>3. CASE RunUnwritten(r)
    BY <2>3, Constants, Handlers
    DEF RunUnwritten, Inv, Types, StoreLockInv, ConfigType, PutType, RunType, RecordType,
        Go, config, handlers, runs, records, others
  <2> QED
    BY <1>15, <2>1, <2>2, <2>3
<1>16. ASSUME NEW r \in RunIds, RunStatus(r) PROVE StoreLockInv'
  BY <1>16, Constants, Handlers
  DEF RunStatus, Inv, Types, StoreLockInv, ConfigType, PutType, RunType, RecordType,
      Go, config, handlers, runs, records, others
<1>17. ASSUME NEW r \in RunIds, RunRelease(r) PROVE StoreLockInv'
  BY <1>17, Constants, Handlers
  DEF RunRelease, Inv, Types, StoreLockInv, ConfigType, PutType, RunType, RecordType,
      Go, config, handlers, runs, records, others
<1>18. ASSUME NEW r \in RunIds, RunClose(r) PROVE StoreLockInv'
  BY <1>18, Constants, Handlers
  DEF RunClose, Inv, Types, StoreLockInv, ConfigType, PutType, RunType, RecordType, Go,
      config, handlers, runs, records, others
<1>19. ASSUME NEW r \in RunIds, CancelRun(r) PROVE StoreLockInv'
  BY <1>19, Constants, Handlers
  DEF CancelRun, IsCurrent, Inv, Types, StoreLockInv, ConfigType, PutType, RunType,
      RecordType, Go, config, handlers, runs, records, others
<1>20. ASSUME NEW r \in RunIds, DeleteLoad(r) PROVE StoreLockInv'
  BY <1>20, Constants, Handlers
  DEF DeleteLoad, Inv, Types, StoreLockInv, ConfigType, PutType, RunType, RecordType,
      Go, config, handlers, runs, records, others
<1>21. ASSUME DeleteWrite PROVE StoreLockInv'
  BY <1>21, Constants, Handlers
  DEF DeleteWrite, Inv, Types, StoreLockInv, ConfigType, PutType, RunType, RecordType,
      Go, config, handlers, runs, records, others
<1>22. ASSUME UNCHANGED <<config, handlers, runs, records>> PROVE StoreLockInv'
  BY <1>22, Constants, Handlers
  DEF Inv, Types, StoreLockInv, ConfigType, PutType, RunType, RecordType, Go, config,
      handlers, runs, records, others
<1> QED
  BY <1>1, <1>2, <1>3, <1>4, <1>5, <1>6, <1>7, <1>8, <1>9, <1>10, <1>11, <1>12, <1>13,
     <1>14, <1>15, <1>16, <1>17, <1>18, <1>19, <1>20, <1>21, <1>22, ConfigFrame,
     HandlersFrame, RunsFrame, RecordsFrame

\* schedMu: nobody arms or stops while a stop waits.
LEMMA SchedLockInvStep == Inv /\ [Next]_vars => SchedLockInv'
<1> SUFFICES ASSUME Inv, [Next]_vars PROVE SchedLockInv'
  OBVIOUS
<1>1. ASSUME NEW w \in Writers, NEW c \in Configs, PutSave(w, c) PROVE SchedLockInv'
  BY <1>1, Constants, Handlers
  DEF PutSave, Inv, Types, SchedLockInv, ArmedType, PutType, LoopType, Go, armed,
      handlers, loops
<1>2. ASSUME NEW w \in Writers, PutSwap(w) PROVE SchedLockInv'
  BY <1>2, Constants, Handlers
  DEF PutSwap, Inv, Types, SchedLockInv, ArmedType, PutType, LoopType, Go, armed,
      handlers, loops
<1>3. ASSUME NEW w \in Writers, PutDebug(w) PROVE SchedLockInv'
  BY <1>3, Constants, Handlers
  DEF PutDebug, Inv, Types, SchedLockInv, ArmedType, PutType, LoopType, Go, armed,
      handlers, loops
<1>4. ASSUME NEW w \in Writers, PutArm(w) PROVE SchedLockInv'
  <2>1. gens + 1 \in Gens /\ gens \in Nat /\ sched \in Nat
    BY <1>4, RoomForScheduler, Constants DEF PutArm, Go, Inv, Types, ArmedType
  <2>2. CASE sched = 0
    <3>1. /\ sched' = gens + 1 /\ gens' = gens + 1 /\ schedMu' = schedMu /\ schedMu = Nobody
          /\ loop' = [loop EXCEPT ![gens + 1] = "wait"] /\ halted' = halted
      BY <1>4, <2>2 DEF PutArm, Arm
    <3>2. \A g \in Gens : loop[g] \in {"off", "ended"}
      BY <2>2, Constants DEF Inv, SchedLockInv
    <3>3. \A v \in Writers : put'[v] = "stopWait" <=> put[v] = "stopWait"
      BY <1>4 DEF PutArm, Go, Inv, Types, PutType
    <3> QED
      BY <2>1, <3>1, <3>2, <3>3, Constants, Handlers
      DEF Inv, Types, LoopType, ArmedType, SchedLockInv
  <2>3. CASE sched # 0
    <3>1. UNCHANGED <<sched, gens, schedMu, loop, halted>>
      BY <1>4, <2>3 DEF PutArm, Retime
    <3>2. \A v \in Writers : put'[v] = "stopWait" <=> put[v] = "stopWait"
      BY <1>4 DEF PutArm, Go, Inv, Types, PutType
    <3> QED
      BY <3>1, <3>2 DEF Inv, SchedLockInv
  <2> QED
    BY <2>2, <2>3
<1>5. ASSUME NEW w \in Writers, PutStayOff(w) PROVE SchedLockInv'
  BY <1>5, Constants, Handlers
  DEF PutStayOff, Inv, Types, SchedLockInv, ArmedType, PutType, LoopType, Go, armed,
      handlers, loops
<1>6. ASSUME NEW w \in Writers, PutStop(w) PROVE SchedLockInv'
  BY <1>6, Constants, Handlers
  DEF PutStop, Inv, Types, SchedLockInv, ArmedType, PutType, LoopType, Go, armed,
      handlers, loops
<1>7. ASSUME NEW w \in Writers, PutStopped(w) PROVE SchedLockInv'
  BY <1>7, Constants, Handlers
  DEF PutStopped, Inv, Types, SchedLockInv, ArmedType, PutType, LoopType, Go, armed,
      handlers, loops
<1>8. ASSUME NEW w \in Writers, PutStatus(w) PROVE SchedLockInv'
  BY <1>8, Constants, Handlers
  DEF PutStatus, Inv, Types, SchedLockInv, ArmedType, PutType, LoopType, Go, armed,
      handlers, loops
<1>9. ASSUME NEW g \in Gens, LoopTick(g) PROVE SchedLockInv'
  BY <1>9, Constants, Handlers
  DEF LoopTick, Inv, Types, SchedLockInv, ArmedType, PutType, LoopType, Go, armed,
      handlers, loops
<1>10. ASSUME NEW g \in Gens, LoopJob(g) PROVE SchedLockInv'
  BY <1>10, Constants, Handlers
  DEF LoopJob, StartRun, CanStart, Inv, Types, SchedLockInv, ArmedType, PutType,
      LoopType, Go, armed, handlers, loops
<1>11. ASSUME NEW g \in Gens, LoopAwait(g) PROVE SchedLockInv'
  BY <1>11, Constants, Handlers
  DEF LoopAwait, JobOver, Inv, Types, SchedLockInv, ArmedType, PutType, LoopType, Go,
      armed, handlers, loops
<1>12. ASSUME NEW g \in Gens, LoopFinish(g) PROVE SchedLockInv'
  BY <1>12, Constants, Handlers
  DEF LoopFinish, Inv, Types, SchedLockInv, ArmedType, PutType, LoopType, Go, armed,
      handlers, loops
<1>13. ASSUME NEW g \in Gens, LoopEnd(g) PROVE SchedLockInv'
  BY <1>13, Constants, Handlers
  DEF LoopEnd, Inv, Types, SchedLockInv, ArmedType, PutType, LoopType, Go, armed,
      handlers, loops
<1>14. ASSUME UNCHANGED <<armed, handlers, loops>> PROVE SchedLockInv'
  BY <1>14, Constants, Handlers
  DEF Inv, Types, SchedLockInv, ArmedType, PutType, LoopType, Go, armed, handlers,
      loops
<1> QED
  BY <1>1, <1>2, <1>3, <1>4, <1>5, <1>6, <1>7, <1>8, <1>9, <1>10, <1>11, <1>12, <1>13,
     <1>14, ArmedFrame, HandlersFrame, LoopsFrame

\* Every change of the configuration is followed by a reconcile that sees it.
LEMMA SettledInvStep == Inv /\ [Next]_vars => SettledInv'
<1> SUFFICES ASSUME Inv, [Next]_vars PROVE SettledInv'
  OBVIOUS
<1>1. ASSUME NEW w \in Writers, NEW c \in Configs, PutSave(w, c) PROVE SettledInv'
  BY <1>1, Constants, Handlers
  DEF PutSave, Inv, Types, SettledInv, SchedLockInv, StoreLockInv, ArmedType, PutType,
      LoopType, ConfigType, Go, config, armed, handlers, loops
<1>2. ASSUME NEW w \in Writers, PutSwap(w) PROVE SettledInv'
  BY <1>2, Constants, Handlers
  DEF PutSwap, Inv, Types, SettledInv, SchedLockInv, StoreLockInv, ArmedType, PutType,
      LoopType, ConfigType, Go, config, armed, handlers, loops
<1>3. ASSUME NEW w \in Writers, PutDebug(w) PROVE SettledInv'
  BY <1>3, Constants, Handlers
  DEF PutDebug, Inv, Types, SettledInv, SchedLockInv, StoreLockInv, ArmedType, PutType,
      LoopType, ConfigType, Go, config, armed, handlers, loops
<1>4. ASSUME NEW w \in Writers, PutArm(w) PROVE SettledInv'
  <2>1. gens + 1 \in Gens /\ schedMu' = Nobody /\ shown' = View(cfg) /\ cfg' = cfg
    BY <1>4, RoomForScheduler DEF PutArm, Go, config
  <2>2. sched' # 0 /\ plan'[sched'] = cfg.plan
    <3>1. CASE sched = 0
      BY <1>4, <2>1, <3>1, Constants DEF PutArm, Arm, Inv, Types, LoopType
    <3>2. CASE sched # 0
      BY <1>4, <3>2 DEF PutArm, Retime, Inv, Types, LoopType, ArmedType
    <3> QED
      BY <3>1, <3>2
  <2>3. View(cfg)' = View(cfg) /\ IsArmed(cfg)' = IsArmed(cfg) /\ IsArmed(cfg)
    BY <1>4, <2>1 DEF PutArm, View, IsArmed
  <2> QED
    BY <2>1, <2>2, <2>3 DEF SettledInv
<1>5. ASSUME NEW w \in Writers, PutStayOff(w) PROVE SettledInv'
  BY <1>5, Constants, Handlers
  DEF PutStayOff, Inv, Types, SettledInv, SchedLockInv, StoreLockInv, ArmedType,
      PutType, LoopType, ConfigType, Go, config, armed, handlers, loops
<1>6. ASSUME NEW w \in Writers, PutStop(w) PROVE SettledInv'
  BY <1>6, Constants, Handlers
  DEF PutStop, Inv, Types, SettledInv, SchedLockInv, StoreLockInv, ArmedType, PutType,
      LoopType, ConfigType, Go, config, armed, handlers, loops
<1>7. ASSUME NEW w \in Writers, PutStopped(w) PROVE SettledInv'
  BY <1>7, Constants, Handlers
  DEF PutStopped, Inv, Types, SettledInv, SchedLockInv, StoreLockInv, ArmedType,
      PutType, LoopType, ConfigType, Go, config, armed, handlers, loops
<1>8. ASSUME NEW w \in Writers, PutStatus(w) PROVE SettledInv'
  BY <1>8, Constants, Handlers
  DEF PutStatus, Inv, Types, SettledInv, SchedLockInv, StoreLockInv, ArmedType,
      PutType, LoopType, ConfigType, Go, config, armed, handlers, loops
<1>9. ASSUME NEW g \in Gens, LoopTick(g) PROVE SettledInv'
  BY <1>9, Constants, Handlers
  DEF LoopTick, Inv, Types, SettledInv, SchedLockInv, StoreLockInv, ArmedType, PutType,
      LoopType, ConfigType, Go, config, armed, handlers, loops
<1>10. ASSUME NEW g \in Gens, LoopJob(g) PROVE SettledInv'
  BY <1>10, Constants, Handlers
  DEF LoopJob, StartRun, CanStart, Inv, Types, SettledInv, SchedLockInv, StoreLockInv,
      ArmedType, PutType, LoopType, ConfigType, Go, config, armed, handlers, loops
<1>11. ASSUME NEW g \in Gens, LoopAwait(g) PROVE SettledInv'
  BY <1>11, Constants, Handlers
  DEF LoopAwait, JobOver, Inv, Types, SettledInv, SchedLockInv, StoreLockInv,
      ArmedType, PutType, LoopType, ConfigType, Go, config, armed, handlers, loops
<1>12. ASSUME NEW g \in Gens, LoopFinish(g) PROVE SettledInv'
  BY <1>12, Constants, Handlers
  DEF LoopFinish, Inv, Types, SettledInv, SchedLockInv, StoreLockInv, ArmedType,
      PutType, LoopType, ConfigType, Go, config, armed, handlers, loops
<1>13. ASSUME NEW g \in Gens, LoopEnd(g) PROVE SettledInv'
  BY <1>13, Constants, Handlers
  DEF LoopEnd, Inv, Types, SettledInv, SchedLockInv, StoreLockInv, ArmedType, PutType,
      LoopType, ConfigType, Go, config, armed, handlers, loops
<1>14. ASSUME NEW r \in RunIds, RunLoad(r) PROVE SettledInv'
  BY <1>14, Constants, Handlers
  DEF RunLoad, Inv, Types, SettledInv, SchedLockInv, StoreLockInv, ArmedType, PutType,
      LoopType, ConfigType, Go, config, armed, handlers, loops
<1>15. ASSUME NEW r \in RunIds, RunWrite(r) \/ RunUnread(r) \/ RunUnwritten(r)
       PROVE  SettledInv'
  BY <1>15, Constants, Handlers
  DEF RunWrite, RunUnread, RunUnwritten, Inv, Types, SettledInv, SchedLockInv,
      StoreLockInv, ArmedType, PutType, LoopType, ConfigType, Go, config, armed,
      handlers, loops
<1>16. ASSUME NEW r \in RunIds, DeleteLoad(r) PROVE SettledInv'
  BY <1>16, Constants, Handlers
  DEF DeleteLoad, Inv, Types, SettledInv, SchedLockInv, StoreLockInv, ArmedType,
      PutType, LoopType, ConfigType, Go, config, armed, handlers, loops
<1>17. ASSUME DeleteWrite PROVE SettledInv'
  BY <1>17, Constants, Handlers
  DEF DeleteWrite, Inv, Types, SettledInv, SchedLockInv, StoreLockInv, ArmedType,
      PutType, LoopType, ConfigType, Go, config, armed, handlers, loops
<1>18. ASSUME UNCHANGED <<config, armed, handlers, loops>> PROVE SettledInv'
  BY <1>18, Constants, Handlers
  DEF Inv, Types, SettledInv, SchedLockInv, StoreLockInv, ArmedType, PutType, LoopType,
      ConfigType, Go, config, armed, handlers, loops
<1> QED
  BY <1>1, <1>2, <1>3, <1>4, <1>5, <1>6, <1>7, <1>8, <1>9, <1>10, <1>11, <1>12, <1>13,
     <1>14, <1>15, <1>16, <1>17, <1>18, ConfigFrame, ArmedFrame, HandlersFrame,
     LoopsFrame

\* The slot is taken by the run with the next number and given back by it.
LEMMA SlotInvStep == Inv /\ [Next]_vars => SlotInv'
<1> SUFFICES ASSUME Inv, [Next]_vars PROVE SlotInv'
  OBVIOUS
<1>1. ASSUME PostRun PROVE SlotInv'
  <2>1. made + 1 \in RunIds /\ made \in Nat
    BY <1>1, RoomForRun DEF PostRun, Go
  <2>2. CASE StartRun(0)
    <3>1. \A r \in RunIds : run'[r] = IF r = made + 1 THEN "execute" ELSE run[r]
      BY <2>1, <2>2, Starting DEF Inv, Types, RunType
    <3>2. /\ busy' = TRUE /\ current' = made + 1 /\ made' = made + 1
          /\ \A r \in RunIds : ~Active(r)
      BY <2>1, <2>2, Starting
    <3>3. \A r \in RunIds : Active(r)' <=> r = made + 1
      BY <3>1, <3>2 DEF Active
    <3>4. \A r \in RunIds : run'[r] = "none" <=> r > made + 1
      <4>1. \A r \in RunIds : r \in Nat /\ (run[r] = "none" <=> r > made)
        BY Constants DEF Inv, SlotInv
      <4> QED
        BY <2>1, <3>1, <4>1
    <3> QED
      BY <2>1, <3>2, <3>3, <3>4, Constants DEF SlotInv
  <2>3. CASE UNCHANGED <<busy, current, made, owner, runs>>
    BY <2>3 DEF runs, Inv, SlotInv, Active
  <2> QED
    BY <1>1, <2>2, <2>3 DEF PostRun
<1>2. ASSUME NEW g \in Gens, LoopJob(g) PROVE SlotInv'
  <2>1. made + 1 \in RunIds /\ made \in Nat
    BY <1>2, RoomForRun DEF LoopJob, Go
  <2>2. CASE StartRun(g)
    <3>1. \A r \in RunIds : run'[r] = IF r = made + 1 THEN "execute" ELSE run[r]
      BY <2>1, <2>2, Starting DEF Inv, Types, RunType
    <3>2. /\ busy' = TRUE /\ current' = made + 1 /\ made' = made + 1
          /\ \A r \in RunIds : ~Active(r)
      BY <2>1, <2>2, Starting
    <3>3. \A r \in RunIds : Active(r)' <=> r = made + 1
      BY <3>1, <3>2 DEF Active
    <3>4. \A r \in RunIds : run'[r] = "none" <=> r > made + 1
      <4>1. \A r \in RunIds : r \in Nat /\ (run[r] = "none" <=> r > made)
        BY Constants DEF Inv, SlotInv
      <4> QED
        BY <2>1, <3>1, <4>1
    <3> QED
      BY <2>1, <3>2, <3>3, <3>4, Constants DEF SlotInv
  <2>3. CASE UNCHANGED <<busy, current, made, owner, runs>>
    BY <2>3 DEF runs, Inv, SlotInv, Active
  <2> QED
    BY <1>2, <2>2, <2>3 DEF LoopJob
<1>3. ASSUME NEW r \in RunIds, RunFailFast(r) PROVE SlotInv'
  BY <1>3, Constants
  DEF RunFailFast, Inv, Types, SlotInv, JobType, RunType, Active, Go, job, runs, others
<1>4. ASSUME NEW r \in RunIds, RunMeasured(r) PROVE SlotInv'
  BY <1>4, Constants
  DEF RunMeasured, Cancelled, Inv, Types, SlotInv, JobType, RunType, Active, Go, job,
      runs, others
<1>5. ASSUME NEW r \in RunIds, RunPanic(r) PROVE SlotInv'
  BY <1>5, Constants
  DEF RunPanic, Inv, Types, SlotInv, JobType, RunType, Active, Go, job, runs, others
<1>6. ASSUME NEW r \in RunIds, RunLoad(r) PROVE SlotInv'
  BY <1>6, Constants
  DEF RunLoad, Inv, Types, SlotInv, JobType, RunType, Active, Go, job, runs, others
<1>7. ASSUME NEW r \in RunIds, RunWrite(r) \/ RunUnread(r) \/ RunUnwritten(r)
      PROVE  SlotInv'
  BY <1>7, Constants
  DEF RunWrite, RunUnread, RunUnwritten, Inv, Types, SlotInv, JobType, RunType,
      Active, Go, job, runs, others
<1>8. ASSUME NEW r \in RunIds, RunStatus(r) PROVE SlotInv'
  BY <1>8, Constants
  DEF RunStatus, Inv, Types, SlotInv, JobType, RunType, Active, Go, job, runs, others
<1>9. ASSUME NEW r \in RunIds, RunRelease(r) PROVE SlotInv'
  BY <1>9, Constants
  DEF RunRelease, Inv, Types, SlotInv, JobType, RunType, Active, Go, job, runs, others
<1>10. ASSUME NEW r \in RunIds, RunClose(r) PROVE SlotInv'
  BY <1>10, Constants
  DEF RunClose, Inv, Types, SlotInv, JobType, RunType, Active, Go, job, runs, others
<1>11. ASSUME NEW r \in RunIds, CancelRun(r) PROVE SlotInv'
  BY <1>11, Constants
  DEF CancelRun, IsCurrent, Inv, Types, SlotInv, JobType, RunType, Active, Go, job,
      runs, others
<1>12. ASSUME UNCHANGED <<job, runs>> PROVE SlotInv'
  BY <1>12, Constants
  DEF Inv, Types, SlotInv, JobType, RunType, Active, Go, job, runs, others
<1> QED
  BY <1>1, <1>2, <1>3, <1>4, <1>5, <1>6, <1>7, <1>8, <1>9, <1>10, <1>11, <1>12,
     JobFrame, RunsFrame

\* The once-only flag of finish.
LEMMA FinishInvStep == Inv /\ [Next]_vars => FinishInv'
<1> SUFFICES ASSUME Inv, [Next]_vars PROVE FinishInv'
  OBVIOUS
<1>1. ASSUME PostRun PROVE FinishInv'
  <2>1. made + 1 \in RunIds /\ StartRun(0)
    BY <1>1, RoomForRun DEF PostRun
  <2> QED
    BY <1>1, <2>1, Starting
    DEF PostRun, runs, Inv, Types, RunType, FinishInv
<1>2. ASSUME NEW g \in Gens, LoopJob(g) PROVE FinishInv'
  <2>1. made + 1 \in RunIds
    BY <1>2, RoomForRun DEF LoopJob, Go
  <2>2. CASE StartRun(g)
    BY <1>2, <2>1, <2>2, Starting
    DEF LoopJob, runs, Inv, Types, RunType, FinishInv
  <2>3. CASE UNCHANGED <<busy, current, made, owner, runs>>
    BY <1>2, <2>3
    DEF LoopJob, Go, runs, Inv, Types, RunType, FinishInv
  <2> QED
    BY <1>2, <2>2, <2>3 DEF LoopJob
<1>3. ASSUME NEW r \in RunIds, RunFailFast(r) PROVE FinishInv'
  BY <1>3 DEF RunFailFast, Inv, Types, FinishInv, RunType, Go
<1>4. ASSUME NEW r \in RunIds, RunMeasured(r) PROVE FinishInv'
  BY <1>4 DEF RunMeasured, Cancelled, Inv, Types, FinishInv, RunType, Go
<1>5. ASSUME NEW r \in RunIds, RunPanic(r) PROVE FinishInv'
  BY <1>5 DEF RunPanic, Inv, Types, FinishInv, RunType, Go
<1>6. ASSUME NEW r \in RunIds, RunLoad(r) PROVE FinishInv'
  BY <1>6 DEF RunLoad, Inv, Types, FinishInv, RunType, Go
<1>7. ASSUME NEW r \in RunIds, RunWrite(r) \/ RunUnread(r) \/ RunUnwritten(r)
      PROVE  FinishInv'
  BY <1>7 DEF RunWrite, RunUnread, RunUnwritten, Inv, Types, FinishInv, RunType, Go
<1>8. ASSUME NEW r \in RunIds, RunStatus(r) PROVE FinishInv'
  BY <1>8 DEF RunStatus, Inv, Types, FinishInv, RunType, Go
<1>9. ASSUME NEW r \in RunIds, RunRelease(r) PROVE FinishInv'
  BY <1>9 DEF RunRelease, Inv, Types, FinishInv, RunType, Go
<1>10. ASSUME NEW r \in RunIds, RunClose(r) PROVE FinishInv'
  BY <1>10 DEF RunClose, Inv, Types, FinishInv, RunType, Go
<1>11. ASSUME NEW r \in RunIds, CancelRun(r) PROVE FinishInv'
  BY <1>11 DEF CancelRun, IsCurrent, Inv, Types, FinishInv, RunType, Go
<1>12. ASSUME UNCHANGED runs PROVE FinishInv'
  BY <1>12 DEF Inv, Types, FinishInv, RunType, Go, runs
<1> QED
  BY <1>1, <1>2, <1>3, <1>4, <1>5, <1>6, <1>7, <1>8, <1>9, <1>10, <1>11, <1>12,
     RunsFrame

\* A cancel reaches the run that has the slot, which is the one it names.
LEMMA CancelInvStep == Inv /\ [Next]_vars => CancelInv'
<1> SUFFICES ASSUME Inv, [Next]_vars PROVE CancelInv'
  OBVIOUS
<1>1. ASSUME PostRun PROVE CancelInv'
  BY <1>1
  DEF PostRun, StartRun, CanStart, Inv, Types, CancelInv, RunType, ClientType, Go,
      runs, clients, others
<1>2. ASSUME NEW g \in Gens, LoopJob(g) PROVE CancelInv'
  BY <1>2
  DEF LoopJob, StartRun, CanStart, Inv, Types, CancelInv, RunType, ClientType, Go,
      runs, clients, others
<1>3. ASSUME NEW r \in RunIds, RunFailFast(r) PROVE CancelInv'
  BY <1>3
  DEF RunFailFast, Inv, Types, CancelInv, RunType, ClientType, Go, runs, clients,
      others
<1>4. ASSUME NEW r \in RunIds, RunMeasured(r) PROVE CancelInv'
  BY <1>4
  DEF RunMeasured, Cancelled, Inv, Types, CancelInv, RunType, ClientType, Go, runs,
      clients, others
<1>5. ASSUME NEW r \in RunIds, RunPanic(r) PROVE CancelInv'
  BY <1>5
  DEF RunPanic, Inv, Types, CancelInv, RunType, ClientType, Go, runs, clients, others
<1>6. ASSUME NEW r \in RunIds, RunLoad(r) PROVE CancelInv'
  BY <1>6
  DEF RunLoad, Inv, Types, CancelInv, RunType, ClientType, Go, runs, clients, others
<1>7. ASSUME NEW r \in RunIds, RunWrite(r) \/ RunUnread(r) \/ RunUnwritten(r)
      PROVE  CancelInv'
  BY <1>7
  DEF RunWrite, RunUnread, RunUnwritten, Inv, Types, CancelInv, RunType, ClientType,
      Go, runs, clients, others
<1>8. ASSUME NEW r \in RunIds, RunStatus(r) PROVE CancelInv'
  BY <1>8
  DEF RunStatus, Inv, Types, CancelInv, RunType, ClientType, Go, runs, clients, others
<1>9. ASSUME NEW r \in RunIds, RunRelease(r) PROVE CancelInv'
  BY <1>9
  DEF RunRelease, Inv, Types, CancelInv, RunType, ClientType, Go, runs, clients, others
<1>10. ASSUME NEW r \in RunIds, RunClose(r) PROVE CancelInv'
  BY <1>10
  DEF RunClose, Inv, Types, CancelInv, RunType, ClientType, Go, runs, clients, others
<1>11. ASSUME NEW r \in RunIds, CancelRun(r) PROVE CancelInv'
  BY <1>11
  DEF CancelRun, IsCurrent, Inv, Types, CancelInv, RunType, ClientType, Go, runs,
      clients, others
<1>12. ASSUME Cancel PROVE CancelInv'
  BY <1>12
  DEF Cancel, Inv, Types, CancelInv, RunType, ClientType, Go, runs, clients, others
<1>13. ASSUME UNCHANGED <<runs, clients>> PROVE CancelInv'
  BY <1>13 DEF Inv, Types, CancelInv, RunType, ClientType, Go, runs, clients, others
<1> QED
  BY <1>1, <1>2, <1>3, <1>4, <1>5, <1>6, <1>7, <1>8, <1>9, <1>10, <1>11, <1>12, <1>13,
     RunsFrame, ClientsFrame

\* The job waits for the run it started.
LEMMA JobInvStep == Inv /\ [Next]_vars => JobInv'
<1> SUFFICES ASSUME Inv, [Next]_vars PROVE JobInv'
  OBVIOUS
<1>1. ASSUME NEW w \in Writers, PutArm(w) PROVE JobInv'
  BY <1>1, Constants
  DEF PutArm, Arm, Retime, Inv, Types, JobInv, LoopType, JobType, RunType, ClientType,
      SlotInv, SchedLockInv, Go, loops, job, runs, clients, others
<1>2. ASSUME NEW w \in Writers, PutStop(w) PROVE JobInv'
  BY <1>2, Constants
  DEF PutStop, Inv, Types, JobInv, LoopType, JobType, RunType, ClientType, SlotInv,
      SchedLockInv, Go, loops, job, runs, clients, others
<1>3. ASSUME PostRun PROVE JobInv'
  BY <1>3, Constants
  DEF PostRun, StartRun, CanStart, Inv, Types, JobInv, LoopType, JobType, RunType,
      ClientType, SlotInv, SchedLockInv, Go, loops, job, runs, clients, others
<1>4. ASSUME NEW g \in Gens, LoopTick(g) PROVE JobInv'
  BY <1>4, Constants
  DEF LoopTick, Inv, Types, JobInv, LoopType, JobType, RunType, ClientType, SlotInv,
      SchedLockInv, Go, loops, job, runs, clients, others
<1>5. ASSUME NEW g \in Gens, LoopJob(g) PROVE JobInv'
  BY <1>5, Constants
  DEF LoopJob, StartRun, CanStart, Inv, Types, JobInv, LoopType, JobType, RunType,
      ClientType, SlotInv, SchedLockInv, Go, loops, job, runs, clients, others
<1>6. ASSUME NEW g \in Gens, LoopAwait(g) PROVE JobInv'
  BY <1>6, Constants
  DEF LoopAwait, JobOver, Inv, Types, JobInv, LoopType, JobType, RunType, ClientType,
      SlotInv, SchedLockInv, Go, loops, job, runs, clients, others
<1>7. ASSUME NEW g \in Gens, LoopFinish(g) PROVE JobInv'
  BY <1>7, Constants
  DEF LoopFinish, Inv, Types, JobInv, LoopType, JobType, RunType, ClientType, SlotInv,
      SchedLockInv, Go, loops, job, runs, clients, others
<1>8. ASSUME NEW g \in Gens, LoopEnd(g) PROVE JobInv'
  BY <1>8, Constants
  DEF LoopEnd, Inv, Types, JobInv, LoopType, JobType, RunType, ClientType, SlotInv,
      SchedLockInv, Go, loops, job, runs, clients, others
<1>9. ASSUME NEW r \in RunIds, RunFailFast(r) PROVE JobInv'
  BY <1>9, Constants
  DEF RunFailFast, Inv, Types, JobInv, LoopType, JobType, RunType, ClientType, SlotInv,
      SchedLockInv, Go, loops, job, runs, clients, others
<1>10. ASSUME NEW r \in RunIds, RunMeasured(r) PROVE JobInv'
  BY <1>10, Constants
  DEF RunMeasured, Cancelled, Inv, Types, JobInv, LoopType, JobType, RunType,
      ClientType, SlotInv, SchedLockInv, Go, loops, job, runs, clients, others
<1>11. ASSUME NEW r \in RunIds, RunPanic(r) PROVE JobInv'
  BY <1>11, Constants
  DEF RunPanic, Inv, Types, JobInv, LoopType, JobType, RunType, ClientType, SlotInv,
      SchedLockInv, Go, loops, job, runs, clients, others
<1>12. ASSUME NEW r \in RunIds, RunLoad(r) PROVE JobInv'
  BY <1>12, Constants
  DEF RunLoad, Inv, Types, JobInv, LoopType, JobType, RunType, ClientType, SlotInv,
      SchedLockInv, Go, loops, job, runs, clients, others
<1>13. ASSUME NEW r \in RunIds, RunWrite(r) \/ RunUnread(r) \/ RunUnwritten(r)
       PROVE  JobInv'
  BY <1>13, Constants
  DEF RunWrite, RunUnread, RunUnwritten, Inv, Types, JobInv, LoopType, JobType,
      RunType, ClientType, SlotInv, SchedLockInv, Go, loops, job, runs, clients, others
<1>14. ASSUME NEW r \in RunIds, RunStatus(r) PROVE JobInv'
  BY <1>14, Constants
  DEF RunStatus, Inv, Types, JobInv, LoopType, JobType, RunType, ClientType, SlotInv,
      SchedLockInv, Go, loops, job, runs, clients, others
<1>15. ASSUME NEW r \in RunIds, RunRelease(r) PROVE JobInv'
  BY <1>15, Constants
  DEF RunRelease, Inv, Types, JobInv, LoopType, JobType, RunType, ClientType, SlotInv,
      SchedLockInv, Go, loops, job, runs, clients, others
<1>16. ASSUME NEW r \in RunIds, RunClose(r) PROVE JobInv'
  BY <1>16, Constants
  DEF RunClose, Inv, Types, JobInv, LoopType, JobType, RunType, ClientType, SlotInv,
      SchedLockInv, Go, loops, job, runs, clients, others
<1>17. ASSUME NEW r \in RunIds, CancelRun(r) PROVE JobInv'
  BY <1>17, Constants
  DEF CancelRun, IsCurrent, Inv, Types, JobInv, LoopType, JobType, RunType, ClientType,
      SlotInv, SchedLockInv, Go, loops, job, runs, clients, others
<1>18. ASSUME Cancel PROVE JobInv'
  BY <1>18, Constants
  DEF Cancel, Inv, Types, JobInv, LoopType, JobType, RunType, ClientType, SlotInv,
      SchedLockInv, Go, loops, job, runs, clients, others
<1>19. ASSUME UNCHANGED <<loops, job, runs, clients>> PROVE JobInv'
  BY <1>19, Constants
  DEF Inv, Types, JobInv, LoopType, JobType, RunType, ClientType, SlotInv,
      SchedLockInv, Go, loops, job, runs, clients, others
<1> QED
  BY <1>1, <1>2, <1>3, <1>4, <1>5, <1>6, <1>7, <1>8, <1>9, <1>10, <1>11, <1>12, <1>13,
     <1>14, <1>15, <1>16, <1>17, <1>18, <1>19, LoopsFrame, JobFrame, RunsFrame,
     ClientsFrame

\* A loop that is about to start a run has a firing to start it for.
LEMMA RunBoundStep == Inv /\ [Next]_vars => RunBound'
<1> SUFFICES ASSUME Inv, [Next]_vars PROVE RunBound'
  OBVIOUS
<1>1. ASSUME NEW w \in Writers, PutArm(w) PROVE RunBound'
  BY <1>1, Constants
  DEF PutArm, Arm, Retime, Inv, Types, RunBound, BoundInv, SchedLockInv, LoopType,
      JobType, Go, loops, job
<1>2. ASSUME NEW w \in Writers, PutStop(w) PROVE RunBound'
  BY <1>2, Constants
  DEF PutStop, Inv, Types, RunBound, BoundInv, SchedLockInv, LoopType, JobType, Go,
      loops, job
<1>3. ASSUME PostRun PROVE RunBound'
  BY <1>3, Constants
  DEF PostRun, StartRun, CanStart, Inv, Types, RunBound, BoundInv, SchedLockInv,
      LoopType, JobType, Go, loops, job
<1>4. ASSUME NEW g \in Gens, LoopTick(g) PROVE RunBound'
  BY <1>4, Constants
  DEF LoopTick, Inv, Types, RunBound, BoundInv, SchedLockInv, LoopType, JobType, Go,
      loops, job
<1>5. ASSUME NEW g \in Gens, LoopJob(g) PROVE RunBound'
  BY <1>5, Constants
  DEF LoopJob, StartRun, CanStart, Inv, Types, RunBound, BoundInv, SchedLockInv,
      LoopType, JobType, Go, loops, job
<1>6. ASSUME NEW g \in Gens, LoopAwait(g) PROVE RunBound'
  BY <1>6, Constants
  DEF LoopAwait, JobOver, Inv, Types, RunBound, BoundInv, SchedLockInv, LoopType,
      JobType, Go, loops, job
<1>7. ASSUME NEW g \in Gens, LoopFinish(g) PROVE RunBound'
  BY <1>7, Constants
  DEF LoopFinish, Inv, Types, RunBound, BoundInv, SchedLockInv, LoopType, JobType, Go,
      loops, job
<1>8. ASSUME NEW g \in Gens, LoopEnd(g) PROVE RunBound'
  BY <1>8, Constants
  DEF LoopEnd, Inv, Types, RunBound, BoundInv, SchedLockInv, LoopType, JobType, Go,
      loops, job
<1>9. ASSUME NEW r \in RunIds, RunRelease(r) PROVE RunBound'
  BY <1>9, Constants
  DEF RunRelease, Inv, Types, RunBound, BoundInv, SchedLockInv, LoopType, JobType, Go,
      loops, job
<1>10. ASSUME UNCHANGED <<loops, job>> PROVE RunBound'
  BY <1>10, Constants
  DEF Inv, Types, RunBound, BoundInv, SchedLockInv, LoopType, JobType, Go, loops, job
<1> QED
  BY <1>1, <1>2, <1>3, <1>4, <1>5, <1>6, <1>7, <1>8, <1>9, <1>10, LoopsFrame, JobFrame

\* A PUT that arms a scheduler was pending.
LEMMA GenBoundStep == Inv /\ [Next]_vars => GenBound'
<1> SUFFICES ASSUME Inv, [Next]_vars PROVE GenBound'
  OBVIOUS
<1>1. ASSUME NEW w \in Writers, NEW c \in Configs, PutSave(w, c) PROVE GenBound'
  <2>1. Go(put, w, "idle", "swap")
    BY <1>1 DEF PutSave
  <2>2. Cardinality(Pending') = Cardinality(Pending) + 1 /\ Cardinality(Pending) \in Nat
    BY <2>1, PendingStep DEF Inv
  <2> QED
    BY <1>1, <2>2, Constants
    DEF PutSave, Inv, Types, PutType, LoopType, BoundInv, GenBound, loops
<1>2. ASSUME NEW w \in Writers, PutSwap(w) PROVE GenBound'
  <2>1. Go(put, w, "swap", "debug")
    BY <1>2 DEF PutSwap
  <2>2. Cardinality(Pending') = Cardinality(Pending) /\ Cardinality(Pending) \in Nat
    BY <2>1, PendingStep DEF Inv
  <2> QED
    BY <1>2, <2>2, Constants
    DEF PutSwap, Inv, Types, PutType, LoopType, BoundInv, GenBound, loops
<1>3. ASSUME NEW w \in Writers, PutDebug(w) PROVE GenBound'
  <2>1. Go(put, w, "debug", "reconcile")
    BY <1>3 DEF PutDebug
  <2>2. Cardinality(Pending') = Cardinality(Pending) /\ Cardinality(Pending) \in Nat
    BY <2>1, PendingStep DEF Inv
  <2> QED
    BY <1>3, <2>2, Constants
    DEF PutDebug, Inv, Types, PutType, LoopType, BoundInv, GenBound, loops
<1>4. ASSUME NEW w \in Writers, PutArm(w) PROVE GenBound'
  <2>1. Go(put, w, "reconcile", "status")
    BY <1>4 DEF PutArm
  <2>2. Cardinality(Pending') = Cardinality(Pending) - 1 /\ Cardinality(Pending) \in Nat
    BY <2>1, PendingStep DEF Inv
  <2> QED
    BY <1>4, <2>2, Constants
    DEF PutArm, Inv, Types, PutType, LoopType, BoundInv, GenBound, loops, Arm, Retime
<1>5. ASSUME NEW w \in Writers, PutStayOff(w) PROVE GenBound'
  <2>1. Go(put, w, "reconcile", "status")
    BY <1>5 DEF PutStayOff
  <2>2. Cardinality(Pending') = Cardinality(Pending) - 1 /\ Cardinality(Pending) \in Nat
    BY <2>1, PendingStep DEF Inv
  <2> QED
    BY <1>5, <2>2, Constants
    DEF PutStayOff, Inv, Types, PutType, LoopType, BoundInv, GenBound, loops
<1>6. ASSUME NEW w \in Writers, PutStop(w) PROVE GenBound'
  <2>1. Go(put, w, "reconcile", "stopWait")
    BY <1>6 DEF PutStop
  <2>2. Cardinality(Pending') = Cardinality(Pending) - 1 /\ Cardinality(Pending) \in Nat
    BY <2>1, PendingStep DEF Inv
  <2> QED
    BY <1>6, <2>2, Constants
    DEF PutStop, Inv, Types, PutType, LoopType, BoundInv, GenBound, loops
<1>7. ASSUME NEW w \in Writers, PutStopped(w) PROVE GenBound'
  <2>1. Go(put, w, "stopWait", "status")
    BY <1>7 DEF PutStopped
  <2>2. Cardinality(Pending') = Cardinality(Pending) /\ Cardinality(Pending) \in Nat
    BY <2>1, PendingStep DEF Inv
  <2> QED
    BY <1>7, <2>2, Constants
    DEF PutStopped, Inv, Types, PutType, LoopType, BoundInv, GenBound, loops
<1>8. ASSUME NEW w \in Writers, PutStatus(w) PROVE GenBound'
  <2>1. Go(put, w, "status", "idle")
    BY <1>8 DEF PutStatus
  <2>2. Cardinality(Pending') = Cardinality(Pending) /\ Cardinality(Pending) \in Nat
    BY <2>1, PendingStep DEF Inv
  <2> QED
    BY <1>8, <2>2, Constants
    DEF PutStatus, Inv, Types, PutType, LoopType, BoundInv, GenBound, loops
<1>9. ASSUME NEW g \in Gens, LoopTick(g) PROVE GenBound'
  <2>1. gens' = gens /\ puts' = puts /\ Pending' = Pending
    BY <1>9 DEF LoopTick, handlers, Pending
  <2> QED
    BY <2>1 DEF Inv, BoundInv, GenBound
<1>10. ASSUME NEW g \in Gens, LoopJob(g) PROVE GenBound'
  <2>1. gens' = gens /\ puts' = puts /\ Pending' = Pending
    BY <1>10 DEF LoopJob, handlers, Pending
  <2> QED
    BY <2>1 DEF Inv, BoundInv, GenBound
<1>11. ASSUME NEW g \in Gens, LoopAwait(g) PROVE GenBound'
  <2>1. gens' = gens /\ puts' = puts /\ Pending' = Pending
    BY <1>11 DEF LoopAwait, handlers, Pending
  <2> QED
    BY <2>1 DEF Inv, BoundInv, GenBound
<1>12. ASSUME NEW g \in Gens, LoopFinish(g) PROVE GenBound'
  <2>1. gens' = gens /\ puts' = puts /\ Pending' = Pending
    BY <1>12 DEF LoopFinish, handlers, Pending
  <2> QED
    BY <2>1 DEF Inv, BoundInv, GenBound
<1>13. ASSUME NEW g \in Gens, LoopEnd(g) PROVE GenBound'
  <2>1. gens' = gens /\ puts' = puts /\ Pending' = Pending
    BY <1>13 DEF LoopEnd, handlers, Pending
  <2> QED
    BY <2>1 DEF Inv, BoundInv, GenBound
<1>14. ASSUME UNCHANGED <<loops, handlers>> PROVE GenBound'
  <2>1. gens' = gens /\ puts' = puts /\ Pending' = Pending
    BY <1>14 DEF loops, handlers, Pending
  <2> QED
    BY <2>1 DEF Inv, BoundInv, GenBound
<1> QED
  BY <1>1, <1>2, <1>3, <1>4, <1>5, <1>6, <1>7, <1>8, <1>9, <1>10, <1>11, <1>12, <1>13,
     <1>14, LoopsFrame, HandlersFrame

\* Every run the scheduler counts had a firing.
LEMMA CountBoundStep == Inv /\ [Next]_vars => CountBound'
<1> SUFFICES ASSUME Inv, [Next]_vars PROVE CountBound'
  OBVIOUS
<1>1. ASSUME NEW w \in Writers, PutArm(w) PROVE CountBound'
  BY <1>1, Constants
  DEF PutArm, Arm, Retime, Inv, Types, CountBound, BoundInv, SchedLockInv, LoopType,
      LoopPcs, Go, loops
<1>2. ASSUME NEW w \in Writers, PutStop(w) PROVE CountBound'
  BY <1>2, Constants
  DEF PutStop, Inv, Types, CountBound, BoundInv, SchedLockInv, LoopType, LoopPcs, Go,
      loops
<1>3. ASSUME NEW g \in Gens, LoopTick(g) PROVE CountBound'
  BY <1>3, Constants
  DEF LoopTick, Inv, Types, CountBound, BoundInv, SchedLockInv, LoopType, LoopPcs, Go,
      loops
<1>4. ASSUME NEW g \in Gens, LoopJob(g) PROVE CountBound'
  BY <1>4, Constants
  DEF LoopJob, StartRun, CanStart, Inv, Types, CountBound, BoundInv, SchedLockInv,
      LoopType, LoopPcs, Go, loops
<1>5. ASSUME NEW g \in Gens, LoopAwait(g) PROVE CountBound'
  BY <1>5, Constants
  DEF LoopAwait, JobOver, Inv, Types, CountBound, BoundInv, SchedLockInv, LoopType,
      LoopPcs, Go, loops
<1>6. ASSUME NEW g \in Gens, LoopFinish(g) PROVE CountBound'
  BY <1>6, Constants
  DEF LoopFinish, Inv, Types, CountBound, BoundInv, SchedLockInv, LoopType, LoopPcs,
      Go, loops
<1>7. ASSUME NEW g \in Gens, LoopEnd(g) PROVE CountBound'
  BY <1>7, Constants
  DEF LoopEnd, Inv, Types, CountBound, BoundInv, SchedLockInv, LoopType, LoopPcs, Go,
      loops
<1>8. ASSUME UNCHANGED loops PROVE CountBound'
  BY <1>8, Constants
  DEF Inv, Types, CountBound, BoundInv, SchedLockInv, LoopType, LoopPcs, Go, loops
<1> QED
  BY <1>1, <1>2, <1>3, <1>4, <1>5, <1>6, <1>7, <1>8, LoopsFrame

-----------------------------------------------------------------------------
(* The history *)

\* Steps that record nothing and leave the file alone.
LEMMA NothingRecorded ==
  ASSUME Inv, UNCHANGED <<history, deleted>>,
         \A q \in RunIds : Recorded(q)' <=> Recorded(q),
         \A q \in unrecorded' : Finished(q)'
  PROVE  HistoryInv'
<1>1. \A r \in RunIds : Newer(r)' = Newer(r)
  BY DEF Newer
<1>2. history \in Seq(RunIds) /\ deleted \subseteq RunIds
  BY DEF Inv, Types, RecordType
<1>3. \A i \in 1..Len(history) : history[i] \in RunIds
  BY <1>2
<1> QED
  BY <1>1, <1>2, <1>3 DEF Inv, HistoryInv

\* Those of them that finish no run either.
LEMMA HistoryStays ==
  ASSUME Inv, UNCHANGED <<history, deleted, unrecorded>>,
         \A q \in RunIds : Finished(q)' <=> Finished(q)
  PROVE  HistoryInv'
<1>1. \A q \in RunIds : Recorded(q)' <=> Recorded(q)
  BY DEF Recorded
<1>2. unrecorded \subseteq RunIds /\ \A q \in unrecorded : Finished(q)
  BY DEF Inv, Types, RecordType, HistoryInv
<1>3. \A q \in unrecorded' : Finished(q)'
  BY <1>2
<1> QED
  BY <1>1, <1>3, NothingRecorded

\* AppendRun fails.
LEMMA FailureKeepsHistory ==
  ASSUME Inv, NEW r \in RunIds, RunUnread(r) \/ RunUnwritten(r)
  PROVE  HistoryInv'
<1>1. /\ run[r] \in {"load", "write"} /\ run' = [run EXCEPT ![r] = "status"]
      /\ unrecorded' = unrecorded \cup {r} /\ UNCHANGED <<history, deleted>>
  BY DEF RunUnread, RunUnwritten, Unrecorded, Go
<1>2. \A q \in RunIds : Finished(q)' <=> Finished(q) \/ q = r
  BY <1>1 DEF Finished, Inv, Types, RunType
<1>3. \A q \in RunIds : Recorded(q)' <=> Recorded(q)
  BY <1>1, <1>2 DEF Recorded, Finished
<1>4. unrecorded \subseteq RunIds /\ \A q \in unrecorded : Finished(q)
  BY DEF Inv, Types, RecordType, HistoryInv
<1>5. \A q \in unrecorded' : Finished(q)'
  BY <1>1, <1>2, <1>4
<1> QED
  BY <1>1, <1>3, <1>5, NothingRecorded

\* The runs that are over are older than the one that is on.
LEMMA OnlyTheLastIsOn ==
  ASSUME Inv, NEW r \in RunIds, run[r] = "write"
  PROVE  /\ \A q \in RunIds : Recorded(q) => q < r
         /\ ~Finished(r) /\ ~Recorded(r) /\ r \notin deleted /\ r \notin unrecorded
<1>1. r = made /\ \A q \in RunIds : q > r => run[q] = "none"
  BY Constants DEF Inv, SlotInv, Active, Types, JobType
<1>2. ~Finished(r) /\ \A q \in RunIds : q > r => ~Recorded(q)
  BY <1>1 DEF Recorded, Finished
<1>3. ~Recorded(r) /\ r \notin deleted /\ r \notin unrecorded
  BY <1>2 DEF Recorded, Inv, HistoryInv
<1> QED
  BY <1>2, <1>3, Constants

\* In a finite set that holds the n values of an increasing sequence there are n.
LEMMA IncreasingFits ==
  ASSUME NEW n \in Nat, NEW s, NEW T, IsFiniteSet(T),
         \A i \in 1..n : s[i] \in T,
         \A i, j \in 1..n : i < j => s[i] # s[j]
  PROVE  n <= Cardinality(T)
<1> DEFINE f == [i \in 1..n |-> s[i]]
<1>1. f \in Injection(1..n, T)
  BY DEF Injection, IsInjective
<1>2. IsFiniteSet(1..n) /\ Cardinality(1..n) = n
  BY FS_Interval
<1> HIDE DEF f
<1> QED
  BY <1>1, <1>2, FS_Injection

\* Where a run is once it has been recorded.
Over == {"status", "release", "close", "closed"}

\* AppendRun: a record that is pushed out has as many newer ones as the limit.
LEMMA RunWriteKeepsHistory ==
  ASSUME Inv, NEW r \in RunIds, RunWrite(r)
  PROVE  HistoryInv'
<1> DEFINE s == Append(history, r)
           d == Dropped(s, HistoryLimit)
<1>1. /\ run[r] = "write" /\ loaded[r] = history /\ history' = Newest(s, HistoryLimit)
      /\ UNCHANGED <<deleted, unrecorded>>
      /\ \A q \in RunIds : Finished(q)' <=> Finished(q) \/ q = r
  BY DEF RunWrite, Go, Inv, StoreLockInv, Types, RunType, Finished
<1>2. \A q \in RunIds : Recorded(q)' <=> Recorded(q) \/ q = r
  BY <1>1, OnlyTheLastIsOn DEF Recorded
<1>3. /\ history \in Seq(RunIds) /\ s \in Seq(RunIds) /\ Len(history) \in Nat
      /\ Len(s) = Len(history) + 1 /\ s[Len(s)] = r
      /\ \A i \in 1..Len(history) : s[i] = history[i] /\ history[i] \in RunIds
  BY DEF Inv, Types, RecordType
<1>4. HistoryLimit \in Nat /\ RunIds \subseteq Nat
  BY Constants
<1> HIDE DEF s
<1>5. /\ d \in 0..Len(s) /\ history' \in Seq(RunIds) /\ Len(history') = Len(s) - d
      /\ \A i \in 1..Len(history') : history'[i] = s[i + d]
  <2>1. HistoryLimit \in Int
    BY <1>4
  <2> QED
    BY <1>1, <1>3, <2>1, NewestIsSuffix
<1>6. d = IF HistoryLimit > 0 /\ Len(s) > HistoryLimit THEN Len(s) - HistoryLimit ELSE 0
  BY DEF Dropped
<1> HIDE DEF d
<1>7. \A i \in 1..Len(s) : s[i] \in RunIds /\ (i < Len(s) => s[i] < r /\ Recorded(s[i]))
  BY <1>1, <1>3, OnlyTheLastIsOn DEF Inv, HistoryInv
<1>8. \A i, j \in 1..Len(s) : i < j => s[i] < s[j]
  <2> SUFFICES ASSUME NEW i \in 1..Len(s), NEW j \in 1..Len(s), i < j PROVE s[i] < s[j]
    OBVIOUS
  <2>1. i < Len(s) /\ i \in 1..Len(history)
    BY <1>3
  <2>2. CASE j = Len(s)
    BY <1>3, <1>7, <2>1, <2>2
  <2>3. CASE j \in 1..Len(history)
    BY <1>3, <2>1, <2>3 DEF Inv, HistoryInv
  <2> QED
    BY <1>3, <2>2, <2>3
<1>9. \A i, j \in 1..Len(history') : i < j => history'[i] < history'[j]
  <2> SUFFICES ASSUME NEW i \in 1..Len(history'), NEW j \in 1..Len(history'), i < j
               PROVE  history'[i] < history'[j]
    OBVIOUS
  <2>1. i + d \in 1..Len(s) /\ j + d \in 1..Len(s) /\ i + d < j + d
    BY <1>3, <1>5
  <2> QED
    BY <1>5, <1>8, <2>1
<1>10. (\A q \in deleted : Recorded(q))' /\ (\A q \in unrecorded : Finished(q))'
  <2>1. /\ deleted \subseteq RunIds /\ unrecorded \subseteq RunIds
        /\ \A q \in deleted : Recorded(q)
        /\ \A q \in unrecorded : Finished(q)
    BY DEF Inv, Types, RecordType, HistoryInv
  <2>2. ASSUME NEW q \in deleted' PROVE Recorded(q)'
    BY <1>1, <1>2, <2>1
  <2>3. ASSUME NEW q \in unrecorded' PROVE Finished(q)'
    BY <1>1, <2>1
  <2> QED
    BY <2>2, <2>3
<1>11. ASSUME NEW i \in 1..Len(history')
       PROVE  /\ run'[history'[i]] \in Over
              /\ history'[i] \notin unrecorded' /\ history'[i] \notin deleted'
  <2>1. i + d \in 1..Len(s) /\ history'[i] = s[i + d]
    BY <1>3, <1>5
  <2>2. CASE i + d = Len(s)
    <3>1. s[i + d] = r
      BY <1>3, <2>2
    <3> QED
      BY <1>1, <2>1, <3>1, OnlyTheLastIsOn DEF Finished, Over
  <2>3. CASE i + d # Len(s)
    <3>1. i + d \in 1..Len(history) /\ s[i + d] = history[i + d] /\ s[i + d] \in RunIds
      BY <1>3, <2>1, <2>3
    <3>2. Recorded(s[i + d]) /\ s[i + d] \notin deleted
      BY <3>1 DEF Inv, HistoryInv
    <3> QED
      BY <1>1, <2>1, <3>1, <3>2 DEF Recorded, Finished, Over
  <2> QED
    BY <2>2, <2>3
<1>12. ASSUME NEW q \in RunIds, Recorded(q)', q \notin deleted',
              HistoryLimit = 0 \/ Cardinality(Newer(q)') < HistoryLimit
       PROVE  \E i \in 1..Len(history') : history'[i] = q
  <2>0. IsFiniteSet(RunIds)
    BY Constants, FS_Interval DEF RunIds
  <2>1. Newer(q) \subseteq Newer(q)' /\ IsFiniteSet(Newer(q)')
    BY <1>2, <2>0, FS_Subset DEF Newer
  <2>2. Cardinality(Newer(q)) <= Cardinality(Newer(q)')
        /\ Cardinality(Newer(q)) \in Nat /\ Cardinality(Newer(q)') \in Nat
    BY <2>1, FS_Subset, FS_CardinalityType
  <2>3. PICK i \in 1..Len(s) : s[i] = q
    <3>1. CASE q = r
      BY <1>3, <3>1
    <3>2. CASE q # r
      <4>1. HistoryLimit = 0 \/ Cardinality(Newer(q)) < HistoryLimit
        BY <1>4, <1>12, <2>2
      <4>2. Recorded(q) /\ q \notin deleted
        BY <1>1, <1>12, <1>2, <3>2
      <4>3. PICK i \in 1..Len(history) : history[i] = q
        BY <4>1, <4>2 DEF Inv, HistoryInv
      <4> QED
        BY <1>3, <4>3
    <3> QED
      BY <3>1, <3>2
  <2>4. i > d
    <3> SUFFICES ASSUME i <= d PROVE FALSE
      BY <1>3, <1>5
    <3>1. HistoryLimit > 0 /\ d = Len(s) - HistoryLimit /\ HistoryLimit \in Nat
      BY <1>3, <1>4, <1>5, <1>6
    <3>2. \A k \in 1..HistoryLimit : k + d \in 1..Len(s) /\ i < k + d
      BY <1>3, <1>5, <3>1
    <3> DEFINE t == [k \in 1..HistoryLimit |-> s[k + d]]
    <3>3. \A k \in 1..HistoryLimit : t[k] \in Newer(q)'
      <4> SUFFICES ASSUME NEW k \in 1..HistoryLimit PROVE t[k] \in Newer(q)'
        OBVIOUS
      <4>1. s[k + d] > q /\ s[k + d] \in RunIds
        BY <1>4, <1>7, <1>8, <2>3, <3>2
      <4>2. run'[s[k + d]] \in Over /\ s[k + d] \notin unrecorded'
        BY <1>1, <1>3, <1>7, <3>2, OnlyTheLastIsOn DEF Recorded, Finished, Over
      <4> QED
        BY <4>1, <4>2 DEF Newer, Recorded, Finished, Over
    <3>4. \A k, l \in 1..HistoryLimit : k < l => t[k] # t[l]
      <4> SUFFICES ASSUME NEW k \in 1..HistoryLimit, NEW l \in 1..HistoryLimit, k < l
                   PROVE  t[k] # t[l]
        OBVIOUS
      <4>1. s[k + d] < s[l + d] /\ s[k + d] \in Nat /\ s[l + d] \in Nat
        <5>1. k + d < l + d
          BY <1>3, <1>5
        <5> QED
          BY <1>4, <1>7, <1>8, <3>2, <5>1
      <4> QED
        BY <4>1
    <3> HIDE DEF t
    <3>5. HistoryLimit <= Cardinality(Newer(q)')
      BY <2>1, <3>1, <3>3, <3>4, IncreasingFits
    <3> QED
      BY <1>12, <2>2, <3>1, <3>5
  <2>5. i - d \in 1..Len(history') /\ i - d + d = i
    BY <1>3, <1>5, <2>4
  <2> QED
    BY <1>5, <2>3, <2>5
<1> QED
  BY <1>9, <1>10, <1>11, <1>12 DEF HistoryInv, Recorded, Finished, Over

\* DeleteRun removes the record it was asked to and no other.
LEMMA DeleteWriteKeepsHistory ==
  ASSUME Inv, DeleteWrite
  PROVE  HistoryInv'
<1>0. UNCHANGED runs /\ unrecorded' = unrecorded
  BY DEF DeleteWrite
<1>1. CASE /\ \E i \in DOMAIN loaded[Deleter] : loaded[Deleter][i] = target
           /\ history' = Without(loaded[Deleter], {target})
           /\ deleted' = deleted \cup {target}
  <2>1. /\ target \in RunIds /\ loaded[Deleter] = history
        /\ history' = Without(history, {target}) /\ deleted' = deleted \cup {target}
    BY <1>1 DEF DeleteWrite, Inv, Types, RecordType, StoreLockInv
  <2>2. /\ history \in Seq(RunIds) /\ Len(history) \in Nat
        /\ \A i \in 1..Len(history) : history[i] \in RunIds
        /\ deleted \subseteq RunIds /\ unrecorded \subseteq RunIds
    BY DEF Inv, Types, RecordType
  <2>3. /\ history' \in Seq(RunIds)
        /\ Subsequence(history', history, {target}, Len(history))
    BY <2>1, <2>2, WithoutKeepsTheRest
  <2>4. \A q \in RunIds : /\ Recorded(q)' <=> Recorded(q)
                          /\ Finished(q)' <=> Finished(q)
                          /\ Newer(q)' = Newer(q)
    BY <1>0 DEF runs, Recorded, Finished, Newer
  <2>5. \A i, j \in 1..Len(history') : i < j => history'[i] < history'[j]
    BY <2>3 DEF Subsequence, Inv, HistoryInv
  <2>6. ASSUME NEW i \in 1..Len(history')
        PROVE  /\ run'[history'[i]] \in Over
               /\ history'[i] \notin unrecorded' /\ history'[i] \notin deleted'
    <3>1. PICK k \in 1..Len(history) : history'[i] = history[k] /\ history[k] # target
      BY <2>3 DEF Subsequence
    <3>2. Recorded(history[k]) /\ history[k] \notin deleted
      BY DEF Inv, HistoryInv
    <3> QED
      BY <1>0, <2>1, <3>1, <3>2 DEF runs, Recorded, Finished, Over
  <2>7. (\A q \in deleted : Recorded(q))' /\ (\A q \in unrecorded : Finished(q))'
    <3>1. Recorded(target)
      <4>1. PICK i \in 1..Len(history) : history[i] = target
        BY <1>1, <2>1, <2>2
      <4> QED
        BY <4>1 DEF Inv, HistoryInv
    <3>2. \A q \in deleted : Recorded(q)
      BY DEF Inv, HistoryInv
    <3>3. ASSUME NEW q \in deleted' PROVE Recorded(q)'
      BY <2>1, <2>2, <2>4, <3>1, <3>2
    <3>4. \A q \in unrecorded : Finished(q)
      BY DEF Inv, HistoryInv
    <3>5. ASSUME NEW q \in unrecorded' PROVE Finished(q)'
      BY <1>0, <2>2, <2>4, <3>4
    <3> QED
      BY <3>3, <3>5
  <2>8. ASSUME NEW q \in RunIds, Recorded(q)', q \notin deleted',
               HistoryLimit = 0 \/ Cardinality(Newer(q)') < HistoryLimit
        PROVE  \E i \in 1..Len(history') : history'[i] = q
    <3>1. PICK k \in 1..Len(history) : history[k] = q
      BY <2>1, <2>4, <2>8 DEF Inv, HistoryInv
    <3>2. history[k] \notin {target}
      BY <2>1, <2>8, <3>1
    <3> QED
      BY <2>3, <3>1, <3>2 DEF Subsequence
  <2> QED
    BY <2>5, <2>6, <2>7, <2>8 DEF HistoryInv, Recorded, Finished, Over
<1>2. CASE UNCHANGED <<history, deleted>>
  <2>1. \A q \in RunIds : Finished(q)' <=> Finished(q)
    BY <1>0 DEF runs, Finished
  <2> QED
    BY <1>0, <1>2, <2>1, HistoryStays
<1> QED
  BY <1>1, <1>2 DEF DeleteWrite

\* Only RunWrite and DeleteWrite touch the file, and only AppendRun, done or
\* failed, brings a run past its record.
LEMMA HistoryInvStep == Inv /\ [Next]_vars => HistoryInv'
<1> SUFFICES ASSUME Inv, [Next]_vars PROVE HistoryInv'
  OBVIOUS
<1>1. ASSUME PostRun PROVE HistoryInv'
  <2>1. CASE StartRun(0)
    <3>1. made + 1 \in RunIds
      BY <1>1, RoomForRun DEF PostRun, Go
    <3>2. run[made + 1] = "none" /\ run' = [run EXCEPT ![made + 1] = "execute"]
      BY <2>1, <3>1, Starting
    <3>3. \A q \in RunIds : Finished(q)' <=> Finished(q)
      BY <3>1, <3>2 DEF Finished, Inv, Types, RunType
    <3> QED
      BY <1>1, <3>3, HistoryStays DEF PostRun, records
  <2>2. CASE UNCHANGED runs
    <3>1. \A q \in RunIds : Finished(q)' <=> Finished(q)
      BY <2>2 DEF runs, Finished
    <3> QED
      BY <1>1, <3>1, HistoryStays DEF PostRun, records
  <2> QED
    BY <1>1, <2>1, <2>2 DEF PostRun, runs
<1>2. ASSUME NEW g \in Gens, LoopJob(g) PROVE HistoryInv'
  <2>1. CASE StartRun(g)
    <3>1. made + 1 \in RunIds
      BY <1>2, RoomForRun DEF LoopJob, Go
    <3>2. run[made + 1] = "none" /\ run' = [run EXCEPT ![made + 1] = "execute"]
      BY <2>1, <3>1, Starting
    <3>3. \A q \in RunIds : Finished(q)' <=> Finished(q)
      BY <3>1, <3>2 DEF Finished, Inv, Types, RunType
    <3> QED
      BY <1>2, <3>3, HistoryStays DEF LoopJob, records
  <2>2. CASE UNCHANGED runs
    <3>1. \A q \in RunIds : Finished(q)' <=> Finished(q)
      BY <2>2 DEF runs, Finished
    <3> QED
      BY <1>2, <3>1, HistoryStays DEF LoopJob, records
  <2> QED
    BY <1>2, <2>1, <2>2 DEF LoopJob, runs
<1>3. ASSUME NEW r \in RunIds, RunFailFast(r) PROVE HistoryInv'
  <2>1. \A q \in RunIds : Finished(q)' <=> Finished(q)
    BY <1>3 DEF RunFailFast, Go, Finished, runs, Inv, Types, RunType
  <2> QED
    BY <1>3, <2>1, HistoryStays DEF RunFailFast, others, records
<1>4. ASSUME NEW r \in RunIds, RunMeasured(r) PROVE HistoryInv'
  <2>1. \A q \in RunIds : Finished(q)' <=> Finished(q)
    BY <1>4 DEF RunMeasured, Go, Finished, runs, Inv, Types, RunType
  <2> QED
    BY <1>4, <2>1, HistoryStays DEF RunMeasured, others, records
<1>5. ASSUME NEW r \in RunIds, RunPanic(r) PROVE HistoryInv'
  <2>1. \A q \in RunIds : Finished(q)' <=> Finished(q)
    BY <1>5 DEF RunPanic, Go, Finished, runs, Inv, Types, RunType, FinishInv
  <2> QED
    BY <1>5, <2>1, HistoryStays DEF RunPanic, others, records
<1>6. ASSUME NEW r \in RunIds, RunLoad(r) PROVE HistoryInv'
  <2>1. \A q \in RunIds : Finished(q)' <=> Finished(q)
    BY <1>6 DEF RunLoad, Go, Finished, runs, Inv, Types, RunType
  <2> QED
    BY <1>6, <2>1, HistoryStays DEF RunLoad, others, records
<1>7. ASSUME NEW r \in RunIds, RunWrite(r) PROVE HistoryInv'
  BY <1>7, RunWriteKeepsHistory
<1>8. ASSUME NEW r \in RunIds, RunStatus(r) PROVE HistoryInv'
  <2>1. \A q \in RunIds : Finished(q)' <=> Finished(q)
    BY <1>8 DEF RunStatus, Go, Finished, runs, Inv, Types, RunType
  <2> QED
    BY <1>8, <2>1, HistoryStays DEF RunStatus, others, records
<1>9. ASSUME NEW r \in RunIds, RunRelease(r) PROVE HistoryInv'
  <2>1. \A q \in RunIds : Finished(q)' <=> Finished(q)
    BY <1>9 DEF RunRelease, Go, Finished, runs, Inv, Types, RunType
  <2> QED
    BY <1>9, <2>1, HistoryStays DEF RunRelease, others, records
<1>10. ASSUME NEW r \in RunIds, RunClose(r) PROVE HistoryInv'
  <2>1. \A q \in RunIds : Finished(q)' <=> Finished(q)
    BY <1>10 DEF RunClose, Go, Finished, runs, Inv, Types, RunType
  <2> QED
    BY <1>10, <2>1, HistoryStays DEF RunClose, others, records
<1>11. ASSUME NEW r \in RunIds, CancelRun(r) PROVE HistoryInv'
  <2>1. \A q \in RunIds : Finished(q)' <=> Finished(q)
    BY <1>11 DEF CancelRun, Go, Finished, runs, Inv, Types, RunType
  <2> QED
    BY <1>11, <2>1, HistoryStays DEF CancelRun, others, records
<1>12. ASSUME NEW r \in RunIds, DeleteLoad(r) PROVE HistoryInv'
  <2>1. \A q \in RunIds : Finished(q)' <=> Finished(q)
    BY <1>12 DEF DeleteLoad, Go, Finished, runs, Inv, Types, RunType
  <2> QED
    BY <1>12, <2>1, HistoryStays DEF DeleteLoad, others, records
<1>13. ASSUME DeleteWrite PROVE HistoryInv'
  BY <1>13, DeleteWriteKeepsHistory
<1>14. ASSUME NEW r \in RunIds, RunUnread(r) \/ RunUnwritten(r) PROVE HistoryInv'
  BY <1>14, FailureKeepsHistory
<1>15. ASSUME UNCHANGED <<runs, records>> PROVE HistoryInv'
  <2>1. \A q \in RunIds : Finished(q)' <=> Finished(q)
    BY <1>15 DEF runs, Finished
  <2> QED
    BY <1>15, <2>1, HistoryStays DEF records
<1> QED
  BY <1>1, <1>2, <1>3, <1>4, <1>5, <1>6, <1>7, <1>8, <1>9, <1>10, <1>11, <1>12, <1>13,
     <1>14, <1>15, RunsFrame, RecordsFrame

-----------------------------------------------------------------------------
(* What follows *)

\* New leaves the server in a state that satisfies the invariant.
LEMMA InvInit == Init => Inv
<1> SUFFICES ASSUME Init PROVE Inv
  OBVIOUS
<1>0. /\ cfg \in Configs /\ cfg.plan \in Plans \cup {NoPlan} /\ cfg.enabled \in BOOLEAN
      /\ cfg.debug \in BOOLEAN
  BY ConfigAssumption DEF Init
<1>1. /\ sched \in {0, 1} /\ 1 \in Gens /\ 0 \notin Gens /\ 0 \notin RunIds
      /\ sched \in Gens \cup {0} /\ \A g \in Gens : g > sched <=> g # sched
  BY Constants DEF Init, Gens, RunIds
<1>2. Types
  <2>1. ConfigType /\ ArmedType
    BY <1>0, <1>1 DEF Init, ConfigType, ArmedType, View, IsArmed
  <2>2. PutType /\ LoopType
    BY <1>0, <1>1, Constants DEF Init, PutType, LoopType, PutPcs, LoopPcs
  <2>3. JobType /\ RunType /\ ClientType
    <3>1. Earlier \in RunIds \cup {0}
      BY Constants, BoundAssumption DEF RunIds
    <3>2. JobType /\ ClientType
      BY <1>1, <3>1 DEF Init, JobType, ClientType
    <3>3. RunType
      BY Constants DEF Init, RunType, RunPcs
    <3> QED
      BY <3>2, <3>3
  <2>4. RecordType
    <3>1. 1..Earlier \subseteq RunIds
      BY Constants, BoundAssumption DEF RunIds
    <3>2. history \in Seq(RunIds)
      BY <3>1, Constants DEF Init
    <3> QED
      BY <1>1, <3>2 DEF Init, RecordType
  <2> QED
    BY <2>1, <2>2, <2>3, <2>4 DEF Types
<1>3. StoreLockInv
  BY <1>1, Handlers DEF Init, StoreLockInv
<1>4. SchedLockInv
  BY <1>1, Handlers, Constants DEF Init, SchedLockInv
<1>5. SettledInv
  BY <1>1 DEF Init, SettledInv
<1>6. SlotInv /\ FinishInv /\ CancelInv /\ JobInv
  <2>1. \A r \in RunIds : (r > Earlier <=> ~(r <= Earlier))
    BY Constants
  <2>2. SlotInv
    BY <1>1, <2>1 DEF Init, SlotInv, Active
  <2>3. FinishInv
    BY DEF Init, FinishInv
  <2>4. CancelInv /\ JobInv
    BY <1>1, Constants DEF Init, CancelInv, JobInv
  <2> QED
    BY <2>2, <2>3, <2>4
<1>7. BoundInv
  <2>1. Pending = {}
    BY DEF Init, Pending
  <2>2. Cardinality(Pending) = 0
    BY <2>1, FS_EmptySet
  <2>3. RunBound /\ CountBound
    BY <1>1, Constants DEF Init, RunBound, CountBound
  <2>4. GenBound
    BY <1>1, <2>2, Constants DEF Init, GenBound
  <2> QED
    BY <2>3, <2>4 DEF BoundInv
<1>8. HistoryInv
  <2>1. /\ Len(history) = Earlier /\ \A i \in 1..Earlier : history[i] = i
        /\ 1..Earlier \subseteq RunIds /\ Earlier \in Nat
    BY Constants, BoundAssumption DEF Init, RunIds
  <2>2. \A r \in RunIds : Recorded(r) <=> r <= Earlier
    BY DEF Init, Recorded, Finished
  <2>3. \A i \in 1..Len(history) : Recorded(history[i]) /\ history[i] \notin deleted
    BY <2>1, <2>2 DEF Init
  <2>4. \A r \in RunIds : Recorded(r) => r \in 1..Earlier
    BY <2>2, Constants
  <2>5. deleted = {} /\ unrecorded = {}
    BY DEF Init
  <2> QED
    BY <2>1, <2>3, <2>4, <2>5 DEF HistoryInv
<1> QED
  BY <1>2, <1>3, <1>4, <1>5, <1>6, <1>7, <1>8 DEF Inv

\* Every step keeps the invariant.
LEMMA InvStep == Inv /\ [Next]_vars => Inv'
  BY TypeStep, StoreLockInvStep, SchedLockInvStep, SettledInvStep, SlotInvStep,
     RunBoundStep, GenBoundStep, CountBoundStep, FinishInvStep, CancelInvStep,
     JobInvStep, HistoryInvStep
  DEF Inv, BoundInv

\* The parts of Inv hold together in every reachable state: each needs others to be
\* kept (the file needs the lock, the slot the numbering, the history both).
THEOREM Invariance == Spec => []Inv
  BY InvInit, InvStep, PTL DEF Spec

\* Type correctness for any handlers, configurations and bounds on requests; no count
\* runs past its bound.
THEOREM TypeCorrect == Spec => []TypeOK
<1>1. Inv => TypeOK
  BY TypesSuffice DEF Inv
<1> QED
  BY <1>1, Invariance, PTL

\* startRun, releaseRun: scheduled or manual, one run is on at a time, and busy and
\* current name it.
THEOREM OneRunOn == Spec => []OneRunAtATime
<1>1. Inv => OneRunAtATime
  <2> SUFFICES ASSUME Inv PROVE OneRunAtATime
    OBVIOUS
  <2>1. \A r \in RunIds : busy /\ current = r => Active(r)
    BY DEF Inv, SlotInv
  <2> QED
    BY <2>1 DEF Inv, SlotInv, OneRunAtATime
<1> QED
  BY <1>1, Invariance, PTL

\* SetConfig: with nobody in the middle of a save the file is what the process runs on.
THEOREM FileIsConfig == Spec => []FileMatchesProcess
<1>1. Inv => FileMatchesProcess
  BY DEF Inv, StoreLockInv, FileMatchesProcess
<1> QED
  BY <1>1, Invariance, PTL

\* reconcileScheduler: once the PUTs have settled the armed scheduler and the status
\* are those of the configuration, and no loop is ever left behind.
THEOREM SchedulerFollowsConfig == Spec => []ScheduleFollowsConfig
<1>1. Inv => ScheduleFollowsConfig
  <2> SUFFICES ASSUME Inv PROVE ScheduleFollowsConfig
    OBVIOUS
  <2>1. \A g \in Gens : loop[g] \notin {"off", "ended"} => g = sched
    BY DEF Inv, SchedLockInv
  <2>2. ASSUME \A w \in Writers : put[w] = "idle"
        PROVE  /\ shown = View(cfg) /\ ((sched # 0) <=> IsArmed(cfg))
               /\ sched # 0 => plan[sched] = cfg.plan /\ ~halted[sched]
    <3>1. schedMu = Nobody
      BY <2>2 DEF Inv, Types, ArmedType, SchedLockInv
    <3> QED
      BY <2>2, <3>1 DEF Inv, SchedLockInv, SettledInv
  <2> QED
    BY <2>1, <2>2 DEF ScheduleFollowsConfig
<1> QED
  BY <1>1, Invariance, PTL

\* scheduledRun runs to completion: a loop outside its job has no run of its own.
THEOREM JobsOutliveRuns == Spec => []JobOutlivesItsRun
<1>1. Inv => JobOutlivesItsRun
  BY DEF Inv, JobInv, JobOutlivesItsRun
<1> QED
  BY <1>1, Invariance, PTL

\* CancelRun: a record is marked cancelled only if a client asked for that run or the
\* server was going down.
THEOREM OnlyRequestedCancels == Spec => []CancelledOnlyOnRequest
<1>1. Inv => CancelledOnlyOnRequest
  BY DEF Inv, CancelInv, CancelledOnlyOnRequest
<1> QED
  BY <1>1, Invariance, PTL

\* finish, AppendRun, DeleteRun: the history is in the order of the runs; one whose
\* AppendRun succeeded is in it, once, until a DELETE or HistoryLimit newer records
\* remove it, and is not there again after a DELETE; one whose AppendRun failed is
\* never in it and costs no other its record.
THEOREM RunsAreRecordedOnce == Spec => []EveryRunIsRecordedOnce
<1>1. Inv => EveryRunIsRecordedOnce
  <2> SUFFICES ASSUME Inv PROVE EveryRunIsRecordedOnce
    OBVIOUS
  <2>1. DOMAIN history = 1..Len(history)
    BY DEF Inv, Types, RecordType
  <2>2. \A i \in 1..Len(history) : history[i] \notin deleted \cup unrecorded
    BY DEF Inv, HistoryInv, Recorded
  <2> QED
    BY <2>1, <2>2 DEF Inv, HistoryInv, EveryRunIsRecordedOnce, Newer
<1> QED
  BY <1>1, Invariance, PTL
-----------------------------------------------------------------------------
(* Each scheduler is a JobSlot *)

Holders(g)  == {l \in {g} : loop[l] \in {"job", "await", "finish"}}
Phase(g)    == IF loop[g] \in {"off", "ended"} THEN loop[g] ELSE "on"
Stopping(g) == {w \in Writers : put[w] = "stopWait" /\ sched = g}

\* What JobSlot sees of scheduler g stands still.
Seen(g) == <<Holders(g), Phase(g), halted[g], Stopping(g), count[g]>>
LEMMA SlotSame ==
  ASSUME NEW g \in Gens, UNCHANGED Seen(g)
  PROVE  [Slot(g)!Next]_(Slot(g)!vars)
  BY DEF Slot!vars, Seen, Holders, Phase, Stopping

\* Every step of the server is one of each scheduler's, or none.
LEMMA SlotStep ==
  ASSUME Inv, [Next]_vars, NEW g \in Gens
  PROVE  [Slot(g)!Next]_(Slot(g)!vars)
<1>0. /\ Types /\ SchedLockInv
      /\ loop \in [Gens -> LoopPcs] /\ halted \in [Gens -> BOOLEAN]
      /\ count \in [Gens -> 0..MaxTicks] /\ put \in [Writers -> PutPcs]
      /\ sched \in Gens \cup {0} /\ gens \in Gens \cup {0}
      /\ \A n \in Gens : n # 0 /\ n \in Nat
      /\ \A w \in Writers : w # Nobody /\ w # g
  BY Constants, Handlers, HandlersAssumption, NamesAssumption
     DEF Inv, Types, LoopType, PutType, ArmedType
\* PUT handlers
<1>1. ASSUME NEW w \in Writers, NEW from, NEW to, Go(put, w, from, to),
             from # "stopWait", to # "stopWait", UNCHANGED <<sched, loop, halted, count>>
      PROVE  [Slot(g)!Next]_(Slot(g)!vars)
  <2>1. Stopping(g)' = Stopping(g)
    BY <1>0, <1>1 DEF Go, Stopping
  <2> QED
    BY <2>1, <1>1, SlotSame DEF Seen, Holders, Phase
<1>2. ASSUME NEW w \in Writers, PutArm(w) PROVE [Slot(g)!Next]_(Slot(g)!vars)
  <2>1. CASE sched # 0
    BY <1>1, <1>2, <2>1 DEF PutArm, Retime
  <2>2. CASE sched = 0
    <3>1. /\ Go(put, w, "reconcile", "status") /\ schedMu = Nobody
          /\ loop' = [loop EXCEPT ![gens + 1] = "wait"] /\ UNCHANGED <<halted, count>>
      BY <1>2, <2>2 DEF PutArm, Arm
    <3>2. Stopping(g) = {} /\ Stopping(g)' = {}
      BY <1>0, <2>2, <3>1 DEF SchedLockInv, Go, Stopping
    <3>3. CASE g # gens + 1
      BY <1>0, <3>1, <3>2, <3>3, SlotSame DEF Seen, Holders, Phase
    <3>4. CASE g = gens + 1
      <4>1. loop[g] = "off"
        BY <1>0, <3>4 DEF SchedLockInv
      <4>2. /\ Phase(g) = "off" /\ Phase(g)' = "on"
            /\ Holders(g) = {} /\ Holders(g)' = {}
        BY <1>0, <3>1, <3>4, <4>1 DEF Phase, Holders
      <4> QED
        BY <3>1, <3>2, <4>2 DEF Slot!Next, Slot!Launch, Holders, Phase, Stopping
    <3> QED
      BY <3>3, <3>4
  <2> QED
    BY <2>1, <2>2
<1>3. ASSUME NEW w \in Writers, PutStop(w) PROVE [Slot(g)!Next]_(Slot(g)!vars)
  <2>1. /\ Go(put, w, "reconcile", "stopWait") /\ schedMu = Nobody /\ sched # 0
        /\ halted' = [halted EXCEPT ![sched] = TRUE] /\ UNCHANGED <<sched, loop, count>>
    BY <1>3 DEF PutStop
  <2>2. UNCHANGED <<Holders(g), Phase(g)>>
    BY <2>1 DEF Holders, Phase
  <2>3. CASE g # sched
    BY <1>0, <2>1, <2>2, <2>3, SlotSame DEF Seen, Stopping
  <2>4. CASE g = sched
    <3>1. ~halted[g] /\ halted'[g]
      BY <1>0, <2>1, <2>4 DEF SchedLockInv
    <3>2. Stopping(g)' = Stopping(g) \cup {w}
      BY <1>0, <2>1, <2>4 DEF Go, Stopping
    <3>3. Slot(g)!Close(w)
      BY <2>1, <2>2, <3>1, <3>2 DEF Slot!Close, Holders, Phase, Stopping
    <3> QED
      BY <1>0, <3>3 DEF Slot!Next
  <2> QED
    BY <2>3, <2>4
<1>4. ASSUME NEW w \in Writers, PutStopped(w) PROVE [Slot(g)!Next]_(Slot(g)!vars)
  <2>1. /\ Go(put, w, "stopWait", "status") /\ loop[sched] = "ended" /\ sched' = 0
        /\ UNCHANGED <<loop, halted, count>>
    BY <1>4 DEF PutStopped, loops
  <2>2. UNCHANGED <<Holders(g), Phase(g)>>
    BY <2>1 DEF Holders, Phase
  <2>3. Stopping(g)' = {}
    BY <1>0, <2>1 DEF Stopping
  <2>4. CASE g # sched
    <3>1. Stopping(g) = {}
      BY <2>4 DEF Stopping
    <3> QED
      BY <2>1, <2>2, <2>3, <3>1, SlotSame DEF Seen
  <2>5. CASE g = sched
    <3>1. put[w] = "stopWait" /\ \A v \in Writers : put[v] = "stopWait" => v = w
      BY <1>0, <2>1 DEF SchedLockInv, Go
    <3>2. Stopping(g) = {w}
      BY <2>5, <3>1 DEF Stopping
    <3>3. Phase(g) = "ended"
      BY <2>1, <2>5 DEF Phase
    <3>4. Slot(g)!Return(w)
      BY <2>1, <2>2, <2>3, <3>2, <3>3 DEF Slot!Return, Holders, Phase, Stopping
    <3> QED
      BY <1>0, <3>4 DEF Slot!Next
  <2> QED
    BY <2>4, <2>5
<1>5. ASSUME NEW w \in Writers, NEW c \in Configs, PutSave(w, c)
      PROVE  [Slot(g)!Next]_(Slot(g)!vars)
  BY <1>1, <1>5 DEF PutSave, armed, loops
<1>6. ASSUME NEW w \in Writers, PutSwap(w) \/ PutDebug(w) \/ PutStayOff(w) \/ PutStatus(w)
      PROVE  [Slot(g)!Next]_(Slot(g)!vars)
  BY <1>1, <1>6 DEF PutSwap, PutDebug, PutStayOff, PutStatus, armed, loops
\* The loops
<1>7. ASSUME NEW h \in Gens, NEW from, NEW to, Go(loop, h, from, to), UNCHANGED <<handlers, sched>>
      PROVE  /\ UNCHANGED Stopping(g)
             /\ g # h => UNCHANGED <<Holders(g), Phase(g)>>
             /\ g = h => loop[g] = from /\ loop'[g] = to
  BY <1>0, <1>7 DEF Go, handlers, Stopping, Holders, Phase
<1>8. ASSUME NEW h \in Gens, LoopTick(h) PROVE [Slot(g)!Next]_(Slot(g)!vars)
  <2>1. Go(loop, h, "wait", "job") /\ ~halted[h] /\ UNCHANGED <<handlers, sched, halted, count>>
    BY <1>8 DEF LoopTick, armed
  <2>2. CASE g # h
    BY <1>7, <2>1, <2>2, SlotSame DEF Seen
  <2>3. CASE g = h
    <3>1. /\ UNCHANGED Stopping(g) /\ loop[g] = "wait" /\ loop'[g] = "job"
      BY <1>7, <2>1, <2>3
    <3>2. /\ Holders(g) = {} /\ Holders(g)' = {g}
          /\ Phase(g) = "on" /\ Phase(g)' = "on"
      BY <3>1 DEF Holders, Phase
    <3>3. Slot(g)!Take(g)
      BY <2>1, <2>3, <3>1, <3>2 DEF Slot!Take, Holders, Phase, Stopping
    <3> QED
      BY <3>3 DEF Slot!Next
  <2> QED
    BY <2>2, <2>3
<1>9. ASSUME NEW h \in Gens, LoopJob(h) \/ LoopAwait(h)
      PROVE  [Slot(g)!Next]_(Slot(g)!vars)
  <2>1. PICK from \in {"job", "await"}, to \in {"await", "finish"} :
          Go(loop, h, from, to) /\ UNCHANGED <<handlers, sched, halted, count>>
    BY <1>9 DEF LoopJob, LoopAwait, armed
  <2>2. UNCHANGED <<Holders(g), Phase(g), Stopping(g)>>
    <3>1. CASE g # h
      BY <1>7, <2>1, <3>1
    <3>2. CASE g = h
      <4>1. /\ UNCHANGED Stopping(g)
            /\ loop[g] \in {"job", "await"} /\ loop'[g] \in {"await", "finish"}
        BY <1>7, <2>1, <3>2
      <4> QED
        BY <4>1 DEF Holders, Phase
    <3> QED
      BY <3>1, <3>2
  <2> QED
    BY <2>1, <2>2, SlotSame DEF Seen
<1>10. ASSUME NEW h \in Gens, LoopFinish(h) PROVE [Slot(g)!Next]_(Slot(g)!vars)
  <2>1. /\ Go(loop, h, "finish", "wait") /\ count' = [count EXCEPT ![h] = @ + 1]
        /\ UNCHANGED <<handlers, sched, halted>>
    BY <1>10 DEF LoopFinish, armed
  <2>2. CASE g # h
    <3>1. count'[g] = count[g]
      BY <1>0, <2>1, <2>2
    <3> QED
      BY <1>7, <2>1, <2>2, <3>1, SlotSame DEF Seen
  <2>3. CASE g = h
    <3>1. /\ UNCHANGED Stopping(g) /\ loop[g] = "finish" /\ loop'[g] = "wait"
      BY <1>7, <2>1, <2>3
    <3>2. /\ Holders(g) = {g} /\ Holders(g)' = {} /\ UNCHANGED Phase(g)
          /\ count'[g] = count[g] + 1
      BY <1>0, <2>1, <2>3, <3>1 DEF Holders, Phase
    <3>3. Slot(g)!Release(g)
      BY <2>1, <3>1, <3>2 DEF Slot!Release, Holders, Phase, Stopping
    <3> QED
      BY <3>3 DEF Slot!Next
  <2> QED
    BY <2>2, <2>3
<1>11. ASSUME NEW h \in Gens, LoopEnd(h) PROVE [Slot(g)!Next]_(Slot(g)!vars)
  <2>1. Go(loop, h, "wait", "ended") /\ UNCHANGED <<handlers, sched, halted, count>>
    BY <1>11 DEF LoopEnd, armed
  <2>2. CASE g # h
    BY <1>7, <2>1, <2>2, SlotSame DEF Seen
  <2>3. CASE g = h
    <3>1. /\ UNCHANGED Stopping(g) /\ loop[g] = "wait" /\ loop'[g] = "ended"
      BY <1>7, <2>1, <2>3
    <3>2. /\ Holders(g) = {} /\ Holders(g)' = {}
          /\ Phase(g) = "on" /\ Phase(g)' = "ended"
      BY <3>1 DEF Holders, Phase
    <3>3. Slot(g)!End
      BY <2>1, <3>1, <3>2 DEF Slot!End, Holders, Phase, Stopping
    <3> QED
      BY <3>3 DEF Slot!Next
  <2> QED
    BY <2>2, <2>3
\* Everybody else
<1>12. CASE UNCHANGED <<handlers, loops, armed>>
  BY <1>12, SlotSame DEF handlers, loops, armed, Seen, Holders, Phase, Stopping
<1>13. CASE UNCHANGED handlers
  <2>1. UNCHANGED armed
    BY <1>13, ArmedFrame, <1>0 DEF PutArm, PutStayOff, PutStop, PutStopped, Go, handlers, PutType
  <2>2. \/ UNCHANGED loops
        \/ \E h \in Gens : LoopTick(h) \/ LoopJob(h) \/ LoopAwait(h) \/ LoopFinish(h) \/
             LoopEnd(h)
    BY <1>13, LoopsFrame, <1>0 DEF PutArm, PutStop, Go, handlers
  <2> QED
    BY <1>8, <1>9, <1>10, <1>11, <1>12, <1>13, <2>1, <2>2
<1> QED
  BY <1>2, <1>3, <1>4, <1>5, <1>6, <1>13, HandlersFrame

\* reconcileScheduler and the loops of internal/schedule: each scheduler that is armed,
\* whichever PUT made it, is the JobSlot that Scheduler is shown to implement.
THEOREM LoopsRefine == Spec => LoopsAreJobSlots
<1>1. Init => \A g \in Gens : Slot(g)!Init
  BY Constants DEF Init, Slot!Init
<1>2. Inv /\ [Next]_vars => [\A g \in Gens : [Slot(g)!Next]_(Slot(g)!vars)]_vars
  BY SlotStep
<1> QED
  BY <1>1, <1>2, Invariance, PTL DEF Spec, LoopsAreJobSlots

\* The same of one scheduler, as a behaviour of JobSlot.
THEOREM OneLoopRefines == ASSUME NEW g \in Gens PROVE Spec => Slot(g)!Spec
<1>1. Init => Slot(g)!Init
  BY Constants DEF Init, Slot!Init
<1>2. Inv /\ [Next]_vars => [Slot(g)!Next]_(Slot(g)!vars)
  BY SlotStep
<1> QED
  BY <1>1, <1>2, Invariance, PTL DEF Spec, Slot!Spec
=============================================================================
