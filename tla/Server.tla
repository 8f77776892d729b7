------------------------------- MODULE Server -------------------------------
(***************************************************************************)
(* internal/web: the Server of cmd/yggspeedtest-web with the goroutines    *)
(* that share it: PUT /api/config handlers, the one run goroutine that may *)
(* be active, the loop of the armed scheduler, POST and DELETE handlers.   *)
(*                                                                         *)
(* A step is a critical section or a blocking operation.  The locks that   *)
(* are held across such an operation, storeMu and schedMu, are variables;  *)
(* jobMu and cfgMu never are, so their sections are single steps.  The     *)
(* scheduler is reduced to what Scheduler.tla establishes of it: one job   *)
(* at a time, none after a stop, and a Stop that waits for the loop.  Its  *)
(* timer may expire at any time.                                           *)
(***************************************************************************)
EXTENDS Lists, FiniteSets

CONSTANTS
  Writers,      \* concurrent PUT /api/config handlers
  Deleter,      \* a DELETE /api/runs/{id} handler
  Nobody,       \* marks a free lock
  Plans,        \* schedule expressions that parse
  NoPlan,       \* the empty expression
  Configs,      \* the configurations that may be saved
  HistoryLimit, \* records AppendRun keeps (config history_limit)
  Earlier,      \* runs before the start, which the history holds
  MaxPuts, MaxDeletes, MaxCancels,    \* bounds: requests of each kind
  MaxManual, MaxTicks,    \* bounds: manual runs, firings of the scheduler
  MaxFaults     \* bound: runs whose AppendRun fails

ASSUME ConfigAssumption ==
  Configs \subseteq [plan : Plans \cup {NoPlan}, enabled : BOOLEAN, debug : BOOLEAN]
ASSUME BoundAssumption ==
  /\ MaxPuts \in Nat /\ MaxDeletes \in Nat /\ MaxCancels \in Nat /\ Earlier \in Nat
  /\ MaxManual \in Nat /\ MaxTicks \in Nat /\ HistoryLimit \in Nat /\ MaxFaults \in Nat
ASSUME HandlersAssumption ==
  /\ IsFiniteSet(Writers) /\ Nobody \notin Writers \cup {Deleter} /\ Deleter \notin Writers
  /\ NoPlan \notin Plans

RunIds == 1..(Earlier + MaxManual + MaxTicks)
Gens   == 1..(MaxPuts + 1)     \* every PUT arms at most one new Scheduler
ASSUME NamesAssumption == (RunIds \cup Gens) \cap (Writers \cup {Deleter, Nobody}) = {}

VARIABLES
  file, cfg,    \* the config file, s.cfg
  debug,        \* the level engine.SetDebug left the process at
  shown,        \* s.spec, s.planValid and s.enabled
  sched,        \* s.sched: a generation of Scheduler, 0 for nil
  storeMu, schedMu,       \* who holds the lock
  put, want,    \* PUT handlers: where they are, the configuration they carry
  puts,
  loop,         \* per generation: its loop
  halted,       \* per generation: Stop was called
  plan,         \* per generation: the spec it fires on
  awaits,       \* per generation: the run its job waits for
  count,        \* per generation: RunCount
  gens, ticks,
  busy, current,          \* s.busy, s.current (0 for none)
  run,          \* per run: where its goroutine is
  owner,        \* per run: the generation that started it, 0 for a client
  stop,         \* per run: its own context was cancelled
  outcome,      \* per run: what rec.Error says, "cancelled" or "other"
  finished,     \* per run: the once-only flag of finish
  made, manual,
  history,      \* the history file: run ids, newest last
  loaded,       \* history as the holder of storeMu loaded it
  target, deletes,        \* the DELETE handler's run, 0 when it has none
  deleted,      \* runs a DELETE found and removed
  unrecorded,   \* runs whose AppendRun failed
  asked,        \* runs some client asked to cancel
  down          \* Cancel was called: runCtx is cancelled

config   == <<file, cfg, debug, storeMu>>
armed    == <<shown, sched, schedMu>>
handlers == <<put, want, puts>>
loops    == <<loop, halted, plan, awaits, count, gens, ticks>>
job      == <<busy, current, made, manual, owner>>
runs     == <<run, stop, outcome, finished>>
records  == <<history, loaded, target, deletes, deleted, unrecorded>>
clients  == <<asked, down>>
vars == <<config, armed, handlers, loops, job, runs, records, clients>>

IsArmed(c) == c.plan # NoPlan /\ c.enabled
View(c) == [plan |-> c.plan, enabled |-> IsArmed(c)]

Go(f, k, from, to) == f[k] = from /\ f' = [f EXCEPT ![k] = to]

-----------------------------------------------------------------------------
(* PUT /api/config: SetConfig, for a configuration that validates.  A        *)
(* configuration that does not, or a Save that fails, changes nothing.       *)

\* Mutant of PutSave: the save and the swap are two acquisitions of storeMu.
PutSave_Unlocks(w, c) ==
  /\ puts < MaxPuts
  /\ storeMu = Nobody
  /\ Go(put, w, "idle", "swap")
  /\ file' = c
  /\ want' = [want EXCEPT ![w] = c]
  /\ puts' = puts + 1
  /\ UNCHANGED <<storeMu, cfg, debug, armed, loops, job, runs, records, clients>>

PutSave(w, c) ==
  /\ puts < MaxPuts
  /\ storeMu = Nobody
  /\ Go(put, w, "idle", "swap")
  /\ storeMu' = w
  /\ file' = c
  /\ want' = [want EXCEPT ![w] = c]
  /\ puts' = puts + 1
  /\ UNCHANGED <<cfg, debug, armed, loops, job, runs, records, clients>>

PutSwap(w) ==
  /\ Go(put, w, "swap", "debug")
  /\ cfg' = want[w]
  /\ storeMu' = Nobody
  /\ UNCHANGED <<file, debug, want, puts, armed, loops, job, runs, records, clients>>

PutDebug(w) ==
  /\ Go(put, w, "debug", "reconcile")
  /\ debug' = want[w].debug
  /\ UNCHANGED <<file, cfg, storeMu, want, puts, armed, loops, job, runs, records, clients>>

\* Mutant of Retime: Start, a no-op on a scheduler that is going.
Retime_NoOp(p) == UNCHANGED <<sched, loops>>

\* SetSpec on the armed scheduler.
Retime(p) ==
  /\ plan' = [plan EXCEPT ![sched] = p]
  /\ UNCHANGED <<sched, loop, halted, awaits, count, gens, ticks>>

\* A Scheduler is made and started on p.
Arm(p) ==
  /\ sched' = gens + 1
  /\ gens' = sched'
  /\ loop' = [loop EXCEPT ![sched'] = "wait"]
  /\ plan' = [plan EXCEPT ![sched'] = p]
  /\ UNCHANGED <<halted, awaits, count, ticks>>

\* reconcileScheduler goes by the configuration in memory, which need not be
\* the one its handler saved.
PutArm(w) ==
  /\ schedMu = Nobody /\ IsArmed(cfg)
  /\ Go(put, w, "reconcile", "status")
  /\ shown' = View(cfg)
  /\ IF sched = 0 THEN Arm(cfg.plan) ELSE Retime(cfg.plan)
  /\ UNCHANGED <<schedMu, config, want, puts, job, runs, records, clients>>

PutStayOff(w) ==
  /\ schedMu = Nobody /\ ~IsArmed(cfg) /\ sched = 0
  /\ Go(put, w, "reconcile", "status")
  /\ shown' = View(cfg)
  /\ UNCHANGED <<sched, schedMu, config, want, puts, loops, job, runs, records, clients>>

\* Stopping keeps schedMu until the loop is gone.
PutStop(w) ==
  /\ schedMu = Nobody /\ ~IsArmed(cfg) /\ sched # 0
  /\ Go(put, w, "reconcile", "stopWait")
  /\ shown' = View(cfg)
  /\ schedMu' = w
  /\ halted' = [halted EXCEPT ![sched] = TRUE]
  /\ UNCHANGED <<sched, loop, plan, awaits, count, gens, ticks, config, want, puts,
                 job, runs, records, clients>>

\* Mutant of PutStopped: the loop is not waited for.
PutStopped_NoWait(w) ==
  /\ Go(put, w, "stopWait", "status")
  /\ sched' = 0
  /\ schedMu' = Nobody
  /\ UNCHANGED <<shown, want, puts, config, loops, job, runs, records, clients>>

\* Stop returns to stopScheduler.
PutStopped(w) ==
  /\ Go(put, w, "stopWait", "status")
  /\ loop[sched] = "ended"
  /\ sched' = 0
  /\ schedMu' = Nobody
  /\ UNCHANGED <<shown, want, puts, config, loops, job, runs, records, clients>>

\* scheduleStatus for the broadcast, then the answer.
PutStatus(w) ==
  /\ schedMu = Nobody
  /\ Go(put, w, "status", "idle")
  /\ UNCHANGED <<want, puts, config, armed, loops, job, runs, records, clients>>

PutNext(w) ==
  \/ PutSwap(w) \/ PutDebug(w) \/ PutArm(w) \/ PutStayOff(w) \/ PutStop(w)
  \/ PutStopped(w) \/ PutStatus(w)

-----------------------------------------------------------------------------
(* startRun *)

\* Mutant of CanStart: the in-flight run is not looked at.
CanStart_Always == TRUE

CanStart == ~busy

\* The run gets the next id and a goroutine; g is the scheduler that asks.
StartRun(g) ==
  /\ CanStart
  /\ busy' = TRUE
  /\ made' = made + 1
  /\ current' = made'
  /\ owner' = [owner EXCEPT ![made'] = g]
  /\ run' = [run EXCEPT ![made'] = "execute"]
  /\ UNCHANGED <<stop, outcome, finished>>

\* POST /api/run; refused with ErrBusy it changes nothing.
PostRun ==
  /\ manual < MaxManual
  /\ manual' = manual + 1
  /\ StartRun(0)
  /\ UNCHANGED <<config, armed, handlers, loops, records, clients>>

-----------------------------------------------------------------------------
(* The loop of generation g, whose job is scheduledRun *)

\* Mutant of LoopTick: claim does not look at stopped.
LoopTick_Stopped(g) ==
  /\ ticks < MaxTicks
  /\ ticks' = ticks + 1
  /\ Go(loop, g, "wait", "job")
  /\ UNCHANGED <<halted, plan, awaits, count, gens, config, armed, handlers, job,
                 runs, records, clients>>

LoopTick(g) ==
  /\ ticks < MaxTicks
  /\ ticks' = ticks + 1
  /\ ~halted[g]
  /\ Go(loop, g, "wait", "job")
  /\ UNCHANGED <<halted, plan, awaits, count, gens, config, armed, handlers, job,
                 runs, records, clients>>

LoopJob(g) ==
  /\ \/ /\ Go(loop, g, "job", "await")
        /\ StartRun(g)
        /\ awaits' = [awaits EXCEPT ![g] = made']
     \/ /\ Go(loop, g, "job", "finish")
        /\ ~CanStart
        /\ UNCHANGED <<awaits, busy, current, made, owner, runs>>
  /\ UNCHANGED <<halted, plan, count, gens, ticks, manual, config, armed, handlers,
                 records, clients>>

\* Mutants of JobOver: the job does not wait at all, or for its run alone.
JobOver_AtOnce(g) == TRUE
JobOver_RunOnly(g) == run[awaits[g]] = "closed"

\* The job returns once its run is over, or the server goes down.
JobOver(g) == run[awaits[g]] = "closed" \/ down

LoopAwait(g) ==
  /\ Go(loop, g, "await", "finish")
  /\ JobOver(g)
  /\ UNCHANGED <<halted, plan, awaits, count, gens, ticks, config, armed, handlers,
                 job, runs, records, clients>>

LoopFinish(g) ==
  /\ Go(loop, g, "finish", "wait")
  /\ count' = [count EXCEPT ![g] = @ + 1]
  /\ awaits' = [awaits EXCEPT ![g] = 0]
  /\ UNCHANGED <<halted, plan, gens, ticks, config, armed, handlers, job, runs,
                 records, clients>>

LoopEnd(g) ==
  /\ Go(loop, g, "wait", "ended")
  /\ halted[g] \/ down
  /\ UNCHANGED <<halted, plan, awaits, count, gens, ticks, config, armed, handlers,
                 job, runs, records, clients>>

LoopNext(g) == LoopJob(g) \/ LoopAwait(g) \/ LoopFinish(g) \/ LoopEnd(g)

-----------------------------------------------------------------------------
(* The goroutine of run r *)

others == <<config, armed, handlers, loops, job, records, clients>>

\* ctx.Err() of the run's context.
Cancelled(r) == stop[r] \/ down

\* execute: bad parameters fail at once.
RunFailFast(r) ==
  /\ Go(run, r, "execute", "load")
  /\ outcome' = [outcome EXCEPT ![r] = "other"]
  /\ UNCHANGED <<stop, finished, others>>

\* engine.Run has returned, with all results or with what it had when it was
\* cancelled; the context tells which.
RunMeasured(r) ==
  /\ Go(run, r, "execute", "load")
  /\ outcome' = [outcome EXCEPT ![r] = IF Cancelled(r) THEN "cancelled" ELSE "other"]
  /\ UNCHANGED <<stop, finished, others>>

\* Mutant of RunPanic: finish is not idempotent, so the guard appends a record in
\* any case.
RunPanic_Again(r) ==
  /\ run[r] \in {"execute", "status"}
  /\ storeMu = Nobody
  /\ run' = [run EXCEPT ![r] = "status"]
  /\ finished' = [finished EXCEPT ![r] = TRUE]
  /\ history' = Newest(Append(history, r), HistoryLimit)
  /\ outcome' = [outcome EXCEPT ![r] = "other"]
  /\ UNCHANGED <<stop, config, armed, handlers, loops, job, loaded, target, deletes,
                 deleted, unrecorded, clients>>

\* A panic on the run's goroutine: the guard finishes the run unless execute
\* had come to that.
RunPanic(r) ==
  /\ run[r] \in {"execute", "status"}
  /\ \/ /\ ~finished[r]
        /\ run' = [run EXCEPT ![r] = "load"]
        /\ outcome' = [outcome EXCEPT ![r] = "other"]
     \/ /\ finished[r]
        /\ run' = [run EXCEPT ![r] = "release"]
        /\ UNCHANGED outcome
  /\ UNCHANGED <<stop, finished, others>>

\* finish, AppendRun: load the history and write it back with one record more,
\* under storeMu.
RunLoad(r) ==
  /\ storeMu = Nobody
  /\ Go(run, r, "load", "write")
  /\ storeMu' = r
  /\ loaded' = [loaded EXCEPT ![r] = history]
  /\ finished' = [finished EXCEPT ![r] = TRUE]
  /\ UNCHANGED <<stop, outcome, file, cfg, debug, armed, handlers, loops, job,
                 history, target, deletes, deleted, unrecorded, clients>>

\* Mutants of RunWrite: the newest record goes first, or storeMu stays locked.
RunWrite_First(r) ==
  /\ Go(run, r, "write", "status")
  /\ history' = Newest(<<r>> \o loaded[r], HistoryLimit)
  /\ loaded' = [loaded EXCEPT ![r] = <<>>]
  /\ storeMu' = Nobody
  /\ UNCHANGED <<stop, outcome, finished, file, cfg, debug, armed, handlers, loops,
                 job, target, deletes, deleted, unrecorded, clients>>

RunWrite_KeepsLock(r) ==
  /\ Go(run, r, "write", "status")
  /\ history' = Newest(Append(loaded[r], r), HistoryLimit)
  /\ loaded' = [loaded EXCEPT ![r] = <<>>]
  /\ UNCHANGED <<storeMu, stop, outcome, finished, file, cfg, debug, armed, handlers,
                 loops, job, target, deletes, deleted, unrecorded, clients>>

RunWrite(r) ==
  /\ Go(run, r, "write", "status")
  /\ history' = Newest(Append(loaded[r], r), HistoryLimit)
  /\ loaded' = [loaded EXCEPT ![r] = <<>>]
  /\ storeMu' = Nobody
  /\ UNCHANGED <<stop, outcome, finished, file, cfg, debug, armed, handlers, loops,
                 job, target, deletes, deleted, unrecorded, clients>>

\* AppendRun's error is logged, and the run is announced and ends all the same.
Unrecorded(r) ==
  /\ Cardinality(unrecorded) < MaxFaults
  /\ unrecorded' = unrecorded \cup {r}

\* Mutant of RunUnread: a history that cannot be read is taken for an empty one.
RunUnread_Empty(r) ==
  /\ storeMu = Nobody
  /\ Go(run, r, "load", "write")
  /\ storeMu' = r
  /\ loaded' = [loaded EXCEPT ![r] = <<>>]
  /\ finished' = [finished EXCEPT ![r] = TRUE]
  /\ UNCHANGED <<stop, outcome, file, cfg, debug, armed, handlers, loops, job,
                 history, target, deletes, deleted, unrecorded, clients>>

\* LoadRuns fails.
RunUnread(r) ==
  /\ storeMu = Nobody
  /\ Go(run, r, "load", "status")
  /\ Unrecorded(r)
  /\ finished' = [finished EXCEPT ![r] = TRUE]
  /\ UNCHANGED <<stop, outcome, config, armed, handlers, loops, job, history, loaded,
                 target, deletes, deleted, clients>>

\* Mutant of RunUnwritten: what the failing write has left is an empty file.
RunUnwritten_Truncates(r) ==
  /\ Go(run, r, "write", "status")
  /\ Unrecorded(r)
  /\ history' = <<>>
  /\ loaded' = [loaded EXCEPT ![r] = <<>>]
  /\ storeMu' = Nobody
  /\ UNCHANGED <<stop, outcome, finished, file, cfg, debug, armed, handlers, loops,
                 job, target, deletes, deleted, clients>>

\* WriteRuns fails, which leaves the file as it was.
RunUnwritten(r) ==
  /\ Go(run, r, "write", "status")
  /\ Unrecorded(r)
  /\ loaded' = [loaded EXCEPT ![r] = <<>>]
  /\ storeMu' = Nobody
  /\ UNCHANGED <<stop, outcome, finished, file, cfg, debug, armed, handlers, loops,
                 job, history, target, deletes, deleted, clients>>

\* finish broadcasts the schedule's status, for which it needs schedMu.
RunStatus(r) ==
  /\ schedMu = Nobody
  /\ Go(run, r, "status", "release")
  /\ UNCHANGED <<stop, outcome, finished, others>>

\* The deferred calls: releaseRun, then close(done).
RunRelease(r) ==
  /\ Go(run, r, "release", "close")
  /\ busy' = FALSE
  /\ current' = 0
  /\ UNCHANGED <<stop, outcome, finished, made, manual, owner, config, armed,
                 handlers, loops, records, clients>>

RunClose(r) ==
  /\ Go(run, r, "close", "closed")
  /\ UNCHANGED <<stop, outcome, finished, others>>

RunNext(r) ==
  \/ RunFailFast(r) \/ RunMeasured(r) \/ RunLoad(r) \/ RunWrite(r) \/ RunUnread(r)
  \/ RunUnwritten(r) \/ RunStatus(r) \/ RunRelease(r) \/ RunClose(r)

-----------------------------------------------------------------------------
(* The other requests, and the end *)

\* POST /api/runs/{id}/cancel, for a run the client has heard of.
IsCurrent_Any(r) == busy      \* Mutant of IsCurrent: whichever run is on.

IsCurrent(r) == busy /\ current = r

CancelRun(r) ==
  /\ r <= made
  /\ r \notin asked /\ Cardinality(asked) < MaxCancels
  /\ asked' = asked \cup {r}
  /\ IF IsCurrent(r) THEN stop' = [stop EXCEPT ![current] = TRUE] ELSE UNCHANGED stop
  /\ UNCHANGED <<down, run, outcome, finished, config, armed, handlers, loops, job,
                 records>>

\* DELETE /api/runs/{id}: load and rewrite under storeMu.  When the history cannot
\* be read, nothing changes.
DeleteLoad(r) ==
  /\ deletes < MaxDeletes
  /\ target = 0 /\ r <= made
  /\ storeMu = Nobody
  /\ storeMu' = Deleter
  /\ target' = r
  /\ deletes' = deletes + 1
  /\ loaded' = [loaded EXCEPT ![Deleter] = history]
  /\ UNCHANGED <<file, cfg, debug, armed, handlers, loops, job, runs, history,
                 deleted, unrecorded, clients>>

DeleteWrite ==
  /\ target # 0
  /\ storeMu' = Nobody
  /\ target' = 0
  /\ loaded' = [loaded EXCEPT ![Deleter] = <<>>]
  /\ \/ /\ \E i \in DOMAIN loaded[Deleter] : loaded[Deleter][i] = target
        /\ history' = Without(loaded[Deleter], {target})
        /\ deleted' = deleted \cup {target}
     \/ UNCHANGED <<history, deleted>>      \* it is not there, or WriteRuns fails
  /\ UNCHANGED <<deletes, unrecorded, file, cfg, debug, armed, handlers, loops, job,
                 runs, clients>>

\* SIGINT or SIGTERM.
Cancel ==
  /\ ~down
  /\ down' = TRUE
  /\ UNCHANGED <<asked, config, armed, handlers, loops, job, runs, records>>

-----------------------------------------------------------------------------

\* New has reconciled with the configuration it was given.  The history is what the
\* process before this one left.
Init ==
  /\ cfg \in Configs /\ file = cfg /\ debug = cfg.debug /\ shown = View(cfg)
  /\ sched = IF IsArmed(cfg) THEN 1 ELSE 0
  /\ gens = sched
  /\ loop = [g \in Gens |-> IF g = sched THEN "wait" ELSE "off"]
  /\ plan = [g \in Gens |-> IF g = sched THEN cfg.plan ELSE NoPlan]
  /\ halted = [g \in Gens |-> FALSE]
  /\ awaits = [g \in Gens |-> 0] /\ count = [g \in Gens |-> 0] /\ ticks = 0
  /\ storeMu = Nobody /\ schedMu = Nobody
  /\ put = [w \in Writers |-> "idle"] /\ want = [w \in Writers |-> cfg] /\ puts = 0
  /\ busy = FALSE /\ current = 0 /\ made = Earlier /\ manual = 0
  /\ run = [r \in RunIds |-> IF r <= Earlier THEN "closed" ELSE "none"]
  /\ stop = [r \in RunIds |-> FALSE] /\ finished = [r \in RunIds |-> r <= Earlier]
  /\ owner = [r \in RunIds |-> 0]
  /\ outcome = [r \in RunIds |-> "other"]
  /\ history = [r \in 1..Earlier |-> r]
  /\ loaded = [a \in RunIds \cup {Deleter} |-> <<>>]
  /\ target = 0 /\ deletes = 0 /\ deleted = {} /\ unrecorded = {}
  /\ asked = {} /\ down = FALSE

Next ==
  \/ \E w \in Writers : PutNext(w) \/ \E c \in Configs : PutSave(w, c)
  \/ \E g \in Gens : LoopTick(g) \/ LoopNext(g)
  \/ \E r \in RunIds : RunNext(r) \/ RunPanic(r) \/ CancelRun(r) \/ DeleteLoad(r)
  \/ DeleteWrite
  \/ PostRun
  \/ Cancel

Spec == Init /\ [][Next]_vars

\* Goroutines that can run do run, and engine.Run returns.  Requests, firings,
\* panics and the end of the server need not happen.
Fairness ==
  /\ \A w \in Writers : WF_vars(PutNext(w))
  /\ \A g \in Gens : WF_vars(LoopNext(g))
  /\ \A r \in RunIds : WF_vars(RunNext(r))
  /\ WF_vars(DeleteWrite)

FairSpec == Spec /\ Fairness

-----------------------------------------------------------------------------
(* Properties *)

PutPcs  == {"idle", "swap", "debug", "reconcile", "stopWait", "status"}
LoopPcs == {"off", "wait", "job", "await", "finish", "ended"}
RunPcs  == {"none", "execute", "load", "write", "status",
            "release", "close", "closed"}
Active(r) == run[r] \notin {"none", "close", "closed"}
Finished(r) == run[r] \in {"status", "release", "close", "closed"}
Recorded(r) == Finished(r) /\ r \notin unrecorded

TypeOK ==
  /\ file \in Configs /\ cfg \in Configs /\ debug \in BOOLEAN
  /\ shown \in [plan : Plans \cup {NoPlan}, enabled : BOOLEAN]
  /\ sched \in Gens \cup {0} /\ gens \in Gens \cup {0}
  /\ storeMu \in Writers \cup RunIds \cup {Deleter, Nobody}
  /\ schedMu \in Writers \cup {Nobody}
  /\ put \in [Writers -> PutPcs] /\ want \in [Writers -> Configs]
  /\ loop \in [Gens -> LoopPcs] /\ halted \in [Gens -> BOOLEAN]
  /\ plan \in [Gens -> Plans \cup {NoPlan}]
  /\ awaits \in [Gens -> RunIds \cup {0}] /\ count \in [Gens -> 0..MaxTicks]
  /\ busy \in BOOLEAN /\ current \in RunIds \cup {0} /\ made \in RunIds \cup {0}
  /\ run \in [RunIds -> RunPcs] /\ owner \in [RunIds -> Gens \cup {0}]
  /\ stop \in [RunIds -> BOOLEAN] /\ finished \in [RunIds -> BOOLEAN]
  /\ outcome \in [RunIds -> {"other", "cancelled"}]
  /\ history \in Seq(RunIds)
  /\ target \in RunIds \cup {0}
  /\ deleted \subseteq RunIds /\ unrecorded \subseteq RunIds
  /\ asked \subseteq RunIds /\ down \in BOOLEAN

\* Scheduled or manual, one run at a time, and busy and current name it.
OneRunAtATime ==
  \A r \in RunIds : Active(r) <=> busy /\ current = r

\* A run that is over, panics included, has one record, in the order of the runs,
\* until a DELETE for it or HistoryLimit newer records remove it (0 keeps all).  One
\* that is deleted does not come back.  A run whose record could not be stored
\* never has one and costs no other run its record; nor does a run or a DELETE
\* that works on the file at the same time.
EveryRunIsRecordedOnce ==
  /\ \A i, j \in DOMAIN history : i < j => history[i] < history[j]
  /\ \A i \in DOMAIN history : history[i] \notin deleted \cup unrecorded
  /\ \A r \in RunIds :
       LET newer == {q \in RunIds : q > r /\ Recorded(q)}
       IN  /\ Recorded(r) /\ r \notin deleted
           /\ HistoryLimit = 0 \/ Cardinality(newer) < HistoryLimit
           => \E i \in DOMAIN history : history[i] = r

\* A run is marked cancelled only when a client asked for that very run or the
\* server is going down: a cancel that comes late never hits the next run.
CancelledOnlyOnRequest ==
  \A r \in RunIds : outcome[r] = "cancelled" => r \in asked \/ down

\* The file and the process agree whenever nobody is in the middle of a save,
\* whatever saves were concurrent before.
FileMatchesProcess == (\A w \in Writers : put[w] # "swap") => file = cfg

\* With no PUT under way the scheduler is what the configuration asks for, on
\* its plan, and status shows that, however the PUTs before interleaved; and at no
\* time is a loop left behind: one that has not ended is the armed one's.
ScheduleFollowsConfig ==
  /\ \A g \in Gens : loop[g] \notin {"off", "ended"} => g = sched
  /\ (\A w \in Writers : put[w] = "idle") =>
       /\ shown = View(cfg)
       /\ (sched # 0) <=> IsArmed(cfg)
       /\ sched # 0 => plan[sched] = cfg.plan /\ ~halted[sched]

\* scheduledRun "runs to completion": a loop that is not in its job has no run
\* of its own going, as long as the server is up.
JobOutlivesItsRun ==
  ~down => \A g \in Gens, r \in RunIds :
             loop[g] \in {"wait", "ended"} /\ owner[r] = g => run[r] = "closed"

\* The scheduler of generation g as its users see it.
Slot(g) == INSTANCE JobSlot WITH
  Procs     <- Writers \cup {g},
  Loop      <- g,
  holders   <- {l \in {g} : loop[l] \in {"job", "await", "finish"}},
  phase     <- IF loop[g] \in {"off", "ended"} THEN loop[g] ELSE "on",
  open      <- ~halted[g],
  stopping  <- {w \in Writers : put[w] = "stopWait" /\ sched = g},
  completed <- count[g]

\* Every scheduler the server arms, one after the other, keeps the promise that
\* Scheduler.tla is shown to keep; the loops above add nothing to it.
LoopsAreJobSlots ==
  /\ \A g \in Gens : Slot(g)!Init
  /\ [][\A g \in Gens : [Slot(g)!Next]_(Slot(g)!vars)]_vars

\* Every PUT /api/config is answered.
PutReturns == \A w \in Writers : put[w] = "reconcile" ~> put[w] = "idle"

\* Every run ends: its goroutine gives the slot back and closes done.  Only a PUT
\* that stops the scheduler, with schedMu held, may be in its way.
RunsEnd ==
  []<>(\/ \A r \in RunIds : run[r] \in {"none", "closed"}
       \/ \E w \in Writers : put[w] = "stopWait")

\* After Cancel everything unwinds: no run, no loop, no handler is left.
ShutdownUnwinds ==
  down ~> /\ ~busy
          /\ \A g \in Gens : loop[g] \in {"off", "ended"}
          /\ \A w \in Writers : put[w] = "idle"
=============================================================================
