------------------------------- MODULE Batch -------------------------------
(***************************************************************************)
(* internal/engine: Run.  One goroutine dispatches the peers of the plan,  *)
(* each to a goroutine of its own that tests it, with at most Concurrency  *)
(* of them at a time; what they measured is appended to a shared slice and *)
(* to the checkpoint file, then filtered and sorted.                       *)
(*                                                                         *)
(* A step is a blocking operation, an atomic access or a critical section. *)
(* The shared logger, the byte counts and the times are left out.          *)
(***************************************************************************)
EXTENDS Lists, FiniteSets

CONSTANTS
  Peers,        \* the plan's peers in order: the rank of each one's URI
  Concurrency,  \* cfg.Concurrency
  Measurements, \* the [speed, ping] pairs a test may measure
  MinSpeed, MaxPing,    \* cfg.MinSpeed and cfg.MaxPing, 0 for no threshold
  SortBy,       \* cfg.SortBy: "ping" or "speed" (peak, handshake are alike)
  Torn,         \* a line of the checkpoint file that was cut short
  MaxFaults     \* bound: writes to the checkpoint file that fail

ASSUME PeersAssumption == Peers \in Seq(Nat) /\ Concurrency \in Nat \ {0}
ASSUME MeasureAssumption ==
  /\ Measurements \subseteq [speed : Nat, ping : Nat \cup {-1}]     \* -1 is NoPing
  /\ MinSpeed \in Nat /\ MaxPing \in Nat /\ MaxFaults \in Nat
ASSUME TornAssumption == Torn \notin DOMAIN Peers

VARIABLES
  phase,        \* where the goroutine of Run is
  dispatched,   \* peers taken from the plan so far
  cancelled,    \* ctx is cancelled
  sem,          \* tokens in the semaphore channel
  wg,           \* the wait group's counter
  pc,           \* per peer: where its goroutine is
  measured,     \* per peer: the outcome of its test, Failed until it has another
  inFlight, completed,  \* the two counters of dispatch
  results,      \* the shared slice: peers in the order they finished
  file,         \* the checkpoint file: lines, each a peer or Torn
  fileOpen,     \* the checkpoint file is open
  faults,
  reported,     \* peers passed to OnResult
  late,         \* peers dispatched after the cancel
  final         \* what Run returns

run     == <<phase, dispatched, late>>
tokens  == <<sem, wg>>
counts  == <<inFlight, completed>>
disk    == <<file, fileOpen, faults>>
output  == <<results, disk, reported>>
vars == <<run, cancelled, tokens, pc, measured, counts, output, final>>

Workers == DOMAIN Peers
NoPing  == -1       \* PingMs is nil
Worst   == 2^30
Failed  == [speed |-> 0, ping |-> NoPing, error |-> TRUE]
Ok(m)   == [speed |-> m.speed, ping |-> m.ping, error |-> FALSE]

Go(w, from, to) == pc[w] = from /\ pc' = [pc EXCEPT ![w] = to]

-----------------------------------------------------------------------------
(* Ranking and thresholds, over what was measured *)

PingOf(w) == IF measured[w].ping = NoPing THEN Worst ELSE measured[w].ping

\* Mutant of Less: failures are not kept at the bottom.
Less_Unfailed(a, b) ==
  IF SortBy = "ping" THEN PingOf(a) < PingOf(b)
                     ELSE measured[a].speed > measured[b].speed

\* lessResult: failures last and by name, the rest by the chosen measure.
Less(a, b) ==
  \/ measured[a].error /\ measured[b].error /\ Peers[a] < Peers[b]
  \/ ~measured[a].error /\ measured[b].error
  \/ /\ ~measured[a].error /\ ~measured[b].error
     /\ IF SortBy = "ping" THEN PingOf(a) < PingOf(b)
                           ELSE measured[a].speed > measured[b].speed

\* passesFilters; a missing ping fails a set threshold.
Passes(w) ==
  /\ MinSpeed > 0 => measured[w].speed >= MinSpeed
  /\ MaxPing > 0 => measured[w].ping # NoPing /\ measured[w].ping <= MaxPing

\* finishRun keeps failures whatever the thresholds.
Filtered == Without(results, {w \in Workers : ~measured[w].error /\ ~Passes(w)})

\* A stable sort puts s[k] after what is less and after its equals to the left.
Place(s, k) ==
  1 + Cardinality({j \in DOMAIN s : Less(s[j], s[k]) \/ (j < k /\ ~Less(s[k], s[j]))})
Sorted(s) == [i \in DOMAIN s |-> s[CHOOSE k \in DOMAIN s : Place(s, k) = i]]

-----------------------------------------------------------------------------
(* The goroutine of Run *)

\* resolveRun opens the checkpoint file last; whatever fails before, or the open
\* itself, ends the run without a result.
Resolve ==
  /\ phase = "resolve"
  /\ \/ phase' = "dispatch" /\ fileOpen' = TRUE
     \/ phase' = "returned" /\ UNCHANGED fileOpen
  /\ UNCHANGED <<dispatched, late, cancelled, tokens, pc, measured, counts, results,
                 file, faults, reported, final>>

\* Mutants of Launch: the wait group is raised by the goroutine, or not bounded.
Launch_LateAdd(w) ==
  /\ sem < Concurrency
  /\ sem' = sem + 1
  /\ UNCHANGED wg

Launch_Unbounded(w) ==
  /\ sem < Concurrency \/ cancelled
  /\ sem' = sem + 1
  /\ wg' = wg + 1

\* A token is free: it is taken and the peer gets its goroutine.
Launch(w) ==
  /\ sem < Concurrency
  /\ sem' = sem + 1
  /\ wg' = wg + 1

\* With a free token and a cancelled context the select takes either.
Dispatch ==
  /\ phase = "dispatch" /\ dispatched < Len(Peers)
  /\ dispatched' = dispatched + 1
  /\ Launch(dispatched')
  /\ Go(dispatched', "none", "enter")
  /\ late' = IF cancelled THEN late \cup {dispatched'} ELSE late
  /\ UNCHANGED <<phase, cancelled, measured, counts, output, final>>

\* The labelled break, or the end of the plan.
DispatchEnds ==
  /\ phase = "dispatch"
  /\ cancelled \/ dispatched = Len(Peers)
  /\ phase' = "wait"
  /\ UNCHANGED <<dispatched, late, cancelled, tokens, pc, measured, counts, output, final>>

\* wg.Wait.
Waited ==
  /\ phase = "wait"
  /\ wg = 0
  /\ phase' = "finish"
  /\ UNCHANGED <<dispatched, late, cancelled, tokens, pc, measured, counts, output, final>>

FinishRun ==
  /\ phase = "finish"
  /\ phase' = "close"
  /\ final' = Sorted(Filtered)
  /\ UNCHANGED <<dispatched, late, cancelled, tokens, pc, measured, counts, output>>

\* plan.close, deferred.
Close ==
  /\ phase = "close"
  /\ phase' = "returned"
  /\ fileOpen' = FALSE
  /\ UNCHANGED <<dispatched, late, cancelled, tokens, pc, measured, counts, results,
                 file, faults, reported, final>>

RunNext == Resolve \/ Dispatch \/ DispatchEnds \/ Waited \/ FinishRun \/ Close

-----------------------------------------------------------------------------
(* The goroutine of a peer *)

Enter(w) ==
  /\ Go(w, "enter", "handshake")
  /\ inFlight' = inFlight + 1
  /\ UNCHANGED <<completed, run, cancelled, tokens, measured, output, final>>

\* The stages of runPeerTest: the handshake; the core, its admin socket and its
\* netstack; the route to the target and the request; the bytes.
Handshake(w) ==
  /\ \/ Go(w, "handshake", "node") \/ Go(w, "handshake", "record")
  /\ UNCHANGED <<measured, run, cancelled, tokens, counts, output, final>>

\* A failure on the way closes what was opened before it.
Node(w) ==
  /\ \/ Go(w, "node", "request") \/ Go(w, "node", "teardown")
  /\ UNCHANGED <<measured, run, cancelled, tokens, counts, output, final>>

\* Mutant of MayRequest: the download does not look at the context.
MayRequest_Always == TRUE

\* No request goes out on a context that is cancelled.
MayRequest == ~cancelled

Request(w) ==
  /\ \/ MayRequest /\ Go(w, "request", "transfer")
     \/ Go(w, "request", "teardown")
  /\ UNCHANGED <<measured, run, cancelled, tokens, counts, output, final>>

\* Bytes move until the end, or until a cancel or a deadline, or none did.
Transfer(w) ==
  /\ Go(w, "transfer", "teardown")
  /\ \/ UNCHANGED measured
     \/ \E m \in Measurements : measured' = [measured EXCEPT ![w] = Ok(m)]
  /\ UNCHANGED <<run, cancelled, tokens, counts, output, final>>

\* The deferred ns.Close, adm.Stop and ygg.Stop.
Teardown(w) ==
  /\ Go(w, "teardown", "record")
  /\ UNCHANGED <<measured, run, cancelled, tokens, counts, output, final>>

\* Mutant of WriteLine: failures are left out.
WriteLine_Measured(w) ==
  /\ file' = IF measured[w].error THEN file ELSE Append(file, w)
  /\ UNCHANGED faults

\* writeCheckpointLine: the line is written, or nothing or a part of it.
WriteLine(w) ==
  \/ /\ file' = Append(file, w)
     /\ UNCHANGED faults
  \/ /\ faults < MaxFaults
     /\ faults' = faults + 1
     /\ file' \in {file, Append(file, Torn)}

\* The result and its line, under mu; an error is only logged.
Record(w) ==
  /\ Go(w, "record", "report")
  /\ results' = Append(results, w)
  /\ WriteLine(w)
  /\ UNCHANGED <<fileOpen, reported, run, cancelled, tokens, measured, counts, final>>

\* OnResult, outside mu, and the counter of the log lines.
Report(w) ==
  /\ Go(w, "report", "leave")
  /\ reported' = reported \cup {w}
  /\ completed' = completed + 1
  /\ UNCHANGED <<results, disk, inFlight, run, cancelled, tokens, measured, final>>

\* The deferred calls of the goroutine: the counter, the token, the wait group.
Leave(w) ==
  /\ Go(w, "leave", "release")
  /\ inFlight' = inFlight - 1
  /\ UNCHANGED <<completed, run, cancelled, tokens, measured, output, final>>

\* Mutant of Release: the token is given back by the tests that succeed.
Release_Measured(w) ==
  /\ Go(w, "release", "done")
  /\ sem' = IF measured[w].error THEN sem ELSE sem - 1
  /\ UNCHANGED <<wg, run, cancelled, measured, counts, output, final>>

Release(w) ==
  /\ Go(w, "release", "done")
  /\ sem' = sem - 1
  /\ UNCHANGED <<wg, run, cancelled, measured, counts, output, final>>

Done(w) ==
  /\ Go(w, "done", "gone")
  /\ wg' = wg - 1
  /\ UNCHANGED <<sem, run, cancelled, measured, counts, output, final>>

WorkerNext(w) ==
  \/ Enter(w) \/ Handshake(w) \/ Node(w) \/ Request(w) \/ Transfer(w)
  \/ Teardown(w) \/ Record(w) \/ Report(w) \/ Leave(w) \/ Release(w) \/ Done(w)

-----------------------------------------------------------------------------

Cancel ==
  /\ ~cancelled
  /\ cancelled' = TRUE
  /\ UNCHANGED <<run, tokens, pc, measured, counts, output, final>>

\* The checkpoint file is appended to; a run before may have been killed in the
\* middle of a line.
Init ==
  /\ phase = "resolve" /\ dispatched = 0 /\ late = {} /\ cancelled = FALSE
  /\ sem = 0 /\ wg = 0
  /\ pc = [w \in Workers |-> "none"]
  /\ measured = [w \in Workers |-> Failed]
  /\ inFlight = 0 /\ completed = 0
  /\ results = <<>> /\ reported = {} /\ final = <<>>
  /\ fileOpen = FALSE
  /\ \/ file = <<>> /\ faults = 0
     \/ file = <<Torn>> /\ faults = 1 /\ MaxFaults > 0

Next == RunNext \/ Cancel \/ \E w \in Workers : WorkerNext(w)

Spec == Init /\ [][Next]_vars

\* Goroutines that can run do run, and every stage of a test ends.
FairSpec == Spec /\ WF_vars(RunNext) /\ \A w \in Workers : WF_vars(WorkerNext(w))

-----------------------------------------------------------------------------
(* Properties *)

Testing(w) == pc[w] \notin {"none", "done", "gone"}
Finished(w) == pc[w] \in {"report", "leave", "release", "done", "gone"}
Phases == {"resolve", "dispatch", "wait", "finish", "close", "returned"}
Pcs == {"none", "enter", "handshake", "node", "request", "transfer", "teardown",
        "record", "report", "leave", "release", "done", "gone"}

TypeOK ==
  /\ phase \in Phases /\ dispatched \in 0..Len(Peers) /\ late \subseteq Workers
  /\ cancelled \in BOOLEAN /\ fileOpen \in BOOLEAN
  /\ sem \in Nat /\ wg \in Nat /\ inFlight \in Nat /\ completed \in Nat
  /\ pc \in [Workers -> Pcs]
  /\ measured \in [Workers -> [speed : Nat, ping : Nat \cup {NoPing}, error : BOOLEAN]]
  /\ results \in Seq(Workers) /\ reported \subseteq Workers
  /\ file \in Seq(Workers \cup {Torn}) /\ faults \in 0..MaxFaults
  /\ final \in Seq(Workers)

\* At most Concurrency tests are under way, teardown included, whether or not
\* the run is cancelled, and the counter that is logged agrees.
BoundedConcurrency ==
  /\ Cardinality({w \in Workers : Testing(w)}) <= Concurrency
  /\ inFlight <= Concurrency

\* When Run has returned nothing of it is left running: every peer that was
\* dispatched has one result, was reported, was counted, and nobody will touch
\* the slice or the file again.
NothingAfterReturn ==
  /\ ~fileOpen => \A w \in Workers : pc[w] \in {"none", "gone"}
  /\ phase \in {"finish", "close", "returned"} =>
       /\ \A w \in Workers : pc[w] = IF w <= dispatched THEN "gone" ELSE "none"
       /\ \A w \in 1..dispatched :
            Cardinality({i \in DOMAIN results : results[i] = w}) = 1
       /\ reported = 1..dispatched
       /\ completed = dispatched /\ inFlight = 0 /\ sem = 0

\* A run killed at any moment leaves what it measured: the lines keep the order of
\* the slice, and a failed write costs at most its own line and, when it was cut
\* short, the next, that of an earlier run included.
Readable(i) == file[i] # Torn /\ (i > 1 => file[i - 1] # Torn)
Unwritten == {w \in Workers : \A i \in DOMAIN file : file[i] # w}
Lost == {i \in DOMAIN results : \A j \in DOMAIN file : file[j] = results[i] => ~Readable(j)}
CheckpointHoldsResults ==
  /\ Without(file, {Torn}) = Without(results, Unwritten)
  /\ Cardinality(Lost) <= 2 * faults

\* What is returned is ranked by the measure asked for, with failures last and
\* ties in the order the tests finished; only measured peers below a threshold
\* are missing.
Meets(w) ==
  /\ MinSpeed = 0 \/ measured[w].speed >= MinSpeed
  /\ MaxPing = 0 \/ measured[w].ping \in 0..MaxPing
Key(w) ==
  IF SortBy = "ping" THEN IF measured[w].ping = NoPing THEN Worst ELSE measured[w].ping
                     ELSE 0 - measured[w].speed
Before(w, v) ==
  \E i, j \in DOMAIN results : i < j /\ results[i] = w /\ results[j] = v
RankedAsAsked ==
  phase = "close" =>
    /\ {final[i] : i \in DOMAIN final}
         = {w \in 1..dispatched : measured[w].error \/ Meets(w)}
    /\ \A i, j \in DOMAIN final :
         LET w == final[i]
             v == final[j]
         IN i < j =>
              \/ ~measured[w].error /\ measured[v].error
              \/ measured[w].error /\ measured[v].error /\ Peers[w] <= Peers[v]
              \/ /\ ~measured[w].error /\ ~measured[v].error
                 /\ Key(w) < Key(v) \/ (Key(w) = Key(v) /\ Before(w, v))

\* A peer that the dispatch loop started although the run was cancelled is a
\* failure in the results, never a measurement.
NothingMeasuredAfterCancel ==
  \A w \in late : Finished(w) => measured[w].error

\* Each peer's goroutine is a test as runPeerTest promises it: nothing is recorded
\* before the teardown, and a cancel leaves only what was moving already.
Stage(w) ==
  CASE pc[w] \in {"none", "enter"}       -> "off"
    [] pc[w] = "handshake"              -> "handshake"
    [] pc[w] = "node"                   -> "build"
    [] pc[w] \in {"request", "transfer"} -> "use"
    [] pc[w] = "teardown"               -> "teardown"
    [] OTHER                            -> "over"
Test(w) == INSTANCE TestStages WITH
  at <- Stage(w), moving <- pc[w] = "transfer", measured <- ~measured[w].error
WorkersAreTests ==
  /\ \A w \in Workers : Test(w)!Init
  /\ [][\A w \in Workers : [Test(w)!Next]_(Test(w)!vars)]_vars

\* Run returns, cancelled or not.
RunReturns == <>(phase = "returned")
=============================================================================
