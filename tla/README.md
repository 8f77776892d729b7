# A TLA+ development of YggSpeedTest

YggSpeedTest measures the download speed and latency of Yggdrasil peers. A
batch engine starts one embedded Yggdrasil core per peer, a few at a time, and
ranks what it measured; a web server runs that engine on demand and on a
schedule, keeps a history and pushes progress to browsers; a command line tool
runs it once. This directory holds TLA+ modules translated from the Go source,
the TLC configurations that check them on small instances, and TLAPS proofs of
the properties that matter most for every value of the constants.

Paths below are relative to `src/`. `PROJECT.json` maps each definition to the
lines it stands for and lists the runs, the mutants that show each property can
fail, the findings, the hazards and the theorems.

## 1. The system

### Components

| component | code | state | operations |
|---|---|---|---|
| Scheduler | `internal/schedule/scheduler.go` | under `mu`: spec, next, running, runs, skipped, started, stopped, the `replan` channel; `stopCh`, `done` | Start, SetSpec, Next, Running, Status, Stop, RunOnce; the loop goroutine; claim, finish, advance, countEatenTicks |
| Schedule expressions | `internal/schedule/schedule.go` | none | Parse, Match, NextAfter |
| Web server | `internal/web/server.go`, `types.go` | `storeMu`/`cfgMu`: configuration; `schedMu`: the armed scheduler and its status; `jobMu`: busy, current run; the record of each run | SetConfig, reconcileScheduler, startRun, execute, finish, CancelRun, delete, Cancel, event streams, read-only handlers |
| Event hub | `internal/web/hub.go` | under `mu`: subscribers, each a bounded channel | subscribe, unsubscribe, publish |
| Config and history files | `internal/store/store.go` | two JSON files | Load, LoadOrCreateConfig, Save, AppendRun, DeleteRun, LoadRuns, writeFileAtomic |
| Batch engine | `internal/engine/engine.go` | semaphore, wait group, in-flight and completed counters, results under `mu`, the checkpoint file | Run: resolveRun, dispatch, finishRun |
| Peer test | `internal/engine/test.go`, `admin.go` | one core, admin socket and netstack per test | runPeerTest: handshake, node, target, route, ping, download, teardown |
| Download measurement | `internal/engine/download.go` | byte counter, stream goroutines, sampler | runDownloadTestMultiStream |
| Results | `internal/engine/results.go` | none (pure), checkpoint lines | Less, filterResults, writeCheckpointLine, CSV / Markdown / table |
| Sizes and admin ports | `internal/engine/parse.go` | a port counter | ParseByteSize, getUniqueAdminPort |
| Peer sources | `internal/engine/peers.go` | none | fetch, merge, de-duplicate, fall back |
| Userspace network stack | `netstack/` | NIC with a reader and a writer goroutine | dial, deliver, Close |
| Commands | `cmd/` | flags | start-up, signal handling, shutdown |
| Dashboard page | `internal/web/webui` | what it shows, its EventSource | events, polls, status requests |
| Scripts, CI | `scripts`, `.github` | — | — |

### How they interact

* The web server arms at most one Scheduler and hands it a job, `scheduledRun`,
  that claims the run slot like a manual request does and blocks until the run
  is over. So a loop of the Scheduler, a run's goroutine and every PUT handler
  meet on `schedMu`, `jobMu` and `storeMu`.
* A run calls `engine.Run` with a context of its own, cancelled by a cancel
  request, by the server's `Cancel`, or not at all; the engine calls back
  (`OnResult`) from its worker goroutines, which broadcast through the hub.
* `execute` appends the record through the store, under `storeMu`, which DELETE
  of a run and PUT of the configuration take too. Handlers that read the history
  take no lock: they rely on the store replacing a file as a whole.
* The hub delivers to the handlers of `/api/events`, each with a page behind it
  that reacts with requests of its own, and polls besides.
* A worker of the batch runs one peer test under a context derived from the run's;
  the test builds a node, measures through it and closes it again.

### What is hard, and what makes each component correct

| component | hard behaviour | correct when |
|---|---|---|
| Scheduler | SetSpec while the loop plans, parks, fires or finishes; Stop during a job; RunOnce against the loop; ticks that a long job outlives | one job at a time; no channel closed twice; a parked loop can always be woken; Next reports a firing of the schedule in force, and it is served; Stop returns after the loop is gone; no job after it; ticks are counted once |
| Schedule expressions | day-of-month / day-of-week union, moves of the clock, leap years, unsatisfiable dates | NextAfter is the least firing strictly later, and never is said only of what never fires |
| Web server | PUTs that interleave between save, swap and re-arm; a run that ends while it is cancelled; a PUT that stops a scheduler whose job is waiting | file, process and armed schedule agree; one run at a time; each run recorded once, in order; a cancel hits the run it was meant for; everything unwinds on shutdown |
| Hub, pages | a subscriber that is slow, or leaves during a broadcast; events dropped; answers out of order | no send on a closed channel; a publisher never waits for a client; nothing of a run follows its end; pages settle; streams end |
| Store | a crash or a failing call between temporary file and rename; a reader at the same time; a spoiled file | old or new content, never a mixture; no temporary file forgotten |
| Batch engine | a cancel racing the dispatch loop; workers that finish in any order; failing writes of the checkpoint | the bound on concurrent tests; a result for every peer started, nothing left running on return; the checkpoint holds the results; the ranking |
| Peer test, download | timeouts at every stage, teardown after a partial start, streams racing the deadline and the byte limit | the node outlives everyone who uses it and is closed; the measurement counts what it says; the test ends |

## 2. The modules

| module | models | rests on |
|---|---|---|
| `Lists.tla` | two loops over a list that several files share: dropping items, keeping the newest | — |
| `ListProofs.tla` | lemmas about them | Lists, TLAPS |
| `JobSlot.tla` | what the schedule package promises: one in-flight job, none begun after a stop, a Stop that waits; implemented by `Scheduler` and by each loop of `Server` | — |
| `Scheduler.tla` | the whole of `scheduler.go`, with NextAfter over firing times | — |
| `SchedulerProofs.tla` | theorems about it, the refinement of `JobSlot` included | Scheduler, TLAPS |
| `Calendar.tla` | Parse, Match and NextAfter of `schedule.go` over real dates | — |
| `CalendarProofs.tla` | theorems about it | Calendar, ListProofs |
| `Server.tla` | configuration, runs, and the life of the armed Scheduler, against each other | Lists, JobSlot |
| `ServerProofs.tla` | theorems about it, the refinement of `JobSlot` by each loop included | Server, ListProofs |
| `Events.tla` | hub, publishers, stream handlers, pages, and the shutdown | — |
| `EventsProofs.tla` | theorems about it | Events, TLAPS |
| `AtomicFiles.tla` | what the store promises: whole-file replacement | Lists |
| `Store.tla` | the two files at the level of file operations, with failing calls, kills, power losses and readers; implements `AtomicFiles` | Lists, AtomicFiles |
| `StoreProofs.tla` | theorems about it, the refinement of `AtomicFiles` included | Store, ListProofs |
| `TestStages.tla` | what dispatch relies on of `runPeerTest`: the stages in order, a teardown of what was built, no transfer begun after a cancel; implemented by `PeerTest` and by each goroutine of `Batch` | — |
| `Batch.tla` | `engine.Run`: dispatch, the goroutine of each peer, the checkpoint, the ranking | Lists, TestStages |
| `BatchProofs.tla` | theorems about it, the refinement of `TestStages` by each goroutine included | Batch, ListProofs |
| `Download.tla` | the streams, the counter and the sampler of one download | — |
| `PeerTest.tla` | one peer test around that download, with time | Download (EXTENDS), TestStages |
| `PeerTestProofs.tla` | theorems about both, the refinement of `TestStages` included | PeerTest, TLAPS |
| `MC*.tla` | the finite instances | |

The composition follows the calls, and where a caller has a coarse picture of
what it calls, both are shown to implement one abstract specification.
`PeerTest` extends `Download`, and the goroutine of a peer in `Batch` has the
stages of a test only: each is shown to implement `TestStages`. That the stages
end is what `TestEnds` establishes (with its exception). `Server` has one coarse
loop for each scheduler it makes: each such loop is shown to implement
`JobSlot`, as the whole of `Scheduler` does. It takes a batch as something
that ends; `Server` treats a save and an append as one step, which is what
`AtomicFiles` allows; `Events` takes from `Server` only that a run goes through
testing, finish and release.

### Scheduler.tla and the code

* `pc[Loop]` is where the loop goroutine is between two points at which others
  can act: a section under `s.mu` is one step, everything outside it is a step
  of its own. `plan` is planNext (lines 213, 271-291), `arm` the setting of the
  timer and the evaluation of the select's channels, `select` the parked
  goroutine, `rewake` the branch of a wake, `claim`, `skip`, `advance`, `begin`,
  `job`, `finish` the rest of an iteration. `unscheduled` is the select of a
  schedule with no firing (lines 220-225), which listens to stop and cancel
  only. `begin` to `finish` are shared with a caller of RunOnce.
* The read of `s.replan` at line 241 happens without the lock, after the plan.
  It is a data race with the assignment in `wakeLoop` and modelled as a read at
  any moment between the plan and the select. That gap is what
  `scheduler_lost_wake` shows.
* Callers run Start, SetSpec (`setPlan`, `wakeSwap`, `wakeClose`: the new spec,
  the swap of channels and the close are three critical sections or steps in the
  code too), Stop and RunOnce. Channels are numbers given out by `made`;
  `closed` is the set of those closed.
* A spec is an interval or a set of firing minutes; the calendar is in
  `Calendar.tla`, here the bounded window NextAfter scans and its zero result
  when nothing is found are kept. Time is discrete. `lastRun`, `lastErr` and
  `peersRun` are left out: they are written for display and read by nothing in
  the loop. The result of a job is therefore not distinguished.

### Calendar.tla and the code

* `Parse` turns fields, written as lists of items, into the sets a `Spec` holds,
  with the errors of `parseField` and `fieldBounds`; which fields were written
  `*` is remembered, since `Match` combines day and weekday by that. Splitting
  the text and the names of months and weekdays are left out.
* `NextAfter` truncates, scans `Window` days of minutes and reports `Never`, as
  lines 258-269 do; an interval is added in arithmetic that wraps at `Word`.
* `package time` is external: the Gregorian calendar, and one local clock that
  is moved forward by an hour and later back.
* `Means` is the reference: it reads the expression as it was typed, and never
  the sets that `Parse` made of it.

### Server.tla and the code

* A PUT is `swap` → `debug` → `reconcile` → (`stopWait`) → `status`: the save
  with the swap of `s.cfg` under `storeMu`, `SetDebug` outside of it, then
  `reconcileScheduler` which holds `schedMu` while it stops and replaces the
  scheduler and reads the configuration itself. `storeMu` and `schedMu` are
  variables because they are held across steps; `jobMu` and `cfgMu` protect
  single steps.
* `schedMu` covers `stopWait`, as the code does: `stopScheduler` calls
  `Scheduler.Stop` under it. A run's `finish` needs `schedMu` for its last
  broadcast. `server_disarm` shows what this means.
* The Scheduler appears as one coarse loop per generation: wait, job (which
  claims the run slot or is refused as busy), await, finish, ended. That the
  loop runs one job at a time, begins none once halted and lets Stop return
  only after it has ended is `JobSlot`. `Slot(g)` maps generation `g` to it: the
  loop is its only holder, `halted` its accepted Stop, and the PUT in `stopWait`
  the caller that waits.
* A run is `execute` → `load` → `write` → `status` → `release` → `close`. What its
  record says is `cancelled`, if its context was at the moment `execute` looks, or
  something else: that it is done, that it failed, that it panicked.
* `AppendRun` is `load` and `write`, with `storeMu` held between them. It may fail in
  either: the history cannot be read (`RunUnread`) or written (`RunUnwritten`, which
  leaves the file as it was, as `Store.tla` shows of `writeFileAtomic`). The error is
  logged, and the run is announced and ends without a record; `unrecorded` remembers
  which runs these are. At most `MaxFaults` appends fail.
* A cancel looks up the current run and cancels it under `jobMu`. A DELETE
  loads and writes the history under `storeMu`; one that fails changes nothing.
* The server starts on the history of `Earlier` runs, which are over; the runs it
  makes are numbered after them.

### Events.tla and the code

* `mu` is `h.mu`: `publish` takes it (`Begin`), sends to one subscriber at a time
  (`Send`, with the non-blocking select of `Offer`) and gives it back; `subscribe`
  and `unsubscribe` need it free.
* Whoever publishes is inside `publish` until it returns: the run's goroutine
  with `run_started`, `run_finished` and `schedule`, a peer's goroutine with
  `peer_done`, a PUT with `schedule`. `releaseRun` comes after both events.
* A handler of `/api/events` is `hello` → `open` ⇄ `writing` → `leaving`. A
  client that does not read keeps it in `writing` (or in the greeting) for as long
  as it likes; a connection may break in any of them. The keep-alive is a write
  without an event and left out.
* A page asks for the status on `hello` and on every event but `peer_done`, and
  polls while it is connected (`index.html:641`). A request and its answer are
  two steps; answers are applied in any order. `page` is the run it shows as
  running.
* `main` goes from up to cancelled (`Server.Cancel` closes `shutdownCh`) to drain
  (`http.Server.Shutdown` closes the listener).

### Store.tla and the code

* Files are inodes with content, whether the content is whole, and whether it is
  synced; a directory maps the two paths to inodes and remembers which have a
  temporary name. A step is one file operation of `writeFileAtomic`: CreateTemp,
  Write, Sync, then Close, Chmod and Rename together (the first two change no
  content), and the deferred Remove. Each may fail.
* Operations compute the whole new content under `storeMu`, so there is one
  writer: `Save`, `AppendRun` with `history_limit`, `DeleteRun`, `Start`
  (LoadOrCreateConfig, which writes defaults where there is no file and refuses
  one it cannot read).
* A reader opens the history and reads it later, while the path may be replaced
  more than once.
* Any step may be followed by a kill (`Killed`: the files stay as the system
  shows them) or a power loss. After a power loss a file that was not synced is
  torn, and the directory is one it was since it last reached the disk: nothing
  in the code syncs the directory, so an acknowledged write may be undone, but
  only to a whole older version. Updates of one directory are taken to reach the
  disk in order.
* The history is a sequence of run ids and of lines that do not decode, which
  LoadRuns skips and the next rewrite drops.

### Batch.tla and the code

* `phase` is the goroutine of Run: resolve, dispatch, wait, finish, close,
  returned. `Dispatch` takes a token and starts a goroutine; where a token is
  free and the context is cancelled too, Go's select may take either branch, so
  peers may be started after a cancel. `late` remembers them.
* A peer's goroutine goes through the stages of `runPeerTest`, each of which may
  fail and then skip to the teardown, and then records (result and checkpoint
  line, under `mu`), reports, and runs its deferred calls: the counter, the
  token, the wait group, in that order.
* `Test(w)` maps a goroutine to `TestStages`: `request` and `transfer` are the
  use of the node, what comes after the teardown is over, and bytes are moving in
  `transfer`.
* A peer is `Failed` until bytes were measured. Several measurements stand for
  the ones the order and the thresholds tell apart: with and without a ping, below and
  above the minimal speed.
* A checkpoint line is written whole, not at all or torn. The file may begin
  with a torn line of an earlier run that was killed, since it is opened for
  appending. A torn line also costs the line after it.
* `Less` and the filter are written from the code, `RankedAsAsked` from what the
  output means, so one is a reference for the other.

### PeerTest.tla, Download.tla and the code

* `stage` is where `runPeerTest` is; `timer` is what is left of the limit of the
  call it is in: the handshake's `Timeout`, the lookup's, `adminCall`'s. `left` is
  testCtx, `deadline` the route's, `ticked` the pending tick of the route ticker.
  What a call does in the limit is up to the other side (`Input`); what ends it
  when nobody answers is a step of the program.
* Schemes differ in what bounds their handshake: `ctx` (the context and a
  deadline), `socks` (the deadline alone: during the exchange with the proxy a
  cancel does not reach the connection, `test.go:194-200`), `kcp` (its probe's own
  limit), `tls` (nothing: `test.go:73` hands the dialer neither). `peertest_tls`
  shows what this means.
* `Test` maps all this to `TestStages`: from the target's address to the end of
  the download the node is used, and bytes are moving once a stream reads or any
  have been counted.
* `node` is the set of parts that are up; `Build` adds the next one or fails,
  `Teardown` runs the deferred closes, last first.
* A stream is request → check → read ⇄ check → over; the counter is added to in
  one atomic step and looked at before and after each Read. The sampler ends with
  downloadCtx, which `cancel` ends only where the duration is limited
  (`download.go:59-65`).
* Time passes (`Tick`) only when the program has nothing to do: computing takes
  no time, waiting does. `spent` is what the rate will be divided by, `late` the
  part of it after the last stream.

## 3. The runs

All are breadth-first and exhaustive. Symmetry among callers, writers, plans or
run ids is used in safety runs only; the constants permuted appear in no order
or initial state by name. Deadlock is not checked: the clock, the calls and the
requests are bounded, a server that was shut down and a run that returned stop.

| run | distinct states | shows |
|---|---|---|
| `scheduler_safety` | 720 000 | the slot, the channels, the advertised tick, Stop, the counters, and the refinement of JobSlot |
| `scheduler_liveness` | 65 000 | every accepted Stop returns; the tick Next reports is served when schedules always fire |
| `server_config` | 1 796 000 | after concurrent PUTs the file, the process and the armed scheduler agree and no loop is orphaned; a DELETE against an append, and an append that fails: each run whose append succeeded is recorded once and in order; a loop never abandons its run |
| `server_runs` | 65 000 | one run at a time, cancelled only on request; runs end unless a PUT that stops the scheduler is in the way; shutdown unwinds everything; every scheduler keeps to JobSlot |
| `batch_run` | 1 050 000 | the bound, the results, the checkpoint, the ranking, that each goroutine keeps to TestStages, and that Run returns |
| `store_crash` | 668 000 | files whole in memory and on the disk, readers that see one version, no temporary file forgotten, and the refinement of AtomicFiles |
| `events_page` | 229 000 | no send on a closed channel, the order on a stream, runs end whatever clients do, streams end after Cancel, pages settle |
| `peertest_run` | 212 000 | the node outlives its users; byte limit and duration; tests end, `tls` excepted; the refinement of TestStages |
| `calendar_cron` | 842 | firings are the minutes an expression means, none left out, and never is said only where it is true or 2100 is ahead |

A state of `calendar_cron` is one firing; each is compared with every minute
since the one before, up to four years of them.

### Bounds, and why they are enough

* `scheduler_safety`: two callers suffice for two SetSpecs in `wakeLoop`
  together, a Stop against a RunOnce, or a SetSpec against either, with the loop as the
  third actor; two calls let one caller do SetSpec and then Stop. Schedules of
  interval 1 and 3 and one at minute 2 give replacement by sooner, by later, of
  the other kind, and a clock schedule whose firing passes so that it has none
  left. Jobs take 0 to the end of the clock, so an interval of 1 is outlived
  more than once.
* `scheduler_liveness` uses schedules that fire at every moment the clock
  reaches (`LastingSpecs`), one call per caller.
* `server_config`: two PUTs by two writers over four configurations give every
  pair of overlapping saves; two firings let a second run begin while a PUT
  reconciles. One earlier record, two appends of which one may fail, one DELETE and
  a limit of two records make append, failure, delete and the limit meet in every
  order: the history holds two records and a third pushes the oldest out. Four
  configurations are armed or not, on two plans, with and without debug.
* `server_runs`: one manual and one scheduled run, one PUT, one cancel, and the end
  of the server at any moment: a late cancel can meet the next run, and a PUT can
  disarm under either; one append may fail, which must not keep a lock or the slot. `OnOff` includes a configuration that is enabled with no plan. The scheduler is
  armed at the start and stopped by the PUT, or made by it: both lives of a
  JobSlot.
* `batch_run`: three peers with two tokens make the third wait for a token;
  their URIs are not in plan order so ties and failures are told apart; one
  write fault, at the start or at any line.
* `store_crash`: two operations, so that a write meets what another left; one
  failing call and one crash, at any step, and a restart after it; one reader that
  may hold a version across both writes. The config file starts missing, empty,
  spoiled or whole; the history missing, whole or with a spoiled line; a limit of
  two is reached by two appends.
* `events_page`: streams meet only in the loop of `publish`, which treats them one
  by one and never waits, so one page shows what any page sees; one peer is
  enough to report before, during and after the run's own events; a buffer of two
  overflows with the four events of a run and a PUT; one broken connection gives a
  reconnect.
* `peertest_run`: two streams to race at the byte limit and the deadline; each
  limit is one tick, except the duration's two, so any of them may expire first;
  a buffer of two and a limit of two bytes give reads that stay below, reach and
  overshoot.
* `calendar_cron`: days of three two-minute hours keep the scan short and change
  nothing in the way days are counted; 27 expressions for every kind of field, the
  four cases of day and weekday, rejected fields and intervals; seven starts at
  the ends of minutes, years and leap days, before each move of the clock, and
  with 2100 ahead. The expressions pick an hour that is skipped and one that
  comes twice.

### Fairness

* Scheduler: the loop, the callers in the middle of a call, the end of a job and
  the clock. The Go scheduler runs goroutines that can run, a lock is handed on,
  and a job honours its own timeouts. Nobody is obliged to make a call.
  Weak fairness is enough: none of these steps is disabled and enabled again
  for ever.
* Server: the steps of a PUT, of loops and of runs once begun, and the write of
  a DELETE. Requests, firings, panics and the end of the server need not happen.
* Batch: Run's goroutine and each worker. Each stage of a test ends: it has a
  timeout in the code, with the exception of a TLS handshake.
* Events: publishers, handlers that can go on, `Finish` and what follows it, a
  connected page's timer, requests and answers. A client need not read, connect
  or come back: that `Deliver` is not fair is the point of
  `RunsEndWhateverClientsDo`. Mutexes are few and short, and whoever holds `h.mu`
  can always go on.
* Peer test: the program's own steps and the clock, weakly. Strong fairness for
  `RouteGivenUp`: at the end of the route's time the select may find the ticker
  ready as well as the deadline, and Go chooses at random among the ready cases,
  so it does not pass over one for ever. Peers, admin sockets and servers owe
  nothing.
* Store and Calendar state no liveness.

### Disagreements between the code and what it says

Three runs end in a counterexample. Each checks one statement the repository makes.

| run | the statement | what the code does |
|---|---|---|
| `scheduler_lost_wake` | SetSpec "wakes the loop so the timer the loop set for the old cadence is discarded" (`scheduler.go:64-66`) | a SetSpec that completes between the plan and the read of `s.replan` is missed; the loop waits for the old timer |
| `server_disarm` | a job "returns promptly and Stop can complete" (`scheduler.go:14-15`) | a PUT that disarms holds `schedMu` and waits for a run whose end needs `schedMu` |
| `peertest_tls` | each test is bounded, "Without this a peer that fails to stop cleanly wedges the whole run" (`engine.go:441-443`) | the dialer of a tls peer gets neither context nor timeout; a silent one holds the batch |

More were seen while modelling and have no run:

* A loop parked on a schedule without a firing listens to stop and cancel only
  (`scheduler.go:220-225`), so a SetSpec is advertised and never fires.
* A tick during a run is "dropped and counted as skipped" (`scheduler.go:18-20`);
  only interval ticks are (`:329`).
* A firing refused with ErrBusy counts as a run (`:336`). A RunOnce that outlives
  ticks counts them in `finish` although the loop, refused by `claim`, counted
  them as skipped already, which is why `EveryTickCountsOnce` speaks of
  schedulers without other calls.
* A cancel accepted after `execute` looked at its context (`server.go:398`) leaves
  no mark in the record (`README.md:168-169`).
* Two PUTs may apply their debug levels in the opposite order of their saves
  (`server.go:162-164`).
* "The UI re-fetches the run list on demand" (`hub.go:8-10`): it does so on
  `run_finished`, so a client that lost that event keeps the old list. What
  it shows as running settles, by the poll (`PagesSettle`).
* A cancel stops scheduling (`engine.go:304`, `:397-398`), while the select may
  still start peers; they end as failures (`NothingMeasuredAfterCancel`).
* Ties keep test order (`results.go:15-17`), which is the order in which tests
  finished, so two equal runs may rank ties differently.
* Without a limit on the duration the sampler outlives the streams until the test's
  context ends (`download.go:53-65`, `188-192`): the wait is counted in the
  duration, and so lowers the average.
* "Four years is what a leap-day schedule needs in the worst case"
  (`schedule.go:253-257`): around 2100 the gap is eight, and NextAfter reports
  no firing.
* `@every` with a product that overflows a Duration wraps (`schedule.go:88`): some
  such intervals are accepted and are not the ones typed.
* `*/1` allows every value but is not `*` for the rule that combines day and
  weekday. Minutes the clock skips are not made up for, those it repeats fire
  twice; `Means` agrees with the code on all three.

## 4. What is proved

Every safety invariant, action property and refinement the passing runs check is
a theorem, for every value of the constants that satisfies the named
assumptions. Type correctness of the scheduler, the server, the files, the hub,
the batch and the peer test is a theorem too; the runs check it only for the hub,
where it says that no broadcast reaches a closed channel. The small instances
are thus not what these results rest on: they found the invariants, and they
show that the cases the invariants speak of occur.

### Assumptions

All of them are evaluated by TLC on the instances.

| module | assumption | says, and why the code justifies it |
|---|---|---|
| Scheduler | `LoopAssumption`, `BoundAssumption`, `SpecsAssumption` | the loop is not a caller; an interval is positive, which Parse ensures |
| Server | `ConfigAssumption`, `BoundAssumption` | what a configuration consists of |
| | `HandlersAssumption` | finitely many PUT handlers, distinct from the other names |
| | `NamesAssumption` | who holds a lock or runs a job is told apart: no run and no scheduler is one of the handlers |
| Events | `BufferAssumption`, `BoundAssumption`, `PeersAssumption` | the channel has room for one event (256 in the code); names are distinct |
| Store | `LimitAssumption` | `history_limit` is any integer |
| | `ContentAssumption` | no file, a torn file and a spoiled one are told apart from what the program writes |
| Batch | `PeersAssumption`, `MeasureAssumption`, `TornAssumption` | a plan is a list, a token exists (`Concurrency` is at least 1 after validation), speeds and pings are naturals, a torn line is not a result |
| Download, PeerTest | `DownloadAssumption`, `PeerTestAssumption` | finitely many streams, a buffer that is not empty, limits of at least one tick |
| Calendar | `CalendarAssumption`, `ExpressionsAssumption` | units are positive; expressions have the shape of `Items` and five fields |
| | `YearsAssumption` | the model's calendar reaches as far as its firings may scan |
| | `WindowAssumption` | NextAfter scans more than three years; the code scans four |
| | `LocalClockAssumption` | the local clock is not moved forward on a 29 February, of which there may be only one in the window. Zones that have summer time begin it in other months; in one that did not, NextAfter would miss that day's firings in the hour that is skipped, and say never |

Nothing is assumed of the number of handlers, requests, runs, peers, tokens,
streams, readers, failures or crashes but that the bounds are naturals.

### Scheduler

| theorem | statement | argument |
|---|---|---|
| `TypeCorrect` | `[]TypeOK` | inductive with "no job begins in the future", without which the ticks eaten would not be a natural number |
| `NeverOverlaps` | `[]OneJobAtATime` | inductive given types: claim needs `running = FALSE`, finish is done by the one holder |
| `NoChannelClosesTwice`, `WakesReachTheLoop` | `[]WakeChannelsCloseOnce`, `[]ParkedLoopCanBeWoken` | `WakeInv`: in addition every channel in use was made, so a fresh one is different from all of them |
| `StopReturnsAfterLoop` | `[]StopWaitsForLoop` | `LifeInv`: `done` is closed exactly when the loop has ended, and a Stop waits as long as it is not |
| `AdvertisedTickFits` | `[]AdvertisedTickFitsSpec` | `FitInv`, from lemmas about NextAfter (later than its argument, within the window, a firing) |
| `TicksCountOnce` | `[]EveryTickCountsOnce` | `CadenceInv`, below |
| `PlannedTicksStay` | `PlannedTickStays` | an action property, one step per action, on the type invariant |
| `Refinement` | `Spec => ImplementsJobSlot` | each step is a step of JobSlot or a stutter (`SlotRefined`) under the invariants above |
| `NoJobBeginsAfterStop` | `NoJobAfterStop` | derived from the refinement: JobSlot's Take needs `open` |

`EveryTickCountsOnce` bounds `runs + skipped` by the ticks that have passed while
the schedule is an interval nobody has replaced, and that alone is not
inductive: `finish` adds the ticks a job has eaten, whose number depends on when
the job began. `CadenceInv` says that the ticks counted fit before now, and one
more of them before the tick the loop has planned or serves; and that a job
began no earlier than the tick it serves and ended no earlier than its length says.

### Server

`Inv` is one inductive invariant of eight parts; `Invariance` proves it, and each
property follows from a few of them.

| part | says |
|---|---|
| `StoreLockInv` | `storeMu` is held exactly in the middle of a save, an AppendRun or a DELETE; what the latter two loaded is still the history, and outside of a save the file is `s.cfg` |
| `SchedLockInv` | `schedMu` is held across steps only by a PUT that waits; no loop but the armed one is left, and it is halted only while it is waited for |
| `SettledInv` | when no PUT has still to reconcile, the armed scheduler is the one the configuration asks for, or is being stopped because it asks for none |
| `SlotInv` | runs are numbered as they start, and the one that holds the slot is the last |
| `BoundInv` | every number given out is within its bound (needed since `loop` and `run` are functions on bounded sets) |
| `FinishInv`, `CancelInv`, `JobInv` | a run is finished once; what is cancelled was asked for; the loop that started a run waits for it |
| `HistoryInv` | records are in the order of their runs and belong to runs that are over and were neither deleted nor refused by a failing append; a run that is over and missing is one of these, or has as many newer records as the limit |

| theorem | statement |
|---|---|
| `TypeCorrect` | `[]TypeOK`, lock discipline included |
| `OneRunOn`, `OnlyRequestedCancels` | `[]OneRunAtATime`, `[]CancelledOnlyOnRequest` |
| `FileIsConfig`, `SchedulerFollowsConfig` | `[]FileMatchesProcess`, `[]ScheduleFollowsConfig` |
| `JobsOutliveRuns` | `[]JobOutlivesItsRun` |
| `RunsAreRecordedOnce` | `[]EveryRunIsRecordedOnce`: a failing append costs its own run the record and no other |
| `LoopsRefine`, `OneLoopRefines` | `LoopsAreJobSlots`, and `Slot(g)!Spec` for each `g` |

`ScheduleFollowsConfig` shows best why the parts are needed. A PUT reads the
configuration again when it reconciles, so what the scheduler is armed for may
be another PUT's configuration; that this other PUT has not reconciled yet, or
has with the same result, is `SettledInv`, and it is kept by the steps of a
waiting PUT only because `schedMu` keeps everybody else out (`SchedLockInv`).

`LoopsRefine` needs the lock too. That JobSlot's Stop is accepted once, and returns
to the one who made it, holds of a generation because there is one PUT at a time
between `stop` and `stopWait`, and `sched` is the scheduler it has halted; a loop that
is not `sched` is not touched by any PUT. With `Refinement` of `SchedulerProofs`
the two models of a scheduler meet in one specification: whatever `ServerProofs`
concludes from a loop being a JobSlot is true of the code's loop.

### Events, Store

| theorem | statement | argument |
|---|---|---|
| `EventsProofs!TypeCorrect` | `[]TypeOK`: also that publish reaches open channels only | `HubInv`: while `mu` is held, whoever is still to be sent to is subscribed |
| `EndsAreLast` | `[]NothingFollowsTheEnd` | `PublishInv` says what each publisher may be about to send, `StreamInv` what may stand after what on a stream, and `FreshInv` that nobody is sent the end of a run while it is on, nor before its turn when it is published |
| `FilesStayWhole` | `[]FilesAreWhole` | `StoreInv`: all that any directory a power loss may bring back leads to is whole and synced (`LinkInv`), the temporary file is reachable for nobody but the writer and is synced before it is renamed (`WriterInv`), what a reader opened keeps its content (`ReaderInv`) |
| `NoTempIsForgotten` | `[]TempsOnlyFromCrashes` | `TempsInv`: a temporary name is the writer's, or one that was given up |
| `StoreProofs!TypeCorrect` | `[]TypeOK` | with `StageInv` |
| `ImplementsAtomicReplacement` | `Spec => ImplementsAtomicFiles` | `ContentInv`: a history that a path leads to is a sequence of lines; `OrderInv`: what the writer is about to put in place is what its operation makes of the content that is in place, from the load to the rename. The rename is then the abstract write; every other step of the writer stutters |

### Batch

| theorem | statement | argument |
|---|---|---|
| `TestsAreBounded` | `[]BoundedConcurrency` | `CountInv`: tokens, wait group and counters are the cardinalities of the goroutines at the places that hold them |
| `NothingRunsAfterReturn` | `[]NothingAfterReturn` | `BatchInv`: also which workers are started (`PlaceInv`) and which have exactly one result and were reported (`ResultInv`); wg = 0 then means that everybody is gone |
| `LatePeersFail` | `[]NothingMeasuredAfterCancel` | `MeasureInv`: a peer dispatched after the cancel never reaches its transfer, and nobody has measured anything before |
| `CheckpointsHold` | `[]CheckpointHoldsResults` | `FileInv`, below |
| `ResultsAreRanked` | `[]RankedAsAsked` | `RankInv` (nothing moves after finishRun, since everybody is gone) and `SortedIsInOrder` |
| `WorkersRefine`, `OneWorkerRefines` | `WorkersAreTests`, and `Test(w)!Spec` for each `w` | a step of a goroutine is a step of its own test and leaves every other alone; a measurement is the one step that needs `MeasureInv`'s types |
| `TypeCorrect` | `[]TypeOK` | all four parts |

`BoundedConcurrency` is not inductive by itself: it needs that `sem` counts the
goroutines that hold a token and that a goroutine leaves the counted stages
before it gives its token back. The lemma `AtStep` says how the set of
goroutines at some places, and its size, changes when one goroutine moves, and
every action is an instance of it.

A failed write costs two lines at most, its own and the next. That is not
inductive either: after a line was cut short the file is about to lose one more
than it has lost. `FileInv` adds one for a file that ends so (`Broken`).

The ranking is a chain of lemmas. `Less` is a weak order on outcomes
(`LessIsWeakOrder`), with the position it becomes total (`AheadIsTotalOrder`), so
counting what is ahead numbers the rows without a gap (`PlaceCounts`, by
`FS_Injection`: an injection of a finite set into itself is onto), and `Sorted`
is a permutation in that order (`SortedIsInOrder`).

### Peer test, calendar

| theorem | statement | argument |
|---|---|---|
| `PeerTestProofs!TypeCorrect` | `[]TypeOK` | with the nesting below |
| `NodeOutlivesItsUsers` | `[]NothingUsesAClosedNode` | `NestInv`: streams and sampler live inside the function, the function inside its stage, the stage while the node is all up, and the node is one of four chains |
| `MeasurementsAreExact` | `[]MeasurementIsExact` | `BytesInv`: each stream that is over has received at most one buffer past the limit; `TimeInv`: the time spent comes out of the limit, and nothing happens after the last stream but what takes no time |
| `CalendarProofs!FiringsMean` | `[]FiringsAreMeant` | a field is parsed into the values it says (`FieldsAreParsed`), a moment within the years has a date (`MomentsAreTold`), so Match is what was written (`MatchIsMeans`), and Scan returns the first match (`ScanIsFirst`) |
| `TestRefines` | `Spec => ImplementsTestStages` | `OutcomeInv`: there is no outcome before the function returns. A stream begins to read only in a Check that saw the context, which is the abstract `Flow`. What is counted stays, so a measurement is of something that moved |
| `NeverMeans` | `[]FiringsAreTheCalendars` | below |

`MeasurementIsExact` bounds the total by the number of all streams; the invariant
bounds it by the number of those that are over, of which one more is at hand
exactly when a Read passes the limit.

`FiringsAreTheCalendars` has two halves, and the second, that "never" is said
rightly, is not true of every window. The argument: a date is meant for its day
or for its weekday (`DayOrWeekday`), so what an expression means comes round in
each year, unless it is the 29 February only (`DatesRecur`); a window longer
than three years holds two years as a whole, so it has two such dates
(`TwoYearsAhead`, `DaysAhead`); the clock is moved forward once, so it skips the
minute on one of them at most (`ClockTells`, `ClockIsScanned`); hence Scan finds
a match (`WindowSuffices`). Only
when the expression means no date but the 29 February is a single one in the
window relied on. The proof corrected the statement: the exception was first
written for a window counted in minutes, and a window that begins on the day the
clock goes forward does not reach the last hour of its last day. `LeapGap` now
speaks of the days the window holds as a whole.

### How lists and numbers are reasoned about

The prover has no induction over data. Where a proof needs it, it uses that a
set of naturals that is not empty has a least element (`LeastElement`, `UpTo` in
`ListProofs`). `Without` and `Newest` are written as the loops of the code are,
`Without` by a recursive function, and `ListProofs` proves that the equation
has a solution (`LoopExists`), that what is kept is a subsequence of what was
read, and what one more item does to it. The years of the calendar are found in
the same way.

### Only model-checked

* Every liveness property: `StopReturns`, `AdvertisedTickIsServed`,
  `ShutdownUnwinds`, `RunsEnd`, `RunReturns`, `RunsEndWhateverClientsDo`,
  `StreamsEnd`, `PagesSettle`, `TestEnds`. Fairness is defined by ENABLED, which
  the prover does not handle.
* The three statements that do not hold are counterexamples.

## 5. Plan

Done: all modules with their runs; the proofs of section 4.

Nothing the runs check is left to prove that the prover can reach. What would
extend the development: the bridge of `netstack/`, once the promises of gVisor's
`Stack.Close` are written down; a dashboard with more than one tab; a debug level
that follows the configuration, for which `PutDebug` has the steps.

## 6. What is not modelled, and why

* Splitting an expression into fields, names of months, the text of errors,
  decoding of requests, summaries, sizes: conversions without a state anyone
  depends on.
* The port counter of the admin sockets (`parse.go`) starts anywhere in a range of
  30000 and hands out the next; a port comes up again after as many tests, long
  after its socket was closed.
* Peer lists are fetched, merged and de-duplicated before the batch begins,
  sequentially; a batch sees the list.
* The network stack bridges two libraries, gVisor and yggdrasil-core, whose
  promises are not in the repository. One hazard is listed: the reader goroutine
  checks `dispatcher` and then calls it (`netstack/yggdrasil.go:103`), and a
  Close may clear it in between.
* The bytes of the handshakes; the rates computed from the samples; CSV,
  Markdown, tables, log lines, rendering and forms of the dashboard.
* A panic in a worker outside the recovered part of a test ends the process; a
  batch that ends so is the checkpoint's case "killed at any moment".
* The command line tool's flags and output; scripts and CI.
