# A formal model of the browser concurrency benchmark

This directory holds TLA+ modules that model the benchmark harness in `src/`,
the TLC configurations that check them on small instances, and proofs, checked
by TLAPS, of the properties that matter most for every size of the instance.
`PROJECT.json` is the index: which definition models which lines, which run
checks which property, which mutated definition each property catches.

Paths below are relative to `src/`.

## 1. The system

`bench run` drives a target web shop with *logical tasks* executed by a fixed
set of *workers*, in one of six scenarios (http, headed, headless,
persistent-contexts, cdp, hybrid), and reports latencies, throughput and
resource use. `bench sweep` repeats that over scenarios and concurrency levels.

| Component | State | Operations | Correct when |
|---|---|---|---|
| Driver (`internal/scheduler/driver.go`) | token channel, loop goroutines, deadline, level, phase | one window of the closed loop, ramp/step levels, warmup boundary | tokens conserved, windows separated, everything drained, the run ends |
| Pool (`internal/scheduler/pool.go`) | channel `jobs`, `pending`, `closed`, worker goroutines | Submit, workerLoop, Drain, Close | every accepted task finished exactly once, Close meets no submitter |
| Recorder (`internal/metrics/metrics.go`) | counters, latency series, lifecycle events, under one mutex | TaskCreated ... TaskCancelled, Reset, Snapshot | counters exact, no warmup sample in the measurement |
| Context pool (`internal/contexts`) | stack of available contexts, set in use, `closed` | NewPool, Acquire, Release, Close | contexts exclusive, bounded, all closed |
| CDP launcher (`internal/cdp`) | raw Chromium process, its profile directory, debug port | Launch, ConnectOverCDP, Kill | no process outlives its worker |
| Browser manager, per-task worker (`internal/browser/worker.go`) | Playwright driver, one Chromium per task | StartBrowser, Run, Close | no browser outlives its task |
| Executors (`internal/browser/executor.go`, `internal/workflow`, `internal/hybrid`, `internal/httpworker`) | session, order id, step results | Execute, wsCheck, escalation routing | steps in order, the first failure ends the workflow, outcomes belong to the task |
| Controller (`internal/controller/controller.go`) | the processes and goroutines of a run | Run with its failure returns, signals and defers | no orphan, results persist, verdict right |
| Telemetry (`internal/metrics/sampler.go`, `internal/process`, `internal/system`, `internal/accounting`) | sample series, process roles | Sample, Classify, Aggregate | roles and aggregates match the process forest |
| Results (`internal/results`, `internal/stats`, `internal/saturation`) | files, summaries, verdicts | WriteRun, BuildSummary, Evaluate | percentiles and rates match their definitions |
| Sweep (`cmd/bench/commands.go`) | cells done, previous peak, verdicts | runSweepCell, writeSweepSummaries | the safety stop acts, cells agree with the files |
| Target backend (`target/backend`) | WebSocket hub, SQLite store | join, leave, broadcast; sessions, carts, orders | no client blocks the hub, orders match carts |
| Exporter, config, logging, build info, scenarios, frontend | last summary; configuration | - | support code |

How they interact. The controller builds workers, hands them to the pool with
`SetWorkers` and calls `Driver.Run` synchronously. Loop goroutines and worker
goroutines meet on the unbuffered channel `jobs`; a task's `done` channel tells
its loop that the worker has finished; `pending` tells `Drain`. Both sides write
the Recorder. A worker calls its scenario's `Run`, which uses the context pool,
a browser process and the network. Cancellation reaches everything through one
context, derived from a signal handler.

Where it is hard: cancellation while a task runs, a deadline that passes while a
loop waits for a token, the reset between warmup and measurement, Submit and
Close on the same channel, contexts failing while the pool is closed, a set-up
that fails half way, signals before, during and after the run, the order of the
defers. `PROJECT.json` lists each hazard at its line with the property that
covers it, or why none does.

## 2. Modules

| Module | Models | Used by |
|---|---|---|
| `TaskLedger` | the abstract promise about tasks: accepted, settled once, discarded at the warmup boundary, reported once | refined by `ClosedLoop`, composed into `BenchRun` |
| `ClosedLoop` | driver, pool and task counters, statement by statement | `MCClosedLoop`, `ClosedLoopProofs` |
| `MCClosedLoop` | finite instances: one window, or a ramp of two; symmetry | the three runs of `ClosedLoop` |
| `ClosedLoopProofs` | proofs about `ClosedLoop`: the inductive invariant, tokens, bounds, exact counters, the refinement of `TaskLedger` | - |
| `ContextPool` | the context pool and the users of it | two runs, `ContextPoolProofs` |
| `ContextPoolProofs` | proofs about `ContextPool` | - |
| `BenchRun` | one run of the controller, over `TaskLedger` | two runs, `BenchRunProofs` |
| `BenchRunProofs` | proofs about `BenchRun` | - |
| `WSHub` | the target's WebSocket hub and the pages of the WebSocket step | two runs, `WSHubProofs` |
| `WSHubProofs` | proofs about `WSHub` | - |
| `Shop` | the target's API handlers over its SQLite store, with failing statements and crashes | composed into `Workflows` |
| `OrderDesk` | the abstract promise of the shop: one basket, one whole order per session | refined by `Workflows` |
| `Workflows` | tasks as clients of the shop: executors, routing, recorder | the run `shop`, `WorkflowsProofs`, `WorkflowsDeskProofs` |
| `WorkflowsProofs` | proofs about `Workflows`: the inductive invariant and what follows from it | - |
| `WorkflowsDeskProofs` | more proofs about `Workflows`: the refinement of `OrderDesk`, the recorder | - |
| `Accounting` | pure part of the measurements: process roles, samples, statistics, saturation | `Telemetry`, `Sweep`, `AccountingProofs` |
| `AccountingProofs` | proofs about `Accounting`: sums, percentiles, ownership, and lemmas for induction | `SweepProofs` |
| `Telemetry` | one run as the sweep sees it: sampler, monitor, files | composed into `Sweep` |
| `Sweep` | `cmdSweep` and its results, over `Telemetry` | `MCSweep`, `SweepProofs` |
| `MCSweep` | process tables, plans and outcomes for TLC | the runs `sweep` and `sweep_claims` |
| `SweepProofs` | proofs about `Sweep` | - |

### ClosedLoop

State and code: `pc[l]` is the statement of `runFixed` a loop goroutine is at,
`cur[l]` its variable `t`; `tokens` is the number of values in the token channel;
`job[w]` is what `workerLoop` has received, `exited` the goroutines that left the
range; `st[t]` and `done` are a task's timestamps, `Err` and `done` channel;
`pending`, `rec`, `closed` are the fields of those names. `dpc`, `phase`, `level`
are the goroutine that is in `Driver.Run` and later in `Pool.Close`.

An action is a stretch of code between two points where another goroutine can
see a difference: the top-of-loop `select`, the deadline test, the `select` on
the tokens, the second deadline test, `Submit` up to the send, the rendezvous,
the final `select`. Go's `select` picks any ready case, so `TakeToken`,
`LeaveCancelled`, `SeeDone` and `AbandonTask` are all possible at once. A worker's
`TaskActive`, outcome, `markFinished` and `pending.Done` are four steps. Two or
three statements on one side of the recorder's mutex (`TaskCreated`,
`TaskQueued`) are one step, since nothing reads the recorder in between.

A task's work is abstracted to its outcome; time to `DeadlinePasses`, which may
happen at any moment of a window. `Levels` stands for `rampLevels`: a sequence of
sets of loops. `Submit`'s refusing branch is left out because `NoUseAfterClose`,
which is proved, says that it cannot be taken.

`epoch` is a history variable: the phase in which a task was submitted. It is
what lets `CountersExact` say that the counters hold none of an earlier phase.

### ContextPool

`available`, `inUse` are the fields; `made` and `live` are the contexts created
and not yet closed; `owner` follows the goroutine that builds and closes the
pool. Acquire and Release each hold the mutex throughout and are one action;
Close is split where it unlocks. `pc[u]` follows `Worker.Run`, which the
packages contexts, cdp and hybrid share line for line. `NewPage` fails in a
closed context and may fail in a live one; the work of a task can always fail.
The deferred `page.Close` changes nothing the model keeps.

In a benchmark run every pool has one user, its worker, so only the top of the
stack is ever in use and Acquire never has to create a context. The package
promises more (it has a mutex, Release is "safe to call after Close", its test
holds two contexts at once), so the model has several users and a Close at any
moment.

### BenchRun

`stage` is where `controller.Run` is; `built`, `spawned` follow the loop that
builds the workers; `pw`, `chrome`, `raw` are the processes: the Playwright
driver, the Chromium it launched for each worker, the Chromium that cdp spawned
itself. The tasks are those of `TaskLedger` (`status`, `window`, `report`), whose
actions the module conjoins with its own; `running` says which worker executes
which. The last stages are the defers in LIFO order: the signal handler is
removed, the driver stops, `Pool.Close` closes the workers it was given.
`Interrupt` is a signal while the handler is installed, `Killed` one outside.
`DriverRefuses` is a mode `Driver.Run` does not know (`--mode` is not checked
before) or a concurrency below one; the controller then saves nothing, unless the
run was cancelled as well (`ReadVerdict`).

Assumed about the environment: a browser the Playwright driver launched dies
with the driver; a raw Chromium does not die with anything but `Kill` (it is in
its own process group); a call through a stopped driver returns (the pool is
closed after the driver has stopped, and nothing here tests what such a call
really does: `NoChromiumAfterRun` and `RunEnds` rest on it). A browser that crashes during a run shows
as a failed task.

### WSHub

`clients`, `events` are the hub's fields and `send[c]` is `client.send`; `closes[c]`
counts its closes, so that a second one is visible. `serve[c]` is where `handleWS`
is: about to join, in its loop, about to leave, gone. `sock[c]` is the connection
as the two sides have left it, `wire[c]` what has been written and not yet seen.
`page[c]` and `post[c]` are the promise of `wsCheck` and its request.

`Deliver` takes an event and offers it to every client in one step, although the
code ranges over the map: between two of its sends only a handler can touch a
`send` channel, each handler touches its own, and whatever it does before or
after its client's turn it can do before or after the step. `WriteEvent` is the
receive from `send` together with the write; a handler blocked in a write that
does not fit is one that has not received yet, which is why `WireCap` includes
the message being written. A write to a connection the page has ended may succeed or
fail, one to a connection the reader has closed fails.

History variables: `count` numbers the events the hub takes, `seen[c]` is the last
number a page saw (or the last before it joined), `got[c]` is who caused the event
that ended the wait. `GapFree` is stated with the first two, `OwnEvent` with the
third.

The type of an event is "session" or one that stands for the others; its payload is
who caused it. A page may fail at any moment (`Timeout`: the timer of the step, the
deadline or the cancellation of the task), and the tab of a failed page may stay open
and go on receiving for a while.

### Shop, OrderDesk and Workflows

`Shop` is the target process: its tables `sessions`, `cart`, `orders`, `items`, how
many products are seeded, the counter of `uniqueID`, and who holds the one
connection `SetMaxOpenConns(1)` leaves. A handler is a goroutine that takes one step per SQL
statement: a statement outside a transaction needs the connection to be free
(`Idle`), one inside needs to own it (`Own`). `BeginOrder` to `Commit` is the
transaction of `CreateOrder`; GetCart before it and the two statements of GetOrder are not in one.
`Crash` ends the process anywhere, start-up included: the open transaction is rolled back,
handlers end without an answer, and answers already written may be lost or not.
`Restart` opens the same file again.

An identifier is a pair of a process number and a counter: the first stands for
`time.Now().UnixNano()`, of which only is assumed that a later process of the target
shows a later time than an earlier one. The workflows put one piece of `p1` into a cart, so carts and orders are
represented by a number of pieces at a price of one; `Products` counts the rows of
the catalogue.

`Workflows` adds the clients. `pos[t]` is the loop variable of `Execute`, `sess[t]` and
`ord[t]` are its `SessionState`, `tpc[t]` says whether the task waits for an answer.
A page and HTTP differ in which operations ask the target and in how an error is
classified; `hybrid` chooses per step (`OnPage`). `GiveUp` is the end of a context, of
the client's timeout or of a page's: the request stays under way, and its handler may
still change the tables. The event of the WebSocket step is `WSHub`'s subject; here the
step creates a session beside the task's own (`ProbeSession`). `Record` is what a
worker does with the results of `Execute`, in one step: nothing reads the recorder in between.

Assumed about the environment: a request reaches the target at most once unless the code sends it again, which it never
does. What lies below the code may: `net/http` repeats a GET when a connection it reuses turns out to be dead (a POST only if
nothing of it was sent), which changes no table, and Chromium may resend a request, a POST too, whose reused socket is closed before the answer
begins. `ImplementsDesk` and `AckedDurable` say nothing of such a repetition.

`OrderDesk` knows neither requests nor failures. The mapping takes `cart` for the basket
and every row of `orders` with its items for an order, so a row without its items, a second
order or a piece added twice is a step `OrderDesk` does not have.

### Accounting, Telemetry and Sweep

A snapshot in `Accounting` is a function from process identifiers to a parent, a kind (what
`isChromiumName` and `roleFromName` find in a name) and a working set. `Ancestor` follows parents as far as
there are processes; where the code would go round for ever, `Endless` is true, and
`SnapshotsAssumption` leaves such tables out. `IsTable` says what is asked of a snapshot otherwise: finitely many
processes, whose identifiers, parents and sizes are natural numbers, and no parent but itself for process 0, which only Windows lists. The controller need
not be in it (a collector without process support returns an empty snapshot).

`Telemetry` is `controller.Run` from the baseline snapshot on. `sampler` and `monitor` are the
two goroutines, which tick until they see their contexts end: between `sampleCancel` and the end of
the wait one more tick is possible. `sysPeak` is the aggregate `WriteCSV` publishes after the last line is
flushed. The driver is one step; how it fares is `ClosedLoop`'s and `BenchRun`'s matter. What the recorder amounts to
is chosen from `Outcomes`: a tail latency, and whether another limit is crossed (CPU, failure rate, the 99th percentile).

`Sweep` is `cmdSweep`: `cell` holds its three loop variables, `baseSum`, `prevPeak`, `levelPeak`, `rows` are `baseAcc`,
`prevPeakRAM`, `levelPeak`, `sweepRec`; `raw` is the directory of runs `writeSweepSummaries` reads.
The baseline is kept as a sum and compared after multiplying, so that no division is needed. History variables: `shown` and `before`
are the memory values the CSV files of this level and of the one before show, those of the baseline among them, which the
code itself never looks at. A level 0 stands for a text that is no number: `BadLevel` is the error of `Atoi`, which ends a sweep
at that level and drops its rows, unless the ceiling has stopped the scenario before.

The sweeps considered name each level once, have one text at most that is no number, and start with an empty results directory.

## 3. Runs

| Run | Instance | States | Shows |
|---|---|---|---|
| `closedloop_fixed` | 3 loops, 2 workers, 4 tasks, one window | 190 k | `TokensConserved`, `InFlightBounded`, `ReturnedAccounts`, `NoUseAfterClose`, and `IInv` |
| `closedloop_ramp` | 1 then 2 loops, 1 worker, 3 tasks, warmup and measurement, fairness | 102 k | `CountersExact`, `CancelledOnce`, `WindowsSeparated`, refinement of `TaskLedger`, `Terminates`, `SubmittedFinish` |
| `closedloop_cancelled` | 2 loops, 1 worker, warmup and measurement, fairness | - | two findings: a run cancelled in its warmup exceeds the in-flight cap and leaves warmup counts for the summary |
| `contextpool` | 3 users, 2 contexts built, 4 possible | 71 k | `Exclusive`, `ContextsBounded`, `ClosedBeforeBrowser`, and `IInv` |
| `contextpool_poison` | 1 user | - | finding: a closed context serves the next task |
| `benchrun` | all scenarios, 2 workers, 3 tasks | 13 k | `InfrastructureUp`, `TaskBrowserClosed`, `NoChromiumAfterRun`, `ResultsPersist`, `CancellationReported`, `RunEnds`, and `IInv` |
| `benchrun_orphans` | same | - | finding: orphan Chromium after a failed cdp set-up |
| `wshub` | 2 pages, capacities 1, one other event, fairness | 325 k | `NoPanic`, `NoGhost`, `GapFree`, `HubForgets`, and `IInv` |
| `wshub_foreign` | 2 pages, capacities 1 | - | finding: another page's event satisfies the step |
| `shop` | 2 tasks, every workflow and transport, 2 products, 2 target processes, 1 fault, fairness | 444 k | `OrdersWhole`, `RefusedOnlyOnFault`, `AckedDurable`, `RecorderAgrees`, refinement of `OrderDesk`, `WorkflowsEnd`, and `IInv` |
| `sweep` | 3 levels with 2 repetitions; 2 scenarios with 4 levels, the last no number, or with 2; a baseline alone; 2 ticks a run, 1 fault, fairness | 613 k | `SafetyCeiling`, `RowsComplete`, `VerdictsAgree`, `AccountedOnce`, `SweepEnds`, and `IInv` |
| `sweep_claims` | 2 scenarios, 3 levels, 2 repetitions, memory over the ceiling, no fault, fairness | - | four findings: what the ceiling stops and checks, what the two tables say, what the benchmark's memory is |

A run that expects a violation checks one property. Where one behaviour refutes several statements of the repository, the
property is their disjunction under `[]` (`CancelledAsDocumented`, `SweepAsDocumented`: a run keeps one of the promises), so
that a counterexample refutes each.

Bounds and why they are enough. Loops outnumber workers, so that tokens are
scarce and a loop waits for another's; there are two workers where the order of
two completions matters; a task more than loops lets a loop go round again. When
the task objects are used up a loop stays before `NewTask` until the deadline,
exactly as if the deadline had come earlier. The ramp has a level with fewer
loops than the next, and two phases of it, so a window follows a window both with
and without a reset. Three users and two contexts exhaust a pool; the bound of
four contexts is never what stops them (`ContextsBounded` holds at three). The
symmetry sets permute tasks and workers, which no definition tells apart, and are
not used where liveness is checked. `CHECK_DEADLOCK` is on everywhere: the ends
of a run are the explicit stuttering actions `Finished` and `Ended`.

In `wshub` capacity one makes every buffer full after one event; the three events
(one per page, one other) let a client be dropped and the other go on; the code's
capacities of 16 and 256 are covered by the proofs, which hold for any.

In `shop` two tasks compete for the connection, the counter and the same tables; a third would only repeat
what they do, since a request touches the rows of its own session. Two products are a catalogue that can be empty, partial and
complete. One fault per run keeps the state space small and is enough for every property: none needs a second failure to
be endangered, because after the first the task is over. `MaxIds` is six so that no request is refused an identifier in a process of the target: two tasks
ask for at most three each.

In `sweep` three levels are needed for a level whose predecessor is not the baseline, two repetitions for a maximum
over them, two scenarios for the reset between them; a fourth level, which is no number, comes after one that can stop the sweep and
one that cannot. Memory values 1 and 2 lie on both sides of the ceiling. Two ticks a run show a peak that
is not the last sample, and statistics of a series of up to three snapshots. One fault in a sweep covers each file and each
step that can fail; an error ends the sweep, and a warning loses one file (both CSV files of a run can be lost with two faults,
which the proofs cover). `sweep_claims` needs no fault: the memory is always over
the ceiling, the two outcomes differ in nothing but `hot`, and the one process table has a program that is not the benchmark's.

Fairness. `closedloop_ramp` has weak fairness of each loop goroutine, each worker
goroutine and the driver goroutine (Go's scheduler runs what can run), and of
time. For a worker this includes that `Worker.Run` returns: its context expires
after 120 s, the HTTP client after 60 s, Playwright calls after their own
timeouts. Cancellation is never assumed. Weak fairness of a loop as a whole is
enough even for the tokens: a loop that waits is not served in any order, but the
deadline ends the waiting. `closedloop_cancelled` has the same fairness. `benchrun` has weak fairness of the controller and of
each worker's tasks. `wshub` has weak fairness of the hub's cases (Go's `select` chooses at random
among the ready ones), of each handler, whose ticker makes it write, and of each
reader; nothing is assumed of the pages. The closed-loop and the controller run assume that polling the process table returns; a cycle
of parent PIDs would break that (see the hazard at `ownership.go`).
`shop` has weak fairness of each task and of the handler that serves it (goroutines; `net/http` answers or closes every connection);
nothing starts a dead target again, and nothing assumes it. `sweep` and `sweep_claims` have weak fairness of the one goroutine of the command
and of the steps that end a run; no tick of a sampler is promised.

## 4. Proofs

All theorems hold for every number of loops, workers, tasks, contexts and users,
from the ASSUMEs of the modules (finite sets, at least one worker, at least one
context, non-empty levels; `config.Validate` and `NewPool` ensure them).

`ClosedLoopProofs`. `IInv` is `TypeOK`, *Ownership* (which loop and which worker
have a task, and how far it can have come then), *Accounts* (`pending`, `active`
and `created` are the sizes of sets of tasks) and *Phases* (outside `wg.Wait` no
loop lives and nothing is pending). None of the safety properties is inductive
alone: `NoUseAfterClose` needs that `pending = 0` implies that no worker holds a
task, which is *Accounts*; *Accounts* needs that a step concerns one task only,
which is *Ownership*. Each action's proof has a step per part it can disturb;
the changes of cardinalities are lemmas. Proved: `TypeOK`, `IInv`,
`NoUseAfterClose`, `ReturnedAccounts`, and the action property
`WindowsSeparated`.

The rest of the module builds on it. `TokensConserved` is inductive given
*Phases* (only a window's loops hold tokens). `CountersExact` needs *Epochs*: a
task without an outcome was submitted in the current phase, since *Phases* lets
none survive the boundary; *Tallies* then follows the sets counted. The bounds
rest on *Bounds*: a task in flight is held by a loop, or it is an orphan of a loop
that left when the run was cancelled, so the orphans are no more than the loops
that have left; an injection from the held tasks into the loops (into the token
holders, before a cancellation) gives `InFlightBounded`, and the same count of
leavers gives `CancelledOnce`. `LedgerImplemented` maps each step to one of
`TaskLedger` or to a stutter: `Submit` to Accept, `RecordOutcome` to Settle,
`EndWarmup` to Boundary, `RunReturns` to Finish.

`ContextPoolProofs`. `IInv` places every context ever made: once in the stack, or
with one user, or among those Close has collected. `Exclusive` and
`ClosedBeforeBrowser` follow directly. `ContextsBounded` uses that a context is
made only when the stack is empty, so the contexts in use, each with a user of
its own, are all of them: an injection into the users bounds their number.

`BenchRunProofs`. `IInv` says which processes are up at each stage and what the
report is once the window is closed; the report's sum is a cardinality argument
over the ledger (`FinishAddsUp`). Proved: `InfrastructureUp`, `TaskBrowserClosed`,
`NoChromiumAfterRun`, `ResultsPersist`, and `CancellationReported` by a second
invariant that holds from the return of the driver in a cancelled run onwards.

`WSHubProofs`. `IInv` adds to the three properties what links a handler's state
with its socket and channel (`Untouched`): a channel is empty and open before
the join, nothing follows a close message. `NoPanic` is inductive only together
with `NoGhost`, since a `leave` meets the membership test and not the count of
closes. `GapFree` is an argument about consecutive numbers along two queues,
with lemmas for taking the head of one and appending to another.

`AccountingProofs` is about operators, not states. The sums of the code are folds, so what they compute is a matter of induction
over finite sets; the library's induction theorems take an operator as a parameter, but the principle can be had from well-foundedness:
`SmallestNat` (every non-empty set of numbers has a smallest member, from `WFMin`) gives `SubsetInduction`, where the property is a set of
subsets. From it follow that a sum does not depend on the order (`TotalTake`, `TotalUnion`), is additive over disjoint sets and is bounded. `Sorted` is
shown to exist and to be monotone by counting the values below (`SortedAt`, `SortedMonotone`), and `StatsOrdered` follows with
`NearestRank`, the integer arithmetic of `percentile`. `OwnedBelow` equates two views of ownership: the walk of `isOwned`
along the parents, and the smallest set that has the controller and the children of its members. One direction is that the owned processes are such a
set; the other is a smallest counterexample along the walk. `Ancestor` and `Endless` look at as many steps as there are processes; `EndlessForever` shows that this
decides: a walk that is still in the table by then has met a process twice (`FS_PigeonHole`) and goes round for ever (`WalkCircles`), so the assumption leaves out the tables on which
`isOwned` hangs and no others. `RolesOfTree` and
`AggregateOnce` then say that the roles partition a table and that a sample counts every process once, those of other programs included.

`SweepProofs`. `IInv` has four parts. *LoopInv*: `SafetyCeiling` is about values that went through five variables, so it follows them: `PeakInv`
says that the running peak is the largest sample and that what the summary has is that peak or, without a file, zero;
`LevelInv` that `levelPeak` and `prevPeak` are the largest values the files of a level show; `EnteredInv` that a level that was
entered has passed the comparison. The actions of a run leave the variables of the sweep alone and vice versa, which
`RunStepFrame` and `LoopStepFrame` state once for all. *SeriesInv*: from the end of the monitor on nothing is recorded, so that the statistics are of all
samples; with `SeriesSampled` (the samples are of process tables) and `AccountingProofs` it gives `AccountedOnce`. *RowsInv*: `RowsComplete` is about the end
of a sweep, so the invariant says of every moment what is recorded of each scenario: the ones before the loops are finished
(`ScenarioDone`), the ones after are `Untouched`, and the one under way has its levels up to the loops' (`ScenarioUnderWay`). A step appends
rows of one level, or of the levels left out, and keeps one file at most; `KeptLevel`, `KeptScenario` and `RowsOthers` show
once that everything else stays, and each of the three steps of the loops has a lemma. *VerdictInv*: the table is written once, when every
scenario is finished, and the rows do not change any more (`SameVerdict`, `StillDone`). `VerdictsAgree` follows since a run in the
table is of a level of the matrix (`PlacedRun`), which therefore has a last row, and in a finished level that is the row of the baseline or
of the last repetition (`LastRep`). The
theorems hold for any number of scenarios, levels and repetitions, any ceiling, and any set of process tables that satisfies
`SnapshotsAssumption`; that no level is given twice (`SweepAssumption`) is used wherever a row is found by its level.

`WorkflowsProofs`. The properties speak of answers, but what makes an answer right
was done several requests earlier, so `IInv` ties the position of a task in its
workflow to its request (*TaskInv*, *PlaceInv*) and both to the tables: an
identifier is never given twice, even by the next process (*IdInv*); no two tasks
have one session, not even while it is only in an answer under way
(*SessionInv*); the basket of a session is empty until its task's request fills
it, once (*CartInv*), and there is no order with it until its task's transaction
commits (*OrderInv*). `OtherTask` shows once that a task that takes no part in a
step keeps its part of the invariant when the tables keep its rows (`TablesFor`),
which holds for `Upsert` and `Commit` because sessions are not shared. The
facts about the workflows themselves (nothing is bought twice, a session comes
first) are `StepFacts`. `OrdersWhole`, `RefusedOnlyOnFault` and `AckedDurable` follow.
`WorkflowsDeskProofs` maps `Upsert` to Add, `Commit` to Place and every other step to a
stutter; and counts the recorded tasks by outcome, with an injection from the
complete ones into the rows of `orders`. The theorems assume what
`ShopAssumption` says, at least one product among it; `MaxBoots`, `MaxIds` and
`MaxFaults` are arbitrary, so the bounds of the model do not matter to them.

Only model-checked. Liveness (`Terminates`, `SubmittedFinish`, `RunEnds`, `HubForgets`, `WorkflowsEnd`, `SweepEnds`) needs `ENABLED`
and fairness, which are out of the prover's reach. Every other property of a passing run, every invariant and action property and both
refinements, is stated by a theorem.

## 5. Findings

Each is a run whose property quotes the repository and fails; the details are in
`PROJECT.json`.

1. A failed task's context is closed and then released into the pool, and the next
   task of that worker gets it; one failure makes all later tasks of the worker fail
   (`internal/contexts/worker.go:60`).
2. The in-flight cap of the token semaphore is exceeded by one task per abandoned one
   when a run is cancelled (`internal/scheduler/driver.go:167`).
3. A run cancelled during its warmup leaves warmup data as its summary
   (`internal/scheduler/driver.go:82`).
4. A cdp run that fails to build a worker leaves the Chromium of the earlier ones
   running (`internal/controller/controller.go:143`).
5. The WebSocket step is satisfied by any client's session event
   (`internal/browser/executor.go:289`).
6. The memory of the baseline level is never compared with `--max-rss-gb`
   (`cmd/bench/commands.go:195`); `SafetyCeiling` is what holds of the levels above.
7. The ceiling stops a scenario, not the sweep (`cmd/bench/commands.go:215`); `RowsComplete` says that what
   was left out is recorded, and leaves open what.
8. The table of runs gives every repetition of a level the verdict of the last one (`cmd/bench/commands.go:296`); `VerdictsAgree` is
   what holds.
9. The benchmark's total memory includes every other program of the machine (`internal/accounting/accounting.go:72`); `AccountedOnce`
   asks for a total between what the benchmark owns and the whole table.

Met while modelling, without a run of their own:

- `TotalProcesses` counts every process of the machine, and since the controller passes no target PID, no process ever has the role target.
- A run whose `system_metrics.csv` could not be written counts as a run without memory in the check of the ceiling.
- Runs of earlier sweeps in the same results directory get the verdicts of this one. With `--repetitions 0` the average of the baseline divides by zero.
- `cancellation` is never an error class: `internal/workflow/errors.go` defines sentinels nothing wraps. A page's own timeout is an application error, and the same broken
  connection is an infrastructure error over HTTP and an application error in a page (`ClassOf`).
- The store seeds products only into an empty table (`target/backend/store.go:123`): a crash between two of its INSERTs leaves a partial catalogue for good.
  A failing statement is answered as 404 or 400 (`StatusesOfFailure`), and no loop over rows asks for `rows.Err()`.
- `ramp`, `step` and `spike` ignore their duration in the warmup (`internal/scheduler/driver.go:73`); `rampLevels` stops at the last table entry not above
  the maximum; `Recorder.Reset` keeps browser launches, which in headed and headless runs belong to tasks (`internal/metrics/metrics.go:90`).
- Run identifiers have the resolution of a second (`internal/results/results.go:27`).

## 6. Not modelled

- The polling inside `cdp.Launch`, the averages and CPU values beside the peaks, the latency series and their interpolated percentiles
  (`internal/stats`, floating point): no control depends on them.
- `rampLevels`: `Levels` of `ClosedLoop` holds for every table.
- The commands of `cmd/bench` other than the sweep and the run: they read files and print.
- The exporter, logging, build info, YAML parsing and the frontend (no state another part depends on), and the operating system queries of
  `internal/system` and `internal/process` (pure I/O).
- Handlers no workflow calls, none of which changes a table: `GET /api/session`, `GET /api/products/{id}`, `GET /api/cart`. The unsynchronised
  random generator of `payload`, whose value nothing looks at.
- Several runs at once on one results directory, and levels given twice to a sweep.
