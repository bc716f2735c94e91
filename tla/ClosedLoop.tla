------------------------------ MODULE ClosedLoop ------------------------------
(***************************************************************************)
(* The heart of a benchmark run: the driver's closed loop                   *)
(* (internal/scheduler/driver.go), the worker pool it feeds                 *)
(* (internal/scheduler/pool.go) and the task counters both write            *)
(* (internal/metrics/metrics.go), from the first window to Pool.Close.      *)
(*                                                                         *)
(* Every window of a run (the warmup, the measurement, each level of a ramp *)
(* or step run) starts one goroutine per logical task. A loop takes one of  *)
(* as many tokens as there are workers, hands a fresh task to a worker over *)
(* the unbuffered channel jobs, waits for it and starts again, until the    *)
(* deadline of the window or the cancellation of the run.                   *)
(***************************************************************************)
EXTENDS Integers, Sequences, FiniteSets

CONSTANTS
  Loop,      \* the logical-task goroutines a window can start
  Worker,    \* the worker slots of the pool
  Task,      \* the task objects of one run: their number bounds the run
  Levels,    \* the loops each consecutive window of a phase starts: one set
             \* for fixed, steady and spike runs, one per level for ramp, step
  WarmUp,    \* whether cfg.Warmup > 0
  NoTask     \* an idle worker, or a loop without a task

ASSUME ClosedLoopAssumption ==
  /\ IsFiniteSet(Loop) /\ IsFiniteSet(Task)
  /\ IsFiniteSet(Worker) /\ Worker # {}
  /\ Levels \in Seq((SUBSET Loop) \ {{}}) /\ Levels # << >>
  /\ WarmUp \in BOOLEAN
  /\ NoTask \notin Task

VARIABLES
  pc,         \* where each loop goroutine is
  cur,        \* the task each loop has made and not yet let go of
  st,         \* how far each task has come (its timestamps and its Err)
  done,       \* the tasks whose done channel is closed
  epoch,      \* history: the phase in which a task was submitted
  job,        \* the task each worker goroutine has received
  exited,     \* the worker goroutines that have returned
  tokens,     \* the number of values in the token channel
  pending,    \* the counter of Pool.pending
  rec,        \* the task counters of the Recorder
  timed,      \* SetMeasurementElapsed has been called
  expired,    \* the deadline of the current window has passed
  cancelled,  \* the run context is done
  closed,     \* Pool.closed is set and jobs is closed
  phase,      \* "warmup" or "measurement"
  level,      \* index in Levels of the current window
  dpc         \* where the goroutine in Driver.Run, then Pool.Close, is

loopVars   == <<pc, cur, tokens>>
workerVars == <<job, exited>>
taskVars   == <<st, done, epoch>>
driverVars == <<expired, closed, phase, level, dpc, timed>>
poolVars   == <<loopVars, workerVars, taskVars, pending, rec, cancelled>>
vars == <<poolVars, driverVars>>

Outcome == {"ok", "err"}

CapacityPlusOne == Cardinality(Worker) + 1   \* mutant: one token too many

Capacity == Cardinality(Worker)

CounterName == {"created", "queued", "active", "complete", "failed", "cancelled"}

ZeroCounters == [c \in CounterName |-> 0]

\* TaskCreated, TaskQueued and the others: the counters in up go up by one,
\* those in down go down by one, under the lock of the Recorder.
Bump(up, down) ==
  rec' = [c \in CounterName |-> rec[c] + (IF c \in up THEN 1 ELSE 0)
                                      - (IF c \in down THEN 1 ELSE 0)]

Init ==
  /\ pc = [l \in Loop |-> "off"]
  /\ cur = [l \in Loop |-> NoTask]
  /\ st = [t \in Task |-> "unborn"]
  /\ done = {}
  /\ epoch = [t \in Task |-> "none"]
  /\ job = [w \in Worker |-> NoTask]
  /\ exited = {}
  /\ tokens = 0
  /\ pending = 0
  /\ rec = ZeroCounters
  /\ expired = FALSE
  /\ cancelled = FALSE
  /\ closed = FALSE
  /\ timed = FALSE
  /\ phase = IF WarmUp THEN "warmup" ELSE "measurement"
  /\ level = 1
  /\ dpc = "begin"

-------------------------------------------------------------------------------
(* A loop goroutine of runFixed.                                           *)

\* The loop leaves through a case <-ctx.Done(): TaskCancelled, then return.
CountAndLeave(l) ==
  /\ cancelled
  /\ Bump({"cancelled"}, {})
  /\ pc' = [pc EXCEPT ![l] = "off"]

LoopContinues(l) ==
  /\ pc[l] = "top"
  /\ ~cancelled
  /\ pc' = [pc EXCEPT ![l] = "deadline"]
  /\ UNCHANGED <<cur, tokens, workerVars, taskVars, driverVars, pending, rec, cancelled>>

CheckDeadline(l) ==
  /\ pc[l] = "deadline"
  /\ pc' = [pc EXCEPT ![l] = IF expired THEN "off" ELSE "token"]
  /\ UNCHANGED <<cur, tokens, workerVars, taskVars, driverVars, pending, rec, cancelled>>

\* The select of lines 143-148: with a token free and the context done, Go
\* picks either case, so TakeToken does not look at cancelled.
TakeToken(l) ==
  /\ pc[l] = "token"
  /\ tokens > 0
  /\ tokens' = tokens - 1
  /\ pc' = [pc EXCEPT ![l] = "recheck"]
  /\ UNCHANGED <<cur, workerVars, taskVars, driverVars, pending, rec, cancelled>>

\* The cases <-ctx.Done() of the two selects before a task exists.
LeaveCancelled(l) ==
  /\ pc[l] \in {"top", "token"}
  /\ CountAndLeave(l)
  /\ UNCHANGED <<cur, tokens, workerVars, taskVars, driverVars, pending, cancelled>>

\* Mutant: the stale token is not put back.
LoseStaleToken(l) ==
  /\ pc[l] = "recheck" /\ expired
  /\ pc' = [pc EXCEPT ![l] = "off"]
  /\ UNCHANGED <<cur, tokens, workerVars, taskVars, driverVars, pending, rec, cancelled>>

ReturnStaleToken(l) ==
  /\ pc[l] = "recheck"
  /\ expired
  /\ tokens' = tokens + 1
  /\ pc' = [pc EXCEPT ![l] = "off"]
  /\ UNCHANGED <<cur, workerVars, taskVars, driverVars, pending, rec, cancelled>>

\* A fresh Task per iteration. When the run is out of task objects the loop
\* stays here until the deadline passes (the bound of the model).
NewTask(l, t) ==
  /\ pc[l] = "recheck"
  /\ ~expired
  /\ st[t] = "unborn"
  /\ st' = [st EXCEPT ![t] = "created"]
  /\ cur' = [cur EXCEPT ![l] = t]
  /\ pc' = [pc EXCEPT ![l] = "submit"]
  /\ UNCHANGED <<tokens, workerVars, done, epoch, driverVars, pending, rec, cancelled>>

\* Pool.Submit up to the send. The branch that refuses a task cannot be
\* taken here: Close is called after Driver.Run has returned (NoUseAfterClose).
Submit(l) ==
  /\ pc[l] = "submit"
  /\ ~closed
  /\ pending' = pending + 1
  /\ Bump({"created", "queued"}, {})
  /\ st' = [st EXCEPT ![cur[l]] = "queued"]
  /\ epoch' = [epoch EXCEPT ![cur[l]] = phase]
  /\ pc' = [pc EXCEPT ![l] = "send"]
  /\ UNCHANGED <<cur, tokens, workerVars, done, driverVars, cancelled>>

\* The rendezvous on jobs: Submit returns as the worker receives. The send is
\* not part of a select, so cancellation does not interrupt it.
Receive(l, w) ==
  /\ pc[l] = "send"
  /\ job[w] = NoTask /\ w \notin exited
  /\ job' = [job EXCEPT ![w] = cur[l]]
  /\ pc' = [pc EXCEPT ![l] = "wait"]
  /\ UNCHANGED <<cur, tokens, exited, taskVars, driverVars, pending, rec, cancelled>>

SeeDone(l) ==
  /\ pc[l] = "wait"
  /\ cur[l] \in done
  /\ tokens' = tokens + 1
  /\ cur' = [cur EXCEPT ![l] = NoTask]
  /\ pc' = [pc EXCEPT ![l] = "top"]
  /\ UNCHANGED <<workerVars, taskVars, driverVars, pending, rec, cancelled>>

\* Cancellation while the task runs: the loop gives its token back and leaves,
\* the task stays with its worker.
AbandonTask(l) ==
  /\ pc[l] = "wait"
  /\ CountAndLeave(l)
  /\ tokens' = tokens + 1
  /\ cur' = [cur EXCEPT ![l] = NoTask]
  /\ UNCHANGED <<workerVars, taskVars, driverVars, pending, cancelled>>

LoopStep(l) ==
  \/ LoopContinues(l)
  \/ CheckDeadline(l)
  \/ TakeToken(l)
  \/ LeaveCancelled(l)
  \/ ReturnStaleToken(l)
  \/ \E t \in Task : NewTask(l, t)
  \/ Submit(l)
  \/ \E w \in Worker : Receive(l, w)
  \/ SeeDone(l)
  \/ AbandonTask(l)

-------------------------------------------------------------------------------
(* A worker goroutine, Pool.workerLoop, between two receives.               *)

\* TaskActive.
StartTask(w) ==
  /\ job[w] # NoTask
  /\ st[job[w]] = "queued"
  /\ st' = [st EXCEPT ![job[w]] = "started"]
  /\ Bump({"active"}, {})
  /\ UNCHANGED <<loopVars, workerVars, done, epoch, driverVars, pending, cancelled>>

CountAsComplete(o) == "complete"   \* mutant: errors are not looked at

CounterOf(o) == IF o = "err" THEN "failed" ELSE "complete"

\* Worker.Run returns, with or without an error (a cancelled or timed out
\* context usually gives one, but a task may also finish first), and the
\* outcome is recorded.
RecordOutcome(w, o) ==
  /\ job[w] # NoTask
  /\ st[job[w]] = "started"
  /\ st' = [st EXCEPT ![job[w]] = o]
  /\ Bump({CounterOf(o)}, {"active"})
  /\ UNCHANGED <<loopVars, workerVars, done, epoch, driverVars, pending, cancelled>>

\* Task.markFinished: only after the outcome has been counted.
MarkFinished(w) ==
  /\ job[w] # NoTask
  /\ st[job[w]] \in Outcome
  /\ job[w] \notin done
  /\ done' = done \cup {job[w]}
  /\ UNCHANGED <<loopVars, workerVars, st, epoch, driverVars, pending, rec, cancelled>>

\* pending.Done, and the worker is back at the receive.
TaskDone(w) ==
  /\ job[w] \in done
  /\ pending' = pending - 1
  /\ job' = [job EXCEPT ![w] = NoTask]
  /\ UNCHANGED <<loopVars, exited, taskVars, driverVars, rec, cancelled>>

\* Mutant: the worker goroutine also stops when the context is done.
WorkerExitsOnCancel(w) ==
  /\ closed \/ cancelled
  /\ job[w] = NoTask /\ w \notin exited
  /\ exited' = exited \cup {w}
  /\ UNCHANGED <<loopVars, job, taskVars, driverVars, pending, rec, cancelled>>

\* The range over jobs ends once the channel is closed.
WorkerExits(w) ==
  /\ closed
  /\ job[w] = NoTask /\ w \notin exited
  /\ exited' = exited \cup {w}
  /\ UNCHANGED <<loopVars, job, taskVars, driverVars, pending, rec, cancelled>>

WorkerStep(w) ==
  \/ StartTask(w)
  \/ \E o \in Outcome : RecordOutcome(w, o)
  \/ MarkFinished(w)
  \/ TaskDone(w)
  \/ WorkerExits(w)

-------------------------------------------------------------------------------
(* The goroutine that runs Driver.Run and then, in the controller, Close.   *)

\* runFixed up to wg.Wait: a deadline, a token per worker, a goroutine per
\* logical task.
StartWindow ==
  /\ dpc = "begin"
  /\ dpc' = "loops"
  /\ expired' = FALSE
  /\ tokens' = Capacity
  /\ pc' = [l \in Loop |-> IF l \in Levels[level] THEN "top" ELSE "off"]
  /\ UNCHANGED <<cur, workerVars, taskVars, pending, rec, cancelled, closed, phase, level,
                 timed>>

\* Mutant: wg.Add inside the goroutine, so that one return ends the wait.
DrainAfterOneLoop ==
  /\ dpc = "loops" /\ (\E l \in Levels[level] : pc[l] = "off") /\ pending = 0
  /\ dpc' = "check"
  /\ UNCHANGED <<poolVars, expired, closed, phase, level, timed>>

\* Mutant: the pool is not drained.
SkipDrain ==
  /\ dpc = "loops" /\ \A l \in Loop : pc[l] = "off"
  /\ dpc' = "check"
  /\ UNCHANGED <<poolVars, expired, closed, phase, level, timed>>

\* wg.Wait, then Pool.Drain.
Drain ==
  /\ dpc = "loops" /\ (\A l \in Loop : pc[l] = "off") /\ pending = 0
  /\ dpc' = "check"
  /\ UNCHANGED <<poolVars, expired, closed, phase, level, timed>>

\* Mutant: the levels go on although the context is done.
NextLevelUnchecked ==
  /\ dpc = "check"
  /\ level < Len(Levels)
  /\ level' = level + 1
  /\ dpc' = "begin"
  /\ UNCHANGED <<poolVars, expired, closed, phase, timed>>

\* The next level of runRamp or runStep.
NextLevel ==
  /\ dpc = "check"
  /\ ~cancelled
  /\ level < Len(Levels)
  /\ level' = level + 1
  /\ dpc' = "begin"
  /\ UNCHANGED <<poolVars, expired, closed, phase, timed>>

\* Mutant: Reset forgets a counter.
ResetAllButFailed == [ZeroCounters EXCEPT !["failed"] = rec["failed"]]

\* Recorder.Reset clears every task counter.
AfterReset == ZeroCounters

\* runWithWarmup between its two phases: the context is checked, then the
\* recorder is reset.
EndWarmup ==
  /\ dpc = "check"
  /\ ~cancelled
  /\ phase = "warmup" /\ level = Len(Levels)
  /\ rec' = AfterReset
  /\ phase' = "measurement"
  /\ level' = 1
  /\ dpc' = "begin"
  /\ UNCHANGED <<loopVars, workerVars, taskVars, pending, cancelled, expired, closed, timed>>

\* Driver.Run returns: the last measurement window is over, or the context is
\* done. Only a run that reached the measurement phase has its time recorded.
RunReturns ==
  /\ dpc = "check"
  /\ cancelled \/ (phase = "measurement" /\ level = Len(Levels))
  /\ timed' = (phase = "measurement")
  /\ dpc' = "returned"
  /\ UNCHANGED <<poolVars, expired, closed, phase, level>>

\* The deferred Pool.Close of the controller: mark closed, close jobs.
CloseJobs ==
  /\ dpc = "returned"
  /\ closed' = TRUE
  /\ dpc' = "closing"
  /\ UNCHANGED <<poolVars, expired, phase, level, timed>>

\* wg.Wait, then Close of every worker.
CloseWorkers ==
  /\ dpc = "closing"
  /\ exited = Worker
  /\ dpc' = "closed"
  /\ UNCHANGED <<poolVars, expired, closed, phase, level, timed>>

DriverStep ==
  \/ StartWindow
  \/ Drain
  \/ NextLevel
  \/ EndWarmup
  \/ RunReturns
  \/ CloseJobs
  \/ CloseWorkers

-------------------------------------------------------------------------------
(* Time and the user.                                                       *)

DeadlinePasses ==
  /\ dpc = "loops"
  /\ ~expired
  /\ expired' = TRUE
  /\ UNCHANGED <<poolVars, closed, phase, level, dpc, timed>>

\* SIGINT or SIGTERM, at any time before the run has returned.
Cancel ==
  /\ ~cancelled
  /\ dpc \in {"begin", "loops", "check"}
  /\ cancelled' = TRUE
  /\ UNCHANGED <<loopVars, workerVars, taskVars, driverVars, pending, rec>>

\* The process stays here once Close has returned.
Finished == dpc = "closed" /\ UNCHANGED vars

Next ==
  \/ \E l \in Loop : LoopStep(l)
  \/ \E w \in Worker : WorkerStep(w)
  \/ DriverStep
  \/ DeadlinePasses
  \/ Cancel
  \/ Finished

Spec == Init /\ [][Next]_vars

\* Goroutines that can run do run, time passes, and Worker.Run returns: every
\* wait inside it has a deadline of its own. Cancel is never forced.
Fairness ==
  /\ \A l \in Loop : WF_vars(LoopStep(l))
  /\ \A w \in Worker : WF_vars(WorkerStep(w))
  /\ WF_vars(DriverStep)
  /\ WF_vars(DeadlinePasses)

FairSpec == Spec /\ Fairness

-------------------------------------------------------------------------------
(* Properties.                                                              *)

TypeOK ==
  /\ pc \in [Loop -> {"off", "top", "deadline", "token", "recheck",
                      "submit", "send", "wait"}]
  /\ cur \in [Loop -> Task \cup {NoTask}]
  /\ st \in [Task -> {"unborn", "created", "queued", "started"} \cup Outcome]
  /\ done \in SUBSET Task
  /\ epoch \in [Task -> {"none", "warmup", "measurement"}]
  /\ job \in [Worker -> Task \cup {NoTask}]
  /\ exited \in SUBSET Worker
  /\ tokens \in Nat
  /\ pending \in Int
  /\ rec \in [CounterName -> Int]
  /\ timed \in BOOLEAN /\ expired \in BOOLEAN /\ cancelled \in BOOLEAN /\ closed \in BOOLEAN
  /\ phase \in {"warmup", "measurement"}
  /\ level \in 1..Len(Levels)
  /\ dpc \in {"begin", "loops", "check", "returned", "closing", "closed"}

\* Tasks that Submit has accepted and whose done channel is still open.
InFlight == {t \in Task : st[t] \in {"queued", "started"} \cup Outcome} \ done

\* Loops that hold one of the tokens.
Holders == {l \in Loop : pc[l] \in {"recheck", "submit", "send", "wait"}}

\* The inductive invariant behind the safety properties. Ownership: a task
\* has at most one loop and at most one worker, and how far it has come tells
\* which of them has it.
LoopHoldsTask ==
  \A l \in Loop :
    /\ cur[l] = NoTask <=> pc[l] \notin {"submit", "send", "wait"}
    /\ pc[l] = "submit" => st[cur[l]] = "created"
    /\ pc[l] = "send" => st[cur[l]] = "queued"
    /\ pc[l] = "wait" => st[cur[l]] \notin {"unborn", "created"}

OneLoop   == \A k, l \in Loop : cur[k] = cur[l] /\ cur[k] # NoTask => k = l
OneWorker == \A v, w \in Worker : job[v] = job[w] /\ job[v] # NoTask => v = w
NotYetSent == \A l \in Loop, w \in Worker : pc[l] = "send" => job[w] # cur[l]
WorkerHoldsTask ==
  \A w \in Worker : job[w] # NoTask => st[job[w]] \notin {"unborn", "created"}
DoneSettled == \A t \in done : st[t] \in Outcome
SettledKept == \A t \in Task : st[t] \in Outcome => t \in done \/ \E w \in Worker : job[w] = t

Ownership == LoopHoldsTask /\ OneLoop /\ OneWorker /\ NotYetSent
             /\ WorkerHoldsTask /\ DoneSettled /\ SettledKept

Unsettled == {t \in Task : st[t] \in {"queued", "started"}}
Running   == {t \in Task : st[t] = "started"}
Owed      == Unsettled \cup {t \in Task : \E w \in Worker : job[w] = t}

\* Accounts: each counter is the size of the set of tasks it stands for.
Accounts ==
  /\ pending = Cardinality(Owed)
  /\ rec.active = Cardinality(Running)
  /\ rec.created = rec.complete + rec.failed + Cardinality(Unsettled)

\* Phases: outside wg.Wait no loop lives, and between the windows and after
\* the run nothing is pending.
Phases ==
  /\ dpc # "loops" => pending = 0 /\ \A l \in Loop : pc[l] = "off"
  /\ closed <=> dpc \in {"closing", "closed"}

IInv == TypeOK /\ Ownership /\ Accounts /\ Phases

\* The counters of the Recorder are exact at every moment: they count the
\* tasks submitted since the last Reset, none of an earlier phase, and
\* tasksActive counts the tasks inside Worker.Run, whatever was reset.
CountersExact ==
  LET mine == {t \in Task : epoch[t] = phase}
  IN  /\ rec.created = Cardinality(mine)
      /\ rec.queued = rec.created
      /\ rec.complete = Cardinality({t \in mine : st[t] = "ok"})
      /\ rec.failed = Cardinality({t \in mine : st[t] = "err"})
      /\ rec.active = Cardinality({t \in Task : st[t] = "started"})

\* The token channel never loses or gains a value: a loop that stops, for
\* whatever reason, has put its token back, and no send on tokens can block.
TokensConserved == dpc = "loops" => tokens + Cardinality(Holders) = Capacity

\* Never more unfinished tasks than loops in the window, and, until the run
\* is cancelled, never more than workers: a submitted task finds a worker.
InFlightBounded ==
  /\ Cardinality(InFlight) <= Cardinality(Levels[level])
  /\ ~cancelled => Cardinality(InFlight) <= Cardinality(Worker)

\* When Driver.Run returns, cancelled or not, every task it created has been
\* counted as completed or failed and none is running: the drain works.
ReturnedAccounts ==
  dpc \in {"returned", "closing", "closed"} =>
    /\ rec.created = rec.complete + rec.failed
    /\ rec.active = 0

\* Pool.Close finds no submitter and no running task: the send in Submit can
\* not hit the closed channel and no worker is closed under a task.
NoUseAfterClose ==
  closed => /\ \A l \in Loop : pc[l] = "off"
            /\ \A w \in Worker : job[w] = NoTask

\* TaskCancelled counts loops, each at most once: the windows after the one
\* that met the cancellation never start.
CancelledOnce == rec.cancelled <= Cardinality(Levels[level])

\* A new window, and in particular Reset, finds the pool silent: no loop of
\* the old window is left and none of its tasks can still be recorded.
WindowsSeparated ==
  [][<<phase, level>>' # <<phase, level>> =>
       InFlight = {} /\ pending = 0 /\ \A l \in Loop : pc[l] = "off"]_vars

\* The run implements the ledger of TaskLedger: the tasks of an earlier phase
\* are the discarded ones, and the report is what the counters say on return.
HasReturned == dpc \in {"returned", "closing", "closed"}

StatusOf(t) ==
  IF epoch[t] = "none" THEN "unborn"
  ELSE IF epoch[t] # phase THEN "discarded"
  ELSE IF st[t] \in Outcome THEN st[t] ELSE "accepted"

Ledger == INSTANCE TaskLedger WITH
  NoReport <- NoTask,
  status   <- [t \in Task |-> StatusOf(t)],
  window   <- IF HasReturned THEN "closed" ELSE phase,
  report   <- IF HasReturned
              THEN [created  |-> rec.created,
                    complete |-> rec.complete,
                    failed   |-> rec.failed]
              ELSE NoTask

ImplementsLedger == Ledger!Spec

\* The run always ends, and a cancellation cannot leave a loop waiting for a
\* token, a submitter for a worker or Close for a worker goroutine.
Terminates == <>(dpc = "closed")

\* A task that was accepted is run and its done channel closed, even when its
\* loop has abandoned it.
SubmittedFinish == \A t \in Task : st[t] = "queued" ~> t \in done

-------------------------------------------------------------------------------
(* What the repository says and a cancelled run does not do.               *)

\* "at most workerCount tasks in flight" (driver.go:117), without exception.
AlwaysWithinWorkers == Cardinality(InFlight) <= Cardinality(Worker)

\* "Warmup samples never enter the summary" (docs/architecture.md:61-62): what
\* the Recorder holds when Driver.Run returns is what the controller summarises
\* (controller.go:243-262), and it counts tasks only of a measurement.
WarmupDiscarded == HasReturned => rec.created = 0 \/ timed

\* Every run keeps one of the two promises throughout. A run that breaks this
\* has broken both.
CancelledAsDocumented == []AlwaysWithinWorkers \/ []WarmupDiscarded
===============================================================================
