------------------------------- MODULE BenchRun -------------------------------
(***************************************************************************)
(* One benchmark run as internal/controller orchestrates it: start the       *)
(* browser side of the scenario, build the workers one after the other, run *)
(* the driver, save what it recorded, undo everything in the reverse order   *)
(* of the defers. Any set-up step can fail and a signal can arrive anywhere.*)
(*                                                                         *)
(* The driver and the pool are those of TaskLedger, which ClosedLoop         *)
(* implements: this module adds the processes the tasks need.               *)
(***************************************************************************)
EXTENDS Integers, FiniteSets

CONSTANTS
  Kind,      \* the scenarios of the run: some of "http" (no browser), "perTask"
             \* (headed, headless), "pooled" (persistent-contexts, hybrid), "cdp"
  NWorkers,  \* workerLimit
  Task,      \* the tasks of the run: their number bounds it
  NoTask     \* an idle worker; also the report before there is one

ASSUME BenchRunAssumption ==
  /\ Kind \subseteq {"http", "perTask", "pooled", "cdp"} /\ Kind # {}
  /\ NWorkers \in Nat \ {0}
  /\ IsFiniteSet(Task) /\ NoTask \notin Task

VARIABLES
  kind,       \* the scenario of this run
  stage,      \* where controller.Run is
  built,      \* the workers built so far: 1..built
  spawned,    \* the Chromium of the worker being built is up
  attached,   \* Pool.SetWorkers has been called
  pw,         \* the Playwright driver: "off", "up" or "stopped"
  chrome,     \* the workers whose Chromium, launched by the driver, is up
  raw,        \* the workers whose raw Chromium (cdp) is up
  running,    \* the task each worker executes
  cancelled,  \* the run context is done
  timed,      \* SetMeasurementElapsed has been called
  verdict,    \* the local variable cancelled, read after the driver returned
  saved,      \* the report WriteRun and WriteSummary have put on disk
  exit,       \* how the run ended
  status, window, report    \* the task ledger: driver, pool and recorder

Worker == 1..NWorkers

Ledger == INSTANCE TaskLedger WITH NoReport <- NoTask

ledgerVars == <<status, window, report>>
setupVars  == <<kind, built, spawned, attached>>
procVars   == <<pw, chrome, raw>>
resultVars == <<timed, verdict, saved, exit>>
vars == <<stage, setupVars, procVars, running, cancelled, resultVars, ledgerVars>>

Init ==
  /\ kind \in Kind /\ stage = "start"
  /\ built = 0 /\ spawned = FALSE /\ attached = FALSE
  /\ pw = "off" /\ chrome = {} /\ raw = {}
  /\ running = [w \in Worker |-> NoTask]
  /\ cancelled = FALSE /\ timed = FALSE /\ verdict = FALSE
  /\ saved = NoTask /\ exit = "none"
  /\ Ledger!Init

-------------------------------------------------------------------------------
(* Set-up, before the signal handler is installed.                          *)

\* Nothing to start for http; browser.NewManager or playwright.Run otherwise.
StartDriver ==
  /\ stage = "start"
  /\ stage' = "build"
  /\ pw' = IF kind = "http" THEN "off" ELSE "up"
  /\ UNCHANGED <<setupVars, chrome, raw, running, cancelled, resultVars, ledgerVars>>

StartDriverFails ==
  /\ stage = "start" /\ kind # "http"
  /\ stage' = "closePool" /\ exit' = "error"
  /\ UNCHANGED <<setupVars, procVars, running, cancelled, timed, verdict, saved, ledgerVars>>

\* The Chromium of the next worker: launched by the driver for a context pool,
\* spawned directly for cdp.
SpawnBrowser ==
  /\ stage = "build" /\ built < NWorkers /\ ~spawned
  /\ kind \in {"pooled", "cdp"}
  /\ spawned' = TRUE
  /\ IF kind = "cdp"
     THEN raw' = raw \cup {built + 1} /\ UNCHANGED chrome
     ELSE chrome' = chrome \cup {built + 1} /\ UNCHANGED raw
  /\ UNCHANGED <<stage, kind, built, attached, pw, running, cancelled, resultVars, ledgerVars>>

\* The port is there, the connection is up, the contexts are created.
BuildWorker ==
  /\ stage = "build" /\ built < NWorkers
  /\ spawned \/ kind \in {"http", "perTask"}
  /\ built' = built + 1 /\ spawned' = FALSE
  /\ UNCHANGED <<stage, kind, attached, procVars, running, cancelled, resultVars, ledgerVars>>

\* Launch, waitForPort, ConnectOverCDP or a NewContext fails: the browser of
\* this worker is closed or killed, and Run returns.
BuildFails ==
  /\ stage = "build" /\ built < NWorkers /\ kind \in {"pooled", "cdp"}
  /\ spawned' = FALSE
  /\ chrome' = chrome \ {built + 1} /\ raw' = raw \ {built + 1}
  /\ stage' = "stopDriver" /\ exit' = "error"
  /\ UNCHANGED <<kind, built, attached, pw, running, cancelled, timed, verdict, saved, ledgerVars>>

\* SetWorkers, signal.Notify, the telemetry goroutines.
AttachWorkers ==
  /\ stage = "build" /\ built = NWorkers
  /\ attached' = TRUE
  /\ stage' = "run"
  /\ UNCHANGED <<kind, built, spawned, procVars, running, cancelled, resultVars, ledgerVars>>

-------------------------------------------------------------------------------
(* The driver runs.                                                         *)

\* Pool.Submit.
Accept(t) ==
  /\ stage = "run" /\ Ledger!Accept(t)
  /\ UNCHANGED <<stage, setupVars, procVars, running, cancelled, resultVars>>

\* Worker.Run begins; a headed or headless task starts its own Chromium.
StartTask(w, t) ==
  /\ stage = "run" /\ running[w] = NoTask
  /\ status[t] = "accepted" /\ \A v \in Worker : running[v] # t
  /\ running' = [running EXCEPT ![w] = t]
  /\ UNCHANGED <<stage, setupVars, procVars, cancelled, resultVars, ledgerVars>>

LaunchForTask(w) ==
  /\ stage = "run" /\ running[w] # NoTask
  /\ kind = "perTask" /\ w \notin chrome
  /\ chrome' = chrome \cup {w}
  /\ UNCHANGED <<stage, setupVars, pw, raw, running, cancelled, resultVars, ledgerVars>>

\* Mutant: browser.Close is skipped on the error path.
EndTaskLeaking(w, o) ==
  /\ stage = "run" /\ running[w] # NoTask
  /\ kind = "perTask" /\ w \notin chrome => o = "err"
  /\ Ledger!Settle(running[w], o)
  /\ running' = [running EXCEPT ![w] = NoTask]
  /\ chrome' = IF kind = "perTask" /\ o = "ok" THEN chrome \ {w} ELSE chrome
  /\ UNCHANGED <<stage, setupVars, pw, raw, cancelled, resultVars>>

\* Mutant: a task that fails is not settled.
EndTaskUnsettled(w, o) ==
  /\ stage = "run" /\ running[w] # NoTask
  /\ kind = "perTask" /\ w \notin chrome => o = "err"
  /\ IF o = "err" THEN UNCHANGED ledgerVars ELSE Ledger!Settle(running[w], o)
  /\ running' = [running EXCEPT ![w] = NoTask]
  /\ chrome' = IF kind = "perTask" THEN chrome \ {w} ELSE chrome
  /\ UNCHANGED <<stage, setupVars, pw, raw, cancelled, resultVars>>

\* Worker.Run returns: the deferred Close of a task's own browser runs on
\* every path, and a launch that failed is the error of the task.
EndTask(w, o) ==
  /\ stage = "run" /\ running[w] # NoTask
  /\ kind = "perTask" /\ w \notin chrome => o = "err"
  /\ Ledger!Settle(running[w], o)
  /\ running' = [running EXCEPT ![w] = NoTask]
  /\ chrome' = IF kind = "perTask" THEN chrome \ {w} ELSE chrome
  /\ UNCHANGED <<stage, setupVars, pw, raw, cancelled, resultVars>>

\* The reset after the warmup, which a cancelled run does not reach.
EndWarmup ==
  /\ stage = "run" /\ ~cancelled /\ Ledger!Boundary
  /\ UNCHANGED <<stage, setupVars, procVars, running, cancelled, resultVars>>

\* Mutant: the run does not wait for the tasks that are still running.
ReturnUndrained ==
  /\ stage = "run" /\ (window = "measurement" \/ cancelled)
  /\ stage' = "verdict" /\ window' = "closed"
  /\ report' = [created |-> Cardinality(Ledger!Accepted),
                complete |-> Cardinality(Ledger!WithStatus("ok")),
                failed |-> Cardinality(Ledger!WithStatus("err"))]
  /\ timed' = (window = "measurement")
  /\ UNCHANGED <<status, setupVars, procVars, running, cancelled, verdict, saved, exit>>

DriverReturns ==
  /\ stage = "run" /\ (window = "measurement" \/ cancelled)
  /\ Ledger!Finish
  /\ stage' = "verdict"
  /\ timed' = (window = "measurement")
  /\ UNCHANGED <<setupVars, procVars, running, cancelled, verdict, saved, exit>>

\* A mode Driver.Run does not know, or no logical task at all: an error before
\* any task, in the first window or, with the mode, in none.
DriverRefuses ==
  /\ stage = "run" /\ \A t \in Task : status[t] = "unborn"
  /\ Ledger!Finish
  /\ stage' = "refused"
  /\ timed' \in {FALSE, window = "measurement"}
  /\ UNCHANGED <<setupVars, procVars, running, cancelled, verdict, saved, exit>>

-------------------------------------------------------------------------------
(* Results.                                                                 *)

NeverCancelled == FALSE   \* mutant: the context is not looked at

WasCancelled == cancelled

\* The telemetry goroutines are stopped and the context is read, once. A driver
\* that refused ends the run here, unless the run is cancelled as well: then it
\* is saved like any other.
ReadVerdict ==
  /\ stage \in {"verdict", "refused"}
  /\ verdict' = WasCancelled
  /\ \/ /\ stage = "verdict" \/ WasCancelled
        /\ stage' = "save" /\ UNCHANGED exit
     \/ /\ stage = "refused" /\ ~WasCancelled
        /\ stage' = "stopDriver" /\ exit' = "error"
  /\ UNCHANGED <<setupVars, procVars, running, cancelled, timed, saved, ledgerVars>>

\* Mutant: a cancelled run is not persisted.
SaveComplete ==
  /\ stage = "save"
  /\ saved' = IF verdict THEN NoTask ELSE report
  /\ exit' = IF verdict THEN "cancelled" ELSE "summary"
  /\ stage' = "stopDriver"
  /\ UNCHANGED <<setupVars, procVars, running, cancelled, timed, verdict, ledgerVars>>

Save ==
  /\ stage = "save"
  /\ saved' = report
  /\ exit' = IF verdict THEN "cancelled" ELSE "summary"
  /\ stage' = "stopDriver"
  /\ UNCHANGED <<setupVars, procVars, running, cancelled, timed, verdict, ledgerVars>>

\* WriteRun or WriteSummary fails.
SaveFails ==
  /\ stage = "save"
  /\ exit' = "error"
  /\ stage' = "stopDriver"
  /\ UNCHANGED <<setupVars, procVars, running, cancelled, timed, verdict, saved, ledgerVars>>

-------------------------------------------------------------------------------
(* The defers, last in first out.                                           *)

\* Manager.Close or pw.Stop: the driver takes the browsers it launched along.
StopDriver ==
  /\ stage = "stopDriver"
  /\ pw' = IF pw = "up" THEN "stopped" ELSE pw
  /\ chrome' = {}
  /\ stage' = "closePool"
  /\ UNCHANGED <<setupVars, raw, running, cancelled, resultVars, ledgerVars>>

\* Mutant: Worker.Close of cdp only drops the connection.
ClosePoolConnections ==
  /\ stage = "closePool"
  /\ stage' = "done"
  /\ UNCHANGED <<setupVars, procVars, running, cancelled, resultVars, ledgerVars>>

\* Pool.Close closes the workers it was given; for cdp that kills Chromium.
ClosePool ==
  /\ stage = "closePool"
  /\ raw' = IF attached THEN {} ELSE raw
  /\ stage' = "done"
  /\ UNCHANGED <<setupVars, pw, chrome, running, cancelled, resultVars, ledgerVars>>

-------------------------------------------------------------------------------
(* Signals.                                                                 *)

\* Between signal.Notify and signal.Stop: the first one cancels the run. It
\* can come after the driver has returned, before or after the verdict.
Interrupt ==
  /\ stage \in {"run", "verdict", "refused", "save"} /\ ~cancelled
  /\ cancelled' = TRUE
  /\ UNCHANGED <<stage, setupVars, procVars, running, resultVars, ledgerVars>>

\* Elsewhere nothing handles it: the process dies with its defers undone. The
\* Playwright driver goes with it, a raw Chromium has its own process group.
Killed ==
  /\ stage \in {"start", "build", "stopDriver", "closePool"}
  /\ stage' = "done" /\ exit' = "killed"
  /\ pw' = IF pw = "up" THEN "stopped" ELSE pw
  /\ chrome' = {}
  /\ UNCHANGED <<setupVars, raw, running, cancelled, timed, verdict, saved, ledgerVars>>

Ended == stage = "done" /\ UNCHANGED vars

Progress ==
  \/ StartDriver \/ StartDriverFails
  \/ SpawnBrowser \/ BuildWorker \/ BuildFails \/ AttachWorkers
  \/ EndWarmup \/ DriverReturns \/ DriverRefuses \/ ReadVerdict \/ Save \/ SaveFails
  \/ StopDriver \/ ClosePool

TaskStep(w) ==
  \/ \E t \in Task : StartTask(w, t)
  \/ \E o \in Ledger!Outcome : EndTask(w, o)

Next ==
  \/ Progress
  \/ \E t \in Task : Accept(t)
  \/ \E w \in Worker : TaskStep(w) \/ LaunchForTask(w)
  \/ Interrupt
  \/ Killed
  \/ Ended

Spec == Init /\ [][Next]_vars

\* The controller goroutine runs, workers run and their tasks end: what
\* ClosedLoop proves and checks about the driver.
FairSpec == Spec /\ WF_vars(Progress) /\ \A w \in Worker : WF_vars(TaskStep(w))

-------------------------------------------------------------------------------
(* Properties.                                                              *)

Report == [created : Nat, complete : Nat, failed : Nat]

TypeOK ==
  /\ kind \in Kind
  /\ stage \in {"start", "build", "run", "verdict", "refused", "save", "stopDriver",
               "closePool", "done"}
  /\ built \in 0..NWorkers /\ spawned \in BOOLEAN /\ attached \in BOOLEAN
  /\ pw \in {"off", "up", "stopped"}
  /\ chrome \in SUBSET Worker /\ raw \in SUBSET Worker
  /\ running \in [Worker -> Task \cup {NoTask}]
  /\ cancelled \in BOOLEAN /\ timed \in BOOLEAN /\ verdict \in BOOLEAN
  /\ saved \in Report \cup {NoTask} /\ report \in Report \cup {NoTask}
  /\ exit \in {"none", "summary", "cancelled", "error", "killed"}
  /\ status \in [Task -> {"unborn", "accepted", "discarded"} \cup Ledger!Outcome]
  /\ window \in {"warmup", "measurement", "closed"}

\* What a task runs on outlives it: the Playwright driver and the browser of
\* its worker are up as long as the task is with the worker.
InfrastructureUp ==
  \A w \in Worker : running[w] # NoTask =>
    /\ kind # "http" => pw = "up"
    /\ kind = "pooled" => w \in chrome
    /\ kind = "cdp" => w \in raw

\* A headed or headless task takes its Chromium down with it, on the error
\* paths too: there are never more browsers than busy workers.
TaskBrowserClosed ==
  kind = "perTask" => \A w \in chrome : running[w] # NoTask

\* A run that returns after its workers were attached leaves no Chromium
\* behind, whether it finished, failed or was cancelled; and one that fails
\* while it builds a worker leaves no Chromium of that worker.
NoChromiumAfterRun ==
  stage = "done" /\ exit # "killed" =>
    chrome = {} /\ (attached => raw = {}) /\ built + 1 \notin raw

\* "Cancellation (Ctrl+C): partial results persist" (docs/benchmark-protocol.md:124):
\* a run that returns without an error has saved the report of its last
\* window, all of whose tasks are settled.
ResultsPersist ==
  exit \in {"summary", "cancelled"} =>
    saved = report /\ saved.created = saved.complete + saved.failed

\* "exit code is nonzero": a run that was cut short never reports success.
CancellationReported ==
  [](stage \in {"verdict", "refused"} /\ cancelled => [](exit # "summary"))

\* A run always ends, and so does its teardown.
RunEnds == <>(stage = "done")

\* The inductive invariant behind the state properties above. What is up at
\* each stage of the run:
Up == 1..(IF spawned THEN built + 1 ELSE built)

SetUp ==
  /\ stage = "start" => built = 0 /\ ~spawned /\ pw = "off" /\ chrome = {} /\ raw = {}
  /\ stage = "build" => /\ spawned => built < NWorkers
                        /\ chrome = (IF kind = "pooled" THEN Up ELSE {})
                        /\ raw = (IF kind = "cdp" THEN Up ELSE {})
  /\ stage \in {"build", "run"} /\ kind # "http" => pw = "up"
  /\ stage = "run" => /\ kind = "pooled" => chrome = Worker
                      /\ kind = "cdp" => raw = Worker

TornDown ==
  /\ attached => stage \notin {"start", "build"}
  /\ stage \in {"run", "verdict", "refused", "save"} => attached /\ built = NWorkers
  /\ stage \in {"closePool", "done"} => chrome = {}
  /\ exit = "killed" => stage = "done"
  /\ stage \in {"stopDriver", "closePool", "done"} /\ exit # "killed" =>
       built + 1 \notin raw
  /\ stage = "done" /\ exit # "killed" /\ attached => raw = {}

\* Each task has at most one worker, only while it is accepted, and only while
\* the driver runs.
OneRunner ==
  \A w \in Worker : running[w] # NoTask =>
    /\ stage = "run" /\ status[running[w]] = "accepted"
    /\ \A v \in Worker : running[v] = running[w] => v = w

Reported ==
  /\ window = "closed" => report \in Report /\ report.created = report.complete + report.failed
  /\ stage \in {"verdict", "refused", "save"} => window = "closed" /\ exit = "none"
  /\ exit \in {"summary", "cancelled"} => window = "closed" /\ saved = report
  /\ stage \in {"start", "build", "run"} => window # "closed" /\ exit = "none"

IInv == TypeOK /\ SetUp /\ TornDown /\ OneRunner /\ Reported /\ TaskBrowserClosed

\* "No orphan Chromium processes after any run." (docs/benchmark-protocol.md:125)
NoOrphans == stage = "done" /\ exit # "killed" => chrome = {} /\ raw = {}
===============================================================================
