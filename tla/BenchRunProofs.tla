---------------------------- MODULE BenchRunProofs ----------------------------
(***************************************************************************)
(* Proofs about BenchRun, for every number of workers and every finite set  *)
(* of tasks: the inductive invariant IInv and what follows from it about    *)
(* the processes a run starts and the results it leaves.                    *)
(***************************************************************************)
EXTENDS BenchRun, FiniteSetTheorems, TLAPS

USE DEF Worker

\* The cardinality TaskLedger takes from FiniteSets is that of FiniteSets.
LEMMA SameCardinality ==
  \A S : Ledger!Cardinality(S) = Cardinality(S)
BY DEF Ledger!Cardinality, Cardinality

\* When nothing is in flight the window's tasks are those that went well and
\* those that failed: the report of Finish adds up.
LEMMA FinishAddsUp ==
  ASSUME TypeOK, Ledger!Finish
  PROVE  /\ report' \in Report
         /\ report'.created = report'.complete + report'.failed
<1> DEFINE Good == Ledger!WithStatus("ok")
           Bad  == Ledger!WithStatus("err")
<1>1. IsFiniteSet(Good) /\ IsFiniteSet(Bad)
  <2>1. Good \subseteq Task /\ Bad \subseteq Task
    BY DEF Ledger!WithStatus
  <2> QED BY <2>1, FS_Subset, BenchRunAssumption
<1>2. Good \cap Bad = {}
  BY DEF Ledger!WithStatus
<1>3. Ledger!Accepted = Good \cup Bad
  BY DEF Ledger!Finish, Ledger!Accepted, Ledger!WithStatus, Ledger!Outcome
<1>4. /\ Cardinality(Good \cup Bad)
           = Cardinality(Good) + Cardinality(Bad) - Cardinality(Good \cap Bad)
      /\ IsFiniteSet(Good \cup Bad)
  BY <1>1, FS_Union
<1>5. Cardinality(Good \cap Bad) = 0
  BY <1>2, FS_EmptySet
<1>6. /\ Cardinality(Good) \in Nat
      /\ Cardinality(Bad) \in Nat
      /\ Cardinality(Good \cup Bad) \in Nat
  BY <1>1, <1>4, FS_CardinalityType
<1>7. report' = [created |-> Cardinality(Good \cup Bad),
                 complete |-> Cardinality(Good),
                 failed |-> Cardinality(Bad)]
  BY <1>3, SameCardinality DEF Ledger!Finish
<1> HIDE DEF Good, Bad
<1> QED BY <1>4, <1>5, <1>6, <1>7 DEF Report

\* While nothing is in flight no worker is busy.
LEMMA IdleWhenSettled ==
  ASSUME TypeOK, OneRunner, Ledger!WithStatus("accepted") = {}
  PROVE  \A w \in Worker : running[w] = NoTask
BY DEF TypeOK, OneRunner, Ledger!WithStatus

LEMMA InitIInv == Init => IInv
<1> SUFFICES ASSUME Init PROVE IInv
  OBVIOUS
<1> USE BenchRunAssumption
<1>1. TypeOK
  <2>1. built \in 0..NWorkers
    BY DEF Init
  <2>2. running \in [Worker -> Task \cup {NoTask}] /\ window \in {"warmup", "measurement", "closed"}
    BY DEF Init, Ledger!Init
  <2>3. status \in [Task -> {"unborn", "accepted", "discarded"} \cup Ledger!Outcome]
    BY DEF Init, Ledger!Init
  <2>4. saved \in Report \cup {NoTask} /\ report \in Report \cup {NoTask}
    BY DEF Init, Ledger!Init
  <2> QED BY <2>1, <2>2, <2>3, <2>4, Zenon DEF Init, TypeOK
<1>2. SetUp /\ TornDown
  BY DEF Init, SetUp, TornDown
<1>3. OneRunner /\ Reported /\ TaskBrowserClosed
  BY DEF Init, OneRunner, Reported, TaskBrowserClosed, Ledger!Init
<1> QED BY <1>1, <1>2, <1>3 DEF IInv

LEMMA StepIInv == IInv /\ [Next]_vars => IInv'
<1> SUFFICES ASSUME IInv, [Next]_vars PROVE IInv'
  OBVIOUS
<1> USE BenchRunAssumption DEF IInv, setupVars, procVars, resultVars, ledgerVars
<1>1. ASSUME StartDriver PROVE IInv'
  <2>1. TypeOK'
    BY <1>1 DEF StartDriver, TypeOK, Report
  <2>2. SetUp'
    BY <1>1 DEF StartDriver, TypeOK, SetUp, Up
  <2>3. TornDown'
    BY <1>1 DEF StartDriver, TypeOK, TornDown
  <2>4. OneRunner'
    BY <1>1 DEF StartDriver, TypeOK, OneRunner
  <2>5. Reported'
    BY <1>1 DEF StartDriver, TypeOK, Reported
  <2>6. TaskBrowserClosed'
    BY <1>1 DEF StartDriver, TypeOK, TaskBrowserClosed
  <2> QED BY <2>1, <2>2, <2>3, <2>4, <2>5, <2>6
<1>2. ASSUME StartDriverFails PROVE IInv'
  <2>1. TypeOK'
    BY <1>2 DEF StartDriverFails, TypeOK, Report
  <2>2. SetUp'
    BY <1>2 DEF StartDriverFails, TypeOK, SetUp, Up
  <2>3. TornDown'
    BY <1>2 DEF StartDriverFails, TypeOK, SetUp, TornDown
  <2>4. OneRunner'
    BY <1>2 DEF StartDriverFails, TypeOK, OneRunner
  <2>5. Reported'
    BY <1>2 DEF StartDriverFails, TypeOK, Reported
  <2>6. TaskBrowserClosed'
    BY <1>2 DEF StartDriverFails, TypeOK, TaskBrowserClosed
  <2> QED BY <2>1, <2>2, <2>3, <2>4, <2>5, <2>6
<1>3. ASSUME SpawnBrowser PROVE IInv'
  <2>0. built + 1 \in Worker
    BY <1>3 DEF SpawnBrowser, TypeOK
  <2>1. TypeOK'
    <3>1. chrome' \in SUBSET Worker /\ raw' \in SUBSET Worker
      BY <1>3, <2>0 DEF SpawnBrowser, TypeOK
    <3>2. /\ spawned' = TRUE
          /\ stage' = stage /\ kind' = kind /\ built' = built /\ attached' = attached
          /\ pw' = pw /\ running' = running /\ cancelled' = cancelled /\ timed' = timed
          /\ verdict' = verdict /\ saved' = saved /\ exit' = exit /\ status' = status
          /\ window' = window /\ report' = report
      BY <1>3 DEF SpawnBrowser
    <3> QED BY <3>1, <3>2 DEF TypeOK, Report, Ledger!Outcome
  <2>2. SetUp'
    <3>1. Up = 1..built /\ Up' = 1..(built + 1) /\ Up' = Up \cup {built + 1}
      BY <1>3 DEF SpawnBrowser, TypeOK, Up
    <3> QED BY <1>3, <3>1 DEF SpawnBrowser, TypeOK, SetUp
  <2>3. TornDown'
    BY <1>3 DEF SpawnBrowser, TypeOK, TornDown
  <2>4. OneRunner'
    BY <1>3 DEF SpawnBrowser, TypeOK, OneRunner
  <2>5. Reported'
    BY <1>3 DEF SpawnBrowser, TypeOK, Reported
  <2>6. TaskBrowserClosed'
    BY <1>3 DEF SpawnBrowser, TypeOK, TaskBrowserClosed
  <2> QED BY <2>1, <2>2, <2>3, <2>4, <2>5, <2>6
<1>4. ASSUME BuildWorker PROVE IInv'
  <2>1. TypeOK'
    <3>1. built' \in 0..NWorkers
      BY <1>4 DEF BuildWorker, TypeOK
    <3>2. /\ spawned' = FALSE
          /\ stage' = stage /\ kind' = kind /\ attached' = attached /\ pw' = pw
          /\ chrome' = chrome /\ raw' = raw /\ running' = running /\ cancelled' = cancelled
          /\ timed' = timed /\ verdict' = verdict /\ saved' = saved /\ exit' = exit
          /\ status' = status /\ window' = window /\ report' = report
      BY <1>4 DEF BuildWorker
    <3>3. /\ kind' \in Kind /\ spawned' \in BOOLEAN /\ attached' \in BOOLEAN
          /\ chrome' \in SUBSET Worker /\ raw' \in SUBSET Worker
          /\ running' \in [Worker -> Task \cup {NoTask}]
          /\ cancelled' \in BOOLEAN /\ timed' \in BOOLEAN /\ verdict' \in BOOLEAN
      BY <3>2, Zenon DEF TypeOK
    <3> QED BY <3>1, <3>2, <3>3 DEF TypeOK, Report, Ledger!Outcome
  <2>2. SetUp'
    BY <1>4 DEF BuildWorker, TypeOK, SetUp, Up
  <2>3. TornDown'
    BY <1>4 DEF BuildWorker, TypeOK, TornDown
  <2>4. OneRunner'
    BY <1>4 DEF BuildWorker, TypeOK, OneRunner
  <2>5. Reported'
    BY <1>4 DEF BuildWorker, TypeOK, Reported
  <2>6. TaskBrowserClosed'
    BY <1>4 DEF BuildWorker, TypeOK, TaskBrowserClosed
  <2> QED BY <2>1, <2>2, <2>3, <2>4, <2>5, <2>6
<1>5. ASSUME BuildFails PROVE IInv'
  <2>1. TypeOK'
    BY <1>5 DEF BuildFails, TypeOK, Report
  <2>2. SetUp'
    BY <1>5 DEF BuildFails, TypeOK, SetUp, Up
  <2>3. TornDown'
    BY <1>5 DEF BuildFails, TypeOK, TornDown
  <2>4. OneRunner'
    BY <1>5 DEF BuildFails, TypeOK, OneRunner
  <2>5. Reported'
    BY <1>5 DEF BuildFails, TypeOK, Reported
  <2>6. TaskBrowserClosed'
    BY <1>5 DEF BuildFails, TypeOK, TaskBrowserClosed
  <2> QED BY <2>1, <2>2, <2>3, <2>4, <2>5, <2>6
<1>6. ASSUME AttachWorkers PROVE IInv'
  <2>1. TypeOK'
    BY <1>6 DEF AttachWorkers, TypeOK, Report
  <2>2. SetUp'
    BY <1>6 DEF AttachWorkers, TypeOK, SetUp, Up
  <2>3. TornDown'
    BY <1>6 DEF AttachWorkers, TypeOK, TornDown
  <2>4. OneRunner'
    BY <1>6 DEF AttachWorkers, TypeOK, OneRunner
  <2>5. Reported'
    BY <1>6 DEF AttachWorkers, TypeOK, Reported
  <2>6. TaskBrowserClosed'
    BY <1>6 DEF AttachWorkers, TypeOK, TaskBrowserClosed
  <2> QED BY <2>1, <2>2, <2>3, <2>4, <2>5, <2>6
<1>7. ASSUME NEW t \in Task, Accept(t) PROVE IInv'
  <2>1. TypeOK'
    BY <1>7 DEF Accept, Ledger!Accept, Ledger!Outcome, TypeOK, Report
  <2>2. SetUp'
    BY <1>7 DEF Accept, Ledger!Accept, Ledger!Outcome, TypeOK, SetUp, Up
  <2>3. TornDown'
    BY <1>7 DEF Accept, Ledger!Accept, Ledger!Outcome, TypeOK, TornDown
  <2>4. OneRunner'
    BY <1>7 DEF Accept, Ledger!Accept, Ledger!Outcome, TypeOK, OneRunner
  <2>5. Reported'
    BY <1>7 DEF Accept, Ledger!Accept, Ledger!Outcome, TypeOK, Reported
  <2>6. TaskBrowserClosed'
    BY <1>7 DEF Accept, Ledger!Accept, Ledger!Outcome, TypeOK, TaskBrowserClosed
  <2> QED BY <2>1, <2>2, <2>3, <2>4, <2>5, <2>6
<1>8. ASSUME NEW w \in Worker, NEW t \in Task, StartTask(w, t) PROVE IInv'
  <2>1. TypeOK'
    BY <1>8 DEF StartTask, TypeOK, Report
  <2>2. SetUp'
    BY <1>8 DEF StartTask, TypeOK, SetUp, Up
  <2>3. TornDown'
    BY <1>8 DEF StartTask, TypeOK, TornDown
  <2>4. OneRunner'
    BY <1>8 DEF StartTask, TypeOK, OneRunner
  <2>5. Reported'
    BY <1>8 DEF StartTask, TypeOK, Reported
  <2>6. TaskBrowserClosed'
    BY <1>8 DEF StartTask, TypeOK, TaskBrowserClosed
  <2> QED BY <2>1, <2>2, <2>3, <2>4, <2>5, <2>6
<1>9. ASSUME NEW w \in Worker, LaunchForTask(w) PROVE IInv'
  <2>1. TypeOK'
    BY <1>9 DEF LaunchForTask, TypeOK, Report
  <2>2. SetUp'
    BY <1>9 DEF LaunchForTask, TypeOK, SetUp, Up
  <2>3. TornDown'
    BY <1>9 DEF LaunchForTask, TypeOK, TornDown
  <2>4. OneRunner'
    BY <1>9 DEF LaunchForTask, TypeOK, OneRunner
  <2>5. Reported'
    BY <1>9 DEF LaunchForTask, TypeOK, Reported
  <2>6. TaskBrowserClosed'
    BY <1>9 DEF LaunchForTask, TypeOK, TaskBrowserClosed
  <2> QED BY <2>1, <2>2, <2>3, <2>4, <2>5, <2>6
<1>10. ASSUME NEW w \in Worker, NEW o \in Ledger!Outcome, EndTask(w, o) PROVE IInv'
  <2>1. TypeOK'
    BY <1>10 DEF EndTask, Ledger!Settle, Ledger!Outcome, TypeOK, Report
  <2>2. SetUp'
    BY <1>10 DEF EndTask, Ledger!Settle, Ledger!Outcome, TypeOK, SetUp, Up
  <2>3. TornDown'
    BY <1>10 DEF EndTask, Ledger!Settle, Ledger!Outcome, TypeOK, TornDown
  <2>4. OneRunner'
    BY <1>10 DEF EndTask, Ledger!Settle, Ledger!Outcome, TypeOK, OneRunner
  <2>5. Reported'
    BY <1>10 DEF EndTask, Ledger!Settle, Ledger!Outcome, TypeOK, Reported
  <2>6. TaskBrowserClosed'
    BY <1>10 DEF EndTask, Ledger!Settle, Ledger!Outcome, TypeOK, TaskBrowserClosed
  <2> QED BY <2>1, <2>2, <2>3, <2>4, <2>5, <2>6
<1>11. ASSUME EndWarmup PROVE IInv'
  <2>1. TypeOK'
    BY <1>11 DEF EndWarmup, Ledger!Boundary, Ledger!Outcome, Ledger!Accepted, TypeOK, Report
  <2>2. SetUp'
    BY <1>11 DEF EndWarmup, Ledger!Boundary, Ledger!Outcome, Ledger!Accepted, TypeOK, SetUp, Up
  <2>3. TornDown'
    BY <1>11 DEF EndWarmup, Ledger!Boundary, Ledger!Outcome, Ledger!Accepted, TypeOK, TornDown
  <2>4. OneRunner'
    BY <1>11, IdleWhenSettled DEF EndWarmup, Ledger!Boundary, OneRunner
  <2>5. Reported'
    BY <1>11 DEF EndWarmup, Ledger!Boundary, Ledger!Outcome, Ledger!Accepted, TypeOK, Reported
  <2>6. TaskBrowserClosed'
    BY <1>11 DEF EndWarmup, Ledger!Boundary, Ledger!Outcome, Ledger!Accepted, TypeOK, TaskBrowserClosed
  <2> QED BY <2>1, <2>2, <2>3, <2>4, <2>5, <2>6
<1>12. ASSUME DriverReturns PROVE IInv'
  <2>0. report' \in Report /\ report'.created = report'.complete + report'.failed
    BY <1>12, FinishAddsUp DEF DriverReturns
  <2>1. TypeOK'
    BY <1>12, <2>0, Zenon DEF DriverReturns, Ledger!Finish, TypeOK
  <2>2. SetUp'
    BY <1>12 DEF DriverReturns, Ledger!Finish, TypeOK, SetUp, Up
  <2>3. TornDown'
    BY <1>12 DEF DriverReturns, Ledger!Finish, TypeOK, TornDown
  <2>4. OneRunner'
    BY <1>12, IdleWhenSettled DEF DriverReturns, Ledger!Finish, OneRunner
  <2>5. Reported'
    BY <1>12, <2>0 DEF DriverReturns, Ledger!Finish, Reported
  <2>6. TaskBrowserClosed'
    BY <1>12 DEF DriverReturns, Ledger!Finish, TypeOK, TaskBrowserClosed
  <2> QED BY <2>1, <2>2, <2>3, <2>4, <2>5, <2>6
<1>13. ASSUME ReadVerdict PROVE IInv'
  <2>1. TypeOK'
    BY <1>13 DEF ReadVerdict, WasCancelled, TypeOK, Report
  <2>2. SetUp'
    BY <1>13 DEF ReadVerdict, WasCancelled, TypeOK, SetUp, Up
  <2>3. TornDown'
    BY <1>13 DEF ReadVerdict, WasCancelled, TypeOK, TornDown
  <2>4. OneRunner'
    BY <1>13 DEF ReadVerdict, WasCancelled, TypeOK, OneRunner
  <2>5. Reported'
    BY <1>13 DEF ReadVerdict, WasCancelled, TypeOK, Reported
  <2>6. TaskBrowserClosed'
    BY <1>13 DEF ReadVerdict, WasCancelled, TypeOK, TaskBrowserClosed
  <2> QED BY <2>1, <2>2, <2>3, <2>4, <2>5, <2>6
<1>14. ASSUME Save PROVE IInv'
  <2>1. TypeOK'
    BY <1>14 DEF Save, TypeOK, Report
  <2>2. SetUp'
    BY <1>14 DEF Save, TypeOK, SetUp, Up
  <2>3. TornDown'
    BY <1>14 DEF Save, TypeOK, TornDown
  <2>4. OneRunner'
    BY <1>14 DEF Save, TypeOK, OneRunner
  <2>5. Reported'
    BY <1>14 DEF Save, TypeOK, Reported
  <2>6. TaskBrowserClosed'
    BY <1>14 DEF Save, TypeOK, TaskBrowserClosed
  <2> QED BY <2>1, <2>2, <2>3, <2>4, <2>5, <2>6
<1>15. ASSUME SaveFails PROVE IInv'
  <2>1. TypeOK'
    BY <1>15 DEF SaveFails, TypeOK, Report
  <2>2. SetUp'
    BY <1>15 DEF SaveFails, TypeOK, SetUp, Up
  <2>3. TornDown'
    BY <1>15 DEF SaveFails, TypeOK, TornDown
  <2>4. OneRunner'
    BY <1>15 DEF SaveFails, TypeOK, OneRunner
  <2>5. Reported'
    BY <1>15 DEF SaveFails, TypeOK, Reported
  <2>6. TaskBrowserClosed'
    BY <1>15 DEF SaveFails, TypeOK, TaskBrowserClosed
  <2> QED BY <2>1, <2>2, <2>3, <2>4, <2>5, <2>6
<1>16. ASSUME StopDriver PROVE IInv'
  <2>1. TypeOK'
    BY <1>16 DEF StopDriver, TypeOK, Report
  <2>2. SetUp'
    BY <1>16 DEF StopDriver, TypeOK, SetUp, Up
  <2>3. TornDown'
    BY <1>16 DEF StopDriver, TypeOK, TornDown
  <2>4. OneRunner'
    BY <1>16 DEF StopDriver, TypeOK, OneRunner
  <2>5. Reported'
    BY <1>16 DEF StopDriver, TypeOK, Reported
  <2>6. TaskBrowserClosed'
    BY <1>16 DEF StopDriver, TypeOK, TaskBrowserClosed
  <2> QED BY <2>1, <2>2, <2>3, <2>4, <2>5, <2>6
<1>17. ASSUME ClosePool PROVE IInv'
  <2>1. TypeOK'
    BY <1>17 DEF ClosePool, TypeOK, Report
  <2>2. SetUp'
    BY <1>17 DEF ClosePool, TypeOK, SetUp, Up
  <2>3. TornDown'
    BY <1>17 DEF ClosePool, TypeOK, TornDown
  <2>4. OneRunner'
    BY <1>17 DEF ClosePool, TypeOK, OneRunner
  <2>5. Reported'
    BY <1>17 DEF ClosePool, TypeOK, Reported
  <2>6. TaskBrowserClosed'
    BY <1>17 DEF ClosePool, TypeOK, TaskBrowserClosed
  <2> QED BY <2>1, <2>2, <2>3, <2>4, <2>5, <2>6
<1>18. ASSUME Interrupt PROVE IInv'
  <2>1. TypeOK'
    BY <1>18 DEF Interrupt, TypeOK, Report
  <2>2. SetUp'
    BY <1>18 DEF Interrupt, TypeOK, SetUp, Up
  <2>3. TornDown'
    BY <1>18 DEF Interrupt, TypeOK, TornDown
  <2>4. OneRunner'
    BY <1>18 DEF Interrupt, TypeOK, OneRunner
  <2>5. Reported'
    BY <1>18 DEF Interrupt, TypeOK, Reported
  <2>6. TaskBrowserClosed'
    BY <1>18 DEF Interrupt, TypeOK, TaskBrowserClosed
  <2> QED BY <2>1, <2>2, <2>3, <2>4, <2>5, <2>6
<1>19. ASSUME Killed PROVE IInv'
  <2>1. TypeOK'
    BY <1>19 DEF Killed, TypeOK, Report
  <2>2. SetUp'
    BY <1>19 DEF Killed, TypeOK, SetUp, Up
  <2>3. TornDown'
    BY <1>19 DEF Killed, TypeOK, TornDown
  <2>4. OneRunner'
    BY <1>19 DEF Killed, TypeOK, OneRunner
  <2>5. Reported'
    BY <1>19 DEF Killed, TypeOK, Reported
  <2>6. TaskBrowserClosed'
    BY <1>19 DEF Killed, TypeOK, TaskBrowserClosed
  <2> QED BY <2>1, <2>2, <2>3, <2>4, <2>5, <2>6
<1>20. ASSUME DriverRefuses PROVE IInv'
  <2>0. report' \in Report /\ report'.created = report'.complete + report'.failed
    BY <1>20, FinishAddsUp DEF DriverRefuses
  <2>1. TypeOK'
    BY <1>20, <2>0, Zenon DEF DriverRefuses, Ledger!Finish, TypeOK
  <2>2. SetUp'
    BY <1>20 DEF DriverRefuses, Ledger!Finish, TypeOK, SetUp, Up
  <2>3. TornDown'
    BY <1>20 DEF DriverRefuses, Ledger!Finish, TypeOK, TornDown
  <2>4. OneRunner'
    BY <1>20, IdleWhenSettled DEF DriverRefuses, Ledger!Finish, OneRunner
  <2>5. Reported'
    BY <1>20, <2>0 DEF DriverRefuses, Ledger!Finish, Reported
  <2>6. TaskBrowserClosed'
    BY <1>20 DEF DriverRefuses, Ledger!Finish, TypeOK, TaskBrowserClosed
  <2> QED BY <2>1, <2>2, <2>3, <2>4, <2>5, <2>6
<1>21. ASSUME UNCHANGED vars PROVE IInv'
  BY <1>21 DEF vars, TypeOK, SetUp, Up, TornDown, OneRunner, Reported, TaskBrowserClosed
<1> QED BY <1>1, <1>2, <1>3, <1>4, <1>5, <1>6, <1>7, <1>8, <1>9, <1>10, <1>11, <1>12, <1>13, <1>14, <1>15, <1>16, <1>17, <1>18, <1>19, <1>20, <1>21 DEF Next, Progress, TaskStep, Ended

\* The inductive invariant: what is up at each stage of the run, who runs
\* which task and what the report says (controller.Run, every path).
THEOREM Invariance == Spec => []IInv
BY InitIInv, StepIInv, PTL DEF Spec

\* A task finds the Playwright driver and the browser of its worker up from
\* its first step to its last, with any number of workers and tasks.
THEOREM InfrastructureStaysUp == Spec => []InfrastructureUp
<1>1. IInv => InfrastructureUp
  BY DEF IInv, SetUp, OneRunner, InfrastructureUp
<1> QED BY <1>1, Invariance, PTL

\* The per-task Chromium of headed and headless runs never outlives its task.
THEOREM TaskBrowsersAreClosed == Spec => []TaskBrowserClosed
<1>1. IInv => TaskBrowserClosed
  BY DEF IInv
<1> QED BY <1>1, Invariance, PTL

\* A run that returns leaves no Chromium of the workers it attached and none
\* of the worker whose construction failed.
THEOREM RunLeavesNoChromium == Spec => []NoChromiumAfterRun
<1>1. IInv => NoChromiumAfterRun
  BY DEF IInv, TypeOK, TornDown, NoChromiumAfterRun
<1> QED BY <1>1, Invariance, PTL

\* A run that ends without an error, cancelled or not, has saved a report in
\* which every task counted as created is counted as completed or failed.
THEOREM ResultsArePersisted == Spec => []ResultsPersist
<1>1. IInv => ResultsPersist
  BY DEF IInv, Reported, ResultsPersist
<1> QED BY <1>1, Invariance, PTL

\* The rest of a run that is cancelled before its verdict.
CutShort ==
  /\ stage \in {"verdict", "refused", "save", "stopDriver", "closePool", "done"}
  /\ stage \in {"verdict", "refused"} => cancelled
  /\ stage \notin {"verdict", "refused"} => verdict = TRUE
  /\ exit # "summary"

\* A run whose context is done when the driver returns never reports success.
THEOREM CancellationIsReported == Spec => CancellationReported
<1>1. IInv /\ stage \in {"verdict", "refused"} /\ cancelled => CutShort
  BY DEF IInv, Reported, CutShort
<1>2. IInv /\ CutShort /\ [Next]_vars => CutShort'
  <2> SUFFICES ASSUME IInv, CutShort, [Next]_vars PROVE CutShort'
    OBVIOUS
  <2> USE DEF CutShort, setupVars, procVars, resultVars, ledgerVars
  <2>1. CASE Progress
    BY <2>1 DEF Progress, StartDriver, StartDriverFails, SpawnBrowser, BuildWorker, BuildFails,
       AttachWorkers, EndWarmup, DriverReturns, DriverRefuses, ReadVerdict, WasCancelled, Save, SaveFails,
       StopDriver, ClosePool
  <2>2. CASE \E t \in Task : Accept(t)
    BY <2>2 DEF Accept
  <2>3. CASE \E w \in Worker : TaskStep(w) \/ LaunchForTask(w)
    BY <2>3 DEF TaskStep, StartTask, EndTask, LaunchForTask
  <2>4. CASE Interrupt \/ Killed
    BY <2>4 DEF Interrupt, Killed
  <2>5. CASE Ended \/ UNCHANGED vars
    BY <2>5 DEF Ended, vars
  <2> QED BY <2>1, <2>2, <2>3, <2>4, <2>5 DEF Next
<1>3. CutShort => exit # "summary"
  BY DEF CutShort
<1> QED BY <1>1, <1>2, <1>3, Invariance, PTL DEF Spec, CancellationReported

===============================================================================
