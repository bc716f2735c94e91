--------------------------- MODULE ClosedLoopProofs ---------------------------
(***************************************************************************)
(* Proofs about ClosedLoop for every number of loops, workers and tasks and*)
(* every sequence of levels: the inductive invariant (types, ownership,    *)
(* accounts, phases), what follows from it, and on top of it the tokens, the*)
(* exact counters, the bounds on the tasks in flight and the refinement of *)
(* TaskLedger.                                                             *)
(***************************************************************************)
EXTENDS ClosedLoop, FiniteSetTheorems, FunctionTheorems, TLAPS

\* The number of workers is a natural number, and every level exists.
LEMMA ConstantFacts ==
  /\ Capacity \in Nat
  /\ Len(Levels) \in Nat /\ 1 \in 1..Len(Levels)
  /\ \A i \in 1..Len(Levels) : Levels[i] \subseteq Loop
<1>1. Capacity \in Nat
  BY ClosedLoopAssumption, FS_CardinalityType DEF Capacity
<1>2. Len(Levels) \in Nat /\ Len(Levels) # 0
  BY ClosedLoopAssumption
<1>3. \A i \in 1..Len(Levels) : Levels[i] \subseteq Loop
  BY ClosedLoopAssumption
<1> QED
  BY <1>1, <1>2, <1>3

\* The initial state is well typed.
LEMMA TypeInit == Init => TypeOK
<1> SUFFICES ASSUME Init PROVE TypeOK
  OBVIOUS
<1>1. rec \in [CounterName -> Int]
  BY DEF Init, ZeroCounters
<1>2. phase \in {"warmup", "measurement"} /\ level \in 1..Len(Levels) /\ dpc = "begin"
  BY ConstantFacts DEF Init
<1>3. /\ pc \in [Loop -> {"off", "top", "deadline", "token", "recheck",
                          "submit", "send", "wait"}]
      /\ cur \in [Loop -> Task \cup {NoTask}]
      /\ job \in [Worker -> Task \cup {NoTask}]
  BY DEF Init
<1>4. /\ st \in [Task -> {"unborn", "created", "queued", "started"} \cup Outcome]
      /\ epoch \in [Task -> {"none", "warmup", "measurement"}]
  BY DEF Init
<1>5. /\ done \in SUBSET Task /\ exited \in SUBSET Worker
      /\ tokens \in Nat /\ pending \in Int
  BY DEF Init
<1>6. /\ timed \in BOOLEAN /\ expired \in BOOLEAN
      /\ cancelled \in BOOLEAN /\ closed \in BOOLEAN
  BY DEF Init
<1> QED
  BY <1>1, <1>2, <1>3, <1>4, <1>5, <1>6 DEF TypeOK

\* A step of a loop keeps the types.
LEMMA TypeLoop ==
  ASSUME TypeOK, NEW l \in Loop, LoopStep(l)
  PROVE  TypeOK'
<1> USE DEF TypeOK, loopVars, workerVars, taskVars, driverVars, poolVars, Outcome
<1>1. CASE LeaveCancelled(l)
  BY <1>1 DEF LeaveCancelled, CountAndLeave, Bump
<1>2. CASE LoopContinues(l)
  BY <1>2 DEF LoopContinues
<1>3. CASE CheckDeadline(l)
  BY <1>3 DEF CheckDeadline
<1>4. CASE TakeToken(l)
  BY <1>4 DEF TakeToken
<1>5. CASE ReturnStaleToken(l)
  BY <1>5 DEF ReturnStaleToken
<1>6. ASSUME NEW t \in Task, NewTask(l, t) PROVE TypeOK'
  BY <1>6 DEF NewTask
<1>7. CASE Submit(l)
  <2>1. rec' \in [CounterName -> Int]
    BY <1>7 DEF Submit, Bump
  <2>2. st' \in [Task -> {"unborn", "created", "queued", "started"} \cup Outcome]
    BY <1>7 DEF Submit
  <2>3. epoch' \in [Task -> {"none", "warmup", "measurement"}]
    BY <1>7 DEF Submit
  <2> QED
    BY <1>7, <2>1, <2>2, <2>3 DEF Submit
<1>8. ASSUME NEW w \in Worker, Receive(l, w) PROVE TypeOK'
  BY <1>8 DEF Receive
<1>9. CASE SeeDone(l)
  BY <1>9 DEF SeeDone
<1>10. CASE AbandonTask(l)
  BY <1>10 DEF AbandonTask, CountAndLeave, Bump
<1> QED
  BY <1>1, <1>2, <1>3, <1>4, <1>5, <1>6, <1>7, <1>8, <1>9, <1>10 DEF LoopStep

\* A step of a worker keeps the types.
LEMMA TypeWorker ==
  ASSUME TypeOK, NEW w \in Worker, WorkerStep(w)
  PROVE  TypeOK'
<1> USE DEF TypeOK, loopVars, workerVars, taskVars, driverVars, poolVars, Outcome
<1>1. CASE StartTask(w)
  BY <1>1 DEF StartTask, Bump
<1>2. ASSUME NEW o \in Outcome, RecordOutcome(w, o) PROVE TypeOK'
  BY <1>2 DEF RecordOutcome, Bump
<1>3. CASE MarkFinished(w)
  BY <1>3 DEF MarkFinished
<1>4. CASE TaskDone(w)
  BY <1>4 DEF TaskDone
<1>5. CASE WorkerExits(w)
  BY <1>5 DEF WorkerExits
<1> QED
  BY <1>1, <1>2, <1>3, <1>4, <1>5 DEF WorkerStep

\* A step of the driver keeps the types.
LEMMA TypeDriver ==
  ASSUME TypeOK, DriverStep
  PROVE  TypeOK'
<1> USE ConstantFacts DEF TypeOK, loopVars, workerVars, taskVars, driverVars, poolVars, Outcome
<1>1. CASE StartWindow
  BY <1>1 DEF StartWindow
<1>2. CASE Drain
  BY <1>2 DEF Drain
<1>3. CASE NextLevel
  BY <1>3 DEF NextLevel
<1>4. CASE EndWarmup
  BY <1>4 DEF EndWarmup, AfterReset, ZeroCounters
<1>5. CASE RunReturns
  BY <1>5 DEF RunReturns
<1>6. CASE CloseJobs
  BY <1>6 DEF CloseJobs
<1>7. CASE CloseWorkers
  BY <1>7 DEF CloseWorkers
<1> QED
  BY <1>1, <1>2, <1>3, <1>4, <1>5, <1>6, <1>7 DEF DriverStep

\* Every step keeps the types.
LEMMA TypeNext == TypeOK /\ [Next]_vars => TypeOK'
<1> SUFFICES ASSUME TypeOK, [Next]_vars PROVE TypeOK'
  OBVIOUS
<1> USE DEF poolVars, loopVars, workerVars, taskVars, driverVars
<1>1. CASE DeadlinePasses
  BY <1>1 DEF DeadlinePasses, TypeOK
<1>2. CASE Cancel
  BY <1>2 DEF Cancel, TypeOK
<1>3. CASE UNCHANGED vars
  BY <1>3 DEF vars, TypeOK
<1> QED
  BY <1>1, <1>2, <1>3, TypeLoop, TypeWorker, TypeDriver DEF Next, Finished

\* The type invariant, for every instance of the constants.
THEOREM TypeCorrect == Spec => []TypeOK
  BY TypeInit, TypeNext, PTL DEF Spec

-------------------------------------------------------------------------------
(* Ownership: which loop and which worker has a task.                       *)

\* A step of a loop takes no task from another loop or worker.
LEMMA OwnershipLoop ==
  ASSUME TypeOK, Ownership, NEW l \in Loop, LoopStep(l)
  PROVE  Ownership'
<1> USE ClosedLoopAssumption
    DEF TypeOK, Ownership, LoopHoldsTask, OneLoop, OneWorker, NotYetSent,
        WorkerHoldsTask, DoneSettled, SettledKept, loopVars, workerVars, taskVars, driverVars,
        poolVars, Outcome
<1>1. CASE LeaveCancelled(l)
  BY <1>1 DEF LeaveCancelled, CountAndLeave
<1>2. CASE LoopContinues(l)
  BY <1>2 DEF LoopContinues
<1>3. CASE CheckDeadline(l)
  BY <1>3 DEF CheckDeadline
<1>4. CASE TakeToken(l)
  BY <1>4 DEF TakeToken
<1>5. CASE ReturnStaleToken(l)
  BY <1>5 DEF ReturnStaleToken
<1>6. ASSUME NEW t \in Task, NewTask(l, t) PROVE Ownership'
  BY <1>6 DEF NewTask
<1>7. CASE Submit(l)
  BY <1>7 DEF Submit
<1>8. ASSUME NEW w \in Worker, Receive(l, w) PROVE Ownership'
  BY <1>8 DEF Receive
<1>9. CASE SeeDone(l)
  BY <1>9 DEF SeeDone
<1>10. CASE AbandonTask(l)
  BY <1>10 DEF AbandonTask, CountAndLeave
<1> QED
  BY <1>1, <1>2, <1>3, <1>4, <1>5, <1>6, <1>7, <1>8, <1>9, <1>10 DEF LoopStep

\* A step of a worker settles its own task only.
LEMMA OwnershipWorker ==
  ASSUME TypeOK, Ownership, NEW w \in Worker, WorkerStep(w)
  PROVE  Ownership'
<1> USE ClosedLoopAssumption
    DEF TypeOK, Ownership, LoopHoldsTask, OneLoop, OneWorker, NotYetSent,
        WorkerHoldsTask, DoneSettled, SettledKept, loopVars, workerVars, taskVars, driverVars,
        poolVars, Outcome
<1>1. CASE StartTask(w)
  BY <1>1 DEF StartTask
<1>2. ASSUME NEW o \in Outcome, RecordOutcome(w, o) PROVE Ownership'
  BY <1>2 DEF RecordOutcome
<1>3. CASE MarkFinished(w)
  BY <1>3 DEF MarkFinished
<1>4. CASE TaskDone(w)
  BY <1>4 DEF TaskDone
<1>5. CASE WorkerExits(w)
  BY <1>5 DEF WorkerExits
<1> QED
  BY <1>1, <1>2, <1>3, <1>4, <1>5 DEF WorkerStep

\* The driver touches no task.
LEMMA OwnershipDriver ==
  ASSUME TypeOK, Ownership, Phases, DriverStep
  PROVE  Ownership'
<1> USE DEF TypeOK, poolVars, loopVars, workerVars, taskVars, driverVars
<1>1. ASSUME UNCHANGED <<loopVars, workerVars, taskVars>> PROVE Ownership'
  BY <1>1 DEF Ownership, LoopHoldsTask, OneLoop, OneWorker, NotYetSent,
              WorkerHoldsTask, DoneSettled, SettledKept
<1>2. CASE StartWindow
  <2>1. \A l \in Loop : pc[l] = "off" /\ pc'[l] \in {"top", "off"}
    BY <1>2 DEF StartWindow, Phases
  <2>2. UNCHANGED <<cur, workerVars, taskVars>>
    BY <1>2 DEF StartWindow
  <2> QED
    BY <2>1, <2>2 DEF Ownership, LoopHoldsTask, OneLoop, OneWorker, NotYetSent,
                      WorkerHoldsTask, DoneSettled, SettledKept
<1>3. CASE ~StartWindow
  BY <1>1, <1>3 DEF DriverStep, Drain, NextLevel, EndWarmup,
                    RunReturns, CloseJobs, CloseWorkers
<1> QED
  BY <1>2, <1>3

-------------------------------------------------------------------------------
(* Accounts: the counters are the sizes of sets of tasks.                   *)

\* The sets counted are finite.
LEMMA FiniteSets ==
  /\ IsFiniteSet(Unsettled) /\ Cardinality(Unsettled) \in Nat
  /\ IsFiniteSet(Running) /\ Cardinality(Running) \in Nat
  /\ IsFiniteSet(Owed) /\ Cardinality(Owed) \in Nat
<1>1. Unsettled \in SUBSET Task /\ Running \in SUBSET Task /\ Owed \in SUBSET Task
  BY DEF Unsettled, Running, Owed
<1> QED
  BY <1>1, FS_Subset, FS_CardinalityType, ClosedLoopAssumption

\* Nothing is owed exactly when pending is zero.
LEMMA NothingOwed ==
  ASSUME TypeOK, Accounts, pending = 0
  PROVE  /\ Owed = {} /\ Unsettled = {} /\ Running = {}
         /\ \A w \in Worker : job[w] = NoTask
<1>1. Owed = {}
  BY FiniteSets, FS_EmptySet DEF Accounts
<1>2. Unsettled = {} /\ Running = {}
  BY <1>1 DEF Owed, Unsettled, Running
<1>3. \A w \in Worker : job[w] = NoTask
  BY <1>1 DEF Owed, TypeOK
<1> QED
  BY <1>1, <1>2, <1>3

\* A step that touches neither the tasks nor their counters keeps Accounts.
LEMMA AccountsFrame ==
  ASSUME Accounts, UNCHANGED <<st, job, pending>>,
         \A c \in {"created", "active", "complete", "failed"} : rec'[c] = rec[c]
  PROVE  Accounts'
  BY DEF Accounts, Owed, Unsettled, Running

\* What a loop creates, submits or abandons is counted once.
LEMMA AccountsLoop ==
  ASSUME TypeOK, Ownership, Accounts, NEW l \in Loop, LoopStep(l)
  PROVE  Accounts'
<1> USE DEF poolVars, loopVars, workerVars, taskVars, driverVars
<1>1. CASE LeaveCancelled(l) \/ AbandonTask(l)
  <2>1. /\ UNCHANGED <<st, job, pending>>
        /\ Bump({"cancelled"}, {})
    BY <1>1 DEF LeaveCancelled, AbandonTask, CountAndLeave
  <2>2. \A c \in {"created", "active", "complete", "failed"} : rec'[c] = rec[c]
    BY <2>1 DEF Bump, CounterName, TypeOK
  <2> QED
    BY <2>1, <2>2, AccountsFrame
<1>2. CASE LoopContinues(l) \/ CheckDeadline(l) \/ TakeToken(l)
           \/ ReturnStaleToken(l) \/ SeeDone(l)
  <2>1. UNCHANGED <<st, job, pending, rec>>
    BY <1>2 DEF LoopContinues, CheckDeadline, TakeToken, ReturnStaleToken, SeeDone
  <2> QED
    BY <2>1, AccountsFrame
<1>3. ASSUME NEW t \in Task, NewTask(l, t) PROVE Accounts'
  <2>1. Unsettled' = Unsettled /\ Running' = Running /\ Owed' = Owed
    BY <1>3 DEF NewTask, Unsettled, Running, Owed, TypeOK
  <2> QED
    BY <1>3, <2>1 DEF NewTask, Accounts
<1>4. CASE Submit(l)
  <2> DEFINE t == cur[l]
  <2>1. t \in Task /\ st[t] = "created"
    BY <1>4, ClosedLoopAssumption DEF Submit, Ownership, LoopHoldsTask, TypeOK
  <2>2. t \notin Unsettled /\ t \notin Owed
    BY <2>1, ClosedLoopAssumption DEF Unsettled, Owed, Ownership, WorkerHoldsTask
  <2>3. /\ st' = [st EXCEPT ![t] = "queued"] /\ UNCHANGED job
        /\ st \in [Task -> {"unborn", "created", "queued", "started"} \cup Outcome]
    BY <1>4 DEF Submit, TypeOK
  <2>4. Unsettled' = Unsettled \cup {t}
    BY <2>1, <2>3 DEF Unsettled
  <2>5. Running' = Running
    BY <2>1, <2>3 DEF Running
  <2>6. Unsettled' = Unsettled \cup {t} /\ Running' = Running /\ Owed' = Owed \cup {t}
    BY <2>3, <2>4, <2>5 DEF Owed
  <2>7. /\ Cardinality(Unsettled') = Cardinality(Unsettled) + 1
        /\ Cardinality(Owed') = Cardinality(Owed) + 1
    BY <2>2, <2>6, FiniteSets, FS_AddElement
  <2>8. /\ rec'["created"] = rec["created"] + 1 /\ rec'["active"] = rec["active"]
        /\ rec'["complete"] = rec["complete"] /\ rec'["failed"] = rec["failed"]
    BY <1>4 DEF Submit, Bump, CounterName, TypeOK
  <2>9. pending' = pending + 1
    BY <1>4 DEF Submit
  <2>10. rec.created = rec.complete + rec.failed + Cardinality(Unsettled)
    BY DEF Accounts
  <2>11. /\ rec.complete \in Int /\ rec.failed \in Int
    BY DEF TypeOK, CounterName
  <2>12. (rec.created = rec.complete + rec.failed + Cardinality(Unsettled))'
    BY <2>7, <2>8, <2>10, <2>11, FiniteSets
  <2> QED
    BY <2>6, <2>7, <2>8, <2>9, <2>12 DEF Accounts
<1>5. ASSUME NEW w \in Worker, Receive(l, w) PROVE Accounts'
  <2>1. cur[l] \in Task /\ st[cur[l]] = "queued"
    BY <1>5, ClosedLoopAssumption DEF Receive, Ownership, LoopHoldsTask, TypeOK
  <2>2. Unsettled' = Unsettled /\ Running' = Running
    BY <1>5 DEF Receive, Unsettled, Running
  <2>3. Owed' = Owed
    BY <1>5, <2>1, <2>2, ClosedLoopAssumption DEF Receive, Owed, Unsettled, TypeOK
  <2> QED
    BY <1>5, <2>2, <2>3 DEF Receive, Accounts
<1> QED
  BY <1>1, <1>2, <1>3, <1>4, <1>5 DEF LoopStep

\* What a worker starts and settles is counted once.
LEMMA AccountsWorker ==
  ASSUME TypeOK, Ownership, Accounts, NEW w \in Worker, WorkerStep(w)
  PROVE  Accounts'
<1> USE DEF poolVars, loopVars, workerVars, taskVars, driverVars
<1> DEFINE t == job[w]
<1>1. CASE StartTask(w)
  <2>1. t \in Task /\ st[t] = "queued" /\ st' = [st EXCEPT ![t] = "started"]
        /\ UNCHANGED <<job, pending>>
        /\ st \in [Task -> {"unborn", "created", "queued", "started"} \cup Outcome]
    BY <1>1 DEF StartTask, TypeOK
  <2>2. Unsettled' = Unsettled
    BY <2>1 DEF Unsettled
  <2>3. Owed' = Owed
    BY <2>1, <2>2 DEF Owed
  <2>4. Running' = Running \cup {t} /\ t \notin Running
    BY <2>1 DEF Running
  <2>5. Cardinality(Running') = Cardinality(Running) + 1
    BY <2>4, FiniteSets, FS_AddElement
  <2>6. /\ rec'["created"] = rec["created"] /\ rec'["active"] = rec["active"] + 1
        /\ rec'["complete"] = rec["complete"] /\ rec'["failed"] = rec["failed"]
    BY <1>1 DEF StartTask, Bump, CounterName, TypeOK
  <2> QED
    BY <2>1, <2>2, <2>3, <2>5, <2>6 DEF Accounts
<1>2. ASSUME NEW o \in Outcome, RecordOutcome(w, o) PROVE Accounts'
  <2>1. t \in Task /\ st[t] = "started" /\ st' = [st EXCEPT ![t] = o]
        /\ UNCHANGED <<job, pending>>
        /\ st \in [Task -> {"unborn", "created", "queued", "started"} \cup Outcome]
    BY <1>2 DEF RecordOutcome, TypeOK
  <2>2. Unsettled' = Unsettled \ {t} /\ t \in Unsettled
    BY <2>1 DEF Unsettled, Outcome
  <2>3. Owed' = Owed
    BY <2>1, <2>2 DEF Owed
  <2>4. Running' = Running \ {t} /\ t \in Running
    BY <2>1 DEF Running, Outcome
  <2>5. /\ Cardinality(Running') = Cardinality(Running) - 1
        /\ Cardinality(Unsettled') = Cardinality(Unsettled) - 1
    BY <2>2, <2>4, FiniteSets, FS_RemoveElement
  <2> DEFINE c == CounterOf(o)
  <2>6. c \in {"complete", "failed"} /\ Bump({c}, {"active"})
    BY <1>2 DEF RecordOutcome, CounterOf
  <2>7. rec \in [CounterName -> Int]
    BY DEF TypeOK
  <2> HIDE DEF c
  <2>8. rec' = [d \in CounterName |-> rec[d] + (IF d = c THEN 1 ELSE 0)
                                            - (IF d = "active" THEN 1 ELSE 0)]
    BY <2>6 DEF Bump
  <2>9. /\ rec'["created"] = rec["created"] /\ rec'["active"] = rec["active"] - 1
        /\ rec'["complete"] + rec'["failed"] = rec["complete"] + rec["failed"] + 1
    <3>1. CASE c = "complete"
      BY <2>7, <2>8, <3>1 DEF CounterName
    <3>2. CASE c = "failed"
      BY <2>7, <2>8, <3>2 DEF CounterName
    <3> QED
      BY <2>6, <3>1, <3>2
  <2>10. rec.created = rec.complete + rec.failed + Cardinality(Unsettled)
    BY DEF Accounts
  <2>11. rec.complete \in Int /\ rec.failed \in Int
    BY DEF TypeOK, CounterName
  <2>12. rec'["complete"] \in Int /\ rec'["failed"] \in Int
    BY TypeWorker DEF TypeOK, CounterName
  <2>13. (rec.created = rec.complete + rec.failed + Cardinality(Unsettled))'
    BY <2>5, <2>9, <2>10, <2>11, <2>12, FiniteSets
  <2> QED
    BY <2>1, <2>3, <2>5, <2>9, <2>13 DEF Accounts
<1>3. CASE MarkFinished(w) \/ WorkerExits(w)
  <2>1. UNCHANGED <<st, job, pending, rec>>
    BY <1>3 DEF MarkFinished, WorkerExits
  <2> QED
    BY <2>1, AccountsFrame
<1>4. CASE TaskDone(w)
  <2>1. t \in Task /\ st[t] \in Outcome /\ job' = [job EXCEPT ![w] = NoTask]
        /\ UNCHANGED <<st, rec>> /\ pending' = pending - 1
    BY <1>4 DEF TaskDone, Ownership, DoneSettled, TypeOK
  <2>2. Unsettled' = Unsettled /\ Running' = Running /\ t \notin Unsettled
    BY <2>1 DEF Unsettled, Running, Outcome
  <2>3. \A v \in Worker : job'[v] = IF v = w THEN NoTask ELSE job[v]
    BY <2>1 DEF TypeOK
  <2>4. Owed' = Owed \ {t}
    BY <2>1, <2>2, <2>3, ClosedLoopAssumption DEF Owed, Ownership, OneWorker
  <2>5. t \in Owed
    BY <2>1 DEF Owed
  <2>6. Cardinality(Owed') = Cardinality(Owed) - 1
    BY <2>4, <2>5, FiniteSets, FS_RemoveElement
  <2> QED
    BY <2>1, <2>2, <2>6 DEF Accounts
<1> QED
  BY <1>1, <1>2, <1>3, <1>4 DEF WorkerStep

\* The driver resets the counters only with nothing owed.
LEMMA AccountsDriver ==
  ASSUME TypeOK, Accounts, Phases, DriverStep
  PROVE  Accounts'
<1> USE DEF poolVars, loopVars, workerVars, taskVars, driverVars
<1>1. CASE EndWarmup
  <2>1. UNCHANGED <<st, job, pending>> /\ rec' = ZeroCounters /\ pending = 0
    BY <1>1 DEF EndWarmup, AfterReset, Phases
  <2>2. Unsettled' = {} /\ Running' = {} /\ Owed' = Owed
    BY <2>1, NothingOwed DEF Unsettled, Running, Owed
  <2>3. \A c \in CounterName : rec'[c] = 0
    BY <2>1 DEF ZeroCounters
  <2>4. Cardinality(Unsettled') = 0 /\ Cardinality(Running') = 0
    BY <2>2, FS_EmptySet
  <2>5. /\ rec'["created"] = 0 /\ rec'["active"] = 0
        /\ rec'["complete"] = 0 /\ rec'["failed"] = 0
    BY <2>3 DEF CounterName
  <2>6. (rec.created = rec.complete + rec.failed + Cardinality(Unsettled))'
    BY <2>4, <2>5
  <2>7. (pending = Cardinality(Owed))'
    BY <2>1, <2>2 DEF Accounts
  <2>8. (rec.active = Cardinality(Running))'
    BY <2>4, <2>5
  <2> QED
    BY <2>6, <2>7, <2>8 DEF Accounts
<1>2. CASE ~EndWarmup
  <2>1. UNCHANGED <<st, job, pending, rec>>
    BY <1>2 DEF DriverStep, StartWindow, Drain, NextLevel,
                RunReturns, CloseJobs, CloseWorkers
  <2> QED
    BY <2>1, AccountsFrame
<1> QED
  BY <1>1, <1>2

-------------------------------------------------------------------------------
(* Phases: what the driver goroutine may assume where it is.                *)

\* A loop only runs inside a window.
LEMMA PhasesLoop ==
  ASSUME TypeOK, Phases, NEW l \in Loop, LoopStep(l)
  PROVE  Phases'
<1>1. pc[l] # "off" /\ UNCHANGED driverVars
  BY DEF LoopStep, LeaveCancelled, LoopContinues, CheckDeadline, TakeToken,
         ReturnStaleToken, NewTask, Submit, Receive, SeeDone,
         AbandonTask
<1> QED
  BY <1>1 DEF Phases, driverVars

\* No worker is busy while no window runs.
LEMMA PhasesWorker ==
  ASSUME TypeOK, Accounts, Phases, NEW w \in Worker, WorkerStep(w)
  PROVE  Phases'
<1>1. UNCHANGED <<driverVars, pc>>
  BY DEF WorkerStep, StartTask, RecordOutcome, MarkFinished, TaskDone, WorkerExits,
         loopVars
<1>2. CASE TaskDone(w)
  <2>1. job[w] \in Owed
    BY <1>2 DEF TaskDone, Owed, TypeOK
  <2>2. pending # 0
    BY <2>1, NothingOwed
  <2> QED
    BY <1>1, <2>2 DEF Phases, driverVars
<1>3. CASE ~TaskDone(w)
  <2>1. UNCHANGED pending
    BY <1>3 DEF WorkerStep, StartTask, RecordOutcome, MarkFinished, WorkerExits
  <2> QED
    BY <1>1, <2>1 DEF Phases, driverVars
<1> QED
  BY <1>2, <1>3

\* The driver goes on only when what it waits for has ended.
LEMMA PhasesDriver ==
  ASSUME TypeOK, Phases, DriverStep
  PROVE  Phases'
  BY DEF DriverStep, StartWindow, Drain, NextLevel, EndWarmup,
         RunReturns, CloseJobs, CloseWorkers, Phases, poolVars, loopVars, TypeOK

-------------------------------------------------------------------------------
(* The theorems.                                                            *)

\* Nothing is created, owned or owed at the start.
LEMMA InvInit == Init => IInv
<1> SUFFICES ASSUME Init PROVE IInv
  OBVIOUS
<1>1. Ownership
  BY ClosedLoopAssumption
     DEF Init, Ownership, LoopHoldsTask, OneLoop, OneWorker, NotYetSent,
         WorkerHoldsTask, DoneSettled, SettledKept, Outcome
<1>2. Unsettled = {} /\ Running = {} /\ Owed = {}
  BY ClosedLoopAssumption DEF Init, Unsettled, Running, Owed
<1>3. rec.created = 0 /\ rec.active = 0 /\ rec.complete = 0 /\ rec.failed = 0
  BY DEF Init, ZeroCounters, CounterName
<1>4. Accounts
  BY <1>2, <1>3, FS_EmptySet DEF Init, Accounts
<1>5. Phases
  BY DEF Init, Phases
<1> QED
  BY <1>1, <1>4, <1>5, TypeInit DEF IInv

\* The parts of the invariant support each other through every step.
LEMMA InvNext == IInv /\ [Next]_vars => IInv'
<1> SUFFICES ASSUME IInv, [Next]_vars PROVE IInv'
  OBVIOUS
<1> USE DEF IInv
<1>1. ASSUME NEW l \in Loop, LoopStep(l) PROVE IInv'
  BY <1>1, TypeLoop, OwnershipLoop, AccountsLoop, PhasesLoop
<1>2. ASSUME NEW w \in Worker, WorkerStep(w) PROVE IInv'
  BY <1>2, TypeWorker, OwnershipWorker, AccountsWorker, PhasesWorker
<1>3. CASE DriverStep
  BY <1>3, TypeDriver, OwnershipDriver, AccountsDriver, PhasesDriver
<1>4. CASE DeadlinePasses \/ Cancel \/ UNCHANGED vars
  <2>1. UNCHANGED <<loopVars, workerVars, taskVars, pending, rec, closed, dpc>>
    BY <1>4 DEF DeadlinePasses, Cancel, vars, driverVars, poolVars
  <2>2. Ownership'
    BY <2>1 DEF loopVars, workerVars, taskVars, Ownership, LoopHoldsTask, OneLoop,
       OneWorker, NotYetSent, WorkerHoldsTask, DoneSettled, SettledKept
  <2>3. Accounts' /\ Phases'
    BY <2>1 DEF loopVars, workerVars, taskVars, Accounts, Phases, Unsettled, Running, Owed
  <2> QED
    BY <2>2, <2>3, TypeNext
<1> QED
  BY <1>1, <1>2, <1>3, <1>4 DEF Next, Finished

\* The inductive invariant holds in every reachable state.
THEOREM Invariance == Spec => []IInv
  BY InvInit, InvNext, PTL DEF Spec

\* Pool.Close never meets a loop or a task: no send on the closed jobs
\* channel, no worker closed under a task.
THEOREM CloseIsSafe == Spec => []NoUseAfterClose
<1>1. IInv => NoUseAfterClose
  BY NothingOwed DEF IInv, Phases, NoUseAfterClose
<1> QED
  BY <1>1, Invariance, PTL

\* Once Driver.Run has returned, cancelled or not, every task it created is
\* counted as completed or failed and none is running.
THEOREM DrainIsComplete == Spec => []ReturnedAccounts
<1>1. IInv => ReturnedAccounts
  <2> SUFFICES ASSUME IInv, dpc \in {"returned", "closing", "closed"}
               PROVE rec.created = rec.complete + rec.failed /\ rec.active = 0
    BY DEF ReturnedAccounts
  <2>1. pending = 0
    BY DEF IInv, Phases
  <2>2. Cardinality(Unsettled) = 0 /\ Cardinality(Running) = 0
    BY <2>1, NothingOwed, FS_EmptySet DEF IInv
  <2>3. rec.complete \in Int /\ rec.failed \in Int
    BY DEF IInv, TypeOK, CounterName
  <2> QED
    BY <2>2, <2>3 DEF IInv, Accounts
<1> QED
  BY <1>1, Invariance, PTL

\* No loop and no task of a window outlives it: the next window, and the
\* Reset between warmup and measurement, find the pool silent.
THEOREM WindowsAreSeparated == Spec => WindowsSeparated
<1>1. IInv /\ [Next]_vars =>
        [<<phase, level>>' # <<phase, level>> =>
           InFlight = {} /\ pending = 0 /\ \A l \in Loop : pc[l] = "off"]_vars
  <2> SUFFICES ASSUME IInv, Next, <<phase, level>>' # <<phase, level>>
               PROVE  InFlight = {} /\ pending = 0 /\ \A l \in Loop : pc[l] = "off"
    OBVIOUS
  <2>1. ~UNCHANGED driverVars /\ ~DeadlinePasses
    BY DEF driverVars, DeadlinePasses
  <2>2. DriverStep
    BY <2>1 DEF Next, LoopStep, WorkerStep, LeaveCancelled, LoopContinues,
         CheckDeadline, TakeToken, ReturnStaleToken, NewTask,
         Submit, Receive, SeeDone, AbandonTask, StartTask, RecordOutcome,
         MarkFinished, TaskDone, WorkerExits, Cancel, Finished, vars
  <2>3. dpc = "check"
    BY <2>2 DEF DriverStep, StartWindow, Drain, NextLevel, EndWarmup,
         RunReturns, CloseJobs, CloseWorkers
  <2>4. pending = 0 /\ \A l \in Loop : pc[l] = "off"
    BY <2>3 DEF IInv, Phases
  <2>5. Unsettled = {} /\ \A w \in Worker : job[w] = NoTask
    BY <2>4, NothingOwed DEF IInv
  <2>6. InFlight = {}
    BY <2>5, ClosedLoopAssumption
       DEF InFlight, Unsettled, IInv, Ownership, SettledKept, Outcome
  <2> QED
    BY <2>4, <2>6
<1> QED
  BY <1>1, Invariance, PTL DEF Spec, WindowsSeparated

-------------------------------------------------------------------------------
(* Tokens.                                                                  *)

\* The loops that hold a token can be counted.
LEMMA HoldersFinite == IsFiniteSet(Holders) /\ Cardinality(Holders) \in Nat
<1>1. Holders \in SUBSET Loop
  BY DEF Holders
<1> QED
  BY <1>1, FS_Subset, FS_CardinalityType, ClosedLoopAssumption

\* A loop only lives while the driver waits for it.
LEMMA LoopLives ==
  ASSUME Phases, NEW l \in Loop, LoopStep(l)
  PROVE  dpc = "loops" /\ pc[l] # "off" /\ UNCHANGED driverVars
<1>1. pc[l] # "off" /\ UNCHANGED driverVars
  BY DEF LoopStep, LeaveCancelled, LoopContinues, CheckDeadline, TakeToken,
         ReturnStaleToken, NewTask, Submit, Receive, SeeDone, AbandonTask
<1> QED
  BY <1>1 DEF Phases

\* A loop gives back the token it has taken, and no other.
LEMMA TokensLoop ==
  ASSUME IInv, TokensConserved, NEW l \in Loop, LoopStep(l)
  PROVE  TokensConserved'
<1> DEFINE holding == {"recheck", "submit", "send", "wait"}
<1>1. /\ dpc = "loops" /\ tokens \in Nat /\ Capacity \in Nat
      /\ pc \in [Loop -> {"off", "top", "deadline", "token", "recheck",
                          "submit", "send", "wait"}]
      /\ tokens + Cardinality(Holders) = Capacity
  BY LoopLives, ConstantFacts DEF IInv, TypeOK, TokensConserved
<1>2. CASE TakeToken(l)
  <2>1. tokens' = tokens - 1 /\ pc[l] = "token" /\ pc' = [pc EXCEPT ![l] = "recheck"]
    BY <1>2 DEF TakeToken
  <2>2. Holders' = Holders \cup {l} /\ l \notin Holders
    BY <1>1, <2>1 DEF Holders
  <2>3. Cardinality(Holders') = Cardinality(Holders) + 1
    BY <2>2, HoldersFinite, FS_AddElement
  <2> QED
    BY <1>1, <2>1, <2>3, HoldersFinite DEF TokensConserved
<1>3. CASE ReturnStaleToken(l) \/ SeeDone(l) \/ AbandonTask(l)
  <2>1. \E a \in {"off", "top"} : /\ tokens' = tokens + 1 /\ pc[l] \in holding
                                  /\ pc' = [pc EXCEPT ![l] = a]
    BY <1>3 DEF ReturnStaleToken, SeeDone, AbandonTask, CountAndLeave
  <2>2. Holders' = Holders \ {l} /\ l \in Holders
    BY <1>1, <2>1 DEF Holders
  <2>3. Cardinality(Holders') = Cardinality(Holders) - 1
    BY <2>2, HoldersFinite, FS_RemoveElement
  <2> QED
    BY <1>1, <2>1, <2>3, HoldersFinite DEF TokensConserved
<1>4. CASE LoopContinues(l) \/ CheckDeadline(l) \/ LeaveCancelled(l)
  <2>1. \E a \in {"off", "deadline", "token"} : /\ tokens' = tokens /\ pc[l] \notin holding
                                                /\ pc' = [pc EXCEPT ![l] = a]
    BY <1>4 DEF LoopContinues, CheckDeadline, LeaveCancelled, CountAndLeave
  <2>2. Holders' = Holders
    BY <1>1, <2>1 DEF Holders
  <2> QED
    BY <1>1, <2>1, <2>2 DEF TokensConserved, Capacity
<1>5. CASE (\E t \in Task : NewTask(l, t)) \/ Submit(l) \/ (\E w \in Worker : Receive(l, w))
  <2>1. \E a \in holding : /\ tokens' = tokens /\ pc[l] \in holding
                           /\ pc' = [pc EXCEPT ![l] = a]
    BY <1>5 DEF NewTask, Submit, Receive
  <2>2. Holders' = Holders
    BY <1>1, <2>1 DEF Holders
  <2> QED
    BY <1>1, <2>1, <2>2 DEF TokensConserved, Capacity
<1> QED
  BY <1>2, <1>3, <1>4, <1>5 DEF LoopStep

\* Only the loops touch the tokens.
LEMMA TokensNext == IInv /\ TokensConserved /\ [Next]_vars => TokensConserved'
<1> SUFFICES ASSUME IInv, TokensConserved, [Next]_vars PROVE TokensConserved'
  OBVIOUS
<1>1. ASSUME UNCHANGED <<pc, tokens, dpc>> PROVE TokensConserved'
  BY <1>1 DEF TokensConserved, Holders, Capacity
<1>2. ASSUME NEW w \in Worker, WorkerStep(w) PROVE TokensConserved'
  BY <1>1, <1>2 DEF WorkerStep, StartTask, RecordOutcome, MarkFinished, TaskDone,
                    WorkerExits, loopVars, driverVars
<1>3. CASE StartWindow
  <2>1. Holders' = {} /\ tokens' = Capacity
    BY <1>3 DEF StartWindow, Holders
  <2> QED
    BY <2>1, FS_EmptySet, ConstantFacts DEF TokensConserved, Capacity
<1>4. CASE DriverStep /\ ~StartWindow
  BY <1>4 DEF DriverStep, Drain, NextLevel, EndWarmup, RunReturns, CloseJobs,
              CloseWorkers, TokensConserved
<1>5. CASE DeadlinePasses \/ Cancel \/ UNCHANGED vars
  BY <1>1, <1>5 DEF DeadlinePasses, Cancel, vars, poolVars, loopVars, driverVars
<1> QED
  BY TokensLoop, <1>2, <1>3, <1>4, <1>5 DEF Next, Finished

\* The channel of tokens never loses or gains a value (driver.go:121-171): a
\* loop that stops, for whatever reason, has put its token back.
THEOREM TokensKept == Spec => []TokensConserved
<1>1. Init => TokensConserved
  BY DEF Init, TokensConserved
<1> QED
  BY <1>1, TokensNext, Invariance, PTL DEF Spec

-------------------------------------------------------------------------------
(* The counters.                                                            *)

\* The tasks submitted in the current phase, and those of them that succeeded
\* and failed.
Mine       == {t \in Task : epoch[t] = phase}
MineOk     == {t \in Mine : st[t] = "ok"}
MineFailed == {t \in Mine : st[t] = "err"}

\* What CountersExact needs to be inductive: a task is submitted when its epoch
\* is set, one that has no outcome belongs to the current phase, and none is
\* ahead of it.
Epochs ==
  \A t \in Task :
    /\ epoch[t] = "none" <=> st[t] \in {"unborn", "created"}
    /\ st[t] \in {"queued", "started"} => epoch[t] = phase
    /\ phase = "warmup" => epoch[t] # "measurement"

Tallies ==
  /\ rec.queued = rec.created
  /\ rec.created = Cardinality(Mine)
  /\ rec.complete = Cardinality(MineOk)
  /\ rec.failed = Cardinality(MineFailed)

\* The tasks of a phase can be counted.
LEMMA MineFinite ==
  /\ IsFiniteSet(Mine) /\ Cardinality(Mine) \in Nat
  /\ IsFiniteSet(MineOk) /\ Cardinality(MineOk) \in Nat
  /\ IsFiniteSet(MineFailed) /\ Cardinality(MineFailed) \in Nat
<1>1. Mine \in SUBSET Task /\ MineOk \in SUBSET Task /\ MineFailed \in SUBSET Task
  BY DEF Mine, MineOk, MineFailed
<1> QED
  BY <1>1, FS_Subset, FS_CardinalityType, ClosedLoopAssumption

\* A step that sets no epoch and counts no task keeps the tallies.
LEMMA TalliesFrame ==
  ASSUME Tallies, UNCHANGED <<st, epoch, phase>>,
         \A c \in {"created", "queued", "complete", "failed"} : rec'[c] = rec[c]
  PROVE  Tallies'
  BY DEF Tallies, Mine, MineOk, MineFailed

\* A loop submits a task in the current phase.
LEMMA EpochsLoop ==
  ASSUME IInv, Epochs, NEW l \in Loop, LoopStep(l)
  PROVE  Epochs'
<1>1. /\ st \in [Task -> {"unborn", "created", "queued", "started"} \cup Outcome]
      /\ epoch \in [Task -> {"none", "warmup", "measurement"}]
      /\ phase \in {"warmup", "measurement"}
      /\ UNCHANGED phase
  BY LoopLives DEF IInv, TypeOK, driverVars
<1>2. ASSUME NEW t \in Task, NewTask(l, t) PROVE Epochs'
  <2>1. st' = [st EXCEPT ![t] = "created"] /\ st[t] = "unborn" /\ UNCHANGED epoch
    BY <1>2 DEF NewTask
  <2> QED
    BY <1>1, <2>1 DEF Epochs
<1>3. CASE Submit(l)
  <2>1. cur[l] \in Task /\ st[cur[l]] = "created"
    BY <1>3, ClosedLoopAssumption DEF Submit, IInv, Ownership, LoopHoldsTask, TypeOK
  <2>2. st' = [st EXCEPT ![cur[l]] = "queued"] /\ epoch' = [epoch EXCEPT ![cur[l]] = phase]
    BY <1>3 DEF Submit
  <2> QED
    BY <1>1, <2>1, <2>2 DEF Epochs
<1>4. CASE UNCHANGED <<st, epoch>>
  BY <1>1, <1>4 DEF Epochs
<1> QED
  BY <1>2, <1>3, <1>4 DEF LoopStep, LeaveCancelled, LoopContinues, CheckDeadline, TakeToken,
         ReturnStaleToken, Receive, SeeDone, AbandonTask, taskVars

\* A task that is submitted is counted in its own phase.
LEMMA TalliesLoop ==
  ASSUME IInv, Epochs, Tallies, NEW l \in Loop, LoopStep(l)
  PROVE  Tallies'
<1>1. UNCHANGED phase /\ phase \in {"warmup", "measurement"}
  BY LoopLives DEF IInv, TypeOK, driverVars
<1>2. CASE LeaveCancelled(l) \/ AbandonTask(l)
  <2>1. UNCHANGED <<st, epoch>> /\ Bump({"cancelled"}, {})
    BY <1>2 DEF LeaveCancelled, AbandonTask, CountAndLeave, taskVars
  <2>2. \A c \in {"created", "queued", "complete", "failed"} : rec'[c] = rec[c]
    BY <2>1 DEF Bump, CounterName, IInv, TypeOK
  <2> QED
    BY <1>1, <2>1, <2>2, TalliesFrame
<1>3. ASSUME NEW t \in Task, NewTask(l, t) PROVE Tallies'
  <2>1. Mine' = Mine /\ MineOk' = MineOk /\ MineFailed' = MineFailed
    BY <1>1, <1>3 DEF NewTask, Mine, MineOk, MineFailed, IInv, TypeOK
  <2> QED
    BY <1>3, <2>1 DEF NewTask, Tallies
<1>4. CASE Submit(l)
  <2> DEFINE t == cur[l]
  <2>1. t \in Task /\ st[t] = "created" /\ epoch[t] = "none"
    BY <1>4, ClosedLoopAssumption DEF Submit, IInv, Ownership, LoopHoldsTask, TypeOK, Epochs
  <2>2. /\ st' = [st EXCEPT ![t] = "queued"] /\ epoch' = [epoch EXCEPT ![t] = phase]
        /\ Bump({"created", "queued"}, {})
        /\ st \in [Task -> {"unborn", "created", "queued", "started"} \cup Outcome]
        /\ epoch \in [Task -> {"none", "warmup", "measurement"}]
    BY <1>4 DEF Submit, IInv, TypeOK
  <2> HIDE DEF t
  <2>3. Mine' = Mine \cup {t} /\ t \notin Mine
    BY <1>1, <2>1, <2>2 DEF Mine
  <2>4. MineOk' = MineOk /\ MineFailed' = MineFailed
    BY <1>1, <2>1, <2>2, <2>3 DEF MineOk, MineFailed
  <2>5. Cardinality(Mine') = Cardinality(Mine) + 1
    BY <2>3, MineFinite, FS_AddElement
  <2>6. /\ rec'["created"] = rec["created"] + 1 /\ rec'["queued"] = rec["queued"] + 1
        /\ rec'["complete"] = rec["complete"] /\ rec'["failed"] = rec["failed"]
    BY <2>2 DEF Bump, CounterName, IInv, TypeOK
  <2> QED
    BY <2>4, <2>5, <2>6 DEF Tallies
<1>5. CASE UNCHANGED <<st, epoch, rec>>
  BY <1>1, <1>5, TalliesFrame
<1> QED
  BY <1>2, <1>3, <1>4, <1>5 DEF LoopStep, LoopContinues, CheckDeadline, TakeToken,
         ReturnStaleToken, Receive, SeeDone, taskVars

\* A worker settles a task of the current phase.
LEMMA CountersWorker ==
  ASSUME IInv, Epochs, Tallies, NEW w \in Worker, WorkerStep(w)
  PROVE  Epochs' /\ Tallies'
<1> DEFINE t == job[w]
<1>1. /\ st \in [Task -> {"unborn", "created", "queued", "started"} \cup Outcome]
      /\ rec \in [CounterName -> Int]
      /\ UNCHANGED <<epoch, phase>>
  BY DEF IInv, TypeOK, WorkerStep, StartTask, RecordOutcome, MarkFinished, TaskDone,
         WorkerExits, taskVars, driverVars
<1>2. CASE StartTask(w)
  <2>1. /\ t \in Task /\ st[t] = "queued" /\ st' = [st EXCEPT ![t] = "started"]
        /\ Bump({"active"}, {})
    BY <1>2 DEF StartTask, IInv, TypeOK
  <2> HIDE DEF t
  <2>2. Epochs'
    BY <1>1, <2>1 DEF Epochs
  <2>3. Mine' = Mine /\ MineOk' = MineOk /\ MineFailed' = MineFailed
    BY <1>1, <2>1 DEF Mine, MineOk, MineFailed
  <2>4. \A c \in {"created", "queued", "complete", "failed"} : rec'[c] = rec[c]
    BY <1>1, <2>1 DEF Bump, CounterName
  <2> QED
    BY <2>2, <2>3, <2>4 DEF Tallies
<1>3. ASSUME NEW o \in Outcome, RecordOutcome(w, o) PROVE Epochs' /\ Tallies'
  <2> DEFINE c == CounterOf(o)
  <2>1. /\ t \in Task /\ st[t] = "started" /\ st' = [st EXCEPT ![t] = o]
        /\ Bump({c}, {"active"})
    BY <1>3 DEF RecordOutcome, IInv, TypeOK
  <2> HIDE DEF t
  <2>2. Epochs'
    BY <1>1, <2>1 DEF Epochs, Outcome
  <2>3. epoch[t] = phase /\ Mine' = Mine
    BY <1>1, <2>1 DEF Epochs, Mine
  <2>4. CASE o = "ok"
    <3>1. MineOk' = MineOk \cup {t} /\ t \notin MineOk /\ MineFailed' = MineFailed
      BY <1>1, <2>1, <2>3, <2>4 DEF Mine, MineOk, MineFailed
    <3>2. Cardinality(MineOk') = Cardinality(MineOk) + 1
      BY <3>1, MineFinite, FS_AddElement
    <3>3. c = "complete"
      BY <2>4 DEF CounterOf
    <3>4. /\ rec'["created"] = rec["created"] /\ rec'["queued"] = rec["queued"]
          /\ rec'["complete"] = rec["complete"] + 1 /\ rec'["failed"] = rec["failed"]
      BY <1>1, <2>1, <3>3 DEF Bump, CounterName
    <3> QED
      BY <2>2, <2>3, <3>1, <3>2, <3>4 DEF Tallies
  <2>5. CASE o = "err"
    <3>1. MineFailed' = MineFailed \cup {t} /\ t \notin MineFailed /\ MineOk' = MineOk
      BY <1>1, <2>1, <2>3, <2>5 DEF Mine, MineOk, MineFailed
    <3>2. Cardinality(MineFailed') = Cardinality(MineFailed) + 1
      BY <3>1, MineFinite, FS_AddElement
    <3>3. c = "failed"
      BY <2>5 DEF CounterOf
    <3>4. /\ rec'["created"] = rec["created"] /\ rec'["queued"] = rec["queued"]
          /\ rec'["complete"] = rec["complete"] /\ rec'["failed"] = rec["failed"] + 1
      BY <1>1, <2>1, <3>3 DEF Bump, CounterName
    <3> QED
      BY <2>2, <2>3, <3>1, <3>2, <3>4 DEF Tallies
  <2> QED
    BY <2>4, <2>5 DEF Outcome
<1>4. CASE UNCHANGED <<st, rec>>
  BY <1>1, <1>4, TalliesFrame DEF Epochs
<1> QED
  BY <1>2, <1>3, <1>4 DEF WorkerStep, MarkFinished, TaskDone, WorkerExits, taskVars

\* The Reset between the phases finds no task that is still to be counted.
LEMMA CountersDriver ==
  ASSUME IInv, Epochs, Tallies, DriverStep
  PROVE  Epochs' /\ Tallies'
<1>1. CASE EndWarmup
  <2>1. /\ UNCHANGED <<st, epoch>> /\ rec' = ZeroCounters /\ pending = 0
        /\ phase = "warmup" /\ phase' = "measurement"
    BY <1>1 DEF EndWarmup, AfterReset, IInv, Phases, taskVars
  <2>2. Unsettled = {}
    BY <2>1, NothingOwed DEF IInv
  <2>3. Epochs'
    BY <2>1, <2>2 DEF Epochs, Unsettled
  <2>4. Mine' = {} /\ MineOk' = {} /\ MineFailed' = {}
    BY <2>1 DEF Epochs, Mine, MineOk, MineFailed
  <2>5. \A c \in CounterName : rec'[c] = 0
    BY <2>1 DEF ZeroCounters
  <2>6. /\ rec'["created"] = 0 /\ rec'["queued"] = 0
        /\ rec'["complete"] = 0 /\ rec'["failed"] = 0
    BY <2>5 DEF CounterName
  <2> QED
    BY <2>3, <2>4, <2>6, FS_EmptySet DEF Tallies
<1>2. CASE ~EndWarmup
  <2>1. UNCHANGED <<st, epoch, rec, phase>>
    BY <1>2 DEF DriverStep, StartWindow, Drain, NextLevel, RunReturns, CloseJobs,
                CloseWorkers, poolVars, taskVars
  <2> QED
    BY <2>1, TalliesFrame DEF Epochs
<1> QED
  BY <1>1, <1>2

\* No task is counted at the start.
LEMMA CountersInit == Init => Epochs /\ Tallies
<1> SUFFICES ASSUME Init PROVE Epochs /\ Tallies
  OBVIOUS
<1>1. Epochs
  BY DEF Init, Epochs
<1>2. Mine = {} /\ MineOk = {} /\ MineFailed = {}
  BY DEF Init, Mine, MineOk, MineFailed
<1>3. /\ rec["created"] = 0 /\ rec["queued"] = 0
      /\ rec["complete"] = 0 /\ rec["failed"] = 0
  BY DEF Init, ZeroCounters, CounterName
<1> QED
  BY <1>1, <1>2, <1>3, FS_EmptySet DEF Tallies

\* Every step keeps the counters exact.
LEMMA CountersNext == IInv /\ Epochs /\ Tallies /\ [Next]_vars => Epochs' /\ Tallies'
<1> SUFFICES ASSUME IInv, Epochs, Tallies, [Next]_vars PROVE Epochs' /\ Tallies'
  OBVIOUS
<1>1. CASE DeadlinePasses \/ Cancel \/ UNCHANGED vars
  <2>1. UNCHANGED <<st, epoch, rec, phase>>
    BY <1>1 DEF DeadlinePasses, Cancel, vars, poolVars, taskVars, driverVars
  <2> QED
    BY <2>1, TalliesFrame DEF Epochs
<1> QED
  BY EpochsLoop, TalliesLoop, CountersWorker, CountersDriver, <1>1 DEF Next, Finished

\* The counters are exact with the epochs they need.
LEMMA CountersInv == Spec => [](Epochs /\ Tallies)
  BY CountersInit, CountersNext, Invariance, PTL DEF Spec

\* The counters of the Recorder are exact at every moment (metrics.go:107-170):
\* they count the tasks submitted since the last Reset and none of an earlier
\* phase.
THEOREM CountersAreExact == Spec => []CountersExact
<1>1. IInv /\ Tallies => CountersExact
  BY DEF IInv, Accounts, Running, Tallies, Mine, MineOk, MineFailed, CountersExact
<1> QED
  BY <1>1, CountersInv, Invariance, PTL

-------------------------------------------------------------------------------
(* The tasks in flight. A loop that is cancelled while it waits leaves its  *)
(* task to the worker: an orphan. There are no more orphans than loops that *)
(* have left, and none before the cancellation.                             *)

\* The loops of the level that have left, and those that have not; the tasks in
\* flight a loop waits for, and the orphans.
Left    == {l \in Levels[level] : pc[l] = "off"}
Staying == {l \in Levels[level] : pc[l] # "off"}
Held    == {t \in InFlight : \E l \in Loop : cur[l] = t}
Orphans == InFlight \ Held

\* What InFlightBounded and CancelledOnce need to be inductive.
Bounds ==
  /\ \A l \in Loop : pc[l] # "off" => l \in Levels[level]
  /\ Cardinality(Orphans) <= Cardinality(Left)
  /\ rec.cancelled <= Cardinality(Left)
  /\ ~cancelled => Orphans = {} /\ rec.cancelled = 0
  /\ dpc = "begin" => rec.cancelled = 0

\* The loops and tasks the bounds count are finite sets.
LEMMA BoundsFinite ==
  ASSUME TypeOK
  PROVE  /\ IsFiniteSet(Levels[level]) /\ Cardinality(Levels[level]) \in Nat
         /\ IsFiniteSet(Left) /\ Cardinality(Left) \in Nat
         /\ IsFiniteSet(Staying) /\ Cardinality(Staying) \in Nat
         /\ IsFiniteSet(Held) /\ Cardinality(Held) \in Nat
         /\ IsFiniteSet(Orphans) /\ Cardinality(Orphans) \in Nat
         /\ Left \subseteq Levels[level] /\ Levels[level] \subseteq Loop
<1>1. Levels[level] \subseteq Loop
  BY ConstantFacts DEF TypeOK
<1>2. Left \in SUBSET Loop /\ Staying \in SUBSET Loop /\ Levels[level] \in SUBSET Loop
  BY <1>1 DEF Left, Staying
<1>3. Held \in SUBSET Task /\ Orphans \in SUBSET Task
  BY DEF Held, Orphans, InFlight
<1>4. Left \subseteq Levels[level]
  BY DEF Left
<1> QED
  BY <1>1, <1>2, <1>3, <1>4, FS_Subset, FS_CardinalityType, ClosedLoopAssumption

\* With nothing pending, nothing is in flight.
LEMMA NothingInFlight ==
  ASSUME IInv, pending = 0
  PROVE  InFlight = {} /\ Orphans = {}
<1>1. Unsettled = {} /\ \A w \in Worker : job[w] = NoTask
  BY NothingOwed DEF IInv
<1>2. InFlight = {}
  BY <1>1, ClosedLoopAssumption
     DEF InFlight, Unsettled, IInv, Ownership, SettledKept, Outcome
<1> QED
  BY <1>2 DEF Orphans

\* No loop leaves and no orphan appears.
LEMMA BoundsFrame ==
  ASSUME TypeOK, Bounds, Left' = Left, Orphans' \subseteq Orphans,
         level' = level, dpc' = dpc, cancelled => cancelled',
         rec'["cancelled"] = rec["cancelled"],
         \A l \in Loop : pc'[l] # "off" => l \in Levels[level]
  PROVE  Bounds'
<1>1. Cardinality(Orphans') <= Cardinality(Orphans) /\ Cardinality(Orphans') \in Nat
  BY BoundsFinite, FS_Subset, FS_CardinalityType
<1>2. /\ Cardinality(Orphans) <= Cardinality(Left)
      /\ Cardinality(Orphans) \in Nat /\ Cardinality(Left) \in Nat
  BY BoundsFinite DEF Bounds
<1>3. Cardinality(Orphans') <= Cardinality(Left')
  BY <1>1, <1>2
<1>4. (~cancelled => Orphans = {})'
  BY DEF Bounds
<1> QED
  BY <1>3, <1>4 DEF Bounds

\* A loop of the level leaves: one more of either kind is allowed for.
LEMMA BoundsLeave ==
  ASSUME TypeOK, Bounds, NEW l \in Levels[level], pc[l] # "off",
         pc' = [pc EXCEPT ![l] = "off"], level' = level, dpc' = dpc,
         cancelled' = cancelled, dpc = "loops",
         \/ Orphans' = Orphans
         \/ cancelled /\ \E t : Orphans' \subseteq Orphans \cup {t},
         \/ rec'["cancelled"] = rec["cancelled"]
         \/ cancelled /\ rec'["cancelled"] = rec["cancelled"] + 1
  PROVE  Bounds'
<1>1. /\ pc \in [Loop -> {"off", "top", "deadline", "token", "recheck",
                          "submit", "send", "wait"}]
      /\ l \in Loop /\ rec["cancelled"] \in Int
  BY BoundsFinite DEF TypeOK, CounterName
<1>2. Left' = Left \cup {l} /\ l \notin Left
  BY <1>1 DEF Left
<1>3. Cardinality(Left') = Cardinality(Left) + 1
  BY <1>2, BoundsFinite, FS_AddElement
<1>4. /\ Cardinality(Orphans) <= Cardinality(Left)
      /\ rec["cancelled"] <= Cardinality(Left)
      /\ Cardinality(Orphans) \in Nat /\ Cardinality(Left) \in Nat
  BY BoundsFinite DEF Bounds
<1>5. Cardinality(Orphans') <= Cardinality(Left')
  <2>1. CASE Orphans' = Orphans
    BY <2>1, <1>3, <1>4
  <2>2. ASSUME NEW t, Orphans' \subseteq Orphans \cup {t}
        PROVE  Cardinality(Orphans') <= Cardinality(Left')
    <3>1. /\ IsFiniteSet(Orphans \cup {t})
          /\ Cardinality(Orphans \cup {t}) <= Cardinality(Orphans) + 1
          /\ Cardinality(Orphans \cup {t}) \in Nat
      BY BoundsFinite, FS_AddElement, FS_CardinalityType
    <3>2. /\ Cardinality(Orphans') <= Cardinality(Orphans \cup {t})
          /\ Cardinality(Orphans') \in Nat
      BY <2>2, <3>1, FS_Subset, FS_CardinalityType
    <3> QED
      BY <3>1, <3>2, <1>3, <1>4
  <2> QED
    BY <2>1, <2>2
<1>6. rec'["cancelled"] <= Cardinality(Left')
  BY <1>1, <1>3, <1>4
<1>7. \A k \in Loop : pc'[k] # "off" => k \in Levels[level]
  BY <1>1 DEF Bounds
<1>8. ~cancelled' => Orphans' = {} /\ rec'["cancelled"] = 0
  BY DEF Bounds
<1> QED
  BY <1>5, <1>6, <1>7, <1>8 DEF Bounds

\* A loop leaves at most one orphan, and is gone from the level with it.
LEMMA BoundsLoop ==
  ASSUME IInv, Bounds, NEW l \in Loop, LoopStep(l)
  PROVE  Bounds'
<1>1. /\ dpc = "loops" /\ pc[l] # "off" /\ level' = level /\ dpc' = dpc
      /\ l \in Levels[level] /\ UNCHANGED driverVars /\ TypeOK
  BY LoopLives DEF IInv, Bounds, driverVars
<1>2. /\ pc \in [Loop -> {"off", "top", "deadline", "token", "recheck",
                          "submit", "send", "wait"}]
      /\ cur \in [Loop -> Task \cup {NoTask}]
      /\ st \in [Task -> {"unborn", "created", "queued", "started"} \cup Outcome]
      /\ rec \in [CounterName -> Int]
      /\ cancelled' = cancelled
  BY DEF IInv, TypeOK, LoopStep, LeaveCancelled, LoopContinues, CheckDeadline, TakeToken,
         ReturnStaleToken, NewTask, Submit, Receive, SeeDone, AbandonTask
\* A step to another place in the loop.
<1>3. ASSUME NEW a, a # "off", pc' = [pc EXCEPT ![l] = a],
             rec'["cancelled"] = rec["cancelled"], Orphans' \subseteq Orphans
      PROVE  Bounds'
  <2>1. \A k \in Loop : pc'[k] = "off" <=> pc[k] = "off"
    BY <1>1, <1>2, <1>3
  <2>2. Left' = Left
    BY <1>1, <2>1, BoundsFinite DEF Left
  <2>3. \A k \in Loop : pc'[k] # "off" => k \in Levels[level]
    BY <2>1 DEF Bounds
  <2> QED
    BY <1>1, <1>2, <1>3, <2>2, <2>3, BoundsFrame
<1>4. CASE CheckDeadline(l) \/ ReturnStaleToken(l) \/ LoopContinues(l) \/ TakeToken(l)
  <2>1. UNCHANGED <<st, done, cur, rec>>
    BY <1>4 DEF CheckDeadline, ReturnStaleToken, LoopContinues, TakeToken, taskVars
  <2>2. Orphans' = Orphans
    BY <2>1 DEF Orphans, Held, InFlight
  <2>3. \E a \in {"off", "token", "deadline", "recheck"} : pc' = [pc EXCEPT ![l] = a]
    BY <1>4 DEF CheckDeadline, ReturnStaleToken, LoopContinues, TakeToken
  <2>4. CASE pc' = [pc EXCEPT ![l] = "off"]
    BY <1>1, <1>2, <2>1, <2>2, <2>4, BoundsLeave
  <2> QED
    BY <1>3, <2>1, <2>2, <2>3, <2>4
<1>5. CASE LeaveCancelled(l)
  <2>1. /\ UNCHANGED <<st, done, cur>> /\ cancelled /\ Bump({"cancelled"}, {})
        /\ pc' = [pc EXCEPT ![l] = "off"]
    BY <1>5 DEF LeaveCancelled, CountAndLeave, taskVars
  <2>2. Orphans' = Orphans
    BY <2>1 DEF Orphans, Held, InFlight
  <2>3. rec'["cancelled"] = rec["cancelled"] + 1
    BY <1>2, <2>1 DEF Bump, CounterName
  <2> QED
    BY <1>1, <1>2, <2>1, <2>2, <2>3, BoundsLeave
<1>6. CASE AbandonTask(l)
  <2>1. /\ UNCHANGED <<st, done>> /\ cancelled /\ Bump({"cancelled"}, {})
        /\ pc' = [pc EXCEPT ![l] = "off"] /\ cur' = [cur EXCEPT ![l] = NoTask]
    BY <1>6 DEF AbandonTask, CountAndLeave, taskVars
  <2>2. Orphans' \subseteq Orphans \cup {cur[l]}
    BY <1>2, <2>1 DEF Orphans, Held, InFlight
  <2>3. rec'["cancelled"] = rec["cancelled"] + 1
    BY <1>2, <2>1 DEF Bump, CounterName
  <2> QED
    BY <1>1, <1>2, <2>1, <2>2, <2>3, BoundsLeave
<1>7. ASSUME NEW t \in Task, NewTask(l, t) PROVE Bounds'
  <2>1. /\ st[t] = "unborn" /\ st' = [st EXCEPT ![t] = "created"] /\ UNCHANGED <<done, rec>>
        /\ cur' = [cur EXCEPT ![l] = t] /\ pc' = [pc EXCEPT ![l] = "submit"]
        /\ pc[l] = "recheck"
    BY <1>7 DEF NewTask
  <2>2. cur[l] = NoTask /\ t \notin InFlight
    BY <2>1 DEF IInv, Ownership, LoopHoldsTask, InFlight, Outcome
  <2>3. InFlight' = InFlight
    BY <1>2, <2>1 DEF InFlight, Outcome
  <2>4. \A u \in InFlight : (\E k \in Loop : cur[k] = u) => \E k \in Loop : cur'[k] = u
    BY <1>2, <2>1, <2>2, ClosedLoopAssumption DEF InFlight
  <2>5. Orphans' \subseteq Orphans
    BY <2>3, <2>4 DEF Orphans, Held
  <2> QED
    BY <1>3, <2>1, <2>5
<1>8. CASE Submit(l)
  <2>1. /\ st' = [st EXCEPT ![cur[l]] = "queued"] /\ UNCHANGED <<done, cur>>
        /\ pc' = [pc EXCEPT ![l] = "send"] /\ Bump({"created", "queued"}, {})
    BY <1>8 DEF Submit
  <2>2. InFlight' \subseteq InFlight \cup {cur[l]}
    BY <1>2, <2>1 DEF InFlight
  <2>3. Orphans' \subseteq Orphans
    BY <2>1, <2>2 DEF Orphans, Held
  <2>4. rec'["cancelled"] = rec["cancelled"]
    BY <1>2, <2>1 DEF Bump, CounterName
  <2> QED
    BY <1>3, <2>1, <2>3, <2>4
<1>9. ASSUME NEW w \in Worker, Receive(l, w) PROVE Bounds'
  <2>1. UNCHANGED <<st, done, cur, rec>> /\ pc' = [pc EXCEPT ![l] = "wait"]
    BY <1>9 DEF Receive, taskVars
  <2>2. Orphans' \subseteq Orphans
    BY <2>1 DEF Orphans, Held, InFlight
  <2> QED
    BY <1>3, <2>1, <2>2
<1>10. CASE SeeDone(l)
  <2>1. /\ UNCHANGED <<st, done, rec>> /\ pc' = [pc EXCEPT ![l] = "top"]
        /\ cur' = [cur EXCEPT ![l] = NoTask] /\ cur[l] \in done
    BY <1>10 DEF SeeDone, taskVars
  <2>2. InFlight' = InFlight /\ cur[l] \notin InFlight
    BY <2>1 DEF InFlight
  <2>3. \A u \in InFlight : (\E k \in Loop : cur[k] = u) => \E k \in Loop : cur'[k] = u
    BY <1>2, <2>1, <2>2
  <2>4. Orphans' \subseteq Orphans
    BY <2>2, <2>3 DEF Orphans, Held
  <2> QED
    BY <1>3, <2>1, <2>4
<1> QED
  BY <1>4, <1>5, <1>6, <1>7, <1>8, <1>9, <1>10 DEF LoopStep

\* A worker makes no orphan.
LEMMA BoundsWorker ==
  ASSUME IInv, Bounds, NEW w \in Worker, WorkerStep(w)
  PROVE  Bounds'
<1>1. /\ UNCHANGED <<driverVars, loopVars, cancelled>> /\ TypeOK
      /\ st \in [Task -> {"unborn", "created", "queued", "started"} \cup Outcome]
      /\ rec \in [CounterName -> Int]
  BY DEF IInv, TypeOK, WorkerStep, StartTask, RecordOutcome, MarkFinished, TaskDone,
         WorkerExits
<1>2. InFlight' \subseteq InFlight
  <2>1. CASE StartTask(w)
    BY <1>1, <2>1 DEF StartTask, InFlight
  <2>2. ASSUME NEW o \in Outcome, RecordOutcome(w, o) PROVE InFlight' \subseteq InFlight
    BY <1>1, <2>2 DEF RecordOutcome, InFlight
  <2>3. CASE UNCHANGED st /\ done \subseteq done'
    BY <2>3 DEF InFlight
  <2> QED
    BY <2>1, <2>2, <2>3 DEF WorkerStep, MarkFinished, TaskDone, WorkerExits, taskVars
<1>3. rec'["cancelled"] = rec["cancelled"]
  <2>1. ASSUME NEW o \in Outcome, RecordOutcome(w, o) PROVE rec'["cancelled"] = rec["cancelled"]
    BY <1>1, <2>1 DEF RecordOutcome, CounterOf, Bump, CounterName
  <2> QED
    BY <1>1, <2>1 DEF WorkerStep, StartTask, MarkFinished, TaskDone, WorkerExits,
                      Bump, CounterName
<1>4. Orphans' \subseteq Orphans /\ Left' = Left
  BY <1>1, <1>2 DEF Orphans, Held, Left, loopVars, driverVars
<1>5. \A l \in Loop : pc'[l] # "off" => l \in Levels[level]
  BY <1>1 DEF Bounds, loopVars
<1> QED
  BY <1>1, <1>3, <1>4, <1>5, BoundsFrame DEF driverVars

\* A window starts with every loop of its level and with no task in flight.
LEMMA BoundsDriver ==
  ASSUME IInv, Bounds, DriverStep
  PROVE  Bounds'
<1>1. TypeOK /\ TypeOK'
  BY TypeDriver DEF IInv
<1>2. UNCHANGED <<st, done, cur, pending, job, cancelled>>
  BY DEF DriverStep, StartWindow, Drain, NextLevel, EndWarmup, RunReturns, CloseJobs,
         CloseWorkers, poolVars, loopVars, taskVars, workerVars
<1>3. CASE StartWindow \/ NextLevel \/ EndWarmup
  <2>1. pending = 0 /\ rec'["cancelled"] = 0
    BY <1>3 DEF StartWindow, NextLevel, EndWarmup, AfterReset, ZeroCounters, CounterName,
                IInv, Phases, Bounds, poolVars
  <2>2. Orphans' = {}
    BY <1>2, <2>1, NothingInFlight DEF Orphans, InFlight
  <2>3. Cardinality(Orphans') = 0 /\ Cardinality(Left') \in Nat
    <3>1. Cardinality(Left)' \in Nat
      <4>1. Levels[level'] \subseteq Loop
        BY <1>1, ConstantFacts DEF TypeOK
      <4>2. Left' \in SUBSET Loop
        BY <4>1 DEF Left
      <4> QED
        BY <4>2, FS_Subset, FS_CardinalityType, ClosedLoopAssumption
    <3> QED
      BY <2>2, <3>1, FS_EmptySet
  <2>4. \A l \in Loop : pc'[l] # "off" => l \in Levels[level']
    BY <1>3 DEF StartWindow, NextLevel, EndWarmup, IInv, Phases, poolVars, loopVars
  <2> QED
    BY <2>1, <2>2, <2>3, <2>4 DEF Bounds
<1>4. CASE Drain \/ RunReturns \/ CloseJobs \/ CloseWorkers
  <2>1. UNCHANGED <<pc, rec, level>> /\ dpc' # "begin"
    BY <1>4 DEF Drain, RunReturns, CloseJobs, CloseWorkers, poolVars, loopVars
  <2>2. Left' = Left /\ Orphans' = Orphans
    BY <1>2, <2>1 DEF Left, Orphans, Held, InFlight
  <2> QED
    BY <1>2, <2>1, <2>2 DEF Bounds
<1> QED
  BY <1>3, <1>4 DEF DriverStep

\* Every step keeps the bounds.
LEMMA BoundsNext == IInv /\ Bounds /\ [Next]_vars => Bounds'
<1> SUFFICES ASSUME IInv, Bounds, [Next]_vars PROVE Bounds'
  OBVIOUS
<1>1. CASE DeadlinePasses \/ Cancel \/ UNCHANGED vars
  <2>1. UNCHANGED <<pc, cur, st, done, rec, level, dpc>> /\ (cancelled => cancelled')
    BY <1>1 DEF DeadlinePasses, Cancel, vars, poolVars, loopVars, taskVars, driverVars
  <2>2. Left' = Left /\ Orphans' = Orphans
    BY <2>1 DEF Left, Orphans, Held, InFlight
  <2> QED
    BY <2>1, <2>2 DEF Bounds
<1> QED
  BY BoundsLoop, BoundsWorker, BoundsDriver, <1>1 DEF Next, Finished

\* Nothing is in flight at the start.
LEMMA BoundsInit == Init => Bounds
<1> SUFFICES ASSUME Init PROVE Bounds
  OBVIOUS
<1>1. TypeOK
  BY TypeInit
<1>2. Orphans = {}
  BY DEF Init, Orphans, InFlight, Outcome
<1>3. rec["cancelled"] = 0
  BY DEF Init, ZeroCounters, CounterName
<1>4. Cardinality(Orphans) = 0 /\ Cardinality(Left) \in Nat
  BY <1>1, <1>2, BoundsFinite, FS_EmptySet
<1> QED
  BY <1>2, <1>3, <1>4 DEF Init, Bounds

\* The bounds hold in every reachable state.
LEMMA BoundsInv == Spec => []Bounds
  BY BoundsInit, BoundsNext, Invariance, PTL DEF Spec

\* Each task in flight that is not an orphan is held by a loop of its own.
LEMMA HeldFew ==
  ASSUME IInv, NEW S \in SUBSET Loop,
         \A l \in Loop : pc[l] \in {"submit", "send", "wait"} => l \in S
  PROVE  Cardinality(Held) <= Cardinality(S)
<1> DEFINE holder == [t \in Held |-> CHOOSE l \in Loop : cur[l] = t]
<1>1. \A t \in Held : holder[t] \in Loop /\ cur[holder[t]] = t
  BY DEF Held
<1>2. NoTask \notin Held
  BY ClosedLoopAssumption DEF Held, InFlight
<1> HIDE DEF holder
<1>3. \A t \in Held : pc[holder[t]] \in {"submit", "send", "wait"}
  BY <1>1, <1>2 DEF IInv, Ownership, LoopHoldsTask
<1>4. \A t \in Held : holder[t] \in S
  BY <1>1, <1>3
<1>5. holder \in [Held -> S]
  BY <1>4 DEF holder
<1>6. \A t, u \in Held : holder[t] = holder[u] => t = u
  BY <1>1
<1>7. holder \in Injection(Held, S)
  BY <1>5, <1>6, Fun_IsInj
<1>8. IsFiniteSet(S)
  BY FS_Subset, ClosedLoopAssumption
<1> QED
  BY <1>7, <1>8, FS_Injection

\* The tasks in flight are the orphans and those held.
LEMMA InFlightParts ==
  ASSUME TypeOK
  PROVE  /\ Cardinality(InFlight) = Cardinality(Orphans) + Cardinality(Held)
         /\ Cardinality(Levels[level]) = Cardinality(Left) + Cardinality(Staying)
<1>1. InFlight = Orphans \cup Held /\ Orphans \cap Held = {}
  BY DEF Orphans, Held
<1>2. Levels[level] = Left \cup Staying /\ Left \cap Staying = {}
  BY DEF Left, Staying
<1>3. ASSUME NEW S, NEW T, IsFiniteSet(S), IsFiniteSet(T), S \cap T = {}
      PROVE  Cardinality(S \cup T) = Cardinality(S) + Cardinality(T)
  <2>1. Cardinality(S \cup T) = Cardinality(S) + Cardinality(T) - Cardinality(S \cap T)
    BY <1>3, FS_Union
  <2>2. /\ Cardinality(S \cap T) = 0
        /\ Cardinality(S) \in Nat /\ Cardinality(T) \in Nat
    BY <1>3, FS_EmptySet, FS_CardinalityType
  <2> QED
    BY <2>1, <2>2
<1>4. /\ IsFiniteSet(Orphans) /\ IsFiniteSet(Held)
      /\ IsFiniteSet(Left) /\ IsFiniteSet(Staying)
  BY BoundsFinite
<1>5. Cardinality(Orphans \cup Held) = Cardinality(Orphans) + Cardinality(Held)
  BY <1>1, <1>3, <1>4
<1>6. Cardinality(Left \cup Staying) = Cardinality(Left) + Cardinality(Staying)
  BY <1>2, <1>3, <1>4
<1> QED
  BY <1>1, <1>2, <1>5, <1>6

\* Never more unfinished tasks than loops in the window, and, until the run is
\* cancelled, never more than workers (driver.go:113-119).
THEOREM InFlightIsBounded == Spec => []InFlightBounded
<1>1. IInv /\ Bounds /\ TokensConserved => InFlightBounded
  <2> SUFFICES ASSUME IInv, Bounds, TokensConserved PROVE InFlightBounded
    OBVIOUS
  <2>1. TypeOK
    BY DEF IInv
  <2>2. Cardinality(InFlight) <= Cardinality(Levels[level])
    <3>1. Cardinality(Held) <= Cardinality(Staying)
      <4>1. Staying \in SUBSET Loop
        BY <2>1, BoundsFinite DEF Staying
      <4>2. \A l \in Loop : pc[l] \in {"submit", "send", "wait"} => l \in Staying
        BY DEF Bounds, Staying
      <4> QED
        BY <4>1, <4>2, HeldFew
    <3>2. Cardinality(Orphans) <= Cardinality(Left)
      BY DEF Bounds
    <3> QED
      BY <2>1, <3>1, <3>2, InFlightParts, BoundsFinite
  <2>3. ASSUME ~cancelled PROVE Cardinality(InFlight) <= Cardinality(Worker)
    <3>1. Cardinality(Held) <= Cardinality(Holders)
      <4>1. Holders \in SUBSET Loop
        BY DEF Holders
      <4>2. \A l \in Loop : pc[l] \in {"submit", "send", "wait"} => l \in Holders
        BY DEF Holders
      <4> QED
        BY <4>1, <4>2, HeldFew
    <3>2. Orphans = {}
      BY <2>3 DEF Bounds
    <3>3. Cardinality(InFlight) = Cardinality(Held)
      BY <2>1, <3>2, InFlightParts, BoundsFinite, FS_EmptySet
    <3>4. CASE dpc = "loops"
      <4>1. tokens \in Nat /\ tokens + Cardinality(Holders) = Cardinality(Worker)
        BY <3>4 DEF IInv, TypeOK, TokensConserved, Capacity
      <4> QED
        BY <2>1, <3>1, <3>3, <4>1, HoldersFinite, BoundsFinite
    <3>5. CASE dpc # "loops"
      <4>1. Holders = {}
        BY <3>5 DEF IInv, Phases, Holders
      <4> QED
        BY <2>1, <3>1, <3>3, <4>1, FS_EmptySet, BoundsFinite, ConstantFacts DEF Capacity
    <3> QED
      BY <3>4, <3>5
  <2> QED
    BY <2>2, <2>3 DEF InFlightBounded
<1> QED
  BY <1>1, BoundsInv, TokensKept, Invariance, PTL

\* TaskCancelled counts loops, each at most once: the windows after the one
\* that met the cancellation never start (driver.go:128-160).
THEOREM CancelledAtMostOnce == Spec => []CancelledOnce
<1>1. IInv /\ Bounds => CancelledOnce
  <2> SUFFICES ASSUME IInv, Bounds PROVE CancelledOnce
    OBVIOUS
  <2>1. TypeOK /\ rec.cancelled \in Int /\ rec.cancelled <= Cardinality(Left)
    BY DEF IInv, TypeOK, CounterName, Bounds
  <2>2. /\ Cardinality(Levels[level]) = Cardinality(Left) + Cardinality(Staying)
        /\ Cardinality(Left) \in Nat /\ Cardinality(Staying) \in Nat
    BY <2>1, InFlightParts, BoundsFinite
  <2> QED
    BY <2>1, <2>2 DEF CancelledOnce
<1> QED
  BY <1>1, BoundsInv, Invariance, PTL

-------------------------------------------------------------------------------
(* The refinement: a run is a behaviour of TaskLedger.                      *)

\* No task is settled, started or counted once Driver.Run has returned.
LEMMA ReturnedQuiet ==
  ASSUME IInv, HasReturned, [Next]_vars
  PROVE  UNCHANGED <<st, epoch, rec, phase>> /\ HasReturned'
<1>1. /\ dpc \in {"returned", "closing", "closed"} /\ pending = 0
      /\ \A l \in Loop : pc[l] = "off"
  BY DEF IInv, Phases, HasReturned
<1>2. \A w \in Worker : job[w] = NoTask
  BY <1>1, NothingOwed DEF IInv
<1>3. ASSUME NEW l \in Loop, LoopStep(l) PROVE FALSE
  BY <1>1, <1>3, LoopLives DEF IInv
<1>4. ASSUME NEW w \in Worker, WorkerStep(w)
      PROVE  UNCHANGED <<st, epoch, rec, driverVars>>
  <2>1. job[w] = NoTask /\ NoTask \notin done
    BY <1>2, ClosedLoopAssumption DEF IInv, TypeOK
  <2>2. MarkFinished(w) \/ WorkerExits(w)
    BY <1>4, <2>1 DEF WorkerStep, StartTask, RecordOutcome, TaskDone
  <2> QED
    BY <2>2 DEF MarkFinished, WorkerExits, taskVars
<1>5. ASSUME DriverStep PROVE UNCHANGED <<st, epoch, rec, phase>> /\ HasReturned'
  BY <1>1, <1>5 DEF DriverStep, StartWindow, Drain, NextLevel, EndWarmup, RunReturns,
                    CloseJobs, CloseWorkers, HasReturned, poolVars, taskVars
<1>6. CASE DeadlinePasses \/ Cancel \/ UNCHANGED vars
  BY <1>1, <1>6 DEF DeadlinePasses, Cancel, vars, poolVars, taskVars, driverVars, HasReturned
<1> QED
  BY <1>3, <1>4, <1>5, <1>6 DEF Next, Finished, driverVars, HasReturned

\* The ledger's view of the run.
Statuses == [t \in Task |-> StatusOf(t)]
Window   == IF HasReturned THEN "closed" ELSE phase
Report   == IF HasReturned
            THEN [created  |-> rec.created, complete |-> rec.complete, failed |-> rec.failed]
            ELSE NoTask

\* The ledger sees the tasks through their state and their phase.
LEMMA StatusFrame ==
  ASSUME UNCHANGED <<st, epoch, phase>>
  PROVE  Statuses' = Statuses
  BY DEF Statuses, StatusOf

\* Before the return, a step that changes no status and does not return is a
\* stutter of the ledger.
LEMMA Stutter ==
  ASSUME ~HasReturned, ~HasReturned', phase' = phase, Statuses' = Statuses
  PROVE  UNCHANGED Ledger!vars
  BY DEF Ledger!vars, Statuses, HasReturned

\* A loop that submits is the ledger's accepting step; the others are stutters.
LEMMA LedgerLoop ==
  ASSUME IInv, Epochs, NEW l \in Loop, LoopStep(l)
  PROVE  Ledger!Next \/ UNCHANGED Ledger!vars
<1>1. /\ dpc = "loops" /\ dpc' = "loops" /\ phase' = phase
      /\ phase \in {"warmup", "measurement"}
      /\ st \in [Task -> {"unborn", "created", "queued", "started"} \cup Outcome]
      /\ epoch \in [Task -> {"none", "warmup", "measurement"}]
  BY LoopLives DEF IInv, TypeOK, driverVars
<1>2. ~HasReturned /\ ~HasReturned'
  BY <1>1 DEF HasReturned
<1>3. ASSUME NEW t \in Task, NewTask(l, t) PROVE UNCHANGED Ledger!vars
  <2>1. st' = [st EXCEPT ![t] = "created"] /\ st[t] = "unborn" /\ UNCHANGED epoch
    BY <1>3 DEF NewTask
  <2>2. epoch[t] = "none"
    BY <2>1 DEF Epochs
  <2>3. \A u \in Task : StatusOf(u)' = StatusOf(u)
    BY <1>1, <2>1, <2>2 DEF StatusOf
  <2>4. Statuses' = Statuses
    BY <2>3 DEF Statuses
  <2> QED
    BY <1>1, <1>2, <2>4, Stutter
<1>4. CASE Submit(l)
  <2>1. PICK t \in Task :
          /\ st[t] = "created" /\ epoch[t] = "none"
          /\ st' = [st EXCEPT ![t] = "queued"] /\ epoch' = [epoch EXCEPT ![t] = phase]
    BY <1>4, ClosedLoopAssumption DEF Submit, IInv, Ownership, LoopHoldsTask, TypeOK, Epochs
  <2>2. StatusOf(t) = "unborn" /\ StatusOf(t)' = "accepted"
    BY <1>1, <2>1 DEF StatusOf, Outcome
  <2>3. \A u \in Task : u # t => StatusOf(u)' = StatusOf(u)
    BY <1>1, <2>1 DEF StatusOf
  <2>4. Statuses' = [Statuses EXCEPT ![t] = "accepted"]
    BY <2>1, <2>2, <2>3 DEF Statuses
  <2>5. Ledger!Accept(t)
    BY <1>1, <1>2, <2>2, <2>4 DEF Ledger!Accept, Statuses
  <2> QED
    BY <2>1, <2>5 DEF Ledger!Next
<1>5. CASE UNCHANGED <<st, epoch>>
  BY <1>1, <1>2, <1>5, StatusFrame, Stutter
<1> QED
  BY <1>3, <1>4, <1>5 DEF LoopStep, LeaveCancelled, LoopContinues, CheckDeadline, TakeToken,
         ReturnStaleToken, Receive, SeeDone, AbandonTask, taskVars

\* A worker that settles a task is a step of the ledger that settles it.
LEMMA LedgerWorker ==
  ASSUME IInv, Epochs, ~HasReturned, NEW w \in Worker, WorkerStep(w)
  PROVE  Ledger!Next \/ UNCHANGED Ledger!vars
<1>1. /\ dpc' = dpc /\ phase' = phase /\ epoch' = epoch
      /\ phase \in {"warmup", "measurement"}
      /\ st \in [Task -> {"unborn", "created", "queued", "started"} \cup Outcome]
      /\ epoch \in [Task -> {"none", "warmup", "measurement"}]
  BY DEF IInv, TypeOK, WorkerStep, StartTask, RecordOutcome, MarkFinished, TaskDone,
         WorkerExits, taskVars, driverVars
<1>2. ~HasReturned'
  BY <1>1 DEF HasReturned
<1>3. CASE StartTask(w)
  <2>1. PICK t \in Task : st[t] = "queued" /\ st' = [st EXCEPT ![t] = "started"]
    BY <1>3 DEF StartTask, IInv, TypeOK
  <2>2. \A u \in Task : StatusOf(u)' = StatusOf(u)
    BY <1>1, <2>1 DEF StatusOf, Outcome
  <2>3. Statuses' = Statuses
    BY <2>2 DEF Statuses
  <2> QED
    BY <1>1, <1>2, <2>3, Stutter
<1>4. ASSUME NEW o \in Outcome, RecordOutcome(w, o) PROVE Ledger!Next
  <2>1. PICK t \in Task : st[t] = "started" /\ st' = [st EXCEPT ![t] = o]
    BY <1>4 DEF RecordOutcome, IInv, TypeOK
  <2>2. epoch[t] = phase
    BY <2>1 DEF Epochs
  <2>3. StatusOf(t) = "accepted" /\ StatusOf(t)' = o
    BY <1>1, <2>1, <2>2 DEF StatusOf, Outcome
  <2>4. \A u \in Task : u # t => StatusOf(u)' = StatusOf(u)
    BY <1>1, <2>1 DEF StatusOf
  <2>5. Statuses' = [Statuses EXCEPT ![t] = o]
    BY <2>1, <2>3, <2>4 DEF Statuses
  <2>6. Ledger!Settle(t, o)
    BY <1>1, <1>2, <2>3, <2>5 DEF Ledger!Settle, Statuses
  <2>7. o \in Ledger!Outcome
    BY DEF Outcome, Ledger!Outcome
  <2> QED
    BY <2>1, <2>6, <2>7 DEF Ledger!Next
<1>5. CASE UNCHANGED st
  BY <1>1, <1>2, <1>5, StatusFrame, Stutter
<1> QED
  BY <1>3, <1>4, <1>5 DEF WorkerStep, MarkFinished, TaskDone, WorkerExits, taskVars

\* The ledger counts as its implementation does.
LEMMA SameCardinality == \A S : Ledger!Cardinality(S) = Cardinality(S)
  BY DEF Ledger!Cardinality, Cardinality

\* With nothing pending, no task of the ledger is only accepted.
LEMMA NoneAccepted ==
  ASSUME IInv, Epochs, pending = 0
  PROVE  Ledger!WithStatus("accepted") = {}
<1>1. Unsettled = {}
  BY NothingOwed DEF IInv
<1>2. ASSUME NEW t \in Task PROVE StatusOf(t) # "accepted"
  <2>1. /\ st[t] \in {"unborn", "created"} \cup Outcome
        /\ epoch[t] = "none" <=> st[t] \in {"unborn", "created"}
    BY <1>1 DEF IInv, TypeOK, Unsettled, Epochs
  <2> QED
    BY <2>1 DEF StatusOf, Outcome
<1> QED
  BY <1>2 DEF Ledger!WithStatus

\* The sets the ledger counts are those the Recorder has counted.
LEMMA SameSets ==
  ASSUME IInv, Epochs
  PROVE  /\ Ledger!Accepted = Mine
         /\ Ledger!WithStatus("ok") = MineOk
         /\ Ledger!WithStatus("err") = MineFailed
<1>1. /\ phase \in {"warmup", "measurement"}
      /\ st \in [Task -> {"unborn", "created", "queued", "started"} \cup Outcome]
      /\ epoch \in [Task -> {"none", "warmup", "measurement"}]
  BY DEF IInv, TypeOK
<1>2. ASSUME NEW t \in Task
      PROVE  /\ StatusOf(t) \in {"accepted", "ok", "err"} <=> t \in Mine
             /\ StatusOf(t) = "ok" <=> t \in MineOk
             /\ StatusOf(t) = "err" <=> t \in MineFailed
  BY <1>1 DEF StatusOf, Mine, MineOk, MineFailed, Outcome
<1>3. Mine \subseteq Task /\ MineOk \subseteq Task /\ MineFailed \subseteq Task
  BY DEF Mine, MineOk, MineFailed
<1>4. Ledger!Accepted = Mine
  BY <1>2, <1>3 DEF Ledger!Accepted, Ledger!Outcome
<1> QED
  BY <1>2, <1>3, <1>4 DEF Ledger!WithStatus

\* The driver's Reset and return are the ledger's.
LEMMA LedgerDriver ==
  ASSUME IInv, Epochs, Tallies, ~HasReturned, DriverStep
  PROVE  Ledger!Next \/ UNCHANGED Ledger!vars
<1>1. /\ phase \in {"warmup", "measurement"} /\ UNCHANGED <<st, epoch>>
      /\ epoch \in [Task -> {"none", "warmup", "measurement"}]
  BY DEF IInv, TypeOK, DriverStep, StartWindow, Drain, NextLevel, EndWarmup, RunReturns,
         CloseJobs, CloseWorkers, poolVars, taskVars
<1>2. CASE EndWarmup
  <2>1. /\ phase = "warmup" /\ phase' = "measurement" /\ pending = 0 /\ ~HasReturned'
    BY <1>2 DEF EndWarmup, IInv, Phases, HasReturned
  <2>2. Ledger!WithStatus("accepted") = {}
    BY <2>1, NoneAccepted
  <2>3. ASSUME NEW t \in Task
        PROVE  StatusOf(t)' = IF t \in Mine THEN "discarded" ELSE StatusOf(t)
    BY <1>1, <2>1 DEF StatusOf, Mine, Epochs
  <2>4. Statuses' = [t \in Task |-> IF t \in Ledger!Accepted THEN "discarded" ELSE Statuses[t]]
    BY <2>3, SameSets DEF Statuses
  <2>5. Ledger!Boundary
    BY <2>1, <2>2, <2>4 DEF Ledger!Boundary, Statuses, HasReturned
  <2> QED
    BY <2>5 DEF Ledger!Next
<1>3. CASE RunReturns
  <2>1. /\ phase' = phase /\ pending = 0 /\ HasReturned' /\ rec' = rec
    BY <1>3 DEF RunReturns, IInv, Phases, HasReturned, poolVars
  <2>2. Ledger!WithStatus("accepted") = {}
    BY <2>1, NoneAccepted
  <2>3. Statuses' = Statuses
    BY <1>1, <2>1, StatusFrame
  <2>4. Report' = [created  |-> Ledger!Cardinality(Ledger!Accepted),
                   complete |-> Ledger!Cardinality(Ledger!WithStatus("ok")),
                   failed   |-> Ledger!Cardinality(Ledger!WithStatus("err"))]
    BY <2>1, SameSets, SameCardinality DEF Report, Tallies
  <2>5. Ledger!Finish
    BY <1>1, <2>1, <2>2, <2>3, <2>4 DEF Ledger!Finish, Statuses, Report
  <2> QED
    BY <2>5 DEF Ledger!Next
<1>4. CASE StartWindow \/ Drain \/ NextLevel
  <2>1. phase' = phase /\ ~HasReturned'
    BY <1>4 DEF StartWindow, Drain, NextLevel, HasReturned
  <2> QED
    BY <1>1, <2>1, StatusFrame, Stutter
<1>5. CASE CloseJobs \/ CloseWorkers
  BY <1>5 DEF CloseJobs, CloseWorkers, HasReturned
<1> QED
  BY <1>2, <1>3, <1>4, <1>5 DEF DriverStep

\* Every step is one of the ledger, or a stutter.
LEMMA LedgerNext ==
  ASSUME IInv, Epochs, Tallies, [Next]_vars
  PROVE  [Ledger!Next]_(Ledger!vars)
<1>1. CASE HasReturned
  <2>1. UNCHANGED <<st, epoch, rec, phase>> /\ HasReturned'
    BY <1>1, ReturnedQuiet
  <2>2. Statuses' = Statuses
    BY <2>1, StatusFrame
  <2> QED
    BY <1>1, <2>1, <2>2 DEF Ledger!vars, Statuses
<1>2. CASE ~HasReturned
  <2>1. CASE DeadlinePasses \/ Cancel \/ UNCHANGED vars
    <3>1. UNCHANGED <<st, epoch, phase, dpc>>
      BY <2>1 DEF DeadlinePasses, Cancel, vars, poolVars, taskVars, driverVars
    <3>2. ~HasReturned'
      BY <1>2, <3>1 DEF HasReturned
    <3> QED
      BY <1>2, <3>1, <3>2, StatusFrame, Stutter
  <2> QED
    BY <1>2, <2>1, LedgerLoop, LedgerWorker, LedgerDriver DEF Next, Finished
<1> QED
  BY <1>1, <1>2

\* The initial states are the ledger's.
LEMMA LedgerInit == Init => Ledger!Init
<1> SUFFICES ASSUME Init PROVE Ledger!Init
  OBVIOUS
<1>1. ~HasReturned /\ phase \in {"warmup", "measurement"}
  BY DEF Init, HasReturned
<1>2. \A t \in Task : StatusOf(t) = "unborn"
  BY DEF Init, StatusOf
<1> QED
  BY <1>1, <1>2 DEF Ledger!Init

\* Each run is a run of TaskLedger: what Submit accepts is settled exactly
\* once, the warmup is discarded with nothing in flight, and what the counters
\* say when Driver.Run returns is the report of the last window.
THEOREM LedgerImplemented == Spec => ImplementsLedger
<1>1. Spec => []IInv /\ [](Epochs /\ Tallies)
  BY Invariance, CountersInv
<1>2. IInv /\ (Epochs /\ Tallies) /\ [Next]_vars => [Ledger!Next]_(Ledger!vars)
  BY LedgerNext
<1> QED
  BY <1>1, <1>2, LedgerInit, PTL DEF Spec, ImplementsLedger, Ledger!Spec
===============================================================================
