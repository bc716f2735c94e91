------------------------------- MODULE Workflows -------------------------------
(***************************************************************************)
(* The tasks of a run as clients of the target: a worker walks through the  *)
(* steps of its workflow, over HTTP (internal/workflow/http_executor.go),   *)
(* in a page (internal/browser/executor.go) or routed between the two       *)
(* (internal/hybrid), and records the outcome. The target is the module     *)
(* Shop; requests may be refused, broken by a crash, or given up by the     *)
(* task while the target still serves them.                                 *)
(***************************************************************************)
EXTENDS Shop, Sequences

CONSTANT MaxFaults  \* bound: how many things go wrong in a run

ASSUME FaultsAssumption == MaxFaults \in Nat

Scenarios == {"http", "page", "hybrid"}

VARIABLES
  scenario,  \* "http", "page" (headed, headless, persistent, cdp) or "hybrid"
  wf,        \* the workflow of the run
  tpc,       \* "new", "step", "wait", "over", "recorded", "nosetup"
  pos,       \* how many steps of its workflow a task has completed
  failure,   \* the class of the error that ended it
  sess, ord, \* SessionState of the task
  rec,       \* the recorder's counters
  faults     \* what has gone wrong so far

runVars    == <<scenario, wf>>
clientVars == <<tpc, pos, failure, sess, ord>>
vars       == <<shopVars, runVars, clientVars, rec, faults>>

-------------------------------------------------------------------------------
(* The workflows and the transports.                                       *)

\* DefaultWorkflows: fixed order, one piece of p1.
Steps ==
  [minimal  |-> <<"launch", "navigate", "dom_ready">>,
   SPA      |-> <<"launch", "navigate", "navigate", "navigate">>,
   stateful |-> <<"launch", "session_create", "navigate", "local_storage",
                  "indexed_db", "products">>,
   complex  |-> <<"launch", "session_create", "navigate", "execute_js",
                  "local_storage", "indexed_db", "products", "ws_connect",
                  "cart_add", "checkout", "order_get">>]

Length == Len(Steps[wf])
NextOp(t) == Steps[wf][pos[t] + 1]

\* BrowserOnly of the escalation policy.
BrowserOnly == {"local_storage", "indexed_db", "execute_js", "ws_connect",
                "navigate", "dom_ready"}

OnPage(op) ==
  \/ scenario = "page"
  \/ scenario = "hybrid" /\ op \in BrowserOnly

\* The steps that end without asking the target: nothing to do or skipped over
\* HTTP, evaluated inside a page.
InPage  == {"dom_ready", "local_storage", "indexed_db", "execute_js"}
Skipped == {"launch", "local_storage", "indexed_db", "execute_js", "ws_connect"}

IsLocal(op) == IF OnPage(op) THEN op \in InPage \cup {"launch"} ELSE op \in Skipped

\* The path an executor asks for.
RequestOf ==
  [session_create |-> "session", navigate |-> "index", dom_ready |-> "index",
   products |-> "products", cart_add |-> "cart_add", checkout |-> "checkout",
   order_get |-> "order_get"]

\* ClassifyError. Every error of http.Client.Do is a net.Error; those of a page
\* carry only a message. Nothing wraps the "cancelled" sentinel.
ClassOf(op, cause) ==
  CASE cause = "deadline"                                       -> "timeout"
    [] cause \in {"broken", "cancelled"} /\ ~OnPage(op)          -> "infrastructure"
    [] OTHER                                                    -> "application"

Classes == {"timeout", "infrastructure", "application"}

Init ==
  /\ ShopInit
  /\ scenario \in Scenarios
  /\ wf \in DOMAIN Steps
  /\ tpc = [t \in Task |-> "new"]
  /\ pos = [t \in Task |-> 0]
  /\ failure = [t \in Task |-> "none"]
  /\ sess = [t \in Task |-> NoId]
  /\ ord = [t \in Task |-> NoId]
  /\ rec = [completed |-> 0, failed |-> 0, escalations |-> 0,
            requestsOK |-> 0, requestsFailed |-> 0,
            failures |-> [c \in Classes |-> 0]]
  /\ faults = 0

-------------------------------------------------------------------------------
(* One task.                                                               *)

\* Browser, context and page come first; without them the task returns before
\* it has a workflow to record.
SetUp(t) ==
  /\ tpc[t] = "new"
  /\ tpc' = [tpc EXCEPT ![t] = "step"]
  /\ UNCHANGED <<pos, failure, sess, ord, shopVars, runVars, rec>>

SetUpFails(t) ==
  /\ tpc[t] = "new"
  /\ scenario # "http"
  /\ tpc' = [tpc EXCEPT ![t] = "nosetup"]
  /\ UNCHANGED <<pos, failure, sess, ord, shopVars, runVars, rec>>

\* A result with status ok or skipped: the loop of Execute goes on.
Completed(t) ==
  /\ pos' = [pos EXCEPT ![t] = @ + 1]
  /\ tpc' = [tpc EXCEPT ![t] = IF pos[t] + 1 = Length THEN "over" ELSE "step"]
  /\ UNCHANGED failure

\* A result with an error: Execute returns it.
Failed(t, class) ==
  /\ failure' = [failure EXCEPT ![t] = class]
  /\ tpc' = [tpc EXCEPT ![t] = "over"]
  /\ UNCHANGED pos

LocalStep(t) ==
  /\ tpc[t] = "step"
  /\ IsLocal(NextOp(t))
  /\ Completed(t)
  /\ UNCHANGED <<sess, ord, shopVars, runVars, rec>>

\* The page answers with an error or not before the task's context ends.
LocalStepFails(t) ==
  /\ tpc[t] = "step"
  /\ NextOp(t) \in InPage /\ OnPage(NextOp(t))
  /\ \E cause \in {"evaluation", "cancelled", "deadline"} :
       Failed(t, ClassOf(NextOp(t), cause))
  /\ UNCHANGED <<sess, ord, shopVars, runVars, rec>>

\* The guards of the executors before a request is built.
Unready(t) ==
  \/ NextOp(t) \in {"cart_add", "checkout"} /\ sess[t] = NoId
  \/ NextOp(t) = "order_get" /\ ord[t] = NoId

Send(t) ==
  /\ tpc[t] = "step"
  /\ ~IsLocal(NextOp(t)) /\ NextOp(t) # "ws_connect"
  /\ IF Unready(t)
     THEN Failed(t, "application") /\ UNCHANGED callVars
     ELSE /\ tpc' = [tpc EXCEPT ![t] = "wait"]
          /\ hpc' = [hpc EXCEPT ![t] = "sent"]
          /\ req' = [req EXCEPT ![t] = [op |-> RequestOf[NextOp(t)],
                                       session |-> sess[t], order |-> ord[t]]]
          /\ UNCHANGED <<pos, failure, resp, read, sqlFailed>>
  /\ UNCHANGED <<sess, ord, serverVars, counter, connVars, tables, runVars, rec>>

\* The answer: a status of 400 or more is an error, the identifiers of a new
\* session or order are kept. What else the answer holds is not looked at.
Receive(t) ==
  /\ tpc[t] = "wait"
  /\ hpc[t] = "replied"
  /\ Settle(t)
  /\ IF resp[t].status >= 400
     THEN Failed(t, "application") /\ UNCHANGED <<sess, ord>>
     ELSE /\ Completed(t)
          /\ sess' = IF req[t].op = "session"
                     THEN [sess EXCEPT ![t] = resp[t].id] ELSE sess
          /\ ord' = IF req[t].op = "checkout"
                    THEN [ord EXCEPT ![t] = resp[t].id] ELSE ord
  /\ UNCHANGED <<serverVars, counter, connVars, tables, runVars, rec>>

\* Mutant: a request that met a dying target is sent again.
SendAgain(t) ==
  /\ tpc[t] = "wait"
  /\ hpc[t] = "broken"
  /\ hpc' = [hpc EXCEPT ![t] = "sent"]
  /\ UNCHANGED <<tpc, pos, failure, req, resp, read, sqlFailed, sess, ord,
                 serverVars, counter, connVars, tables, runVars, rec>>

\* The connection was refused or broke: the executors try nothing again. That
\* net/http or Chromium may resend a request when a connection they reuse turns
\* out dead is left out: a request is assumed to be served once at most.
SeeBroken(t) ==
  /\ tpc[t] = "wait"
  /\ hpc[t] = "broken"
  /\ Settle(t)
  /\ Failed(t, ClassOf(NextOp(t), "broken"))
  /\ UNCHANGED <<sess, ord, serverVars, counter, connVars, tables, runVars, rec>>

\* The run is cancelled, or a limit of the task, the client or the page runs
\* out; what was sent stays under way.
GiveUp(t) ==
  /\ tpc[t] = "wait"
  /\ \E cause \in {"cancelled", "deadline", "page"} :
       /\ cause = "page" => OnPage(NextOp(t))
       /\ Failed(t, ClassOf(NextOp(t), cause))
  /\ UNCHANGED <<sess, ord, shopVars, runVars, rec>>

\* An abandoned request ends unheard, or was never put on the wire.
EndUnheard(t) ==
  /\ tpc[t] # "wait"
  /\ hpc[t] \in {"sent", "replied", "broken"}
  /\ Settle(t)
  /\ UNCHANGED <<serverVars, counter, connVars, tables, clientVars, runVars, rec>>

\* wsCheck: the page opens a WebSocket, creates a session of its own to
\* provoke an event, and waits for the event of any session (see WSHub).
ProbeSession ==
  /\ up = "serving" /\ conn = NoTask /\ counter < MaxIds
  /\ counter' = counter + 1
  /\ sessions' = sessions \cup {NewId}

AtWSCheck(t) ==
  /\ tpc[t] = "step"
  /\ NextOp(t) = "ws_connect" /\ OnPage("ws_connect")
  /\ UNCHANGED <<sess, ord, serverVars, connVars, cart, orders, items, callVars,
                 runVars, rec>>

WSCheck(t) ==
  /\ AtWSCheck(t)
  /\ ProbeSession
  /\ Completed(t)

WSCheckRefused(t) ==
  /\ AtWSCheck(t)
  /\ up # "serving"
  /\ Failed(t, ClassOf("ws_connect", "page"))
  /\ UNCHANGED <<counter, sessions>>

\* The connection breaks, no event comes in time, or the task's context ends.
WSCheckFails(t) ==
  /\ AtWSCheck(t)
  /\ ProbeSession \/ UNCHANGED <<counter, sessions>>
  /\ \E cause \in {"page", "cancelled", "deadline"} :
       Failed(t, ClassOf("ws_connect", cause))

-------------------------------------------------------------------------------
(* The workers record what Execute returned.                               *)

Done(t, ops) == Cardinality({i \in 1..pos[t] : Steps[wf][i] \in ops})

Asking == DOMAIN RequestOf

Count(c) == IF c THEN 1 ELSE 0

\* Mutant: escalations are counted as they happen, not when the workflow ends.
EscalatedAnyway(t) == IF scenario = "hybrid" THEN Done(t, BrowserOnly) ELSE 0

\* Escalations count once the workflow has succeeded.
Escalated(t) ==
  IF scenario = "hybrid" /\ failure[t] = "none" THEN Done(t, BrowserOnly) ELSE 0

\* One failure per error, a workflow completed or failed; requests are counted
\* by the HTTP worker only, a failed one for every error (the worker itself
\* leaves out failures without a request, which none of the workflows has). The
\* several calls of the Recorder are one step: nothing reads it in between.
Record(t) ==
  /\ tpc[t] = "over"
  /\ rec' = [completed |-> rec.completed + Count(failure[t] = "none"),
             failed    |-> rec.failed + Count(failure[t] # "none"),
             escalations |-> rec.escalations + Escalated(t),
             requestsOK |->
               rec.requestsOK + IF scenario = "http" THEN Done(t, Asking) ELSE 0,
             requestsFailed |->
               rec.requestsFailed + Count(scenario = "http" /\ failure[t] # "none"),
             failures |-> [c \in Classes |-> rec.failures[c] + Count(failure[t] = c)]]
  /\ tpc' = [tpc EXCEPT ![t] = "recorded"]
  /\ UNCHANGED <<pos, failure, sess, ord, shopVars, runVars>>

TaskStep(t) ==
  \/ SetUp(t)
  \/ LocalStep(t)
  \/ Send(t)
  \/ Receive(t)
  \/ SeeBroken(t)
  \/ WSCheck(t)
  \/ WSCheckRefused(t)
  \/ Record(t)
  \/ EndUnheard(t)

Target(step) == step /\ UNCHANGED <<clientVars, runVars, rec>>

\* What may go wrong, MaxFaults times in a run.
Fault ==
  /\ faults < MaxFaults
  /\ faults' = faults + 1
  /\ \/ \E t \in Task : SetUpFails(t)
     \/ \E t \in Task : LocalStepFails(t)
     \/ \E t \in Task : WSCheckFails(t)
     \/ \E t \in Task : GiveUp(t)
     \/ \E t \in Task : Target(StatementFails(t))
     \/ Target(Crash)

Ended(t) == tpc[t] \in {"recorded", "nosetup"} /\ hpc[t] = "idle"

Finished ==
  /\ \A t \in Task : Ended(t)
  /\ UNCHANGED vars

Next ==
  \/ \E t \in Task : TaskStep(t) /\ UNCHANGED faults
  \/ \E t \in Task : Target(HandlerStep(t)) /\ UNCHANGED faults
  \/ Target(TargetStarts) /\ UNCHANGED faults
  \/ Fault
  \/ Finished

Spec == Init /\ [][Next]_vars

\* Workers and handlers are goroutines, and net/http answers or closes every
\* connection. A page may hang until the limit of its task runs out. Nothing
\* starts the target again, so that is not assumed.
Fairness ==
  \A t \in Task :
    WF_vars((TaskStep(t) \/ Target(HandlerStep(t))) /\ UNCHANGED faults)

FairSpec == Spec /\ Fairness

-------------------------------------------------------------------------------
(* The inductive invariant: what ties the position of a task in its        *)
(* workflow to its request and to the tables.                               *)

Past(t, op) == \E i \in 1..pos[t] : Steps[wf][i] = op

Places == InHandler \cup {"idle", "sent", "broken", "replied"}

Request == [op : {"none"} \cup {RequestOf[op] : op \in Asking},
            session : Id \cup {NoId}, order : Id \cup {NoId}]

OrderRows == [session : Id, total : 0..1]

TypeOK ==
  /\ up \in {"down", "opening", "seeding", "serving"}
  /\ boots \in 1..MaxBoots
  /\ seeded \in 0..Products
  /\ counter \in 0..MaxIds
  /\ conn \in Task \cup {NoTask}
  /\ tx \in [id : Id \cup {NoId}, order : OrderRows \cup {NoOrder}, items : 0..1]
  /\ sessions \subseteq Id
  /\ cart \in [Id -> 0..1]
  /\ orders \in [Id -> OrderRows \cup {NoOrder}]
  /\ items \in [Id -> 0..1]
  /\ hpc \in [Task -> Places]
  /\ req \in [Task -> Request]
  /\ resp \in [Task -> [status : {0, 200, 400, 404, 500}, id : Id \cup {NoId},
                        pieces : 0..1, total : 0..1]]
  /\ read \in [Task -> 0..1]
  /\ sqlFailed \subseteq Task
  /\ scenario \in Scenarios
  /\ wf \in DOMAIN Steps
  /\ tpc \in [Task -> {"new", "step", "wait", "over", "recorded", "nosetup"}]
  /\ pos \in [Task -> 0..Length]
  /\ failure \in [Task -> Classes \cup {"none"}]
  /\ sess \in [Task -> Id \cup {NoId}]
  /\ ord \in [Task -> Id \cup {NoId}]
  /\ faults \in 0..MaxFaults

\* The connection is held by a transaction that is past Begin; requests are in
\* a handler only while the target serves, which it does with product p1. The
\* last process the bound allows does not die.
ConnInv ==
  /\ \A t \in Task : conn = t <=> hpc[t] \in {"begun", "orderRow", "itemRows"}
  /\ conn = NoTask => tx = NoWrites
  /\ up # "serving" => \A t \in Task : hpc[t] \notin InHandler
  /\ up = "serving" => seeded > 0
  /\ up = "down" => boots < MaxBoots

\* Where a request can be, by what it asks for.
PlaceOK(t) ==
  /\ hpc[t] \in {"found", "priced"} => req[t].op = "cart_add"
  /\ hpc[t] \in {"cartRead", "begun", "orderRow", "itemRows"} => req[t].op = "checkout"
  /\ hpc[t] = "orderFound" => req[t].op = "order_get"

PlaceInv == \A t \in Task : PlaceOK(t)

\* A task and its request.
TaskOK(t) ==
  /\ tpc[t] \in {"new", "step", "nosetup"} => hpc[t] = "idle"
  /\ tpc[t] \in {"new", "nosetup"} => pos[t] = 0
  /\ tpc[t] \in {"step", "wait"} => pos[t] < Length
  /\ tpc[t] \in {"new", "step", "wait", "nosetup"} => failure[t] = "none"
  /\ tpc[t] \in {"over", "recorded"} /\ failure[t] = "none" => pos[t] = Length
  /\ tpc[t] = "wait" => /\ hpc[t] # "idle"
                        /\ NextOp(t) \in Asking
                        /\ req[t].op = RequestOf[NextOp(t)]
  /\ hpc[t] # "idle" => /\ pos[t] < Length
                        /\ NextOp(t) \in Asking
                        /\ req[t].op = RequestOf[NextOp(t)]
                        /\ req[t].session = sess[t]
                        /\ req[t].order = ord[t]
  /\ sess[t] # NoId <=> Past(t, "session_create")
  /\ ord[t] # NoId <=> Past(t, "checkout")

TaskInv == \A t \in Task : TaskOK(t)

\* Identifiers given out so far; none is given out twice.
Given(i) ==
  \/ i[1] < boots
  \/ i[1] = boots /\ i[2] <= counter

IdInv ==
  /\ \A s \in sessions : Given(s)
  /\ \A o \in Id : orders[o] # NoOrder => Given(o)
  /\ conn # NoTask => tx.id \in Id /\ Given(tx.id) /\ orders[tx.id] = NoOrder
  /\ \A s \in Id : cart[s] # 0 => s \in sessions

\* The session a task has, or is about to read from its answer.
SessionOf(t) ==
  CASE sess[t] # NoId -> sess[t]
    [] sess[t] = NoId /\ hpc[t] = "replied" /\ req[t].op = "session"
       /\ resp[t].status = 200 -> resp[t].id
    [] OTHER -> NoId

SessionInv ==
  \A t \in Task :
    /\ SessionOf(t) \in sessions \cup {NoId}
    /\ hpc[t] = "replied" /\ req[t].op = "session" /\ resp[t].status = 200
         => resp[t].id # NoId
    /\ \A u \in Task : SessionOf(t) = SessionOf(u) => t = u \/ SessionOf(t) = NoId

\* The basket of a task: empty until its request puts a piece in, then one.
Untouched(t) ==
  \/ /\ tpc[t] \in {"step", "wait"}
     /\ ~Past(t, "cart_add")
     /\ ~(tpc[t] = "wait" /\ req[t].op = "cart_add")
  \/ req[t].op = "cart_add" /\ hpc[t] \in {"sent", "accepted", "found", "priced"}

CartOK(t) ==
  /\ Untouched(t) /\ SessionOf(t) # NoId => cart[SessionOf(t)] = 0
  /\ Past(t, "cart_add") => cart[sess[t]] = 1
  /\ req[t].op = "cart_add" /\ hpc[t] = "replied" /\ resp[t].status = 200
       => cart[sess[t]] = 1
  /\ hpc[t] \in {"cartRead", "begun", "orderRow", "itemRows"} => read[t] = 1

CartInv == \A t \in Task : CartOK(t)

\* The order of a task: none until its transaction commits, then the only one.
Unordered(t) ==
  \/ /\ tpc[t] \in {"step", "wait"}
     /\ ~Past(t, "checkout")
     /\ ~(tpc[t] = "wait" /\ req[t].op = "checkout")
  \/ /\ req[t].op = "checkout"
     /\ hpc[t] \in {"sent", "accepted", "cartRead", "begun", "orderRow", "itemRows"}

OrdersOK ==
  \A o \in Id : IF orders[o] = NoOrder
                THEN items[o] = 0
                ELSE /\ items[o] = 1
                     /\ orders[o].total = 1
                     /\ orders[o].session \in sessions

OrderOK(t) ==
  /\ Unordered(t) /\ SessionOf(t) # NoId =>
       \A o \in Id : orders[o] # NoOrder => orders[o].session # SessionOf(t)
  /\ hpc[t] \in {"orderRow", "itemRows"} => tx.order = OrderRow(t)
  /\ hpc[t] = "itemRows" => tx.items = 1
  /\ req[t].op = "checkout" /\ hpc[t] = "replied" /\ resp[t].status = 200 =>
       /\ resp[t].id \in Id
       /\ orders[resp[t].id] # NoOrder
       /\ orders[resp[t].id].session = sess[t]
  /\ ord[t] # NoId => /\ orders[ord[t]] # NoOrder
                      /\ orders[ord[t]].session = sess[t]

OrderInv == OrdersOK /\ \A t \in Task : OrderOK(t)

\* An order found stays found; an answer is complete, and a refusal comes from
\* a statement that failed.
AnswerOK(t) ==
  /\ hpc[t] = "replied" /\ resp[t].status # 200 => t \in sqlFailed
  /\ hpc[t] = "replied" => resp[t].status # 0
  /\ hpc[t] = "replied" /\ req[t].op = "order_get" /\ resp[t].status = 200 =>
       t \in sqlFailed \/ (resp[t].pieces = 1 /\ resp[t].total = 1)

AnswerInv == \A t \in Task : AnswerOK(t)

\* The invariant the proofs rest on: no identifier twice, no session shared,
\* and a table for every position of a task.
IInv ==
  /\ TypeOK
  /\ ConnInv
  /\ PlaceInv
  /\ TaskInv
  /\ IdInv
  /\ SessionInv
  /\ CartInv
  /\ OrderInv
  /\ AnswerInv

-------------------------------------------------------------------------------
(* Properties.                                                             *)

\* The shop with its crashes, failing statements and abandoned requests gives
\* each session at most one basket and one whole order, which never changes:
\* CreateOrder is one transaction and nothing is sent twice.
Placed ==
  {[id |-> o, session |-> orders[o].session, pieces |-> items[o],
    total |-> orders[o].total] : o \in {i \in Id : orders[i] # NoOrder}}

Desk == INSTANCE OrderDesk WITH basket <- cart, placed <- Placed

ImplementsDesk == Desk!Spec

\* An order shown to a client holds all the pieces it was charged for, although
\* GetOrder reads orders and order_items in two statements, unless one of these
\* statements failed.
OrdersWhole ==
  \A t \in Task :
    hpc[t] = "replied" /\ req[t].op = "order_get" /\ resp[t].status = 200
      => t \in sqlFailed \/ (resp[t].pieces > 0 /\ resp[t].pieces = resp[t].total)

\* No handler refuses a step of a workflow (unknown product, empty cart, unknown
\* order) unless a statement of that very request failed: the products are
\* seeded before main listens and the steps of a task come in order.
RefusedOnlyOnFault ==
  \A t \in Task : hpc[t] = "replied" /\ resp[t].status >= 400 => t \in sqlFailed

\* What a task was told exists still exists, also after the target has crashed
\* and restarted, and belongs to nobody else: its session, and its order.
AckedDurable ==
  \A t \in Task :
    /\ sess[t] # NoId => sess[t] \in sessions
    /\ ord[t] # NoId => /\ orders[ord[t]] # NoOrder
                        /\ orders[ord[t]].session = sess[t]
    /\ \A u \in Task \ {t} : sess[u] = sess[t] => sess[t] = NoId

\* The counters of a run tell what happened: each recorded task is in one of
\* completed and failed, each failure in one class, the workflows reported as
\* complete have as many orders in the database, and a partial workflow of the
\* hybrid worker counts no escalation.
RecorderAgrees ==
  LET ended  == {t \in Task : tpc[t] = "recorded"}
      good   == {t \in ended : failure[t] = "none"}
      shops  == \E i \in DOMAIN Steps[wf] : Steps[wf][i] = "checkout"
      onPage == {i \in DOMAIN Steps[wf] : Steps[wf][i] \in BrowserOnly}
  IN  /\ rec.completed = Cardinality(good)
      /\ rec.failed = Cardinality(ended) - Cardinality(good)
      /\ rec.failed = rec.failures["timeout"] + rec.failures["infrastructure"]
                        + rec.failures["application"]
      /\ shops => rec.completed <= Cardinality({o \in Id : orders[o] # NoOrder})
      /\ rec.escalations = IF scenario = "hybrid"
                           THEN rec.completed * Cardinality(onPage) ELSE 0
      /\ scenario = "http" => rec.requestsFailed = rec.failed

\* Every workflow ends and is recorded, whatever fails and even if the target
\* never comes back: no handler waits for a connection it holds itself.
WorkflowsEnd == <>(\A t \in Task : Ended(t))
===============================================================================
