---------------------------- MODULE WorkflowsProofs ----------------------------
(***************************************************************************)
(* Proofs about Workflows, for every number of tasks, products, processes   *)
(* of the target, identifiers and faults: the inductive invariant IInv, and *)
(* the three properties of single states that follow from it. The parts of  *)
(* IInv that speak of one task (PlaceOK, TaskOK, CartOK, OrderOK, AnswerOK) *)
(* are proved for the task that moves and, once for all (OtherTask), for    *)
(* those that do not.                                                       *)
(***************************************************************************)
EXTENDS Workflows, TLAPS

\* What matters of the workflows: nothing of a shop is done twice, and what a
\* step needs comes before it.
LEMMA StepFacts ==
  ASSUME NEW w \in DOMAIN Steps
  PROVE  /\ Len(Steps[w]) \in Nat /\ Len(Steps[w]) > 0
         /\ \A i \in 1..Len(Steps[w]) :
              /\ Steps[w][i] \in {"cart_add", "checkout", "order_get"} =>
                   \E j \in 1..(i - 1) : Steps[w][j] = "session_create"
              /\ Steps[w][i] \in {"checkout", "order_get"} =>
                   \E j \in 1..(i - 1) : Steps[w][j] = "cart_add"
              /\ Steps[w][i] = "order_get" =>
                   \E j \in 1..(i - 1) : Steps[w][j] = "checkout"
              /\ Steps[w][i] = "cart_add" =>
                   ~ \E j \in 1..(i - 1) : Steps[w][j] \in {"checkout", "cart_add"}
              /\ Steps[w][i] = "checkout" => ~ \E j \in 1..(i - 1) : Steps[w][j] = "checkout"
              /\ Steps[w][i] = "session_create" =>
                   ~ \E j \in 1..(i - 1) :
                       Steps[w][j] \in {"session_create", "cart_add", "checkout"}
<1>1. w \in {"minimal", "SPA", "stateful", "complex"}
  BY DEF Steps
<1>2. CASE w = "minimal"
  BY <1>2 DEF Steps
<1>3. CASE w = "SPA"
  BY <1>3 DEF Steps
<1>4. CASE w = "stateful"
  BY <1>4 DEF Steps
<1>5. CASE w = "complex"
  BY <1>5 DEF Steps
<1> QED
  BY <1>1, <1>2, <1>3, <1>4, <1>5

\* The steps there are.
LEMMA StepNames ==
  ASSUME NEW w \in DOMAIN Steps, NEW i \in 1..Len(Steps[w])
  PROVE  Steps[w][i] \in Asking \cup {"launch", "local_storage", "indexed_db", "execute_js",
                                      "ws_connect"}
<1>1. Asking = {"session_create", "navigate", "dom_ready", "products", "cart_add",
                "checkout", "order_get"}
  BY DEF Asking, RequestOf
<1>2. w \in {"minimal", "SPA", "stateful", "complex"}
  BY DEF Steps
<1>3. CASE w = "minimal"
  BY <1>1, <1>3 DEF Steps
<1>4. CASE w = "SPA"
  BY <1>1, <1>4 DEF Steps
<1>5. CASE w = "stateful"
  BY <1>1, <1>5 DEF Steps
<1>6. CASE w = "complex"
  BY <1>1, <1>6 DEF Steps
<1> QED
  BY <1>2, <1>3, <1>4, <1>5, <1>6

\* What a task has behind it when it comes to a step of the shop.
LEMMA PastFacts ==
  ASSUME wf \in DOMAIN Steps, NEW t \in Task, pos[t] \in 0..Length, pos[t] < Length
  PROVE  /\ NextOp(t) = "session_create" => /\ ~Past(t, "session_create")
                                            /\ ~Past(t, "cart_add") /\ ~Past(t, "checkout")
         /\ NextOp(t) = "cart_add" => /\ Past(t, "session_create")
                                      /\ ~Past(t, "cart_add") /\ ~Past(t, "checkout")
         /\ NextOp(t) = "checkout" => /\ Past(t, "session_create") /\ Past(t, "cart_add")
                                      /\ ~Past(t, "checkout")
         /\ NextOp(t) = "order_get" => /\ Past(t, "session_create") /\ Past(t, "cart_add")
                                       /\ Past(t, "checkout")
<1> DEFINE i == pos[t] + 1
           s == Steps[wf]
<1>1. i \in 1..Len(s) /\ i - 1 = pos[t] /\ NextOp(t) = s[i]
  BY StepFacts DEF Length, NextOp
<1>2. \A op : Past(t, op) <=> \E j \in 1..(i - 1) : s[j] = op
  BY <1>1 DEF Past
<1>3. /\ s[i] \in {"cart_add", "checkout", "order_get"} =>
           \E j \in 1..(i - 1) : s[j] = "session_create"
      /\ s[i] \in {"checkout", "order_get"} => \E j \in 1..(i - 1) : s[j] = "cart_add"
      /\ s[i] = "order_get" => \E j \in 1..(i - 1) : s[j] = "checkout"
      /\ s[i] = "cart_add" => ~ \E j \in 1..(i - 1) : s[j] \in {"checkout", "cart_add"}
      /\ s[i] = "checkout" => ~ \E j \in 1..(i - 1) : s[j] = "checkout"
      /\ s[i] = "session_create" =>
           ~ \E j \in 1..(i - 1) : s[j] \in {"session_create", "cart_add", "checkout"}
  BY <1>1, StepFacts
<1> HIDE DEF i, s
<1> QED
  BY <1>1, <1>2, <1>3

\* A completed step is behind a task; the others stay where they are.
LEMMA PastCompleted ==
  ASSUME wf \in DOMAIN Steps, wf' = wf, pos \in [Task -> 0..Length],
         NEW t \in Task, pos' = [pos EXCEPT ![t] = @ + 1]
  PROVE  /\ \A op : Past(t, op)' <=> Past(t, op) \/ op = NextOp(t)
         /\ \A u \in Task \ {t} : \A op : Past(u, op)' <=> Past(u, op)
         /\ \A u \in Task \ {t} : NextOp(u)' = NextOp(u)
<1>1. pos[t] \in Nat /\ pos'[t] = pos[t] + 1 /\ \A u \in Task \ {t} : pos'[u] = pos[u]
  BY StepFacts DEF Length
<1>2. \A j : j \in 1..(pos[t] + 1) <=> j \in 1..pos[t] \/ j = pos[t] + 1
  BY <1>1
<1>3. \A op : Past(t, op)' <=> Past(t, op) \/ op = NextOp(t)
  BY <1>1, <1>2 DEF Past, NextOp
<1>4. \A u \in Task \ {t} : \A op : Past(u, op)' <=> Past(u, op)
  BY <1>1 DEF Past
<1>5. \A u \in Task \ {t} : NextOp(u)' = NextOp(u)
  BY <1>1 DEF NextOp
<1> QED
  BY <1>3, <1>4, <1>5

\* Which step a path belongs to.
LEMMA RequestSteps ==
  ASSUME NEW op \in Asking
  PROVE  /\ RequestOf[op] = "session" <=> op = "session_create"
         /\ RequestOf[op] = "cart_add" <=> op = "cart_add"
         /\ RequestOf[op] = "checkout" <=> op = "checkout"
         /\ RequestOf[op] = "order_get" <=> op = "order_get"
         /\ RequestOf[op] # "none"
  BY DEF Asking, RequestOf

\* What is known of a task whose request is under way.
LEMMA RequestFacts ==
  ASSUME IInv, NEW t \in Task, hpc[t] # "idle"
  PROVE  /\ req[t].session = sess[t] /\ req[t].order = ord[t]
         /\ req[t].op = "session" =>
              sess[t] = NoId /\ ~Past(t, "cart_add") /\ ~Past(t, "checkout")
         /\ req[t].op \in {"cart_add", "checkout", "order_get"} =>
              sess[t] \in Id /\ sess[t] # NoId /\ SessionOf(t) = sess[t]
         /\ req[t].op = "cart_add" => ~Past(t, "cart_add") /\ ~Past(t, "checkout")
         /\ req[t].op = "checkout" => Past(t, "cart_add") /\ ~Past(t, "checkout")
         /\ req[t].op = "order_get" => ord[t] \in Id /\ Past(t, "checkout")
<1>1. /\ pos[t] < Length /\ NextOp(t) \in Asking /\ req[t].op = RequestOf[NextOp(t)]
      /\ req[t].session = sess[t] /\ req[t].order = ord[t]
      /\ sess[t] # NoId <=> Past(t, "session_create")
      /\ ord[t] # NoId <=> Past(t, "checkout")
  BY DEF IInv, TaskInv, TaskOK
<1>2. /\ sess[t] \in Id \cup {NoId} /\ ord[t] \in Id \cup {NoId}
      /\ wf \in DOMAIN Steps /\ pos[t] \in 0..Length
  BY DEF IInv, TypeOK
<1>3. sess[t] # NoId => SessionOf(t) = sess[t]
  BY DEF SessionOf
<1> QED
  BY <1>1, <1>2, <1>3, PastFacts, RequestSteps

-------------------------------------------------------------------------------
(* Types. TypeOK is taken apart, since a step leaves most of it alone.      *)

AnswerType == [status : {0, 200, 400, 404, 500}, id : Id \cup {NoId},
               pieces : 0..1, total : 0..1]

WritesType == [id : Id \cup {NoId}, order : OrderRows \cup {NoOrder}, items : 0..1]

ServerTypes ==
  /\ up \in {"down", "opening", "seeding", "serving"}
  /\ boots \in 1..MaxBoots /\ seeded \in 0..Products /\ counter \in 0..MaxIds

TableTypes ==
  /\ sessions \subseteq Id /\ cart \in [Id -> 0..1]
  /\ orders \in [Id -> OrderRows \cup {NoOrder}] /\ items \in [Id -> 0..1]

ConnTypes == conn \in Task \cup {NoTask} /\ tx \in WritesType

CallTypes ==
  /\ hpc \in [Task -> Places] /\ req \in [Task -> Request]
  /\ resp \in [Task -> AnswerType] /\ read \in [Task -> 0..1]
  /\ sqlFailed \subseteq Task

ClientTypes ==
  /\ scenario \in Scenarios /\ wf \in DOMAIN Steps
  /\ tpc \in [Task -> {"new", "step", "wait", "over", "recorded", "nosetup"}]
  /\ pos \in [Task -> 0..Length]
  /\ failure \in [Task -> Classes \cup {"none"}]
  /\ sess \in [Task -> Id \cup {NoId}] /\ ord \in [Task -> Id \cup {NoId}]

\* The parts are TypeOK, now ...
LEMMA TypeParts ==
  TypeOK <=> /\ ServerTypes /\ TableTypes /\ ConnTypes /\ CallTypes /\ ClientTypes
             /\ faults \in 0..MaxFaults
  BY DEF TypeOK, ServerTypes, TableTypes, ConnTypes, CallTypes, ClientTypes, AnswerType,
         WritesType

\* ... and after a step.
LEMMA TypePartsNext ==
  TypeOK' <=> /\ ServerTypes' /\ TableTypes' /\ ConnTypes' /\ CallTypes' /\ ClientTypes'
              /\ faults' \in 0..MaxFaults
  BY DEF TypeOK, ServerTypes, TableTypes, ConnTypes, CallTypes, ClientTypes, AnswerType,
         WritesType

\* A new identifier is one.
LEMMA NewIdType ==
  ASSUME ServerTypes, counter < MaxIds
  PROVE  NewId \in Id /\ counter + 1 \in 0..MaxIds
<1>1. boots \in 1..MaxBoots /\ counter + 1 \in 1..MaxIds /\ counter + 1 \in 0..MaxIds
  BY ShopAssumption DEF ServerTypes
<1> QED
  BY <1>1 DEF NewId, Id

\* An answer is one.
LEMMA AnswerTyped ==
  ASSUME NEW status \in {0, 200, 400, 404, 500}, NEW i \in Id \cup {NoId},
         NEW pieces \in 0..1, NEW total \in 0..1
  PROVE  Answer(status, i, pieces, total) \in AnswerType
  BY DEF Answer, AnswerType

\* An answer without a body is one.
LEMMA PlainTyped ==
  ASSUME NEW status \in {0, 200, 400, 404, 500}
  PROVE  Plain(status) \in AnswerType
<1>1. 0 \in 0..1 /\ NoId \in Id \cup {NoId}
  OBVIOUS
<1> QED
  BY <1>1, AnswerTyped DEF Plain

\* No transaction and no request are among them.
LEMMA NoWritesTyped == NoWrites \in WritesType /\ NoRequest \in Request
  BY DEF NoWrites, WritesType, NoRequest, Request

\* A handler moves on.
LEMMA StepTyped ==
  ASSUME CallTypes, NEW t \in Task, NEW place \in Places, Step(t, place),
         read' \in [Task -> 0..1]
  PROVE  CallTypes'
<1>1. hpc' \in [Task -> Places]
  BY DEF CallTypes, Step
<1> QED
  BY <1>1 DEF CallTypes, Step

\* A handler answers.
LEMMA ReplyTyped ==
  ASSUME CallTypes, NEW t \in Task, NEW a \in AnswerType, Reply(t, a)
  PROVE  CallTypes'
<1>1. hpc' \in [Task -> Places] /\ resp' \in [Task -> AnswerType] /\ read' \in [Task -> 0..1]
  BY DEF CallTypes, Reply, Places
<1> QED
  BY <1>1 DEF CallTypes, Reply

\* A request is forgotten.
LEMMA SettleTyped ==
  ASSUME CallTypes, NEW t \in Task, Settle(t)
  PROVE  CallTypes'
<1>1. hpc' \in [Task -> Places]
  BY DEF CallTypes, Settle, Places
<1>2. req' \in [Task -> Request]
  BY NoWritesTyped DEF CallTypes, Settle
<1>3. resp' \in [Task -> AnswerType]
  BY PlainTyped DEF CallTypes, Settle
<1> QED
  BY <1>1, <1>2, <1>3 DEF CallTypes, Settle

\* What a step that leaves a part of the state alone keeps.
LEMMA ServerFrame == ServerTypes /\ UNCHANGED <<serverVars, counter>> => ServerTypes'
  BY DEF ServerTypes, serverVars

\* The tables.
LEMMA TableFrame == TableTypes /\ UNCHANGED tables => TableTypes'
  BY DEF TableTypes, tables

\* The connection.
LEMMA ConnFrame == ConnTypes /\ UNCHANGED connVars => ConnTypes'
  BY DEF ConnTypes, connVars

\* The requests.
LEMMA CallFrame == CallTypes /\ UNCHANGED callVars => CallTypes'
  BY DEF CallTypes, callVars

\* The tasks.
LEMMA ClientFrame == ClientTypes /\ UNCHANGED <<clientVars, runVars>> => ClientTypes'
  BY DEF ClientTypes, clientVars, runVars, Length

\* The types that a handler may disturb.
LEMMA TypeHandler ==
  ASSUME IInv, NEW t \in Task, HandlerStep(t)
  PROVE  ServerTypes' /\ TableTypes' /\ ConnTypes' /\ CallTypes'
<1>0. /\ ServerTypes /\ TableTypes /\ ConnTypes /\ CallTypes
      /\ read \in [Task -> 0..1] /\ req[t] \in Request
  BY TypeParts DEF IInv, CallTypes
<1> USE ServerFrame, TableFrame, ConnFrame
<1>1. CASE Accept(t) \/ Refuse(t)
  BY <1>0, <1>1, StepTyped DEF Accept, Refuse, Places, InHandler
<1>2. CASE ReadOnly(t)
  BY <1>0, <1>2, ReplyTyped, PlainTyped DEF ReadOnly
<1>3. CASE CreateSession(t)
  <2>1. NewId \in Id /\ counter + 1 \in 0..MaxIds
    BY <1>0, <1>3, NewIdType DEF CreateSession
  <2>2. ServerTypes'
    BY <1>0, <1>3, <2>1 DEF CreateSession, ServerTypes, serverVars
  <2>3. TableTypes'
    BY <1>0, <1>3, <2>1 DEF CreateSession, TableTypes
  <2>4. Answer(200, NewId, 0, 0) \in AnswerType
    BY <2>1, AnswerTyped
  <2>5. CallTypes'
    BY <1>0, <1>3, <2>4, ReplyTyped DEF CreateSession
  <2> QED
    BY <1>0, <1>3, <2>2, <2>3, <2>5 DEF CreateSession
<1>4. CASE LookUp(t) \/ Price(t)
  <2>1. /\ UNCHANGED <<serverVars, counter, connVars, tables>>
        /\ \/ \E place \in {"found", "priced"} : Step(t, place) /\ UNCHANGED read
           \/ \E status \in {404, 500} : Reply(t, Plain(status))
    BY <1>4 DEF LookUp, Price
  <2>2. CallTypes'
    BY <1>0, <2>1, StepTyped, ReplyTyped, PlainTyped DEF Places, InHandler
  <2> QED
    BY <1>0, <2>1, <2>2
<1>5. CASE Upsert(t)
  <2>1. PICK s \in Id : /\ cart[s] = 0 /\ cart' = [cart EXCEPT ![s] = @ + 1]
                        /\ UNCHANGED <<sessions, orders, items>>
    <3>1. hpc[t] = "priced" /\ req[t].op = "cart_add"
      BY <1>5 DEF Upsert, At
    <3>2. sess[t] \in Id /\ sess[t] # NoId /\ SessionOf(t) = sess[t] /\ req[t].session = sess[t]
      BY <3>1, RequestFacts
    <3>3. cart[sess[t]] = 0
      BY <3>1, <3>2 DEF IInv, CartInv, CartOK, Untouched
    <3> QED
      BY <1>5, <3>2, <3>3 DEF Upsert
  <2>2. cart' \in [Id -> 0..1]
    BY <1>0, <2>1 DEF TableTypes
  <2>3. TableTypes'
    BY <1>0, <2>1, <2>2 DEF TableTypes
  <2>4. CallTypes'
    BY <1>0, <1>5, ReplyTyped, PlainTyped DEF Upsert
  <2> QED
    BY <1>0, <1>5, <2>3, <2>4 DEF Upsert
<1>6. CASE ReadCart(t)
  <2>1. req[t].session \in Id
    BY <1>6, RequestFacts DEF ReadCart, At
  <2>2. cart[req[t].session] \in 0..1
    BY <1>0, <2>1 DEF TableTypes
  <2>3. CASE cart[req[t].session] = 0
    BY <1>0, <1>6, <2>3, ReplyTyped, PlainTyped DEF ReadCart
  <2>4. CASE cart[req[t].session] # 0
    <3>1. read' \in [Task -> 0..1] /\ Step(t, "cartRead")
      BY <1>0, <1>6, <2>2, <2>4 DEF ReadCart
    <3>2. CallTypes'
      BY <1>0, <3>1, StepTyped DEF Places, InHandler
    <3> QED
      BY <1>0, <1>6, <3>2 DEF ReadCart
  <2> QED
    BY <2>3, <2>4
<1>7. CASE BeginOrder(t)
  <2>1. NewId \in Id /\ counter + 1 \in 0..MaxIds
    BY <1>0, <1>7, NewIdType DEF BeginOrder
  <2>2. ServerTypes'
    BY <1>0, <1>7, <2>1 DEF BeginOrder, ServerTypes, serverVars
  <2>3. ConnTypes'
    BY <1>7, <2>1 DEF BeginOrder, ConnTypes, NoWrites, WritesType
  <2>4. CallTypes'
    BY <1>0, <1>7, StepTyped DEF BeginOrder, Places, InHandler
  <2> QED
    BY <1>0, <1>7, <2>2, <2>3, <2>4 DEF BeginOrder
<1>8. CASE InsertOrder(t)
  <2>1. req[t].session \in Id
    BY <1>8, RequestFacts DEF InsertOrder, At
  <2>2. read[t] \in 0..1 /\ OrderRow(t) \in OrderRows
    BY <1>0, <2>1 DEF OrderRow, OrderRows
  <2>3. ConnTypes'
    BY <1>0, <1>8, <2>2 DEF InsertOrder, ConnTypes, WritesType
  <2>4. CallTypes'
    BY <1>0, <1>8, StepTyped DEF InsertOrder, Places, InHandler
  <2> QED
    BY <1>0, <1>8, <2>3, <2>4 DEF InsertOrder
<1>9. CASE InsertItems(t)
  <2>1. ConnTypes'
    BY <1>0, <1>9 DEF InsertItems, ConnTypes, WritesType
  <2>2. CallTypes'
    BY <1>0, <1>9, StepTyped DEF InsertItems, Places, InHandler
  <2> QED
    BY <1>0, <1>9, <2>1, <2>2 DEF InsertItems
<1>10. CASE Commit(t)
  <2>1. /\ tx.id \in Id /\ tx.order = OrderRow(t) /\ tx.items = 1
        /\ tx \in WritesType
    BY <1>0, <1>10, ShopAssumption
       DEF Commit, At, Own, IInv, ConnInv, IdInv, OrderInv, OrderOK, ConnTypes
  <2>2. req[t].session \in Id
    BY <1>10, RequestFacts DEF Commit, At
  <2>3. OrderRow(t) \in OrderRows /\ OrderRow(t).total \in 0..1
    BY <1>0, <2>2 DEF OrderRow, OrderRows
  <2>4. TableTypes'
    BY <1>0, <1>10, <2>1, <2>3 DEF Commit, TableTypes
  <2>5. ConnTypes'
    BY <1>10, NoWritesTyped DEF Commit, ConnTypes
  <2>6. Answer(200, tx.id, tx.items, tx.order.total) \in AnswerType
    BY <2>1, <2>3, AnswerTyped
  <2>7. CallTypes'
    BY <1>0, <1>10, <2>6, ReplyTyped DEF Commit
  <2> QED
    BY <1>0, <1>10, <2>4, <2>5, <2>7 DEF Commit
<1>11. CASE FindOrder(t)
  <2>1. \/ Reply(t, Plain(404))
        \/ Step(t, "orderFound") /\ UNCHANGED read
    BY <1>11 DEF FindOrder
  <2>2. CallTypes'
    BY <1>0, <2>1, StepTyped, ReplyTyped, PlainTyped DEF Places, InHandler
  <2> QED
    BY <1>0, <1>11, <2>2 DEF FindOrder
<1>12. CASE ListItems(t)
  <2> DEFINE o == req[t].order
  <2>1. o \in Id /\ hpc[t] = "orderFound" /\ req[t].op = "order_get" /\ o = ord[t] /\ o # NoId
    BY <1>12, RequestFacts, ShopAssumption DEF ListItems, At, Id
  <2>2. orders[o] # NoOrder
    BY <2>1 DEF IInv, OrderInv, OrderOK
  <2>3. orders[o].total \in 0..1 /\ items[o] \in 0..1
    BY <1>0, <2>1, <2>2 DEF TableTypes, OrderRows
  <2>4. Answer(200, o, items[o], orders[o].total) \in AnswerType
    BY <2>1, <2>3, AnswerTyped
  <2>5. CallTypes'
    BY <1>0, <1>12, <2>4, ReplyTyped DEF ListItems
  <2> QED
    BY <1>0, <1>12, <2>5 DEF ListItems
<1> QED
  BY <1>1, <1>2, <1>3, <1>4, <1>5, <1>6, <1>7, <1>8, <1>9, <1>10, <1>11, <1>12
     DEF HandlerStep

\* A workflow goes on, or ends.
ProgressTypes ==
  /\ tpc \in [Task -> {"new", "step", "wait", "over", "recorded", "nosetup"}]
  /\ pos \in [Task -> 0..Length]
  /\ failure \in [Task -> Classes \cup {"none"}]

\* A completed step keeps a task's position within its workflow.
LEMMA CompletedTyped ==
  ASSUME ClientTypes, NEW t \in Task, pos[t] < Length, Completed(t), UNCHANGED runVars
  PROVE  ProgressTypes'
<1>1. Length \in Nat /\ Length' = Length /\ pos[t] \in 0..Length
  BY StepFacts DEF ClientTypes, Length, runVars
<1>2. pos[t] + 1 \in 0..Length
  BY <1>1
<1>3. pos' \in [Task -> 0..Length]
  BY <1>2 DEF ClientTypes, Completed
<1>4. tpc' \in [Task -> {"new", "step", "wait", "over", "recorded", "nosetup"}]
  BY DEF ClientTypes, Completed
<1> QED
  BY <1>1, <1>3, <1>4 DEF ClientTypes, Completed, ProgressTypes

\* A failed step gives a task its class of failure.
LEMMA FailedTyped ==
  ASSUME ClientTypes, NEW t \in Task, NEW class \in Classes, Failed(t, class),
         UNCHANGED runVars
  PROVE  ProgressTypes'
<1>1. Length' = Length
  BY DEF Length, runVars
<1> QED
  BY <1>1 DEF ClientTypes, Failed, ProgressTypes

\* ClassifyError knows three classes.
LEMMA ClassTyped == \A op, cause : ClassOf(op, cause) \in Classes
  BY DEF ClassOf, Classes

\* The types of a task are those of its progress, its session and its order.
LEMMA ProgressFrame ==
  ASSUME ClientTypes, ProgressTypes', UNCHANGED <<runVars, sess, ord>>
  PROVE  ClientTypes'
  BY DEF ClientTypes, ProgressTypes, runVars, Length

\* The types that a task may disturb.
LEMMA TypeTask ==
  ASSUME IInv, NEW t \in Task,
         \/ TaskStep(t) \/ SetUpFails(t) \/ LocalStepFails(t)
         \/ WSCheckFails(t) \/ GiveUp(t)
  PROVE  ServerTypes' /\ TableTypes' /\ ConnTypes' /\ CallTypes' /\ ClientTypes'
<1>0. ServerTypes /\ TableTypes /\ ConnTypes /\ CallTypes /\ ClientTypes
  BY TypeParts DEF IInv
<1>00. tpc[t] \in {"step", "wait"} => pos[t] < Length
  BY DEF IInv, TaskInv, TaskOK
<1>000. "application" \in Classes
  BY DEF Classes
<1> USE ServerFrame, TableFrame, ConnFrame, CallFrame
<1>1. CASE SetUp(t) \/ SetUpFails(t)
  <2>1. ClientTypes'
    BY <1>0, <1>1 DEF SetUp, SetUpFails, ClientTypes, runVars, Length
  <2> QED
    BY <1>0, <1>1, <2>1 DEF SetUp, SetUpFails, shopVars
<1>2. CASE LocalStep(t)
  <2>1. ClientTypes'
    BY <1>0, <1>00, <1>2, CompletedTyped, ProgressFrame DEF LocalStep
  <2> QED
    BY <1>0, <1>2, <2>1 DEF LocalStep, shopVars
<1>3. CASE LocalStepFails(t) \/ GiveUp(t)
  <2>1. \E class \in Classes : Failed(t, class)
    BY <1>3, ClassTyped DEF LocalStepFails, GiveUp
  <2>2. ClientTypes'
    BY <1>0, <1>3, <2>1, FailedTyped, ProgressFrame DEF LocalStepFails, GiveUp
  <2> QED
    BY <1>0, <1>3, <2>2 DEF LocalStepFails, GiveUp, shopVars
<1>4. CASE Send(t)
  <2>1. UNCHANGED <<sess, ord, serverVars, counter, connVars, tables, runVars>>
    BY <1>4 DEF Send
  <2>2. CASE Unready(t)
    <3>1. Failed(t, "application") /\ UNCHANGED callVars
      BY <1>4, <2>2 DEF Send
    <3>2. ClientTypes'
      BY <1>0, <1>000, <2>1, <3>1, FailedTyped, ProgressFrame
    <3> QED
      BY <1>0, <2>1, <3>1, <3>2
  <2>3. CASE ~Unready(t)
    <3> DEFINE r == [op |-> RequestOf[NextOp(t)], session |-> sess[t], order |-> ord[t]]
    <3>1. /\ tpc' = [tpc EXCEPT ![t] = "wait"] /\ hpc' = [hpc EXCEPT ![t] = "sent"]
          /\ req' = [req EXCEPT ![t] = r]
          /\ UNCHANGED <<pos, failure, resp, read, sqlFailed>>
      BY <1>4, <2>3 DEF Send
    <3>2. NextOp(t) \in Asking
      <4>1. pos[t] + 1 \in 1..Len(Steps[wf]) /\ wf \in DOMAIN Steps
        BY <1>0, <1>00, <1>4, StepFacts DEF ClientTypes, Length, Send
      <4>2. NextOp(t) \in Asking \cup {"launch", "local_storage", "indexed_db", "execute_js",
                                       "ws_connect"}
        BY <4>1, StepNames DEF NextOp
      <4>3. ~IsLocal(NextOp(t)) /\ NextOp(t) # "ws_connect"
        BY <1>4 DEF Send
      <4> QED
        BY <4>2, <4>3 DEF IsLocal, InPage, Skipped
    <3>3. r \in Request
      BY <1>0, <3>2 DEF Request, ClientTypes
    <3>4. CallTypes'
      <4>1. hpc' \in [Task -> Places]
        BY <1>0, <3>1 DEF CallTypes, Places
      <4>2. req' \in [Task -> Request]
        BY <1>0, <3>1, <3>3 DEF CallTypes
      <4> QED
        BY <1>0, <3>1, <4>1, <4>2 DEF CallTypes
    <3>5. ClientTypes'
      BY <1>0, <2>1, <3>1 DEF ClientTypes, runVars, Length
    <3> QED
      BY <1>0, <2>1, <3>4, <3>5
  <2> QED
    BY <2>2, <2>3
<1>5. CASE Receive(t)
  <2>1. /\ Settle(t) /\ UNCHANGED <<serverVars, counter, connVars, tables, runVars>>
        /\ tpc[t] = "wait"
    BY <1>5 DEF Receive
  <2>2. CallTypes'
    BY <1>0, <2>1, SettleTyped
  <2>3. ClientTypes'
    <3>1. CASE resp[t].status >= 400
      <4>1. Failed(t, "application") /\ UNCHANGED <<sess, ord>>
        BY <1>5, <3>1 DEF Receive
      <4> QED
        BY <1>0, <1>000, <2>1, <4>1, FailedTyped, ProgressFrame
    <3>2. CASE ~(resp[t].status >= 400)
      <4>1. /\ Completed(t)
            /\ sess' = sess \/ sess' = [sess EXCEPT ![t] = resp[t].id]
            /\ ord' = ord \/ ord' = [ord EXCEPT ![t] = resp[t].id]
        BY <1>5, <3>2 DEF Receive
      <4>2. resp[t].id \in Id \cup {NoId}
        BY <1>0 DEF CallTypes, AnswerType
      <4>3. ProgressTypes'
        BY <1>0, <1>00, <2>1, <4>1, CompletedTyped
      <4>4. sess' \in [Task -> Id \cup {NoId}] /\ ord' \in [Task -> Id \cup {NoId}]
        BY <1>0, <4>1, <4>2 DEF ClientTypes
      <4> QED
        BY <1>0, <2>1, <4>3, <4>4 DEF ClientTypes, ProgressTypes, runVars
    <3> QED
      BY <3>1, <3>2
  <2> QED
    BY <1>0, <2>1, <2>2, <2>3
<1>6. CASE SeeBroken(t)
  <2>1. \E class \in Classes : Failed(t, class)
    BY <1>6, ClassTyped DEF SeeBroken
  <2>2. ClientTypes'
    BY <1>0, <1>6, <2>1, FailedTyped, ProgressFrame DEF SeeBroken
  <2> QED
    BY <1>0, <1>6, <2>2, SettleTyped DEF SeeBroken
<1>7. CASE EndUnheard(t)
  BY <1>0, <1>7, SettleTyped, ClientFrame DEF EndUnheard
<1>8. CASE WSCheck(t) \/ WSCheckRefused(t) \/ WSCheckFails(t)
  <2>1. /\ UNCHANGED <<sess, ord, serverVars, connVars, cart, orders, items, callVars, runVars>>
        /\ tpc[t] = "step"
    BY <1>8 DEF WSCheck, WSCheckRefused, WSCheckFails, AtWSCheck
  <2>2. ProbeSession \/ UNCHANGED <<counter, sessions>>
    BY <1>8 DEF WSCheck, WSCheckRefused, WSCheckFails
  <2>3. Completed(t) \/ \E class \in Classes : Failed(t, class)
    BY <1>8, ClassTyped DEF WSCheck, WSCheckRefused, WSCheckFails
  <2>4. ClientTypes'
    BY <1>0, <1>00, <2>1, <2>3, CompletedTyped, FailedTyped, ProgressFrame
  <2>5. ServerTypes' /\ TableTypes'
    <3>1. CASE ProbeSession
      <4>1. NewId \in Id /\ counter + 1 \in 0..MaxIds
        BY <1>0, <3>1, NewIdType DEF ProbeSession
      <4> QED
        BY <1>0, <2>1, <3>1, <4>1 DEF ProbeSession, ServerTypes, TableTypes, serverVars
    <3>2. CASE UNCHANGED <<counter, sessions>>
      BY <1>0, <2>1, <3>2 DEF tables
    <3> QED
      BY <2>2, <3>1, <3>2
  <2> QED
    BY <1>0, <2>1, <2>4, <2>5
<1>9. CASE Record(t)
  <2>1. ClientTypes'
    BY <1>0, <1>9 DEF Record, ClientTypes, runVars, Length
  <2> QED
    BY <1>0, <1>9, <2>1 DEF Record, shopVars
<1> QED
  BY <1>1, <1>2, <1>3, <1>4, <1>5, <1>6, <1>7, <1>8, <1>9 DEF TaskStep

\* The types that the target's process, or a failing statement, may disturb.
LEMMA TypeTarget ==
  ASSUME IInv, TargetStarts \/ Crash \/ \E t \in Task : StatementFails(t)
  PROVE  ServerTypes' /\ TableTypes' /\ ConnTypes' /\ CallTypes'
<1>0. ServerTypes /\ TableTypes /\ ConnTypes /\ CallTypes
  BY TypeParts DEF IInv
<1> USE ServerFrame, TableFrame, ConnFrame, CallFrame
<1>1. CASE OpenStore
  BY <1>0, <1>1 DEF OpenStore, ServerTypes
<1>2. CASE SeedProduct
  <2>1. ServerTypes'
    BY <1>0, <1>2, ShopAssumption DEF SeedProduct, ServerTypes
  <2> QED
    BY <1>0, <1>2, <2>1 DEF SeedProduct
<1>3. CASE Restart
  <2>1. boots < MaxBoots
    BY <1>3 DEF Restart, IInv, ConnInv
  <2>2. ServerTypes'
    BY <1>0, <1>3, <2>1, ShopAssumption DEF Restart, ServerTypes
  <2> QED
    BY <1>0, <1>3, <2>2 DEF Restart
<1>4. CASE Crash
  <2>1. ServerTypes'
    BY <1>0, <1>4 DEF Crash, ServerTypes
  <2>2. ConnTypes'
    BY <1>4, NoWritesTyped DEF Crash, ConnTypes
  <2>3. hpc' \in [Task -> Places]
    BY <1>0, <1>4 DEF Crash, CallTypes, Places
  <2>4. read' \in [Task -> 0..1]
    BY <1>4 DEF Crash
  <2>5. CallTypes'
    BY <1>0, <1>4, <2>3, <2>4 DEF Crash, CallTypes
  <2> QED
    BY <1>0, <1>4, <2>1, <2>2, <2>5 DEF Crash
<1>5. ASSUME NEW t \in Task, StatementFails(t)
      PROVE  ServerTypes' /\ TableTypes' /\ ConnTypes' /\ CallTypes'
  <2>1. PICK s : /\ s \in StatusesOfFailure(req[t].op, hpc[t])
                 /\ resp' = [resp EXCEPT ![t] = Plain(s)]
    BY <1>5 DEF StatementFails
  <2>2. resp' \in [Task -> AnswerType]
    <3>1. \A op, place : StatusesOfFailure(op, place) \subseteq {200, 400, 404, 500}
      BY DEF StatusesOfFailure
    <3>2. s \in {0, 200, 400, 404, 500}
      BY <2>1, <3>1
    <3> QED
      BY <1>0, <2>1, <3>2, PlainTyped DEF CallTypes
  <2>3. hpc' \in [Task -> Places] /\ read' \in [Task -> 0..1] /\ sqlFailed' \subseteq Task
    BY <1>0, <1>5 DEF StatementFails, CallTypes, Places
  <2>4. CallTypes'
    BY <1>0, <1>5, <2>2, <2>3 DEF StatementFails, CallTypes
  <2>5. ConnTypes'
    BY <1>5, NoWritesTyped DEF StatementFails, ConnTypes
  <2> QED
    BY <1>0, <1>5, <2>4, <2>5 DEF StatementFails
<1> QED
  BY <1>1, <1>2, <1>3, <1>4, <1>5 DEF TargetStarts

-------------------------------------------------------------------------------
(* A step of one task seen by the others.                                   *)

\* The state that belongs to one task, and the workflow of the run.
Same(u) ==
  /\ hpc'[u] = hpc[u] /\ req'[u] = req[u] /\ resp'[u] = resp[u] /\ read'[u] = read[u]
  /\ u \in sqlFailed' <=> u \in sqlFailed
  /\ tpc'[u] = tpc[u] /\ pos'[u] = pos[u] /\ failure'[u] = failure[u]
  /\ sess'[u] = sess[u] /\ ord'[u] = ord[u]
  /\ UNCHANGED runVars

\* What another task may do to the tables while u has its session and its orders.
TablesFor(u) ==
  /\ \A s \in Id : s = SessionOf(u) => cart'[s] = cart[s]
  /\ \A o \in Id : orders[o] # NoOrder => orders'[o] = orders[o]
  /\ \A o \in Id : orders[o] = NoOrder /\ orders'[o] # NoOrder =>
                     orders'[o].session # SessionOf(u)
  /\ conn = u => tx' = tx

\* What is said of an undisturbed task in terms of its state stays true.
LEMMA SameDerived ==
  ASSUME NEW u \in Task, Same(u)
  PROVE  /\ \A op : Past(u, op)' <=> Past(u, op)
         /\ NextOp(u)' = NextOp(u) /\ Length' = Length
         /\ SessionOf(u)' = SessionOf(u)
         /\ Untouched(u)' <=> Untouched(u)
         /\ Unordered(u)' <=> Unordered(u)
         /\ OrderRow(u)' = OrderRow(u)
<1>1. /\ \A op : Past(u, op)' <=> Past(u, op)
      /\ NextOp(u)' = NextOp(u) /\ Length' = Length
  BY DEF Same, Past, NextOp, Length, runVars
<1>2. SessionOf(u)' = SessionOf(u)
  BY DEF Same, SessionOf
<1>3. Untouched(u)' <=> Untouched(u)
  BY <1>1 DEF Same, Untouched
<1>4. Unordered(u)' <=> Unordered(u)
  BY <1>1 DEF Same, Unordered
<1>5. OrderRow(u)' = OrderRow(u)
  BY DEF Same, OrderRow
<1> QED
  BY <1>1, <1>2, <1>3, <1>4, <1>5

\* What a task has bought, it has bought in its session.
LEMMA SessionFacts ==
  ASSUME IInv, NEW t \in Task
  PROVE  /\ sess[t] # NoId => sess[t] \in Id /\ SessionOf(t) = sess[t]
         /\ Past(t, "cart_add") => sess[t] # NoId
         /\ Past(t, "checkout") => sess[t] # NoId
         /\ SessionOf(t) \in Id \cup {NoId}
<1>1. /\ sess[t] \in Id \cup {NoId} /\ pos[t] \in 0..Length /\ wf \in DOMAIN Steps
      /\ sess[t] # NoId <=> Past(t, "session_create")
  BY DEF IInv, TypeOK, TaskInv, TaskOK
<1>2. ASSUME NEW op \in {"cart_add", "checkout"}, Past(t, op)
      PROVE  Past(t, "session_create")
  <2>1. PICK i \in 1..pos[t] : Steps[wf][i] = op
    BY <1>2 DEF Past
  <2>2. i \in 1..Len(Steps[wf])
    BY <1>1, StepFacts DEF Length
  <2>3. \E j \in 1..(i - 1) : Steps[wf][j] = "session_create"
    BY <1>1, <2>1, <2>2, StepFacts
  <2> QED
    BY <1>1, <2>3, StepFacts DEF Past, Length
<1>3. sess[t] # NoId => SessionOf(t) = sess[t]
  BY DEF SessionOf
<1>4. SessionOf(t) \in sessions \cup {NoId} /\ sessions \subseteq Id
  BY DEF IInv, SessionInv, TypeOK
<1> QED
  BY <1>1, <1>2, <1>3, <1>4

\* The invariant of a task that takes no part in a step.
LEMMA OtherTask ==
  ASSUME IInv, NEW u \in Task, Same(u), TablesFor(u)
  PROVE  /\ PlaceOK(u)' /\ TaskOK(u)' /\ CartOK(u)' /\ OrderOK(u)' /\ AnswerOK(u)'
         /\ SessionOf(u)' = SessionOf(u)
<1>1. PlaceOK(u) /\ TaskOK(u) /\ CartOK(u) /\ OrderOK(u) /\ AnswerOK(u)
  BY DEF IInv, PlaceInv, TaskInv, CartInv, OrderInv, AnswerInv
<1>2. PlaceOK(u)' /\ AnswerOK(u)'
  BY <1>1 DEF Same, PlaceOK, AnswerOK
<1>3. TaskOK(u)'
  BY <1>1, SameDerived DEF Same, TaskOK
<1>4. CartOK(u)'
  <2>1. /\ Past(u, "cart_add") => sess[u] \in Id /\ SessionOf(u) = sess[u]
        /\ SessionOf(u) \in Id \cup {NoId}
    BY SessionFacts
  <2>2. hpc[u] = "replied" /\ req[u].op = "cart_add" =>
          sess[u] \in Id /\ SessionOf(u) = sess[u]
    BY RequestFacts
  <2>3. (Untouched(u) /\ SessionOf(u) # NoId => cart[SessionOf(u)] = 0)'
    BY <1>1, <2>1, SameDerived DEF CartOK, TablesFor
  <2>4. (Past(u, "cart_add") => cart[sess[u]] = 1)'
    BY <1>1, <2>1, SameDerived DEF CartOK, TablesFor, Same
  <2>5. (req[u].op = "cart_add" /\ hpc[u] = "replied" /\ resp[u].status = 200
           => cart[sess[u]] = 1)'
    BY <1>1, <2>2, SameDerived DEF CartOK, TablesFor, Same
  <2>6. (hpc[u] \in {"cartRead", "begun", "orderRow", "itemRows"} => read[u] = 1)'
    BY <1>1 DEF CartOK, Same
  <2> QED
    BY <2>3, <2>4, <2>5, <2>6 DEF CartOK
<1>5. OrderOK(u)'
  <2>1. (Unordered(u) /\ SessionOf(u) # NoId =>
           \A o \in Id : orders[o] # NoOrder => orders[o].session # SessionOf(u))'
    BY <1>1, SameDerived DEF OrderOK, TablesFor
  <2>2. (/\ hpc[u] \in {"orderRow", "itemRows"} => tx.order = OrderRow(u)
         /\ hpc[u] = "itemRows" => tx.items = 1)'
    <3>1. hpc[u] \in {"orderRow", "itemRows"} => conn = u
      BY DEF IInv, ConnInv
    <3> QED
      BY <1>1, <3>1, SameDerived DEF OrderOK, TablesFor, Same
  <2>3. (req[u].op = "checkout" /\ hpc[u] = "replied" /\ resp[u].status = 200 =>
           /\ resp[u].id \in Id
           /\ orders[resp[u].id] # NoOrder
           /\ orders[resp[u].id].session = sess[u])'
    BY <1>1 DEF OrderOK, TablesFor, Same
  <2>4. (ord[u] # NoId => /\ orders[ord[u]] # NoOrder
                          /\ orders[ord[u]].session = sess[u])'
    <3>1. ord[u] \in Id \cup {NoId}
      BY DEF IInv, TypeOK
    <3> QED
      BY <1>1, <3>1 DEF OrderOK, TablesFor, Same
  <2> QED
    BY <2>1, <2>2, <2>3, <2>4 DEF OrderOK
<1> QED
  BY <1>2, <1>3, <1>4, <1>5, SameDerived

-------------------------------------------------------------------------------
(* A step of a handler.                                                     *)

\* The requests of the other tasks stay where they are.
OthersCalls(t) ==
  \A u \in Task \ {t} :
    /\ hpc'[u] = hpc[u] /\ req'[u] = req[u] /\ resp'[u] = resp[u] /\ read'[u] = read[u]
    /\ u \in sqlFailed' <=> u \in sqlFailed

\* A handler that moves on is elsewhere, and the other requests are not.
LEMMA StepEffect ==
  ASSUME CallTypes, NEW t \in Task, NEW place, Step(t, place)
  PROVE  /\ hpc'[t] = place /\ UNCHANGED <<req, resp, sqlFailed>>
         /\ \A u \in Task \ {t} : hpc'[u] = hpc[u]
         /\ UNCHANGED read => OthersCalls(t)
  BY DEF CallTypes, Step, OthersCalls

\* A handler that answers is done, and the other requests stay.
LEMMA ReplyEffect ==
  ASSUME CallTypes, NEW t \in Task, NEW a, Reply(t, a)
  PROVE  /\ hpc'[t] = "replied" /\ resp'[t] = a /\ UNCHANGED <<req, sqlFailed>>
         /\ OthersCalls(t)
  BY DEF CallTypes, Reply, OthersCalls

\* A handler changes nothing of a request but where it is, the answer and what it has read.
LEMMA HandlerCalls ==
  ASSUME IInv, NEW t \in Task, HandlerStep(t) \/ StatementFails(t)
  PROVE  /\ OthersCalls(t) /\ req' = req
         /\ hpc[t] \in {"sent"} \cup InHandler
         /\ hpc'[t] # "idle"
<1>0. CallTypes
  BY TypeParts DEF IInv
<1>1. CASE StatementFails(t)
  BY <1>0, <1>1 DEF StatementFails, CallTypes, OthersCalls
<1>2. CASE \/ Accept(t) \/ Refuse(t)
  BY <1>0, <1>2, StepEffect DEF Accept, Refuse
<1>3. CASE ReadOnly(t) \/ CreateSession(t) \/ Upsert(t)
  BY <1>0, <1>3, ReplyEffect DEF ReadOnly, CreateSession, Upsert, At, InHandler
<1>4. CASE LookUp(t) \/ Price(t) \/ FindOrder(t) \/ ListItems(t)
  BY <1>0, <1>4, StepEffect, ReplyEffect
     DEF LookUp, Price, FindOrder, ListItems, At, InHandler
<1>5. CASE ReadCart(t)
  <2>1. CASE cart[req[t].session] = 0
    BY <1>0, <1>5, <2>1, ReplyEffect DEF ReadCart, At, InHandler
  <2>2. CASE cart[req[t].session] # 0
    BY <1>0, <1>5, <2>2, StepEffect DEF ReadCart, At, InHandler, OthersCalls, CallTypes
  <2> QED
    BY <2>1, <2>2
<1>6. CASE BeginOrder(t) \/ InsertOrder(t) \/ InsertItems(t)
  BY <1>0, <1>6, StepEffect DEF BeginOrder, InsertOrder, InsertItems, At, InHandler
<1>7. CASE Commit(t)
  BY <1>0, <1>7, ReplyEffect DEF Commit, At, InHandler
<1> QED
  BY <1>1, <1>2, <1>3, <1>4, <1>5, <1>6, <1>7 DEF HandlerStep

\* What a transaction about to commit holds.
LEMMA CommitFacts ==
  ASSUME IInv, NEW t \in Task, Commit(t)
  PROVE  /\ tx.id \in Id /\ Given(tx.id) /\ orders[tx.id] = NoOrder
         /\ tx.order = OrderRow(t) /\ tx.items = 1 /\ read[t] = 1
         /\ tx.order # NoOrder /\ tx.order.total = 1 /\ tx.order.session = sess[t]
         /\ req[t].session = sess[t] /\ sess[t] \in Id /\ sess[t] # NoId
         /\ SessionOf(t) = sess[t] /\ Unordered(t)
         /\ conn = t /\ hpc[t] = "itemRows" /\ req[t].op = "checkout"
         /\ cart[sess[t]] = 1
<1>1. conn = t /\ hpc[t] = "itemRows" /\ req[t].op = "checkout"
  BY DEF Commit, At, Own
<1>2. /\ req[t].session = sess[t] /\ sess[t] \in Id /\ sess[t] # NoId
      /\ SessionOf(t) = sess[t] /\ Past(t, "cart_add")
  BY <1>1, RequestFacts
<1>3. tx.id \in Id /\ Given(tx.id) /\ orders[tx.id] = NoOrder
  BY <1>1, ShopAssumption DEF IInv, IdInv
<1>4. CartOK(t) /\ OrderOK(t)
  BY DEF IInv, CartInv, OrderInv
<1>5. tx.order = OrderRow(t) /\ tx.items = 1 /\ read[t] = 1 /\ cart[sess[t]] = 1
  BY <1>1, <1>2, <1>4 DEF CartOK, OrderOK
<1>6. OrderRow(t) # NoOrder /\ OrderRow(t).total = 1 /\ OrderRow(t).session = sess[t]
  BY <1>2, <1>5, ShopAssumption DEF OrderRow, Id
<1> QED
  BY <1>1, <1>2, <1>3, <1>5, <1>6 DEF Unordered

\* What a request to add a piece finds.
LEMMA UpsertFacts ==
  ASSUME IInv, NEW t \in Task, Upsert(t)
  PROVE  /\ req[t].session = sess[t] /\ sess[t] \in Id /\ sess[t] # NoId
         /\ SessionOf(t) = sess[t] /\ cart[sess[t]] = 0
         /\ hpc[t] = "priced" /\ req[t].op = "cart_add" /\ conn = NoTask
         /\ ~Past(t, "cart_add") /\ sess[t] \in sessions
<1>1. hpc[t] = "priced" /\ req[t].op = "cart_add" /\ conn = NoTask
  BY DEF Upsert, At, Idle
<1>2. /\ req[t].session = sess[t] /\ sess[t] \in Id /\ sess[t] # NoId
      /\ SessionOf(t) = sess[t] /\ ~Past(t, "cart_add")
  BY <1>1, RequestFacts
<1>3. CartOK(t) /\ SessionOf(t) \in sessions \cup {NoId}
  BY DEF IInv, CartInv, SessionInv
<1> QED
  BY <1>1, <1>2, <1>3 DEF CartOK, Untouched

\* Two tasks have two sessions.
LEMMA SessionsApart ==
  ASSUME IInv, NEW t \in Task, NEW u \in Task \ {t}, SessionOf(t) # NoId
  PROVE  SessionOf(u) # SessionOf(t)
  BY DEF IInv, SessionInv

\* A handler leaves the other tasks their sessions and their orders.
LEMMA HandlerTables ==
  ASSUME IInv, NEW t \in Task, HandlerStep(t) \/ StatementFails(t), NEW u \in Task \ {t}
  PROVE  TablesFor(u)
<1>1. CASE Upsert(t)
  <2>1. /\ sess[t] \in Id /\ SessionOf(u) # sess[t]
        /\ cart' = [cart EXCEPT ![sess[t]] = @ + 1]
        /\ UNCHANGED <<orders, tx>>
    BY <1>1, UpsertFacts, SessionsApart DEF Upsert, connVars
  <2>2. cart \in [Id -> 0..1]
    BY DEF IInv, TypeOK
  <2> QED
    BY <2>1, <2>2 DEF TablesFor
<1>2. CASE Commit(t)
  <2>1. /\ tx.id \in Id /\ orders[tx.id] = NoOrder /\ tx.order.session = sess[t]
        /\ SessionOf(u) # sess[t] /\ conn = t
        /\ orders' = [orders EXCEPT ![tx.id] = tx.order]
        /\ UNCHANGED cart
    BY <1>2, CommitFacts, SessionsApart DEF Commit
  <2>2. orders \in [Id -> OrderRows \cup {NoOrder}]
    BY DEF IInv, TypeOK
  <2> QED
    BY <2>1, <2>2 DEF TablesFor
<1>3. CASE BeginOrder(t)
  BY <1>3, ShopAssumption DEF BeginOrder, Idle, tables, TablesFor
<1>4. CASE InsertOrder(t) \/ InsertItems(t)
  BY <1>4 DEF InsertOrder, InsertItems, Own, tables, TablesFor
<1>5. CASE StatementFails(t)
  BY <1>5, ShopAssumption DEF StatementFails, Own, Idle, tables, TablesFor
<1>6. CASE \/ Accept(t) \/ Refuse(t) \/ ReadOnly(t) \/ CreateSession(t) \/ LookUp(t)
           \/ Price(t) \/ ReadCart(t) \/ FindOrder(t) \/ ListItems(t)
  <2>1. UNCHANGED <<cart, orders, tx>>
    BY <1>6 DEF Accept, Refuse, ReadOnly, CreateSession, LookUp, Price, ReadCart,
                FindOrder, ListItems, connVars, tables
  <2> QED
    BY <2>1 DEF TablesFor
<1> QED
  BY <1>1, <1>2, <1>3, <1>4, <1>5, <1>6 DEF HandlerStep

\* So a handler keeps what the invariant says of the other tasks.
LEMMA HandlerOthers ==
  ASSUME IInv, NEW t \in Task, HandlerStep(t) \/ StatementFails(t),
         UNCHANGED <<clientVars, runVars>>, NEW u \in Task \ {t}
  PROVE  /\ PlaceOK(u)' /\ TaskOK(u)' /\ CartOK(u)' /\ OrderOK(u)' /\ AnswerOK(u)'
         /\ SessionOf(u)' = SessionOf(u)
<1>1. Same(u)
  BY HandlerCalls DEF Same, OthersCalls, clientVars
<1> QED
  BY <1>1, HandlerTables, OtherTask

-------------------------------------------------------------------------------
(* A step of a handler, seen by its own task.                               *)

\* What stays of a task while its request is handled.
LEMMA OwnFrame ==
  ASSUME IInv, NEW t \in Task, HandlerStep(t) \/ StatementFails(t),
         UNCHANGED <<clientVars, runVars>>
  PROVE  /\ \A op : Past(t, op)' <=> Past(t, op)
         /\ tpc'[t] = tpc[t] /\ sess'[t] = sess[t] /\ ord'[t] = ord[t]
         /\ req'[t] = req[t] /\ hpc[t] # "idle"
         /\ TaskOK(t)'
         /\ tpc[t] \in {"step", "wait"} => tpc[t] = "wait"
<1>1. /\ req' = req /\ hpc[t] # "idle" /\ hpc'[t] # "idle"
  BY HandlerCalls DEF InHandler
<1>2. /\ \A op : Past(t, op)' <=> Past(t, op)
      /\ NextOp(t)' = NextOp(t) /\ Length' = Length
      /\ UNCHANGED <<tpc, pos, failure, sess, ord>>
  BY DEF Past, NextOp, Length, clientVars, runVars
<1>3. TaskOK(t)
  BY DEF IInv, TaskInv
<1>4. TaskOK(t)'
  BY <1>1, <1>2, <1>3 DEF TaskOK
<1> QED
  BY <1>1, <1>2, <1>3, <1>4 DEF TaskOK

\* Where the request of a task goes.
LEMMA OwnPlace ==
  ASSUME IInv, NEW t \in Task, HandlerStep(t) \/ StatementFails(t)
  PROVE  PlaceOK(t)'
<1>0. CallTypes /\ PlaceOK(t) /\ req' = req
  BY TypeParts, HandlerCalls DEF IInv, PlaceInv
<1>1. CASE StatementFails(t)
  BY <1>0, <1>1 DEF StatementFails, CallTypes, PlaceOK
<1>2. CASE \/ Accept(t) \/ Refuse(t) \/ ReadOnly(t) \/ CreateSession(t) \/ Upsert(t)
           \/ Commit(t) \/ ListItems(t)
  <2>1. hpc'[t] \in {"accepted", "broken", "replied"}
    BY <1>0, <1>2, StepEffect, ReplyEffect
       DEF Accept, Refuse, ReadOnly, CreateSession, Upsert, Commit, ListItems
  <2> QED
    BY <2>1 DEF PlaceOK
<1>3. CASE LookUp(t) \/ Price(t)
  <2>1. hpc'[t] \in {"found", "priced", "replied"} /\ req[t].op = "cart_add"
    BY <1>0, <1>3, StepEffect, ReplyEffect DEF LookUp, Price, At
  <2> QED
    BY <1>0, <2>1 DEF PlaceOK
<1>4. CASE ReadCart(t) \/ BeginOrder(t) \/ InsertOrder(t) \/ InsertItems(t)
  <2>1. /\ hpc'[t] \in {"cartRead", "begun", "orderRow", "itemRows", "replied"}
        /\ req[t].op = "checkout"
    BY <1>0, <1>4, StepEffect, ReplyEffect
       DEF ReadCart, BeginOrder, InsertOrder, InsertItems, At
  <2> QED
    BY <1>0, <2>1 DEF PlaceOK
<1>5. CASE FindOrder(t)
  <2>1. hpc'[t] \in {"orderFound", "replied"} /\ req[t].op = "order_get"
    BY <1>0, <1>5, StepEffect, ReplyEffect DEF FindOrder, At
  <2> QED
    BY <1>0, <2>1 DEF PlaceOK
<1> QED
  BY <1>1, <1>2, <1>3, <1>4, <1>5 DEF HandlerStep

\* The refusals that no handler reaches without a failing statement.
LEMMA NoRefusal ==
  ASSUME IInv, NEW t \in Task, hpc[t] \in InHandler
  PROVE  /\ seeded > 0
         /\ req[t].op = "checkout" /\ hpc[t] = "accepted" => cart[req[t].session] = 1
         /\ req[t].op = "order_get" => /\ req[t].order \in Id
                                       /\ orders[req[t].order] # NoOrder
<1>1. seeded > 0
  BY DEF IInv, ConnInv
<1>2. req[t].op = "checkout" => cart[req[t].session] = 1
  BY RequestFacts DEF IInv, CartInv, CartOK, InHandler
<1>3. req[t].op = "order_get" => req[t].order \in Id /\ orders[req[t].order] # NoOrder
  BY RequestFacts, ShopAssumption DEF IInv, OrderInv, OrderOK, InHandler, Id
<1> QED
  BY <1>1, <1>2, <1>3

\* What each step of a handler leaves as an answer.
LEMMA OwnAnswer ==
  ASSUME IInv, NEW t \in Task, HandlerStep(t) \/ StatementFails(t)
  PROVE  AnswerOK(t)'
<1>0. CallTypes /\ req' = req
  BY TypeParts, HandlerCalls DEF IInv
<1>1. CASE StatementFails(t)
  <2>1. PICK s : /\ s \in StatusesOfFailure(req[t].op, hpc[t])
                 /\ resp' = [resp EXCEPT ![t] = Plain(s)]
    BY <1>1 DEF StatementFails
  <2>2. s # 0
    BY <2>1 DEF StatusesOfFailure
  <2>3. resp'[t].status = s /\ t \in sqlFailed'
    BY <1>0, <1>1, <2>1 DEF CallTypes, Plain, Answer, StatementFails
  <2> QED
    BY <2>2, <2>3 DEF AnswerOK
<1>2. CASE ReadOnly(t) \/ Upsert(t)
  <2>1. resp'[t] = Plain(200) /\ req[t].op # "order_get"
    BY <1>0, <1>2, ReplyEffect DEF ReadOnly, Upsert, At
  <2> QED
    BY <1>0, <2>1 DEF AnswerOK, Plain, Answer
<1>3. CASE CreateSession(t) \/ Commit(t)
  <2>1. resp'[t].status = 200 /\ req[t].op # "order_get"
    BY <1>0, <1>3, ReplyEffect DEF CreateSession, Commit, At, Answer
  <2> QED
    BY <1>0, <2>1 DEF AnswerOK
<1>4. CASE \/ Accept(t) \/ Refuse(t) \/ LookUp(t) \/ Price(t) \/ ReadCart(t)
           \/ BeginOrder(t) \/ InsertOrder(t) \/ InsertItems(t) \/ FindOrder(t)
  <2>1. hpc'[t] # "replied"
    <3>1. CASE LookUp(t) \/ Price(t)
      BY <1>0, <3>1, NoRefusal, StepEffect DEF LookUp, Price, At, InHandler
    <3>2. CASE ReadCart(t)
      BY <1>0, <3>2, NoRefusal, StepEffect DEF ReadCart, At, InHandler
    <3>3. CASE FindOrder(t)
      BY <1>0, <3>3, NoRefusal, StepEffect DEF FindOrder, At, InHandler
    <3>4. CASE Accept(t) \/ Refuse(t) \/ BeginOrder(t) \/ InsertOrder(t) \/ InsertItems(t)
      BY <1>0, <3>4, StepEffect DEF Accept, Refuse, BeginOrder, InsertOrder, InsertItems
    <3> QED
      BY <1>4, <3>1, <3>2, <3>3, <3>4
  <2> QED
    BY <2>1 DEF AnswerOK
<1>5. CASE ListItems(t)
  <2> DEFINE o == req[t].order
  <2>1. o \in Id /\ orders[o] # NoOrder
    BY <1>5, NoRefusal DEF ListItems, At, InHandler
  <2>2. items[o] = 1 /\ orders[o].total = 1
    BY <2>1 DEF IInv, OrderInv, OrdersOK
  <2>3. resp'[t] = Answer(200, o, 1, 1)
    BY <1>0, <1>5, <2>2, ReplyEffect DEF ListItems
  <2> QED
    BY <2>3 DEF AnswerOK, Answer
<1> QED
  BY <1>1, <1>2, <1>3, <1>4, <1>5 DEF HandlerStep

-------------------------------------------------------------------------------
(* The session, the basket and the order of the task whose handler moves.   *)

\* An identifier about to be given is not given.
LEMMA NewIdFresh ==
  ASSUME IInv
  PROVE  /\ ~Given(NewId) /\ NewId \notin sessions
         /\ NewId \in Id => cart[NewId] = 0 /\ orders[NewId] = NoOrder
<1>1. boots \in Nat /\ counter \in Nat
  BY ShopAssumption DEF IInv, TypeOK
<1>2. ~Given(NewId)
  BY <1>1 DEF Given, NewId
<1> QED
  BY <1>2 DEF IInv, IdInv

\* The session of a task changes when its first request is answered.
LEMMA OwnSession ==
  ASSUME IInv, NEW t \in Task, HandlerStep(t) \/ StatementFails(t),
         UNCHANGED <<clientVars, runVars>>
  PROVE  /\ CreateSession(t) => SessionOf(t) = NoId /\ SessionOf(t)' = NewId
         /\ ~CreateSession(t) => SessionOf(t)' = SessionOf(t)
<1>0. CallTypes /\ req' = req /\ sess' = sess /\ hpc[t] \in {"sent"} \cup InHandler
  BY TypeParts, HandlerCalls DEF IInv, clientVars
<1>1. CASE CreateSession(t)
  <2>1. /\ hpc'[t] = "replied" /\ req[t].op = "session" /\ resp'[t].status = 200
        /\ resp'[t].id = NewId /\ hpc[t] = "accepted"
    BY <1>0, <1>1, ReplyEffect DEF CreateSession, At, Answer
  <2>2. sess[t] = NoId
    BY <2>1, RequestFacts
  <2> QED
    BY <1>0, <1>1, <2>1, <2>2 DEF SessionOf
<1>2. CASE ~CreateSession(t)
  <2>1. ~(hpc'[t] = "replied" /\ req[t].op = "session" /\ resp'[t].status = 200)
    <3>1. CASE StatementFails(t)
      <4>1. PICK s : /\ s \in StatusesOfFailure(req[t].op, hpc[t])
                     /\ resp' = [resp EXCEPT ![t] = Plain(s)]
        BY <3>1 DEF StatementFails
      <4>2. resp'[t].status = s
        BY <1>0, <4>1 DEF CallTypes, Plain, Answer
      <4> QED
        BY <4>1, <4>2 DEF StatusesOfFailure
    <3>2. CASE Accept(t) \/ Refuse(t)
      BY <1>0, <3>2, StepEffect DEF Accept, Refuse
    <3>3. CASE HandlerStep(t) /\ ~Accept(t) /\ ~Refuse(t)
      <4>1. req[t].op # "session"
        BY <1>2, <3>3 DEF HandlerStep, ReadOnly, LookUp, Price, Upsert, ReadCart,
           BeginOrder, InsertOrder, InsertItems, Commit, FindOrder, ListItems, At
      <4> QED
        BY <4>1
    <3> QED
      BY <3>1, <3>2, <3>3
  <2>2. ~(hpc[t] = "replied")
    BY <1>0 DEF InHandler
  <2> QED
    BY <1>0, <1>2, <2>1, <2>2 DEF SessionOf
<1> QED
  BY <1>1, <1>2

\* A basket that a handler leaves untouched was untouched, and so for the order.
LEMMA OwnTouch ==
  ASSUME IInv, NEW t \in Task, HandlerStep(t) \/ StatementFails(t),
         UNCHANGED <<clientVars, runVars>>
  PROVE  /\ Untouched(t)' => Untouched(t) /\ ~Upsert(t)
         /\ Unordered(t)' => Unordered(t) /\ ~Commit(t)
<1>0. /\ CallTypes /\ req' = req /\ hpc[t] \in {"sent"} \cup InHandler
      /\ \A op : Past(t, op)' <=> Past(t, op)
      /\ tpc'[t] = tpc[t] /\ (tpc[t] \in {"step", "wait"} => tpc[t] = "wait")
  BY TypeParts, HandlerCalls, OwnFrame DEF IInv
<1>1. hpc'[t] \in {"sent", "accepted", "found", "priced"} =>
        hpc[t] \in {"sent", "accepted", "found", "priced"} /\ ~Upsert(t)
  <2>1. CASE StatementFails(t) \/ ReadOnly(t) \/ CreateSession(t) \/ Upsert(t)
             \/ Commit(t) \/ ListItems(t)
    BY <1>0, <2>1, ReplyEffect
       DEF StatementFails, CallTypes, ReadOnly, CreateSession, Upsert, Commit, ListItems
  <2>2. CASE Accept(t) \/ Refuse(t) \/ LookUp(t) \/ Price(t)
    BY <1>0, <2>2 DEF Accept, Refuse, LookUp, Price, At, Upsert
  <2>3. CASE ReadCart(t) \/ BeginOrder(t) \/ InsertOrder(t) \/ InsertItems(t) \/ FindOrder(t)
    BY <1>0, <2>3, StepEffect, ReplyEffect
       DEF ReadCart, BeginOrder, InsertOrder, InsertItems, FindOrder
  <2> QED
    BY <2>1, <2>2, <2>3 DEF HandlerStep
<1>2. hpc'[t] # "replied" => ~Upsert(t) /\ ~Commit(t)
  BY <1>0, ReplyEffect DEF Upsert, Commit
<1>3. req[t].op = "checkout" /\ hpc[t] \in {"sent"} \cup InHandler =>
        hpc[t] \in {"sent", "accepted", "cartRead", "begun", "orderRow", "itemRows"}
  BY DEF IInv, PlaceInv, PlaceOK, InHandler
<1>4. Untouched(t)' => Untouched(t) /\ ~Upsert(t)
  BY <1>0, <1>1 DEF Untouched, Upsert, At
<1>5. Unordered(t)' => Unordered(t) /\ ~Commit(t)
  BY <1>0, <1>2, <1>3 DEF Unordered, Commit, At
<1> QED
  BY <1>4, <1>5

\* The basket.
LEMMA OwnCart ==
  ASSUME IInv, NEW t \in Task, HandlerStep(t) \/ StatementFails(t),
         UNCHANGED <<clientVars, runVars>>
  PROVE  CartOK(t)'
<1>0. /\ CallTypes /\ TableTypes /\ req' = req /\ sess' = sess
      /\ hpc[t] \in {"sent"} \cup InHandler /\ CartOK(t)
      /\ \A op : Past(t, op)' <=> Past(t, op)
  BY TypeParts, HandlerCalls, OwnFrame DEF IInv, CartInv, clientVars
<1>1. (Untouched(t) /\ SessionOf(t) # NoId => cart[SessionOf(t)] = 0)'
  <2>1. CASE CreateSession(t)
    <3>1. SessionOf(t)' = NewId /\ cart' = cart /\ NewId \in Id
      BY <1>0, <2>1, OwnSession, NewIdType, TypeParts DEF CreateSession, IInv
    <3> QED
      BY <3>1, NewIdFresh
  <2>2. CASE Upsert(t)
    BY <2>2, OwnTouch
  <2>3. CASE ~CreateSession(t) /\ ~Upsert(t)
    <3>1. cart' = cart
      BY <2>3 DEF HandlerStep, StatementFails, Accept, Refuse, ReadOnly, LookUp, Price,
         ReadCart, BeginOrder, InsertOrder, InsertItems, Commit, FindOrder, ListItems, tables
    <3> QED
      BY <1>0, <2>3, <3>1, OwnSession, OwnTouch DEF CartOK
  <2> QED
    BY <2>1, <2>2, <2>3
<1>2. (Past(t, "cart_add") => cart[sess[t]] = 1)'
  <2>1. CASE Upsert(t)
    BY <1>0, <2>1, UpsertFacts
  <2>2. CASE ~Upsert(t)
    <3>1. cart' = cart
      BY <2>2 DEF HandlerStep, StatementFails, Accept, Refuse, ReadOnly, CreateSession,
         LookUp, Price, ReadCart, BeginOrder, InsertOrder, InsertItems, Commit, FindOrder,
         ListItems, tables
    <3> QED
      BY <1>0, <3>1 DEF CartOK
  <2> QED
    BY <2>1, <2>2
<1>3. (req[t].op = "cart_add" /\ hpc[t] = "replied" /\ resp[t].status = 200
         => cart[sess[t]] = 1)'
  <2>1. CASE Upsert(t)
    <3>1. /\ sess[t] \in Id /\ cart[sess[t]] = 0
          /\ cart' = [cart EXCEPT ![sess[t]] = @ + 1]
      BY <2>1, UpsertFacts DEF Upsert
    <3> QED
      BY <1>0, <3>1 DEF TableTypes
  <2>2. CASE StatementFails(t)
    <3>1. PICK s : /\ s \in StatusesOfFailure(req[t].op, hpc[t])
                   /\ resp' = [resp EXCEPT ![t] = Plain(s)]
      BY <2>2 DEF StatementFails
    <3>2. resp'[t].status = s
      BY <1>0, <3>1 DEF CallTypes, Plain, Answer
    <3> QED
      BY <1>0, <3>1, <3>2 DEF StatusesOfFailure
  <2>3. CASE Accept(t) \/ Refuse(t)
    BY <1>0, <2>3, StepEffect DEF Accept, Refuse
  <2>4. CASE LookUp(t) \/ Price(t)
    BY <1>0, <2>4, NoRefusal, StepEffect DEF LookUp, Price, At, InHandler
  <2>5. CASE \/ ReadOnly(t) \/ CreateSession(t) \/ ReadCart(t) \/ BeginOrder(t)
             \/ InsertOrder(t) \/ InsertItems(t) \/ Commit(t) \/ FindOrder(t) \/ ListItems(t)
    <3>1. req[t].op # "cart_add"
      BY <2>5 DEF ReadOnly, CreateSession, ReadCart, BeginOrder, InsertOrder, InsertItems,
                  Commit, FindOrder, ListItems, At
    <3> QED
      BY <1>0, <3>1
  <2> QED
    BY <2>1, <2>2, <2>3, <2>4, <2>5 DEF HandlerStep
<1>4. (hpc[t] \in {"cartRead", "begun", "orderRow", "itemRows"} => read[t] = 1)'
  <2>1. CASE ReadCart(t)
    <3>1. cart[req[t].session] = 1
      BY <2>1, NoRefusal DEF ReadCart, At, InHandler
    <3> QED
      BY <1>0, <2>1, <3>1 DEF ReadCart, CallTypes
  <2>2. CASE BeginOrder(t) \/ InsertOrder(t) \/ InsertItems(t)
    BY <1>0, <2>2 DEF BeginOrder, InsertOrder, InsertItems, At, CartOK
  <2>3. CASE \/ StatementFails(t) \/ ReadOnly(t) \/ CreateSession(t) \/ Upsert(t)
             \/ Commit(t) \/ ListItems(t)
    BY <1>0, <2>3, ReplyEffect
       DEF StatementFails, CallTypes, ReadOnly, CreateSession, Upsert, Commit, ListItems
  <2>4. CASE Accept(t) \/ Refuse(t) \/ LookUp(t) \/ Price(t) \/ FindOrder(t)
    BY <1>0, <2>4, StepEffect, ReplyEffect DEF Accept, Refuse, LookUp, Price, FindOrder
  <2> QED
    BY <2>1, <2>2, <2>3, <2>4 DEF HandlerStep
<1> QED
  BY <1>1, <1>2, <1>3, <1>4 DEF CartOK

\* The order.
LEMMA OwnOrder ==
  ASSUME IInv, NEW t \in Task, HandlerStep(t) \/ StatementFails(t),
         UNCHANGED <<clientVars, runVars>>
  PROVE  OrderOK(t)'
<1>0. /\ CallTypes /\ TableTypes /\ req' = req /\ sess' = sess /\ ord' = ord
      /\ hpc[t] \in {"sent"} \cup InHandler /\ OrderOK(t)
      /\ \A op : Past(t, op)' <=> Past(t, op)
      /\ ord[t] \in Id \cup {NoId}
  BY TypeParts, HandlerCalls, OwnFrame DEF IInv, OrderInv, clientVars, ClientTypes
<1>00. ~Commit(t) => orders' = orders
  BY DEF HandlerStep, StatementFails, Accept, Refuse, ReadOnly, CreateSession, Upsert,
         LookUp, Price, ReadCart, BeginOrder, InsertOrder, InsertItems, FindOrder,
         ListItems, tables
<1>1. (Unordered(t) /\ SessionOf(t) # NoId =>
         \A o \in Id : orders[o] # NoOrder => orders[o].session # SessionOf(t))'
  <2>1. CASE CreateSession(t)
    <3>1. SessionOf(t)' = NewId /\ orders' = orders
      BY <2>1, OwnSession DEF CreateSession
    <3>2. \A o \in Id : orders[o] # NoOrder => orders[o].session \in sessions
      BY DEF IInv, OrderInv, OrdersOK
    <3> QED
      BY <3>1, <3>2, NewIdFresh
  <2>2. CASE Commit(t)
    BY <2>2, OwnTouch
  <2>3. CASE ~CreateSession(t) /\ ~Commit(t)
    BY <1>0, <1>00, <2>3, OwnSession, OwnTouch DEF OrderOK
  <2> QED
    BY <2>1, <2>2, <2>3
<1>2. (/\ hpc[t] \in {"orderRow", "itemRows"} => tx.order = OrderRow(t)
       /\ hpc[t] = "itemRows" => tx.items = 1)'
  <2>1. CASE InsertOrder(t)
    <3>1. tx'.order = OrderRow(t) /\ OrderRow(t)' = OrderRow(t) /\ hpc'[t] = "orderRow"
      BY <1>0, <2>1, StepEffect, TypeParts
         DEF InsertOrder, OrderRow, IInv, ConnTypes, WritesType
    <3> QED
      BY <3>1
  <2>2. CASE InsertItems(t)
    <3>1. /\ tx'.order = tx.order /\ tx'.items = read[t] /\ OrderRow(t)' = OrderRow(t)
          /\ hpc[t] = "orderRow"
      BY <1>0, <2>2, TypeParts DEF InsertItems, OrderRow, At, IInv, ConnTypes, WritesType
    <3>2. read[t] = 1 /\ tx.order = OrderRow(t)
      BY <1>0, <3>1 DEF IInv, CartInv, CartOK, OrderOK
    <3> QED
      BY <3>1, <3>2
  <2>3. CASE \/ StatementFails(t) \/ ReadOnly(t) \/ CreateSession(t) \/ Upsert(t)
             \/ Commit(t) \/ ListItems(t)
    BY <1>0, <2>3, ReplyEffect
       DEF StatementFails, CallTypes, ReadOnly, CreateSession, Upsert, Commit, ListItems
  <2>4. CASE \/ Accept(t) \/ Refuse(t) \/ LookUp(t) \/ Price(t) \/ FindOrder(t)
             \/ BeginOrder(t)
    BY <1>0, <2>4, StepEffect, ReplyEffect
       DEF Accept, Refuse, LookUp, Price, FindOrder, BeginOrder
  <2>5. CASE ReadCart(t)
    BY <1>0, <2>5, StepEffect, ReplyEffect DEF ReadCart
  <2> QED
    BY <2>1, <2>2, <2>3, <2>4, <2>5 DEF HandlerStep
<1>3. (req[t].op = "checkout" /\ hpc[t] = "replied" /\ resp[t].status = 200 =>
         /\ resp[t].id \in Id
         /\ orders[resp[t].id] # NoOrder
         /\ orders[resp[t].id].session = sess[t])'
  <2>1. CASE Commit(t)
    <3>1. /\ tx.id \in Id /\ tx.order # NoOrder /\ tx.order.session = sess[t]
          /\ orders' = [orders EXCEPT ![tx.id] = tx.order]
          /\ resp'[t].id = tx.id
      BY <1>0, <2>1, CommitFacts, ReplyEffect DEF Commit, Answer
    <3> QED
      BY <1>0, <3>1 DEF TableTypes
  <2>2. CASE StatementFails(t)
    <3>1. PICK s : /\ s \in StatusesOfFailure(req[t].op, hpc[t])
                   /\ resp' = [resp EXCEPT ![t] = Plain(s)]
      BY <2>2 DEF StatementFails
    <3>2. resp'[t].status = s
      BY <1>0, <3>1 DEF CallTypes, Plain, Answer
    <3> QED
      BY <1>0, <3>1, <3>2 DEF StatusesOfFailure
  <2>3. CASE Accept(t) \/ Refuse(t) \/ BeginOrder(t) \/ InsertOrder(t) \/ InsertItems(t)
    BY <1>0, <2>3, StepEffect DEF Accept, Refuse, BeginOrder, InsertOrder, InsertItems
  <2>4. CASE ReadCart(t)
    BY <1>0, <2>4, NoRefusal, StepEffect DEF ReadCart, At, InHandler
  <2>5. CASE \/ ReadOnly(t) \/ CreateSession(t) \/ LookUp(t) \/ Price(t) \/ Upsert(t)
             \/ FindOrder(t) \/ ListItems(t)
    <3>1. req[t].op # "checkout"
      BY <2>5 DEF ReadOnly, CreateSession, LookUp, Price, Upsert, FindOrder, ListItems, At
    <3> QED
      BY <1>0, <3>1
  <2> QED
    BY <2>1, <2>2, <2>3, <2>4, <2>5 DEF HandlerStep
<1>4. (ord[t] # NoId => /\ orders[ord[t]] # NoOrder
                        /\ orders[ord[t]].session = sess[t])'
  <2>1. CASE Commit(t)
    <3>1. /\ tx.id \in Id /\ orders[tx.id] = NoOrder
          /\ orders' = [orders EXCEPT ![tx.id] = tx.order]
      BY <2>1, CommitFacts DEF Commit
    <3> QED
      BY <1>0, <3>1 DEF TableTypes, OrderOK
  <2>2. CASE ~Commit(t)
    BY <1>0, <1>00, <2>2 DEF OrderOK
  <2> QED
    BY <2>1, <2>2
<1> QED
  BY <1>1, <1>2, <1>3, <1>4 DEF OrderOK

-------------------------------------------------------------------------------
(* A step of a handler, and what all tasks share.                           *)

\* The connection.
LEMMA HandlerConn ==
  ASSUME IInv, NEW t \in Task, HandlerStep(t) \/ StatementFails(t)
  PROVE  ConnInv'
<1> DEFINE InTx == {"begun", "orderRow", "itemRows"}
<1>0. /\ CallTypes /\ OthersCalls(t) /\ hpc[t] \in {"sent"} \cup InHandler
      /\ \A u \in Task : conn = u <=> hpc[u] \in InTx
      /\ conn = NoTask => tx = NoWrites
      /\ up # "serving" => \A u \in Task : hpc[u] \notin InHandler
      /\ up = "serving" => seeded > 0
      /\ up = "down" => boots < MaxBoots
      /\ NoTask \notin Task
  BY TypeParts, HandlerCalls, ShopAssumption DEF IInv, ConnInv
<1>1. UNCHANGED serverVars
  BY DEF HandlerStep, StatementFails, Accept, Refuse, ReadOnly, CreateSession, Upsert,
         LookUp, Price, ReadCart, BeginOrder, InsertOrder, InsertItems, Commit, FindOrder,
         ListItems
<1>2. up # "serving" => hpc'[t] \notin InHandler
  <2>1. CASE hpc[t] = "sent"
    <3>1. Accept(t) \/ Refuse(t)
      BY <2>1 DEF HandlerStep, StatementFails, ReadOnly, CreateSession, Upsert, LookUp,
         Price, ReadCart, BeginOrder, InsertOrder, InsertItems, Commit, FindOrder,
         ListItems, At, InHandler
    <3> QED
      BY <1>0, <3>1, StepEffect DEF Accept, Refuse, InHandler
  <2>2. CASE hpc[t] \in InHandler
    BY <1>0, <2>2
  <2> QED
    BY <1>0, <2>1, <2>2
<1>3. /\ hpc'[t] \in InTx <=> conn' = t
      /\ \A u \in Task \ {t} : conn' = u <=> conn = u
      /\ conn' = NoTask => tx' = NoWrites
  <2>1. CASE BeginOrder(t)
    <3>1. conn = NoTask /\ conn' = t /\ hpc'[t] = "begun"
      BY <1>0, <2>1, StepEffect DEF BeginOrder, Idle
    <3> QED
      BY <1>0, <3>1
  <2>2. CASE InsertOrder(t) \/ InsertItems(t)
    <3>1. conn = t /\ conn' = t /\ hpc'[t] \in InTx
      BY <1>0, <2>2, StepEffect DEF InsertOrder, InsertItems, Own
    <3> QED
      BY <1>0, <3>1
  <2>3. CASE Commit(t) \/ StatementFails(t)
    <3>1. conn' = NoTask /\ tx' = NoWrites /\ (conn = t \/ conn = NoTask)
      BY <2>3 DEF Commit, StatementFails, Own, Idle
    <3>2. hpc'[t] = "replied"
      BY <1>0, <2>3, ReplyEffect DEF Commit, StatementFails, CallTypes
    <3> QED
      BY <1>0, <3>1, <3>2
  <2>4. CASE \/ Accept(t) \/ Refuse(t) \/ ReadOnly(t) \/ CreateSession(t) \/ LookUp(t)
             \/ Price(t) \/ Upsert(t) \/ ReadCart(t) \/ FindOrder(t) \/ ListItems(t)
    <3>1. UNCHANGED connVars
      BY <2>4 DEF Accept, Refuse, ReadOnly, CreateSession, LookUp, Price, Upsert,
                  ReadCart, FindOrder, ListItems
    <3>2. hpc[t] \notin InTx
      BY <2>4 DEF Accept, Refuse, ReadOnly, CreateSession, LookUp, Price, Upsert,
                  ReadCart, FindOrder, ListItems, At
    <3>3. hpc'[t] \notin InTx
      <4>1. CASE ReadOnly(t) \/ CreateSession(t) \/ Upsert(t) \/ ListItems(t)
        BY <1>0, <4>1, ReplyEffect DEF ReadOnly, CreateSession, Upsert, ListItems
      <4>2. CASE \/ Accept(t) \/ Refuse(t) \/ LookUp(t) \/ Price(t) \/ ReadCart(t)
                 \/ FindOrder(t)
        BY <1>0, <4>2, StepEffect, ReplyEffect
           DEF Accept, Refuse, LookUp, Price, ReadCart, FindOrder
      <4> QED
        BY <2>4, <4>1, <4>2
    <3> QED
      BY <1>0, <3>1, <3>2, <3>3 DEF connVars
  <2> QED
    BY <2>1, <2>2, <2>3, <2>4 DEF HandlerStep
<1>4. \A u \in Task \ {t} : hpc'[u] = hpc[u]
  BY <1>0 DEF OthersCalls
<1> HIDE DEF InTx
<1>5. \A u \in Task : conn' = u <=> hpc'[u] \in InTx
  BY <1>0, <1>3, <1>4
<1>6. up' # "serving" => \A u \in Task : hpc'[u] \notin InHandler
  BY <1>0, <1>1, <1>2, <1>4 DEF serverVars
<1> QED
  BY <1>0, <1>1, <1>3, <1>5, <1>6 DEF ConnInv, serverVars, InTx

\* What a handler does to the tables and to the identifiers.
LEMMA HandlerWrites ==
  ASSUME IInv, NEW t \in Task, HandlerStep(t) \/ StatementFails(t)
  PROVE  /\ boots' = boots
         /\ sessions' = sessions \/ CreateSession(t)
         /\ cart' = cart \/ Upsert(t)
         /\ UNCHANGED <<orders, items>> \/ Commit(t)
         /\ counter' = counter \/ CreateSession(t) \/ BeginOrder(t)
<1>1. CASE \/ Accept(t) \/ Refuse(t) \/ ReadOnly(t) \/ LookUp(t) \/ Price(t)
           \/ ReadCart(t) \/ FindOrder(t) \/ ListItems(t)
  BY <1>1 DEF Accept, Refuse, ReadOnly, LookUp, Price, ReadCart, FindOrder, ListItems,
              serverVars, tables
<1>2. CASE \/ CreateSession(t) \/ Upsert(t) \/ BeginOrder(t) \/ InsertOrder(t)
           \/ InsertItems(t) \/ Commit(t) \/ StatementFails(t)
  BY <1>2 DEF CreateSession, Upsert, BeginOrder, InsertOrder, InsertItems, Commit,
              StatementFails, serverVars, tables
<1> QED
  BY <1>1, <1>2 DEF HandlerStep

\* The rows of the orders.
LEMMA HandlerOrders ==
  ASSUME IInv, NEW t \in Task, HandlerStep(t) \/ StatementFails(t)
  PROVE  OrdersOK'
<1>0. OrdersOK /\ TableTypes
  BY TypeParts DEF IInv, OrderInv
<1>1. CASE Commit(t)
  <2>1. /\ tx.id \in Id /\ tx.order # NoOrder /\ tx.items = 1 /\ tx.order.total = 1
        /\ tx.order.session = sess[t] /\ sess[t] # NoId /\ SessionOf(t) = sess[t]
        /\ orders' = [orders EXCEPT ![tx.id] = tx.order]
        /\ items' = [items EXCEPT ![tx.id] = tx.items]
        /\ sessions' = sessions
    BY <1>1, CommitFacts DEF Commit
  <2>2. sess[t] \in sessions
    BY <2>1 DEF IInv, SessionInv
  <2>3. ASSUME NEW o \in Id
        PROVE  (IF orders[o] = NoOrder
                THEN items[o] = 0
                ELSE /\ items[o] = 1
                     /\ orders[o].total = 1
                     /\ orders[o].session \in sessions)'
    <3>1. CASE o = tx.id
      BY <1>0, <2>1, <2>2, <3>1 DEF TableTypes
    <3>2. CASE o # tx.id
      BY <1>0, <2>1, <3>2 DEF TableTypes, OrdersOK
    <3> QED
      BY <3>1, <3>2
  <2> QED
    BY <2>3 DEF OrdersOK
<1>2. CASE ~Commit(t)
  <2>1. UNCHANGED <<orders, items>> /\ sessions \subseteq sessions'
    BY <1>2, HandlerWrites DEF CreateSession
  <2> QED
    BY <1>0, <2>1 DEF OrdersOK
<1> QED
  BY <1>1, <1>2

\* The identifiers that are given stay given, and so does a new one.
LEMMA GivenGrows ==
  ASSUME ServerTypes, boots' = boots, counter' = counter \/ counter' = counter + 1
  PROVE  /\ \A i \in Id : Given(i) => Given(i)'
         /\ counter' = counter + 1 => \A i \in Id : i = NewId => Given(i)'
<1>1. counter \in Nat /\ boots \in Nat /\ \A i \in Id : i[1] \in Nat /\ i[2] \in Nat
  BY ShopAssumption DEF ServerTypes, Id
<1> QED
  BY <1>1 DEF Given, NewId

\* What is in a table or in the open transaction was given out, whoever moves.
LEMMA HandlerIds ==
  ASSUME IInv, NEW t \in Task, HandlerStep(t) \/ StatementFails(t)
  PROVE  IdInv'
<1>0. /\ ServerTypes /\ TableTypes /\ ConnTypes
      /\ \A s \in sessions : Given(s)
      /\ \A o \in Id : orders[o] # NoOrder => Given(o)
      /\ conn # NoTask => tx.id \in Id /\ Given(tx.id) /\ orders[tx.id] = NoOrder
      /\ \A s \in Id : cart[s] # 0 => s \in sessions
  BY TypeParts DEF IInv, IdInv
<1>1. /\ boots' = boots /\ (counter' = counter \/ counter' = counter + 1)
      /\ sessions' = sessions \/ CreateSession(t)
      /\ cart' = cart \/ Upsert(t)
      /\ UNCHANGED <<orders, items>> \/ Commit(t)
  BY HandlerWrites DEF CreateSession, BeginOrder
<1>2. \A i \in Id : Given(i) => Given(i)'
  BY <1>0, <1>1, GivenGrows
<1>3. (\A s \in sessions : Given(s))'
  <2>1. CASE CreateSession(t)
    BY <1>0, <1>1, <1>2, <2>1, GivenGrows, NewIdType DEF CreateSession, TableTypes
  <2>2. CASE sessions' = sessions
    BY <1>0, <1>2, <2>2 DEF TableTypes
  <2> QED
    BY <1>1, <2>1, <2>2
<1>4. (\A o \in Id : orders[o] # NoOrder => Given(o))'
  <2>1. CASE Commit(t)
    <3>1. tx.id \in Id /\ Given(tx.id) /\ orders' = [orders EXCEPT ![tx.id] = tx.order]
      BY <2>1, CommitFacts DEF Commit
    <3> QED
      BY <1>0, <1>2, <3>1 DEF TableTypes
  <2>2. CASE orders' = orders
    BY <1>0, <1>2, <2>2
  <2> QED
    BY <1>1, <2>1, <2>2
<1>5. (conn # NoTask => tx.id \in Id /\ Given(tx.id) /\ orders[tx.id] = NoOrder)'
  <2>1. CASE BeginOrder(t)
    <3>1. tx'.id = NewId /\ orders' = orders /\ counter' = counter + 1 /\ counter < MaxIds
      BY <2>1 DEF BeginOrder, tables, NoWrites
    <3>2. NewId \in Id /\ orders[NewId] = NoOrder
      BY <1>0, <3>1, NewIdType, NewIdFresh
    <3>3. \A i \in Id : i = NewId => Given(i)'
      BY <1>0, <1>1, <3>1, GivenGrows
    <3> QED
      BY <3>1, <3>2, <3>3 DEF Given
  <2>2. CASE Commit(t) \/ StatementFails(t)
    BY <2>2 DEF Commit, StatementFails
  <2>3. CASE InsertOrder(t) \/ InsertItems(t)
    <3>1. tx'.id = tx.id /\ conn' = conn /\ orders' = orders
      BY <1>0, <2>3 DEF InsertOrder, InsertItems, ConnTypes, WritesType, tables
    <3> QED
      BY <1>0, <1>2, <3>1
  <2>4. CASE UNCHANGED connVars /\ orders' = orders
    BY <1>0, <1>2, <2>4 DEF connVars
  <2> QED
    BY <2>1, <2>2, <2>3, <2>4
       DEF HandlerStep, Accept, Refuse, ReadOnly, CreateSession, LookUp, Price, Upsert,
           ReadCart, FindOrder, ListItems, tables
<1>6. (\A s \in Id : cart[s] # 0 => s \in sessions)'
  <2>1. CASE Upsert(t)
    <3>1. /\ sess[t] \in Id /\ sess[t] \in sessions /\ sessions' = sessions
          /\ cart' = [cart EXCEPT ![sess[t]] = @ + 1]
      BY <2>1, UpsertFacts DEF Upsert
    <3> QED
      BY <1>0, <3>1 DEF TableTypes
  <2>2. CASE cart' = cart
    BY <1>0, <1>1, <2>2 DEF CreateSession
  <2> QED
    BY <1>1, <2>1, <2>2
<1> QED
  BY <1>3, <1>4, <1>5, <1>6 DEF IdInv

\* The sessions of the tasks.
LEMMA HandlerSessions ==
  ASSUME IInv, NEW t \in Task, HandlerStep(t) \/ StatementFails(t),
         UNCHANGED <<clientVars, runVars>>
  PROVE  SessionInv'
<1>0. /\ TableTypes /\ ServerTypes /\ CallTypes /\ req' = req /\ OthersCalls(t)
      /\ SessionInv /\ hpc[t] \in {"sent"} \cup InHandler
      /\ NoId \notin Id
  BY TypeParts, HandlerCalls, ShopAssumption DEF IInv, Id
<1>1. \A u \in Task \ {t} : SessionOf(u)' = SessionOf(u)
  BY HandlerOthers
<1>2. CASE CreateSession(t)
  <2>1. /\ SessionOf(t)' = NewId /\ NewId \in Id /\ NewId \notin sessions
        /\ sessions' = sessions \cup {NewId} /\ resp'[t].id = NewId
        /\ counter < MaxIds
    BY <1>0, <1>2, OwnSession, NewIdType, NewIdFresh, ReplyEffect
       DEF CreateSession, Answer
  <2>2. ASSUME NEW u \in Task
        PROVE  /\ SessionOf(u)' \in sessions' \cup {NoId}
               /\ (hpc[u] = "replied" /\ req[u].op = "session" /\ resp[u].status = 200
                     => resp[u].id # NoId)'
               /\ \A v \in Task : SessionOf(u)' = SessionOf(v)' =>
                                    u = v \/ SessionOf(u)' = NoId
    BY <1>0, <1>1, <2>1 DEF SessionInv, OthersCalls
  <2> QED
    BY <2>2 DEF SessionInv
<1>3. CASE ~CreateSession(t)
  <2>1. SessionOf(t)' = SessionOf(t) /\ sessions' = sessions
    BY <1>3, OwnSession, HandlerWrites
  <2>2. (hpc[t] = "replied" /\ req[t].op = "session" /\ resp[t].status = 200
           => resp[t].id # NoId)'
    <3>1. CASE StatementFails(t)
      <4>1. PICK s : /\ s \in StatusesOfFailure(req[t].op, hpc[t])
                     /\ resp' = [resp EXCEPT ![t] = Plain(s)]
        BY <3>1 DEF StatementFails
      <4>2. resp'[t].status = s
        BY <1>0, <4>1 DEF CallTypes, Plain, Answer
      <4> QED
        BY <1>0, <4>1, <4>2 DEF StatusesOfFailure
    <3>2. CASE Accept(t) \/ Refuse(t)
      BY <1>0, <3>2, StepEffect DEF Accept, Refuse
    <3>3. CASE HandlerStep(t) /\ ~Accept(t) /\ ~Refuse(t)
      <4>1. req[t].op # "session"
        BY <1>3, <3>3 DEF HandlerStep, ReadOnly, LookUp, Price, Upsert, ReadCart,
           BeginOrder, InsertOrder, InsertItems, Commit, FindOrder, ListItems, At
      <4> QED
        BY <1>0, <4>1
    <3> QED
      BY <3>1, <3>2, <3>3
  <2>3. ASSUME NEW u \in Task
        PROVE  /\ SessionOf(u)' \in sessions' \cup {NoId}
               /\ (hpc[u] = "replied" /\ req[u].op = "session" /\ resp[u].status = 200
                     => resp[u].id # NoId)'
               /\ \A v \in Task : SessionOf(u)' = SessionOf(v)' =>
                                    u = v \/ SessionOf(u)' = NoId
    BY <1>0, <1>1, <2>1, <2>2 DEF SessionInv, OthersCalls
  <2> QED
    BY <2>3 DEF SessionInv
<1> QED
  BY <1>2, <1>3

\* A step of a handler keeps the invariant.
LEMMA HandlerKeeps ==
  ASSUME IInv, NEW t \in Task, HandlerStep(t) \/ StatementFails(t),
         UNCHANGED <<clientVars, runVars>>, faults' \in 0..MaxFaults
  PROVE  IInv'
<1>1. TypeOK'
  BY TypeHandler, TypeTarget, TypeParts, TypePartsNext, ClientFrame DEF IInv
<1>2. \A u \in Task : PlaceOK(u)' /\ TaskOK(u)' /\ CartOK(u)' /\ OrderOK(u)' /\ AnswerOK(u)'
  BY HandlerOthers, OwnPlace, OwnFrame, OwnCart, OwnOrder, OwnAnswer
<1>3. ConnInv' /\ IdInv' /\ SessionInv' /\ OrdersOK'
  BY HandlerConn, HandlerIds, HandlerSessions, HandlerOrders
<1> QED
  BY <1>1, <1>2, <1>3 DEF IInv, PlaceInv, TaskInv, CartInv, OrderInv, AnswerInv

-------------------------------------------------------------------------------
(* A step of a task.                                                        *)

\* What a task may do, also when something goes wrong.
ClientStep(t) ==
  TaskStep(t) \/ SetUpFails(t) \/ LocalStepFails(t) \/ WSCheckFails(t) \/ GiveUp(t)

\* The next step of a task that has one is a step there is.
LEMMA NextOpNames ==
  ASSUME IInv, NEW t \in Task, tpc[t] = "step"
  PROVE  /\ NextOp(t) \in Asking \cup {"launch", "local_storage", "indexed_db",
                                       "execute_js", "ws_connect"}
         /\ ~IsLocal(NextOp(t)) /\ NextOp(t) # "ws_connect" => NextOp(t) \in Asking
         /\ pos[t] \in 0..Length /\ pos[t] < Length /\ wf \in DOMAIN Steps
<1>1. pos[t] \in 0..Length /\ pos[t] < Length /\ wf \in DOMAIN Steps
  BY DEF IInv, TypeOK, TaskInv, TaskOK
<1>2. pos[t] + 1 \in 1..Len(Steps[wf])
  BY <1>1, StepFacts DEF Length
<1>3. NextOp(t) \in Asking \cup {"launch", "local_storage", "indexed_db", "execute_js",
                                 "ws_connect"}
  BY <1>1, <1>2, StepNames DEF NextOp
<1> QED
  BY <1>1, <1>3 DEF IsLocal, InPage, Skipped

\* A task writes nothing into the shop itself, but a page may open a session of its own.
LEMMA ClientWrites ==
  ASSUME NEW t \in Task, ClientStep(t)
  PROVE  /\ UNCHANGED <<serverVars, connVars, cart, orders, items, runVars>>
         /\ ProbeSession \/ UNCHANGED <<counter, sessions>>
<1>1. CASE SetUp(t) \/ SetUpFails(t) \/ LocalStep(t) \/ LocalStepFails(t) \/ GiveUp(t)
           \/ Record(t)
  BY <1>1 DEF SetUp, SetUpFails, LocalStep, LocalStepFails, GiveUp, Record, shopVars, tables
<1>2. CASE Send(t) \/ Receive(t) \/ SeeBroken(t) \/ EndUnheard(t)
  BY <1>2 DEF Send, Receive, SeeBroken, EndUnheard, tables
<1>3. CASE WSCheck(t) \/ WSCheckRefused(t) \/ WSCheckFails(t)
  BY <1>3 DEF WSCheck, WSCheckRefused, WSCheckFails, AtWSCheck
<1> QED
  BY <1>1, <1>2, <1>3 DEF ClientStep, TaskStep

\* A settled request is gone, and the other requests stay.
LEMMA SettleEffect ==
  ASSUME CallTypes, NEW t \in Task, Settle(t)
  PROVE  /\ hpc'[t] = "idle" /\ req'[t] = NoRequest
         /\ OthersCalls(t)
  BY DEF CallTypes, Settle, OthersCalls

\* The state of the other tasks.
LEMMA ClientOthers ==
  ASSUME IInv, NEW t \in Task, ClientStep(t), NEW u \in Task \ {t}
  PROVE  /\ PlaceOK(u)' /\ TaskOK(u)' /\ CartOK(u)' /\ OrderOK(u)' /\ AnswerOK(u)'
         /\ SessionOf(u)' = SessionOf(u)
         /\ hpc'[u] = hpc[u] /\ req'[u] = req[u] /\ resp'[u] = resp[u]
<1>0. CallTypes /\ ClientTypes
  BY TypeParts DEF IInv
<1>1. TablesFor(u)
  BY ClientWrites DEF TablesFor, connVars
<1>2. UNCHANGED runVars
  BY ClientWrites
<1>3. /\ hpc'[u] = hpc[u] /\ req'[u] = req[u] /\ resp'[u] = resp[u] /\ read'[u] = read[u]
      /\ u \in sqlFailed' <=> u \in sqlFailed
  <2>1. CASE \/ SetUp(t) \/ SetUpFails(t) \/ LocalStep(t) \/ LocalStepFails(t)
             \/ GiveUp(t) \/ Record(t) \/ WSCheck(t) \/ WSCheckRefused(t) \/ WSCheckFails(t)
    BY <2>1 DEF SetUp, SetUpFails, LocalStep, LocalStepFails, GiveUp, Record, WSCheck,
                WSCheckRefused, WSCheckFails, AtWSCheck, shopVars, callVars
  <2>2. CASE Receive(t) \/ SeeBroken(t) \/ EndUnheard(t)
    BY <1>0, <2>2, SettleEffect DEF Receive, SeeBroken, EndUnheard, OthersCalls
  <2>3. CASE Send(t)
    <3>1. CASE Unready(t)
      BY <2>3, <3>1 DEF Send, callVars
    <3>2. CASE ~Unready(t)
      BY <1>0, <2>3, <3>2 DEF Send, CallTypes
    <3> QED
      BY <3>1, <3>2
  <2> QED
    BY <2>1, <2>2, <2>3 DEF ClientStep, TaskStep
<1>4. /\ tpc'[u] = tpc[u] /\ pos'[u] = pos[u] /\ failure'[u] = failure[u]
      /\ sess'[u] = sess[u] /\ ord'[u] = ord[u]
  <2>1. CASE SetUp(t) \/ SetUpFails(t) \/ Record(t) \/ EndUnheard(t)
    BY <1>0, <2>1 DEF SetUp, SetUpFails, Record, EndUnheard, ClientTypes, clientVars
  <2>2. CASE LocalStep(t) \/ WSCheck(t)
    BY <1>0, <2>2 DEF LocalStep, WSCheck, AtWSCheck, Completed, ClientTypes
  <2>3. CASE \/ LocalStepFails(t) \/ GiveUp(t) \/ SeeBroken(t) \/ WSCheckRefused(t)
             \/ WSCheckFails(t)
    <3>1. (\E class : Failed(t, class)) /\ UNCHANGED <<sess, ord>>
      BY <2>3 DEF LocalStepFails, GiveUp, SeeBroken, WSCheckRefused, WSCheckFails, AtWSCheck
    <3> QED
      BY <1>0, <3>1 DEF Failed, ClientTypes
  <2>4. CASE Send(t)
    BY <1>0, <2>4 DEF Send, Failed, ClientTypes
  <2>5. CASE Receive(t)
    <3>1. /\ tpc'[u] = tpc[u] /\ pos'[u] = pos[u] /\ failure'[u] = failure[u]
      BY <1>0, <2>5 DEF Receive, Failed, Completed, ClientTypes
    <3>2. /\ sess' = sess \/ sess' = [sess EXCEPT ![t] = resp[t].id]
          /\ ord' = ord \/ ord' = [ord EXCEPT ![t] = resp[t].id]
      BY <2>5 DEF Receive
    <3> QED
      BY <1>0, <3>1, <3>2 DEF ClientTypes
  <2> QED
    BY <2>1, <2>2, <2>3, <2>4, <2>5 DEF ClientStep, TaskStep
<1>5. Same(u)
  BY <1>2, <1>3, <1>4 DEF Same
<1> QED
  BY <1>1, <1>3, <1>5, OtherTask

\* A task that neither asks nor hears: what its next position keeps.
LEMMA QuietOwn ==
  ASSUME IInv, NEW t \in Task,
         UNCHANGED <<callVars, sess, ord, runVars, connVars, cart, orders, items>>,
         \A op \in {"cart_add", "checkout"} : Past(t, op)' <=> Past(t, op),
         Untouched(t)' => Untouched(t) \/ SessionOf(t) = NoId,
         Unordered(t)' => Unordered(t) \/ SessionOf(t) = NoId
  PROVE  /\ PlaceOK(t)' /\ CartOK(t)' /\ OrderOK(t)' /\ AnswerOK(t)'
         /\ SessionOf(t)' = SessionOf(t)
<1>0. PlaceOK(t) /\ CartOK(t) /\ OrderOK(t) /\ AnswerOK(t)
  BY DEF IInv, PlaceInv, CartInv, OrderInv, AnswerInv
<1>1. SessionOf(t)' = SessionOf(t)
  BY DEF SessionOf, callVars
<1>2. PlaceOK(t)' /\ AnswerOK(t)'
  BY <1>0 DEF PlaceOK, AnswerOK, callVars
<1>3. CartOK(t)'
  BY <1>0, <1>1 DEF CartOK, callVars
<1>4. OrderRow(t)' = OrderRow(t)
  BY DEF OrderRow, callVars
<1>5. OrderOK(t)'
  BY <1>0, <1>1, <1>4 DEF OrderOK, callVars, connVars
<1> QED
  BY <1>1, <1>2, <1>3, <1>5

\* A step done without asking the shop.
LEMMA CompletedOwn ==
  ASSUME IInv, NEW t \in Task, tpc[t] = "step", Completed(t),
         NextOp(t) \notin {"session_create", "cart_add", "checkout"},
         UNCHANGED <<callVars, sess, ord, runVars, connVars, cart, orders, items>>
  PROVE  /\ PlaceOK(t)' /\ TaskOK(t)' /\ CartOK(t)' /\ OrderOK(t)' /\ AnswerOK(t)'
         /\ SessionOf(t)' = SessionOf(t)
<1>0. /\ ClientTypes /\ TaskOK(t) /\ pos[t] \in 0..Length /\ pos[t] < Length
      /\ Length \in Nat /\ Length' = Length
  BY TypeParts, NextOpNames, StepFacts DEF IInv, TaskInv, Length, runVars
<1>1. \A op : Past(t, op)' <=> Past(t, op) \/ op = NextOp(t)
  BY <1>0, PastCompleted DEF Completed, ClientTypes, runVars
<1>2. /\ pos'[t] = pos[t] + 1 /\ failure' = failure
      /\ tpc'[t] = IF pos[t] + 1 = Length THEN "over" ELSE "step"
  BY <1>0 DEF Completed, ClientTypes
<1>3. hpc[t] = "idle"
  BY <1>0 DEF TaskOK
<1>4. TaskOK(t)'
  BY <1>0, <1>1, <1>2, <1>3 DEF TaskOK, callVars
<1>5. /\ Untouched(t)' => Untouched(t)
      /\ Unordered(t)' => Unordered(t)
  BY <1>1, <1>3 DEF Untouched, Unordered, callVars
<1> QED
  BY <1>1, <1>4, <1>5, QuietOwn

\* A workflow that ends with an error.
LEMMA FailedOwn ==
  ASSUME IInv, NEW t \in Task, tpc[t] \in {"step", "wait"}, NEW class \in Classes,
         Failed(t, class),
         UNCHANGED <<callVars, sess, ord, runVars, connVars, cart, orders, items>>
  PROVE  /\ PlaceOK(t)' /\ TaskOK(t)' /\ CartOK(t)' /\ OrderOK(t)' /\ AnswerOK(t)'
         /\ SessionOf(t)' = SessionOf(t)
<1>0. ClientTypes /\ TaskOK(t) /\ Length' = Length /\ NextOp(t)' = NextOp(t)
  BY TypeParts DEF IInv, TaskInv, Length, runVars, Failed, NextOp
<1>1. \A op : Past(t, op)' <=> Past(t, op)
  BY DEF Past, Failed, runVars
<1>2. tpc'[t] = "over" /\ failure'[t] = class /\ pos' = pos /\ class # "none"
  BY <1>0 DEF Failed, ClientTypes, Classes
<1>3. TaskOK(t)'
  BY <1>0, <1>1, <1>2 DEF TaskOK, callVars
<1>4. /\ Untouched(t)' => Untouched(t)
      /\ Unordered(t)' => Unordered(t)
  BY <1>1, <1>2 DEF Untouched, Unordered, callVars
<1> QED
  BY <1>1, <1>3, <1>4, QuietOwn

\* A task that begins, and one that is recorded.
LEMMA EndsOwn ==
  ASSUME IInv, NEW t \in Task, SetUp(t) \/ SetUpFails(t) \/ Record(t)
  PROVE  /\ PlaceOK(t)' /\ TaskOK(t)' /\ CartOK(t)' /\ OrderOK(t)' /\ AnswerOK(t)'
         /\ SessionOf(t)' = SessionOf(t)
<1>0. ClientTypes /\ TaskOK(t) /\ Length \in Nat /\ Length > 0
  BY TypeParts, StepFacts DEF IInv, TaskInv, Length, ClientTypes
<1>1. UNCHANGED <<pos, failure, sess, ord, callVars, runVars, connVars, cart, orders, items>>
  BY DEF SetUp, SetUpFails, Record, shopVars, tables
<1>2. /\ Length' = Length /\ NextOp(t)' = NextOp(t)
      /\ \A op : Past(t, op)' <=> Past(t, op)
  BY <1>1 DEF Length, NextOp, Past, runVars
<1>3. CASE SetUp(t) \/ SetUpFails(t)
  <2>1. tpc[t] = "new" /\ tpc'[t] \in {"step", "nosetup"}
    BY <1>0, <1>3 DEF SetUp, SetUpFails, ClientTypes
  <2>2. pos[t] = 0 /\ hpc[t] = "idle"
    BY <1>0, <2>1 DEF TaskOK
  <2>3. SessionOf(t) = NoId
    <3>1. ~Past(t, "session_create")
      BY <2>2 DEF Past
    <3> QED
      BY <1>0, <2>2, <3>1 DEF TaskOK, SessionOf
  <2>4. TaskOK(t)'
    BY <1>0, <1>1, <1>2, <2>1, <2>2 DEF TaskOK, callVars
  <2> QED
    BY <1>1, <1>2, <2>3, <2>4, QuietOwn
<1>4. CASE Record(t)
  <2>1. tpc[t] = "over" /\ tpc'[t] = "recorded"
    BY <1>0, <1>4 DEF Record, ClientTypes
  <2>2. TaskOK(t)'
    BY <1>0, <1>1, <1>2, <2>1 DEF TaskOK, callVars
  <2>3. /\ Untouched(t)' => Untouched(t)
        /\ Unordered(t)' => Unordered(t)
    BY <1>1, <1>2, <2>1 DEF Untouched, Unordered, callVars
  <2> QED
    BY <1>1, <1>2, <2>2, <2>3, QuietOwn
<1> QED
  BY <1>3, <1>4

\* A request that is sent.
LEMMA SendOwn ==
  ASSUME IInv, NEW t \in Task, Send(t)
  PROVE  /\ PlaceOK(t)' /\ TaskOK(t)' /\ CartOK(t)' /\ OrderOK(t)' /\ AnswerOK(t)'
         /\ SessionOf(t)' = SessionOf(t)
<1>0. /\ CallTypes /\ ClientTypes /\ TaskOK(t) /\ CartOK(t) /\ OrderOK(t) /\ tpc[t] = "step"
      /\ UNCHANGED <<sess, ord, runVars, connVars, cart, orders, items>>
  BY TypeParts, ClientWrites DEF IInv, TaskInv, CartInv, OrderInv, Send, ClientStep, TaskStep
<1>1. CASE Unready(t)
  <2>1. Failed(t, "application") /\ UNCHANGED callVars /\ "application" \in Classes
    BY <1>1 DEF Send, Classes
  <2> QED
    BY <1>0, <2>1, FailedOwn
<1>2. CASE ~Unready(t)
  <2>1. NextOp(t) \in Asking /\ pos[t] \in 0..Length /\ pos[t] < Length /\ wf \in DOMAIN Steps
    BY <1>0, NextOpNames DEF Send
  <2>2. /\ tpc'[t] = "wait" /\ hpc'[t] = "sent" /\ UNCHANGED <<pos, failure, resp, read>>
        /\ req'[t].op = RequestOf[NextOp(t)]
        /\ req'[t].session = sess[t] /\ req'[t].order = ord[t]
    BY <1>0, <1>2 DEF Send, CallTypes, ClientTypes
  <2>3. /\ Length' = Length /\ NextOp(t)' = NextOp(t)
        /\ \A op : Past(t, op)' <=> Past(t, op)
    BY <1>0, <2>2 DEF Length, NextOp, Past, runVars
  <2>4. hpc[t] = "idle" /\ SessionOf(t)' = SessionOf(t)
    BY <1>0, <2>2 DEF TaskOK, SessionOf
  <2>5. PlaceOK(t)' /\ AnswerOK(t)'
    BY <2>2 DEF PlaceOK, AnswerOK
  <2>6. TaskOK(t)'
    BY <1>0, <2>1, <2>2, <2>3 DEF TaskOK
  <2>7. /\ Untouched(t)' => Untouched(t)
        /\ Unordered(t)' => Unordered(t)
    <3>1. /\ req'[t].op = "cart_add" => ~Past(t, "cart_add")
          /\ req'[t].op = "checkout" => ~Past(t, "checkout")
      BY <2>1, <2>2, RequestSteps, PastFacts
    <3> QED
      BY <1>0, <2>2, <2>3, <3>1 DEF Untouched, Unordered
  <2>8. CartOK(t)'
    BY <1>0, <2>2, <2>3, <2>4, <2>7 DEF CartOK
  <2>9. OrderOK(t)'
    BY <1>0, <2>2, <2>3, <2>4, <2>7 DEF OrderOK
  <2> QED
    BY <2>4, <2>5, <2>6, <2>8, <2>9
<1> QED
  BY <1>1, <1>2

\* A request that nobody waits for any more, or that has broken.
LEMMA UnheardOwn ==
  ASSUME IInv, NEW t \in Task, SeeBroken(t) \/ EndUnheard(t)
  PROVE  /\ PlaceOK(t)' /\ TaskOK(t)' /\ CartOK(t)' /\ OrderOK(t)' /\ AnswerOK(t)'
         /\ SessionOf(t)' \in {SessionOf(t), NoId}
<1>0. /\ CallTypes /\ ClientTypes /\ TaskOK(t) /\ CartOK(t) /\ OrderOK(t) /\ Settle(t)
      /\ UNCHANGED <<sess, ord, runVars, connVars, cart, orders, items>>
  BY TypeParts, ClientWrites
     DEF IInv, TaskInv, CartInv, OrderInv, SeeBroken, EndUnheard, clientVars,
         ClientStep, TaskStep
<1>1. hpc'[t] = "idle" /\ req'[t].op = "none"
  BY <1>0, SettleEffect DEF NoRequest
<1>2. PlaceOK(t)' /\ AnswerOK(t)'
  BY <1>1 DEF PlaceOK, AnswerOK
<1>3. /\ tpc'[t] \in {"over", "recorded"} /\ pos' = pos
      /\ \/ tpc'[t] = tpc[t] /\ failure' = failure
         \/ tpc'[t] = "over" /\ failure'[t] # "none"
  <2>1. CASE SeeBroken(t)
    <3>1. \E class \in Classes : Failed(t, class)
      BY <2>1, ClassTyped DEF SeeBroken
    <3> QED
      BY <1>0, <3>1 DEF Failed, ClientTypes, Classes
  <2>2. CASE EndUnheard(t)
    BY <1>0, <2>2 DEF EndUnheard, TaskOK, clientVars, ClientTypes
  <2> QED
    BY <2>1, <2>2
<1>4. Length' = Length /\ \A op : Past(t, op)' <=> Past(t, op)
  BY <1>0, <1>3 DEF Length, Past, runVars
<1>5. TaskOK(t)'
  BY <1>0, <1>1, <1>3, <1>4 DEF TaskOK
<1>6. ~Untouched(t)' /\ ~Unordered(t)'
  BY <1>1, <1>3 DEF Untouched, Unordered
<1>7. CartOK(t)'
  BY <1>0, <1>1, <1>4, <1>6 DEF CartOK
<1>8. OrderOK(t)'
  BY <1>0, <1>1, <1>4, <1>6 DEF OrderOK
<1>9. SessionOf(t)' \in {SessionOf(t), NoId}
  BY <1>0, <1>1 DEF SessionOf
<1> QED
  BY <1>2, <1>5, <1>7, <1>8, <1>9

\* An answer that is heard.
LEMMA ReceiveOwn ==
  ASSUME IInv, NEW t \in Task, Receive(t)
  PROVE  /\ PlaceOK(t)' /\ TaskOK(t)' /\ CartOK(t)' /\ OrderOK(t)' /\ AnswerOK(t)'
         /\ SessionOf(t)' \in {SessionOf(t), NoId}
<1>0. /\ CallTypes /\ ClientTypes /\ TaskOK(t) /\ CartOK(t) /\ OrderOK(t) /\ AnswerOK(t)
      /\ Settle(t) /\ tpc[t] = "wait" /\ hpc[t] = "replied"
      /\ UNCHANGED <<runVars, connVars, cart, orders, items>>
  BY TypeParts, ClientWrites
     DEF IInv, TaskInv, CartInv, OrderInv, AnswerInv, Receive, ClientStep, TaskStep
<1>1. hpc'[t] = "idle" /\ req'[t].op = "none"
  BY <1>0, SettleEffect DEF NoRequest
<1>2. PlaceOK(t)' /\ AnswerOK(t)'
  BY <1>1 DEF PlaceOK, AnswerOK
<1>3. /\ pos[t] \in 0..Length /\ pos[t] < Length /\ wf \in DOMAIN Steps /\ Length \in Nat
      /\ NextOp(t) \in Asking /\ req[t].op = RequestOf[NextOp(t)] /\ Length' = Length
  BY <1>0, StepFacts DEF TaskOK, ClientTypes, Length, runVars
<1>4. CASE resp[t].status >= 400
  <2>1. Failed(t, "application") /\ UNCHANGED <<sess, ord>>
    BY <1>4 DEF Receive
  <2>2. tpc'[t] = "over" /\ pos' = pos /\ failure'[t] # "none"
    BY <1>0, <2>1 DEF Failed, ClientTypes
  <2>3. \A op : Past(t, op)' <=> Past(t, op)
    BY <1>0, <2>2 DEF Past, runVars
  <2>4. TaskOK(t)'
    BY <1>0, <1>1, <1>3, <2>1, <2>2, <2>3 DEF TaskOK
  <2>5. ~Untouched(t)' /\ ~Unordered(t)'
    BY <1>1, <2>2 DEF Untouched, Unordered
  <2>6. CartOK(t)'
    BY <1>0, <1>1, <2>1, <2>3, <2>5 DEF CartOK
  <2>7. OrderOK(t)'
    BY <1>0, <1>1, <2>1, <2>3, <2>5 DEF OrderOK
  <2>8. SessionOf(t)' \in {SessionOf(t), NoId}
    BY <1>1, <2>1 DEF SessionOf
  <2> QED
    BY <1>2, <2>4, <2>6, <2>7, <2>8
<1>5. CASE ~(resp[t].status >= 400)
  <2>1. resp[t].status = 200
    BY <1>0, <1>5 DEF CallTypes, AnswerType, AnswerOK
  <2>2. /\ Completed(t)
        /\ sess' = IF req[t].op = "session" THEN [sess EXCEPT ![t] = resp[t].id] ELSE sess
        /\ ord' = IF req[t].op = "checkout" THEN [ord EXCEPT ![t] = resp[t].id] ELSE ord
    BY <1>5 DEF Receive
  <2>3. \A op : Past(t, op)' <=> Past(t, op) \/ op = NextOp(t)
    BY <1>0, <1>3, <2>2, PastCompleted DEF Completed, ClientTypes, runVars
  <2>4. /\ pos'[t] = pos[t] + 1 /\ failure' = failure
        /\ tpc'[t] = IF pos[t] + 1 = Length THEN "over" ELSE "step"
    BY <1>0, <2>2 DEF Completed, ClientTypes
  <2>5. /\ req[t].op = "session" <=> NextOp(t) = "session_create"
        /\ req[t].op = "cart_add" <=> NextOp(t) = "cart_add"
        /\ req[t].op = "checkout" <=> NextOp(t) = "checkout"
    BY <1>3, RequestSteps
  <2>6. /\ req[t].op = "session" => sess'[t] = resp[t].id /\ resp[t].id # NoId
        /\ req[t].op # "session" => sess'[t] = sess[t]
        /\ req[t].op = "checkout" => ord'[t] = resp[t].id /\ resp[t].id \in Id
        /\ req[t].op # "checkout" => ord'[t] = ord[t]
        /\ NoId \notin Id
    BY <1>0, <2>1, <2>2, ShopAssumption
       DEF ClientTypes, IInv, SessionInv, OrderOK, Id
  <2>7. TaskOK(t)'
    BY <1>0, <1>1, <1>3, <2>3, <2>4, <2>5, <2>6 DEF TaskOK
  <2>8. /\ Untouched(t)' => Untouched(t)
        /\ Unordered(t)' => Unordered(t)
    BY <1>0, <1>1, <2>3, <2>5 DEF Untouched, Unordered
  <2>9. SessionOf(t)' = SessionOf(t)
    <3>1. req[t].op = "session" => sess[t] = NoId
      BY <1>0, RequestFacts
    <3> QED
      BY <1>0, <1>1, <2>1, <2>6, <3>1 DEF SessionOf
  <2>10. /\ req[t].op = "session" => ~Past(t, "cart_add") /\ ~Past(t, "checkout")
         /\ Past(t, "checkout") <=> ord[t] # NoId
    BY <1>0, RequestFacts DEF TaskOK
  <2>11. CartOK(t)'
    BY <1>0, <1>1, <2>1, <2>3, <2>5, <2>6, <2>8, <2>9, <2>10 DEF CartOK
  <2>12. OrderOK(t)'
    BY <1>0, <1>1, <2>1, <2>3, <2>5, <2>6, <2>8, <2>9, <2>10 DEF OrderOK
  <2> QED
    BY <1>2, <2>7, <2>9, <2>11, <2>12
<1> QED
  BY <1>4, <1>5

\* A task keeps what the invariant says of it.
LEMMA ClientOwn ==
  ASSUME IInv, NEW t \in Task, ClientStep(t)
  PROVE  /\ PlaceOK(t)' /\ TaskOK(t)' /\ CartOK(t)' /\ OrderOK(t)' /\ AnswerOK(t)'
         /\ SessionOf(t)' \in {SessionOf(t), NoId}
<1>0. UNCHANGED <<runVars, connVars, cart, orders, items>>
  BY ClientWrites
<1>1. CASE SetUp(t) \/ SetUpFails(t) \/ Record(t)
  BY <1>1, EndsOwn
<1>2. CASE LocalStep(t)
  <2>1. NextOp(t) \notin {"session_create", "cart_add", "checkout"}
    BY <1>2 DEF LocalStep, IsLocal, InPage, Skipped
  <2> QED
    BY <1>0, <1>2, <2>1, CompletedOwn DEF LocalStep, shopVars
<1>3. CASE WSCheck(t)
  BY <1>0, <1>3, CompletedOwn DEF WSCheck, AtWSCheck
<1>4. CASE LocalStepFails(t) \/ GiveUp(t) \/ WSCheckRefused(t) \/ WSCheckFails(t)
  <2>1. /\ \E class \in Classes : Failed(t, class)
        /\ tpc[t] \in {"step", "wait"} /\ UNCHANGED <<callVars, sess, ord>>
    BY <1>4, ClassTyped
       DEF LocalStepFails, GiveUp, WSCheckRefused, WSCheckFails, AtWSCheck, shopVars
  <2> QED
    BY <1>0, <2>1, FailedOwn
<1>5. CASE Send(t)
  BY <1>5, SendOwn
<1>6. CASE SeeBroken(t) \/ EndUnheard(t)
  BY <1>6, UnheardOwn
<1>7. CASE Receive(t)
  BY <1>7, ReceiveOwn
<1> QED
  BY <1>1, <1>2, <1>3, <1>4, <1>5, <1>6, <1>7 DEF ClientStep, TaskStep

\* The request of a task that moves is in no handler, and comes from none.
LEMMA ClientPlace ==
  ASSUME IInv, NEW t \in Task, ClientStep(t)
  PROVE  /\ hpc'[t] = hpc[t] \/ (hpc[t] \notin InHandler /\ hpc'[t] \notin InHandler)
         /\ hpc'[t] = "replied" => hpc[t] = "replied" /\ req'[t] = req[t] /\ resp'[t] = resp[t]
<1>0. CallTypes /\ TaskOK(t)
  BY TypeParts DEF IInv, TaskInv
<1>1. CASE \/ SetUp(t) \/ SetUpFails(t) \/ LocalStep(t) \/ LocalStepFails(t)
           \/ GiveUp(t) \/ Record(t) \/ WSCheck(t) \/ WSCheckRefused(t) \/ WSCheckFails(t)
  BY <1>1 DEF SetUp, SetUpFails, LocalStep, LocalStepFails, GiveUp, Record, WSCheck,
              WSCheckRefused, WSCheckFails, AtWSCheck, shopVars, callVars
<1>2. CASE Receive(t) \/ SeeBroken(t) \/ EndUnheard(t)
  BY <1>0, <1>2, SettleEffect DEF Receive, SeeBroken, EndUnheard, InHandler
<1>3. CASE Send(t)
  <2>1. hpc[t] = "idle"
    BY <1>0, <1>3 DEF Send, TaskOK
  <2>2. hpc'[t] = "sent" \/ UNCHANGED callVars
    BY <1>0, <1>3 DEF Send, CallTypes
  <2> QED
    BY <2>1, <2>2 DEF callVars, InHandler
<1> QED
  BY <1>1, <1>2, <1>3 DEF ClientStep, TaskStep

\* What all tasks share.
LEMMA ClientShared ==
  ASSUME IInv, NEW t \in Task, ClientStep(t)
  PROVE  ConnInv' /\ IdInv' /\ SessionInv' /\ OrdersOK'
<1>0. /\ UNCHANGED <<serverVars, connVars, cart, orders, items>>
      /\ counter' = counter \/ counter' = counter + 1
      /\ sessions' = sessions
           \/ (sessions' = sessions \cup {NewId} /\ counter' = counter + 1 /\ NewId \in Id)
      /\ ServerTypes /\ TableTypes /\ ConnTypes
  BY ClientWrites, NewIdType, TypeParts DEF ProbeSession, IInv
<1>1. \A u \in Task \ {t} : /\ hpc'[u] = hpc[u] /\ req'[u] = req[u] /\ resp'[u] = resp[u]
                            /\ SessionOf(u)' = SessionOf(u)
  BY ClientOthers
<1>2. ConnInv'
  <2>1. ConnInv
    BY DEF IInv
  <2>2. \A u \in Task : \/ hpc'[u] = hpc[u]
                        \/ hpc[u] \notin InHandler /\ hpc'[u] \notin InHandler
    BY <1>1, ClientPlace
  <2> QED
    BY <1>0, <2>1, <2>2 DEF ConnInv, serverVars, connVars, InHandler
<1>3. IdInv'
  <2>1. \A i \in Id : Given(i) => Given(i)'
    BY <1>0, GivenGrows DEF serverVars
  <2>2. counter' = counter + 1 => \A i \in Id : i = NewId => Given(i)'
    BY <1>0, GivenGrows DEF serverVars
  <2>3. /\ \A s \in sessions : Given(s)
        /\ \A o \in Id : orders[o] # NoOrder => Given(o)
        /\ conn # NoTask => tx.id \in Id /\ Given(tx.id) /\ orders[tx.id] = NoOrder
        /\ \A s \in Id : cart[s] # 0 => s \in sessions
    BY DEF IInv, IdInv
  <2>4. (\A s \in sessions : Given(s))'
    BY <1>0, <2>1, <2>2, <2>3 DEF TableTypes
  <2>5. (\A o \in Id : orders[o] # NoOrder => Given(o))'
    BY <1>0, <2>1, <2>3
  <2>6. (conn # NoTask => tx.id \in Id /\ Given(tx.id) /\ orders[tx.id] = NoOrder)'
    BY <1>0, <2>1, <2>3 DEF connVars
  <2>7. (\A s \in Id : cart[s] # 0 => s \in sessions)'
    BY <1>0, <2>3
  <2> QED
    BY <2>4, <2>5, <2>6, <2>7 DEF IdInv
<1>4. SessionInv'
  <2>1. SessionInv /\ SessionOf(t)' \in {SessionOf(t), NoId}
    BY ClientOwn DEF IInv
  <2>2. hpc'[t] = "replied" => hpc[t] = "replied" /\ req'[t] = req[t] /\ resp'[t] = resp[t]
    BY ClientPlace
  <2>3. ASSUME NEW u \in Task
        PROVE  /\ SessionOf(u)' \in sessions' \cup {NoId}
               /\ (hpc[u] = "replied" /\ req[u].op = "session" /\ resp[u].status = 200
                     => resp[u].id # NoId)'
               /\ \A v \in Task : SessionOf(u)' = SessionOf(v)' =>
                                    u = v \/ SessionOf(u)' = NoId
    BY <1>0, <1>1, <2>1, <2>2 DEF SessionInv
  <2> QED
    BY <2>3 DEF SessionInv
<1>5. OrdersOK'
  BY <1>0 DEF IInv, OrderInv, OrdersOK
<1> QED
  BY <1>2, <1>3, <1>4, <1>5

\* A step of a task keeps the invariant.
LEMMA ClientKeeps ==
  ASSUME IInv, NEW t \in Task, ClientStep(t), faults' \in 0..MaxFaults
  PROVE  IInv'
<1>1. TypeOK'
  BY TypeTask, TypePartsNext DEF ClientStep
<1>2. \A u \in Task : PlaceOK(u)' /\ TaskOK(u)' /\ CartOK(u)' /\ OrderOK(u)' /\ AnswerOK(u)'
  BY ClientOthers, ClientOwn
<1> QED
  BY <1>1, <1>2, ClientShared DEF IInv, PlaceInv, TaskInv, CartInv, OrderInv, AnswerInv

-------------------------------------------------------------------------------
(* The process of the target.                                               *)

\* The process starts.
LEMMA StartsKeep ==
  ASSUME IInv, TargetStarts, UNCHANGED <<clientVars, runVars>>, faults' \in 0..MaxFaults
  PROVE  IInv'
<1>1. TypeOK'
  BY TypeTarget, TypeParts, TypePartsNext, ClientFrame DEF IInv
<1>2. UNCHANGED <<connVars, tables, callVars>>
  BY DEF TargetStarts, OpenStore, SeedProduct, Restart
<1>3. \A t \in Task : Same(t) /\ TablesFor(t)
  BY <1>2 DEF Same, TablesFor, callVars, clientVars, tables, connVars
<1>4. \A t \in Task : /\ PlaceOK(t)' /\ TaskOK(t)' /\ CartOK(t)' /\ OrderOK(t)' /\ AnswerOK(t)'
                      /\ SessionOf(t)' = SessionOf(t)
  BY <1>3, OtherTask
<1>5. ConnInv'
  <2>1. /\ up # "serving" /\ boots \in 1..MaxBoots /\ seeded \in 0..Products
        /\ Products > 0
        /\ up' \in {"opening", "seeding", "serving"}
        /\ up' = "serving" => seeded' > 0
    BY ShopAssumption DEF TargetStarts, OpenStore, SeedProduct, Restart, IInv, TypeOK
  <2> QED
    BY <1>2, <2>1 DEF IInv, ConnInv, callVars, connVars
<1>6. IdInv'
  <2>1. \A i \in Id : Given(i) => Given(i)'
    <3>1. boots \in Nat /\ counter \in Nat /\ \A i \in Id : i[1] \in Nat /\ i[2] \in Nat
      BY ShopAssumption DEF IInv, TypeOK, Id
    <3>2. (boots' = boots /\ counter' = counter) \/ boots' = boots + 1
      BY DEF TargetStarts, OpenStore, SeedProduct, Restart
    <3> QED
      BY <3>1, <3>2 DEF Given
  <2>2. sessions \subseteq Id
    BY DEF IInv, TypeOK
  <2>3. IdInv
    BY DEF IInv
  <2> QED
    BY <1>2, <2>1, <2>2, <2>3 DEF IdInv, tables, connVars
<1>7. SessionInv' /\ OrdersOK'
  BY <1>2, <1>4 DEF IInv, SessionInv, OrderInv, OrdersOK, tables, callVars
<1> QED
  BY <1>1, <1>4, <1>5, <1>6, <1>7 DEF IInv, PlaceInv, TaskInv, CartInv, OrderInv, AnswerInv

\* The process dies: what its handlers held is gone, what was answered may be.
LEMMA CrashKeeps ==
  ASSUME IInv, Crash, UNCHANGED <<clientVars, runVars>>, faults' \in 0..MaxFaults
  PROVE  IInv'
<1>1. TypeOK'
  BY TypeTarget, TypeParts, TypePartsNext, ClientFrame DEF IInv
<1>2. /\ UNCHANGED <<boots, counter, tables, req, resp, sqlFailed>>
      /\ conn' = NoTask /\ tx' = NoWrites /\ up' = "down" /\ boots < MaxBoots
      /\ \A t \in Task : \/ hpc'[t] = "broken" /\ hpc[t] \in InHandler \cup {"replied"}
                         \/ hpc'[t] = hpc[t] /\ hpc[t] \notin InHandler
  BY DEF Crash
<1>3. \A t \in Task : /\ \A op : Past(t, op)' <=> Past(t, op)
                      /\ NextOp(t)' = NextOp(t)
  BY DEF Past, NextOp, clientVars, runVars
<1>4. Length' = Length
  BY DEF Length, runVars
<1>5. \A t \in Task : SessionOf(t)' \in {SessionOf(t), NoId}
  BY <1>2 DEF SessionOf, clientVars
<1>6. ASSUME NEW t \in Task
      PROVE  PlaceOK(t)' /\ TaskOK(t)' /\ CartOK(t)' /\ OrderOK(t)' /\ AnswerOK(t)'
  <2>1. PlaceOK(t) /\ TaskOK(t) /\ CartOK(t) /\ OrderOK(t) /\ AnswerOK(t)
    BY DEF IInv, PlaceInv, TaskInv, CartInv, OrderInv, AnswerInv
  <2>2. \/ hpc'[t] = "broken" /\ hpc[t] \in InHandler \cup {"replied"}
        \/ hpc'[t] = hpc[t] /\ hpc[t] \notin InHandler
    BY <1>2
  <2>3. PlaceOK(t)' /\ AnswerOK(t)'
    BY <1>2, <2>1, <2>2 DEF PlaceOK, AnswerOK
  <2>4. TaskOK(t)'
    BY <1>2, <1>3, <1>4, <2>1, <2>2 DEF TaskOK, clientVars, InHandler
  <2>5. /\ Untouched(t)' => Untouched(t)
        /\ Unordered(t)' => Unordered(t)
    BY <1>2, <1>3, <2>2 DEF Untouched, Unordered, clientVars
  <2>6. SessionOf(t)' \in {SessionOf(t), NoId}
    BY <1>5
  <2>7. CartOK(t)'
    BY <1>2, <1>3, <2>1, <2>2, <2>5, <2>6 DEF CartOK, clientVars, tables, InHandler
  <2>8. OrderOK(t)'
    BY <1>2, <1>3, <2>1, <2>2, <2>5, <2>6 DEF OrderOK, clientVars, tables, InHandler
  <2> QED
    BY <2>3, <2>4, <2>7, <2>8
<1>7. ConnInv'
  BY <1>2, ShopAssumption DEF ConnInv, InHandler
<1>8. IdInv'
  <2>1. \A i : Given(i)' <=> Given(i)
    BY <1>2 DEF Given
  <2> QED
    BY <1>2, <2>1 DEF IInv, IdInv, tables
<1>9. SessionInv' /\ OrdersOK'
  <2>1. \A t \in Task : hpc'[t] = "replied" => hpc[t] = "replied"
    BY <1>2
  <2>2. SessionInv'
    <3>1. SessionInv
      BY DEF IInv
    <3>2. ASSUME NEW u \in Task
          PROVE  /\ SessionOf(u)' \in sessions' \cup {NoId}
                 /\ (hpc[u] = "replied" /\ req[u].op = "session" /\ resp[u].status = 200
                       => resp[u].id # NoId)'
                 /\ \A v \in Task : SessionOf(u)' = SessionOf(v)' =>
                                      u = v \/ SessionOf(u)' = NoId
      BY <1>2, <1>5, <2>1, <3>1 DEF SessionInv, tables
    <3> QED
      BY <3>2 DEF SessionInv
  <2>3. OrdersOK'
    BY <1>2 DEF IInv, OrderInv, OrdersOK, tables
  <2> QED
    BY <2>2, <2>3
<1> QED
  BY <1>1, <1>6, <1>7, <1>8, <1>9 DEF IInv, PlaceInv, TaskInv, CartInv, OrderInv, AnswerInv

-------------------------------------------------------------------------------
(* The invariant.                                                           *)

\* The invariant holds at the start ...
LEMMA InitIInv == Init => IInv
<1> SUFFICES ASSUME Init
             PROVE  IInv
  OBVIOUS
<1>1. TypeOK
  <2>1. ServerTypes /\ TableTypes
    BY ShopAssumption DEF Init, ShopInit, ServerTypes, TableTypes
  <2>2. ConnTypes
    BY NoWritesTyped DEF Init, ShopInit, ConnTypes
  <2>3. CallTypes
    <3>1. Plain(0) \in AnswerType
      BY PlainTyped
    <3>2. "idle" \in Places
      BY DEF Places
    <3> QED
      BY <3>1, <3>2, NoWritesTyped DEF Init, ShopInit, CallTypes
  <2>4. ClientTypes
    <3>1. wf \in DOMAIN Steps /\ Length \in Nat
      BY StepFacts DEF Init, Length
    <3> QED
      BY <3>1 DEF Init, ClientTypes
  <2> QED
    BY <2>1, <2>2, <2>3, <2>4, TypeParts, FaultsAssumption DEF Init
<1>2. ASSUME NEW t \in Task
      PROVE  /\ hpc[t] = "idle" /\ tpc[t] = "new" /\ pos[t] = 0 /\ failure[t] = "none"
             /\ sess[t] = NoId /\ ord[t] = NoId /\ req[t].op = "none"
             /\ \A op : ~Past(t, op)
             /\ SessionOf(t) = NoId
  <2>1. /\ hpc[t] = "idle" /\ tpc[t] = "new" /\ pos[t] = 0 /\ failure[t] = "none"
        /\ sess[t] = NoId /\ ord[t] = NoId /\ req[t].op = "none"
    BY DEF Init, ShopInit, NoRequest
  <2> QED
    BY <2>1 DEF Past, SessionOf
<1>3. \A t \in Task : PlaceOK(t) /\ TaskOK(t) /\ AnswerOK(t)
  BY <1>2 DEF PlaceOK, TaskOK, AnswerOK
<1>4. \A t \in Task : CartOK(t) /\ OrderOK(t)
  BY <1>2 DEF CartOK, OrderOK, Untouched, Unordered
<1>5. ConnInv
  BY <1>2, ShopAssumption DEF ConnInv, Init, ShopInit, InHandler
<1>6. IdInv /\ SessionInv /\ OrdersOK
  BY <1>2 DEF IdInv, SessionInv, OrdersOK, Init, ShopInit
<1> QED
  BY <1>1, <1>3, <1>4, <1>5, <1>6 DEF IInv, PlaceInv, TaskInv, CartInv, OrderInv, AnswerInv

\* ... and every step keeps it.
LEMMA NextIInv == IInv /\ [Next]_vars => IInv'
<1> SUFFICES ASSUME IInv, [Next]_vars
             PROVE  IInv'
  OBVIOUS
<1>0. faults \in 0..MaxFaults
  BY DEF IInv, TypeOK
<1>1. ASSUME NEW t \in Task, TaskStep(t), UNCHANGED faults
      PROVE  IInv'
  BY <1>0, <1>1, ClientKeeps DEF ClientStep
<1>2. ASSUME NEW t \in Task, Target(HandlerStep(t)), UNCHANGED faults
      PROVE  IInv'
  BY <1>0, <1>2, HandlerKeeps DEF Target
<1>3. CASE Target(TargetStarts) /\ UNCHANGED faults
  BY <1>0, <1>3, StartsKeep DEF Target
<1>4. CASE Fault
  <2>1. faults' \in 0..MaxFaults
    BY <1>0, <1>4, FaultsAssumption DEF Fault
  <2>2. CASE \E t \in Task : ClientStep(t)
    BY <2>1, <2>2, ClientKeeps
  <2>3. CASE \E t \in Task : Target(StatementFails(t))
    BY <2>1, <2>3, HandlerKeeps DEF Target
  <2>4. CASE Target(Crash)
    BY <2>1, <2>4, CrashKeeps DEF Target
  <2> QED
    BY <1>4, <2>2, <2>3, <2>4 DEF Fault, ClientStep
<1>5. CASE UNCHANGED vars
  <2>1. UNCHANGED <<shopVars, clientVars, runVars>> /\ faults' \in 0..MaxFaults
    BY <1>0, <1>5 DEF vars
  <2>2. UNCHANGED <<serverVars, counter, connVars, tables, callVars>>
    BY <2>1 DEF shopVars
  <2>3. TypeOK'
    BY <2>1, <2>2, TypeParts, TypePartsNext, ServerFrame, TableFrame, ConnFrame, CallFrame,
       ClientFrame DEF IInv
  <2>4. \A t \in Task : Same(t) /\ TablesFor(t)
    BY <2>1, <2>2 DEF Same, TablesFor, callVars, clientVars, tables, connVars
  <2>5. \A t \in Task : /\ PlaceOK(t)' /\ TaskOK(t)' /\ CartOK(t)' /\ OrderOK(t)' /\ AnswerOK(t)'
                        /\ SessionOf(t)' = SessionOf(t)
    BY <2>4, OtherTask
  <2>6. ConnInv'
    BY <2>2 DEF IInv, ConnInv, callVars, connVars, serverVars
  <2>7. IdInv'
    <3>1. \A i : Given(i)' <=> Given(i)
      BY <2>2 DEF Given, serverVars
    <3> QED
      BY <2>2, <3>1 DEF IInv, IdInv, tables, connVars
  <2>8. SessionInv' /\ OrdersOK'
    BY <2>2, <2>5 DEF IInv, SessionInv, OrderInv, OrdersOK, tables, callVars
  <2> QED
    BY <2>3, <2>5, <2>6, <2>7, <2>8
       DEF IInv, PlaceInv, TaskInv, CartInv, OrderInv, AnswerInv
<1> QED
  BY <1>1, <1>2, <1>3, <1>4, <1>5 DEF Next, Finished

\* The inductive invariant: however requests, crashes, failing statements and
\* abandoned calls interleave, no identifier is given twice, no two tasks share
\* a session, and the tables match the position of every task.
THEOREM Invariance == Spec => []IInv
<1> QED
  BY InitIInv, NextIInv, PTL DEF Spec

-------------------------------------------------------------------------------
(* What it gives.                                                           *)

\* An order that GetOrder shows is whole unless one of its statements failed.
THEOREM WholeOrders == Spec => []OrdersWhole
<1>1. IInv => OrdersWhole
  BY DEF IInv, AnswerInv, AnswerOK, OrdersWhole
<1> QED
  BY <1>1, Invariance, PTL

\* No step of a workflow is refused without a failing statement.
THEOREM NoStrayRefusal == Spec => []RefusedOnlyOnFault
<1>1. IInv => RefusedOnlyOnFault
  BY DEF IInv, AnswerInv, AnswerOK, RefusedOnlyOnFault
<1> QED
  BY <1>1, Invariance, PTL

\* Sessions and orders that a task was told of survive the process of the
\* target, and no other task has them.
THEOREM AcknowledgedKept == Spec => []AckedDurable
<1>1. IInv => AckedDurable
  <2> SUFFICES ASSUME IInv, NEW t \in Task
               PROVE  /\ sess[t] # NoId => sess[t] \in sessions
                      /\ ord[t] # NoId => /\ orders[ord[t]] # NoOrder
                                          /\ orders[ord[t]].session = sess[t]
                      /\ \A u \in Task \ {t} : sess[u] = sess[t] => sess[t] = NoId
    BY DEF AckedDurable
  <2>1. \A u \in Task : sess[u] # NoId => SessionOf(u) = sess[u]
    BY SessionFacts
  <2>2. SessionInv /\ OrderOK(t)
    BY DEF IInv, OrderInv
  <2> QED
    BY <2>1, <2>2 DEF SessionInv, OrderOK
<1> QED
  BY <1>1, Invariance, PTL

===============================================================================
