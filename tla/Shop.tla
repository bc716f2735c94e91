--------------------------------- MODULE Shop ---------------------------------
(***************************************************************************)
(* The target application the benchmark drives: the API handlers of         *)
(* target/backend/main.go over the SQLite store of target/backend/store.go, *)
(* statement by statement, with statements that fail and a target process   *)
(* that dies and is started again on the same database file.                *)
(*                                                                         *)
(* Handlers run concurrently, one goroutine per request; the store has one  *)
(* connection (SetMaxOpenConns(1)), which a statement needs for its own     *)
(* length and a transaction from Begin to Commit. A task has at most one    *)
(* request under way, so requests are named by their task. The workflows    *)
(* buy one piece of product p1, so a cart and the items of an order are     *)
(* represented by how many pieces they hold, at a price of one.             *)
(***************************************************************************)
EXTENDS Integers, FiniteSets

CONSTANTS
  Task,      \* the tasks whose requests are served
  NoTask,    \* nobody holds the connection
  NoId,      \* no session or order identifier
  NoOrder,   \* a row of orders that does not exist
  Products,  \* how many products the catalogue has
  MaxBoots,  \* bound: how often the target process is started
  MaxIds     \* bound: how many identifiers one process of the target issues

ASSUME ShopAssumption ==
  /\ IsFiniteSet(Task)
  /\ Products \in Nat \ {0}
  /\ MaxBoots \in Nat \ {0} /\ MaxIds \in Nat \ {0}
  /\ NoTask \notin Task
  /\ NoId \notin (1..MaxBoots) \X (1..MaxIds)
  /\ NoOrder \notin [session : (1..MaxBoots) \X (1..MaxIds), total : Nat]

VARIABLES
  up,         \* the target process: "down", "opening", "seeding", "serving"
  boots,      \* the number of the running process
  seeded,     \* how many of the products have a row
  counter,    \* store.idCounter
  conn,       \* who holds the one connection across statements
  tx,         \* what the open transaction has written
  sessions,   \* table sessions: the identifiers it holds
  cart,       \* table cart_items: the pieces a session has put in
  orders,     \* table orders: session and total
  items,      \* table order_items: the pieces of each order
  hpc,        \* where the request of each task is
  req,        \* the request of each task
  resp,       \* the response written to it
  read,       \* the cart a checkout handler has read
  sqlFailed   \* history: the tasks whose last request met a failing statement

serverVars == <<up, boots, seeded>>
tables     == <<sessions, cart, orders, items>>
connVars   == <<conn, tx>>
callVars   == <<hpc, req, resp, read, sqlFailed>>
shopVars   == <<serverVars, counter, connVars, tables, callVars>>

Id == (1..MaxBoots) \X (1..MaxIds)

\* A transaction before its first INSERT, and no transaction at all.
NoWrites == [id |-> NoId, order |-> NoOrder, items |-> 0]

Answer(status, id, pieces, total) ==
  [status |-> status, id |-> id, pieces |-> pieces, total |-> total]

NoRequest == [op |-> "none", session |-> NoId, order |-> NoId]

Plain(status) == Answer(status, NoId, 0, 0)

ShopInit ==
  /\ up = "opening"
  /\ boots = 1
  /\ seeded = 0
  /\ counter = 0
  /\ conn = NoTask
  /\ tx = NoWrites
  /\ sessions = {}
  /\ cart = [s \in Id |-> 0]
  /\ orders = [o \in Id |-> NoOrder]
  /\ items = [o \in Id |-> 0]
  /\ hpc = [t \in Task |-> "idle"]
  /\ req = [t \in Task |-> NoRequest]
  /\ resp = [t \in Task |-> Plain(0)]
  /\ read = [t \in Task |-> 0]
  /\ sqlFailed = {}

-------------------------------------------------------------------------------
(* The process of the target.                                              *)

\* Mutant: the server listens before the products are there.
OpenStoreUnseeded ==
  /\ up = "opening"
  /\ up' = IF seeded = 0 THEN "serving" ELSE "seeding"
  /\ UNCHANGED <<boots, seeded, counter, connVars, tables, callVars>>

\* openStore migrates, then seeds only a products table that is empty.
OpenStore ==
  /\ up = "opening"
  /\ up' = IF seeded = 0 THEN "seeding" ELSE "serving"
  /\ UNCHANGED <<boots, seeded, counter, connVars, tables, callVars>>

\* One INSERT per product, p1 first, outside any transaction; main listens
\* once openStore has returned.
SeedProduct ==
  /\ up = "seeding"
  /\ IF seeded < Products
     THEN seeded' = seeded + 1 /\ up' = up
     ELSE seeded' = seeded /\ up' = "serving"
  /\ UNCHANGED <<boots, counter, connVars, tables, callVars>>

InHandler == {"accepted", "found", "priced", "cartRead", "begun", "orderRow",
              "itemRows", "orderFound"}

\* The process dies: the open transaction is rolled back, the requests in its
\* handlers get no answer, a response already written may be lost with it.
Crash ==
  /\ up # "down"
  /\ boots < MaxBoots
  /\ up' = "down"
  /\ conn' = NoTask
  /\ tx' = NoWrites
  /\ \E lost \in SUBSET {t \in Task : hpc[t] = "replied"} :
       hpc' = [t \in Task |-> IF hpc[t] \in InHandler \/ t \in lost
                             THEN "broken" ELSE hpc[t]]
  /\ read' = [t \in Task |-> 0]
  /\ UNCHANGED <<boots, seeded, counter, tables, req, resp, sqlFailed>>

\* It is started again: the counter of uniqueID begins at zero.
Restart ==
  /\ up = "down"
  /\ up' = "opening"
  /\ boots' = boots + 1
  /\ counter' = 0
  /\ UNCHANGED <<seeded, connVars, tables, callVars>>

-------------------------------------------------------------------------------
(* The handlers.                                                           *)

\* Mutant: identifiers that only count, without the clock.
CountingId == <<1, counter + 1>>

\* uniqueID: an atomic counter, and the clock in nanoseconds, which tells one
\* process of the target from the next.
NewId == <<boots, counter + 1>>

Idle(t) == conn = NoTask
Own(t)  == conn = t

At(t, op, place) == hpc[t] = place /\ req[t].op = op

Step(t, place) ==
  /\ hpc' = [hpc EXCEPT ![t] = place]
  /\ UNCHANGED <<req, resp, sqlFailed>>

Reply(t, answer) ==
  /\ hpc' = [hpc EXCEPT ![t] = "replied"]
  /\ resp' = [resp EXCEPT ![t] = answer]
  /\ read' = [read EXCEPT ![t] = 0]
  /\ UNCHANGED <<req, sqlFailed>>

\* The client has seen the end of its request, or nobody will: it is gone.
Settle(t) ==
  /\ hpc' = [hpc EXCEPT ![t] = "idle"]
  /\ req' = [req EXCEPT ![t] = NoRequest]
  /\ resp' = [resp EXCEPT ![t] = Plain(0)]
  /\ sqlFailed' = sqlFailed \ {t}
  /\ UNCHANGED read

\* The request reaches the mux, or finds nobody listening.
Accept(t) ==
  /\ hpc[t] = "sent"
  /\ up = "serving"
  /\ Step(t, "accepted")
  /\ UNCHANGED <<read, serverVars, counter, connVars, tables>>

Refuse(t) ==
  /\ hpc[t] = "sent"
  /\ up # "serving"
  /\ Step(t, "broken")
  /\ UNCHANGED <<read, serverVars, counter, connVars, tables>>

\* handleIndex, and handleProducts, which lists whatever rows there are.
ReadOnly(t) ==
  /\ \/ At(t, "index", "accepted")
     \/ At(t, "products", "accepted") /\ Idle(t)
  /\ Reply(t, Plain(200))
  /\ UNCHANGED <<serverVars, counter, connVars, tables>>

\* handleSession: CreateSession.
CreateSession(t) ==
  /\ At(t, "session", "accepted") /\ Idle(t)
  /\ counter < MaxIds
  /\ counter' = counter + 1
  /\ sessions' = sessions \cup {NewId}
  /\ Reply(t, Answer(200, NewId, 0, 0))
  /\ UNCHANGED <<serverVars, connVars, cart, orders, items>>

\* handleCartAdd: the product is looked up, ...
LookUp(t) ==
  /\ At(t, "cart_add", "accepted") /\ Idle(t)
  /\ IF seeded > 0
     THEN Step(t, "found") /\ UNCHANGED read
     ELSE Reply(t, Plain(404))
  /\ UNCHANGED <<serverVars, counter, connVars, tables>>

\* ... looked up again by AddToCart, ...
Price(t) ==
  /\ At(t, "cart_add", "found") /\ Idle(t)
  /\ IF seeded > 0
     THEN Step(t, "priced") /\ UNCHANGED read
     ELSE Reply(t, Plain(500))
  /\ UNCHANGED <<serverVars, counter, connVars, tables>>

\* ... and the row of the session is inserted or its quantity increased. No
\* handler looks at the table sessions here.
Upsert(t) ==
  /\ At(t, "cart_add", "priced") /\ Idle(t)
  /\ cart' = [cart EXCEPT ![req[t].session] = @ + 1]
  /\ Reply(t, Plain(200))
  /\ UNCHANGED <<serverVars, counter, connVars, sessions, orders, items>>

\* handleCheckout: GetCart.
ReadCart(t) ==
  /\ At(t, "checkout", "accepted") /\ Idle(t)
  /\ IF cart[req[t].session] = 0
     THEN Reply(t, Plain(400))
     ELSE /\ Step(t, "cartRead")
          /\ read' = [read EXCEPT ![t] = cart[req[t].session]]
  /\ UNCHANGED <<serverVars, counter, connVars, tables>>

\* CreateOrder: Begin takes the connection, ...
BeginOrder(t) ==
  /\ At(t, "checkout", "cartRead") /\ Idle(t)
  /\ counter < MaxIds
  /\ counter' = counter + 1
  /\ conn' = t
  /\ tx' = [NoWrites EXCEPT !.id = NewId]
  /\ Step(t, "begun")
  /\ UNCHANGED <<read, serverVars, tables>>

OrderRow(t) == [session |-> req[t].session, total |-> read[t]]

\* ... the two INSERTs go through the transaction, ...
InsertOrder(t) ==
  /\ At(t, "checkout", "begun") /\ Own(t)
  /\ tx' = [tx EXCEPT !.order = OrderRow(t)]
  /\ Step(t, "orderRow")
  /\ UNCHANGED <<conn, read, serverVars, counter, tables>>

InsertItems(t) ==
  /\ At(t, "checkout", "orderRow") /\ Own(t)
  /\ tx' = [tx EXCEPT !.items = read[t]]
  /\ Step(t, "itemRows")
  /\ UNCHANGED <<conn, read, serverVars, counter, tables>>

\* Mutant: the transaction is committed only after the answer was written.
AnswerThenCommit(t) ==
  /\ Own(t)
  /\ \/ /\ At(t, "checkout", "itemRows")
        /\ Reply(t, Answer(200, tx.id, tx.items, tx.order.total))
        /\ UNCHANGED <<connVars, orders, items>>
     \/ /\ hpc[t] \notin {"begun", "orderRow", "itemRows"}
        /\ orders' = [orders EXCEPT ![tx.id] = tx.order]
        /\ items' = [items EXCEPT ![tx.id] = tx.items]
        /\ conn' = NoTask
        /\ tx' = NoWrites
        /\ UNCHANGED callVars
  /\ UNCHANGED <<serverVars, counter, sessions, cart>>

\* Mutant: the items are inserted after the transaction of the order.
CommitWithoutItems(t) ==
  /\ At(t, "checkout", "itemRows") /\ Own(t)
  /\ orders' = [orders EXCEPT ![tx.id] = tx.order]
  /\ conn' = NoTask
  /\ tx' = NoWrites
  /\ Reply(t, Answer(200, tx.id, tx.items, tx.order.total))
  /\ UNCHANGED <<serverVars, counter, sessions, cart, items>>

\* ... and Commit makes them visible together.
Commit(t) ==
  /\ At(t, "checkout", "itemRows") /\ Own(t)
  /\ orders' = [orders EXCEPT ![tx.id] = tx.order]
  /\ items' = [items EXCEPT ![tx.id] = tx.items]
  /\ conn' = NoTask
  /\ tx' = NoWrites
  /\ Reply(t, Answer(200, tx.id, tx.items, tx.order.total))
  /\ UNCHANGED <<serverVars, counter, sessions, cart>>

\* handleOrder: GetOrder is two statements outside any transaction.
FindOrder(t) ==
  /\ At(t, "order_get", "accepted") /\ Idle(t)
  /\ IF orders[req[t].order] = NoOrder
     THEN Reply(t, Plain(404))
     ELSE Step(t, "orderFound") /\ UNCHANGED read
  /\ UNCHANGED <<serverVars, counter, connVars, tables>>

ListItems(t) ==
  LET o == req[t].order
  IN  /\ At(t, "order_get", "orderFound") /\ Idle(t)
      /\ Reply(t, Answer(200, o, items[o], orders[o].total))
      /\ UNCHANGED <<serverVars, counter, connVars, tables>>

\* What the handlers make of a statement that fails: an unknown product, an
\* empty cart, an unknown order, a list without products; only some say 500.
\* The loops over rows do not ask rows.Err(), so the items of an order may
\* also be missing from an answer that says 200.
StatusesOfFailure(op, place) ==
  CASE op = "products"                            -> {200}
    [] op = "cart_add" /\ place = "accepted"      -> {404}
    [] op = "checkout" /\ place = "accepted"      -> {400}
    [] op = "order_get" /\ place = "accepted"     -> {404}
    [] op = "order_get" /\ place = "orderFound"   -> {404, 200}
    [] OTHER                                      -> {500}

\* A statement fails. The transaction, if this is one, is rolled back.
StatementFails(t) ==
  /\ hpc[t] \in InHandler
  /\ req[t].op # "index"
  /\ IF hpc[t] \in {"begun", "orderRow", "itemRows"} THEN Own(t) ELSE Idle(t)
  /\ \E status \in StatusesOfFailure(req[t].op, hpc[t]) :
       resp' = [resp EXCEPT ![t] = Plain(status)]
  /\ hpc' = [hpc EXCEPT ![t] = "replied"]
  /\ sqlFailed' = sqlFailed \cup {t}
  /\ conn' = NoTask
  /\ tx' = NoWrites
  /\ read' = [read EXCEPT ![t] = 0]
  /\ UNCHANGED <<req, serverVars, counter, tables>>

HandlerStep(t) ==
  \/ Accept(t)
  \/ Refuse(t)
  \/ ReadOnly(t)
  \/ CreateSession(t)
  \/ LookUp(t)
  \/ Price(t)
  \/ Upsert(t)
  \/ ReadCart(t)
  \/ BeginOrder(t)
  \/ InsertOrder(t)
  \/ InsertItems(t)
  \/ Commit(t)
  \/ FindOrder(t)
  \/ ListItems(t)

TargetStarts ==
  \/ OpenStore
  \/ SeedProduct
  \/ Restart
===============================================================================
