--------------------------------- MODULE WSHub ---------------------------------
(***************************************************************************)
(* The WebSocket hub of the target (target/backend/ws.go) with the pages    *)
(* that use it: the WebSocket step of a workflow (wsCheck in                *)
(* internal/browser/executor.go) opens a socket, posts a session and waits  *)
(* for a session event. The hub goroutine, one handler and one reader        *)
(* goroutine per socket and the pages run concurrently.                     *)
(***************************************************************************)
EXTENDS Integers, Sequences, FiniteSets

CONSTANTS
  Client,     \* the sockets, each with its page, handler and reader
  SendCap,    \* the capacity of client.send
  EventCap,   \* the capacity of hub.events
  WireCap,    \* messages a socket holds, the one being written included
  Others,     \* events caused by other requests: the bound of the model
  NoClient    \* who causes those

ASSUME WSHubAssumption ==
  /\ IsFiniteSet(Client) /\ NoClient \notin Client
  /\ {SendCap, EventCap, WireCap} \subseteq Nat \ {0} /\ Others \in Nat

VARIABLES
  clients,   \* hub.clients
  events,    \* hub.events
  count,     \* history: the events the hub has taken
  send,      \* client.send
  closes,    \* how often client.send has been closed
  serve,     \* the handler: "none", "join", "loop", "leave", "gone"
  sock,      \* "none", "open", "closing" once a close message is sent, "ended" by
             \* the page, "closed" by the reader
  wire,      \* written and not yet seen by the page; lost when it ends the socket
  page,      \* wsCheck: "idle", "open", "ok", "failed"
  post,      \* its POST /api/session: "no", "sent", "served"
  seen,      \* history: the last event a page has seen, or was too late for
  got,       \* history: who caused the event that satisfied the step
  others     \* other events so far

hubVars  == <<clients, events, count>>
connVars == <<send, closes, serve, sock, wire>>
pageVars == <<page, post, seen, got>>
vars == <<hubVars, connVars, pageVars, others>>

Event(type, by) == [type |-> type, by |-> by]

Init ==
  /\ clients = {} /\ events = << >> /\ count = 0
  /\ send = [c \in Client |-> << >>] /\ closes = [c \in Client |-> 0]
  /\ serve = [c \in Client |-> "none"] /\ sock = [c \in Client |-> "none"]
  /\ wire = [c \in Client |-> << >>]
  /\ page = [c \in Client |-> "idle"] /\ post = [c \in Client |-> "no"]
  /\ seen = [c \in Client |-> 0] /\ got = [c \in Client |-> NoClient]
  /\ others = 0

\* hub.broadcast never blocks: a full buffer loses the event.
Broadcast(e) ==
  events' = IF Len(events) < EventCap THEN Append(events, e) ELSE events

-------------------------------------------------------------------------------
(* The hub goroutine.                                                       *)

Join(c) ==
  /\ serve[c] = "join"
  /\ clients' = clients \cup {c}
  /\ serve' = [serve EXCEPT ![c] = "loop"]
  /\ seen' = [seen EXCEPT ![c] = count]
  /\ UNCHANGED <<events, count, send, closes, sock, wire, page, post, got, others>>

\* Mutant: the channel is closed whether or not the hub still has the client.
LeaveUnchecked(c) ==
  /\ serve[c] = "leave"
  /\ serve' = [serve EXCEPT ![c] = "gone"]
  /\ clients' = clients \ {c}
  /\ closes' = [closes EXCEPT ![c] = @ + 1]
  /\ UNCHANGED <<events, count, send, sock, wire, pageVars, others>>

\* A client that was dropped before has nothing left to close.
Leave(c) ==
  /\ serve[c] = "leave"
  /\ serve' = [serve EXCEPT ![c] = "gone"]
  /\ clients' = clients \ {c}
  /\ closes' = [closes EXCEPT ![c] = IF c \in clients THEN @ + 1 ELSE @]
  /\ UNCHANGED <<events, count, send, sock, wire, pageVars, others>>

\* The oldest event, with the number it gets from the hub.
Numbered == [n |-> count + 1, type |-> Head(events).type, by |-> Head(events).by]

Slow == {c \in clients : Len(send[c]) = SendCap}

\* Mutant: a slow client misses the event and stays.
SkipSlow ==
  /\ events # << >>
  /\ events' = Tail(events) /\ count' = count + 1
  /\ send' = [c \in Client |->
                IF c \in clients \ Slow
                THEN Append(send[c], Numbered) ELSE send[c]]
  /\ UNCHANGED <<clients, closes, serve, sock, wire, pageVars, others>>

\* An event goes to every client that has room and drops the others, which
\* never block the hub. Between two clients of the range only goroutines that
\* concern one client can run, so that it is one step.
Deliver ==
  /\ events # << >>
  /\ events' = Tail(events) /\ count' = count + 1
  /\ send' = [c \in Client |->
                IF c \in clients \ Slow
                THEN Append(send[c], Numbered) ELSE send[c]]
  /\ clients' = clients \ Slow
  /\ closes' = [c \in Client |-> IF c \in Slow THEN closes[c] + 1 ELSE closes[c]]
  /\ UNCHANGED <<serve, sock, wire, pageVars, others>>

HubStep == Deliver \/ \E c \in Client : Join(c) \/ Leave(c)

-------------------------------------------------------------------------------
(* The handler and the reader of a socket.                                  *)

\* The upgrade: the page sees an open socket and posts; the handler, still on
\* its own, is about to join.
Upgrade(c) ==
  /\ page[c] = "idle"
  /\ page' = [page EXCEPT ![c] = "open"] /\ post' = [post EXCEPT ![c] = "sent"]
  /\ sock' = [sock EXCEPT ![c] = "open"] /\ serve' = [serve EXCEPT ![c] = "join"]
  /\ UNCHANGED <<hubVars, send, closes, wire, seen, got, others>>

\* A write to a socket the page has ended may still succeed; it is lost.
WriteEvent(c) ==
  /\ serve[c] = "loop" /\ send[c] # << >>
  /\ \/ /\ sock[c] = "open" /\ Len(wire[c]) < WireCap
        /\ wire' = [wire EXCEPT ![c] = Append(@, Head(send[c]))]
     \/ sock[c] = "ended" /\ UNCHANGED wire
  /\ send' = [send EXCEPT ![c] = Tail(@)]
  /\ UNCHANGED <<hubVars, closes, serve, sock, pageVars, others>>

WriteFails(c) ==
  /\ serve[c] = "loop" /\ send[c] # << >> /\ sock[c] \in {"ended", "closed"}
  /\ send' = [send EXCEPT ![c] = Tail(@)]
  /\ serve' = [serve EXCEPT ![c] = "leave"]
  /\ UNCHANGED <<hubVars, closes, sock, wire, pageVars, others>>

NoPing(c) == FALSE   \* mutant: the handler writes only events

\* Mutant: the handler returns without telling the hub.
PingFailsSilently(c) ==
  /\ serve[c] = "loop" /\ sock[c] \in {"ended", "closed"}
  /\ serve' = [serve EXCEPT ![c] = "gone"]
  /\ UNCHANGED <<hubVars, send, closes, sock, wire, pageVars, others>>

\* The ticker: without events it is what notices a dead connection.
PingFails(c) ==
  /\ serve[c] = "loop" /\ sock[c] \in {"ended", "closed"}
  /\ serve' = [serve EXCEPT ![c] = "leave"]
  /\ UNCHANGED <<hubVars, send, closes, sock, wire, pageVars, others>>

\* The hub has dropped the client: what is buffered has been written, a close
\* message follows, and nothing after it.
SeeDropped(c) ==
  /\ serve[c] = "loop" /\ send[c] = << >> /\ closes[c] > 0
  /\ serve' = [serve EXCEPT ![c] = "leave"]
  /\ sock' = [sock EXCEPT ![c] = IF @ = "open" THEN "closing" ELSE @]
  /\ UNCHANGED <<hubVars, send, closes, wire, pageVars, others>>

\* ReadMessage fails and the reader closes the connection. It is started
\* after the join.
ReaderCloses(c) ==
  /\ sock[c] = "ended" /\ serve[c] \in {"loop", "leave", "gone"}
  /\ sock' = [sock EXCEPT ![c] = "closed"]
  /\ UNCHANGED <<hubVars, send, closes, serve, wire, pageVars, others>>

HandlerStep(c) == WriteEvent(c) \/ WriteFails(c) \/ PingFails(c) \/ SeeDropped(c)

-------------------------------------------------------------------------------
(* The page, and the requests that cause events.                            *)

UpgradeFails(c) ==
  /\ page[c] = "idle"
  /\ page' = [page EXCEPT ![c] = "failed"]
  /\ UNCHANGED <<hubVars, connVars, post, seen, got, others>>

\* handleSession creates the session and broadcasts, or fails; either is all
\* the same to the page.
ServeSession(c) ==
  /\ post[c] = "sent"
  /\ post' = [post EXCEPT ![c] = "served"]
  /\ Broadcast(Event("session", c)) \/ UNCHANGED events
  /\ UNCHANGED <<clients, count, connVars, page, seen, got, others>>

\* Sessions, carts and orders of the other tasks of the benchmark.
OtherEvent(type) ==
  /\ others < Others
  /\ others' = others + 1
  /\ Broadcast(Event(type, NoClient))
  /\ UNCHANGED <<clients, count, connVars, pageVars>>

Readable(c) == sock[c] \in {"open", "closing"}

\* ws.onmessage looks at the type of the event only.
OnMessage(c) ==
  /\ page[c] \in {"open", "failed"} /\ Readable(c) /\ wire[c] # << >>
  /\ seen' = [seen EXCEPT ![c] = Head(wire[c]).n]
  /\ IF Head(wire[c]).type = "session"
     THEN /\ sock' = [sock EXCEPT ![c] = "ended"] /\ wire' = [wire EXCEPT ![c] = << >>]
          /\ page' = [page EXCEPT ![c] = IF @ = "open" THEN "ok" ELSE @]
          /\ got' = [got EXCEPT ![c] = IF page[c] = "open" THEN Head(wire[c]).by ELSE @]
     ELSE wire' = [wire EXCEPT ![c] = Tail(@)] /\ UNCHANGED <<sock, page, got>>
  /\ UNCHANGED <<hubVars, send, closes, serve, post, others>>

\* The 5 s timer, the deadline or the cancellation of the task.
Timeout(c) ==
  /\ page[c] = "open"
  /\ page' = [page EXCEPT ![c] = "failed"]
  /\ UNCHANGED <<hubVars, connVars, post, seen, got, others>>

\* page.Close when the task is over, or the browser's answer to a close
\* message, which the page itself does not notice.
ClosePage(c) ==
  /\ \/ page[c] = "failed" /\ Readable(c)
     \/ sock[c] = "closing" /\ wire[c] = << >>
  /\ sock' = [sock EXCEPT ![c] = "ended"] /\ wire' = [wire EXCEPT ![c] = << >>]
  /\ UNCHANGED <<hubVars, send, closes, serve, pageVars, others>>

PageStep(c) ==
  \/ Upgrade(c) \/ UpgradeFails(c) \/ ServeSession(c)
  \/ OnMessage(c) \/ Timeout(c) \/ ClosePage(c)

\* The server goes on when all the pages have been through.
Quiet == (\A c \in Client : page[c] \in {"ok", "failed"}) /\ UNCHANGED vars

Next ==
  \/ HubStep
  \/ \E c \in Client : HandlerStep(c) \/ ReaderCloses(c) \/ PageStep(c)
  \/ \E type \in {"session", "cart"} : OtherEvent(type)
  \/ Quiet

Spec == Init /\ [][Next]_vars

\* Go's select is fair between ready cases, the goroutines run, the ticker
\* ticks. Nothing is assumed of the pages.
Fairness ==
  /\ WF_vars(Deliver)
  /\ \A c \in Client : /\ WF_vars(Join(c)) /\ WF_vars(Leave(c))
                       /\ WF_vars(HandlerStep(c)) /\ WF_vars(ReaderCloses(c))

FairSpec == Spec /\ Fairness

-------------------------------------------------------------------------------
(* Properties.                                                              *)

EventType == {"session", "cart"}
Causer == Client \cup {NoClient}
Message == [n : Nat, type : EventType, by : Causer]

TypeOK ==
  /\ clients \in SUBSET Client /\ count \in Nat /\ others \in Nat
  /\ events \in Seq([type : EventType, by : Causer])
  /\ send \in [Client -> Seq(Message)] /\ wire \in [Client -> Seq(Message)]
  /\ closes \in [Client -> Nat]
  /\ serve \in [Client -> {"none", "join", "loop", "leave", "gone"}]
  /\ sock \in [Client -> {"none", "open", "closing", "ended", "closed"}]
  /\ page \in [Client -> {"idle", "open", "ok", "failed"}]
  /\ post \in [Client -> {"no", "sent", "served"}]
  /\ seen \in [Client -> Nat] /\ got \in [Client -> Causer]

\* The hub neither sends on a channel it has closed nor closes one twice: a
\* client dropped for being slow leaves later all the same.
NoPanic == \A c \in Client : closes[c] <= 1 /\ (c \in clients => closes[c] = 0)

\* The hub holds exactly the clients whose handlers run, but for those it has
\* dropped: no handler returns and leaves its client behind.
NoGhost ==
  \A c \in Client : c \in clients <=> serve[c] \in {"loop", "leave"} /\ closes[c] = 0

\* What a page sees has no gaps and no repetitions: the event after the last
\* it saw is next on the wire, then come the buffered ones, up to the last the
\* hub took. A client that cannot keep up is cut off, never skipped.
Consecutive(s, after) == \A i \in 1..Len(s) : s[i].n = after + i

InOrder(c) ==
  /\ Consecutive(wire[c], seen[c])
  /\ Consecutive(send[c], seen[c] + Len(wire[c]))
  /\ c \in clients => seen[c] + Len(wire[c]) + Len(send[c]) = count

GapFree == \A c \in Client : Readable(c) /\ serve[c] # "join" => InOrder(c)

\* What GapFree and NoGhost need to be inductive.
Untouched ==
  \A c \in Client :
    /\ serve[c] \in {"none", "join"} => send[c] = << >> /\ wire[c] = << >> /\ closes[c] = 0
    /\ serve[c] = "gone" => c \notin clients
    /\ sock[c] = "open" => serve[c] \in {"join", "loop"}
    /\ sock[c] = "closing" => serve[c] \in {"leave", "gone"} /\ send[c] = << >> /\ closes[c] > 0
    /\ sock[c] = "none" <=> serve[c] = "none"
    /\ page[c] = "idle" => serve[c] = "none"

IInv == TypeOK /\ NoPanic /\ NoGhost /\ GapFree /\ Untouched

\* A socket that has ended is forgotten, with its handler, also when no event
\* ever comes by.
HubForgets ==
  \A c \in Client : sock[c] = "ended" ~> serve[c] = "gone" /\ c \notin clients

\* "so a broadcast meant for another client cannot satisfy the step"
\* (internal/browser/executor.go:270)
OwnEvent == \A c \in Client : page[c] = "ok" => got[c] = c
===============================================================================
