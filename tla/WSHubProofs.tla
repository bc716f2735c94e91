------------------------------ MODULE WSHubProofs ------------------------------
(***************************************************************************)
(* Proofs about WSHub, for every number of sockets, every capacity and any  *)
(* amount of traffic: the inductive invariant and the three safety           *)
(* properties it contains.                                                   *)
(***************************************************************************)
EXTENDS WSHub, SequenceTheorems, TLAPS

\* Queues of one element type per client: taking the head, adding at the end.
LEMMA TakeHead ==
  ASSUME NEW S, NEW f \in [Client -> Seq(S)], NEW c \in Client, f[c] # << >>
  PROVE  /\ Head(f[c]) \in S
         /\ [f EXCEPT ![c] = Tail(@)] \in [Client -> Seq(S)]
<1>1. f[c] \in Seq(S)
  OBVIOUS
<1>2. Head(f[c]) \in S /\ Tail(f[c]) \in Seq(S)
  BY <1>1, HeadTailProperties
<1>3. [f EXCEPT ![c] = Tail(@)] \in [Client -> Seq(S)]
  BY <1>2
<1> QED BY <1>1, <1>2, <1>3

LEMMA AddLast ==
  ASSUME NEW S, NEW s \in Seq(S), NEW x \in S
  PROVE  /\ Append(s, x) \in Seq(S)
         /\ Len(Append(s, x)) = Len(s) + 1
         /\ \A i \in 1..Len(s) : Append(s, x)[i] = s[i]
         /\ Append(s, x)[Len(s) + 1] = x
BY AppendProperties

\* What the two do to a queue of consecutive messages.
LEMMA ConsecutiveTail ==
  ASSUME NEW s \in Seq(Message), s # << >>, NEW a \in Nat, Consecutive(s, a)
  PROVE  /\ Head(s) \in Message /\ Head(s).n = a + 1
         /\ Len(Tail(s)) = Len(s) - 1 /\ Len(s) \in Nat \ {0}
         /\ Consecutive(Tail(s), a + 1)
<1>1. /\ Len(s) \in Nat \ {0} /\ Len(Tail(s)) = Len(s) - 1
      /\ Head(s) = s[1] /\ Head(s) \in Message
      /\ \A i \in 1..Len(Tail(s)) : Tail(s)[i] = s[i + 1]
  OBVIOUS
<1>2. ASSUME NEW i \in 1..Len(Tail(s)) PROVE Tail(s)[i].n = a + 1 + i
  <2>1. i + 1 \in 1..Len(s)
    BY <1>1
  <2> QED BY <1>1, <2>1 DEF Consecutive
<1> QED BY <1>1, <1>2 DEF Consecutive

LEMMA ConsecutiveAppend ==
  ASSUME NEW s \in Seq(Message), NEW x \in Message, NEW a \in Nat,
         Consecutive(s, a), x.n = a + Len(s) + 1
  PROVE  Len(Append(s, x)) = Len(s) + 1 /\ Consecutive(Append(s, x), a)
<1>1. Len(s) \in Nat
  OBVIOUS
<1>2. ASSUME NEW i \in 1..(Len(s) + 1) PROVE Append(s, x)[i].n = a + i
  <2>1. CASE i = Len(s) + 1
    BY <1>1, <2>1, AddLast
  <2>2. CASE i # Len(s) + 1
    <3>1. i \in 1..Len(s) /\ Append(s, x)[i] = s[i]
      BY <1>1, <2>2, AddLast
    <3> QED BY <3>1 DEF Consecutive
  <2> QED BY <2>1, <2>2
<1> QED BY <1>2, AddLast DEF Consecutive

LEMMA InitIInv == Init => IInv
<1> SUFFICES ASSUME Init PROVE IInv
  OBVIOUS
<1>1. TypeOK
  BY WSHubAssumption DEF Init, TypeOK, Causer
<1>2. NoPanic /\ NoGhost /\ GapFree /\ Untouched
  BY DEF Init, NoPanic, NoGhost, GapFree, Readable, Untouched
<1> QED BY <1>1, <1>2 DEF IInv

LEMMA StepIInv == IInv /\ [Next]_vars => IInv'
<1> SUFFICES ASSUME IInv, [Next]_vars PROVE IInv'
  OBVIOUS
<1> USE WSHubAssumption DEF IInv, hubVars, connVars, pageVars
<1>1. ASSUME Deliver PROVE IInv'
  <2>1. TypeOK'
    <3>1. Head(events) \in [type : EventType, by : Causer]
          /\ Tail(events) \in Seq([type : EventType, by : Causer])
      BY <1>1, HeadTailProperties DEF Deliver, TypeOK
    <3>2. Numbered \in Message
      BY <3>1 DEF Numbered, Message, TypeOK
    <3>3. send' \in [Client -> Seq(Message)]
      <4>1. \A d \in Client : Append(send[d], Numbered) \in Seq(Message)
        BY <3>2, AddLast DEF TypeOK
      <4> HIDE DEF Message
      <4> QED BY <1>1, <4>1 DEF Deliver, TypeOK
    <3>4. clients' \in SUBSET Client /\ closes' \in [Client -> Nat] /\ count' \in Nat
      BY <1>1 DEF Deliver, Slow, TypeOK
    <3> QED BY <1>1, <3>1, <3>3, <3>4 DEF Deliver, TypeOK
  <2>2. NoPanic'
    BY <1>1 DEF Deliver, Slow, Numbered, TypeOK, NoPanic, NoGhost
  <2>3. NoGhost'
    BY <1>1 DEF Deliver, Slow, Numbered, TypeOK, NoGhost, NoPanic, Untouched
  <2>4. GapFree'
    <3> SUFFICES ASSUME NEW d \in Client, Readable(d)', serve'[d] # "join"
                 PROVE  InOrder(d)'
      BY DEF GapFree
    <3>1. InOrder(d) /\ Readable(d) /\ wire' = wire /\ seen' = seen
      BY <1>1 DEF Deliver, GapFree, Readable
    <3>2. Numbered.n = count + 1 /\ Numbered \in Message
      <4>1. Head(events) \in [type : EventType, by : Causer]
        BY <1>1, HeadTailProperties DEF Deliver, TypeOK
      <4> QED BY <4>1 DEF Numbered, Message, TypeOK
    <3>3. CASE d \in clients \ Slow
      <4>1. send'[d] = Append(send[d], Numbered) /\ count' = count + 1
        BY <1>1, <3>3 DEF Deliver
      <4>2. Len(send[d]) \in Nat /\ Len(wire[d]) \in Nat /\ seen[d] \in Nat /\ count \in Nat
        BY DEF TypeOK
      <4>3. seen[d] + Len(wire[d]) + Len(send[d]) = count
        BY <3>1, <3>3 DEF InOrder
      <4>4. Len(send'[d]) = Len(send[d]) + 1 /\ Consecutive(send'[d], seen[d] + Len(wire[d]))
        <5>1. send[d] \in Seq(Message) /\ Consecutive(send[d], seen[d] + Len(wire[d]))
          BY <3>1 DEF TypeOK, InOrder
        <5>2. Numbered.n = (seen[d] + Len(wire[d])) + Len(send[d]) + 1
          BY <3>2, <4>2, <4>3
        <5>3. seen[d] + Len(wire[d]) \in Nat
          BY <4>2
        <5> QED BY <3>2, <4>1, <5>1, <5>2, <5>3, ConsecutiveAppend
      <4>5. seen'[d] + Len(wire'[d]) + Len(send'[d]) = count'
        <5>1. seen'[d] = seen[d] /\ Len(wire'[d]) = Len(wire[d])
          BY <3>1
        <5>2. count' = count + 1 /\ Len(send'[d]) = Len(send[d]) + 1
          BY <4>1, <4>4
        <5>3. seen'[d] + Len(wire'[d]) + Len(send'[d])
              = seen[d] + Len(wire[d]) + (Len(send[d]) + 1)
          BY <5>1, <5>2
        <5>4. seen[d] + Len(wire[d]) + (Len(send[d]) + 1)
              = (seen[d] + Len(wire[d]) + Len(send[d])) + 1
          BY <4>2
        <5> QED BY <4>3, <5>2, <5>3, <5>4
      <4> QED BY <3>1, <4>4, <4>5 DEF InOrder
    <3>4. CASE d \notin clients \ Slow
      <4>1. send'[d] = send[d] /\ d \notin clients'
        BY <1>1, <3>4 DEF Deliver
      <4> QED BY <3>1, <4>1 DEF InOrder
    <3> QED BY <3>3, <3>4
  <2>5. Untouched'
    BY <1>1 DEF Deliver, Slow, Numbered, TypeOK, Untouched, NoGhost, NoPanic
  <2> QED BY <2>1, <2>2, <2>3, <2>4, <2>5
<1>2. ASSUME NEW c \in Client, Join(c) PROVE IInv'
  <2>1. TypeOK'
    BY <1>2 DEF Join, TypeOK, Message, Causer, EventType
  <2>2. NoPanic'
    BY <1>2 DEF Join, TypeOK, NoPanic, NoGhost, Untouched
  <2>3. NoGhost'
    BY <1>2 DEF Join, TypeOK, NoGhost, NoPanic, Untouched
  <2>4. GapFree'
    <3> SUFFICES ASSUME NEW d \in Client, Readable(d)', serve'[d] # "join"
                 PROVE  InOrder(d)'
      BY DEF GapFree
    <3>1. send' = send /\ wire' = wire /\ count' = count /\ sock' = sock
      BY <1>2 DEF Join
    <3>2. CASE d # c
      <4>1. seen'[d] = seen[d] /\ serve'[d] = serve[d] /\ (d \in clients' <=> d \in clients)
        BY <1>2, <3>2 DEF Join, TypeOK
      <4>2. InOrder(d)
        BY <3>1, <4>1 DEF GapFree, Readable
      <4> QED BY <3>1, <4>1, <4>2 DEF InOrder, Consecutive
    <3>3. CASE d = c
      <4>1. seen'[d] = count /\ send'[d] = << >> /\ wire'[d] = << >> /\ count \in Nat
        BY <1>2, <3>1, <3>3 DEF Join, TypeOK, Untouched
      <4>2. Len(send'[d]) = 0 /\ Len(wire'[d]) = 0
        BY <4>1
      <4>3. Consecutive(wire'[d], seen'[d]) /\ Consecutive(send'[d], seen'[d] + Len(wire'[d]))
        BY <4>2 DEF Consecutive
      <4>4. seen'[d] + Len(wire'[d]) + Len(send'[d]) = count'
        BY <3>1, <4>1, <4>2
      <4> QED BY <4>3, <4>4 DEF InOrder
    <3> QED BY <3>2, <3>3
  <2>5. Untouched'
    BY <1>2 DEF Join, TypeOK, Untouched, NoGhost, NoPanic
  <2> QED BY <2>1, <2>2, <2>3, <2>4, <2>5
<1>3. ASSUME NEW c \in Client, Leave(c) PROVE IInv'
  <2>1. TypeOK'
    <3>1. closes' \in [Client -> Nat]
      BY <1>3 DEF Leave, TypeOK
    <3> QED BY <1>3, <3>1 DEF Leave, TypeOK
  <2>2. NoPanic'
    BY <1>3 DEF Leave, TypeOK, NoPanic, NoGhost
  <2>3. NoGhost'
    BY <1>3 DEF Leave, TypeOK, NoGhost, NoPanic, Untouched
  <2>4. GapFree'
    BY <1>3 DEF Leave, TypeOK, GapFree, InOrder, Readable, Message, NoPanic, NoGhost, Untouched
  <2>5. Untouched'
    BY <1>3 DEF Leave, TypeOK, Untouched, NoGhost, NoPanic
  <2> QED BY <2>1, <2>2, <2>3, <2>4, <2>5
<1>4. ASSUME NEW c \in Client, WriteEvent(c) PROVE IInv'
  <2>1. TypeOK'
    <3>1. Head(send[c]) \in Message /\ send' \in [Client -> Seq(Message)]
      BY <1>4, TakeHead DEF WriteEvent, TypeOK
    <3>2. wire' \in [Client -> Seq(Message)]
      <4>1. Append(wire[c], Head(send[c])) \in Seq(Message)
        BY <3>1, AddLast DEF TypeOK
      <4> QED BY <1>4, <4>1 DEF WriteEvent, TypeOK
    <3> QED BY <1>4, <3>1, <3>2 DEF WriteEvent, TypeOK
  <2>2. NoPanic'
    BY <1>4 DEF WriteEvent, TypeOK, NoPanic, NoGhost
  <2>3. NoGhost'
    BY <1>4 DEF WriteEvent, TypeOK, NoGhost, NoPanic, Untouched
  <2>4. GapFree'
    <3> SUFFICES ASSUME NEW d \in Client, Readable(d)', serve'[d] # "join"
                 PROVE  InOrder(d)'
      BY DEF GapFree
    <3>1. InOrder(d) /\ Readable(d) /\ seen' = seen /\ count' = count /\ clients' = clients
      BY <1>4 DEF WriteEvent, GapFree, Readable
    <3>2. CASE d # c
      <4>1. send'[d] = send[d] /\ wire'[d] = wire[d]
        BY <1>4, <3>2 DEF WriteEvent, TypeOK
      <4> QED BY <3>1, <4>1 DEF InOrder
    <3>3. CASE d = c
      <4>1. send'[d] = Tail(send[d]) /\ wire'[d] = Append(wire[d], Head(send[d]))
        BY <1>4, <3>1, <3>3 DEF WriteEvent, TypeOK, Readable
      <4>2. /\ send[d] \in Seq(Message) /\ send[d] # << >> /\ wire[d] \in Seq(Message)
            /\ seen[d] \in Nat /\ count \in Nat /\ Len(wire[d]) \in Nat
        BY <1>4, <3>3 DEF WriteEvent, TypeOK
      <4>3. Consecutive(wire[d], seen[d]) /\ Consecutive(send[d], seen[d] + Len(wire[d]))
        BY <3>1 DEF InOrder
      <4>4. /\ Head(send[d]) \in Message /\ Head(send[d]).n = seen[d] + Len(wire[d]) + 1
            /\ Len(send'[d]) = Len(send[d]) - 1 /\ Len(send[d]) \in Nat \ {0}
            /\ Consecutive(send'[d], seen[d] + Len(wire[d]) + 1)
        <5>1. seen[d] + Len(wire[d]) \in Nat
          BY <4>2
        <5> QED BY <4>1, <4>2, <4>3, <5>1, ConsecutiveTail
      <4>5. Len(wire'[d]) = Len(wire[d]) + 1 /\ Consecutive(wire'[d], seen[d])
        BY <4>1, <4>2, <4>3, <4>4, ConsecutiveAppend
      <4>6. seen[d] + Len(wire[d]) + 1 = seen'[d] + Len(wire'[d])
        <5>1. seen'[d] = seen[d]
          BY <3>1
        <5> QED BY <4>2, <4>5, <5>1
      <4>7. d \in clients' => seen'[d] + Len(wire'[d]) + Len(send'[d]) = count'
        <5>1. d \in clients => seen[d] + Len(wire[d]) + Len(send[d]) = count
          BY <3>1 DEF InOrder
        <5>2. d \in clients' <=> d \in clients
          BY <3>1
        <5>3. seen'[d] = seen[d] /\ count' = count
          BY <3>1
        <5> QED BY <4>2, <4>4, <4>5, <5>1, <5>2, <5>3
      <4> QED BY <3>1, <4>4, <4>5, <4>6, <4>7 DEF InOrder
    <3> QED BY <3>2, <3>3
  <2>5. Untouched'
    BY <1>4 DEF WriteEvent, TypeOK, Untouched, NoGhost, NoPanic
  <2> QED BY <2>1, <2>2, <2>3, <2>4, <2>5
<1>5. ASSUME NEW c \in Client, WriteFails(c) PROVE IInv'
  <2>1. TypeOK'
    <3>1. send' \in [Client -> Seq(Message)]
      BY <1>5, TakeHead DEF WriteFails, TypeOK
    <3> QED BY <1>5, <3>1 DEF WriteFails, TypeOK
  <2>2. NoPanic'
    BY <1>5 DEF WriteFails, TypeOK, NoPanic, NoGhost
  <2>3. NoGhost'
    BY <1>5 DEF WriteFails, TypeOK, NoGhost, NoPanic, Untouched
  <2>4. GapFree'
    <3> SUFFICES ASSUME NEW d \in Client, Readable(d)', serve'[d] # "join"
                 PROVE  InOrder(d)'
      BY DEF GapFree
    <3>1. d # c /\ Readable(d) /\ serve[d] # "join"
      BY <1>5 DEF WriteFails, Readable, TypeOK
    <3>2. send'[d] = send[d] /\ wire' = wire /\ seen' = seen /\ count' = count /\ clients' = clients
      BY <1>5, <3>1 DEF WriteFails, TypeOK
    <3> QED BY <3>1, <3>2 DEF GapFree, InOrder
  <2>5. Untouched'
    BY <1>5 DEF WriteFails, TypeOK, Untouched, NoGhost, NoPanic
  <2> QED BY <2>1, <2>2, <2>3, <2>4, <2>5
<1>6. ASSUME NEW c \in Client, PingFails(c) PROVE IInv'
  <2>1. TypeOK'
    BY <1>6 DEF PingFails, TypeOK, Message, Causer, EventType
  <2>2. NoPanic'
    BY <1>6 DEF PingFails, TypeOK, NoPanic, NoGhost
  <2>3. NoGhost'
    BY <1>6 DEF PingFails, TypeOK, NoGhost, NoPanic, Untouched
  <2>4. GapFree'
    BY <1>6 DEF PingFails, TypeOK, GapFree, InOrder, Readable, Message, NoPanic, NoGhost, Untouched
  <2>5. Untouched'
    BY <1>6 DEF PingFails, TypeOK, Untouched, NoGhost, NoPanic
  <2> QED BY <2>1, <2>2, <2>3, <2>4, <2>5
<1>7. ASSUME NEW c \in Client, SeeDropped(c) PROVE IInv'
  <2>1. TypeOK'
    BY <1>7 DEF SeeDropped, TypeOK, Message, Causer, EventType
  <2>2. NoPanic'
    BY <1>7 DEF SeeDropped, TypeOK, NoPanic, NoGhost
  <2>3. NoGhost'
    BY <1>7 DEF SeeDropped, TypeOK, NoGhost, NoPanic, Untouched
  <2>4. GapFree'
    BY <1>7 DEF SeeDropped, TypeOK, GapFree, InOrder, Readable, Message, NoPanic, NoGhost, Untouched
  <2>5. Untouched'
    BY <1>7 DEF SeeDropped, TypeOK, Untouched, NoGhost, NoPanic
  <2> QED BY <2>1, <2>2, <2>3, <2>4, <2>5
<1>8. ASSUME NEW c \in Client, ReaderCloses(c) PROVE IInv'
  <2>1. TypeOK'
    BY <1>8 DEF ReaderCloses, TypeOK, Message, Causer, EventType
  <2>2. NoPanic'
    BY <1>8 DEF ReaderCloses, TypeOK, NoPanic, NoGhost
  <2>3. NoGhost'
    BY <1>8 DEF ReaderCloses, TypeOK, NoGhost, NoPanic, Untouched
  <2>4. GapFree'
    BY <1>8 DEF ReaderCloses, TypeOK, GapFree, InOrder, Readable, Message, NoPanic, NoGhost, Untouched
  <2>5. Untouched'
    BY <1>8 DEF ReaderCloses, TypeOK, Untouched, NoGhost, NoPanic
  <2> QED BY <2>1, <2>2, <2>3, <2>4, <2>5
<1>9. ASSUME NEW c \in Client, Upgrade(c) PROVE IInv'
  <2>1. TypeOK'
    BY <1>9 DEF Upgrade, TypeOK, Message, Causer, EventType
  <2>2. NoPanic'
    BY <1>9 DEF Upgrade, TypeOK, NoPanic, NoGhost
  <2>3. NoGhost'
    BY <1>9 DEF Upgrade, TypeOK, NoGhost, NoPanic, Untouched
  <2>4. GapFree'
    BY <1>9 DEF Upgrade, TypeOK, GapFree, InOrder, Readable, Message, NoPanic, NoGhost, Untouched
  <2>5. Untouched'
    BY <1>9 DEF Upgrade, TypeOK, Untouched, NoGhost, NoPanic
  <2> QED BY <2>1, <2>2, <2>3, <2>4, <2>5
<1>10. ASSUME NEW c \in Client, UpgradeFails(c) PROVE IInv'
  <2>1. TypeOK'
    BY <1>10 DEF UpgradeFails, TypeOK, Message, Causer, EventType
  <2>2. NoPanic'
    BY <1>10 DEF UpgradeFails, TypeOK, NoPanic, NoGhost
  <2>3. NoGhost'
    BY <1>10 DEF UpgradeFails, TypeOK, NoGhost, NoPanic, Untouched
  <2>4. GapFree'
    BY <1>10 DEF UpgradeFails, TypeOK, GapFree, InOrder, Readable, Message, NoPanic, NoGhost, Untouched
  <2>5. Untouched'
    BY <1>10 DEF UpgradeFails, TypeOK, Untouched, NoGhost, NoPanic
  <2> QED BY <2>1, <2>2, <2>3, <2>4, <2>5
<1>11. ASSUME NEW c \in Client, ServeSession(c) PROVE IInv'
  <2>1. TypeOK'
    <3>1. Event("session", c) \in [type : EventType, by : Causer]
      BY DEF Event, EventType, Causer
    <3>2. Append(events, Event("session", c)) \in Seq([type : EventType, by : Causer])
      BY <3>1, AddLast DEF TypeOK
    <3>3. events' = events \/ events' = Append(events, Event("session", c))
      BY <1>11 DEF ServeSession, Broadcast
    <3> QED BY <1>11, <3>2, <3>3 DEF ServeSession, TypeOK
  <2>2. NoPanic'
    BY <1>11 DEF ServeSession, Broadcast, Event, EventType, Causer, TypeOK, NoPanic, NoGhost
  <2>3. NoGhost'
    BY <1>11 DEF ServeSession, Broadcast, Event, EventType, Causer, TypeOK, NoGhost, NoPanic, Untouched
  <2>4. GapFree'
    BY <1>11 DEF ServeSession, Broadcast, Event, EventType, Causer, TypeOK, GapFree, InOrder, Readable, Message, NoPanic, NoGhost, Untouched
  <2>5. Untouched'
    BY <1>11 DEF ServeSession, Broadcast, Event, EventType, Causer, TypeOK, Untouched, NoGhost, NoPanic
  <2> QED BY <2>1, <2>2, <2>3, <2>4, <2>5
<1>12. ASSUME NEW c \in Client, OnMessage(c) PROVE IInv'
  <2>1. TypeOK'
    <3>1. Head(wire[c]) \in Message /\ [wire EXCEPT ![c] = Tail(@)] \in [Client -> Seq(Message)]
      BY <1>12, TakeHead DEF OnMessage, TypeOK
    <3>2. Head(wire[c]).n \in Nat /\ Head(wire[c]).by \in Causer
      BY <3>1 DEF Message
    <3>3. << >> \in Seq(Message)
      BY EmptySeq
    <3>4. wire' \in [Client -> Seq(Message)] /\ seen' \in [Client -> Nat]
      BY <1>12, <3>1, <3>2, <3>3 DEF OnMessage, TypeOK
    <3>5. got' \in [Client -> Causer]
      BY <1>12, <3>2 DEF OnMessage, TypeOK
    <3> QED BY <1>12, <3>4, <3>5 DEF OnMessage, TypeOK
  <2>2. NoPanic'
    BY <1>12 DEF OnMessage, Readable, TypeOK, NoPanic, NoGhost
  <2>3. NoGhost'
    BY <1>12 DEF OnMessage, Readable, TypeOK, NoGhost, NoPanic, Untouched
  <2>4. GapFree'
    <3> SUFFICES ASSUME NEW d \in Client, Readable(d)', serve'[d] # "join"
                 PROVE  InOrder(d)'
      BY DEF GapFree
    <3>1. Readable(d) /\ serve[d] # "join" /\ send' = send /\ count' = count /\ clients' = clients
      BY <1>12 DEF OnMessage, Readable, TypeOK
    <3>2. InOrder(d)
      BY <3>1 DEF GapFree
    <3>3. CASE d # c
      <4>1. wire'[d] = wire[d] /\ seen'[d] = seen[d]
        BY <1>12, <3>3 DEF OnMessage, TypeOK
      <4> QED BY <3>1, <3>2, <4>1 DEF InOrder
    <3>4. CASE d = c
      <4>1. wire'[d] = Tail(wire[d]) /\ seen'[d] = Head(wire[d]).n
        BY <1>12, <3>4 DEF OnMessage, Readable, TypeOK
      <4>2. wire[d] \in Seq(Message) /\ wire[d] # << >> /\ seen[d] \in Nat /\ count \in Nat
            /\ Len(send[d]) \in Nat
        BY <1>12, <3>4 DEF OnMessage, TypeOK
      <4>3. /\ seen'[d] = seen[d] + 1 /\ Len(wire'[d]) = Len(wire[d]) - 1
            /\ Len(wire[d]) \in Nat \ {0} /\ Consecutive(wire'[d], seen'[d])
        BY <3>2, <4>1, <4>2, ConsecutiveTail DEF InOrder
      <4>4. seen'[d] + Len(wire'[d]) = seen[d] + Len(wire[d])
        <5>1. seen[d] \in Nat /\ Len(wire[d]) \in Nat
          BY <4>2, <4>3
        <5>2. seen'[d] = seen[d] + 1 /\ Len(wire'[d]) = Len(wire[d]) - 1
          BY <4>3
        <5>3. (seen[d] + 1) + (Len(wire[d]) - 1) = seen[d] + Len(wire[d])
          BY <5>1
        <5> QED BY <5>2, <5>3
      <4>5. Consecutive(send'[d], seen'[d] + Len(wire'[d]))
        <5>1. Consecutive(send[d], seen[d] + Len(wire[d]))
          BY <3>2 DEF InOrder
        <5>2. send'[d] = send[d]
          BY <3>1
        <5> QED BY <4>4, <5>1, <5>2
      <4>6. d \in clients' => seen'[d] + Len(wire'[d]) + Len(send'[d]) = count'
        <5>1. d \in clients => seen[d] + Len(wire[d]) + Len(send[d]) = count
          BY <3>2 DEF InOrder
        <5>2. Len(send'[d]) = Len(send[d]) /\ count' = count /\ clients' = clients
          BY <3>1
        <5> QED BY <4>4, <5>1, <5>2
      <4> QED BY <4>3, <4>5, <4>6 DEF InOrder
    <3> QED BY <3>3, <3>4
  <2>5. Untouched'
    BY <1>12 DEF OnMessage, Readable, TypeOK, Untouched, NoGhost, NoPanic
  <2> QED BY <2>1, <2>2, <2>3, <2>4, <2>5
<1>13. ASSUME NEW c \in Client, Timeout(c) PROVE IInv'
  <2>1. TypeOK'
    BY <1>13 DEF Timeout, TypeOK, Message, Causer, EventType
  <2>2. NoPanic'
    BY <1>13 DEF Timeout, TypeOK, NoPanic, NoGhost
  <2>3. NoGhost'
    BY <1>13 DEF Timeout, TypeOK, NoGhost, NoPanic, Untouched
  <2>4. GapFree'
    BY <1>13 DEF Timeout, TypeOK, GapFree, InOrder, Readable, Message, NoPanic, NoGhost, Untouched
  <2>5. Untouched'
    BY <1>13 DEF Timeout, TypeOK, Untouched, NoGhost, NoPanic
  <2> QED BY <2>1, <2>2, <2>3, <2>4, <2>5
<1>14. ASSUME NEW c \in Client, ClosePage(c) PROVE IInv'
  <2>1. TypeOK'
    <3>1. << >> \in Seq(Message)
      BY EmptySeq
    <3> QED BY <1>14, <3>1 DEF ClosePage, TypeOK
  <2>2. NoPanic'
    BY <1>14 DEF ClosePage, Readable, TypeOK, NoPanic, NoGhost
  <2>3. NoGhost'
    BY <1>14 DEF ClosePage, Readable, TypeOK, NoGhost, NoPanic, Untouched
  <2>4. GapFree'
    BY <1>14 DEF ClosePage, Readable, TypeOK, GapFree, InOrder, Message, NoPanic, NoGhost, Untouched
  <2>5. Untouched'
    BY <1>14 DEF ClosePage, Readable, TypeOK, Untouched, NoGhost, NoPanic
  <2> QED BY <2>1, <2>2, <2>3, <2>4, <2>5
<1>15. ASSUME NEW type \in {"session", "cart"}, OtherEvent(type) PROVE IInv'
  <2>1. TypeOK'
    <3>1. Event(type, NoClient) \in [type : EventType, by : Causer]
      BY DEF Event, EventType, Causer
    <3>2. Append(events, Event(type, NoClient)) \in Seq([type : EventType, by : Causer])
      BY <3>1, AddLast DEF TypeOK
    <3>3. events' = events \/ events' = Append(events, Event(type, NoClient))
      BY <1>15 DEF OtherEvent, Broadcast
    <3>4. events' \in Seq([type : EventType, by : Causer])
      BY <3>2, <3>3 DEF TypeOK
    <3>5. others' \in Nat
      BY <1>15 DEF OtherEvent, TypeOK
    <3> QED BY <1>15, <3>4, <3>5 DEF OtherEvent, TypeOK
  <2>2. NoPanic'
    BY <1>15 DEF OtherEvent, Broadcast, Event, EventType, Causer, TypeOK, NoPanic, NoGhost
  <2>3. NoGhost'
    BY <1>15 DEF OtherEvent, Broadcast, Event, EventType, Causer, TypeOK, NoGhost, NoPanic, Untouched
  <2>4. GapFree'
    BY <1>15 DEF OtherEvent, Broadcast, Event, EventType, Causer, TypeOK, GapFree, InOrder, Readable, Message, NoPanic, NoGhost, Untouched
  <2>5. Untouched'
    BY <1>15 DEF OtherEvent, Broadcast, Event, EventType, Causer, TypeOK, Untouched, NoGhost, NoPanic
  <2> QED BY <2>1, <2>2, <2>3, <2>4, <2>5
<1>16. ASSUME UNCHANGED vars PROVE IInv'
  BY <1>16 DEF vars, TypeOK, NoPanic, NoGhost, GapFree, InOrder, Readable, Untouched
<1> QED BY <1>1, <1>2, <1>3, <1>4, <1>5, <1>6, <1>7, <1>8, <1>9, <1>10, <1>11, <1>12, <1>13, <1>14, <1>15, <1>16
   DEF Next, HubStep, HandlerStep, PageStep, Quiet

\* The inductive invariant: where each socket is, what its buffers hold.
THEOREM Invariance == Spec => []IInv
BY InitIInv, StepIInv, PTL DEF Spec

\* The hub goroutine never panics: no send on a closed client.send and no
\* second close of one, however joins, leaves and drops interleave.
THEOREM HubNeverPanics == Spec => []NoPanic
<1>1. IInv => NoPanic
  BY DEF IInv
<1> QED BY <1>1, Invariance, PTL

\* hub.clients is exactly the set of the handlers that run and were not dropped.
THEOREM HubKeepsNoGhosts == Spec => []NoGhost
<1>1. IInv => NoGhost
  BY DEF IInv
<1> QED BY <1>1, Invariance, PTL

\* A page sees every event from its join on, in order and once, until it is
\* cut off, for every capacity of the buffers.
THEOREM DeliveryIsGapFree == Spec => []GapFree
<1>1. IInv => GapFree
  BY DEF IInv
<1> QED BY <1>1, Invariance, PTL

================================================================================
