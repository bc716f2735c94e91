--------------------------- MODULE WorkflowsDeskProofs ---------------------------
(***************************************************************************)
(* More proofs about Workflows, for every number of tasks, crashes and      *)
(* identifiers: the shop implements OrderDesk, and the counters of the      *)
(* recorder. They rest on the inductive invariant of WorkflowsProofs.       *)
(***************************************************************************)
EXTENDS WorkflowsProofs, FiniteSetTheorems

-------------------------------------------------------------------------------
(* The shop implements the desk.                                            *)

\* An order that is committed is the one order of its session.
LEMMA CommitPlaces ==
  ASSUME IInv, NEW t \in Task, Commit(t)
  PROVE  Desk!Place(sess[t])
<1>1. /\ tx.id \in Id /\ orders[tx.id] = NoOrder /\ tx.items = 1
      /\ tx.order # NoOrder /\ tx.order.total = 1 /\ tx.order.session = sess[t]
      /\ sess[t] \in Id /\ sess[t] # NoId /\ SessionOf(t) = sess[t] /\ Unordered(t)
      /\ cart[sess[t]] = 1
      /\ orders' = [orders EXCEPT ![tx.id] = tx.order]
      /\ items' = [items EXCEPT ![tx.id] = tx.items]
      /\ UNCHANGED cart
      /\ orders \in [Id -> OrderRows \cup {NoOrder}] /\ items \in [Id -> 0..1]
  BY CommitFacts DEF Commit, IInv, TypeOK
<1>2. \A o \in Id : orders[o] # NoOrder => orders[o].session # sess[t]
  BY <1>1 DEF IInv, OrderInv, OrderOK
<1>3. /\ \A p \in Placed : p.session # sess[t]
      /\ \A p \in Placed : p.id # tx.id
  BY <1>1, <1>2 DEF Placed
<1>4. Placed' = Placed \cup {Desk!Order(tx.id, sess[t])}
  <2>1. Desk!Order(tx.id, sess[t]) = [id |-> tx.id, session |-> sess[t], pieces |-> 1,
                                      total |-> 1]
    BY <1>1 DEF Desk!Order
  <2>2. \A o \in Id : o # tx.id => orders'[o] = orders[o] /\ items'[o] = items[o]
    BY <1>1
  <2>3. orders'[tx.id] = tx.order /\ items'[tx.id] = 1
    BY <1>1
  <2> QED
    BY <1>1, <2>1, <2>2, <2>3 DEF Placed
<1> QED
  BY <1>1, <1>3, <1>4 DEF Desk!Place

\* A piece is put into an empty basket.
LEMMA UpsertAdds ==
  ASSUME IInv, NEW t \in Task, Upsert(t)
  PROVE  Desk!Add(sess[t])
<1>1. /\ sess[t] \in Id /\ cart[sess[t]] = 0
      /\ cart' = [cart EXCEPT ![sess[t]] = @ + 1]
      /\ UNCHANGED <<orders, items>>
      /\ cart \in [Id -> 0..1]
  BY UpsertFacts DEF Upsert, IInv, TypeOK
<1>2. cart' = [cart EXCEPT ![sess[t]] = 1]
  BY <1>1
<1>3. Placed' = Placed
  BY <1>1 DEF Placed
<1> QED
  BY <1>1, <1>2, <1>3 DEF Desk!Add

\* A step of the run is a step of the desk, or none.
LEMMA DeskStep == IInv /\ [Next]_vars => [Desk!Next]_Desk!vars
<1> SUFFICES ASSUME IInv, [Next]_vars
             PROVE  Desk!Next \/ UNCHANGED <<cart, Placed>>
  BY DEF Desk!vars
<1>0. UNCHANGED <<cart, orders, items>> => UNCHANGED <<cart, Placed>>
  BY DEF Placed
<1>1. ASSUME NEW t \in Task, HandlerStep(t) \/ StatementFails(t)
      PROVE  Desk!Next \/ UNCHANGED <<cart, Placed>>
  <2>1. CASE Commit(t)
    BY <2>1, CommitPlaces, CommitFacts DEF Desk!Next
  <2>2. CASE Upsert(t)
    BY <2>2, UpsertAdds, UpsertFacts DEF Desk!Next
  <2>3. CASE ~Commit(t) /\ ~Upsert(t)
    BY <1>0, <1>1, <2>3, HandlerWrites
  <2> QED
    BY <2>1, <2>2, <2>3
<1>2. ASSUME NEW t \in Task, ClientStep(t)
      PROVE  UNCHANGED <<cart, Placed>>
  BY <1>0, <1>2, ClientWrites
<1>3. CASE TargetStarts \/ Crash \/ UNCHANGED vars
  BY <1>0, <1>3 DEF TargetStarts, OpenStore, SeedProduct, Restart, Crash, vars, shopVars, tables
<1> QED
  BY <1>1, <1>2, <1>3 DEF Next, Fault, Finished, Target, ClientStep

\* Both start empty.
LEMMA DeskInit == Init => Desk!Init
  BY DEF Init, ShopInit, Desk!Init, Placed

\* The shop, with everything that goes wrong around it, gives each session one
\* basket filled once and at most one order, whole and for good.
THEOREM DeskImplemented == Spec => ImplementsDesk
<1>1. Init /\ [][Next]_vars /\ []IInv => Desk!Init /\ [][Desk!Next]_Desk!vars
  BY DeskInit, DeskStep, PTL
<1> QED
  BY <1>1, Invariance, PTL DEF Spec, ImplementsDesk, Desk!Spec

-------------------------------------------------------------------------------
(* The recorder.                                                            *)

\* The recorded tasks by how they ended.
With(c) == {t \in Task : tpc[t] = "recorded" /\ failure[t] = c}

Outcomes == Classes \cup {"none"}

PageSteps == {i \in DOMAIN Steps[wf] : Steps[wf][i] \in BrowserOnly}

\* The counters, one class of outcomes at a time.
RecInv ==
  /\ rec.completed = Cardinality(With("none"))
  /\ \A c \in Classes : rec.failures[c] = Cardinality(With(c))
  /\ rec.failed = Cardinality(With("timeout")) + Cardinality(With("infrastructure"))
                    + Cardinality(With("application"))
  /\ rec.escalations = IF scenario = "hybrid"
                       THEN rec.completed * Cardinality(PageSteps) ELSE 0
  /\ scenario = "http" => rec.requestsFailed = rec.failed

\* They can be counted.
LEMMA WithFinite ==
  ASSUME NEW c
  PROVE  IsFiniteSet(With(c)) /\ Cardinality(With(c)) \in Nat
<1>1. With(c) \in SUBSET Task
  BY DEF With
<1> QED
  BY <1>1, FS_Subset, FS_CardinalityType, ShopAssumption

\* A workflow is a sequence.
LEMMA StepDomain ==
  ASSUME NEW w \in DOMAIN Steps
  PROVE  DOMAIN Steps[w] = 1..Len(Steps[w])
<1>1. w \in {"minimal", "SPA", "stateful", "complex"}
  BY DEF Steps
<1>2. CASE w = "minimal"
  BY <1>2 DEF Steps
<1>3. CASE w = "SPA"
  BY <1>3 DEF Steps
<1>4. CASE w = "stateful"
  BY <1>4 DEF Steps
<1>5. CASE w = "complex"
  BY <1>5 DEF Steps
<1> QED
  BY <1>1, <1>2, <1>3, <1>4, <1>5

\* The steps in a page can be counted.
LEMMA PageStepsFinite ==
  ASSUME wf \in DOMAIN Steps
  PROVE  IsFiniteSet(PageSteps) /\ Cardinality(PageSteps) \in Nat
<1>1. PageSteps \in SUBSET (1..Len(Steps[wf]))
  BY StepDomain DEF PageSteps
<1>2. IsFiniteSet(1..Len(Steps[wf]))
  BY StepFacts, FS_Interval
<1> QED
  BY <1>1, <1>2, FS_Subset, FS_CardinalityType

\* Nothing but Record ends a recorded task or makes one.
LEMMA RecordedStays ==
  ASSUME IInv, [Next]_vars, NEW t \in Task, NEW c
  PROVE  \/ \E u \in Task : Record(u)
         \/ UNCHANGED <<rec, scenario, wf>> /\ (t \in With(c))' = (t \in With(c))
<1>0. ClientTypes
  BY TypeParts DEF IInv
<1>1. ASSUME NEW u \in Task, ClientStep(u), ~Record(u)
      PROVE  UNCHANGED <<rec, scenario, wf>> /\ (t \in With(c))' = (t \in With(c))
  <2>1. UNCHANGED <<rec, scenario, wf>>
    BY <1>1 DEF ClientStep, TaskStep, SetUp, SetUpFails, LocalStep, LocalStepFails, Send,
       Receive, SeeBroken, GiveUp, EndUnheard, WSCheck, WSCheckRefused, WSCheckFails,
       AtWSCheck, runVars
  <2>2. CASE \/ LocalStep(u) \/ WSCheck(u) \/ LocalStepFails(u) \/ GiveUp(u)
             \/ SeeBroken(u) \/ WSCheckRefused(u) \/ WSCheckFails(u) \/ Receive(u)
    <3>1. /\ Completed(u) \/ \E class : Failed(u, class)
          /\ tpc[u] \in {"step", "wait"}
      BY <2>2 DEF LocalStep, WSCheck, LocalStepFails, GiveUp, SeeBroken, WSCheckRefused,
                  WSCheckFails, Receive, AtWSCheck
    <3>2. /\ \A v \in Task \ {u} : tpc'[v] = tpc[v] /\ failure'[v] = failure[v]
          /\ tpc'[u] \in {"step", "over"}
      BY <1>0, <3>1 DEF Completed, Failed, ClientTypes
    <3> QED
      BY <2>1, <3>1, <3>2 DEF With
  <2>3. CASE SetUp(u) \/ SetUpFails(u) \/ EndUnheard(u)
    <3>1. /\ failure' = failure
          /\ tpc' = tpc \/ (tpc[u] = "new" /\ \E a \in {"step", "nosetup"} :
                                                 tpc' = [tpc EXCEPT ![u] = a])
      BY <2>3 DEF SetUp, SetUpFails, EndUnheard, clientVars
    <3> QED
      BY <1>0, <2>1, <3>1 DEF With, ClientTypes
  <2>4. CASE Send(u)
    <3>1. tpc[u] = "step" /\ (Failed(u, "application") \/
                              (tpc' = [tpc EXCEPT ![u] = "wait"] /\ failure' = failure))
      BY <2>4 DEF Send
    <3>2. /\ \A v \in Task \ {u} : tpc'[v] = tpc[v] /\ failure'[v] = failure[v]
          /\ tpc'[u] \in {"wait", "over"}
      BY <1>0, <3>1 DEF Failed, ClientTypes
    <3> QED
      BY <2>1, <3>1, <3>2 DEF With
  <2> QED
    BY <1>1, <2>2, <2>3, <2>4 DEF ClientStep, TaskStep
<1>2. UNCHANGED <<clientVars, runVars, rec>> =>
        UNCHANGED <<rec, scenario, wf>> /\ (t \in With(c))' = (t \in With(c))
  BY DEF clientVars, runVars, With
<1> QED
  BY <1>1, <1>2 DEF Next, Fault, Finished, Target, ClientStep, vars

\* The recorded tasks that ended one way are the same, or one more.
LEMMA RecordAdds ==
  ASSUME IInv, NEW t \in Task, Record(t)
  PROVE  /\ failure[t] \in Outcomes
         /\ \A c \in Outcomes :
              Cardinality(With(c))' = Cardinality(With(c)) + Count(failure[t] = c)
<1>0. ClientTypes
  BY TypeParts DEF IInv
<1>1. tpc[t] = "over" /\ tpc' = [tpc EXCEPT ![t] = "recorded"] /\ failure' = failure
  BY DEF Record
<1>2. failure[t] \in Outcomes
  BY <1>0 DEF ClientTypes, Outcomes
<1>3. ASSUME NEW c \in Outcomes
      PROVE  Cardinality(With(c))' = Cardinality(With(c)) + Count(failure[t] = c)
  <2>1. CASE failure[t] = c
    <3>1. With(c)' = With(c) \cup {t} /\ t \notin With(c)
      BY <1>0, <1>1, <2>1 DEF With, ClientTypes
    <3> QED
      BY <2>1, <3>1, WithFinite, FS_AddElement DEF Count
  <2>2. CASE failure[t] # c
    <3>1. With(c)' = With(c)
      BY <1>0, <1>1, <2>2 DEF With, ClientTypes
    <3> QED
      BY <2>2, <3>1, WithFinite DEF Count
  <2> QED
    BY <2>1, <2>2
<1> QED
  BY <1>2, <1>3

\* The counters start at zero ...
LEMMA RecInit == Init => RecInv
<1> SUFFICES ASSUME Init
             PROVE  RecInv
  OBVIOUS
<1>1. \A c : With(c) = {}
  BY DEF Init, With
<1>2. wf \in DOMAIN Steps
  BY DEF Init
<1>3. \A c : Cardinality(With(c)) = 0
  BY <1>1, FS_EmptySet
<1>4. Cardinality(PageSteps) \in Nat
  BY <1>2, PageStepsFinite
<1> QED
  BY <1>3, <1>4 DEF Init, RecInv

\* A workflow that succeeded has done all its steps.
LEMMA AllEscalated ==
  ASSUME IInv, NEW t \in Task, tpc[t] = "over", failure[t] = "none"
  PROVE  Done(t, BrowserOnly) = Cardinality(PageSteps)
<1>1. pos[t] = Length /\ wf \in DOMAIN Steps
  BY DEF IInv, TypeOK, TaskInv, TaskOK
<1>2. 1..pos[t] = DOMAIN Steps[wf]
  BY <1>1, StepDomain DEF Length
<1> QED
  BY <1>2 DEF Done, PageSteps

\* ... and Record keeps them right.
LEMMA RecNext == IInv /\ RecInv /\ [Next]_vars => RecInv'
<1> SUFFICES ASSUME IInv, RecInv, [Next]_vars
             PROVE  RecInv'
  OBVIOUS
<1>0. wf \in DOMAIN Steps /\ Classes \subseteq Outcomes /\ "none" \in Outcomes
  BY DEF IInv, TypeOK, Outcomes
<1>1. CASE \E t \in Task : Record(t)
  <2>0. PICK t \in Task : Record(t)
    BY <1>1
  <2>1. /\ UNCHANGED runVars
        /\ rec' = [completed |-> rec.completed + Count(failure[t] = "none"),
                   failed    |-> rec.failed + Count(failure[t] # "none"),
                   escalations |-> rec.escalations + Escalated(t),
                   requestsOK |->
                     rec.requestsOK + IF scenario = "http" THEN Done(t, Asking) ELSE 0,
                   requestsFailed |->
                     rec.requestsFailed + Count(scenario = "http" /\ failure[t] # "none"),
                   failures |-> [c \in Classes |-> rec.failures[c] + Count(failure[t] = c)]]
    BY <2>0 DEF Record
  <2>2. /\ failure[t] \in Outcomes
        /\ \A c \in Outcomes :
             Cardinality(With(c))' = Cardinality(With(c)) + Count(failure[t] = c)
    BY <2>0, RecordAdds
  <2>3. rec'.completed = Cardinality(With("none"))'
    BY <1>0, <2>1, <2>2 DEF RecInv
  <2>4. \A c \in Classes : rec'.failures[c] = Cardinality(With(c))'
    BY <1>0, <2>1, <2>2 DEF RecInv
  <2>5. rec'.failed = Cardinality(With("timeout"))' + Cardinality(With("infrastructure"))'
                        + Cardinality(With("application"))'
    <3>1. /\ \A c \in Outcomes : Cardinality(With(c)) \in Nat
          /\ rec'.failed = rec.failed + Count(failure[t] # "none")
      BY <2>1, WithFinite
    <3> QED
      BY <2>2, <3>1 DEF RecInv, Outcomes, Classes, Count
  <2>6. rec'.escalations = IF scenario' = "hybrid"
                           THEN rec'.completed * Cardinality(PageSteps)' ELSE 0
    <3>1. Cardinality(PageSteps)' = Cardinality(PageSteps) /\ Cardinality(PageSteps) \in Nat
      BY <1>0, <2>1, PageStepsFinite DEF PageSteps, runVars
    <3>2. rec.completed \in Nat
      BY WithFinite DEF RecInv
    <3>3. \A n, k \in Nat : (n + 1) * k = n * k + k /\ (n + 0) * k = n * k + 0
      OBVIOUS
    <3>4. /\ rec'.completed = rec.completed + Count(failure[t] = "none")
          /\ rec'.escalations = rec.escalations + Escalated(t)
          /\ scenario' = scenario
      BY <2>1 DEF runVars
    <3>5. CASE scenario = "hybrid" /\ failure[t] = "none"
      <4>1. Escalated(t) = Cardinality(PageSteps)
        BY <2>0, <3>5, AllEscalated DEF Escalated, Record
      <4> QED
        BY <3>1, <3>2, <3>3, <3>4, <3>5, <4>1 DEF RecInv, Count
    <3>6. CASE ~(scenario = "hybrid" /\ failure[t] = "none")
      <4>1. Escalated(t) = 0
        BY <3>6 DEF Escalated
      <4> QED
        BY <3>1, <3>2, <3>3, <3>4, <3>6, <4>1 DEF RecInv, Count
    <3> QED
      BY <3>5, <3>6
  <2>7. scenario' = "http" => rec'.requestsFailed = rec'.failed
    BY <2>1 DEF RecInv, runVars
  <2> QED
    BY <2>3, <2>4, <2>5, <2>6, <2>7 DEF RecInv
<1>2. CASE ~ \E t \in Task : Record(t)
  <2>1. \A c : With(c)' = With(c)
    <3>1. \A t \in Task : \A c : (t \in With(c))' = (t \in With(c))
      BY <1>2, RecordedStays
    <3> QED
      BY <3>1 DEF With
  <2>2. UNCHANGED <<rec, scenario, wf>>
    <3>1. CASE Task = {}
      <4>1. \/ Target(TargetStarts) \/ Target(Crash) \/ UNCHANGED vars
        BY <3>1 DEF Next, Fault, Finished
      <4> QED
        BY <4>1 DEF Target, vars, runVars
    <3>2. CASE Task # {}
      BY <1>2, <3>2, RecordedStays
    <3> QED
      BY <3>1, <3>2
  <2>3. PageSteps' = PageSteps
    BY <2>2 DEF PageSteps
  <2> QED
    BY <2>1, <2>2, <2>3 DEF RecInv
<1> QED
  BY <1>1, <1>2

\* The workflows reported as complete have an order each.
LEMMA CompletedPlaced ==
  ASSUME IInv, \E i \in DOMAIN Steps[wf] : Steps[wf][i] = "checkout"
  PROVE  Cardinality(With("none")) <= Cardinality({o \in Id : orders[o] # NoOrder})
<1> DEFINE Good == With("none")
           Rows == {o \in Id : orders[o] # NoOrder}
           f == [t \in Good |-> ord[t]]
<1>1. ASSUME NEW t \in Good
      PROVE  /\ t \in Task /\ ord[t] \in Rows /\ orders[ord[t]].session = sess[t]
             /\ sess[t] # NoId /\ SessionOf(t) = sess[t]
  <2>1. /\ t \in Task /\ pos[t] = Length /\ wf \in DOMAIN Steps
        /\ ord[t] # NoId <=> Past(t, "checkout")
        /\ ord[t] \in Id \cup {NoId}
    BY DEF With, IInv, TypeOK, TaskInv, TaskOK
  <2>2. Past(t, "checkout")
    BY <2>1, StepDomain DEF Past, Length
  <2>3. OrderOK(t)
    BY <2>1 DEF IInv, OrderInv
  <2> QED
    BY <2>1, <2>2, <2>3, SessionFacts DEF OrderOK
<1>2. ASSUME NEW t \in Good, NEW u \in Good, ord[t] = ord[u]
      PROVE  t = u
  BY <1>1, <1>2 DEF IInv, SessionInv
<1>3. f \in Injection(Good, Rows)
  <2>1. f \in [Good -> Rows]
    BY <1>1
  <2>2. IsInjective(f)
    BY <1>2 DEF IsInjective
  <2> QED
    BY <2>1, <2>2 DEF Injection
<1>4. IsFiniteSet(Rows)
  <2>1. IsFiniteSet(1..MaxBoots) /\ IsFiniteSet(1..MaxIds)
    BY ShopAssumption, FS_Interval
  <2>2. IsFiniteSet(Id)
    BY <2>1, FS_Product DEF Id
  <2>3. Rows \in SUBSET Id
    OBVIOUS
  <2> QED
    BY <2>2, <2>3, FS_Subset
<1> HIDE DEF Good, Rows, f
<1>5. Cardinality(Good) <= Cardinality(Rows)
  BY <1>3, <1>4, FS_Injection
<1> QED
  BY <1>5 DEF Good, Rows

\* Sets without a common element count together.
LEMMA Disjoint ==
  ASSUME NEW S, NEW T, IsFiniteSet(S), IsFiniteSet(T), S \cap T = {}
  PROVE  /\ IsFiniteSet(S \cup T)
         /\ Cardinality(S \cup T) = Cardinality(S) + Cardinality(T)
<1>1. Cardinality(S \cap T) = 0
  BY FS_EmptySet
<1>2. Cardinality(S) \in Nat /\ Cardinality(T) \in Nat
  BY FS_CardinalityType
<1>3. /\ IsFiniteSet(S \cup T)
      /\ Cardinality(S \cup T) = Cardinality(S) + Cardinality(T) - Cardinality(S \cap T)
  BY FS_Union
<1> QED
  BY <1>1, <1>2, <1>3

\* The recorded tasks are those that succeeded and those of each class.
LEMMA OutcomesCounted ==
  ASSUME IInv
  PROVE  LET ended == {t \in Task : tpc[t] = "recorded"}
             good  == {t \in ended : failure[t] = "none"}
         IN  /\ good = With("none")
             /\ Cardinality(ended) - Cardinality(good) =
                  Cardinality(With("timeout")) + Cardinality(With("infrastructure"))
                    + Cardinality(With("application"))
<1> DEFINE A == With("none") \cup With("timeout")
           B == With("infrastructure") \cup With("application")
<1>1. {t \in {u \in Task : tpc[u] = "recorded"} : failure[t] = "none"} = With("none")
  BY DEF With
<1>2. {t \in Task : tpc[t] = "recorded"} = A \cup B
  BY DEF With, IInv, TypeOK, Classes
<1>3. A \cap B = {}
  BY DEF With
<1>4. With("none") \cap With("timeout") = {}
  BY DEF With
<1>5. With("infrastructure") \cap With("application") = {}
  BY DEF With
<1>6. /\ IsFiniteSet(A)
      /\ Cardinality(A) = Cardinality(With("none")) + Cardinality(With("timeout"))
  BY <1>4, WithFinite, Disjoint
<1>7. /\ IsFiniteSet(B)
      /\ Cardinality(B) = Cardinality(With("infrastructure"))
                            + Cardinality(With("application"))
  BY <1>5, WithFinite, Disjoint
<1> HIDE DEF A, B
<1>8. Cardinality(A \cup B) = Cardinality(A) + Cardinality(B)
  BY <1>3, <1>6, <1>7, Disjoint
<1>9. /\ Cardinality(With("none")) \in Nat /\ Cardinality(With("timeout")) \in Nat
      /\ Cardinality(With("infrastructure")) \in Nat
      /\ Cardinality(With("application")) \in Nat
  BY WithFinite
<1>10. Cardinality(A \cup B) - Cardinality(With("none")) =
         Cardinality(With("timeout")) + Cardinality(With("infrastructure"))
           + Cardinality(With("application"))
  BY <1>6, <1>7, <1>8, <1>9
<1> QED
  BY <1>1, <1>2, <1>10

\* The counters of a run: every recorded task counted once, every failure in
\* one class, an order for every workflow reported as complete, and
\* escalations for complete workflows only.
THEOREM RecorderExact == Spec => []RecorderAgrees
<1>1. IInv /\ RecInv => RecorderAgrees
  <2> SUFFICES ASSUME IInv, RecInv
               PROVE  RecorderAgrees
    OBVIOUS
  <2> QED
    BY OutcomesCounted, CompletedPlaced, WithFinite
       DEF RecorderAgrees, RecInv, PageSteps, Classes
<1>2. Spec => []RecInv
  <2>1. Init /\ [][Next]_vars /\ []IInv => []RecInv
    BY RecInit, RecNext, PTL
  <2> QED
    BY <2>1, Invariance, PTL DEF Spec
<1> QED
  BY <1>1, <1>2, Invariance, PTL

===============================================================================
