--------------------------- MODULE ContextPoolProofs ---------------------------
(***************************************************************************)
(* Proofs about ContextPool for every number of users, every pool size and  *)
(* any number of contexts.                                                  *)
(***************************************************************************)
EXTENDS ContextPool, FiniteSetTheorems, SequenceTheorems, TLAPS

(* The stack.                                                               *)

\* Pushing c adds c to the elements, and repeats none if c is new.
LEMMA PushStack ==
  ASSUME NEW S, NEW s \in Seq(S), NEW c \in S
  PROVE  /\ Append(s, c) \in Seq(S) /\ Len(Append(s, c)) = Len(s) + 1
         /\ Elements(Append(s, c)) = Elements(s) \cup {c}
         /\ NoRepeat(s) /\ c \notin Elements(s) => NoRepeat(Append(s, c))
<1> DEFINE t == Append(s, c)
<1>1. t \in Seq(S) /\ Len(t) = Len(s) + 1 /\ Len(s) \in Nat
  OBVIOUS
<1>2. \A i \in 1..Len(t) : t[i] = IF i = Len(s) + 1 THEN c ELSE s[i]
  OBVIOUS
<1> HIDE DEF t
<1>3. Elements(t) = Elements(s) \cup {c}
  <2>1. \A i \in 1..Len(s) : i \in 1..Len(t) /\ t[i] = s[i]
    BY <1>1, <1>2
  <2>2. Len(t) \in 1..Len(t) /\ t[Len(t)] = c
    BY <1>1, <1>2
  <2>3. \A i \in 1..Len(t) : i = Len(t) \/ i \in 1..Len(s)
    BY <1>1
  <2> QED
    BY <2>1, <2>2, <2>3 DEF Elements
<1>4. ASSUME NoRepeat(s), c \notin Elements(s),
             NEW i \in 1..Len(t), NEW j \in 1..Len(t), t[i] = t[j]
      PROVE  i = j
  <2>1. \A k \in 1..Len(t) : k = Len(t) \/ (k \in 1..Len(s) /\ t[k] = s[k] /\ t[k] # c)
    BY <1>1, <1>2, <1>4 DEF Elements
  <2>2. t[Len(t)] = c
    BY <1>1, <1>2
  <2> QED
    BY <1>4, <2>1, <2>2 DEF NoRepeat
<1>5. NoRepeat(s) /\ c \notin Elements(s) => NoRepeat(t)
  BY <1>4 DEF NoRepeat
<1> QED
  BY <1>1, <1>3, <1>5 DEF t

\* Popping removes the last element and, if none is repeated, only it.
LEMMA PopStack ==
  ASSUME NEW S, NEW s \in Seq(S), s # << >>, NoRepeat(s)
  PROVE  LET t == SubSeq(s, 1, Len(s) - 1)
             c == s[Len(s)]
         IN  /\ t \in Seq(S) /\ c \in S
             /\ Elements(s) = Elements(t) \cup {c} /\ c \notin Elements(t)
             /\ NoRepeat(t)
<1> DEFINE t == SubSeq(s, 1, Len(s) - 1)
           c == s[Len(s)]
<1>1. Len(s) \in Nat /\ Len(s) # 0
  OBVIOUS
<1>2. t \in Seq(S) /\ Len(t) = Len(s) - 1 /\ \A i \in 1..Len(t) : t[i] = s[i]
  <2>1. 1 \in Int /\ Len(s) - 1 \in Int /\ \A i \in 1..(Len(s) - 1) : s[i] \in S
    BY <1>1
  <2>2. t \in Seq(S)
    BY <2>1, SubSeqProperties
  <2>3. Len(t) = IF 1 <= Len(s) - 1 THEN Len(s) - 1 - 1 + 1 ELSE 0
    BY <2>1, SubSeqProperties
  <2>4. \A i \in 1..(Len(s) - 1 - 1 + 1) : t[i] = s[1 + i - 1]
    BY <2>1, SubSeqProperties
  <2> HIDE DEF t
  <2>5. Len(t) = Len(s) - 1
    <3>1. CASE Len(s) = 1
      BY <2>3, <3>1
    <3>2. CASE 1 <= Len(s) - 1
      BY <1>1, <2>3, <3>2
    <3>3. Len(s) = 1 \/ 1 <= Len(s) - 1
      BY <1>1
    <3> QED
      BY <3>1, <3>2, <3>3
  <2>6. ASSUME NEW i \in 1..Len(t) PROVE t[i] = s[i]
    <3>1. i \in 1..(Len(s) - 1 - 1 + 1) /\ 1 + i - 1 = i
      BY <1>1, <2>5
    <3> QED
      BY <2>4, <3>1
  <2> QED
    BY <2>2, <2>5, <2>6
<1>3. c \in S
  BY <1>1
<1> HIDE DEF t
<1>4. Elements(s) = Elements(t) \cup {c}
  <2>1. \A i \in 1..Len(s) : i = Len(s) \/ i \in 1..Len(t)
    BY <1>1, <1>2
  <2>2. 1..Len(t) \subseteq 1..Len(s) /\ Len(s) \in 1..Len(s)
    BY <1>1, <1>2
  <2> QED
    BY <2>1, <2>2, <1>2 DEF Elements
<1>5. c \notin Elements(t)
  BY <1>1, <1>2 DEF Elements, NoRepeat
<1>6. NoRepeat(t)
  BY <1>1, <1>2 DEF NoRepeat
<1> QED
  BY <1>2, <1>3, <1>4, <1>5, <1>6 DEF t

-------------------------------------------------------------------------------
(* The bound.                                                               *)

\* Larger is the maximum, and the sets counted are finite.
LEMMA Counts ==
  ASSUME TypeOK
  PROVE  /\ IsFiniteSet(made) /\ Cardinality(made) \in Nat
         /\ Cardinality(User) \in Nat
         /\ Larger(Count, Cardinality(User)) \in Nat
         /\ Count <= Larger(Count, Cardinality(User))
         /\ Cardinality(User) <= Larger(Count, Cardinality(User))
<1>1. IsFiniteSet(made) /\ Cardinality(made) \in Nat
  BY FS_Subset, FS_CardinalityType, ContextPoolAssumption DEF TypeOK
<1>2. Cardinality(User) \in Nat
  BY FS_CardinalityType, ContextPoolAssumption
<1> QED
  BY <1>1, <1>2, ContextPoolAssumption DEF Larger

\* When the stack is empty and some user is idle, the contexts made are those
\* of the other users: fewer than there are users.
LEMMA ExhaustedPool ==
  ASSUME IInv, ~Closed, available = << >>, NEW u \in User, pc[u] = "idle"
  PROVE  Cardinality(made) + 1 <= Cardinality(User)
<1> DEFINE busy == {v \in User : held[v] # NoContext}
           f == [v \in busy |-> held[v]]
<1>1. made = inUse
  <2>1. Available = {}
    BY DEF Available, Elements
  <2> QED
    BY <2>1 DEF IInv, Placed
<1>2. \A c \in inUse : \E v \in busy : held[v] = c
  BY ContextPoolAssumption DEF IInv, TypeOK, Placed
<1>3. \A v \in busy : held[v] \in inUse
  BY <1>1 DEF IInv, HeldMade
<1>4. f \in Surjection(busy, made)
  BY <1>1, <1>2, <1>3 DEF Surjection
<1>5. busy \in SUBSET (User \ {u})
  BY DEF IInv, HeldWhileRunning
<1>6. /\ IsFiniteSet(User \ {u})
      /\ Cardinality(User \ {u}) = Cardinality(User) - 1
  BY FS_RemoveElement, ContextPoolAssumption
<1>7. IsFiniteSet(busy) /\ Cardinality(busy) <= Cardinality(User) - 1
  BY <1>5, <1>6, FS_Subset
<1>8. Cardinality(made) <= Cardinality(busy)
  BY <1>4, <1>7, FS_Surjection
<1>9. /\ Cardinality(made) \in Nat /\ Cardinality(User) \in Nat
      /\ Cardinality(busy) \in Nat
  BY <1>7, Counts, FS_CardinalityType DEF IInv
<1> QED
  BY <1>7, <1>8, <1>9

-------------------------------------------------------------------------------
(* The inductive invariant.                                                 *)

LEMMA InvInit == Init => IInv
<1> SUFFICES ASSUME Init PROVE IInv
  OBVIOUS
<1>1. TypeOK /\ HeldWhileRunning /\ Exclusive /\ Distinct /\ HeldMade
  BY DEF Init, TypeOK, HeldWhileRunning, Exclusive, Distinct, NoRepeat, HeldMade
<1>2. Placed /\ Accounted
  BY ContextPoolAssumption DEF Init, Placed, Accounted, Closed, Available, Elements
<1>3. MadeBounded
  <2>1. Cardinality(made) = 0 /\ Len(available) = 0
    BY FS_EmptySet DEF Init
  <2>2. 0 <= Larger(Count, Cardinality(User))
    BY Counts, <1>1, ContextPoolAssumption, <2>1
  <2> QED
    BY <2>1, <2>2, ContextPoolAssumption DEF MadeBounded
<1> QED
  BY <1>1, <1>2, <1>3 DEF IInv

LEMMA InvBuild ==
  ASSUME IInv, NEW c \in Context, BuildContext(c)
  PROVE  IInv'
<1> USE DEF IInv, BuildContext, userVars
<1>1. /\ available' \in Seq(Context) /\ Len(available') = Len(available) + 1
      /\ Available' = Available \cup {c}
      /\ c \notin Available => Distinct'
  BY PushStack DEF TypeOK, Available, Distinct
<1>2. ~Closed /\ ~Closed' /\ inUse = {} /\ doomed = {} /\ made = Available
  BY DEF Closed, Accounted, Placed
<1>3. TypeOK'
  BY <1>1 DEF TypeOK
<1>4. HeldWhileRunning' /\ Exclusive' /\ HeldMade'
  BY DEF HeldWhileRunning, Exclusive, HeldMade
<1>5. Distinct' /\ Placed' /\ Accounted'
  BY <1>1, <1>2 DEF Placed, Accounted, Closed
<1>6. MadeBounded'
  <2>1. Cardinality(made') = Len(available')
    BY <1>1, Counts, FS_AddElement DEF MadeBounded
  <2>2. Len(available') <= Count /\ (owner' = "building" => Len(available') < Count)
    BY <1>1, ContextPoolAssumption DEF MadeBounded, TypeOK
  <2>3. Cardinality(made') <= Larger(Count, Cardinality(User))
    BY <1>1, <2>1, <2>2, Counts, ContextPoolAssumption DEF TypeOK, Larger
  <2> QED
    BY <2>1, <2>2, <2>3 DEF MadeBounded
<1> QED
  BY <1>3, <1>4, <1>5, <1>6

LEMMA InvClose ==
  ASSUME IInv, CloseUnderLock \/ CloseBrowser \/ \E c \in Context : CloseContext(c)
  PROVE  IInv'
<1>1. UNCHANGED <<pc, held, made>>
  BY DEF CloseUnderLock, CloseBrowser, CloseContext, userVars
<1>2. HeldWhileRunning' /\ Exclusive' /\ HeldMade'
  BY <1>1 DEF IInv, HeldWhileRunning, Exclusive, HeldMade
<1>3. CASE CloseUnderLock
  <2>1. Available \in SUBSET Context
    BY DEF IInv, TypeOK, Available, Elements
  <2>2. TypeOK' /\ Distinct'
    BY <1>1, <1>3, <2>1 DEF IInv, TypeOK, Distinct, NoRepeat, CloseUnderLock, Collected
  <2>3. Placed' /\ Accounted' /\ MadeBounded'
    BY <1>1, <1>3 DEF IInv, Placed, Accounted, MadeBounded, Closed, CloseUnderLock, Collected
  <2> QED
    BY <1>2, <2>2, <2>3 DEF IInv
<1>4. CASE CloseBrowser \/ \E c \in Context : CloseContext(c)
  <2>1. TypeOK' /\ Distinct'
    BY <1>1, <1>4 DEF IInv, TypeOK, Distinct, CloseBrowser, CloseContext
  <2>2. Placed' /\ Accounted' /\ MadeBounded'
    BY <1>1, <1>4
       DEF IInv, Placed, Accounted, MadeBounded, Closed, CloseBrowser, CloseContext
  <2> QED
    BY <1>2, <2>1, <2>2 DEF IInv
<1> QED
  BY <1>3, <1>4

LEMMA InvTake ==
  ASSUME IInv, NEW u \in User, TakeAvailable(u)
  PROVE  IInv'
<1> USE DEF IInv, TakeAvailable, Hold
<1> DEFINE c == available[Len(available)]
<1>1. /\ available' \in Seq(Context) /\ c \in Context
      /\ Available = Available' \cup {c} /\ c \notin Available'
      /\ Distinct'
  BY PopStack DEF TypeOK, Available, Distinct
<1>2. ~Closed /\ ~Closed' /\ owner = "open" /\ c \in made /\ c \notin inUse
  BY <1>1 DEF Closed, Placed
<1>3. /\ held' = [held EXCEPT ![u] = c] /\ inUse' = inUse \cup {c}
      /\ pc' = [pc EXCEPT ![u] = "page"]
      /\ held[u] = NoContext /\ c # NoContext
      /\ \A v \in User : held[v] # c
  BY <1>1, <1>2, ContextPoolAssumption DEF HeldWhileRunning, Placed
<1> HIDE DEF c
<1>4. TypeOK'
  BY <1>1, <1>3 DEF TypeOK
<1>5. HeldWhileRunning' /\ Exclusive' /\ HeldMade'
  BY <1>2, <1>3 DEF HeldWhileRunning, Exclusive, HeldMade, TypeOK
<1>6. Placed'
  <2>1. made' = Available' \cup inUse' /\ Available' \cap inUse' = {}
    BY <1>1, <1>2, <1>3 DEF Placed
  <2>2. \A d \in Context : d \in inUse' <=> \E v \in User : held'[v] = d
    BY <1>2, <1>3, ContextPoolAssumption DEF Placed, TypeOK
  <2> QED
    BY <2>1, <2>2 DEF Placed
<1>7. Accounted' /\ MadeBounded'
  BY <1>2 DEF Accounted, MadeBounded
<1> QED
  BY <1>1, <1>4, <1>5, <1>6, <1>7

LEMMA InvTakeNew ==
  ASSUME IInv, NEW u \in User, NEW c \in Context, TakeNew(u, c)
  PROVE  IInv'
<1> USE DEF IInv, TakeNew, Hold
<1>1. ~Closed /\ ~Closed' /\ owner = "open" /\ Available = {} /\ Available' = {}
  BY DEF Closed, Available, Elements
<1>2. held[u] = NoContext /\ c # NoContext /\ \A v \in User : held[v] # c
  BY ContextPoolAssumption DEF HeldWhileRunning, HeldMade
<1>3. TypeOK' /\ Distinct'
  BY DEF TypeOK, Distinct
<1>4. HeldWhileRunning' /\ Exclusive' /\ HeldMade'
  BY <1>2 DEF HeldWhileRunning, Exclusive, HeldMade, TypeOK
<1>5. Placed'
  <2>1. made' = Available' \cup inUse' /\ Available' \cap inUse' = {}
    BY <1>1 DEF Placed
  <2>2. \A d \in Context : d \in inUse' <=> \E v \in User : held'[v] = d
    BY <1>1, <1>2, ContextPoolAssumption DEF Placed, TypeOK
  <2> QED
    BY <2>1, <2>2 DEF Placed
<1>6. Accounted'
  BY <1>1 DEF Accounted
<1>7. MadeBounded'
  <2>1. Cardinality(made') = Cardinality(made) + 1
    BY Counts, FS_AddElement
  <2>2. Cardinality(made) + 1 <= Cardinality(User)
    BY <1>1, ExhaustedPool
  <2>3. Cardinality(made') <= Larger(Count, Cardinality(User))
    BY <2>1, <2>2, Counts, ContextPoolAssumption DEF Larger
  <2> QED
    BY <1>1, <2>3 DEF MadeBounded
<1> QED
  BY <1>3, <1>4, <1>5, <1>6, <1>7

\* The steps of a task between Acquire and Release: only Discard touches the
\* pool, and it only closes a context.
LEMMA InvWork ==
  ASSUME IInv, NEW u \in User,
         OpenPage(u) \/ PageFails(u) \/ WorkDone(u) \/ WorkFails(u) \/ Discard(u)
  PROVE  IInv'
<1>1. /\ UNCHANGED <<held, owner, available, inUse, made, doomed>>
      /\ live' \in SUBSET live
      /\ \E to \in {"work", "release", "discard"} :
           pc[u] # "idle" /\ pc' = [pc EXCEPT ![u] = to]
  BY DEF OpenPage, PageFails, WorkDone, WorkFails, Discard, Go, poolVars
<1>2. TypeOK' /\ HeldWhileRunning'
  BY <1>1 DEF IInv, TypeOK, HeldWhileRunning
<1>3. Exclusive' /\ Distinct' /\ HeldMade' /\ MadeBounded'
  BY <1>1 DEF IInv, Exclusive, Distinct, HeldMade, MadeBounded
<1>4. Placed' /\ Accounted'
  BY <1>1 DEF IInv, Placed, Accounted, Closed, Available
<1> QED
  BY <1>2, <1>3, <1>4 DEF IInv

LEMMA InvRelease ==
  ASSUME IInv, NEW u \in User, Release(u)
  PROVE  IInv'
<1> DEFINE c == held[u]
<1>1. /\ c \in Context /\ c # NoContext /\ c \in made
      /\ \A v \in User : held[v] = c => v = u
  BY ContextPoolAssumption
     DEF IInv, Release, Go, HeldWhileRunning, HeldMade, Exclusive, TypeOK
<1>2. /\ held' = [held EXCEPT ![u] = NoContext] /\ pc' = [pc EXCEPT ![u] = "idle"]
      /\ inUse' = inUse \ {c} /\ UNCHANGED <<owner, made, doomed>>
      /\ live' \in SUBSET live
      /\ Closed => UNCHANGED available
      /\ ~Closed => available' = Append(available, c)
  BY DEF Release, Go
<1>3. ~Closed => /\ available' \in Seq(Context)
                 /\ Len(available') = Len(available) + 1
                 /\ Available' = Available \cup {c}
                 /\ c \notin Available => Distinct'
  <2>1. available \in Seq(Context) /\ Distinct
    BY DEF IInv, TypeOK
  <2> SUFFICES ASSUME ~Closed
               PROVE  /\ available' \in Seq(Context) /\ Len(available') = Len(available) + 1
                      /\ Available' = Available \cup {c}
                      /\ c \notin Available => Distinct'
    OBVIOUS
  <2>2. available' = Append(available, c) /\ c \in Context
    BY <1>1, <1>2
  <2> QED
    BY <2>1, <2>2, PushStack DEF Available, Distinct
<1>4. ~Closed => c \in inUse /\ c \notin Available
  BY <1>1 DEF IInv, Placed
<1> HIDE DEF c
<1>5. Closed' = Closed
  BY <1>2 DEF Closed
<1>6. TypeOK'
  BY <1>2, <1>3 DEF IInv, TypeOK
<1>7. HeldWhileRunning' /\ Exclusive' /\ HeldMade'
  BY <1>2 DEF IInv, TypeOK, HeldWhileRunning, Exclusive, HeldMade
<1>8. Distinct'
  BY <1>2, <1>3, <1>4 DEF IInv, Distinct
<1>9. Placed'
  <2> SUFFICES ASSUME ~Closed PROVE Placed'
    BY <1>5 DEF Placed
  <2>1. made' = Available' \cup inUse' /\ Available' \cap inUse' = {}
    BY <1>2, <1>3, <1>4 DEF IInv, Placed
  <2>2. \A d \in Context : d \in inUse' <=> \E v \in User : held'[v] = d
    BY <1>1, <1>2, <1>4, ContextPoolAssumption DEF IInv, Placed, TypeOK, c
  <2> QED
    BY <2>1, <2>2 DEF Placed
<1>10. Accounted'
  BY <1>2, <1>4, <1>5 DEF IInv, Accounted, Closed
<1>11. MadeBounded'
  BY <1>2, <1>4 DEF IInv, MadeBounded, Accounted, Closed
<1> QED
  BY <1>6, <1>7, <1>8, <1>9, <1>10, <1>11 DEF IInv

LEMMA InvNext == IInv /\ [Next]_vars => IInv'
<1> SUFFICES ASSUME IInv, [Next]_vars PROVE IInv'
  OBVIOUS
<1>1. ASSUME OwnerStep PROVE IInv'
  BY <1>1, InvBuild, InvClose DEF OwnerStep
<1>2. ASSUME NEW u \in User, UserStep(u), ~AcquireFails(u) PROVE IInv'
  BY <1>2, InvTake, InvTakeNew, InvWork, InvRelease DEF UserStep
<1>3. CASE UNCHANGED vars
  BY <1>3 DEF vars, userVars, poolVars, IInv, TypeOK, HeldWhileRunning, Exclusive, Distinct,
              Placed, Accounted, Closed, Available, HeldMade, MadeBounded
<1> QED
  BY <1>1, <1>2, <1>3 DEF Next, AcquireFails

-------------------------------------------------------------------------------
(* The theorems.                                                            *)

\* The inductive invariant, type correctness included, holds in every
\* reachable state.
THEOREM Invariance == Spec => []IInv
  BY InvInit, InvNext, PTL DEF Spec

\* No two tasks ever hold the same browser context.
THEOREM ContextsAreExclusive == Spec => []Exclusive
<1>1. IInv => Exclusive
  BY DEF IInv
<1> QED
  BY <1>1, Invariance, PTL

\* The contexts of a browser stay within the larger of the pool size and the
\* number of users, however many tasks run and fail.
THEOREM ContextsAreBounded == Spec => []ContextsBounded
<1>1. IInv => ContextsBounded
  <2> SUFFICES ASSUME IInv PROVE ContextsBounded
    OBVIOUS
  <2>1. IsFiniteSet(made) /\ Cardinality(made) \in Nat /\ live \in SUBSET made
    BY Counts DEF IInv, Accounted
  <2>2. Cardinality(live) <= Cardinality(made) /\ Cardinality(live) \in Nat
    BY <2>1, FS_Subset, FS_CardinalityType
  <2>3. Larger(Count, Cardinality(User)) \in Nat
    BY Counts DEF IInv
  <2> QED
    BY <2>1, <2>2, <2>3 DEF IInv, MadeBounded, ContextsBounded
<1> QED
  BY <1>1, Invariance, PTL

\* Close has closed every context before it closes the browser.
THEOREM CloseIsComplete == Spec => []ClosedBeforeBrowser
<1>1. IInv => ClosedBeforeBrowser
  BY DEF IInv, Accounted, Closed, ClosedBeforeBrowser
<1> QED
  BY <1>1, Invariance, PTL
===============================================================================
