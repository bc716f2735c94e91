------------------------------ MODULE ContextPool ------------------------------
(***************************************************************************)
(* The pool of isolated browser contexts over one persistent Chromium       *)
(* (internal/contexts/pool.go) and the way a task uses it (Worker.Run in     *)
(* internal/contexts, internal/cdp and internal/hybrid): built with Count    *)
(* contexts, used by any number of goroutines, closed while they may still   *)
(* be at work. In a benchmark run each pool has one user, its worker.        *)
(***************************************************************************)
EXTENDS Integers, Sequences, FiniteSets

CONSTANTS
  User,       \* the goroutines that call Worker.Run
  Context,    \* context identities: their number bounds the contexts made
  Count,      \* the contexts NewPoolWithBrowser creates
  NoContext   \* the context a user holds when it holds none

ASSUME ContextPoolAssumption ==
  /\ IsFiniteSet(User) /\ IsFiniteSet(Context)
  /\ Count \in Nat \ {0}
  /\ NoContext \notin Context

VARIABLES
  owner,      \* "building", "open", "closing" (Pool.closed is set), "closed"
  available,  \* Pool.available, used as a stack
  inUse,      \* Pool.inUse
  made,       \* the contexts created so far; Pool.open is their number
  live,       \* the contexts that have not been closed
  doomed,     \* in Close: the contexts collected and not yet closed
  pc,         \* where each user is in Worker.Run
  held        \* the context each user has acquired and not yet released

userVars == <<pc, held>>
poolVars == <<owner, available, inUse, made, live, doomed>>
vars == <<userVars, poolVars>>

Closed == owner \in {"closing", "closed"}

Elements(s) == {s[i] : i \in 1..Len(s)}

Available == Elements(available)

Init ==
  /\ owner = "building"
  /\ available = << >>
  /\ inUse = {} /\ made = {} /\ live = {} /\ doomed = {}
  /\ pc = [u \in User |-> "idle"]
  /\ held = [u \in User |-> NoContext]

-------------------------------------------------------------------------------
(* NewPoolWithBrowser and Close.                                            *)

BuildContext(c) ==
  /\ owner = "building" /\ c \notin made
  /\ available' = Append(available, c)
  /\ made' = made \cup {c} /\ live' = live \cup {c}
  /\ owner' = IF Len(available) + 1 = Count THEN "open" ELSE "building"
  /\ UNCHANGED <<userVars, inUse, doomed>>

\* Mutant: Close looks only at the contexts nobody uses.
CollectAvailable == Available

\* What Close collects under the lock.
Collected == Available \cup inUse

\* Close up to the unlock: by the owner of an open pool, or by
\* NewPoolWithBrowser itself when creating a context fails.
CloseUnderLock ==
  /\ owner \in {"building", "open"}
  /\ owner' = "closing"
  /\ doomed' = Collected
  /\ available' = << >> /\ inUse' = {}
  /\ UNCHANGED <<userVars, made, live>>

\* After the unlock: each collected context, then the browser, which takes
\* whatever still lives in it down.
CloseContext(c) ==
  /\ owner = "closing" /\ c \in doomed
  /\ doomed' = doomed \ {c} /\ live' = live \ {c}
  /\ UNCHANGED <<userVars, owner, available, inUse, made>>

CloseBrowser ==
  /\ owner = "closing" /\ doomed = {}
  /\ owner' = "closed"
  /\ live' = {}
  /\ UNCHANGED <<userVars, available, inUse, made, doomed>>

OwnerStep ==
  \/ \E c \in Context : BuildContext(c) \/ CloseContext(c)
  \/ CloseUnderLock
  \/ CloseBrowser

-------------------------------------------------------------------------------
(* Worker.Run.                                                              *)

Hold(u, c) ==
  /\ held' = [held EXCEPT ![u] = c]
  /\ inUse' = inUse \cup {c}
  /\ pc' = [pc EXCEPT ![u] = "page"]

\* Mutant: the context stays in the stack.
PeekAvailable(u) ==
  /\ owner = "open" /\ pc[u] = "idle" /\ available # << >>
  /\ Hold(u, available[Len(available)])
  /\ UNCHANGED <<owner, available, made, live, doomed>>

\* Acquire: the context released last is the first to be used again.
TakeAvailable(u) ==
  /\ owner = "open" /\ pc[u] = "idle" /\ available # << >>
  /\ Hold(u, available[Len(available)])
  /\ available' = SubSeq(available, 1, Len(available) - 1)
  /\ UNCHANGED <<owner, made, live, doomed>>

\* Mutant: Acquire creates a context even when one is available.
AlwaysCreate(u, c) ==
  /\ owner = "open" /\ pc[u] = "idle" /\ c \notin made
  /\ Hold(u, c)
  /\ made' = made \cup {c} /\ live' = live \cup {c}
  /\ UNCHANGED <<owner, available, doomed>>

\* Acquire of an exhausted pool creates a context, under the lock.
TakeNew(u, c) ==
  /\ owner = "open" /\ pc[u] = "idle" /\ available = << >> /\ c \notin made
  /\ Hold(u, c)
  /\ made' = made \cup {c} /\ live' = live \cup {c}
  /\ UNCHANGED <<owner, available, doomed>>

\* Acquire returns an error: the pool is closed, or NewContext failed.
AcquireFails(u) ==
  /\ pc[u] = "idle"
  /\ Closed \/ (owner = "open" /\ available = << >>)
  /\ UNCHANGED vars

Go(u, from, to) == pc[u] = from /\ pc' = [pc EXCEPT ![u] = to]

\* NewPage works in a live context only; it may fail in any. A failure leaves
\* the context as it is and releases it.
OpenPage(u) ==
  /\ Go(u, "page", "work") /\ held[u] \in live
  /\ UNCHANGED <<held, poolVars>>

PageFails(u) == Go(u, "page", "release") /\ UNCHANGED <<held, poolVars>>

\* The workflow succeeds, or a step fails: its error, the 120 s deadline of
\* the task, the cancellation of the run, the context closed by Close.
WorkDone(u) ==
  /\ Go(u, "work", "release") /\ held[u] \in live
  /\ UNCHANGED <<held, poolVars>>

WorkFails(u) == Go(u, "work", "discard") /\ UNCHANGED <<held, poolVars>>

\* bctx.Close on the error path, before the Release.
Discard(u) ==
  /\ Go(u, "discard", "release")
  /\ live' = live \ {held[u]}
  /\ UNCHANGED <<held, owner, available, inUse, made, doomed>>

\* Release, on every path that acquired a context.
Release(u) ==
  /\ Go(u, "release", "idle")
  /\ held' = [held EXCEPT ![u] = NoContext]
  /\ inUse' = inUse \ {held[u]}
  /\ IF Closed
     THEN live' = live \ {held[u]} /\ UNCHANGED available
     ELSE available' = Append(available, held[u]) /\ UNCHANGED live
  /\ UNCHANGED <<owner, made, doomed>>

UserStep(u) ==
  \/ TakeAvailable(u)
  \/ \E c \in Context : TakeNew(u, c)
  \/ AcquireFails(u)
  \/ OpenPage(u)
  \/ PageFails(u)
  \/ WorkDone(u)
  \/ WorkFails(u)
  \/ Discard(u)
  \/ Release(u)

Next == OwnerStep \/ \E u \in User : UserStep(u)

Spec == Init /\ [][Next]_vars

-------------------------------------------------------------------------------
(* Properties.                                                              *)

TypeOK ==
  /\ owner \in {"building", "open", "closing", "closed"}
  /\ available \in Seq(Context)
  /\ inUse \in SUBSET Context /\ made \in SUBSET Context
  /\ live \in SUBSET Context /\ doomed \in SUBSET Context
  /\ pc \in [User -> {"idle", "page", "work", "discard", "release"}]
  /\ held \in [User -> Context \cup {NoContext}]

\* A user holds a context exactly between Acquire and Release.
HeldWhileRunning == \A u \in User : held[u] = NoContext <=> pc[u] = "idle"

\* Two tasks never share a context, so neither sees the cookies, the storage
\* or the pages of the other, also while Close tears the pool down.
Exclusive == \A u, v \in User : held[u] = held[v] /\ held[u] # NoContext => u = v

HeldMade == \A u \in User : held[u] # NoContext => held[u] \in made

NoRepeat(s) == \A i, j \in 1..Len(s) : s[i] = s[j] => i = j

\* While the pool is not closed, every context ever made is in exactly one
\* place: once in the stack, or with the user that acquired it.
Distinct == NoRepeat(available)
Placed ==
  ~Closed => /\ made = Available \cup inUse /\ Available \cap inUse = {}
             /\ \A c \in Context : c \in inUse <=> \E u \in User : held[u] = c

\* What is live was made, and in a closing pool is still to be closed; the
\* pool being built has no users, and a closed pool hands nothing out.
Accounted ==
  /\ live \subseteq made
  /\ Closed => live \subseteq doomed /\ available = << >> /\ inUse = {}
  /\ owner = "building" => inUse = {}
  /\ owner # "closing" => doomed = {}

\* The browser never carries more contexts than the pool was built with or
\* than there are users: a context is created only when every other one is
\* in use, so failing tasks, races on Acquire and Release do not add up.
Larger(a, b) == IF a < b THEN b ELSE a
ContextsBounded == Cardinality(live) <= Larger(Count, Cardinality(User))

\* What makes the bound inductive: it holds for the contexts made.
MadeBounded ==
  /\ owner = "building" => Cardinality(made) = Len(available) /\ Len(available) < Count
  /\ Cardinality(made) <= Larger(Count, Cardinality(User))

\* The inductive invariant behind the three properties of this module.
IInv == /\ TypeOK /\ HeldWhileRunning /\ Exclusive /\ Distinct /\ Placed /\ Accounted
        /\ HeldMade /\ MadeBounded

\* Close reaches every context, those in use included, before it closes the
\* browser, and none is created behind its back.
ClosedBeforeBrowser == owner = "closing" /\ doomed = {} => live = {}

\* "so a poisoned context never serves the next task" (contexts/worker.go:30)
PoisonedNeverServes == \A u \in User : pc[u] = "page" /\ ~Closed => held[u] \in live
===============================================================================
