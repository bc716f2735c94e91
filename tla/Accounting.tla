------------------------------ MODULE Accounting ------------------------------
(***************************************************************************)
(* The pure part of the measurements: which process belongs to what         *)
(* (internal/process/ownership.go), how a snapshot becomes a sample and a   *)
(* series becomes statistics (internal/accounting), and when a level counts *)
(* as saturated (internal/saturation).                                      *)
(*                                                                         *)
(* A snapshot is a function from process identifiers to records; of a name  *)
(* only what the code looks for in it is kept. CPU is summed like RSS and   *)
(* left out.                                                                *)
(***************************************************************************)
EXTENDS Integers, Sequences, FiniteSetsExt

CONSTANTS
  Controller,  \* the process of the benchmark
  TargetPid    \* the target's process, 0 when it is not given

ASSUME AccountingAssumption == Controller \in Nat \ {0} /\ TargetPid \in Nat

-------------------------------------------------------------------------------
(* Ownership.                                                              *)

Kinds == {"chromium", "renderer", "gpu", "utility", "other"}

\* What a snapshot is.
IsTable(snap) ==
  /\ IsFiniteSet(DOMAIN snap) /\ DOMAIN snap \subseteq Nat
  /\ \A p \in DOMAIN snap : snap[p].kind \in Kinds /\ snap[p].ppid \in Nat /\ snap[p].rss \in Nat
  /\ 0 \in DOMAIN snap => snap[0].ppid = 0

Chromium(snap, p) == p \in DOMAIN snap /\ snap[p].kind = "chromium"

\* The loop of isOwned: from a process to its parent until there is none.
Ancestor(snap, p) ==
  LET up[k \in 0..Cardinality(DOMAIN snap)] ==
        IF k = 0 THEN p
        ELSE IF up[k - 1] \in DOMAIN snap \ {0} THEN snap[up[k - 1]].ppid ELSE 0
  IN  up

Owned(snap, p) ==
  \E k \in DOMAIN Ancestor(snap, p) : Ancestor(snap, p)[k] = Controller

\* With a reused identifier the parents can form a circle beside the
\* controller; the loop does not end then.
Endless(snap) ==
  \E p \in DOMAIN snap :
    /\ ~Owned(snap, p)
    /\ Ancestor(snap, p)[Cardinality(DOMAIN snap)] \in DOMAIN snap \ {0}

Target(p) == p # Controller /\ TargetPid # 0 /\ p = TargetPid

\* Classify, for one process.
Role(snap, p) ==
  CASE p = Controller                                       -> "controller"
    [] Target(p)                                            -> "target"
    [] p # Controller /\ ~Target(p) /\ ~Owned(snap, p)      -> "unknown"
    [] OTHER ->
         LET parent == snap[p].ppid
             kind   == snap[p].kind
         IN  CASE kind = "chromium" /\ ~Chromium(snap, parent) -> "browser"
               [] kind = "chromium" /\ Chromium(snap, parent)  -> "renderer"
               [] kind # "chromium" /\ Chromium(snap, parent)  ->
                    IF kind = "other" THEN "utility" ELSE kind
               [] OTHER                                        -> "aux"

BrowserRoles == {"browser", "renderer", "utility", "gpu"}

\* What ownership is meant to say: the processes below p are those in every set
\* that has p and the children of its members ...
Descendants(snap, p) ==
  {q \in DOMAIN snap :
     \A S \in SUBSET (DOMAIN snap \cup {p}) :
       (p \in S /\ \A c \in DOMAIN snap : snap[c].ppid \in S => c \in S) => q \in S}

\* ... and the browsers of the benchmark are the chromium processes below the
\* controller, with their direct children.
BrowserTree(snap) ==
  {p \in Descendants(snap, Controller) \ {Controller, TargetPid} :
     Chromium(snap, p) \/ Chromium(snap, snap[p].ppid)}

\* The processes the benchmark owns: itself, its target and all below it.
BenchmarkTree(snap) ==
  (Descendants(snap, Controller) \cup {Controller, TargetPid}) \cap DOMAIN snap

-------------------------------------------------------------------------------
(* Samples.                                                                *)

InRoles(snap, roles) == {p \in DOMAIN snap : Role(snap, p) \in roles}

RSS(snap, procs) == MapThenSumSet(LAMBDA p : snap[p].rss, procs)

\* Mutant: the children of a browser are summed with the browser and again
\* with the rest.
AggregateTwice(snap) ==
  LET browser == RSS(snap, InRoles(snap, BrowserRoles))
      aux     == RSS(snap, DOMAIN snap \ InRoles(snap, {"controller", "target", "browser"}))
      main    == RSS(snap, InRoles(snap, {"controller", "target"}))
  IN  [browser   |-> browser,
       benchmark |-> main + browser + aux,
       processes |-> Cardinality(DOMAIN snap),
       browsers  |-> Cardinality(InRoles(snap, BrowserRoles))]

\* Aggregate: controller, browser tree, target, and the default branch, into
\* which the processes of unknown role fall as well.
Aggregate(snap) ==
  LET browser == RSS(snap, InRoles(snap, BrowserRoles))
      main    == RSS(snap, InRoles(snap, {"controller", "target"}))
      aux     == RSS(snap, InRoles(snap, {"aux", "unknown"}))
  IN  [browser   |-> browser,
       benchmark |-> main + browser + aux,
       processes |-> Cardinality(DOMAIN snap),
       browsers  |-> Cardinality(InRoles(snap, BrowserRoles))]

-------------------------------------------------------------------------------
(* Statistics.                                                             *)

\* percentile: the index into the sorted values, ceil(p * n / 100) - 1.
PercentileIndex(p, n) ==
  LET rank == (p * n + 99) \div 100
      idx  == IF rank >= 1 THEN rank - 1 ELSE rank
  IN  IF idx >= n THEN n - 1 ELSE idx

\* The value at an index of the sorted values.
Sorted(vals, idx) ==
  CHOOSE v \in {vals[i] : i \in DOMAIN vals} :
    /\ Cardinality({i \in DOMAIN vals : vals[i] < v}) <= idx
    /\ Cardinality({i \in DOMAIN vals : vals[i] <= v}) > idx

SumOver(vals) == MapThenSumSet(LAMBDA i : vals[i], DOMAIN vals)

NoStats == [mean |-> 0, p50 |-> 0, p95 |-> 0, peak |-> 0]

Stats(vals) ==
  IF vals = <<>> THEN NoStats
  ELSE LET n == Len(vals)
       IN  [mean |-> SumOver(vals) \div n,
            p50  |-> Sorted(vals, PercentileIndex(50, n)),
            p95  |-> Sorted(vals, PercentileIndex(95, n)),
            peak |-> Sorted(vals, n - 1)]

\* Delta: the mean of the samples after the first, above the baseline.
Delta(totals, base) ==
  LET later == {i \in 2..Len(totals) : totals[i] > 0}
      mean  == MapThenSumSet(LAMBDA i : totals[i], later) \div Cardinality(later)
  IN  IF later = {} \/ mean <= base THEN 0 ELSE mean - base

-------------------------------------------------------------------------------
(* Saturation.                                                             *)

\* Evaluate: the run's p95 is more than twice the baseline's, an average over
\* reps runs whose sum is baseSum; without a baseline the ratio is not asked.
\* The other clauses (CPU and failure rate at a limit, p99 over three times the
\* baseline's) are data of their own that say yes or no whatever the p95: hot.
Saturated(run, baseSum, reps) ==
  \/ run.hot
  \/ baseSum > 0 /\ run.p95 * reps > 2 * baseSum
===============================================================================
