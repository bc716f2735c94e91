--------------------------------- MODULE Sweep ---------------------------------
(***************************************************************************)
(* cmdSweep (cmd/bench/commands.go): the matrix of scenarios, concurrency   *)
(* levels and repetitions, one run after the other. The lowest level is the *)
(* baseline of its scenario; a level is entered only while the peak memory  *)
(* of the one before is below a ceiling; the rows of the evaluation are     *)
(* written at the end, and a table of all runs that takes its verdicts from *)
(* them. A run is Telemetry's.                                              *)
(***************************************************************************)
EXTENDS Telemetry

CONSTANTS
  Levels,   \* the concurrency levels, in the order given; 0 for a text that is
            \* no number, for which Atoi returns 0 beside its error
  Plans,    \* the sweeps asked for: how many scenarios, levels and repetitions
  Ceiling   \* --max-rss-gb, in the unit of RAM; 0 for none

\* The command line may repeat a level; the sweeps considered do not, and have at
\* most one text that is no number. With no repetition at all the averaging of
\* the baseline divides by zero.
ASSUME SweepAssumption ==
  /\ Levels \in Seq(Nat)
  /\ \A i, j \in 1..Len(Levels) : Levels[i] = Levels[j] => i = j
  /\ Plans \subseteq [scenarios : Nat \ {0}, levels : 1..Len(Levels), reps : Nat \ {0}]
  /\ Ceiling \in Nat

VARIABLES
  plan,      \* the sweep asked for
  cell,      \* the loop variables: scenario, index of the level, repetition
  baseSum,   \* baseAcc: the sum of the baseline runs' p95
  prevPeak,  \* prevPeakRAM
  levelPeak, \* levelPeak
  rows,      \* sweepRec
  raw,       \* results/raw: the runs with a summary, and whether they have a
             \* resource summary
  sweep,     \* "cells", "json", "summaries", "done", "error"
  csv,       \* scaling-summary.csv
  shown,     \* history: what the system CSVs of this level show
  before     \* history: what those of the level before show

loopVars    == <<cell, baseSum, prevPeak, levelPeak, shown, before>>
outputVars  == <<rows, raw, sweep, csv>>
sweepVars   == <<plan, loopVars, outputVars>>
vars        == <<runVars, faults, sweepVars>>

Last == plan.levels

\* The fields of a row the properties tell apart.
Row(s, level, rep, kind, sat) ==
  [scen |-> s, level |-> level, rep |-> rep, kind |-> kind, sat |-> sat]

Init ==
  /\ plan \in Plans
  /\ cell = [scen |-> 1, lvl |-> 1, rep |-> 1]
  /\ baseSum = 0 /\ prevPeak = 0 /\ levelPeak = 0
  /\ rows = <<>> /\ raw = {} /\ sweep = "cells" /\ csv = {}
  /\ shown = {} /\ before = {}
  /\ faults = 0
  /\ Fresh

-------------------------------------------------------------------------------
(* The loops.                                                              *)

\* The check before the first repetition of a level. Only the levels after the
\* baseline are checked, and the first of them against a peak of 0.
CeilingReached ==
  /\ cell.lvl > 1 /\ cell.rep = 1
  /\ Ceiling > 0 /\ prevPeak > 0 /\ prevPeak > Ceiling

IsNumber(l) == Levels[l] # 0

\* The level is looked at once, before anything of it runs. The error ends the
\* sweep, and what it has recorded is dropped.
BadLevel ==
  /\ sweep = "cells" /\ run = "none" /\ cell.rep = 1
  /\ ~IsNumber(cell.lvl)
  /\ sweep' = "error"
  /\ UNCHANGED <<plan, loopVars, rows, raw, csv, runVars, faults>>

\* runSweepCell: the controller sets up, takes its baseline and starts the
\* telemetry and the driver.
StartCell ==
  /\ sweep = "cells" /\ run = "none"
  /\ IsNumber(cell.lvl) /\ ~CeilingReached
  /\ StartTelemetry
  /\ UNCHANGED sweepVars

\* ... or the set-up fails.
SetUpFails ==
  /\ sweep = "cells" /\ run = "none"
  /\ IsNumber(cell.lvl) /\ ~CeilingReached
  /\ run' = "error"
  /\ Fails
  /\ UNCHANGED <<samplerVars, monitorVars, fileVars, sweepVars>>

\* The first error of a run is the sweep's; what it has recorded is dropped.
CellError ==
  /\ sweep = "cells" /\ run = "error"
  /\ sweep' = "error"
  /\ Clear
  /\ UNCHANGED <<plan, loopVars, rows, raw, csv, faults>>

\* Where the loops go from a scenario that is finished, the last of its levels
\* done or left out: the code breaks the loop over the levels alone, though its
\* message and the help of the flag speak of stopping the sweep.
NextScenario ==
  /\ IF cell.scen < plan.scenarios
     THEN cell' = [scen |-> cell.scen + 1, lvl |-> 1, rep |-> 1] /\ sweep' = sweep
     ELSE cell' = cell /\ sweep' = "json"
  /\ baseSum' = 0 /\ prevPeak' = 0 /\ levelPeak' = 0
  /\ shown' = {} /\ before' = {}

\* What the run's system_metrics.csv shows.
Shows(samples) == {samples[i] : i \in DOMAIN samples}

RunShows == IF "system" \in written THEN Shows(ram) ELSE {}

KeepRun ==
  raw' = raw \cup {[scen |-> cell.scen, level |-> Levels[cell.lvl], rep |-> cell.rep,
                    resource |-> "resource" \in written]}

\* A repetition that is not the last.
Repeats ==
  /\ cell.rep < plan.reps
  /\ cell' = [cell EXCEPT !.rep = @ + 1]
  /\ shown' = shown \cup RunShows
  /\ UNCHANGED <<prevPeak, before, sweep>>

\* Where the loops go from a level that is finished; peak becomes prevPeak and
\* sum the sum of the baseline.
LeaveLevel(peak, sum) ==
  /\ cell.rep = plan.reps
  /\ \/ /\ cell.lvl < Last
        /\ cell' = [cell EXCEPT !.lvl = @ + 1, !.rep = 1]
        /\ baseSum' = sum /\ prevPeak' = peak /\ levelPeak' = 0
        /\ before' = shown \cup RunShows /\ shown' = {}
        /\ sweep' = sweep
     \/ cell.lvl = Last /\ NextScenario

\* A run of the baseline level returns. The row of the baseline comes after the
\* last one. Its peak memory is not looked at: the levels above it begin with a
\* prevPeak of 0.
EndBaseline ==
  LET sum == baseSum + summary.p95
  IN  /\ sweep = "cells" /\ run = "ok" /\ cell.lvl = 1
      /\ \/ /\ Repeats
            /\ baseSum' = sum
            /\ UNCHANGED <<levelPeak, rows>>
         \/ /\ LeaveLevel(0, sum)
            /\ rows' = Append(rows, Row(cell.scen, Levels[1], 0, "baseline", FALSE))
      /\ KeepRun
      /\ Clear
      /\ UNCHANGED <<plan, csv, faults>>

\* Mutant: the peak of a level is the one of its last repetition.
EndRepetitionForgets ==
  LET sat == Saturated(summary, baseSum, plan.reps)
  IN  /\ sweep = "cells" /\ run = "ok" /\ cell.lvl > 1
      /\ \/ Repeats /\ levelPeak' = summary.peak /\ UNCHANGED baseSum
         \/ LeaveLevel(summary.peak, baseSum)
      /\ rows' = Append(rows, Row(cell.scen, Levels[cell.lvl], cell.rep, "run", sat))
      /\ KeepRun
      /\ Clear
      /\ UNCHANGED <<plan, csv, faults>>

\* A run of a higher level returns and is compared with the baseline.
EndRepetition ==
  LET peak == Larger(levelPeak, summary.peak)
      sat  == Saturated(summary, baseSum, plan.reps)
  IN  /\ sweep = "cells" /\ run = "ok" /\ cell.lvl > 1
      /\ \/ Repeats /\ levelPeak' = peak /\ UNCHANGED baseSum
         \/ LeaveLevel(peak, baseSum)
      /\ rows' = Append(rows, Row(cell.scen, Levels[cell.lvl], cell.rep, "run", sat))
      /\ KeepRun
      /\ Clear
      /\ UNCHANGED <<plan, csv, faults>>

NotRunRows(first) ==
  [i \in 1..(Last - first + 1) |-> Row(cell.scen, Levels[first + i - 1], 0, "notRun", FALSE)]

\* Mutant: the level at which the sweep stops gets no row.
StopAtCeilingShort ==
  /\ sweep = "cells" /\ run = "none"
  /\ IsNumber(cell.lvl) /\ CeilingReached
  /\ rows' = rows \o NotRunRows(cell.lvl + 1)
  /\ NextScenario
  /\ UNCHANGED <<plan, raw, csv, runVars, faults>>

\* The remaining levels of the scenario are marked, with a 0 for a text that is
\* no number, and the next scenario begins. (levelIdx finds the level by its
\* text, which is where it is if none repeats.)
StopAtCeiling ==
  /\ sweep = "cells" /\ run = "none"
  /\ IsNumber(cell.lvl) /\ CeilingReached
  /\ rows' = rows \o NotRunRows(cell.lvl)
  /\ NextScenario
  /\ UNCHANGED <<plan, raw, csv, runVars, faults>>

-------------------------------------------------------------------------------
(* The results of the sweep.                                               *)

WriteEvaluation ==
  /\ sweep = "json"
  /\ \/ sweep' = "summaries" /\ Calm
     \/ sweep' = "error" /\ Fails
  /\ UNCHANGED <<plan, loopVars, rows, raw, csv, runVars>>

\* Mutant: the verdicts are looked up by concurrency alone.
VerdictOfAny(s, level) ==
  LET mine == {i \in DOMAIN rows : rows[i].level = level}
  IN  mine # {} /\ rows[Max(mine)].sat

\* satMap: the last row of a scenario and level, FALSE without one.
Verdict(s, level) ==
  LET mine == {i \in DOMAIN rows : rows[i].scen = s /\ rows[i].level = level}
  IN  mine # {} /\ rows[Max(mine)].sat

\* scaleRows: one row for every run with both summaries.
ScalingTable ==
  {[scen |-> r.scen, level |-> r.level, rep |-> r.rep, sat |-> Verdict(r.scen, r.level)] :
   r \in {q \in raw : q.resource}}

\* writeSweepSummaries: the scaling table, then the one of the resources; an
\* error before or at the second leaves the first, or nothing.
WriteSummaries ==
  /\ sweep = "summaries"
  /\ \/ sweep' = "done" /\ csv' = ScalingTable /\ Calm
     \/ sweep' = "error" /\ csv' \in {csv, ScalingTable} /\ Fails
  /\ UNCHANGED <<plan, loopVars, rows, raw, runVars>>

-------------------------------------------------------------------------------
Finished ==
  /\ sweep \in {"done", "error"}
  /\ UNCHANGED vars

SweepStep ==
  \/ BadLevel
  \/ StartCell
  \/ SetUpFails
  \/ CellError
  \/ EndBaseline
  \/ EndRepetition
  \/ StopAtCeiling
  \/ WriteEvaluation
  \/ WriteSummaries

Next ==
  \/ SweepStep
  \/ RunStep /\ UNCHANGED sweepVars
  \/ Tick /\ UNCHANGED sweepVars
  \/ Finished

Spec == Init /\ [][Next]_vars

\* The sweep is one goroutine that waits for the driver, which ends (WorkersEnd
\* of ClosedLoop), and for the two samplers, whose loops see their cancelled
\* context. No tick is promised.
Fairness == WF_vars(SweepStep \/ (RunStep /\ UNCHANGED sweepVars))

FairSpec == Spec /\ Fairness

-------------------------------------------------------------------------------
(* The inductive invariant.                                                *)

Stages == {"none", "driving", "stopSampler", "stopMonitor", "writeRun", "writeCSVs",
           "writeSummary", "writeResource", "ok", "error"}

FileNames == {"system", "process", "summary", "resource"}

RowType == [scen : Nat, level : Nat, rep : Nat,
            kind : {"baseline", "run", "notRun"}, sat : BOOLEAN]

Scenarios == 1..plan.scenarios

\* base, series and resource are values of the operators of Accounting.
TypeOK ==
  /\ run \in Stages
  /\ sampler \in {"off", "on", "stopped"}
  /\ ram \in Seq(RAM) /\ peakRAM \in Nat /\ sysPeak \in Nat
  /\ monitor \in {"off", "seeding", "ticking", "stopped"}
  /\ cancelled \in BOOLEAN
  /\ summary \in [peak : Nat, p95 : Nat, hot : BOOLEAN]
  /\ written \subseteq FileNames
  /\ plan \in Plans
  /\ cell \in [scen : Scenarios, lvl : 1..Last, rep : 1..plan.reps]
  /\ baseSum \in Nat /\ prevPeak \in Nat /\ levelPeak \in Nat
  /\ rows \in Seq(RowType)
  /\ raw \subseteq [scen : Nat, level : Nat, rep : Nat, resource : BOOLEAN]
  /\ csv \subseteq [scen : Nat, level : Nat, rep : Nat, sat : BOOLEAN]
  /\ shown \subseteq RAM /\ before \subseteq RAM
  /\ sweep \in {"cells", "json", "summaries", "done", "error"}
  /\ faults \in 0..MaxFaults

\* p is the largest member of S, 0 if there is none.
LargestOf(p, S) ==
  \/ S = {} /\ p = 0
  \/ p \in S /\ \A v \in S : v <= p

\* Sampler and controller agree on where the run is.
StageInv ==
  /\ run = "none" => Fresh
  /\ run \in {"stopMonitor", "writeRun", "writeCSVs",
             "writeSummary", "writeResource", "ok"} => sampler = "stopped"
  /\ sweep # "cells" => run = "none"

\* The peaks belong to the samples, and reach the summary only by way of the file.
PeakInv ==
  /\ LargestOf(peakRAM, Shows(ram))
  /\ "system" \in written => sampler = "stopped"
  /\ run \notin {"writeSummary", "writeResource", "ok", "error"} => written = {}
  /\ sysPeak = IF "system" \in written THEN peakRAM ELSE 0
  /\ run \in {"writeResource", "ok"} => summary.peak = sysPeak

\* The peaks of the levels belong to the files of their runs, from the second
\* level on.
LevelInv ==
  /\ IF cell.lvl = 1 THEN levelPeak = 0 ELSE LargestOf(levelPeak, shown)
  /\ IF cell.lvl <= 2 THEN prevPeak = 0 ELSE LargestOf(prevPeak, before)

\* A level that was entered has passed the check.
EnteredInv ==
  (sweep = "cells" /\ (run # "none" \/ cell.rep > 1) /\ Ceiling > 0) => prevPeak <= Ceiling

LoopInv == TypeOK /\ StageInv /\ PeakInv /\ LevelInv /\ EnteredInv

\* The statistics are of all samples: the monitor has stopped before.
SeriesInv ==
  /\ run \in {"writeRun", "writeCSVs", "writeSummary", "writeResource", "ok"} =>
       monitor = "stopped"
  /\ run = "ok" => resource.rss = Stats(Totals)

RowsOf(s, l) == {i \in DOMAIN rows : rows[i].scen = s /\ rows[i].level = Levels[l]}

RunsOf(s, l) == {r \in raw : r.scen = s /\ r.level = Levels[l]}

\* What the evaluation must say of a level: the baseline has one row, after its
\* last repetition, the others one for each in their order, and the rest one that
\* it was left out.
BaselineRecorded(s) ==
  /\ \E i \in DOMAIN rows : RowsOf(s, 1) = {i} /\ rows[i].kind = "baseline"
  /\ {r.rep : r \in RunsOf(s, 1)} = 1..plan.reps

RepsRecorded(s, l, n) ==
  /\ \A i \in RowsOf(s, l) : rows[i].kind = "run"
  /\ \A i, j \in RowsOf(s, l) : i < j => rows[i].rep < rows[j].rep
  /\ {rows[i].rep : i \in RowsOf(s, l)} = 1..n
  /\ {r.rep : r \in RunsOf(s, l)} = 1..n

LevelRecorded(s, l) == RepsRecorded(s, l, plan.reps)

LevelSkipped(s, l) ==
  /\ \E i \in RowsOf(s, l) : RowsOf(s, l) = {i} /\ rows[i].kind = "notRun"
  /\ RunsOf(s, l) = {}

\* A scenario that is finished: the levels up to stop ran.
RanUpTo(s, stop) ==
  /\ BaselineRecorded(s)
  /\ \A l \in 2..(stop - 1) : LevelRecorded(s, l)
  /\ \A l \in stop..Last : LevelSkipped(s, l)

ScenarioDone(s) ==
  \E stop \in 2..(Last + 1) : RanUpTo(s, stop)

\* Nothing is recorded of a level.
Untouched(s, l) == RowsOf(s, l) = {} /\ RunsOf(s, l) = {}

\* The scenario the loops are in.
ScenarioUnderWay(s) ==
  /\ cell.lvl = 1 => /\ RowsOf(s, 1) = {}
                     /\ {r.rep : r \in RunsOf(s, 1)} = 1..(cell.rep - 1)
  /\ cell.lvl > 1 => BaselineRecorded(s)
  /\ \A l \in 2..Last :
       /\ l < cell.lvl => LevelRecorded(s, l)
       /\ l = cell.lvl => RepsRecorded(s, l, cell.rep - 1)
       /\ l > cell.lvl => Untouched(s, l)

\* Every row is of a cell of the matrix.
RowsPlaced ==
  \A i \in DOMAIN rows :
    rows[i].scen \in Scenarios /\ \E l \in 1..Last : rows[i].level = Levels[l]

\* The rows and the files follow the loops.
RowsInv ==
  /\ RowsPlaced
  /\ sweep = "cells" =>
       \A s \in Scenarios :
         /\ s < cell.scen => ScenarioDone(s)
         /\ s = cell.scen => ScenarioUnderWay(s)
         /\ s > cell.scen => \A l \in 1..Last : Untouched(s, l)
  /\ sweep \in {"json", "summaries", "done"} => \A s \in Scenarios : ScenarioDone(s)

\* Every run is of a cell of the matrix, and the table has runs of scenarios that
\* are finished, with the verdicts of the rows.
VerdictInv ==
  /\ \A q \in raw : q.scen \in Scenarios /\ \E l \in 1..Last : q.level = Levels[l]
  /\ csv # {} => /\ sweep \in {"done", "error"}
                 /\ \A s \in Scenarios : ScenarioDone(s)
  /\ \A r \in csv : /\ \E q \in raw : q.scen = r.scen /\ q.level = r.level
                    /\ r.sat = Verdict(r.scen, r.level)

IInv == LoopInv /\ SeriesInv /\ RowsInv /\ VerdictInv

-------------------------------------------------------------------------------
(* Properties.                                                             *)

\* No run of a level from the third on while a system_metrics.csv of the level
\* before shows more memory than the ceiling, whichever repetition it is of:
\* the peak goes through the sampler, the aggregates, the summary and the
\* maximum over the repetitions before it is compared (commands.go:202-232).
\* A CSV that could not be written shows nothing. That the second level is not
\* checked is the subject of CeilingChecksEveryLevel.
SafetyCeiling ==
  (run # "none" /\ Ceiling > 0 /\ cell.lvl > 2) => \A v \in before : v <= Ceiling

\* A cell of the matrix is accounted for.
Accounted(s, l) ==
  \/ LevelSkipped(s, l)
  \/ IF l = 1 THEN BaselineRecorded(s) ELSE LevelRecorded(s, l)

\* A sweep that is evaluated accounts for every cell of its matrix: each level
\* of each scenario either ran with all its repetitions, in their order and all
\* on disk, or has one row that says it did not and nothing on disk; and after
\* a level left out, none of its scenario ran (commands.go:184-258). It is open
\* here which are left out: see CeilingChecksEveryLevel and CeilingStopsSweep.
RowsComplete ==
  sweep \in {"summaries", "done"} =>
    \A s \in Scenarios : \A l \in 1..Last :
      /\ Accounted(s, l)
      /\ LevelSkipped(s, l) => \A m \in l..Last : LevelSkipped(s, m)

\* The table of runs never takes a verdict from another level, another scenario
\* or a level that was left out: what it says of a run, the evaluation says of
\* the baseline or of the last repetition of the run's own scenario and level
\* (commands.go:293-297, 334), and so, with one repetition, of the run itself.
\* Of the other repetitions see TablesAgree.
VerdictsAgree ==
  \A r \in csv : \E i \in DOMAIN rows :
    /\ rows[i].scen = r.scen /\ rows[i].level = r.level /\ rows[i].sat = r.sat
    /\ rows[i].kind = "baseline" \/ (rows[i].kind = "run" /\ rows[i].rep = plan.reps)

\* What there is to count in each table, without roles.
Counts ==
  {[table    |-> snap,
    browsers |-> BrowserTree(snap),
    owned    |-> BenchmarkTree(snap)] : snap \in Snapshots}

\* A sample counts each process of the table once, as browsers those of the
\* browser tree, and in the benchmark's memory at least what the benchmark owns
\* and nothing twice.
CountsOnce(sample, c) ==
  /\ sample.browser = RSS(c.table, c.browsers)
  /\ sample.browsers = Cardinality(c.browsers)
  /\ sample.processes = Cardinality(DOMAIN c.table)
  /\ RSS(c.table, c.owned) <= sample.benchmark
  /\ sample.benchmark <= RSS(c.table, DOMAIN c.table)

\* Every sample of the series is a process table counted once, whose browsers are
\* the chromium processes below the controller and their children; the
\* statistics of the series are ordered and their peak is the largest total
\* (accounting.go:41-132). What the total has beyond the benchmark's own
\* processes is the subject of TotalExcludesUnknown.
AccountedOnce ==
  run = "ok" =>
    /\ \A i \in DOMAIN series : \E c \in Counts : CountsOnce(series[i], c)
    /\ resource.rss.p50 <= resource.rss.p95 /\ resource.rss.p95 <= resource.rss.peak
    /\ LargestOf(resource.rss.peak, {Totals[i] : i \in DOMAIN series})
    /\ resource.rss.mean <= resource.rss.peak

\* A sweep ends, with its table or with an error, whatever fails and however the
\* samplers tick while they are stopped.
SweepEnds == <>(sweep \in {"done", "error"})

-------------------------------------------------------------------------------
(* What the repository says of the sweep and the code does not do.         *)

\* "before escalating to a higher concurrency, inspect the previous level's peak
\* memory" (commands.go:202-205): no level above the first runs while a CSV of
\* the one before shows more than the ceiling.
CeilingChecksEveryLevel ==
  (run # "none" /\ Ceiling > 0 /\ cell.lvl > 1) => \A v \in before : v <= Ceiling

\* "If it exceeds the configured ceiling, stop the sweep" (commands.go:204, 207):
\* nothing runs any more after a level that was left out.
CeilingStopsSweep ==
  run # "none" => \A i \in DOMAIN rows : rows[i].kind # "notRun"

\* "so the CSV and the sweep JSON agree" (commands.go:285-286): what the table
\* says of a run is what the evaluation says of it.
TablesAgree ==
  \A r \in csv : \A i \in DOMAIN rows :
    (/\ rows[i].kind = "run" /\ rows[i].rep = r.rep
     /\ rows[i].scen = r.scen /\ rows[i].level = r.level) => rows[i].sat = r.sat

\* "Benchmark total = all benchmark-owned roles (excludes unknown)"
\* (accounting_test.go:30): the total is the memory of the processes the
\* benchmark owns.
TotalExcludesUnknown ==
  run = "ok" => \A i \in DOMAIN series : \E c \in Counts :
    CountsOnce(series[i], c) /\ series[i].benchmark = RSS(c.table, c.owned)

\* Every sweep keeps one of the four promises throughout. A sweep that breaks
\* this has broken each of them.
SweepAsDocumented ==
  []CeilingChecksEveryLevel \/ []CeilingStopsSweep \/ []TablesAgree \/ []TotalExcludesUnknown
===============================================================================
