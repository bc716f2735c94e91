------------------------------ MODULE SweepProofs ------------------------------
(***************************************************************************)
(* Proofs about Sweep, for all levels, plans, ceilings, samples and process*)
(* tables: the inductive invariant IInv, part by part (the loops and their *)
(* peaks, the samples, the rows and files, the verdicts), and from it the  *)
(* promise of the ceiling, the accounting of the samples, the completeness *)
(* of the evaluation and the agreement of the two tables.                  *)
(***************************************************************************)
EXTENDS Sweep, AccountingProofs, SequenceTheorems

\* What TypeOK says of a level and a scenario.
LEMMA PlanTypes ==
  ASSUME TypeOK
  PROVE  /\ plan.scenarios \in Nat /\ plan.levels \in Nat /\ plan.reps \in Nat
         /\ plan.levels <= Len(Levels)
         /\ cell.scen \in 1..plan.scenarios
         /\ cell.lvl \in 1..plan.levels
         /\ cell.rep \in 1..plan.reps
         /\ \A l \in 1..plan.levels : Levels[l] \in Nat
<1> USE SweepAssumption DEF TypeOK, Scenarios, Last
<1>1. plan \in [scenarios : Nat \ {0}, levels : 1..Len(Levels), reps : Nat \ {0}]
  OBVIOUS
<1>2. Len(Levels) \in Nat /\ \A l \in 1..Len(Levels) : Levels[l] \in Nat
  OBVIOUS
<1> QED BY <1>1, <1>2

\* The running peak stays the largest sample.
LEMMA LargestAppend ==
  ASSUME NEW S \in SUBSET Nat, NEW p \in Nat, LargestOf(p, S), NEW v \in Nat, v > 0
  PROVE  LargestOf(Larger(p, v), S \cup {v})
BY DEF LargestOf, Larger

\* The peak of two sets of samples.
LEMMA LargestUnion ==
  ASSUME NEW S \in SUBSET Nat, NEW p \in Nat, LargestOf(p, S),
         NEW T \in SUBSET Nat, NEW q \in Nat, LargestOf(q, T)
  PROVE  LargestOf(Larger(p, q), S \cup T)
BY DEF LargestOf, Larger

\* What a run shows in the end is what its summary says.
LEMMA RunPeak ==
  ASSUME TypeOK, PeakInv, run = "ok"
  PROVE  /\ RunShows \in SUBSET RAM
         /\ summary.peak \in Nat
         /\ LargestOf(summary.peak, RunShows)
<1>1. RunShows \in SUBSET RAM
  BY DEF TypeOK, RunShows, Shows
<1>2. summary.peak \in Nat /\ summary.peak = sysPeak
  BY DEF TypeOK, PeakInv
<1>3. CASE "system" \in written
  BY <1>2, <1>3, <1>1 DEF PeakInv, RunShows
<1>4. CASE "system" \notin written
  BY <1>2, <1>4, <1>1 DEF PeakInv, RunShows, LargestOf
<1> QED BY <1>1, <1>2, <1>3, <1>4

\* Nothing runs, shows or is recorded at the start.
LEMMA InitLoopInv == Init => LoopInv
<1> SUFFICES ASSUME Init PROVE LoopInv
  OBVIOUS
<1> USE SweepAssumption, TelemetryAssumption DEF Init, Fresh
<1>1. TypeOK
  <2>1. plan \in [scenarios : Nat \ {0}, levels : 1..Len(Levels), reps : Nat \ {0}]
    OBVIOUS
  <2>2. 1 \in 1..plan.scenarios /\ 1 \in 1..plan.levels /\ 1 \in 1..plan.reps
    BY <2>1
  <2>3. cell \in [scen : Scenarios, lvl : 1..Last, rep : 1..plan.reps]
    BY <2>2 DEF Scenarios, Last
  <2>4. summary \in [peak : Nat, p95 : Nat, hot : BOOLEAN]
    BY DEF NoSummary
  <2>5. rows \in Seq(RowType) /\ ram \in Seq(RAM)
    OBVIOUS
  <2>6. faults \in 0..MaxFaults
    OBVIOUS
  <2>7. raw = {} /\ csv = {} /\ written = {} /\ shown = {} /\ before = {}
    OBVIOUS
  <2> QED BY <2>3, <2>4, <2>5, <2>6, <2>7 DEF TypeOK, Stages
<1>2. StageInv
  BY DEF StageInv
<1>3. PeakInv
  BY DEF PeakInv, LargestOf, Shows
<1>4. LevelInv
  BY DEF LevelInv
<1>5. EnteredInv
  BY DEF EnteredInv
<1> QED BY <1>1, <1>2, <1>3, <1>4, <1>5 DEF LoopInv

\* A fault is one more, or none.
LEMMA FaultType ==
  ASSUME TypeOK, Calm \/ Fails
  PROVE  faults' \in 0..MaxFaults
BY TelemetryAssumption DEF TypeOK, Calm, Fails

\* What a step of the run must keep when it leaves the sweep alone.
LEMMA RunStepFrame ==
  ASSUME LoopInv, UNCHANGED sweepVars, run # "none", run' # "none",
         run' \in Stages, sampler' \in {"off", "on", "stopped"},
         ram' \in Seq(RAM), peakRAM' \in Nat, sysPeak' \in Nat,
         monitor' \in {"off", "seeding", "ticking", "stopped"},
         cancelled' \in BOOLEAN, summary' \in [peak : Nat, p95 : Nat, hot : BOOLEAN],
         written' \subseteq FileNames, faults' \in 0..MaxFaults,
         run' \in {"stopMonitor", "writeRun", "writeCSVs",
                  "writeSummary", "writeResource", "ok"} => sampler' = "stopped",
         PeakInv'
  PROVE  LoopInv'
<1>1. sweep = "cells"
  BY DEF LoopInv, StageInv
<1>2. TypeOK'
  BY DEF LoopInv, TypeOK, sweepVars, loopVars, outputVars, Scenarios, Last
<1>3. StageInv'
  BY <1>1 DEF StageInv, sweepVars, outputVars
<1>4. LevelInv'
  BY DEF LoopInv, LevelInv, LargestOf, sweepVars, loopVars
<1>5. EnteredInv'
  BY <1>1 DEF LoopInv, EnteredInv, sweepVars, loopVars, outputVars
<1> QED BY <1>2, <1>3, <1>4, <1>5 DEF LoopInv

\* A sample of the system goes into the series and into the peak.
LEMMA StepSampleSystem ==
  ASSUME LoopInv, SampleSystem, UNCHANGED sweepVars
  PROVE  LoopInv'
<1> USE TelemetryAssumption
<1>1. PICK v \in RAM : ram' = Append(ram, v) /\ peakRAM' = Larger(peakRAM, v)
  BY DEF SampleSystem
<1>2. /\ sampler = "on" /\ sampler' = "on" /\ run' = run
      /\ UNCHANGED <<sysPeak, monitor, cancelled, summary, written, faults>>
  BY DEF SampleSystem, monitorVars, fileVars
<1>3. run # "none" /\ "system" \notin written
  BY <1>2 DEF LoopInv, StageInv, PeakInv, Fresh
<1>4. ram' \in Seq(RAM) /\ peakRAM' \in Nat
  BY <1>1 DEF LoopInv, TypeOK, Larger
<1>5. Shows(ram') = Shows(ram) \cup {v}
  <2>1. Len(ram) \in Nat /\ DOMAIN ram = 1..Len(ram)
    BY DEF LoopInv, TypeOK
  <2>2. /\ DOMAIN ram' = 1..(Len(ram) + 1)
        /\ \A i \in 1..Len(ram) : ram'[i] = ram[i]
        /\ ram'[Len(ram) + 1] = v
    BY <1>1 DEF LoopInv, TypeOK
  <2> QED BY <2>1, <2>2 DEF Shows
<1>6. Shows(ram) \subseteq Nat
  <2>1. \A i \in DOMAIN ram : ram[i] \in RAM
    BY DEF LoopInv, TypeOK
  <2> QED BY <2>1 DEF Shows
<1>7. LargestOf(peakRAM', Shows(ram'))
  BY <1>1, <1>5, <1>6, LargestAppend DEF LoopInv, PeakInv, TypeOK
<1>8. PeakInv'
  BY <1>2, <1>3, <1>7 DEF LoopInv, PeakInv
<1> QED BY <1>2, <1>3, <1>4, <1>8, RunStepFrame DEF LoopInv, TypeOK, StageInv

\* The other steps of a run and its samplers.
LEMMA StepRun ==
  ASSUME LoopInv, RunStep \/ SampleNothing \/ SnapshotProcesses, UNCHANGED sweepVars
  PROVE  LoopInv'
<1> USE DEF samplerVars, monitorVars, fileVars, runVars
<1>1. TypeOK /\ StageInv /\ PeakInv
  BY DEF LoopInv
<1>2. CASE SampleNothing \/ SnapshotProcesses
  <2>1. /\ UNCHANGED <<run, samplerVars, monitor, fileVars, faults>>
        /\ sampler = "on" \/ monitor = "ticking"
    BY <1>2 DEF SampleNothing, SnapshotProcesses
  <2>2. run # "none"
    BY <1>1, <2>1 DEF StageInv, Fresh
  <2>3. PeakInv'
    BY <1>1, <2>1 DEF PeakInv, LargestOf, Shows
  <2> QED BY <1>1, <2>1, <2>2, <2>3, RunStepFrame DEF TypeOK, StageInv
<1>3. CASE SeedMonitor
  <2>1. /\ UNCHANGED <<run, samplerVars, fileVars>> /\ (Calm \/ Fails)
        /\ monitor = "seeding" /\ monitor' = "ticking"
    BY <1>3 DEF SeedMonitor
  <2>2. run # "none" /\ faults' \in 0..MaxFaults
    BY <1>1, <2>1, FaultType DEF StageInv, Fresh
  <2>3. PeakInv'
    BY <1>1, <2>1 DEF PeakInv, LargestOf, Shows
  <2> QED BY <1>1, <2>1, <2>2, <2>3, RunStepFrame DEF TypeOK, StageInv
<1>4. CASE DriverReturns
  <2>1. /\ run = "driving" /\ run' = "stopSampler" /\ (Calm \/ Fails)
        /\ UNCHANGED <<samplerVars, monitorVars, summary, written>>
        /\ cancelled' \in BOOLEAN
    BY <1>4 DEF DriverReturns
  <2>2. faults' \in 0..MaxFaults
    BY <1>1, <2>1, FaultType
  <2>3. PeakInv'
    BY <1>1, <2>1 DEF PeakInv, LargestOf, Shows
  <2> QED BY <1>1, <2>1, <2>2, <2>3, RunStepFrame DEF TypeOK, Stages
<1>5. CASE SamplerStops
  <2>1. /\ run = "stopSampler" /\ run' = "stopMonitor" /\ sampler' = "stopped"
        /\ UNCHANGED <<ram, peakRAM, sysPeak, monitorVars, fileVars, faults>>
    BY <1>5 DEF SamplerStops
  <2>2. PeakInv'
    BY <1>1, <2>1 DEF PeakInv, LargestOf, Shows
  <2> QED BY <1>1, <2>1, <2>2, RunStepFrame DEF TypeOK, Stages
<1>6. CASE MonitorStops
  <2>1. /\ run = "stopMonitor" /\ run' = "writeRun" /\ monitor' = "stopped"
        /\ UNCHANGED <<samplerVars, fileVars, faults>>
    BY <1>6 DEF MonitorStops
  <2>2. PeakInv'
    BY <1>1, <2>1 DEF PeakInv, LargestOf, Shows
  <2> QED BY <1>1, <2>1, <2>2, RunStepFrame DEF TypeOK, StageInv, Stages
<1>7. CASE WriteRun
  <2>1. /\ run = "writeRun" /\ run' \in {"writeCSVs", "error"} /\ (Calm \/ Fails)
        /\ UNCHANGED <<samplerVars, monitorVars, fileVars>>
    BY <1>7 DEF WriteRun
  <2>2. faults' \in 0..MaxFaults
    BY <1>1, <2>1, FaultType
  <2>3. PeakInv'
    BY <1>1, <2>1 DEF PeakInv, LargestOf, Shows
  <2> QED BY <1>1, <2>1, <2>2, <2>3, RunStepFrame DEF TypeOK, StageInv, Stages
<1>8. CASE WriteCSVs
  <2>1. /\ run = "writeCSVs" /\ run' = "writeSummary" /\ (Calm \/ Fails)
        /\ UNCHANGED <<sampler, ram, peakRAM, monitorVars, cancelled, summary>>
        /\ written' \subseteq {"system", "process"}
        /\ sysPeak' = IF "system" \in written' THEN peakRAM ELSE sysPeak
    BY <1>8 DEF WriteCSVs
  <2>2. faults' \in 0..MaxFaults
    BY <1>1, <2>1, FaultType
  <2>3. sysPeak' = IF "system" \in written' THEN peakRAM' ELSE 0
    BY <1>1, <2>1 DEF PeakInv
  <2>4. sampler' = "stopped"
    BY <1>1, <2>1 DEF StageInv
  <2>5. PeakInv'
    BY <1>1, <2>1, <2>3, <2>4 DEF PeakInv, LargestOf, Shows
  <2>6. sysPeak' \in Nat /\ written' \subseteq FileNames
    BY <1>1, <2>1, <2>3 DEF TypeOK, FileNames
  <2> QED BY <1>1, <2>1, <2>2, <2>4, <2>5, <2>6, RunStepFrame DEF TypeOK, Stages
<1>9. CASE WriteSummary
  <2>1. PICK o \in Outcomes :
          /\ run = "writeSummary" /\ run' \in {"writeResource", "error"}
          /\ summary' = [peak |-> sysPeak, p95 |-> o.p95, hot |-> o.hot]
          /\ written' \in {written, written \cup {"summary"}}
          /\ Calm \/ Fails
          /\ UNCHANGED <<samplerVars, monitorVars, cancelled>>
    BY <1>9 DEF WriteSummary
  <2>2. faults' \in 0..MaxFaults
    BY <1>1, <2>1, FaultType
  <2>3. sysPeak \in Nat /\ o.p95 \in Nat /\ o.hot \in BOOLEAN
    BY <1>1, TelemetryAssumption DEF TypeOK
  <2>4. summary' \in [peak : Nat, p95 : Nat, hot : BOOLEAN] /\ summary'.peak = sysPeak
    BY <2>1, <2>3
  <2>5. written' \subseteq FileNames /\ ("system" \in written' <=> "system" \in written)
    BY <1>1, <2>1 DEF TypeOK, FileNames
  <2>6. PeakInv'
    BY <1>1, <2>1, <2>4, <2>5 DEF PeakInv, LargestOf, Shows
  <2>7. sampler' = "stopped"
    BY <1>1, <2>1 DEF StageInv
  <2>8. run' \in Stages /\ run # "none" /\ run' # "none"
    BY <2>1 DEF Stages
  <2> QED BY <1>1, <2>1, <2>2, <2>4, <2>5, <2>6, <2>7, <2>8, RunStepFrame DEF TypeOK
<1>10. CASE WriteResource
  <2>1. /\ run = "writeResource" /\ run' \in {"error", "ok"} /\ (Calm \/ Fails)
        /\ UNCHANGED <<samplerVars, monitorVars, cancelled, summary>>
        /\ written' \in {written, written \cup {"resource"}}
    BY <1>10 DEF WriteResource
  <2>2. faults' \in 0..MaxFaults
    BY <1>1, <2>1, FaultType
  <2>3. written' \subseteq FileNames /\ ("system" \in written' <=> "system" \in written)
    BY <1>1, <2>1 DEF TypeOK, FileNames
  <2>4. PeakInv'
    BY <1>1, <2>1, <2>3 DEF PeakInv, LargestOf, Shows
  <2> QED BY <1>1, <2>1, <2>2, <2>3, <2>4, RunStepFrame DEF TypeOK, StageInv, Stages
<1> QED
  BY <1>2, <1>3, <1>4, <1>5, <1>6, <1>7, <1>8, <1>9, <1>10 DEF RunStep

\* A level that may be entered, or goes on, has passed the check.
LEMMA Checked ==
  ASSUME LoopInv, sweep = "cells", ~CeilingReached, Ceiling > 0
  PROVE  prevPeak <= Ceiling
<1>1. prevPeak \in Nat /\ cell.lvl \in Nat /\ cell.rep \in Nat /\ Ceiling \in Nat
      /\ cell.lvl >= 1 /\ cell.rep >= 1
  BY PlanTypes, SweepAssumption DEF LoopInv, TypeOK
<1>2. CASE cell.lvl = 1
  BY <1>1, <1>2 DEF LoopInv, LevelInv
<1>3. CASE cell.rep > 1
  BY <1>3 DEF LoopInv, EnteredInv
<1>4. CASE cell.lvl > 1 /\ cell.rep = 1
  BY <1>1, <1>4 DEF CeilingReached
<1> QED BY <1>1, <1>2, <1>3, <1>4

\* A fresh run satisfies all that is said of a run.
LEMMA ClearInv ==
  ASSUME Clear
  PROVE  /\ run' = "none" /\ Fresh' /\ PeakInv'
         /\ sampler' = "off" /\ monitor' = "off" /\ ram' \in Seq(RAM)
         /\ peakRAM' = 0 /\ sysPeak' = 0 /\ cancelled' = FALSE /\ written' = {}
         /\ summary' \in [peak : Nat, p95 : Nat, hot : BOOLEAN]
<1>1. Fresh' /\ run' = "none"
  BY DEF Clear, Fresh
<1>2. Shows(ram') = {} /\ ram' \in Seq(RAM)
  BY DEF Clear, Shows
<1>3. PeakInv'
  BY <1>2 DEF Clear, PeakInv, LargestOf
<1>4. summary' \in [peak : Nat, p95 : Nat, hot : BOOLEAN]
  BY DEF Clear, NoSummary
<1> QED BY <1>1, <1>2, <1>3, <1>4 DEF Clear

\* What a step of the loops must keep when no run is left behind.
LEMMA LoopStepFrame ==
  ASSUME LoopInv, plan' = plan, run' = "none", Fresh', PeakInv',
         sampler' = "off", monitor' = "off", ram' \in Seq(RAM),
         peakRAM' = 0, sysPeak' = 0, cancelled' = FALSE, written' = {},
         summary' \in [peak : Nat, p95 : Nat, hot : BOOLEAN],
         cell' \in [scen : Scenarios, lvl : 1..Last, rep : 1..plan.reps],
         baseSum' \in Nat, prevPeak' \in Nat, levelPeak' \in Nat,
         rows' \in Seq(RowType),
         raw' \subseteq [scen : Nat, level : Nat, rep : Nat, resource : BOOLEAN],
         csv' \subseteq [scen : Nat, level : Nat, rep : Nat, sat : BOOLEAN],
         shown' \subseteq RAM, before' \subseteq RAM,
         sweep' \in {"cells", "json", "summaries", "done", "error"},
         faults' \in 0..MaxFaults,
         LevelInv',
         (sweep' = "cells" /\ cell'.rep > 1 /\ Ceiling > 0) => prevPeak' <= Ceiling
  PROVE  LoopInv'
<1>1. TypeOK'
  <2>1. cell' \in [scen : Scenarios, lvl : 1..Last, rep : 1..plan.reps]'
    BY DEF Scenarios, Last
  <2>2. plan' \in Plans
    BY DEF LoopInv, TypeOK
  <2> QED BY <2>1, <2>2 DEF TypeOK, Stages, FileNames
<1>2. StageInv'
  BY DEF StageInv
<1>3. EnteredInv'
  BY DEF EnteredInv
<1> QED BY <1>1, <1>2, <1>3 DEF LoopInv

\* A scenario begins with no peak and nothing shown.
LEMMA NextScenarioInv ==
  ASSUME LoopInv, NextScenario, sweep = "cells", plan' = plan
  PROVE  /\ cell' \in [scen : Scenarios, lvl : 1..Last, rep : 1..plan.reps]
         /\ baseSum' = 0 /\ prevPeak' = 0 /\ levelPeak' = 0
         /\ shown' = {} /\ before' = {}
         /\ sweep' \in {"cells", "json"}
         /\ LevelInv'
<1>1. /\ plan.scenarios \in Nat /\ plan.levels \in Nat /\ plan.reps \in Nat
      /\ cell.scen \in 1..plan.scenarios
      /\ cell.lvl \in 1..plan.levels
      /\ cell.rep \in 1..plan.reps
  BY PlanTypes DEF LoopInv
<1>2. CASE cell.scen < plan.scenarios
  <2>1. cell' = [scen |-> cell.scen + 1, lvl |-> 1, rep |-> 1] /\ sweep' = "cells"
    BY <1>2 DEF NextScenario
  <2>2. cell.scen + 1 \in 1..plan.scenarios /\ 1 \in 1..plan.levels /\ 1 \in 1..plan.reps
    BY <1>1, <1>2
  <2>3. cell' \in [scen : Scenarios, lvl : 1..Last, rep : 1..plan.reps]
    BY <2>1, <2>2 DEF Scenarios, Last
  <2>4. LevelInv'
    BY <2>1 DEF LevelInv, NextScenario
  <2> QED BY <2>1, <2>3, <2>4 DEF NextScenario
<1>3. CASE ~(cell.scen < plan.scenarios)
  <2>1. cell' = cell /\ sweep' = "json"
    BY <1>3 DEF NextScenario
  <2>2. cell' \in [scen : Scenarios, lvl : 1..Last, rep : 1..plan.reps]
    BY <2>1 DEF LoopInv, TypeOK
  <2>3. LevelInv'
    BY DEF LevelInv, NextScenario, LargestOf
  <2> QED BY <2>1, <2>2, <2>3 DEF NextScenario
<1> QED BY <1>2, <1>3

\* The run that returned is kept.
LEMMA KeptRun ==
  ASSUME LoopInv, KeepRun
  PROVE  raw' \subseteq [scen : Nat, level : Nat, rep : Nat, resource : BOOLEAN]
<1>1. /\ cell.scen \in Nat /\ Levels[cell.lvl] \in Nat /\ cell.rep \in Nat
      /\ ("resource" \in written) \in BOOLEAN
  BY PlanTypes DEF LoopInv
<1>2. raw \subseteq [scen : Nat, level : Nat, rep : Nat, resource : BOOLEAN]
  BY DEF LoopInv, TypeOK
<1>3. \E b \in BOOLEAN : raw' = raw \cup {[scen |-> cell.scen, level |-> Levels[cell.lvl],
                                          rep |-> cell.rep, resource |-> b]}
  BY <1>1, Zenon DEF KeepRun
<1> QED BY <1>1, <1>2, <1>3

\* A row of a scenario, a level and a repetition.
LEMMA RowTyped ==
  ASSUME NEW s \in Nat, NEW level \in Nat, NEW rep \in Nat,
         NEW kind \in {"baseline", "run", "notRun"}, NEW sat \in BOOLEAN
  PROVE  Row(s, level, rep, kind, sat) \in RowType
BY DEF Row, RowType

\* The numbers of a plan and the place of the loops in it.
LEMMA CellTypes ==
  ASSUME TypeOK
  PROVE  /\ plan.scenarios \in Nat /\ plan.levels \in Nat /\ plan.reps \in Nat
         /\ plan.levels >= 1 /\ plan.reps >= 1
         /\ cell \in [scen : Scenarios, lvl : 1..Last, rep : 1..plan.reps]
         /\ cell.scen \in Nat /\ cell.lvl \in 1..plan.levels /\ cell.rep \in 1..plan.reps
<1>1. /\ plan.scenarios \in Nat /\ plan.levels \in Nat /\ plan.reps \in Nat
      /\ cell.scen \in 1..plan.scenarios
      /\ cell.lvl \in 1..plan.levels
      /\ cell.rep \in 1..plan.reps
  BY PlanTypes
<1>2. cell \in [scen : Scenarios, lvl : 1..Last, rep : 1..plan.reps]
  BY DEF TypeOK
<1>3. plan.levels >= 1 /\ plan.reps >= 1 /\ cell.scen \in Nat
  BY <1>1
<1> QED BY <1>1, <1>2, <1>3

\* The level of the baseline.
LEMMA FirstLevel ==
  ASSUME TypeOK
  PROVE  Levels[1] \in Nat
<1>1. 1 \in 1..plan.levels
  BY CellTypes
<1> QED BY <1>1, PlanTypes

\* A run of the baseline level returns; what it shows is not looked at.
LEMMA StepEndBaseline ==
  ASSUME LoopInv, EndBaseline
  PROVE  LoopInv'
<1> DEFINE row == Row(cell.scen, Levels[1], 0, "baseline", FALSE)
<1>1. /\ plan.scenarios \in Nat /\ plan.levels \in Nat /\ plan.reps \in Nat
      /\ plan.levels >= 1 /\ plan.reps >= 1
      /\ cell \in [scen : Scenarios, lvl : 1..Last, rep : 1..plan.reps]
      /\ cell.scen \in Nat /\ cell.lvl \in 1..plan.levels /\ cell.rep \in 1..plan.reps
      /\ Levels[1] \in Nat
  BY CellTypes, FirstLevel DEF LoopInv
<1>2. /\ sweep = "cells" /\ run = "ok" /\ cell.lvl = 1 /\ KeepRun /\ Clear
      /\ plan' = plan /\ csv' = csv /\ faults' = faults
  BY DEF EndBaseline
<1>3. baseSum + summary.p95 \in Nat /\ rows \in Seq(RowType) /\ faults \in 0..MaxFaults
      /\ csv \subseteq [scen : Nat, level : Nat, rep : Nat, sat : BOOLEAN]
      /\ shown \subseteq RAM /\ before \subseteq RAM
  BY DEF LoopInv, TypeOK
<1>4. RunShows \subseteq RAM
  BY <1>2, RunPeak DEF LoopInv
<1>5. raw' \subseteq [scen : Nat, level : Nat, rep : Nat, resource : BOOLEAN]
  BY <1>2, KeptRun
<1>6. row \in RowType
  BY <1>1, RowTyped
<1>7. levelPeak = 0 /\ prevPeak = 0
  BY <1>2 DEF LoopInv, LevelInv
<1>11. Ceiling > 0 => 0 <= Ceiling
  BY SweepAssumption
<1> HIDE DEF row
<1>8. CASE Repeats /\ baseSum' = baseSum + summary.p95 /\ UNCHANGED <<levelPeak, rows>>
  <2>1. /\ cell' = [cell EXCEPT !.rep = @ + 1] /\ shown' = shown \cup RunShows
        /\ UNCHANGED <<prevPeak, before, sweep>> /\ cell.rep < plan.reps
    BY <1>8 DEF Repeats
  <2>2. /\ cell' \in [scen : Scenarios, lvl : 1..Last, rep : 1..plan.reps]
        /\ cell'.lvl = 1
    BY <1>1, <1>2, <2>1
  <2>3. LevelInv'
    BY <1>7, <1>8, <2>1, <2>2 DEF LevelInv
  <2> QED BY <1>2, <1>3, <1>4, <1>5, <1>7, <1>8, <1>11, <2>1, <2>2, <2>3, ClearInv, LoopStepFrame
<1>9. CASE /\ cell.lvl < Last
           /\ cell' = [cell EXCEPT !.lvl = @ + 1, !.rep = 1]
           /\ baseSum' = baseSum + summary.p95
           /\ prevPeak' = 0 /\ levelPeak' = 0
           /\ before' = shown \cup RunShows /\ shown' = {}
           /\ sweep' = sweep
           /\ rows' = Append(rows, row)
  <2>1. 2 \in 1..Last /\ 1 \in 1..plan.reps /\ cell.lvl + 1 = 2
    BY <1>1, <1>2, <1>9 DEF Last
  <2>2. /\ cell' \in [scen : Scenarios, lvl : 1..Last, rep : 1..plan.reps]
        /\ cell'.lvl = 2 /\ cell'.rep = 1
    BY <1>1, <1>9, <2>1
  <2>3. LevelInv'
    BY <1>9, <2>2 DEF LevelInv, LargestOf
  <2>4. rows' \in Seq(RowType)
    BY <1>3, <1>6, <1>9
  <2> QED BY <1>2, <1>3, <1>4, <1>5, <1>9, <1>11, <2>2, <2>3, <2>4, ClearInv, LoopStepFrame
<1>10. CASE NextScenario /\ rows' = Append(rows, row)
  <2>1. rows' \in Seq(RowType)
    BY <1>3, <1>6, <1>10
  <2> QED BY <1>2, <1>3, <1>5, <1>10, <1>11, <2>1, NextScenarioInv, ClearInv, LoopStepFrame
<1> QED BY <1>8, <1>9, <1>10 DEF EndBaseline, LeaveLevel, row

\* A run of a higher level returns; its peak is in that of the level.
LEMMA StepEndRepetition ==
  ASSUME LoopInv, EndRepetition
  PROVE  LoopInv'
<1> DEFINE peak == Larger(levelPeak, summary.peak)
           sat  == Saturated(summary, baseSum, plan.reps)
           row  == Row(cell.scen, Levels[cell.lvl], cell.rep, "run", sat)
<1>1. /\ plan.scenarios \in Nat /\ plan.levels \in Nat /\ plan.reps \in Nat
      /\ plan.levels >= 1 /\ plan.reps >= 1
      /\ cell \in [scen : Scenarios, lvl : 1..Last, rep : 1..plan.reps]
      /\ cell.scen \in Nat /\ cell.lvl \in 1..plan.levels /\ cell.rep \in 1..plan.reps
      /\ Levels[cell.lvl] \in Nat
  BY CellTypes, PlanTypes DEF LoopInv
<1>2. /\ sweep = "cells" /\ run = "ok" /\ cell.lvl > 1 /\ KeepRun /\ Clear
      /\ plan' = plan /\ csv' = csv /\ faults' = faults
      /\ rows' = Append(rows, row)
  BY DEF EndRepetition
<1>3. /\ baseSum \in Nat /\ rows \in Seq(RowType) /\ faults \in 0..MaxFaults
      /\ csv \subseteq [scen : Nat, level : Nat, rep : Nat, sat : BOOLEAN]
      /\ shown \subseteq RAM /\ before \subseteq RAM
      /\ prevPeak \in Nat /\ levelPeak \in Nat
  BY DEF LoopInv, TypeOK
<1>4. /\ RunShows \subseteq RAM /\ summary.peak \in Nat
      /\ LargestOf(summary.peak, RunShows)
  BY <1>2, RunPeak DEF LoopInv
<1>5. raw' \subseteq [scen : Nat, level : Nat, rep : Nat, resource : BOOLEAN]
  BY <1>2, KeptRun
<1>6. sat \in BOOLEAN
  BY DEF Saturated, LoopInv, TypeOK
<1>7. peak \in Nat /\ LargestOf(peak, shown \cup RunShows)
  <2>1. LargestOf(levelPeak, shown)
    BY <1>1, <1>2 DEF LoopInv, LevelInv
  <2>2. shown \in SUBSET Nat /\ RunShows \in SUBSET Nat
    BY <1>3, <1>4, TelemetryAssumption
  <2> QED BY <1>3, <1>4, <2>1, <2>2, LargestUnion DEF Larger
<1> HIDE DEF sat
<1>8. row \in RowType
  BY <1>1, <1>6, RowTyped
<1> HIDE DEF row, peak
<1>9. rows' \in Seq(RowType)
  BY <1>2, <1>3, <1>8
<1>10. CASE Repeats /\ levelPeak' = peak /\ UNCHANGED baseSum
  <2>1. /\ cell' = [cell EXCEPT !.rep = @ + 1] /\ shown' = shown \cup RunShows
        /\ UNCHANGED <<prevPeak, before, sweep>> /\ cell.rep < plan.reps
    BY <1>10 DEF Repeats
  <2>2. /\ cell' \in [scen : Scenarios, lvl : 1..Last, rep : 1..plan.reps]
        /\ cell'.lvl = cell.lvl
    <3>1. cell.rep + 1 \in 1..plan.reps
      BY <1>1, <2>1
    <3> QED BY <1>1, <2>1, <3>1
  <2>3. LevelInv'
    <3>1. LargestOf(levelPeak', shown')
      BY <1>7, <1>10, <2>1
    <3>2. IF cell.lvl <= 2 THEN prevPeak = 0 ELSE LargestOf(prevPeak, before)
      BY DEF LoopInv, LevelInv
    <3>3. IF cell'.lvl <= 2 THEN prevPeak' = 0 ELSE LargestOf(prevPeak', before')
      BY <3>2, <2>1, <2>2
    <3>4. cell'.lvl # 1
      BY <1>1, <1>2, <2>2
    <3> QED BY <3>1, <3>3, <3>4 DEF LevelInv
  <2>4. Ceiling > 0 => prevPeak' <= Ceiling
    BY <1>2, <2>1 DEF LoopInv, EnteredInv
  <2> QED BY <1>2, <1>3, <1>4, <1>5, <1>7, <1>9, <1>10, <2>1, <2>2, <2>3, <2>4,
            ClearInv, LoopStepFrame
<1>11. CASE /\ cell.lvl < Last
            /\ cell' = [cell EXCEPT !.lvl = @ + 1, !.rep = 1]
            /\ baseSum' = baseSum /\ prevPeak' = peak /\ levelPeak' = 0
            /\ before' = shown \cup RunShows /\ shown' = {}
            /\ sweep' = sweep
  <2>1. cell.lvl + 1 \in 1..Last /\ 1 \in 1..plan.reps /\ cell.lvl + 1 > 2
    BY <1>1, <1>2, <1>11 DEF Last
  <2>2. /\ cell' \in [scen : Scenarios, lvl : 1..Last, rep : 1..plan.reps]
        /\ cell'.lvl = cell.lvl + 1 /\ cell'.rep = 1
    BY <1>1, <1>11, <2>1
  <2>3. LevelInv'
    <3>1. LargestOf(levelPeak', shown') /\ LargestOf(prevPeak', before')
      <4>1. LargestOf(0, {})
        BY DEF LargestOf
      <4> QED BY <1>7, <1>11, <4>1
    <3>2. cell'.lvl # 1 /\ ~(cell'.lvl <= 2)
      BY <1>1, <2>1, <2>2
    <3> QED BY <3>1, <3>2 DEF LevelInv
  <2> QED BY <1>2, <1>3, <1>4, <1>5, <1>7, <1>9, <1>11, <2>2, <2>3, ClearInv, LoopStepFrame
<1>12. CASE NextScenario
  <2>1. csv' \subseteq [scen : Nat, level : Nat, rep : Nat, sat : BOOLEAN]
    BY <1>2, <1>3
  <2>2. prevPeak' <= Ceiling \/ ~(Ceiling > 0)
    BY <1>2, <1>12, NextScenarioInv, SweepAssumption
  <2> QED BY <1>2, <1>3, <1>5, <1>9, <1>12, <2>1, <2>2, NextScenarioInv, ClearInv, LoopStepFrame
<1> QED BY <1>10, <1>11, <1>12 DEF EndRepetition, LeaveLevel, peak

\* Steps of the sweep that leave no run running and change nothing of a run.
LEMMA IdleFrame ==
  ASSUME LoopInv, run = "none", UNCHANGED runVars
  PROVE  /\ run' = "none" /\ Fresh' /\ PeakInv'
         /\ sampler' = "off" /\ monitor' = "off" /\ ram' \in Seq(RAM)
         /\ peakRAM' = 0 /\ sysPeak' = 0 /\ cancelled' = FALSE /\ written' = {}
         /\ summary' \in [peak : Nat, p95 : Nat, hot : BOOLEAN]
<1>1. Fresh
  BY DEF LoopInv, StageInv
<1>2. Fresh'
  BY <1>1 DEF Fresh, runVars, samplerVars, monitorVars, fileVars
<1>3. Clear
  BY <1>2 DEF Fresh, Clear
<1> QED BY <1>3, ClearInv

\* The other steps of the loops.
LEMMA StepSweep ==
  ASSUME LoopInv, SweepStep
  PROVE  LoopInv'
<1> USE DEF loopVars, sweepVars
<1>1. /\ TypeOK /\ StageInv /\ PeakInv /\ LevelInv
      /\ Scenarios = 1..plan.scenarios /\ Last = plan.levels
  BY DEF LoopInv, Scenarios, Last
<1>2. CASE StartCell
  <2>1. /\ sweep = "cells" /\ run = "none" /\ ~CeilingReached
        /\ run' = "driving" /\ sampler' = "on" /\ monitor' = "seeding"
        /\ UNCHANGED <<ram, peakRAM, sysPeak, cancelled, summary, written>>
        /\ UNCHANGED sweepVars /\ (Calm \/ Fails)
    BY <1>2 DEF StartCell, StartTelemetry, fileVars
  <2>2. faults' \in 0..MaxFaults
    BY <1>1, <2>1, FaultType
  <2>3. Fresh
    BY <1>1, <2>1 DEF StageInv
  <2>4. TypeOK'
    BY <1>1, <2>1, <2>2 DEF TypeOK, Stages, Scenarios, Last, outputVars
  <2>5. StageInv'
    BY <2>1 DEF StageInv, outputVars
  <2>6. PeakInv'
    <3>1. Shows(ram') = {} /\ peakRAM' = 0
      BY <2>1, <2>3 DEF Shows, Fresh
    <3> QED BY <2>1, <2>3, <3>1 DEF PeakInv, LargestOf, Fresh
  <2>7. LevelInv'
    BY <1>1, <2>1 DEF LevelInv, LargestOf
  <2>8. EnteredInv'
    BY <2>1, Checked DEF EnteredInv
  <2> QED BY <2>4, <2>5, <2>6, <2>7, <2>8 DEF LoopInv
<1>3. CASE SetUpFails
  <2>1. /\ sweep = "cells" /\ run = "none" /\ ~CeilingReached
        /\ run' = "error" /\ Fails
        /\ UNCHANGED <<samplerVars, monitorVars, fileVars, sweepVars>>
    BY <1>3 DEF SetUpFails
  <2>2. faults' \in 0..MaxFaults
    BY <1>1, <2>1, FaultType
  <2>3. TypeOK'
    BY <1>1, <2>1, <2>2
       DEF TypeOK, Stages, Scenarios, Last, outputVars, samplerVars, monitorVars, fileVars
  <2>4. StageInv'
    BY <2>1 DEF StageInv, outputVars
  <2>5. PeakInv'
    BY <1>1, <2>1 DEF PeakInv, LargestOf, Shows, samplerVars, fileVars
  <2>6. LevelInv'
    BY <1>1, <2>1 DEF LevelInv, LargestOf
  <2>7. EnteredInv'
    BY <2>1, Checked DEF EnteredInv
  <2> QED BY <2>3, <2>4, <2>5, <2>6, <2>7 DEF LoopInv
<1>4. CASE CellError
  <2>1. /\ sweep = "cells" /\ run = "error" /\ sweep' = "error" /\ Clear
        /\ UNCHANGED <<plan, loopVars, rows, raw, csv, faults>>
    BY <1>4 DEF CellError
  <2>2. LevelInv'
    BY <1>1, <2>1 DEF LevelInv, LargestOf
  <2>3. Ceiling > 0 => prevPeak' <= Ceiling
    BY <2>1 DEF LoopInv, EnteredInv
  <2> QED BY <1>1, <2>1, <2>2, <2>3, ClearInv, LoopStepFrame DEF TypeOK
<1>5. CASE EndBaseline
  BY <1>5, StepEndBaseline
<1>6. CASE EndRepetition
  BY <1>6, StepEndRepetition
<1>7. CASE StopAtCeiling
  <2>1. /\ sweep = "cells" /\ run = "none" /\ NextScenario
        /\ rows' = rows \o NotRunRows(cell.lvl)
        /\ UNCHANGED <<plan, raw, csv, runVars, faults>>
    BY <1>7 DEF StopAtCeiling
  <2>2. NotRunRows(cell.lvl) \in Seq(RowType)
    <3>1. /\ plan.levels \in Nat /\ cell.lvl \in 1..plan.levels /\ cell.scen \in Nat
          /\ \A l \in 1..plan.levels : Levels[l] \in Nat
      BY <1>1, PlanTypes
    <3>2. Last - cell.lvl + 1 \in Nat
      BY <1>1, <3>1
    <3>3. ASSUME NEW i \in 1..(Last - cell.lvl + 1)
          PROVE  Row(cell.scen, Levels[cell.lvl + i - 1], 0, "notRun", FALSE) \in RowType
      <4>1. cell.lvl + i - 1 \in 1..plan.levels
        BY <1>1, <3>1
      <4> QED BY <3>1, <4>1, RowTyped
    <3>4. NotRunRows(cell.lvl) \in [1..(Last - cell.lvl + 1) -> RowType]
      BY <3>3 DEF NotRunRows
    <3> QED BY <3>2, <3>4, SeqDef
  <2>3. rows' \in Seq(RowType)
    BY <1>1, <2>1, <2>2 DEF TypeOK
  <2>4. /\ prevPeak' = 0 /\ levelPeak' = 0 /\ baseSum' = 0
        /\ shown' = {} /\ before' = {} /\ LevelInv' /\ sweep' \in {"cells", "json"}
        /\ cell' \in [scen : Scenarios, lvl : 1..Last, rep : 1..plan.reps]
    BY <2>1, NextScenarioInv
  <2>5. Ceiling > 0 => prevPeak' <= Ceiling
    BY <2>4, SweepAssumption
  <2> QED BY <1>1, <2>1, <2>3, <2>4, <2>5, IdleFrame, LoopStepFrame DEF TypeOK
<1>8. CASE WriteEvaluation
  <2>1. /\ sweep = "json" /\ sweep' \in {"summaries", "error"} /\ (Calm \/ Fails)
        /\ UNCHANGED <<plan, loopVars, rows, raw, csv, runVars>>
    BY <1>8 DEF WriteEvaluation
  <2>2. faults' \in 0..MaxFaults
    BY <1>1, <2>1, FaultType
  <2>3. LevelInv' /\ run = "none"
    BY <1>1, <2>1 DEF LevelInv, LargestOf, StageInv
  <2> QED BY <1>1, <2>1, <2>2, <2>3, IdleFrame, LoopStepFrame DEF TypeOK
<1>9. CASE WriteSummaries
  <2>1. /\ sweep = "summaries" /\ sweep' \in {"done", "error"} /\ (Calm \/ Fails)
        /\ UNCHANGED <<plan, loopVars, rows, raw, runVars>>
        /\ csv' \in {csv, ScalingTable}
    BY <1>9 DEF WriteSummaries
  <2>2. faults' \in 0..MaxFaults
    BY <1>1, <2>1, FaultType
  <2>3. LevelInv' /\ run = "none"
    BY <1>1, <2>1 DEF LevelInv, LargestOf, StageInv
  <2>4. csv' \subseteq [scen : Nat, level : Nat, rep : Nat, sat : BOOLEAN]
    <3>1. ASSUME NEW s, NEW l PROVE Verdict(s, l) \in BOOLEAN
      BY DEF Verdict
    <3>2. raw \subseteq [scen : Nat, level : Nat, rep : Nat, resource : BOOLEAN]
          /\ csv \subseteq [scen : Nat, level : Nat, rep : Nat, sat : BOOLEAN]
      BY <1>1 DEF TypeOK
    <3>3. ScalingTable \subseteq [scen : Nat, level : Nat, rep : Nat, sat : BOOLEAN]
      BY <3>1, <3>2 DEF ScalingTable
    <3> QED BY <2>1, <3>2, <3>3
  <2> QED BY <1>1, <2>1, <2>2, <2>3, <2>4, IdleFrame, LoopStepFrame DEF TypeOK
<1>10. CASE BadLevel
  <2>1. /\ sweep = "cells" /\ run = "none" /\ sweep' = "error"
        /\ UNCHANGED <<plan, loopVars, rows, raw, csv, runVars, faults>>
    BY <1>10 DEF BadLevel
  <2>2. LevelInv'
    BY <1>1, <2>1 DEF LevelInv, LargestOf
  <2> QED BY <1>1, <2>1, <2>2, IdleFrame, LoopStepFrame DEF TypeOK
<1> QED BY <1>2, <1>3, <1>4, <1>5, <1>6, <1>7, <1>8, <1>9, <1>10 DEF SweepStep

\* Every step keeps the loops, the peaks and the stages in agreement.
LEMMA NextLoopInv == LoopInv /\ [Next]_vars => LoopInv'
<1> SUFFICES ASSUME LoopInv, [Next]_vars PROVE LoopInv'
  OBVIOUS
<1>1. CASE SweepStep
  BY <1>1, StepSweep
<1>2. CASE RunStep /\ UNCHANGED sweepVars
  BY <1>2, StepRun
<1>3. CASE Tick /\ UNCHANGED sweepVars
  BY <1>3, StepRun, StepSampleSystem DEF Tick
<1>4. CASE UNCHANGED vars
  <2> USE <1>4 DEF vars, runVars, samplerVars, monitorVars, fileVars, sweepVars, loopVars, outputVars
  <2>1. TypeOK'
    BY DEF LoopInv, TypeOK, Scenarios, Last
  <2>2. StageInv'
    BY DEF LoopInv, StageInv, Fresh
  <2>3. PeakInv'
    BY DEF LoopInv, PeakInv, LargestOf, Shows
  <2>4. LevelInv'
    BY DEF LoopInv, LevelInv, LargestOf
  <2>5. EnteredInv'
    BY DEF LoopInv, EnteredInv
  <2> QED BY <2>1, <2>2, <2>3, <2>4, <2>5 DEF LoopInv
<1> QED BY <1>1, <1>2, <1>3, <1>4 DEF Next, Finished

\* The invariant holds of every sweep: the peaks of sampler, summary and loops
\* are those of the files, and a level that is entered has passed the check.
LEMMA LoopInvariance == Spec => []LoopInv
BY InitLoopInv, NextLoopInv, PTL DEF Spec

\* No level from the third on is entered while a file of the level before shows
\* more memory than the ceiling.
THEOREM CeilingHolds == Spec => []SafetyCeiling
<1>1. LoopInv => SafetyCeiling
  <2> SUFFICES ASSUME LoopInv, run # "none", Ceiling > 0, cell.lvl > 2, NEW v \in before
               PROVE  v <= Ceiling
    BY DEF SafetyCeiling
  <2>1. prevPeak <= Ceiling
    BY DEF LoopInv, StageInv, EnteredInv
  <2>2. prevPeak \in Nat /\ Ceiling \in Nat /\ before \subseteq Nat /\ cell.lvl \in Nat
    BY PlanTypes, SweepAssumption, TelemetryAssumption DEF LoopInv, TypeOK
  <2>3. v <= prevPeak
    BY <2>2 DEF LoopInv, LevelInv, LargestOf
  <2> QED BY <2>1, <2>2, <2>3
<1> QED BY <1>1, LoopInvariance, PTL

-------------------------------------------------------------------------------
(* The samples and their statistics.                                        *)

\* The steps, by what they leave alone.
LEMMA StepKinds ==
  ASSUME [Next]_vars
  PROVE  \/ UNCHANGED sweepVars
         \/ EndBaseline \/ EndRepetition \/ StopAtCeiling
         \/ /\ BadLevel \/ CellError \/ WriteEvaluation \/ WriteSummaries
            /\ UNCHANGED <<plan, loopVars, rows, raw>>
BY DEF Next, SweepStep, BadLevel, StartCell, SetUpFails, CellError, WriteEvaluation,
       WriteSummaries, Finished, vars

\* The samples are of process tables.
SeriesSampled == series \in Seq({Sampled[s] : s \in Snapshots})

\* Recording appends a sample; only a monitor that runs records.
LEMMA SeriesStep ==
  ASSUME SeriesSampled, SeriesInv, [Next]_vars
  PROVE  SeriesSampled' /\ SeriesInv'
<1> DEFINE Sam == {Sampled[s] : s \in Snapshots}
<1> USE DEF SeriesSampled, SeriesInv
<1>1. CASE UNCHANGED <<series, run, monitor, resource>>
  BY <1>1 DEF Totals
<1>2. CASE Clear
  BY <1>2 DEF Clear
<1>3. ASSUME NEW s \in Snapshots, Record(Sampled[s]), UNCHANGED run,
             monitor \in {"seeding", "ticking"}
      PROVE  SeriesSampled' /\ SeriesInv'
  <2>1. series' = Append(series, Sampled[s]) /\ Sampled[s] \in Sam
    BY <1>3 DEF Record
  <2> HIDE DEF Sam
  <2>2. series \in Seq(Sam)
    BY DEF Sam
  <2>3. series' \in Seq(Sam)
    BY <2>1, <2>2
  <2>4. run' \notin {"writeRun", "writeCSVs", "writeSummary", "writeResource", "ok"}
    BY <1>3
  <2> QED BY <2>3, <2>4 DEF Sam
<1>4. CASE SeedMonitor
  <2>1. CASE UNCHANGED <<base, series>>
    BY <1>4, <2>1 DEF SeedMonitor, fileVars
  <2>2. CASE \E s \in Snapshots : Record(Sampled[s])
    BY <1>3, <1>4, <2>2 DEF SeedMonitor
  <2> QED BY <1>4, <2>1, <2>2 DEF SeedMonitor
<1>5. CASE SnapshotProcesses
  BY <1>3, <1>5 DEF SnapshotProcesses
<1>6. CASE StartTelemetry \/ DriverReturns \/ SamplerStops \/ MonitorStops
  BY <1>6 DEF StartTelemetry, DriverReturns, SamplerStops, MonitorStops, monitorVars
<1>7. CASE WriteRun \/ WriteCSVs \/ WriteSummary
  BY <1>7 DEF WriteRun, WriteCSVs, WriteSummary, monitorVars
<1>8. CASE WriteResource
  <2>1. /\ series' = series /\ monitor' = monitor /\ run = "writeResource"
        /\ resource'.rss = Stats(Totals) /\ run' \in {"ok", "error"}
    BY <1>8 DEF WriteResource, monitorVars
  <2>2. Totals' = Totals
    BY <2>1 DEF Totals
  <2> QED BY <2>1, <2>2
<1>9. CASE SampleSystem \/ SampleNothing \/ UNCHANGED vars \/ StopAtCeiling
           \/ BadLevel \/ WriteEvaluation \/ WriteSummaries
  BY <1>1, <1>9 DEF SampleSystem, SampleNothing, vars, runVars, monitorVars, fileVars,
                    StopAtCeiling, BadLevel, WriteEvaluation, WriteSummaries
<1>10. CASE SetUpFails
  BY <1>10 DEF SetUpFails, monitorVars, fileVars
<1> QED
  BY <1>2, <1>4, <1>5, <1>6, <1>7, <1>8, <1>9, <1>10
     DEF Next, SweepStep, RunStep, Tick, Finished, StartCell, CellError, EndBaseline, EndRepetition

\* The samples and their statistics are what they are said to be.
LEMMA SeriesInvariance == Spec => [](SeriesSampled /\ SeriesInv)
<1>1. Init => SeriesSampled /\ SeriesInv
  BY DEF Init, Fresh, SeriesSampled, SeriesInv
<1> QED BY <1>1, SeriesStep, PTL DEF Spec

\* Every sample is of a process table in which each process is counted once and
\* none that the benchmark owns is left out, and the statistics of a run that
\* ends well are those of its samples: what the reports say of memory follows
\* from what the tables said (accounting.go:41-132).
THEOREM AccountsHold == Spec => []AccountedOnce
<1>1. SeriesSampled /\ SeriesInv => AccountedOnce
  <2> SUFFICES ASSUME SeriesSampled, SeriesInv, run = "ok" PROVE AccountedOnce
    BY DEF AccountedOnce
  <2>1. ASSUME NEW s \in Snapshots
        PROVE  /\ \E c \in Counts : CountsOnce(Sampled[s], c)
               /\ Sampled[s].benchmark \in Nat
    <3>1. IsTable(s) /\ ~Endless(s)
      BY SnapshotsAssumption
    <3>2. Sampled[s] = [browser   |-> RSS(s, BrowserTree(s)),
                        benchmark |-> RSS(s, DOMAIN s),
                        processes |-> Cardinality(DOMAIN s),
                        browsers  |-> Cardinality(BrowserTree(s))]
      BY <3>1, AggregateOnce, Zenon DEF Sampled
    <3>3. RSS(s, DOMAIN s) \in Nat
      BY <3>1, RSSType
    <3>4. RSS(s, BenchmarkTree(s)) <= RSS(s, DOMAIN s)
      <4>1. BenchmarkTree(s) \in SUBSET DOMAIN s
        BY DEF BenchmarkTree
      <4> QED BY <3>1, <4>1, PartRSS
    <3> DEFINE c == [table    |-> s,
                     browsers |-> BrowserTree(s),
                     owned    |-> BenchmarkTree(s)]
    <3>5. CountsOnce(Sampled[s], c)
      BY <3>2, <3>3, <3>4 DEF CountsOnce
    <3>6. c \in Counts
      BY DEF Counts
    <3> QED BY <3>2, <3>3, <3>5, <3>6
  <2>2. Len(series) \in Nat /\ DOMAIN series = 1..Len(series)
        /\ \A i \in DOMAIN series : \E s \in Snapshots : series[i] = Sampled[s]
    BY DEF SeriesSampled
  <2>3. \A i \in DOMAIN series : \E c \in Counts : CountsOnce(series[i], c)
    BY <2>1, <2>2
  <2>4. Totals \in [1..Len(series) -> Nat]
    BY <2>1, <2>2 DEF Totals
  <2>5. Values(Totals) = {Totals[i] : i \in DOMAIN series}
    BY DEF Values, Totals
  <2>6. resource.rss = Stats(Totals)
    BY DEF SeriesInv
  <2>7. Len(series) = 0 => Values(Totals) = {}
    BY <2>2, <2>5
  <2> HIDE DEF Totals
  <2>8. /\ resource.rss.p50 <= resource.rss.p95 /\ resource.rss.p95 <= resource.rss.peak
        /\ resource.rss.mean <= resource.rss.peak
        /\ LargestOf(resource.rss.peak, Values(Totals))
    BY <2>2, <2>4, <2>6, <2>7, StatsOrdered DEF LargestOf
  <2> QED BY <2>3, <2>5, <2>8 DEF AccountedOnce
<1> QED BY <1>1, SeriesInvariance, PTL

-------------------------------------------------------------------------------
(* The rows and the files.                                                  *)

\* No level is given twice.
LEMMA LevelsDiffer ==
  ASSUME TypeOK, NEW l \in 1..Last, NEW m \in 1..Last, Levels[l] = Levels[m]
  PROVE  l = m
<1>1. l \in 1..Len(Levels) /\ m \in 1..Len(Levels)
  BY PlanTypes, SweepAssumption DEF Last
<1> QED BY <1>1, SweepAssumption

\* The rows stay as they are.
KeepsRows == \A i \in DOMAIN rows : i \in DOMAIN rows' /\ rows'[i] = rows[i]

\* Nothing changes for a level of a scenario.
SameLevel(s, l) == RowsOf(s, l)' = RowsOf(s, l) /\ RunsOf(s, l)' = RunsOf(s, l)

\* One more row is one more row of its own level.
LEMMA AppendedRow ==
  ASSUME TypeOK, NEW row \in RowType, rows' = Append(rows, row),
         NEW l0 \in 1..Last, row.level = Levels[l0]
  PROVE  LET n == Len(rows) + 1
         IN  /\ n \notin DOMAIN rows /\ DOMAIN rows' = DOMAIN rows \cup {n}
             /\ KeepsRows /\ rows'[n] = row
             /\ \A s : \A l \in 1..Last :
                  RowsOf(s, l)' = IF s = row.scen /\ l = l0 THEN RowsOf(s, l) \cup {n}
                                                            ELSE RowsOf(s, l)
<1> DEFINE n == Len(rows) + 1
<1>1. rows \in Seq(RowType) /\ Len(rows) \in Nat /\ DOMAIN rows = 1..Len(rows)
  BY DEF TypeOK
<1>2. /\ n \notin DOMAIN rows /\ DOMAIN rows' = DOMAIN rows \cup {n}
      /\ KeepsRows /\ rows'[n] = row
  BY <1>1 DEF KeepsRows
<1> HIDE DEF n
<1>3. ASSUME NEW s, NEW l \in 1..Last
      PROVE  RowsOf(s, l)' = IF s = row.scen /\ l = l0 THEN RowsOf(s, l) \cup {n}
                                                       ELSE RowsOf(s, l)
  <2>1. row.level = Levels[l] <=> l = l0
    BY LevelsDiffer
  <2>2. \A i \in DOMAIN rows : rows'[i] = rows[i]
    BY <1>2 DEF KeepsRows
  <2> QED BY <1>2, <2>1, <2>2 DEF RowsOf
<1> QED BY <1>2, <1>3 DEF n

\* One more run on disk is one more of the level the loops are at.
LEMMA KeptRuns ==
  ASSUME TypeOK, KeepRun
  PROVE  /\ \A s : \A l \in 1..Last :
              s # cell.scen \/ l # cell.lvl => RunsOf(s, l)' = RunsOf(s, l)
         /\ \A s, l : s = cell.scen /\ l = cell.lvl =>
              {r.rep : r \in RunsOf(s, l)'} = {r.rep : r \in RunsOf(s, l)} \cup {cell.rep}
<1>1. PICK kept : /\ kept.scen = cell.scen /\ kept.level = Levels[cell.lvl]
                  /\ kept.rep = cell.rep /\ raw' = raw \cup {kept}
  BY DEF KeepRun
<1>2. ASSUME NEW s, NEW l \in 1..Last, s # cell.scen \/ l # cell.lvl
      PROVE  RunsOf(s, l)' = RunsOf(s, l)
  <2>1. cell.lvl \in 1..Last
    BY PlanTypes DEF Last
  <2>2. ~ (kept.scen = s /\ kept.level = Levels[l])
    BY <1>1, <1>2, <2>1, LevelsDiffer
  <2> QED BY <1>1, <2>2 DEF RunsOf
<1>3. ASSUME NEW s, NEW l, s = cell.scen, l = cell.lvl
      PROVE  {r.rep : r \in RunsOf(s, l)'} = {r.rep : r \in RunsOf(s, l)} \cup {cell.rep}
  <2>1. RunsOf(s, l)' = RunsOf(s, l) \cup {kept}
    BY <1>1, <1>3 DEF RunsOf
  <2> QED BY <1>1, <2>1
<1> QED BY <1>2, <1>3

\* What is recorded of a level stays so.
LEMMA KeptLevel ==
  ASSUME TypeOK, plan' = plan, KeepsRows, NEW s, NEW l, SameLevel(s, l)
  PROVE  /\ l = 1 /\ BaselineRecorded(s) => BaselineRecorded(s)'
         /\ \A n : RepsRecorded(s, l, n) => RepsRecorded(s, l, n)'
         /\ LevelRecorded(s, l) => LevelRecorded(s, l)'
         /\ LevelSkipped(s, l) => LevelSkipped(s, l)'
         /\ Untouched(s, l) => Untouched(s, l)'
<1> USE DEF SameLevel, KeepsRows
<1>1. RowsOf(s, l) \in SUBSET DOMAIN rows
  BY DEF RowsOf
<1>2. l = 1 /\ BaselineRecorded(s) => BaselineRecorded(s)'
  BY DEF BaselineRecorded
<1>3. ASSUME NEW n, RepsRecorded(s, l, n) PROVE RepsRecorded(s, l, n)'
  <2>1. {rows'[i].rep : i \in RowsOf(s, l)} = {rows[i].rep : i \in RowsOf(s, l)}
    BY <1>1
  <2>2. \A i \in RowsOf(s, l) : rows'[i].kind = rows[i].kind /\ rows'[i].rep = rows[i].rep
    BY <1>1
  <2> QED BY <1>3, <2>1, <2>2 DEF RepsRecorded
<1>4. LevelRecorded(s, l) => LevelRecorded(s, l)'
  <2>1. \A n : n = plan.reps /\ RepsRecorded(s, l, n) => RepsRecorded(s, l, n)'
    BY <1>3
  <2> QED BY <2>1 DEF LevelRecorded, RepsRecorded
<1>5. LevelSkipped(s, l) => LevelSkipped(s, l)'
  BY <1>1 DEF LevelSkipped
<1>6. Untouched(s, l) => Untouched(s, l)'
  BY DEF Untouched
<1> QED BY <1>2, <1>3, <1>4, <1>5, <1>6

\* A scenario that is finished and left alone stays finished.
LEMMA KeptScenario ==
  ASSUME TypeOK, plan' = plan, KeepsRows, NEW s, \A l \in 1..Last : SameLevel(s, l),
         ScenarioDone(s)
  PROVE  ScenarioDone(s)'
<1>1. PICK stop \in 2..(Last + 1) : RanUpTo(s, stop)
  BY DEF ScenarioDone
<1>2. Last \in Nat /\ Last >= 1 /\ Last' = Last
  BY PlanTypes DEF Last
<1>3. BaselineRecorded(s)'
  <2>1. SameLevel(s, 1)
    BY <1>2
  <2> QED BY <1>1, <2>1, KeptLevel DEF RanUpTo
<1>4. ASSUME NEW l \in 2..(stop - 1) PROVE LevelRecorded(s, l)'
  <2>1. SameLevel(s, l) /\ LevelRecorded(s, l)
    BY <1>1, <1>2 DEF RanUpTo
  <2> QED BY <2>1, KeptLevel
<1>5. ASSUME NEW l \in stop..Last PROVE LevelSkipped(s, l)'
  <2>1. SameLevel(s, l) /\ LevelSkipped(s, l)
    BY <1>1, <1>2 DEF RanUpTo
  <2> QED BY <2>1, KeptLevel
<1>6. RanUpTo(s, stop)'
  BY <1>2, <1>3, <1>4, <1>5 DEF RanUpTo
<1> QED BY <1>1, <1>2, <1>6 DEF ScenarioDone

\* The loops stand still: what they have recorded stays right.
LEMMA RowsIdle ==
  ASSUME TypeOK, RowsInv, UNCHANGED <<plan, cell, rows, raw>>,
         \/ sweep' \in {sweep, "error"}
         \/ sweep = "json" /\ sweep' = "summaries"
         \/ sweep = "summaries" /\ sweep' = "done"
  PROVE  RowsInv'
<1>1. KeepsRows /\ \A s, l : SameLevel(s, l)
  BY DEF KeepsRows, SameLevel, RowsOf, RunsOf
<1>2. RowsPlaced'
  BY DEF RowsInv, RowsPlaced, Scenarios, Last
<1>3. \A s : ScenarioDone(s) => ScenarioDone(s)'
  BY <1>1, KeptScenario
<1>4. ASSUME NEW s, ScenarioUnderWay(s) PROVE ScenarioUnderWay(s)'
  <2>1. /\ {r.rep : r \in RunsOf(s, 1)'} = {r.rep : r \in RunsOf(s, 1)}
        /\ RowsOf(s, 1)' = RowsOf(s, 1)
    BY <1>1 DEF SameLevel
  <2>2. /\ BaselineRecorded(s) => BaselineRecorded(s)'
        /\ \A l, n : RepsRecorded(s, l, n) => RepsRecorded(s, l, n)'
        /\ \A l : LevelRecorded(s, l) => LevelRecorded(s, l)'
        /\ \A l : Untouched(s, l) => Untouched(s, l)'
    BY <1>1, KeptLevel
  <2>3. \A l, n : n = cell.rep - 1 /\ RepsRecorded(s, l, n) => RepsRecorded(s, l, cell.rep - 1)'
    BY <2>2 DEF RepsRecorded
  <2> QED BY <1>4, <2>1, <2>2, <2>3 DEF ScenarioUnderWay, Last
<1>5. \A s, l : Untouched(s, l) => Untouched(s, l)'
  BY <1>1, KeptLevel
<1>6. sweep' = "cells" => sweep = "cells"
  OBVIOUS
<1>7. sweep' \in {"json", "summaries", "done"} => sweep \in {"json", "summaries", "done"}
  OBVIOUS
<1> QED BY <1>2, <1>3, <1>4, <1>5, <1>6, <1>7 DEF RowsInv, Scenarios, Last

\* A step of the loops leaves every other scenario alone.
LEMMA RowsOthers ==
  ASSUME TypeOK, RowsInv, sweep = "cells", plan' = plan, KeepsRows,
         \A s : s # cell.scen => \A l \in 1..Last : SameLevel(s, l)
  PROVE  \A s \in Scenarios :
           /\ s < cell.scen => ScenarioDone(s)'
           /\ s > cell.scen => \A l \in 1..Last : Untouched(s, l)'
<1> SUFFICES ASSUME NEW s \in Scenarios, s # cell.scen
             PROVE  /\ s < cell.scen => ScenarioDone(s)'
                    /\ s > cell.scen => \A l \in 1..Last : Untouched(s, l)'
  <2>1. \A s \in Scenarios : s \in Nat /\ cell.scen \in Nat
    BY PlanTypes DEF Scenarios
  <2> QED BY <2>1
<1>1. s < cell.scen => ScenarioDone(s)'
  BY KeptScenario DEF RowsInv
<1>2. s > cell.scen => \A l \in 1..Last : Untouched(s, l)'
  BY KeptLevel DEF RowsInv
<1> QED BY <1>1, <1>2

\* A step within a scenario.
LEMMA RowsSameScenario ==
  ASSUME TypeOK, RowsInv, sweep = "cells", sweep' = "cells", plan' = plan,
         cell'.scen = cell.scen, KeepsRows, RowsPlaced',
         \A s : s # cell.scen => \A l \in 1..Last : SameLevel(s, l),
         \A s : s = cell.scen => ScenarioUnderWay(s)'
  PROVE  RowsInv'
BY RowsOthers DEF RowsInv, Scenarios, Last

\* A step that finishes a scenario.
LEMMA RowsNextScenario ==
  ASSUME TypeOK, RowsInv, sweep = "cells", plan' = plan, NextScenario,
         KeepsRows, RowsPlaced',
         \A s : s # cell.scen => \A l \in 1..Last : SameLevel(s, l),
         \A s : s = cell.scen => ScenarioDone(s)'
  PROVE  RowsInv'
<1>1. /\ cell.scen \in Nat /\ plan.scenarios \in Nat /\ cell.scen <= plan.scenarios
      /\ plan.levels \in Nat /\ plan.levels >= 1
      /\ Scenarios = 1..plan.scenarios /\ Scenarios' = Scenarios
      /\ Last = plan.levels /\ Last' = Last
  BY PlanTypes DEF Scenarios, Last
<1>2. \A s \in Scenarios :
        /\ s < cell.scen => ScenarioDone(s)'
        /\ s > cell.scen => \A l \in 1..Last : Untouched(s, l)'
  BY RowsOthers
<1>3. CASE cell.scen < plan.scenarios
  <2>1. /\ sweep' = "cells" /\ cell'.scen = cell.scen + 1
        /\ cell'.lvl = 1 /\ cell'.rep = 1
    BY <1>3 DEF NextScenario
  <2>2. ASSUME NEW s \in Scenarios, s = cell.scen + 1 PROVE ScenarioUnderWay(s)'
    <3>1. \A l \in 1..Last : Untouched(s, l)'
      BY <1>1, <1>2, <2>2
    <3>2. RowsOf(s, 1)' = {} /\ RunsOf(s, 1)' = {}
      BY <1>1, <3>1 DEF Untouched
    <3>3. {r.rep : r \in RunsOf(s, 1)'} = {} /\ 1..(cell'.rep - 1) = {}
      BY <2>1, <3>2
    <3>4. \A l \in 2..Last : l > cell'.lvl /\ Untouched(s, l)'
      BY <1>1, <2>1, <3>1
    <3> QED BY <1>1, <2>1, <3>2, <3>3, <3>4 DEF ScenarioUnderWay
  <2>3. ASSUME NEW s \in Scenarios
        PROVE  /\ s < cell'.scen => ScenarioDone(s)'
               /\ s = cell'.scen => ScenarioUnderWay(s)'
               /\ s > cell'.scen => \A l \in 1..Last : Untouched(s, l)'
    <3>1. s \in Nat
      BY <1>1
    <3> QED BY <1>1, <1>2, <2>1, <2>2, <3>1
  <2> QED BY <1>1, <2>1, <2>3 DEF RowsInv
<1>4. CASE ~(cell.scen < plan.scenarios)
  <2>1. sweep' = "json"
    BY <1>4 DEF NextScenario
  <2>2. \A s \in Scenarios : s \in Nat /\ s <= cell.scen
    BY <1>1, <1>4
  <2>3. \A s \in Scenarios : ScenarioDone(s)'
    BY <1>1, <1>2, <2>2
  <2> QED BY <1>1, <2>1, <2>3 DEF RowsInv
<1> QED BY <1>3, <1>4

\* A row that is appended has its place.
LEMMA PlacedRow ==
  ASSUME TypeOK, RowsPlaced, plan' = plan, NEW row \in RowType, rows' = Append(rows, row),
         NEW l0 \in 1..Last, row.level = Levels[l0], row.scen \in Scenarios
  PROVE  RowsPlaced'
<1>1. /\ DOMAIN rows' = DOMAIN rows \cup {Len(rows) + 1} /\ KeepsRows
      /\ rows'[Len(rows) + 1] = row
  BY AppendedRow
<1>2. ASSUME NEW i \in DOMAIN rows'
      PROVE  rows'[i].scen \in Scenarios /\ \E l \in 1..Last : rows'[i].level = Levels[l]
  <2>1. CASE i \in DOMAIN rows
    BY <1>1, <2>1 DEF RowsPlaced, KeepsRows
  <2>2. CASE i = Len(rows) + 1
    BY <1>1, <2>2
  <2> QED BY <1>1, <2>1, <2>2
<1> QED BY <1>2 DEF RowsPlaced, Scenarios, Last

\* A repetition adds its row and its file.
LEMMA OneMoreRep ==
  ASSUME TypeOK, KeepRun, NEW sat \in BOOLEAN,
         rows' = Append(rows, Row(cell.scen, Levels[cell.lvl], cell.rep, "run", sat)),
         NEW s, s = cell.scen, NEW l, l = cell.lvl, RepsRecorded(s, l, cell.rep - 1),
         NEW n, n = cell.rep
  PROVE  RepsRecorded(s, l, n)'
<1> DEFINE row == Row(cell.scen, Levels[cell.lvl], cell.rep, "run", sat)
           k   == Len(rows) + 1
<1>1. /\ cell.lvl \in 1..Last /\ n \in Nat \ {0}
      /\ row \in RowType /\ row.level = Levels[cell.lvl] /\ row.scen = s /\ row.rep = n
      /\ row.kind = "run"
  <2>1. cell.scen \in Nat /\ Levels[cell.lvl] \in Nat /\ cell.rep \in Nat
    BY PlanTypes
  <2>2. row \in RowType
    BY <2>1, RowTyped
  <2> QED BY <2>2, PlanTypes DEF Row, Last
<1> HIDE DEF row
<1>2. /\ k \notin DOMAIN rows /\ KeepsRows /\ rows'[k] = row
      /\ RowsOf(s, l)' = RowsOf(s, l) \cup {k}
  <2>1. rows' = Append(rows, row)
    BY DEF row
  <2> QED BY <1>1, <2>1, AppendedRow
<1>10. k \in Nat /\ \A i \in DOMAIN rows : i \in Nat /\ i < k
  BY DEF TypeOK
<1> HIDE DEF k
<1>3. RowsOf(s, l) \in SUBSET DOMAIN rows
  BY DEF RowsOf
<1>4. ASSUME NEW i \in RowsOf(s, l)', NEW j \in RowsOf(s, l)', i < j
      PROVE  rows'[i].rep < rows'[j].rep
  <2>1. \A h \in RowsOf(s, l) : h \in Nat /\ h < k /\ rows'[h] = rows[h]
    BY <1>2, <1>3, <1>10 DEF KeepsRows
  <2>2. \A h \in RowsOf(s, l) : rows[h].rep \in 1..(n - 1)
    BY DEF RepsRecorded
  <2>3. CASE i \in RowsOf(s, l) /\ j \in RowsOf(s, l)
    <3>1. rows[i].rep < rows[j].rep
      BY <1>4, <2>3 DEF RepsRecorded
    <3> QED BY <2>1, <2>3, <3>1
  <2>4. CASE i \in RowsOf(s, l) /\ j = k
    <3>1. rows'[i].rep \in 1..(n - 1)
      BY <2>1, <2>2, <2>4
    <3>2. rows'[j].rep = n
      BY <1>1, <1>2, <2>4
    <3>3. \A v \in 1..(n - 1) : v < n
      BY <1>1
    <3> QED BY <3>1, <3>2, <3>3, Zenon
  <2>5. CASE i = k
    BY <1>2, <1>4, <1>10, <2>1, <2>5
  <2> QED BY <1>2, <2>3, <2>4, <2>5
<1>5. \A i \in RowsOf(s, l)' : rows'[i].kind = "run"
  BY <1>1, <1>2, <1>3 DEF RepsRecorded, KeepsRows
<1>6. (1..(n - 1)) \cup {n} = 1..n
  BY <1>1
<1>7. {rows'[i].rep : i \in RowsOf(s, l)'} = 1..n
  <2>1. {rows'[i].rep : i \in RowsOf(s, l)} = 1..(n - 1)
    <3>1. \A i \in RowsOf(s, l) : rows'[i] = rows[i]
      BY <1>2, <1>3 DEF KeepsRows
    <3>2. {rows'[i].rep : i \in RowsOf(s, l)} = {rows[i].rep : i \in RowsOf(s, l)}
      BY <3>1
    <3> QED BY <3>2 DEF RepsRecorded
  <2>2. {rows'[i].rep : i \in RowsOf(s, l)'} = {rows'[i].rep : i \in RowsOf(s, l)} \cup {n}
    BY <1>1, <1>2
  <2> QED BY <2>1, <2>2, <1>6, Zenon
<1>8. {r.rep : r \in RunsOf(s, l)'} = 1..n
  <2>1. {r.rep : r \in RunsOf(s, l)'} = {r.rep : r \in RunsOf(s, l)} \cup {n}
    BY KeptRuns
  <2>2. {r.rep : r \in RunsOf(s, l)} = 1..(n - 1)
    BY DEF RepsRecorded
  <2> QED BY <2>1, <2>2, <1>6, Zenon
<1> QED BY <1>4, <1>5, <1>7, <1>8 DEF RepsRecorded

\* A level of which no repetition is recorded has neither rows nor files.
LEMMA NoRep ==
  ASSUME NEW s, NEW l, RepsRecorded(s, l, 0)
  PROVE  Untouched(s, l)
<1>2. RowsOf(s, l) = {}
  <2>1. {rows[i].rep : i \in RowsOf(s, l)} = 1..0
    BY DEF RepsRecorded
  <2>2. \A v : v \notin 1..0
    OBVIOUS
  <2>3. \A i \in RowsOf(s, l) : rows[i].rep \in {rows[j].rep : j \in RowsOf(s, l)}
    OBVIOUS
  <2> QED BY <2>1, <2>2, <2>3, Zenon
<1>3. RunsOf(s, l) = {}
  <2>1. {r.rep : r \in RunsOf(s, l)} = 1..0
    BY DEF RepsRecorded
  <2>2. \A v : v \notin 1..0
    OBVIOUS
  <2>3. \A r \in RunsOf(s, l) : r.rep \in {q.rep : q \in RunsOf(s, l)}
    OBVIOUS
  <2> QED BY <2>1, <2>2, <2>3, Zenon
<1> QED BY <1>2, <1>3 DEF Untouched

\* Conversely, after the step.
LEMMA NoRepYet ==
  ASSUME NEW s, NEW l, Untouched(s, l)'
  PROVE  \A n : n = 0 => RepsRecorded(s, l, n)'
<1>1. RowsOf(s, l)' = {} /\ RunsOf(s, l)' = {}
  BY DEF Untouched
<1>2. \A i, j \in RowsOf(s, l)' : i < j => rows'[i].rep < rows'[j].rep
  BY <1>1
<1>3. 1..0 = {}
  OBVIOUS
<1>4. {rows'[i].rep : i \in RowsOf(s, l)'} = {} /\ {r.rep : r \in RunsOf(s, l)'} = {}
  BY <1>1
<1>5. \A i \in RowsOf(s, l)' : rows'[i].kind = "run"
  BY <1>1
<1> QED BY <1>2, <1>3, <1>4, <1>5 DEF RepsRecorded

\* A run of the baseline level returns.
LEMMA RowsAfterBaseline ==
  ASSUME TypeOK, RowsInv, EndBaseline
  PROVE  RowsInv'
<1> DEFINE base0 == Row(cell.scen, Levels[1], 0, "baseline", FALSE)
<1>1. /\ sweep = "cells" /\ cell.lvl = 1 /\ plan' = plan /\ KeepRun
      /\ \/ Repeats /\ rows' = rows
         \/ /\ cell.rep = plan.reps /\ rows' = Append(rows, base0)
            /\ \/ /\ cell.lvl < Last /\ sweep' = sweep
                  /\ cell' = [cell EXCEPT !.lvl = @ + 1, !.rep = 1]
               \/ cell.lvl = Last /\ NextScenario
  BY DEF EndBaseline, LeaveLevel
<1>2. /\ cell.scen \in Scenarios /\ cell.scen \in Nat /\ cell.rep \in Nat \ {0}
      /\ Last \in Nat /\ Last >= 1 /\ Last' = Last
      /\ cell \in [scen : Scenarios, lvl : 1..Last, rep : 1..plan.reps]
  BY <1>1, PlanTypes DEF Last, Scenarios, TypeOK
<1>3. /\ base0 \in RowType /\ base0.scen = cell.scen /\ base0.level = Levels[1]
      /\ base0.kind = "baseline"
  <2>1. cell.scen \in Nat /\ Levels[1] \in Nat /\ 0 \in Nat
    BY <1>1, PlanTypes
  <2>2. base0 \in RowType
    BY <2>1, RowTyped
  <2> QED BY <2>2 DEF Row
<1> HIDE DEF base0
<1>4. \/ rows' = rows
      \/ /\ rows' = Append(rows, base0) /\ rows'[Len(rows) + 1] = base0
         /\ DOMAIN rows' = DOMAIN rows \cup {Len(rows) + 1}
         /\ \A s : \A l \in 1..Last :
              RowsOf(s, l)' = IF s = cell.scen /\ l = 1 THEN RowsOf(s, l) \cup {Len(rows) + 1}
                                                        ELSE RowsOf(s, l)
  <2>1. 1 \in 1..Last
    BY <1>2
  <2>2. CASE rows' = Append(rows, base0)
    BY <1>3, <2>1, <2>2, AppendedRow
  <2> QED BY <1>1, <2>2
<1>5. KeepsRows
  BY <1>1, <1>2, <1>3, AppendedRow DEF KeepsRows
<1>6. RowsPlaced'
  <2>1. CASE rows' = rows
    BY <1>1, <2>1 DEF RowsInv, RowsPlaced, Scenarios, Last
  <2>2. CASE rows' = Append(rows, base0)
    BY <1>1, <1>2, <1>3, <2>2, PlacedRow DEF RowsInv
  <2> QED BY <1>4, <2>1, <2>2
<1>7. \A s : \A l \in 1..Last : s # cell.scen \/ l # 1 => SameLevel(s, l)
  <2>1. \A s : \A l \in 1..Last : s # cell.scen \/ l # 1 => RowsOf(s, l)' = RowsOf(s, l)
    <3>1. CASE rows' = rows
      BY <3>1 DEF RowsOf
    <3> QED BY <1>4, <3>1
  <2>2. \A s : \A l \in 1..Last : s # cell.scen \/ l # 1 => RunsOf(s, l)' = RunsOf(s, l)
    BY <1>1, KeptRuns
  <2> QED BY <2>1, <2>2 DEF SameLevel
<1>8. ASSUME NEW s, s = cell.scen
      PROVE  /\ RowsOf(s, 1) = {} /\ \A l \in 2..Last : Untouched(s, l)'
             /\ \A n : n = cell.rep => {r.rep : r \in RunsOf(s, 1)'} = 1..n
  <2>1. /\ RowsOf(s, 1) = {} /\ {r.rep : r \in RunsOf(s, 1)} = 1..(cell.rep - 1)
        /\ \A l \in 2..Last : Untouched(s, l)
    BY <1>1, <1>2, <1>8 DEF RowsInv, ScenarioUnderWay
  <2>2. \A l \in 2..Last : Untouched(s, l)'
    <3>1. \A l \in 2..Last : l \in 1..Last /\ l # 1
      BY <1>2
    <3>2. \A l \in 2..Last : SameLevel(s, l)
      BY <1>7, <3>1
    <3> QED BY <1>1, <1>5, <2>1, <3>2, KeptLevel
  <2>3. {r.rep : r \in RunsOf(s, 1)'} = 1..(cell.rep - 1) \cup {cell.rep}
    <3>1. {r.rep : r \in RunsOf(s, 1)'} = {r.rep : r \in RunsOf(s, 1)} \cup {cell.rep}
      BY <1>1, <1>8, KeptRuns
    <3> QED BY <2>1, <3>1, Zenon
  <2>4. 1..(cell.rep - 1) \cup {cell.rep} = 1..cell.rep
    BY <1>2
  <2> QED BY <2>1, <2>2, <2>3, <2>4, Zenon
<1>9. ASSUME NEW s, s = cell.scen, rows' = Append(rows, base0), cell.rep = plan.reps
      PROVE  BaselineRecorded(s)'
  <2>1. 1 \in 1..Last
    BY <1>2
  <2>2. /\ Len(rows) + 1 \in DOMAIN rows' /\ rows'[Len(rows) + 1].kind = "baseline"
        /\ RowsOf(s, 1)' = {Len(rows) + 1}
    BY <1>1, <1>2, <1>3, <1>8, <1>9, <2>1, AppendedRow
  <2>3. {r.rep : r \in RunsOf(s, 1)'} = 1..plan'.reps
    BY <1>1, <1>8, <1>9
  <2> QED BY <2>2, <2>3 DEF BaselineRecorded
<1>10. CASE Repeats /\ rows' = rows
  <2>1. /\ cell'.scen = cell.scen /\ cell'.lvl = 1 /\ cell'.rep - 1 = cell.rep /\ sweep' = sweep
    BY <1>1, <1>2, <1>10 DEF Repeats
  <2>2. ASSUME NEW s, s = cell.scen PROVE ScenarioUnderWay(s)'
    <3>1. RowsOf(s, 1)' = {}
      BY <1>8, <1>10, <2>2 DEF RowsOf
    <3>2. {r.rep : r \in RunsOf(s, 1)'} = 1..(cell'.rep - 1)
      BY <1>8, <2>1, <2>2
    <3>3. \A l \in 2..Last : l > cell'.lvl /\ Untouched(s, l)'
      BY <1>2, <1>8, <2>1, <2>2
    <3> QED BY <1>2, <2>1, <3>1, <3>2, <3>3 DEF ScenarioUnderWay
  <2> QED BY <1>1, <1>5, <1>6, <1>7, <2>1, <2>2, RowsSameScenario
<1>11. CASE /\ cell.rep = plan.reps /\ rows' = Append(rows, base0)
            /\ cell.lvl < Last /\ sweep' = sweep
            /\ cell' = [cell EXCEPT !.lvl = @ + 1, !.rep = 1]
  <2>1. cell'.scen = cell.scen /\ cell'.lvl = 2 /\ cell'.rep - 1 = 0
    BY <1>1, <1>2, <1>11
  <2>2. ASSUME NEW s, s = cell.scen PROVE ScenarioUnderWay(s)'
    <3>1. \A n : n = 0 => RepsRecorded(s, 2, n)'
      BY <1>1, <1>2, <1>8, <1>11, <2>2, NoRepYet
    <3>2. \A l \in 2..Last : /\ ~(l < cell'.lvl)
                             /\ l = cell'.lvl => RepsRecorded(s, l, cell.rep - 1)'
                             /\ Untouched(s, l)'
      BY <1>2, <1>8, <2>1, <2>2, <3>1 DEF RepsRecorded
    <3>3. BaselineRecorded(s)'
      BY <1>9, <1>11, <2>2
    <3> QED BY <1>2, <2>1, <3>2, <3>3 DEF ScenarioUnderWay
  <2> QED BY <1>1, <1>5, <1>6, <1>7, <1>11, <2>1, <2>2, RowsSameScenario
<1>12. CASE /\ cell.rep = plan.reps /\ rows' = Append(rows, base0)
            /\ cell.lvl = Last /\ NextScenario
  <2>1. ASSUME NEW s, s = cell.scen PROVE ScenarioDone(s)'
    <3>1. BaselineRecorded(s)'
      BY <1>9, <1>12, <2>1
    <3>2. RanUpTo(s, 2)'
      BY <1>1, <1>2, <1>12, <3>1 DEF RanUpTo
    <3> QED BY <1>1, <1>2, <1>12, <3>2 DEF ScenarioDone
  <2> QED BY <1>1, <1>5, <1>6, <1>7, <1>12, <2>1, RowsNextScenario
<1> QED BY <1>1, <1>10, <1>11, <1>12

\* A run of a higher level returns.
LEMMA RowsAfterRepetition ==
  ASSUME TypeOK, RowsInv, EndRepetition
  PROVE  RowsInv'
<1>1. /\ sweep = "cells" /\ cell.lvl > 1 /\ plan' = plan /\ KeepRun
      /\ \/ Repeats
         \/ cell.rep = plan.reps /\ cell.lvl < Last /\ sweep' = sweep
            /\ cell' = [cell EXCEPT !.lvl = @ + 1, !.rep = 1]
         \/ cell.rep = plan.reps /\ cell.lvl = Last /\ NextScenario
  BY DEF EndRepetition, LeaveLevel
<1>2. PICK sat \in BOOLEAN :
        rows' = Append(rows, Row(cell.scen, Levels[cell.lvl], cell.rep, "run", sat))
  BY DEF EndRepetition, Saturated
<1> DEFINE row == Row(cell.scen, Levels[cell.lvl], cell.rep, "run", sat)
<1>3. /\ cell.scen \in Scenarios /\ cell.scen \in Nat /\ cell.rep \in Nat \ {0}
      /\ Last \in Nat /\ Last >= 1 /\ Last' = Last /\ cell.lvl \in 1..Last
      /\ cell \in [scen : Scenarios, lvl : 1..Last, rep : 1..plan.reps]
  <2>1. cell \in [scen : Scenarios, lvl : 1..Last, rep : 1..plan.reps]
    BY DEF TypeOK
  <2>2. Last \in Nat /\ Last >= 1 /\ Last' = Last
    BY <1>1, PlanTypes DEF Last
  <2>3. cell.scen \in Nat /\ cell.rep \in Nat \ {0}
    BY PlanTypes
  <2> QED BY <2>1, <2>2, <2>3
<1>4. row \in RowType /\ row.scen = cell.scen /\ row.level = Levels[cell.lvl]
  <2>1. cell.scen \in Nat /\ Levels[cell.lvl] \in Nat /\ cell.rep \in Nat
    BY PlanTypes
  <2>2. row \in RowType
    BY <2>1, RowTyped
  <2> QED BY <2>2 DEF Row
<1>5. rows' = Append(rows, row)
  BY <1>2
<1> HIDE DEF row
<1>6. KeepsRows /\ RowsPlaced'
  BY <1>1, <1>3, <1>4, <1>5, AppendedRow, PlacedRow DEF RowsInv
<1>7. \A s : \A l \in 1..Last : s # cell.scen \/ l # cell.lvl => SameLevel(s, l)
  <2>1. \A s : \A l \in 1..Last :
          s # cell.scen \/ l # cell.lvl => RowsOf(s, l)' = RowsOf(s, l)
    BY <1>3, <1>4, <1>5, AppendedRow
  <2>2. \A s : \A l \in 1..Last :
          s # cell.scen \/ l # cell.lvl => RunsOf(s, l)' = RunsOf(s, l)
    BY <1>1, KeptRuns
  <2> QED BY <2>1, <2>2 DEF SameLevel
<1>8. ASSUME NEW s, s = cell.scen
      PROVE  /\ BaselineRecorded(s)'
             /\ \A l \in 2..Last :
                  /\ l < cell.lvl => LevelRecorded(s, l)'
                  /\ l > cell.lvl => Untouched(s, l)'
             /\ \A l, n : l = cell.lvl /\ n = cell.rep => RepsRecorded(s, l, n)'
  <2>1. /\ BaselineRecorded(s)
        /\ \A l \in 2..Last : /\ l < cell.lvl => LevelRecorded(s, l)
                              /\ l = cell.lvl => RepsRecorded(s, l, cell.rep - 1)
                              /\ l > cell.lvl => Untouched(s, l)
    BY <1>1, <1>3, <1>8 DEF RowsInv, ScenarioUnderWay
  <2>2. BaselineRecorded(s)'
    <3>1. SameLevel(s, 1)
      BY <1>1, <1>3, <1>7
    <3> QED BY <1>1, <1>6, <2>1, <3>1, KeptLevel
  <2>3. ASSUME NEW l \in 2..Last
        PROVE  /\ l < cell.lvl => LevelRecorded(s, l)'
               /\ l > cell.lvl => Untouched(s, l)'
    <3>1. l \in 1..Last /\ (l < cell.lvl \/ l > cell.lvl => SameLevel(s, l))
      BY <1>3, <1>7
    <3> QED BY <1>1, <1>6, <2>1, <3>1, KeptLevel
  <2>4. ASSUME NEW l, NEW n, l = cell.lvl, n = cell.rep PROVE RepsRecorded(s, l, n)'
    <3>1. l \in 2..Last /\ RepsRecorded(s, l, cell.rep - 1)
      BY <1>1, <1>3, <2>1, <2>4
    <3> QED BY <1>1, <1>2, <1>8, <2>4, <3>1, OneMoreRep
  <2> QED BY <2>2, <2>3, <2>4
<1>9. ASSUME NEW s, s = cell.scen, cell.rep = plan.reps, NEW l \in 2..Last, l <= cell.lvl
      PROVE  LevelRecorded(s, l)'
  <2>1. CASE l < cell.lvl
    BY <1>8, <1>9, <2>1
  <2>2. CASE l = cell.lvl
    <3>1. \A n : n = plan'.reps => RepsRecorded(s, l, n)'
      BY <1>1, <1>8, <1>9, <2>2
    <3> QED BY <3>1 DEF LevelRecorded, RepsRecorded
  <2> QED BY <1>3, <1>9, <2>1, <2>2
<1>10. CASE Repeats
  <2>1. /\ cell'.scen = cell.scen /\ cell'.lvl = cell.lvl /\ cell'.rep - 1 = cell.rep
        /\ sweep' = sweep
    BY <1>3, <1>10 DEF Repeats
  <2>2. ASSUME NEW s, s = cell.scen PROVE ScenarioUnderWay(s)'
    <3>1. \A l : l = cell.lvl => RepsRecorded(s, l, cell.rep - 1)'
      BY <1>8, <2>1, <2>2 DEF RepsRecorded
    <3> QED BY <1>1, <1>3, <1>8, <2>1, <2>2, <3>1 DEF ScenarioUnderWay
  <2> QED BY <1>1, <1>6, <1>7, <2>1, <2>2, RowsSameScenario
<1>11. CASE /\ cell.rep = plan.reps /\ cell.lvl < Last /\ sweep' = sweep
            /\ cell' = [cell EXCEPT !.lvl = @ + 1, !.rep = 1]
  <2>1. cell'.scen = cell.scen /\ cell'.lvl = cell.lvl + 1 /\ cell'.rep - 1 = 0
    BY <1>3, <1>11
  <2>2. ASSUME NEW s, s = cell.scen PROVE ScenarioUnderWay(s)'
    <3>1. ASSUME NEW l \in 2..Last, l = cell'.lvl PROVE RepsRecorded(s, l, cell.rep - 1)'
      <4>1. Untouched(s, l)'
        BY <1>3, <1>8, <2>1, <2>2, <3>1
      <4>2. \A n : n = 0 => RepsRecorded(s, l, n)'
        BY <4>1, NoRepYet
      <4> QED BY <2>1, <4>2 DEF RepsRecorded
    <3>2. \A l \in 2..Last : l < cell'.lvl => LevelRecorded(s, l)'
      BY <1>3, <1>9, <1>11, <2>1, <2>2
    <3>3. \A l \in 2..Last : l > cell'.lvl => Untouched(s, l)'
      BY <1>3, <1>8, <2>1, <2>2
    <3>4. BaselineRecorded(s)' /\ ~(cell'.lvl = 1)
      BY <1>1, <1>3, <1>8, <2>1, <2>2
    <3> QED BY <1>3, <3>1, <3>2, <3>3, <3>4 DEF ScenarioUnderWay
  <2> QED BY <1>1, <1>6, <1>7, <1>11, <2>1, <2>2, RowsSameScenario
<1>12. CASE cell.rep = plan.reps /\ cell.lvl = Last /\ NextScenario
  <2>1. ASSUME NEW s, s = cell.scen PROVE ScenarioDone(s)'
    <3>1. BaselineRecorded(s)'
      BY <1>8, <2>1
    <3>2. \A l \in 2..Last : LevelRecorded(s, l)'
      BY <1>3, <1>9, <1>12, <2>1
    <3>3. \A stop : stop = Last + 1 => RanUpTo(s, stop)'
      BY <1>3, <3>1, <3>2 DEF RanUpTo
    <3> QED BY <1>1, <1>3, <1>12, <3>3 DEF ScenarioDone
  <2> QED BY <1>1, <1>6, <1>7, <1>12, <2>1, RowsNextScenario
<1> QED BY <1>1, <1>10, <1>11, <1>12

\* The row of a level that is left out comes after those of the levels before.
Skipped(l) == Len(rows) + (l - cell.lvl + 1)

\* What the rows are after those of the levels left out.
LEMMA SkippedRows ==
  ASSUME TypeOK, rows' = rows \o NotRunRows(cell.lvl)
  PROVE  /\ KeepsRows
         /\ \A l \in cell.lvl..Last :
              /\ Skipped(l) \in DOMAIN rows' /\ Skipped(l) \notin DOMAIN rows
              /\ rows'[Skipped(l)] = Row(cell.scen, Levels[l], 0, "notRun", FALSE)
         /\ \A i \in DOMAIN rows' : i \in DOMAIN rows \/ \E l \in cell.lvl..Last : i = Skipped(l)
<1> DEFINE new == NotRunRows(cell.lvl)
           N   == Len(rows)
           K   == Last - cell.lvl + 1
<1>1. /\ cell.scen \in Nat /\ cell.lvl \in Nat /\ Last \in Nat /\ cell.lvl <= Last
      /\ \A l \in cell.lvl..Last : Levels[l] \in Nat
  <2>1. cell.scen \in Nat /\ cell.lvl \in 1..Last /\ Last \in 1..Len(Levels)
    BY PlanTypes, SweepAssumption DEF Last
  <2>2. \A l \in 1..Len(Levels) : Levels[l] \in Nat
    BY SweepAssumption
  <2> QED BY <2>1, <2>2
<1>2. /\ DOMAIN new = 1..K /\ \A i \in 1..K : new[i] \in RowType
      /\ \A l \in cell.lvl..Last :
           new[l - cell.lvl + 1] = Row(cell.scen, Levels[l], 0, "notRun", FALSE)
  <2>1. \A i \in 1..K : /\ cell.lvl + i - 1 \in cell.lvl..Last
                        /\ new[i] = Row(cell.scen, Levels[cell.lvl + i - 1], 0, "notRun", FALSE)
    <3>1. \A i \in 1..K : cell.lvl + i - 1 \in cell.lvl..Last
      BY <1>1
    <3>2. \A i \in 1..K :
            new[i] = Row(cell.scen, Levels[cell.lvl + i - 1], 0, "notRun", FALSE)
      BY Zenon DEF NotRunRows
    <3> QED BY <3>1, <3>2
  <2>2. DOMAIN new = 1..K
    BY DEF NotRunRows
  <2> HIDE DEF new, K
  <2>3. ASSUME NEW i \in 1..K PROVE new[i] \in RowType
    <3>1. PICK l \in cell.lvl..Last : new[i] = Row(cell.scen, Levels[l], 0, "notRun", FALSE)
      BY <2>1
    <3>2. cell.scen \in Nat /\ Levels[l] \in Nat /\ 0 \in Nat
      BY <1>1
    <3> QED BY <3>1, <3>2, RowTyped
  <2>4. ASSUME NEW l \in cell.lvl..Last
        PROVE  new[l - cell.lvl + 1] = Row(cell.scen, Levels[l], 0, "notRun", FALSE)
    <3>1. l - cell.lvl + 1 \in 1..K /\ cell.lvl + (l - cell.lvl + 1) - 1 = l
      BY <1>1 DEF K
    <3> QED BY <2>1, <3>1
  <2> QED BY <2>2, <2>3, <2>4
<1> HIDE DEF new
<1>3. new \in Seq(RowType) /\ Len(new) = K
  <2>1. K \in Nat
    BY <1>1
  <2>2. new = [i \in 1..K |-> new[i]]
    BY <1>2 DEF new, NotRunRows
  <2>3. new \in [1..K -> RowType]
    BY <1>2, <2>2
  <2> QED BY <2>1, <2>3
<1>4. rows \in Seq(RowType) /\ rows' = rows \o new
  BY DEF TypeOK, new
<1>5. /\ N \in Nat /\ DOMAIN rows = 1..N /\ DOMAIN rows' = 1..(N + K)
      /\ \A i \in 1..N : rows'[i] = rows[i]
      /\ \A i \in 1..K : rows'[N + i] = new[i]
  BY <1>1, <1>3, <1>4
<1>6. \A l \in cell.lvl..Last : l - cell.lvl + 1 \in 1..K /\ Skipped(l) = N + (l - cell.lvl + 1)
  BY <1>1 DEF Skipped
<1>7. ASSUME NEW i \in DOMAIN rows', i \notin DOMAIN rows
      PROVE  \E l \in cell.lvl..Last : i = Skipped(l)
  <2>1. i - N - 1 + cell.lvl \in cell.lvl..Last /\ i = Skipped(i - N - 1 + cell.lvl)
    BY <1>1, <1>5, <1>7 DEF Skipped
  <2> QED BY <2>1
<1>8. KeepsRows
  BY <1>1, <1>5 DEF KeepsRows
<1>9. ASSUME NEW l \in cell.lvl..Last
      PROVE  /\ Skipped(l) \in DOMAIN rows' /\ Skipped(l) \notin DOMAIN rows
             /\ rows'[Skipped(l)] = Row(cell.scen, Levels[l], 0, "notRun", FALSE)
  <2>1. l - cell.lvl + 1 \in 1..K /\ Skipped(l) = N + (l - cell.lvl + 1)
    BY <1>6
  <2>2. Skipped(l) \in 1..(N + K) /\ Skipped(l) \notin 1..N
    <3>1. N \in Nat /\ K \in Nat
      BY <1>1, <1>5
    <3> HIDE DEF N, K
    <3>2. \A j \in 1..K : N + j \in 1..(N + K) /\ N + j \notin 1..N
      BY <3>1
    <3> QED BY <2>1, <3>2
  <2>3. rows'[Skipped(l)] = new[l - cell.lvl + 1]
    BY <1>5, <2>1
  <2> QED BY <1>2, <1>5, <2>2, <2>3
<1> QED BY <1>7, <1>8, <1>9

\* The sweep leaves out the rest of a scenario.
LEMMA RowsAfterCeiling ==
  ASSUME TypeOK, RowsInv, StopAtCeiling
  PROVE  RowsInv'
<1>1. /\ sweep = "cells" /\ cell.lvl > 1 /\ cell.rep = 1 /\ prevPeak > 0 /\ plan' = plan
      /\ raw' = raw /\ rows' = rows \o NotRunRows(cell.lvl) /\ NextScenario
  BY DEF StopAtCeiling, CeilingReached
<1>2. /\ cell.scen \in Scenarios /\ cell.scen \in Nat /\ cell.lvl \in Nat /\ cell.lvl <= Last
      /\ Last \in Nat /\ Last >= 1 /\ Last' = Last /\ Scenarios' = Scenarios
  <2>1. cell \in [scen : Scenarios, lvl : 1..Last, rep : 1..plan.reps]
    BY DEF TypeOK
  <2>2. Last \in Nat /\ Last >= 1 /\ Last' = Last
    BY <1>1, PlanTypes DEF Last
  <2>3. cell.scen \in Nat /\ Scenarios' = Scenarios
    BY <1>1, PlanTypes DEF Scenarios
  <2> QED BY <2>1, <2>2, <2>3
<1>3. cell.lvl >= 2
  BY <1>1, <1>2
<1>4. /\ KeepsRows
      /\ \A l \in cell.lvl..Last :
           /\ Skipped(l) \in DOMAIN rows' /\ Skipped(l) \notin DOMAIN rows
           /\ rows'[Skipped(l)] = Row(cell.scen, Levels[l], 0, "notRun", FALSE)
      /\ \A i \in DOMAIN rows' : i \in DOMAIN rows \/ \E l \in cell.lvl..Last : i = Skipped(l)
  BY <1>1, SkippedRows
<1>5. \A l \in cell.lvl..Last : /\ rows'[Skipped(l)].scen = cell.scen
                                /\ rows'[Skipped(l)].level = Levels[l]
                                /\ rows'[Skipped(l)].kind = "notRun"
  <2>1. ASSUME NEW r, NEW l, r = Row(cell.scen, Levels[l], 0, "notRun", FALSE)
        PROVE  r.scen = cell.scen /\ r.level = Levels[l] /\ r.kind = "notRun"
    BY <2>1 DEF Row
  <2> QED BY <1>4, <2>1
<1>6. RowsPlaced'
  <2>1. ASSUME NEW i \in DOMAIN rows'
        PROVE  rows'[i].scen \in Scenarios /\ \E l \in 1..Last : rows'[i].level = Levels[l]
    <3>1. CASE i \in DOMAIN rows
      BY <1>4, <3>1 DEF RowsInv, RowsPlaced, KeepsRows
    <3>2. ASSUME NEW m \in cell.lvl..Last, i = Skipped(m)
          PROVE  rows'[i].scen \in Scenarios /\ \E l \in 1..Last : rows'[i].level = Levels[l]
      <4>1. m \in 1..Last
        BY <1>2, <1>3
      <4> QED BY <1>2, <1>5, <3>2, <4>1
    <3> QED BY <1>4, <3>1, <3>2
  <2> QED BY <1>2, <2>1 DEF RowsPlaced
<1>7. ASSUME NEW s, NEW l \in 1..Last, s # cell.scen \/ l < cell.lvl
      PROVE  SameLevel(s, l)
  <2>1. ASSUME NEW i \in DOMAIN rows', i \notin DOMAIN rows
        PROVE  ~(rows'[i].scen = s /\ rows'[i].level = Levels[l])
    <3>1. PICK m \in cell.lvl..Last : i = Skipped(m)
      BY <1>4, <2>1
    <3>2. rows'[i].scen = cell.scen /\ rows'[i].level = Levels[m]
      BY <1>5, <3>1
    <3>3. m \in 1..Last /\ (l < cell.lvl => l # m)
      BY <1>2, <1>3
    <3> QED BY <1>7, <3>2, <3>3, LevelsDiffer
  <2>2. RowsOf(s, l)' = RowsOf(s, l)
    BY <1>4, <2>1 DEF RowsOf, KeepsRows
  <2>3. RunsOf(s, l)' = RunsOf(s, l)
    BY <1>1 DEF RunsOf
  <2> QED BY <2>2, <2>3 DEF SameLevel
<1>8. ASSUME NEW s, s = cell.scen PROVE ScenarioDone(s)'
  <2>1. /\ BaselineRecorded(s)
        /\ \A l \in 2..Last : /\ l < cell.lvl => LevelRecorded(s, l)
                              /\ l = cell.lvl => RepsRecorded(s, l, cell.rep - 1)
                              /\ l > cell.lvl => Untouched(s, l)
    BY <1>1, <1>2, <1>8 DEF RowsInv, ScenarioUnderWay
  <2>2. BaselineRecorded(s)'
    <3>1. SameLevel(s, 1)
      BY <1>2, <1>3, <1>7
    <3> QED BY <1>1, <1>4, <2>1, <3>1, KeptLevel
  <2>3. ASSUME NEW l \in 2..(cell.lvl - 1) PROVE LevelRecorded(s, l)'
    <3>1. l \in 1..Last /\ l \in 2..Last /\ l < cell.lvl
      BY <1>2
    <3>2. SameLevel(s, l) /\ LevelRecorded(s, l)
      BY <1>7, <2>1, <3>1
    <3> QED BY <1>1, <1>4, <3>2, KeptLevel
  <2>4. ASSUME NEW l \in cell.lvl..Last PROVE LevelSkipped(s, l)'
    <3>1. Untouched(s, l)
      <4>1. CASE l = cell.lvl
        <5>1. l \in 2..Last /\ cell.rep - 1 = 0
          BY <1>1, <1>2
        <5>2. RepsRecorded(s, l, 0)
          BY <2>1, <4>1, <5>1
        <5> QED BY <5>2, NoRep
      <4>2. CASE l > cell.lvl
        <5>1. l \in 2..Last
          BY <1>1, <1>2
        <5> QED BY <2>1, <4>2, <5>1
      <4> QED BY <1>2, <4>1, <4>2
    <3>2. l \in 1..Last
      BY <1>2, <1>3
    <3>3. ASSUME NEW i \in RowsOf(s, l)' PROVE i = Skipped(l)
      <4>1. i \in DOMAIN rows' /\ rows'[i].scen = s /\ rows'[i].level = Levels[l]
        BY DEF RowsOf
      <4>2. i \notin DOMAIN rows
        <5>1. i \in DOMAIN rows => i \in RowsOf(s, l)
          BY <1>4, <4>1 DEF RowsOf, KeepsRows
        <5> QED BY <3>1, <5>1 DEF Untouched
      <4>3. PICK m \in cell.lvl..Last : i = Skipped(m)
        BY <1>4, <4>1, <4>2
      <4>4. Levels[m] = Levels[l] /\ m \in 1..Last
        BY <1>2, <1>3, <1>5, <4>1, <4>3
      <4> QED BY <3>2, <4>3, <4>4, LevelsDiffer
    <3>4. Skipped(l) \in RowsOf(s, l)' /\ rows'[Skipped(l)].kind = "notRun"
      BY <1>4, <1>5, <1>8 DEF RowsOf
    <3>5. RowsOf(s, l)' = {Skipped(l)}
      BY <3>3, <3>4
    <3>6. RunsOf(s, l)' = {}
      BY <1>1, <3>1 DEF Untouched, RunsOf
    <3> QED BY <3>4, <3>5, <3>6 DEF LevelSkipped
  <2>5. \A stop : stop = cell.lvl => RanUpTo(s, stop)'
    BY <1>2, <2>2, <2>3, <2>4 DEF RanUpTo
  <2>6. cell.lvl \in 2..(Last + 1)
    BY <1>2, <1>3
  <2> QED BY <1>2, <1>3, <2>5, <2>6 DEF ScenarioDone
<1> QED BY <1>1, <1>4, <1>6, <1>7, <1>8, RowsNextScenario

\* Every step keeps the record: the steps above by what they append, the
\* others leave it alone.
LEMMA RowsStep ==
  ASSUME TypeOK, RowsInv, [Next]_vars
  PROVE  RowsInv'
<1>1. CASE UNCHANGED sweepVars
  BY <1>1, RowsIdle DEF sweepVars, loopVars, outputVars
<1>2. CASE BadLevel \/ CellError \/ WriteEvaluation \/ WriteSummaries
  <2>1. UNCHANGED <<plan, cell, rows, raw>>
    BY <1>2 DEF BadLevel, CellError, WriteEvaluation, WriteSummaries, loopVars
  <2>2. \/ sweep' = "error"
        \/ sweep = "json" /\ sweep' = "summaries"
        \/ sweep = "summaries" /\ sweep' = "done"
    BY <1>2 DEF BadLevel, CellError, WriteEvaluation, WriteSummaries
  <2> QED BY <2>1, <2>2, RowsIdle
<1> QED
  BY <1>1, <1>2, StepKinds, RowsAfterBaseline, RowsAfterRepetition, RowsAfterCeiling

-------------------------------------------------------------------------------
(* The verdicts.                                                            *)

\* A verdict depends on the rows alone.
LEMMA SameVerdict ==
  ASSUME rows' = rows, NEW s, NEW l
  PROVE  Verdict(s, l)' = Verdict(s, l)
BY DEF Verdict

\* A finished scenario is finished while rows and files stay as they are.
LEMMA StillDone ==
  ASSUME TypeOK, UNCHANGED <<plan, rows, raw>>, \A s \in Scenarios : ScenarioDone(s)
  PROVE  \A s \in Scenarios' : ScenarioDone(s)'
<1>1. KeepsRows /\ \A s, l : SameLevel(s, l)
  BY DEF KeepsRows, SameLevel, RowsOf, RunsOf
<1>2. Scenarios' = Scenarios
  BY DEF Scenarios
<1> QED BY <1>1, <1>2, KeptScenario

\* A run that is kept is of the cell the loops are at.
LEMMA PlacedRun ==
  ASSUME TypeOK, KeepRun, plan' = plan,
         \A q \in raw : q.scen \in Scenarios /\ \E l \in 1..Last : q.level = Levels[l]
  PROVE  (\A q \in raw : q.scen \in Scenarios /\ \E l \in 1..Last : q.level = Levels[l])'
<1>1. cell.scen \in Scenarios /\ cell.lvl \in 1..Last
  BY PlanTypes DEF Scenarios, Last
<1>2. PICK kept : /\ kept.scen = cell.scen /\ kept.level = Levels[cell.lvl]
                  /\ raw' = raw \cup {kept}
  BY DEF KeepRun
<1>3. Scenarios' = Scenarios /\ Last' = Last
  BY DEF Scenarios, Last
<1>4. ASSUME NEW q \in raw' PROVE q.scen \in Scenarios /\ \E l \in 1..Last : q.level = Levels[l]
  BY <1>1, <1>2
<1> QED BY <1>3, <1>4

\* The table is written once, when every scenario is finished, with the rows as
\* they stay.
LEMMA VerdictStep ==
  ASSUME TypeOK, RowsInv, VerdictInv, [Next]_vars
  PROVE  VerdictInv'
<1> USE DEF VerdictInv
<1>1. ASSUME UNCHANGED <<plan, rows, raw, csv>>, csv # {} => sweep' \in {"done", "error"}
      PROVE  VerdictInv'
  <2>1. Scenarios' = Scenarios /\ Last' = Last
    BY <1>1 DEF Scenarios, Last
  <2>2. csv' # {} => \A s \in Scenarios' : ScenarioDone(s)'
    BY <1>1, StillDone
  <2>3. \A r \in csv' : r.sat = Verdict(r.scen, r.level)'
    BY <1>1, SameVerdict
  <2> QED BY <1>1, <2>1, <2>2, <2>3
<1>2. CASE UNCHANGED sweepVars
  BY <1>1, <1>2 DEF sweepVars, outputVars
<1>3. CASE BadLevel \/ CellError \/ WriteEvaluation
  BY <1>1, <1>3 DEF BadLevel, CellError, WriteEvaluation
<1>4. CASE EndBaseline \/ EndRepetition
  <2>1. plan' = plan /\ csv' = csv /\ sweep = "cells" /\ KeepRun
    BY <1>4 DEF EndBaseline, EndRepetition
  <2>2. csv' = {}
    BY <2>1
  <2> QED BY <2>1, <2>2, PlacedRun
<1>5. CASE StopAtCeiling
  <2>1. plan' = plan /\ raw' = raw /\ csv' = csv /\ sweep = "cells"
    BY <1>5 DEF StopAtCeiling
  <2>2. csv' = {} /\ Scenarios' = Scenarios /\ Last' = Last
    BY <2>1 DEF Scenarios, Last
  <2> QED BY <2>1, <2>2
<1>6. CASE WriteSummaries
  <2>1. /\ sweep = "summaries" /\ sweep' \in {"done", "error"} /\ csv' \in {csv, ScalingTable}
        /\ UNCHANGED <<plan, rows, raw>>
    BY <1>6 DEF WriteSummaries
  <2>2. Scenarios' = Scenarios /\ Last' = Last /\ csv = {}
    BY <2>1 DEF Scenarios, Last
  <2>3. \A s \in Scenarios' : ScenarioDone(s)'
    BY <2>1, StillDone DEF RowsInv
  <2>4. ASSUME NEW r \in ScalingTable
        PROVE  /\ \E q \in raw : q.scen = r.scen /\ q.level = r.level
               /\ r.sat = Verdict(r.scen, r.level)
    BY DEF ScalingTable
  <2>5. \A r \in csv' : /\ \E q \in raw' : q.scen = r.scen /\ q.level = r.level
                        /\ r.sat = Verdict(r.scen, r.level)'
    BY <2>1, <2>2, <2>4, SameVerdict
  <2> QED BY <2>1, <2>2, <2>3, <2>5
<1> QED BY <1>2, <1>3, <1>4, <1>5, <1>6, StepKinds

\* No row, no file and no table before the first run.
LEMMA InitRows ==
  ASSUME Init
  PROVE  RowsInv /\ VerdictInv
<1>1. rows = <<>> /\ raw = {} /\ sweep = "cells" /\ csv = {}
      /\ cell = [scen |-> 1, lvl |-> 1, rep |-> 1] /\ Last \in Nat /\ Last >= 1
  BY SweepAssumption DEF Init, Last
<1>2. \A s, l : Untouched(s, l)
  BY <1>1 DEF Untouched, RowsOf, RunsOf
<1>3. ASSUME NEW s PROVE ScenarioUnderWay(s)
  <2>1. RowsOf(s, 1) = {} /\ RunsOf(s, 1) = {}
    BY <1>2 DEF Untouched
  <2>2. {r.rep : r \in RunsOf(s, 1)} = {} /\ 1..(cell.rep - 1) = {}
    BY <1>1, <2>1
  <2>3. cell.lvl = 1 /\ \A l \in 2..Last : l > 1
    BY <1>1
  <2> QED BY <1>2, <2>1, <2>2, <2>3 DEF ScenarioUnderWay
<1>4. RowsPlaced
  BY <1>1 DEF RowsPlaced
<1>5. \A s \in Scenarios : ~(s < cell.scen)
  BY <1>1 DEF Scenarios
<1> QED BY <1>1, <1>2, <1>3, <1>4, <1>5 DEF RowsInv, VerdictInv

\* The inductive invariant of the sweep: its loops, its samples, and what it
\* has recorded of the matrix (commands.go:153-339).
THEOREM Invariance == Spec => []IInv
<1>1. Init => RowsInv /\ VerdictInv
  BY InitRows
<1>2. LoopInv /\ RowsInv /\ VerdictInv /\ [Next]_vars => RowsInv' /\ VerdictInv'
  BY RowsStep, VerdictStep DEF LoopInv
<1>3. Spec => [](RowsInv /\ VerdictInv)
  BY <1>1, <1>2, LoopInvariance, PTL DEF Spec
<1>4. LoopInv /\ SeriesInv /\ RowsInv /\ VerdictInv => IInv
  BY DEF IInv
<1> QED BY <1>3, <1>4, LoopInvariance, SeriesInvariance, PTL

\* A sweep that is evaluated accounts for every cell of its matrix, for every
\* number of scenarios, levels and repetitions: the rows and the files follow
\* the loops, and a level is left out only with all that come after it in its
\* scenario (commands.go:184-258).
THEOREM RowsAreComplete == Spec => []RowsComplete
<1>1. IInv => RowsComplete
  <2> SUFFICES ASSUME IInv, sweep \in {"summaries", "done"}, NEW s \in Scenarios, NEW l \in 1..Last
               PROVE  /\ Accounted(s, l)
                      /\ LevelSkipped(s, l) => \A m \in l..Last : LevelSkipped(s, m)
    BY DEF RowsComplete
  <2>1. PICK stop \in 2..(Last + 1) : RanUpTo(s, stop)
    BY DEF IInv, RowsInv, ScenarioDone
  <2>2. Last \in Nat
    BY PlanTypes DEF IInv, LoopInv, Last
  <2>3. CASE l >= stop
    <3>1. \A m \in l..Last : m \in stop..Last
      BY <2>2, <2>3
    <3>2. \A m \in l..Last : LevelSkipped(s, m)
      BY <2>1, <3>1 DEF RanUpTo
    <3>3. l \in l..Last
      BY <2>2
    <3> QED BY <3>2, <3>3 DEF Accounted
  <2>4. CASE l = 1
    <3>1. BaselineRecorded(s)
      BY <2>1 DEF RanUpTo
    <3>2. ~LevelSkipped(s, 1)
      BY <3>1 DEF BaselineRecorded, LevelSkipped
    <3> QED BY <2>4, <3>1, <3>2 DEF Accounted
  <2>5. CASE l \in 2..(stop - 1)
    <3>1. LevelRecorded(s, l)
      BY <2>1, <2>5 DEF RanUpTo
    <3>2. ~LevelSkipped(s, l)
      BY <3>1 DEF LevelRecorded, RepsRecorded, LevelSkipped
    <3>3. l # 1
      BY <2>5
    <3> QED BY <3>1, <3>2, <3>3 DEF Accounted
  <2> QED BY <2>2, <2>3, <2>4, <2>5
<1> QED BY <1>1, Invariance, PTL

\* The rows a verdict is taken from have a last one.
LEMMA LastRow ==
  ASSUME TypeOK, NEW S \in (SUBSET DOMAIN rows) \ {{}}
  PROVE  Max(S) \in S /\ \A i \in S : i <= Max(S)
<1>1. DOMAIN rows = 1..Len(rows) /\ Len(rows) \in Nat
  BY DEF TypeOK
<1>2. IsFiniteSet(S) /\ S \in SUBSET Nat /\ S # {}
  <2>1. IsFiniteSet(DOMAIN rows)
    BY <1>1, FS_Interval
  <2> QED BY <1>1, <2>1, FS_Subset
<1>3. \E m \in S : \A i \in S : i <= m
  BY <1>2, LargestNat
<1> QED BY <1>3 DEF Max

\* The last row of a level that ran is that of its last repetition.
LEMMA LastRep ==
  ASSUME TypeOK, NEW s, NEW l, LevelRecorded(s, l)
  PROVE  /\ Max(RowsOf(s, l)) \in RowsOf(s, l)
         /\ rows[Max(RowsOf(s, l))].kind = "run"
         /\ rows[Max(RowsOf(s, l))].rep = plan.reps
<1> DEFINE S == RowsOf(s, l)
<1>1. /\ \A i \in S : rows[i].kind = "run"
      /\ \A i, j \in S : i < j => rows[i].rep < rows[j].rep
      /\ {rows[i].rep : i \in S} = 1..plan.reps
  BY DEF LevelRecorded, RepsRecorded
<1>2. S \in SUBSET DOMAIN rows /\ plan.reps \in Nat /\ plan.reps >= 1
      /\ \A i \in DOMAIN rows : i \in Nat
  BY CellTypes DEF RowsOf, TypeOK
<1> HIDE DEF S
<1>3. plan.reps \in 1..plan.reps
  BY <1>2
<1>4. PICK i \in S : rows[i].rep = plan.reps
  BY <1>1, <1>3
<1>5. Max(S) \in S /\ i <= Max(S)
  BY <1>2, <1>4, LastRow
<1>6. rows[Max(S)].rep \in 1..plan.reps
  BY <1>1, <1>5
<1>7. ~(i < Max(S))
  <2>1. i < Max(S) => plan.reps < rows[Max(S)].rep
    BY <1>1, <1>4, <1>5
  <2> QED BY <1>2, <1>6, <2>1
<1>8. i = Max(S)
  <2>1. i \in Nat /\ Max(S) \in Nat
    BY <1>2, <1>5
  <2> QED BY <1>5, <1>7, <2>1
<1> QED BY <1>1, <1>4, <1>5, <1>8 DEF S

\* A verdict of the table is the evaluation's verdict on the baseline or on the
\* last repetition of the run's own scenario and level: the table is written
\* when every scenario is finished, so that a level with a run has such a row,
\* and no other level has the same number (commands.go:293-334).
THEOREM VerdictsHold == Spec => []VerdictsAgree
<1>1. IInv => VerdictsAgree
  <2> SUFFICES ASSUME IInv, NEW r \in csv
               PROVE  \E i \in DOMAIN rows :
                        /\ rows[i].scen = r.scen /\ rows[i].level = r.level
                        /\ rows[i].sat = r.sat
                        /\ \/ rows[i].kind = "baseline"
                           \/ rows[i].kind = "run" /\ rows[i].rep = plan.reps
    BY DEF VerdictsAgree
  <2> DEFINE mine == {i \in DOMAIN rows : rows[i].scen = r.scen /\ rows[i].level = r.level}
  <2>1. TypeOK /\ r.sat = (mine # {} /\ rows[Max(mine)].sat)
    BY DEF IInv, LoopInv, VerdictInv, Verdict
  <2>2. PICK q \in raw : q.scen = r.scen /\ q.level = r.level
    BY DEF IInv, VerdictInv
  <2>3. PICK l \in 1..Last : q.scen \in Scenarios /\ q.level = Levels[l]
    BY DEF IInv, VerdictInv
  <2>4. mine = RowsOf(r.scen, l) /\ RunsOf(r.scen, l) # {}
    BY <2>2, <2>3 DEF RowsOf, RunsOf
  <2>5. PICK stop \in 2..(Last + 1) : RanUpTo(r.scen, stop)
    BY <2>2, <2>3 DEF IInv, VerdictInv, ScenarioDone
  <2>6. Last \in Nat
    BY <2>1, PlanTypes DEF Last
  <2>7. ~(l \in stop..Last)
    BY <2>4, <2>5 DEF RanUpTo, LevelSkipped
  <2>8. /\ Max(mine) \in mine
        /\ \/ rows[Max(mine)].kind = "baseline"
           \/ rows[Max(mine)].kind = "run" /\ rows[Max(mine)].rep = plan.reps
    <3>1. CASE l = 1
      <4>1. PICK i \in DOMAIN rows : mine = {i} /\ rows[i].kind = "baseline"
        BY <2>4, <2>5, <3>1 DEF RanUpTo, BaselineRecorded
      <4>2. Max(mine) \in mine
        BY <2>1, <4>1, LastRow
      <4> QED BY <4>1, <4>2
    <3>2. CASE l \in 2..(stop - 1)
      <4>1. LevelRecorded(r.scen, l)
        BY <2>5, <3>2 DEF RanUpTo
      <4> QED BY <2>1, <2>4, <4>1, LastRep
    <3> QED BY <2>6, <2>7, <3>1, <3>2
  <2>9. rows[Max(mine)].sat = r.sat
    <3>1. Max(mine) \in DOMAIN rows /\ mine # {}
      BY <2>8
    <3> HIDE DEF mine
    <3>2. \A i \in DOMAIN rows : rows[i].sat \in BOOLEAN
      <4>1. rows \in Seq(RowType)
        BY <2>1 DEF TypeOK
      <4>2. \A row \in RowType : row.sat \in BOOLEAN
        BY DEF RowType
      <4>3. \A i \in DOMAIN rows : rows[i] \in RowType
        BY <4>1
      <4> QED BY <4>2, <4>3
    <3> QED BY <2>1, <3>1, <3>2, Zenon
  <2>10. /\ Max(mine) \in DOMAIN rows
         /\ rows[Max(mine)].scen = r.scen /\ rows[Max(mine)].level = r.level
    BY <2>8
  <2> HIDE DEF mine
  <2> QED BY <2>8, <2>9, <2>10
<1> QED BY <1>1, Invariance, PTL
===============================================================================
