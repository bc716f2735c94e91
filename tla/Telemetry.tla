------------------------------- MODULE Telemetry -------------------------------
(***************************************************************************)
(* One run as the sweep sees it: the system sampler and the process monitor *)
(* beside the driver, and the files written when it has returned            *)
(* (internal/controller, metrics/sampler.go, process/monitor.go,            *)
(* accounting/aggregator.go, internal/results). What the driver and the     *)
(* workers do is the subject of ClosedLoop and BenchRun.                    *)
(***************************************************************************)
EXTENDS Accounting

CONSTANTS
  RAM,           \* the values of used memory a sample can show
  Snapshots,     \* the process tables a snapshot can show
  Idle,          \* those it can show before there are workers
  Outcomes,      \* what the recorder may amount to: [p95, hot]
  MaxSamples,    \* bound: samples and snapshots in a run
  MaxFaults      \* bound: how many things go wrong in a sweep

ASSUME TelemetryAssumption ==
  /\ RAM \subseteq Nat \ {0}
  /\ Idle \subseteq Snapshots
  /\ Outcomes \subseteq [p95 : Nat, hot : BOOLEAN]
  /\ MaxSamples \in Nat /\ MaxFaults \in Nat

\* With parents in a circle the monitor would not return (see Endless). Process
\* 0, which only Windows lists, is its own parent.
ASSUME SnapshotsAssumption ==
  \A snap \in Snapshots : IsTable(snap) /\ ~Endless(snap)

VARIABLES
  run,       \* where the controller is in Run
  sampler,   \* "off", "on", "stopped"
  ram,       \* the sampler's samples
  peakRAM,   \* its running peak
  sysPeak,   \* the peak in the aggregates the summary is built from
  monitor,   \* "off", "seeding", "ticking", "stopped"
  base,      \* the aggregator's baseline, as a set: {} until haveBase
  series,    \* the aggregator's samples
  cancelled, \* runCtx is done when the driver returns
  summary,   \* the summary: [peak, p95, hot]
  resource,  \* the resource summary
  written,   \* the files the run has left: "system", "process", "summary", "resource"
  faults     \* what has gone wrong so far

samplerVars == <<sampler, ram, peakRAM, sysPeak>>
monitorVars == <<monitor, base, series>>
fileVars    == <<cancelled, summary, resource, written>>
runVars     == <<run, samplerVars, monitorVars, fileVars>>

NoSummary  == [peak |-> 0, p95 |-> 0, hot |-> FALSE]
NoResource == [rss |-> NoStats, delta |-> 0]
Sampled    == [s \in Snapshots |-> Aggregate(s)]

\* No run.
Fresh ==
  /\ run = "none"
  /\ sampler = "off" /\ ram = <<>> /\ peakRAM = 0 /\ sysPeak = 0
  /\ monitor = "off" /\ base = {} /\ series = <<>>
  /\ cancelled = FALSE /\ summary = NoSummary /\ resource = NoResource
  /\ written = {}

Clear ==
  /\ run' = "none"
  /\ sampler' = "off" /\ ram' = <<>> /\ peakRAM' = 0 /\ sysPeak' = 0
  /\ monitor' = "off" /\ base' = {} /\ series' = <<>>
  /\ cancelled' = FALSE /\ summary' = NoSummary /\ resource' = NoResource
  /\ written' = {}

Calm == UNCHANGED faults

Fails ==
  /\ faults < MaxFaults
  /\ faults' = faults + 1

-------------------------------------------------------------------------------
(* The window.                                                             *)

\* The baseline is taken before any worker exists; then sampler and monitor
\* are started. A snapshot that fails leaves no baseline.
StartTelemetry ==
  /\ run' = "driving"
  /\ sampler' = "on"
  /\ monitor' = "seeding"
  /\ \/ \E s \in Idle : base' = {Sampled[s]} /\ Calm
     \/ base' = {} /\ Fails
  /\ UNCHANGED <<ram, peakRAM, sysPeak, series, fileVars>>

Larger(a, b) == IF a > b THEN a ELSE b

Room == Len(ram) + Len(series) < MaxSamples

\* Mutant: the running peak is the last sample.
SampleSystemLast ==
  /\ sampler = "on"
  /\ Room
  /\ \E v \in RAM : ram' = Append(ram, v) /\ peakRAM' = v
  /\ UNCHANGED <<run, sampler, sysPeak, monitorVars, fileVars, faults>>

\* One tick of the sampler. A collector that fails leaves the tick out.
SampleSystem ==
  /\ sampler = "on"
  /\ Room
  /\ \E v \in RAM : ram' = Append(ram, v) /\ peakRAM' = Larger(peakRAM, v)
  /\ UNCHANGED <<run, sampler, sysPeak, monitorVars, fileVars, faults>>

SampleNothing ==
  /\ sampler = "on"
  /\ UNCHANGED <<runVars, faults>>

\* Record: the first sample is the baseline if there is none.
Record(s) ==
  /\ series' = Append(series, s)
  /\ base' = IF base = {} THEN {s} ELSE base

\* The monitor takes one snapshot before it looks at the context.
SeedMonitor ==
  /\ monitor = "seeding"
  /\ monitor' = "ticking"
  /\ \/ (\E s \in Snapshots : Record(Sampled[s])) /\ Calm
     \/ UNCHANGED <<base, series>> /\ Fails
  /\ UNCHANGED <<run, samplerVars, fileVars>>

SnapshotProcesses ==
  /\ monitor = "ticking"
  /\ Room
  /\ \E s \in Snapshots : Record(Sampled[s])
  /\ UNCHANGED <<run, monitor, samplerVars, fileVars, faults>>

\* The driver returns: at the end of the window, or because of a signal.
DriverReturns ==
  /\ run = "driving"
  /\ run' = "stopSampler"
  /\ \/ cancelled' = FALSE /\ Calm
     \/ cancelled' = TRUE /\ Fails
  /\ UNCHANGED <<samplerVars, monitorVars, summary, resource, written>>

\* Mutant: the sampler is waited for before its context is cancelled, which
\* happens only once the monitor has stopped.
SamplerStopsLast ==
  /\ run = "stopSampler"
  /\ monitor = "stopped"
  /\ sampler' = "stopped"
  /\ run' = "stopMonitor"
  /\ UNCHANGED <<ram, peakRAM, sysPeak, monitorVars, fileVars, faults>>

\* Each is cancelled and waited for; until it sees that it may tick once more.
SamplerStops ==
  /\ run = "stopSampler"
  /\ sampler' = "stopped"
  /\ run' = "stopMonitor"
  /\ UNCHANGED <<ram, peakRAM, sysPeak, monitorVars, fileVars, faults>>

MonitorStops ==
  /\ run = "stopMonitor"
  /\ monitor = "ticking"
  /\ monitor' = "stopped"
  /\ run' = "writeRun"
  /\ UNCHANGED <<samplerVars, base, series, fileVars, faults>>

-------------------------------------------------------------------------------
(* The files.                                                              *)

\* WriteRun: the directory, the metadata and the CSVs of the recorder, the
\* first error ends the run.
WriteRun ==
  /\ run = "writeRun"
  /\ \/ run' = "writeCSVs" /\ Calm
     \/ run' = "error" /\ Fails
  /\ UNCHANGED <<samplerVars, monitorVars, fileVars>>

\* The CSVs of the sampler and of the monitor; an error is a warning, and one
\* fault may cost either file or both. The sampler publishes its aggregates only
\* after its file is complete.
WriteCSVs ==
  /\ run = "writeCSVs"
  /\ run' = "writeSummary"
  /\ \/ written' = {"system", "process"} /\ Calm
     \/ written' \in {{}, {"system"}, {"process"}} /\ Fails
  /\ sysPeak' = IF "system" \in written' THEN peakRAM ELSE sysPeak
  /\ UNCHANGED <<sampler, ram, peakRAM, monitorVars, cancelled, summary, resource>>

\* BuildSummary and the aggregates; without the file there is no result.
WriteSummary ==
  /\ run = "writeSummary"
  /\ \E o \in Outcomes :
       summary' = [peak |-> sysPeak, p95 |-> o.p95, hot |-> o.hot]
  /\ \/ /\ written' = written \cup {"summary"}
        /\ run' = "writeResource"
        /\ Calm
     \/ /\ written' = written
        /\ run' = "error"
        /\ Fails
  /\ UNCHANGED <<samplerVars, monitorVars, cancelled, resource>>

Totals == [i \in DOMAIN series |-> series[i].benchmark]

BaseTotal == IF base = {} THEN 0 ELSE (CHOOSE s \in base : TRUE).benchmark

\* BuildResourceSummary; an error is a warning. A cancelled run has its files,
\* and reports the cancellation.
WriteResource ==
  /\ run = "writeResource"
  /\ resource' = [rss |-> Stats(Totals), delta |-> Delta(Totals, BaseTotal)]
  /\ \/ written' = written \cup {"resource"} /\ Calm
     \/ written' = written /\ Fails
  /\ run' = IF cancelled THEN "error" ELSE "ok"
  /\ UNCHANGED <<samplerVars, monitorVars, cancelled, summary>>

\* What the run does to its end, and what happens beside it.
RunStep ==
  \/ SeedMonitor
  \/ DriverReturns
  \/ SamplerStops
  \/ MonitorStops
  \/ WriteRun
  \/ WriteCSVs
  \/ WriteSummary
  \/ WriteResource

Tick ==
  \/ SampleSystem
  \/ SampleNothing
  \/ SnapshotProcesses
===============================================================================
