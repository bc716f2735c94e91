\* Three levels, two repetitions of one scenario or two scenarios; one fault.
SPECIFICATION FairSpec
CONSTANTS
  Controller = 1
  TargetPid = 0
  RAM = {1, 2}
  Snapshots <- MCSnapshots
  Idle <- MCIdle
  Outcomes <- MCOutcomes
  MaxSamples = 2
  MaxFaults = 1
  Levels <- MCLevels
  Plans <- MCPlans
  Ceiling = 1
INVARIANTS
  IInv
  SafetyCeiling
  RowsComplete
  VerdictsAgree
  AccountedOnce
PROPERTIES
  SweepEnds
