\* Two scenarios, three levels, two repetitions; the memory is over the ceiling.
SPECIFICATION FairSpec
CONSTANTS
  Controller = 1
  TargetPid = 0
  RAM = {2}
  Snapshots <- MCIdle
  Idle <- MCIdle
  Outcomes <- MCClaimOutcomes
  MaxSamples = 2
  MaxFaults = 0
  Levels <- MCLevels
  Plans <- MCClaimPlans
  Ceiling = 1
PROPERTIES
  SweepAsDocumented
