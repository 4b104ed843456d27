SPECIFICATION FairRtosSpec
CONSTANTS
  configCPU_CLOCK_HZ = 38
  configTICK_RATE_HZ = 2
  Costs <- MCCosts
  CounterSize = 128
  CheckEvery = 3
  Enough = 2
  Delays = 3
  DelayTicks = 2
INVARIANTS
  RtosTypeOK
  CriticalSections
  ContextsIntact
  NoFailure
  PreemptionNeeded
  TrapCount
PROPERTIES
  RoundRobin
  VerdictStands
  Terminates
