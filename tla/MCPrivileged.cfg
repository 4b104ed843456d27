SPECIFICATION FairPrivSpec
CONSTANTS
  Bits <- MCBits
  HighBits <- MCHighBits
  CounterBits <- MCCounterBits
  Programs <- MCPrograms
  Targets <- MCTargets
  Faults <- MCFaults
  Irqs <- MCIrqs
  Times <- MCTimes
INVARIANTS
  PrivTypeOK
  AlignedSlowPath
PROPERTIES
  ImplementsMachineMode
  InterruptsServed
