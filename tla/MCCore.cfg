SPECIFICATION FairCoreSpec
CONSTANTS
  Words <- MCWords
  Regs <- MCRegs
  Programs <- CorePrograms
  ImemDataReads = TRUE
  Region <- MCRegion
  LoadValues <- MCLoadValues
  SentLimit = 4
  DivSteps = 1
  Interrupts = {FALSE, TRUE}
INVARIANTS
  CoreTypeOK
  BusMatchesMem
  MulDivFresh
  IdOnPath
  SlowPathAlone
PROPERTIES
  ImplementsMachine
  Progress
