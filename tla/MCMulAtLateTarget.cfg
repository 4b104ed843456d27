SPECIFICATION CoreSpec
CONSTANTS
  Words <- MCWords
  Regs <- MCRegs
  Programs <- MulAtLateTarget
  ImemDataReads = FALSE
  Region <- MCRegion
  LoadValues <- MCLoadValues
  SentLimit = 4
  DivSteps = 1
  Interrupts = {FALSE}
INVARIANTS
  MulDivFresh
