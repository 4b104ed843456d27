SPECIFICATION CoreSpec
CONSTANTS
  Words <- MCWords
  Regs <- MCRegs
  Programs <- RomReadAtTarget
  ImemDataReads = TRUE
  Region <- MCRegion
  LoadValues <- MCLoadValues
  SentLimit = 4
  DivSteps = 1
  Interrupts = {FALSE}
INVARIANTS
  IdOnPath
