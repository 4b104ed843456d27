SPECIFICATION CoreSpec
CONSTANTS
  Words <- MCWords
  Regs <- MCRegs
  Programs <- BranchInLastWord
  ImemDataReads = FALSE
  Region <- MCRegion
  LoadValues <- MCLoadValues
  SentLimit = 4
  DivSteps = 1
  Interrupts = {FALSE}
PROPERTIES
  ImplementsMachine
