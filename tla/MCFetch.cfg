SPECIFICATION FetchSpec
CONSTANTS
  Words <- MCWords
  Regs <- MCRegs
  Programs <- MCPrograms
  ImemDataReads = FALSE
INVARIANTS
  FetchTypeOK
  IdOnPath
  FetchInv
PROPERTIES
  OneBubbleRecovery
