SPECIFICATION BusSpec
CONSTANTS
  ByteSize = 4
  ImemWords = 2
  DmemWords = 2
  Data <- MCData
  Requested <- MCRequested
  Rom <- MCRom
INVARIANTS
  BusTypeOK
  AnswersBelong
PROPERTIES
  AnswersInTwoCycles
  ImplementsByteMemory
