SPECIFICATION RasSpec
CONSTANTS
  Depth = 8
  Link <- MCLink
INVARIANTS
  RasInv
PROPERTIES
  ImplementsStack
  ShadowAhead
