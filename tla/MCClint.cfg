SPECIFICATION ClintSpec
CONSTANTS
  Half = 4
  MaxAge = 9
  Goals <- MCGoals
INVARIANTS
  ClintInv
  TimerSettles
  NoEarlyTimer
  NoTornTime
