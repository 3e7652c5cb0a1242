SPECIFICATION Spec
CONSTANTS
  m1 = m1
  m2 = m2
  None = None
  Timers <- Two
  Delays <- Short
  Sec = 3
  MaxRearms = 2
  MaxSteps = 1
  Horizon = 5
INVARIANTS
  TypeOK
  NoTimerForgotten
  NoStrayTimer
  NeverEarly
SYMMETRY Symmetry
CHECK_DEADLOCK FALSE
