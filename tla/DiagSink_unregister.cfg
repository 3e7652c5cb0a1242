SPECIFICATION DiagSpec
CONSTANTS
  t1 = t1
  t2 = t2
  s1 = s1
  s2 = s2
  warning = warning
  error = error
  NoSink = NoSink
  NoThread = NoThread
  Threads <- TwoThreads
  Sinks <- TwoSinks
  Classes <- TwoClasses
  Careful = TRUE
  Prompt = TRUE
INVARIANTS
  TypeOK
  FreedSinkUntouched
  OnlyAskedClasses
CHECK_DEADLOCK FALSE
