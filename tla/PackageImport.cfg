CONSTANTS
  Threads = {t1, t2}
  Roots <- MCRoots
SPECIFICATION Spec
CHECK_DEADLOCK FALSE
INVARIANT TimeFuncsReflected
PROPERTIES
  CallersAnswered
  FailsOnlyIfBroken
  ImportsEnd
