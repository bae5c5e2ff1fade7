CONSTANTS
  Threads = {t1, t2}
  Roots <- MCRoots
SPECIFICATION Spec
CHECK_DEADLOCK FALSE
INVARIANT EveryCallAnswered
