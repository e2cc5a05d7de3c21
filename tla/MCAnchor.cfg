SPECIFICATION FairSpec
CONSTANTS
  w1 = w1
  w2 = w2
  Workers <- MCOneWorker
  Hooks = 1
  MaxFaults = 1
PROPERTY ReclamationFollows
CHECK_DEADLOCK FALSE
