SPECIFICATION FairSpec
CONSTANTS
  Nodes = {n1, n2}
  Workers = {w1, w2}
  Users = {u1}
  Free = free
  MaxClock = 2
  MaxFaults = 1
INVARIANTS  QuietIsCurrent
PROPERTIES ChangeArrives
CHECK_DEADLOCK FALSE
