SPECIFICATION Spec
CONSTANTS
  Gateways = {g1}
  Domains = {d1, d2}
  None = none
  NodeIps = 1
  SpfLimit = 2
  MaxPools = 2
  MaxPort = 2
  MaxEdits = 4
  MaxFaults = 1
INVARIANTS MailLeavesAsAssigned  
CHECK_DEADLOCK FALSE
