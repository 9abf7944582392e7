SPECIFICATION Spec
CONSTANTS
  o1 = o1
  t1 = t1
  t2 = t2
  Nobody = Nobody
  Others <- MCOthers
  Tasks <- MCTasks
  Records <- MCRecords
  Slack = 1
  Timeout = 1
  MaxRetries = 1
  Skews <- MCSkews
  MaxClock = 2
  MaxFaults = 1
CONSTRAINT StillOn
INVARIANTS
  TypeOK
  ConfirmedIsTrue
  LandsOnce
  
CHECK_DEADLOCK FALSE
