SPECIFICATION MultiSendSpec
CONSTANTS
  j1 = j1
  j2 = j2
  a = a
  b = b
  c = c
  NoJob = NoJob
  Jobs <- MCJobs
  Terminals <- MCTerminals
  Requests <- MCRequests
PROPERTY CancelStops
CHECK_DEADLOCK FALSE
