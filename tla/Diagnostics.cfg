\* Two reports, a death, a failure, a request of the player.
SPECIFICATION DiagnosticsSpec
CONSTANTS
  MaxReports = 2
  MaxRequests = 1
  MaxDeaths = 1
  MaxFailures = 1
INVARIANTS
  EvidenceComplete
  NoForeignLogs
  StatusTellsSession
PROPERTIES
  
  OperationsEnd
CHECK_DEADLOCK FALSE
