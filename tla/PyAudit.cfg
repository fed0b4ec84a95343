SPECIFICATION FairAuditSpec
CONSTANTS
  Jobs <- MCJobs
  Operations <- MCOperations
  Timeout = 1
  Slack = 1
  Start = 7
  MaxCount = 3
  MaxSamples = 1
  MaxTaken = 200
INVARIANTS
  OutcomeIsTrue
  TimeoutMeansAsked
  NoProcessLeftOver
  ReportIsTrue
  FingerprintIsTrue
PROPERTIES
  AuditEnds
CHECK_DEADLOCK FALSE
