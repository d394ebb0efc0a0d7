SPECIFICATION FairSpec
CONSTANTS
  Handlers = {h1}
  Tasks = {t1, t2}
  RetryLimit = 2
  Coordinated = TRUE
  Prompt = TRUE
  MaxGeneration = 1
  MaxReplays = 1
  MaxRequests = 12
  MaxFaults = 2
  MaxCrashes = 1
PROPERTIES
  ConvergesWhenQuiet
  StaleReservationReclaimed
  RefreshesEnd
