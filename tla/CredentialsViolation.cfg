SPECIFICATION IntegrationSpec
CONSTANTS
  Executables = {e1}
  Ports = {1}
  MaxGenerations = 1
  OwnsNotify = TRUE
  Upgrades = TRUE
  RollbackFaults = FALSE
  Legacy = Legacy
  NoPlist = NoPlist
  Foreign = Foreign
  PriorServices <- MCPriorServices
  NoTxn = NoTxn
  NoSettings = NoSettings
  NoJournal = NoJournal
  NoConfig = NoConfig
  NoCall = NoCall
INVARIANT
  ConfiguredCredentialsExist
