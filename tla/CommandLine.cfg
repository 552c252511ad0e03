CONSTANTS
  UmbralWarn = 50
  UmbralBlock = 80
  C2MaxContrib = 10
  WBase <- MCWBase
  LlmConfMin = 50
  Names = {1, 2, 3, 4}
  Normal <- MCNormal
  Manifests <- MCManifests
  Worlds <- MCWorlds
  Caches <- MCCaches
  Assessments <- MCAssessments
  Configs <- MCConfigs
  ConcurrenciaMax = 2
  ReintentosRed = 1
  OsvBatchMax = 2
  LlmMaxCalls = 1
  Faults = {"parse", "transient", "anomaly", "total", "osv", "watchlist", "source", "llm"}
  NoReport = NoReport
  NoAssessment = NoAssessment
  Commands <- MCCommands
  Extension <- MCExtension
  Stdin = "-"
  MaxDeps = 3
  MaxIncludeDepth = 2
  NoExit = NoExit
SPECIFICATION CliSpec
INVARIANTS TypeOK AllowedIsVerified BlockedOnEvidence BudgetCutsTheTail NoFetchBehindTheReport
INVARIANTS NothingLeftOut RejectedForCause ExitZeroIsEarned
PROPERTIES Layer4OnlyWarns PromiseSpec EveryStepCounts 
CHECK_DEADLOCK FALSE
