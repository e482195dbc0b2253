SPECIFICATION Spec
VIEW View
CONSTANTS
  Decisions = {1, 2}
  Window = 2
  MaxTime = 3
  MaxSubmitted = 2
  MaxViewed = 3
  Skills = {1, 2}
  Scores = {0, 1, 2, 3}
  Subjects = {"General", "math"}
  OwnSubject <- MCOwnSubject
  Configs <- MCConfigs
  Payloads <- MCPayloads
  MaxVersions = 3
  GapThreshold = 1
  AbsoluteThreshold = 2
  MaxGaps = 1
  GiftedMastery = 2
  MinSkillsForGifted = 1
  MinAdvance = 1
  MinEvidence = 2
  LevelBounds = {0, 1, 2}
  RiskBelow = 1
  RetentionBelow = 2
  AtRiskFrom = 3
  ElevatedFrom = 2
  StruggleBelow = 1
  Others <- MCOthers
  KeyClass <- MCKeyClass
  Samples <- MCSamples
  Orgs = {1, 2}
  MappingBodies <- MCMappingBodies
  OldFile <- MCOldFile
  Files <- MCFiles
  HeaderField <- MCHeaderField
  ColumnKind <- MCColumnKind
  SourceDefault <- MCSourceDefault
  Workers = 2
  MaxCommits = 2
  Conditions <- MCConditions
  RuleDocuments <- MCRuleDocuments
  RuleStates <- MCRuleStates
  ContextSkills = {0, 7}
  MaxStates = 2
  Browsers = {1, 2}
  AddressOf <- MCAddressOf
  Deployments <- MCDeployments
  Ttl = 1
  LoginWindow = 1
  MaxFailures = 2
  MaxClock = 4
  MaxAttempts = 5
  MaxCalls = 1
  MaxDeploys = 1
  Endpoints = {"signals", "decisions", "state", "list", "ingestion", "trajectory", "summary"}
  MaxFaults = 2
  RoutingConfigs <- MCRoutingConfigs
  RoutingFiles <- MCRoutingFiles
  MaxRoutingWrites = 2
  OvTypes = {"intervene", "advance"}
  OvLearners = {1, 2}
  OvNeedles <- MCOvNeedles
  OvRanges = {1, 2, 3}
  DefaultRange = 2
  OvSample = 1
  ShortDay = 2
  FirstDay = 1
  LastDay = 3
  MaxHistory = 2
  Directories <- MCDirectories
  PutBodies <- MCPutBodies
  EventTypes = {"created", "graded"}
  Deliveries <- MCDeliveries
  ConnAdmins = {1, 2}
  MaxConnWrites = 3
  MaxDelivered = 2
  Ranked = {1, 2}
  MaxWrites = 2
  MaxLoads = 2
INVARIANTS
  DeskAgrees
  StateIsOfSignals
  ReportsFollowState
  ChecksForetell
  UploadKeepsRows
  ReceiptsExplain
  AccessIsOfLogin
  RequestsAnswered
  RoutesHaveCause
  OverviewAgrees
  ConnectorsAsShown
  LogIsShown
CHECK_DEADLOCK FALSE
