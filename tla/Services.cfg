SPECIFICATION Spec
CONSTANTS
  p = p
  solo = solo
  q = q
  sweepP = sweepP
  sweepQ = sweepQ
  com1 = com1
  com2 = com2
  com3 = com3
  com4 = com4
  fork = fork
  pluginA = pluginA
  pluginB = pluginB
  ruleA = ruleA
  ruleB = ruleB
  older = older
  newer = newer
  None = None
  Broken = Broken
  Scanner = {p, q}
  Check = {"audit", "firewall"}
  Host <- Hosts
  Later <- Conditions
  MaxScans = 3
  MaxChanges = 2
  MaxMishaps = 1
  Operator = {p, q}
  Absent = Absent
  Plain = Plain
  Torn = Torn
  Edited = Edited
  MaxCommands = 3
  MaxBreaks = 1
  Owner = {p, q}
  Sweeper = {sweepP, sweepQ}
  Nobody = Nobody
  Places <- AllPlaces
  MaxKills = 1
  OutputCap = 1
  MaxOutput = 2
  Refresh = {p, q}
  Reader = {solo}
  Commit = {com1, com2, com3, com4, fork}
  Precedes <- History
  Contents <- Lists
  Plugin = {pluginA, pluginB}
  NoFile = NoFile
  Garbage = Garbage
  MaxRefreshes = 3
  MaxLosses = 1
  Analysis = {solo}
  Rule = {ruleA, ruleB}
  Scope <- Directories
  Subject = pluginA
  Target = {pluginA, pluginB}
  Version = {older, newer}
  Findings <- Shows
  Documents <- AllDocuments
  Undeclared = {}
  Nothing = Nothing
  MaxRecords = 1
  MaxMoves = 2
  MaxAnalyses = 2
  Top = "top"
  Path = {"d", "d/.git", "d/.git/h", "d/bin", "d/run", "main", "manifest",
          "odd"}
  Order <- Paths3
  Parent <- InDirectory
  Spelled <- Spelling
  Candidates <- Loads
  Trees <- AllTrees
  Edits <- AllEdits
  Bases = {"top", "d"}
  LimitSets <- AllLimits
  ChildCap = 4
  SampleBytes = 2
  MaxEdits = 1
  Void = Void
  Renders <- AllReports
  ListCap = 4
  GapCap = 1
  ExposureCap = 1
  ByteLimit = 3
  Scan = {p, q}
  Source = {"a", "b"}
  Pin = {"r1", "r2", "r3"}
  Format <- Formats
  Ever <- EverHas
  Manifests <- ManifestsOf
  Wishes <- AllWishes
  Quota = 3
  Unmade = Unmade
  MaxTroubles = 2
  Item = {"git", "git/HEAD", "git/config", "git/hooks", "git/hooks/h",
          "git/hooks/i", "git/packed", "lib", "lib/x", "qml", "sub"}
  Sorted <- Visits
  Within <- ItemIn
  PluginRoot = "root"
  NameOf <- ItemNames
  Disks <- AllDisks
  Becomes <- AllBecomes
  CapSets <- AllCaps
  MaxSample = 2
  MaxTouched = 1
  Gone = Gone
  FolderName = {"x", "y", "x.bak"}
  BackupName = {"x.bak"}
  Layouts <- AllLayouts
  Redeployed <- AllRedeployed
  Answers <- AllAnswers
  Targets = {"y", "all"}
  Silent = Silent
  Everything = "all"
  NoFolder = NoFolder
INVARIANTS
  ServicesTypeOK
  ChecksAreSound
  PostureRemembers
  StatusTellsInstalled
  LiveJobsAreKept
  OutputIsWholeOrMarked
  VerifiedIsListed
  DeclaredMeansUnchanged
  HiddenOnlyAsMeant
  CachedReportIsCurrent
  ReportsAddUp
  WalksAreHonest
  CacheKeepsPins
PROPERTIES
  UninstallLeavesNothing
SYMMETRY Symmetric
CHECK_DEADLOCK FALSE
