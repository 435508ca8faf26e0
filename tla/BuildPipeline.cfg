SPECIFICATION MCSpec
CONSTANTS
  s1 = s1
  s2 = s2
  Snapshots = {s1, s2}
  None = None
  MaxBuilds = 3
  Clients = {"c", "d"}
  Asked <- MCAsked
  Failures <- MCFailures
  Repos <- MCRepos
  SlugOrder <- MCSlugOrder
  Configs = {"own", "gone"}
  Missing = {"gone"}
  Processes = {"p", "r"}
  BasePort = 80
  Budgets <- MCBudgets
  JavaFiles <- MCFiles
  Projects <- MCProjects
  Rewrites <- MCRewrites
  Docs = {0, 1, 3}
  Pending = {0, 1, 7}
  BatchSize = 2
  FetchLimit = 3
  MaxKept = 2
  Documents <- MCDocuments
  Numerals <- MCNumerals
  Scenes = {"builds", "progress", "syntax", "gateway", "serving", "errors", "settings"}
INVARIANTS InfoDescribesRows DerivedFromRows FallbackIsRecorded RegistryIsWhole RoutesReachTheirIndex NamesMeanWhatJavaSays CallsReachTheReceiver EndsAreSymbols AnswersExplainThemselves RetryAdviceIsSound SettingsArrive
PROPERTIES OneSnapshot PercentNeverFalls
CHECK_DEADLOCK FALSE
