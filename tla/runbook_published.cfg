\* A runbook that is saved as markdown, the default, and published.
SPECIFICATION Spec
CONSTANTS
    Subjects = {"Books"}
    Procs = {r1}
    ProfileNames = {"default", "team"}
    Backends = {"prometheus"}
    Urls = {"url"}
    Credentials = {"c1", "c2"}
    Typed <- MCTyped
    Environments <- MCEnvironments
    None = None
    Opened = {"loki", "grafana", "correlation"}
    MaxOpens = 2
    MaxTyped = 1
    NoEditor = NoEditor
    Slots = {1, 2, 3}
    NoPid = 0
    Guests = {"s1"}
    Wizards = {"resolve"}
    StepsOf <- MCStepsOf
    Buffer = 1
    MaxVersion = 2
    MaxReads = 1
    Stores <- MCStores
    Severities = {"P1", "P2"}
    PageSize = 2
    Optional <- MCOptional
    MaxTests = 2
    Updating = u1
    MaxPublished = 3
    NoFile = NoFile
    Channels = {"slack"}
    Scenarios <- MCScenarios
    Chapters <- MCChapters
    Profiles <- MCProfiles
    ActiveProfile = "default"
    MaxSearches = 1
    MaxFixes = 1
    Ids = {"i1", "i2"}
    MaxAdded = 3
    MaxCommands = 3
    Daemons = {r1}
    Services = {"a"}
    Texts = {"t", "u"}
    Grade <- MCGrade
    Alike <- MCAlike
    Traces <- MCTraces
    Past <- MCPast
    Quiet = 1
    Ages = {0}
    MaxTime = 1
    MaxSaid = 2
    Openings <- MCOpenings
    Analyses <- MCAnalyses
    Configs <- MCConfigs
    MaxIncidents = 2
    MaxSeconds = 1
    MaxGiven = 2
INVARIANT SavedIsFound
CHECK_DEADLOCK FALSE
