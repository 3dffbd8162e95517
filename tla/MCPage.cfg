SPECIFICATION Spec
CONSTANTS
  Slots = {s1, s2}
  None = none
  Containers = {1, 2}
  Images = {3}
  PageSize = 1
  TableMatching <- SearchedContainers
  MaxActions = 1
  MaxDialogs = 3
  LogCards = {"sys", "app"}
  System = "sys"
  LogFilters = {"all", "warning"}
  MaxExports = 1
  MaxSources = 1
  FlowKeys = {"a", "b"}
  Kinds <- TcpAndUdp
  MaxRows = 1
  MaxTime = 3
  Counter <- EvenCounter
  Running <- InBothLists
  Cpu <- SameShare
  Keep = 1
  MiniKeep = 0
  Series = {"cpu"}
  Names = {"a", "b"}
  MaxAppChanges = 2
  MaxSockets = 3
  KeyboardKeys = {"ctrl", "f", "escape", "a"}
  MaxSessions = 3
  Sections <- ThreeSections
  BootSteps <- TwoSteps
  Starts = {1, 2}
  MaxFrameChanges = 2
  MaxPoints = 6
  MaxDrawn = 5
  MinWidth = 4
  PointWidth = 2
  View = 4
  Slack = 1
  Edge = 1
  Devices = {"sda", "sdb"}
  Matches <- OneOrTwo
  Size <- SameDevice
  Hardware <- ListedTwice
  NoSerials = {"-"}
  MaxWork = 2
  MaxScripts = 2
  Pieces = 2
  MaxRuns = 2
  Root = "r"
  Below = "b"
  Fresh = "f"
  Configured = {"b"}
  MaxPicks = 5
  Texts = {"t1", "t2"}
  Foreign = "other"
  Failed = "failed"
  MaxCopies = 4
  PartFilters = {"all", "error"}
  Connections = {1}
  PartMatching <- SearchedConnections
  MaxMessages = 2
  MaxClicks = 3
SYMMETRY Symmetry
INVARIANTS
  PanelTypes
  TablesShowWhatTheyAct
  LoopsFollowThePage
  FlowsAreReachable
  MonitorShowsWhatWas
  AppsShowTheSelected
  TerminalsSayWhatIs
  FrameAgrees
  PanelsKeepTheChoice
CHECK_DEADLOCK FALSE
