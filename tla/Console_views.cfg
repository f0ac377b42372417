\* Two edits, two requests at a time in each view: every order of clicks, requests and answers.
SPECIFICATION ConsoleSpec
CONSTANTS
  Edits = {e1, e2}
  Slots = {q1, q2}
  NoSlot = NoSlot
  None = None
  Blank = Blank
  c1 = c1
  c2 = c2
  t1 = t1
  t2 = t2
  a = a
  b = b
  Connectors = {c1, c2}
  Schemas = {s1}
  Tables = {t1, t2}
  Names = {a, b}
  Columns <- MCColumns
  Catalog <- MCCatalog
  Texts = {"x"}
  MaxItems = 2
  Titles = {"n"}
  Configs = {"default", "k"}
  Default = "default"
  Rows = {r1, r2}
  Chains = {q1}
  Jobs = {j1}
  MaxSyncs = 2
  MaxVersions = 2
  Notices = {n1, n2}
  ColumnKeys = {"k", "l"}
  Values = {1, 2}
  MaxRows = 2
  Pipelines = {p1}
  Crons = {"m", "h"}
  Runs = {r1, r2}
CONSTRAINT UntilHazard
INVARIANT ViewsTypeOK
INVARIANT NothingForgotten
INVARIANT ScreenIsCurrent
INVARIANT RunSeesClick
INVARIANT SelectionListed
INVARIANT CastsHaveTypes
INVARIANT LastScheduleStays
INVARIANT ListsWhatIsThere
INVARIANT ShownInOrder
INVARIANT SavedIsShown
INVARIANT TreeNamesTables
INVARIANT RefreshShowsLatest
INVARIANT JobsTrackTheirTable
INVARIANT NoPanelOfDeleted
INVARIANT ListCatchesUp
INVARIANT ToldOnce
PROPERTY EntriesKept
PROPERTY OneConnectorPerClick
PROPERTY OneJobPerClick
PROPERTY EditsAreStored
PROPERTY RetryFollowed
PROPERTY RunningLogsSettle
PROPERTY NoticesGo
CHECK_DEADLOCK FALSE
