SPECIFICATION MCSpec
CONSTANTS
  \* HistoryList
  Items = {1, 2, 3}
  PageSize = 1
  ModeOf <- HistoryModeOf
  MaxNow = 2
  \* QueryLog
  Texts = {"a", "b"}
  LogCalls = {"s1", "s2"}
  MaxMessages = 4
  PageRows = 1
  FailedRows = 1
  Window = 3
  \* PipelineTester
  MaxRuns = 2
  Keep = 1
  \* Sources
  Sources = {"d1"}
  BlocksOf <- SourceBlocksOf
  ChunkPageSize = 1
  MaxIngestions = 1
  \* ChatView
  ViewConvs = {"c1"}
  Sends = {"s1", "s2"}
  StreamRetries = 1
  MaxRows = 3
  \* Sidebar
  Chats = {1, 2}
  ChatTitles = {"a"}
  NewTitle = "new"
  PaletteFilter <- PaletteFiltered
  AllCommands = ""
  MaxDay = 8
  \* DocumentList
  Files = {1, 2}
  Matches = {1}
  MaxBulk = 1
  \* DocumentConsole
  MaxJobs = 2
  TypeOf <- SecondIsPdf
  JobAttempts = 1
  MaxPerPoll = 1
  MaxParts = 1
INVARIANTS
  FollowedPagesInv
  GroupsInv
CHECK_DEADLOCK FALSE
