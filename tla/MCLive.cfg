SPECIFICATION MCSpec
CONSTANTS
  \* AnswerStream
  MaxDeltas = 3
  \* LlmClient
  LlmCalls = {l1, l2}
  SemaphoreSize = 1
  Retries <- LlmRetries
  Threshold = 2
  ResetTicks = 1
  \* Translation
  s1 = s1
  TransDocs = {d1, d2}
  SegmentsOf <- SameText
  Keys = {k1, k2}
  ModelCount = 1
  Tpm = 1
  Rpd <- OnceADay
  Tpd <- OnceADay
  \* DocumentConsole
  MaxJobs = 2
  TypeOf <- SecondIsPdf
  JobAttempts = 1
  MaxPerPoll = 1
  MaxParts = 0
INVARIANTS
  StreamInv
  LlmInv
PROPERTIES
  TurnsEnd
  BackendsRecover
  WatchesEnd
CHECK_DEADLOCK FALSE
