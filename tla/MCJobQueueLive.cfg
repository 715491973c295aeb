SPECIFICATION LiveQueueSpec
CONSTANTS
  w1 = w1
  w2 = w2
  r1 = r1
  r2 = r2
  page = page
  pdf = pdf
  Workers = {w1, w2}
  Requesters = {}
  Docs = {pdf}
  PdfDocs = {pdf}
  MaxJobs = 1
  MaxAttempts = 2
  MaxBlocks = 3
  RunsOutliveLease = FALSE
INVARIANT AttemptsCountCrashes
PROPERTIES CursorAdvances EveryJobFinishes ImplementsLifecycle
CHECK_DEADLOCK FALSE
