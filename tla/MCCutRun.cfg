SPECIFICATION Spec
CONSTANTS
  w1 = w1
  w2 = w2
  r1 = r1
  r2 = r2
  page = page
  pdf = pdf
  words = words
  blank = blank
  english = english
  german = german
  Workers = {w1}
  Requesters = {}
  Docs = {pdf}
  PdfDocs = {pdf}
  Texts = {english}
  TextsOf <- MCTextsOf
  Blocks <- MCBlocks
  MaxJobs = 2
  MaxAttempts = 2
  MaxBlocks = 3
  MaxDocIds = 2
  RunsOutliveLease = FALSE
INVARIANT SyncedMeansInSync
CHECK_DEADLOCK FALSE
