SPECIFICATION Spec
CONSTANTS
  w1 = w1
  w2 = w2
  r1 = r1
  r2 = r2
  page = page
  pdf = pdf
  words = words
  blank = blank
  english = english
  german = german
  Workers = {w1, w2}
  Requesters = {r1, r2}
  Docs = {page}
  PdfDocs = {}
  Texts = {words, blank}
  TextsOf <- MCTextsOf
  Blocks <- MCBlocks
  MaxJobs = 2
  MaxAttempts = 1
  MaxBlocks = 3
  MaxDocIds = 1
  RunsOutliveLease = FALSE
SYMMETRY MCSymmetry
INVARIANTS
  OneWorkerPerJob HoldersAreCurrent AttemptsBounded
  OnePendingUnlessRaced OneRunUnlessRaced SyncedIsWhole SyncedIsFresh
PROPERTY FinishedIsFinal
CHECK_DEADLOCK FALSE
