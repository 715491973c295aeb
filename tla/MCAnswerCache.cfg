SPECIFICATION MCFairSpec
CONSTANTS
  de = de
  en = en
  near = near
  Questions = {en, near}
  CanonOf <- MCCanonOf
  Similar <- MCSimilar
  Turns = {t1}
  Docs = {d1}
  Processes = {p1}
  MaxVersion = 2
  CorpusTTL = 1
  TTL = 2
INVARIANTS
  TypeOK
  FreshUnlessExplained
  EveryRowIsCaught
PROPERTIES
  StaleAnswersDie
CHECK_DEADLOCK FALSE
