SPECIFICATION FairSpec
CONSTANTS
  t1 = t1
  c1 = c1
  c2 = c2
  Tabs = {t1}
  Calls = {c1, c2}
  TabOf <- OneTab
  Requests = {r1, r2}
  Prompts = {p1, p2}
  MaxRetries = 1
  Limit = 2
  MaxCalls = 2
INVARIANTS
  TypeOK
  AnswerHasPrompt
  OrderlyUnlessOverlapped
  CapOverrunBounded
PROPERTIES
  NoDoubleInsert
  CallsEnd
CHECK_DEADLOCK FALSE
