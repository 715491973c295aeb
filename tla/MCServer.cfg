SPECIFICATION MCSpec
SYMMETRY MCSymmetry
CONSTANTS
  \* AnswerCache
  Questions = {"de", "en", "near"}
  CanonOf <- ChainCanonOf
  Similar <- ChainSimilar
  Turns = {t1}
  Docs = {d1}
  Processes = {p1}
  MaxVersion = 0
  CorpusTTL = 1
  TTL = 1
  \* Accounts
  r1 = r1
  r2 = r2
  Guests = {"g1", "g2"}
  Members = {"m1"}
  Convs = {"c1"}
  Requests = {r1, r2}
  Limit = 1
  MaxPrompts = 3
  none = "none"
  \* AdminUsers
  KnownUsers = {"u1", "u2"}
  \* ConversationMemory
  MemoryTurns = {"t1", "t2"}
  MaxVerbatim = 2
  MaxAsked = 3
  \* RateLimiter
  Callers = {"c1", "c2", "c3"}
  MaxRequests = 2
  WindowSeconds = 2
  MaxBuckets = 2
  MaxClock = 3
  \* Retrieval
  Chunks = {1, 2, 3, 4}
  NoParent = "none"
  DocOf <- SearchDocOf
  VersionOf <- SearchVersionOf
  ParentOf <- SearchParentOf
  MaxQueries = 2
  TopKOf <- SearchTopKOf
  RerankTopKOf <- SearchRerankTopKOf
  RerankMaxDocs = 3
  RrfK = 2
  MinSimilarity = 20
  CragThreshold = 50
  KeepScore = 20
  Unscored = 75
  Sims = {10, 40, 80}
  ProviderScores = {0, 6, 90}
  Sigmoid <- SearchSigmoid
  \* Embeddings
  EmbedRequests = {e1, e2}
  Batches = {1, 2, 3, 4}
  SizeOf <- BatchSizes
  CacheBatch = 2
  CacheSize = 2
  CacheTtl = 1
  PartSize = 2
  MaxAttempts = 3
  MaxHour = 3
  \* Chunker
  Texts <- ChunkerTexts
  SepLength <- ChunkerSepLength
  Options <- ChunkerOptions
  \* BulkIngest
  Pages = {"a"}
  Pdfs = {"p", "q"}
  Titles = {"t"}
  MaxEntries = 2
  Concurrency = 2
  \* Translation
  s1 = s1
  TransDocs = {d1, d2}
  SegmentsOf <- SameText
  Keys = {k1, k2}
  ModelCount = 2
  Tpm = 1
  Rpd <- FirstCapped
  Tpd <- FirstCapped
  \* JsonLoose
  Intended <- JsonAnswers
  Prose <- JsonProse
  \* Agents
  Passages = {"p1", "p2"}
  PassageLength = 2
  MemoryLengths = {0, 1, 5}
  SumLength = 1
  AnalystChars = 4
  WriterChars = 3
  \* Scraper
  Hosts = {"one", "two"}
  ScrapeRetries = 2
  RedirectHops = 1
  ScrapeTimeout = 20
  ScrapeBackoff = 1
  LookupTime = 30
INVARIANTS
  NoDrift
  AccountsInv
  GuestDataFollows
  ServerInv
  DataInv
PROPERTIES
  AccountRatingWins
  SummaryGrows
CHECK_DEADLOCK FALSE
