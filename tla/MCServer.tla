------------------------------ MODULE MCServer ------------------------------
(***************************************************************************)
(* Parts of the server and of the ingestion for TLC, each by itself: what  *)
(* the state space of each leaves out, and the two invariants of the       *)
(* smaller ones together.                                                  *)
(***************************************************************************)
EXTENDS AnswerCache, Accounts, AdminUsers, ConversationMemory, RateLimiter,
        Retrieval, Embeddings, Chunker, BulkIngest, Translation,
        JsonLoose, Agents, Scraper, TLC

CONSTANTS r1, r2,   \* the requests of Accounts
          s1        \* the text of Translation

-----------------------------------------------------------------------------
(* AnswerCache: a German question whose English form is another one, which *)
(* in turn is close to a third: a chain in which the ends are not close.   *)

ChainCanonOf == [q \in Questions |-> IF q = "de" THEN {"de", "en"} ELSE {q}]
ChainSimilar == {<<"de", "en">>, <<"en", "de">>, <<"en", "near">>, <<"near", "en">>}

-----------------------------------------------------------------------------
(* Accounts: the cap is explored before anyone signs in; then every        *)
(* conversation has at most one prompt and none is deleted or was restored.*)
(* What the account asks for once the guest's data is its own is not       *)
(* followed.  Of two requests at most one does more than ask, rate or      *)
(* create, and none that claims.  An account is blocked only while there   *)
(* is nothing to move: Refuse is always possible anyway.  A guest comes    *)
(* while there is no conversation yet; the second, after the claim of the  *)
(* first, creates one and does not sign in.                                *)

Both == browser.cookie # none /\ browser.session # none
Plain(op) == op \in {"rate", "create", "ask"}
UnderWayFor(r) == ~RequestAt(r, "idle") /\ ~RequestAt(r, "reply")
SendsStay ==
  \A r \in Requests : RequestAt(r, "idle") /\ ~(request'[r].pc = "idle") =>
    /\ browser.cookie # none
    /\ browser.cookie = "g2" => request'[r].op = "create" /\ born = {}
    /\ ~Plain(request'[r].op) =>
         ~Both /\ \A s \in Requests : UnderWayFor(s) => Plain(request[s].op)
SessionsStay ==
  browser'.session # browser.session =>
    /\ \A c \in Convs : conv[c].prompts <= 1 /\ ~conv[c].deleted
    /\ restored = {}
    /\ browser'.session = none => browser.cookie = none
    /\ browser'.session # none => browser.cookie # "g2"
GuestsStay ==
  browser'.cookie \notin {browser.cookie, none} => born = {} /\ wiped = {}
BlocksStay == blocked' # blocked => Both /\ born = {}
AccountsStep == AccountsNext /\ SendsStay /\ GuestsStay /\ SessionsStay /\ BlocksStay

-----------------------------------------------------------------------------
(* RateLimiter: at most three requests of a caller are let through.        *)

LimiterStep == LimiterNext /\ \A c \in Callers : Len(accepted'[c]) <= 3

-----------------------------------------------------------------------------
(* Retrieval: two documents, one of them ingested anew; a chunk of it has  *)
(* no parent block.  A wide search stands for its own queries only.        *)

SearchDocOf == [c \in 1..4 |-> IF c = 4 THEN "d2" ELSE "d1"]
SearchVersionOf == [c \in 1..4 |-> IF c = 3 THEN 2 ELSE 1]
SearchParentOf == [c \in 1..4 |-> CASE c = 3 -> "p2" [] c = 4 -> NoParent [] OTHER -> "p1"]
SearchTopKOf == [wide \in BOOLEAN |-> IF wide THEN 2 ELSE 1]
SearchRerankTopKOf == [wide \in BOOLEAN |-> IF wide THEN 3 ELSE 1]
SearchSigmoid == [score \in ProviderScores |->
  CASE score = 0 -> 50 [] score = 6 -> 51 [] OTHER -> 71]
RetrievalStep == RetrievalNext /\ (search'.wide => search'.queries < 2)

-----------------------------------------------------------------------------
(* Chunker: texts of up to three words, with two kinds of separators.      *)

Words == {<<0>>, <<0, 0>>, <<0, 0, 0>>, <<0, 0, 0, 0, 0>>}
Glued(A, B) == {a \o <<k>> \o b : a \in A, k \in {1, 2}, b \in B}
ChunkerTexts ==
  {<<>>, <<1>>, <<0, 1, 1, 0>>} \cup Words \cup Glued(Words, Words)
    \cup Glued(Glued(Words, Words), Words)
ChunkerSepLength == <<2, 1>>
ChunkerOptions == [l \in {"parent", "child"} |->
  IF l = "parent" THEN [chunkSize |-> 5, chunkOverlap |-> 2, minChunkChars |-> 2]
  ELSE [chunkSize |-> 3, chunkOverlap |-> 1, minChunkChars |-> 2]]

-----------------------------------------------------------------------------
(* Embeddings: three batches that may be cached, of which the cache holds  *)
(* two, and one that may not; in one part and in two.                      *)

BatchSizes == [b \in Batches |-> IF b = 1 THEN 1 ELSE b - 1]

-----------------------------------------------------------------------------
(* Translation: two documents of the same text; the first of two models    *)
(* may be asked once a day.  The process restarts once a day at most.      *)

SameText == [d \in TransDocs |-> <<s1>>]
FirstCapped == [m \in Models |-> IF m = 1 THEN 1 ELSE 0]
TransStep == TransNext /\ ~(restarted /\ Restart)

-----------------------------------------------------------------------------
(* JsonLoose: objects and arrays around strings of one word, of two lines  *)
(* and with a closing bracket in them.                                     *)

JsonStrings == {"word", "two lines", "closing bracket"}
Braced(t) == <<Sign("{")>> \o t \o <<Sign("}")>>
Bracketed(t) == <<Sign("[")>> \o t \o <<Sign("]")>>
Field(t) == <<Said("word"), Sign(":")>> \o t
Comma == <<Sign(",")>>
Literal == <<Sign("literal")>>
JsonAnswers ==
  UNION {{Braced(Field(<<Said(s)>>)),
          Braced(Field(<<Said(s)>>) \o Comma \o Field(Literal)),
          Bracketed(<<Said(s)>> \o Comma \o <<Said("word")>> \o Comma \o Literal)} : s \in JsonStrings}
    \cup {Braced(Field(Bracketed(Literal \o Comma \o Braced(Field(Literal)))) \o Comma
                   \o Field(Braced(<<>>)))}
JsonProse == {<<>>, <<Sign("word"), [Part EXCEPT !.quote = "sq"]>>, Bracketed(Literal),
              <<Sign("{"), [Part EXCEPT !.quote = "bare", !.open = FALSE], Sign(",")>>}
NoResponse == how = "noise" /\ meant = <<>> /\ response = <<>> /\ stage = "whole" /\ given = <<>>

-----------------------------------------------------------------------------
(* Agents: a memory that leaves the writer all of a chunk, some of it, or  *)
(* nothing.                                                                *)

NoAgents ==
  /\ agent = "expand" /\ context = <<>> /\ sources = {} /\ record.calls = <<>>
  /\ ask = [compares |-> FALSE, costs |-> FALSE, memory |-> 0, folds |-> FALSE,
            bypassCache |-> TRUE, streams |-> FALSE]

-----------------------------------------------------------------------------
(* Scraper: two hosts, of which either may be public or not; a name is     *)
(* given another address as long as no time has been lost.                 *)

PlainPage == scrape.page = "one" /\ innerHosts = {}
ScraperStep == ScraperNext /\ (innerHosts' # innerHosts => waited.all = 0)

-----------------------------------------------------------------------------
(* A behaviour is about the part its first state picks; the others stay as *)
(* they begin, in one way where there are several.                         *)

VARIABLE part

MCInit ==
  /\ part \in {"answers", "accounts", "admins", "memory", "limiter", "retrieval",
              "embeddings", "chunker", "bulk", "translation", "json", "agents", "scraper"}
  /\ Init /\ AccountsInit /\ MemoryInit /\ RetrievalInit
  /\ AdminInit /\ (part # "admins" => \A u \in KnownUsers : role[u] = "ADMIN")
  /\ LimiterInit /\ verdict.caller = "c1"
  /\ ChunkerInit /\ (part # "chunker" => text = <<>>)
  /\ BulkInit /\ (part # "bulk" => args = [sync |-> FALSE, title |-> Untitled,
                                          file |-> <<>>, urls |-> <<>>])
  /\ EmbeddingsInit /\ (part # "embeddings" => provider = "gemini")
  /\ TransInit /\ (part # "translation" => keys = Keys)
  /\ IF part = "json" THEN JsonInit ELSE NoResponse
  /\ AgentsInit /\ (part # "agents" => NoAgents)
  /\ ScraperInit /\ (part # "scraper" => PlainPage)

OfAnswers == part = "answers" /\ Next
OfAccounts == part = "accounts" /\ AccountsStep
OfAdmins == part = "admins" /\ AdminNext
OfMemory == part = "memory" /\ MemoryNext
OfLimiter == part = "limiter" /\ LimiterStep
OfRetrieval == part = "retrieval" /\ RetrievalStep
OfEmbeddings == part = "embeddings" /\ EmbeddingsNext
OfChunker == part = "chunker" /\ ChunkerNext
OfBulk == part = "bulk" /\ BulkNext
OfTranslation == part = "translation" /\ TransStep
OfJson == part = "json" /\ JsonNext
OfAgents == part = "agents" /\ AgentsNext
OfScraper == part = "scraper" /\ ScraperStep

Stays(which, variables) == part # which /\ UNCHANGED variables

MCNext ==
  /\ UNCHANGED part
  /\ OfAnswers \/ Stays("answers", vars)
  /\ OfAccounts \/ Stays("accounts", accountsVars)
  /\ OfAdmins \/ Stays("admins", adminVars)
  /\ OfMemory \/ Stays("memory", memoryVars)
  /\ OfLimiter \/ Stays("limiter", limiterVars)
  /\ OfRetrieval \/ Stays("retrieval", retrievalVars)
  /\ OfEmbeddings \/ Stays("embeddings", embeddingVars)
  /\ OfChunker \/ Stays("chunker", chunkerVars)
  /\ OfBulk \/ Stays("bulk", bulkVars)
  /\ OfTranslation \/ Stays("translation", transVars)
  /\ OfJson \/ Stays("json", jsonVars)
  /\ OfAgents \/ Stays("agents", agentVars)
  /\ OfScraper \/ Stays("scraper", scraperVars)

MCVars == <<part, vars, accountsVars, adminVars, memoryVars, limiterVars, retrievalVars,
            embeddingVars, chunkerVars, bulkVars, transVars, jsonVars, agentVars,
            scraperVars>>
MCSpec == MCInit /\ [][MCNext]_MCVars
MCSymmetry == Permutations(Requests)

-----------------------------------------------------------------------------
(* The smaller parts together *)

(* Whoever interferes: an administrator remains, no caller passes its      *)
(* window, the bulk ingestion waits for all of its runs, a segment is paid *)
(* for once and a budget overdrawn only by those who wait, the calls of    *)
(* the agents are put down to them, a page is fetched from public hosts    *)
(* only, unless a name is given another address after its check, and as    *)
(* often as allowed, and the embeddings' cache keeps to its bounds.        *)
ServerInv ==
  /\ part = "admins" => AdminUsersInv
  /\ part = "memory" => MemoryTypeOK
  /\ part = "limiter" => LimiterInv
  /\ part = "bulk" => BulkInv
  /\ part = "translation" => TransInv
  /\ part = "agents" => AgentsInv
  /\ part = "scraper" => ScraperInv
  /\ part = "embeddings" => EmbeddingsInv

(* What is done with texts, scores and times: the model is given chunks as *)
(* the database has them, in the order of their scores; chunks follow the  *)
(* text; the JSON a model meant is read out of what it sent; the writer is *)
(* given what counts; and fetching a page takes no longer than its timers  *)
(* and the look-ups that have none.                                        *)
DataInv ==
  /\ part = "retrieval" => RetrievalInv
  /\ part = "chunker" => ChunkerInv
  /\ part = "json" => JsonInv
  /\ part = "agents" => GivenWhatCounts
  /\ part = "scraper" => WaitBounded

=============================================================================
