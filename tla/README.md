# Behörden-Bot: TLA+ models, checks and proofs

Behörden-Bot answers questions about German public offices from a corpus of
scraped pages and PDFs (corrective retrieval-augmented generation). The live
system is the Next.js application in `src/web-app`; its server keeps everything
in one PostgreSQL database (through Prisma, with pgvector) and runs as many
short-lived processes as the platform starts. This directory models the parts
of it whose correctness depends on the order in which statements, requests,
crashes and clocks meet.

Paths below are relative to `src/web-app/src/server/` unless they start with
`src/`.

## Inventory

Thirty components; `PROJECT.json` lists each with its sources and status.

| Component | State it keeps | Operations | What makes it correct |
|---|---|---|---|
| Ingest job queue (`ingest/jobs.ts`) | table `ingest_jobs` | enqueue, claim, run, finalize, prune | a job has one worker; attempts count crashes; finished rows stay finished; every job ends |
| Ingest pipeline (`ingest/pipeline.ts`) | `documents`, parent blocks, chunks | ingest a page, ingest a PDF in resumable slices, skip, roll back | a SYNCED document is stored whole, once, and no answer built on its former chunks is left; what the exceptions are |
| Command line of the ingestion (`ingest/cli.ts`) | an in-process queue | batch, sync of everything, exit code | it waits for every job; a failure is told |
| Document administration (`routers/document.ts`, upload route) | – | sync, add, upload, delete | duplicates are queued only by requests that cross; deletion leaves nothing behind |
| Document page (`components/admin/document-manager.tsx`) | the watched job, the watched queue, ticks, toasts | ingest, upload, sync, poll, delete, clear the cache | what it says has happened; watching ends; no deleted row comes back |
| Semantic answer cache (`rag/cache/semantic-cache.ts`) | table of answers | exact and vector look-up, upsert, purge of a document, expiry, clear | an outdated answer is not served, or not for ever; a hit answers a question near the one asked |
| Chunk corpus (`rag/retrieval/corpus.ts`) | one copy per process | load in batches, invalidate, expire | the copy is current after an ingest |
| Chat turn (`hooks/use-chat.ts`, `app/api/chat/stream`, `rag/chat-pipeline.ts`) | messages; per tab a stream flag and an abort controller; per turn an event queue | send with retries, stop, regenerate; admit, store prompt, answer, store answer | an answer stands behind its prompt; a retry does not duplicate rows; tokens arrive in order; calls and turns end; the guest cap holds |
| Chat page (`components/chat`) | its own list of messages beside the query cache | send, regenerate, clear, navigate, hand over | once settled it shows what is stored |
| CRAG pipelines and agents (`rag/pipeline.ts`, `rag/agents`) | – (one turn) | expand, retrieve, analyse, write | what is cached was grounded; what an agent is given counts; each call is put down to its stage |
| Retrieval (`rag/retrieval`) | – (one search) | search, fuse, re-rank, join to parents | context in the order of its scores, no text twice, although documents are replaced meanwhile |
| Gates (`rag/guardrail.ts`, `rag/crag-gate.ts`, masking) | – | allow, block, mask, ask back | a grounded answer has a source above the threshold |
| Conversation memory (`rag/memory/summary-buffer.ts`) | buffer per turn, summary per conversation | load, add, fold the oldest pair, save | what was summarised stays summarised |
| Conversations, guests, accounts (`routers/conversation.ts`, `guest.ts`) | users, conversations, ratings | create, delete, restore, clear, rate, claim a guest, block | the guest cap; nothing is lost at sign-in |
| Sessions and sign-in (`auth.ts`, `middleware.ts`) | Auth.js's | sign in, sign out | – |
| LLM client and breakers (`llm`) | semaphore, two breakers per process | call, retry, fall back, stream | bounded concurrency; a breaker opens only on failures, and closes again; a stream's tokens are not sent twice |
| JSON of the models (`llm/json.ts`) | – (one text) | extract, repair, close what was cut off | the value the model meant is read, or none |
| Translation and limiters (`ingest/translate`) | minute and day budgets, in-flight segments, checkpoints | reserve, wait, reset, change key or model | a segment is paid for once; a pool's budgets are overdrawn only by those who waited; documents get through |
| Embeddings (`embeddings/client.ts`, worker) | a batch cache | embed a batch, in parts, with retries | order and identity of vectors; a bounded cache |
| Request rate limiter (`lib/security/rate-limiter.ts`) | sliding windows per process | allow or refuse | no more than the limit per window |
| Ingest inputs (`scraper.ts`, `chunker.ts`, ...) | – | fetch, parse, clean, split | what the guard passed is what is asked, but for names that move; a bound on waiting; no text is lost between two chunks |
| Administration console (`routers/admin.ts`, `db/analytics.ts`) | roles, suspensions, pipeline test runs | block, promote, test, prune, list | nobody acts on oneself; newest runs are kept; the log skips nothing and tells of each query what happened to it |
| Administration pages (`components/admin`) | rows last read, the run followed | – | what is shown is of the run chosen |
| Source browser (`routers/source.ts`, `components/sources`) | pages of chunks | list, page, search | every chunk is on a page |
| History page (`hooks/use-history-list.ts`) | pages, selection, undo | page, filter, select, delete, restore | nothing is listed twice; only what moved is missed |
| Sidebar and palette (`components/sidebar`) | cached list, pins, drafts | rename, delete, pin, command | the list is what is stored; each entry in one group |
| Public pages and statistics | – | read | – |
| Tracing, logging, errors | – | record | – |
| Scripts and deployment | – | schedules, one-off tools | – |
| Python predecessor (`src/mvp-python`) | – | not called by the web application | – |

How they interact:

* **Admin → queue → pipeline.** Requests insert job rows. The cron route and
  *every poll of the admin page* start a worker tick in whatever process serves
  them; any number of ticks compete for rows with two-statement claims under
  Read Committed. A tick calls the pipeline, which writes the document over many
  statements, purges the cache and the corpus, and returns; the tick then writes
  the job row and, separately, the document's status.
* **Pipeline → cache → chat.** Chat turns read the cache, generate for up to
  minutes from chunks that an ingest may be replacing, and write their answer
  back. Nothing locks; purges find rows by the documents they list.
* **Client → route → pipeline → messages.** The client retries over a broken
  connection while the first request may still be at work on the server, so two
  requests of one conversation meet at its message rows.
* **Browser → context → accounts.** Every request that carries a guest cookie and
  a session first moves the guest's rows to the account, in statements that may
  fail one by one, while other requests of the browser create, ask and rate.
* **Turn → memory, retrieval, models.** A turn loads a memory of its own and saves a
  summary at its end; its searches read rows that an ingest replaces; its calls
  of the models share a semaphore and two breakers with all other turns of the
  process, as the translations of an ingest share budgets and a table of
  segments in flight.
* **Pages → query cache → routers.** Every list on a page is a copy in the browser's
  query cache, paged by cursors over rows that others move, replace and delete,
  and refetched while mutations are under way.

What is hard: ticks, turns and requests that interleave statement by statement;
processes that die between any two of them (60 s and 300 s caps); a lease judged
by its age; failures that are swallowed; retries that meet their predecessor;
checks made before an await and acted upon after it; pages whose cursors outlive
the rows they point at. `PROJECT.json` lists forty such hazards at their lines,
each with the properties that cover it or the reason why none does.

## Modules

| Module | Models |
|---|---|
| `IngestBase` | ticks, source keys and the bound on blocks, shared by queue and pipeline |
| `JobQueue` | `ingest/jobs.ts`: the table, admin requests, worker ticks, crashes, the lease |
| `JobLifecycle` | the abstract promise of the queue: waiting, held, lost, done, failed |
| `IngestPipeline` | `ingestUrl`, `ingestPdf`, `persistIngested`, rollback, deletion of a document |
| `Ingest` | composes `JobQueue` and `IngestPipeline`: a claim begins a run, a run's result is the job's outcome |
| `Corpus` | chunks in the database and the in-process copies of them |
| `AnswerCache` | extends `Corpus`: both chat pipelines as cache users, purges, expiry |
| `ChatTurn` | one conversation: calls of a tab, requests on the server, message rows |
| `AnswerStream` | `AsyncEventQueue` and the streaming turn from the writer's tokens to the bubble and the stored row |
| `ConversationMemory` | `SummaryBufferMemory` of overlapping turns |
| `Retrieval` | one question through search, fusion, re-ranking, parent join and gate, documents being replaced meanwhile |
| `LlmClient` | `callLLM`, `callLLMStream`, the semaphore, `CircuitBreaker` |
| `JsonLoose` | `parseJsonLoose` and its passes, token by token, with the glitches of models |
| `Agents` | `runAgenticRag`, `agentResearchReact`, analyst and writer: what is handed on, listed and recorded |
| `Scraper` | `scrapeWebPage`: attempts, redirects, the guard before each hop |
| `Translation` | `translateToEnglish`, checkpoints, the in-flight table, both limiters |
| `Embeddings` | `embedTexts` of both providers, `BatchCache` |
| `Chunker` | `RecursiveTextSplitter` and `chunkParentChild`, loop by loop |
| `BulkIngest` | `cli.ts`, `syncAllDocuments`, `IngestQueue` |
| `Accounts` | guests, accounts, conversations, ratings, the claim |
| `RateLimiter` | the in-memory window and its evictions |
| `AdminUsers` | the users table of several administrators and its two mutations |
| `QueryLog` | the paged table, the drawer and the unanswered queries of `analytics.ts` over messages that turns write and regenerations delete |
| `PipelineTester` | pipeline tests, their pruning, the tester page |
| `Sources` | `source.ts` and the source browser |
| `DocumentConsole`, `DocumentList` | the two halves of the document page |
| `ChatView` | the messages of a chat page against the query cache |
| `Sidebar` | the conversation list, its rows and groups, the palette |
| `HistoryList` | `useHistoryList` and the history page |
| `JobQueueProofs`, `IngestProofs`, `AnswerCacheProofs`, `ChatTurnProofs`, `AnswerStreamProofs`, `ServerProofs`, `AccountsProofs`, `PagesProofs` | theorems |
| `MCJobQueue`, `MCIngest`, `MCAnswerCache`, `MCChatTurn`, `MCLive`, `MCServer`, `MCPages`, `MCChunks` | instances for TLC |

Definitions whose comment begins with "Mutant" are plausible wrong versions of
the definition next to them. Each property of a passing run has at least one
that breaks it, so no property holds merely by the shape of a model. No
specification uses them.

### How state and actions correspond to the code

**JobQueue.** `jobs[j]` is a row; its number stands for `createdAt`, by which the
claim orders. `startedAt` is reduced to what the code asks of it, whether the
lease has expired. `worker[w]` is a tick's program counter and locals. One
action per database statement: `LookForDuplicate` and `InsertUrl` are the two of
`enqueueUrlJob`; `RequeueExpired`, `FailExhausted`, `PickOldest`, `TakeJob` /
`LoseJob` the ones of `claimNextJob`; `FinalizeJob` the row half of
`finalizeJob` (and `markJobFailed` for a run that threw), `Settle` its document
half. `Crash` may come at any of them. `crashes` is a history variable. In this
module a run returns any outcome the pipeline could; `Ingest` replaces that
choice by the pipeline itself.

**IngestPipeline.** A text stands for its hash. A parent block and its children
go in with one transaction and are one stored block; `stored[d][t][b]` counts
how often block `b` of text `t` is there, so double and left-over storage are
visible. `run[w]` is the pipeline's frame: document id, next block, its own count.
A database error in the middle of a run is `StoreFails` where the code can cause
it itself (the row is gone), an embedding error is `EmbedFails`. The purge of the
cached answers succeeds or fails (`InvalidateFails`); the code swallows the failure,
and the run goes on to mark the document SYNCED either way.

**Requests.** Any number of them may be between `LookForDuplicate` and `InsertUrl`.
`raced` is a history: the pages that two requests looked up before either had inserted,
until a request finds such a page without a pending row again. `OnePendingUnlessRaced`
and `OneRunUnlessRaced` are about all other pages. The comment at `jobs.ts:82-85`
promises one pending row without exception, and `pipeline.ts:324-328` relies on one run;
two requests break both.

**Ingest.** `Queue(A)` and `Pipeline(A)` frame the halves. Three histories, each of a
document, name the only ways in which what an ingest leaves behind may be wrong:

* `cut`: it may show the work of a run that was cut short or of another one that
  crossed it. Raised by a crash, by a failure of a resumed run, and by a claim while
  another job of the document has begun and not ended or a tick has its status yet to
  write (`Crosses`); lowered when a run opens the document afresh and crosses none.
* `mixed`: a run resumed it with another text than the one it was opened with
  (`ResumesOtherText`). Each tick of a PDF parses and translates it anew, and a translation
  that fails leaves the German text (`pipeline.ts:176`, 184-187).
* `unpurged`: the purge of its answers failed.

A document opened afresh starts without the last two. Each property names the ones it
excepts: `SyncedIsWhole` the first two, `SyncedIsFresh` the first and the last,
`CursorIsExact` the first alone. What goes wrong after a crash is the run `cut_run`.

**Corpus / AnswerCache.** What the chunks of a document are is reduced to a
version. An answer records which version of each document its text rests on,
which documents it lists, and whether the model finished. `Ask` … `EndTurn`
follow `runStandardCrag` and `runAgenticRag` from look-up to write, in the
code's order: exact, similar, expansion, the same two for the English form
(`canon`), guardrail, retrieval, generation, one or two upserts. Retrieval may
read the database, the process's copy, or a copy it loads batch by batch while
chunks change. `ChangeChunks`, `FindAnswers`, `DeleteAnswers`, `LosePurge`,
`DropCorpus` are an ingest's or a deletion's effect on the cache. The upsert
keeps the former `parentDocIds` on conflict, as the SQL does.

**ChatTurn.** `messages` are rows with a role and the prompt they hold or answer;
ids follow `createdAt`. `tab` has the two things that every call of a tab
shares, `isStreaming` and the abort controller. `call` is `sendMessage` or
`regenerate`, `request` one POST from admission to its last write. A request
keeps a link to its call only while that call reads from it. `overlapped` is a
history flag: two writers were at work at once.

**AnswerStream.** `pipe` is `runAgenticRag`, or the standard pipeline, which has no
queue; `queue` is `AsyncEventQueue` with its events, waiters, `done` and `error`;
`gen` is `runChatStreamInner`. A text is a sequence of words, of which the model
keeps who wrote them and whether there is anything to see.

**Accounts.** One action per statement of `claimGuestData`, `createTRPCContext`, and
the procedures of `conversation.ts`; `request[r]` has the identity the context
found. `rating[c][u]` is the unique row of `MessageFeedback`. History variables:
`late` (conversations created for a guest already moved, which the cascade
deletes), `restored`, `wiped`.

**Retrieval.** A chunk has the version its row belongs to; `Reingest` replaces rows
between any two steps. Scores are percentages out of small sets, so order, ties,
thresholds and fallbacks happen; the formulas behind them are left out.

**LlmClient, Translation, Embeddings.** `llmCall[c]`, `doc[d]` and `embed[r]` are the
frames of concurrent calls; `breaker`, `limiter`, `budget`, `inflight` and
`vectorCache` the module-level state they share. Time is a tick of a breaker's or
a bucket's interval, an hour of the cache, a midnight.

The embeddings' `Map` is a function from the batches it holds; its insertion order is in each
entry, as the batches inserted earlier.

**Chunker.** A text is a sequence of characters and separators, a piece an interval
of it. `stack` is the recursion of `recursiveSplit`, `merge` the locals of
`mergeSplits`, the running `total` among them, kept as the code keeps it.

**JsonLoose.** A text is a sequence of brackets, colons, commas, literals, fences, words and
strings; a string has what it says, its quotes, whether a line break in it is raw and
whether it lacks its closing quote. `stage` is the nested `try` of `parseJsonLoose`; each pass
is an operator that rewrites the text. `IsJson` stands for `JSON.parse`, and the value read is
compared with what was `meant`. Escapes and commas inside strings are abstracted.

**Agents.** `context` is `accumulatedContext` as pieces of a size, `sources` the names listed
beside it, `record` the `LlmUsageCollector` with its current label, and the steps and tool
calls of the trace. What `slice(0, n)` leaves of the context is `Beginning(n)`. A call of a
model is recorded when it succeeds, under the label set last.

**Scraper.** `scrape` is the frame of `fetchWithTimeout` and `fetchWithRedirectValidation`;
each hop is the guard, then the request, and each resolves the host's name for itself.
`innerHosts` are the hosts whose name has an address in a blocked range *now*: whoever owns
a name may change that at any time (`AddressChanges`), between the guard and the request too,
as the comment at `lib/security/url-validator.ts:152-156` says. A look-up of the guard takes
time, up to `LookupTime`, for which the code sets no limit: no signal is passed to it, and the
checks at `scraper.ts:65` and 75 lie outside the request. `SignalOff` is the attempt's one
`AbortSignal.timeout`, which the look-ups of its hops use up without being ended by it.
`contacted`, `moved` and `refusals` are histories; `waited` is the time spent.

**QueryLog.** A message's place in `log` is its `createdAt`; a deleted one keeps its place. A
stream looks for the question (`FindQuestion`), takes the newest message if it is the same
one, which then keeps its own mode, or creates it, and stores its answer with the mode of the
stream. `FindAnswer` and `DeleteAnswer` are the two statements of `regenerate`; the stream
that follows may come in any mode. The table takes an answer's mode (`analytics.ts:146`), the
drawer the question's (`recent-queries-table.tsx:105-108`).

**Pages.** `list`, `fileList`, `chatList`, `query` and `chunkPages` are entries of the
query cache: data, staleness, and a fetch that was sent, answered or lost. An
answer holds what was stored when the server read it. The server's half is one
action per procedure, or per statement where two administrators can meet
(`deleteMany`, `prunePipelineRuns`, `requireOtherUser` before the update). History
variables (`unseen`, `untold`, `unread`) say that others changed something behind
the cache's back. A first load under way is joined by an invalidation, not cancelled
(`FirstFetch`, `JoinsFirstLoad`, `FirstRead`): TanStack Query resends only a query that has
data, and the older reply takes the mark away again. What a mutation does on success belongs to
the instance of the row that made it (`calling`): one that was mounted anew in the reopened
drawer or in another group does not do it.

## What the runs show

| Run | Question | Bounds | Distinct states |
|---|---|---|---|
| `job_queue_live` | Does every pending job finish, are attempts exact, do cursors only advance, and does the queue implement `JobLifecycle`? | 2 ticks, 1 row, 2 attempts, 3 blocks | 4 377 |
| `ingest_pages` | One worker per job; when has a page two pending jobs or two runs; is it stored whole, are its old answers gone? | 2 ticks, 2 requests, 2 rows, 1 attempt, a page of 2 blocks or none | 1.8 M |
| `ingest_pdf` | Do yields and resumptions store each block once, and is the composition a behaviour of the queue? | 1 tick, a PDF of 3 blocks, or of 2 untranslated, uploaded twice, deleted once, its jobs lose one tick at most between two yields | 2.1 M |
| `answer_cache` | Which outdated answers can be served, and for how long? | 1 question and a near one that is only looked up, 1 turn, 1 document that changes twice, 1 process, TTL 2, corpus TTL 1 | 310 k |
| `chat_turn` | Rows, retries, cap and composer under every overlap of two requests | 1 tab, 2 calls, 2 requests, 2 prompts, 1 retry, cap 2 | 254 k |
| `live` | What has to end: streams, calls, translations, watches | 3 tokens; 2 calls, threshold 2; 2 documents of one segment, 2 keys, 1 model with a day budget of 1; 2 jobs | 33 k |
| `server` | Thirteen parts of the server and the ingestion | see below | 807 k |
| `pages` | Eight pages of the client | see below | 704 k |
| `cut_run` | violation of `SyncedMeansInSync` | 1 tick, 1 PDF | – |
| `unsound_row` | violation of `OnlySoundAnswersAreKept` | 1 question, 1 turn, 1 document that changes twice, 1 process | – |
| `lost_chunks` | violation of `ChunksWhole` | 1 document of 3 chunks, 1 per page | – |
| `chunker_hangs` | violation of `ChunksComeOut` | 1 text of 7 paragraphs of 3 characters, chunks of 5, overlap 2 | – |

In `live`, `server` and `pages` the first state of a behaviour picks a `part`; from
then on only that part moves. The parts share no state in the code either (the
composition of those that do is in `Ingest` and `AnswerCache`), so nothing is lost,
and each is explored as if alone. The invariants `ServerInv`, `DataInv`,
`FollowedPagesInv` and `GroupsInv` are conjunctions over the parts of named
properties. `ServerInv` and `FollowedPagesInv` hold what is proved as well, `DataInv` and
`GroupsInv` what only TLC checks.

`MaxJobs`, `MaxBlocks`, `MaxDocIds`, `MaxVersion` and `MaxCalls` cap what is
unbounded in the code; the other numbers are the code's own constants, made
small. Deadlock is not checked where such a cap, or a conversation with nothing
left to say, lets the model stop.

Why the bounds are enough for the questions:

* *Queue.* Every conflict the code can have is between two ticks about one row,
  or between one tick and the recovery by another; a third tick repeats one of
  the two roles. Two rows let one wait, be overtaken or be pruned while the
  other runs. Two attempts reach "requeue", "last attempt" and "exhausted", and
  three blocks allow two yields. The theorems below remove the bounds from the
  safety half.
* *Pipeline.* A text and an empty one reach "unchanged", "forced" and "nothing to
  ingest"; two texts of different length, a PDF translated or not, reach "shorter than
  before" and the mixture. The yields of a PDF need three blocks; its second upload is
  what makes two jobs meet at one document. Two requests are what the look-up and the
  insertion take to cross. With pages one crash exhausts a job (`MaxAttempts` is 1), so
  that a crashed job ends and a later one meets what it left; with the PDF a job is
  requeued, after one crash before it yields (the constraint `OneLoss` of `MCIngest`). Pages and PDFs are
  separate runs because they share no document.
* *Cache.* One row suffices for freshness: rows meet only in purges, which treat
  each alike, and the theorem covers any number. Two changes of the document
  reach "changed while a turn was generating" and "changed again before the
  purge". The near question is asked only by standard turns that bypass the
  cache, which read it and write nothing: that is what a hit by similarity takes
  without a second row. Drift needs three questions, no document (`server`).
* *Parts.* Most have two actors, which is what a race takes, and one or two rows.
  `server`: 2 guests, 1 account, 1 conversation, 2 requests, cap 1 and 3 prompts;
  2 users; 2 turns of a memory of 2 messages and 3 prompts; 3 callers, 2 buckets,
  windows of 2; 4 chunks of 2 documents, 2 queries; 2 embedding requests over
  4 batches of 1 to 3 texts, a cache of 2; 295 texts of up to three words; batches of
  2 entries and syncs of 3 documents with concurrency 2; 2 keys and 2 models; 10
  objects and arrays with every combination of 5 glitches, cut off anywhere, beside 4
  kinds of prose; 2 chunks and a memory that leaves the writer all, some or nothing of
  them; 2 hosts, 1 redirect and 2 retries, names that move before time was lost.
  `pages`: 3 conversations in pages of 1; 2 streams, 4 messages and one regeneration; 2 test runs of which 1 is
  kept; 5 chunks re-ingested once; 1 conversation and 2 sends with 1 retry; 2
  conversations in a sidebar and 8 days; 2 documents; 2 jobs.
* *Narrowings.* The `...Step` definitions of `MCLive`, `MCServer` and `MCPages` leave
  out combinations that multiply states without meeting: a dialog open while two
  calls overlap, a filter set during an undo, a poll while a mutation is under way,
  a third accepted request. Each stands beside its part with the reason. They bound
  the checking only; no module assumes them.
* *Chat.* Two requests are what a retry and its predecessor are. Two prompts tell
  a reused row from a wrong one. The cap of 2 is reached and overrun.

### Properties worth a second look

* `AttemptsCountCrashes`: the claim increments, recovery compares with `lt` and
  `gte` in two statements, a yield resets. Together they mean that a job fails as
  exhausted after exactly `MAX_ATTEMPTS` crashes since it last made progress.
* `OnePendingUnlessRaced`, `OneRunUnlessRaced`: the look-up before the insertion and the
  guarded claim together fail in one way only, and for no longer than until a request
  finds the page idle.
* `SyncedIsWhole`, `CursorIsExact`, `SyncedIsFresh`: what runs that do not cross leave
  behind, over any interleaving with requests, ticks, yields, uploads and deletions, and
  by which failure alone each may be untrue.
* `FreshUnlessExplained` names the only four ways in which an outdated answer can
  be served: its purge is still to come, its purge was lost, the row does not
  list the document, or the answer was outdated when it was written.
  `StaleAnswersDie` says that even then expiry ends it: reading a row does not
  renew it.
* `CapOverrunBounded`: the cap is checked before the prompt is stored; the
  overrun is at most the number of other requests at work.
* `OrderlyUnlessOverlapped`, `NoDoubleInsert`: while no two writers overlap,
  failures, stops, retries and regenerations leave each answer right behind its
  prompt and no prompt twice.

* `NoDrift`: hits do not add up along a chain of near questions.
* `GuestDataFollows`, `AccountRatingWins`: through claims whose statements fail and
  are repeated, replies that are lost, sign-outs and a second request at work, what
  a guest owned ends with the account, and the account's own rating survives.
  `AccountsInv` bounds the cap over all conversations of a guest: it is passed only
  by requests at work together or by a restore.
* `StreamInv`: between writer and bubble no token is lost, doubled or overtaken, and
  the consumer never sleeps over an event; `TurnsEnd`: whatever fails.
* `LlmInv`: the semaphore counts exactly; a breaker's three fields agree however late
  old results come in; a stream that has sent a token never starts again.
* `BackendsRecover`: an open breaker lets calls through again; a document whose
  translation has begun is translated or given up although keys die and budgets
  run out.
* `SummaryGrows`: except when turns overlap or a load fails, a saved summary only
  grows, by one pair a turn.
* `RetrievalInv`: although rows are replaced between search and join, the context has
  no text twice and is in the order of its scores, and a chunk goes without its
  parent only if its document was replaced.
* `ContentKept` (`Chunker`): what is in no chunk was too short to keep.
* `JsonInv`: of what a model meant nothing is lost or added by glitches, fences or prose,
  and of an answer that was cut off all is kept that came, closed with nothing but
  brackets and an empty string.
* `AgentsInv`: a turn that reaches the writer has sources, and all that was found is listed
  but for the second search; no call is put down to another agent, the memory's apart; the
  steps of the trace are numbered without a gap. `GivenWhatCounts`: a calculated sum is never
  cut off, and unless memory and sum fill what the writer is given, it is given something
  that the sources name.
* `ScraperInv`: whatever redirects say, a host is asked at an inner address only if its name got
  it after its check, and a page from one is read only if the name lost it again before the
  second check; a host that refuses is asked twice at most, and a page is given up as out of
  reach only after all attempts. `WaitBounded`: an ingest waits no longer for one than its
  time-outs, its back-offs and one look-up for each attempt and the first check. With a
  look-up that never ends it has no bound at all.
* `BulkInv`: a sync that ends has run each document's job to its end, no job twice and
  never more at once than allowed; a batch tells of every line it was given, and its exit
  code says whether all went well.
* `NoItemTwice`, `MissedOnlyIfMoved` (`HistoryList`), `TableWhole` (`QueryLog`): what
  paging by a moving key promises. `UnansweredIsTrue`, `ModesAgree`: what the log says of a
  query, although it attributes answers by their place: the second excepts answers of
  another question and questions asked again in another mode.
* `StoredIsShown`, `ListIsStored`, `DocumentsAreStored`: when nothing is under way and
  nobody changed things behind the cache's back, a page shows what is stored.

### Disagreements with the repository's own words

Four runs show one each; `PROJECT.json` quotes the lines.

* `cut_run`: "content matches what is stored, so the document IS in sync" is false
  after a tick died between two blocks; the retry lists a half-stored document
  as SYNCED.
* `unsound_row`: a partial or fallback answer of the agentic writer is cached.
* `lost_chunks`: `getChunks` hands out the id of the extra row as cursor and skips it:
  the first chunk of every page but the first is never shown.
* `chunker_hangs`: `mergeSplits` counts a separator with a chunk's first piece and
  does not take it off with its last; the remainder grows by two characters each
  time a chunk is emptied, and once it exceeds the overlap the loop that sheds
  pieces never ends. With the real sizes it takes about a hundred consecutive
  paragraphs of somewhat more than half a chunk.

Others met while modelling, without a run of their own. Server and ingestion:

* Two requests can both enqueue a URL (`jobs.ts:82-85` says no second row is created), and
  two ticks then ingest the page together, which `pipeline.ts:324-328` relies on not
  happening: `raced` in `ingest_pages` says when and for how long; a corpus load that overlaps `invalidate()` keeps the old chunks for its
  TTL (`corpus.ts:12-14`).
* A block whose tick dies before the cursor is written is stored twice by the
  resumed run (`src/web-app/prisma/schema.prisma:292-294` and the ADR on the
  resumable queue say the cursor is exact).
* `jobs.ts:5-6` says jobs are processed serially; ticks of several processes are not.
* A live run that outlasts its lease is run a second time and its late outcome
  overwrites the row (`RunsOutliveLease`); the deployed caps exclude it, the
  local compose file does not.
* The rollback of a failed ingest and the re-titling branch
  (`ingest/pipeline.ts:227`) are several statements; a crash between them leaves
  a state the next run takes for complete.
* A failed translation falls back to the German text, so two ticks of one PDF may
  slice different texts; the mixture is listed as SYNCED under the first one's hash, and a
  cursor beyond the end of the shorter text passes straight to the purge (`mixed`).
* A purge that fails is logged and swallowed (`semantic-cache.ts:153-156`), and the document is
  listed as SYNCED over answers from its former chunks; as its text is unchanged, no later
  run purges them (`unpurged`).
* Sync-all enqueues URL jobs for `pdf://` keys; the URL guard rejects them and an
  intact PDF document becomes FAILED.
* The standard pipeline's first look-up ignores `bypassCache`, which the pipeline
  tester sets (`rag/pipeline.ts:195-201`).
* `ON CONFLICT` keeps the old `parentDocIds`, so "last writer wins"
  (`db/vector-queries.ts:146-149`) does not hold for what a purge looks at.
* `summary-buffer.ts:21` promises the last eight messages verbatim; a reload takes
  the oldest eight. Prompts are stored before the memory is loaded, so the last one
  is in it twice; `conversation.clear` leaves the summary.
* `conversation-policy.ts:43-44` allows so many prompts "at a time"; delete, ask,
  restore exceeds it. Asking in a soft-deleted conversation is allowed and not
  counted. A blocked account's request claims the guest's data before it is refused.
* `guest.ts:89` deletes a "now-empty" guest; a conversation created in between goes
  with it. A claim's late reply can take a newer guest's cookie.
* `ingest/translate/rate-limit.ts:155-160` blocks "until … TPD still has room" and then
  awaits before it consumes; the requests-per-day guard can block until midnight although the comment at
  299-300 says that individual limiters never do.
* The semaphore of `llm/client.ts` is polled and unfair; aborts by the user are
  retried and counted as failures of the provider; a half-open breaker lets
  everybody through; a late success closes an open one; an empty stream is an
  empty answer.
* `llm/json.ts:45` prefers an object to an array "when both exist at index 0"; the code
  prefers a brace anywhere, so of an array of objects with a comment behind it
  only the first object is read. Trailing commas are removed in strings too
  (`json.ts:80`, 269); a single-quoted string that ends in a backslash is lost, for
  `convertSingleQuotes` reads `\\'` as an escaped quote (`json.ts:327-347`); a text cut off
  behind a key or a lone backslash is not recovered. `JsonLoose` sends no array of objects
  with a brace behind it and nothing cut off behind a key; the other two it abstracts.
* The memory goes before what was found, its oldest message first, and the writer gets the
  first 2500 characters (`research.ts:72-74`, `analyst.ts:120`): after one long answer it is
  given nothing of the corpus, while the research's sources are listed and cached with what
  it writes. `prompt.ts:101` says "Record the source of every fact you collect"; the chunks of
  the second search are in the context and not in the sources (`research.ts:215-217`).
* The memory's summary is put down to the writer, and calls that stream are recorded nowhere
  (`usage.ts:145-147` promises all `callLLM` invocations).
* `scraper.ts:123-124` says of the signal that "the total time stays bounded by
  SCRAPE_TIMEOUT_MS"; it ends no look-up, so an attempt may pass it by one.
* `scraper.ts:191-192` allows a refused page "a single retry"; it has none when the first
  attempt failed otherwise. Three time-outs of 20 s pass the 60 s of the cron route, whose
  tick then dies and counts as a crash.
* The rate limiter's map is swept of stale callers only, so the cap does not bound
  it (`rate-limiter.ts`, "bound memory"). Setting a batch anew in a full embedding
  cache evicts another. `toVectorLiteral` refuses vectors of Gemini's default size.
* Without the cross-encoder, chunks that sparse search found too get the constant
  score even when dense search measured less; the encoder's sigmoid lets irrelevant
  chunks pass the gate (`crag-gate.ts:23-24`, `reranker.ts:135-146`).
* `cli.ts:194-205` ignores the titles of the input file that `cli.ts:17-27` describes;
  `--sync --title` gives all documents one title; a PDF that throws is in no result
  and the exit code stays 0.
* Chunks may be longer than `chunkSize`, by the overlap at most. Redirect loops are
  retried like network failures. The web results of the standard gate are dropped.
* Two administrators who cross can lock everyone out. Test rows of killed workers stay
  RUNNING and are never pruned; `admin.ts:142-158` keeps the "newest terminal runs"
  but counts running ones. A standard test with `bypassCache: false` may cache the
  answer of a question the guardrail would have blocked.
* `source.stats` counts only the first of the two pending groups. Queries are attributed
  the next answer of the conversation, whoever it belongs to.

Client:

* A stopped prompt is sent again, as if the network had failed (`use-chat.ts:66-83`).
  `setError(null)` wipes an error event, most 4xx answers are retried because their
  text hides the status, and regenerate deletes the old answer before a new one
  exists; after a lost reply the deleted one stays on the page, and regenerating
  while the page is behind drops another message. A failed refetch reads as "not
  found". Two sends share a placeholder's id during a back-off.
* "Sync finished – all queued documents processed" may come from statistics read
  before the jobs ended (`document-manager.tsx:363-374`). A second ingest or upload
  replaces the watched job; a pruned job's feedback stays "Enqueued…"; Enter bypasses
  `busy`; a PDF chosen during an upload is dropped; the toast of a cleared cache is
  shown whether or not it was (`document-manager.tsx:485-487`, `admin.ts:349-353`);
  "Delete selected" counts documents that had vanished; hidden ticked documents are
  deleted, hidden ticks dropped by "Select all".
* A re-ingest between two pages of chunks ends the list early; a deleted document stays
  selected. "Delete all" of the history ignores the range of dates, and an armed
  confirmation survives a change of filters.
* Callbacks of a row's mutation do not run once the row is gone (a deleted conversation
  leaves its page open); Cancel of a rename saves, because the field loses its
  focus first; pins of the bar and the drawer overwrite each other; in the
  drawer, a tap in the dialog that asks before a deletion counts as one outside, closes
  the drawer and with it the dialog, and deletes nothing (`chat-layout.tsx:222-229`); groups are not computed anew
  over night; a title read before a turn is written back over a rename; "Start a new
  chat" of the palette stores an empty conversation.
* The tester's header shows the current prompt over an older trace; a run pruned since
  the list was read leaves the previous trace on show. The drawer of a query reads its
  outcome from the question's row, which holds the mode only: it shows no latency, nothing from
  the cache, and after a regeneration in the other mode another mode than the table.
* An invalidation during a first load is lost when the load had already read; the list or
  the conversation stays behind until it is read again. So is that of a rename whose
  drawer was closed and opened again meanwhile.

## Fairness

* `LiveQueueSpec`: weak fairness of the lease's expiry (time), of starting a tick
  (the polling of an admin page that is open; `src/web-app/vercel.json` schedules only the
  clean-up of the cache, and the cron route waits for whoever calls it) and of a live
  tick's next step; strong fairness of the recovery statements, the pick and the
  claim. Strong fairness is the assumption that ticks do not die for ever
  *before* they reach the row they came for, or lose every race: a crash takes
  the statement's enabledness away, so weak fairness would say nothing. A tick
  may still die as often as it likes while it holds a job; that is what
  `attempts` is for.
* `MCFairSpec` of `MCAnswerCache`, with the fairness of `FairSpec`: only time
  passes. No turn, purge or clean-up is obliged to happen.
* `FairSpec` of `ChatTurn`: timers and promises of the tab settle, a posted request
  is admitted or refused, and a served one gets on. A request is not obliged to
  stay alive and a connection is free to break.

* `MCLive`: the turn's two sides step (`StreamFairness`: promises settle); the breaker's
  clock ticks (`LlmFairness`; no call is obliged to be made or answered);
  `TransFairness`: buckets refill, midnight comes and a document's next step happens,
  for its calls have time-outs, while restarts stay free; `ConsoleFairness`: the page's
  timer sends polls while it is open, leases end, and a poll that is sent again and
  again is in the end not lost before it works on the queue (strong fairness, as for
  ticks: a lost poll disables the step).

## What is proved

TLAPS checks the theorems below from the constants' assumptions alone
(`BaseAssumption`, `QueueAssumption`, `PipelineAssumption`, `CorpusAssumption`,
`CacheAssumption`, `ChatAssumption`, `StreamAssumption`, `AccountsAssumption`,
`LlmAssumption`, `AdminUsersAssumption`, `MemoryAssumption`, `RateLimiterAssumption`,
`TranslationAssumption`, `BulkAssumption`, `AgentsAssumption`, `ScraperAssumption`, `EmbeddingsAssumption`,
`TesterAssumption`, `HistoryAssumption`, `ConsoleAssumption`, `DocumentListAssumption`,
`SidebarAssumption`, `QueryLogAssumption`, `ViewAssumption`, `SourcesAssumption`: arities, finiteness and signs;
TLC evaluates them in the runs of their modules). They hold for any number of ticks, rows,
requests, documents, blocks, questions, turns, tabs, calls, guests, accounts, keys, models,
hosts, passages, batches, pages and messages. The theorems
about queue and ingest assume one thing besides, `~RunsOutliveLease`: the platform ends a tick
before its lease runs out. It is so in the deployment (functions end after 60 s or 300 s, the
lease is 10 minutes); the local compose file does not enforce it. Nothing is assumed of who
enqueues what, how often a PDF is uploaded or what its text is at each tick: what follows from
those is in the histories the statements name.

**Queue** (`JobQueueProofs`). `TypeCorrect` and `AttemptsAreBounded` need no
assumption on time. The others assume `~RunsOutliveLease`. That a job has one worker is
not inductive: it also needs that the row of a held job is RUNNING under a live lease
(otherwise recovery would hand it out again) and that rows not created yet are empty.
`LeaseInv` joins the three and gives `OneTickPerJob` and `HoldersStayCurrent`. `CountInv`
adds the two facts about attempts, which need each other: the count is bounded because a
queued row has an attempt left, and exact because only a holder's row has one more
attempt than crashes (`AttemptsAreCrashes`). `FinishedStaysFinished` and
`CursorOnlyAdvances` are action properties; both follow from one lemma about what a step
may do to a row (`RowSteps`), where the cursor needs that a holder started from the row's
cursor. `OnePendingJobPerPage` needs what each look-up has seen (`PendingInv`): of a page that is not
`raced`, while one request is between `LookForDuplicate` and `InsertUrl`, no row is pending and
no other request is there. A look-up that finds nothing while another's insertion is to come
puts the page into `raced`; one that finds nothing and meets nobody takes it out again, which is
sound because it then is the only one and no row is pending. Only a holder's row returns to
the queue. Each action has an *effect* lemma, so that the
invariant proofs never open a definition twice.

**Refinement** (`JobQueueProofs`). `QueueImplementsLifecycle`: under the mapping
row status and holder ↦ phase, holders ↦ owners, `crashes` ↦ losses, the queue is
a job life cycle. For each abstract action one lemma says what must change for
it to have happened; the step lemma reads that off the effect lemmas. The
recovery statements need `CountInv`: their guards speak of attempts, the abstract
ones of losses, and the two agree only for a row that nobody holds.

**Ingest** (`IngestProofs`). `IngestInv` joins the types of both halves, that a tick at work
knows its job (`HoldersKnowTheirJob`: the row is there, of the type and for the document of
the tick's frame), and what the pipeline's frame holds at each step (`RunOK`). From it,
`QueueImplemented`: each step of the composition is a step of the queue or leaves it
alone, since a run yields only PDFs and only ahead of its cursor. With that the queue's
theorems hold of the composition: `PagesHaveOneRun` is `OnePendingJobPerPage` and the
one worker of a job.

`CursorsAreExact`, `SyncedDocumentsAreWhole` and `SyncedDocumentsAreFresh` are what an ingest is
for, of pages and PDFs alike. They rest on one inductive invariant, `DocumentInv`: `IngestInv`,
that only PDFs have cursors (`OnlyPdfsYield`), and `DocsInv`, which says of each document that is
not `cut`:

* At most one job has begun it, at most one tick is busy on it (up to its late write of the
  status), and no job that runs has lost its tick (`Alone`). No theorem about requests gives
  this, for a page may be raced and a PDF uploaded twice: a claim that would end it raises
  `cut` (`Crosses`), and so does a crash.
* Who has the document knows what state it is in: a tick at work, by the pipeline's program
  counter (`WorkOK`), a yielded job (`Opened`: the first n blocks are in, once each, and more
  are to come), or nobody (`Tidy`: unless it is empty and not SYNCED, it is complete). At each
  hand-over what one leaves is what the next finds (`EndsWith`, `StartsFrom`).
* Complete means whole or `mixed`, and clean or `unpurged`. Where texts were mixed the places
  of the blocks still count up to the cursor (`Prefix`), which is why `CursorsAreExact` excepts
  only `cut`; nothing else does, for a resumed tick may find its text shorter than its cursor.

A document opened afresh by a tick that crosses nobody is made good, whatever it was before:
that step lowers `cut` and establishes `Alone` from the guard of the history itself.

**Cache** (`AnswerCacheProofs`). `FreshUnlessExplained` is not inductive: while a purge
is between its two statements, the row must be among those it found, and an
expired row must keep its parents because an upsert will. `EveryRowIsCaught` is that
strengthening (`RowsAreCaught`); TLC checks it in `answer_cache`, and
`FreshOrExplained` follows. The step that needs care is the deletion: it removes
found rows from *every* purge, since a row inserted again has a new id.
`AnswersDoNotDrift` needs what each turn has in hand, step by step: what it was asked, what
it looked up and for what it generated; a hit is served and never written back.

**Chat** (`ChatTurnProofs`). `AnswersArePrompted` rests on: ids are at most `created` and
belong to one row (`Identified`), a row that regenerate is about to delete is
an answer and no prompt (`Targeted`), and a request past its look-up has its
prompt stored (`Prompted`). `CapOverrunIsBounded` counts, besides the prompts stored,
the requests that have passed the cap and not yet stored theirs (`CapInv`):
admission sees fewer than the limit, so prompts plus pending requests stay
below limit plus requests. `TurnsAreOrderly` says, of every conversation in which no two
requests overlapped, how its rows end at each step of the one request at work;
`RetriesReuseThePrompt` is the action property that a retry of one call adds no second prompt.

**Stream** (`AnswerStreamProofs`). `AnswersArriveWhole` is `StreamInv` for any number of
pieces. `OnTheWay` says where each token is that was streamed and not yet taken: at a place
of its own in the queue, the places in order and all others held by stages. Six lemmas
say what a stage or a token pushed, handed over or taken does to it, whatever
the sequences; with the queue empty it gives that all was taken (`AllTaken`), which is what the
await behind the loop relies on. The invariant adds that a waiter stands for a consumer
with an empty queue (`WaiterOK`), that the queue ends only after its pipeline (`EndOK`), that the
writer's answer is what it streamed but for blanks (`AnswerOK`), and what the bubble shows
from the end of the queue to the end of the turn (`BubbleOK`).

**Models' calls** (`ServerProofs`). `ClientIsSound`: permits taken are calls in "run", each
breaker's three fields fit its state whenever a late result comes in, and a stream that has
sent a token is not started again. The invariant adds to `LlmInv` only what a call keeps while
it waits; the semaphore is a count of a finite set that changes by one element.

**Administrators** (`ServerProofs`). `SomeAdminRemains`: an update is written by one who was an
active administrator at admission, on somebody else. So the writer is the one who remains,
unless another update has taken the right away between the two statements; that is the
history flag `lateWrite`, and nothing else is needed.

**Memory** (`ServerProofs`). `SummariesGrow` is an action property; its invariant says that one
turn at most is at work, and that the summary in its memory is the saved one until it has
folded a pair in, and from then on the saved one and a pair (`RestsOn`), as long as no two turns
have overlapped and loads have succeeded (`excused`).

**Request limiter** (`ServerProofs`). `WindowIsKept`, of every stretch of time and not only the
last: a caller's accepted times are ordered, and any of them lies a window before the one that is
`MaxRequests` places later (`Spaced`). That is kept because the bucket holds the end of these
times, and what it lacks is older than the window (`Holds`), also after a sweep, which
forgets only buckets whose last time is (`EvictedIsStale`). A refused caller's bucket is exactly the
times of the window (`InWindow`).

**Translation** (`ServerProofs`). `SegmentsArePaidOnce` has two halves. `MeetInv` is the in-flight
table: its entries are the segments somebody pays for, each by one document and none of
them stored, and who joins has an entry to wait for; a document holds the texts before the one it is at
(`DocOK`). `OverInv` is the budget. The test of a day's budget and the charge are apart, so the
sum of what is paid and how many wait (`QueueOf`) is bounded, not the first alone:
before the day is looked at all of it is from documents that passed yesterday's test, at most
one each; a test that passes later sees all that was paid but by these (`Within`). The bound,
less than two requests of each document beyond the budget, is reached by TLC. It is a bound of a
pool: with a single key each waiting document resets the count when its own timer
fires, and a late one gives the budget once more, so nothing is claimed there. The first version
of `OverdrawnByWaiters` said it of both; the attempt to prove it showed the difference.

**Accounts** (`AccountsProofs`). `AccountsAreSound` (every row hangs on a user that exists; the
cap over all conversations of a guest), `GuestsKeepTheirData` and `AccountRatingsStand`. A claim
is several statements that fail and are repeated, so the invariant says, for each step a
request has passed, what no longer hangs on the guest (`MovedAll`), and that a request that
is past the move stays past it for as long as it uses that cookie (`KeepsClaim`). The
cap is a sum over conversations: two lemmas say how the sum changes when one
conversation does, by taking a smallest set for which it would not
(`LeastSet`), for the induction theorems of the library cannot be instantiated here.

**Bulk ingestion** (`ServerProofs`). `BulkIngestionIsWhole`: while the loop of `IngestQueue`
runs, nothing waits while there is room (`RoomUsed`); a document waits, runs, threw or has a
result, one of them and once (`JobsApart`, `ResultsApart`). So with the queue drained the
results are those of the documents that did not throw. A batch has as many results and lines
left as it read lines (`BatchOK`).

**Agents** (`ServerProofs`). `AgentsAccountForTheirWork` follows the label of the usage
collector through the stages (`LabelAt`). A call keeps the label under which it was made
(`StageRight`), and of each maker there is one, made only after the stage before it
(`MadeBefore`): that is why a late call cannot be another's. The steps of the trace are as many
as the tools' results that belong to them (`StepsOK`), and what is in the context is in the
sources from research on (`FoundOK`).

**Scraper** (`ServerProofs`). `InnerOnlyWhenMoved`: between the guard and the request no redirect
can come (`ScrapeOK`), so a host that is asked had, when it was checked, an address that passes,
and has it still unless it `moved` (`CheckOK`, which follows the address from the check to the
request, and from the answer to the second check); the host whose answer is read was asked
(`HostsOK`), a refused page has at most one attempt left that counts (`RefusalsOK`), and the
requests so far fit the attempts before this one and the hops of this one (`RequestsOK`).

**Embeddings** (`ServerProofs`). `EmbeddingCacheIsBounded`. Each entry of the `Map` knows which of
the others were inserted before it. The cap holds because at the cap something is always
dropped: of a finite map in which these sets are ordered (`MapInOrder`) the entry with the
smallest has an empty one (`OldestIsThere`). Deletions and insertions, also of a key that is
there and keeps its place, leave that order (`EmptiedIs`, `StoredIs`).

**Server** (`ServerProofs`). `ServerCorrect` states `ServerInv` of `MCSpec`, the specification that
`server` checks. A step is one of one part and leaves the variables of the others alone; each
part's invariant is kept by its own lemma. The theorems of the parts are about their
own specifications, without the narrowings of `MCServer`.

**Pages** (`PagesProofs`). Each page has a theorem of its own, and `PagesCorrect` joins them to
`FollowedPagesInv`.

* *Tester* (`TesterCorrect`). What is kept is bounded by `Keep`, the prunings under way and
  those that were cut short: a pruning's list is read before it deletes, and other runs start
  and end between the two. The invariant says what such a list is good for (`KeepsEnough`): a
  row that is older than one of the list and not on it has `Keep` newer ones, for ever,
  since rows are created in order. The bound counts what a pruning still
  has to delete; it needs that of a finite set of numbers at most n have fewer than n above.
* *History* (`HistoryCorrect`). The order of the pages is by a key that moves. No item of a page
  has a later key than it has now, none lies below the cursor, and an item on no page that has
  not been updated since the first page was read is below the cursor (`LoadedOK`). The
  first two give `NoItemTwice`, the third with no cursor left `MissedOnlyIfMoved`. A
  refetch builds its pages anew and keeps the same of them until it replaces the list.
* *Document page* (`ConsoleCorrect`). What the page says of a job that ended is true, of
  whichever poll it was: a job is owned by one poll, under a live lease, and runs
  (`OwnedRuns`); the watched job exists (`WatchedThere`); an ended job stays ended.
* *Document list, sidebar* (`ListCorrect`, `SidebarCorrect`). The answer that is on its way
  is what is stored, unless something changed that the cache was not told of
  (`ReadIsStored`, `ReadIsListing`); with nothing on its way and nothing marked, so is the list. The
  palette's selection stays within what it lists. A first load that is joined may bring what was there
  before the change; then the list's history says so.
* *Recent queries* (`LogCorrect`). No query is listed twice and none passed over, although
  answers to old questions come late and a regeneration deletes one that is listed. What is
  listed had an answer once, and the next page starts below all that is listed. The newest rows
  below a cursor are those with fewer than a page of others above them; that there are some, and
  with each one all newer ones, is a lemma on cardinalities (`NewestAre`). For the modes, an answer's
  row has the mode of its stream, and a stream differs from its question only if it took it up
  in another mode, which `reasked` records (`LogIInv`).
* *Source browser* (`SourcesCorrect`). Pages go up, through one ingestion, to their cursor
  (`PagesUp`), also those of a refetch while it is read; a next page is asked for only where there is a cursor
  (`ReadOK`), and a cursor whose row was replaced yields no rows. So a list never mixes two
  ingestions. The navigator's place stays within the list (`PlaceWithin`), and of a finite set
  of numbers exactly one has as many below it as the place says (`RankedOne`).
* *Chat page* (`ViewCorrect`). That a page shows what is stored once all is settled is not
  inductive by far: calls on a page that was left go on, rows are renumbered by nobody, an
  answer of the cache may be read before a prompt and arrive after it. The invariant is
  about one conversation at a time (`ConvOK`). Numbers are used once (`Numbered`); while no call
  streams the cache's answer, or the one to come, is what is stored unless marked (`FoundIs`); the
  page is right whenever the cache is (`RowsRight`), and when the page runs ahead of the cache, the
  cache *differs*, it has a dropped answer or lacks a prompt (`AheadDiffers`), so that the
  next answer is taken over and not ignored as the same. A page that a call left behind shows the
  cache (`LeftBehind`).

Every inductive invariant was an invariant of the component's run before it was proved: `DocumentInv`
on both instances of `Ingest`, `LogIInv`, `SidebarIInv` and `ViewIInv` on that of the pages,
`ScraperIInv` on that of the server, and so on. TLC finds a wrong guess in minutes, the prover only
says that a step is not proved.

Only model-checked:

* The liveness properties (`EveryJobFinishes`, `StaleAnswersDie`, `CallsEnd`, `TurnsEnd`,
  `BackendsRecover`, `WatchesEnd`): fairness and ENABLED are beyond the prover.
* `DataInv`, the parts that compute over data: `Retrieval` sorts and filters sequences,
  `Chunker` and `JsonLoose` recurse over a text, `GivenWhatCounts` adds up lengths by a fold, and `WaitBounded` has a power of two.
  What each computes for every input is induction over data.
* `GroupsInv`: that each conversation is in one group of the sidebar, and the types of the lists
  these groups and the table of documents come from, which are built with `SelectSeq`.

## What is abstracted

* Texts, vectors, titles, prompts and answers are model values or versions;
  similarity is a relation given to the model.
* Clocks are the expiry of a lease, a TTL in ticks, a back-off that ends.
* `ChatTurn` is one conversation with distinct `createdAt`; the guest cap over several
  conversations, their deletion and restoration are in `Accounts`.
* A purge in `IngestPipeline` is one step that succeeds or fails; its two statements and its
  crash are in `AnswerCache`. Translation, chunking and embedding are outcomes there, and modules of
  their own (`Translation`, `Chunker`, `Embeddings`).
* The query cache is what the pages use of it: data, staleness, one fetch, joined or
  cancelled by a newer one, and optimistic updates.
* `QueryLog` is one conversation, which is not deleted, with distinct `createdAt`. The counts of the
  dashboard, the shares of the modes and the most frequent questions are left out.

### Not modelled

* HTML and PDF parsing, cleaning, masking, prompts and language
  detection: pure functions on strings or I/O of libraries. Their outcomes are inputs.
* BM25's formula, cosine similarity and the encoder: arithmetic on reals.
* The landing page, the visualizer of traces, charts, markup: presentation.
* Auth.js's tokens and providers; Redis's limiter; Postgres below Read Committed.
* Tracing, logging, configuration, scripts, the Python predecessor.

## Plan

Modelled: everything of the first plan, and the pages of the client. Proved: the safety
properties of queue, ingest, cache, chat, stream, LLM client, accounts, administrators, memory,
request limiter, translation, bulk ingestion, agents, scraper, embeddings and of the eight pages. What is left: closed forms of what
`Retrieval` and `Agents` compute by sorting and folding (which chunks are the best n, what is
left of a context), and lemmas that step by step arrive at them. They need no RECURSIVE
operator.
