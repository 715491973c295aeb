------------------------------ MODULE Embeddings ------------------------------
(***************************************************************************)
(* The embedding client of one process: requests for batches of texts run  *)
(* at the same time, through the batch cache to the embeddings worker, or  *)
(* in parts with retries to Gemini.  A batch is its texts.                 *)
(***************************************************************************)
EXTENDS Integers, FiniteSets

CONSTANTS
  EmbedRequests,   \* embedTexts under way
  Batches, SizeOf,
  CacheBatch, \* EMBED_CACHE_MAX_BATCH
  CacheSize,  \* EMBED_CACHE_MAX_ENTRIES
  CacheTtl, PartSize, \* GEMINI_BATCH_LIMIT
  MaxAttempts,
  MaxHour     \* bound of the checking: time ends here

ASSUME EmbeddingsAssumption ==
  /\ Batches # {} /\ SizeOf \in [Batches -> Nat]
  /\ CacheBatch \in Nat \ {0} /\ CacheSize \in Nat \ {0} /\ CacheTtl \in Nat
  /\ PartSize \in Nat \ {0} /\ MaxAttempts \in Nat \ {0} /\ MaxHour \in Nat

VARIABLES
  provider, \* EMBEDDING_PROVIDER
  hour,
  vectorCache,    \* the Map: vectorCache[b], of the batches it holds
  embed     \* embed[r]

embeddingVars == <<provider, hour, vectorCache, embed>>

\* An entry knows which of the others were inserted before it.
VectorEntry == [expiresAt : Nat, older : SUBSET Batches]
EmbedCall == [pc : {"none", "fetch", "backoff", "vectors", "failed"}, batch : Batches,
          part : Nat, attempt : 1..MaxAttempts]
Unasked == [pc |-> "none", batch |-> CHOOSE b \in Batches : TRUE, part |-> 0, attempt |-> 1]

BatchesHeld == DOMAIN vectorCache

EmbeddingsTypeOK ==
  /\ provider \in {"hf", "gemini"} /\ hour \in 0..MaxHour
  /\ BatchesHeld \subseteq Batches /\ vectorCache \in [BatchesHeld -> VectorEntry]
  /\ embed \in [EmbedRequests -> EmbedCall]

EmbeddingsInit ==
  /\ provider \in {"hf", "gemini"} /\ hour = 0 /\ vectorCache = [b \in {} |-> {}]
  /\ embed = [r \in EmbedRequests |-> Unasked]

SetEmbed(r, new) == embed' = [embed EXCEPT ![r] = new]
EndAs(r, pc) == [Unasked EXCEPT !.pc = pc, !.batch = embed[r].batch]

Cacheable(b) == SizeOf[b] > 0 /\ SizeOf[b] <= CacheBatch

\* Map.delete, of the batches in D.
Emptied(cache, D) ==
  [b \in DOMAIN cache \ D |-> [cache[b] EXCEPT !.older = @ \ D]]

\* EmbeddingBatchCache.get: an entry past its time is dropped on the way.
Unexpired(b) == b \in BatchesHeld /\ vectorCache[b].expiresAt >= hour

EmbedTexts(r, b) ==
  /\ embed[r].pc \in {"none", "vectors", "failed"}
  /\ \/ /\ SizeOf[b] = 0 \/ (provider = "hf" /\ Cacheable(b) /\ Unexpired(b))
        /\ SetEmbed(r, [Unasked EXCEPT !.pc = "vectors", !.batch = b])
        /\ UNCHANGED vectorCache
     \/ /\ SizeOf[b] > 0 /\ ~(provider = "hf" /\ Cacheable(b) /\ Unexpired(b))
        /\ SetEmbed(r, [Unasked EXCEPT !.pc = "fetch", !.batch = b])
        /\ vectorCache' = IF provider = "hf" /\ Cacheable(b) THEN Emptied(vectorCache, {b})
                          ELSE vectorCache
  /\ UNCHANGED <<provider, hour>>

\* At its cap the cache drops what has expired ...
PastTime == {b \in BatchesHeld : vectorCache[b].expiresAt < hour}
Swept == IF Cardinality(BatchesHeld) < CacheSize THEN vectorCache ELSE Emptied(vectorCache, PastTime)

\* Mutant: ... and nothing else.
RoomedSweptOnly == Swept

\* EmbeddingBatchCache.set: ... and if that is not enough the oldest.
Roomed ==
  IF Cardinality(DOMAIN Swept) < CacheSize THEN Swept
  ELSE Emptied(Swept, {b \in DOMAIN Swept : Swept[b].older = {}})

\* A key that is there keeps its place.
Stored(cache, b) ==
  [c \in DOMAIN cache \cup {b} |->
     IF c # b THEN cache[c]
     ELSE [expiresAt |-> hour + CacheTtl,
           older |-> IF b \in DOMAIN cache THEN cache[b].older ELSE DOMAIN cache]]

HfAnswers(r) ==
  /\ provider = "hf" /\ embed[r].pc = "fetch"
  /\ SetEmbed(r, EndAs(r, "vectors"))
  /\ vectorCache' = IF Cacheable(embed[r].batch) THEN Stored(Roomed, embed[r].batch) ELSE vectorCache
  /\ UNCHANGED <<provider, hour>>

\* No network, no answer in time, an error, or vectors that do not match the texts;
\* Gemini: an error that is no rate limit, or the last attempt.
FetchFails(r) ==
  /\ embed[r].pc = "fetch"
  /\ SetEmbed(r, EndAs(r, "failed"))
  /\ UNCHANGED <<provider, hour, vectorCache>>

Parts(b) == (SizeOf[b] + PartSize - 1) \div PartSize

GeminiAnswers(r) ==
  /\ provider = "gemini" /\ embed[r].pc = "fetch"
  /\ SetEmbed(r, IF embed[r].part + 1 = Parts(embed[r].batch) THEN EndAs(r, "vectors")
                 ELSE [embed[r] EXCEPT !.part = @ + 1, !.attempt = 1])
  /\ UNCHANGED <<provider, hour, vectorCache>>

RateLimited(r) ==
  /\ provider = "gemini" /\ embed[r].pc = "fetch" /\ embed[r].attempt < MaxAttempts
  /\ SetEmbed(r, [embed[r] EXCEPT !.pc = "backoff", !.attempt = @ + 1])
  /\ UNCHANGED <<provider, hour, vectorCache>>

BackoffEnds(r) ==
  /\ embed[r].pc = "backoff"
  /\ SetEmbed(r, [embed[r] EXCEPT !.pc = "fetch"])
  /\ UNCHANGED <<provider, hour, vectorCache>>

HourPasses == hour < MaxHour /\ hour' = hour + 1 /\ UNCHANGED <<provider, vectorCache, embed>>

Outcome(r) ==
  HfAnswers(r) \/ FetchFails(r) \/ GeminiAnswers(r) \/ RateLimited(r) \/ BackoffEnds(r)

EmbeddingsNext ==
  \/ \E r \in EmbedRequests, b \in Batches : EmbedTexts(r, b)
  \/ \E r \in EmbedRequests : Outcome(r)
  \/ HourPasses

\* Requests have deadlines and the timer of a backoff fires.
EmbeddingsFairness == \A r \in EmbedRequests : WF_embeddingVars(Outcome(r))
EmbeddingsSpec == EmbeddingsInit /\ [][EmbeddingsNext]_embeddingVars /\ EmbeddingsFairness

-----------------------------------------------------------------------------

(* Whatever requests store at the same time, the cache holds no more than  *)
(* its cap, in an order that has one oldest, of batches that are to be     *)
(* cached, and none that outlives its hour.                                *)
CacheSound ==
  /\ Cardinality(BatchesHeld) <= CacheSize
  /\ \A b, c \in BatchesHeld : b # c => (b \in vectorCache[c].older <=> c \notin vectorCache[b].older)
  /\ \A b \in BatchesHeld : Cacheable(b) /\ vectorCache[b].expiresAt <= hour + CacheTtl

EmbeddingsInv == EmbeddingsTypeOK /\ CacheSound

=============================================================================
