------------------------------ MODULE Retrieval ------------------------------
(***************************************************************************)
(* One question on its way through hybrid retrieval and the CRAG gate: the *)
(* gate of the domain, expansion into queries, dense and sparse search of  *)
(* every query side by side (Postgres or the corpus cached in the          *)
(* process), rank fusion, the cross-encoder or its fallback, the join with *)
(* the parents, and the answer the standard pipeline gives.  Documents are *)
(* re-ingested meanwhile: their chunks and parents get new ids.            *)
(*                                                                         *)
(* Scores are percentages.  What is similar, what matches and what the     *)
(* cross-encoder says is free; what is done with it is the code's.         *)
(***************************************************************************)
EXTENDS Integers, Sequences, FiniteSets, FiniteSetsExt, SequencesExt

CONSTANTS
  Chunks, DocOf, VersionOf, ParentOf, NoParent,
  MaxQueries,     \* numQueries of the expansion
  TopKOf,         \* dense and sparse top k, wide or not
  RerankTopKOf,   \* top k of the reranker, wide or not
  RerankMaxDocs, RrfK, MinSimilarity, CragThreshold, KeepScore, Unscored,
  Sims,           \* cosine similarities
  ProviderScores, \* what the cross-encoder returns, and 0
  Sigmoid

ASSUME RetrievalAssumption ==
  /\ IsFiniteSet(Chunks) /\ MaxQueries \in Nat \ {0}
  /\ TopKOf \in [BOOLEAN -> Nat \ {0}] /\ RerankTopKOf \in [BOOLEAN -> Nat \ {0}]
  /\ RerankMaxDocs \in Nat \ {0} /\ RrfK \in Nat \ {0}
  /\ MinSimilarity \in 0..100 /\ CragThreshold \in 0..100 /\ KeepScore \in 0..100
  /\ Unscored \in 0..100 /\ Sims \subseteq 0..100
  /\ ProviderScores \subseteq 0..100 /\ 0 \in ProviderScores
  /\ Sigmoid \in [ProviderScores -> 0..100]

VARIABLES
  rowsOf,  \* rowsOf[d]: the rows of document d are those of this version
  cached,  \* chunks cached by the process for BM25; none is not loaded
  search   \* the question

retrievalVars == <<rowsOf, cached, search>>

DocIds == {DocOf[c] : c \in Chunks}
LastVersion(d) == Max({VersionOf[c] : c \in {c \in Chunks : DocOf[c] = d}})
Alive == {c \in Chunks : VersionOf[c] = rowsOf[DocOf[c]]}

None == -1
\* sim: similarityScore, absent from what sparse search found.
FoundChunk == [chunk : Chunks, sim : Sims \cup {None}]
\* known: history, the best similarity dense search measured.
Candidate == [chunk : Chunks, sim : Sims \cup {None}, known : Sims \cup {None}]
\* whole: the text is the parent's.
Scored == [chunk : Chunks, cross : 0..100, known : Sims \cup {None}, whole : BOOLEAN]

NotYet == [done |-> FALSE, found |-> <<>>]
Answers == {"none", "blocked", "fallback", "grounded", "unwritten", "error"}

Search == [pc : {"idle", "expand", "retrieve", "rerank", "join", "gate", "over"},
           queries : 0..MaxQueries, wide : BOOLEAN,
           embedded : BOOLEAN,
           dense : Seq([done : BOOLEAN, found : Seq(FoundChunk)]),
           sparse : Seq([done : BOOLEAN, found : Seq(FoundChunk)]),
           fused : Seq(Candidate), ranked : Seq(Scored),
           by : {"none", "encoder", "fallback"}, raw : SUBSET ProviderScores,
           moved : BOOLEAN, answer : Answers]
NoSearch == [pc |-> "idle", queries |-> 0, wide |-> FALSE, embedded |-> FALSE, dense |-> <<>>,
         sparse |-> <<>>, fused |-> <<>>, ranked |-> <<>>, by |-> "none", raw |-> {},
         moved |-> FALSE, answer |-> "none"]

RetrievalTypeOK ==
  /\ rowsOf \in [DocIds -> Nat]
  /\ cached \subseteq Chunks
  /\ search \in Search

RetrievalInit ==
  /\ rowsOf = [d \in DocIds |-> 1]
  /\ cached = {} /\ search = NoSearch

SearchAt(pc) == search.pc = pc
Go(new) == search' = new
End(answer) == [search EXCEPT !.pc = "over", !.answer = answer, !.dense = <<>>,
                              !.sparse = <<>>, !.fused = <<>>]
Tables == <<rowsOf, cached>>
Cut(s, n) == SubSeq(s, 1, IF Len(s) > n THEN n ELSE Len(s))

\* A set in the order Before, which is total on it.
InOrder(S, Before(_, _)) ==
  [i \in 1..Cardinality(S) |->
     CHOOSE x \in S : Cardinality({y \in S : Before(y, x)}) = i - 1]

-----------------------------------------------------------------------------
(* The domain and the queries *)

Verdicts == {"safe", "unsafe", "invalid", "fails"}

\* isQueryOutOfDomain: listed terms decide alone, a classifier in doubt admits.
OutOfDomain(listed, verdict) == listed \/ verdict = "unsafe"

AskQuestion(listed, verdict) ==
  /\ SearchAt("idle")
  /\ Go(IF OutOfDomain(listed, verdict) THEN [End("blocked") EXCEPT !.pc = "over"]
        ELSE [NoSearch EXCEPT !.pc = "expand"])
  /\ UNCHANGED Tables

\* generateSubQueries: 1 query when the model's answer is of no use.
ExpandQuery(n, wide) ==
  /\ SearchAt("expand")
  /\ Go([search EXCEPT !.pc = "retrieve", !.queries = n, !.wide = wide,
                       !.dense = [i \in 1..n |-> NotYet], !.sparse = [i \in 1..n |-> NotYet]])
  /\ UNCHANGED Tables

-----------------------------------------------------------------------------
(* Dense and sparse search *)

\* One request embeds every query; without vectors the question fails, whatever
\* sparse search is doing.
Embed ==
  /\ SearchAt("retrieve") /\ ~search.embedded
  /\ Go([search EXCEPT !.embedded = TRUE])
  /\ UNCHANGED Tables

Fails ==
  /\ search.pc \in {"retrieve", "join"}
  /\ Go(End("error"))
  /\ UNCHANGED Tables

TopK == TopKOf[search.wide]
Distinct(s) == \A i, j \in 1..Len(s) : i # j => s[i].chunk # s[j].chunk

\* findSimilarChunks: rows similar enough, the most similar first.
DenseRankings(n) ==
  {s \in BoundedSeq([chunk : Alive, sim : {x \in Sims : x >= MinSimilarity}], n) :
     Distinct(s) /\ \A i \in 1..(Len(s) - 1) : s[i].sim >= s[i + 1].sim}

Dense(i) ==
  /\ SearchAt("retrieve") /\ search.embedded
  /\ i \in 1..search.queries /\ ~search.dense[i].done
  /\ \E s \in DenseRankings(TopK) :
       Go([search EXCEPT !.dense[i] = [done |-> TRUE, found |-> s]])
  /\ UNCHANGED Tables

SparseRankings(rows, n) == {s \in BoundedSeq([chunk : rows, sim : {None}], n) : Distinct(s)}

SparseFound(i, rows) ==
  /\ SearchAt("retrieve") /\ i \in 1..search.queries /\ ~search.sparse[i].done
  /\ \E s \in SparseRankings(rows, TopK) :
       Go([search EXCEPT !.sparse[i] = [done |-> TRUE, found |-> s]])

SparseFts(i) == SparseFound(i, Alive) /\ UNCHANGED Tables

\* Full text search failed: the corpus in memory is searched, read if need be.
SparseBm25(i) ==
  LET loaded == IF cached = {} THEN Alive ELSE cached IN
  /\ SparseFound(i, loaded)
  /\ cached' = loaded
  /\ UNCHANGED rowsOf

-----------------------------------------------------------------------------
(* Reciprocal rank fusion *)

Hits(rankings, c) ==
  {h \in (DOMAIN rankings) \X (1..TopKOf[TRUE]) :
     h[2] <= Len(rankings[h[1]]) /\ rankings[h[1]][h[2]].chunk = c}

\* 1 / (k + rank) over a common denominator.
Denominator == ProductSet({RrfK + r : r \in 1..TopKOf[TRUE]})
Share(rank) == Denominator \div (RrfK + rank)
RrfScore(rankings, c) == MapThenSumSet(LAMBDA h : Share(h[2]), Hits(rankings, c))

Place(h) == h[1] * (TopKOf[TRUE] + 1) + h[2]
FirstHit(rankings, c) == Min({Place(h) : h \in Hits(rankings, c)})
\* The object kept is the last one put in the map.
LastHit(rankings, c) == CHOOSE h \in Hits(rankings, c) :
                          \A g \in Hits(rankings, c) : Place(g) <= Place(h)

Known(rankings, c) ==
  Max({rankings[h[1]][h[2]].sim : h \in Hits(rankings, c)} \cup {None})

Fused(rankings) ==
  LET ids == {c \in Chunks : Hits(rankings, c) # {}}
      score == [c \in ids |-> RrfScore(rankings, c)]
      first == [c \in ids |-> FirstHit(rankings, c)]
      order == InOrder(ids, LAMBDA c, d :
                 score[c] > score[d] \/ (score[c] = score[d] /\ first[c] < first[d]))
      Kept(c) == rankings[LastHit(rankings, c)[1]][LastHit(rankings, c)[2]] IN
  [i \in 1..Len(order) |-> [chunk |-> order[i], sim |-> Kept(order[i]).sim,
                            known |-> Known(rankings, order[i])]]

Lists(lane) == [i \in 1..Len(lane) |-> lane[i].found]

Fuse ==
  /\ SearchAt("retrieve")
  /\ \A i \in 1..search.queries : search.dense[i].done /\ search.sparse[i].done
  /\ Go([search EXCEPT !.pc = "rerank", !.dense = <<>>, !.sparse = <<>>,
                       !.fused = Fused(Lists(search.dense) \o Lists(search.sparse))])
  /\ UNCHANGED Tables

-----------------------------------------------------------------------------
(* Cross-encoder and its fallback *)

\* Stable, the best first.
ByScore(s) ==
  LET order == InOrder(1..Len(s), LAMBDA i, j :
                 s[i].cross > s[j].cross \/ (s[i].cross = s[j].cross /\ i < j)) IN
  [i \in 1..Len(s) |-> s[order[i]]]

ScoredAs(c, cross) == [chunk |-> c.chunk, cross |-> cross, known |-> c.known, whole |-> FALSE]
RerankTopK == RerankTopKOf[search.wide]

Reranked(ranked, by, raw) ==
  [search EXCEPT !.pc = "join", !.ranked = ranked, !.by = by, !.raw = raw, !.fused = <<>>]

\* handleRerank of the worker: back in the order sent, 0 where nothing was said.
WorkerScores(said, n) == [i \in 1..n |-> IF i \in DOMAIN said THEN said[i] ELSE 0]

RerankAnswers ==
  LET sent == Cut(search.fused, RerankMaxDocs) IN
  /\ SearchAt("rerank") /\ search.fused # <<>>
  /\ \E ids \in SUBSET (1..Len(sent)) : \E said \in [ids -> ProviderScores \ {0}] :
       LET scores == WorkerScores(said, Len(sent)) IN
       Go(Reranked(Cut(ByScore([i \in 1..Len(sent) |-> ScoredAs(sent[i], Sigmoid[scores[i]])]),
                         RerankTopK),
                   "encoder", {scores[i] : i \in 1..Len(sent)}))
  /\ UNCHANGED Tables

\* Mutant: the order of the fusion is kept.
FallbackRerankUnsorted(s, n) ==
  [i \in 1..Len(Cut(s, n)) |-> ScoredAs(s[i], IF s[i].sim = None THEN Unscored ELSE s[i].sim)]

FallbackRerank(s, n) ==
  ByScore([i \in 1..Len(Cut(s, n)) |->
             ScoredAs(s[i], IF s[i].sim = None THEN Unscored ELSE s[i].sim)])

\* Nothing to rank; or no token, no answer in time, an error or a malformed answer.
RerankFails ==
  /\ SearchAt("rerank")
  /\ Go(Reranked(FallbackRerank(search.fused, RerankTopK),
                 IF search.fused = <<>> THEN "none" ELSE "fallback", {}))
  /\ UNCHANGED Tables

-----------------------------------------------------------------------------
(* Parents, the gate and the answer *)

WholeParent(s, i) == ParentOf[s[i].chunk] # NoParent /\ s[i].chunk \in Alive

Repeated(s, i) == WholeParent(s, i) /\ \E j \in 1..(i - 1) :
                    WholeParent(s, j) /\ ParentOf[s[j].chunk] = ParentOf[s[i].chunk]

\* Each parent once, for its first child; a child whose parent is gone stays itself.
ExpandToParents(s) ==
  LET kept == InOrder({i \in 1..Len(s) : ~Repeated(s, i)}, LAMBDA i, j : i < j) IN
  [k \in 1..Len(kept) |-> [s[kept[k]] EXCEPT !.whole = WholeParent(s, kept[k])]]

Join ==
  /\ SearchAt("join")
  /\ Go([search EXCEPT !.pc = "gate", !.ranked = ExpandToParents(search.ranked)])
  /\ UNCHANGED Tables

\* The join keeps the first of the ranking first.
BestCrossScore == IF search.ranked = <<>> THEN 0 ELSE search.ranked[1].cross
NeedsWebFallback == BestCrossScore < CragThreshold
Filtered == {i \in 1..Len(search.ranked) : search.ranked[i].cross >= KeepScore}

\* The gate's web results, found or static, are not part of the answer.
RefuseQuestion ==
  /\ SearchAt("gate") /\ (Filtered = {} \/ NeedsWebFallback)
  /\ Go(End("fallback"))
  /\ UNCHANGED Tables

GenerateAnswer(answer) ==
  /\ SearchAt("gate") /\ Filtered # {} /\ ~NeedsWebFallback
  /\ Go(End(answer))
  /\ UNCHANGED Tables

Return == SearchAt("over") /\ Go(NoSearch) /\ UNCHANGED Tables

-----------------------------------------------------------------------------
(* Meanwhile *)

\* Another process ingests d anew, with new rows for chunks and parents.
Reingest(d) ==
  /\ rowsOf[d] < LastVersion(d)
  /\ rowsOf' = [rowsOf EXCEPT ![d] = @ + 1]
  /\ search' = [search EXCEPT !.moved = search.pc \in {"retrieve", "rerank", "join"}]
  /\ UNCHANGED cached

\* The cached corpus is an hour old, or this process ingested a document.
CorpusExpires == cached # {} /\ cached' = {} /\ UNCHANGED <<rowsOf, search>>

RetrievalNext ==
  \/ \E listed \in BOOLEAN, verdict \in Verdicts : AskQuestion(listed, verdict)
  \/ \E n \in 1..MaxQueries, wide \in BOOLEAN : ExpandQuery(n, wide)
  \/ Embed \/ Fails
  \/ \E i \in 1..MaxQueries : Dense(i) \/ SparseFts(i) \/ SparseBm25(i)
  \/ Fuse \/ RerankAnswers \/ RerankFails \/ Join
  \/ RefuseQuestion \/ \E answer \in {"grounded", "unwritten"} : GenerateAnswer(answer)
  \/ Return
  \/ \E d \in DocIds : Reingest(d)
  \/ CorpusExpires

RetrievalSpec == RetrievalInit /\ [][RetrievalNext]_retrievalVars

-----------------------------------------------------------------------------

Context == {i \in 1..Len(search.ranked) : SearchAt("gate")}

(* The context the model is given is in the order of its scores, so that   *)
(* the score the gate reads is the best one, by encoder or by fallback.    *)
ContextOrdered ==
  \A i, j \in 1..Len(search.ranked) : i < j => search.ranked[i].cross >= search.ranked[j].cross

(* No text is given twice: no chunk, and no parent for two of its          *)
(* children, whichever queries and engines found them and although rows    *)
(* are replaced on the way.                                                *)
ContextDistinct ==
  \A i, j \in Context : i # j =>
    /\ search.ranked[i].chunk # search.ranked[j].chunk
    /\ search.ranked[i].whole /\ search.ranked[j].whole
         => ParentOf[search.ranked[i].chunk] # ParentOf[search.ranked[j].chunk]

(* A chunk that has a parent is given alone only if its document was       *)
(* ingested anew on the way, or it came from a corpus cached before that.  *)
AloneOnlyIfReplaced ==
  \A i \in Context :
    LET c == search.ranked[i].chunk IN
    ParentOf[c] # NoParent /\ ~search.ranked[i].whole =>
      \/ search.moved \/ rowsOf[DocOf[c]] > VersionOf[c]

(* A grounded answer has a source above the threshold behind it.           *)
GroundedPassed ==
  search.answer = "grounded" =>
    \E i \in 1..Len(search.ranked) : search.ranked[i].cross >= CragThreshold

RetrievalInv ==
  RetrievalTypeOK /\ ContextOrdered /\ ContextDistinct /\ AloneOnlyIfReplaced /\ GroundedPassed

=============================================================================
