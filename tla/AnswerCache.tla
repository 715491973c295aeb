---------------------------- MODULE AnswerCache ----------------------------
(***************************************************************************)
(* The semantic answer cache and what touches it: chat turns in both modes *)
(* (runStandardCrag, runAgenticRag) look answers up, generate and write    *)
(* them; ingest runs and deletions drop the answers built on a document;   *)
(* time, the clean-up cron and the admin's clear button remove rows.  The  *)
(* cache is one table shared by both modes and by all conversations, and   *)
(* each of its statements is one step.                                     *)
(*                                                                         *)
(* A question stands for its hash key, so questions that differ in case or *)
(* surrounding space are one.  What the chunks of a document are, and what *)
(* a retrieval sees of them, is module Corpus.                             *)
(***************************************************************************)
EXTENDS Corpus

CONSTANTS
  Turns,        \* chat turns that may run at the same time
  Questions,    \* masked questions
  CanonOf,      \* CanonOf[q]: what query expansion may name as q's English form
  Similar,      \* pairs of questions whose vectors reach CACHE_SIMILARITY_THRESHOLD
  TTL           \* CACHE_TTL_SECONDS, in ticks

ASSUME CacheAssumption ==
  /\ Questions # {}
  /\ CanonOf \in [Questions -> SUBSET Questions]
  /\ Similar \subseteq Questions \X Questions
  /\ TTL \in Nat \ {0}

VARIABLES
  cache,     \* cache[q]: the row keyed by q
  turn,      \* one chat turn
  purge,     \* purge[d]: invalidateForDocument, due or under way for d
  lost       \* history: documents whose last purge failed or never ran

vars == <<version, corpus, cache, turn, purge, lost>>

\* An answer: the version of each document whose text the model was given, the
\* documents named as its sources, the keys it may be stored under, and
\* whether the model finished it.
Answer == [used : Versions, sources : SUBSET Docs,
           keys : SUBSET Questions, sound : BOOLEAN]
NoAnswer == [used |-> [d \in Docs |-> 0], sources |-> {}, keys |-> {}, sound |-> FALSE]

\* late: history, the documents it was outdated for when it was written.
Entry == [here : BOOLEAN, age : 0..TTL, parents : SUBSET Docs, answer : Answer,
          late : SUBSET Docs]
NoEntry == [here |-> FALSE, age |-> 0, parents |-> {}, answer |-> NoAnswer, late |-> {}]

TurnPcs == {"idle", "exact", "similar", "expand", "retrieve", "load", "generate",
            "write", "writeCanon", "end"}
Turn == [pc : TurnPcs, mode : {"standard", "agentic"}, bypass : BOOLEAN,
         q : Questions, canon : Questions, key : Questions,
         second : BOOLEAN, hit : BOOLEAN, answer : Answer,
         read : Versions, left : SUBSET Docs, age : 0..CorpusTTL]
SomeQuestion == CHOOSE q \in Questions : TRUE
IdleTurn == [pc |-> "idle", mode |-> "standard", bypass |-> FALSE,
             q |-> SomeQuestion, canon |-> SomeQuestion, key |-> SomeQuestion,
             second |-> FALSE, hit |-> FALSE, answer |-> NoAnswer,
             read |-> [d \in Docs |-> 0], left |-> {}, age |-> 0]

Purge == [pc : {"idle", "due", "delete", "corpus"}, found : SUBSET Questions]
NoPurge == [pc |-> "idle", found |-> {}]

TypeOK ==
  /\ CorpusTypeOK
  /\ cache \in [Questions -> Entry]
  /\ turn \in [Turns -> Turn]
  /\ purge \in [Docs -> Purge]
  /\ lost \subseteq Docs

Init ==
  /\ CorpusInit
  /\ cache = [q \in Questions |-> NoEntry]
  /\ turn = [a \in Turns |-> IdleTurn]
  /\ purge = [d \in Docs |-> NoPurge]
  /\ lost = {}

Live(k) == cache[k].here /\ cache[k].age < TTL
At(a, pc) == turn[a].pc = pc
Becomes(a, new) == turn' = [turn EXCEPT ![a] = new]
Goto(a, pc) == Becomes(a, [turn[a] EXCEPT !.pc = pc])
Alone == UNCHANGED <<version, corpus, purge, lost>>
Outdated(answer, d) == answer.used[d] \notin {0, version[d]}

-----------------------------------------------------------------------------
(* A chat turn: look the question up *)

\* Only the agentic pipeline honours bypassCache at this first look-up.
Ask(a, q, mode, bypass) ==
  /\ At(a, "idle")
  /\ Becomes(a,
       [IdleTurn EXCEPT !.pc = IF mode = "agentic" /\ bypass THEN "expand" ELSE "exact",
                        !.mode = mode, !.bypass = bypass,
                        !.q = q, !.canon = q, !.key = q])
  /\ UNCHANGED cache /\ Alone

\* Mutant: a hit is stored again under the key that was asked.
ServeAndStore(a, k) ==
  /\ Becomes(a, [turn[a] EXCEPT !.pc = "end", !.hit = TRUE, !.answer = cache[k].answer])
  /\ cache' = [cache EXCEPT ![turn[a].key] = [cache[k] EXCEPT !.age = 0]]
  /\ Alone

\* serveCached: the turn ends with the stored answer; the row is not touched.
Serve(a, k) ==
  /\ Becomes(a, [turn[a] EXCEPT !.pc = "end", !.hit = TRUE, !.answer = cache[k].answer])
  /\ UNCHANGED cache /\ Alone

\* Tier 1: the row of this very key, if it has not expired.
ExactHit(a) == At(a, "exact") /\ Live(turn[a].key) /\ Serve(a, turn[a].key)
ExactMiss(a) ==
  /\ At(a, "exact") /\ ~Live(turn[a].key)
  /\ Goto(a, "similar")
  /\ UNCHANGED cache /\ Alone

\* Tier 2: the nearest row, if it is near enough.
Near(k, l) == k = l \/ <<k, l>> \in Similar
SimilarHit(a) ==
  /\ At(a, "similar")
  /\ \E k \in Questions : Live(k) /\ Near(turn[a].key, k) /\ Serve(a, k)

\* Nothing found, or the look-up failed, which counts as nothing found.
LookupMisses(a) ==
  /\ \/ At(a, "similar") /\ \A k \in Questions : Live(k) => ~Near(turn[a].key, k)
     \/ At(a, "exact") \/ At(a, "similar")
  /\ Goto(a, IF turn[a].key = turn[a].q THEN "expand" ELSE "retrieve")
  /\ UNCHANGED cache /\ Alone

\* generateSubQueries names an English form and a language.  If the form is
\* another key it is looked up too, and later written unless the language is "en".
Expand(a, canon, english) ==
  LET other == ~turn[a].bypass /\ canon # turn[a].q IN
  /\ At(a, "expand")
  /\ canon \in CanonOf[turn[a].q]
  /\ Becomes(a, [turn[a] EXCEPT !.pc = IF other THEN "exact" ELSE "retrieve",
                                !.canon = canon,
                                !.key = IF other THEN canon ELSE turn[a].key,
                                !.second = other /\ ~english])
  /\ UNCHANGED cache /\ Alone

-----------------------------------------------------------------------------
(* A chat turn: generate an answer and write it *)

\* The guardrail of the agentic pipeline comes after its look-ups.
Block(a) ==
  /\ At(a, "retrieve") /\ turn[a].mode = "agentic"
  /\ Goto(a, "end")
  /\ UNCHANGED cache /\ Alone

\* Chunks of some documents are retrieved.  The agentic pipeline retrieves
\* once more for a comparison: that text is used, but is not among the sources.
Found(a, seen, sources, extra) ==
  LET t == turn[a] IN
  /\ \A d \in sources \cup extra : seen[d] > 0
  /\ t.mode = "standard" => extra = {}
  /\ Becomes(a,
       [t EXCEPT !.pc = "generate", !.left = {}, !.age = 0,
        !.read = [d \in Docs |-> 0],
        !.answer = [used |-> [d \in Docs |-> IF d \in sources \cup extra THEN seen[d] ELSE 0],
                    sources |-> sources,
                    keys |-> {t.q} \cup (IF t.second THEN {t.canon} ELSE {}),
                    sound |-> TRUE]])
  /\ UNCHANGED <<version, cache, purge, lost>>

\* From the database ...
Retrieve(a, sources, extra) ==
  /\ At(a, "retrieve")
  /\ Found(a, version, sources, extra)
  /\ UNCHANGED corpus

\* ... or, when full-text search fails, from the copy its process keeps ...
RetrieveFromCopy(a, p, sources, extra) ==
  /\ At(a, "retrieve") /\ Usable(p)
  /\ Found(a, corpus[p].got, sources, extra)
  /\ UNCHANGED corpus

\* ... or from one it loads now, batch by batch.
StartLoad(a) ==
  /\ At(a, "retrieve")
  /\ \E p \in Processes : ~Usable(p)
  /\ Becomes(a, [turn[a] EXCEPT !.pc = "load", !.left = Docs])
  /\ UNCHANGED cache /\ Alone

LoadBatch(a, d) ==
  /\ At(a, "load") /\ d \in turn[a].left
  /\ Becomes(a, [turn[a] EXCEPT !.left = turn[a].left \ {d},
                                !.read = [turn[a].read EXCEPT ![d] = version[d]]])
  /\ UNCHANGED cache /\ Alone

\* The load is kept for later turns, and this one goes on with it.
RetrieveFromLoad(a, p, sources, extra) ==
  /\ At(a, "load") /\ turn[a].left = {}
  /\ Found(a, turn[a].read, sources, extra)
  /\ Install(p, turn[a].read, turn[a].age)

\* Grounded generation goes on to the cache unless it is bypassed.
Generate(a) ==
  /\ At(a, "generate")
  /\ turn[a].mode = "standard" => turn[a].answer.sources # {}
  /\ Goto(a, IF turn[a].bypass THEN "end" ELSE "write")
  /\ UNCHANGED cache /\ Alone

\* No confident chunks, or the model fails: the standard pipeline answers with
\* its fallback text and writes nothing; the agentic writer returns what it has
\* streamed, or the analyst's summary, and that is written like any answer.
GenerateFallback(a) ==
  /\ At(a, "generate")
  /\ Becomes(a, [turn[a] EXCEPT
       !.answer = [turn[a].answer EXCEPT !.sound = FALSE],
       !.pc = IF turn[a].mode = "standard" \/ turn[a].bypass THEN "end" ELSE "write"])
  /\ UNCHANGED cache /\ Alone

\* ON CONFLICT: answer and expiry are replaced, the parent documents are not.
Upsert(k, answer) ==
  cache' = [cache EXCEPT ![k] =
    [here |-> TRUE, age |-> 0,
     parents |-> IF cache[k].here THEN cache[k].parents ELSE answer.sources,
     answer |-> answer,
     late |-> {d \in Docs : Outdated(answer, d)}]]

AfterWrite(a) == IF At(a, "write") /\ turn[a].second THEN "writeCanon" ELSE "end"

\* writeCacheEntry under the question, then under its English form.
Write(a) ==
  /\ \/ At(a, "write") /\ Upsert(turn[a].q, turn[a].answer)
     \/ At(a, "writeCanon") /\ Upsert(turn[a].canon, turn[a].answer)
  /\ Goto(a, AfterWrite(a))
  /\ Alone

\* A failed write is only logged.
WriteFails(a) ==
  /\ At(a, "write") \/ At(a, "writeCanon")
  /\ Goto(a, AfterWrite(a))
  /\ UNCHANGED cache /\ Alone

\* The turn returns, throws or dies with its process.
EndTurn(a) ==
  /\ ~At(a, "idle")
  /\ Becomes(a, IdleTurn)
  /\ UNCHANGED cache /\ Alone

-----------------------------------------------------------------------------
(* Documents *)

\* Mutant: only the first ingest of a document purges.
ChangeAndSkipPurge(d) ==
  /\ version[d] < MaxVersion
  /\ purge[d].pc \in {"idle", "due"}
  /\ version' = [version EXCEPT ![d] = @ + 1]
  /\ purge' = IF version[d] = 0 THEN [purge EXCEPT ![d].pc = "due"] ELSE purge
  /\ UNCHANGED <<corpus, cache, turn, lost>>

\* An ingest run or a deletion changes d's chunks; its purge follows.
ChangeChunks(d) ==
  /\ version[d] < MaxVersion
  /\ purge[d].pc \in {"idle", "due"}
  /\ version' = [version EXCEPT ![d] = @ + 1]
  /\ purge' = [purge EXCEPT ![d].pc = "due"]
  /\ UNCHANGED <<corpus, cache, turn, lost>>

\* invalidateForDocument reads the rows that list d ...
FindAnswers(d) ==
  /\ purge[d].pc = "due"
  /\ purge' = [purge EXCEPT ![d] =
       [pc |-> "delete", found |-> {k \in Questions : cache[k].here /\ d \in cache[k].parents}]]
  /\ UNCHANGED <<version, corpus, cache, turn, lost>>

\* Rows are deleted by id, so a row inserted again is not one that was found.
Without(K) == [k \in Questions |-> IF k \in K THEN NoEntry ELSE cache[k]]
NotFound(K) == [d \in Docs |-> [purge[d] EXCEPT !.found = @ \ K]]

\* ... and deletes them ...
DeleteAnswers(d) ==
  LET K == purge[d].found IN
  /\ purge[d].pc = "delete"
  /\ cache' = Without(K)
  /\ purge' = [NotFound(K) EXCEPT ![d].pc = "corpus"]
  /\ lost' = lost \ {d}
  /\ UNCHANGED <<version, corpus, turn>>

\* ... which fails without an error to the caller, or ends with its process.
LosePurge(d, dies) ==
  /\ purge[d].pc \in {"due", "delete"}
  /\ purge' = [purge EXCEPT ![d] = [NoPurge EXCEPT !.pc = IF dies THEN "idle" ELSE "corpus"]]
  /\ lost' = lost \cup {d}
  /\ UNCHANGED <<version, corpus, cache, turn>>

\* Last, the corpus of the process at work is dropped.
DropCorpus(d, p) ==
  /\ purge[d].pc = "corpus"
  /\ purge' = [purge EXCEPT ![d] = NoPurge]
  /\ InvalidateCorpus(p)
  /\ UNCHANGED <<version, cache, turn, lost>>

-----------------------------------------------------------------------------
(* Rows come to an end *)

\* Of a row past its expiry only its parents matter: nobody reads its answer.
Expired(row) == [NoEntry EXCEPT !.here = TRUE, !.age = TTL, !.parents = row.parents]

TimePasses ==
  /\ \/ \E k \in Questions : Live(k)
     \/ \E p \in Processes : Usable(p)
     \/ \E a \in Turns : At(a, "load") /\ turn[a].age < CorpusTTL
  /\ cache' = [k \in Questions |->
       IF cache[k].age + 1 < TTL /\ Live(k) THEN [cache[k] EXCEPT !.age = @ + 1]
       ELSE IF Live(k) THEN Expired(cache[k]) ELSE cache[k]]
  /\ CorpusAges
  /\ turn' = [a \in Turns |->
       IF At(a, "load") /\ turn[a].age < CorpusTTL THEN [turn[a] EXCEPT !.age = @ + 1]
       ELSE turn[a]]
  /\ UNCHANGED <<version, purge, lost>>

\* The clean-up cron and the admin's button.
Forget(K) ==
  /\ cache' = Without(K)
  /\ purge' = NotFound(K)
  /\ UNCHANGED <<version, corpus, turn, lost>>

CleanUp == Forget({k \in Questions : cache[k].here /\ cache[k].age = TTL})
ClearAll == Forget(Questions)

Proceed(a) ==
  \/ ExactHit(a) \/ ExactMiss(a) \/ SimilarHit(a) \/ LookupMisses(a)
  \/ \E canon \in Questions, english \in BOOLEAN : Expand(a, canon, english)
  \/ Block(a)
  \/ \E sources, extra \in SUBSET Docs :
       \/ Retrieve(a, sources, extra)
       \/ \E p \in Processes : \/ RetrieveFromCopy(a, p, sources, extra)
                               \/ RetrieveFromLoad(a, p, sources, extra)
  \/ StartLoad(a)
  \/ \E d \in Docs : LoadBatch(a, d)
  \/ Generate(a) \/ GenerateFallback(a)
  \/ Write(a) \/ WriteFails(a) \/ EndTurn(a)

TurnStep(a) ==
  \/ \E q \in Questions, mode \in {"standard", "agentic"}, bypass \in BOOLEAN :
       Ask(a, q, mode, bypass)
  \/ Proceed(a)

DocumentStep(d) ==
  \/ ChangeChunks(d) \/ FindAnswers(d) \/ DeleteAnswers(d)
  \/ \E dies \in BOOLEAN : LosePurge(d, dies)
  \/ \E p \in Processes : DropCorpus(d, p)

Next ==
  \/ \E a \in Turns : TurnStep(a)
  \/ \E d \in Docs : DocumentStep(d)
  \/ TimePasses \/ CleanUp \/ ClearAll

Spec == Init /\ [][Next]_vars

\* Time passes; nothing else has to happen.
FairSpec == Spec /\ WF_vars(TimePasses)

-----------------------------------------------------------------------------
(* Properties *)

\* A document's answers are purged after its chunks change.  So a row that can
\* still be served and rests on chunks that are gone has an excuse: the purge
\* of that document is still to come or was lost, the row does not list the
\* document, or the answer was already outdated when it was written.
FreshUnlessExplained ==
  \A k \in Questions, d \in Docs :
    Live(k) /\ Outdated(cache[k].answer, d) =>
      \/ purge[d].pc \in {"due", "delete"}
      \/ d \in lost
      \/ d \notin cache[k].parents
      \/ d \in cache[k].late

\* The stronger form every step keeps: while such a row waits to be deleted,
\* it is one of those the purge has found.
RowIsCaught(k, d) ==
  cache[k].here /\ Outdated(cache[k].answer, d)
    /\ d \in cache[k].parents /\ d \notin cache[k].late
  => \/ purge[d].pc = "due"
     \/ purge[d].pc = "delete" /\ k \in purge[d].found
     \/ purge[d].pc # "delete" /\ d \in lost

EveryRowIsCaught == \A k \in Questions, d \in Docs : RowIsCaught(k, d)

\* An answer from the cache was generated for a question near the one looked
\* up: nearness is not passed on from hit to hit.
NoDrift ==
  \A a \in Turns : turn[a].hit =>
    \E k \in turn[a].answer.keys : Near(turn[a].key, k)

\* A row that rests on chunks that are gone is not served for ever: it expires
\* and is not kept alive by being read, by purges that fail, or by turns that
\* retrieve from a process's old corpus.
Stale(k) == Live(k) /\ \E d \in Docs : Outdated(cache[k].answer, d)
StaleAnswersDie == \A k \in Questions : Stale(k) ~> ~Stale(k)

\* The comment at the standard pipeline's write: a fallback or error answer is
\* never cached (both pipelines share the cache).
OnlySoundAnswersAreKept == \A k \in Questions : Live(k) => cache[k].answer.sound

=============================================================================
