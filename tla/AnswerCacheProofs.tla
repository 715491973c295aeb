------------------------- MODULE AnswerCacheProofs -------------------------
(***************************************************************************)
(* Type correctness of the answer cache, and that every outdated answer    *)
(* that can be served has one of four excuses.                             *)
(***************************************************************************)
EXTENDS AnswerCache, TLAPS

-----------------------------------------------------------------------------
(* Values *)

LEMMA Zeros == 0 \in 0..TTL /\ 0 \in 0..CorpusTTL /\ [d \in Docs |-> 0] \in Versions
<1>1. 0 \in 0..MaxVersion /\ 0 \in 0..TTL /\ 0 \in 0..CorpusTTL
  BY CorpusAssumption, CacheAssumption
<1> QED BY <1>1 DEF Versions

LEMMA NothingTyped ==
  /\ NoAnswer \in Answer /\ NoEntry \in Entry /\ NoCopy \in Copy
  /\ IdleTurn \in Turn /\ NoPurge \in Purge
<1>1. NoAnswer \in Answer
  BY Zeros DEF NoAnswer, Answer
<1>2. NoEntry \in Entry
  BY Zeros, <1>1 DEF NoEntry, Entry
<1>3. SomeQuestion \in Questions
  BY CacheAssumption DEF SomeQuestion
<1>4. IdleTurn \in Turn
  BY Zeros, <1>1, <1>3 DEF IdleTurn, Turn, TurnPcs
<1>5. NoCopy \in Copy /\ NoPurge \in Purge
  BY Zeros DEF NoCopy, Copy, NoPurge, Purge
<1> QED BY <1>1, <1>2, <1>4, <1>5

LEMMA AskedTyped ==
  ASSUME NEW q \in Questions, NEW mode \in {"standard", "agentic"}, NEW bypass \in BOOLEAN,
         NEW pc \in TurnPcs
  PROVE  [IdleTurn EXCEPT !.pc = pc, !.mode = mode, !.bypass = bypass,
                          !.q = q, !.canon = q, !.key = q] \in Turn
BY NothingTyped DEF Turn

LEMMA ServedTyped ==
  ASSUME NEW t \in Turn, NEW answer \in Answer
  PROVE  [t EXCEPT !.pc = "end", !.hit = TRUE, !.answer = answer] \in Turn
BY DEF Turn, TurnPcs

LEMMA ExpandedTyped ==
  ASSUME NEW t \in Turn, NEW pc \in TurnPcs, NEW canon \in Questions, NEW key \in Questions,
         NEW second \in BOOLEAN
  PROVE  [t EXCEPT !.pc = pc, !.canon = canon, !.key = key, !.second = second] \in Turn
BY DEF Turn

LEMMA FoundTyped ==
  ASSUME NEW t \in Turn, NEW answer \in Answer, NEW read \in Versions
  PROVE  [t EXCEPT !.pc = "generate", !.left = {}, !.age = 0, !.read = read,
                   !.answer = answer] \in Turn
BY Zeros DEF Turn, TurnPcs

LEMMA LoadingTyped ==
  ASSUME NEW t \in Turn, NEW left \in SUBSET Docs, NEW read \in Versions
  PROVE  /\ [t EXCEPT !.pc = "load", !.left = left] \in Turn
         /\ [t EXCEPT !.left = left, !.read = read] \in Turn
BY DEF Turn, TurnPcs

LEMMA UnsoundTyped ==
  ASSUME NEW t \in Turn, NEW pc \in TurnPcs
  PROVE  [t EXCEPT !.answer = [t.answer EXCEPT !.sound = FALSE], !.pc = pc] \in Turn
<1>1. [t.answer EXCEPT !.sound = FALSE] \in Answer
  BY DEF Turn, Answer
<1> QED BY <1>1 DEF Turn

\* Every step of a turn replaces the turn by a typed one.
LEMMA BecomesTyped ==
  ASSUME TypeOK, NEW a \in Turns, NEW new \in Turn, Becomes(a, new)
  PROVE  turn' \in [Turns -> Turn]
BY DEF TypeOK, Becomes

LEMMA GotoTyped ==
  ASSUME TypeOK, NEW a \in Turns, NEW pc \in TurnPcs, Goto(a, pc)
  PROVE  turn' \in [Turns -> Turn]
<1>1. turn[a] \in Turn
  BY DEF TypeOK
<1>2. [turn[a] EXCEPT !.pc = pc] \in Turn
  BY <1>1 DEF Turn
<1> QED BY <1>2, BecomesTyped DEF Goto

LEMMA FoundStepTyped ==
  ASSUME TypeOK, NEW a \in Turns, NEW seen \in Versions,
         NEW sources \in SUBSET Docs, NEW extra \in SUBSET Docs,
         Found(a, seen, sources, extra)
  PROVE  turn' \in [Turns -> Turn]
<1> DEFINE t == turn[a]
           answer == [used |-> [d \in Docs |-> IF d \in sources \cup extra THEN seen[d] ELSE 0],
                      sources |-> sources,
                      keys |-> {t.q} \cup (IF t.second THEN {t.canon} ELSE {}),
                      sound |-> TRUE]
           new == [t EXCEPT !.pc = "generate", !.left = {}, !.age = 0,
                            !.read = [d \in Docs |-> 0], !.answer = answer]
<1>1. t \in Turn
  BY DEF TypeOK
<1>2. t.q \in Questions /\ t.canon \in Questions
  BY <1>1 DEF Turn
<1>3. answer.used \in Versions
  BY CorpusAssumption DEF Versions
<1>4. answer \in Answer
  BY <1>2, <1>3 DEF Answer
<1>5. new \in Turn
  BY <1>1, <1>4, Zeros, FoundTyped
<1>6. Becomes(a, new)
  BY DEF Found
<1> QED BY <1>5, <1>6, BecomesTyped

-----------------------------------------------------------------------------
(* Type correctness *)

LEMMA InitTyped == Init => TypeOK
<1> SUFFICES ASSUME Init PROVE TypeOK
  OBVIOUS
<1>1. CorpusTypeOK
  BY Zeros, NothingTyped DEF Init, CorpusInit, CorpusTypeOK, Versions
<1> QED BY <1>1, NothingTyped DEF Init, TypeOK

\* A write of a typed answer keeps the rows typed.
LEMMA UpsertTyped ==
  ASSUME TypeOK, NEW k \in Questions, NEW answer \in Answer, Upsert(k, answer)
  PROVE  cache' \in [Questions -> Entry]
<1> DEFINE new == [here |-> TRUE, age |-> 0,
                   parents |-> IF cache[k].here THEN cache[k].parents ELSE answer.sources,
                   answer |-> answer,
                   late |-> {d \in Docs : Outdated(answer, d)}]
<1>1. cache[k] \in Entry /\ answer.sources \in SUBSET Docs
  BY DEF TypeOK, Answer
<1>2. cache[k].parents \in SUBSET Docs
  BY <1>1 DEF Entry
<1>3. new \in Entry
  BY <1>1, <1>2, Zeros DEF Entry
<1>4. cache' = [cache EXCEPT ![k] = new]
  BY DEF Upsert
<1> QED BY <1>3, <1>4 DEF TypeOK

\* So do deletions of rows, whatever is deleted.
LEMMA WithoutTyped ==
  ASSUME TypeOK, NEW K \in SUBSET Questions
  PROVE  Without(K) \in [Questions -> Entry] /\ NotFound(K) \in [Docs -> Purge]
<1>1. Without(K) \in [Questions -> Entry]
  BY NothingTyped DEF TypeOK, Without
<1>2. ASSUME NEW d \in Docs
      PROVE  [purge[d] EXCEPT !.found = @ \ K] \in Purge
  BY DEF TypeOK, Purge
<1>3. NotFound(K) \in [Docs -> Purge]
  BY <1>2 DEF NotFound
<1> QED BY <1>1, <1>3

LEMMA ForgetTyped ==
  ASSUME TypeOK, NEW K \in SUBSET Questions, Forget(K)
  PROVE  TypeOK'
BY WithoutTyped DEF Forget, TypeOK, CorpusTypeOK

LEMMA TurnStepTyped ==
  ASSUME TypeOK, NEW a \in Turns, TurnStep(a)
  PROVE  TypeOK'
<1> DEFINE t == turn[a]
<1>t. t \in Turn /\ t.q \in Questions /\ t.canon \in Questions /\ t.key \in Questions
      /\ t.answer \in Answer /\ t.read \in Versions /\ t.left \in SUBSET Docs
      /\ t.age \in 0..CorpusTTL
  BY DEF TypeOK, Turn
\* Steps of the turn alone.
<1>s. ASSUME turn' \in [Turns -> Turn], UNCHANGED cache, Alone
      PROVE  TypeOK'
  BY <1>s DEF Alone, TypeOK, CorpusTypeOK
<1>1. ASSUME NEW q \in Questions, NEW mode \in {"standard", "agentic"}, NEW bypass \in BOOLEAN,
             Ask(a, q, mode, bypass)
      PROVE  TypeOK'
  <2> DEFINE pc == IF mode = "agentic" /\ bypass THEN "expand" ELSE "exact"
  <2>1. pc \in TurnPcs
    BY DEF TurnPcs
  <2>2. [IdleTurn EXCEPT !.pc = pc, !.mode = mode, !.bypass = bypass,
                         !.q = q, !.canon = q, !.key = q] \in Turn
    BY <2>1, AskedTyped
  <2>3. turn' \in [Turns -> Turn]
    BY <1>1, <2>2, BecomesTyped DEF Ask
  <2> QED BY <1>1, <1>s, <2>3 DEF Ask
<1>2. ASSUME NEW k \in Questions, Serve(a, k)
      PROVE  TypeOK'
  <2>1. cache[k].answer \in Answer
    BY DEF TypeOK, Entry
  <2>2. turn' \in [Turns -> Turn]
    BY <1>2, <1>t, <2>1, ServedTyped, BecomesTyped DEF Serve
  <2> QED BY <1>2, <1>s, <2>2 DEF Serve
<1>3. CASE ExactHit(a)
  BY <1>3, <1>2, <1>t DEF ExactHit
<1>4. CASE SimilarHit(a)
  BY <1>4, <1>2 DEF SimilarHit
<1>5. CASE ExactMiss(a)
  <2>1. "similar" \in TurnPcs
    BY DEF TurnPcs
  <2> QED BY <1>5, <1>s, <2>1, GotoTyped DEF ExactMiss
<1>6. CASE LookupMisses(a)
  <2>1. (IF turn[a].key = turn[a].q THEN "expand" ELSE "retrieve") \in TurnPcs
    BY DEF TurnPcs
  <2> QED BY <1>6, <1>s, <2>1, GotoTyped DEF LookupMisses
<1>7. ASSUME NEW canon \in Questions, NEW english \in BOOLEAN, Expand(a, canon, english)
      PROVE  TypeOK'
  <2> DEFINE other == ~turn[a].bypass /\ canon # turn[a].q
  <2>1. (IF other THEN "exact" ELSE "retrieve") \in TurnPcs
    BY DEF TurnPcs
  <2>2. (IF other THEN canon ELSE turn[a].key) \in Questions
    BY <1>t
  <2>3. (other /\ ~english) \in BOOLEAN
    OBVIOUS
  <2>4. [t EXCEPT !.pc = IF other THEN "exact" ELSE "retrieve", !.canon = canon,
                  !.key = IF other THEN canon ELSE turn[a].key,
                  !.second = other /\ ~english] \in Turn
    BY <1>t, <2>1, <2>2, <2>3, ExpandedTyped
  <2>5. turn' \in [Turns -> Turn]
    BY <1>7, <2>4, BecomesTyped DEF Expand
  <2> QED BY <1>7, <1>s, <2>5 DEF Expand
<1>8. CASE Block(a)
  <2>1. "end" \in TurnPcs
    BY DEF TurnPcs
  <2> QED BY <1>8, <1>s, <2>1, GotoTyped DEF Block
<1>9. ASSUME NEW sources \in SUBSET Docs, NEW extra \in SUBSET Docs,
             \/ Retrieve(a, sources, extra)
             \/ \E p \in Processes : \/ RetrieveFromCopy(a, p, sources, extra)
                                     \/ RetrieveFromLoad(a, p, sources, extra)
      PROVE  TypeOK'
  <2>1. ASSUME NEW seen \in Versions, Found(a, seen, sources, extra)
        PROVE  turn' \in [Turns -> Turn] /\ UNCHANGED <<version, cache, purge, lost>>
    BY <2>1, FoundStepTyped DEF Found
  <2>2. CASE Retrieve(a, sources, extra)
    <3>1. version \in Versions
      BY DEF TypeOK, CorpusTypeOK
    <3>2. turn' \in [Turns -> Turn] /\ UNCHANGED <<version, cache, purge, lost>>
      BY <2>1, <2>2, <3>1 DEF Retrieve
    <3> QED BY <2>2, <3>2 DEF Retrieve, TypeOK, CorpusTypeOK
  <2>3. ASSUME NEW p \in Processes, RetrieveFromCopy(a, p, sources, extra)
        PROVE  TypeOK'
    <3>1. corpus[p].got \in Versions
      BY DEF TypeOK, CorpusTypeOK, Copy
    <3>2. turn' \in [Turns -> Turn] /\ UNCHANGED <<version, cache, purge, lost>>
      BY <2>1, <2>3, <3>1 DEF RetrieveFromCopy
    <3> QED BY <2>3, <3>2 DEF RetrieveFromCopy, TypeOK, CorpusTypeOK
  <2>4. ASSUME NEW p \in Processes, RetrieveFromLoad(a, p, sources, extra)
        PROVE  TypeOK'
    <3>1. turn' \in [Turns -> Turn] /\ UNCHANGED <<version, cache, purge, lost>>
      BY <1>t, <2>1, <2>4 DEF RetrieveFromLoad
    <3>2. [here |-> TRUE, got |-> turn[a].read, age |-> turn[a].age] \in Copy
      BY <1>t DEF Copy
    <3>3. corpus' \in [Processes -> Copy]
      BY <2>4, <3>2 DEF RetrieveFromLoad, Install, TypeOK, CorpusTypeOK
    <3> QED BY <3>1, <3>3 DEF TypeOK, CorpusTypeOK
  <2> QED BY <1>9, <2>2, <2>3, <2>4
<1>10. CASE StartLoad(a)
  <2>1. [t EXCEPT !.pc = "load", !.left = Docs] \in Turn
    BY <1>t, LoadingTyped
  <2>2. turn' \in [Turns -> Turn]
    BY <1>10, <2>1, BecomesTyped DEF StartLoad
  <2> QED BY <1>10, <1>s, <2>2 DEF StartLoad
<1>11. ASSUME NEW d \in Docs, LoadBatch(a, d)
       PROVE  TypeOK'
  <2>1. [t.read EXCEPT ![d] = version[d]] \in Versions
    BY <1>t DEF TypeOK, CorpusTypeOK, Versions
  <2>2. [t EXCEPT !.left = t.left \ {d}, !.read = [t.read EXCEPT ![d] = version[d]]] \in Turn
    BY <1>t, <2>1, LoadingTyped
  <2>3. turn' \in [Turns -> Turn]
    BY <1>11, <2>2, BecomesTyped DEF LoadBatch
  <2> QED BY <1>11, <1>s, <2>3 DEF LoadBatch
<1>12. CASE Generate(a)
  <2>1. (IF turn[a].bypass THEN "end" ELSE "write") \in TurnPcs
    BY DEF TurnPcs
  <2> QED BY <1>12, <1>s, <2>1, GotoTyped DEF Generate
<1>13. CASE GenerateFallback(a)
  <2> DEFINE pc == IF turn[a].mode = "standard" \/ turn[a].bypass THEN "end" ELSE "write"
  <2>1. pc \in TurnPcs
    BY DEF TurnPcs
  <2>2. [t EXCEPT !.answer = [t.answer EXCEPT !.sound = FALSE], !.pc = pc] \in Turn
    BY <1>t, <2>1, UnsoundTyped
  <2>3. turn' \in [Turns -> Turn]
    BY <1>13, <2>2, BecomesTyped DEF GenerateFallback
  <2> QED BY <1>13, <1>s, <2>3 DEF GenerateFallback
<1>g. AfterWrite(a) \in TurnPcs
  BY DEF AfterWrite, TurnPcs
<1>14. CASE Write(a)
  <2>1. turn' \in [Turns -> Turn]
    BY <1>14, <1>g, GotoTyped DEF Write
  <2>2. cache' \in [Questions -> Entry]
    BY <1>14, <1>t, UpsertTyped DEF Write
  <2> QED BY <1>14, <2>1, <2>2 DEF Write, Alone, TypeOK, CorpusTypeOK
<1>15. CASE WriteFails(a)
  BY <1>15, <1>g, <1>s, GotoTyped DEF WriteFails
<1>16. CASE EndTurn(a)
  <2>1. turn' \in [Turns -> Turn]
    BY <1>16, NothingTyped, BecomesTyped DEF EndTurn
  <2> QED BY <1>16, <1>s, <2>1 DEF EndTurn
<1> QED
  BY <1>1, <1>3, <1>4, <1>5, <1>6, <1>7, <1>8, <1>9, <1>10, <1>11, <1>12, <1>13, <1>14,
     <1>15, <1>16 DEF TurnStep, Proceed

LEMMA DocumentStepTyped ==
  ASSUME TypeOK, NEW d \in Docs, DocumentStep(d)
  PROVE  TypeOK'
<1>t. purge \in [Docs -> Purge] /\ version \in [Docs -> 0..MaxVersion]
      /\ corpus \in [Processes -> Copy]
  BY DEF TypeOK, CorpusTypeOK, Versions
<1>1. CASE ChangeChunks(d)
  <2>1. version' \in Versions
    BY <1>1, <1>t, CorpusAssumption DEF ChangeChunks, Versions
  <2>2. [purge[d] EXCEPT !.pc = "due"] \in Purge
    BY <1>t DEF Purge
  <2>3. purge' \in [Docs -> Purge]
    BY <1>1, <1>t, <2>2 DEF ChangeChunks
  <2> QED BY <1>1, <2>1, <2>3 DEF ChangeChunks, TypeOK, CorpusTypeOK
<1>2. CASE FindAnswers(d)
  <2> DEFINE found == {k \in Questions : cache[k].here /\ d \in cache[k].parents}
  <2>1. [pc |-> "delete", found |-> found] \in Purge
    BY DEF Purge
  <2>2. purge' \in [Docs -> Purge]
    BY <1>2, <1>t, <2>1 DEF FindAnswers
  <2> QED BY <1>2, <2>2 DEF FindAnswers, TypeOK, CorpusTypeOK
<1>3. CASE DeleteAnswers(d)
  <2> DEFINE K == purge[d].found
  <2>1. K \in SUBSET Questions
    BY <1>t DEF Purge
  <2>2. cache' \in [Questions -> Entry] /\ NotFound(K) \in [Docs -> Purge]
    BY <1>3, <2>1, WithoutTyped DEF DeleteAnswers
  <2>3. [NotFound(K)[d] EXCEPT !.pc = "corpus"] \in Purge
    BY <2>2 DEF Purge
  <2>4. purge' = [NotFound(K) EXCEPT ![d] = [NotFound(K)[d] EXCEPT !.pc = "corpus"]]
    BY <1>3 DEF DeleteAnswers
  <2>5. purge' \in [Docs -> Purge]
    BY <2>2, <2>3, <2>4
  <2>6. lost' \subseteq Docs /\ UNCHANGED <<version, corpus, turn>>
    BY <1>3 DEF DeleteAnswers, TypeOK
  <2> QED BY <2>2, <2>5, <2>6 DEF TypeOK, CorpusTypeOK
<1>4. ASSUME NEW dies \in BOOLEAN, LosePurge(d, dies)
      PROVE  TypeOK'
  <2>1. [NoPurge EXCEPT !.pc = IF dies THEN "idle" ELSE "corpus"] \in Purge
    BY NothingTyped DEF Purge
  <2>2. purge' \in [Docs -> Purge]
    BY <1>4, <1>t, <2>1 DEF LosePurge
  <2> QED BY <1>4, <2>2 DEF LosePurge, TypeOK, CorpusTypeOK
<1>5. ASSUME NEW p \in Processes, DropCorpus(d, p)
      PROVE  TypeOK'
  <2>1. purge' \in [Docs -> Purge] /\ corpus' \in [Processes -> Copy]
    BY <1>5, <1>t, NothingTyped DEF DropCorpus, InvalidateCorpus
  <2> QED BY <1>5, <2>1 DEF DropCorpus, TypeOK, CorpusTypeOK
<1> QED BY <1>1, <1>2, <1>3, <1>4, <1>5 DEF DocumentStep

LEMMA TimePassesTyped == TypeOK /\ TimePasses => TypeOK'
<1> SUFFICES ASSUME TypeOK, TimePasses PROVE TypeOK'
  OBVIOUS
<1> USE CacheAssumption, CorpusAssumption
<1>1. ASSUME NEW k \in Questions
      PROVE  /\ Expired(cache[k]) \in Entry /\ cache[k] \in Entry
             /\ cache[k].age + 1 < TTL => [cache[k] EXCEPT !.age = @ + 1] \in Entry
  <2>1. cache[k] \in Entry /\ cache[k].age \in 0..TTL /\ cache[k].parents \in SUBSET Docs
    BY DEF TypeOK, Entry
  <2>2. TTL \in 0..TTL
    OBVIOUS
  <2>3. Expired(cache[k]) \in Entry
    BY <2>1, <2>2, NothingTyped DEF Expired, Entry
  <2>4. ASSUME cache[k].age + 1 < TTL
        PROVE  [cache[k] EXCEPT !.age = @ + 1] \in Entry
    <3>1. cache[k].age + 1 \in 0..TTL
      BY <2>1, <2>4
    <3> QED BY <2>1, <3>1 DEF Entry
  <2> QED BY <2>1, <2>3, <2>4
<1>2. cache' \in [Questions -> Entry]
  BY <1>1 DEF TimePasses
<1>3. ASSUME NEW p \in Processes
      PROVE  corpus'[p] \in Copy
  <2>1. corpus[p] \in Copy /\ corpus[p].age \in 0..CorpusTTL
    BY DEF TypeOK, CorpusTypeOK, Copy
  <2>2. CASE Usable(p)
    <3>1. corpus[p].age + 1 \in 0..CorpusTTL
      BY <2>1, <2>2 DEF Usable
    <3>2. corpus'[p] = [corpus[p] EXCEPT !.age = @ + 1]
      BY <2>2 DEF TimePasses, CorpusAges
    <3> QED BY <2>1, <3>1, <3>2 DEF Copy
  <2>3. CASE ~Usable(p)
    BY <2>1, <2>3 DEF TimePasses, CorpusAges
  <2> QED BY <2>2, <2>3
<1>4. corpus' \in [Processes -> Copy]
  BY <1>3 DEF TimePasses, CorpusAges
<1>5. ASSUME NEW a \in Turns
      PROVE  turn'[a] \in Turn
  <2>1. turn[a] \in Turn /\ turn[a].age \in 0..CorpusTTL
    BY DEF TypeOK, Turn
  <2>2. CASE At(a, "load") /\ turn[a].age < CorpusTTL
    <3>1. turn[a].age + 1 \in 0..CorpusTTL
      BY <2>1, <2>2
    <3>2. turn'[a] = [turn[a] EXCEPT !.age = @ + 1]
      BY <2>2 DEF TimePasses
    <3> QED BY <2>1, <3>1, <3>2 DEF Turn
  <2>3. CASE ~(At(a, "load") /\ turn[a].age < CorpusTTL)
    BY <2>1, <2>3 DEF TimePasses
  <2> QED BY <2>2, <2>3
<1>6. turn' \in [Turns -> Turn]
  BY <1>5 DEF TimePasses
<1> QED BY <1>2, <1>4, <1>6 DEF TimePasses, TypeOK, CorpusTypeOK

LEMMA NextTyped == TypeOK /\ [Next]_vars => TypeOK'
<1> SUFFICES ASSUME TypeOK, [Next]_vars PROVE TypeOK'
  OBVIOUS
<1>1. CASE CleanUp
  <2>1. {k \in Questions : cache[k].here /\ cache[k].age = TTL} \in SUBSET Questions
    OBVIOUS
  <2> QED BY <1>1, <2>1, ForgetTyped DEF CleanUp
<1>2. CASE ClearAll
  BY <1>2, ForgetTyped DEF ClearAll
<1>3. CASE UNCHANGED vars
  BY <1>3 DEF vars, TypeOK, CorpusTypeOK
<1> QED
  BY <1>1, <1>2, <1>3, TurnStepTyped, DocumentStepTyped, TimePassesTyped DEF Next

\* In every reachable state of the cache, the corpora, the turns and the
\* purges, each has one of the shapes the code gives it.
THEOREM TypeCorrect == Spec => []TypeOK
<1>1. TypeOK /\ [Next]_vars => TypeOK'
  BY NextTyped
<1> QED BY InitTyped, <1>1, PTL DEF Spec

-----------------------------------------------------------------------------
(* Outdated answers *)

\* A step that keeps a row, the document's version, its purge and whether its
\* purge was lost keeps the row caught.
LEMMA CaughtKept ==
  ASSUME NEW k \in Questions, NEW d \in Docs, RowIsCaught(k, d),
         /\ cache'[k].here => cache[k].here
         /\ cache'[k].here => /\ cache'[k].parents = cache[k].parents
                              /\ cache'[k].late = cache[k].late
                              /\ cache'[k].answer = cache[k].answer,
         version'[d] = version[d], purge'[d] = purge[d],
         d \in lost => d \in lost'
  PROVE  RowIsCaught(k, d)'
BY DEF RowIsCaught, Outdated

\* A written row is caught: what its answer was outdated for is in late.
LEMMA UpsertCaught ==
  ASSUME TypeOK, EveryRowIsCaught, NEW l \in Questions, NEW answer \in Answer,
         Upsert(l, answer), Alone
  PROVE  EveryRowIsCaught'
<1> SUFFICES ASSUME NEW k \in Questions, NEW d \in Docs PROVE RowIsCaught(k, d)'
  BY DEF EveryRowIsCaught
<1>1. RowIsCaught(k, d)
  BY DEF EveryRowIsCaught
<1>2. CASE k = l
  <2>1. cache'[k].answer = answer /\ cache'[k].late = {e \in Docs : Outdated(answer, e)}
    BY <1>2 DEF Upsert, TypeOK
  <2>2. Outdated(cache[k].answer, d)' => d \in cache'[k].late
    BY <2>1 DEF Outdated, Alone
  <2> QED BY <2>2 DEF RowIsCaught
<1>3. CASE k # l
  <2>1. cache'[k] = cache[k]
    BY <1>3 DEF Upsert, TypeOK
  <2> QED BY <1>1, <2>1, CaughtKept DEF Alone
<1> QED BY <1>2, <1>3

LEMMA TurnStepCaught ==
  ASSUME TypeOK, EveryRowIsCaught, NEW a \in Turns, TurnStep(a)
  PROVE  EveryRowIsCaught'
<1>1. CASE Write(a)
  <2>1. turn[a] \in Turn
    BY DEF TypeOK
  <2>2. turn[a].q \in Questions /\ turn[a].canon \in Questions /\ turn[a].answer \in Answer
    BY <2>1 DEF Turn
  <2>3. CASE Upsert(turn[a].q, turn[a].answer)
    BY <1>1, <2>2, <2>3, UpsertCaught DEF Write
  <2>4. CASE Upsert(turn[a].canon, turn[a].answer)
    BY <1>1, <2>2, <2>4, UpsertCaught DEF Write
  <2> QED BY <1>1, <2>3, <2>4 DEF Write
<1>2. ASSUME UNCHANGED <<version, cache, purge, lost>>
      PROVE  EveryRowIsCaught'
  BY <1>2 DEF EveryRowIsCaught, RowIsCaught, Outdated
<1>3. CASE Write(a) \/ UNCHANGED <<version, cache, purge, lost>>
  BY <1>1, <1>2, <1>3
<1>4. ASSUME ~Write(a)
      PROVE  UNCHANGED <<version, cache, purge, lost>>
  BY <1>4 DEF TurnStep, Proceed, Ask, ExactHit, ExactMiss, SimilarHit, LookupMisses, Serve, Expand,
     Block, Retrieve, RetrieveFromCopy, RetrieveFromLoad, Found, StartLoad, LoadBatch,
     Generate, GenerateFallback, WriteFails, EndTurn, Alone
<1> QED BY <1>3, <1>4

\* Deleting rows leaves the others, and they stay among the found.
LEMMA WithoutCaught ==
  ASSUME TypeOK, NEW k \in Questions, NEW d \in Docs, RowIsCaught(k, d),
         NEW K \in SUBSET Questions, cache' = Without(K),
         purge'[d] = [purge[d] EXCEPT !.found = @ \ K],
         version' = version, d \in lost => d \in lost'
  PROVE  RowIsCaught(k, d)'
<1>1. CASE k \in K
  BY <1>1 DEF Without, NoEntry, RowIsCaught
<1>2. CASE k \notin K
  <2>1. cache'[k] = cache[k]
    BY <1>2 DEF Without
  <2>2. purge[d] \in Purge
    BY DEF TypeOK
  <2>3. purge'[d].pc = purge[d].pc /\ purge'[d].found = purge[d].found \ K
    BY <2>2 DEF Purge
  <2> QED BY <1>2, <2>1, <2>3 DEF RowIsCaught, Outdated
<1> QED BY <1>1, <1>2

LEMMA ForgetCaught ==
  ASSUME TypeOK, EveryRowIsCaught, NEW K \in SUBSET Questions, Forget(K)
  PROVE  EveryRowIsCaught'
<1> SUFFICES ASSUME NEW k \in Questions, NEW d \in Docs PROVE RowIsCaught(k, d)'
  BY DEF EveryRowIsCaught
<1>1. RowIsCaught(k, d)
  BY DEF EveryRowIsCaught
<1>2. purge'[d] = [purge[d] EXCEPT !.found = @ \ K]
  BY DEF Forget, NotFound
<1> QED BY <1>1, <1>2, WithoutCaught DEF Forget

LEMMA TimePassesCaught ==
  ASSUME TypeOK, EveryRowIsCaught, TimePasses
  PROVE  EveryRowIsCaught'
<1> SUFFICES ASSUME NEW k \in Questions, NEW d \in Docs PROVE RowIsCaught(k, d)'
  BY DEF EveryRowIsCaught
<1>1. RowIsCaught(k, d) /\ cache[k] \in Entry
  BY DEF EveryRowIsCaught, TypeOK
<1>2. CASE cache'[k] = Expired(cache[k])
  <2>1. cache'[k].answer = NoAnswer
    BY <1>2 DEF Expired, NoEntry
  <2>2. ~Outdated(cache[k].answer, d)'
    BY <2>1 DEF Outdated, NoAnswer
  <2> QED BY <2>2 DEF RowIsCaught
<1>3. CASE cache'[k] = [cache[k] EXCEPT !.age = @ + 1]
  BY <1>1, <1>3, CaughtKept DEF TimePasses, Entry
<1>4. CASE cache'[k] = cache[k]
  BY <1>1, <1>4, CaughtKept DEF TimePasses
<1> QED BY <1>2, <1>3, <1>4 DEF TimePasses

LEMMA DocumentStepCaught ==
  ASSUME TypeOK, EveryRowIsCaught, NEW e \in Docs, DocumentStep(e)
  PROVE  EveryRowIsCaught'
<1> SUFFICES ASSUME NEW k \in Questions, NEW d \in Docs PROVE RowIsCaught(k, d)'
  BY DEF EveryRowIsCaught
<1>t. RowIsCaught(k, d) /\ purge[d] \in Purge /\ purge \in [Docs -> Purge]
      /\ version \in [Docs -> 0..MaxVersion]
  BY DEF EveryRowIsCaught, TypeOK, CorpusTypeOK, Versions
\* A document's steps touch only its own version, purge and loss.
<1>1. CASE ChangeChunks(e)
  <2>1. CASE d = e
    <3>1. purge'[d].pc = "due"
      BY <1>1, <1>t, <2>1 DEF ChangeChunks, Purge
    <3> QED BY <3>1 DEF RowIsCaught
  <2>2. CASE d # e
    BY <1>1, <1>t, <2>2, CaughtKept DEF ChangeChunks
  <2> QED BY <2>1, <2>2
<1>2. CASE FindAnswers(e)
  <2>1. CASE d = e
    <3>1. /\ purge'[d].pc = "delete"
          /\ purge'[d].found = {l \in Questions : cache[l].here /\ d \in cache[l].parents}
      BY <1>2, <1>t, <2>1 DEF FindAnswers
    <3>2. cache' = cache
      BY <1>2 DEF FindAnswers
    <3> QED BY <3>1, <3>2 DEF RowIsCaught
  <2>2. CASE d # e
    BY <1>2, <1>t, <2>2, CaughtKept DEF FindAnswers
  <2> QED BY <2>1, <2>2
<1>3. CASE DeleteAnswers(e)
  <2> DEFINE K == purge[e].found
  <2>0. K \in SUBSET Questions
    BY DEF TypeOK, Purge
  <2>1. CASE d = e
    <3>1. purge[d].pc = "delete" /\ cache' = Without(K) /\ version' = version
      BY <1>3, <2>1 DEF DeleteAnswers
    <3>2. CASE k \in K
      BY <3>1, <3>2 DEF Without, NoEntry, RowIsCaught
    <3>3. CASE k \notin K
      <4>1. cache'[k] = cache[k]
        BY <3>1, <3>3 DEF Without
      <4> QED BY <1>t, <2>1, <3>1, <3>3, <4>1 DEF RowIsCaught, Outdated
    <3> QED BY <3>2, <3>3
  <2>2. CASE d # e
    <3>1. purge'[d] = [purge[d] EXCEPT !.found = @ \ K]
      BY <1>3, <2>2 DEF DeleteAnswers, NotFound
    <3>2. cache' = Without(K) /\ version' = version /\ (d \in lost => d \in lost')
      BY <1>3, <2>2 DEF DeleteAnswers
    <3> QED BY <1>t, <2>0, <3>1, <3>2, WithoutCaught
  <2> QED BY <2>1, <2>2
<1>4. ASSUME NEW dies \in BOOLEAN, LosePurge(e, dies)
      PROVE  RowIsCaught(k, d)'
  <2>1. CASE d = e
    <3>1. d \in lost' /\ purge'[d].pc # "delete"
      BY <1>4, <1>t, <2>1 DEF LosePurge, NoPurge
    <3> QED BY <3>1 DEF RowIsCaught
  <2>2. CASE d # e
    BY <1>4, <1>t, <2>2, CaughtKept DEF LosePurge
  <2> QED BY <2>1, <2>2
<1>5. ASSUME NEW p \in Processes, DropCorpus(e, p)
      PROVE  RowIsCaught(k, d)'
  <2>1. CASE d = e
    <3>1. purge[d].pc = "corpus" /\ purge'[d].pc = "idle" /\ cache' = cache
          /\ version' = version /\ lost' = lost
      BY <1>5, <1>t, <2>1 DEF DropCorpus, NoPurge
    <3> QED BY <1>t, <3>1 DEF RowIsCaught, Outdated
  <2>2. CASE d # e
    BY <1>5, <1>t, <2>2, CaughtKept DEF DropCorpus
  <2> QED BY <2>1, <2>2
<1> QED BY <1>1, <1>2, <1>3, <1>4, <1>5 DEF DocumentStep

LEMMA NextCaught == TypeOK /\ EveryRowIsCaught /\ [Next]_vars => EveryRowIsCaught'
<1> SUFFICES ASSUME TypeOK, EveryRowIsCaught, [Next]_vars PROVE EveryRowIsCaught'
  OBVIOUS
<1>1. CASE CleanUp
  <2>1. {k \in Questions : cache[k].here /\ cache[k].age = TTL} \in SUBSET Questions
    OBVIOUS
  <2> QED BY <1>1, <2>1, ForgetCaught DEF CleanUp
<1>2. CASE ClearAll
  BY <1>2, ForgetCaught DEF ClearAll
<1>3. CASE UNCHANGED vars
  BY <1>3 DEF vars, EveryRowIsCaught, RowIsCaught, Outdated
<1> QED
  BY <1>1, <1>2, <1>3, TurnStepCaught, DocumentStepCaught, TimePassesCaught DEF Next

\* In every reachable state, a row that rests on chunks that are gone, lists
\* their document and was not already outdated when it was written, is to be
\* deleted by a purge that is due or under way, unless that purge was lost.
THEOREM RowsAreCaught == Spec => []EveryRowIsCaught
<1>1. Init => EveryRowIsCaught
  BY DEF Init, EveryRowIsCaught, RowIsCaught, NoEntry
<1>2. TypeOK /\ EveryRowIsCaught /\ [Next]_vars => EveryRowIsCaught'
  BY NextCaught
<1> QED BY <1>1, <1>2, TypeCorrect, PTL DEF Spec

\* So an outdated answer is never served without one of the four excuses.
THEOREM FreshOrExplained == Spec => []FreshUnlessExplained
<1>1. EveryRowIsCaught => FreshUnlessExplained
  BY DEF EveryRowIsCaught, RowIsCaught, FreshUnlessExplained, Live
<1> QED BY <1>1, RowsAreCaught, PTL

-----------------------------------------------------------------------------
(* Drift: an answer stays with the questions it was generated for *)

\* What a turn remembers of its question: a hit ends it with an answer that has
\* a key near the one looked up; until then an answer at hand is its own, with
\* the key or keys it is to be written under.
OnKey(t) ==
  /\ t.hit => t.pc = "end" /\ \E k \in t.answer.keys : Near(t.key, k)
  /\ t.pc \in {"generate", "write", "writeCanon"} =>
       t.q \in t.answer.keys /\ (t.second => t.canon \in t.answer.keys)
  /\ t.pc = "writeCanon" => t.second

\* A row that can be served holds an answer for its own key.
KeyInv ==
  /\ \A a \in Turns : OnKey(turn[a])
  /\ \A k \in Questions : Live(k) => k \in cache[k].answer.keys

LEMMA TurnOnKey ==
  ASSUME TypeOK, KeyInv, NEW a \in Turns, NEW new \in Turn, OnKey(new),
         Becomes(a, new), UNCHANGED cache
  PROVE  KeyInv'
<1>1. \A b \in Turns : OnKey(turn'[b])
  BY DEF TypeOK, KeyInv, Becomes
<1> QED BY <1>1 DEF KeyInv, OnKey, Near, Live

\* A turn that goes on without an answer, or with the one it has.
LEMMA GotoOnKey ==
  ASSUME TypeOK, KeyInv, NEW a \in Turns, NEW pc \in TurnPcs, ~turn[a].hit,
         pc \in {"generate", "write", "writeCanon"} =>
           turn[a].pc \in {"generate", "write", "writeCanon"},
         pc = "writeCanon" => turn[a].second,
         Goto(a, pc), UNCHANGED cache
  PROVE  KeyInv'
<1> DEFINE new == [turn[a] EXCEPT !.pc = pc]
<1>1. turn[a] \in Turn /\ OnKey(turn[a])
  BY DEF TypeOK, KeyInv
<1>2. new \in Turn /\ new.pc = pc /\ new.hit = turn[a].hit /\ new.answer = turn[a].answer
      /\ new.q = turn[a].q /\ new.canon = turn[a].canon /\ new.second = turn[a].second
  BY <1>1 DEF Turn
<1> HIDE DEF new
<1>3. OnKey(new)
  BY <1>1, <1>2 DEF OnKey
<1>4. Becomes(a, new)
  BY DEF Goto, new
<1> QED BY <1>2, <1>3, <1>4, TurnOnKey

LEMMA ServeOnKey ==
  ASSUME TypeOK, KeyInv, NEW a \in Turns, NEW k \in Questions,
         Live(k), Near(turn[a].key, k), Serve(a, k)
  PROVE  KeyInv'
<1> DEFINE new == [turn[a] EXCEPT !.pc = "end", !.hit = TRUE, !.answer = cache[k].answer]
<1>1. turn[a] \in Turn /\ OnKey(turn[a]) /\ cache[k].answer \in Answer
      /\ k \in cache[k].answer.keys
  BY DEF TypeOK, KeyInv, Entry
<1>2. new \in Turn
  BY <1>1, ServedTyped
<1>3. new.pc = "end" /\ new.hit /\ new.answer = cache[k].answer /\ new.key = turn[a].key
  BY <1>1 DEF Turn
<1>4. Becomes(a, new) /\ UNCHANGED cache
  BY DEF Serve
<1> HIDE DEF new
<1>5. OnKey(new)
  BY <1>1, <1>3 DEF OnKey
<1> QED BY <1>2, <1>4, <1>5, TurnOnKey

LEMMA FoundOnKey ==
  ASSUME TypeOK, KeyInv, NEW a \in Turns, ~turn[a].hit, NEW seen \in Versions,
         NEW sources \in SUBSET Docs, NEW extra \in SUBSET Docs,
         Found(a, seen, sources, extra)
  PROVE  KeyInv'
<1> DEFINE t == turn[a]
           answer == [used |-> [d \in Docs |-> IF d \in sources \cup extra THEN seen[d] ELSE 0],
                      sources |-> sources,
                      keys |-> {t.q} \cup (IF t.second THEN {t.canon} ELSE {}),
                      sound |-> TRUE]
           new == [t EXCEPT !.pc = "generate", !.left = {}, !.age = 0,
                            !.read = [d \in Docs |-> 0], !.answer = answer]
<1>1. t \in Turn
  BY DEF TypeOK
<1>2. turn' \in [Turns -> Turn]
  BY FoundStepTyped
<1>3. turn' = [turn EXCEPT ![a] = new] /\ UNCHANGED cache
  BY DEF Found, Becomes
<1>4. new = turn'[a]
  BY <1>3 DEF TypeOK
<1>5. new.pc = "generate" /\ ~new.hit /\ new.q = t.q /\ new.canon = t.canon
      /\ new.second = t.second /\ new.answer = answer
  BY <1>1 DEF Turn
<1>6. answer.keys = {t.q} \cup (IF t.second THEN {t.canon} ELSE {})
  OBVIOUS
<1> HIDE DEF new, answer
<1>7. OnKey(new)
  BY <1>5, <1>6 DEF OnKey
<1>8. new \in Turn
  BY <1>2, <1>4
<1> QED BY <1>3, <1>7, <1>8, TurnOnKey DEF Becomes

LEMMA UpsertOnKey ==
  ASSUME TypeOK, KeyInv, NEW k \in Questions, NEW answer \in Answer,
         k \in answer.keys, Upsert(k, answer)
  PROVE  \A l \in Questions : Live(l)' => l \in cache'[l].answer.keys
<1> DEFINE new == [here |-> TRUE, age |-> 0,
                   parents |-> IF cache[k].here THEN cache[k].parents ELSE answer.sources,
                   answer |-> answer,
                   late |-> {d \in Docs : Outdated(answer, d)}]
<1>1. cache' = [cache EXCEPT ![k] = new] /\ new.answer = answer
  BY DEF Upsert
<1> HIDE DEF new
<1> QED BY <1>1 DEF TypeOK, KeyInv, Live

LEMMA TurnStepOnKey ==
  ASSUME TypeOK, KeyInv, NEW a \in Turns, TurnStep(a)
  PROVE  KeyInv'
<1> DEFINE t == turn[a]
<1>t. t \in Turn /\ OnKey(t) /\ t.q \in Questions /\ t.canon \in Questions
      /\ t.key \in Questions /\ t.answer \in Answer /\ t.read \in Versions
      /\ (t.hit => t.pc = "end")
  BY DEF TypeOK, KeyInv, Turn, OnKey
<1>1. ASSUME NEW q \in Questions, NEW mode \in {"standard", "agentic"}, NEW bypass \in BOOLEAN,
             Ask(a, q, mode, bypass)
      PROVE  KeyInv'
  <2> DEFINE pc == IF mode = "agentic" /\ bypass THEN "expand" ELSE "exact"
             new == [IdleTurn EXCEPT !.pc = pc, !.mode = mode, !.bypass = bypass,
                                     !.q = q, !.canon = q, !.key = q]
  <2>1. pc \in TurnPcs
    BY DEF TurnPcs
  <2>2. new \in Turn
    BY <2>1, AskedTyped
  <2>3. new.pc = pc /\ ~new.hit
    BY DEF IdleTurn
  <2>4. OnKey(new)
    BY <2>3 DEF OnKey
  <2> QED BY <1>1, <2>2, <2>4, TurnOnKey DEF Ask
<1>2. CASE ExactHit(a)
  BY <1>2, <1>t, ServeOnKey DEF ExactHit, Near
<1>3. CASE SimilarHit(a)
  BY <1>3, ServeOnKey DEF SimilarHit
<1>4. CASE ExactMiss(a)
  <2>1. "similar" \in TurnPcs
    BY DEF TurnPcs
  <2> QED BY <1>4, <1>t, <2>1, GotoOnKey DEF ExactMiss, At
<1>5. CASE LookupMisses(a)
  <2> DEFINE pc == IF turn[a].key = turn[a].q THEN "expand" ELSE "retrieve"
  <2>1. pc \in TurnPcs /\ pc \notin {"generate", "write", "writeCanon"}
    BY DEF TurnPcs
  <2> QED BY <1>5, <1>t, <2>1, GotoOnKey DEF LookupMisses, At
<1>6. ASSUME NEW canon \in Questions, NEW english \in BOOLEAN, Expand(a, canon, english)
      PROVE  KeyInv'
  <2> DEFINE other == ~turn[a].bypass /\ canon # turn[a].q
             pc == IF other THEN "exact" ELSE "retrieve"
             key == IF other THEN canon ELSE turn[a].key
             second == other /\ ~english
             new == [t EXCEPT !.pc = pc, !.canon = canon, !.key = key, !.second = second]
  <2>1. pc \in TurnPcs /\ key \in Questions /\ second \in BOOLEAN
    BY <1>t DEF TurnPcs
  <2>2. new \in Turn
    BY <1>t, <2>1, ExpandedTyped
  <2>3. new.pc = pc /\ new.hit = t.hit
    BY <1>t DEF Turn
  <2>4. pc \in {"exact", "retrieve"} /\ ~t.hit
    BY <1>6, <1>t DEF Expand, At
  <2>5. Becomes(a, new) /\ UNCHANGED cache
    BY <1>6 DEF Expand
  <2> HIDE DEF new, pc
  <2>6. OnKey(new)
    BY <2>3, <2>4 DEF OnKey
  <2> QED BY <2>2, <2>5, <2>6, TurnOnKey
<1>7. CASE Block(a)
  <2>1. "end" \in TurnPcs
    BY DEF TurnPcs
  <2> QED BY <1>7, <1>t, <2>1, GotoOnKey DEF Block, At
<1>8. ASSUME NEW sources \in SUBSET Docs, NEW extra \in SUBSET Docs,
             \/ Retrieve(a, sources, extra)
             \/ \E p \in Processes : \/ RetrieveFromCopy(a, p, sources, extra)
                                     \/ RetrieveFromLoad(a, p, sources, extra)
      PROVE  KeyInv'
  <2>1. ~t.hit
    BY <1>8, <1>t DEF Retrieve, RetrieveFromCopy, RetrieveFromLoad, At
  <2>2. PICK seen \in Versions : Found(a, seen, sources, extra)
    <3>1. version \in Versions /\ \A p \in Processes : corpus[p].got \in Versions
      BY DEF TypeOK, CorpusTypeOK, Copy
    <3> QED BY <1>8, <1>t, <3>1 DEF Retrieve, RetrieveFromCopy, RetrieveFromLoad
  <2> QED BY <2>1, <2>2, FoundOnKey
<1>9. CASE StartLoad(a)
  <2> DEFINE new == [t EXCEPT !.pc = "load", !.left = Docs]
  <2>1. new \in Turn
    BY <1>t, LoadingTyped
  <2>2. new.pc = "load" /\ new.hit = t.hit /\ ~t.hit
    BY <1>9, <1>t DEF Turn, StartLoad, At
  <2>3. Becomes(a, new) /\ UNCHANGED cache
    BY <1>9 DEF StartLoad
  <2> HIDE DEF new
  <2>4. OnKey(new)
    BY <2>2 DEF OnKey
  <2> QED BY <2>1, <2>3, <2>4, TurnOnKey
<1>10. ASSUME NEW d \in Docs, LoadBatch(a, d)
       PROVE  KeyInv'
  <2> DEFINE new == [t EXCEPT !.left = t.left \ {d}, !.read = [t.read EXCEPT ![d] = version[d]]]
  <2>1. [t.read EXCEPT ![d] = version[d]] \in Versions
    BY <1>t DEF TypeOK, CorpusTypeOK, Versions
  <2>2. t.left \in SUBSET Docs
    BY <1>t DEF Turn
  <2>3. new \in Turn
    BY <1>t, <2>1, <2>2, LoadingTyped
  <2>4. new.pc = "load" /\ new.hit = t.hit /\ ~t.hit
    BY <1>10, <1>t DEF Turn, LoadBatch, At
  <2>5. Becomes(a, new) /\ UNCHANGED cache
    BY <1>10 DEF LoadBatch
  <2> HIDE DEF new
  <2>6. OnKey(new)
    BY <2>4 DEF OnKey
  <2> QED BY <2>3, <2>5, <2>6, TurnOnKey
<1>11. CASE Generate(a)
  <2> DEFINE pc == IF turn[a].bypass THEN "end" ELSE "write"
  <2>1. pc \in TurnPcs /\ pc # "writeCanon"
    BY DEF TurnPcs
  <2> QED BY <1>11, <1>t, <2>1, GotoOnKey DEF Generate, At
<1>12. CASE GenerateFallback(a)
  <2> DEFINE pc == IF turn[a].mode = "standard" \/ turn[a].bypass THEN "end" ELSE "write"
             answer == [t.answer EXCEPT !.sound = FALSE]
             new == [t EXCEPT !.answer = answer, !.pc = pc]
  <2>1. pc \in TurnPcs /\ pc # "writeCanon"
    BY DEF TurnPcs
  <2>2. new \in Turn
    BY <1>t, <2>1, UnsoundTyped
  <2>3. answer.keys = t.answer.keys
    BY <1>t DEF Answer
  <2>4. new.pc = pc /\ new.hit = t.hit /\ new.answer = answer /\ new.q = t.q
        /\ new.canon = t.canon /\ new.second = t.second /\ ~t.hit /\ t.pc = "generate"
    BY <1>12, <1>t DEF Turn, GenerateFallback, At
  <2>5. Becomes(a, new) /\ UNCHANGED cache
    BY <1>12 DEF GenerateFallback
  <2> HIDE DEF new, answer, pc
  <2>6. OnKey(new)
    BY <1>t, <2>1, <2>3, <2>4 DEF OnKey
  <2> QED BY <2>2, <2>5, <2>6, TurnOnKey
<1>g. /\ AfterWrite(a) \in TurnPcs
      /\ AfterWrite(a) \in {"writeCanon", "end"}
      /\ AfterWrite(a) = "writeCanon" => t.second /\ t.pc = "write"
  BY DEF AfterWrite, TurnPcs, At
<1>13. CASE WriteFails(a)
  <2>1. ~t.hit /\ t.pc \in {"write", "writeCanon"}
    BY <1>13, <1>t DEF WriteFails, At
  <2> QED BY <1>13, <1>g, <2>1, GotoOnKey DEF WriteFails
<1>14. CASE Write(a)
  <2>1. ~t.hit /\ t.pc \in {"write", "writeCanon"} /\ Goto(a, AfterWrite(a))
    BY <1>14, <1>t DEF Write, At
  <2>2. t.q \in t.answer.keys /\ (t.pc = "writeCanon" => t.canon \in t.answer.keys)
    BY <1>t, <2>1 DEF OnKey
  <2>3. \A l \in Questions : Live(l)' => l \in cache'[l].answer.keys
    BY <1>14, <1>t, <2>2, UpsertOnKey DEF Write, At
  <2> DEFINE new == [t EXCEPT !.pc = AfterWrite(a)]
  <2>4. new.pc = AfterWrite(a) /\ new.hit = t.hit /\ new.answer = t.answer /\ new.q = t.q
        /\ new.canon = t.canon /\ new.second = t.second
    BY <1>t DEF Turn
  <2>5. turn' = [turn EXCEPT ![a] = new]
    BY <2>1 DEF Goto, Becomes
  <2> HIDE DEF new
  <2>6. OnKey(new)
    BY <1>t, <1>g, <2>1, <2>2, <2>4 DEF OnKey
  <2>7. \A b \in Turns : OnKey(turn'[b])
    BY <2>5, <2>6 DEF TypeOK, KeyInv
  <2> QED BY <2>3, <2>7 DEF KeyInv, OnKey, Near
<1>15. CASE EndTurn(a)
  <2>1. OnKey(IdleTurn)
    BY DEF OnKey, IdleTurn
  <2> QED BY <1>15, <2>1, NothingTyped, TurnOnKey DEF EndTurn
<1> QED
  BY <1>1, <1>2, <1>3, <1>4, <1>5, <1>6, <1>7, <1>8, <1>9, <1>10, <1>11, <1>12, <1>13, <1>14,
     <1>15 DEF TurnStep, Proceed

\* Rows only go, or come to an end, when no turn writes.
LEMMA RowsOnKey ==
  ASSUME TypeOK, KeyInv, UNCHANGED turn,
         \A k \in Questions : Live(k)' => Live(k) /\ cache'[k].answer = cache[k].answer
  PROVE  KeyInv'
BY DEF KeyInv, OnKey, Near

LEMMA WithoutOnKey ==
  ASSUME TypeOK, NEW K \in SUBSET Questions, cache' = Without(K)
  PROVE  \A k \in Questions : Live(k)' => Live(k) /\ cache'[k].answer = cache[k].answer
BY DEF Without, Live, NoEntry

LEMMA TimePassesOnKey == TypeOK /\ KeyInv /\ TimePasses => KeyInv'
<1> SUFFICES ASSUME TypeOK, KeyInv, TimePasses PROVE KeyInv'
  OBVIOUS
<1>1. ASSUME NEW k \in Questions, Live(k)'
      PROVE  Live(k) /\ cache'[k].answer = cache[k].answer
  <2>1. cache[k] \in Entry /\ cache[k].age \in Nat
    BY CacheAssumption DEF TypeOK, Entry
  <2>2. cache'[k] = IF cache[k].age + 1 < TTL /\ Live(k) THEN [cache[k] EXCEPT !.age = @ + 1]
                    ELSE IF Live(k) THEN Expired(cache[k]) ELSE cache[k]
    BY DEF TimePasses
  <2>3. Expired(cache[k]).age = TTL
    BY DEF Expired, NoEntry
  <2>4. TTL \in Nat
    BY CacheAssumption
  <2>5. CASE cache[k].age + 1 < TTL /\ Live(k)
    BY <2>1, <2>2, <2>5 DEF Entry
  <2> QED BY <1>1, <2>2, <2>3, <2>4, <2>5 DEF Live
<1>2. \A a \in Turns : OnKey(turn'[a])
  <2> SUFFICES ASSUME NEW a \in Turns PROVE OnKey(turn'[a])
    OBVIOUS
  <2>1. turn[a] \in Turn /\ OnKey(turn[a])
    BY DEF TypeOK, KeyInv
  <2>2. turn'[a] = IF At(a, "load") /\ turn[a].age < CorpusTTL
                   THEN [turn[a] EXCEPT !.age = @ + 1] ELSE turn[a]
    BY DEF TimePasses
  <2>3. LET new == [turn[a] EXCEPT !.age = @ + 1] IN
        new.pc = turn[a].pc /\ new.hit = turn[a].hit
    BY <2>1 DEF Turn
  <2>4. CASE At(a, "load") /\ turn[a].age < CorpusTTL
    BY <2>1, <2>2, <2>3, <2>4 DEF OnKey, At
  <2> QED BY <2>1, <2>2, <2>4
<1> QED BY <1>1, <1>2 DEF KeyInv, OnKey, Near

LEMMA NextOnKey == TypeOK /\ KeyInv /\ [Next]_vars => KeyInv'
<1> SUFFICES ASSUME TypeOK, KeyInv, [Next]_vars PROVE KeyInv'
  OBVIOUS
<1>1. ASSUME NEW d \in Docs, DocumentStep(d) PROVE KeyInv'
  <2>1. purge[d].found \in SUBSET Questions
    BY DEF TypeOK, Purge
  <2>2. CASE DeleteAnswers(d)
    <3>1. \A k \in Questions : Live(k)' => Live(k) /\ cache'[k].answer = cache[k].answer
      BY <2>1, <2>2, WithoutOnKey DEF DeleteAnswers
    <3> QED BY <2>2, <3>1, RowsOnKey DEF DeleteAnswers
  <2>3. CASE UNCHANGED <<cache, turn>>
    BY <2>3, RowsOnKey DEF Live
  <2> QED BY <1>1, <2>2, <2>3 DEF DocumentStep, ChangeChunks, FindAnswers, LosePurge, DropCorpus
<1>2. ASSUME NEW K \in SUBSET Questions, Forget(K) PROVE KeyInv'
  <2>1. \A k \in Questions : Live(k)' => Live(k) /\ cache'[k].answer = cache[k].answer
    BY <1>2, WithoutOnKey DEF Forget
  <2> QED BY <1>2, <2>1, RowsOnKey DEF Forget
<1>3. CASE CleanUp
  BY <1>2, <1>3 DEF CleanUp
<1>4. CASE ClearAll
  BY <1>2, <1>4 DEF ClearAll
<1>5. CASE UNCHANGED vars
  BY <1>5, RowsOnKey DEF vars, Live
<1> QED BY <1>1, <1>3, <1>4, <1>5, TurnStepOnKey, TimePassesOnKey DEF Next

LEMMA InitOnKey == Init => KeyInv
<1> SUFFICES ASSUME Init PROVE KeyInv
  OBVIOUS
<1>1. OnKey(IdleTurn)
  BY DEF OnKey, IdleTurn
<1>2. \A k \in Questions : ~Live(k)
  BY DEF Init, NoEntry, Live
<1> QED BY <1>1, <1>2 DEF Init, KeyInv

\* Whatever turns, purges and clean-ups interleave, an answer from the cache was
\* generated for a question near the one looked up: a hit is not stored again,
\* so nearness is not passed on from question to question.
THEOREM AnswersDoNotDrift == Spec => []NoDrift
<1>1. Spec => [](TypeOK /\ KeyInv)
  BY InitTyped, NextTyped, InitOnKey, NextOnKey, PTL DEF Spec
<1>2. KeyInv => NoDrift
  BY DEF KeyInv, OnKey, NoDrift
<1> QED BY <1>1, <1>2, PTL

=============================================================================
