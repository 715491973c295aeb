---------------------------- MODULE Translation ----------------------------
(***************************************************************************)
(* Translating documents within Groq's budgets: translateToEnglish for     *)
(* several documents in one process, the checkpoint cache and the in-      *)
(* flight table they share, and the limiter of createTranslationRate-      *)
(* Limiter: one GroqRateLimiter for a single key, else the pool with a     *)
(* limiter per key and model and one daily budget per model.               *)
(*                                                                         *)
(* Tokens are counted in requests: every request costs one.  A tick is     *)
(* long enough for the pacing interval and for one request's refill.       *)
(***************************************************************************)
EXTENDS Integers, Sequences, FiniteSets

CONSTANTS
  TransDocs,       \* documents that may be in work at the same time
  SegmentsOf, \* SegmentsOf[d]: the texts d is split into, in order
  Keys,       \* API keys
  ModelCount, \* length of the model chain
  Tpm,        \* size of each limiter's bucket
  Rpd, Tpd    \* per model, requests and tokens of a day; 0 for no cap

Models == 1..ModelCount
Segments == UNION {{SegmentsOf[d][i] : i \in 1..Len(SegmentsOf[d])} : d \in TransDocs}

ASSUME TranslationAssumption ==
  /\ IsFiniteSet(TransDocs) /\ TransDocs # {}
  /\ \A d \in TransDocs : Len(SegmentsOf[d]) \in Nat \ {0}
  /\ ModelCount \in Nat \ {0} /\ Tpm \in Nat \ {0}
  /\ Rpd \in [Models -> Nat] /\ Tpd \in [Models -> Nat]

VARIABLES
  keys,      \* the keys configured, for good
  limiter,   \* limiter[k][m]
  budget,    \* budget[m]: tokensToday, tpdResetDays, deadModels
  doc,       \* one document
  inflight,  \* inflightSegments
  stored,    \* segments with a readable checkpoint
  paid,      \* history: paid[m], tokens of today
  restarted  \* history: the process has started anew today

transVars == <<keys, limiter, budget, doc, inflight, stored, paid, restarted>>

\* How far the counts are followed.
MaxMade(m) == IF Rpd[m] = 0 THEN 0 ELSE Rpd[m] + Cardinality(TransDocs)
MaxPaid(m) == IF Tpd[m] = 0 THEN 0 ELSE Tpd[m] + 2 * Cardinality(TransDocs)

\* today: the day the counters are of is today.  Those of a new process are of
\* no day yet, which comes to the same; where nothing is capped, neither matters.
Limiter == [tokens : 0..Tpm, soon : BOOLEAN, requests : Nat, today : BOOLEAN]
FreshLimiter(m) == [tokens |-> Tpm, soon |-> FALSE, requests |-> 0, today |-> Rpd[m] = 0]
Budget == [used : Nat, today : BOOLEAN, dead : BOOLEAN]
FreshBudget(m) == [used |-> 0, today |-> Tpd[m] = 0, dead |-> FALSE]

DocPcs == {"idle", "lookup", "join", "choose", "midnight", "rpd", "rpdOver", "tpd",
           "tpdOver", "pace", "bucket", "call", "done"}
Doc == [pc : DocPcs, seg : Nat, tries : 0..ModelCount, key : Keys, model : Models,
        got : SUBSET Segments, english : BOOLEAN]
SomeKey == CHOOSE k \in Keys : TRUE
NoDoc == [pc |-> "idle", seg |-> 0, tries |-> 0, key |-> SomeKey, model |-> 1,
          got |-> {}, english |-> FALSE]

TransTypeOK ==
  /\ keys \in (SUBSET Keys) \ {{}}
  /\ limiter \in [Keys -> [Models -> Limiter]]
  /\ budget \in [Models -> Budget]
  /\ doc \in [TransDocs -> Doc]
  /\ inflight \subseteq Segments /\ stored \subseteq Segments
  /\ paid \in [Models -> Nat]
  /\ restarted \in BOOLEAN

Boot ==
  /\ limiter = [k \in Keys |-> [m \in Models |-> FreshLimiter(m)]]
  /\ budget = [m \in Models |-> FreshBudget(m)]
  /\ doc = [d \in TransDocs |-> NoDoc]
  /\ inflight = {}

TransInit ==
  /\ keys \in (SUBSET Keys) \ {{}}
  /\ Boot
  /\ stored = {}
  /\ paid = [m \in Models |-> 0]
  /\ restarted = FALSE

Pool == Cardinality(keys) > 1
DocAt(d, pc) == doc[d].pc = pc
SetDoc(d, new) == doc' = [doc EXCEPT ![d] = new]
\* A document whose next request is k's and m's.
Assigned(r, pc, k, m) == [r EXCEPT !.pc = pc, !.key = k, !.model = m]
DocGoto(d, pc) == SetDoc(d, [doc[d] EXCEPT !.pc = pc])
Counts == <<limiter, budget, paid>>
Rest == <<keys, stored, restarted>>

\* Segment 0 is the text whose language is asked for.
Text(d) == SegmentsOf[d][doc[d].seg]
Detecting(d) == doc[d].seg = 0
Waits(d) == doc[d].pc \in {"choose", "midnight", "rpd", "rpdOver", "tpd", "tpdOver",
                           "pace", "bucket", "call"}
Pays(d, s) == Waits(d) /\ ~Detecting(d) /\ Text(d) = s

-----------------------------------------------------------------------------
(* Documents *)

StartDoc(d) ==
  /\ DocAt(d, "idle")
  /\ SetDoc(d, [NoDoc EXCEPT !.pc = "choose"])
  /\ UNCHANGED Counts /\ UNCHANGED Rest /\ UNCHANGED inflight

\* With another segment, or none left.
Onward(r, d, s) ==
  IF r.seg < Len(SegmentsOf[d])
  THEN [NoDoc EXCEPT !.pc = "lookup", !.seg = r.seg + 1, !.got = r.got \cup {s}]
  ELSE [NoDoc EXCEPT !.pc = "done", !.got = r.got \cup {s}, !.english = TRUE]

\* normalizeToEnglish falls back to the original text.
GiveUp == [NoDoc EXCEPT !.pc = "done"]

\* Mutant: only the cache is asked.
LookupNoTable(d) ==
  /\ DocAt(d, "lookup")
  /\ SetDoc(d, IF Text(d) \in stored THEN Onward(doc[d], d, Text(d))
               ELSE [doc[d] EXCEPT !.pc = "choose"])
  /\ inflight' = inflight \cup ({Text(d)} \ stored)
  /\ UNCHANGED Counts /\ UNCHANGED Rest

\* cacheLookup, then getOrCreateInflight, without a pause between them.
Lookup(d) ==
  /\ DocAt(d, "lookup")
  /\ SetDoc(d, IF Text(d) \in stored THEN Onward(doc[d], d, Text(d))
               ELSE [doc[d] EXCEPT !.pc = IF Text(d) \in inflight THEN "join" ELSE "choose"])
  /\ inflight' = inflight \cup ({Text(d)} \ stored)
  /\ UNCHANGED Counts /\ UNCHANGED Rest

\* The promise of s settles for d and for all who joined.
Concerned(d, s) == {e \in TransDocs : e = d \/ (DocAt(e, "join") /\ Text(e) = s)}
Settle(d, s, good) ==
  /\ doc' = [e \in TransDocs |->
       IF e \notin Concerned(d, s) THEN doc[e]
       ELSE IF good THEN Onward(doc[e], e, s) ELSE GiveUp]
  /\ inflight' = inflight \ {s}

\* waitForTokens throws, or the request fails for good.
DocFails(d) ==
  IF Detecting(d) THEN SetDoc(d, GiveUp) /\ UNCHANGED inflight
  ELSE Settle(d, Text(d), FALSE)

\* Any failure to detect a language ends with one, by the regular expressions.
Detected(d, english) ==
  /\ DocAt(d, "call") /\ Detecting(d)
  /\ SetDoc(d, IF english THEN GiveUp
               ELSE [NoDoc EXCEPT !.pc = "lookup", !.seg = 1])
  /\ UNCHANGED Counts /\ UNCHANGED Rest /\ UNCHANGED inflight

\* A checkpoint that cannot be written, or not be read back, is none.
Translated(d, kept) ==
  /\ DocAt(d, "call") /\ ~Detecting(d)
  /\ stored' = IF kept THEN stored \cup {Text(d)} ELSE stored
  /\ Settle(d, Text(d), TRUE)
  /\ UNCHANGED Counts /\ UNCHANGED <<keys, restarted>>

\* The next attempt, of as many as there are models.
RetryTranslation(d) ==
  IF doc[d].tries + 1 < ModelCount
  THEN /\ SetDoc(d, Assigned([doc[d] EXCEPT !.tries = @ + 1], "choose", SomeKey, 1))
       /\ UNCHANGED inflight
  ELSE DocFails(d)

\* 401, 403, 404: blacklistModel.
HardError(d) ==
  /\ DocAt(d, "call") /\ ~Detecting(d) /\ Pool
  /\ budget' = [budget EXCEPT ![doc[d].model].dead = TRUE]
  /\ RetryTranslation(d)
  /\ UNCHANGED <<limiter, paid>> /\ UNCHANGED Rest

\* The provider's count of the day is full: exhaustModelToday.
SpentError(d) ==
  LET m == doc[d].model IN
  /\ DocAt(d, "call") /\ ~Detecting(d) /\ Pool
  /\ budget' = IF Tpd[m] > 0 THEN [budget EXCEPT ![m].used = Tpd[m]] ELSE budget
  /\ RetryTranslation(d)
  /\ UNCHANGED <<limiter, paid>> /\ UNCHANGED Rest

Transient(d) ==
  /\ DocAt(d, "call") /\ ~Detecting(d)
  /\ DocFails(d)
  /\ UNCHANGED Counts /\ UNCHANGED Rest

-----------------------------------------------------------------------------
(* Waiting for tokens *)

\* rollDailyCounters, hasModelBudget: a new day starts when somebody looks.
Rolled(l) == IF l.today THEN l ELSE [l EXCEPT !.requests = 0, !.today = TRUE]
RolledBudget(b) == IF b.today THEN b ELSE [b EXCEPT !.used = 0, !.today = TRUE]

\* Mutant: the fallback does not look at the budget.
HasBudgetAlways(m) == TRUE

HasBudget(m) == Tpd[m] = 0 \/ RolledBudget(budget[m]).used + 1 <= Tpd[m]
UsableModel(m) == ~budget[m].dead /\ HasBudget(m)

\* The models the loop looks at on its way to m have their day rolled.
LookedAt(upTo) ==
  [m \in Models |-> IF m <= upTo /\ ~budget[m].dead THEN RolledBudget(budget[m]) ELSE budget[m]]

Ready(k, m) == limiter[k][m].tokens >= 1 /\ ~limiter[k][m].soon

\* The counts are kept as far as a test or a property looks.
Counted(n, cap) == IF n < cap THEN n + 1 ELSE n
Taken(l, m) == [l EXCEPT !.tokens = @ - 1, !.soon = TRUE, !.requests = Counted(@, MaxMade(m))]
Spent(b, m) == [b EXCEPT !.used = Counted(@, Tpd[m])]

\* One request of k and m goes out, charged to the limiter and to the model.
Charge(d, k, m, l, budgets) ==
  /\ limiter' = [limiter EXCEPT ![k][m] = Taken(l, m)]
  /\ budget' = [budgets EXCEPT ![m] = Spent(@, m)]
  /\ paid' = [paid EXCEPT ![m] = Counted(@, MaxPaid(m))]
  /\ SetDoc(d, Assigned(doc[d], "call", k, m))

\* The first model with a budget, on its fullest key that is ready (tryReserve).
Reserve(d, k, m) ==
  /\ DocAt(d, "choose") /\ Pool /\ k \in keys
  /\ UsableModel(m) /\ \A n \in 1..(m - 1) : ~UsableModel(n)
  /\ Ready(k, m)
  /\ \A j \in keys : Ready(j, m) => limiter[j][m].tokens <= limiter[k][m].tokens
  /\ Charge(d, k, m, Rolled(limiter[k][m]), LookedAt(m))
  /\ UNCHANGED Rest /\ UNCHANGED inflight

\* GroqRateLimiter.waitForTokens up to its first pause.
FirstPause(l, b, m) ==
  IF Rpd[m] > 0 /\ l.requests >= Rpd[m] THEN "rpd"
  ELSE IF ~Pool /\ Tpd[m] > 0 /\ b.used + 1 > Tpd[m] THEN "tpd"
  ELSE IF l.soon THEN "pace" ELSE "bucket"

\* No key is ready: wait on the fullest one of this model.
WaitOnKey(d, k, m) ==
  LET l == Rolled(limiter[k][m]) IN
  /\ DocAt(d, "choose") /\ Pool /\ k \in keys
  /\ UsableModel(m) /\ \A n \in 1..(m - 1) : ~UsableModel(n)
  /\ \A j \in keys : ~Ready(j, m) /\ limiter[j][m].tokens <= limiter[k][m].tokens
  /\ limiter' = [limiter EXCEPT ![k][m] = l]
  /\ budget' = LookedAt(m)
  /\ SetDoc(d, Assigned(doc[d], FirstPause(l, budget[m], m), k, m))
  /\ UNCHANGED paid /\ UNCHANGED Rest /\ UNCHANGED inflight

\* A single key has one limiter, for the first model, with its own budget.
WaitAlone(d, k) ==
  LET l == Rolled(limiter[k][1])  b == RolledBudget(budget[1]) IN
  /\ DocAt(d, "choose") /\ ~Pool /\ k \in keys
  /\ limiter' = [limiter EXCEPT ![k][1] = l]
  /\ budget' = [budget EXCEPT ![1] = b]
  /\ SetDoc(d, Assigned(doc[d], FirstPause(l, b, 1), k, 1))
  /\ UNCHANGED paid /\ UNCHANGED Rest /\ UNCHANGED inflight

\* Mutant: a pool without a live model waits for a better day.
NoModelWaits(d) ==
  /\ DocAt(d, "choose") /\ Pool /\ \A m \in Models : ~UsableModel(m)
  /\ budget' = LookedAt(ModelCount)
  /\ DocGoto(d, "midnight")
  /\ UNCHANGED inflight
  /\ UNCHANGED <<limiter, paid>> /\ UNCHANGED Rest

\* No model has a budget: wait for midnight, unless none will ever work.
NoModel(d) ==
  /\ DocAt(d, "choose") /\ Pool /\ \A m \in Models : ~UsableModel(m)
  /\ budget' = LookedAt(ModelCount)
  /\ IF \A m \in Models : budget[m].dead THEN DocFails(d)
     ELSE DocGoto(d, "midnight") /\ UNCHANGED inflight
  /\ UNCHANGED <<limiter, paid>> /\ UNCHANGED Rest

\* After its wait each waiter sets the count back, whatever others have used.
RpdOver(d) ==
  LET k == doc[d].key  m == doc[d].model  l == [limiter[k][m] EXCEPT !.requests = 0] IN
  /\ DocAt(d, "rpdOver")
  /\ limiter' = [limiter EXCEPT ![k][m] = l]
  /\ DocGoto(d, FirstPause([l EXCEPT !.requests = 0], budget[m], m))
  /\ UNCHANGED <<budget, paid>> /\ UNCHANGED Rest /\ UNCHANGED inflight

TpdOver(d) ==
  LET k == doc[d].key  m == doc[d].model IN
  /\ DocAt(d, "tpdOver")
  /\ budget' = [budget EXCEPT ![m].used = 0]
  /\ DocGoto(d, IF limiter[k][m].soon THEN "pace" ELSE "bucket")
  /\ UNCHANGED <<limiter, paid>> /\ UNCHANGED Rest /\ UNCHANGED inflight

\* The bucket has enough at last; neither day's count is looked at again.
Take(d) ==
  LET k == doc[d].key  m == doc[d].model IN
  /\ DocAt(d, "bucket") /\ limiter[k][m].tokens >= 1
  /\ Charge(d, k, m, limiter[k][m], budget)
  /\ UNCHANGED Rest /\ UNCHANGED inflight

-----------------------------------------------------------------------------
(* Time *)

\* Refills the buckets and ends every pacing pause.
RefillTick ==
  /\ \E k \in keys, m \in Models : limiter[k][m].tokens < Tpm \/ limiter[k][m].soon
  /\ limiter' = [k \in Keys |-> [m \in Models |->
       [limiter[k][m] EXCEPT !.tokens = IF @ < Tpm THEN @ + 1 ELSE @, !.soon = FALSE]]]
  /\ doc' = [d \in TransDocs |-> IF DocAt(d, "pace") THEN [doc[d] EXCEPT !.pc = "bucket"] ELSE doc[d]]
  /\ UNCHANGED <<budget, inflight, paid>> /\ UNCHANGED Rest

WokenDocs == [pc \in DocPcs |->
  CASE pc = "midnight" -> "choose" [] pc = "rpd" -> "rpdOver" [] pc = "tpd" -> "tpdOver"
    [] OTHER -> pc]

Midnight ==
  /\ limiter' = [k \in Keys |-> [m \in Models |-> [limiter[k][m] EXCEPT !.today = Rpd[m] = 0]]]
  /\ budget' = [m \in Models |-> [budget[m] EXCEPT !.today = Tpd[m] = 0]]
  /\ doc' = [d \in TransDocs |-> [doc[d] EXCEPT !.pc = WokenDocs[@]]]
  /\ paid' = [m \in Models |-> 0]
  /\ restarted' = FALSE
  /\ UNCHANGED <<keys, inflight, stored>>

\* The process ends and starts: only the checkpoints are kept.
Restart ==
  /\ limiter' = [k \in Keys |-> [m \in Models |-> FreshLimiter(m)]]
  /\ budget' = [m \in Models |-> FreshBudget(m)]
  /\ doc' = [d \in TransDocs |-> NoDoc]
  /\ inflight' = {}
  /\ restarted' = TRUE
  /\ UNCHANGED <<keys, stored, paid>>

DocStep(d) ==
  \/ Lookup(d)
  \/ \E english \in BOOLEAN : Detected(d, english)
  \/ \E kept \in BOOLEAN : Translated(d, kept)
  \/ HardError(d) \/ SpentError(d) \/ Transient(d)
  \/ \E k \in Keys, m \in Models : Reserve(d, k, m) \/ WaitOnKey(d, k, m)
  \/ \E k \in Keys : WaitAlone(d, k)
  \/ NoModel(d) \/ RpdOver(d) \/ TpdOver(d) \/ Take(d)

TransNext ==
  \/ \E d \in TransDocs : StartDoc(d) \/ DocStep(d)
  \/ RefillTick \/ Midnight \/ Restart

TransSpec == TransInit /\ [][TransNext]_transVars

\* Time passes, timers fire and requests are answered (the SDK's timeout).  A
\* document is in work once in the life of a process.
TransFairness ==
  /\ WF_transVars(RefillTick) /\ WF_transVars(Midnight)
  /\ \A d \in TransDocs : WF_transVars(DocStep(d))

-----------------------------------------------------------------------------
(* Properties *)

\* A segment is paid for by one document at a time, and not at all once there
\* is a checkpoint of it: documents that meet in a segment, fail in it or come
\* back after a restart do not spend the budget on it again.
PaidOnce ==
  \A d \in TransDocs, s \in Segments :
    Pays(d, s) => s \notin stored /\ \A e \in TransDocs \ {d} : ~Pays(e, s)

\* Every document that waits for another's segment has one to wait for.
JoinersAreServed ==
  \A d \in TransDocs : DocAt(d, "join") => \E e \in TransDocs : Pays(e, Text(d))

\* Whole documents are replaced by their translation, or not at all.
WholeOrOriginal ==
  \A d \in TransDocs : doc[d].english =>
    doc[d].got = {SegmentsOf[d][i] : i \in 1..Len(SegmentsOf[d])}

\* The budget of a day is tested before the waiting and charged after it.  So
\* documents that wait may overdraw it, together and around midnight, but of
\* a pool only by what two requests each can cost; a restart forgets what was
\* spent.  (With a single key each document that has waited for midnight sets
\* the count back when its own timer fires: a late one gives the whole budget
\* once more.)
OverdrawnByWaiters ==
  Pool /\ ~restarted => \A m \in Models :
    Tpd[m] > 0 => paid[m] <= Tpd[m] + 2 * Cardinality(TransDocs) - 1

TransInv == TransTypeOK /\ PaidOnce /\ JoinersAreServed /\ WholeOrOriginal /\ OverdrawnByWaiters

\* A document is translated or given up some time: budgets that are spent come
\* back at midnight, and models that will never work are not waited for.
DocsEnd == \A d \in TransDocs : DocAt(d, "choose") ~> DocAt(d, "done") \/ DocAt(d, "idle")

=============================================================================
