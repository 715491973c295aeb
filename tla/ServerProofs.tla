---------------------------- MODULE ServerProofs ----------------------------
(***************************************************************************)
(* Theorems about parts of the server that stand by themselves: the client *)
(* of the models, the administrators' table, the memory of conversations,  *)
(* the window of the request limiter, the segments and budgets of the      *)
(* translation, the bulk ingestion, the agents' accounts, the fetching of  *)
(* a page, the embeddings' cache, and all but the first together.          *)
(***************************************************************************)
EXTENDS LlmClient, MCServer,
        FiniteSetTheorems, WellFoundedInduction, SequenceTheorems, TLAPS

-----------------------------------------------------------------------------
(* The models' client: the semaphore, the circuit breakers and the streams, *)
(* for any number of calls, retries and ticks                               *)

Running == {c \in LlmCalls : CallAt(c, "run")}

\* The fields of one breaker agree.
BreakerOK(b) ==
  /\ b \in Breaker
  /\ b.state = "CLOSED" <=> b.failures < Threshold
  /\ b.state = "CLOSED" <=> b.since = -1
  /\ b.state = "HALF_OPEN" => b.since = ResetTicks

\* Text stands before the end of a call only while its stream goes on.
OutOK(x) ==
  /\ x.out # "twice"
  /\ x.out # "nothing" => x.pc \in {"stream", "done", "failed"}

ClientInv ==
  /\ LlmTypeOK /\ SemaphoreIsExact
  /\ \A p \in Providers : BreakerOK(breaker[p])
  /\ \A c \in LlmCalls : OutOK(llmCall[c])

-----------------------------------------------------------------------------
(* The breaker *)

LEMMA BreakerOperations ==
  ASSUME NEW b, BreakerOK(b)
  PROVE  BreakerOK(Seen(b)) /\ BreakerOK(OnSuccess(b)) /\ BreakerOK(OnFailure(b))
<1>0. Threshold \in Nat \ {0} /\ ResetTicks \in Nat \ {0}
  BY LlmAssumption
<1>1. BreakerOK(Seen(b))
  <2>1. CASE ShouldHalfOpen(b)
    <3> DEFINE h == [b EXCEPT !.state = "HALF_OPEN"]
    <3>1. h \in Breaker /\ h.state = "HALF_OPEN" /\ h.failures = b.failures /\ h.since = b.since
      BY DEF BreakerOK, Breaker
    <3>2. Seen(b) = h
      BY <2>1 DEF Seen
    <3> HIDE DEF h
    <3> QED BY <1>0, <2>1, <3>1, <3>2 DEF BreakerOK, ShouldHalfOpen
  <2> QED BY <2>1 DEF Seen
<1>2. BreakerOK(OnSuccess(b))
  BY <1>0 DEF BreakerOK, OnSuccess, ClosedBreaker, Breaker
<1>3. BreakerOK(OnFailure(b))
  <2> DEFINE n == IF b.state = "HALF_OPEN" \/ b.failures + 1 > Threshold THEN Threshold
                  ELSE b.failures + 1
  <2>1. b.failures \in 0..Threshold /\ n \in 1..Threshold
    BY <1>0 DEF BreakerOK, Breaker
  <2>2. CASE n >= Threshold
    <3>1. OnFailure(b) = [state |-> "OPEN", failures |-> n, since |-> 0]
      BY <2>2 DEF OnFailure
    <3> HIDE DEF n
    <3> QED BY <1>0, <2>1, <2>2, <3>1 DEF BreakerOK, Breaker
  <2>3. CASE ~(n >= Threshold)
    <3> DEFINE f == [b EXCEPT !.failures = n]
    <3>1. OnFailure(b) = f
      BY <2>3 DEF OnFailure
    <3>2. b.failures < Threshold /\ b.state = "CLOSED" /\ b.since = -1
      BY <1>0, <2>1, <2>3 DEF BreakerOK
    <3> HIDE DEF n
    <3>3. f \in Breaker /\ f.failures = n /\ f.state = b.state /\ f.since = b.since
      BY <2>1 DEF BreakerOK, Breaker
    <3>4. n < Threshold
      BY <1>0, <2>1, <2>3
    <3> HIDE DEF f
    <3> QED BY <3>1, <3>2, <3>3, <3>4 DEF BreakerOK
  <2> QED BY <2>2, <2>3
<1> QED BY <1>1, <1>2, <1>3

\* One breaker is set, or none.
LEMMA BreakersKept ==
  ASSUME ClientInv, NEW p \in Providers, NEW b, BreakerOK(b),
         UNCHANGED breaker \/ SetBreaker(p, b)
  PROVE  breaker' \in [Providers -> Breaker] /\ \A q \in Providers : BreakerOK(breaker'[q])
<1>1. breaker \in [Providers -> Breaker] /\ b \in Breaker
  BY DEF ClientInv, LlmTypeOK, BreakerOK
<1>2. breaker' = breaker \/ breaker' = [breaker EXCEPT ![p] = b]
  BY DEF SetBreaker
<1> QED BY <1>1, <1>2 DEF ClientInv

-----------------------------------------------------------------------------
(* The semaphore and the calls *)

LEMMA RunningFinite ==
  IsFiniteSet(Running) /\ Cardinality(Running) \in Nat
BY LlmAssumption, FS_Subset, FS_CardinalityType DEF Running

\* One call changes; the semaphore is counted up and down with it.
LEMMA CallChanges ==
  ASSUME ClientInv, NEW c \in LlmCalls, NEW new \in LlmCall, SetCall(c, new), OutOK(new),
         breaker' \in [Providers -> Breaker], \A q \in Providers : BreakerOK(breaker'[q]),
         new.pc = "run" => /\ ~CallAt(c, "run") /\ active < SemaphoreSize
                           /\ active' = active + 1,
         new.pc # "run" => active' = IF CallAt(c, "run") THEN Released ELSE active
  PROVE  ClientInv'
<1>0. SemaphoreSize \in Nat /\ active \in Nat /\ llmCall \in [LlmCalls -> LlmCall]
      /\ active = Cardinality(Running) /\ active <= SemaphoreSize
  BY LlmAssumption DEF ClientInv, LlmTypeOK, SemaphoreIsExact, Running
<1>1. llmCall' \in [LlmCalls -> LlmCall] /\ llmCall'[c] = new
      /\ \A d \in LlmCalls : d # c => llmCall'[d] = llmCall[d]
  BY <1>0 DEF SetCall
<1>2. \A d \in LlmCalls : OutOK(llmCall'[d])
  BY <1>1 DEF ClientInv
<1>3. active' \in Nat /\ active' <= SemaphoreSize /\ active' = Cardinality(Running')
  <2>1. CASE new.pc = "run"
    <3>1. Running' = Running \cup {c} /\ c \notin Running
      BY <1>1, <2>1 DEF Running, CallAt
    <3>2. Cardinality(Running') = Cardinality(Running) + 1
      BY <3>1, RunningFinite, FS_AddElement
    <3> QED BY <1>0, <2>1, <3>2
  <2>2. CASE new.pc # "run" /\ CallAt(c, "run")
    <3>1. Running' = Running \ {c} /\ c \in Running
      BY <1>1, <2>2 DEF Running, CallAt
    <3>2. Cardinality(Running') = Cardinality(Running) - 1
      BY <3>1, RunningFinite, FS_RemoveElement
    <3>3. Cardinality(Running) # 0
      BY <3>1, RunningFinite, FS_EmptySet
    <3> QED BY <1>0, <2>2, <3>2, <3>3, RunningFinite DEF Released
  <2>3. CASE new.pc # "run" /\ ~CallAt(c, "run")
    <3>1. Running' = Running
      BY <1>1, <2>3 DEF Running, CallAt
    <3> QED BY <1>0, <2>3, <3>1
  <2> QED BY <2>1, <2>2, <2>3
<1> QED BY <1>1, <1>2, <1>3 DEF ClientInv, LlmTypeOK, SemaphoreIsExact, Running

LEMMA Fields ==
  ASSUME NEW x \in LlmCall
  PROVE  /\ \A pc \in CallPcs : LET y == [x EXCEPT !.pc = pc] IN
              y \in LlmCall /\ y.pc = pc /\ y.out = x.out
         /\ \A n \in Nat \ {0} : LET y == [x EXCEPT !.attempt = n] IN
              y \in LlmCall /\ y.pc = x.pc /\ y.out = x.out
         /\ \A o \in {"nothing", "part", "whole", "twice"} : LET y == [x EXCEPT !.out = o] IN
              y \in LlmCall /\ y.pc = x.pc /\ y.out = o
         /\ \A p \in Providers : LET y == [x EXCEPT !.provider = p] IN
              y \in LlmCall /\ y.pc = x.pc /\ y.out = x.out
BY DEF LlmCall

LEMMA NextProviderOK ==
  ASSUME ClientInv, NEW c \in LlmCalls, llmCall[c].pc \notin {"stream", "done", "failed"}
  PROVE  NextProvider(c) \in LlmCall /\ OutOK(NextProvider(c)) /\ NextProvider(c).pc # "run"
<1> DEFINE x == llmCall[c]
           a == [x EXCEPT !.pc = "admit"]
           b == [a EXCEPT !.provider = "huggingface"]
           e == [b EXCEPT !.attempt = 1]
           f == [x EXCEPT !.pc = "failed"]
<1>0. x \in LlmCall /\ OutOK(x)
  BY DEF ClientInv, LlmTypeOK
<1>1. a \in LlmCall /\ a.pc = "admit" /\ a.out = x.out
  BY <1>0, Fields DEF CallPcs
<1>2. f \in LlmCall /\ f.pc = "failed" /\ f.out = x.out
  BY <1>0, Fields DEF CallPcs
<1>3. b \in LlmCall /\ b.pc = a.pc /\ b.out = a.out
  <2> HIDE DEF a
  <2> QED BY <1>1, Fields DEF Providers
<1>4. e \in LlmCall /\ e.pc = b.pc /\ e.out = b.out
  <2> HIDE DEF b
  <2> QED BY <1>3 DEF LlmCall
<1>5. NextProvider(c) = IF x.provider = "groq" THEN e ELSE f
  BY <1>0 DEF NextProvider, LlmCall
<1>6. x.out = "nothing"
  BY <1>0 DEF OutOK
<1> HIDE DEF a, b, e, f
<1> QED BY <1>1, <1>2, <1>3, <1>4, <1>5, <1>6 DEF OutOK

LEMMA AttemptFailedKeeps ==
  ASSUME ClientInv, NEW c \in LlmCalls, llmCall[c].pc \in {"wait", "run"}, AttemptFailed(c),
         active' = IF CallAt(c, "run") THEN Released ELSE active
  PROVE  ClientInv'
<1> DEFINE x == llmCall[c]
           p == x.provider
           y == [x EXCEPT !.pc = "backoff"]
<1>0. x \in LlmCall /\ OutOK(x) /\ p \in Providers /\ BreakerOK(breaker[p])
  BY DEF ClientInv, LlmTypeOK, LlmCall
<1>1. CASE x.attempt < Retries[p]
  <2>1. SetCall(c, y) /\ UNCHANGED breaker
    BY <1>1 DEF AttemptFailed, CallGoto
  <2>2. y \in LlmCall /\ y.pc = "backoff" /\ y.out = x.out
    BY <1>0, Fields DEF CallPcs
  <2>3. OutOK(y)
    BY <1>0, <2>2 DEF OutOK
  <2>4. breaker' \in [Providers -> Breaker] /\ \A q \in Providers : BreakerOK(breaker'[q])
    BY <1>0, <2>1, BreakersKept
  <2> HIDE DEF y
  <2> QED BY <2>1, <2>2, <2>3, <2>4, CallChanges
<1>2. CASE ~(x.attempt < Retries[p])
  <2>1. SetCall(c, NextProvider(c)) /\ SetBreaker(p, OnFailure(breaker[p]))
    BY <1>2 DEF AttemptFailed
  <2>2. breaker' \in [Providers -> Breaker] /\ \A q \in Providers : BreakerOK(breaker'[q])
    BY <1>0, <2>1, BreakersKept, BreakerOperations
  <2> QED BY <2>1, <2>2, NextProviderOK, CallChanges
<1> QED BY <1>1, <1>2

LEMMA CallStepKeeps ==
  ASSUME ClientInv, NEW c \in LlmCalls,
         StartCall(c) \/ StartStream(c) \/ CallAgain(c) \/ LlmCallStep(c)
  PROVE  ClientInv'
<1> DEFINE x == llmCall[c]
           p == x.provider
<1>0. x \in LlmCall /\ OutOK(x) /\ p \in Providers /\ BreakerOK(breaker[p])
  BY DEF ClientInv, LlmTypeOK, LlmCall
<1>a. ASSUME UNCHANGED breaker
      PROVE  breaker' \in [Providers -> Breaker] /\ \A q \in Providers : BreakerOK(breaker'[q])
  BY <1>0, <1>a, BreakersKept
<1>1. ASSUME NEW pc \in CallPcs, CallGoto(c, pc), pc # "run", ~CallAt(c, "run"),
             x.out # "nothing" => pc \in {"stream", "done", "failed"},
             UNCHANGED <<breaker, active>>
      PROVE  ClientInv'
  <2> DEFINE y == [x EXCEPT !.pc = pc]
  <2>1. SetCall(c, y)
    BY <1>1 DEF CallGoto
  <2>2. y \in LlmCall /\ y.pc = pc /\ y.out = x.out
    BY <1>0, Fields
  <2>3. OutOK(y)
    BY <1>0, <1>1, <2>2 DEF OutOK
  <2> HIDE DEF y
  <2> QED BY <1>1, <1>a, <2>1, <2>2, <2>3, CallChanges
<1>2. CASE StartCall(c) \/ StartStream(c) \/ StreamFails(c)
  <2>1. x.pc = "idle" => x.out = "nothing"
    BY <1>0 DEF OutOK
  <2> QED BY <1>1, <1>2, <2>1 DEF StartCall, StartStream, StreamFails, CallAt, CallPcs
<1>3. CASE CallAgain(c)
  <2>1. Fresh \in LlmCall /\ OutOK(Fresh) /\ Fresh.pc = "idle"
    BY DEF Fresh, LlmCall, CallPcs, Providers, OutOK
  <2>2. SetCall(c, Fresh) /\ UNCHANGED <<breaker, active>> /\ ~CallAt(c, "run")
    BY <1>3 DEF CallAgain, CallAt
  <2> QED BY <1>a, <2>1, <2>2, CallChanges
<1>4. CASE Delta(c)
  <2> DEFINE y == [x EXCEPT !.out = "part"]
  <2>1. SetCall(c, y) /\ UNCHANGED <<breaker, active>> /\ x.pc = "stream"
    BY <1>4 DEF Delta, CallAt
  <2>2. y \in LlmCall /\ y.pc = x.pc /\ y.out = "part"
    BY <1>0, Fields
  <2>3. OutOK(y)
    BY <2>1, <2>2 DEF OutOK
  <2> HIDE DEF y
  <2> QED BY <1>a, <2>1, <2>2, <2>3, CallChanges DEF CallAt
<1>5. CASE StreamEnds(c)
  <2> DEFINE o == IF x.out = "part" THEN "whole" ELSE x.out
             y == [x EXCEPT !.pc = "done"]
             z == [y EXCEPT !.out = o]
  <2>1. SetCall(c, z) /\ UNCHANGED <<breaker, active>> /\ x.pc = "stream"
    BY <1>0, <1>5 DEF StreamEnds, CallAt, LlmCall
  <2>2. y \in LlmCall /\ y.pc = "done"
    BY <1>0, Fields DEF CallPcs
  <2>3. o \in {"nothing", "part", "whole", "twice"} /\ o # "twice"
    BY <1>0 DEF LlmCall, OutOK
  <2> HIDE DEF y, o
  <2>4. z \in LlmCall /\ z.pc = "done" /\ z.out = o
    BY <2>2, <2>3, Fields
  <2>5. OutOK(z)
    BY <2>3, <2>4 DEF OutOK
  <2> HIDE DEF z
  <2> QED BY <1>a, <2>1, <2>4, <2>5, CallChanges DEF CallAt
<1>6. CASE Enter(c)
  <2> DEFINE b == Seen(breaker[p])
             y == [x EXCEPT !.pc = "wait"]
             z == [y EXCEPT !.attempt = 1]
  <2>1. /\ SetBreaker(p, b) /\ active' = active /\ x.pc = "admit"
        /\ SetCall(c, NextProvider(c)) \/ SetCall(c, z)
    BY <1>0, <1>6 DEF Enter, CallAt, LlmCall
  <2>2. y \in LlmCall /\ y.pc = "wait" /\ y.out = x.out
    BY <1>0, Fields DEF CallPcs
  <2>3. z \in LlmCall /\ z.pc = "wait" /\ z.out = x.out
    <3> HIDE DEF y
    <3> QED BY <2>2 DEF LlmCall
  <2>4. OutOK(z)
    BY <1>0, <2>1, <2>3 DEF OutOK
  <2> HIDE DEF b, y, z
  <2>5. BreakerOK(b)
    BY <1>0, BreakerOperations DEF b
  <2>6. breaker' \in [Providers -> Breaker] /\ \A q \in Providers : BreakerOK(breaker'[q])
    BY <1>0, <2>1, <2>5, BreakersKept
  <2> QED BY <2>1, <2>3, <2>4, <2>6, NextProviderOK, CallChanges DEF CallAt
<1>7. CASE Acquire(c)
  <2> DEFINE y == [x EXCEPT !.pc = "run"]
  <2>1. /\ SetCall(c, y) /\ UNCHANGED breaker /\ x.pc = "wait"
        /\ active < SemaphoreSize /\ active' = active + 1
    BY <1>7 DEF Acquire, CallAt, CallGoto
  <2>2. y \in LlmCall /\ y.pc = "run" /\ y.out = x.out
    BY <1>0, Fields DEF CallPcs
  <2>3. OutOK(y)
    BY <1>0, <2>1, <2>2 DEF OutOK
  <2> HIDE DEF y
  <2> QED BY <1>a, <2>1, <2>2, <2>3, CallChanges DEF CallAt
<1>8. CASE AbortedWaiting(c) \/ AttemptFails(c)
  BY <1>8, AttemptFailedKeeps DEF AbortedWaiting, AttemptFails, CallAt
<1>9. CASE NotConfigured(c)
  <2>1. /\ SetCall(c, NextProvider(c)) /\ SetBreaker(p, OnFailure(breaker[p]))
        /\ active' = active /\ x.pc = "wait"
    BY <1>9 DEF NotConfigured, CallAt
  <2>2. breaker' \in [Providers -> Breaker] /\ \A q \in Providers : BreakerOK(breaker'[q])
    BY <1>0, <2>1, BreakersKept, BreakerOperations
  <2> QED BY <2>1, <2>2, NextProviderOK, CallChanges DEF CallAt
<1>10. CASE Succeeds(c)
  <2> DEFINE o == Streams(c, "whole")
             y == [x EXCEPT !.pc = "done"]
             z == [y EXCEPT !.out = o]
  <2>1. /\ SetCall(c, z) /\ SetBreaker(p, OnSuccess(breaker[p]))
        /\ active' = Released /\ x.pc = "run"
    BY <1>0, <1>10 DEF Succeeds, CallAt, LlmCall
  <2>2. y \in LlmCall /\ y.pc = "done"
    BY <1>0, Fields DEF CallPcs
  <2>3. o = "whole"
    BY <1>0, <2>1 DEF Streams, OutOK
  <2> HIDE DEF y, o
  <2>4. z \in LlmCall /\ z.pc = "done" /\ z.out = o
    BY <2>2, <2>3 DEF LlmCall
  <2>5. OutOK(z)
    BY <2>3, <2>4 DEF OutOK
  <2>6. breaker' \in [Providers -> Breaker] /\ \A q \in Providers : BreakerOK(breaker'[q])
    BY <1>0, <2>1, BreakersKept, BreakerOperations
  <2> HIDE DEF z
  <2> QED BY <2>1, <2>4, <2>5, <2>6, CallChanges DEF CallAt
<1>11. CASE BackoffOver(c)
  <2> DEFINE n == x.attempt + 1
             y == [x EXCEPT !.pc = "wait"]
             z == [y EXCEPT !.attempt = n]
  <2>1. SetCall(c, z) /\ UNCHANGED <<breaker, active>> /\ x.pc = "backoff"
    BY <1>0, <1>11 DEF BackoffOver, CallAt, LlmCall
  <2>2. y \in LlmCall /\ y.pc = "wait" /\ y.out = x.out
    BY <1>0, Fields DEF CallPcs
  <2>3. n \in Nat \ {0}
    BY <1>0 DEF LlmCall
  <2> HIDE DEF n, y
  <2>4. z \in LlmCall /\ z.pc = "wait" /\ z.out = x.out
    BY <2>2, <2>3 DEF LlmCall
  <2>5. OutOK(z)
    BY <1>0, <2>1, <2>4 DEF OutOK
  <2> HIDE DEF z
  <2> QED BY <1>a, <2>1, <2>4, <2>5, CallChanges DEF CallAt
<1> QED
  BY <1>2, <1>3, <1>4, <1>5, <1>6, <1>7, <1>8, <1>9, <1>10, <1>11 DEF LlmCallStep

LEMMA ClockKeeps ==
  ASSUME ClientInv, ClockTicks
  PROVE  ClientInv'
<1>0. ResetTicks \in Nat \ {0} /\ breaker \in [Providers -> Breaker]
  BY LlmAssumption DEF ClientInv, LlmTypeOK
<1>1. ASSUME NEW q \in Providers PROVE BreakerOK(breaker'[q])
  <2>0. BreakerOK(breaker[q]) /\ breaker[q].since \in Int
    BY <1>0 DEF ClientInv, BreakerOK, Breaker
  <2>1. CASE breaker[q].since \in 0..(ResetTicks - 1)
    <3> DEFINE b == breaker[q]
               y == [b EXCEPT !.since = b.since + 1]
    <3>1. breaker'[q] = y
      BY <2>1 DEF ClockTicks
    <3>2. b.since + 1 \in -1..ResetTicks /\ b.since # ResetTicks /\ b.since # -1 /\ b.since + 1 # -1
      BY <1>0, <2>1
    <3>3. y \in Breaker /\ y.state = b.state /\ y.failures = b.failures /\ y.since = b.since + 1
      BY <1>0, <2>0, <3>2 DEF BreakerOK, Breaker
    <3> HIDE DEF y
    <3> QED BY <2>0, <3>1, <3>2, <3>3 DEF BreakerOK
  <2>2. CASE breaker[q].since \notin 0..(ResetTicks - 1)
    BY <2>0, <2>2 DEF ClockTicks
  <2> QED BY <2>1, <2>2
<1>2. breaker' \in [Providers -> Breaker]
  BY <1>1 DEF ClockTicks, BreakerOK
<1>3. UNCHANGED <<active, llmCall>>
  BY DEF ClockTicks
<1> QED BY <1>1, <1>2, <1>3 DEF ClientInv, LlmTypeOK, SemaphoreIsExact, CallAt

LEMMA ClientStep == ClientInv /\ [LlmNext]_llmVars => ClientInv'
<1>1. ClientInv /\ UNCHANGED llmVars => ClientInv'
  BY DEF ClientInv, LlmTypeOK, SemaphoreIsExact, CallAt, llmVars
<1> QED BY <1>1, CallStepKeeps, ClockKeeps DEF LlmNext

LEMMA ClientInit == LlmInit => ClientInv
<1> SUFFICES ASSUME LlmInit PROVE ClientInv
  OBVIOUS
<1>0. Threshold \in Nat \ {0} /\ ResetTicks \in Nat \ {0} /\ SemaphoreSize \in Nat \ {0}
  BY LlmAssumption
<1>1. BreakerOK(ClosedBreaker)
  BY <1>0 DEF BreakerOK, ClosedBreaker, Breaker
<1>2. Fresh \in LlmCall /\ OutOK(Fresh) /\ Fresh.pc = "idle"
  BY DEF Fresh, LlmCall, CallPcs, Providers, OutOK
<1>3. {c \in LlmCalls : CallAt(c, "run")} = {}
  BY <1>2 DEF LlmInit, CallAt
<1>4. SemaphoreIsExact
  BY <1>0, <1>3, FS_EmptySet DEF LlmInit, SemaphoreIsExact
<1>5. LlmTypeOK
  BY <1>1, <1>2 DEF LlmInit, LlmTypeOK, BreakerOK
<1> QED BY <1>1, <1>2, <1>4, <1>5 DEF ClientInv, LlmInit

\* Failures, aborts, timeouts and retries in any order leave the semaphore with
\* as many places taken as there are requests under way; the breakers' fields
\* agree however late a result comes in; and streamed text is never followed by
\* the whole answer again.
THEOREM ClientIsSound == LlmSpec => []LlmInv
<1>1. ClientInv => LlmInv
  BY DEF ClientInv, LlmInv, BreakersAgree, NeverTwice, BreakerOK, OutOK
<1> QED
  BY <1>1, ClientInit, ClientStep, PTL DEF LlmSpec
-----------------------------------------------------------------------------
(* Administrators *)

\* What a page of the table may be changed to.
LEMMA TableChanges ==
  ASSUME NEW x \in Table, NEW roles \in [KnownUsers -> Roles], NEW bar \in SUBSET KnownUsers,
         NEW target \in SUBSET KnownUsers
  PROVE  /\ [x EXCEPT !.knowsMe = TRUE] \in Table
         /\ [x EXCEPT !.target = target] \in Table
         /\ [x EXCEPT !.roles = roles, !.blocked = bar] \in Table
         /\ [x EXCEPT !.open = TRUE, !.roles = roles, !.blocked = bar] \in Table
<1> DEFINE R == [KnownUsers -> Roles]
           S == SUBSET KnownUsers
<1>1. Table = [open : BOOLEAN, knowsMe : BOOLEAN, roles : R, blocked : S, target : S]
  BY DEF Table
<1>2. roles \in R /\ bar \in S /\ target \in S
  OBVIOUS
<1> HIDE DEF R, S
<1>3. x \in [open : BOOLEAN, knowsMe : BOOLEAN, roles : R, blocked : S, target : S]
  BY <1>1
<1>4. /\ [x EXCEPT !.knowsMe = TRUE] \in Table
      /\ [x EXCEPT !.target = target] \in Table
  BY <1>1, <1>2, <1>3
<1>5. [x EXCEPT !.roles = roles, !.blocked = bar] \in Table
  BY <1>1, <1>2, <1>3
<1>6. [x EXCEPT !.open = TRUE, !.roles = roles, !.blocked = bar] \in Table
  BY <1>1, <1>2, <1>3
<1> QED BY <1>4, <1>5, <1>6

LEMMA AdminTypes == AdminTypeOK /\ [AdminNext]_adminVars => AdminTypeOK'
<1> SUFFICES ASSUME AdminTypeOK, [AdminNext]_adminVars PROVE AdminTypeOK'
  OBVIOUS
<1>0. /\ role \in [KnownUsers -> Roles] /\ blockedUsers \subseteq KnownUsers
      /\ table \in [KnownUsers -> Table] /\ mutation \in [KnownUsers -> Mutation]
      /\ lateWrite \in BOOLEAN
  BY DEF AdminTypeOK
<1>1. NoMutation \in Mutation
  BY AdminUsersAssumption DEF NoMutation, Mutation, Roles
<1>2. CASE UNCHANGED adminVars
  BY <1>2 DEF adminVars, AdminTypeOK
<1>3. ASSUME NEW a \in KnownUsers, NEW new \in Table, SetTable(a, new),
             UNCHANGED mutation, UNCHANGED AccountRows
      PROVE  AdminTypeOK'
  BY <1>0, <1>3 DEF AdminTypeOK, SetTable, AccountRows
<1>4. ASSUME NEW a \in KnownUsers, NEW new \in Mutation, SetMutation(a, new),
             table' \in [KnownUsers -> Table], UNCHANGED AccountRows
      PROVE  AdminTypeOK'
  BY <1>0, <1>4 DEF AdminTypeOK, SetMutation, AccountRows
<1>5. ASSUME NEW a \in KnownUsers, LoadUsers(a) \/ SessionLoads(a) PROVE AdminTypeOK'
  <2> DEFINE open == [table[a] EXCEPT !.open = TRUE, !.roles = role, !.blocked = blockedUsers]
             known == [table[a] EXCEPT !.knowsMe = TRUE]
  <2>1. open \in Table /\ known \in Table
    BY <1>0, TableChanges
  <2> QED BY <1>3, <1>5, <2>1 DEF LoadUsers, SessionLoads
<1>6. ASSUME NEW a \in KnownUsers, NEW u \in KnownUsers,
             ClickRole(a, u) \/ ClickUnblock(a, u)
      PROVE  AdminTypeOK'
  <2> DEFINE inFlight == [pc |-> "sent", op |-> "role", target |-> u, block |-> FALSE,
                          role |-> IF table[a].roles[u] = "ADMIN" THEN "USER" ELSE "ADMIN"]
  <2>1. inFlight \in Mutation /\ Blocking(u, FALSE) \in Mutation
    BY DEF Mutation, Roles, Blocking
  <2> QED BY <1>0, <1>4, <1>6, <2>1 DEF ClickRole, ClickUnblock
<1>7. ASSUME NEW a \in KnownUsers, NEW u \in KnownUsers, ClickBlock(a, u) PROVE AdminTypeOK'
  <2>1. [table[a] EXCEPT !.target = {u}] \in Table
    BY <1>0, TableChanges
  <2> QED BY <1>3, <1>7, <2>1 DEF ClickBlock
<1>8. ASSUME NEW a \in KnownUsers, NEW u \in KnownUsers, NEW confirmed \in BOOLEAN,
             AnswerDialog(a, u, confirmed)
      PROVE  AdminTypeOK'
  <2>1. [table[a] EXCEPT !.target = {}] \in Table /\ Blocking(u, TRUE) \in Mutation
    BY <1>0, TableChanges DEF Mutation, Roles, Blocking
  <2>2. table' \in [KnownUsers -> Table] /\ UNCHANGED AccountRows
    BY <1>0, <1>8, <2>1 DEF AnswerDialog, SetTable
  <2>3. CASE confirmed
    BY <1>4, <1>8, <2>1, <2>2, <2>3 DEF AnswerDialog
  <2>4. CASE ~confirmed
    BY <1>3, <1>8, <2>1, <2>4 DEF AnswerDialog
  <2> QED BY <2>3, <2>4
<1>9. ASSUME NEW a \in KnownUsers, AdmitAdmin(a) \/ RefuseAdmin(a) PROVE AdminTypeOK'
  <2> DEFINE new == IF ActiveAdmin(a) THEN [mutation[a] EXCEPT !.pc = "admitted"] ELSE NoMutation
  <2>1. new \in Mutation
    BY <1>0, <1>1 DEF Mutation
  <2> QED BY <1>0, <1>1, <1>4, <1>9, <2>1 DEF AdmitAdmin, RefuseAdmin
<1>10. ASSUME NEW a \in KnownUsers, UpdateUser(a) PROVE AdminTypeOK'
  <2>1. [NoMutation EXCEPT !.pc = "replied"] \in Mutation
    BY <1>1 DEF Mutation
  <2>2. mutation' \in [KnownUsers -> Mutation] /\ table' = table
    BY <1>0, <1>10, <2>1 DEF UpdateUser, SetMutation
  <2>3. mutation[a].target \in KnownUsers /\ mutation[a].role \in Roles
    BY <1>0 DEF Mutation
  <2>4. role' \in [KnownUsers -> Roles] /\ blockedUsers' \subseteq KnownUsers
    BY <1>0, <1>10, <2>3 DEF UpdateUser, WriteUser
  <2> QED BY <1>0, <1>10, <2>2, <2>4 DEF UpdateUser, AdminTypeOK
<1>11. ASSUME NEW a \in KnownUsers, Replied(a) PROVE AdminTypeOK'
  <2> DEFINE new == [table[a] EXCEPT !.roles = role, !.blocked = blockedUsers]
  <2>1. new \in Table
    BY <1>0, TableChanges
  <2>2. table' \in [KnownUsers -> Table]
    BY <1>0, <1>11, <2>1 DEF Replied, SetTable
  <2> QED BY <1>1, <1>4, <1>11, <2>2 DEF Replied
<1> QED
  BY <1>2, <1>5, <1>6, <1>7, <1>8, <1>9, <1>10, <1>11 DEF AdminNext

\* Only UpdateUser writes rows, never the actor's own; so the actor is still an
\* active administrator afterwards, or was none any more.
LEMMA AdminStays == AdminTypeOK /\ AdminRemains /\ [AdminNext]_adminVars => AdminRemains'
<1> SUFFICES ASSUME AdminTypeOK, AdminRemains, [AdminNext]_adminVars PROVE AdminRemains'
  OBVIOUS
<1>1. ASSUME UNCHANGED AccountRows PROVE AdminRemains'
  BY <1>1 DEF AdminRemains, AccountRows, ActiveAdmin
<1>2. ASSUME NEW a \in KnownUsers, UpdateUser(a) PROVE AdminRemains'
  <2>1. mutation[a].target # a /\ role \in [KnownUsers -> Roles]
    BY <1>2 DEF UpdateUser, RequireOtherUser, AdminTypeOK
  <2>2. role'[a] = role[a] /\ (a \in blockedUsers' <=> a \in blockedUsers)
    BY <1>2, <2>1 DEF UpdateUser, WriteUser
  <2>3. CASE ActiveAdmin(a)
    BY <2>2, <2>3 DEF AdminRemains, ActiveAdmin
  <2>4. CASE ~ActiveAdmin(a)
    BY <1>2, <2>4 DEF AdminRemains, UpdateUser
  <2> QED BY <2>3, <2>4
<1>3. CASE UNCHANGED adminVars
  BY <1>1, <1>3 DEF adminVars, AccountRows
<1>4. ASSUME NEW a \in KnownUsers, NEW u \in KnownUsers, NEW confirmed \in BOOLEAN,
             \/ LoadUsers(a) \/ SessionLoads(a) \/ ClickRole(a, u) \/ ClickUnblock(a, u)
             \/ ClickBlock(a, u) \/ AnswerDialog(a, u, confirmed)
             \/ AdmitAdmin(a) \/ RefuseAdmin(a) \/ Replied(a)
      PROVE  AdminRemains'
  BY <1>1, <1>4 DEF LoadUsers, SessionLoads, ClickRole, ClickUnblock, ClickBlock, AnswerDialog,
                    AdmitAdmin, RefuseAdmin, Replied
<1> QED
  BY <1>2, <1>3, <1>4 DEF AdminNext

LEMMA AdminBegins == AdminInit => AdminTypeOK /\ AdminRemains
<1> SUFFICES ASSUME AdminInit PROVE AdminTypeOK /\ AdminRemains
  OBVIOUS
<1>1. NoMutation \in Mutation /\ ClosedTable \in Table
  BY AdminUsersAssumption DEF NoMutation, Mutation, Roles, ClosedTable, Table
<1> QED BY <1>1 DEF AdminInit, AdminTypeOK, AdminRemains, ActiveAdmin

\* Whatever administrators do to each other, an active one remains, unless an update
\* was written for one who had lost the right after it was admitted (admin router:
\* requireOtherUser).
THEOREM SomeAdminRemains == AdminSpec => []AdminUsersInv
<1>1. AdminInit => AdminTypeOK /\ AdminRemains
  BY AdminBegins
<1> QED
  BY <1>1, AdminTypes, AdminStays, PTL DEF AdminSpec, AdminUsersInv

-----------------------------------------------------------------------------
(* The memory of a conversation *)

\* A memory that was loaded, with no other turn at work, rests on the summary that
\* is saved.
RestsOn(r) ==
  /\ r.pc \in {"answer", "summarise"} => r.rolling = summary
  /\ r.pc = "save" => Extends(r.rolling, summary)

MemoryInv ==
  /\ MemoryTypeOK
  /\ \A t \in MemoryTurns :
       /\ ~TurnAt(t, "idle") => memoryTurn[t].n \in 1..MaxAsked
       /\ TurnAt(t, "summarise") => Len(memoryTurn[t].oldest) = 2
  /\ ~excused =>
       /\ \A t, u \in MemoryTurns : ~TurnAt(t, "idle") /\ ~TurnAt(u, "idle") => t = u
       /\ \A t \in MemoryTurns : RestsOn(memoryTurn[t])

LEMMA ExtendsItself ==
  ASSUME NEW s \in Seq(Pair)
  PROVE  Extends(s, s)
<1>1. Len(s) \in Nat /\ SubSeq(s, 1, Len(s)) = s
  BY LenProperties, SubSeqFull
<1> QED BY <1>1 DEF Extends

LEMMA ExtendsByOne ==
  ASSUME NEW s \in Seq(Pair), NEW p \in Pair
  PROVE  Extends(Append(s, p), s)
<1> DEFINE longer == Append(s, p)
<1>1. /\ longer \in Seq(Pair) /\ Len(longer) = Len(s) + 1 /\ Len(s) \in Nat
      /\ \A i \in 1..Len(s) : longer[i] = s[i]
  BY AppendProperties, LenProperties
<1> HIDE DEF longer
<1>2. \A i \in 1..Len(s) : longer[i] \in Pair
  BY <1>1, ElementOfSeq
<1> DEFINE head == SubSeq(longer, 1, Len(s))
<1>3. /\ head \in Seq(Pair)
      /\ Len(head) = IF 1 <= Len(s) THEN Len(s) - 1 + 1 ELSE 0
      /\ \A i \in 1..(Len(s) - 1 + 1) : head[i] = longer[1 + i - 1]
  BY <1>1, <1>2, SubSeqProperties
<1> HIDE DEF head
<1>4. Len(head) = Len(s) /\ \A i \in 1..Len(s) : head[i] = s[i]
  <2>1. Len(s) - 1 + 1 = Len(s) /\ \A i \in 1..Len(s) : 1 + i - 1 = i
    BY <1>1
  <2> QED BY <1>1, <1>3, <2>1
<1>5. head = s
  BY <1>3, <1>4, SeqEqual
<1> QED BY <1>1, <1>5 DEF Extends, longer, head

\* A turn is now at new, and what it needs for that is so.
LEMMA TurnKeeps ==
  ASSUME MemoryInv, NEW t \in MemoryTurns, NEW new \in MemoryTurn, SetTurn(t, new),
         messages' \in Seq(MemoryMessage), summary' \in Seq(Pair), asked' \in 0..MaxAsked,
         excused' \in BOOLEAN,
         new.pc # "idle" => new.n \in 1..MaxAsked,
         new.pc = "summarise" => Len(new.oldest) = 2,
         ~excused' =>
           /\ ~excused
           /\ new.pc \in {"answer", "summarise"} => new.rolling = summary'
           /\ new.pc = "save" => Extends(new.rolling, summary')
           /\ new.pc # "idle" => memoryTurn[t].pc # "idle" \/ \A u \in MemoryTurns : TurnAt(u, "idle")
           /\ summary' = summary \/ memoryTurn[t].pc # "idle"
  PROVE  MemoryInv'
<1>0. /\ memoryTurn \in [MemoryTurns -> MemoryTurn]
      /\ memoryTurn' \in [MemoryTurns -> MemoryTurn] /\ memoryTurn'[t] = new
      /\ \A u \in MemoryTurns \ {t} : memoryTurn'[u] = memoryTurn[u]
  BY DEF MemoryInv, MemoryTypeOK, SetTurn
<1>1. MemoryTypeOK'
  BY <1>0 DEF MemoryTypeOK
<1>2. ASSUME NEW u \in MemoryTurns
      PROVE  /\ ~TurnAt(u, "idle")' => memoryTurn'[u].n \in 1..MaxAsked
             /\ TurnAt(u, "summarise")' => Len(memoryTurn'[u].oldest) = 2
  <2>1. CASE u = t
    BY <1>0, <2>1 DEF TurnAt
  <2>2. CASE u # t
    BY <1>0, <2>2 DEF MemoryInv, TurnAt
  <2> QED BY <2>1, <2>2
<1>3. ASSUME ~excused', NEW u \in MemoryTurns, NEW v \in MemoryTurns,
             memoryTurn'[u].pc # "idle", memoryTurn'[v].pc # "idle"
      PROVE  u = v
  <2>1. \A x, y \in MemoryTurns : memoryTurn[x].pc # "idle" /\ memoryTurn[y].pc # "idle" => x = y
    BY <1>3 DEF MemoryInv, TurnAt
  <2>2. new.pc # "idle" => memoryTurn[t].pc # "idle" \/ \A x \in MemoryTurns : memoryTurn[x].pc = "idle"
    BY <1>3 DEF TurnAt
  <2>3. CASE u = t
    BY <1>0, <1>3, <2>1, <2>2, <2>3
  <2>4. CASE v = t
    BY <1>0, <1>3, <2>1, <2>2, <2>4
  <2>5. CASE u # t /\ v # t
    BY <1>0, <1>3, <2>1, <2>5
  <2> QED BY <2>3, <2>4, <2>5
<1>4. ASSUME ~excused', NEW u \in MemoryTurns
      PROVE  /\ memoryTurn'[u].pc \in {"answer", "summarise"} => memoryTurn'[u].rolling = summary'
             /\ memoryTurn'[u].pc = "save" => Extends(memoryTurn'[u].rolling, summary')
  <2>1. CASE u = t
    BY <1>0, <1>4, <2>1
  <2>2. CASE u # t
    <3>1. ~excused /\ RestsOn(memoryTurn[u]) /\ (memoryTurn[t].pc # "idle" => memoryTurn[u].pc = "idle")
      BY <1>4, <2>2 DEF MemoryInv, TurnAt
    <3>2. CASE summary' = summary
      BY <1>0, <2>2, <3>1, <3>2 DEF RestsOn
    <3>3. CASE memoryTurn[t].pc # "idle"
      BY <1>0, <2>2, <3>1, <3>3
    <3> QED BY <1>4, <3>2, <3>3
  <2> QED BY <2>1, <2>2
<1>5. ~excused' => \A u \in MemoryTurns : RestsOn(memoryTurn[u])'
  BY <1>4 DEF RestsOn
<1>6. ~excused' => \A u, v \in MemoryTurns : ~TurnAt(u, "idle")' /\ ~TurnAt(v, "idle")' => u = v
  BY <1>3 DEF TurnAt
<1> QED
  BY <1>1, <1>2, <1>5, <1>6 DEF MemoryInv

\* One step of a turn.
MemoryTurnStep(t) ==
  \/ AskPrompt(t) \/ EndWithoutAnswer(t) \/ Load(t) \/ LoadFails(t) \/ AddTurn(t)
  \/ \E good \in BOOLEAN : Summarise(t, good) \/ SaveSummary(t, good)
  \/ StoreAnswer(t)

LEMMA TurnStepKeeps ==
  ASSUME MemoryInv, NEW t \in MemoryTurns, MemoryTurnStep(t)
  PROVE  MemoryInv' /\ (excused' \/ Extends(summary', summary))
<1> DEFINE r == memoryTurn[t]
<1>0. /\ messages \in Seq(MemoryMessage) /\ summary \in Seq(Pair) /\ r \in MemoryTurn
      /\ asked \in 0..MaxAsked /\ excused \in BOOLEAN /\ MaxAsked \in Nat /\ MaxVerbatim \in Nat \ {0}
      /\ r.pc # "idle" => r.n \in 1..MaxAsked
      /\ r.pc = "summarise" => Len(r.oldest) = 2
      /\ ~excused => RestsOn(r)
  BY MemoryAssumption DEF MemoryInv, MemoryTypeOK, TurnAt
<1>1. /\ r.n \in 0..MaxAsked /\ r.buffer \in Seq(MemoryMessage) /\ r.rolling \in Seq(Pair)
      /\ r.oldest \in Seq(MemoryMessage) /\ r.pc \in MemoryPcs
  BY <1>0 DEF MemoryTurn
<1>2. Extends(summary, summary)
  BY <1>0, ExtendsItself
<1>3. /\ NoTurn \in MemoryTurn /\ NoTurn.pc = "idle"
  <2>1. <<>> \in Seq(MemoryMessage) /\ <<>> \in Seq(Pair)
    BY EmptySeq
  <2> QED BY <1>0, <2>1 DEF NoTurn, MemoryTurn, MemoryPcs
<1> HIDE DEF r
<1>4. ASSUME NEW s \in Seq(MemoryMessage), NEW n \in {"user", "assistant"} \X (1..MaxAsked)
      PROVE  Append(s, n) \in Seq(MemoryMessage)
  BY <1>4, AppendProperties DEF MemoryMessage
<1>5. CASE AskPrompt(t)
  <2> DEFINE new == [NoTurn EXCEPT !.pc = "load", !.n = asked + 1]
  <2>1. /\ r.pc = "idle" /\ asked < MaxAsked /\ asked' = asked + 1
        /\ messages' = Append(messages, <<"user", asked + 1>>) /\ summary' = summary
        /\ SetTurn(t, new)
        /\ excused' = (excused \/ \E u \in MemoryTurns : ~TurnAt(u, "idle"))
    BY <1>5 DEF AskPrompt, TurnAt, r
  <2>2. asked + 1 \in 1..MaxAsked /\ asked' \in 0..MaxAsked
    BY <1>0, <2>1
  <2>3. new \in MemoryTurn /\ new.pc = "load" /\ new.n = asked + 1
    <3>1. asked + 1 \in 0..MaxAsked
      BY <1>0, <2>2
    <3> QED BY <1>3, <3>1 DEF MemoryTurn, MemoryPcs
  <2>4. messages' \in Seq(MemoryMessage)
    BY <1>0, <1>4, <2>1, <2>2
  <2> HIDE DEF new
  <2> QED BY <1>0, <1>2, <2>1, <2>2, <2>3, <2>4, TurnKeeps
<1>6. CASE EndWithoutAnswer(t)
  BY <1>0, <1>2, <1>3, <1>6, TurnKeeps DEF EndWithoutAnswer
<1>7. CASE Load(t)
  <2> DEFINE first == First(MaxVerbatim, messages)
             new == [r EXCEPT !.pc = "answer", !.rolling = summary, !.buffer = first]
  <2>1. r.pc = "load" /\ SetTurn(t, new) /\ UNCHANGED <<messages, summary, asked, excused>>
    BY <1>7 DEF Load, TurnAt, r
  <2>2. first \in Seq(MemoryMessage)
    <3>1. Len(messages) \in Nat /\ \A i \in 1..Len(messages) : messages[i] \in MemoryMessage
      BY <1>0, LenProperties, ElementOfSeq
    <3> DEFINE upTo == IF Len(messages) < MaxVerbatim THEN Len(messages) ELSE MaxVerbatim
    <3>2. upTo \in Int /\ \A i \in 1..upTo : messages[i] \in MemoryMessage
      BY <1>0, <3>1
    <3> HIDE DEF upTo
    <3>3. SubSeq(messages, 1, upTo) \in Seq(MemoryMessage)
      BY <3>2, SubSeqProperties
    <3> QED BY <3>3 DEF First, upTo
  <2> HIDE DEF first
  <2>3. new \in MemoryTurn /\ new.pc = "answer" /\ new.rolling = summary /\ new.n = r.n
    BY <1>0, <2>2 DEF MemoryTurn, MemoryPcs
  <2> HIDE DEF new
  <2>4. memoryTurn[t].pc # "idle" /\ r.pc # "idle"
    BY <2>1 DEF r
  <2> QED BY <1>0, <1>2, <2>1, <2>3, <2>4, TurnKeeps
<1>8. CASE LoadFails(t)
  <2> DEFINE new == [r EXCEPT !.pc = "answer"]
  <2>1. r.pc = "load" /\ SetTurn(t, new) /\ excused' = TRUE /\ UNCHANGED <<messages, summary, asked>>
    BY <1>8 DEF LoadFails, TurnAt, r
  <2>2. new \in MemoryTurn /\ new.pc = "answer" /\ new.n = r.n
    BY <1>0 DEF MemoryTurn, MemoryPcs
  <2> HIDE DEF new
  <2> QED BY <1>0, <2>1, <2>2, TurnKeeps
<1>9. CASE AddTurn(t)
  <2> DEFINE pair == <<<<"user", r.n>>, <<"assistant", r.n>>>>
             added == r.buffer \o pair
             fold == [r EXCEPT !.pc = "summarise", !.oldest = SubSeq(added, 1, 2),
                               !.buffer = SubSeq(added, 3, Len(added))]
             keep == [r EXCEPT !.pc = "save", !.buffer = added]
  <2>1. /\ r.pc = "answer" /\ UNCHANGED <<messages, summary, asked, excused>>
        /\ SetTurn(t, IF Len(added) > MaxVerbatim THEN fold ELSE keep)
    BY <1>9 DEF AddTurn, TurnAt, r
  <2>2. pair \in Seq(MemoryMessage) /\ Len(pair) = 2
    <3>1. <<"user", r.n>> \in MemoryMessage /\ <<"assistant", r.n>> \in MemoryMessage
      BY <1>0, <2>1 DEF MemoryMessage
    <3> QED BY <3>1
  <2>3. added \in Seq(MemoryMessage) /\ Len(added) = Len(r.buffer) + 2 /\ Len(r.buffer) \in Nat
    BY <1>1, <2>2, ConcatProperties, LenProperties
  <2> HIDE DEF pair, added
  <2>4. \A i \in 1..Len(added) : added[i] \in MemoryMessage
    BY <2>3, ElementOfSeq
  <2>5. SubSeq(added, 1, 2) \in Seq(MemoryMessage) /\ Len(SubSeq(added, 1, 2)) = 2
    <3>1. \A i \in 1..2 : added[i] \in MemoryMessage
      BY <2>3, <2>4
    <3>2. /\ SubSeq(added, 1, 2) \in Seq(MemoryMessage)
          /\ Len(SubSeq(added, 1, 2)) = IF 1 <= 2 THEN 2 - 1 + 1 ELSE 0
      BY <3>1, SubSeqProperties
    <3> QED BY <3>2
  <2>6. SubSeq(added, 3, Len(added)) \in Seq(MemoryMessage)
    <3>1. \A i \in 3..Len(added) : added[i] \in MemoryMessage
      BY <2>3, <2>4
    <3> QED BY <2>3, <3>1, SubSeqProperties
  <2>7. /\ fold \in MemoryTurn /\ fold.pc = "summarise" /\ fold.rolling = r.rolling /\ fold.n = r.n
        /\ Len(fold.oldest) = 2
    BY <1>0, <2>5, <2>6 DEF MemoryTurn, MemoryPcs
  <2>8. keep \in MemoryTurn /\ keep.pc = "save" /\ keep.rolling = r.rolling /\ keep.n = r.n
    BY <1>0, <2>3 DEF MemoryTurn, MemoryPcs
  <2>9. ~excused => r.rolling = summary
    BY <1>0, <2>1 DEF RestsOn
  <2>10. memoryTurn[t].pc = "answer"
    BY <2>1 DEF r
  <2> HIDE DEF fold, keep
  <2>11. CASE Len(added) > MaxVerbatim
    BY <1>0, <1>2, <2>1, <2>7, <2>9, <2>10, <2>11, TurnKeeps
  <2>12. CASE ~(Len(added) > MaxVerbatim)
    <3>1. SetTurn(t, keep)
      BY <2>1, <2>12
    <3> QED BY <1>0, <1>2, <2>1, <2>8, <2>9, <2>10, <3>1, TurnKeeps
  <2> QED BY <2>11, <2>12
<1>10. ASSUME NEW good \in BOOLEAN, Summarise(t, good)
       PROVE  MemoryInv' /\ (excused' \/ Extends(summary', summary))
  <2> DEFINE pair == <<r.oldest[1], r.oldest[2]>>
             folded == IF good THEN Append(r.rolling, pair) ELSE r.rolling
             new == [r EXCEPT !.pc = "save", !.oldest = <<>>, !.rolling = folded]
  <2>1. r.pc = "summarise" /\ SetTurn(t, new) /\ UNCHANGED <<messages, summary, asked, excused>>
    BY <1>10 DEF Summarise, TurnAt, r
  <2>2. pair \in Pair
    BY <1>0, <1>1, <2>1, ElementOfSeq DEF Pair
  <2> HIDE DEF pair
  <2>3. folded \in Seq(Pair) /\ (r.rolling = summary => Extends(folded, summary))
    <3>1. CASE good
      BY <1>0, <1>1, <2>2, <3>1, AppendProperties, ExtendsByOne
    <3>2. CASE ~good
      BY <1>1, <1>2, <3>2
    <3> QED BY <3>1, <3>2
  <2> HIDE DEF folded
  <2>4. new \in MemoryTurn /\ new.pc = "save" /\ new.rolling = folded /\ new.n = r.n
    BY <1>0, <2>3, EmptySeq DEF MemoryTurn, MemoryPcs
  <2> HIDE DEF new
  <2>5. memoryTurn[t].pc = "summarise" /\ (~excused => Extends(new.rolling, summary))
    BY <1>0, <2>1, <2>3, <2>4 DEF RestsOn, r
  <2> QED BY <1>0, <1>2, <2>1, <2>4, <2>5, TurnKeeps
<1>11. ASSUME NEW good \in BOOLEAN, SaveSummary(t, good)
       PROVE  MemoryInv' /\ (excused' \/ Extends(summary', summary))
  <2> DEFINE new == [r EXCEPT !.pc = "store", !.buffer = <<>>, !.rolling = <<>>]
  <2>1. /\ r.pc = "save" /\ SetTurn(t, new) /\ UNCHANGED <<messages, asked, excused>>
        /\ summary' = IF good THEN r.rolling ELSE summary
    BY <1>11 DEF SaveSummary, TurnAt, r
  <2>2. new \in MemoryTurn /\ new.pc = "store" /\ new.n = r.n
    BY <1>0, EmptySeq DEF MemoryTurn, MemoryPcs
  <2> HIDE DEF new
  <2>3. summary' \in Seq(Pair) /\ memoryTurn[t].pc = "save"
    BY <1>0, <1>1, <2>1 DEF r
  <2>4. ~excused => Extends(summary', summary)
    BY <1>0, <1>2, <2>1 DEF RestsOn
  <2> QED BY <1>0, <2>1, <2>2, <2>3, <2>4, TurnKeeps
<1>12. CASE StoreAnswer(t)
  <2>1. /\ r.pc = "store" /\ SetTurn(t, NoTurn) /\ UNCHANGED <<summary, asked, excused>>
        /\ messages' = Append(messages, <<"assistant", r.n>>)
    BY <1>12 DEF StoreAnswer, TurnAt, r
  <2>2. messages' \in Seq(MemoryMessage)
    BY <1>0, <1>4, <2>1
  <2> QED BY <1>0, <1>2, <1>3, <2>1, <2>2, TurnKeeps
<1> QED
  BY <1>5, <1>6, <1>7, <1>8, <1>9, <1>10, <1>11, <1>12 DEF MemoryTurnStep

LEMMA MemoryStep ==
  MemoryInv /\ [MemoryNext]_memoryVars => MemoryInv' /\ (excused' \/ Extends(summary', summary))
<1> SUFFICES ASSUME MemoryInv, [MemoryNext]_memoryVars
             PROVE  MemoryInv' /\ (excused' \/ Extends(summary', summary))
  OBVIOUS
<1>1. ASSUME messages' \in Seq(MemoryMessage), UNCHANGED <<summary, memoryTurn, asked, excused>>
      PROVE  MemoryInv' /\ (excused' \/ Extends(summary', summary))
  <2>1. summary \in Seq(Pair)
    BY DEF MemoryInv, MemoryTypeOK
  <2> QED BY <1>1, <2>1, ExtendsItself DEF MemoryInv, MemoryTypeOK, RestsOn, TurnAt
<1>2. CASE UNCHANGED memoryVars
  BY <1>1, <1>2 DEF memoryVars, MemoryInv, MemoryTypeOK
<1>3. CASE ClearConversation
  BY <1>1, <1>3, EmptySeq DEF ClearConversation
<1>4. ASSUME NEW t \in MemoryTurns, MemoryTurnStep(t)
      PROVE  MemoryInv' /\ (excused' \/ Extends(summary', summary))
  BY <1>4, TurnStepKeeps
<1> QED
  BY <1>2, <1>3, <1>4 DEF MemoryNext, MemoryTurnStep

LEMMA MemoryBegins == MemoryInit => MemoryInv
<1> SUFFICES ASSUME MemoryInit PROVE MemoryInv
  OBVIOUS
<1>1. <<>> \in Seq(MemoryMessage) /\ <<>> \in Seq(Pair)
  BY EmptySeq
<1>2. NoTurn \in MemoryTurn /\ NoTurn.pc = "idle" /\ MaxAsked \in Nat
  BY <1>1, MemoryAssumption DEF NoTurn, MemoryTurn, MemoryPcs
<1>3. /\ messages = <<>> /\ summary = <<>> /\ asked = 0 /\ excused = FALSE
      /\ memoryTurn = [t \in MemoryTurns |-> NoTurn]
  BY DEF MemoryInit
<1>4. MemoryTypeOK
  <2>0. memoryTurn \in [MemoryTurns -> MemoryTurn]
    BY <1>2, <1>3
  <2>1. asked \in 0..MaxAsked
    BY <1>2, <1>3
  <2>2. excused \in BOOLEAN
    BY <1>3
  <2>3. messages \in Seq(MemoryMessage) /\ summary \in Seq(Pair)
    BY <1>1, <1>3
  <2> QED BY <2>0, <2>1, <2>2, <2>3 DEF MemoryTypeOK
<1>5. \A t \in MemoryTurns : TurnAt(t, "idle") /\ ~TurnAt(t, "summarise") /\ RestsOn(memoryTurn[t])
  BY <1>2, <1>3 DEF TurnAt, RestsOn
<1> QED BY <1>4, <1>5 DEF MemoryInv

\* What has been folded into a saved summary stays in it and a turn adds one pair at
\* most, whatever fails, unless turns of the conversation have overlapped or a memory
\* was not loaded (summary-buffer.ts: ensureLoaded, addTurn, saveToDb).
THEOREM SummariesGrow == MemorySpec => SummaryGrows
<1>1. MemoryInit => MemoryInv
  BY MemoryBegins
<1>2. MemoryInv /\ [MemoryNext]_memoryVars => [excused' \/ Extends(summary', summary)]_memoryVars
  BY MemoryStep
<1> QED
  BY <1>1, <1>2, MemoryStep, PTL DEF MemorySpec, SummaryGrows

-----------------------------------------------------------------------------
(* The window of the request limiter *)

\* Of indices there is a least one: the induction over finite sets, for beginnings
\* of the indices.
LEMMA LeastIndex ==
  ASSUME NEW n \in Nat, NEW I, I \subseteq 1..n, I # {}
  PROVE  \E m \in I : \A i \in I : m <= i
<1> DEFINE T == {1..i : i \in I}
<1>1. IsFiniteSet(1..n)
  BY FS_Interval
<1>2. T \subseteq SUBSET (1..n) /\ T # {}
  <2>1. ASSUME NEW i \in I PROVE 1..i \subseteq 1..n
    OBVIOUS
  <2>2. PICK i \in I : TRUE
    OBVIOUS
  <2>3. 1..i \in T
    OBVIOUS
  <2> QED BY <2>1, <2>3
<1>3. T \subseteq FiniteSubsetsOf(1..n)
  BY <1>1, <1>2, FS_Subset DEF FiniteSubsetsOf
<1>4. \E s \in T : \A k \in T : ~ (<<k, s>> \in StrictSubsetOrdering(1..n))
  <2> HIDE DEF T
  <2> QED BY <1>1, <1>2, <1>3, FS_StrictSubsetOrderingWellFounded, WFMin
<1>5. PICK s \in T : \A k \in T : k \subseteq s => k = s
  <2> HIDE DEF T
  <2> QED BY <1>2, <1>4 DEF StrictSubsetOrdering
<1>6. PICK m \in I : s = 1..m
  OBVIOUS
<1>7. ASSUME NEW i \in I, i < m PROVE FALSE
  <2>1. i \in Nat /\ m \in Nat /\ m \in 1..m /\ m \notin 1..i
    BY <1>7
  <2>2. 1..i \subseteq 1..m /\ 1..i \in T
    BY <1>7, <2>1
  <2> QED BY <1>5, <1>6, <2>1, <2>2
<1>8. \A i \in I : m <= i
  <2> SUFFICES ASSUME NEW i \in I PROVE m <= i
    OBVIOUS
  <2>1. i \in Int /\ m \in Int
    OBVIOUS
  <2> QED BY <1>7, <2>1
<1> QED BY <1>8

Times == 0..MaxClock
Ordered(a) == \A i, j \in 1..Len(a) : i <= j => a[i] <= a[j]

\* A window lies between a time and the one that many places later.
Spaced(a) ==
  \A i \in 1..Len(a) : i + MaxRequests <= Len(a) => a[i] + WindowSeconds <= a[i + MaxRequests]

LEMMA TimesTyped ==
  ASSUME NEW a \in Seq(Times)
  PROVE  Len(a) \in Nat /\ \A i \in 1..Len(a) : a[i] \in Int
BY LenProperties, ElementOfSeq, RateLimiterAssumption DEF Times

LEMMA WindowCount ==
  ASSUME NEW a \in Seq(Times), Ordered(a), Spaced(a), NEW from \in Int, NEW to \in Int,
         to < from + WindowSeconds
  PROVE  Cardinality({i \in 1..Len(a) : a[i] >= from /\ a[i] <= to}) <= MaxRequests
<1> DEFINE S == {i \in 1..Len(a) : a[i] >= from /\ a[i] <= to}
<1>1. /\ Len(a) \in Nat /\ \A i \in 1..Len(a) : a[i] \in Int
      /\ MaxRequests \in Nat \ {0} /\ WindowSeconds \in Nat \ {0}
  BY TimesTyped, RateLimiterAssumption
<1>2. S \subseteq 1..Len(a) /\ \A i \in S : a[i] >= from /\ a[i] <= to
  OBVIOUS
<1> HIDE DEF S
<1>3. CASE S = {}
  <2>1. Cardinality(S) = 0
    BY <1>3, FS_EmptySet
  <2>2. Cardinality(S) <= MaxRequests
    BY <1>1, <2>1
  <2> QED BY <2>2 DEF S
<1>4. CASE S # {}
  <2>1. PICK m \in S : \A i \in S : m <= i
    BY <1>1, <1>2, <1>4, LeastIndex
  <2> DEFINE R == m..(m + MaxRequests - 1)
  <2>2. \A i \in S : i \in R
    <3> SUFFICES ASSUME NEW i \in S, i >= m + MaxRequests PROVE FALSE
      BY <1>1, <1>2, <2>1
    <3>1. m \in 1..Len(a) /\ i \in 1..Len(a) /\ m + MaxRequests \in 1..Len(a)
      BY <1>1, <1>2
    <3>2. a[m] + WindowSeconds <= a[m + MaxRequests]
      BY <1>1, <3>1 DEF Spaced
    <3>3. a[m + MaxRequests] <= a[i]
      BY <1>1, <3>1 DEF Ordered
    <3>4. a[m] >= from /\ a[i] <= to
      BY <1>2
    <3>5. a[m] \in Int /\ a[i] \in Int /\ a[m + MaxRequests] \in Int
      BY <1>1, <3>1
    <3> QED BY <1>1, <3>2, <3>3, <3>4, <3>5
  <2>3. IsFiniteSet(R) /\ Cardinality(R) = MaxRequests
    <3>1. m \in Int /\ m + MaxRequests - 1 \in Int /\ ~(m > m + MaxRequests - 1)
      BY <1>1, <1>2
    <3>2. IsFiniteSet(R) /\ Cardinality(R) = (m + MaxRequests - 1) - m + 1
      BY <3>1, FS_Interval
    <3> QED BY <1>1, <3>1, <3>2
  <2> HIDE DEF R
  <2>4. S \subseteq R
    BY <2>2
  <2>5. Cardinality(S) <= Cardinality(R)
    BY <2>3, <2>4, FS_Subset
  <2> QED BY <2>3, <2>5 DEF S
<1> QED BY <1>3, <1>4

\* What is up to x in a list in order is a beginning of it.
LEMMA UpTo ==
  ASSUME NEW a \in Seq(Times), Ordered(a), NEW x \in Int
  PROVE  \E n \in 0..Len(a) :
           /\ Cardinality({i \in 1..Len(a) : a[i] <= x}) = n
           /\ \A i \in 1..n : a[i] <= x
           /\ \A i \in (n + 1)..Len(a) : a[i] > x
<1> DEFINE S == {i \in 1..Len(a) : a[i] <= x}
           O == {i \in 1..Len(a) : a[i] > x}
<1>1. Len(a) \in Nat /\ \A i \in 1..Len(a) : a[i] \in Int
  BY TimesTyped
<1>2. PICK n \in 0..Len(a) : \A i \in 1..Len(a) : a[i] <= x <=> i <= n
  <2>1. CASE O = {}
    <3>1. \A i \in 1..Len(a) : i \notin O
      BY <2>1
    <3>2. \A i \in 1..Len(a) : a[i] <= x <=> i <= Len(a)
      BY <1>1, <3>1
    <3>3. Len(a) \in 0..Len(a)
      BY <1>1
    <3> HIDE DEF O
    <3> QED BY <3>2, <3>3
  <2>2. CASE O # {}
    <3>1. PICK m \in O : \A i \in O : m <= i
      BY <1>1, <2>2, LeastIndex
    <3>2. m \in 1..Len(a) /\ a[m] > x /\ a[m] \in Int
      BY <1>1
    <3>3. ASSUME NEW i \in 1..Len(a) PROVE a[i] <= x <=> i <= m - 1
      <4>1. CASE i < m
        <5>1. i \notin O
          BY <1>1, <3>1, <3>2, <4>1
        <5> QED BY <1>1, <3>2, <4>1, <5>1
      <4>2. CASE i >= m
        <5>1. a[m] <= a[i]
          BY <1>1, <3>2, <4>2 DEF Ordered
        <5> QED BY <1>1, <3>2, <4>2, <5>1
      <4> QED BY <1>1, <3>2, <4>1, <4>2
    <3>4. m - 1 \in 0..Len(a)
      BY <1>1, <3>2
    <3> QED BY <3>3, <3>4
  <2> QED BY <2>1, <2>2
<1>3. S = 1..n
  BY <1>1, <1>2
<1>4. Cardinality(1..n) = n
  <2>1. n \in Nat
    BY <1>1
  <2>2. Cardinality(1..n) = IF 1 > n THEN 0 ELSE n - 1 + 1
    BY <2>1, FS_Interval
  <2> QED BY <2>1, <2>2
<1>5. (\A i \in 1..n : a[i] <= x) /\ \A i \in (n + 1)..Len(a) : a[i] > x
  BY <1>1, <1>2
<1> QED BY <1>3, <1>4, <1>5

\* b is a without its first k.
IsRest(b, a, k) ==
  /\ k \in 0..Len(a) /\ Len(b) = Len(a) - k
  /\ \A i \in 1..Len(b) : b[i] = a[k + i]

\* What a bucket lacks of the accepted times, no window that is still open counts.
Holds(b, a) ==
  \E k \in 0..Len(a) : IsRest(b, a, k) /\ \A i \in 1..k : a[i] <= clock - WindowSeconds

\* The times of the open window, and these only.
InWindow(b, a) ==
  \E k \in 0..Len(a) :
    /\ IsRest(b, a, k)
    /\ \A i \in 1..k : a[i] <= clock - WindowSeconds
    /\ \A i \in (k + 1)..Len(a) : a[i] > clock - WindowSeconds

LEMMA RecentTimes ==
  ASSUME clock \in Int, NEW a \in Seq(Times), Ordered(a), NEW b \in Seq(Times), Holds(b, a)
  PROVE  Recent(b) \in Seq(Times) /\ InWindow(Recent(b), a)
<1> DEFINE x == clock - WindowSeconds
<1>1. /\ Len(a) \in Nat /\ \A i \in 1..Len(a) : a[i] \in Int
      /\ Len(b) \in Nat /\ \A i \in 1..Len(b) : b[i] \in Int
      /\ x \in Int
  BY TimesTyped, RateLimiterAssumption
<1>2. PICK k \in 0..Len(a) : IsRest(b, a, k) /\ \A i \in 1..k : a[i] <= x
  BY DEF Holds
<1>3. Ordered(b)
  <2> SUFFICES ASSUME NEW i \in 1..Len(b), NEW j \in 1..Len(b), i <= j PROVE b[i] <= b[j]
    BY DEF Ordered
  <2>1. k + i \in 1..Len(a) /\ k + j \in 1..Len(a) /\ k + i <= k + j
    BY <1>1, <1>2 DEF IsRest
  <2>2. a[k + i] <= a[k + j]
    BY <2>1 DEF Ordered
  <2> QED BY <1>2, <2>2 DEF IsRest
<1>4. PICK n \in 0..Len(b) :
        /\ Cardinality({i \in 1..Len(b) : b[i] <= x}) = n
        /\ \A i \in 1..n : b[i] <= x
        /\ \A i \in (n + 1)..Len(b) : b[i] > x
  <2> HIDE DEF x
  <2> QED BY <1>1, <1>3, UpTo
<1> DEFINE c == SubSeq(b, n + 1, Len(b))
<1>5. Recent(b) = c
  BY <1>4 DEF Recent
<1>6. c \in Seq(Times) /\ Len(c) = Len(b) - n /\ \A i \in 1..Len(c) : c[i] = b[n + i]
  <2>1. n + 1 \in 1..(Len(b) + 1) /\ Len(b) \in n..Len(b)
    BY <1>1, <1>4
  <2>2. /\ c \in Seq(Times)
        /\ Len(c) = IF n + 1 <= Len(b) THEN Len(b) - (n + 1) + 1 ELSE 0
        /\ \A i \in 1..(Len(b) - (n + 1) + 1) : c[i] = b[(n + 1) + i - 1]
    BY <1>1, <2>1, SubSeqProperties
  <2>3. Len(c) = Len(b) - n /\ Len(b) - (n + 1) + 1 = Len(b) - n
    BY <1>1, <1>4, <2>2
  <2>4. ASSUME NEW i \in 1..Len(c) PROVE c[i] = b[n + i]
    <3>0. i \in Int /\ n \in Int
      BY <1>4
    <3>1. i \in 1..(Len(b) - (n + 1) + 1) /\ (n + 1) + i - 1 = n + i
      <4>1. i \in 1..(Len(b) - (n + 1) + 1)
        BY <2>3
      <4>2. (n + 1) + i - 1 = n + i
        BY <3>0
      <4> QED BY <4>1, <4>2
    <3> QED BY <2>2, <3>1
  <2> QED BY <2>2, <2>3, <2>4
<1> HIDE DEF c
<1>7. k + n \in 0..Len(a)
  BY <1>1, <1>2, <1>4 DEF IsRest
<1>8. IsRest(c, a, k + n)
  <2>1. Len(c) = Len(a) - (k + n)
    BY <1>1, <1>2, <1>6 DEF IsRest
  <2>2. ASSUME NEW i \in 1..Len(c) PROVE c[i] = a[(k + n) + i]
    <3>1. n + i \in 1..Len(b) /\ k + (n + i) = (k + n) + i
      BY <1>1, <1>2, <1>4, <1>6
    <3> QED BY <1>2, <1>6, <3>1 DEF IsRest
  <2> QED BY <1>7, <2>1, <2>2 DEF IsRest
<1>9. ASSUME NEW i \in 1..(k + n) PROVE a[i] <= x
  <2>1. CASE i <= k
    BY <1>2, <2>1
  <2>2. CASE i > k
    <3>1. i - k \in 1..n /\ i - k \in 1..Len(b) /\ k + (i - k) = i
      BY <1>1, <1>2, <1>4, <2>2
    <3> QED BY <1>2, <1>4, <3>1 DEF IsRest
  <2> QED BY <1>1, <1>2, <2>1, <2>2
<1>10. ASSUME NEW i \in (k + n + 1)..Len(a) PROVE a[i] > x
  <2>1. i - k \in (n + 1)..Len(b) /\ i - k \in 1..Len(b) /\ k + (i - k) = i
    BY <1>1, <1>2, <1>4 DEF IsRest
  <2> QED BY <1>2, <1>4, <2>1 DEF IsRest
<1> QED BY <1>5, <1>6, <1>7, <1>8, <1>9, <1>10 DEF InWindow

\* A bucket the sweep may take holds nothing of the open window.
LEMMA SweptTimes ==
  ASSUME clock \in Int, NEW a \in Seq(Times), Ordered(a), NEW b \in Seq(Times), Holds(b, a),
         b # <<>>, b[Len(b)] < clock - WindowSeconds
  PROVE  <<>> \in Seq(Times) /\ InWindow(<<>>, a)
<1>1. /\ Len(a) \in Nat /\ \A i \in 1..Len(a) : a[i] \in Int
      /\ Len(b) \in Nat /\ Len(b) # 0
      /\ clock - WindowSeconds \in Int
  BY TimesTyped, EmptySeq, RateLimiterAssumption
<1>2. PICK k \in 0..Len(a) : IsRest(b, a, k)
  BY DEF Holds
<1>3. Len(b) \in 1..Len(b) /\ k + Len(b) = Len(a) /\ Len(a) \in 1..Len(a)
  BY <1>1, <1>2 DEF IsRest
<1>4. a[Len(a)] < clock - WindowSeconds
  BY <1>2, <1>3 DEF IsRest
<1>5. ASSUME NEW i \in 1..Len(a) PROVE a[i] <= clock - WindowSeconds
  <2>1. a[i] <= a[Len(a)]
    BY <1>1, <1>3 DEF Ordered
  <2> QED BY <1>1, <1>3, <1>4, <2>1
<1>6. <<>> \in Seq(Times) /\ Len(<<>>) = 0
  BY EmptySeq
<1>7. IsRest(<<>>, a, Len(a)) /\ Len(a) \in 0..Len(a)
  BY <1>1, <1>6 DEF IsRest
<1>8. \A i \in (Len(a) + 1)..Len(a) : a[i] > clock - WindowSeconds
  BY <1>1
<1> QED BY <1>5, <1>6, <1>7, <1>8 DEF InWindow

\* One more time in a window that is not used up: the window moves on.
LEMMA AcceptedTimes ==
  ASSUME clock \in Times, NEW a \in Seq(Times), Ordered(a), Spaced(a),
         \A i \in 1..Len(a) : a[i] <= clock,
         NEW b \in Seq(Times), InWindow(b, a), Len(b) < MaxRequests
  PROVE  /\ Append(a, clock) \in Seq(Times) /\ Append(b, clock) \in Seq(Times)
         /\ Ordered(Append(a, clock)) /\ Spaced(Append(a, clock))
         /\ \A i \in 1..Len(Append(a, clock)) : Append(a, clock)[i] <= clock
         /\ Holds(Append(b, clock), Append(a, clock))
<1> DEFINE p == Append(a, clock)
           q == Append(b, clock)
<1>1. /\ Len(a) \in Nat /\ \A i \in 1..Len(a) : a[i] \in Int
      /\ Len(b) \in Nat
      /\ clock \in Int /\ MaxRequests \in Nat \ {0} /\ WindowSeconds \in Nat \ {0}
  BY TimesTyped, RateLimiterAssumption DEF Times
<1>2. /\ p \in Seq(Times) /\ Len(p) = Len(a) + 1
      /\ \A i \in 1..Len(a) : p[i] = a[i]
      /\ p[Len(a) + 1] = clock
  BY AppendProperties
<1>3. /\ q \in Seq(Times) /\ Len(q) = Len(b) + 1
      /\ \A i \in 1..Len(b) : q[i] = b[i]
      /\ q[Len(b) + 1] = clock
  BY AppendProperties
<1> HIDE DEF p, q
<1>4. PICK k \in 0..Len(a) : IsRest(b, a, k) /\ \A i \in 1..k : a[i] <= clock - WindowSeconds
  BY DEF InWindow
<1>5. \A i \in 1..Len(p) : p[i] <= clock /\ p[i] \in Int
  <2> SUFFICES ASSUME NEW i \in 1..Len(p) PROVE p[i] <= clock /\ p[i] \in Int
    OBVIOUS
  <2>1. i \in 1..Len(a) \/ i = Len(a) + 1
    BY <1>1, <1>2
  <2> QED BY <1>1, <1>2, <2>1
<1>6. Ordered(p)
  <2> SUFFICES ASSUME NEW i \in 1..Len(p), NEW j \in 1..Len(p), i <= j PROVE p[i] <= p[j]
    BY DEF Ordered
  <2>1. CASE j = Len(a) + 1
    BY <1>2, <1>5, <2>1
  <2>2. CASE j # Len(a) + 1
    <3>1. i \in 1..Len(a) /\ j \in 1..Len(a)
      BY <1>1, <1>2, <2>2
    <3> QED BY <1>2, <3>1 DEF Ordered
  <2> QED BY <2>1, <2>2
<1>7. Spaced(p)
  <2> SUFFICES ASSUME NEW i \in 1..Len(p), i + MaxRequests <= Len(p)
               PROVE  p[i] + WindowSeconds <= p[i + MaxRequests]
    BY DEF Spaced
  <2>0. i \in 1..Len(a)
    BY <1>1, <1>2
  <2>1. CASE i + MaxRequests = Len(a) + 1
    <3>1. i \in 1..k
      BY <1>1, <1>4, <2>1 DEF IsRest
    <3>2. a[i] <= clock - WindowSeconds
      BY <1>4, <3>1
    <3> QED BY <1>1, <1>2, <2>0, <2>1, <3>2
  <2>2. CASE i + MaxRequests # Len(a) + 1
    <3>1. i + MaxRequests <= Len(a) /\ i + MaxRequests \in 1..Len(a)
      BY <1>1, <1>2, <2>2
    <3>2. a[i] + WindowSeconds <= a[i + MaxRequests]
      BY <2>0, <3>1 DEF Spaced
    <3> QED BY <1>2, <2>0, <3>1, <3>2
  <2> QED BY <2>1, <2>2
<1>8. Holds(q, p)
  <2>1. k \in 0..Len(p)
    BY <1>1, <1>2
  <2>2. Len(q) = Len(p) - k
    BY <1>1, <1>2, <1>3, <1>4 DEF IsRest
  <2>3. ASSUME NEW i \in 1..Len(q) PROVE q[i] = p[k + i]
    <3>1. CASE i = Len(b) + 1
      <4>1. k + i = Len(a) + 1
        BY <1>1, <1>4, <3>1 DEF IsRest
      <4> QED BY <1>2, <1>3, <3>1, <4>1
    <3>2. CASE i # Len(b) + 1
      <4>0. Len(b) = Len(a) - k
        BY <1>4 DEF IsRest
      <4>1. i \in 1..Len(b) /\ k + i \in 1..Len(a)
        BY <1>1, <1>3, <1>4, <3>2, <4>0
      <4> QED BY <1>2, <1>3, <1>4, <4>1 DEF IsRest
    <3> QED BY <3>1, <3>2
  <2>4. IsRest(q, p, k)
    BY <2>1, <2>2, <2>3 DEF IsRest
  <2>5. ASSUME NEW i \in 1..k PROVE p[i] <= clock - WindowSeconds
    <3>1. i \in 1..Len(a)
      BY <1>1
    <3> QED BY <1>2, <1>4, <3>1
  <2> QED BY <2>1, <2>4, <2>5 DEF Holds
<1> QED BY <1>2, <1>3, <1>5, <1>6, <1>7, <1>8 DEF p, q

\* A window that is used up has been used up by accepted requests.
LEMMA RefusedTimes ==
  ASSUME clock \in Times, NEW a \in Seq(Times), Ordered(a), Spaced(a),
         \A i \in 1..Len(a) : a[i] <= clock,
         NEW b \in Seq(Times), InWindow(b, a), Len(b) >= MaxRequests
  PROVE  Cardinality({i \in 1..Len(a) : a[i] >= clock - WindowSeconds + 1 /\ a[i] <= clock})
           = MaxRequests
<1> DEFINE S == {i \in 1..Len(a) : a[i] >= clock - WindowSeconds + 1 /\ a[i] <= clock}
<1>1. /\ Len(a) \in Nat /\ \A i \in 1..Len(a) : a[i] \in Int
      /\ Len(b) \in Nat
      /\ clock \in Int /\ MaxRequests \in Nat \ {0} /\ WindowSeconds \in Nat \ {0}
  BY TimesTyped, RateLimiterAssumption DEF Times
<1>2. PICK k \in 0..Len(a) :
        /\ IsRest(b, a, k)
        /\ \A i \in 1..k : a[i] <= clock - WindowSeconds
        /\ \A i \in (k + 1)..Len(a) : a[i] > clock - WindowSeconds
  BY DEF InWindow
<1>3. S = (k + 1)..Len(a)
  <2>1. ASSUME NEW i \in S PROVE i \in (k + 1)..Len(a)
    <3>1. i \in 1..Len(a) /\ a[i] \in Int /\ ~(a[i] <= clock - WindowSeconds)
      BY <1>1
    <3>2. i \notin 1..k
      BY <1>2, <3>1
    <3> QED BY <1>1, <3>1, <3>2
  <2>2. ASSUME NEW i \in (k + 1)..Len(a) PROVE i \in S
    <3>1. i \in 1..Len(a) /\ a[i] \in Int /\ a[i] > clock - WindowSeconds /\ a[i] <= clock
      BY <1>1, <1>2
    <3> QED BY <1>1, <3>1
  <2> QED BY <2>1, <2>2
<1>4. Cardinality(S) <= MaxRequests
  <2>1. clock - WindowSeconds + 1 \in Int /\ clock < (clock - WindowSeconds + 1) + WindowSeconds
    BY <1>1
  <2> QED BY <1>1, <2>1, WindowCount
<1>5. Cardinality((k + 1)..Len(a)) = Len(a) - k /\ Len(a) - k \in Int
  <2>1. k + 1 \in Int /\ Len(a) \in Int /\ ~(k + 1 > Len(a))
    BY <1>1, <1>2 DEF IsRest
  <2>2. Cardinality((k + 1)..Len(a)) = Len(a) - (k + 1) + 1
    BY <2>1, FS_Interval
  <2> QED BY <2>1, <2>2
<1>6. Len(a) - k >= MaxRequests
  BY <1>2 DEF IsRest
<1> HIDE DEF S
<1>7. Cardinality(S) = MaxRequests
  BY <1>1, <1>3, <1>4, <1>5, <1>6
<1> QED BY <1>7 DEF S

\* The accepted times of a caller, and the bucket that holds the last of them.
CallerInv(c) ==
  /\ Ordered(accepted[c]) /\ Spaced(accepted[c])
  /\ \A i \in 1..Len(accepted[c]) : accepted[c][i] <= clock
  /\ Holds(memBuckets[c], accepted[c])

LimiterIInv == LimiterTypeOK /\ RefusedForUse /\ \A c \in Callers : CallerInv(c)

\* What is kept of every caller keeps the window of every caller.
LEMMA WindowFollows == LimiterIInv => LimiterInv
<1> SUFFICES ASSUME LimiterIInv PROVE WindowKept
  BY DEF LimiterIInv, LimiterInv
<1>1. ASSUME NEW c \in Callers, NEW t \in 0..clock
      PROVE  Accepted(c, t - WindowSeconds + 1, t) <= MaxRequests
  <2>1. accepted[c] \in Seq(Times) /\ Ordered(accepted[c]) /\ Spaced(accepted[c])
    BY DEF LimiterIInv, LimiterTypeOK, CallerInv, Times
  <2>2. /\ t \in Int /\ t - WindowSeconds + 1 \in Int
        /\ t < (t - WindowSeconds + 1) + WindowSeconds
    BY RateLimiterAssumption DEF LimiterIInv, LimiterTypeOK
  <2> QED BY <2>1, <2>2, WindowCount DEF Accepted
<1> QED BY <1>1 DEF WindowKept

LEMMA PassKeeps == LimiterIInv /\ Pass => LimiterIInv'
<1> SUFFICES ASSUME LimiterIInv, Pass PROVE LimiterIInv'
  OBVIOUS
<1>1. /\ clock < MaxClock /\ clock' = clock + 1
      /\ UNCHANGED <<memBuckets, lastSeen, verdict, accepted>>
  BY DEF Pass
<1>2. clock \in Nat /\ clock' \in 0..MaxClock /\ WindowSeconds \in Nat
  BY <1>1, RateLimiterAssumption DEF LimiterIInv, LimiterTypeOK
<1>3. LimiterTypeOK' /\ RefusedForUse'
  BY <1>1, <1>2 DEF LimiterIInv, LimiterTypeOK, RefusedForUse, Accepted
<1>4. ASSUME NEW c \in Callers PROVE CallerInv(c)'
  <2> DEFINE a == accepted[c]
             b == memBuckets[c]
  <2>1. /\ Ordered(a) /\ Spaced(a) /\ a \in Seq(Times)
        /\ \A i \in 1..Len(a) : a[i] <= clock
    BY DEF LimiterIInv, LimiterTypeOK, CallerInv, Times
  <2>2. PICK k \in 0..Len(a) : IsRest(b, a, k) /\ \A i \in 1..k : a[i] <= clock - WindowSeconds
    BY DEF LimiterIInv, CallerInv, Holds
  <2>3. Len(a) \in Nat /\ \A i \in 1..Len(a) : a[i] \in Int
    BY <2>1, TimesTyped
  <2>4. accepted'[c] = a /\ memBuckets'[c] = b
    BY <1>1
  <2> HIDE DEF a, b
  <2>5. \A i \in 1..Len(a) : a[i] <= clock'
    BY <1>1, <1>2, <2>1, <2>3
  <2>6. \A i \in 1..k : a[i] <= clock' - WindowSeconds
    <3> SUFFICES ASSUME NEW i \in 1..k PROVE a[i] <= clock' - WindowSeconds
      OBVIOUS
    <3>1. i \in 1..Len(a) /\ a[i] <= clock - WindowSeconds
      BY <2>2, <2>3
    <3> QED BY <1>1, <1>2, <2>3, <3>1
  <2>7. Holds(b, a)'
    BY <1>1, <2>2, <2>4, <2>6 DEF Holds, IsRest, a, b
  <2> QED BY <1>1, <2>1, <2>4, <2>5, <2>7 DEF CallerInv, Ordered, Spaced, a, b
<1> QED BY <1>3, <1>4 DEF LimiterIInv

\* Whom the sweep takes has a bucket, and a stale one.
LEMMA EvictedIsStale ==
  ASSUME NEW E \in Evicted, NEW d \in E
  PROVE  d \in Callers /\ memBuckets[d] # <<>> /\ StaleBucket(d)
BY DEF Evicted, Buckets

LEMMA CheckKeeps ==
  ASSUME LimiterIInv, NEW c \in Callers, Check(c)
  PROVE  LimiterIInv'
<1>1. PICK E \in Evicted :
        LET times == IF c \in E THEN <<>> ELSE Recent(memBuckets[c])
            ok == Len(times) < MaxRequests
            kept == IF ok THEN Append(times, clock) ELSE times IN
        /\ memBuckets' = [d \in Callers |-> IF d = c THEN kept
                                            ELSE IF d \in E THEN <<>> ELSE memBuckets[d]]
        /\ lastSeen' = [lastSeen EXCEPT ![c] = clock]
        /\ verdict' = [caller |-> c, success |-> ok,
                       remaining |-> IF ok THEN MaxRequests - Len(kept) ELSE 0]
        /\ accepted' = IF ok THEN [accepted EXCEPT ![c] = Append(@, clock)] ELSE accepted
        /\ UNCHANGED clock
  BY DEF Check
<1> DEFINE times == IF c \in E THEN <<>> ELSE Recent(memBuckets[c])
           ok == Len(times) < MaxRequests
           kept == IF ok THEN Append(times, clock) ELSE times
           a == accepted[c]
           more == IF ok THEN Append(a, clock) ELSE a
<1>2. /\ clock \in Times /\ clock \in Int /\ MaxRequests \in Nat /\ WindowSeconds \in Nat
      /\ memBuckets \in [Callers -> Seq(Times)] /\ accepted \in [Callers -> Seq(Times)]
      /\ lastSeen \in [Callers -> Times]
  BY RateLimiterAssumption DEF LimiterIInv, LimiterTypeOK, Times
<1>3. \A d \in Callers :
        /\ Ordered(accepted[d]) /\ Spaced(accepted[d])
        /\ \A i \in 1..Len(accepted[d]) : accepted[d][i] <= clock
        /\ Holds(memBuckets[d], accepted[d])
        /\ memBuckets[d] \in Seq(Times) /\ accepted[d] \in Seq(Times)
  BY <1>2 DEF LimiterIInv, CallerInv
<1>4. \A d \in E : <<>> \in Seq(Times) /\ InWindow(<<>>, accepted[d])
  <2> SUFFICES ASSUME NEW d \in E PROVE <<>> \in Seq(Times) /\ InWindow(<<>>, accepted[d])
    OBVIOUS
  <2>1. d \in Callers /\ memBuckets[d] # <<>>
        /\ memBuckets[d][Len(memBuckets[d])] < clock - WindowSeconds
    BY EvictedIsStale DEF StaleBucket
  <2> QED BY <1>2, <1>3, <2>1, SweptTimes
<1>5. times \in Seq(Times) /\ InWindow(times, a)
  <2>1. CASE c \in E
    BY <1>4, <2>1
  <2>2. CASE c \notin E
    BY <1>2, <1>3, <2>2, RecentTimes
  <2> QED BY <2>1, <2>2
<1>6. /\ memBuckets' = [d \in Callers |-> IF d = c THEN kept
                                          ELSE IF d \in E THEN <<>> ELSE memBuckets[d]]
      /\ lastSeen' = [lastSeen EXCEPT ![c] = clock]
      /\ verdict' = [caller |-> c, success |-> ok,
                     remaining |-> IF ok THEN MaxRequests - Len(kept) ELSE 0]
      /\ accepted' = [accepted EXCEPT ![c] = more]
      /\ clock' = clock
  <2>1. accepted' = IF ok THEN [accepted EXCEPT ![c] = Append(@, clock)] ELSE accepted
    BY <1>1
  <2>2. accepted = [accepted EXCEPT ![c] = a]
    BY <1>2
  <2> QED BY <1>1, <2>1, <2>2
<1> HIDE DEF times
<1>7. /\ kept \in Seq(Times) /\ more \in Seq(Times)
      /\ Ordered(more) /\ Spaced(more) /\ \A i \in 1..Len(more) : more[i] <= clock
      /\ Holds(kept, more)
  <2>1. CASE ok
    BY <1>2, <1>3, <1>5, <2>1, AcceptedTimes
  <2>2. CASE ~ok
    <3>1. Holds(times, a)
      BY <1>5 DEF Holds, InWindow
    <3> QED BY <1>3, <1>5, <2>2, <3>1
  <2> QED BY <2>1, <2>2
<1>8. (IF ok THEN MaxRequests - Len(kept) ELSE 0) \in 0..MaxRequests
  <2>1. CASE ok
    <3>1. Len(times) \in Nat /\ Len(times) < MaxRequests /\ Len(kept) = Len(times) + 1
      BY <1>2, <1>5, <2>1, AppendProperties, LenProperties
    <3> QED BY <1>2, <2>1, <3>1
  <2>2. CASE ~ok
    BY <1>2, <2>2
  <2> QED BY <2>1, <2>2
<1>9. ~ok => Cardinality({i \in 1..Len(a) : a[i] >= clock - WindowSeconds + 1 /\ a[i] <= clock})
               = MaxRequests
  <2> SUFFICES ASSUME ~ok
               PROVE  Cardinality({i \in 1..Len(a) :
                        a[i] >= clock - WindowSeconds + 1 /\ a[i] <= clock}) = MaxRequests
    OBVIOUS
  <2>1. Len(times) >= MaxRequests
    BY <1>2, <1>5, LenProperties
  <2> QED BY <1>2, <1>3, <1>5, <2>1, RefusedTimes
<1>10. ~ok => more = a
  OBVIOUS
<1>11. ok \in BOOLEAN
  OBVIOUS
<1> HIDE DEF kept, more, a, ok
<1>12. LimiterTypeOK'
  <2>1. memBuckets' \in [Callers -> Seq(Times)]
    BY <1>2, <1>4, <1>6, <1>7
  <2>2. accepted' \in [Callers -> Seq(Times)] /\ lastSeen' \in [Callers -> Times]
    BY <1>2, <1>6, <1>7
  <2>3. verdict' \in [caller : Callers, success : BOOLEAN, remaining : 0..MaxRequests]
    BY <1>6, <1>8, <1>11
  <2> QED BY <1>2, <1>6, <2>1, <2>2, <2>3 DEF LimiterTypeOK, Times
<1>13. RefusedForUse'
  <2>1. verdict'.caller = c /\ verdict'.success = ok /\ lastSeen'[c] = clock
    BY <1>2, <1>6
  <2>2. ~ok => accepted'[c] = a
    BY <1>2, <1>6, <1>10
  <2> QED BY <1>9, <2>1, <2>2 DEF RefusedForUse, Accepted
<1>14. ASSUME NEW d \in Callers PROVE CallerInv(d)'
  <2>1. CASE d = c
    <3>1. accepted'[d] = more /\ memBuckets'[d] = kept
      BY <1>2, <1>6, <2>1
    <3> QED BY <1>6, <1>7, <3>1 DEF CallerInv, Ordered, Spaced, Holds, IsRest
  <2>2. CASE d # c
    <3> DEFINE rest == IF d \in E THEN <<>> ELSE memBuckets[d]
    <3>1. accepted'[d] = accepted[d] /\ memBuckets'[d] = rest
      BY <1>2, <1>6, <2>2
    <3>2. d \in E => Holds(<<>>, accepted[d])
      BY <1>4 DEF Holds, InWindow
    <3>3. Holds(rest, accepted[d])
      BY <1>3, <3>2
    <3> HIDE DEF rest
    <3>4. Holds(memBuckets[d], accepted[d])'
      BY <1>6, <3>1, <3>3 DEF Holds, IsRest
    <3>5. /\ Ordered(accepted[d])' /\ Spaced(accepted[d])'
          /\ \A i \in 1..Len(accepted'[d]) : accepted'[d][i] <= clock'
      BY <1>3, <1>6, <3>1 DEF Ordered, Spaced
    <3> QED BY <3>4, <3>5 DEF CallerInv
  <2> QED BY <2>1, <2>2
<1> QED BY <1>12, <1>13, <1>14 DEF LimiterIInv

LEMMA LimiterKept == LimiterIInv /\ [LimiterNext]_limiterVars => LimiterIInv'
<1>1. LimiterIInv /\ UNCHANGED limiterVars => LimiterIInv'
  BY DEF LimiterIInv, LimiterTypeOK, RefusedForUse, Accepted, CallerInv, Ordered, Spaced,
         Holds, IsRest, limiterVars
<1> QED BY <1>1, PassKeeps, CheckKeeps DEF LimiterNext

LEMMA LimiterBegins == LimiterInit => LimiterIInv
<1> SUFFICES ASSUME LimiterInit PROVE LimiterIInv
  OBVIOUS
<1>1. <<>> \in Seq(Times) /\ Len(<<>>) = 0 /\ 0 \in Times /\ MaxRequests \in 0..MaxRequests
  BY EmptySeq, RateLimiterAssumption DEF Times
<1>2. LimiterTypeOK
  BY <1>1 DEF LimiterInit, LimiterTypeOK, Times
<1>3. RefusedForUse
  BY DEF LimiterInit, RefusedForUse
<1>4. \A c \in Callers : CallerInv(c)
  <2>1. Ordered(<<>>) /\ Spaced(<<>>) /\ IsRest(<<>>, <<>>, 0)
    BY <1>1 DEF Ordered, Spaced, IsRest
  <2>2. Holds(<<>>, <<>>)
    BY <1>1, <2>1 DEF Holds
  <2>3. \A c \in Callers : accepted[c] = <<>> /\ memBuckets[c] = <<>>
    BY DEF LimiterInit
  <2> QED BY <1>1, <2>1, <2>2, <2>3 DEF CallerInv
<1> QED BY <1>2, <1>3, <1>4 DEF LimiterIInv

\* However callers come and the sweep forgets them, in no stretch of WindowSeconds is
\* one accepted more than MaxRequests times, and none is refused who has not used the
\* window up (rate-limiter.ts: check, evictStaleBuckets).
THEOREM WindowIsKept == LimiterSpec => []LimiterInv
<1>1. LimiterIInv /\ [LimiterNext]_limiterVars => LimiterIInv'
  BY LimiterKept
<1> QED
  BY <1>1, LimiterBegins, WindowFollows, PTL DEF LimiterSpec

-----------------------------------------------------------------------------
(* The segments of a translation and who pays for them *)

Working == {"choose", "midnight", "rpd", "rpdOver", "tpd", "tpdOver", "pace", "bucket", "call"}
TextsTo(d, n) == {SegmentsOf[d][i] : i \in 1..n}

\* What a document holds: the texts before the one it is at, or all of them.
DocOK(d, r) ==
  /\ r \in Doc
  /\ r.pc \in {"lookup", "join"} => r.seg # 0
  /\ r.seg # 0 => r.seg \in 1..Len(SegmentsOf[d]) /\ r.got = TextsTo(d, r.seg - 1)
  /\ r.english => r.got = TextsTo(d, Len(SegmentsOf[d]))

OwesText(d, r, s) == r.pc \in Working /\ r.seg # 0 /\ SegmentsOf[d][r.seg] = s
Awaits(d, r, s) == r.pc = "join" /\ SegmentsOf[d][r.seg] = s

\* The in-flight table is the segments that somebody pays for, each of them one.
MeetInv ==
  /\ keys \in (SUBSET Keys) \ {{}} /\ restarted \in BOOLEAN
  /\ inflight \subseteq Segments /\ stored \subseteq Segments
  /\ doc \in [TransDocs -> Doc]
  /\ \A d \in TransDocs : DocOK(d, doc[d])
  /\ \A d \in TransDocs, s \in Segments :
       OwesText(d, doc[d], s) => s \in inflight /\ s \notin stored
  /\ \A d, e \in TransDocs, s \in Segments :
       OwesText(d, doc[d], s) /\ OwesText(e, doc[e], s) => d = e
  /\ \A d \in TransDocs, s \in Segments : Awaits(d, doc[d], s) => s \in inflight
  /\ \A s \in inflight : \E d \in TransDocs : OwesText(d, doc[d], s)

LEMMA SegmentIn ==
  ASSUME NEW d \in TransDocs, NEW i \in 1..Len(SegmentsOf[d])
  PROVE  SegmentsOf[d][i] \in Segments
BY DEF Segments

LEMMA FirstIn ==
  ASSUME NEW d \in TransDocs, NEW n \in Nat, n <= Len(SegmentsOf[d])
  PROVE  TextsTo(d, n) \subseteq Segments
<1> SUFFICES ASSUME NEW i \in 1..n PROVE SegmentsOf[d][i] \in Segments
  BY DEF TextsTo
<1>1. i \in 1..Len(SegmentsOf[d])
  BY TranslationAssumption
<1> QED BY <1>1, SegmentIn

LEMMA DocFields ==
  ASSUME NEW r \in Doc
  PROVE  /\ r.pc \in DocPcs /\ r.seg \in Nat /\ r.tries \in 0..ModelCount /\ r.key \in Keys
         /\ r.model \in Models /\ r.got \in SUBSET Segments /\ r.english \in BOOLEAN
BY DEF Doc

\* A document at another place, with the same texts.
LEMMA DocMoved ==
  ASSUME NEW r \in Doc, NEW pc \in DocPcs
  PROVE  LET new == [r EXCEPT !.pc = pc] IN
         /\ new \in Doc
         /\ new.pc = pc /\ new.seg = r.seg /\ new.got = r.got /\ new.english = r.english
         /\ new.key = r.key /\ new.model = r.model
<1> DEFINE T == 0..ModelCount
           G == SUBSET Segments
           P == DocPcs
           M == Models
<1> HIDE DEF T, G, P, M
<1>1. Doc = [pc : P, seg : Nat, tries : T, key : Keys, model : M, got : G, english : BOOLEAN]
  BY DEF Doc, T, G, P, M
<1>2. pc \in P
  BY DEF P
<1> QED BY <1>1, <1>2

\* The type with names for its sets: what a change of several fields is typed by.
LEMMA DocType ==
  \E P, T, M, G :
    /\ P = DocPcs /\ T = 0..ModelCount /\ M = Models /\ G = SUBSET Segments
    /\ Doc = [pc : P, seg : Nat, tries : T, key : Keys, model : M, got : G, english : BOOLEAN]
BY DEF Doc

LEMMA DocNew ==
  ASSUME Keys # {}
  PROVE  /\ NoDoc \in Doc /\ NoDoc.pc = "idle" /\ NoDoc.seg = 0 /\ NoDoc.got = {}
         /\ NoDoc.english = FALSE
<1>1. /\ SomeKey \in Keys /\ 0 \in 0..ModelCount /\ 1 \in Models /\ {} \in SUBSET Segments
      /\ "idle" \in DocPcs
  BY TranslationAssumption DEF SomeKey, Models, DocPcs
<1> DEFINE T == 0..ModelCount
           G == SUBSET Segments
           P == DocPcs
           M == Models
<1>2. 0 \in T /\ 1 \in M /\ {} \in G /\ "idle" \in P
  BY <1>1
<1> HIDE DEF T, G, P, M
<1>3. Doc = [pc : P, seg : Nat, tries : T, key : Keys, model : M, got : G, english : BOOLEAN]
  BY DEF Doc, T, G, P, M
<1> QED BY <1>1, <1>2, <1>3 DEF NoDoc

LEMMA DocBegun ==
  ASSUME Keys # {}, NEW d \in TransDocs
  PROVE  /\ DocOK(d, NoDoc)
         /\ \A pc \in {"choose", "done"} :
              LET r == [NoDoc EXCEPT !.pc = pc] IN
              r.pc = pc /\ r.seg = 0 /\ DocOK(d, r)
         /\ LET r == [NoDoc EXCEPT !.pc = "lookup", !.seg = 1] IN
            r.pc = "lookup" /\ DocOK(d, r)
<1>1. /\ NoDoc \in Doc /\ NoDoc.pc = "idle" /\ NoDoc.seg = 0 /\ NoDoc.got = {}
      /\ NoDoc.english = FALSE
  BY DocNew
<1>2. TextsTo(d, 1 - 1) = {} /\ 1 \in 1..Len(SegmentsOf[d])
  BY TranslationAssumption DEF TextsTo
<1>3. DocOK(d, NoDoc)
  BY <1>1 DEF DocOK
<1>4. ASSUME NEW pc \in {"choose", "done"}
      PROVE  LET r == [NoDoc EXCEPT !.pc = pc] IN r.pc = pc /\ r.seg = 0 /\ DocOK(d, r)
  <2> DEFINE r == [NoDoc EXCEPT !.pc = pc]
  <2>1. pc \in DocPcs
    BY DEF DocPcs
  <2>2. r \in Doc /\ r.pc = pc /\ r.seg = 0 /\ r.english = FALSE
    BY <1>1, <2>1, DocMoved
  <2> HIDE DEF r
  <2>3. DocOK(d, r)
    BY <2>2 DEF DocOK
  <2> QED BY <2>2, <2>3 DEF r
<1>5. LET r == [NoDoc EXCEPT !.pc = "lookup", !.seg = 1] IN r.pc = "lookup" /\ DocOK(d, r)
  <2> DEFINE r == [NoDoc EXCEPT !.pc = "lookup", !.seg = 1]
  <2>1. "lookup" \in DocPcs
    BY DEF DocPcs
  <2>3. PICK P, T, M, G :
          /\ P = DocPcs /\ T = 0..ModelCount /\ M = Models /\ G = SUBSET Segments
          /\ Doc = [pc : P, seg : Nat, tries : T, key : Keys, model : M, got : G,
                    english : BOOLEAN]
    BY DocType
  <2>4. "lookup" \in P
    BY <2>1, <2>3
  <2>5. /\ Doc = [pc : P, seg : Nat, tries : T, key : Keys, model : M, got : G,
                  english : BOOLEAN]
        /\ NoDoc \in Doc
    BY <1>1, <2>3
  <2>6. r \in Doc /\ r.pc = "lookup" /\ r.seg = 1 /\ r.got = NoDoc.got /\ r.english = NoDoc.english
    BY ONLY <2>4, <2>5
  <2> HIDE DEF r
  <2>7. DocOK(d, r)
    BY <1>1, <1>2, <2>6 DEF DocOK
  <2> QED BY <2>6, <2>7 DEF r
<1> QED BY <1>3, <1>4, <1>5

\* With one text more a document asks for the next or is done.
LEMMA DocOnward ==
  ASSUME Keys # {}, NEW d \in TransDocs, NEW r, DocOK(d, r), r.seg # 0
  PROVE  LET new == Onward(r, d, SegmentsOf[d][r.seg]) IN
         new.pc \in {"lookup", "done"} /\ DocOK(d, new)
<1> DEFINE s == SegmentsOf[d][r.seg]
           n == Len(SegmentsOf[d])
           more == r.got \cup {s}
           new == Onward(r, d, s)
<1>1. /\ NoDoc \in Doc /\ NoDoc.seg = 0 /\ NoDoc.english = FALSE
  BY DocNew
<1>0. /\ n \in Nat /\ r.seg \in 1..n /\ r.seg \in Nat /\ r.got = TextsTo(d, r.seg - 1)
      /\ "lookup" \in DocPcs /\ "done" \in DocPcs
  BY TranslationAssumption DEF DocOK, DocPcs
<1>2. more = TextsTo(d, r.seg)
  <2>1. 1..r.seg = 1..(r.seg - 1) \cup {r.seg}
    BY <1>0
  <2> QED BY <1>0, <2>1 DEF TextsTo
<1>3. more \in SUBSET Segments
  BY <1>0, <1>2, FirstIn
<1>4. new = IF r.seg < n
            THEN [NoDoc EXCEPT !.pc = "lookup", !.seg = r.seg + 1, !.got = more]
            ELSE [NoDoc EXCEPT !.pc = "done", !.got = more, !.english = TRUE]
  BY DEF Onward
<1>7. PICK P, T, M, G :
        /\ P = DocPcs /\ T = 0..ModelCount /\ M = Models /\ G = SUBSET Segments
        /\ Doc = [pc : P, seg : Nat, tries : T, key : Keys, model : M, got : G, english : BOOLEAN]
  BY DocType
<1> HIDE DEF more, new
<1>8. /\ Doc = [pc : P, seg : Nat, tries : T, key : Keys, model : M, got : G, english : BOOLEAN]
      /\ NoDoc \in Doc /\ "lookup" \in P /\ "done" \in P /\ more \in G
  BY <1>0, <1>1, <1>3, <1>7
<1>5. CASE r.seg < n
  <2>1. r.seg + 1 \in 1..n /\ r.seg + 1 \in Nat /\ (r.seg + 1) - 1 = r.seg /\ r.seg + 1 # 0
    BY <1>0, <1>5
  <2>2. /\ new \in Doc /\ new.pc = "lookup" /\ new.seg = r.seg + 1 /\ new.got = more
        /\ new.english = FALSE
    <3> DEFINE seg == r.seg + 1
    <3>1. seg \in Nat /\ new = [NoDoc EXCEPT !.pc = "lookup", !.seg = seg, !.got = more]
      BY <1>4, <1>5, <2>1
    <3> HIDE DEF seg
    <3>2. /\ new \in Doc /\ new.pc = "lookup" /\ new.seg = seg /\ new.got = more
          /\ new.english = NoDoc.english
      BY ONLY <1>8, <3>1
    <3> QED BY <1>1, <3>2 DEF seg
  <2>3. DocOK(d, new)
    BY <1>2, <2>1, <2>2 DEF DocOK
  <2> QED BY <2>2, <2>3 DEF new
<1>6. CASE ~(r.seg < n)
  <2>1. r.seg = n
    BY <1>0, <1>6
  <2>2. new \in Doc /\ new.pc = "done" /\ new.seg = 0 /\ new.got = more
    <3>1. new = [NoDoc EXCEPT !.pc = "done", !.got = more, !.english = TRUE]
      BY <1>4, <1>6
    <3>2. new \in Doc /\ new.pc = "done" /\ new.seg = NoDoc.seg /\ new.got = more
      BY ONLY <1>8, <3>1
    <3> QED BY <1>1, <3>2
  <2>3. DocOK(d, new)
    BY <1>2, <2>1, <2>2 DEF DocOK
  <2> QED BY <2>2, <2>3 DEF new
<1> QED BY <1>5, <1>6

Queued == {"rpd", "rpdOver", "tpd", "tpdOver", "pace", "bucket"}

\* No document starts or ends waiting for tokens.
Aside == \A e \in TransDocs :
  doc'[e] = doc[e] \/ (doc[e].pc \notin Queued /\ doc'[e].pc \notin Queued)

LEMMA TextOwed ==
  ASSUME MeetInv, NEW d \in TransDocs
  PROVE  /\ Waits(d) <=> doc[d].pc \in Working
         /\ doc[d].seg # 0 =>
              doc[d].seg \in 1..Len(SegmentsOf[d]) /\ Text(d) \in Segments
         /\ \A s : OwesText(d, doc[d], s) <=> Pays(d, s)
         /\ \A s : Awaits(d, doc[d], s) <=> DocAt(d, "join") /\ Text(d) = s
         /\ DocAt(d, "lookup") \/ DocAt(d, "join") => doc[d].seg # 0
<1>1. DocOK(d, doc[d])
  BY DEF MeetInv
<1>2. doc[d].seg # 0 => doc[d].seg \in 1..Len(SegmentsOf[d]) /\ Text(d) \in Segments
  BY <1>1, SegmentIn DEF DocOK, Text
<1> QED
  BY <1>1, <1>2 DEF DocOK, Waits, Working, OwesText, Awaits, Pays, Detecting, Text, DocAt

\* Documents move, but who pays for what and who waits for it stays.
LEMMA MovesKeep ==
  ASSUME MeetInv, UNCHANGED <<inflight, stored, keys>>, restarted' \in BOOLEAN,
         doc' \in [TransDocs -> Doc],
         \A d \in TransDocs : DocOK(d, doc'[d]),
         \A d \in TransDocs, s \in Segments : OwesText(d, doc'[d], s) <=> OwesText(d, doc[d], s),
         \A d \in TransDocs, s \in Segments : Awaits(d, doc'[d], s) => Awaits(d, doc[d], s)
  PROVE  MeetInv'
<1>1. \A d \in TransDocs : DocOK(d, doc[d])'
  BY DEF DocOK, TextsTo
<1>2. \A d \in TransDocs, s \in Segments :
        /\ OwesText(d, doc[d], s)' <=> OwesText(d, doc[d], s)
        /\ Awaits(d, doc[d], s)' => Awaits(d, doc[d], s)
  BY DEF OwesText, Awaits
<1>3. \A s \in inflight : s \in Segments
  BY DEF MeetInv
<1> QED BY <1>1, <1>2, <1>3 DEF MeetInv

\* One document moves, and pays for what it paid for.
LEMMA OneMoves ==
  ASSUME MeetInv, NEW d \in TransDocs, NEW new, SetDoc(d, new),
         UNCHANGED <<inflight, stored, keys, restarted>>,
         DocOK(d, new), new.pc # "join",
         \A s \in Segments : OwesText(d, new, s) <=> OwesText(d, doc[d], s)
  PROVE  MeetInv'
<1>1. doc \in [TransDocs -> Doc] /\ restarted \in BOOLEAN /\ new \in Doc
  BY DEF MeetInv, DocOK
<1>2. doc' \in [TransDocs -> Doc]
  BY <1>1 DEF SetDoc
<1>3. \A e \in TransDocs : doc'[e] = IF e = d THEN new ELSE doc[e]
  BY <1>1 DEF SetDoc
<1>4. \A e \in TransDocs : DocOK(e, doc'[e])
  BY <1>3 DEF MeetInv
<1>5. \A e \in TransDocs, s \in Segments : OwesText(e, doc'[e], s) <=> OwesText(e, doc[e], s)
  BY <1>3
<1>6. \A e \in TransDocs, s \in Segments : Awaits(e, doc'[e], s) => Awaits(e, doc[e], s)
  BY <1>3 DEF Awaits
<1>7. UNCHANGED <<inflight, stored, keys>> /\ restarted' \in BOOLEAN
  BY <1>1
<1> QED BY <1>2, <1>4, <1>5, <1>6, <1>7, MovesKeep

\* The same for a document that goes on working at its text.
LEMMA WorksOn ==
  ASSUME MeetInv, NEW d \in TransDocs, NEW new \in Doc, SetDoc(d, new),
         UNCHANGED <<inflight, stored, keys, restarted>>,
         doc[d].pc \in Working, new.pc \in Working,
         new.seg = doc[d].seg, new.got = doc[d].got, new.english = doc[d].english
  PROVE  MeetInv'
<1>1. DocOK(d, doc[d])
  BY DEF MeetInv
<1>2. DocOK(d, new) /\ new.pc # "join"
  BY <1>1 DEF DocOK, Working
<1>3. \A s \in Segments : OwesText(d, new, s) <=> OwesText(d, doc[d], s)
  BY DEF OwesText
<1> QED BY <1>2, <1>3, OneMoves

\* And for one that pays for nothing before or after.
LEMMA OwesNothing ==
  ASSUME MeetInv, NEW d \in TransDocs, NEW new, SetDoc(d, new),
         UNCHANGED <<inflight, stored, keys, restarted>>,
         doc[d].pc \in Working => doc[d].seg = 0,
         DocOK(d, new), new.pc # "join", new.pc \in Working => new.seg = 0
  PROVE  MeetInv'
<1>1. \A s \in Segments : OwesText(d, new, s) <=> OwesText(d, doc[d], s)
  BY DEF OwesText
<1> QED BY <1>1, OneMoves

\* A promise settles: none pays for its segment or waits for it any more.
LEMMA SettleKeeps ==
  ASSUME MeetInv, NEW d \in TransDocs, NEW s \in Segments, OwesText(d, doc[d], s),
         NEW good \in BOOLEAN, Settle(d, s, good),
         stored' = stored \/ stored' = stored \cup {s}, UNCHANGED <<keys, restarted>>
  PROVE  MeetInv' /\ (doc[d].pc \notin Queued => Aside)
<1>0. /\ doc \in [TransDocs -> Doc] /\ inflight \subseteq Segments /\ stored \subseteq Segments
      /\ keys \in (SUBSET Keys) \ {{}} /\ restarted \in BOOLEAN
  BY DEF MeetInv
<1>00. Keys # {}
  BY <1>0
<1>1. \A e \in TransDocs : DocOK(e, doc[e])
  BY DEF MeetInv
<1>2. /\ doc' = [e \in TransDocs |->
            IF e \notin Concerned(d, s) THEN doc[e]
            ELSE IF good THEN Onward(doc[e], e, s) ELSE GiveUp]
      /\ inflight' = inflight \ {s}
  BY DEF Settle
<1>3. ASSUME NEW e \in Concerned(d, s)
      PROVE  /\ e \in TransDocs /\ doc'[e].pc \in {"lookup", "done"}
             /\ DocOK(e, doc'[e])
  <2>0. e \in TransDocs /\ (e = d \/ (DocAt(e, "join") /\ Text(e) = s))
    BY DEF Concerned
  <2>1. doc[e].seg # 0 /\ SegmentsOf[e][doc[e].seg] = s
    BY <1>1, <2>0 DEF OwesText, DocAt, Text, DocOK
  <2>2. CASE good
    <3>1. doc'[e] = Onward(doc[e], e, SegmentsOf[e][doc[e].seg])
      BY <1>2, <2>0, <2>1, <2>2
    <3> QED BY <1>00, <1>1, <2>0, <2>1, <3>1, DocOnward
  <2>3. CASE ~good
    <3>1. doc'[e] = [NoDoc EXCEPT !.pc = "done"]
      BY <1>2, <2>0, <2>3 DEF GiveUp
    <3> QED BY <1>00, <2>0, <3>1, DocBegun
  <2> QED BY <2>0, <2>2, <2>3
<1>4. \A e \in TransDocs : e \notin Concerned(d, s) => doc'[e] = doc[e]
  BY <1>2
<1>5. \A e \in TransDocs : DocOK(e, doc'[e])
  BY <1>1, <1>3, <1>4
<1>6. doc' \in [TransDocs -> Doc]
  <2>1. \A e \in TransDocs : doc'[e] \in Doc
    BY <1>5 DEF DocOK
  <2> QED BY <1>2, <2>1
<1>7. ASSUME NEW e \in TransDocs, NEW t \in Segments
      PROVE  /\ OwesText(e, doc'[e], t) => OwesText(e, doc[e], t) /\ t # s
             /\ Awaits(e, doc'[e], t) => Awaits(e, doc[e], t) /\ t # s
             /\ OwesText(e, doc[e], t) /\ t # s => OwesText(e, doc'[e], t)
  <2>1. CASE e \in Concerned(d, s)
    <3>1. ~OwesText(e, doc'[e], t) /\ ~Awaits(e, doc'[e], t)
      BY <1>3, <2>1 DEF OwesText, Awaits, Working
    <3>2. OwesText(e, doc[e], t) => t = s
      BY <2>1 DEF Concerned, OwesText, DocAt, Text, Working
    <3> QED BY <3>1, <3>2
  <2>2. CASE e \notin Concerned(d, s)
    <3>1. doc'[e] = doc[e] /\ e # d /\ ~Awaits(e, doc[e], s)
      BY <1>4, <2>2 DEF Concerned, Awaits, DocAt, Text
    <3>2. ~OwesText(e, doc[e], s)
      BY <3>1 DEF MeetInv
    <3> QED BY <3>1, <3>2
  <2> QED BY <2>1, <2>2
<1>8. \A e \in TransDocs, t \in Segments : OwesText(e, doc'[e], t) => t \in inflight' /\ t \notin stored'
  BY <1>2, <1>7 DEF MeetInv
<1>9. \A e, f \in TransDocs, t \in Segments :
        OwesText(e, doc'[e], t) /\ OwesText(f, doc'[f], t) => e = f
  BY <1>7 DEF MeetInv
<1>10. \A e \in TransDocs, t \in Segments : Awaits(e, doc'[e], t) => t \in inflight'
  BY <1>2, <1>7 DEF MeetInv
<1>11. \A t \in inflight' : \E e \in TransDocs : OwesText(e, doc'[e], t)
  <2> SUFFICES ASSUME NEW t \in inflight' PROVE \E e \in TransDocs : OwesText(e, doc'[e], t)
    OBVIOUS
  <2>1. t \in Segments /\ t # s /\ t \in inflight
    BY <1>0, <1>2
  <2>2. PICK e \in TransDocs : OwesText(e, doc[e], t)
    BY <2>1 DEF MeetInv
  <2> QED BY <1>7, <2>1, <2>2
<1>12. /\ inflight' \subseteq Segments /\ stored' \subseteq Segments
       /\ keys' \in (SUBSET Keys) \ {{}} /\ restarted' \in BOOLEAN
  BY <1>0, <1>2
<1>13. doc[d].pc \notin Queued => Aside
  BY <1>3, <1>4 DEF Aside, Concerned, DocAt, Queued
<1>14. MeetInv'
  BY <1>5, <1>6, <1>8, <1>9, <1>10, <1>11, <1>12 DEF MeetInv, DocOK, TextsTo, OwesText, Awaits
<1> QED BY <1>13, <1>14

\* A document whose request fails gives up, with those who joined.
LEMMA FailKeeps ==
  ASSUME MeetInv, NEW d \in TransDocs, doc[d].pc \in Working, DocFails(d),
         UNCHANGED <<stored, keys, restarted>>
  PROVE  MeetInv' /\ (doc[d].pc \notin Queued => Aside)
<1>0. Keys # {}
  BY DEF MeetInv
<1>1. CASE Detecting(d)
  <2>1. SetDoc(d, GiveUp) /\ UNCHANGED inflight /\ doc[d].seg = 0
    BY <1>1 DEF DocFails, Detecting
  <2>2. GiveUp.pc = "done" /\ DocOK(d, GiveUp)
    BY <1>0, DocBegun DEF GiveUp
  <2>3. doc[d].pc \notin Queued => Aside
    BY <2>1, <2>2 DEF Aside, SetDoc, Queued, MeetInv
  <2> QED BY <2>1, <2>2, <2>3, OwesNothing DEF Working
<1>2. CASE ~Detecting(d)
  <2>1. Settle(d, Text(d), FALSE) /\ doc[d].seg # 0
    BY <1>2 DEF DocFails, Detecting
  <2>2. Text(d) \in Segments /\ OwesText(d, doc[d], Text(d))
    BY <2>1, TextOwed DEF OwesText, Text
  <2> QED BY <2>1, <2>2, SettleKeeps
<1> QED BY <1>1, <1>2

-----------------------------------------------------------------------------
(* What documents that wait may overdraw *)

QueueOf(f, m) == {d \in TransDocs : f[d].pc \in Queued /\ f[d].model = m}
DocCount == Cardinality(TransDocs)

\* Of model m, with budget b, p is paid today and w documents wait to pay: before the
\* day is looked at, these are documents of yesterday; then a test that passes finds
\* at most what these have paid unseen.
WithinBudget(m, b, p, w) ==
  Tpd[m] > 0 =>
    /\ ~b.today => p + w <= DocCount
    /\ b.today => /\ p + w <= Tpd[m] + 2 * DocCount - 1
                  /\ b.used < Tpd[m] => p <= b.used + DocCount

CountsOK ==
  /\ limiter \in [Keys -> [Models -> Limiter]]
  /\ budget \in [Models -> Budget]
  /\ paid \in [Models -> Nat]

OverInv ==
  Pool =>
    /\ \A d \in TransDocs : doc[d].pc \notin {"tpd", "tpdOver"}
    /\ ~restarted =>
         \A m \in Models : WithinBudget(m, budget[m], paid[m], Cardinality(QueueOf(doc, m)))

LEMMA DocCountType == IsFiniteSet(TransDocs) /\ DocCount \in Nat \ {0}
<1>1. IsFiniteSet(TransDocs) /\ TransDocs # {}
  BY TranslationAssumption
<1>2. DocCount \in Nat /\ (DocCount = 0 <=> TransDocs = {})
  BY <1>1, FS_CardinalityType, FS_EmptySet DEF DocCount
<1> QED BY <1>1, <1>2

LEMMA QueueType ==
  ASSUME NEW f, NEW m
  PROVE  IsFiniteSet(QueueOf(f, m)) /\ Cardinality(QueueOf(f, m)) \in 0..DocCount
<1>1. IsFiniteSet(TransDocs) /\ QueueOf(f, m) \subseteq TransDocs
  BY DocCountType DEF QueueOf
<1>2. /\ IsFiniteSet(QueueOf(f, m))
      /\ Cardinality(QueueOf(f, m)) \in Nat
      /\ Cardinality(QueueOf(f, m)) <= DocCount
  BY <1>1, FS_Subset, FS_CardinalityType DEF DocCount
<1> QED BY <1>2, DocCountType

\* Queues only change with documents that wait before or after.
LEMMA QueueSame ==
  ASSUME NEW f, NEW g, NEW m,
         \A d \in TransDocs : f[d].pc \in Queued /\ f[d].model = m
                                <=> g[d].pc \in Queued /\ g[d].model = m
  PROVE  QueueOf(f, m) = QueueOf(g, m)
BY DEF QueueOf

LEMMA QueueJoined ==
  ASSUME NEW f, NEW g, NEW d \in TransDocs, NEW m,
         \A e \in TransDocs \ {d} : g[e] = f[e],
         f[d].pc \notin Queued, g[d].pc \in Queued, g[d].model = m
  PROVE  /\ Cardinality(QueueOf(g, m)) = Cardinality(QueueOf(f, m)) + 1
         /\ Cardinality(QueueOf(f, m)) + 1 <= DocCount
         /\ \A n : n # m => QueueOf(g, n) = QueueOf(f, n)
<1>1. d \notin QueueOf(f, m) /\ QueueOf(g, m) = QueueOf(f, m) \cup {d}
  BY DEF QueueOf
<1>2. Cardinality(QueueOf(g, m)) = Cardinality(QueueOf(f, m)) + 1
  BY <1>1, QueueType, FS_AddElement
<1>3. Cardinality(QueueOf(f, m)) + 1 <= DocCount
  BY <1>2, QueueType, DocCountType
<1>4. \A n : n # m => QueueOf(g, n) = QueueOf(f, n)
  BY DEF QueueOf
<1> QED BY <1>2, <1>3, <1>4

\* One that is about to choose leaves a place in every queue.
LEMMA QueueHasRoom ==
  ASSUME NEW f, NEW d \in TransDocs, f[d].pc \notin Queued, NEW m
  PROVE  Cardinality(QueueOf(f, m)) + 1 <= DocCount
<1>1. QueueOf(f, m) \subseteq TransDocs \ {d}
  BY DEF QueueOf
<1>2. IsFiniteSet(TransDocs \ {d}) /\ Cardinality(TransDocs \ {d}) = DocCount - 1
  BY DocCountType, FS_RemoveElement DEF DocCount
<1>3. Cardinality(QueueOf(f, m)) <= DocCount - 1
  BY <1>1, <1>2, FS_Subset
<1> QED BY <1>3, QueueType, DocCountType

LEMMA QueueLeft ==
  ASSUME NEW f, NEW g, NEW d \in TransDocs, NEW m,
         \A e \in TransDocs \ {d} : g[e] = f[e],
         f[d].pc \in Queued, f[d].model = m, g[d].pc \notin Queued
  PROVE  /\ Cardinality(QueueOf(f, m)) = Cardinality(QueueOf(g, m)) + 1
         /\ \A n : n # m => QueueOf(g, n) = QueueOf(f, n)
<1>1. d \notin QueueOf(g, m) /\ QueueOf(f, m) = QueueOf(g, m) \cup {d}
  BY DEF QueueOf
<1>2. Cardinality(QueueOf(f, m)) = Cardinality(QueueOf(g, m)) + 1
  BY <1>1, QueueType, FS_AddElement
<1>3. \A n : n # m => QueueOf(g, n) = QueueOf(f, n)
  BY DEF QueueOf
<1> QED BY <1>2, <1>3

LEMMA BudgetType ==
  ASSUME NEW b \in Budget, NEW m \in Models
  PROVE  /\ b.used \in Nat /\ b.today \in BOOLEAN /\ Tpd[m] \in Nat
         /\ RolledBudget(b) \in Budget
         /\ Spent(b, m) \in Budget /\ FreshBudget(m) \in Budget
         /\ [b EXCEPT !.dead = TRUE] \in Budget
         /\ [b EXCEPT !.used = 0] \in Budget /\ [b EXCEPT !.used = Tpd[m]] \in Budget
         /\ [b EXCEPT !.today = Tpd[m] = 0] \in Budget
<1>1. Tpd[m] \in Nat /\ b.used \in Nat /\ b.today \in BOOLEAN
  BY TranslationAssumption DEF Budget
<1>2. Counted(b.used, Tpd[m]) \in Nat
  BY <1>1 DEF Counted
<1>3. Spent(b, m) \in Budget
  BY <1>2 DEF Spent, Budget
<1>4. RolledBudget(b) \in Budget
  <2>1. [b EXCEPT !.used = 0, !.today = TRUE] \in Budget
    BY DEF Budget
  <2> QED BY <2>1 DEF RolledBudget
<1>5. FreshBudget(m) \in Budget
  BY <1>1 DEF FreshBudget, Budget
<1>6. /\ [b EXCEPT !.dead = TRUE] \in Budget
      /\ [b EXCEPT !.used = 0] \in Budget /\ [b EXCEPT !.used = Tpd[m]] \in Budget
      /\ [b EXCEPT !.today = Tpd[m] = 0] \in Budget
  BY <1>1 DEF Budget
<1> QED BY <1>1, <1>3, <1>4, <1>5, <1>6

LEMMA LimiterType ==
  ASSUME NEW l \in Limiter, NEW m \in Models
  PROVE  /\ l.tokens \in 0..Tpm /\ l.soon \in BOOLEAN
         /\ Rolled(l) \in Limiter /\ FreshLimiter(m) \in Limiter
         /\ l.tokens >= 1 => Taken(l, m) \in Limiter
         /\ [l EXCEPT !.requests = 0] \in Limiter
         /\ [l EXCEPT !.today = Rpd[m] = 0] \in Limiter
         /\ [l EXCEPT !.tokens = IF @ < Tpm THEN @ + 1 ELSE @, !.soon = FALSE] \in Limiter
<1> DEFINE T == 0..Tpm
<1>1. /\ Tpm \in Nat \ {0} /\ l.tokens \in T /\ l.soon \in BOOLEAN /\ l.requests \in Nat
  BY TranslationAssumption DEF Limiter
<1>2. /\ l.tokens >= 1 => l.tokens - 1 \in T
      /\ (IF l.tokens < Tpm THEN l.tokens + 1 ELSE l.tokens) \in T
      /\ Tpm \in T
  BY <1>1
<1>3. \A c : Counted(l.requests, c) \in Nat
  BY <1>1 DEF Counted
<1>4. l.tokens \in 0..Tpm
  BY <1>1
<1> HIDE DEF T
<1>5. Limiter = [tokens : T, soon : BOOLEAN, requests : Nat, today : BOOLEAN]
  BY DEF Limiter, T
<1>6. l.tokens >= 1 => Taken(l, m) \in Limiter
  BY <1>2, <1>3, <1>5 DEF Taken
<1>7. Rolled(l) \in Limiter
  <2>1. [l EXCEPT !.requests = 0, !.today = TRUE] \in Limiter
    BY <1>5
  <2> QED BY <2>1 DEF Rolled
<1>8. FreshLimiter(m) \in Limiter
  <2>1. (Rpd[m] = 0) \in BOOLEAN
    OBVIOUS
  <2> QED BY <1>2, <1>5, <2>1 DEF FreshLimiter
<1>9. /\ [l EXCEPT !.requests = 0] \in Limiter
      /\ [l EXCEPT !.today = Rpd[m] = 0] \in Limiter
  BY <1>5
<1>10. [l EXCEPT !.tokens = IF @ < Tpm THEN @ + 1 ELSE @, !.soon = FALSE] \in Limiter
  BY <1>2, <1>5
<1> QED BY <1>1, <1>4, <1>6, <1>7, <1>8, <1>9, <1>10

\* A budget whose day is looked at.
LEMMA WithinRolled ==
  ASSUME NEW m \in Models, NEW b \in Budget, NEW p \in Nat, NEW w \in 0..DocCount,
         WithinBudget(m, b, p, w)
  PROVE  RolledBudget(b).today /\ WithinBudget(m, RolledBudget(b), p, w)
<1>0. b.today \in BOOLEAN /\ Tpd[m] \in Nat /\ DocCount \in Nat \ {0}
  BY BudgetType, DocCountType
<1>1. CASE b.today
  BY <1>1 DEF RolledBudget
<1>2. CASE ~b.today
  <2> DEFINE new == [b EXCEPT !.used = 0, !.today = TRUE]
  <2>1. RolledBudget(b) = new /\ new.used = 0 /\ new.today
    BY <1>2 DEF RolledBudget, Budget
  <2> HIDE DEF new
  <2>2. Tpd[m] > 0 => p + w <= DocCount
    BY <1>2 DEF WithinBudget
  <2>3. Tpd[m] > 0 => p + w <= Tpd[m] + 2 * DocCount - 1 /\ p <= 0 + DocCount
    BY <1>0, <2>2
  <2> QED BY <2>1, <2>3 DEF WithinBudget
<1> QED BY <1>0, <1>1, <1>2

\* A test that passes lets one more wait.
LEMMA WithinTested ==
  ASSUME NEW m \in Models, NEW b \in Budget, NEW p \in Nat, NEW w \in 0..DocCount,
         WithinBudget(m, b, p, w), b.today, Tpd[m] = 0 \/ b.used + 1 <= Tpd[m],
         w + 1 <= DocCount
  PROVE  WithinBudget(m, b, p, w + 1)
<1>1. b.used \in Nat /\ Tpd[m] \in Nat /\ DocCount \in Nat \ {0}
  BY BudgetType, DocCountType
<1>2. Tpd[m] > 0 => b.used < Tpd[m] /\ p <= b.used + DocCount
  BY <1>1 DEF WithinBudget
<1>3. Tpd[m] > 0 => p + (w + 1) <= Tpd[m] + 2 * DocCount - 1
  BY <1>1, <1>2
<1> QED BY <1>2, <1>3 DEF WithinBudget

\* One that has waited pays.
LEMMA WithinPaid ==
  ASSUME NEW m \in Models, NEW b \in Budget, NEW p \in Nat, NEW w \in 0..DocCount,
         WithinBudget(m, b, p, w + 1)
  PROVE  WithinBudget(m, Spent(b, m), Counted(p, MaxPaid(m)), w)
<1> DEFINE new == [b EXCEPT !.used = Counted(@, Tpd[m])]
           q == Counted(p, MaxPaid(m))
<1>1. b.used \in Nat /\ b.today \in BOOLEAN /\ Tpd[m] \in Nat /\ DocCount \in Nat \ {0}
  BY BudgetType, DocCountType
<1>2. Spent(b, m) = new /\ new.today = b.today /\ new.used = Counted(b.used, Tpd[m])
  BY DEF Spent, Budget
<1>3. q \in {p, p + 1}
  BY DEF Counted
<1>4. q \in Nat /\ q <= p + 1
  BY <1>3
<1>5. Counted(b.used, Tpd[m]) = IF b.used < Tpd[m] THEN b.used + 1 ELSE b.used
  BY DEF Counted
<1> HIDE DEF new, q
<1>6. ASSUME Tpd[m] > 0, ~b.today PROVE q + w <= DocCount
  BY <1>1, <1>4, <1>6 DEF WithinBudget
<1>7. ASSUME Tpd[m] > 0, b.today
      PROVE  /\ q + w <= Tpd[m] + 2 * DocCount - 1
             /\ new.used < Tpd[m] => q <= new.used + DocCount
  <2>1. p + (w + 1) <= Tpd[m] + 2 * DocCount - 1 /\ (b.used < Tpd[m] => p <= b.used + DocCount)
    BY <1>7 DEF WithinBudget
  <2>2. q + w <= Tpd[m] + 2 * DocCount - 1
    BY <1>1, <1>4, <2>1
  <2>3. new.used < Tpd[m] => q <= new.used + DocCount
    BY <1>1, <1>2, <1>4, <1>5, <2>1
  <2> QED BY <2>2, <2>3
<1> QED BY <1>2, <1>6, <1>7 DEF WithinBudget, q

\* Errors only close budgets.
LEMMA WithinClosed ==
  ASSUME NEW m \in Models, NEW b \in Budget, NEW p \in Nat, NEW w \in 0..DocCount,
         WithinBudget(m, b, p, w)
  PROVE  /\ WithinBudget(m, [b EXCEPT !.dead = TRUE], p, w)
         /\ WithinBudget(m, [b EXCEPT !.used = Tpd[m]], p, w)
<1>1. Tpd[m] \in Nat
  BY BudgetType
<1>2. /\ [b EXCEPT !.dead = TRUE].used = b.used /\ [b EXCEPT !.dead = TRUE].today = b.today
      /\ [b EXCEPT !.used = Tpd[m]].used = Tpd[m] /\ [b EXCEPT !.used = Tpd[m]].today = b.today
  BY DEF Budget
<1> QED BY <1>1, <1>2 DEF WithinBudget

LEMMA OverNext ==
  ASSUME keys' = keys,
         Pool => /\ \A d \in TransDocs : doc'[d].pc \notin {"tpd", "tpdOver"}
                 /\ ~restarted' =>
                      \A m \in Models :
                        WithinBudget(m, budget'[m], paid'[m], Cardinality(QueueOf(doc', m)))
  PROVE  OverInv'
BY DEF OverInv, Pool, WithinBudget, QueueOf

TransIInv == MeetInv /\ CountsOK /\ OverInv

\* Steps that leave the queues alone and at most close budgets.
LEMMA AsideKeeps ==
  ASSUME TransIInv, MeetInv', Aside, UNCHANGED <<limiter, paid, keys, restarted>>,
         budget' \in [Models -> Budget],
         \A m \in Models : \/ budget'[m] = budget[m]
                           \/ budget'[m] = [budget[m] EXCEPT !.dead = TRUE]
                           \/ budget'[m] = [budget[m] EXCEPT !.used = Tpd[m]]
  PROVE  TransIInv'
<1>1. CountsOK'
  BY DEF TransIInv, CountsOK
<1>2. ASSUME Pool, NEW d \in TransDocs PROVE doc'[d].pc \notin {"tpd", "tpdOver"}
  BY <1>2 DEF TransIInv, OverInv, Aside, Queued
<1>3. ASSUME Pool, ~restarted, NEW m \in Models
      PROVE  WithinBudget(m, budget'[m], paid'[m], Cardinality(QueueOf(doc', m)))
  <2>1. QueueOf(doc', m) = QueueOf(doc, m)
    BY QueueSame DEF Aside
  <2>2. WithinBudget(m, budget[m], paid[m], Cardinality(QueueOf(doc, m)))
    BY <1>3 DEF TransIInv, OverInv
  <2>3. /\ budget[m] \in Budget /\ paid[m] \in Nat
        /\ Cardinality(QueueOf(doc, m)) \in 0..DocCount
    BY QueueType DEF TransIInv, CountsOK
  <2>4. /\ WithinBudget(m, [budget[m] EXCEPT !.dead = TRUE], paid[m], Cardinality(QueueOf(doc, m)))
        /\ WithinBudget(m, [budget[m] EXCEPT !.used = Tpd[m]], paid[m], Cardinality(QueueOf(doc, m)))
    BY <2>2, <2>3, WithinClosed
  <2> QED BY <2>1, <2>2, <2>4
<1>4. OverInv'
  BY <1>2, <1>3, OverNext
<1> QED BY <1>1, <1>4 DEF TransIInv

LEMMA DocsOnly ==
  ASSUME TransIInv, MeetInv', Aside, UNCHANGED Counts, UNCHANGED <<keys, restarted>>
  PROVE  TransIInv'
<1>1. UNCHANGED <<limiter, paid, keys, restarted>> /\ budget' = budget
  BY DEF Counts
<1>2. budget' \in [Models -> Budget]
  BY <1>1 DEF TransIInv, CountsOK
<1> QED BY <1>1, <1>2, AsideKeeps

LEMMA SetAside ==
  ASSUME MeetInv, NEW d \in TransDocs, NEW new, SetDoc(d, new),
         doc[d].pc \notin Queued, new.pc \notin Queued
  PROVE  Aside
BY DEF MeetInv, SetDoc, Aside

LEMMA StartDocKeeps ==
  ASSUME TransIInv, NEW d \in TransDocs, StartDoc(d)
  PROVE  TransIInv'
<1> DEFINE new == [NoDoc EXCEPT !.pc = "choose"]
<1>1. /\ doc[d].pc = "idle" /\ SetDoc(d, new) /\ UNCHANGED Counts
      /\ UNCHANGED <<inflight, stored, keys, restarted>> /\ MeetInv
  BY DEF StartDoc, DocAt, Rest, TransIInv
<1>2. Keys # {}
  BY <1>1 DEF MeetInv
<1>3. new.pc = "choose" /\ new.seg = 0 /\ DocOK(d, new)
  BY <1>2, DocBegun
<1> HIDE DEF new
<1>4. MeetInv'
  BY <1>1, <1>3, OwesNothing DEF Working
<1>5. Aside
  BY <1>1, <1>3, SetAside DEF Queued
<1> QED BY <1>1, <1>4, <1>5, DocsOnly

LEMMA DetectedKeeps ==
  ASSUME TransIInv, NEW d \in TransDocs, NEW english \in BOOLEAN, Detected(d, english)
  PROVE  TransIInv'
<1> DEFINE new == IF english THEN GiveUp ELSE [NoDoc EXCEPT !.pc = "lookup", !.seg = 1]
<1>1. /\ doc[d].pc = "call" /\ doc[d].seg = 0 /\ SetDoc(d, new) /\ UNCHANGED Counts
      /\ UNCHANGED <<inflight, stored, keys, restarted>> /\ MeetInv
  BY DEF Detected, DocAt, Detecting, Rest, TransIInv
<1>2. Keys # {}
  BY <1>1 DEF MeetInv
<1>3. new.pc \in {"lookup", "done"} /\ DocOK(d, new)
  BY <1>2, DocBegun DEF GiveUp
<1> HIDE DEF new
<1>4. MeetInv'
  BY <1>1, <1>3, OwesNothing DEF Working
<1>5. Aside
  BY <1>1, <1>3, SetAside DEF Queued
<1> QED BY <1>1, <1>4, <1>5, DocsOnly

LEMMA LookupKeeps ==
  ASSUME TransIInv, NEW d \in TransDocs, Lookup(d)
  PROVE  TransIInv'
<1> DEFINE s == Text(d)
           go == [doc[d] EXCEPT !.pc = IF s \in inflight THEN "join" ELSE "choose"]
           new == IF s \in stored THEN Onward(doc[d], d, s) ELSE go
<1>1. /\ doc[d].pc = "lookup" /\ SetDoc(d, new) /\ UNCHANGED Counts
      /\ inflight' = inflight \cup ({s} \ stored)
      /\ UNCHANGED <<stored, keys, restarted>> /\ MeetInv
  BY DEF Lookup, DocAt, Rest, TransIInv
<1>2. /\ Keys # {} /\ DocOK(d, doc[d]) /\ doc[d] \in Doc /\ doc[d].seg # 0 /\ s \in Segments
      /\ doc[d].seg \in 1..Len(SegmentsOf[d]) /\ s = SegmentsOf[d][doc[d].seg]
  BY <1>1, TextOwed DEF MeetInv, DocOK, Text, DocAt
<1>3. CASE s \in stored
  <2>1. new.pc \in {"lookup", "done"} /\ DocOK(d, new)
    BY <1>2, <1>3, DocOnward
  <2>2. UNCHANGED <<inflight, stored, keys, restarted>>
    BY <1>1, <1>3
  <2> HIDE DEF new
  <2>3. MeetInv'
    BY <1>1, <2>1, <2>2, OwesNothing DEF Working
  <2>4. Aside
    BY <1>1, <2>1, SetAside DEF Queued
  <2> QED BY <1>1, <2>3, <2>4, DocsOnly
<1>4. CASE s \notin stored
  <2>1. /\ new \in Doc /\ new.pc = IF s \in inflight THEN "join" ELSE "choose"
        /\ new.seg = doc[d].seg /\ new.got = doc[d].got /\ new.english = doc[d].english
    <3> DEFINE pc == IF s \in inflight THEN "join" ELSE "choose"
    <3>1. pc \in DocPcs /\ new = [doc[d] EXCEPT !.pc = pc]
      BY <1>4 DEF DocPcs
    <3> HIDE DEF pc, new
    <3>2. /\ new \in Doc /\ new.pc = pc
          /\ new.seg = doc[d].seg /\ new.got = doc[d].got /\ new.english = doc[d].english
      BY <1>2, <3>1, DocMoved
    <3> QED BY <3>2 DEF pc
  <2>2. DocOK(d, new)
    BY <1>2, <2>1 DEF DocOK
  <2>3. inflight' = inflight \cup {s}
    BY <1>1, <1>4
  <2> HIDE DEF new
  <2>4. Aside
    BY <1>1, <2>1, SetAside DEF Queued
  <2>5. \A e \in TransDocs : doc'[e] = IF e = d THEN new ELSE doc[e]
    BY <1>1 DEF MeetInv, SetDoc
  <2>6. doc' \in [TransDocs -> Doc]
    BY <1>1, <2>1 DEF MeetInv, SetDoc
  <2>7. \A e \in TransDocs : DocOK(e, doc'[e])
    BY <1>1, <2>2, <2>5 DEF MeetInv
  <2>8. ASSUME NEW e \in TransDocs, NEW t \in Segments
        PROVE  /\ OwesText(e, doc'[e], t) <=> IF e = d THEN s \notin inflight /\ t = s
                                          ELSE OwesText(e, doc[e], t)
               /\ Awaits(e, doc'[e], t) => t = s \/ Awaits(e, doc[e], t)
    <3>1. CASE e = d
      BY <1>2, <2>1, <2>5, <3>1 DEF OwesText, Awaits, Working
    <3>2. CASE e # d
      BY <2>5, <3>2
    <3> QED BY <3>1, <3>2
  <2>9. \A e \in TransDocs, t \in Segments :
          OwesText(e, doc'[e], t) => t \in inflight' /\ t \notin stored'
    BY <1>1, <1>4, <2>3, <2>8 DEF MeetInv
  <2>10. \A e, f \in TransDocs, t \in Segments :
           OwesText(e, doc'[e], t) /\ OwesText(f, doc'[f], t) => e = f
    BY <1>1, <1>2, <2>8 DEF MeetInv
  <2>11. \A e \in TransDocs, t \in Segments : Awaits(e, doc'[e], t) => t \in inflight'
    BY <1>1, <2>3, <2>8 DEF MeetInv
  <2>12. ASSUME NEW t \in inflight' PROVE \E e \in TransDocs : OwesText(e, doc'[e], t)
    <3>1. CASE t \in inflight
      <4>1. t \in Segments
        BY <1>1, <3>1 DEF MeetInv
      <4>2. PICK e \in TransDocs : OwesText(e, doc[e], t)
        BY <1>1, <3>1 DEF MeetInv
      <4>3. e # d
        BY <1>1, <4>2 DEF OwesText, Working
      <4> QED BY <2>8, <4>1, <4>2, <4>3
    <3>2. CASE t \notin inflight
      <4>1. t = s
        BY <2>3, <3>2
      <4> QED BY <1>2, <2>8, <3>2, <4>1
    <3> QED BY <3>1, <3>2
  <2>13. /\ inflight' \subseteq Segments /\ stored' \subseteq Segments
         /\ keys' \in (SUBSET Keys) \ {{}} /\ restarted' \in BOOLEAN
    BY <1>1, <1>2, <2>3 DEF MeetInv
  <2>14. MeetInv'
    BY <2>6, <2>7, <2>9, <2>10, <2>11, <2>12, <2>13 DEF MeetInv, DocOK, TextsTo, OwesText, Awaits
  <2> QED BY <1>1, <2>4, <2>14, DocsOnly
<1> QED BY <1>3, <1>4

LEMMA TranslatedKeeps ==
  ASSUME TransIInv, NEW d \in TransDocs, NEW kept \in BOOLEAN, Translated(d, kept)
  PROVE  TransIInv'
<1>1. /\ doc[d].pc = "call" /\ doc[d].seg # 0 /\ Settle(d, Text(d), TRUE) /\ UNCHANGED Counts
      /\ stored' = stored \/ stored' = stored \cup {Text(d)}
      /\ UNCHANGED <<keys, restarted>> /\ MeetInv
  BY DEF Translated, DocAt, Detecting, TransIInv
<1>2. Text(d) \in Segments /\ OwesText(d, doc[d], Text(d))
  BY <1>1, TextOwed DEF OwesText, Text, Working
<1>3. MeetInv' /\ Aside
  BY <1>1, <1>2, SettleKeeps DEF Queued
<1> QED BY <1>1, <1>3, DocsOnly

LEMMA TransientKeeps ==
  ASSUME TransIInv, NEW d \in TransDocs, Transient(d)
  PROVE  TransIInv'
<1>1. /\ doc[d].pc = "call" /\ DocFails(d) /\ UNCHANGED Counts
      /\ UNCHANGED <<stored, keys, restarted>> /\ MeetInv
  BY DEF Transient, DocAt, Rest, TransIInv
<1>2. MeetInv' /\ Aside
  BY <1>1, FailKeeps DEF Queued, Working
<1> QED BY <1>1, <1>2, DocsOnly

LEMMA AssignedDoc ==
  ASSUME NEW r \in Doc, NEW pc \in DocPcs, NEW k \in Keys, NEW m \in Models
  PROVE  /\ Assigned(r, pc, k, m) \in Doc /\ Assigned(r, pc, k, m).pc = pc
         /\ Assigned(r, pc, k, m).seg = r.seg /\ Assigned(r, pc, k, m).got = r.got
         /\ Assigned(r, pc, k, m).english = r.english /\ Assigned(r, pc, k, m).model = m
<1>1. PICK P, T, M, G :
        /\ P = DocPcs /\ T = 0..ModelCount /\ M = Models /\ G = SUBSET Segments
        /\ Doc = [pc : P, seg : Nat, tries : T, key : Keys, model : M, got : G, english : BOOLEAN]
  BY DocType
<1>2. /\ Doc = [pc : P, seg : Nat, tries : T, key : Keys, model : M, got : G, english : BOOLEAN]
      /\ pc \in P /\ m \in M /\ r \in Doc /\ k \in Keys
  BY <1>1
<1> QED BY ONLY <1>2 DEF Assigned

\* What a document asks for, of which key and model, is its text's business only in MeetInv.
LEMMA AssignedKeeps ==
  ASSUME MeetInv, NEW d \in TransDocs, doc[d].pc \in Working, NEW pc \in Working,
         NEW k \in Keys, NEW m \in Models, SetDoc(d, Assigned(doc[d], pc, k, m)),
         UNCHANGED <<inflight, stored, keys, restarted>>
  PROVE  /\ MeetInv' /\ doc'[d].pc = pc /\ doc'[d].model = m
         /\ \A e \in TransDocs \ {d} : doc'[e] = doc[e]
<1> DEFINE new == Assigned(doc[d], pc, k, m)
<1>1. doc \in [TransDocs -> Doc] /\ doc[d] \in Doc /\ pc \in DocPcs
  BY DEF MeetInv, Working, DocPcs
<1>2. /\ new \in Doc /\ new.pc = pc /\ new.seg = doc[d].seg /\ new.got = doc[d].got
      /\ new.english = doc[d].english /\ new.model = m
  BY <1>1, AssignedDoc
<1> HIDE DEF new
<1>3. SetDoc(d, new)
  BY DEF new
<1>4. MeetInv'
  BY <1>2, <1>3, WorksOn
<1>5. doc'[d] = new /\ \A e \in TransDocs \ {d} : doc'[e] = doc[e]
  BY <1>1, <1>3 DEF SetDoc
<1> QED BY <1>2, <1>4, <1>5

LEMMA GotoKeeps ==
  ASSUME MeetInv, NEW d \in TransDocs, doc[d].pc \in Working, NEW pc \in Working,
         DocGoto(d, pc), UNCHANGED <<inflight, stored, keys, restarted>>
  PROVE  /\ MeetInv' /\ doc'[d].pc = pc /\ doc'[d].model = doc[d].model
         /\ \A e \in TransDocs \ {d} : doc'[e] = doc[e]
<1> DEFINE new == [doc[d] EXCEPT !.pc = pc]
<1>1. doc \in [TransDocs -> Doc] /\ doc[d] \in Doc /\ pc \in DocPcs
  BY DEF MeetInv, Working, DocPcs
<1>2. /\ new \in Doc /\ new.pc = pc /\ new.seg = doc[d].seg /\ new.got = doc[d].got
      /\ new.english = doc[d].english /\ new.model = doc[d].model
  BY <1>1, DocMoved
<1> HIDE DEF new
<1>3. SetDoc(d, new)
  BY DEF DocGoto, new
<1>4. MeetInv'
  BY <1>2, <1>3, WorksOn
<1>5. doc'[d] = new /\ \A e \in TransDocs \ {d} : doc'[e] = doc[e]
  BY <1>1, <1>3 DEF SetDoc
<1> QED BY <1>2, <1>4, <1>5

LEMMA RetryKeeps ==
  ASSUME MeetInv, NEW d \in TransDocs, doc[d].pc = "call", RetryTranslation(d),
         UNCHANGED <<stored, keys, restarted>>
  PROVE  MeetInv' /\ Aside
<1>1. CASE doc[d].tries + 1 < ModelCount
  <2> DEFINE r == [doc[d] EXCEPT !.tries = @ + 1]
             new == Assigned(r, "choose", SomeKey, 1)
  <2>1. SetDoc(d, new) /\ UNCHANGED inflight
    BY <1>1 DEF RetryTranslation
  <2>2. doc[d] \in Doc /\ SomeKey \in Keys /\ 1 \in Models /\ "choose" \in DocPcs
    BY TranslationAssumption DEF MeetInv, SomeKey, Models, DocPcs
  <2>3. /\ r \in Doc /\ r.seg = doc[d].seg /\ r.got = doc[d].got
        /\ r.english = doc[d].english
    <3>1. PICK P, T, M, G :
            /\ P = DocPcs /\ T = 0..ModelCount /\ M = Models /\ G = SUBSET Segments
            /\ Doc = [pc : P, seg : Nat, tries : T, key : Keys, model : M, got : G,
                      english : BOOLEAN]
      BY DocType
    <3>2. doc[d].tries + 1 \in T
      BY <1>1, <2>2, <3>1, DocFields, TranslationAssumption
    <3>3. /\ Doc = [pc : P, seg : Nat, tries : T, key : Keys, model : M, got : G,
                    english : BOOLEAN]
          /\ doc[d] \in Doc
      BY <2>2, <3>1
    <3> QED BY ONLY <3>2, <3>3
  <2> HIDE DEF r
  <2>4. /\ new \in Doc /\ new.pc = "choose" /\ new.seg = r.seg /\ new.got = r.got
        /\ new.english = r.english
    BY <2>2, <2>3, AssignedDoc
  <2> HIDE DEF new
  <2>5. MeetInv'
    BY <2>1, <2>3, <2>4, WorksOn DEF Working
  <2>6. Aside
    BY <2>1, <2>4, SetAside DEF Queued
  <2> QED BY <2>5, <2>6
<1>2. CASE ~(doc[d].tries + 1 < ModelCount)
  <2>1. DocFails(d)
    BY <1>2 DEF RetryTranslation
  <2> QED BY <2>1, FailKeeps DEF Working, Queued
<1> QED BY <1>1, <1>2

LEMMA ErrorKeeps ==
  ASSUME TransIInv, NEW d \in TransDocs, HardError(d) \/ SpentError(d)
  PROVE  TransIInv'
<1> DEFINE m == doc[d].model
<1>1. /\ doc[d].pc = "call" /\ RetryTranslation(d)
      /\ UNCHANGED <<limiter, paid, stored, keys, restarted>> /\ MeetInv
      /\ \/ budget' = [budget EXCEPT ![m].dead = TRUE]
         \/ budget' = [budget EXCEPT ![m].used = Tpd[m]]
         \/ budget' = budget
  BY DEF HardError, SpentError, DocAt, Rest, TransIInv
<1>2. MeetInv' /\ Aside
  BY <1>1, RetryKeeps
<1>3. m \in Models /\ budget \in [Models -> Budget]
  BY <1>1, DocFields DEF MeetInv, TransIInv, CountsOK
<1> HIDE DEF m
<1>4. ASSUME NEW n \in Models
      PROVE  /\ budget[n] \in Budget /\ budget'[n] \in Budget
             /\ \/ budget'[n] = budget[n]
                \/ budget'[n] = [budget[n] EXCEPT !.dead = TRUE]
                \/ budget'[n] = [budget[n] EXCEPT !.used = Tpd[n]]
  <2>1. /\ budget[n] \in Budget /\ [budget[n] EXCEPT !.dead = TRUE] \in Budget
        /\ [budget[n] EXCEPT !.used = Tpd[n]] \in Budget
    BY <1>3, BudgetType
  <2>2. \/ budget'[n] = budget[n]
        \/ budget'[n] = [budget[n] EXCEPT !.dead = TRUE]
        \/ budget'[n] = [budget[n] EXCEPT !.used = Tpd[n]]
    BY <1>1, <1>3
  <2> QED BY <2>1, <2>2
<1>5. budget' \in [Models -> Budget]
  BY <1>1, <1>3, <1>4
<1> QED BY <1>1, <1>2, <1>4, <1>5, AsideKeeps

LEMMA LookedAtKeeps ==
  ASSUME CountsOK, NEW u \in Nat
  PROVE  /\ LookedAt(u) \in [Models -> Budget]
         /\ \A m \in Models : m <= u /\ ~budget[m].dead =>
              LookedAt(u)[m] = RolledBudget(budget[m])
         /\ OverInv /\ Pool /\ ~restarted =>
              \A m \in Models :
                WithinBudget(m, LookedAt(u)[m], paid[m], Cardinality(QueueOf(doc, m)))
<1>1. ASSUME NEW m \in Models
      PROVE  /\ LookedAt(u)[m] = IF m <= u /\ ~budget[m].dead THEN RolledBudget(budget[m])
                                 ELSE budget[m]
             /\ budget[m] \in Budget /\ RolledBudget(budget[m]) \in Budget
  BY BudgetType DEF LookedAt, CountsOK
<1>2. LookedAt(u) \in [Models -> Budget]
  BY <1>1 DEF LookedAt
<1>3. ASSUME OverInv, Pool, ~restarted, NEW m \in Models
      PROVE  WithinBudget(m, LookedAt(u)[m], paid[m], Cardinality(QueueOf(doc, m)))
  <2>1. WithinBudget(m, budget[m], paid[m], Cardinality(QueueOf(doc, m)))
    BY <1>3 DEF OverInv
  <2>2. paid[m] \in Nat /\ Cardinality(QueueOf(doc, m)) \in 0..DocCount
    BY QueueType DEF CountsOK
  <2>3. WithinBudget(m, RolledBudget(budget[m]), paid[m], Cardinality(QueueOf(doc, m)))
    BY <1>1, <2>1, <2>2, WithinRolled
  <2> QED BY <1>1, <2>1, <2>3
<1> QED BY <1>1, <1>2, <1>3

\* The model that is usable has its day looked at and a test that passes.
LEMMA UsableIsLookedAt ==
  ASSUME CountsOK, NEW m \in Models, UsableModel(m)
  PROVE  /\ LookedAt(m) \in [Models -> Budget] /\ LookedAt(m)[m].today
         /\ Tpd[m] = 0 \/ LookedAt(m)[m].used + 1 <= Tpd[m]
<1>1. m \in Nat /\ m <= m
  BY DEF Models
<1>2. LookedAt(m) \in [Models -> Budget] /\ LookedAt(m)[m] = RolledBudget(budget[m])
  BY <1>1, LookedAtKeeps DEF UsableModel
<1>3. RolledBudget(budget[m]).today
  <2>1. budget[m] \in Budget
    BY DEF CountsOK
  <2> QED BY <2>1 DEF RolledBudget, Budget
<1> QED BY <1>2, <1>3 DEF UsableModel, HasBudget

LEMMA ChargeCounts ==
  ASSUME CountsOK, NEW d \in TransDocs, NEW k \in Keys, NEW m \in Models,
         NEW l \in Limiter, l.tokens >= 1, NEW budgets \in [Models -> Budget],
         Charge(d, k, m, l, budgets)
  PROVE  /\ CountsOK'
         /\ budget'[m] = Spent(budgets[m], m) /\ paid'[m] = Counted(paid[m], MaxPaid(m))
         /\ \A n \in Models : n # m => budget'[n] = budgets[n] /\ paid'[n] = paid[n]
<1>1. /\ limiter' = [limiter EXCEPT ![k][m] = Taken(l, m)]
      /\ budget' = [budgets EXCEPT ![m] = Spent(@, m)]
      /\ paid' = [paid EXCEPT ![m] = Counted(@, MaxPaid(m))]
  BY DEF Charge
<1>2. /\ limiter \in [Keys -> [Models -> Limiter]] /\ paid \in [Models -> Nat]
      /\ Taken(l, m) \in Limiter /\ budgets[m] \in Budget
  BY LimiterType DEF CountsOK
<1>3. Spent(budgets[m], m) \in Budget /\ Counted(paid[m], MaxPaid(m)) \in Nat
  <2>1. paid[m] \in Nat
    BY <1>2
  <2>2. Counted(paid[m], MaxPaid(m)) \in Nat
    BY <2>1 DEF Counted
  <2> QED BY <1>2, <2>2, BudgetType
<1>4. limiter' \in [Keys -> [Models -> Limiter]]
  BY <1>1, <1>2
<1>5. budget' \in [Models -> Budget] /\ paid' \in [Models -> Nat]
  BY <1>1, <1>2, <1>3
<1> QED BY <1>1, <1>2, <1>4, <1>5 DEF CountsOK

LEMMA ReserveKeeps ==
  ASSUME TransIInv, NEW d \in TransDocs, NEW k \in Keys, NEW m \in Models, Reserve(d, k, m)
  PROVE  TransIInv'
<1> DEFINE l == Rolled(limiter[k][m])
           b == LookedAt(m)
<1>1. /\ doc[d].pc = "choose" /\ UsableModel(m) /\ limiter[k][m].tokens >= 1
      /\ Charge(d, k, m, l, b) /\ SetDoc(d, Assigned(doc[d], "call", k, m))
      /\ UNCHANGED <<inflight, stored, keys, restarted>>
      /\ MeetInv /\ CountsOK /\ OverInv
  BY DEF Reserve, Charge, DocAt, Ready, Rest, TransIInv
<1>2. l \in Limiter /\ l.tokens >= 1
  <2>1. limiter[k][m] \in Limiter
    BY <1>1 DEF CountsOK
  <2>2. l \in Limiter /\ l.tokens = limiter[k][m].tokens
    BY <2>1, LimiterType DEF Rolled, Limiter
  <2> QED BY <1>1, <2>2
<1>3. /\ b \in [Models -> Budget] /\ b[m].today
      /\ Tpd[m] = 0 \/ b[m].used + 1 <= Tpd[m]
  BY <1>1, UsableIsLookedAt
<1>4. /\ MeetInv' /\ doc'[d].pc = "call"
      /\ \A e \in TransDocs \ {d} : doc'[e] = doc[e]
  BY <1>1, AssignedKeeps DEF Working
<1> HIDE DEF l, b
<1>5. /\ CountsOK'
      /\ budget'[m] = Spent(b[m], m) /\ paid'[m] = Counted(paid[m], MaxPaid(m))
      /\ \A n \in Models : n # m => budget'[n] = b[n] /\ paid'[n] = paid[n]
  BY <1>1, <1>2, <1>3, ChargeCounts
<1>6. \A n \in Models : QueueOf(doc', n) = QueueOf(doc, n)
  BY <1>1, <1>4, QueueSame DEF Queued
<1>7. ASSUME Pool, NEW e \in TransDocs PROVE doc'[e].pc \notin {"tpd", "tpdOver"}
  BY <1>1, <1>4, <1>7 DEF OverInv
<1>8. ASSUME Pool, ~restarted', NEW n \in Models
      PROVE  WithinBudget(n, budget'[n], paid'[n], Cardinality(QueueOf(doc', n)))
  <2> DEFINE w == Cardinality(QueueOf(doc, n))
  <2>1. WithinBudget(n, b[n], paid[n], w)
    BY <1>1, <1>8, LookedAtKeeps DEF b, Models
  <2>2. w \in 0..DocCount /\ w + 1 <= DocCount /\ paid[n] \in Nat /\ b[n] \in Budget
    BY <1>1, <1>3, QueueType, QueueHasRoom DEF CountsOK, Queued
  <2>3. CASE n = m
    <3> HIDE DEF w
    <3>1. WithinBudget(n, b[n], paid[n], w + 1)
      BY <1>3, <2>1, <2>2, <2>3, WithinTested
    <3>2. WithinBudget(n, Spent(b[n], n), Counted(paid[n], MaxPaid(n)), w)
      BY <2>2, <3>1, WithinPaid
    <3> QED BY <1>5, <1>6, <2>3, <3>2 DEF w
  <2>4. CASE n # m
    BY <1>5, <1>6, <2>1, <2>4
  <2> QED BY <2>3, <2>4
<1>9. OverInv'
  BY <1>1, <1>7, <1>8, OverNext
<1> QED BY <1>4, <1>5, <1>9 DEF TransIInv

LEMMA PauseType ==
  ASSUME NEW l, NEW b, NEW m
  PROVE  /\ FirstPause(l, b, m) \in {"rpd", "tpd", "pace", "bucket"}
         /\ Pool => FirstPause(l, b, m) # "tpd"
BY DEF FirstPause

LEMMA WaitOnKeyKeeps ==
  ASSUME TransIInv, NEW d \in TransDocs, NEW k \in Keys, NEW m \in Models, WaitOnKey(d, k, m)
  PROVE  TransIInv'
<1> DEFINE l == Rolled(limiter[k][m])
           b == LookedAt(m)
           pc == FirstPause(l, budget[m], m)
<1>1. /\ doc[d].pc = "choose" /\ UsableModel(m)
      /\ limiter' = [limiter EXCEPT ![k][m] = l] /\ budget' = b /\ paid' = paid
      /\ SetDoc(d, Assigned(doc[d], pc, k, m))
      /\ UNCHANGED <<inflight, stored, keys, restarted>>
      /\ MeetInv /\ CountsOK /\ OverInv
  BY DEF WaitOnKey, DocAt, Rest, TransIInv
<1>2. l \in Limiter
  <2>1. limiter[k][m] \in Limiter
    BY <1>1 DEF CountsOK
  <2> QED BY <2>1, LimiterType
<1>3. /\ b \in [Models -> Budget] /\ b[m].today
      /\ Tpd[m] = 0 \/ b[m].used + 1 <= Tpd[m]
  BY <1>1, UsableIsLookedAt
<1>4. pc \in {"rpd", "tpd", "pace", "bucket"} /\ (Pool => pc # "tpd")
  BY PauseType
<1> HIDE DEF l, b, pc
<1>5. /\ MeetInv' /\ doc'[d].pc = pc /\ doc'[d].model = m
      /\ \A e \in TransDocs \ {d} : doc'[e] = doc[e]
  BY <1>1, <1>4, AssignedKeeps DEF Working
<1>6. CountsOK'
  BY <1>1, <1>2, <1>3 DEF CountsOK
<1>7. ASSUME Pool, NEW e \in TransDocs PROVE doc'[e].pc \notin {"tpd", "tpdOver"}
  BY <1>1, <1>4, <1>5, <1>7 DEF OverInv
<1>8. ASSUME Pool, ~restarted', NEW n \in Models
      PROVE  WithinBudget(n, budget'[n], paid'[n], Cardinality(QueueOf(doc', n)))
  <2> DEFINE w == Cardinality(QueueOf(doc, n))
  <2>1. WithinBudget(n, b[n], paid[n], w)
    BY <1>1, <1>8, LookedAtKeeps DEF b, Models
  <2>2. w \in 0..DocCount /\ w + 1 <= DocCount /\ paid[n] \in Nat /\ b[n] \in Budget
    BY <1>1, <1>3, QueueType, QueueHasRoom DEF CountsOK, Queued
  <2>3. /\ Cardinality(QueueOf(doc', m)) = Cardinality(QueueOf(doc, m)) + 1
        /\ n # m => QueueOf(doc', n) = QueueOf(doc, n)
    BY <1>1, <1>4, <1>5, QueueJoined DEF Queued
  <2>4. CASE n = m
    <3>0. Cardinality(QueueOf(doc', n)) = w + 1
      BY <2>3, <2>4
    <3> HIDE DEF w
    <3>1. WithinBudget(n, b[n], paid[n], w + 1)
      BY <1>3, <2>1, <2>2, <2>4, WithinTested
    <3> QED BY <1>1, <3>0, <3>1
  <2>5. CASE n # m
    BY <1>1, <2>1, <2>3, <2>5
  <2> QED BY <2>4, <2>5
<1>9. OverInv'
  BY <1>1, <1>7, <1>8, OverNext
<1> QED BY <1>5, <1>6, <1>9 DEF TransIInv

LEMMA WaitAloneKeeps ==
  ASSUME TransIInv, NEW d \in TransDocs, NEW k \in Keys, WaitAlone(d, k)
  PROVE  TransIInv'
<1> DEFINE l == Rolled(limiter[k][1])
           b == RolledBudget(budget[1])
           pc == FirstPause(l, b, 1)
<1>1. /\ doc[d].pc = "choose" /\ ~Pool
      /\ limiter' = [limiter EXCEPT ![k][1] = l]
      /\ budget' = [budget EXCEPT ![1] = b] /\ paid' = paid
      /\ SetDoc(d, Assigned(doc[d], pc, k, 1))
      /\ UNCHANGED <<inflight, stored, keys, restarted>>
      /\ MeetInv /\ CountsOK
  BY DEF WaitAlone, DocAt, Rest, TransIInv
<1>2. 1 \in Models
  BY TranslationAssumption DEF Models
<1>3. l \in Limiter /\ b \in Budget
  <2>1. limiter[k][1] \in Limiter /\ budget[1] \in Budget
    BY <1>1, <1>2 DEF CountsOK
  <2> QED BY <1>2, <2>1, LimiterType, BudgetType
<1>4. pc \in Working
  BY PauseType DEF Working
<1> HIDE DEF l, b, pc
<1>5. MeetInv'
  BY <1>1, <1>2, <1>4, AssignedKeeps DEF Working
<1>6. CountsOK'
  BY <1>1, <1>2, <1>3 DEF CountsOK
<1>7. OverInv'
  BY <1>1, OverNext
<1> QED BY <1>5, <1>6, <1>7 DEF TransIInv

LEMMA NoModelKeeps ==
  ASSUME TransIInv, NEW d \in TransDocs, NoModel(d)
  PROVE  TransIInv'
<1> DEFINE b == LookedAt(ModelCount)
<1>1. /\ doc[d].pc = "choose" /\ budget' = b /\ UNCHANGED <<limiter, paid>>
      /\ UNCHANGED <<stored, keys, restarted>>
      /\ DocFails(d) \/ (DocGoto(d, "midnight") /\ UNCHANGED inflight)
      /\ MeetInv /\ CountsOK /\ OverInv
  BY DEF NoModel, DocAt, Rest, TransIInv
<1>2. MeetInv' /\ Aside
  <2>1. CASE DocFails(d)
    BY <1>1, <2>1, FailKeeps DEF Working, Queued
  <2>2. CASE DocGoto(d, "midnight") /\ UNCHANGED inflight
    <3>1. /\ MeetInv' /\ doc'[d].pc = "midnight"
          /\ \A e \in TransDocs \ {d} : doc'[e] = doc[e]
      BY <1>1, <2>2, GotoKeeps DEF Working
    <3> QED BY <1>1, <3>1 DEF Aside, Queued
  <2> QED BY <1>1, <2>1, <2>2
<1>3. ModelCount \in Nat
  BY TranslationAssumption
<1>4. b \in [Models -> Budget]
  BY <1>1, <1>3, LookedAtKeeps
<1>5. CountsOK'
  BY <1>1, <1>4 DEF CountsOK
<1>6. ASSUME Pool, NEW e \in TransDocs PROVE doc'[e].pc \notin {"tpd", "tpdOver"}
  BY <1>1, <1>2, <1>6 DEF OverInv, Aside, Queued
<1>7. ASSUME Pool, ~restarted', NEW n \in Models
      PROVE  WithinBudget(n, budget'[n], paid'[n], Cardinality(QueueOf(doc', n)))
  <2>1. WithinBudget(n, b[n], paid[n], Cardinality(QueueOf(doc, n)))
    BY <1>1, <1>3, <1>7, LookedAtKeeps
  <2>2. QueueOf(doc', n) = QueueOf(doc, n)
    BY <1>2, QueueSame DEF Aside
  <2> QED BY <1>1, <2>1, <2>2
<1>8. OverInv'
  BY <1>1, <1>6, <1>7, OverNext
<1> QED BY <1>2, <1>5, <1>8 DEF TransIInv

LEMMA RpdOverKeeps ==
  ASSUME TransIInv, NEW d \in TransDocs, RpdOver(d)
  PROVE  TransIInv'
<1> DEFINE k == doc[d].key
           m == doc[d].model
           l == [limiter[k][m] EXCEPT !.requests = 0]
           pc == FirstPause([l EXCEPT !.requests = 0], budget[m], m)
<1>1. /\ doc[d].pc = "rpdOver" /\ limiter' = [limiter EXCEPT ![k][m] = l]
      /\ DocGoto(d, pc) /\ UNCHANGED <<budget, paid, inflight, stored, keys, restarted>>
      /\ MeetInv /\ CountsOK /\ OverInv
  BY DEF RpdOver, DocAt, Rest, TransIInv
<1>2. k \in Keys /\ m \in Models
  BY <1>1, DocFields DEF MeetInv
<1>3. l \in Limiter
  <2>1. limiter[k][m] \in Limiter
    BY <1>1, <1>2 DEF CountsOK
  <2> QED BY <1>2, <2>1, LimiterType
<1>4. pc \in {"rpd", "tpd", "pace", "bucket"} /\ (Pool => pc # "tpd")
  BY PauseType
<1> HIDE DEF l, pc, k, m
<1>5. /\ MeetInv' /\ doc'[d].pc = pc /\ doc'[d].model = doc[d].model
      /\ \A e \in TransDocs \ {d} : doc'[e] = doc[e]
  BY <1>1, <1>4, GotoKeeps DEF Working
<1>6. CountsOK'
  BY <1>1, <1>2, <1>3 DEF CountsOK
<1>7. ASSUME Pool, NEW e \in TransDocs PROVE doc'[e].pc \notin {"tpd", "tpdOver"}
  BY <1>1, <1>4, <1>5, <1>7 DEF OverInv
<1>8. ASSUME Pool, ~restarted', NEW n \in Models
      PROVE  WithinBudget(n, budget'[n], paid'[n], Cardinality(QueueOf(doc', n)))
  <2>1. WithinBudget(n, budget[n], paid[n], Cardinality(QueueOf(doc, n)))
    BY <1>1, <1>8 DEF OverInv
  <2>2. \A e \in TransDocs : doc'[e].pc \in Queued /\ doc'[e].model = n
                              <=> doc[e].pc \in Queued /\ doc[e].model = n
    BY <1>1, <1>4, <1>5 DEF Queued
  <2>3. QueueOf(doc', n) = QueueOf(doc, n)
    BY <2>2, QueueSame
  <2> QED BY <1>1, <2>1, <2>3
<1>9. OverInv'
  BY <1>1, <1>7, <1>8, OverNext
<1> QED BY <1>5, <1>6, <1>9 DEF TransIInv

\* Only a single key's documents wait for the budget of the next day.
LEMMA TpdOverKeeps ==
  ASSUME TransIInv, NEW d \in TransDocs, TpdOver(d)
  PROVE  TransIInv'
<1> DEFINE k == doc[d].key
           m == doc[d].model
           pc == IF limiter[k][m].soon THEN "pace" ELSE "bucket"
<1>1. /\ doc[d].pc = "tpdOver" /\ budget' = [budget EXCEPT ![m].used = 0]
      /\ DocGoto(d, pc) /\ UNCHANGED <<limiter, paid, inflight, stored, keys, restarted>>
      /\ MeetInv /\ CountsOK /\ OverInv
  BY DEF TpdOver, DocAt, Rest, TransIInv
<1>2. m \in Models /\ ~Pool /\ pc \in Working
  BY <1>1, DocFields DEF MeetInv, OverInv, Working
<1> HIDE DEF k, m, pc
<1>3. MeetInv'
  BY <1>1, <1>2, GotoKeeps DEF Working
<1>4. CountsOK'
  <2>1. budget[m] \in Budget /\ [budget[m] EXCEPT !.used = 0] \in Budget
    BY <1>1, <1>2, BudgetType DEF CountsOK
  <2> QED BY <1>1, <1>2, <2>1 DEF CountsOK
<1>5. OverInv'
  BY <1>1, <1>2, OverNext
<1> QED BY <1>3, <1>4, <1>5 DEF TransIInv

LEMMA TakeKeeps ==
  ASSUME TransIInv, NEW d \in TransDocs, Take(d)
  PROVE  TransIInv'
<1> DEFINE k == doc[d].key
           m == doc[d].model
           l == limiter[k][m]
<1>1. /\ doc[d].pc = "bucket" /\ l.tokens >= 1 /\ Charge(d, k, m, l, budget)
      /\ SetDoc(d, Assigned(doc[d], "call", k, m))
      /\ UNCHANGED <<inflight, stored, keys, restarted>>
      /\ MeetInv /\ CountsOK /\ OverInv
  BY DEF Take, Charge, DocAt, Rest, TransIInv
<1>2. k \in Keys /\ m \in Models /\ m = doc[d].model
  BY <1>1, DocFields DEF MeetInv
<1>3. l \in Limiter /\ budget \in [Models -> Budget]
  BY <1>1, <1>2 DEF CountsOK
<1> HIDE DEF l, k, m
<1>4. /\ MeetInv' /\ doc'[d].pc = "call"
      /\ \A e \in TransDocs \ {d} : doc'[e] = doc[e]
  BY <1>1, <1>2, AssignedKeeps DEF Working
<1>5. /\ CountsOK'
      /\ budget'[m] = Spent(budget[m], m) /\ paid'[m] = Counted(paid[m], MaxPaid(m))
      /\ \A n \in Models : n # m => budget'[n] = budget[n] /\ paid'[n] = paid[n]
  BY <1>1, <1>2, <1>3, ChargeCounts
<1>6. /\ Cardinality(QueueOf(doc, m)) = Cardinality(QueueOf(doc', m)) + 1
      /\ \A n : n # m => QueueOf(doc', n) = QueueOf(doc, n)
  <2>1. doc[d].pc \in Queued /\ doc'[d].pc \notin Queued /\ doc[d].model = m
    BY <1>1, <1>2, <1>4 DEF Queued
  <2>2. \A e \in TransDocs \ {d} : doc'[e] = doc[e]
    BY <1>4
  <2>3. d \in TransDocs
    OBVIOUS
  <2> QED BY ONLY <2>1, <2>2, <2>3, QueueLeft
<1>7. ASSUME Pool, NEW e \in TransDocs PROVE doc'[e].pc \notin {"tpd", "tpdOver"}
  BY <1>1, <1>4, <1>7 DEF OverInv
<1>8. ASSUME Pool, ~restarted', NEW n \in Models
      PROVE  WithinBudget(n, budget'[n], paid'[n], Cardinality(QueueOf(doc', n)))
  <2>1. WithinBudget(n, budget[n], paid[n], Cardinality(QueueOf(doc, n)))
    BY <1>1, <1>8 DEF OverInv
  <2>2. CASE n = m
    <3> DEFINE w == Cardinality(QueueOf(doc', n))
    <3>1. w \in 0..DocCount /\ paid[n] \in Nat /\ budget[n] \in Budget
      BY <1>1, QueueType DEF CountsOK
    <3>2. WithinBudget(n, budget[n], paid[n], w + 1)
      BY <1>6, <2>1, <2>2
    <3> HIDE DEF w
    <3>3. WithinBudget(n, Spent(budget[n], n), Counted(paid[n], MaxPaid(n)), w)
      BY <3>1, <3>2, WithinPaid
    <3> QED BY <1>5, <2>2, <3>3 DEF w
  <2>3. CASE n # m
    BY <1>5, <1>6, <2>1, <2>3
  <2> QED BY <2>2, <2>3
<1>9. OverInv'
  BY <1>1, <1>7, <1>8, OverNext
<1> QED BY <1>4, <1>5, <1>9 DEF TransIInv

\* Time moves documents that work to other places of the same work.
LEMMA WakeKeeps ==
  ASSUME MeetInv, UNCHANGED <<inflight, stored, keys>>, restarted' \in BOOLEAN,
         NEW to \in [TransDocs -> DocPcs],
         \A d \in TransDocs : to[d] = doc[d].pc \/ (doc[d].pc \in Working /\ to[d] \in Working),
         doc' = [d \in TransDocs |-> [doc[d] EXCEPT !.pc = to[d]]]
  PROVE  MeetInv' /\ \A d \in TransDocs : doc'[d].pc = to[d] /\ doc'[d].model = doc[d].model
<1>1. ASSUME NEW d \in TransDocs
      PROVE  /\ doc'[d] \in Doc /\ doc'[d].pc = to[d] /\ doc'[d].seg = doc[d].seg
             /\ doc'[d].got = doc[d].got /\ doc'[d].english = doc[d].english
             /\ doc'[d].model = doc[d].model
  <2> DEFINE new == [doc[d] EXCEPT !.pc = to[d]]
  <2>1. doc[d] \in Doc /\ to[d] \in DocPcs /\ doc'[d] = new
    BY DEF MeetInv
  <2>2. /\ new \in Doc /\ new.pc = to[d] /\ new.seg = doc[d].seg /\ new.got = doc[d].got
        /\ new.english = doc[d].english /\ new.model = doc[d].model
    BY <2>1, DocMoved
  <2> HIDE DEF new
  <2> QED BY <2>1, <2>2
<1>2. doc' \in [TransDocs -> Doc]
  BY <1>1
<1>3. ASSUME NEW d \in TransDocs PROVE DocOK(d, doc'[d])
  <2>1. DocOK(d, doc[d])
    BY DEF MeetInv
  <2> QED BY <1>1, <2>1 DEF DocOK, Working
<1>4. \A d \in TransDocs, s \in Segments : OwesText(d, doc'[d], s) <=> OwesText(d, doc[d], s)
  BY <1>1 DEF OwesText
<1>5. \A d \in TransDocs, s \in Segments : Awaits(d, doc'[d], s) => Awaits(d, doc[d], s)
  BY <1>1 DEF Awaits, Working
<1>6. MeetInv'
  BY <1>2, <1>3, <1>4, <1>5, MovesKeep
<1> QED BY <1>1, <1>6

LEMMA RefillTickKeeps ==
  ASSUME TransIInv, RefillTick
  PROVE  TransIInv'
<1> DEFINE to == [d \in TransDocs |-> IF doc[d].pc = "pace" THEN "bucket" ELSE doc[d].pc]
<1>1. /\ limiter' = [k \in Keys |-> [m \in Models |->
            [limiter[k][m] EXCEPT !.tokens = IF @ < Tpm THEN @ + 1 ELSE @, !.soon = FALSE]]]
      /\ doc' = [d \in TransDocs |->
                   IF doc[d].pc = "pace" THEN [doc[d] EXCEPT !.pc = "bucket"] ELSE doc[d]]
      /\ UNCHANGED <<budget, inflight, paid, keys, stored, restarted>>
      /\ MeetInv /\ CountsOK /\ OverInv
  BY DEF RefillTick, DocAt, Rest, TransIInv
<1>2. ASSUME NEW d \in TransDocs
      PROVE  /\ doc[d] \in Doc /\ doc[d].pc \in DocPcs /\ to[d] \in DocPcs
             /\ to[d] = doc[d].pc \/ (doc[d].pc \in Working /\ to[d] \in Working)
             /\ doc'[d] = [doc[d] EXCEPT !.pc = to[d]]
  <2>1. doc[d] \in Doc /\ doc[d].pc \in DocPcs
    BY <1>1, DocFields DEF MeetInv
  <2>2. [doc[d] EXCEPT !.pc = doc[d].pc] = doc[d]
    BY <2>1 DEF Doc
  <2>3. doc'[d] = [doc[d] EXCEPT !.pc = to[d]]
    BY <1>1, <2>2
  <2> QED BY <2>1, <2>3 DEF DocPcs, Working
<1>3. to \in [TransDocs -> DocPcs] /\ doc' = [d \in TransDocs |-> [doc[d] EXCEPT !.pc = to[d]]]
  BY <1>1, <1>2
<1>4. \A d \in TransDocs :
        doc[d].pc # to[d] => doc[d].pc = "pace" /\ to[d] = "bucket"
  OBVIOUS
<1> HIDE DEF to
<1>5. restarted' \in BOOLEAN
  BY <1>1 DEF MeetInv
<1>6. MeetInv' /\ \A d \in TransDocs : doc'[d].pc = to[d] /\ doc'[d].model = doc[d].model
  BY <1>1, <1>2, <1>3, <1>5, WakeKeeps
<1>7. CountsOK'
  <2>1. ASSUME NEW k \in Keys, NEW m \in Models
        PROVE  [limiter[k][m] EXCEPT !.tokens = IF @ < Tpm THEN @ + 1 ELSE @, !.soon = FALSE]
                 \in Limiter
    <3>1. limiter[k][m] \in Limiter
      BY <1>1 DEF CountsOK
    <3> QED BY <3>1, LimiterType
  <2>2. limiter' \in [Keys -> [Models -> Limiter]]
    BY <1>1, <2>1
  <2> QED BY <1>1, <2>2 DEF CountsOK
<1>8. ASSUME Pool, NEW d \in TransDocs PROVE doc'[d].pc \notin {"tpd", "tpdOver"}
  BY <1>1, <1>4, <1>6, <1>8 DEF OverInv
<1>9. ASSUME Pool, ~restarted', NEW n \in Models
      PROVE  WithinBudget(n, budget'[n], paid'[n], Cardinality(QueueOf(doc', n)))
  <2>1. \A d \in TransDocs : doc'[d].pc \in Queued /\ doc'[d].model = n
                              <=> doc[d].pc \in Queued /\ doc[d].model = n
    BY <1>4, <1>6 DEF Queued
  <2>2. QueueOf(doc', n) = QueueOf(doc, n)
    BY <2>1, QueueSame
  <2> QED BY <1>1, <1>9, <2>2 DEF OverInv
<1>10. OverInv'
  BY <1>1, <1>8, <1>9, OverNext
<1> QED BY <1>6, <1>7, <1>10 DEF TransIInv

\* At midnight nothing is paid yet, and those that wait have passed yesterday's test.
LEMMA MidnightKeeps ==
  ASSUME TransIInv, Midnight
  PROVE  TransIInv'
<1> DEFINE to == [d \in TransDocs |-> WokenDocs[doc[d].pc]]
<1>1. /\ limiter' = [k \in Keys |-> [m \in Models |-> [limiter[k][m] EXCEPT !.today = Rpd[m] = 0]]]
      /\ budget' = [m \in Models |-> [budget[m] EXCEPT !.today = Tpd[m] = 0]]
      /\ doc' = [d \in TransDocs |-> [doc[d] EXCEPT !.pc = WokenDocs[@]]]
      /\ paid' = [m \in Models |-> 0] /\ restarted' = FALSE
      /\ UNCHANGED <<keys, inflight, stored>>
      /\ MeetInv /\ CountsOK /\ OverInv
  BY DEF Midnight, TransIInv
<1>2. ASSUME NEW d \in TransDocs
      PROVE  /\ to[d] \in DocPcs
             /\ to[d] = doc[d].pc \/ (doc[d].pc \in Working /\ to[d] \in Working)
             /\ doc[d].pc # "tpd" => to[d] # "tpdOver" \/ doc[d].pc = "tpdOver"
             /\ to[d] # "tpd"
  <2>1. doc[d].pc \in DocPcs
    BY <1>1, DocFields DEF MeetInv
  <2>2. to[d] = CASE doc[d].pc = "midnight" -> "choose" [] doc[d].pc = "rpd" -> "rpdOver"
                  [] doc[d].pc = "tpd" -> "tpdOver" [] OTHER -> doc[d].pc
    BY <2>1 DEF WokenDocs
  <2> HIDE DEF to
  <2> QED BY <2>1, <2>2 DEF DocPcs, Working
<1>3. to \in [TransDocs -> DocPcs] /\ doc' = [d \in TransDocs |-> [doc[d] EXCEPT !.pc = to[d]]]
  BY <1>1, <1>2
<1> HIDE DEF to
<1>4. restarted' \in BOOLEAN
  BY <1>1
<1>5. MeetInv' /\ \A d \in TransDocs : doc'[d].pc = to[d] /\ doc'[d].model = doc[d].model
  BY <1>1, <1>2, <1>3, <1>4, WakeKeeps
<1>6. CountsOK'
  <2>1. ASSUME NEW k \in Keys, NEW m \in Models
        PROVE  [limiter[k][m] EXCEPT !.today = Rpd[m] = 0] \in Limiter
    <3>1. limiter[k][m] \in Limiter
      BY <1>1 DEF CountsOK
    <3> QED BY <3>1, LimiterType
  <2>2. ASSUME NEW m \in Models PROVE [budget[m] EXCEPT !.today = Tpd[m] = 0] \in Budget
    <3>1. budget[m] \in Budget
      BY <1>1 DEF CountsOK
    <3> QED BY <3>1, BudgetType
  <2>3. limiter' \in [Keys -> [Models -> Limiter]] /\ budget' \in [Models -> Budget]
    BY <1>1, <2>1, <2>2
  <2>4. paid' \in [Models -> Nat]
    BY <1>1
  <2> QED BY <2>3, <2>4 DEF CountsOK
<1>7. ASSUME Pool, NEW d \in TransDocs PROVE doc'[d].pc \notin {"tpd", "tpdOver"}
  BY <1>1, <1>2, <1>5, <1>7 DEF OverInv
<1>8. ASSUME NEW n \in Models
      PROVE  WithinBudget(n, budget'[n], paid'[n], Cardinality(QueueOf(doc', n)))
  <2>1. budget[n] \in Budget /\ Tpd[n] \in Nat
    BY <1>1, TranslationAssumption DEF CountsOK
  <2>2. Tpd[n] > 0 => ~budget'[n].today
    <3>1. budget'[n] = [budget[n] EXCEPT !.today = Tpd[n] = 0]
      BY <1>1
    <3>2. Tpd[n] # 0 => ~[budget[n] EXCEPT !.today = Tpd[n] = 0].today
      BY <2>1 DEF Budget
    <3>3. Tpd[n] > 0 => Tpd[n] # 0
      BY <2>1
    <3> QED BY <3>1, <3>2, <3>3
  <2>3. paid'[n] = 0 /\ Cardinality(QueueOf(doc', n)) \in 0..DocCount
    BY <1>1, QueueType
  <2>4. paid'[n] + Cardinality(QueueOf(doc', n)) <= DocCount
    BY <2>3, DocCountType
  <2> QED BY <2>2, <2>4 DEF WithinBudget
<1>9. OverInv'
  BY <1>1, <1>7, <1>8, OverNext
<1> QED BY <1>5, <1>6, <1>9 DEF TransIInv

LEMMA FreshType ==
  ASSUME NEW m \in Models
  PROVE  FreshLimiter(m) \in Limiter /\ FreshBudget(m) \in Budget
<1>1. Tpm \in Nat \ {0} /\ Tpd[m] \in Nat
  BY TranslationAssumption
<1>2. FreshLimiter(m) \in Limiter
  <2> DEFINE T == 0..Tpm
             today == Rpd[m] = 0
  <2>1. Tpm \in T /\ today \in BOOLEAN
    BY <1>1
  <2>2. /\ Limiter = [tokens : T, soon : BOOLEAN, requests : Nat, today : BOOLEAN]
        /\ FreshLimiter(m) = [tokens |-> Tpm, soon |-> FALSE, requests |-> 0, today |-> today]
    BY DEF Limiter, FreshLimiter
  <2> HIDE DEF T, today
  <2> QED BY <2>1, <2>2
<1>3. FreshBudget(m) \in Budget
  BY <1>1 DEF FreshBudget, Budget
<1> QED BY <1>2, <1>3

LEMMA NobodyOwes ==
  ASSUME Keys # {}, NEW d \in TransDocs
  PROVE  /\ DocOK(d, NoDoc) /\ NoDoc \in Doc /\ NoDoc.pc \notin Queued
         /\ NoDoc.pc \notin {"tpd", "tpdOver"}
         /\ \A s : ~OwesText(d, NoDoc, s) /\ ~Awaits(d, NoDoc, s)
<1>1. DocOK(d, NoDoc) /\ NoDoc \in Doc /\ NoDoc.pc = "idle"
  BY DocNew, DocBegun
<1> QED BY <1>1 DEF Queued, OwesText, Awaits, Working

LEMMA RestartKeeps ==
  ASSUME TransIInv, Restart
  PROVE  TransIInv'
<1>1. /\ limiter' = [k \in Keys |-> [m \in Models |-> FreshLimiter(m)]]
      /\ budget' = [m \in Models |-> FreshBudget(m)]
      /\ doc' = [d \in TransDocs |-> NoDoc] /\ inflight' = {} /\ restarted' = TRUE
      /\ UNCHANGED <<keys, stored, paid>> /\ MeetInv /\ CountsOK
  BY DEF Restart, TransIInv
<1>2. keys \in (SUBSET Keys) \ {{}} /\ stored \subseteq Segments /\ Keys # {}
  BY <1>1 DEF MeetInv
<1>3. \A d \in TransDocs :
        /\ doc'[d] = NoDoc /\ DocOK(d, NoDoc) /\ NoDoc \in Doc
        /\ NoDoc.pc \notin {"tpd", "tpdOver"}
        /\ \A s : ~OwesText(d, NoDoc, s) /\ ~Awaits(d, NoDoc, s)
  BY <1>1, <1>2, NobodyOwes
<1>4. MeetInv'
  <2>1. doc' \in [TransDocs -> Doc]
    BY <1>1, <1>3
  <2>2. \A d \in TransDocs : DocOK(d, doc[d])'
    BY <1>3 DEF DocOK, TextsTo
  <2>3. \A d \in TransDocs, s \in Segments : ~OwesText(d, doc[d], s)' /\ ~Awaits(d, doc[d], s)'
    BY <1>3 DEF OwesText, Awaits
  <2> QED BY <1>1, <1>2, <2>1, <2>2, <2>3 DEF MeetInv
<1>5. CountsOK'
  BY <1>1, FreshType DEF CountsOK
<1>6. OverInv'
  BY <1>1, <1>3, OverNext
<1> QED BY <1>4, <1>5, <1>6 DEF TransIInv

LEMMA TransBegins == TransInit => TransIInv
<1> SUFFICES ASSUME TransInit PROVE TransIInv
  OBVIOUS
<1>1. /\ limiter = [k \in Keys |-> [m \in Models |-> FreshLimiter(m)]]
      /\ budget = [m \in Models |-> FreshBudget(m)]
      /\ doc = [d \in TransDocs |-> NoDoc] /\ inflight = {} /\ restarted = FALSE
      /\ keys \in (SUBSET Keys) \ {{}} /\ stored = {} /\ paid = [m \in Models |-> 0]
  BY DEF TransInit, Boot
<1>2. Keys # {}
  BY <1>1
<1>3. \A d \in TransDocs :
        /\ doc[d] = NoDoc /\ DocOK(d, NoDoc) /\ NoDoc \in Doc /\ NoDoc.pc \notin Queued
        /\ NoDoc.pc \notin {"tpd", "tpdOver"}
        /\ \A s : ~OwesText(d, NoDoc, s) /\ ~Awaits(d, NoDoc, s)
  BY <1>1, <1>2, NobodyOwes
<1>4. MeetInv
  <2>1. doc \in [TransDocs -> Doc]
    BY <1>1, <1>3
  <2> QED BY <1>1, <1>3, <2>1 DEF MeetInv
<1>5. CountsOK
  BY <1>1, FreshType DEF CountsOK
<1>6. ASSUME NEW m \in Models
      PROVE  WithinBudget(m, budget[m], paid[m], Cardinality(QueueOf(doc, m)))
  <2>1. QueueOf(doc, m) = {}
    BY <1>3 DEF QueueOf
  <2>2. paid[m] + Cardinality(QueueOf(doc, m)) = 0
    BY <1>1, <2>1, FS_EmptySet
  <2>3. Tpd[m] > 0 => ~budget[m].today
    <3>1. budget[m] = FreshBudget(m) /\ Tpd[m] \in Nat
      BY <1>1, TranslationAssumption
    <3>2. Tpd[m] # 0 => ~FreshBudget(m).today
      BY DEF FreshBudget
    <3>3. Tpd[m] > 0 => Tpd[m] # 0
      BY <3>1
    <3> QED BY <3>1, <3>2, <3>3
  <2>4. DocCount \in Nat
    BY DocCountType
  <2> QED BY <2>2, <2>3, <2>4 DEF WithinBudget
<1>7. OverInv
  BY <1>3, <1>1, <1>6 DEF OverInv
<1> QED BY <1>4, <1>5, <1>7 DEF TransIInv

LEMMA TransKept == TransIInv /\ [TransNext]_transVars => TransIInv'
<1> SUFFICES ASSUME TransIInv, [TransNext]_transVars PROVE TransIInv'
  OBVIOUS
<1>1. CASE UNCHANGED transVars
  <2>1. UNCHANGED <<keys, limiter, budget, doc, inflight, stored, paid, restarted>>
    BY <1>1 DEF transVars
  <2> QED BY <2>1 DEF TransIInv, MeetInv, CountsOK, OverInv, DocOK, TextsTo, OwesText, Awaits, Pool,
                      WithinBudget, QueueOf
<1>2. ASSUME NEW d \in TransDocs, StartDoc(d) PROVE TransIInv'
  BY <1>2, StartDocKeeps
<1>3. ASSUME NEW d \in TransDocs, DocStep(d) PROVE TransIInv'
  <2>1. CASE Lookup(d)
    BY <2>1, LookupKeeps
  <2>2. ASSUME NEW english \in BOOLEAN, Detected(d, english) PROVE TransIInv'
    BY <2>2, DetectedKeeps
  <2>3. ASSUME NEW kept \in BOOLEAN, Translated(d, kept) PROVE TransIInv'
    BY <2>3, TranslatedKeeps
  <2>4. CASE HardError(d) \/ SpentError(d)
    BY <2>4, ErrorKeeps
  <2>5. CASE Transient(d)
    BY <2>5, TransientKeeps
  <2>6. ASSUME NEW k \in Keys, NEW m \in Models, Reserve(d, k, m) PROVE TransIInv'
    BY <2>6, ReserveKeeps
  <2>7. ASSUME NEW k \in Keys, NEW m \in Models, WaitOnKey(d, k, m) PROVE TransIInv'
    BY <2>7, WaitOnKeyKeeps
  <2>8. ASSUME NEW k \in Keys, WaitAlone(d, k) PROVE TransIInv'
    BY <2>8, WaitAloneKeeps
  <2>9. CASE NoModel(d)
    BY <2>9, NoModelKeeps
  <2>10. CASE RpdOver(d)
    BY <2>10, RpdOverKeeps
  <2>11. CASE TpdOver(d)
    BY <2>11, TpdOverKeeps
  <2>12. CASE Take(d)
    BY <2>12, TakeKeeps
  <2> QED BY <1>3, <2>1, <2>2, <2>3, <2>4, <2>5, <2>6, <2>7, <2>8, <2>9, <2>10, <2>11, <2>12
          DEF DocStep
<1>4. CASE RefillTick
  BY <1>4, RefillTickKeeps
<1>5. CASE Midnight
  BY <1>5, MidnightKeeps
<1>6. CASE Restart
  BY <1>6, RestartKeeps
<1> QED BY <1>1, <1>2, <1>3, <1>4, <1>5, <1>6 DEF TransNext

LEMMA TransFollows == TransIInv => TransInv
<1> SUFFICES ASSUME TransIInv PROVE TransInv
  OBVIOUS
<1>0. MeetInv /\ CountsOK /\ OverInv
  BY DEF TransIInv
<1>1. TransTypeOK
  BY <1>0 DEF TransTypeOK, MeetInv, CountsOK
<1>2. PaidOnce
  <2> SUFFICES ASSUME NEW d \in TransDocs, NEW s \in Segments, Pays(d, s)
               PROVE  s \notin stored /\ \A e \in TransDocs \ {d} : ~Pays(e, s)
    BY DEF PaidOnce
  <2>1. \A e \in TransDocs : OwesText(e, doc[e], s) <=> Pays(e, s)
    BY <1>0, TextOwed
  <2> QED BY <1>0, <2>1 DEF MeetInv
<1>3. JoinersAreServed
  <2> SUFFICES ASSUME NEW d \in TransDocs, DocAt(d, "join")
               PROVE  \E e \in TransDocs : Pays(e, Text(d))
    BY DEF JoinersAreServed
  <2>1. Text(d) \in Segments /\ Awaits(d, doc[d], Text(d))
    BY <1>0, TextOwed
  <2>2. PICK e \in TransDocs : OwesText(e, doc[e], Text(d))
    BY <1>0, <2>1 DEF MeetInv
  <2> QED BY <1>0, <2>2, TextOwed
<1>4. WholeOrOriginal
  <2> SUFFICES ASSUME NEW d \in TransDocs, doc[d].english
               PROVE  doc[d].got = {SegmentsOf[d][i] : i \in 1..Len(SegmentsOf[d])}
    BY DEF WholeOrOriginal
  <2>1. DocOK(d, doc[d])
    BY <1>0 DEF MeetInv
  <2> QED BY <2>1 DEF DocOK, TextsTo
<1>5. OverdrawnByWaiters
  <2> SUFFICES ASSUME Pool, ~restarted, NEW m \in Models, Tpd[m] > 0
               PROVE  paid[m] <= Tpd[m] + 2 * Cardinality(TransDocs) - 1
    BY DEF OverdrawnByWaiters
  <2> DEFINE w == Cardinality(QueueOf(doc, m))
             n == Cardinality(TransDocs)
  <2>1. /\ w \in Nat /\ paid[m] \in Nat /\ budget[m] \in Budget /\ Tpd[m] \in Nat
        /\ n \in Nat \ {0}
    BY <1>0, QueueType, DocCountType, TranslationAssumption DEF CountsOK, DocCount
  <2>2. WithinBudget(m, budget[m], paid[m], w)
    BY <1>0 DEF OverInv
  <2> HIDE DEF w
  <2>3. paid[m] + w <= n \/ paid[m] + w <= Tpd[m] + 2 * n - 1
    BY <2>2 DEF WithinBudget, DocCount
  <2> HIDE DEF n
  <2>4. paid[m] <= Tpd[m] + 2 * n - 1
    BY <2>1, <2>3
  <2> QED BY <2>4 DEF n
<1> QED BY <1>1, <1>2, <1>3, <1>4, <1>5 DEF TransInv

\* For any documents, segments, keys and models: a segment is translated for one
\* document at a time and not again once its checkpoint is there, who waits for
\* another's has one to wait for, a document is translated whole or not at all
\* (translate.ts, cache.ts); and however the documents wait, meet midnight, fail or
\* choose models, a pool of keys overdraws a model's day by less than two requests
\* of each document (rate-limit.ts).
THEOREM SegmentsArePaidOnce == TransSpec => []TransInv
<1>1. TransIInv /\ [TransNext]_transVars => TransIInv'
  BY TransKept
<1> QED
  BY <1>1, TransBegins, TransFollows, PTL DEF TransSpec

-----------------------------------------------------------------------------
(* The bulk ingestion: for any batch and any number of documents, room and *)
(* order in which the jobs end                                             *)

QueueKind ==
  [pending : Seq(Values), running : SUBSET Values, drained : BOOLEAN, thrown : SUBSET Values]

\* Nothing waits while there is room.
RoomUsed(q) ==
  /\ Cardinality(q.running) <= Concurrency
  /\ q.pending # <<>> => Cardinality(q.running) = Concurrency
  /\ q.drained => q.pending = <<>> /\ q.running = {}

\* A document waits, runs or threw, and once only.
JobsApart(q) ==
  /\ \A i, j \in DOMAIN q.pending : q.pending[i] = q.pending[j] => i = j
  /\ \A i \in DOMAIN q.pending : q.pending[i] \notin q.running \cup q.thrown
  /\ q.running \cap q.thrown = {}

Occupied(q) == ToSet(q.pending) \cup q.running \cup q.thrown

\* Those that have a result have one, and are no longer in the queue.
ResultsApart ==
  /\ \A i, j \in DOMAIN results : results[i].value = results[j].value => i = j
  /\ \A i \in DOMAIN results : results[i].value \notin Occupied(queue)

SyncOK ==
  /\ entries = <<>> /\ RoomUsed(queue) /\ JobsApart(queue) /\ ResultsApart
  /\ exitCode < 3 => queue.drained \/ queue = NoQueue

BatchOK ==
  /\ queue = NoQueue
  /\ exitCode # 3 => entries = <<>>
  /\ results # <<>> \/ entries # <<>> => Len(results) + Len(entries) = Len(Read)
  /\ exitCode \in {0, 1} => results # <<>>
  /\ exitCode = 0 => \A i \in 1..Len(results) : results[i].status = "ingested"

BulkIInv == BulkTypeOK /\ (args.sync => SyncOK) /\ (~args.sync => BatchOK)

LEMMA BulkArgs ==
  ASSUME BulkTypeOK
  PROVE  /\ args.sync \in BOOLEAN /\ args.title \in Title
         /\ args.file \in Seq(InputEntry) /\ args.urls \in Seq(Pages)
         /\ Read \in Seq(InputEntry)
<1>1. args \in Args
  BY DEF BulkTypeOK
<1>2. args.sync \in BOOLEAN /\ args.title \in Title
  BY <1>1 DEF Args
<1>3. args.file \in SeqOf(InputEntry, MaxEntries) /\ args.urls \in SeqOf(Pages, MaxEntries)
  BY <1>1 DEF Args
<1>4. args.file \in Seq(InputEntry)
  <2>1. PICK m \in 0..MaxEntries : args.file \in [1..m -> InputEntry]
    BY <1>3 DEF SeqOf
  <2> QED BY <2>1, BulkAssumption, SeqDef
<1>5. args.urls \in Seq(Pages)
  <2>1. PICK m \in 0..MaxEntries : args.urls \in [1..m -> Pages]
    BY <1>3 DEF SeqOf
  <2> QED BY <2>1, BulkAssumption, SeqDef
<1> DEFINE listed == [i \in 1..Len(args.urls) |-> [value |-> args.urls[i], title |-> args.title]]
<1>6. listed \in Seq(InputEntry)
  <2>1. Len(args.urls) \in Nat
    BY <1>5
  <2>2. \A i \in 1..Len(args.urls) : args.urls[i] \in Values
    BY <1>5, ElementOfSeq DEF Values
  <2>3. listed \in [1..Len(args.urls) -> InputEntry]
    BY <2>2, <1>2 DEF InputEntry
  <2> HIDE DEF listed
  <2> QED BY <2>1, <2>3, SeqDef
<1>7. Read = args.file \o listed
  BY DEF Read
<1> HIDE DEF listed
<1>8. Read \in Seq(InputEntry)
  BY <1>4, <1>6, <1>7, ConcatProperties
<1> QED BY <1>2, <1>4, <1>5, <1>8

LEMMA ValuesFinite == \A S \in SUBSET Values : IsFiniteSet(S)
BY BulkAssumption, FS_Subset DEF Values

\* A job that starts moves from those that wait to those that run.
LEMMA TickKeeps ==
  ASSUME NEW q \in QueueKind, JobsApart(q),
         Cardinality(q.running) <= Concurrency,
         q.pending # <<>> => Cardinality(q.running) + 1 >= Concurrency,
         q.drained => q.pending = <<>> /\ q.running = {}
  PROVE  /\ Tick(q) \in QueueKind /\ RoomUsed(Tick(q)) /\ JobsApart(Tick(q))
         /\ Occupied(Tick(q)) \subseteq Occupied(q)
         /\ q.drained => Tick(q).drained
<1>1. /\ q.pending \in Seq(Values) /\ q.running \in SUBSET Values
      /\ q.drained \in BOOLEAN /\ q.thrown \in SUBSET Values
  BY DEF QueueKind
<1>2. IsFiniteSet(q.running) /\ Cardinality(q.running) \in Nat /\ Concurrency \in Nat
  BY <1>1, ValuesFinite, FS_CardinalityType, BulkAssumption
<1>3. CASE Cardinality(q.running) >= Concurrency \/ q.pending = <<>>
  <2>1. Tick(q) = q
    BY <1>3 DEF Tick
  <2>2. RoomUsed(q)
    BY <1>2, <1>3 DEF RoomUsed
  <2> QED BY <2>1, <2>2
<1>4. CASE ~(Cardinality(q.running) >= Concurrency \/ q.pending = <<>>)
  <2> DEFINE first == Head(q.pending)
             rest == Tail(q.pending)
  <2>1. q.pending # <<>> /\ Cardinality(q.running) + 1 = Concurrency
    BY <1>2, <1>4
  <2>2. Len(q.pending) \in Nat /\ Len(q.pending) >= 1
    BY <1>1, <2>1, EmptySeq, LenProperties
  <2>3. /\ first = q.pending[1] /\ first \in Values
        /\ rest \in Seq(Values) /\ Len(rest) = Len(q.pending) - 1
        /\ \A i \in 1..Len(rest) : rest[i] = q.pending[i + 1]
    BY <1>1, <2>1, HeadTailProperties
  <2>4. DOMAIN q.pending = 1..Len(q.pending) /\ DOMAIN rest = 1..Len(rest)
    BY <1>1, <2>3, LenProperties
  <2>5. PICK t : t = [q EXCEPT !.pending = rest, !.running = @ \cup {first}]
    OBVIOUS
  <2>6. Tick(q) = t
    BY <1>4, <2>5 DEF Tick
  <2>7. /\ t.pending = rest /\ t.running = q.running \cup {first}
        /\ t.drained = q.drained /\ t.thrown = q.thrown /\ t \in QueueKind
    BY <1>1, <2>3, <2>5 DEF QueueKind
  <2>8. first \notin q.running \cup q.thrown
    BY <2>2, <2>3, <2>4 DEF JobsApart
  <2>9. Cardinality(t.running) = Concurrency
    BY <1>2, <2>1, <2>7, <2>8, FS_AddElement
  <2>10. RoomUsed(t)
    <3>1. ~t.drained
      BY <2>1, <2>7
    <3> QED BY <1>2, <2>9, <3>1 DEF RoomUsed
  <2> HIDE DEF first, rest
  <2>11. JobsApart(t)
    <3>1. \A i \in DOMAIN rest : /\ i + 1 \in DOMAIN q.pending /\ rest[i] = q.pending[i + 1]
                                 /\ i \in Nat /\ i + 1 # 1
      BY <2>2, <2>3, <2>4
    <3>2. ASSUME NEW i \in DOMAIN rest, NEW j \in DOMAIN rest, rest[i] = rest[j]
          PROVE  i = j
      <4>1. i + 1 = j + 1
        BY <3>1, <3>2 DEF JobsApart
      <4> QED BY <3>1, <4>1
    <3>3. ASSUME NEW i \in DOMAIN rest
          PROVE  rest[i] \notin t.running \cup t.thrown
      <4>1. rest[i] \notin q.running \cup q.thrown
        BY <3>1 DEF JobsApart
      <4>2. 1 \in DOMAIN q.pending
        BY <2>2, <2>4
      <4>3. rest[i] # first
        BY <2>3, <3>1, <4>2 DEF JobsApart
      <4> QED BY <2>7, <4>1, <4>3
    <3>4. t.running \cap t.thrown = {}
      BY <2>7, <2>8 DEF JobsApart
    <3> QED BY <2>7, <3>2, <3>3, <3>4 DEF JobsApart
  <2>12. Occupied(t) \subseteq Occupied(q)
    <3>1. first \in ToSet(q.pending)
      BY <2>2, <2>3, <2>4 DEF ToSet
    <3>2. ToSet(rest) \subseteq ToSet(q.pending)
      <4>1. \A i \in DOMAIN rest : i + 1 \in DOMAIN q.pending /\ rest[i] = q.pending[i + 1]
        BY <2>2, <2>3, <2>4
      <4> QED BY <4>1 DEF ToSet
    <3> QED BY <2>7, <3>1, <3>2 DEF Occupied
  <2> QED BY <2>6, <2>7, <2>10, <2>11, <2>12
<1> QED BY <1>3, <1>4

LEMMA AddedKeeps ==
  ASSUME NEW documents \in Seq(Values),
         \A i, j \in DOMAIN documents : documents[i] = documents[j] => i = j
  PROVE  Added(documents) \in QueueKind /\ RoomUsed(Added(documents)) /\ JobsApart(Added(documents))
<1> DEFINE rest == SubSeq(documents, Concurrency + 1, Len(documents))
           first == {j \in 1..Len(documents) : j <= Concurrency}
           started == {documents[i] : i \in first}
<1>1. Len(documents) \in Nat /\ DOMAIN documents = 1..Len(documents) /\ Concurrency \in Nat \ {0}
  BY LenProperties, BulkAssumption
<1>2. \A i \in DOMAIN documents : documents[i] \in Values
  BY <1>1, ElementOfSeq
<1>3. PICK q : q = Added(documents)
  OBVIOUS
<1>4. q.pending = rest /\ q.running = started /\ q.drained = (documents = <<>>) /\ q.thrown = {}
  BY <1>3 DEF Added
<1>5. /\ rest \in Seq(Values)
      /\ Len(rest) = IF Concurrency + 1 <= Len(documents) THEN Len(documents) - Concurrency ELSE 0
      /\ \A i \in 1..Len(rest) : rest[i] = documents[Concurrency + i]
  <2>1. \A i \in (Concurrency + 1)..Len(documents) : documents[i] \in Values
    BY <1>1, <1>2
  <2>2. /\ rest \in Seq(Values)
        /\ Len(rest) = IF Concurrency + 1 <= Len(documents)
                       THEN Len(documents) - (Concurrency + 1) + 1 ELSE 0
        /\ \A i \in 1..(Len(documents) - (Concurrency + 1) + 1) :
             rest[i] = documents[Concurrency + 1 + i - 1]
    BY <1>1, <2>1, SubSeqProperties
  <2> QED BY <1>1, <2>2
<1>6. DOMAIN rest = 1..Len(rest) /\ Len(rest) \in Nat
  BY <1>5, LenProperties
<1> HIDE DEF rest
<1>7. first = 1..(IF Len(documents) <= Concurrency THEN Len(documents) ELSE Concurrency)
  BY <1>1
<1>8. /\ IsFiniteSet(first)
      /\ Cardinality(first) = IF Len(documents) <= Concurrency THEN Len(documents) ELSE Concurrency
  <2>1. PICK n \in Nat : n = IF Len(documents) <= Concurrency THEN Len(documents) ELSE Concurrency
    BY <1>1
  <2>2. IsFiniteSet(1..n) /\ Cardinality(1..n) = n
    <3>1. n \in Int /\ n >= 0 /\ 1 \in Int
      BY <2>1
    <3>2. IsFiniteSet(1..n) /\ Cardinality(1..n) = IF 1 > n THEN 0 ELSE n - 1 + 1
      BY <3>1, FS_Interval
    <3> QED BY <3>1, <3>2
  <2> QED BY <1>7, <2>1, <2>2
<1>9. started \subseteq Values /\ first \subseteq DOMAIN documents
  BY <1>1, <1>2
<1>10. Cardinality(started) = Cardinality(first)
  <2> DEFINE f == [i \in first |-> documents[i]]
  <2>1. f \in Surjection(first, started)
    BY DEF Surjection
  <2>2. f \in [first -> started] /\ IsInjective(f)
    BY <1>9 DEF IsInjective
  <2>3. f \in Injection(first, started)
    BY <2>2 DEF Injection
  <2> HIDE DEF f, first, started
  <2> QED BY <1>8, <2>1, <2>3, FS_Surjection
<1>11. q \in QueueKind
  BY <1>3, <1>4, <1>5, <1>9 DEF Added, QueueKind
<1>12. RoomUsed(q)
  <2>1. Cardinality(q.running) <= Concurrency
    BY <1>1, <1>4, <1>8, <1>10
  <2>2. rest # <<>> => Cardinality(q.running) = Concurrency
    <3>1. rest # <<>> => Len(rest) # 0
      BY <1>5, EmptySeq
    <3>2. Len(rest) # 0 => ~(Len(documents) <= Concurrency)
      <4>1. Len(documents) <= Concurrency => ~(Concurrency + 1 <= Len(documents))
        BY <1>1
      <4>2. ~(Concurrency + 1 <= Len(documents)) => Len(rest) = 0
        BY <1>5
      <4> QED BY <4>1, <4>2
    <3>3. ~(Len(documents) <= Concurrency) => Cardinality(started) = Concurrency
      BY <1>8, <1>10
    <3> QED BY <1>4, <3>1, <3>2, <3>3
  <2>3. documents = <<>> => rest = <<>> /\ started = {}
    <3>1. documents = <<>> => Len(documents) = 0
      OBVIOUS
    <3>2. Len(documents) = 0 => Len(rest) = 0 /\ first = {}
      BY <1>1, <1>5, <1>7
    <3>3. Len(rest) = 0 => rest = <<>>
      BY <1>5, EmptySeq
    <3>4. first = {} => started = {}
      OBVIOUS
    <3> QED BY <3>1, <3>2, <3>3, <3>4
  <2> QED BY <1>4, <2>1, <2>2, <2>3 DEF RoomUsed
<1>13. JobsApart(q)
  <2>1. ASSUME NEW i \in DOMAIN rest
        PROVE  /\ Concurrency + i \in DOMAIN documents
               /\ rest[i] = documents[Concurrency + i]
               /\ i \in Nat /\ i >= 1
    <3>1. i \in 1..Len(rest)
      BY <1>6
    <3>2. Len(rest) = Len(documents) - Concurrency
      <4>1. Len(rest) # 0
        BY <3>1
      <4>2. Concurrency + 1 <= Len(documents) => Len(rest) = Len(documents) - Concurrency
        BY <1>5
      <4>3. ~(Concurrency + 1 <= Len(documents)) => Len(rest) = 0
        BY <1>5
      <4> QED BY <4>1, <4>2, <4>3
    <3>3. i \in Nat /\ i >= 1 /\ i <= Len(documents) - Concurrency
      BY <1>6, <3>1, <3>2
    <3>4. Concurrency + i \in 1..Len(documents)
      BY <1>1, <3>3
    <3> QED BY <1>1, <1>5, <3>1, <3>3, <3>4
  <2>2. ASSUME NEW i \in DOMAIN rest, NEW j \in DOMAIN rest, rest[i] = rest[j]
        PROVE  i = j
    <3>1. Concurrency + i = Concurrency + j
      BY <2>1, <2>2
    <3> QED BY <1>1, <2>1, <3>1
  <2>3. ASSUME NEW i \in DOMAIN rest, rest[i] \in started
        PROVE  FALSE
    <3>1. PICK j \in first : rest[i] = documents[j]
      BY <2>3
    <3>2. j = Concurrency + i
      BY <1>9, <2>1, <3>1
    <3>3. j \in Int /\ j <= Concurrency
      OBVIOUS
    <3>4. i \in Nat /\ i >= 1
      BY <2>1
    <3> QED BY <1>1, <3>2, <3>3, <3>4
  <2> QED BY <1>4, <2>2, <2>3 DEF JobsApart
<1> QED BY <1>3, <1>11, <1>12, <1>13

\* A job that ends leaves room; what it did is recorded once.
LEMMA SettledKeeps ==
  ASSUME NEW q \in QueueKind, RoomUsed(q), JobsApart(q), NEW v \in q.running,
         NEW thrown \in {q.thrown, q.thrown \cup {v}}
  PROVE  LET settled == Settled([q EXCEPT !.running = @ \ {v}, !.thrown = thrown])
         IN  /\ settled \in QueueKind /\ RoomUsed(settled) /\ JobsApart(settled)
             /\ thrown = q.thrown => Occupied(settled) \subseteq Occupied(q) \ {v}
             /\ Occupied(settled) \subseteq Occupied(q)
<1>1. /\ q.pending \in Seq(Values) /\ q.running \in SUBSET Values
      /\ q.drained \in BOOLEAN /\ q.thrown \in SUBSET Values
  BY DEF QueueKind
<1>2. IsFiniteSet(q.running) /\ Cardinality(q.running) \in Nat /\ Concurrency \in Nat
  BY <1>1, ValuesFinite, FS_CardinalityType, BulkAssumption
<1>3. PICK left : left = q.running \ {v}
  OBVIOUS
<1>4. Cardinality(left) = Cardinality(q.running) - 1
  BY <1>2, <1>3, FS_RemoveElement
<1>5. PICK x : x = [q EXCEPT !.running = @ \ {v}, !.thrown = thrown]
  OBVIOUS
<1>6. PICK y : y = [x EXCEPT !.drained = (x.pending = <<>> /\ x.running = {})]
  OBVIOUS
<1>7. /\ x \in QueueKind /\ x.pending = q.pending /\ x.running = left
      /\ x.drained = q.drained /\ x.thrown = thrown
  BY <1>1, <1>3, <1>5 DEF QueueKind
<1>8. /\ y \in QueueKind /\ y.pending = q.pending /\ y.running = left
      /\ y.drained = (q.pending = <<>> /\ left = {}) /\ y.thrown = thrown
  BY <1>6, <1>7 DEF QueueKind
<1>9. Settled(x) = Tick(y)
  BY <1>6 DEF Settled
<1>10. JobsApart(y)
  <2>1. v \notin q.thrown /\ left \cap thrown = {}
    BY <1>3 DEF JobsApart
  <2>2. left \cup thrown \subseteq q.running \cup q.thrown
    BY <1>3
  <2> QED BY <1>8, <2>1, <2>2 DEF JobsApart
<1>11. Cardinality(y.running) <= Concurrency
  BY <1>2, <1>4, <1>8 DEF RoomUsed
<1>12. y.pending # <<>> => Cardinality(y.running) + 1 >= Concurrency
  BY <1>2, <1>4, <1>8 DEF RoomUsed
<1>13. y.drained => y.pending = <<>> /\ y.running = {}
  BY <1>8
<1>14. /\ Tick(y) \in QueueKind /\ RoomUsed(Tick(y)) /\ JobsApart(Tick(y))
       /\ Occupied(Tick(y)) \subseteq Occupied(y)
  BY <1>8, <1>10, <1>11, <1>12, <1>13, TickKeeps
<1>15. Occupied(y) \subseteq Occupied(q)
  BY <1>3, <1>8 DEF Occupied
<1>16. thrown = q.thrown => v \notin Occupied(y)
  <2>1. v \notin left /\ v \notin q.thrown
    BY <1>3 DEF JobsApart
  <2>2. v \notin ToSet(q.pending)
    BY DEF JobsApart, ToSet
  <2> QED BY <1>8, <2>1, <2>2 DEF Occupied
<1> QED BY <1>5, <1>9, <1>14, <1>15, <1>16


-----------------------------------------------------------------------------
(* The steps *)

LEMMA BulkBegins == BulkInit => BulkIInv
<1> SUFFICES ASSUME BulkInit PROVE BulkIInv
  OBVIOUS
<1>0. PICK empty : empty = <<>> /\ empty \in Seq(InputEntry) /\ empty \in Seq(Result) /\ empty \in Seq(Values)
  <2>1. <<>> \in Seq(InputEntry) /\ <<>> \in Seq(Result) /\ <<>> \in Seq(Values)
    OBVIOUS
  <2> QED BY <2>1, Zenon
<1>1. /\ args \in Args /\ entries = empty /\ results = empty /\ exitCode = 3 /\ queue = NoQueue
      /\ named = [v \in Values |-> Untitled]
  BY <1>0 DEF BulkInit
<1>2. /\ NoQueue \in QueueKind /\ NoQueue.pending = empty /\ NoQueue.running = {}
      /\ NoQueue.drained = FALSE /\ NoQueue.thrown = {}
  <2>1. NoQueue = [pending |-> empty, running |-> {}, drained |-> FALSE, thrown |-> {}]
    BY <1>0 DEF NoQueue
  <2> QED BY <1>0, <2>1 DEF QueueKind
<1>3. BulkTypeOK
  <2>1. named \in [Values -> Title]
    BY <1>1 DEF Title
  <2> QED BY <1>0, <1>1, <1>2, <2>1 DEF BulkTypeOK, QueueKind
<1>4. Cardinality({}) = 0
  BY FS_EmptySet
<1>5. SyncOK
  <2>1. RoomUsed(queue)
    BY <1>0, <1>1, <1>2, <1>4, BulkAssumption DEF RoomUsed
  <2>2. DOMAIN empty = {}
    BY <1>0
  <2>3. JobsApart(queue) /\ ResultsApart
    BY <1>1, <1>2, <2>2 DEF JobsApart, ResultsApart
  <2> QED BY <1>0, <1>1, <2>1, <2>3 DEF SyncOK
<1>6. BatchOK
  BY <1>0, <1>1 DEF BatchOK
<1> QED BY <1>3, <1>5, <1>6 DEF BulkIInv

LEMMA IngestKeeps ==
  ASSUME BulkTypeOK, NEW v \in Values, NEW outcome, Ingest(v, outcome)
  PROVE  named' \in [Values -> Title]
BY BulkArgs DEF Ingest, IngestOptions, BulkTypeOK

LEMMA PushKeeps ==
  ASSUME BulkTypeOK, NEW v \in Values, NEW status \in {"ingested", "failed"}, Push(v, status)
  PROVE  /\ results' \in Seq(Result) /\ Len(results') = Len(results) + 1 /\ results' # <<>>
         /\ \A i \in 1..Len(results) : results'[i] = results[i]
         /\ results'[Len(results) + 1] = [value |-> v, status |-> status]
<1>1. PICK r : r = [value |-> v, status |-> status]
  OBVIOUS
<1>2. r \in Result /\ results \in Seq(Result) /\ results' = Append(results, r)
  BY <1>1 DEF Push, Result, BulkTypeOK
<1>3. /\ results' \in Seq(Result) /\ Len(results') = Len(results) + 1
      /\ \A i \in 1..Len(results) : results'[i] = results[i]
      /\ results'[Len(results) + 1] = r
  BY <1>2, AppendProperties
<1>4. results' # <<>>
  BY <1>2, AppendProperties
<1> QED BY <1>1, <1>3, <1>4

LEMMA StartBatchKeeps == BulkIInv /\ StartBatch => BulkIInv'
<1> SUFFICES ASSUME BulkIInv, StartBatch PROVE BulkIInv'
  OBVIOUS
<1>1. /\ exitCode = 3 /\ results = <<>> /\ queue = NoQueue /\ ~args.sync /\ entries' = Read
      /\ UNCHANGED <<args, queue, results, named, exitCode>> /\ BulkTypeOK
  BY DEF StartBatch, NotStarted, BulkIInv
<1>2. Read \in Seq(InputEntry) /\ Read' = Read
  BY <1>1, BulkArgs DEF Read
<1>3. BulkTypeOK'
  BY <1>1, <1>2 DEF BulkTypeOK
<1>4. Len(results) = 0 /\ Len(Read) \in Nat
  BY <1>1, <1>2
<1>5. BatchOK'
  BY <1>1, <1>2, <1>4 DEF BatchOK
<1> QED BY <1>1, <1>3, <1>5 DEF BulkIInv

LEMMA RunEntryKeeps ==
  ASSUME BulkIInv, NEW outcome, RunEntry(outcome)
  PROVE  BulkIInv'
<1>1. /\ entries # <<>> /\ outcome \in Outcomes(Head(entries).value)
      /\ Ingest(Head(entries).value, outcome)
      /\ Push(Head(entries).value, IF outcome = "ingested" THEN "ingested" ELSE "failed")
      /\ entries' = Tail(entries) /\ UNCHANGED <<args, queue, exitCode>> /\ BulkTypeOK
  BY DEF RunEntry, BulkIInv
<1>2. ~args.sync /\ BatchOK /\ args.sync \in BOOLEAN
  BY <1>1, BulkArgs DEF BulkIInv, SyncOK
<1>3. entries \in Seq(InputEntry) /\ results \in Seq(Result) /\ exitCode = 3
  BY <1>1, <1>2 DEF BulkTypeOK, BatchOK
<1>4. PICK v : v = Head(entries).value
  OBVIOUS
<1>5. /\ v \in Values /\ Tail(entries) \in Seq(InputEntry)
      /\ Len(Tail(entries)) = Len(entries) - 1
  <2>1. Head(entries) \in InputEntry
    BY <1>1, <1>3, HeadTailProperties
  <2> QED BY <1>1, <1>3, <1>4, <2>1, HeadTailProperties DEF InputEntry
<1>6. PICK status \in {"ingested", "failed"} : Push(v, status)
  BY <1>1, <1>4
<1>7. results' \in Seq(Result) /\ Len(results') = Len(results) + 1 /\ results' # <<>>
  BY <1>1, <1>5, <1>6, PushKeeps
<1>8. named' \in [Values -> Title]
  BY <1>1, <1>4, <1>5, IngestKeeps
<1>9. BulkTypeOK'
  BY <1>1, <1>5, <1>7, <1>8 DEF BulkTypeOK
<1>10. Len(results) \in Nat /\ Len(entries) \in Nat /\ Read' = Read
  BY <1>1, <1>3 DEF Read
<1>11. Len(results') + Len(entries') = Len(Read')
  <2>1. Len(results) + Len(entries) = Len(Read)
    BY <1>1, <1>2 DEF BatchOK
  <2> QED BY <1>1, <1>5, <1>7, <1>10, <2>1
<1>12. BatchOK'
  BY <1>1, <1>2, <1>3, <1>7, <1>11 DEF BatchOK
<1> QED BY <1>1, <1>2, <1>9, <1>12 DEF BulkIInv

LEMMA StartSyncKeeps ==
  ASSUME BulkIInv, NEW documents \in Seq(Values), IsInjective(documents), StartSync(documents)
  PROVE  BulkIInv'
<1>1. /\ exitCode = 3 /\ results = <<>> /\ entries = <<>> /\ args.sync
      /\ queue' = Added(documents) /\ UNCHANGED <<args, entries, results, named, exitCode>>
      /\ BulkTypeOK
  BY DEF StartSync, NotStarted, BulkIInv
<1>2. queue' \in QueueKind /\ RoomUsed(queue') /\ JobsApart(queue')
  BY <1>1, AddedKeeps DEF IsInjective
<1>3. BulkTypeOK'
  BY <1>1, <1>2 DEF BulkTypeOK, QueueKind
<1>4. DOMAIN results = {}
  BY <1>1
<1>5. SyncOK'
  BY <1>1, <1>2, <1>4 DEF SyncOK, ResultsApart
<1> QED BY <1>1, <1>3, <1>5 DEF BulkIInv

LEMMA JobSettlesKeeps ==
  ASSUME BulkIInv, NEW v \in Values, NEW outcome \in {"ingested", "failed", "thrown"},
         JobSettles(v, outcome)
  PROVE  BulkIInv'
<1> DEFINE thrown == IF outcome = "thrown" THEN queue.thrown \cup {v} ELSE queue.thrown
<1>1. /\ v \in queue.running /\ exitCode = 3 /\ Ingest(v, outcome)
      /\ IF outcome = "thrown" THEN UNCHANGED results ELSE Push(v, outcome)
      /\ queue' = Settled([queue EXCEPT !.running = @ \ {v}, !.thrown = thrown])
      /\ UNCHANGED <<args, entries, exitCode>> /\ BulkTypeOK
  BY DEF JobSettles, BulkIInv
<1>2. queue \in QueueKind /\ args.sync \in BOOLEAN /\ results \in Seq(Result)
  BY <1>1, BulkArgs DEF BulkTypeOK, QueueKind
<1>3. args.sync /\ SyncOK
  <2>1. NoQueue.running = {}
    BY DEF NoQueue
  <2> QED BY <1>1, <1>2, <2>1 DEF BulkIInv, BatchOK
<1>4. RoomUsed(queue) /\ JobsApart(queue) /\ ResultsApart
  BY <1>3 DEF SyncOK
<1>5. thrown \in {queue.thrown, queue.thrown \cup {v}}
  OBVIOUS
<1>6. thrown = queue.thrown \/ outcome = "thrown"
  OBVIOUS
<1> HIDE DEF thrown
<1>7. /\ queue' \in QueueKind /\ RoomUsed(queue') /\ JobsApart(queue')
      /\ thrown = queue.thrown => Occupied(queue') \subseteq Occupied(queue) \ {v}
      /\ Occupied(queue') \subseteq Occupied(queue)
  BY <1>1, <1>2, <1>4, <1>5, SettledKeeps
<1>8. named' \in [Values -> Title]
  BY <1>1, IngestKeeps
<1>9. results' \in Seq(Result) /\ ResultsApart'
  <2>1. CASE outcome = "thrown"
    <3>1. results' = results
      BY <1>1, <2>1
    <3> QED BY <1>2, <1>4, <1>7, <3>1 DEF ResultsApart
  <2>2. CASE outcome # "thrown"
    <3>1. Push(v, outcome) /\ outcome \in {"ingested", "failed"}
      BY <1>1, <2>2
    <3>2. /\ results' \in Seq(Result) /\ Len(results') = Len(results) + 1
          /\ \A i \in 1..Len(results) : results'[i] = results[i]
          /\ results'[Len(results) + 1] = [value |-> v, status |-> outcome]
      BY <1>1, <3>1, PushKeeps
    <3>3. /\ DOMAIN results = 1..Len(results) /\ Len(results) \in Nat
          /\ DOMAIN results' = 1..Len(results')
      BY <1>2, <3>2, LenProperties
    <3>4. \A i \in DOMAIN results' : i \in DOMAIN results \/ i = Len(results) + 1
      BY <3>2, <3>3
    <3>5. results'[Len(results) + 1].value = v
      BY <3>2
    <3>6. \A i \in DOMAIN results : results'[i].value = results[i].value /\ results[i].value # v
      <4>1. v \in Occupied(queue)
        BY <1>1 DEF Occupied
      <4> QED BY <1>4, <3>2, <3>3, <4>1 DEF ResultsApart
    <3>7. ASSUME NEW i \in DOMAIN results', NEW j \in DOMAIN results',
                 results'[i].value = results'[j].value
          PROVE  i = j
      BY <1>4, <3>4, <3>5, <3>6, <3>7 DEF ResultsApart
    <3>8. ASSUME NEW i \in DOMAIN results'
          PROVE  results'[i].value \notin Occupied(queue')
      <4>1. thrown = queue.thrown
        BY <1>6, <2>2
      <4> QED BY <1>4, <1>7, <3>4, <3>5, <3>6, <4>1 DEF ResultsApart
    <3> QED BY <3>2, <3>7, <3>8 DEF ResultsApart
  <2> QED BY <2>1, <2>2
<1>10. BulkTypeOK'
  BY <1>1, <1>7, <1>8, <1>9 DEF BulkTypeOK, QueueKind
<1>11. SyncOK'
  BY <1>1, <1>3, <1>7, <1>9 DEF SyncOK
<1> QED BY <1>1, <1>3, <1>10, <1>11 DEF BulkIInv

LEMMA EndKeeps == BulkIInv /\ (Usage \/ SyncFails \/ PrintSummary) => BulkIInv'
<1> SUFFICES ASSUME BulkIInv, Usage \/ SyncFails \/ PrintSummary PROVE BulkIInv'
  OBVIOUS
<1>1. /\ UNCHANGED <<args, entries, queue, results, named>> /\ exitCode = 3
      /\ exitCode' \in {0, 1, 2}
  BY DEF Usage, SyncFails, PrintSummary, NotStarted
<1>2. BulkTypeOK /\ args.sync \in BOOLEAN /\ results \in Seq(Result)
  BY BulkArgs DEF BulkIInv, BulkTypeOK
<1>3. BulkTypeOK'
  BY <1>1, <1>2 DEF BulkTypeOK
<1>4. Read' = Read
  BY <1>1 DEF Read
<1>5. ASSUME args.sync PROVE SyncOK'
  <2>1. queue.drained \/ queue = NoQueue
    BY <1>5 DEF Usage, SyncFails, PrintSummary, NotStarted
  <2> QED BY <1>1, <1>5, <2>1 DEF SyncOK, ResultsApart, BulkIInv
<1>6. ASSUME ~args.sync PROVE BatchOK'
  <2>1. BatchOK
    BY <1>6 DEF BulkIInv
  <2>2. CASE PrintSummary
    <3>1. ~NoQueue.drained /\ queue = NoQueue
      BY <2>1 DEF NoQueue, BatchOK
    <3>2. results # <<>> /\ entries = <<>>
      BY <2>2, <3>1 DEF PrintSummary, NotStarted
    <3>3. exitCode' = 0 => \A i \in 1..Len(results) : results[i].status = "ingested"
      <4>1. ASSUME exitCode' = 0, NEW i \in 1..Len(results) PROVE results[i].status = "ingested"
        <5>1. i \notin Failed
          BY <2>2, <4>1 DEF PrintSummary
        <5>2. results[i] \in Result
          BY <1>2, ElementOfSeq
        <5> QED BY <5>1, <5>2 DEF Failed, Result
      <4> QED BY <4>1
    <3> QED BY <1>1, <1>4, <2>1, <3>2, <3>3 DEF BatchOK
  <2>3. CASE Usage
    <3>1. exitCode' = 2 /\ entries = <<>> /\ results = <<>>
      BY <2>3 DEF Usage, NotStarted
    <3> QED BY <1>1, <1>4, <2>1, <3>1 DEF BatchOK
  <2> QED BY <1>6, <2>2, <2>3 DEF SyncFails
<1> QED BY <1>1, <1>3, <1>5, <1>6 DEF BulkIInv

LEMMA BulkKept == BulkIInv /\ [BulkNext]_bulkVars => BulkIInv'
<1> SUFFICES ASSUME BulkIInv, [BulkNext]_bulkVars PROVE BulkIInv'
  OBVIOUS
<1>1. CASE Usage \/ SyncFails \/ PrintSummary
  BY <1>1, EndKeeps
<1>2. CASE StartBatch
  BY <1>2, StartBatchKeeps
<1>3. ASSUME NEW documents \in SeqOf(Values, Cardinality(Values)),
             IsInjective(documents), StartSync(documents)
      PROVE  BulkIInv'
  <2>1. PICK m \in 0..Cardinality(Values) : documents \in [1..m -> Values]
    BY DEF SeqOf
  <2>2. Cardinality(Values) \in Nat
    BY BulkAssumption, FS_CardinalityType DEF Values
  <2>3. documents \in Seq(Values)
    BY <2>1, <2>2, SeqDef
  <2> QED BY <1>3, <2>3, StartSyncKeeps
<1>4. ASSUME NEW outcome \in {"ingested", "failed", "thrown"}, RunEntry(outcome)
      PROVE  BulkIInv'
  BY <1>4, RunEntryKeeps
<1>5. ASSUME NEW outcome \in {"ingested", "failed", "thrown"}, NEW v \in Values,
             JobSettles(v, outcome)
      PROVE  BulkIInv'
  BY <1>5, JobSettlesKeeps
<1>6. CASE UNCHANGED bulkVars
  BY <1>6 DEF bulkVars, BulkIInv, BulkTypeOK, SyncOK, BatchOK, ResultsApart, Read
<1> QED BY <1>1, <1>2, <1>3, <1>4, <1>5, <1>6 DEF BulkNext

\* A document has one result, or is at one place of the queue.
LEMMA BulkFollows == BulkIInv => BulkInv
<1> SUFFICES ASSUME BulkIInv PROVE BulkInv
  OBVIOUS
<1>1. BulkTypeOK /\ args.sync \in BOOLEAN /\ results \in Seq(Result)
  BY BulkArgs DEF BulkIInv, BulkTypeOK
<1>2. ASSUME args.sync PROVE QueueDrains
  <2>1. SyncOK
    BY <1>2 DEF BulkIInv
  <2>2. ASSUME NEW v \in Values
        PROVE  Cardinality(ResultOf(v)) +
                 (IF v \in queue.thrown \cup queue.running \cup ToSet(queue.pending) THEN 1 ELSE 0) <= 1
    <3>1. DOMAIN results = 1..Len(results)
      BY <1>1, LenProperties
    <3>2. PICK R : R = ResultOf(v)
      OBVIOUS
    <3>3. \A i, j \in R : i = j
      BY <2>1, <3>1, <3>2 DEF SyncOK, ResultsApart, ResultOf
    <3>4. R = {} \/ \E i \in R : R = {i}
      BY <3>3
    <3>5. Cardinality({}) = 0 /\ \A i : Cardinality({i}) = 1
      BY FS_EmptySet, FS_Singleton
    <3>6. CASE v \in Occupied(queue)
      <4>1. R = {}
        BY <2>1, <3>1, <3>2, <3>6 DEF SyncOK, ResultsApart, ResultOf
      <4> QED BY <3>2, <3>5, <4>1
    <3>7. CASE v \notin Occupied(queue)
      <4>1. v \notin queue.thrown \cup queue.running \cup ToSet(queue.pending)
        BY <3>7 DEF Occupied
      <4>2. Cardinality(R) \in {0, 1}
        BY <3>4, <3>5
      <4> QED BY <3>2, <4>1, <4>2
    <3> QED BY <3>6, <3>7
  <2> QED BY <1>2, <2>1, <2>2 DEF QueueDrains, SyncOK, RoomUsed
<1>3. ASSUME ~args.sync, exitCode \in {0, 1} PROVE BatchTells
  <2>1. BatchOK
    BY <1>3 DEF BulkIInv
  <2>2. entries = <<>> /\ results # <<>> /\ Len(results) + Len(entries) = Len(Read)
    BY <1>3, <2>1 DEF BatchOK
  <2>3. Len(entries) = 0 /\ Len(results) \in Nat
    BY <1>1, <2>2
  <2> QED BY <2>1, <2>2, <2>3 DEF BatchTells, BatchOK
<1>4. ~args.sync => QueueDrains
  BY DEF QueueDrains
<1>5. args.sync \/ exitCode \notin {0, 1} => BatchTells
  BY DEF BatchTells
<1> QED BY <1>1, <1>2, <1>3, <1>4, <1>5 DEF BulkInv

(* A bulk ingestion of any size, with room for any number of jobs and in   *)
(* whatever order they end: a sync sums up when all have settled, each     *)
(* with one result or empty, and a batch's exit code tells of a failure.    *)
THEOREM BulkIngestionIsWhole == BulkSpec => []BulkInv
<1> QED BY BulkBegins, BulkKept, BulkFollows, PTL DEF BulkSpec

-----------------------------------------------------------------------------
(* The agents: for any question, any chunks a search finds, in any order,  *)
(* and whichever calls of the model fail                                   *)

Early == {"look up", "expand", "look up English", "guard", "serve"}
Later == {"compare", "calculate", "analyse", "write", "remember"}
Makers == {"expansion", "guardrail", "analyst", "writer", "memory"}
Tools == {"hybrid", "web", "calculator"}
ModelCall == [stage : 0..3, by : Makers]
Pieces ==
  [kind : {"memory", "chunk", "web", "sum"},
   of : Passages \cup {"memory", "web", "calculator"}, size : Nat]

\* The label of the last stage that was set.
LabelAt(pc, label) ==
  /\ label \in 0..3
  /\ pc \in Early => label = 0
  /\ pc \in {"research", "compare", "calculate"} => label = 1
  /\ pc = "analyse" => label = 2
  /\ pc \in {"write", "remember"} => label = 3

\* Under which stage a call is made.
StageRight(c) ==
  /\ c.by \in {"expansion", "guardrail"} => c.stage = 0
  /\ c.by = "analyst" => c.stage = 2
  /\ c.by = "writer" => c.stage = 3
  /\ c.by = "memory" => c.stage \in {0, 3}

\* When it may have been made.
MadeBefore(c, pc, folds) ==
  /\ c.by = "expansion" => pc \notin {"look up", "expand"}
  /\ c.by = "guardrail" => pc \notin Early
  /\ c.by = "analyst" => pc \in {"write", "remember", "done"}
  /\ c.by = "writer" => pc \in {"remember", "done"}
  /\ c.by = "memory" => pc = "done" /\ folds

CallsOK(calls, pc, folds) ==
  /\ calls \in Seq(ModelCall)
  /\ \A i, j \in DOMAIN calls : calls[i].by = calls[j].by => i = j
  /\ \A i \in DOMAIN calls : StageRight(calls[i]) /\ MadeBefore(calls[i], pc, folds)

Searched(tools) == IF Contains(tools, "web") THEN 1 ELSE 0

StepsOK(steps, tools, pc) ==
  /\ steps \in {<<>>, <<1>>, <<1, 2>>, <<1, 2, 3>>}
  /\ pc \in Early \cup {"research"} => steps = <<>> /\ tools = <<>>
  /\ pc = "compare" => steps = <<1>>
  /\ pc = "calculate" => steps \in {<<1>>, <<1, 2>>}
  /\ tools \in Seq(Tools) /\ Len(tools) = Len(steps) + Searched(tools)

FoundOK ==
  /\ agent \in Later \/ record.through = 3 => sources # {}
  /\ agent \in Early \cup {"research"} => sources = {}
  /\ ~ask.compares =>
       \A i \in DOMAIN context : context[i].of \in sources \cup {"memory", "calculator"}

TurnOK ==
  /\ agent \in Early \cup Later \cup {"research", "done", "failed"}
  /\ ask \in AgentTurn /\ context \in Seq(Pieces)
  /\ DOMAIN record = {"label", "calls", "steps", "tools", "shown", "through"}

AgentsIInv ==
  /\ TurnOK /\ LabelAt(agent, record.label) /\ CallsOK(record.calls, agent, ask.folds)
  /\ StepsOK(record.steps, record.tools, agent) /\ FoundOK

-----------------------------------------------------------------------------
(* The calls of the models *)

\* One more call, of a stage that has made empty.
LEMMA CallMade ==
  ASSUME NEW pc, NEW next, NEW folds, CallsOK(record.calls, pc, folds), record.label \in 0..3,
         NEW by \in Makers, NEW streamed, NEW calls \in Calls(by, streamed),
         \A c \in ModelCall : MadeBefore(c, pc, folds) => c.by # by /\ MadeBefore(c, next, folds),
         StageRight([stage |-> record.label, by |-> by]),
         MadeBefore([stage |-> record.label, by |-> by], next, folds)
  PROVE  CallsOK(calls, next, folds)
<1>1. PICK c : c = [stage |-> record.label, by |-> by]
  OBVIOUS
<1>2. c \in ModelCall /\ c.by = by /\ StageRight(c) /\ MadeBefore(c, next, folds)
  BY <1>1 DEF ModelCall
<1>3. calls = record.calls \/ calls = Append(record.calls, c)
  BY <1>1 DEF Calls, Recorded
<1>4. record.calls \in Seq(ModelCall) /\ DOMAIN record.calls = 1..Len(record.calls)
  BY LenProperties DEF CallsOK
<1>5. \A i \in DOMAIN record.calls : record.calls[i] \in ModelCall
  BY <1>4, ElementOfSeq
<1>6. CASE calls = record.calls
  BY <1>4, <1>5, <1>6 DEF CallsOK
<1>7. CASE calls = Append(record.calls, c)
  <2>1. /\ calls \in Seq(ModelCall) /\ Len(calls) = Len(record.calls) + 1
        /\ \A i \in 1..Len(record.calls) : calls[i] = record.calls[i]
        /\ calls[Len(record.calls) + 1] = c
    BY <1>2, <1>4, <1>7, AppendProperties
  <2>2. DOMAIN calls = 1..Len(calls) /\ Len(record.calls) \in Nat
    BY <1>4, <2>1, LenProperties
  <2>3. \A i \in DOMAIN calls : i \in DOMAIN record.calls \/ i = Len(record.calls) + 1
    BY <1>4, <2>1, <2>2
  <2>4. \A i \in DOMAIN record.calls : /\ calls[i] = record.calls[i] /\ calls[i].by # by
                                       /\ StageRight(calls[i]) /\ MadeBefore(calls[i], next, folds)
    BY <1>4, <1>5, <2>1 DEF CallsOK
  <2>5. ASSUME NEW i \in DOMAIN calls, NEW j \in DOMAIN calls, calls[i].by = calls[j].by
        PROVE  i = j
    BY <1>2, <2>1, <2>3, <2>4, <2>5 DEF CallsOK
  <2>6. ASSUME NEW i \in DOMAIN calls
        PROVE  StageRight(calls[i]) /\ MadeBefore(calls[i], next, folds)
    BY <1>2, <2>1, <2>3, <2>4
  <2> QED BY <2>1, <2>5, <2>6 DEF CallsOK
<1> QED BY <1>3, <1>6, <1>7

\* No call.
LEMMA NoCallMade ==
  ASSUME NEW pc, NEW next, NEW folds, NEW calls, CallsOK(calls, pc, folds),
         \A c \in ModelCall : MadeBefore(c, pc, folds) => MadeBefore(c, next, folds)
  PROVE  CallsOK(calls, next, folds)
<1>1. \A i \in DOMAIN calls : calls[i] \in ModelCall
  BY ElementOfSeq, LenProperties DEF CallsOK
<1> QED BY <1>1 DEF CallsOK

-----------------------------------------------------------------------------
(* Steps, tools and what is found *)

LEMMA ToolUsed ==
  ASSUME NEW tools \in Seq(Tools), NEW tool \in Tools
  PROVE  /\ Append(tools, tool) \in Seq(Tools) /\ Len(Append(tools, tool)) = Len(tools) + 1
         /\ tools \o <<tool>> = Append(tools, tool)
         /\ tool # "web" => Searched(Append(tools, tool)) = Searched(tools)
<1>1. PICK more : more = Append(tools, tool)
  OBVIOUS
<1>2. /\ more \in Seq(Tools) /\ Len(more) = Len(tools) + 1 /\ Len(tools) \in Nat
      /\ \A i \in 1..Len(tools) : more[i] = tools[i]
      /\ more[Len(tools) + 1] = tool
  BY <1>1, AppendProperties, LenProperties
<1>3. tools \o <<tool>> = more
  BY <1>1, AppendIsConcat
<1>4. tool # "web" => (Contains(more, "web") <=> Contains(tools, "web"))
  BY <1>2 DEF Contains
<1> QED BY <1>1, <1>2, <1>3, <1>4 DEF Searched

\* The steps are numbered.
LEMMA StepLists ==
  ASSUME NEW one, NEW two, NEW three, one = << 1 >>, two = << 1, 2 >>, three = << 1, 2, 3 >>
  PROVE  /\ Len(one) = 1 /\ Len(two) = 2 /\ Len(three) = 3
         /\ Append(one, 2) = two /\ Append(two, 3) = three
<1>1. Len(one) = 1 /\ Len(two) = 2 /\ Len(three) = 3
  OBVIOUS
<1>2. one \in Seq(Nat) /\ two \in Seq(Nat) /\ three \in Seq(Nat)
  OBVIOUS
<1>3. Append(one, 2) = two
  <2>1. PICK s : s = Append(one, 2)
    OBVIOUS
  <2>2. s \in Seq(Nat) /\ Len(s) = 2 /\ s[1] = 1 /\ s[2] = 2
    BY <1>1, <1>2, <2>1, AppendProperties
  <2>3. two[1] = 1 /\ two[2] = 2
    OBVIOUS
  <2>4. \A i \in 1..2 : s[i] = two[i]
    BY <2>2, <2>3
  <2> QED BY <1>1, <1>2, <2>1, <2>2, <2>4, SeqEqual
<1>4. Append(two, 3) = three
  <2>1. PICK s : s = Append(two, 3)
    OBVIOUS
  <2>2. two[1] = 1 /\ two[2] = 2 /\ three[1] = 1 /\ three[2] = 2 /\ three[3] = 3
    OBVIOUS
  <2>3. s \in Seq(Nat) /\ Len(s) = 3 /\ s[1] = 1 /\ s[2] = 2 /\ s[3] = 3
    BY <1>1, <1>2, <2>1, <2>2, AppendProperties
  <2>4. \A i \in 1..3 : s[i] = three[i]
    BY <2>2, <2>3
  <2> QED BY <1>1, <1>2, <2>1, <2>3, <2>4, SeqEqual
<1> QED BY <1>1, <1>3, <1>4

LEMMA FirstSearch ==
  /\ Len(<<"hybrid">>) = 1 /\ ~Contains(<<"hybrid">>, "web") /\ <<"hybrid">> \in Seq(Tools)
  /\ Len(<<"hybrid", "web">>) = 2 /\ Contains(<<"hybrid", "web">>, "web")
  /\ <<"hybrid", "web">> \in Seq(Tools)
<1>1. PICK one, two : one = <<"hybrid">> /\ two = <<"hybrid", "web">>
  OBVIOUS
<1>2. Len(one) = 1 /\ one[1] = "hybrid" /\ Len(two) = 2 /\ two[2] = "web"
  BY <1>1
<1>3. one \in Seq(Tools) /\ two \in Seq(Tools)
  BY <1>1 DEF Tools
<1>4. ~Contains(one, "web")
  BY <1>2 DEF Contains
<1>5. Contains(two, "web")
  <2>1. 2 \in 1..Len(two)
    BY <1>2
  <2> QED BY <1>2, <2>1 DEF Contains
<1> QED BY <1>1, <1>2, <1>3, <1>4, <1>5

\* Chunks in the order of a search.
LEMMA FoundChunks ==
  ASSUME NEW S \in SUBSET Passages, NEW order \in SetToSeqs(S),
         NEW found, found = [i \in 1..Len(order) |-> Chunk(order[i])]
  PROVE  found \in Seq(Pieces) /\ \A i \in DOMAIN found : found[i].of \in S
<1>1. IsFiniteSet(S) /\ Cardinality(S) \in Nat
  BY AgentsAssumption, FS_Subset, FS_CardinalityType
<1>2. order \in [1..Cardinality(S) -> S]
  BY DEF SetToSeqs
<1>3. order \in Seq(S)
  BY <1>1, <1>2, SeqDef
<1>4. Len(order) \in Nat /\ \A i \in 1..Len(order) : order[i] \in S
  BY <1>3, LenProperties, ElementOfSeq
<1>5. \A p \in S : Chunk(p) \in Pieces /\ Chunk(p).of = p
  BY AgentsAssumption DEF Chunk, Piece, Pieces
<1>6. found \in [1..Len(order) -> Pieces]
  BY <1>4, <1>5
<1> QED BY <1>4, <1>5, <1>6, SeqDef

LEMMA JoinedPieces ==
  ASSUME NEW s \in Seq(Pieces), NEW t \in Seq(Pieces), NEW from,
         \A i \in DOMAIN s : s[i].of \in from, \A i \in DOMAIN t : t[i].of \in from
  PROVE  s \o t \in Seq(Pieces) /\ \A i \in DOMAIN (s \o t) : (s \o t)[i].of \in from
<1>1. PICK u : u = s \o t
  OBVIOUS
<1>2. /\ u \in Seq(Pieces) /\ Len(u) = Len(s) + Len(t)
      /\ \A i \in 1..Len(u) : u[i] = IF i <= Len(s) THEN s[i] ELSE t[i - Len(s)]
  BY <1>1, ConcatProperties
<1>3. /\ Len(s) \in Nat /\ Len(t) \in Nat /\ DOMAIN u = 1..Len(u)
      /\ DOMAIN s = 1..Len(s) /\ DOMAIN t = 1..Len(t)
  BY <1>2, LenProperties
<1>4. ASSUME NEW i \in DOMAIN u
      PROVE  u[i].of \in from
  <2>1. i \in 1..Len(u) /\ i \in Nat
    BY <1>3
  <2>2. CASE i <= Len(s)
    <3>1. i \in DOMAIN s /\ u[i] = s[i]
      BY <1>2, <1>3, <2>1, <2>2
    <3> QED BY <3>1
  <2>3. CASE ~(i <= Len(s))
    <3>1. i - Len(s) \in DOMAIN t /\ u[i] = t[i - Len(s)]
      BY <1>2, <1>3, <2>1, <2>3
    <3> QED BY <3>1
  <2> QED BY <2>2, <2>3
<1> QED BY <1>1, <1>2, <1>4

-----------------------------------------------------------------------------
(* The steps *)

LEMMA ThrowsKeeps == AgentsIInv /\ (Throws \/ LookUpQuestion \/ LookUpEnglish) => AgentsIInv'
<1> SUFFICES ASSUME AgentsIInv, Throws \/ LookUpQuestion \/ LookUpEnglish PROVE AgentsIInv'
  OBVIOUS
<1>1. /\ UNCHANGED <<ask, context, sources, record>>
      /\ \/ agent \in {"look up", "look up English", "research", "compare"} /\ agent' = "failed"
         \/ agent = "look up" /\ agent' \in {"serve", "expand"}
         \/ agent = "look up English" /\ agent' \in {"serve", "guard"}
  BY DEF Throws, LookUpQuestion, LookUpEnglish, LookUp, Then
<1>2. \A c \in ModelCall : MadeBefore(c, agent, ask.folds) => MadeBefore(c, agent', ask.folds)
  BY <1>1 DEF MadeBefore, Early
<1>3. CallsOK(record.calls, agent', ask.folds)
  BY <1>2, NoCallMade DEF AgentsIInv
<1>4. TurnOK' /\ LabelAt(agent', record.label)
  BY <1>1 DEF AgentsIInv, TurnOK, LabelAt, Early, Later
<1>5. StepsOK(record.steps, record.tools, agent')
  BY <1>1 DEF AgentsIInv, StepsOK, Early
<1>6. FoundOK'
  BY <1>1 DEF AgentsIInv, FoundOK, Early, Later
<1> QED BY <1>1, <1>3, <1>4, <1>5, <1>6 DEF AgentsIInv

LEMMA GenerateKeeps == AgentsIInv /\ GenerateSubQueries => AgentsIInv'
<1> SUFFICES ASSUME AgentsIInv, GenerateSubQueries PROVE AgentsIInv'
  OBVIOUS
<1>1. PICK calls \in Calls("expansion", FALSE) :
        /\ record' = [record EXCEPT !.calls = calls]
        /\ agent = "expand" /\ agent' \in {"guard", "look up English"}
        /\ UNCHANGED <<ask, context, sources>>
  BY DEF GenerateSubQueries, Then
<1>2. /\ DOMAIN record' = DOMAIN record /\ record'.calls = calls /\ record'.label = record.label
      /\ record'.steps = record.steps /\ record'.tools = record.tools
      /\ record'.through = record.through
  BY <1>1 DEF AgentsIInv, TurnOK
<1>3. record.label = 0
  BY <1>1 DEF AgentsIInv, LabelAt, Early
<1>4. CallsOK(calls, agent', ask.folds)
  <2>1. \A c \in ModelCall : MadeBefore(c, agent, ask.folds) =>
          c.by # "expansion" /\ MadeBefore(c, agent', ask.folds)
    BY <1>1 DEF MadeBefore, Early
  <2>2. /\ StageRight([stage |-> record.label, by |-> "expansion"])
        /\ MadeBefore([stage |-> record.label, by |-> "expansion"], agent', ask.folds)
    BY <1>1, <1>3 DEF StageRight, MadeBefore
  <2>3. CallsOK(record.calls, agent, ask.folds) /\ record.label \in 0..3 /\ "expansion" \in Makers
    BY DEF AgentsIInv, LabelAt, Makers
  <2>4. PICK pc, next, folds : pc = agent /\ next = agent' /\ folds = ask.folds
    OBVIOUS
  <2>5. calls \in Calls("expansion", FALSE)
    BY <1>1
  <2> QED BY <2>1, <2>2, <2>3, <2>4, <2>5, CallMade
<1>5. TurnOK' /\ LabelAt(agent', record'.label)
  BY <1>1, <1>2, <1>3 DEF AgentsIInv, TurnOK, LabelAt, Early, Later
<1>6. StepsOK(record'.steps, record'.tools, agent')
  BY <1>1, <1>2 DEF AgentsIInv, StepsOK, Early
<1>7. FoundOK'
  BY <1>1, <1>2 DEF AgentsIInv, FoundOK, Early, Later
<1> QED BY <1>1, <1>2, <1>4, <1>5, <1>6, <1>7 DEF AgentsIInv

LEMMA DomainGuardKeeps == AgentsIInv /\ IsQueryOutOfDomain => AgentsIInv'
<1> SUFFICES ASSUME AgentsIInv, IsQueryOutOfDomain PROVE AgentsIInv'
  OBVIOUS
<1>1. PICK calls \in Calls("guardrail", FALSE), barred \in BOOLEAN :
        /\ record' = [record EXCEPT !.calls = calls, !.through = IF barred THEN 0 ELSE @,
                                    !.label = IF barred THEN @ ELSE 1]
        /\ agent = "guard" /\ agent' = (IF barred THEN "done" ELSE "research")
        /\ context' = IF barred \/ ask.memory = 0 THEN <<>>
                      ELSE <<Piece("memory", "memory", ask.memory)>>
        /\ UNCHANGED <<ask, sources>>
  BY DEF IsQueryOutOfDomain, Then
<1>2. /\ DOMAIN record' = DOMAIN record /\ record'.calls = calls
      /\ record'.label = (IF barred THEN record.label ELSE 1)
      /\ record'.steps = record.steps /\ record'.tools = record.tools
      /\ record'.through = (IF barred THEN 0 ELSE record.through)
  BY <1>1 DEF AgentsIInv, TurnOK
<1>3. record.label = 0
  BY <1>1 DEF AgentsIInv, LabelAt, Early
<1>4. CallsOK(calls, agent', ask.folds)
  <2>1. \A c \in ModelCall : MadeBefore(c, agent, ask.folds) =>
          c.by # "guardrail" /\ MadeBefore(c, agent', ask.folds)
    BY <1>1 DEF MadeBefore, Early
  <2>2. /\ StageRight([stage |-> record.label, by |-> "guardrail"])
        /\ MadeBefore([stage |-> record.label, by |-> "guardrail"], agent', ask.folds)
    BY <1>1, <1>3 DEF StageRight, MadeBefore, Early
  <2>3. CallsOK(record.calls, agent, ask.folds) /\ record.label \in 0..3 /\ "guardrail" \in Makers
    BY DEF AgentsIInv, LabelAt, Makers
  <2>4. PICK pc, next, folds : pc = agent /\ next = agent' /\ folds = ask.folds
    OBVIOUS
  <2>5. calls \in Calls("guardrail", FALSE)
    BY <1>1
  <2> QED BY <2>1, <2>2, <2>3, <2>4, <2>5, CallMade
<1>5. context' \in Seq(Pieces) /\ \A i \in DOMAIN context' : context'[i].of = "memory"
  <2>1. PICK piece : piece = Piece("memory", "memory", ask.memory)
    OBVIOUS
  <2>2. ask.memory \in Nat
    BY AgentsAssumption DEF AgentsIInv, TurnOK, AgentTurn
  <2>3. piece \in Pieces /\ piece.of = "memory"
    BY <2>1, <2>2 DEF Piece, Pieces
  <2>4. PICK empty, one : empty = <<>> /\ one = <<piece>>
    OBVIOUS
  <2>5. context' = empty \/ context' = one
    BY <1>1, <2>1, <2>4
  <2>6. empty \in Seq(Pieces) /\ DOMAIN empty = {}
    BY <2>4
  <2>7. one \in Seq(Pieces) /\ DOMAIN one = {1} /\ one[1] = piece
    BY <2>3, <2>4
  <2> QED BY <2>3, <2>5, <2>6, <2>7
<1>6. TurnOK' /\ LabelAt(agent', record'.label)
  BY <1>1, <1>2, <1>3, <1>5 DEF AgentsIInv, TurnOK, LabelAt, Early, Later
<1>7. StepsOK(record'.steps, record'.tools, agent')
  BY <1>1, <1>2 DEF AgentsIInv, StepsOK, Early
<1>8. FoundOK'
  BY <1>1, <1>2, <1>5 DEF AgentsIInv, FoundOK, Early, Later
<1> QED BY <1>1, <1>2, <1>4, <1>6, <1>7, <1>8 DEF AgentsIInv

\* A search adds pieces, a step and its tools.
LEMMA AddsKeeps ==
  ASSUME AgentsIInv, NEW found \in Seq(Pieces), NEW iteration, NEW tools,
         Adds(found, iteration, tools)
  PROVE  /\ context' = context \o found /\ context' \in Seq(Pieces)
         /\ DOMAIN record' = DOMAIN record /\ record'.calls = record.calls
         /\ record'.label = record.label /\ record'.through = record.through
         /\ record'.steps = Append(record.steps, iteration)
         /\ record'.tools = record.tools \o tools
<1>1. context \in Seq(Pieces) /\ context' = context \o found
  BY DEF AgentsIInv, TurnOK, Adds
<1>2. context' \in Seq(Pieces)
  BY <1>1, ConcatProperties
<1> QED BY <1>1, <1>2 DEF AgentsIInv, TurnOK, Adds

LEMMA ResearchKeeps == AgentsIInv /\ Research => AgentsIInv'
<1> SUFFICES ASSUME AgentsIInv, Research PROVE AgentsIInv'
  OBVIOUS
<1>1. agent = "research" /\ agent' = "compare" /\ ask' = ask
  BY DEF Research, Then
<1>2. /\ sources = {} /\ record.steps = <<>> /\ record.tools = <<>> /\ record.label = 1
      /\ ~ask.compares => \A i \in DOMAIN context : context[i].of \in {"memory", "calculator"}
  BY <1>1 DEF AgentsIInv, FoundOK, StepsOK, LabelAt
<1>3. PICK found \in Seq(Pieces), tools \in {<<"hybrid">>, <<"hybrid", "web">>} :
        /\ Adds(found, 1, tools) /\ sources' # {}
        /\ \A i \in DOMAIN found : found[i].of \in sources'
  <2>1. ASSUME NEW S \in (SUBSET Passages) \ {{}}, NEW order \in SetToSeqs(S),
               Adds([i \in 1..Len(order) |-> Chunk(order[i])], 1, <<"hybrid">>), sources' = S
        PROVE  \E found \in Seq(Pieces) : /\ Adds(found, 1, <<"hybrid">>)
                                          /\ \A i \in DOMAIN found : found[i].of \in S
    <3>1. PICK found : found = [i \in 1..Len(order) |-> Chunk(order[i])]
      OBVIOUS
    <3>2. found \in Seq(Pieces) /\ \A i \in DOMAIN found : found[i].of \in S
      BY <3>1, FoundChunks
    <3> QED BY <2>1, <3>1, <3>2
  <2>2. WebSearch \in Seq(Pieces) /\ \A i \in DOMAIN WebSearch : WebSearch[i].of = "web"
    <3>1. PICK piece : piece = Piece("web", "web", PassageLength)
      OBVIOUS
    <3>2. piece \in Pieces /\ piece.of = "web"
      BY <3>1, AgentsAssumption DEF Piece, Pieces
    <3>3. WebSearch = <<piece>>
      BY <3>1 DEF WebSearch
    <3> QED BY <3>2, <3>3
  <2>3. \/ \E S \in (SUBSET Passages) \ {{}} : \E order \in SetToSeqs(S) :
             /\ Adds([i \in 1..Len(order) |-> Chunk(order[i])], 1, <<"hybrid">>)
             /\ sources' = S
        \/ Adds(WebSearch, 1, <<"hybrid", "web">>) /\ sources' = {"web"}
    BY DEF Research
  <2>4. CASE \E S \in (SUBSET Passages) \ {{}} : \E order \in SetToSeqs(S) :
               /\ Adds([i \in 1..Len(order) |-> Chunk(order[i])], 1, <<"hybrid">>)
               /\ sources' = S
    <3>1. PICK S \in (SUBSET Passages) \ {{}} : \E order \in SetToSeqs(S) :
               /\ Adds([i \in 1..Len(order) |-> Chunk(order[i])], 1, <<"hybrid">>)
               /\ sources' = S
      BY <2>4
    <3>2. PICK order \in SetToSeqs(S) :
               /\ Adds([i \in 1..Len(order) |-> Chunk(order[i])], 1, <<"hybrid">>)
               /\ sources' = S
      BY <3>1
    <3>3. PICK found \in Seq(Pieces) : /\ Adds(found, 1, <<"hybrid">>)
                                       /\ \A i \in DOMAIN found : found[i].of \in S
      BY <2>1, <3>2
    <3>4. sources' # {}
      BY <3>1
    <3> QED BY <3>1, <3>3, <3>4
  <2>5. CASE Adds(WebSearch, 1, <<"hybrid", "web">>) /\ sources' = {"web"}
    BY <2>2, <2>5
  <2> QED BY <2>3, <2>4, <2>5
<1>4. /\ context' = context \o found /\ context' \in Seq(Pieces)
      /\ DOMAIN record' = DOMAIN record /\ record'.calls = record.calls
      /\ record'.label = record.label /\ record'.through = record.through
      /\ record'.steps = Append(record.steps, 1) /\ record'.tools = record.tools \o tools
  BY <1>3, AddsKeeps
<1>5. record'.steps = <<1>> /\ record'.tools = tools
  BY <1>2, <1>3, <1>4
<1>6. StepsOK(record'.steps, record'.tools, agent')
  <2>1. PICK steps : steps = <<1>>
    OBVIOUS
  <2>2. Len(steps) = 1
    BY <2>1
  <2>3. tools \in Seq(Tools) /\ Len(tools) = Len(steps) + Searched(tools)
    <3>1. CASE tools = <<"hybrid">>
      <4>1. tools \in Seq(Tools) /\ Len(tools) = 1 /\ ~Contains(tools, "web")
        BY <3>1, FirstSearch
      <4> QED BY <2>2, <4>1 DEF Searched
    <3>2. CASE tools = <<"hybrid", "web">>
      <4>1. tools \in Seq(Tools) /\ Len(tools) = 2 /\ Contains(tools, "web")
        BY <3>2, FirstSearch
      <4> QED BY <2>2, <4>1 DEF Searched
    <3> QED BY <1>3, <3>1, <3>2
  <2>4. agent' = "compare" /\ agent' \notin Early \cup {"research"}
    BY <1>1 DEF Early
  <2> QED BY <1>5, <2>1, <2>3, <2>4 DEF StepsOK
<1>7. CallsOK(record'.calls, agent', ask.folds)
  <2>1. \A c \in ModelCall : MadeBefore(c, agent, ask.folds) => MadeBefore(c, agent', ask.folds)
    BY <1>1 DEF MadeBefore, Early
  <2>2. CallsOK(record.calls, agent, ask.folds)
    BY DEF AgentsIInv
  <2> QED BY <1>4, <2>1, <2>2, NoCallMade
<1>8. FoundOK'
  <2>1. ASSUME ~ask.compares
        PROVE  \A i \in DOMAIN context' : context'[i].of \in sources' \cup {"memory", "calculator"}
    <3>1. PICK from : from = sources' \cup {"memory", "calculator"}
      OBVIOUS
    <3>2. context \in Seq(Pieces) /\ \A i \in DOMAIN context : context[i].of \in from
      BY <1>2, <2>1, <3>1 DEF AgentsIInv, TurnOK
    <3>3. \A i \in DOMAIN found : found[i].of \in from
      BY <1>3, <3>1
    <3> QED BY <1>4, <3>1, <3>2, <3>3, JoinedPieces
  <2> QED BY <1>1, <1>3, <2>1 DEF FoundOK, Early
<1>9. TurnOK' /\ LabelAt(agent', record'.label)
  BY <1>1, <1>2, <1>4 DEF AgentsIInv, TurnOK, LabelAt, Early, Later
<1> QED BY <1>1, <1>6, <1>7, <1>8, <1>9 DEF AgentsIInv

\* The pieces that a second search or a sum adds have no part in what is listed, or one.
LEMMA CompareKeeps == AgentsIInv /\ Compare => AgentsIInv'
<1> SUFFICES ASSUME AgentsIInv, Compare PROVE AgentsIInv'
  OBVIOUS
<1>1. /\ agent = "compare" /\ agent' = "calculate" /\ UNCHANGED <<ask, sources>>
      /\ record.label = 1 /\ record.steps = <<1>>
  BY DEF Compare, Then, AgentsIInv, LabelAt, StepsOK
<1>2. record.tools \in Seq(Tools) /\ Len(record.tools) = Len(record.steps) + Searched(record.tools)
  BY DEF AgentsIInv, StepsOK
<1>3. CallsOK(record.calls, agent', ask.folds)
  <2>1. \A c \in ModelCall : MadeBefore(c, agent, ask.folds) => MadeBefore(c, agent', ask.folds)
    BY <1>1 DEF MadeBefore, Early
  <2>2. CallsOK(record.calls, agent, ask.folds)
    BY DEF AgentsIInv
  <2> QED BY <2>1, <2>2, NoCallMade
<1>4. agent' \in Later /\ agent' \notin Early \cup {"research"} /\ agent \in Later
  BY <1>1 DEF Early, Later
<1>5. CASE ~ask.compares
  <2>1. UNCHANGED <<context, record>>
    BY <1>5 DEF Compare
  <2>2. TurnOK' /\ LabelAt(agent', record'.label)
    BY <1>1, <1>4, <2>1 DEF AgentsIInv, TurnOK, LabelAt
  <2>3. StepsOK(record'.steps, record'.tools, agent')
    BY <1>1, <1>4, <2>1 DEF AgentsIInv, StepsOK
  <2>4. FoundOK'
    BY <1>1, <1>4, <2>1 DEF AgentsIInv, FoundOK
  <2> QED BY <1>1, <1>3, <2>1, <2>2, <2>3, <2>4 DEF AgentsIInv
<1>6. CASE ask.compares
  <2>1. PICK S \in SUBSET Passages : \E order \in SetToSeqs(S) :
          Adds([i \in 1..Len(order) |-> Chunk(order[i])], 2, <<"hybrid">>)
    BY <1>6 DEF Compare
  <2>2. PICK order \in SetToSeqs(S) :
          Adds([i \in 1..Len(order) |-> Chunk(order[i])], 2, <<"hybrid">>)
    BY <2>1
  <2>3. PICK found : found = [i \in 1..Len(order) |-> Chunk(order[i])]
    OBVIOUS
  <2>4. found \in Seq(Pieces)
    BY <2>3, FoundChunks
  <2>5. PICK tools : tools = <<"hybrid">>
    OBVIOUS
  <2>6. Adds(found, 2, tools)
    BY <2>2, <2>3, <2>5
  <2>7. /\ context' \in Seq(Pieces)
        /\ DOMAIN record' = DOMAIN record /\ record'.calls = record.calls
        /\ record'.label = record.label /\ record'.through = record.through
        /\ record'.steps = Append(record.steps, 2) /\ record'.tools = record.tools \o tools
    BY <2>4, <2>6, AddsKeeps
  <2>8. /\ record'.tools \in Seq(Tools) /\ Len(record'.tools) = Len(record.tools) + 1
        /\ Searched(record'.tools) = Searched(record.tools)
    <3>1. "hybrid" \in Tools /\ "hybrid" # "web"
      BY DEF Tools
    <3> QED BY <1>2, <2>5, <2>7, <3>1, ToolUsed
  <2>9. PICK one, two, three : one = <<1>> /\ two = <<1, 2>> /\ three = <<1, 2, 3>>
    OBVIOUS
  <2>10. record'.steps = two /\ Len(one) = 1 /\ Len(two) = 2
    <3>1. record.steps = one
      BY <1>1, <2>9
    <3>2. Len(one) = 1 /\ Len(two) = 2 /\ Append(one, 2) = two
      BY <2>9, StepLists
    <3> QED BY <2>7, <3>1, <3>2
  <2>11. Len(record'.tools) = Len(record'.steps) + Searched(record'.tools)
    <3>1. Searched(record.tools) \in {0, 1}
      BY DEF Searched
    <3> QED BY <1>1, <1>2, <2>8, <2>9, <2>10, <3>1
  <2>12. StepsOK(record'.steps, record'.tools, agent')
    BY <1>1, <1>4, <2>8, <2>9, <2>10, <2>11 DEF StepsOK
  <2>13. TurnOK' /\ LabelAt(agent', record'.label)
    BY <1>1, <1>4, <2>7 DEF AgentsIInv, TurnOK, LabelAt
  <2>14. FoundOK'
    BY <1>1, <1>4, <1>6, <2>7 DEF AgentsIInv, FoundOK
  <2> QED BY <1>1, <1>3, <2>7, <2>12, <2>13, <2>14 DEF AgentsIInv
<1> QED BY <1>5, <1>6 DEF AgentsIInv, TurnOK, AgentTurn

LEMMA CalculateKeeps == AgentsIInv /\ Calculate => AgentsIInv'
<1> SUFFICES ASSUME AgentsIInv, Calculate PROVE AgentsIInv'
  OBVIOUS
<1>1. /\ agent = "calculate" /\ agent' = "analyse" /\ UNCHANGED <<ask, sources>>
      /\ context \in Seq(Pieces)
      /\ DOMAIN record = {"label", "calls", "steps", "tools", "shown", "through"}
  BY DEF Calculate, Then, AgentsIInv, TurnOK
<1>2. /\ record.tools \in Seq(Tools) /\ Len(record.tools) = Len(record.steps) + Searched(record.tools)
      /\ record.steps = <<1>> \/ record.steps = <<1, 2>>
  BY <1>1 DEF AgentsIInv, StepsOK
<1>3. agent' \in Later /\ agent' \notin Early \cup {"research"} /\ agent \in Later
  BY <1>1 DEF Early, Later
<1>4. PICK r : r = [record EXCEPT !.label = 2]
  OBVIOUS
<1>5. /\ DOMAIN r = DOMAIN record /\ r.label = 2 /\ r.calls = record.calls /\ r.steps = record.steps
      /\ r.tools = record.tools /\ r.through = record.through
  BY <1>1, <1>4
<1>6. /\ DOMAIN record' = DOMAIN record /\ record'.label = 2 /\ record'.calls = record.calls
      /\ record'.through = record.through
      /\ record'.steps = IF ask.costs THEN Append(record.steps, Len(record.steps) + 1) ELSE record.steps
      /\ record'.tools = IF ask.costs THEN Append(record.tools, "calculator") ELSE record.tools
  <2>1. record' = IF ~ask.costs THEN r
                  ELSE [r EXCEPT !.steps = Append(@, Len(@) + 1), !.tools = Append(@, "calculator")]
    BY <1>4 DEF Calculate, Stage
  <2> QED BY <1>1, <1>5, <2>1
<1>7. StepsOK(record'.steps, record'.tools, agent')
  <2>1. CASE ~ask.costs
    BY <1>1, <1>2, <1>3, <1>6, <2>1 DEF StepsOK
  <2>2. CASE ask.costs
    <3>1. PICK one, two, three : one = <<1>> /\ two = <<1, 2>> /\ three = <<1, 2, 3>>
      OBVIOUS
    <3>2. Len(one) = 1 /\ Len(two) = 2 /\ Len(three) = 3 /\ Append(one, 2) = two /\ Append(two, 3) = three
      BY <3>1, StepLists
    <3>3. record'.steps = Append(record.steps, Len(record.steps) + 1)
      BY <1>6, <2>2
    <3>4. \/ record.steps = one /\ record'.steps = two
          \/ record.steps = two /\ record'.steps = three
      <4>1. CASE record.steps = one
        BY <3>2, <3>3, <4>1
      <4>2. CASE record.steps = two
        BY <3>2, <3>3, <4>2
      <4> QED BY <1>2, <3>1, <4>1, <4>2
    <3>5. /\ record'.tools \in Seq(Tools) /\ Len(record'.tools) = Len(record.tools) + 1
          /\ Searched(record'.tools) = Searched(record.tools)
      <4>1. "calculator" \in Tools /\ "calculator" # "web"
        BY DEF Tools
      <4> QED BY <1>2, <1>6, <2>2, <4>1, ToolUsed
    <3>6. Len(record'.tools) = Len(record'.steps) + Searched(record'.tools)
      <4>1. Searched(record.tools) \in {0, 1}
        BY DEF Searched
      <4> QED BY <1>2, <3>2, <3>4, <3>5, <4>1
    <3> QED BY <1>1, <1>3, <3>1, <3>4, <3>5, <3>6 DEF StepsOK
  <2> QED BY <2>1, <2>2 DEF AgentsIInv, TurnOK, AgentTurn
<1>8. CallsOK(record'.calls, agent', ask.folds)
  <2>1. \A c \in ModelCall : MadeBefore(c, agent, ask.folds) => MadeBefore(c, agent', ask.folds)
    BY <1>1 DEF MadeBefore, Early
  <2>2. CallsOK(record.calls, agent, ask.folds)
    BY DEF AgentsIInv
  <2> QED BY <1>6, <2>1, <2>2, NoCallMade
<1>9. PICK one : one = <<Sum>>
  OBVIOUS
<1>10. one \in Seq(Pieces) /\ \A i \in DOMAIN one : one[i].of = "calculator"
  <2>1. PICK piece : piece = Sum
    OBVIOUS
  <2>2. piece \in Pieces /\ piece.of = "calculator"
    BY <2>1, AgentsAssumption DEF Sum, Piece, Pieces
  <2>3. one = <<piece>>
    BY <1>9, <2>1
  <2>4. DOMAIN one = {1} /\ one[1] = piece /\ one \in Seq(Pieces)
    BY <2>2, <2>3
  <2> QED BY <2>2, <2>4
<1>11. context' = one \o context \/ context' = context
  BY <1>9 DEF Calculate
<1>12. context' \in Seq(Pieces)
  <2>1. one \in Seq(Pieces) /\ context \in Seq(Pieces)
    BY <1>1, <1>10
  <2>2. one \o context \in Seq(Pieces)
    BY <2>1, ConcatProperties
  <2> QED BY <1>11, <2>1, <2>2
<1>13. FoundOK'
  <2>1. ASSUME ~ask.compares
        PROVE  \A i \in DOMAIN context' : context'[i].of \in sources \cup {"memory", "calculator"}
    <3>1. PICK from : from = sources \cup {"memory", "calculator"}
      OBVIOUS
    <3>2. \A i \in DOMAIN context : context[i].of \in from
      BY <2>1, <3>1 DEF AgentsIInv, FoundOK
    <3>3. \A i \in DOMAIN one : one[i].of \in from
      BY <1>10, <3>1
    <3> QED BY <1>1, <1>10, <1>11, <3>1, <3>2, <3>3, JoinedPieces
  <2>2. sources # {}
    BY <1>3 DEF AgentsIInv, FoundOK
  <2> QED BY <1>1, <1>3, <2>1, <2>2 DEF FoundOK
<1>14. TurnOK' /\ LabelAt(agent', record'.label)
  BY <1>1, <1>3, <1>6, <1>12 DEF AgentsIInv, TurnOK, LabelAt, Early
<1> QED BY <1>1, <1>7, <1>8, <1>13, <1>14 DEF AgentsIInv

\* The stages that a model writes: the context stays as it is.
LEMMA ModelStage ==
  ASSUME AgentsIInv, agent \in {"serve", "analyse", "write", "remember"},
         agent' \in {"write", "remember", "done"}, UNCHANGED <<ask, context, sources>>,
         DOMAIN record' = DOMAIN record, CallsOK(record'.calls, agent', ask.folds),
         LabelAt(agent', record'.label),
         record'.steps = record.steps, record'.tools = record.tools,
         agent' # "done" => agent # "serve",
         record'.through \in {0, 3, record.through}, record'.through = 3 => agent # "serve" \/ record.through = 3
  PROVE  AgentsIInv'
<1>1. agent' \notin Early \cup {"research", "compare", "calculate"} /\ agent' # "research"
  BY DEF Early
<1>2. TurnOK'
  BY DEF AgentsIInv, TurnOK, Early, Later
<1>3. StepsOK(record'.steps, record'.tools, agent')
  BY <1>1 DEF AgentsIInv, StepsOK
<1>4. FoundOK'
  <2>1. agent # "serve" => agent \in Later
    BY DEF Later
  <2>2. agent' \in Later \/ record'.through = 3 => sources # {}
    BY <2>1 DEF AgentsIInv, FoundOK, Later
  <2> QED BY <1>1, <2>2 DEF AgentsIInv, FoundOK
<1> QED BY <1>2, <1>3, <1>4 DEF AgentsIInv

LEMMA AnalyseKeeps == AgentsIInv /\ Analyse => AgentsIInv'
<1> SUFFICES ASSUME AgentsIInv, Analyse PROVE AgentsIInv'
  OBVIOUS
<1>1. PICK calls, beginning :
        /\ calls \in Calls("analyst", FALSE)
        /\ record' = [Stage(3) EXCEPT !.calls = calls, !.shown["analyst"] = beginning]
        /\ agent = "analyse" /\ agent' = "write" /\ UNCHANGED <<ask, context, sources>>
  BY DEF Analyse, Then
<1>2. DOMAIN record = {"label", "calls", "steps", "tools", "shown", "through"} /\ record.label = 2
  BY <1>1 DEF AgentsIInv, TurnOK, LabelAt
<1>3. PICK r : r = [record EXCEPT !.label = 3]
  OBVIOUS
<1>4. /\ DOMAIN r = DOMAIN record /\ r.label = 3 /\ r.calls = record.calls /\ r.steps = record.steps
      /\ r.tools = record.tools /\ r.through = record.through
  BY <1>2, <1>3
<1>5. /\ DOMAIN record' = DOMAIN record /\ record'.label = 3 /\ record'.calls = calls
      /\ record'.steps = record.steps /\ record'.tools = record.tools
      /\ record'.through = record.through
  <2>1. record' = [r EXCEPT !.calls = calls, !.shown["analyst"] = beginning]
    BY <1>1, <1>3 DEF Stage
  <2> QED BY <1>2, <1>4, <2>1
<1>6. CallsOK(calls, agent', ask.folds)
  <2>1. \A c \in ModelCall : MadeBefore(c, agent, ask.folds) =>
          c.by # "analyst" /\ MadeBefore(c, agent', ask.folds)
    BY <1>1 DEF MadeBefore, Early
  <2>2. /\ StageRight([stage |-> record.label, by |-> "analyst"])
        /\ MadeBefore([stage |-> record.label, by |-> "analyst"], agent', ask.folds)
    BY <1>1, <1>2 DEF StageRight, MadeBefore
  <2>3. CallsOK(record.calls, agent, ask.folds) /\ record.label \in 0..3 /\ "analyst" \in Makers
    BY DEF AgentsIInv, LabelAt, Makers
  <2>4. PICK pc, next, folds : pc = agent /\ next = agent' /\ folds = ask.folds
    OBVIOUS
  <2>5. calls \in Calls("analyst", FALSE)
    BY <1>1
  <2> QED BY <2>1, <2>2, <2>3, <2>4, <2>5, CallMade
<1>7. LabelAt(agent', record'.label)
  BY <1>1, <1>5 DEF LabelAt, Early
<1> QED BY <1>1, <1>5, <1>6, <1>7, ModelStage

LEMMA WriteUpKeeps == AgentsIInv /\ WriteUp => AgentsIInv'
<1> SUFFICES ASSUME AgentsIInv, WriteUp PROVE AgentsIInv'
  OBVIOUS
<1>1. PICK calls, beginning :
        /\ calls \in Calls("writer", ask.streams)
        /\ record' = [record EXCEPT !.calls = calls, !.shown["writer"] = beginning, !.through = 3]
        /\ agent = "write" /\ agent' = "remember" /\ UNCHANGED <<ask, context, sources>>
  BY DEF WriteUp, Then
<1>2. DOMAIN record = {"label", "calls", "steps", "tools", "shown", "through"} /\ record.label = 3
  BY <1>1 DEF AgentsIInv, TurnOK, LabelAt
<1>3. /\ DOMAIN record' = DOMAIN record /\ record'.label = 3 /\ record'.calls = calls
      /\ record'.steps = record.steps /\ record'.tools = record.tools /\ record'.through = 3
  BY <1>1, <1>2
<1>4. CallsOK(calls, agent', ask.folds)
  <2>1. \A c \in ModelCall : MadeBefore(c, agent, ask.folds) =>
          c.by # "writer" /\ MadeBefore(c, agent', ask.folds)
    BY <1>1 DEF MadeBefore, Early
  <2>2. /\ StageRight([stage |-> record.label, by |-> "writer"])
        /\ MadeBefore([stage |-> record.label, by |-> "writer"], agent', ask.folds)
    BY <1>1, <1>2 DEF StageRight, MadeBefore
  <2>3. CallsOK(record.calls, agent, ask.folds) /\ record.label \in 0..3 /\ "writer" \in Makers
    BY DEF AgentsIInv, LabelAt, Makers
  <2>4. PICK pc, next, folds, streamed :
          pc = agent /\ next = agent' /\ folds = ask.folds /\ streamed = ask.streams
    OBVIOUS
  <2>5. calls \in Calls("writer", streamed)
    BY <1>1, <2>4
  <2> QED BY <2>1, <2>2, <2>3, <2>4, <2>5, CallMade
<1>5. LabelAt(agent', record'.label)
  BY <1>1, <1>3 DEF LabelAt, Early
<1> QED BY <1>1, <1>3, <1>4, <1>5, ModelStage

LEMMA RememberKeeps == AgentsIInv /\ Remember => AgentsIInv'
<1> SUFFICES ASSUME AgentsIInv, Remember PROVE AgentsIInv'
  OBVIOUS
<1>1. PICK calls \in IF ask.folds THEN Calls("memory", FALSE) ELSE {record.calls} :
        /\ record' = [record EXCEPT !.calls = calls, !.through = IF agent = "serve" THEN 0 ELSE @]
        /\ agent \in {"serve", "remember"} /\ agent' = "done" /\ UNCHANGED <<ask, context, sources>>
  BY DEF Remember, Then
<1>2. /\ DOMAIN record = {"label", "calls", "steps", "tools", "shown", "through"}
      /\ record.label \in {0, 3} /\ record.label \in 0..3
  BY <1>1 DEF AgentsIInv, TurnOK, LabelAt, Early
<1>3. /\ DOMAIN record' = DOMAIN record /\ record'.label = record.label /\ record'.calls = calls
      /\ record'.steps = record.steps /\ record'.tools = record.tools
      /\ record'.through = IF agent = "serve" THEN 0 ELSE record.through
  BY <1>1, <1>2
<1>4. CallsOK(calls, agent', ask.folds)
  <2>1. \A c \in ModelCall : MadeBefore(c, agent, ask.folds) =>
          c.by # "memory" /\ MadeBefore(c, agent', ask.folds)
    BY <1>1 DEF MadeBefore, Early
  <2>2. CallsOK(record.calls, agent, ask.folds) /\ "memory" \in Makers
    BY DEF AgentsIInv, Makers
  <2>3. CASE ask.folds
    <3>1. /\ StageRight([stage |-> record.label, by |-> "memory"])
          /\ MadeBefore([stage |-> record.label, by |-> "memory"], agent', ask.folds)
      BY <1>1, <1>2, <2>3 DEF StageRight, MadeBefore
    <3>2. PICK pc, next, folds : pc = agent /\ next = agent' /\ folds = ask.folds
      OBVIOUS
    <3>3. calls \in Calls("memory", FALSE)
      BY <1>1, <2>3
    <3> QED BY <1>2, <2>1, <2>2, <3>1, <3>2, <3>3, CallMade
  <2>4. CASE ~ask.folds
    <3>1. calls = record.calls
      BY <1>1, <2>4
    <3> QED BY <2>1, <2>2, <3>1, NoCallMade
  <2> QED BY <2>3, <2>4
<1>5. LabelAt(agent', record'.label)
  BY <1>1, <1>2, <1>3 DEF LabelAt, Early
<1> QED BY <1>1, <1>3, <1>4, <1>5, ModelStage

LEMMA AgentsBegin == AgentsInit => AgentsIInv
<1> SUFFICES ASSUME AgentsInit PROVE AgentsIInv
  OBVIOUS
<1>1. PICK empty : empty = <<>> /\ empty \in Seq(Pieces) /\ empty \in Seq(ModelCall) /\ empty \in Seq(Tools)
  <2>1. <<>> \in Seq(Pieces) /\ <<>> \in Seq(ModelCall) /\ <<>> \in Seq(Tools)
    OBVIOUS
  <2> QED BY <2>1, Zenon
<1>2. PICK shown : record = [label |-> 0, calls |-> empty, steps |-> empty, tools |-> empty,
                             shown |-> shown, through |-> -1]
  BY <1>1 DEF AgentsInit
<1>3. /\ record.label = 0 /\ record.calls = empty /\ record.steps = empty /\ record.tools = empty
      /\ record.through = -1
      /\ DOMAIN record = {"label", "calls", "steps", "tools", "shown", "through"}
  BY <1>2
<1>4. /\ ask \in AgentTurn /\ agent \in {"expand", "look up"} /\ context = empty /\ sources = {}
  BY <1>1 DEF AgentsInit
<1>5. DOMAIN empty = {} /\ Len(empty) = 0
  BY <1>1
<1>6. Searched(empty) = 0
  BY <1>5 DEF Searched, Contains
<1>7. TurnOK /\ LabelAt(agent, record.label)
  <2>1. agent \in Early /\ agent \notin {"research", "compare", "calculate", "analyse", "write", "remember"}
    BY <1>4 DEF Early
  <2>2. context \in Seq(Pieces)
    BY <1>1, <1>4
  <2>3. record.label = 0 /\ 0 \in 0..3
    BY <1>3
  <2>4. LabelAt(agent, record.label)
    BY <2>1, <2>3 DEF LabelAt
  <2> QED BY <1>3, <1>4, <2>1, <2>2, <2>4 DEF TurnOK
<1>8. CallsOK(record.calls, agent, ask.folds)
  BY <1>1, <1>3, <1>5 DEF CallsOK
<1>9. StepsOK(record.steps, record.tools, agent)
  <2>1. agent # "compare" /\ agent # "calculate"
    BY <1>4
  <2>2. empty \in Seq(Tools) /\ empty = <<>> /\ Len(empty) = Len(empty) + Searched(empty)
    BY <1>1, <1>5, <1>6
  <2> QED BY <1>3, <2>1, <2>2 DEF StepsOK
<1>10. FoundOK
  <2>1. agent \notin Later /\ record.through # 3
    <3>1. -1 # 3
      OBVIOUS
    <3>2. agent \notin Later
      BY <1>4 DEF Later
    <3> QED BY <1>3, <3>1, <3>2
  <2> QED BY <1>4, <1>5, <2>1 DEF FoundOK
<1> QED BY <1>7, <1>8, <1>9, <1>10 DEF AgentsIInv

LEMMA AgentsKept == AgentsIInv /\ [AgentsNext]_agentVars => AgentsIInv'
<1> SUFFICES ASSUME AgentsIInv, [AgentsNext]_agentVars PROVE AgentsIInv'
  OBVIOUS
<1>1. CASE UNCHANGED agentVars
  BY <1>1 DEF agentVars, AgentsIInv, TurnOK, FoundOK
<1> QED BY <1>1, ThrowsKeeps, GenerateKeeps, DomainGuardKeeps, ResearchKeeps, CompareKeeps,
           CalculateKeeps, AnalyseKeeps, WriteUpKeeps, RememberKeeps DEF AgentsNext

\* A stage has one call of its own, and the writer's the memory's beside it.
LEMMA AgentsFollow == AgentsIInv => AgentsInv
<1> SUFFICES ASSUME AgentsIInv PROVE AgentsInv
  OBVIOUS
<1>1. /\ record.calls \in Seq(ModelCall) /\ DOMAIN record.calls = 1..Len(record.calls)
      /\ CallsOK(record.calls, agent, ask.folds)
  BY LenProperties DEF AgentsIInv, CallsOK
<1>2. \A i \in 1..Len(record.calls) : record.calls[i].by \in Makers
  <2>1. \A i \in 1..Len(record.calls) : record.calls[i] \in ModelCall
    BY <1>1, ElementOfSeq
  <2> QED BY <2>1 DEF ModelCall
<1>3. \A i \in 1..Len(record.calls) : StageRight(record.calls[i])
  BY <1>1 DEF CallsOK
<1>4. Sourced
  <2>1. context \in Seq(Pieces)
    BY DEF AgentsIInv, TurnOK
  <2>2. DOMAIN context = 1..Len(context)
    BY <2>1, LenProperties
  <2> QED BY <2>2 DEF Sourced, Written, AgentsIInv, FoundOK
<1>5. StepsCounted
  BY DEF StepsCounted, AgentsIInv, StepsOK, Searched
<1>6. ASSUME NEW i \in 1..Len(record.calls)
      PROVE  record.calls[i].stage \in CASE record.calls[i].by \in {"expansion", "guardrail"} -> {0}
                                         [] record.calls[i].by = "analyst" -> {2}
                                         [] record.calls[i].by = "writer" -> {3}
                                         [] record.calls[i].by = "memory" -> {0, 3}
  <2>1. PICK c : c = record.calls[i]
    OBVIOUS
  <2>2. c.by \in Makers /\ StageRight(c)
    BY <1>2, <1>3, <2>1
  <2>3. CASE c.by \in {"expansion", "guardrail"}
    BY <2>1, <2>2, <2>3 DEF StageRight
  <2>4. CASE c.by = "analyst"
    BY <2>1, <2>2, <2>4 DEF StageRight
  <2>5. CASE c.by = "writer"
    BY <2>1, <2>2, <2>5 DEF StageRight
  <2>6. CASE c.by = "memory"
    BY <2>1, <2>2, <2>6 DEF StageRight
  <2> QED BY <2>2, <2>3, <2>4, <2>5, <2>6 DEF Makers
<1> DEFINE MadeBy(by) == {i \in 1..Len(record.calls) : record.calls[i].by = by}
<1>7. ASSUME NEW by
      PROVE  MadeBy(by) = {} \/ \E i : MadeBy(by) = {i}
  <2>1. \A i, j \in MadeBy(by) : i = j
    BY <1>1 DEF CallsOK
  <2> HIDE DEF MadeBy
  <2> QED BY <2>1
<1>8. /\ CallsOf(1) = {} /\ CallsOf(2) \subseteq MadeBy("analyst")
      /\ CallsOf(3) \subseteq MadeBy("writer") \cup MadeBy("memory")
  BY <1>2, <1>3 DEF CallsOf, StageRight, Makers
<1>9. ~ask.folds => MadeBy("memory") = {}
  BY <1>1 DEF CallsOK, MadeBefore
<1> HIDE DEF MadeBy
<1>10. Cardinality({}) = 0 /\ IsFiniteSet({})
  BY FS_EmptySet
<1>11. \A i : IsFiniteSet({i}) /\ Cardinality({i}) = 1
  BY FS_Singleton
<1>12. ASSUME NEW S, NEW T, S \subseteq T, NEW n \in Nat, IsFiniteSet(T), Cardinality(T) <= n
       PROVE  Cardinality(S) <= n
  BY <1>12, FS_Subset, FS_CardinalityType
<1>13. ASSUME NEW by
       PROVE  IsFiniteSet(MadeBy(by)) /\ Cardinality(MadeBy(by)) <= 1
  <2>1. CASE MadeBy(by) = {}
    BY <1>10, <2>1
  <2>2. CASE \E i : MadeBy(by) = {i}
    <3>1. PICK i : MadeBy(by) = {i}
      BY <2>2
    <3>2. IsFiniteSet({i}) /\ Cardinality({i}) = 1
      BY <1>11
    <3> QED BY <3>1, <3>2
  <2> QED BY <1>7, <2>1, <2>2
<1>14. IsFiniteSet(MadeBy("writer") \cup MadeBy("memory")) /\ Cardinality(MadeBy("writer") \cup MadeBy("memory")) <= 2
  <2>1. CASE MadeBy("memory") = {}
    <3>1. PICK W : W = MadeBy("writer")
      OBVIOUS
    <3>2. IsFiniteSet(W) /\ Cardinality(W) <= 1
      BY <1>13, <3>1
    <3>3. Cardinality(W) \in Nat
      BY <3>2, FS_CardinalityType
    <3>4. Cardinality(W) <= 2
      BY <3>2, <3>3
    <3>5. MadeBy("writer") \cup MadeBy("memory") = W
      BY <2>1, <3>1
    <3> QED BY <3>2, <3>4, <3>5
  <2>2. CASE MadeBy("memory") # {}
    <3>1. PICK i : MadeBy("memory") = {i}
      BY <1>7, <2>2
    <3>2. PICK W : W = MadeBy("writer")
      OBVIOUS
    <3>3. IsFiniteSet(W) /\ Cardinality(W) <= 1
      BY <1>13, <3>2
    <3>4. Cardinality(W) \in Nat
      BY <3>3, FS_CardinalityType
    <3>5. /\ IsFiniteSet(W \cup {i})
          /\ Cardinality(W \cup {i}) = IF i \in W THEN Cardinality(W) ELSE Cardinality(W) + 1
      BY <3>3, FS_AddElement
    <3>6. Cardinality(W \cup {i}) <= 2
      BY <3>3, <3>4, <3>5
    <3> QED BY <3>1, <3>2, <3>5, <3>6
  <2> QED BY <2>1, <2>2
<1>15. Cardinality(CallsOf(2)) <= 1
  BY <1>8, <1>12, <1>13
<1>16. Cardinality(CallsOf(3)) <= IF ask.folds THEN 2 ELSE 1
  <2>1. CASE ask.folds
    BY <1>8, <1>12, <1>14, <2>1
  <2>2. CASE ~ask.folds
    <3>1. CallsOf(3) \subseteq MadeBy("writer")
      BY <1>8, <1>9, <2>2
    <3> QED BY <1>12, <1>13, <2>2, <3>1
  <2> QED BY <2>1, <2>2
<1>17. CallsOf(2) \subseteq 1..Len(record.calls)
  BY DEF CallsOf
<1>18. Cardinality(CallsOf(2)) \in Nat
  BY <1>8, <1>13, FS_Subset, FS_CardinalityType
<1>19. Cardinality(CallsOf(2)) <= IF ask.folds THEN 2 ELSE 1
  BY <1>15, <1>18
<1>20. CallsAttributed
  BY <1>6, <1>8, <1>16, <1>19 DEF CallsAttributed
<1> QED BY <1>4, <1>5, <1>20 DEF AgentsInv

(* Whatever a search finds, whichever calls fail and whatever the memory   *)
(* folds: what was found has its sources, every call of a model is put     *)
(* down to the stage that made it, and every tool call has its step.       *)
THEOREM AgentsAccountForTheirWork == AgentsSpec => []AgentsInv
<1> QED BY AgentsBegin, AgentsKept, AgentsFollow, PTL DEF AgentsSpec

-----------------------------------------------------------------------------
(* The fetching of a page: for any hosts, redirects and failures           *)

ScrapeState ==
  [page : Hosts, host : Hosts, attempt : 0..ScrapeRetries, hop : 0..RedirectHops,
   pc : {"check", "validate", "fetch", "wait", "revalidate", "read", "done", "failed"},
   why : {"nothing", "blocked", "unresolved", "unreachable", "busy", "forbidden", "refused",
          "type", "too large", "too short", "broke off"},
   fromInner : BOOLEAN]

\* Requests of the attempts before the n-th, counted from 0.
Slots(n) == n * (RedirectHops + 1)

ScrapeOK(s) ==
  /\ s \in ScrapeState
  /\ s.pc # "failed" => s.why = "nothing"
  /\ s.why \in {"unreachable", "busy"} => s.attempt = ScrapeRetries

\* A host that is asked passed its check, and so did the one that answered.
CheckOK(s, inner, m) ==
  /\ s.pc = "fetch" => s.host \notin inner \/ m.before
  /\ s.pc = "revalidate" /\ s.fromInner => m.before /\ (s.host \in inner \/ m.after)
  /\ s.pc \in {"read", "done"} /\ s.fromInner => m.before /\ m.after

HostsOK(s, hosts) == s.pc \in {"revalidate", "read", "done"} => s.host \in hosts

RefusalsOK(s, n) ==
  /\ n \in Nat /\ n <= 2
  /\ s.pc # "failed" => n <= 1
  /\ s.pc # "failed" /\ s.attempt = 0 => n = 0

\* A hop has one request, made when its host is asked.
RequestsOK(s, n) ==
  /\ n \in Nat
  /\ n <= Slots(s.attempt) + s.hop + (IF s.pc \in {"check", "validate", "fetch", "wait"} THEN 0 ELSE 1)

ScraperIInv ==
  /\ ScrapeOK(scrape) /\ HostsOK(scrape, contacted.hosts) /\ contacted.inner = {}
  /\ CheckOK(scrape, innerHosts, moved) /\ RefusalsOK(scrape, refusals) /\ RequestsOK(scrape, contacted.requests)

LEMMA SlotsGrow ==
  ASSUME NEW n \in Nat
  PROVE  /\ Slots(n) \in Nat /\ Slots(n + 1) = Slots(n) + RedirectHops + 1
         /\ \A m \in Nat : n <= m => Slots(n) <= Slots(m)
<1>1. RedirectHops \in Nat
  BY ScraperAssumption
<1>2. PICK k \in Nat : k = RedirectHops + 1
  BY <1>1
<1>3. n * k \in Nat /\ (n + 1) * k = n * k + k
  BY <1>2
<1>4. ASSUME NEW m \in Nat, n <= m
      PROVE  n * k <= m * k
  <2>1. PICK d \in Nat : m = n + d
    BY <1>4
  <2>2. m * k = n * k + d * k /\ d * k \in Nat
    BY <1>2, <2>1
  <2> QED BY <1>3, <2>2
<1> QED BY <1>1, <1>2, <1>3, <1>4 DEF Slots

LEMMA ScrapeFields ==
  ASSUME NEW s, ScrapeOK(s)
  PROVE  /\ s.attempt \in Nat /\ s.attempt <= ScrapeRetries
         /\ s.hop \in Nat /\ s.hop <= RedirectHops /\ Slots(s.attempt) \in Nat
<1>1. ScrapeRetries \in Nat /\ RedirectHops \in Nat
  BY ScraperAssumption
<1>2. s.attempt \in 0..ScrapeRetries /\ s.hop \in 0..RedirectHops
  BY DEF ScrapeOK, ScrapeState
<1>3. s.attempt \in Nat /\ s.attempt <= ScrapeRetries /\ s.hop \in Nat /\ s.hop <= RedirectHops
  BY <1>1, <1>2
<1> QED BY <1>3, SlotsGrow

\* What a state keeps of the one before when it fails.
LEMMA FailKeepsPage ==
  ASSUME ScrapeOK(scrape),
         NEW why \in {"blocked", "unresolved", "unreachable", "busy", "forbidden", "refused",
                      "type", "too large", "too short", "broke off"},
         why \in {"unreachable", "busy"} => scrape.attempt = ScrapeRetries, Fail(why)
  PROVE  /\ ScrapeOK(scrape') /\ scrape'.pc = "failed"
         /\ scrape'.attempt = scrape.attempt /\ scrape'.hop = scrape.hop
<1>1. scrape \in ScrapeState /\ scrape' = [scrape EXCEPT !.pc = "failed", !.why = why]
  BY DEF ScrapeOK, Fail
<1>2. /\ scrape' \in ScrapeState /\ scrape'.pc = "failed" /\ scrape'.why = why
      /\ scrape'.attempt = scrape.attempt /\ scrape'.hop = scrape.hop
  BY <1>1 DEF ScrapeState
<1> QED BY <1>2 DEF ScrapeOK

\* A further attempt begins, or the page is given up.
LEMMA NextAttemptKeeps ==
  ASSUME ScrapeOK(scrape), scrape.pc # "failed",
         NEW why \in {"unreachable", "busy", "forbidden"}, NextAttempt(why)
  PROVE  /\ ScrapeOK(scrape')
         /\ \/ /\ scrape'.pc = "wait" /\ scrape'.hop = 0
               /\ scrape'.attempt = scrape.attempt + 1
            \/ /\ scrape'.pc = "failed" /\ scrape'.attempt = scrape.attempt
               /\ scrape'.hop = scrape.hop
<1>0. ScrapeRetries \in Nat /\ RedirectHops \in Nat
  BY ScraperAssumption
<1>1. scrape \in ScrapeState /\ scrape.why = "nothing" /\ scrape.attempt \in 0..ScrapeRetries
  BY DEF ScrapeOK, ScrapeState
<1>2. CASE scrape.attempt < ScrapeRetries
  <2>1. scrape' = [scrape EXCEPT !.pc = "wait", !.attempt = @ + 1, !.host = scrape.page, !.hop = 0]
    BY <1>2 DEF NextAttempt
  <2>2. scrape.attempt + 1 \in 0..ScrapeRetries /\ 0 \in 0..RedirectHops
    BY <1>0, <1>1, <1>2
  <2>3. scrape.page \in Hosts
    BY <1>1 DEF ScrapeState
  <2>4. /\ scrape' \in ScrapeState /\ scrape'.pc = "wait" /\ scrape'.why = "nothing"
        /\ scrape'.attempt = scrape.attempt + 1 /\ scrape'.hop = 0
    BY <1>1, <2>1, <2>2, <2>3 DEF ScrapeState
  <2> QED BY <2>4 DEF ScrapeOK
<1>3. CASE ~(scrape.attempt < ScrapeRetries)
  <2>1. Fail(why) /\ scrape.attempt = ScrapeRetries
    BY <1>0, <1>1, <1>3 DEF NextAttempt
  <2> QED BY <2>1, FailKeepsPage
<1> QED BY <1>2, <1>3

\* Only what comes next changes.
LEMMA GoesOn ==
  ASSUME ScrapeOK(scrape), scrape.pc # "failed",
         NEW pc \in {"validate", "fetch", "revalidate", "read", "done"},
         scrape' = [scrape EXCEPT !.pc = pc]
  PROVE  /\ ScrapeOK(scrape') /\ scrape'.pc = pc /\ scrape'.host = scrape.host
         /\ scrape'.fromInner = scrape.fromInner
         /\ scrape'.attempt = scrape.attempt /\ scrape'.hop = scrape.hop
<1>1. scrape \in ScrapeState /\ scrape.why = "nothing"
  BY DEF ScrapeOK
<1>2. /\ scrape' \in ScrapeState /\ scrape'.pc = pc /\ scrape'.why = "nothing"
      /\ scrape'.host = scrape.host /\ scrape'.fromInner = scrape.fromInner
      /\ scrape'.attempt = scrape.attempt /\ scrape'.hop = scrape.hop
  BY <1>1 DEF ScrapeState
<1> QED BY <1>2 DEF ScrapeOK

LEMMA AskHostKeeps ==
  ASSUME ScraperIInv, AskHost
  PROVE  /\ contacted'.inner = {} /\ scrape.host \in contacted'.hosts
         /\ contacted'.requests \in Nat
         /\ contacted'.requests <= Slots(scrape.attempt) + scrape.hop + 1
<1>1. PICK hosts, inner, n :
        /\ hosts = contacted.hosts \cup {scrape.host} /\ n = contacted.requests + 1
        /\ inner = contacted.inner \cup {h \in innerHosts : h = scrape.host /\ ~moved.before}
  OBVIOUS
<1>2. contacted' = [hosts |-> hosts, inner |-> inner, requests |-> n]
  BY <1>1 DEF AskHost
<1>3. contacted'.hosts = hosts /\ contacted'.inner = inner /\ contacted'.requests = n
  BY <1>2
<1>4. inner = {} /\ scrape.host \in hosts
  <2>1. {h \in innerHosts : h = scrape.host /\ ~moved.before} = {}
    BY DEF AskHost, ScraperIInv, CheckOK
  <2>2. contacted.inner = {}
    BY DEF ScraperIInv
  <2> QED BY <1>1, <2>1, <2>2
<1>5. contacted.requests \in Nat /\ contacted.requests <= Slots(scrape.attempt) + scrape.hop + 0
  BY DEF AskHost, ScraperIInv, RequestsOK
<1>6. Slots(scrape.attempt) \in Nat /\ scrape.hop \in Nat
  BY ScrapeFields DEF ScraperIInv
<1> QED BY <1>1, <1>3, <1>4, <1>5, <1>6

\* An attempt that fails leaves its requests to those of the attempts before.
LEMMA AttemptEnds ==
  ASSUME ScrapeOK(scrape), scrape.pc # "failed",
         NEW why \in {"unreachable", "busy", "forbidden"}, NextAttempt(why),
         NEW hosts, NEW inner, NEW m,
         NEW n \in Nat, n <= Slots(scrape.attempt) + scrape.hop + 1
  PROVE  /\ ScrapeOK(scrape') /\ HostsOK(scrape', hosts) /\ RequestsOK(scrape', n)
         /\ CheckOK(scrape', inner, m)
<1>0. ScrapeRetries \in Nat /\ RedirectHops \in Nat
  BY ScraperAssumption
<1>1. scrape.attempt \in Nat /\ scrape.hop \in Nat /\ scrape.hop <= RedirectHops
  BY ScrapeFields
<1>2. Slots(scrape.attempt) \in Nat /\ Slots(scrape.attempt + 1) = Slots(scrape.attempt) + RedirectHops + 1
  BY <1>1, SlotsGrow
<1>3. CASE scrape'.pc = "wait" /\ scrape'.hop = 0 /\ scrape'.attempt = scrape.attempt + 1
  <2>1. n <= Slots(scrape'.attempt) + scrape'.hop + 0
    BY <1>0, <1>1, <1>2, <1>3
  <2> QED BY <1>3, <2>1, NextAttemptKeeps DEF HostsOK, RequestsOK, CheckOK
<1>4. CASE scrape'.pc = "failed" /\ scrape'.attempt = scrape.attempt /\ scrape'.hop = scrape.hop
  BY <1>4, NextAttemptKeeps DEF HostsOK, RequestsOK, CheckOK
<1> QED BY <1>3, <1>4, NextAttemptKeeps

\* As long as no host has refused it, an attempt that fails changes no refusals.
LEMMA RefusalsStay ==
  ASSUME ScrapeOK(scrape), scrape.pc # "failed", RefusalsOK(scrape, refusals),
         scrape'.pc = "failed" \/ scrape'.attempt = scrape.attempt \/ scrape'.attempt = scrape.attempt + 1
  PROVE  RefusalsOK(scrape', refusals)
<1>1. scrape.attempt \in Nat
  BY ScrapeFields
<1> QED BY <1>1 DEF RefusalsOK

LEMMA ChecksKeep ==
  ASSUME ScraperIInv, CheckUrl \/ ValidateHop \/ Wait \/ Revalidate \/ ReadPage \/ FetchTooLate
  PROVE  ScraperIInv'
<1>0. /\ UNCHANGED <<innerHosts, contacted, refusals>> /\ ScrapeOK(scrape)
      /\ scrape.pc \in {"check", "validate", "wait", "revalidate", "read", "fetch"}
      /\ contacted.inner = {} /\ contacted.requests \in Nat
      /\ RefusalsOK(scrape, refusals) /\ RequestsOK(scrape, contacted.requests)
      /\ CheckOK(scrape, innerHosts, moved) /\ HostsOK(scrape, contacted.hosts)
  BY DEF CheckUrl, ValidateHop, Wait, Revalidate, ReadPage, FetchTooLate, ScraperIInv, RequestsOK
<1>1. Slots(scrape.attempt) \in Nat /\ scrape.hop \in Nat
  BY <1>0, ScrapeFields
<1>2. contacted.requests <= Slots(scrape.attempt) + scrape.hop + 1
  BY <1>0, <1>1 DEF RequestsOK
<1>3. ASSUME NEW why \in {"blocked", "unresolved", "type", "too large", "too short", "broke off"},
             Fail(why)
      PROVE  ScraperIInv'
  <2>1. /\ ScrapeOK(scrape') /\ scrape'.pc = "failed"
        /\ scrape'.attempt = scrape.attempt /\ scrape'.hop = scrape.hop
    BY <1>0, <1>3, FailKeepsPage
  <2>2. HostsOK(scrape', contacted.hosts) /\ RequestsOK(scrape', contacted.requests)
    BY <1>0, <1>2, <2>1 DEF HostsOK, RequestsOK
  <2>3. RefusalsOK(scrape', refusals)
    BY <1>0, <2>1, RefusalsStay
  <2>4. CheckOK(scrape, innerHosts, moved)'
    BY <2>1 DEF CheckOK
  <2> QED BY <1>0, <2>1, <2>2, <2>3, <2>4 DEF ScraperIInv
<1>4. ASSUME NEW pc \in {"validate", "fetch", "read", "done"},
             scrape' = [scrape EXCEPT !.pc = pc],
             pc = "fetch" => scrape.host \notin innerHosts,
             pc = "read" => scrape.host \notin innerHosts /\ scrape.pc = "revalidate" /\ UNCHANGED moved,
             pc = "done" => scrape.pc = "read" /\ UNCHANGED moved,
             pc \in {"validate", "fetch"} => scrape.pc \in {"check", "wait", "validate"}
      PROVE  ScraperIInv'
  <2>1. /\ ScrapeOK(scrape') /\ scrape'.pc = pc /\ scrape'.host = scrape.host
        /\ scrape'.fromInner = scrape.fromInner
        /\ scrape'.attempt = scrape.attempt /\ scrape'.hop = scrape.hop
    BY <1>0, <1>4, GoesOn
  <2>2. HostsOK(scrape', contacted.hosts) /\ RequestsOK(scrape', contacted.requests)
    BY <1>0, <1>4, <2>1 DEF HostsOK, RequestsOK
  <2>3. RefusalsOK(scrape', refusals)
    BY <1>0, <2>1, RefusalsStay
  <2>4. CheckOK(scrape, innerHosts, moved)'
    BY <1>0, <1>4, <2>1 DEF CheckOK
  <2> QED BY <1>0, <2>1, <2>2, <2>3, <2>4 DEF ScraperIInv
<1>5. ASSUME NextAttempt("unreachable") PROVE ScraperIInv'
  <2>1. /\ ScrapeOK(scrape') /\ HostsOK(scrape', contacted.hosts) /\ RequestsOK(scrape', contacted.requests)
        /\ CheckOK(scrape', innerHosts', moved')
    BY <1>0, <1>2, <1>5, AttemptEnds
  <2>2. RefusalsOK(scrape', refusals)
    BY <1>0, <1>5, RefusalsStay, NextAttemptKeeps
  <2> QED BY <1>0, <2>1, <2>2 DEF ScraperIInv
<1>6. CASE CheckUrl
  BY <1>0, <1>3, <1>4, <1>6 DEF CheckUrl, AssertSafeUrl
<1>7. CASE ValidateHop
  BY <1>0, <1>3, <1>4, <1>5, <1>7 DEF ValidateHop, AssertSafeUrl
<1>8. CASE Wait
  BY <1>0, <1>4, <1>8 DEF Wait
<1>9. CASE Revalidate
  BY <1>0, <1>3, <1>4, <1>9 DEF Revalidate, AssertSafeUrl
<1>10. CASE ReadPage
  BY <1>0, <1>3, <1>4, <1>10 DEF ReadPage
<1>11. CASE FetchTooLate
  BY <1>5, <1>11 DEF FetchTooLate
<1> QED BY <1>6, <1>7, <1>8, <1>9, <1>10, <1>11

\* A name's new address is noted while it matters.
LEMMA AddressesKeep ==
  ASSUME ScraperIInv, NEW h \in Hosts, AddressChanges(h)
  PROVE  ScraperIInv'
<1>1. /\ UNCHANGED <<scrape, contacted, refusals>>
      /\ innerHosts' = IF h \in innerHosts THEN innerHosts \ {h} ELSE innerHosts \cup {h}
      /\ moved'.before = (moved.before \/ (h = scrape.host /\ scrape.pc = "fetch"))
      /\ moved'.after = (moved.after \/ (h = scrape.host /\ scrape.pc = "revalidate"))
  BY DEF AddressChanges
<1>2. h # scrape.host => (scrape.host \in innerHosts' <=> scrape.host \in innerHosts)
  BY <1>1
<1>3. CheckOK(scrape, innerHosts, moved)'
  BY <1>1, <1>2 DEF ScraperIInv, CheckOK
<1> QED BY <1>1, <1>3 DEF ScraperIInv

LEMMA FetchesKeep ==
  ASSUME ScraperIInv,
         FetchDies \/ FetchRedirects \/ FetchAnswers \/ FetchBusy \/ FetchForbidden \/ FetchRefused
  PROVE  ScraperIInv'
<1>0. /\ scrape.pc = "fetch" /\ AskHost /\ ScrapeOK(scrape) /\ RefusalsOK(scrape, refusals)
      /\ scrape \in ScrapeState /\ scrape.attempt \in Nat
      /\ CheckOK(scrape, innerHosts, moved) /\ UNCHANGED <<innerHosts, moved>>
  BY ScrapeFields DEF FetchDies, FetchRedirects, FetchAnswers, FetchBusy, FetchForbidden,
     FetchRefused, ScraperIInv, ScrapeOK, AskHost
<1>1. /\ contacted'.inner = {} /\ scrape.host \in contacted'.hosts
      /\ contacted'.requests \in Nat
      /\ contacted'.requests <= Slots(scrape.attempt) + scrape.hop + 1
  BY <1>0, AskHostKeeps
<1>2. ASSUME NEW why \in {"unreachable", "busy", "forbidden"}, NextAttempt(why)
      PROVE  /\ ScrapeOK(scrape') /\ HostsOK(scrape', contacted'.hosts)
             /\ RequestsOK(scrape', contacted'.requests) /\ CheckOK(scrape', innerHosts', moved')
  BY <1>0, <1>1, <1>2, AttemptEnds
<1>3. ASSUME NEW why \in {"unreachable", "busy"}, NextAttempt(why), UNCHANGED refusals
      PROVE  ScraperIInv'
  <2>1. RefusalsOK(scrape', refusals)
    BY <1>0, <1>3, RefusalsStay, NextAttemptKeeps
  <2> QED BY <1>1, <1>2, <1>3, <2>1 DEF ScraperIInv
<1>4. ASSUME NEW why \in {"forbidden", "refused"}, Fail(why)
      PROVE  /\ ScrapeOK(scrape') /\ HostsOK(scrape', contacted'.hosts)
             /\ RequestsOK(scrape', contacted'.requests) /\ scrape'.pc = "failed"
             /\ CheckOK(scrape', innerHosts', moved')
  <2>1. /\ ScrapeOK(scrape') /\ scrape'.pc = "failed"
        /\ scrape'.attempt = scrape.attempt /\ scrape'.hop = scrape.hop
    BY <1>0, <1>4, FailKeepsPage
  <2> QED BY <1>1, <2>1 DEF HostsOK, RequestsOK, CheckOK
<1>5. CASE FetchDies
  BY <1>3, <1>5 DEF FetchDies
<1>6. CASE FetchBusy
  BY <1>3, <1>6 DEF FetchBusy
<1>7. CASE FetchRefused
  <2>1. Fail("refused") /\ refusals' = refusals
    BY <1>7 DEF FetchRefused
  <2>2. RefusalsOK(scrape', refusals)
    BY <1>0, <1>4, <2>1, RefusalsStay
  <2> QED BY <1>1, <1>4, <2>1, <2>2 DEF ScraperIInv
<1>8. CASE FetchForbidden
  <2>1. refusals' = refusals + 1 /\ refusals \in Nat /\ refusals <= 1 /\ (scrape.attempt = 0 => refusals = 0)
    BY <1>0, <1>8 DEF FetchForbidden, RefusalsOK
  <2>2. CASE scrape.attempt >= 1
    <3>1. Fail("forbidden")
      BY <1>8, <2>2 DEF FetchForbidden
    <3>2. RefusalsOK(scrape', refusals')
      BY <1>4, <2>1, <3>1 DEF RefusalsOK
    <3> QED BY <1>1, <1>4, <3>1, <3>2 DEF ScraperIInv
  <2>3. CASE ~(scrape.attempt >= 1)
    <3>1. NextAttempt("forbidden") /\ scrape.attempt = 0
      BY <1>0, <1>8, <2>3 DEF FetchForbidden
    <3>2. scrape'.pc = "failed" \/ scrape'.attempt = 1
      BY <1>0, <3>1, NextAttemptKeeps
    <3>3. RefusalsOK(scrape', refusals')
      BY <2>1, <3>1, <3>2 DEF RefusalsOK
    <3> QED BY <1>1, <1>2, <3>1, <3>3 DEF ScraperIInv
  <2> QED BY <2>2, <2>3
<1>9. CASE FetchAnswers
  <2> DEFINE inner == scrape.host \in innerHosts
  <2>1. scrape' = [scrape EXCEPT !.pc = "revalidate", !.fromInner = inner] /\ refusals' = refusals
    BY <1>9 DEF FetchAnswers
  <2>2. /\ ScrapeOK(scrape') /\ scrape'.pc = "revalidate" /\ scrape'.host = scrape.host
        /\ scrape'.fromInner = inner /\ scrape'.attempt = scrape.attempt /\ scrape'.hop = scrape.hop
    <3>1. inner \in BOOLEAN
      OBVIOUS
    <3> HIDE DEF inner
    <3>2. /\ scrape' \in ScrapeState /\ scrape'.pc = "revalidate" /\ scrape'.why = scrape.why
          /\ scrape'.host = scrape.host /\ scrape'.fromInner = inner
          /\ scrape'.attempt = scrape.attempt /\ scrape'.hop = scrape.hop
      BY <1>0, <2>1, <3>1 DEF ScrapeState
    <3> QED BY <1>0, <3>2 DEF ScrapeOK
  <2>3. RefusalsOK(scrape', refusals)
    BY <1>0, <2>2, RefusalsStay
  <2>4. CheckOK(scrape', innerHosts', moved')
    BY <1>0, <2>2 DEF CheckOK
  <2> QED BY <1>1, <2>1, <2>2, <2>3, <2>4 DEF ScraperIInv, HostsOK, RequestsOK
<1>10. CASE FetchRedirects
  <2>0. refusals' = refusals /\ RedirectHops \in Nat
    BY <1>10, ScraperAssumption DEF FetchRedirects
  <2>1. CASE scrape.hop < RedirectHops
    <3>1. PICK h \in Hosts : scrape' = [scrape EXCEPT !.pc = "validate", !.host = h, !.hop = @ + 1]
      BY <1>10, <2>1 DEF FetchRedirects
    <3>2. scrape.hop \in 0..RedirectHops /\ scrape.why = "nothing"
      BY <1>0 DEF ScrapeState, ScrapeOK
    <3>3. scrape.hop + 1 \in 0..RedirectHops
      BY <2>0, <2>1, <3>2
    <3>4. /\ scrape' \in ScrapeState /\ scrape'.pc = "validate" /\ scrape'.why = "nothing"
          /\ scrape'.attempt = scrape.attempt /\ scrape'.hop = scrape.hop + 1
      BY <1>0, <3>1, <3>2, <3>3 DEF ScrapeState
    <3>5. ScrapeOK(scrape') /\ RefusalsOK(scrape', refusals)
      BY <1>0, <3>4, RefusalsStay DEF ScrapeOK
    <3>6. Slots(scrape.attempt) \in Nat
      BY <1>0, SlotsGrow
    <3>7. contacted'.requests <= Slots(scrape'.attempt) + scrape'.hop + 0
      BY <1>1, <3>2, <3>4, <3>6
    <3> QED BY <1>1, <2>0, <3>4, <3>5, <3>7 DEF ScraperIInv, HostsOK, RequestsOK, CheckOK
  <2>2. CASE ~(scrape.hop < RedirectHops)
    BY <1>3, <1>10, <2>0, <2>2 DEF FetchRedirects
  <2> QED BY <2>1, <2>2
<1> QED BY <1>5, <1>6, <1>7, <1>8, <1>9, <1>10

LEMMA ScraperBegins == ScraperInit => ScraperIInv
<1> SUFFICES ASSUME ScraperInit PROVE ScraperIInv
  OBVIOUS
<1>0. ScrapeRetries \in Nat /\ RedirectHops \in Nat
  BY ScraperAssumption
<1>1. PICK h \in Hosts : scrape = [page |-> h, host |-> h, attempt |-> 0, hop |-> 0,
                                   pc |-> "check", why |-> "nothing", fromInner |-> FALSE]
  BY DEF ScraperInit
<1>2. scrape \in ScrapeState /\ scrape.pc = "check" /\ scrape.why = "nothing" /\ scrape.attempt = 0 /\ scrape.hop = 0
  BY <1>0, <1>1 DEF ScrapeState
<1>3. contacted.inner = {} /\ contacted.requests = 0 /\ refusals = 0
  BY DEF ScraperInit
<1>4. Slots(0) \in Nat
  BY SlotsGrow
<1>5. RequestsOK(scrape, contacted.requests)
  BY <1>2, <1>3, <1>4 DEF RequestsOK
<1> QED BY <1>2, <1>3, <1>5 DEF ScraperIInv, ScrapeOK, HostsOK, RefusalsOK, CheckOK

LEMMA ScraperKept == ScraperIInv /\ [ScraperNext]_scraperVars => ScraperIInv'
<1> SUFFICES ASSUME ScraperIInv, [ScraperNext]_scraperVars PROVE ScraperIInv'
  OBVIOUS
<1>1. CASE CheckUrl \/ ValidateHop \/ Wait \/ Revalidate \/ ReadPage \/ FetchTooLate
  BY <1>1, ChecksKeep
<1>2. CASE FetchDies \/ FetchRedirects \/ FetchAnswers \/ FetchBusy \/ FetchForbidden \/ FetchRefused
  BY <1>2, FetchesKeep
<1>3. CASE UNCHANGED scraperVars
  BY <1>3 DEF scraperVars, ScraperIInv
<1>4. CASE \E h \in Hosts : AddressChanges(h)
  BY <1>4, AddressesKeep
<1> QED BY <1>1, <1>2, <1>3, <1>4 DEF ScraperNext

LEMMA ScraperFollows == ScraperIInv => ScraperInv
<1> SUFFICES ASSUME ScraperIInv PROVE ScraperInv
  OBVIOUS
<1>0. ScrapeRetries \in Nat /\ RedirectHops \in Nat
  BY ScraperAssumption
<1>1. /\ scrape.attempt \in Nat /\ scrape.attempt <= ScrapeRetries
      /\ scrape.hop \in Nat /\ scrape.hop <= RedirectHops
  BY ScrapeFields DEF ScraperIInv
<1>2. /\ Slots(scrape.attempt) \in Nat /\ Slots(ScrapeRetries) \in Nat
      /\ Slots(scrape.attempt) <= Slots(ScrapeRetries)
      /\ Slots(ScrapeRetries + 1) = Slots(ScrapeRetries) + RedirectHops + 1
  BY <1>0, <1>1, SlotsGrow
<1>3. contacted.requests \in Nat /\ contacted.requests <= Slots(scrape.attempt) + scrape.hop + 1
  BY <1>1, <1>2 DEF ScraperIInv, RequestsOK
<1>4. contacted.requests <= Slots(ScrapeRetries + 1)
  BY <1>0, <1>1, <1>2, <1>3
<1>5. contacted.requests <= (ScrapeRetries + 1) * (RedirectHops + 1)
  BY <1>4 DEF Slots
<1> QED BY <1>5 DEF ScraperInv, ScraperIInv, ScrapeOK, HostsOK, RefusalsOK, CheckOK

(* Of any hosts whose addresses change at any time, with any number of     *)
(* attempts and hops, wherever redirects lead: a host is asked at an inner *)
(* address only if its name got it after assertSafeUrl had resolved it,    *)
(* and a page from one is read only if the name lost it again before the   *)
(* second check; no oftener than attempts and hops allow, and twice at     *)
(* most when hosts answer 403.                                             *)
THEOREM InnerOnlyWhenMoved == ScraperSpec => []ScraperInv
<1> QED BY ScraperBegins, ScraperKept, ScraperFollows, PTL DEF ScraperSpec

-----------------------------------------------------------------------------
(* The embeddings' cache: its cap, its order and its hour, for any number  *)
(* of requests, batches and entries                                        *)

\* The entries of a Map stand one before the other.
MapInOrder(m) ==
  /\ \A b \in DOMAIN m : m[b].older \subseteq DOMAIN m \ {b}
  /\ \A b, c \in DOMAIN m : b # c => (b \in m[c].older <=> c \notin m[b].older)
  /\ \A b \in DOMAIN m : \A c \in m[b].older : m[c].older \subseteq m[b].older

MapOK(m) ==
  /\ IsFiniteSet(DOMAIN m) /\ DOMAIN m \subseteq Batches
  /\ m \in [DOMAIN m -> VectorEntry] /\ MapInOrder(m)

\* What is kept may be cached, and its hour is not yet over by more than allowed.
Lasting(m) == \A b \in DOMAIN m : Cacheable(b) /\ m[b].expiresAt <= hour + CacheTtl

EmbeddingsIInv ==
  /\ EmbeddingsTypeOK /\ MapOK(vectorCache) /\ Lasting(vectorCache)
  /\ Cardinality(BatchesHeld) <= CacheSize

\* An entry of a map.
LEMMA EntryIs ==
  ASSUME NEW m, MapOK(m), NEW b \in DOMAIN m
  PROVE  /\ b \in Batches /\ m[b].expiresAt \in Nat /\ m[b].older \subseteq DOMAIN m \ {b}
         /\ m[b] = [expiresAt |-> m[b].expiresAt, older |-> m[b].older]
<1>1. m[b] \in VectorEntry
  BY DEF MapOK
<1>2. b \in Batches /\ m[b].older \subseteq DOMAIN m \ {b}
  BY DEF MapOK, MapInOrder
<1> QED BY <1>1, <1>2 DEF VectorEntry

\* What is left of a map has the others' order and hours.
LEMMA EmptiedIs ==
  ASSUME NEW m, MapOK(m), NEW D
  PROVE  /\ MapOK(Emptied(m, D)) /\ DOMAIN Emptied(m, D) = DOMAIN m \ D
         /\ Cardinality(DOMAIN Emptied(m, D)) <= Cardinality(DOMAIN m)
         /\ Lasting(m) => Lasting(Emptied(m, D))
<1> DEFINE e == Emptied(m, D)
<1>1. DOMAIN e = DOMAIN m \ D
  BY DEF Emptied
<1>2. \A b \in DOMAIN e : e[b] = [expiresAt |-> m[b].expiresAt, older |-> m[b].older \ D]
  <2> SUFFICES ASSUME NEW b \in DOMAIN m, b \notin D
               PROVE  e[b] = [expiresAt |-> m[b].expiresAt, older |-> m[b].older \ D]
    BY <1>1
  <2>1. e[b] = [m[b] EXCEPT !.older = @ \ D]
    BY DEF Emptied
  <2> QED BY <2>1, EntryIs
<1>3. e = [b \in DOMAIN e |-> e[b]]
  BY DEF Emptied
<1> HIDE DEF e
<1>4. IsFiniteSet(DOMAIN e) /\ Cardinality(DOMAIN e) <= Cardinality(DOMAIN m)
  BY <1>1, FS_Subset DEF MapOK
<1>5. \A b \in DOMAIN e : /\ b \in DOMAIN m /\ e[b].expiresAt = m[b].expiresAt
                          /\ e[b].older = m[b].older \ D
  BY <1>1, <1>2
<1>6. e \in [DOMAIN e -> VectorEntry]
  <2> SUFFICES ASSUME NEW b \in DOMAIN e PROVE e[b] \in VectorEntry
    BY <1>3
  <2>1. m[b].expiresAt \in Nat /\ m[b].older \subseteq Batches
    BY <1>5, EntryIs DEF MapOK
  <2> QED BY <1>2, <2>1 DEF VectorEntry
<1>7. MapInOrder(e)
  <2>1. \A b \in DOMAIN e : e[b].older \subseteq DOMAIN e \ {b}
    BY <1>1, <1>5, EntryIs
  <2>2. \A b, c \in DOMAIN e : b # c => (b \in e[c].older <=> c \notin e[b].older)
    BY <1>1, <1>5 DEF MapOK, MapInOrder
  <2>3. \A b \in DOMAIN e : \A c \in e[b].older : e[c].older \subseteq e[b].older
    <3> SUFFICES ASSUME NEW b \in DOMAIN e, NEW c \in e[b].older PROVE e[c].older \subseteq e[b].older
      OBVIOUS
    <3>1. c \in DOMAIN e /\ c \in m[b].older
      BY <1>5, <2>1
    <3>2. m[c].older \subseteq m[b].older
      BY <1>5, <3>1 DEF MapOK, MapInOrder
    <3> QED BY <1>5, <3>1, <3>2
  <2> QED BY <2>1, <2>2, <2>3 DEF MapInOrder
<1>8. Lasting(m) => Lasting(e)
  BY <1>5 DEF Lasting
<1> QED BY <1>1, <1>4, <1>6, <1>7, <1>8 DEF MapOK, e

\* A map that is not empty has an oldest entry: one before which fewest were inserted.
LEMMA OldestIsThere ==
  ASSUME NEW m, MapOK(m), DOMAIN m # {}
  PROVE  \E b \in DOMAIN m : m[b].older = {}
<1> DEFINE T == {m[b].older : b \in DOMAIN m}
<1>1. \A b \in DOMAIN m : m[b].older \subseteq DOMAIN m
  BY EntryIs
<1>2. T \subseteq FiniteSubsetsOf(DOMAIN m) /\ T # {}
  BY <1>1, FS_Subset DEF MapOK, FiniteSubsetsOf
<1>3. \E s \in T : \A k \in T : ~ (<<k, s>> \in StrictSubsetOrdering(DOMAIN m))
  <2>1. IsFiniteSet(DOMAIN m)
    BY DEF MapOK
  <2> HIDE DEF T
  <2> QED BY <1>2, <2>1, FS_StrictSubsetOrderingWellFounded, WFMin
<1>4. PICK s \in T : \A k \in T : k \subseteq s => k = s
  <2>1. T \subseteq SUBSET (DOMAIN m)
    BY <1>1
  <2> HIDE DEF T
  <2> QED BY <1>3, <2>1 DEF StrictSubsetOrdering
<1>5. PICK b \in DOMAIN m : s = m[b].older
  OBVIOUS
<1>6. ASSUME NEW c \in m[b].older PROVE FALSE
  <2>1. c \in DOMAIN m /\ m[c].older \in T
    BY <1>1, <1>6
  <2>2. m[c].older \subseteq m[b].older
    BY <1>6, <2>1 DEF MapOK, MapInOrder
  <2>3. c \in m[c].older
    BY <1>4, <1>5, <1>6, <2>1, <2>2
  <2> QED BY <2>1, <2>3, EntryIs
<1> QED BY <1>6

\* A batch that is stored is the newest, or keeps its place.
LEMMA StoredIs ==
  ASSUME NEW m, MapOK(m), Lasting(m), NEW b \in Batches, Cacheable(b), hour \in Nat
  PROVE  /\ MapOK(Stored(m, b)) /\ Lasting(Stored(m, b))
         /\ Cardinality(DOMAIN Stored(m, b)) <= Cardinality(DOMAIN m) + 1
<1> DEFINE e == Stored(m, b)
           before == IF b \in DOMAIN m THEN m[b].older ELSE DOMAIN m
<1>1. DOMAIN e = DOMAIN m \cup {b} /\ e = [c \in DOMAIN e |-> e[c]]
  BY DEF Stored
<1>2. e[b] = [expiresAt |-> hour + CacheTtl, older |-> before]
  BY DEF Stored
<1>3. \A c \in DOMAIN m : c # b => e[c] = m[c]
  BY DEF Stored
<1>4. before \subseteq DOMAIN m \ {b}
  BY EntryIs
<1> HIDE DEF e
<1>5. \A c \in DOMAIN e : e[c].older = IF c = b THEN before ELSE m[c].older
  BY <1>1, <1>2, <1>3
<1>6. IsFiniteSet(DOMAIN e) /\ Cardinality(DOMAIN e) <= Cardinality(DOMAIN m) + 1
  <2>1. IsFiniteSet(DOMAIN m) /\ Cardinality(DOMAIN m) \in Nat
    BY FS_CardinalityType DEF MapOK
  <2> QED BY <1>1, <2>1, FS_AddElement
<1>7. DOMAIN e \subseteq Batches
  BY <1>1 DEF MapOK
<1>8. e \in [DOMAIN e -> VectorEntry]
  <2>1. \A c \in DOMAIN m : m[c] \in VectorEntry
    BY DEF MapOK
  <2>2. e[b] \in VectorEntry
    BY <1>2, <1>4, EmbeddingsAssumption DEF VectorEntry, MapOK
  <2> QED BY <1>1, <1>3, <2>1, <2>2
<1>9. MapInOrder(e)
  <2>1. \A c \in DOMAIN e : e[c].older \subseteq DOMAIN e \ {c}
    BY <1>1, <1>4, <1>5, EntryIs
  <2>2. \A c \in DOMAIN m : c # b => (c \in before <=> b \notin m[c].older)
    BY EntryIs DEF MapOK, MapInOrder
  <2>3. \A c, d \in DOMAIN m : c # d => (c \in m[d].older <=> d \notin m[c].older)
    BY DEF MapOK, MapInOrder
  <2>4. \A c, d \in DOMAIN e : c # d => (c \in e[d].older <=> d \notin e[c].older)
    BY <1>1, <1>5, <2>2, <2>3
  <2>5. \A c \in DOMAIN m : \A d \in m[c].older : m[d].older \subseteq m[c].older
    BY DEF MapOK, MapInOrder
  <2>6. \A d \in before : m[d].older \subseteq before
    BY <2>5, EntryIs
  <2>7. \A c \in DOMAIN e : \A d \in e[c].older : e[d].older \subseteq e[c].older
    <3> SUFFICES ASSUME NEW c \in DOMAIN e, NEW d \in e[c].older PROVE e[d].older \subseteq e[c].older
      OBVIOUS
    <3>1. d \in DOMAIN e /\ d # c
      BY <2>1
    <3>2. CASE c = b
      BY <1>5, <2>6, <3>1, <3>2
    <3>3. CASE c # b /\ d # b
      BY <1>1, <1>5, <2>5, <3>1, <3>3
    <3>4. CASE c # b /\ d = b
      <4>1. c \in DOMAIN m /\ b \in m[c].older
        BY <1>1, <1>5, <3>4
      <4>2. b \in DOMAIN m /\ before = m[b].older
        BY <4>1, EntryIs
      <4> QED BY <1>1, <1>5, <2>5, <3>4, <4>1, <4>2
    <3> QED BY <3>2, <3>3, <3>4
  <2> QED BY <2>1, <2>4, <2>7 DEF MapInOrder
<1>10. Lasting(e)
  <2>1. \A c \in DOMAIN m : Cacheable(c) /\ m[c].expiresAt <= hour + CacheTtl
    BY DEF Lasting
  <2>2. e[b].expiresAt = hour + CacheTtl /\ hour + CacheTtl <= hour + CacheTtl
    BY <1>2, EmbeddingsAssumption
  <2> QED BY <1>1, <1>3, <2>1, <2>2 DEF Lasting
<1> QED BY <1>6, <1>7, <1>8, <1>9, <1>10 DEF MapOK, e

\* Before an entry is stored there is room for it.
LEMMA RoomedIs ==
  ASSUME EmbeddingsIInv
  PROVE  MapOK(Roomed) /\ Lasting(Roomed) /\ Cardinality(DOMAIN Roomed) < CacheSize
<1>1. MapOK(vectorCache) /\ Lasting(vectorCache) /\ Cardinality(DOMAIN vectorCache) <= CacheSize
  BY DEF EmbeddingsIInv, BatchesHeld
<1>2. MapOK(Swept) /\ Lasting(Swept) /\ Cardinality(DOMAIN Swept) <= CacheSize
  <2>1. CacheSize \in Nat /\ Cardinality(DOMAIN vectorCache) \in Nat
    BY <1>1, EmbeddingsAssumption, FS_CardinalityType DEF MapOK
  <2>2. LET e == Emptied(vectorCache, PastTime) IN
        MapOK(e) /\ Lasting(e) /\ Cardinality(DOMAIN e) <= Cardinality(DOMAIN vectorCache)
    BY <1>1, EmptiedIs
  <2>3. Cardinality(DOMAIN Emptied(vectorCache, PastTime)) \in Nat
    BY <2>2, FS_CardinalityType DEF MapOK
  <2> QED BY <1>1, <2>1, <2>2, <2>3 DEF Swept
<1>3. CASE Cardinality(DOMAIN Swept) < CacheSize
  BY <1>2, <1>3 DEF Roomed
<1>4. CASE ~ (Cardinality(DOMAIN Swept) < CacheSize)
  <2> DEFINE first == {b \in DOMAIN Swept : Swept[b].older = {}}
  <2>1. Roomed = Emptied(Swept, first)
    BY <1>4 DEF Roomed
  <2>2. IsFiniteSet(DOMAIN Swept) /\ Cardinality(DOMAIN Swept) \in Nat /\ CacheSize \in Nat \ {0}
    BY <1>2, EmbeddingsAssumption, FS_CardinalityType DEF MapOK
  <2>3. DOMAIN Swept # {}
    BY <1>4, <2>2, FS_EmptySet
  <2>4. PICK b \in first : TRUE
    BY <1>2, <2>3, OldestIsThere
  <2>5. MapOK(Roomed) /\ Lasting(Roomed) /\ DOMAIN Roomed = DOMAIN Swept \ first
    <3> HIDE DEF first
    <3> QED BY <1>2, <2>1, EmptiedIs
  <2>6. DOMAIN Roomed \subseteq DOMAIN Swept /\ DOMAIN Roomed # DOMAIN Swept
    BY <2>4, <2>5
  <2>7. /\ Cardinality(DOMAIN Roomed) <= Cardinality(DOMAIN Swept)
        /\ Cardinality(DOMAIN Roomed) # Cardinality(DOMAIN Swept)
        /\ Cardinality(DOMAIN Roomed) \in Nat
    BY <2>2, <2>5, <2>6, FS_Subset, FS_CardinalityType DEF MapOK
  <2> QED BY <1>2, <2>2, <2>5, <2>7
<1> QED BY <1>3, <1>4

\* Calls before their first part and with some fields changed.
LEMMA UnaskedType == Unasked \in EmbedCall
<1>1. 1 \in 1..MaxAttempts /\ (CHOOSE b \in Batches : TRUE) \in Batches
  BY EmbeddingsAssumption
<1> QED BY <1>1 DEF Unasked, EmbedCall

LEMMA CallTypes ==
  ASSUME NEW x \in EmbedCall, NEW pc \in {"none", "fetch", "backoff", "vectors", "failed"},
         NEW b \in Batches, NEW n \in Nat, NEW a \in 1..MaxAttempts
  PROVE  /\ [x EXCEPT !.pc = pc, !.batch = b] \in EmbedCall
         /\ [x EXCEPT !.part = n, !.attempt = a] \in EmbedCall
         /\ [x EXCEPT !.pc = pc, !.attempt = a] \in EmbedCall
BY DEF EmbedCall

LEMMA EmbeddingsBegin == EmbeddingsInit => EmbeddingsIInv
<1> SUFFICES ASSUME EmbeddingsInit PROVE EmbeddingsIInv
  OBVIOUS
<1>1. DOMAIN vectorCache = {} /\ vectorCache = [b \in {} |-> {}]
  BY DEF EmbeddingsInit
<1>2. IsFiniteSet({}) /\ Cardinality({}) = 0
  BY FS_EmptySet
<1>3. Unasked \in EmbedCall
  BY UnaskedType
<1>4. EmbeddingsTypeOK
  BY <1>1, <1>3, EmbeddingsAssumption DEF EmbeddingsInit, EmbeddingsTypeOK, BatchesHeld
<1>5. MapOK(vectorCache) /\ Lasting(vectorCache)
  BY <1>1, <1>2 DEF MapOK, MapInOrder, Lasting
<1>6. Cardinality(BatchesHeld) <= CacheSize
  BY <1>1, <1>2, EmbeddingsAssumption DEF BatchesHeld
<1> QED BY <1>4, <1>5, <1>6 DEF EmbeddingsIInv

\* A cache that is sound beside requests that are, and the time.
LEMMA EmbeddingsSound ==
  ASSUME EmbeddingsIInv, provider' = provider, hour' \in 0..MaxHour, hour <= hour',
         embed' \in [EmbedRequests -> EmbedCall],
         MapOK(vectorCache'), Lasting(vectorCache'), Cardinality(DOMAIN vectorCache') <= CacheSize
  PROVE  EmbeddingsIInv'
<1>1. hour \in Nat /\ hour' \in Nat /\ CacheTtl \in Nat
  BY EmbeddingsAssumption DEF EmbeddingsIInv, EmbeddingsTypeOK
<1>2. Lasting(vectorCache)'
  <2> SUFFICES ASSUME NEW b \in DOMAIN vectorCache'
               PROVE  Cacheable(b) /\ vectorCache'[b].expiresAt <= hour' + CacheTtl
    BY DEF Lasting, Cacheable
  <2>1. Cacheable(b) /\ vectorCache'[b].expiresAt <= hour + CacheTtl
    BY DEF Lasting
  <2>2. vectorCache'[b].expiresAt \in Nat
    BY EntryIs
  <2> QED BY <1>1, <2>1, <2>2
<1>3. MapOK(vectorCache)'
  BY DEF MapOK, MapInOrder
<1>4. EmbeddingsTypeOK'
  BY DEF EmbeddingsIInv, EmbeddingsTypeOK, MapOK, BatchesHeld
<1> QED BY <1>2, <1>3, <1>4 DEF EmbeddingsIInv, BatchesHeld

LEMMA EmbeddingsKept == EmbeddingsIInv /\ [EmbeddingsNext]_embeddingVars => EmbeddingsIInv'
<1> SUFFICES ASSUME EmbeddingsIInv, [EmbeddingsNext]_embeddingVars PROVE EmbeddingsIInv'
  OBVIOUS
<1> USE EmbeddingsAssumption
<1>0. /\ MapOK(vectorCache) /\ Lasting(vectorCache) /\ Cardinality(DOMAIN vectorCache) <= CacheSize
      /\ hour \in 0..MaxHour /\ embed \in [EmbedRequests -> EmbedCall] /\ hour <= hour
  BY DEF EmbeddingsIInv, EmbeddingsTypeOK, BatchesHeld
<1>1. \A r \in EmbedRequests : embed[r] \in EmbedCall
  BY <1>0
<1>2. ASSUME NEW r \in EmbedRequests, NEW new \in EmbedCall, SetEmbed(r, new)
      PROVE  embed' \in [EmbedRequests -> EmbedCall]
  BY <1>0, <1>2 DEF SetEmbed
<1>3. ASSUME NEW b \in Batches, NEW pc \in {"none", "fetch", "backoff", "vectors", "failed"}
      PROVE  [Unasked EXCEPT !.pc = pc, !.batch = b] \in EmbedCall
  <2>1. Unasked \in EmbedCall /\ 0 \in Nat /\ 1 \in 1..MaxAttempts
    BY UnaskedType
  <2> QED BY <1>3, <2>1, CallTypes
<1>4. ASSUME NEW r \in EmbedRequests, NEW b \in Batches, EmbedTexts(r, b) PROVE EmbeddingsIInv'
  <2>1. embed' \in [EmbedRequests -> EmbedCall] /\ provider' = provider /\ hour' = hour
    BY <1>2, <1>3, <1>4 DEF EmbedTexts
  <2>2. vectorCache' = vectorCache \/ vectorCache' = Emptied(vectorCache, {b})
    BY <1>4 DEF EmbedTexts
  <2>3. MapOK(vectorCache') /\ Lasting(vectorCache') /\ Cardinality(DOMAIN vectorCache') <= CacheSize
    <3>1. CASE vectorCache' = vectorCache
      BY <1>0, <3>1
    <3>2. CASE vectorCache' = Emptied(vectorCache, {b})
      <4>1. MapOK(vectorCache') /\ Lasting(vectorCache')
            /\ Cardinality(DOMAIN vectorCache') <= Cardinality(DOMAIN vectorCache)
        BY <1>0, <3>2, EmptiedIs
      <4>2. Cardinality(DOMAIN vectorCache') \in Nat /\ Cardinality(DOMAIN vectorCache) \in Nat
        BY <1>0, <4>1, FS_CardinalityType DEF MapOK
      <4> QED BY <1>0, <4>1, <4>2
    <3> QED BY <2>2, <3>1, <3>2
  <2> QED BY <1>0, <2>1, <2>3, EmbeddingsSound
<1>5. ASSUME NEW r \in EmbedRequests, HfAnswers(r) PROVE EmbeddingsIInv'
  <2>0. embed[r].batch \in Batches
    BY <1>1 DEF EmbedCall
  <2>1. embed' \in [EmbedRequests -> EmbedCall] /\ provider' = provider /\ hour' = hour
    BY <1>2, <1>3, <1>5, <2>0 DEF HfAnswers, EndAs
  <2>2. CASE ~Cacheable(embed[r].batch)
    <3>1. vectorCache' = vectorCache
      BY <1>5, <2>2 DEF HfAnswers
    <3> QED BY <1>0, <2>1, <3>1, EmbeddingsSound
  <2>3. CASE Cacheable(embed[r].batch)
    <3>1. vectorCache' = Stored(Roomed, embed[r].batch)
      BY <1>5, <2>3 DEF HfAnswers
    <3>2. MapOK(Roomed) /\ Lasting(Roomed) /\ Cardinality(DOMAIN Roomed) < CacheSize
      BY RoomedIs
    <3>3. /\ MapOK(vectorCache') /\ Lasting(vectorCache')
          /\ Cardinality(DOMAIN vectorCache') <= Cardinality(DOMAIN Roomed) + 1
      BY <1>0, <2>0, <2>3, <3>1, <3>2, StoredIs
    <3>4. Cardinality(DOMAIN vectorCache') \in Nat /\ Cardinality(DOMAIN Roomed) \in Nat
      BY <3>2, <3>3, FS_CardinalityType DEF MapOK
    <3>5. Cardinality(DOMAIN vectorCache') <= CacheSize
      BY <3>2, <3>3, <3>4
    <3> QED BY <1>0, <2>1, <3>3, <3>5, EmbeddingsSound
  <2> QED BY <2>2, <2>3
<1>6. ASSUME NEW r \in EmbedRequests,
             FetchFails(r) \/ GeminiAnswers(r) \/ RateLimited(r) \/ BackoffEnds(r)
      PROVE  EmbeddingsIInv'
  <2>1. provider' = provider /\ hour' = hour /\ vectorCache' = vectorCache
    BY <1>6 DEF FetchFails, GeminiAnswers, RateLimited, BackoffEnds
  <2>2. embed[r].batch \in Batches /\ embed[r].part \in Nat /\ embed[r].attempt \in 1..MaxAttempts
    BY <1>1 DEF EmbedCall
  <2>3. EndAs(r, "vectors") \in EmbedCall /\ EndAs(r, "failed") \in EmbedCall
    BY <1>3, <2>2 DEF EndAs
  <2>4. [embed[r] EXCEPT !.part = @ + 1, !.attempt = 1] \in EmbedCall
    <3>1. embed[r].part + 1 \in Nat /\ 1 \in 1..MaxAttempts
      BY <2>2
    <3> QED BY <1>1, <3>1, CallTypes
  <2>5. embed[r].attempt < MaxAttempts =>
          [embed[r] EXCEPT !.pc = "backoff", !.attempt = @ + 1] \in EmbedCall
    <3> SUFFICES ASSUME embed[r].attempt < MaxAttempts
                 PROVE  [embed[r] EXCEPT !.pc = "backoff", !.attempt = @ + 1] \in EmbedCall
      OBVIOUS
    <3>1. embed[r].attempt + 1 \in 1..MaxAttempts
      BY <2>2
    <3> QED BY <1>1, <3>1, CallTypes
  <2>6. [embed[r] EXCEPT !.pc = "fetch"] \in EmbedCall
    BY <1>1 DEF EmbedCall
  <2>7. embed' \in [EmbedRequests -> EmbedCall]
    BY <1>2, <1>6, <2>3, <2>4, <2>5, <2>6 DEF FetchFails, GeminiAnswers, RateLimited, BackoffEnds
  <2> QED BY <1>0, <2>1, <2>7, EmbeddingsSound
<1>7. CASE HourPasses
  <2>1. provider' = provider /\ vectorCache' = vectorCache /\ embed' = embed
        /\ hour' \in 0..MaxHour /\ hour <= hour'
    BY <1>0, <1>7 DEF HourPasses
  <2> QED BY <1>0, <2>1, EmbeddingsSound
<1>8. CASE UNCHANGED embeddingVars
  BY <1>0, <1>8, EmbeddingsSound DEF embeddingVars
<1> QED BY <1>4, <1>5, <1>6, <1>7, <1>8 DEF EmbeddingsNext, Outcome

LEMMA EmbeddingsFollow == EmbeddingsIInv => EmbeddingsInv
BY DEF EmbeddingsIInv, EmbeddingsInv, CacheSound, MapOK, MapInOrder, Lasting, BatchesHeld

(* For any number of requests that store at the same time, any batches and *)
(* any cap: the batch cache holds no more than its cap, since it drops its *)
(* oldest entry when none has expired, and nothing outlives its hour.      *)
THEOREM EmbeddingCacheIsBounded == EmbeddingsSpec => []EmbeddingsInv
<1> QED BY EmbeddingsBegin, EmbeddingsKept, EmbeddingsFollow, PTL DEF EmbeddingsSpec

-----------------------------------------------------------------------------
(* The parts together                                                      *)

ServerIInv ==
  /\ AdminTypeOK /\ AdminRemains /\ MemoryInv /\ LimiterIInv
  /\ BulkIInv /\ TransIInv /\ AgentsIInv /\ ScraperIInv /\ EmbeddingsIInv

LEMMA ServerBegins == MCInit => ServerIInv
<1> SUFFICES ASSUME MCInit PROVE ServerIInv
  OBVIOUS
<1>1. /\ AdminInit /\ MemoryInit /\ LimiterInit /\ BulkInit /\ TransInit /\ AgentsInit
      /\ ScraperInit /\ EmbeddingsInit
  BY DEF MCInit
<1> QED BY <1>1, AdminBegins, MemoryBegins, LimiterBegins, BulkBegins, TransBegins, AgentsBegin,
           ScraperBegins, EmbeddingsBegin DEF ServerIInv

\* A step is one of one part, and the others stay as they are.
LEMMA ServerKept == ServerIInv /\ [MCNext]_MCVars => ServerIInv'
<1> SUFFICES ASSUME ServerIInv, [MCNext]_MCVars PROVE ServerIInv'
  OBVIOUS
<1>1. /\ [AdminNext]_adminVars /\ [MemoryNext]_memoryVars /\ [LimiterNext]_limiterVars
      /\ [BulkNext]_bulkVars /\ [TransNext]_transVars /\ [AgentsNext]_agentVars
      /\ [ScraperNext]_scraperVars /\ [EmbeddingsNext]_embeddingVars
  <2>1. CASE MCNext
    BY <2>1 DEF MCNext, Stays, OfAdmins, OfMemory, OfLimiter, OfBulk, OfTranslation, OfAgents,
                OfScraper, OfEmbeddings, LimiterStep, TransStep, ScraperStep
  <2>2. CASE UNCHANGED MCVars
    BY <2>2 DEF MCVars
  <2> QED BY <2>1, <2>2
<1> QED BY <1>1, AdminTypes, AdminStays, MemoryStep, LimiterKept, BulkKept, TransKept, AgentsKept,
           ScraperKept, EmbeddingsKept DEF ServerIInv

(* Whichever part of the server is at work, and whoever interferes: an     *)
(* administrator remains, no caller passes its window, a bulk ingestion    *)
(* waits for all of its runs, a segment is paid for once and a budget      *)
(* overdrawn only by those who wait, the calls of the agents are put down  *)
(* to them, a page is read from an inner address only where its host's     *)
(* address moved after the check, and fetched as often as allowed, and the *)
(* embeddings' cache keeps to its bounds.                                  *)
THEOREM ServerCorrect == MCSpec => []ServerInv
<1>1. MCInit => ServerIInv
  BY ServerBegins
<1>2. ServerIInv /\ [MCNext]_MCVars => ServerIInv'
  BY ServerKept
<1>3. ServerIInv => ServerInv
  BY WindowFollows, BulkFollows, TransFollows, AgentsFollow, ScraperFollows, EmbeddingsFollow
     DEF ServerIInv, ServerInv, AdminUsersInv, MemoryInv
<1> QED BY <1>1, <1>2, <1>3, PTL DEF MCSpec

=============================================================================
