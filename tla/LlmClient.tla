------------------------------ MODULE LlmClient ------------------------------
(***************************************************************************)
(* Calls of the language model in one process: callLLM and callLLMStream.  *)
(* All calls share one semaphore and one circuit breaker per provider;     *)
(* Groq is tried first, HuggingFace after it, each with its own retries.   *)
(* A stream goes to Groq past both the semaphore and the breaker and falls *)
(* back to an ordinary call only before its first token.                   *)
(***************************************************************************)
EXTENDS Integers, FiniteSets

CONSTANTS
  LlmCalls,      \* calls that may be under way at the same time
  SemaphoreSize, \* LLM_SEMAPHORE_LIMIT
  Retries,       \* Retries[p]: GROQ_MAX_RETRIES, HF_MAX_RETRIES
  Threshold,     \* failureThreshold
  ResetTicks     \* resetTimeoutMs, in ticks

Providers == {"groq", "huggingface"}

ASSUME LlmAssumption ==
  /\ IsFiniteSet(LlmCalls)
  /\ SemaphoreSize \in Nat \ {0} /\ Threshold \in Nat \ {0} /\ ResetTicks \in Nat \ {0}
  /\ Retries \in [Providers -> Nat \ {0}]

VARIABLES
  breaker,  \* breaker[p]: groqBreaker, hfBreaker
  active,   \* activeCalls
  llmCall   \* one call

llmVars == <<breaker, active, llmCall>>

\* since: ticks from openedAt, ResetTicks for that and more; -1 for null.
Breaker == [state : {"CLOSED", "OPEN", "HALF_OPEN"}, failures : 0..Threshold,
            since : -1..ResetTicks]
ClosedBreaker == [state |-> "CLOSED", failures |-> 0, since |-> -1]

CallPcs == {"idle", "stream", "admit", "wait", "run", "backoff", "done", "failed"}
LlmCall == [pc : CallPcs, provider : Providers, attempt : Nat \ {0},
         out : {"nothing", "part", "whole", "twice"}]
Fresh == [pc |-> "idle", provider |-> "groq", attempt |-> 1, out |-> "nothing"]

LlmTypeOK ==
  /\ breaker \in [Providers -> Breaker]
  /\ active \in Nat
  /\ llmCall \in [LlmCalls -> LlmCall]

LlmInit ==
  /\ breaker = [p \in Providers |-> ClosedBreaker]
  /\ active = 0
  /\ llmCall = [c \in LlmCalls |-> Fresh]

CallAt(c, pc) == llmCall[c].pc = pc
SetCall(c, new) == llmCall' = [llmCall EXCEPT ![c] = new]
CallGoto(c, pc) == SetCall(c, [llmCall[c] EXCEPT !.pc = pc])

-----------------------------------------------------------------------------
(* The breaker *)

\* getState: an open breaker becomes half-open when somebody looks.
ShouldHalfOpen(b) == b.state = "OPEN" /\ b.since = ResetTicks
Seen(b) == IF ShouldHalfOpen(b) THEN [b EXCEPT !.state = "HALF_OPEN"] ELSE b

\* Mutant: the count survives a success.
OnSuccessKeepsCount(b) == [b EXCEPT !.state = "CLOSED", !.since = -1]

OnSuccess(b) == ClosedBreaker

\* Mutant: the breaker opens without a date.
OnFailureUndated(b) ==
  LET n == IF b.state = "HALF_OPEN" \/ b.failures + 1 > Threshold THEN Threshold
           ELSE b.failures + 1 IN
  IF n >= Threshold THEN [b EXCEPT !.state = "OPEN", !.failures = n]
  ELSE [b EXCEPT !.failures = n]

\* failureCount is only compared with the threshold: it is kept up to there.
OnFailure(b) ==
  LET n == IF b.state = "HALF_OPEN" \/ b.failures + 1 > Threshold THEN Threshold
           ELSE b.failures + 1 IN
  IF n >= Threshold THEN [state |-> "OPEN", failures |-> n, since |-> 0]
  ELSE [b EXCEPT !.failures = n]

SetBreaker(p, b) == breaker' = [breaker EXCEPT ![p] = b]

-----------------------------------------------------------------------------
(* A call *)

StartCall(c) ==
  /\ CallAt(c, "idle")
  /\ CallGoto(c, "admit")
  /\ UNCHANGED <<breaker, active>>

\* callLLMStream, if there is a Groq client.
StartStream(c) ==
  /\ CallAt(c, "idle")
  /\ CallGoto(c, "stream")
  /\ UNCHANGED <<breaker, active>>

Streams(c, text) ==
  IF llmCall[c].out = "nothing" THEN text ELSE "twice"

Delta(c) ==
  /\ CallAt(c, "stream") /\ llmCall[c].out = "nothing"
  /\ SetCall(c, [llmCall[c] EXCEPT !.out = "part"])
  /\ UNCHANGED <<breaker, active>>

\* A stream that ends without a token is an answer too: the empty one.
StreamEnds(c) ==
  /\ CallAt(c, "stream")
  /\ SetCall(c, [llmCall[c] EXCEPT !.pc = "done",
                                !.out = IF @ = "part" THEN "whole" ELSE @])
  /\ UNCHANGED <<breaker, active>>

\* Mutant: every failure falls back.
StreamAlwaysFallsBack(c) ==
  /\ CallAt(c, "stream")
  /\ CallGoto(c, "admit")
  /\ UNCHANGED <<breaker, active>>

StreamFails(c) ==
  /\ CallAt(c, "stream")
  /\ CallGoto(c, IF llmCall[c].out = "nothing" THEN "admit" ELSE "failed")
  /\ UNCHANGED <<breaker, active>>

\* What follows a provider that has failed or is not asked.
NextProvider(c) ==
  IF llmCall[c].provider = "groq"
  THEN [llmCall[c] EXCEPT !.pc = "admit", !.provider = "huggingface", !.attempt = 1]
  ELSE [llmCall[c] EXCEPT !.pc = "failed"]

\* allowRequest: closed and half-open breakers let everyone through.
Enter(c) ==
  LET p == llmCall[c].provider  b == Seen(breaker[p]) IN
  /\ CallAt(c, "admit")
  /\ SetBreaker(p, b)
  /\ SetCall(c, IF b.state = "OPEN" THEN NextProvider(c)
                ELSE [llmCall[c] EXCEPT !.pc = "wait", !.attempt = 1])
  /\ UNCHANGED active

\* acquireSemaphore polls; nothing happens between its test and its count.
Acquire(c) ==
  /\ CallAt(c, "wait") /\ active < SemaphoreSize
  /\ active' = active + 1
  /\ CallGoto(c, "run")
  /\ UNCHANGED breaker

\* withRetry: another attempt after a pause, or the provider has failed, which
\* the breaker counts, whatever the reason.
AttemptFailed(c) ==
  LET p == llmCall[c].provider IN
  IF llmCall[c].attempt < Retries[p]
  THEN CallGoto(c, "backoff") /\ UNCHANGED breaker
  ELSE SetCall(c, NextProvider(c)) /\ SetBreaker(p, OnFailure(breaker[p]))

\* An abort while waiting holds no place, and is retried like any failure.
AbortedWaiting(c) ==
  /\ CallAt(c, "wait") /\ active >= SemaphoreSize
  /\ AttemptFailed(c)
  /\ UNCHANGED active

\* No key for Groq: the call fails without an attempt.
NotConfigured(c) ==
  LET p == llmCall[c].provider IN
  /\ CallAt(c, "wait") /\ p = "groq" /\ llmCall[c].attempt = 1
  /\ SetCall(c, NextProvider(c))
  /\ SetBreaker(p, OnFailure(breaker[p]))
  /\ UNCHANGED active

Released == IF active > 0 THEN active - 1 ELSE 0

Succeeds(c) ==
  LET p == llmCall[c].provider IN
  /\ CallAt(c, "run")
  /\ active' = Released
  /\ SetBreaker(p, OnSuccess(breaker[p]))
  /\ SetCall(c, [llmCall[c] EXCEPT !.pc = "done", !.out = Streams(c, "whole")])

\* Mutant: only a success gives its place back.
AttemptFailsHolding(c) ==
  /\ CallAt(c, "run")
  /\ AttemptFailed(c)
  /\ UNCHANGED active

\* An error, an empty answer, a timeout or an abort.
AttemptFails(c) ==
  /\ CallAt(c, "run")
  /\ active' = Released
  /\ AttemptFailed(c)

BackoffOver(c) ==
  /\ CallAt(c, "backoff")
  /\ SetCall(c, [llmCall[c] EXCEPT !.pc = "wait", !.attempt = @ + 1])
  /\ UNCHANGED <<breaker, active>>

ClockTicks ==
  /\ \E p \in Providers : breaker[p].since \in 0..(ResetTicks - 1)
  /\ breaker' = [p \in Providers |->
       IF breaker[p].since \in 0..(ResetTicks - 1)
       THEN [breaker[p] EXCEPT !.since = @ + 1] ELSE breaker[p]]
  /\ UNCHANGED <<active, llmCall>>

\* A caller comes back; the streams' tokens are forgotten.
CallAgain(c) ==
  /\ CallAt(c, "done") \/ CallAt(c, "failed")
  /\ SetCall(c, Fresh)
  /\ UNCHANGED <<breaker, active>>

LlmCallStep(c) ==
  \/ Delta(c) \/ StreamEnds(c) \/ StreamFails(c)
  \/ Enter(c) \/ Acquire(c) \/ AbortedWaiting(c) \/ NotConfigured(c)
  \/ Succeeds(c) \/ AttemptFails(c) \/ BackoffOver(c)

LlmNext ==
  \/ \E c \in LlmCalls : StartCall(c) \/ StartStream(c) \/ CallAgain(c) \/ LlmCallStep(c)
  \/ ClockTicks

LlmSpec == LlmInit /\ [][LlmNext]_llmVars

\* The clock runs; nothing else has to happen.
LlmFairness == WF_llmVars(ClockTicks)

-----------------------------------------------------------------------------
(* Properties *)

\* activeCalls: failures, aborts and retries in any order leave the semaphore
\* with as many places taken as there are requests under way.
SemaphoreIsExact ==
  /\ active = Cardinality({c \in LlmCalls : CallAt(c, "run")})
  /\ active <= SemaphoreSize

\* The breaker's three fields agree however late the results of old calls
\* come in: it lets calls through freely exactly while it has counted fewer
\* failures than the threshold since the last success, and has a date from
\* which to recover exactly when it does not.
BreakersAgree ==
  \A p \in Providers :
    LET b == breaker[p] IN
    /\ b.state = "CLOSED" <=> b.failures < Threshold
    /\ b.state = "CLOSED" <=> b.since = -1
    /\ b.state = "HALF_OPEN" => b.since = ResetTicks

\* callLLMStream: text that has been streamed is never followed by the whole
\* answer again (the comment at its catch).
NeverTwice == \A c \in LlmCalls : llmCall[c].out # "twice"

\* What callLLM and its breakers keep to, for every call and provider.
LlmInv == LlmTypeOK /\ SemaphoreIsExact /\ BreakersAgree /\ NeverTwice

\* An open breaker lets a call through again some time: late failures of calls
\* from before it opened put the date off, but not for ever.
BreakersRecover ==
  \A p \in Providers : breaker[p].state = "OPEN" ~> Seen(breaker[p]).state # "OPEN"

=============================================================================
