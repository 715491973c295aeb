----------------------------- MODULE RateLimiter -----------------------------
(***************************************************************************)
(* The sliding window of one process (RateLimiter without Upstash): a list *)
(* of accepted times per caller, and the sweep of callers not heard of     *)
(* when the map is full.                                                   *)
(***************************************************************************)
EXTENDS Integers, Sequences, FiniteSets

CONSTANTS
  Callers,      \* identifiers
  MaxRequests, WindowSeconds,
  MaxBuckets,   \* MAX_MEM_BUCKETS
  MaxClock      \* bound of the checking: time ends here

ASSUME RateLimiterAssumption ==
  /\ IsFiniteSet(Callers) /\ MaxRequests \in Nat \ {0} /\ WindowSeconds \in Nat \ {0}
  /\ MaxBuckets \in Nat \ {0} /\ MaxClock \in Nat

VARIABLES
  clock,
  memBuckets, \* memBuckets[c]: accepted times, oldest first; <<>> is no bucket
  lastSeen,   \* lastSeen[c]
  verdict,    \* the last answer
  accepted    \* history: accepted[c], all accepted times of c

limiterVars == <<clock, memBuckets, lastSeen, verdict, accepted>>

LimiterTypeOK ==
  /\ clock \in 0..MaxClock
  /\ memBuckets \in [Callers -> Seq(0..MaxClock)]
  /\ lastSeen \in [Callers -> 0..MaxClock]
  /\ verdict \in [caller : Callers, success : BOOLEAN, remaining : 0..MaxRequests]
  /\ accepted \in [Callers -> Seq(0..MaxClock)]

LimiterInit ==
  /\ clock = 0
  /\ memBuckets = [c \in Callers |-> <<>>] /\ lastSeen = [c \in Callers |-> 0]
  /\ \E c \in Callers : verdict = [caller |-> c, success |-> TRUE, remaining |-> MaxRequests]
  /\ accepted = [c \in Callers |-> <<>>]

Buckets == {c \in Callers : memBuckets[c] # <<>>}

\* Times are in order: what the filter drops is a beginning.
Recent(times) ==
  LET old == {i \in 1..Len(times) : times[i] <= clock - WindowSeconds} IN
  SubSeq(times, Cardinality(old) + 1, Len(times))

\* Mutant: whoever was not seen for long goes, with what was accepted of him.
StaleBySeen(c) == clock > lastSeen[c]

StaleBucket(c) == memBuckets[c][Len(memBuckets[c])] < clock - WindowSeconds

\* Until the map is below its cap, longest unseen first, stale ones only.
Evicted == IF Cardinality(Buckets) < MaxBuckets THEN {{}} ELSE
  LET stale == {c \in Buckets : StaleBucket(c)}
      excess == Cardinality(Buckets) - MaxBuckets + 1 IN
  {E \in SUBSET stale :
     /\ Cardinality(E) = excess \/ (Cardinality(stale) < excess /\ E = stale)
     /\ \A c \in E, d \in stale \ E : lastSeen[c] <= lastSeen[d]}

Check(c) == \E E \in Evicted :
  LET times == IF c \in E THEN <<>> ELSE Recent(memBuckets[c])
      ok == Len(times) < MaxRequests
      kept == IF ok THEN Append(times, clock) ELSE times IN
  /\ memBuckets' = [d \in Callers |-> IF d = c THEN kept
                                      ELSE IF d \in E THEN <<>> ELSE memBuckets[d]]
  /\ lastSeen' = [lastSeen EXCEPT ![c] = clock]
  /\ verdict' = [caller |-> c, success |-> ok,
                 remaining |-> IF ok THEN MaxRequests - Len(kept) ELSE 0]
  /\ accepted' = IF ok THEN [accepted EXCEPT ![c] = Append(@, clock)] ELSE accepted
  /\ UNCHANGED clock

Pass == clock < MaxClock /\ clock' = clock + 1
        /\ UNCHANGED <<memBuckets, lastSeen, verdict, accepted>>

LimiterNext == Pass \/ \E c \in Callers : Check(c)
LimiterSpec == LimiterInit /\ [][LimiterNext]_limiterVars

-----------------------------------------------------------------------------

Accepted(c, from, to) ==
  Cardinality({i \in 1..Len(accepted[c]) : accepted[c][i] >= from /\ accepted[c][i] <= to})

(* Whatever the sweep forgets, no caller is accepted more than MaxRequests *)
(* times within any WindowSeconds.                                         *)
WindowKept ==
  \A c \in Callers, t \in 0..clock : Accepted(c, t - WindowSeconds + 1, t) <= MaxRequests

(* And none is refused who had not used the window up.                     *)
RefusedForUse ==
  ~verdict.success =>
    Accepted(verdict.caller, lastSeen[verdict.caller] - WindowSeconds + 1,
             lastSeen[verdict.caller]) = MaxRequests

LimiterInv == LimiterTypeOK /\ WindowKept /\ RefusedForUse

=============================================================================
