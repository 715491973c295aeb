------------------------- MODULE AnswerStreamProofs -------------------------
(***************************************************************************)
(* The stream of an answer, whatever the writer sends: its tokens arrive   *)
(* whole and in order, the consumer never sleeps over one, and what is on  *)
(* the screen in the end is what was stored.                               *)
(***************************************************************************)
EXTENDS AnswerStream, TLAPS, SequenceTheorems

-----------------------------------------------------------------------------
(* The invariant *)

\* Nothing has happened before the pipeline is picked.
FreshStart ==
  GenAt("start") =>
    /\ PipeAt("idle") /\ pipe.streamed = <<>> /\ bubble = <<>>
    /\ queue.events = <<>> /\ ~queue.waiting /\ ~queue.done /\ ~gen.streamed

\* Something is in the consumer's hand only where it waited for it.
HandOK ==
  /\ gen.pc \notin {"wait", "yield"} => gen.got = "none"
  /\ GenAt("yield") => gen.got \in Events
  /\ GenAt("wait") /\ gen.got = "end" => queue.done /\ queue.events = <<>>

\* A waiter stands for a consumer that sleeps with nothing in the queue.
WaiterOK ==
  queue.waiting => GenAt("wait") /\ gen.got = "none" /\ ~queue.done /\ queue.events = <<>>

\* The queue ends with its pipeline, unless the consumer has left; and an error in
\* it is one of the pipeline.
Settled == pipe.pc \in {"returned", "threw"}
EndOK ==
  /\ queue.done => Settled \/ GenAt("left")
  /\ queue.error /\ ~GenAt("left") => PipeAt("threw")
  /\ GenAt("await") => queue.done /\ queue.events = <<>>
  /\ gen.pc \in {"catch", "status", "persist", "tokens", "done", "fail", "end"} =>
       PipeAt("idle") \/ Settled

\* The writer's answer is what it streamed, but for blanks, and before the writer
\* nothing is.
AnswerOK ==
  /\ pipe.pc \in {"idle", "cache", "guard", "research", "analyst"} => pipe.streamed = <<>>
  /\ pipe.pc \in {"keep", "returned"} => pipe.answer = pipe.streamed \/ pipe.streamed = <<>> \/ OnlyBlanks

\* What is on the screen of one who stayed, from the end of the queue on; only who
\* stayed sees the end of the turn.
BubbleOK ==
  /\ GenAt("end") => ~aborted
  /\ ~aborted =>
       /\ gen.pc \in {"pull", "wait", "yield", "await"} => (gen.streamed <=> bubble # <<>>)
       /\ gen.pc \in {"status", "persist"} =>
            IF gen.streamed THEN bubble = gen.text \/ OnlyBlanks ELSE bubble = <<>>
       /\ GenAt("tokens") => bubble \o gen.text = row
       /\ gen.pc \in {"done", "end"} => bubble = row \/ OnlyBlanks

StreamIInv ==
  /\ StreamTypeOK /\ FreshStart /\ HandOK /\ WaiterOK /\ EndOK /\ AnswerOK
  /\ NeverSleepsOver /\ InOrder /\ BubbleOK
-----------------------------------------------------------------------------
(* Tokens on the way, move by move *)

\* When all that was streamed has been taken, nothing is on the way.
LEMMA NothingOnTheWay ==
  ASSUME NEW s \in Seq({"word", "blank"})
  PROVE  OnTheWay(s, s, <<>>)
<1>1. Len(s) \in Nat /\ Len(<<>>) = 0
  BY LenProperties, EmptySeq
<1> DEFINE place == [k \in (Len(s) + 1)..Len(s) |-> 1]
<1>2. \A k \in (Len(s) + 1)..Len(s) : FALSE
  BY <1>1
<1>3. place \in [(Len(s) + 1)..Len(s) -> 1..Len(<<>>)] /\ DOMAIN place = (Len(s) + 1)..Len(s)
  BY <1>2
<1> HIDE DEF place
<1>4. \A i \in 1..Len(<<>>) : FALSE
  BY <1>1
<1>5. Len(s) <= Len(s) /\ \A k \in 1..Len(s) : s[k] = s[k]
  BY <1>1
<1> QED
  BY <1>2, <1>3, <1>4, <1>5 DEF OnTheWay

\* A stage at the end of the queue disturbs no token.
LEMMA StageQueued ==
  ASSUME NEW t \in Seq(Words), NEW s \in Seq({"word", "blank"}), NEW e \in Seq(Events),
         OnTheWay(t, s, e)
  PROVE  OnTheWay(t, s, Append(e, "stage"))
<1> DEFINE f == Append(e, "stage")
<1>1. /\ Len(f) = Len(e) + 1 /\ Len(e) \in Nat
      /\ \A i \in 1..Len(e) : f[i] = e[i]
      /\ f[Len(e) + 1] = "stage"
  BY AppendProperties, LenProperties DEF Events
<1> HIDE DEF f
<1>2. PICK place \in [(Len(t) + 1)..Len(s) -> 1..Len(e)] :
        /\ \A k, l \in DOMAIN place : k < l => place[k] < place[l]
        /\ \A k \in DOMAIN place : e[place[k]] = s[k]
        /\ \A i \in 1..Len(e) : e[i] = "stage" \/ \E k \in DOMAIN place : place[k] = i
  BY DEF OnTheWay
<1>3. place \in [(Len(t) + 1)..Len(s) -> 1..Len(f)]
  BY <1>1
<1>4. \A k \in DOMAIN place : f[place[k]] = s[k]
  BY <1>1, <1>2
<1>5. \A i \in 1..Len(f) : f[i] = "stage" \/ \E k \in DOMAIN place : place[k] = i
  <2> SUFFICES ASSUME NEW i \in 1..Len(f) PROVE f[i] = "stage" \/ \E k \in DOMAIN place : place[k] = i
    OBVIOUS
  <2>1. i \in 1..Len(e) \/ i = Len(e) + 1
    BY <1>1
  <2> QED
    BY <2>1, <1>1, <1>2
<1>6. OnTheWay(t, s, f)
  BY <1>2, <1>3, <1>4, <1>5 DEF OnTheWay
<1> QED
  BY <1>6 DEF f

\* A token streamed and put at the end of the queue is behind all the others.
LEMMA TokenQueued ==
  ASSUME NEW t \in Seq(Words), NEW s \in Seq({"word", "blank"}), NEW e \in Seq(Events),
         NEW d \in {"word", "blank"}, OnTheWay(t, s, e)
  PROVE  OnTheWay(t, Append(s, d), Append(e, d))
<1> DEFINE r == Append(s, d)
           f == Append(e, d)
<1>1. /\ Len(f) = Len(e) + 1 /\ Len(e) \in Nat
      /\ \A i \in 1..Len(e) : f[i] = e[i]
      /\ f[Len(e) + 1] = d
  BY AppendProperties, LenProperties DEF Events
<1>2. /\ Len(r) = Len(s) + 1 /\ Len(s) \in Nat
      /\ \A i \in 1..Len(s) : r[i] = s[i]
      /\ r[Len(s) + 1] = d
  BY AppendProperties, LenProperties
<1>3. Len(t) \in Nat
  BY LenProperties
<1> HIDE DEF r, f
<1>4. PICK place \in [(Len(t) + 1)..Len(s) -> 1..Len(e)] :
        /\ \A k, l \in DOMAIN place : k < l => place[k] < place[l]
        /\ \A k \in DOMAIN place : e[place[k]] = s[k]
        /\ \A i \in 1..Len(e) : e[i] = "stage" \/ \E k \in DOMAIN place : place[k] = i
  BY DEF OnTheWay
<1>5. Len(t) <= Len(s) /\ \A k \in 1..Len(t) : t[k] = s[k]
  BY DEF OnTheWay
<1> DEFINE next == [k \in (Len(t) + 1)..Len(r) |-> IF k <= Len(s) THEN place[k] ELSE Len(e) + 1]
<1>6. next \in [(Len(t) + 1)..Len(r) -> 1..Len(f)]
  BY <1>1, <1>2, <1>3
<1>7. /\ DOMAIN next = (Len(t) + 1)..Len(r)
      /\ next[Len(s) + 1] = Len(e) + 1
      /\ \A k \in DOMAIN place : k \in DOMAIN next /\ next[k] = place[k]
      /\ \A k \in DOMAIN next : k \in DOMAIN place \/ k = Len(s) + 1
      /\ Len(s) + 1 \in DOMAIN next
  BY <1>1, <1>2, <1>3, <1>5
<1> HIDE DEF next
<1>8. \A k, l \in DOMAIN next : k < l => next[k] < next[l]
  <2> SUFFICES ASSUME NEW k \in DOMAIN next, NEW l \in DOMAIN next, k < l PROVE next[k] < next[l]
    OBVIOUS
  <2>1. k \in DOMAIN place
    BY <1>2, <1>3, <1>7
  <2>2. CASE l \in DOMAIN place
    BY <2>1, <2>2, <1>4, <1>7
  <2>3. CASE l = Len(s) + 1
    BY <2>1, <2>3, <1>1, <1>7
  <2> QED
    BY <2>2, <2>3, <1>7
<1>9. \A k \in DOMAIN next : f[next[k]] = r[k]
  <2> SUFFICES ASSUME NEW k \in DOMAIN next PROVE f[next[k]] = r[k]
    OBVIOUS
  <2>1. CASE k \in DOMAIN place
    <3>1. k \in 1..Len(s) /\ place[k] \in 1..Len(e)
      BY <2>1, <1>2, <1>3
    <3> QED
      BY <2>1, <3>1, <1>1, <1>2, <1>4, <1>7
  <2>2. CASE k = Len(s) + 1
    BY <2>2, <1>1, <1>2, <1>7
  <2> QED
    BY <2>1, <2>2, <1>7
<1>10. \A i \in 1..Len(f) : f[i] = "stage" \/ \E k \in DOMAIN next : next[k] = i
  <2> SUFFICES ASSUME NEW i \in 1..Len(f) PROVE f[i] = "stage" \/ \E k \in DOMAIN next : next[k] = i
    OBVIOUS
  <2>1. i \in 1..Len(e) \/ i = Len(e) + 1
    BY <1>1
  <2> QED
    BY <2>1, <1>1, <1>4, <1>7
<1>11. Len(t) <= Len(r) /\ \A k \in 1..Len(t) : t[k] = r[k]
  BY <1>2, <1>3, <1>5
<1>12. OnTheWay(t, r, f)
  BY <1>6, <1>8, <1>9, <1>10, <1>11 DEF OnTheWay
<1> QED
  BY <1>12 DEF r, f

\* With an empty queue, everything streamed has been taken.
LEMMA AllTaken ==
  ASSUME NEW t \in Seq(Words), NEW s \in Seq({"word", "blank"}), OnTheWay(t, s, <<>>)
  PROVE  t = s
<1>1. Len(t) \in Nat /\ Len(s) \in Nat /\ Len(<<>>) = 0
  BY LenProperties, EmptySeq
<1>2. PICK place \in [(Len(t) + 1)..Len(s) -> 1..0] : TRUE
  BY <1>1 DEF OnTheWay
<1>3. Len(t) <= Len(s) /\ \A k \in 1..Len(t) : t[k] = s[k]
  BY DEF OnTheWay
<1>4. Len(t) = Len(s)
  <2>1. SUFFICES ASSUME Len(t) < Len(s) PROVE FALSE
    BY <1>1, <1>3
  <2>2. Len(s) \in (Len(t) + 1)..Len(s)
    BY <2>1, <1>1
  <2>3. place[Len(s)] \in 1..0
    BY <2>2, <1>2
  <2> QED
    BY <2>3
<1>5. s \in Seq(Words)
  BY SeqMonotonic, {"word", "blank"} \subseteq Words DEF Words
<1> QED
  BY <1>3, <1>4, <1>5, SeqEqual

\* One who waits gets the token itself.
LEMMA TokenHanded ==
  ASSUME NEW t \in Seq(Words), NEW s \in Seq({"word", "blank"}), NEW d \in {"word", "blank"},
         OnTheWay(t, s, <<>>)
  PROVE  OnTheWay(Append(t, d), Append(s, d), <<>>)
<1>1. t = s
  BY AllTaken
<1>2. Append(s, d) \in Seq({"word", "blank"})
  BY AppendProperties
<1> QED
  BY <1>1, <1>2, NothingOnTheWay

\* A stage taken from the queue leaves the tokens where they are.
LEMMA StageTaken ==
  ASSUME NEW t \in Seq(Words), NEW s \in Seq({"word", "blank"}), NEW e \in Seq(Events),
         e # <<>>, Head(e) = "stage", OnTheWay(t, s, e)
  PROVE  OnTheWay(t, s, Tail(e))
<1> DEFINE f == Tail(e)
<1>1. /\ Len(f) = Len(e) - 1 /\ Len(e) \in Nat \ {0}
      /\ \A i \in 1..Len(f) : f[i] = e[i + 1]
      /\ e[1] = "stage"
  BY HeadTailProperties, LenProperties, EmptySeq
<1>2. Len(t) \in Nat /\ Len(s) \in Nat /\ \A k \in 1..Len(s) : s[k] # "stage"
  BY LenProperties, ElementOfSeq
<1> HIDE DEF f
<1>3. PICK place \in [(Len(t) + 1)..Len(s) -> 1..Len(e)] :
        /\ \A k, l \in DOMAIN place : k < l => place[k] < place[l]
        /\ \A k \in DOMAIN place : e[place[k]] = s[k]
        /\ \A i \in 1..Len(e) : e[i] = "stage" \/ \E k \in DOMAIN place : place[k] = i
  BY DEF OnTheWay
<1>4. \A k \in DOMAIN place : place[k] \in 2..Len(e)
  <2> SUFFICES ASSUME NEW k \in DOMAIN place PROVE place[k] \in 2..Len(e)
    OBVIOUS
  <2>1. k \in 1..Len(s) /\ place[k] \in 1..Len(e)
    BY <1>2
  <2>2. place[k] # 1
    BY <2>1, <1>1, <1>2, <1>3
  <2> QED
    BY <2>1, <2>2, <1>1
<1> DEFINE next == [k \in (Len(t) + 1)..Len(s) |-> place[k] - 1]
<1>5. next \in [(Len(t) + 1)..Len(s) -> 1..Len(f)]
  BY <1>1, <1>4
<1>6. /\ DOMAIN next = DOMAIN place
      /\ \A k \in DOMAIN place : next[k] = place[k] - 1
  OBVIOUS
<1> HIDE DEF next
<1>7. \A k, l \in DOMAIN next : k < l => next[k] < next[l]
  BY <1>3, <1>4, <1>6
<1>8. \A k \in DOMAIN next : f[next[k]] = s[k]
  <2> SUFFICES ASSUME NEW k \in DOMAIN place PROVE f[place[k] - 1] = s[k]
    BY <1>6
  <2>1. place[k] - 1 \in 1..Len(f) /\ (place[k] - 1) + 1 = place[k]
    BY <1>1, <1>4
  <2> QED
    BY <2>1, <1>1, <1>3
<1>9. \A i \in 1..Len(f) : f[i] = "stage" \/ \E k \in DOMAIN next : next[k] = i
  <2> SUFFICES ASSUME NEW i \in 1..Len(f), f[i] # "stage" PROVE \E k \in DOMAIN place : place[k] - 1 = i
    BY <1>6
  <2>1. i + 1 \in 1..Len(e) /\ f[i] = e[i + 1]
    BY <1>1
  <2>2. PICK k \in DOMAIN place : place[k] = i + 1
    BY <2>1, <1>3
  <2> QED
    BY <2>2
<1>10. OnTheWay(t, s, f)
  BY <1>5, <1>7, <1>8, <1>9 DEF OnTheWay
<1> QED
  BY <1>10 DEF f

\* A token taken from the queue is the next one of those streamed.
LEMMA TokenTaken ==
  ASSUME NEW t \in Seq(Words), NEW s \in Seq({"word", "blank"}), NEW e \in Seq(Events),
         e # <<>>, Head(e) # "stage", OnTheWay(t, s, e)
  PROVE  OnTheWay(Append(t, Head(e)), s, Tail(e))
<1> DEFINE f == Tail(e)
           u == Append(t, Head(e))
<1>1. /\ Len(f) = Len(e) - 1 /\ Len(e) \in Nat \ {0}
      /\ \A i \in 1..Len(f) : f[i] = e[i + 1]
      /\ Head(e) = e[1] /\ e[1] \in Words
  BY HeadTailProperties, LenProperties, EmptySeq, ElementOfSeq DEF Events, Words
<1>2. Len(t) \in Nat /\ Len(s) \in Nat
  BY LenProperties
<1>3. /\ Len(u) = Len(t) + 1
      /\ \A k \in 1..Len(t) : u[k] = t[k]
      /\ u[Len(t) + 1] = e[1]
  BY <1>1, AppendProperties
<1> HIDE DEF f, u
<1>4. PICK place \in [(Len(t) + 1)..Len(s) -> 1..Len(e)] :
        /\ \A k, l \in DOMAIN place : k < l => place[k] < place[l]
        /\ \A k \in DOMAIN place : e[place[k]] = s[k]
        /\ \A i \in 1..Len(e) : e[i] = "stage" \/ \E k \in DOMAIN place : place[k] = i
  BY DEF OnTheWay
<1>5. Len(t) <= Len(s) /\ \A k \in 1..Len(t) : t[k] = s[k]
  BY DEF OnTheWay
<1>6. PICK first \in DOMAIN place : place[first] = 1
  BY <1>1, <1>4
<1>7. Len(t) + 1 \in DOMAIN place /\ first = Len(t) + 1
  <2>1. first \in (Len(t) + 1)..Len(s) /\ Len(t) + 1 \in (Len(t) + 1)..Len(s)
    BY <1>2, <1>6
  <2>2. place[Len(t) + 1] \in 1..Len(e) /\ DOMAIN place = (Len(t) + 1)..Len(s)
    BY <2>1
  <2>3. Len(t) + 1 < first => place[Len(t) + 1] < place[first]
    BY <2>1, <2>2, <1>4
  <2>4. ~(place[Len(t) + 1] < place[first])
    BY <2>2, <1>1, <1>6
  <2> QED
    BY <2>1, <2>2, <2>3, <2>4, <1>2
<1>8. s[Len(t) + 1] = e[1]
  BY <1>4, <1>6, <1>7
<1>9. Len(u) <= Len(s) /\ \A k \in 1..Len(u) : u[k] = s[k]
  <2>1. Len(t) + 1 <= Len(s)
    BY <1>2, <1>7
  <2>2. \A k \in 1..Len(u) : k \in 1..Len(t) \/ k = Len(t) + 1
    BY <1>2, <1>3
  <2> QED
    BY <2>1, <2>2, <1>3, <1>5, <1>8
<1>10. \A k \in (Len(u) + 1)..Len(s) : k \in DOMAIN place /\ place[k] \in 2..Len(e)
  <2> SUFFICES ASSUME NEW k \in (Len(u) + 1)..Len(s) PROVE k \in DOMAIN place /\ place[k] \in 2..Len(e)
    OBVIOUS
  <2>1. k \in (Len(t) + 1)..Len(s) /\ first < k
    BY <1>2, <1>3, <1>7
  <2>2. place[k] \in 1..Len(e) /\ 1 < place[k]
    BY <2>1, <1>4, <1>6
  <2> QED
    BY <2>1, <2>2, <1>1
<1> DEFINE next == [k \in (Len(u) + 1)..Len(s) |-> place[k] - 1]
<1>11. next \in [(Len(u) + 1)..Len(s) -> 1..Len(f)]
  BY <1>1, <1>10
<1>12. /\ DOMAIN next = (Len(u) + 1)..Len(s)
       /\ \A k \in DOMAIN next : next[k] = place[k] - 1
  OBVIOUS
<1> HIDE DEF next
<1>13. \A k, l \in DOMAIN next : k < l => next[k] < next[l]
  BY <1>4, <1>10, <1>12
<1>14. \A k \in DOMAIN next : f[next[k]] = s[k]
  <2> SUFFICES ASSUME NEW k \in DOMAIN next PROVE f[place[k] - 1] = s[k]
    BY <1>12
  <2>1. k \in DOMAIN place /\ place[k] - 1 \in 1..Len(f) /\ (place[k] - 1) + 1 = place[k]
    BY <1>1, <1>10, <1>12
  <2> QED
    BY <2>1, <1>1, <1>4
<1>15. \A i \in 1..Len(f) : f[i] = "stage" \/ \E k \in DOMAIN next : next[k] = i
  <2> SUFFICES ASSUME NEW i \in 1..Len(f), f[i] # "stage" PROVE \E k \in DOMAIN next : next[k] = i
    OBVIOUS
  <2>1. i + 1 \in 1..Len(e) /\ f[i] = e[i + 1] /\ i + 1 # 1
    BY <1>1
  <2>2. PICK k \in DOMAIN place : place[k] = i + 1
    BY <2>1, <1>4
  <2>3. k # first
    BY <2>1, <2>2, <1>6
  <2>4. k \in DOMAIN next
    BY <2>3, <1>2, <1>3, <1>7, <1>12
  <2>5. next[k] = place[k] - 1
    BY <2>4, <1>12
  <2>6. (i + 1) - 1 = i
    BY <1>1
  <2> QED
    BY <2>2, <2>4, <2>5, <2>6
<1>16. OnTheWay(u, s, f)
  BY <1>9, <1>11, <1>13, <1>14, <1>15 DEF OnTheWay
<1> QED
  BY <1>16 DEF f, u
-----------------------------------------------------------------------------
(* The queue, its consumer and its order *)

\* The types of the two ends and their invariants.
EndsOK == HandOK /\ WaiterOK /\ NeverSleepsOver

\* Something is pushed while the pipeline runs: both ends stay in order, and
\* nothing but the hand of one who waits, or the end of the queue, changes.
LEMMA PushKeepsEnds ==
  ASSUME StreamTypeOK, EndsOK, NEW e \in Events, Push(e), UNCHANGED <<row, bubble, aborted>>
  PROVE  /\ queue' \in [events : Seq(Events), waiting : BOOLEAN, done : BOOLEAN, error : BOOLEAN]
         /\ gen' \in [pc : GenPcs, got : Events \cup {"none", "end"}, streamed : BOOLEAN,
                      text : Seq(Words)]
         /\ HandOK' /\ WaiterOK' /\ NeverSleepsOver'
         /\ gen'.pc = gen.pc /\ gen'.streamed = gen.streamed /\ gen'.text = gen.text
         /\ queue'.done = queue.done /\ queue'.error = queue.error
         /\ queue.done => queue'.events = queue.events
<1> DEFINE Q == [events : Seq(Events), waiting : BOOLEAN, done : BOOLEAN, error : BOOLEAN]
           G == [pc : GenPcs, got : Events \cup {"none", "end"}, streamed : BOOLEAN, text : Seq(Words)]
<1>1. queue \in Q /\ gen \in G
  BY DEF StreamTypeOK
<1>2. CASE queue.done
  <2>1. queue' = queue /\ gen' = gen
    BY <1>2 DEF Push
  <2> QED
    BY <1>1, <2>1 DEF EndsOK, HandOK, WaiterOK, NeverSleepsOver, GenAt
<1>3. CASE ~queue.done /\ queue.waiting
  <2>1. queue' = [queue EXCEPT !.waiting = FALSE] /\ gen' = [gen EXCEPT !.got = e]
    BY <1>3 DEF Push
  <2>2. /\ queue' \in Q /\ gen' \in G
        /\ queue'.events = queue.events /\ queue'.waiting = FALSE
        /\ queue'.done = queue.done /\ queue'.error = queue.error
        /\ gen'.got = e /\ gen'.pc = gen.pc /\ gen'.streamed = gen.streamed /\ gen'.text = gen.text
    BY <1>1, <2>1
  <2>3. gen.pc = "wait" /\ e \notin {"none", "end"}
    BY <1>3 DEF EndsOK, WaiterOK, GenAt, Events
  <2>4. HandOK' /\ WaiterOK' /\ NeverSleepsOver'
    BY <2>2, <2>3 DEF HandOK, WaiterOK, NeverSleepsOver, GenAt
  <2> QED
    BY <2>2, <2>4
<1>4. CASE ~queue.done /\ ~queue.waiting
  <2>1. queue' = [queue EXCEPT !.events = Append(@, e)] /\ gen' = gen
    BY <1>4 DEF Push
  <2>2. Append(queue.events, e) \in Seq(Events)
    BY <1>1, AppendProperties
  <2>3. /\ queue' \in Q
        /\ queue'.waiting = queue.waiting /\ queue'.done = queue.done /\ queue'.error = queue.error
    BY <1>1, <2>1, <2>2
  <2>4. ~(gen.pc = "wait" /\ gen.got = "none") /\ ~(gen.pc = "wait" /\ gen.got = "end")
    BY <1>4 DEF EndsOK, HandOK, NeverSleepsOver, GenAt
  <2>5. HandOK' /\ WaiterOK' /\ NeverSleepsOver'
    BY <1>4, <2>1, <2>3, <2>4 DEF EndsOK, HandOK, WaiterOK, NeverSleepsOver, GenAt
  <2> QED
    BY <1>1, <1>4, <2>1, <2>3, <2>5
<1> QED
  BY <1>2, <1>3, <1>4

\* Whose turn it is to take an event decides what is on the way.
Travelling == ~aborted /\ gen.pc \in {"pull", "wait", "yield", "await"}

\* A stage pushed leaves the tokens in their order.
LEMMA StagePushed ==
  ASSUME StreamTypeOK, EndsOK, InOrder, Push("stage"), UNCHANGED <<row, bubble, aborted>>,
         pipe'.streamed = pipe.streamed, queue.done => gen.pc = "left"
  PROVE  InOrder'
<1>1. /\ pipe.streamed \in Seq({"word", "blank"}) /\ queue.events \in Seq(Events)
      /\ bubble \in Seq(Words) /\ bubble' = bubble /\ aborted' = aborted
      /\ gen.got \in Events \cup {"none", "end"}
      /\ queue \in [events : Seq(Events), waiting : BOOLEAN, done : BOOLEAN, error : BOOLEAN]
      /\ gen \in [pc : GenPcs, got : Events \cup {"none", "end"}, streamed : BOOLEAN, text : Seq(Words)]
  BY DEF StreamTypeOK
<1>2. gen'.pc = gen.pc
  BY PushKeepsEnds DEF Events
<1>3. SUFFICES ASSUME ~aborted, gen.pc \in {"pull", "wait", "yield", "await"}
      PROVE  OnTheWay(Received', pipe'.streamed, queue'.events)
  BY <1>1, <1>2 DEF InOrder
<1>4. ~queue.done /\ OnTheWay(Received, pipe.streamed, queue.events)
  BY <1>3 DEF InOrder
<1>5. Received \in Seq(Words)
  BY <1>1, AppendProperties DEF Received, Words
<1>6. CASE queue.waiting
  <2>1. queue'.events = queue.events /\ gen'.got = "stage" /\ gen.got = "none"
    BY <1>1, <1>4, <1>6 DEF Push, EndsOK, WaiterOK
  <2>2. Received' = Received
    BY <1>1, <2>1 DEF Received
  <2> QED
    BY <1>4, <2>1, <2>2
<1>7. CASE ~queue.waiting
  <2>1. queue'.events = Append(queue.events, "stage") /\ gen' = gen
    BY <1>1, <1>4, <1>7 DEF Push
  <2>2. Received' = Received
    BY <1>1, <2>1 DEF Received
  <2> QED
    BY <1>1, <1>4, <1>5, <2>1, <2>2, StageQueued
<1> QED
  BY <1>6, <1>7

\* A token streamed and pushed comes after all the others.
LEMMA TokenPushed ==
  ASSUME StreamTypeOK, EndsOK, InOrder, NEW d \in {"word", "blank"}, Push(d),
         UNCHANGED <<row, bubble, aborted>>,
         pipe'.streamed = Append(pipe.streamed, d), queue.done => gen.pc = "left"
  PROVE  InOrder'
<1>1. /\ pipe.streamed \in Seq({"word", "blank"}) /\ queue.events \in Seq(Events)
      /\ bubble \in Seq(Words) /\ bubble' = bubble /\ aborted' = aborted
      /\ gen.got \in Events \cup {"none", "end"}
      /\ queue \in [events : Seq(Events), waiting : BOOLEAN, done : BOOLEAN, error : BOOLEAN]
      /\ gen \in [pc : GenPcs, got : Events \cup {"none", "end"}, streamed : BOOLEAN, text : Seq(Words)]
  BY DEF StreamTypeOK
<1>2. gen'.pc = gen.pc
  BY PushKeepsEnds DEF Events
<1>3. SUFFICES ASSUME ~aborted, gen.pc \in {"pull", "wait", "yield", "await"}
      PROVE  OnTheWay(Received', pipe'.streamed, queue'.events)
  BY <1>1, <1>2 DEF InOrder
<1>4. ~queue.done /\ OnTheWay(Received, pipe.streamed, queue.events)
  BY <1>3 DEF InOrder
<1>5. Received \in Seq(Words)
  BY <1>1, AppendProperties DEF Received, Words
<1>6. CASE queue.waiting
  <2>1. queue'.events = <<>> /\ queue.events = <<>> /\ gen'.got = d /\ gen.got = "none"
    BY <1>1, <1>4, <1>6 DEF Push, EndsOK, WaiterOK
  <2>2. Received = bubble /\ Received' = Append(bubble, d)
    BY <1>1, <2>1 DEF Received
  <2> QED
    BY <1>1, <1>4, <2>1, <2>2, TokenHanded
<1>7. CASE ~queue.waiting
  <2>1. queue'.events = Append(queue.events, d) /\ gen' = gen
    BY <1>1, <1>4, <1>7 DEF Push
  <2>2. Received' = Received
    BY <1>1, <2>1 DEF Received
  <2> QED
    BY <1>1, <1>4, <1>5, <2>1, <2>2, TokenQueued
<1> QED
  BY <1>6, <1>7
-----------------------------------------------------------------------------
(* The pipeline's steps *)

QueueType == [events : Seq(Events), waiting : BOOLEAN, done : BOOLEAN, error : BOOLEAN]
GenType == [pc : GenPcs, got : Events \cup {"none", "end"}, streamed : BOOLEAN, text : Seq(Words)]
PipeType == [pc : PipePcs, streamed : Seq({"word", "blank"}), answer : Seq(Words)]

LEMMA Fields ==
  StreamTypeOK <=>
    /\ pipe \in PipeType /\ queue \in QueueType /\ gen \in GenType
    /\ row \in Seq(Words) /\ bubble \in Seq(Words) /\ aborted \in BOOLEAN
BY DEF StreamTypeOK, PipeType, QueueType, GenType

Running == pipe.pc \in {"cache", "guard", "research", "analyst", "writer", "keep"}

\* While the pipeline runs, the generator takes its events or has left.
LEMMA WhileRunning ==
  ASSUME StreamIInv, Running
  PROVE  /\ gen.pc \in {"pull", "wait", "yield", "left"}
         /\ queue.done => gen.pc = "left"
         /\ queue.error => gen.pc = "left"
<1>1. gen.pc \in GenPcs
  BY Fields DEF StreamIInv, GenType
<1> QED
  BY <1>1 DEF StreamIInv, FreshStart, EndOK, Settled, Running, GenAt, PipeAt, GenPcs

\* A step of the running pipeline that has kept the ends and the order has kept
\* everything.
LEMMA RunningKeeps ==
  ASSUME StreamIInv, Running, pipe' \in PipeType, pipe'.pc # "idle", AnswerOK',
         queue' \in QueueType, gen' \in GenType, UNCHANGED <<row, bubble, aborted>>,
         HandOK', WaiterOK', NeverSleepsOver', InOrder',
         gen'.pc = gen.pc, gen'.streamed = gen.streamed,
         queue'.done = queue.done, queue'.error = queue.error
  PROVE  StreamIInv'
<1>1. /\ gen'.pc \in {"pull", "wait", "yield", "left"}
      /\ queue'.done => gen'.pc = "left"
      /\ queue'.error => gen'.pc = "left"
  BY WhileRunning
<1>2. StreamTypeOK'
  BY DEF StreamIInv, StreamTypeOK, PipeType, QueueType, GenType
<1>3. FreshStart' /\ EndOK'
  BY <1>1 DEF FreshStart, EndOK, GenAt, PipeAt
<1>4. BubbleOK'
  BY <1>1 DEF StreamIInv, BubbleOK, GenAt
<1> QED
  BY <1>2, <1>3, <1>4 DEF StreamIInv

\* A stage announced.
LEMMA AnnouncedKeeps ==
  ASSUME StreamIInv, Running, Push("stage"), UNCHANGED <<row, bubble, aborted>>,
         pipe' \in PipeType, pipe'.pc # "idle", pipe'.streamed = pipe.streamed, AnswerOK'
  PROVE  StreamIInv'
<1>1. StreamTypeOK /\ EndsOK /\ InOrder
  BY DEF StreamIInv, EndsOK
<1>2. "stage" \in Events
  BY DEF Events
<1>3. InOrder'
  BY <1>1, StagePushed, WhileRunning
<1>4. /\ queue' \in QueueType /\ gen' \in GenType /\ HandOK' /\ WaiterOK' /\ NeverSleepsOver'
      /\ gen'.pc = gen.pc /\ gen'.streamed = gen.streamed
      /\ queue'.done = queue.done /\ queue'.error = queue.error
  BY <1>1, <1>2, PushKeepsEnds DEF QueueType, GenType
<1> QED
  BY <1>3, <1>4, RunningKeeps

\* Nothing but the pipeline moves.
LEMMA SilentKeeps ==
  ASSUME StreamIInv, Running, UNCHANGED <<queue, gen, row, bubble, aborted>>,
         pipe' \in PipeType, pipe'.pc # "idle", pipe'.streamed = pipe.streamed, AnswerOK'
  PROVE  StreamIInv'
<1>1. queue' \in QueueType /\ gen' \in GenType
  BY Fields DEF StreamIInv
<1>2. HandOK' /\ WaiterOK' /\ NeverSleepsOver'
  BY DEF StreamIInv, HandOK, WaiterOK, NeverSleepsOver, GenAt
<1>3. InOrder'
  BY DEF StreamIInv, InOrder, Received
<1> QED
  BY <1>1, <1>2, <1>3, RunningKeeps

\* CacheHit, CacheMiss, OutOfDomain, InDomain, Researched, Analysed, Throws.
LEMMA BeforeWriterKeeps ==
  ASSUME StreamIInv,
         \/ CacheHit \/ CacheMiss \/ OutOfDomain \/ InDomain
         \/ Researched \/ Analysed \/ Throws
  PROVE  StreamIInv'
<1>1. /\ Running /\ pipe.streamed = <<>>
      /\ pipe \in PipeType
  BY Fields DEF StreamIInv, AnswerOK, Running, PipeAt, CacheHit, CacheMiss, OutOfDomain, InDomain,
                Researched, Analysed, Throws
<1>2. UNCHANGED <<row, bubble, aborted>>
  BY DEF NotShown, CacheHit, CacheMiss, OutOfDomain, InDomain, Researched, Analysed, Throws
<1>3. <<"cached">> \in Seq(Words) /\ <<"refusal">> \in Seq(Words)
  BY DEF Words
<1>4. /\ pipe' \in PipeType /\ pipe'.pc # "idle" /\ pipe'.streamed = pipe.streamed
      /\ pipe'.pc \in {"guard", "research", "analyst", "writer", "returned", "threw"}
  BY <1>1, <1>3 DEF PipeType, PipePcs, PipeGoto, Answers, CacheHit, CacheMiss, OutOfDomain, InDomain,
                    Researched, Analysed, Throws
<1>5. AnswerOK'
  BY <1>1, <1>4 DEF AnswerOK
<1>6. CASE CacheHit \/ Throws
  BY <1>1, <1>2, <1>4, <1>5, <1>6, SilentKeeps DEF CacheHit, Throws, Silent
<1>7. CASE CacheMiss \/ OutOfDomain \/ InDomain \/ Researched \/ Analysed
  <2>1. Push("stage")
    BY <1>7 DEF CacheMiss, OutOfDomain, InDomain, Researched, Analysed
  <2> QED
    BY <1>1, <1>2, <1>4, <1>5, <2>1, AnnouncedKeeps
<1> QED
  BY <1>6, <1>7

\* The writer streams a piece.
LEMMA StreamKeeps ==
  ASSUME StreamIInv, NEW d \in {"word", "blank"}, Stream(d)
  PROVE  StreamIInv'
<1>1. Running /\ pipe \in PipeType /\ pipe.pc = "writer"
  BY Fields DEF StreamIInv, Running, PipeAt, Stream
<1>2. /\ Push(d) /\ UNCHANGED <<row, bubble, aborted>>
      /\ pipe' = [pipe EXCEPT !.streamed = Append(pipe.streamed, d)]
  BY DEF Stream, NotShown
<1>3. Append(pipe.streamed, d) \in Seq({"word", "blank"})
  BY <1>1, AppendProperties DEF PipeType
<1>4. /\ pipe' \in PipeType /\ pipe'.pc = "writer"
      /\ pipe'.streamed = Append(pipe.streamed, d)
  BY <1>1, <1>2, <1>3 DEF PipeType
<1>5. AnswerOK'
  BY <1>4 DEF AnswerOK
<1>6. StreamTypeOK /\ EndsOK /\ InOrder
  BY DEF StreamIInv, EndsOK
<1>7. d \in Events
  BY DEF Events
<1>8. InOrder'
  BY <1>1, <1>2, <1>4, <1>6, TokenPushed, WhileRunning
<1>9. /\ queue' \in QueueType /\ gen' \in GenType /\ HandOK' /\ WaiterOK' /\ NeverSleepsOver'
      /\ gen'.pc = gen.pc /\ gen'.streamed = gen.streamed
      /\ queue'.done = queue.done /\ queue'.error = queue.error
  BY <1>2, <1>6, <1>7, PushKeepsEnds DEF QueueType, GenType
<1> QED
  BY <1>1, <1>2, <1>4, <1>5, <1>8, <1>9, RunningKeeps

\* The writer ends, and the answer is kept.
LEMMA WrittenKeeps ==
  ASSUME StreamIInv, Written \/ Keep
  PROVE  StreamIInv'
<1>1. Running /\ pipe \in PipeType /\ UNCHANGED <<row, bubble, aborted>>
  BY Fields DEF StreamIInv, Running, PipeAt, Written, Keep, NotShown
<1>2. CASE Written
  <2> DEFINE text == IF Visible(pipe.streamed) # <<>> THEN pipe.streamed ELSE <<"summary">>
  <2>1. /\ pipe' = [pipe EXCEPT !.pc = "keep", !.answer = text]
        /\ Push("stage")
    BY <1>2 DEF Written
  <2>2. text \in Seq(Words)
    <3>1. pipe.streamed \in Seq({"word", "blank"}) /\ {"word", "blank"} \subseteq Words
      BY <1>1 DEF PipeType, Words
    <3>2. pipe.streamed \in Seq(Words)
      BY <3>1, SeqMonotonic
    <3>3. <<"summary">> \in Seq(Words)
      BY DEF Words
    <3> QED
      BY <3>2, <3>3
  <2>3. text = pipe.streamed \/ Visible(pipe.streamed) = <<>>
    OBVIOUS
  <2> HIDE DEF text
  <2>4. /\ pipe' \in PipeType /\ pipe'.pc = "keep" /\ pipe'.streamed = pipe.streamed
        /\ pipe'.answer = text
    BY <1>1, <2>1, <2>2 DEF PipeType, PipePcs
  <2>5. AnswerOK'
    BY <2>3, <2>4 DEF AnswerOK, OnlyBlanks
  <2> QED
    BY <1>1, <2>1, <2>4, <2>5, AnnouncedKeeps
<1>3. CASE Keep
  <2>1. /\ pipe' = [pipe EXCEPT !.pc = "returned"] /\ pipe.pc = "keep"
        /\ UNCHANGED <<queue, gen>>
    BY <1>3 DEF Keep, PipeGoto, PipeAt, Silent
  <2>2. /\ pipe' \in PipeType /\ pipe'.pc = "returned" /\ pipe'.streamed = pipe.streamed
        /\ pipe'.answer = pipe.answer
    BY <1>1, <2>1 DEF PipeType, PipePcs
  <2>3. AnswerOK'
    BY <2>1, <2>2 DEF StreamIInv, AnswerOK, OnlyBlanks
  <2> QED
    BY <1>1, <2>1, <2>2, <2>3, SilentKeeps
<1> QED
  BY <1>2, <1>3

\* The queue is closed after its pipeline.
LEMMA CloseKeeps ==
  ASSUME StreamIInv, CloseQueue
  PROVE  StreamIInv'
<1>1. /\ UNCHANGED <<pipe, row, bubble, aborted>> /\ Settled /\ ~queue.done
      /\ queue' = [queue EXCEPT !.done = TRUE, !.error = (pipe.pc = "threw"), !.waiting = FALSE]
      /\ gen' = IF queue.waiting THEN [gen EXCEPT !.got = "end"] ELSE gen
  BY DEF CloseQueue, Finish, NotShown, Settled, PipeAt
<1>2. pipe \in PipeType /\ queue \in QueueType /\ gen \in GenType
  BY Fields DEF StreamIInv
<1>3. /\ queue' \in QueueType /\ queue'.done /\ ~queue'.waiting
      /\ queue'.error = (pipe.pc = "threw") /\ queue'.events = queue.events
  BY <1>1, <1>2 DEF QueueType
<1>4. /\ gen' \in GenType /\ gen'.pc = gen.pc /\ gen'.streamed = gen.streamed /\ gen'.text = gen.text
      /\ gen'.got = IF queue.waiting THEN "end" ELSE gen.got
  BY <1>1, <1>2 DEF GenType
<1>5. /\ gen.pc # "start" /\ gen.pc # "await"
      /\ queue.waiting => gen.pc = "wait" /\ gen.got = "none" /\ queue.events = <<>>
      /\ ~queue.waiting => ~(gen.pc = "wait" /\ gen.got = "none")
  BY <1>1 DEF StreamIInv, FreshStart, EndOK, WaiterOK, NeverSleepsOver, Settled, GenAt, PipeAt
<1>6. StreamTypeOK'
  BY <1>1, <1>3, <1>4 DEF StreamIInv, StreamTypeOK, QueueType, GenType
<1>7. HandOK' /\ WaiterOK' /\ NeverSleepsOver' /\ FreshStart'
  BY <1>1, <1>3, <1>4, <1>5 DEF StreamIInv, HandOK, WaiterOK, NeverSleepsOver, FreshStart, GenAt
<1>8. EndOK' /\ AnswerOK'
  BY <1>1, <1>3, <1>4, <1>5 DEF StreamIInv, EndOK, AnswerOK, Settled, OnlyBlanks, GenAt, PipeAt
<1>9. InOrder'
  <2>1. Received' = Received
    BY <1>1, <1>4, <1>5 DEF Received
  <2> QED
    BY <1>1, <1>3, <1>4, <2>1 DEF StreamIInv, InOrder
<1>10. BubbleOK'
  BY <1>1, <1>4 DEF StreamIInv, BubbleOK, OnlyBlanks, GenAt
<1> QED
  BY <1>6, <1>7, <1>8, <1>9, <1>10 DEF StreamIInv

LEMMA PipeStepKeeps ==
  ASSUME StreamIInv, PipeStep
  PROVE  StreamIInv'
BY BeforeWriterKeeps, StreamKeeps, WrittenKeeps, CloseKeeps DEF PipeStep
-----------------------------------------------------------------------------
(* The generator's steps *)

\* What a step of the generator leaves to show, when the pipeline stands still and
\* the turn has begun.
LEMMA GenKeeps ==
  ASSUME StreamIInv, UNCHANGED pipe, gen' \in GenType, queue' \in QueueType,
         row' \in Seq(Words), bubble' \in Seq(Words), aborted' \in BOOLEAN,
         gen'.pc # "start", HandOK', WaiterOK', NeverSleepsOver', EndOK', InOrder', BubbleOK'
  PROVE  StreamIInv'
<1>1. StreamTypeOK'
  BY Fields DEF StreamIInv, StreamTypeOK, PipeType, QueueType, GenType
<1>2. FreshStart' /\ AnswerOK'
  BY DEF StreamIInv, FreshStart, AnswerOK, OnlyBlanks, GenAt
<1> QED
  BY <1>1, <1>2 DEF StreamIInv

\* A step of the generator after the stream: the queue is over, or was never used.
LEMMA AfterwardsKeeps ==
  ASSUME StreamIInv, UNCHANGED <<pipe, queue>>, gen' \in GenType,
         row' \in Seq(Words), bubble' \in Seq(Words), aborted' \in BOOLEAN,
         gen'.pc \in {"catch", "status", "persist", "tokens", "done", "fail", "end", "left"},
         gen'.got = "none", PipeAt("idle") \/ Settled, gen.pc \notin {"wait", "left"}, BubbleOK'
  PROVE  StreamIInv'
<1>1. queue' \in QueueType
  BY Fields DEF StreamIInv
<1>2. HandOK' /\ WaiterOK' /\ NeverSleepsOver'
  BY DEF StreamIInv, HandOK, WaiterOK, NeverSleepsOver, GenAt
<1>3. EndOK'
  BY DEF StreamIInv, EndOK, Settled, GenAt, PipeAt
<1>4. InOrder'
  BY DEF InOrder
<1> QED
  BY <1>1, <1>2, <1>3, <1>4, GenKeeps

\* The pipeline of the turn is picked.
LEMMA BeginningKeeps ==
  ASSUME StreamIInv, NEW text \in Seq(Words), RunAgentic \/ RunStandard(text) \/ StandardThrows
  PROVE  StreamIInv'
<1>1. /\ pipe \in PipeType /\ queue \in QueueType /\ gen \in GenType
      /\ row \in Seq(Words) /\ bubble \in Seq(Words) /\ aborted \in BOOLEAN
  BY Fields DEF StreamIInv
<1>2. /\ gen.pc = "start" /\ pipe.pc = "idle" /\ pipe.streamed = <<>> /\ bubble = <<>>
      /\ queue.events = <<>> /\ ~queue.waiting /\ ~queue.done /\ ~gen.streamed
      /\ gen.got = "none" /\ ~queue.error
      /\ UNCHANGED <<queue, row, bubble, aborted>>
  BY DEF StreamIInv, FreshStart, HandOK, EndOK, GenAt, PipeAt, RunAgentic, RunStandard, StandardThrows,
         NotShown
<1>3. CASE RunAgentic
  <2>1. gen' = [gen EXCEPT !.pc = "pull"] /\ pipe' = [pipe EXCEPT !.pc = "cache"]
    BY <1>3 DEF RunAgentic, GenGoto, PipeGoto
  <2>2. /\ gen' \in GenType /\ gen'.pc = "pull" /\ gen'.got = "none" /\ ~gen'.streamed
        /\ pipe' \in PipeType /\ pipe'.pc = "cache" /\ pipe'.streamed = <<>>
    BY <1>1, <1>2, <2>1 DEF GenType, GenPcs, PipeType, PipePcs
  <2>3. StreamTypeOK'
    BY <1>1, <1>2, <2>2 DEF StreamTypeOK, PipeType, QueueType, GenType
  <2>4. /\ FreshStart' /\ HandOK' /\ WaiterOK' /\ EndOK' /\ AnswerOK' /\ NeverSleepsOver' /\ BubbleOK'
    BY <1>2, <2>2 DEF FreshStart, HandOK, WaiterOK, EndOK, AnswerOK, NeverSleepsOver, BubbleOK, GenAt,
                      PipeAt
  <2>5. InOrder'
    <3>1. Received' = <<>> /\ pipe'.streamed = <<>> /\ queue'.events = <<>>
      BY <1>2, <2>2 DEF Received
    <3>2. OnTheWay(<<>>, <<>>, <<>>)
      BY NothingOnTheWay, EmptySeq
    <3> QED
      BY <3>1, <3>2 DEF InOrder
  <2> QED
    BY <2>3, <2>4, <2>5 DEF StreamIInv
<1>4. CASE RunStandard(text) \/ StandardThrows
  <2>1. /\ pipe' = pipe
        /\ gen' = [gen EXCEPT !.pc = "status", !.text = text] \/ gen' = [gen EXCEPT !.pc = "catch"]
    BY <1>4 DEF RunStandard, StandardThrows, GenGoto
  <2>2. /\ gen' \in GenType /\ gen'.pc \in {"status", "catch"} /\ gen'.got = "none" /\ ~gen'.streamed
    BY <1>1, <1>2, <2>1 DEF GenType, GenPcs
  <2>3. BubbleOK'
    BY <1>2, <2>2 DEF BubbleOK, GenAt
  <2> QED
    BY <1>1, <1>2, <2>1, <2>2, <2>3, AfterwardsKeeps DEF PipeAt
<1> QED
  BY <1>3, <1>4

\* next()
LEMMA PullKeeps ==
  ASSUME StreamIInv, Pull
  PROVE  StreamIInv'
<1>1. /\ pipe \in PipeType /\ queue \in QueueType /\ gen \in GenType
      /\ row \in Seq(Words) /\ bubble \in Seq(Words) /\ aborted \in BOOLEAN
  BY Fields DEF StreamIInv
<1>2. /\ gen.pc = "pull" /\ gen.got = "none" /\ ~queue.waiting
      /\ UNCHANGED <<pipe, row, bubble, aborted>>
      /\ queue.done => Settled
      /\ queue.error => pipe.pc = "threw"
      /\ Received = bubble
      /\ ~aborted => OnTheWay(bubble, pipe.streamed, queue.events)
  BY DEF StreamIInv, Pull, NotShown, HandOK, WaiterOK, EndOK, InOrder, Received, GenAt, PipeAt
<1>3. ~aborted => (gen.streamed <=> bubble # <<>>)
  BY <1>2 DEF StreamIInv, BubbleOK
<1>4. pipe.streamed \in Seq({"word", "blank"}) /\ queue.events \in Seq(Events)
  BY <1>1 DEF PipeType, QueueType
<1>5. CASE queue.events # <<>>
  <2>1. /\ queue' = [queue EXCEPT !.events = Tail(queue.events)]
        /\ gen' = [gen EXCEPT !.pc = "yield", !.got = Head(queue.events)]
    BY <1>5 DEF Pull
  <2>2. Head(queue.events) \in Events /\ Tail(queue.events) \in Seq(Events)
    BY <1>4, <1>5, HeadTailProperties
  <2>3. /\ queue' \in QueueType /\ queue'.waiting = queue.waiting
        /\ queue'.done = queue.done /\ queue'.error = queue.error
        /\ queue'.events = Tail(queue.events)
    BY <1>1, <2>1, <2>2 DEF QueueType
  <2>4. /\ gen' \in GenType /\ gen'.pc = "yield" /\ gen'.got = Head(queue.events)
        /\ gen'.streamed = gen.streamed
    BY <1>1, <2>1, <2>2 DEF GenType, GenPcs
  <2>5. InOrder'
    <3>1. CASE Head(queue.events) = "stage"
      <4>1. Received' = bubble
        BY <1>2, <2>4, <3>1 DEF Received
      <4> QED
        BY <1>1, <1>2, <1>4, <1>5, <2>3, <3>1, <4>1, StageTaken DEF InOrder
    <3>2. CASE Head(queue.events) # "stage"
      <4>1. Received' = Append(bubble, Head(queue.events))
        BY <1>2, <2>2, <2>4, <3>2 DEF Received, Events
      <4> QED
        BY <1>1, <1>2, <1>4, <1>5, <2>3, <3>2, <4>1, TokenTaken DEF InOrder
    <3> QED
      BY <3>1, <3>2
  <2>6. HandOK' /\ WaiterOK' /\ NeverSleepsOver'
    BY <1>2, <2>2, <2>3, <2>4 DEF HandOK, WaiterOK, NeverSleepsOver, GenAt
  <2>7. EndOK' /\ BubbleOK'
    BY <1>2, <1>3, <2>3, <2>4 DEF EndOK, Settled, BubbleOK, GenAt, PipeAt
  <2> QED
    BY <1>1, <1>2, <2>3, <2>4, <2>5, <2>6, <2>7, GenKeeps
<1>6. CASE queue.events = <<>> /\ queue.done
  <2>1. queue' = queue /\ gen' = [gen EXCEPT !.pc = IF queue.error THEN "catch" ELSE "await"]
    BY <1>6 DEF Pull, GenGoto
  <2>2. /\ gen' \in GenType /\ gen'.pc = (IF queue.error THEN "catch" ELSE "await")
        /\ gen'.got = "none" /\ gen'.streamed = gen.streamed
    BY <1>1, <1>2, <2>1 DEF GenType, GenPcs
  <2>3. InOrder'
    <3>1. Received' = bubble
      BY <1>2, <2>2 DEF Received
    <3> QED
      BY <1>2, <2>1, <3>1 DEF InOrder
  <2>4. HandOK' /\ WaiterOK' /\ NeverSleepsOver'
    BY <1>2, <2>1, <2>2 DEF HandOK, WaiterOK, NeverSleepsOver, GenAt
  <2>5. EndOK' /\ BubbleOK'
    BY <1>2, <1>3, <1>6, <2>1, <2>2 DEF EndOK, Settled, BubbleOK, GenAt, PipeAt
  <2> QED
    BY <1>1, <1>2, <2>1, <2>2, <2>3, <2>4, <2>5, GenKeeps
<1>7. CASE queue.events = <<>> /\ ~queue.done
  <2>1. queue' = [queue EXCEPT !.waiting = TRUE] /\ gen' = [gen EXCEPT !.pc = "wait"]
    BY <1>7 DEF Pull, GenGoto
  <2>2. /\ gen' \in GenType /\ gen'.pc = "wait" /\ gen'.got = "none" /\ gen'.streamed = gen.streamed
    BY <1>1, <1>2, <2>1 DEF GenType, GenPcs
  <2>3. /\ queue' \in QueueType /\ queue'.waiting /\ queue'.events = <<>> /\ ~queue'.done
        /\ queue'.error = queue.error
    BY <1>1, <1>7, <2>1 DEF QueueType
  <2>4. InOrder'
    <3>1. Received' = bubble
      BY <1>2, <2>2 DEF Received
    <3> QED
      BY <1>2, <1>7, <2>3, <3>1 DEF InOrder
  <2>5. HandOK' /\ WaiterOK' /\ NeverSleepsOver'
    BY <2>2, <2>3 DEF HandOK, WaiterOK, NeverSleepsOver, GenAt
  <2>6. EndOK' /\ BubbleOK'
    BY <1>2, <1>3, <2>2, <2>3 DEF EndOK, Settled, BubbleOK, GenAt, PipeAt
  <2> QED
    BY <1>1, <1>2, <2>2, <2>3, <2>4, <2>5, <2>6, GenKeeps
<1> QED
  BY <1>5, <1>6, <1>7

\* Who waited is woken.
LEMMA WokenKeeps ==
  ASSUME StreamIInv, Woken
  PROVE  StreamIInv'
<1>1. /\ pipe \in PipeType /\ queue \in QueueType /\ gen \in GenType
      /\ row \in Seq(Words) /\ bubble \in Seq(Words) /\ aborted \in BOOLEAN
  BY Fields DEF StreamIInv
<1>2. /\ gen.pc = "wait" /\ gen.got # "none" /\ UNCHANGED <<pipe, queue, row, bubble, aborted>>
      /\ gen' = IF gen.got = "end" THEN [gen EXCEPT !.pc = "await", !.got = "none"]
                ELSE [gen EXCEPT !.pc = "yield"]
  BY DEF Woken, NotShown, GenAt
<1>3. /\ ~queue.waiting
      /\ gen.got = "end" => queue.done /\ queue.events = <<>>
      /\ queue.done => Settled
      /\ queue.error => pipe.pc = "threw"
      /\ ~aborted => (gen.streamed <=> bubble # <<>>)
  BY <1>2 DEF StreamIInv, WaiterOK, HandOK, EndOK, BubbleOK, GenAt, PipeAt
<1>4. /\ gen' \in GenType /\ gen'.streamed = gen.streamed
      /\ gen'.pc = IF gen.got = "end" THEN "await" ELSE "yield"
      /\ gen'.got = IF gen.got = "end" THEN "none" ELSE gen.got
      /\ gen.got = "end" \/ gen.got \in Events
  BY <1>1, <1>2 DEF GenType, GenPcs
<1>5. InOrder'
  <2>1. Received' = Received
    BY <1>2, <1>4 DEF Received
  <2> QED
    BY <1>2, <2>1 DEF StreamIInv, InOrder
<1>6. HandOK' /\ WaiterOK' /\ NeverSleepsOver'
  BY <1>2, <1>3, <1>4 DEF HandOK, WaiterOK, NeverSleepsOver, GenAt
<1>7. EndOK' /\ BubbleOK'
  BY <1>2, <1>3, <1>4 DEF EndOK, Settled, BubbleOK, GenAt, PipeAt
<1> QED
  BY <1>1, <1>2, <1>4, <1>5, <1>6, <1>7, GenKeeps

\* An event reaches the client.
LEMMA YieldKeeps ==
  ASSUME StreamIInv, Yield
  PROVE  StreamIInv'
<1>1. /\ pipe \in PipeType /\ queue \in QueueType /\ gen \in GenType
      /\ row \in Seq(Words) /\ bubble \in Seq(Words) /\ aborted \in BOOLEAN
  BY Fields DEF StreamIInv
<1>2. /\ gen.pc = "yield" /\ ~aborted /\ UNCHANGED <<pipe, queue, row, aborted>>
      /\ gen' = [gen EXCEPT !.pc = "pull", !.got = "none", !.streamed = @ \/ gen.got # "stage"]
      /\ bubble' = bubble \o (IF gen.got = "stage" THEN <<>> ELSE <<gen.got>>)
  BY DEF Yield, Show, GenAt
<1>3. /\ gen.got \in Events
      /\ ~queue.waiting
      /\ queue.done => Settled
      /\ queue.error => pipe.pc = "threw"
      /\ gen.streamed <=> bubble # <<>>
      /\ OnTheWay(Received, pipe.streamed, queue.events)
  BY <1>2 DEF StreamIInv, WaiterOK, HandOK, EndOK, BubbleOK, InOrder, GenAt, PipeAt
<1>4. /\ gen' \in GenType /\ gen'.pc = "pull" /\ gen'.got = "none"
      /\ gen'.streamed <=> gen.streamed \/ gen.got # "stage"
  BY <1>1, <1>2 DEF GenType, GenPcs
<1>5. /\ bubble' = Received /\ bubble' \in Seq(Words)
      /\ bubble' # <<>> <=> bubble # <<>> \/ gen.got # "stage"
  <2>1. CASE gen.got = "stage"
    BY <1>1, <1>2, <2>1, ConcatEmptySeq DEF Received
  <2>2. CASE gen.got \in {"word", "blank"}
    <3>1. bubble \o <<gen.got>> = Append(bubble, gen.got)
      BY <1>1, <2>2, AppendIsConcat DEF Words
    <3>2. Append(bubble, gen.got) \in Seq(Words) /\ Append(bubble, gen.got) # <<>>
      BY <1>1, <2>2, AppendProperties DEF Words
    <3> QED
      BY <1>2, <2>2, <3>1, <3>2 DEF Received
  <2> QED
    BY <1>3, <2>1, <2>2 DEF Events
<1>6. InOrder'
  <2>1. Received' = Received
    BY <1>4, <1>5 DEF Received
  <2> QED
    BY <1>2, <1>3, <2>1 DEF InOrder
<1>7. HandOK' /\ WaiterOK' /\ NeverSleepsOver'
  BY <1>2, <1>3, <1>4 DEF HandOK, WaiterOK, NeverSleepsOver, GenAt
<1>8. EndOK' /\ BubbleOK'
  BY <1>2, <1>3, <1>4, <1>5 DEF EndOK, Settled, BubbleOK, GenAt, PipeAt
<1> QED
  BY <1>1, <1>2, <1>4, <1>5, <1>6, <1>7, <1>8, GenKeeps

\* The stream route sees the abort.
LEMMA LeaveKeeps ==
  ASSUME StreamIInv, Leave
  PROVE  StreamIInv'
<1>1. /\ pipe \in PipeType /\ queue \in QueueType /\ gen \in GenType
      /\ row \in Seq(Words) /\ bubble \in Seq(Words) /\ aborted \in BOOLEAN
  BY Fields DEF StreamIInv
<1>2. /\ gen.pc = "yield" /\ aborted /\ ~queue.waiting /\ UNCHANGED <<pipe, row, bubble, aborted>>
      /\ gen' = [gen EXCEPT !.pc = "left", !.got = "none"] /\ queue' = [queue EXCEPT !.done = TRUE]
  BY DEF Leave, StreamIInv, WaiterOK, GenAt
<1>3. /\ gen' \in GenType /\ gen'.pc = "left" /\ gen'.got = "none"
      /\ queue' \in QueueType /\ ~queue'.waiting
  BY <1>1, <1>2 DEF GenType, GenPcs, QueueType
<1>4. HandOK' /\ WaiterOK' /\ NeverSleepsOver' /\ EndOK' /\ InOrder' /\ BubbleOK'
  BY <1>2, <1>3 DEF HandOK, WaiterOK, NeverSleepsOver, EndOK, InOrder, BubbleOK, GenAt
<1> QED
  BY <1>1, <1>2, <1>3, <1>4, GenKeeps

\* The pipeline's promise settles: all that was streamed is on the screen.
LEMMA AwaitKeeps ==
  ASSUME StreamIInv, AwaitResult
  PROVE  StreamIInv'
<1>1. /\ pipe \in PipeType /\ queue \in QueueType /\ gen \in GenType
      /\ row \in Seq(Words) /\ bubble \in Seq(Words) /\ aborted \in BOOLEAN
  BY Fields DEF StreamIInv
<1>2. /\ gen.pc = "await" /\ gen.got = "none" /\ Settled /\ queue.events = <<>>
      /\ UNCHANGED <<pipe, queue, row, bubble, aborted>>
      /\ gen' = IF pipe.pc = "threw" THEN [gen EXCEPT !.pc = "catch"]
                ELSE [gen EXCEPT !.pc = "status", !.text = pipe.answer]
  BY DEF AwaitResult, NotShown, Settled, StreamIInv, EndOK, HandOK, GenAt, PipeAt
<1>3. ~aborted => bubble = pipe.streamed /\ (gen.streamed <=> bubble # <<>>)
  <2> SUFFICES ASSUME ~aborted PROVE bubble = pipe.streamed /\ (gen.streamed <=> bubble # <<>>)
    OBVIOUS
  <2>1. Received = bubble
    BY <1>2 DEF Received
  <2>2. OnTheWay(bubble, pipe.streamed, <<>>)
    BY <1>2, <2>1 DEF StreamIInv, InOrder
  <2>3. pipe.streamed \in Seq({"word", "blank"})
    BY <1>1 DEF PipeType
  <2>4. bubble = pipe.streamed
    BY <1>1, <2>2, <2>3, AllTaken
  <2> QED
    BY <1>2, <2>4 DEF StreamIInv, BubbleOK
<1>4. /\ gen' \in GenType /\ gen'.pc = (IF pipe.pc = "threw" THEN "catch" ELSE "status")
      /\ gen'.got = "none" /\ gen'.streamed = gen.streamed
      /\ pipe.pc # "threw" => gen'.text = pipe.answer
  BY <1>1, <1>2 DEF GenType, GenPcs, PipeType
<1>5. BubbleOK'
  <2>1. CASE pipe.pc = "threw"
    BY <1>4, <2>1 DEF BubbleOK, GenAt
  <2>2. CASE pipe.pc = "returned"
    <3>1. pipe.answer = pipe.streamed \/ pipe.streamed = <<>> \/ OnlyBlanks
      BY <2>2 DEF StreamIInv, AnswerOK
    <3>2. OnlyBlanks' = OnlyBlanks
      BY <1>2 DEF OnlyBlanks
    <3> QED
      BY <1>2, <1>3, <1>4, <2>2, <3>1, <3>2 DEF BubbleOK, GenAt
  <2> QED
    BY <1>2, <2>1, <2>2 DEF Settled
<1> QED
  BY <1>1, <1>2, <1>4, <1>5, AfterwardsKeeps

\* An error empties the bubble, or finds nobody.
LEMMA CatchKeeps ==
  ASSUME StreamIInv, Catch
  PROVE  StreamIInv'
<1>1. /\ pipe \in PipeType /\ queue \in QueueType /\ gen \in GenType
      /\ row \in Seq(Words) /\ bubble \in Seq(Words) /\ aborted \in BOOLEAN
  BY Fields DEF StreamIInv
<1>2. /\ gen.pc = "catch" /\ gen.got = "none" /\ (PipeAt("idle") \/ Settled)
      /\ UNCHANGED <<pipe, queue, row, aborted>>
      /\ IF aborted THEN gen' = [gen EXCEPT !.pc = "left"] /\ bubble' = bubble
         ELSE /\ gen' = [gen EXCEPT !.pc = "persist", !.text = <<"sorry">>, !.streamed = FALSE]
              /\ bubble' = <<>>
  BY DEF Catch, GenGoto, StreamIInv, EndOK, HandOK, GenAt
<1>3. <<"sorry">> \in Seq(Words) /\ <<>> \in Seq(Words)
  BY EmptySeq DEF Words
<1>4. /\ gen' \in GenType /\ gen'.pc \in {"left", "persist"} /\ gen'.got = "none"
      /\ bubble' \in Seq(Words)
      /\ ~aborted => ~gen'.streamed /\ bubble' = <<>>
      /\ ~aborted => gen'.pc = "persist"
  BY <1>1, <1>2, <1>3 DEF GenType, GenPcs
<1>5. BubbleOK'
  BY <1>2, <1>4 DEF BubbleOK, GenAt
<1> QED
  BY <1>1, <1>2, <1>4, <1>5, AfterwardsKeeps

\* Status, PersistFails, Done: only the place of the generator changes.
LEMMA PassingKeeps ==
  ASSUME StreamIInv, Status \/ PersistFails \/ Done
  PROVE  StreamIInv'
<1>1. /\ pipe \in PipeType /\ queue \in QueueType /\ gen \in GenType
      /\ row \in Seq(Words) /\ bubble \in Seq(Words) /\ aborted \in BOOLEAN
  BY Fields DEF StreamIInv
<1>2. /\ gen.pc \in {"status", "persist", "done"} /\ gen.got = "none" /\ (PipeAt("idle") \/ Settled)
      /\ UNCHANGED <<pipe, queue, row, bubble, aborted>>
  BY DEF Status, PersistFails, Done, NotShown, StreamIInv, EndOK, HandOK, GenAt
<1>3. \/ gen.pc = "status" /\ ~aborted /\ gen' = [gen EXCEPT !.pc = "persist"]
      \/ gen.pc = "done" /\ ~aborted /\ gen' = [gen EXCEPT !.pc = "end"]
      \/ gen' = [gen EXCEPT !.pc = "fail"]
      \/ gen' = [gen EXCEPT !.pc = "left"]
  BY DEF Status, PersistFails, Done, GenGoto, GenAt
<1>4. /\ gen' \in GenType /\ gen'.got = "none" /\ gen'.streamed = gen.streamed /\ gen'.text = gen.text
      /\ gen'.pc \in {"persist", "end", "fail", "left"}
      /\ gen'.pc = "persist" => gen.pc = "status"
      /\ gen'.pc = "end" => gen.pc = "done" /\ ~aborted
  BY <1>1, <1>2, <1>3 DEF GenType, GenPcs
<1>5. BubbleOK'
  <2>1. OnlyBlanks' = OnlyBlanks
    BY <1>2 DEF OnlyBlanks
  <2> QED
    BY <1>2, <1>4, <2>1 DEF StreamIInv, BubbleOK, GenAt
<1> QED
  BY <1>1, <1>2, <1>4, <1>5, AfterwardsKeeps

\* The answer is stored.
LEMMA PersistKeeps ==
  ASSUME StreamIInv, Persist
  PROVE  StreamIInv'
<1>1. /\ pipe \in PipeType /\ queue \in QueueType /\ gen \in GenType
      /\ row \in Seq(Words) /\ bubble \in Seq(Words) /\ aborted \in BOOLEAN
  BY Fields DEF StreamIInv
<1>2. /\ gen.pc = "persist" /\ gen.got = "none" /\ (PipeAt("idle") \/ Settled)
      /\ UNCHANGED <<pipe, queue, bubble, aborted>> /\ row' = gen.text
      /\ gen' = [gen EXCEPT !.pc = IF gen.streamed THEN "done" ELSE "tokens"]
  BY DEF Persist, GenGoto, StreamIInv, EndOK, HandOK, GenAt
<1>3. /\ gen' \in GenType /\ gen'.got = "none" /\ gen'.streamed = gen.streamed /\ gen'.text = gen.text
      /\ gen'.pc = (IF gen.streamed THEN "done" ELSE "tokens")
      /\ row' \in Seq(Words)
  BY <1>1, <1>2 DEF GenType, GenPcs
<1>4. BubbleOK'
  <2>1. OnlyBlanks' = OnlyBlanks
    BY <1>2 DEF OnlyBlanks
  <2>2. <<>> \o gen.text = gen.text
    BY <1>2, <1>3, ConcatEmptySeq
  <2> QED
    BY <1>2, <1>3, <2>1, <2>2 DEF StreamIInv, BubbleOK, GenAt
<1> QED
  BY <1>1, <1>2, <1>3, <1>4, AfterwardsKeeps

LEMMA HeadAndTail ==
  ASSUME NEW b \in Seq(Words), NEW s \in Seq(Words), s # <<>>
  PROVE  (b \o <<Head(s)>>) \o Tail(s) = b \o s
<1>1. Head(s) \in Words /\ Tail(s) \in Seq(Words) /\ Head(s) = s[1] /\ Len(s) \in Nat \ {0}
  BY HeadTailProperties, EmptySeq
<1>2. <<Head(s)>> \in Seq(Words)
  BY <1>1
<1>3. <<Head(s)>> \o Tail(s) = s
  <2> DEFINE h == <<Head(s)>>
             r == Tail(s)
  <2>1. h \in Seq(Words) /\ Len(h) = 1 /\ h[1] = s[1]
    BY <1>1
  <2>2. /\ r \in Seq(Words) /\ Len(r) = Len(s) - 1
        /\ \A i \in 1..Len(r) : r[i] = s[i + 1]
    BY HeadTailProperties
  <2> HIDE DEF h, r
  <2>3. /\ h \o r \in Seq(Words) /\ Len(h \o r) = Len(s)
        /\ \A i \in 1..Len(s) : (h \o r)[i] = IF i <= 1 THEN h[i] ELSE r[i - 1]
    BY <1>1, <2>1, <2>2, ConcatProperties
  <2>4. \A i \in 1..Len(s) : (h \o r)[i] = s[i]
    <3> SUFFICES ASSUME NEW i \in 1..Len(s) PROVE (h \o r)[i] = s[i]
      OBVIOUS
    <3>1. CASE i = 1
      BY <2>1, <2>3, <3>1
    <3>2. CASE i > 1
      <4>1. i - 1 \in 1..Len(r) /\ (i - 1) + 1 = i
        BY <1>1, <2>2, <3>2
      <4> QED
        BY <2>2, <2>3, <3>2, <4>1
    <3>3. i = 1 \/ i > 1
      BY <1>1
    <3> QED
      BY <3>1, <3>2, <3>3
  <2>5. h \o r = s
    BY <2>3, <2>4, SeqEqual
  <2> QED
    BY <2>5 DEF h, r
<1> QED
  BY <1>1, <1>2, <1>3, ConcatAssociative

\* A token of an answer that was not streamed.
LEMMA TokenKeeps ==
  ASSUME StreamIInv, Token
  PROVE  StreamIInv'
<1>1. /\ pipe \in PipeType /\ queue \in QueueType /\ gen \in GenType
      /\ row \in Seq(Words) /\ bubble \in Seq(Words) /\ aborted \in BOOLEAN
  BY Fields DEF StreamIInv
<1>2. /\ gen.pc = "tokens" /\ gen.got = "none" /\ (PipeAt("idle") \/ Settled)
      /\ UNCHANGED <<pipe, queue, row, aborted>>
      /\ ~aborted => bubble \o gen.text = row
  BY DEF Token, StreamIInv, EndOK, HandOK, BubbleOK, GenAt
<1>3. gen.text \in Seq(Words)
  BY <1>1 DEF GenType
<1>4. CASE aborted \/ gen.text = <<>>
  <2>1. gen' = [gen EXCEPT !.pc = "done"] /\ bubble' = bubble
    BY <1>4 DEF Token, GenGoto
  <2>2. gen' \in GenType /\ gen'.pc = "done" /\ gen'.got = "none"
    BY <1>1, <1>2, <2>1 DEF GenType, GenPcs
  <2>3. ~aborted => bubble = row
    BY <1>1, <1>2, <1>4, ConcatEmptySeq
  <2>4. BubbleOK'
    BY <1>2, <2>1, <2>2, <2>3 DEF BubbleOK, GenAt
  <2> QED
    BY <1>1, <1>2, <2>1, <2>2, <2>4, AfterwardsKeeps
<1>5. CASE ~aborted /\ gen.text # <<>>
  <2>1. /\ gen' = [gen EXCEPT !.text = Tail(gen.text)]
        /\ bubble' = bubble \o <<Head(gen.text)>>
    BY <1>5 DEF Token, Show
  <2>2. /\ Tail(gen.text) \in Seq(Words) /\ bubble' \in Seq(Words)
    BY <1>1, <1>3, <1>5, <2>1, HeadTailProperties, ConcatProperties
  <2>3. /\ gen' \in GenType /\ gen'.pc = "tokens" /\ gen'.got = "none"
        /\ gen'.text = Tail(gen.text)
    BY <1>1, <1>2, <2>1, <2>2 DEF GenType
  <2>4. bubble' \o gen'.text = row
    BY <1>1, <1>2, <1>3, <1>5, <2>1, <2>3, HeadAndTail
  <2>5. BubbleOK'
    BY <1>2, <2>3, <2>4 DEF BubbleOK, GenAt
  <2> QED
    BY <1>1, <1>2, <2>2, <2>3, <2>5, AfterwardsKeeps
<1> QED
  BY <1>4, <1>5

\* The route catches what storing the answer threw.
LEMMA RouteCatchesKeeps ==
  ASSUME StreamIInv, RouteCatches
  PROVE  StreamIInv'
<1>1. /\ pipe \in PipeType /\ queue \in QueueType /\ gen \in GenType
      /\ row \in Seq(Words) /\ bubble \in Seq(Words) /\ aborted \in BOOLEAN
  BY Fields DEF StreamIInv
<1>2. /\ gen.pc = "fail" /\ gen.got = "none" /\ (PipeAt("idle") \/ Settled)
      /\ UNCHANGED <<pipe, queue, row, aborted>>
      /\ gen' = [gen EXCEPT !.pc = "left"]
      /\ bubble' = IF aborted THEN bubble ELSE <<>>
  BY DEF RouteCatches, GenGoto, StreamIInv, EndOK, HandOK, GenAt
<1>3. /\ gen' \in GenType /\ gen'.pc = "left" /\ gen'.got = "none" /\ bubble' \in Seq(Words)
  BY <1>1, <1>2, EmptySeq DEF GenType, GenPcs
<1>4. BubbleOK'
  BY <1>3 DEF BubbleOK, GenAt
<1> QED
  BY <1>1, <1>2, <1>3, <1>4, AfterwardsKeeps

\* The one who watched has gone.
LEMMA AbortKeeps ==
  ASSUME StreamIInv, Abort
  PROVE  StreamIInv'
<1>1. /\ pipe \in PipeType /\ queue \in QueueType /\ gen \in GenType
      /\ row \in Seq(Words) /\ bubble \in Seq(Words) /\ aborted \in BOOLEAN
  BY Fields DEF StreamIInv
<1>2. aborted' = TRUE /\ gen.pc \notin {"start", "end"} /\ UNCHANGED <<pipe, queue, gen, row, bubble>>
  BY DEF Abort
<1>3. HandOK' /\ WaiterOK' /\ NeverSleepsOver' /\ EndOK'
  BY <1>2 DEF StreamIInv, HandOK, WaiterOK, NeverSleepsOver, EndOK, Settled, GenAt, PipeAt
<1>4. InOrder' /\ BubbleOK'
  BY <1>2 DEF InOrder, BubbleOK, GenAt
<1> QED
  BY <1>1, <1>2, <1>3, <1>4, GenKeeps

-----------------------------------------------------------------------------
(* The theorem *)

LEMMA StreamStarts == StreamInit => StreamIInv
<1> SUFFICES ASSUME StreamInit PROVE StreamIInv
  OBVIOUS
<1>1. <<>> \in Seq(Words) /\ <<>> \in Seq(Events) /\ <<>> \in Seq({"word", "blank"})
  BY EmptySeq
<1>2. /\ pipe = [pc |-> "idle", streamed |-> <<>>, answer |-> <<>>]
      /\ queue = [events |-> <<>>, waiting |-> FALSE, done |-> FALSE, error |-> FALSE]
      /\ gen = [pc |-> "start", got |-> "none", streamed |-> FALSE, text |-> <<>>]
      /\ row = <<>> /\ bubble = <<>> /\ aborted = FALSE
  BY DEF StreamInit
<1>3. StreamTypeOK
  BY <1>1, <1>2 DEF StreamTypeOK, PipePcs, GenPcs
<1>4. FreshStart /\ HandOK /\ WaiterOK /\ EndOK /\ AnswerOK /\ NeverSleepsOver /\ InOrder /\ BubbleOK
  BY <1>2 DEF FreshStart, HandOK, WaiterOK, EndOK, AnswerOK, NeverSleepsOver, InOrder, BubbleOK,
              GenAt, PipeAt
<1> QED
  BY <1>3, <1>4 DEF StreamIInv

LEMMA StreamKeepsOn == StreamIInv /\ [StreamNext]_streamVars => StreamIInv'
<1> SUFFICES ASSUME StreamIInv, [StreamNext]_streamVars PROVE StreamIInv'
  OBVIOUS
<1>1. CASE UNCHANGED streamVars
  BY <1>1 DEF streamVars, StreamIInv, StreamTypeOK, FreshStart, HandOK, WaiterOK, EndOK, Settled,
              AnswerOK, OnlyBlanks, NeverSleepsOver, InOrder, Received, BubbleOK, GenAt, PipeAt
<1>2. CASE RunAgentic \/ StandardThrows
  BY <1>2, BeginningKeeps, EmptySeq
<1>3. ASSUME NEW text \in {<<"word">>, <<"cached">>, <<"refusal">>, <<"word", "blank">>}, RunStandard(text)
      PROVE  StreamIInv'
  <2>1. /\ <<"word">> \in Seq(Words) /\ <<"cached">> \in Seq(Words)
        /\ <<"refusal">> \in Seq(Words) /\ <<"word", "blank">> \in Seq(Words)
    BY DEF Words
  <2>2. text \in Seq(Words)
    BY <2>1
  <2> QED
    BY <1>3, <2>2, BeginningKeeps
<1>4. CASE PipeStep
  BY <1>4, PipeStepKeeps
<1>5. CASE GenStep
  BY <1>5, PullKeeps, WokenKeeps, YieldKeeps, LeaveKeeps, AwaitKeeps, CatchKeeps, PassingKeeps,
     PersistKeeps, TokenKeeps, RouteCatchesKeeps DEF GenStep
<1>6. CASE Abort
  BY <1>6, AbortKeeps
<1> QED
  BY <1>1, <1>2, <1>3, <1>4, <1>5, <1>6 DEF StreamNext

\* Whatever the writer streams and wherever it breaks off, the consumer never
\* sleeps over an event, no token is lost, doubled or overtaken on its way from the
\* pipeline to the bubble, and a turn that ends shows the answer as it was stored,
\* unless all that was streamed were blanks (async-queue.ts, run-chat-stream.ts).
THEOREM AnswersArriveWhole == StreamSpec => []StreamInv
<1>1. StreamIInv => StreamInv
  <2>1. StreamIInv => BubbleIsRowUnlessBlank
    BY DEF StreamIInv, BubbleOK, BubbleIsRowUnlessBlank, GenAt
  <2> QED
    BY <2>1 DEF StreamIInv, StreamInv
<1> QED
  BY <1>1, StreamStarts, StreamKeepsOn, PTL DEF StreamSpec

=============================================================================
