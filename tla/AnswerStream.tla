---------------------------- MODULE AnswerStream ----------------------------
(***************************************************************************)
(* One turn's answer on its way to the screen: runAgenticRag pushes events *)
(* into an AsyncEventQueue, runChatStreamInner pulls them out and yields   *)
(* them to the stream route, useChat puts the tokens into the bubble, and  *)
(* the answer is stored as a row.  In standard mode there is no queue.     *)
(*                                                                         *)
(* A text is a sequence of words; what matters of a word is where it came  *)
(* from and whether there is anything to see.                              *)
(***************************************************************************)
EXTENDS Naturals, Sequences

CONSTANT MaxDeltas  \* bound: pieces the writer's model streams

ASSUME StreamAssumption == MaxDeltas \in Nat

VARIABLES
  pipe,    \* the pipeline: where it is, what it has streamed, its answer
  queue,   \* AsyncEventQueue: events, waiters, done, error
  gen,     \* runChatStreamInner
  row,     \* the stored answer
  bubble,  \* what the client shows of it
  aborted  \* request.signal

streamVars == <<pipe, queue, gen, row, bubble, aborted>>

Words == {"word", "blank", "cached", "refusal", "summary", "sorry"}
Events == {"stage", "word", "blank"}

PipePcs == {"idle", "cache", "guard", "research", "analyst", "writer", "keep", "returned",
            "threw", "closed"}
GenPcs == {"start", "pull", "wait", "yield", "await", "catch", "status", "persist", "tokens", "done",
           "fail", "end", "left"}

StreamTypeOK ==
  /\ pipe \in [pc : PipePcs, streamed : Seq({"word", "blank"}), answer : Seq(Words)]
  /\ queue \in [events : Seq(Events), waiting : BOOLEAN, done : BOOLEAN, error : BOOLEAN]
  /\ gen \in [pc : GenPcs, got : Events \cup {"none", "end"}, streamed : BOOLEAN,
              text : Seq(Words)]
  /\ row \in Seq(Words) /\ bubble \in Seq(Words)
  /\ aborted \in BOOLEAN

StreamInit ==
  /\ pipe = [pc |-> "idle", streamed |-> <<>>, answer |-> <<>>]
  /\ queue = [events |-> <<>>, waiting |-> FALSE, done |-> FALSE, error |-> FALSE]
  /\ gen = [pc |-> "start", got |-> "none", streamed |-> FALSE, text |-> <<>>]
  /\ row = <<>> /\ bubble = <<>>
  /\ aborted = FALSE

GenAt(pc) == gen.pc = pc
GenGoto(pc) == gen' = [gen EXCEPT !.pc = pc]
Visible(text) == SelectSeq(text, LAMBDA w : w # "blank")

-----------------------------------------------------------------------------
(* The queue: all of these happen without a pause *)

\* push: to the one who waits, or to the end; nothing after the end.
Push(e) ==
  IF queue.done THEN UNCHANGED <<queue, gen>>
  ELSE IF queue.waiting
  THEN /\ queue' = [queue EXCEPT !.waiting = FALSE]
       /\ gen' = [gen EXCEPT !.got = e]
  ELSE /\ queue' = [queue EXCEPT !.events = Append(@, e)]
       /\ UNCHANGED gen

\* Mutant: who waits is not woken.
FinishQuietly(error) ==
  IF queue.done THEN UNCHANGED <<queue, gen>>
  ELSE /\ queue' = [queue EXCEPT !.done = TRUE, !.error = error]
       /\ UNCHANGED gen

\* finish (complete, fail, return): the waiter is told the end, not the error.
Finish(error) ==
  IF queue.done THEN UNCHANGED <<queue, gen>>
  ELSE /\ queue' = [queue EXCEPT !.done = TRUE, !.error = error, !.waiting = FALSE]
       /\ gen' = IF queue.waiting THEN [gen EXCEPT !.got = "end"] ELSE gen

-----------------------------------------------------------------------------
(* The pipeline of agentic mode *)

PipeAt(pc) == pipe.pc = pc
PipeGoto(pc) == pipe' = [pipe EXCEPT !.pc = pc]
Answers(text) == pipe' = [pipe EXCEPT !.pc = "returned", !.answer = text]
Silent == UNCHANGED <<queue, gen>>
NotShown == UNCHANGED <<row, bubble, aborted>>

CacheHit == PipeAt("cache") /\ Answers(<<"cached">>) /\ Silent /\ NotShown
CacheMiss == PipeAt("cache") /\ PipeGoto("guard") /\ Push("stage") /\ NotShown
OutOfDomain == PipeAt("guard") /\ Answers(<<"refusal">>) /\ Push("stage") /\ NotShown
InDomain == PipeAt("guard") /\ PipeGoto("research") /\ Push("stage") /\ NotShown
Researched == PipeAt("research") /\ PipeGoto("analyst") /\ Push("stage") /\ NotShown
Analysed == PipeAt("analyst") /\ PipeGoto("writer") /\ Push("stage") /\ NotShown

\* Embedding, cache, expansion, guardrail, retrieval or analysis throws.
Throws ==
  /\ pipe.pc \in {"cache", "guard", "research", "analyst"}
  /\ PipeGoto("threw")
  /\ Silent /\ NotShown

Stream(d) ==
  /\ PipeAt("writer") /\ Len(pipe.streamed) < MaxDeltas
  /\ pipe' = [pipe EXCEPT !.streamed = Append(@, d)]
  /\ Push(d)
  /\ NotShown

\* Mutant: the analyst's summary replaces whatever was streamed.
WrittenAnew ==
  /\ PipeAt("writer")
  /\ pipe' = [pipe EXCEPT !.pc = "keep", !.answer = <<"summary">>]
  /\ Push("stage")
  /\ NotShown

\* agentWriterSynthesis: the stream ends or breaks; what there is of it is the
\* answer, and the analyst's summary if there is nothing to see of it.
Written ==
  /\ PipeAt("writer")
  /\ pipe' = [pipe EXCEPT !.pc = "keep",
       !.answer = IF Visible(pipe.streamed) # <<>> THEN pipe.streamed ELSE <<"summary">>]
  /\ Push("stage")
  /\ NotShown

\* The answer is cached and remembered; what fails of that is only logged.
Keep == PipeAt("keep") /\ PipeGoto("returned") /\ Silent /\ NotShown

\* then(complete).catch(fail), after the promise has settled.
CloseQueue ==
  /\ pipe.pc \in {"returned", "threw"} /\ queue.done = FALSE
  /\ Finish(PipeAt("threw"))
  /\ UNCHANGED pipe /\ NotShown

PipeStep ==
  \/ CacheHit \/ CacheMiss \/ OutOfDomain \/ InDomain \/ Researched \/ Analysed \/ Throws
  \/ \E d \in {"word", "blank"} : Stream(d)
  \/ Written \/ Keep \/ CloseQueue

-----------------------------------------------------------------------------
(* The generator and the route *)

RunAgentic ==
  /\ GenAt("start")
  /\ GenGoto("pull") /\ PipeGoto("cache")
  /\ UNCHANGED queue /\ NotShown

\* runStandardCrag returns an answer or throws; the guardrail is before it.
RunStandard(text) ==
  /\ GenAt("start")
  /\ gen' = [gen EXCEPT !.pc = "status", !.text = text]
  /\ UNCHANGED <<pipe, queue>> /\ NotShown

StandardThrows ==
  /\ GenAt("start")
  /\ GenGoto("catch")
  /\ UNCHANGED <<pipe, queue>> /\ NotShown

\* next()
Pull ==
  /\ GenAt("pull")
  /\ IF queue.events # <<>>
     THEN /\ queue' = [queue EXCEPT !.events = Tail(@)]
          /\ gen' = [gen EXCEPT !.pc = "yield", !.got = Head(queue.events)]
     ELSE IF queue.done
     THEN GenGoto(IF queue.error THEN "catch" ELSE "await") /\ UNCHANGED queue
     ELSE queue' = [queue EXCEPT !.waiting = TRUE] /\ GenGoto("wait")
  /\ UNCHANGED pipe /\ NotShown

\* The promise next() returned resolves: the end is not an error here.
Woken ==
  /\ GenAt("wait") /\ gen.got # "none"
  /\ gen' = IF gen.got = "end" THEN [gen EXCEPT !.pc = "await", !.got = "none"]
            ELSE [gen EXCEPT !.pc = "yield"]
  /\ UNCHANGED <<pipe, queue>> /\ NotShown

\* The route passes an event on, and the client appends a token.
Show(text) == bubble' = IF aborted THEN bubble ELSE bubble \o text

Yield ==
  /\ GenAt("yield") /\ ~aborted
  /\ gen' = [gen EXCEPT !.pc = "pull", !.got = "none", !.streamed = @ \/ gen.got # "stage"]
  /\ Show(IF gen.got = "stage" THEN <<>> ELSE <<gen.got>>)
  /\ UNCHANGED <<pipe, queue, row, aborted>>

\* The route sees the abort at an event and leaves: the generator returns, and
\* so does the queue.
Leave ==
  /\ GenAt("yield") /\ aborted
  /\ gen' = [gen EXCEPT !.pc = "left", !.got = "none"]
  /\ queue' = [queue EXCEPT !.done = TRUE]
  /\ UNCHANGED <<pipe, row, bubble, aborted>>

\* await agenticPromise: here an error that found a waiter comes to light.
AwaitResult ==
  /\ GenAt("await") /\ pipe.pc \in {"returned", "threw"}
  /\ gen' = IF PipeAt("threw") THEN [gen EXCEPT !.pc = "catch"]
            ELSE [gen EXCEPT !.pc = "status", !.text = pipe.answer]
  /\ UNCHANGED <<pipe, queue>> /\ NotShown

\* The error event empties the bubble; the apology comes as tokens.
Catch ==
  /\ GenAt("catch")
  /\ IF aborted THEN GenGoto("left") /\ UNCHANGED bubble
     ELSE /\ gen' = [gen EXCEPT !.pc = "persist", !.text = <<"sorry">>, !.streamed = FALSE]
          /\ bubble' = <<>>
  /\ UNCHANGED <<pipe, queue, row, aborted>>

\* One more event before the answer is stored: whoever has left by then gets none.
Status ==
  /\ GenAt("status")
  /\ GenGoto(IF aborted THEN "left" ELSE "persist")
  /\ UNCHANGED <<pipe, queue>> /\ NotShown

\* persistAssistant.
Persist ==
  /\ GenAt("persist")
  /\ row' = gen.text
  /\ GenGoto(IF gen.streamed THEN "done" ELSE "tokens")
  /\ UNCHANGED <<pipe, queue, bubble, aborted>>

\* It throws: nobody but the route catches that.
PersistFails ==
  /\ GenAt("persist")
  /\ GenGoto("fail")
  /\ UNCHANGED <<pipe, queue>> /\ NotShown

\* streamTokens, token by token.
Token ==
  /\ GenAt("tokens")
  /\ IF aborted \/ gen.text = <<>> THEN GenGoto("done") /\ UNCHANGED bubble
     ELSE /\ gen' = [gen EXCEPT !.text = Tail(@)]
          /\ Show(<<Head(gen.text)>>)
  /\ UNCHANGED <<pipe, queue, row, aborted>>

Done ==
  /\ GenAt("done")
  /\ GenGoto(IF aborted THEN "left" ELSE "end")
  /\ UNCHANGED <<pipe, queue>> /\ NotShown

RouteCatches ==
  /\ GenAt("fail")
  /\ GenGoto("left")
  /\ bubble' = IF aborted THEN bubble ELSE <<>>
  /\ UNCHANGED <<pipe, queue, row, aborted>>

GenStep ==
  \/ Pull \/ Woken \/ Yield \/ Leave \/ AwaitResult \/ Catch \/ Status
  \/ Persist \/ PersistFails \/ Token \/ Done \/ RouteCatches

\* Stop, a closed tab or a broken connection.
Abort ==
  /\ ~aborted /\ gen.pc \notin {"start", "end", "left"}
  /\ aborted' = TRUE
  /\ UNCHANGED <<pipe, queue, gen, row, bubble>>

StreamNext ==
  \/ RunAgentic \/ StandardThrows
  \/ \E text \in {<<"word">>, <<"cached">>, <<"refusal">>, <<"word", "blank">>} : RunStandard(text)
  \/ PipeStep \/ GenStep \/ Abort

StreamSpec == StreamInit /\ [][StreamNext]_streamVars

\* Promises settle: every call of a model, of the database and of the embedding
\* service has a time limit.
StreamFairness == WF_streamVars(PipeStep) /\ WF_streamVars(GenStep)

-----------------------------------------------------------------------------
(* Properties *)

\* The consumer never sleeps over an event or over the end.
NeverSleepsOver ==
  GenAt("wait") /\ gen.got = "none" => queue.waiting /\ ~queue.done /\ queue.events = <<>>

\* What of the writer's tokens is on the screen or in the consumer's hand.
Received == IF gen.got \in {"word", "blank"} THEN Append(bubble, gen.got) ELSE bubble

\* What was taken is the beginning of what was streamed, and the rest of it is in
\* the queue, each at its place: in their order and with only stages beside them.
OnTheWay(taken, streamed, events) ==
  /\ Len(taken) <= Len(streamed)
  /\ \A k \in 1..Len(taken) : taken[k] = streamed[k]
  /\ \E place \in [(Len(taken) + 1)..Len(streamed) -> 1..Len(events)] :
       /\ \A k, l \in DOMAIN place : k < l => place[k] < place[l]
       /\ \A k \in DOMAIN place : events[place[k]] = streamed[k]
       /\ \A i \in 1..Len(events) : events[i] = "stage" \/ \E k \in DOMAIN place : place[k] = i

\* No token is lost, doubled or overtaken between the writer and the bubble.
InOrder ==
  ~aborted /\ gen.pc \in {"pull", "wait", "yield", "await"} =>
    OnTheWay(Received, pipe.streamed, queue.events)

\* When the turn is done, the bubble shows the answer as it was stored, unless
\* blanks were all the writer streamed.
OnlyBlanks == pipe.streamed # <<>> /\ Visible(pipe.streamed) = <<>>
BubbleIsRowUnlessBlank ==
  GenAt("end") => Visible(bubble) = Visible(row) \/ OnlyBlanks

\* The queue between the pipeline and the stream, from both of its ends.
StreamInv == StreamTypeOK /\ NeverSleepsOver /\ InOrder /\ BubbleIsRowUnlessBlank

\* A turn ends whatever fails in it, with an answer or with the apology.
TurnsEnd == GenAt("pull") ~> gen.pc \in {"end", "left"}

=============================================================================
