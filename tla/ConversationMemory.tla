------------------------- MODULE ConversationMemory -------------------------
(***************************************************************************)
(* SummaryBufferMemory: what the model is told of a conversation.  Every   *)
(* turn makes a memory of its own, loads it from the stored messages and   *)
(* the saved summary, adds itself, folds the oldest pair into the summary  *)
(* when the buffer is too long, and saves the summary.  Turns of one       *)
(* conversation may overlap; any of the writes may fail.                   *)
(***************************************************************************)
EXTENDS Integers, Sequences

CONSTANTS
  MemoryTurns,       \* turns that may be at work at the same time
  MaxVerbatim, \* MAX_VERBATIM_MESSAGES
  MaxAsked   \* bound: prompts asked

ASSUME MemoryAssumption == MaxVerbatim \in Nat \ {0} /\ MaxAsked \in Nat

VARIABLES
  messages, \* the stored messages, by createdAt
  summary,  \* ConversationMemory.summaryText: the pairs folded into it
  memoryTurn,     \* one turn with its memory
  asked,    \* how many prompts were asked
  excused   \* history: turns have overlapped, or a memory was not loaded

memoryVars == <<messages, summary, memoryTurn, asked, excused>>

MemoryMessage == {"user", "assistant"} \X (1..MaxAsked)
Pair == MemoryMessage \X MemoryMessage

MemoryPcs == {"idle", "load", "answer", "summarise", "save", "store"}
MemoryTurn == [pc : MemoryPcs, n : 0..MaxAsked, buffer : Seq(MemoryMessage),
         rolling : Seq(Pair), oldest : Seq(MemoryMessage)]
NoTurn == [pc |-> "idle", n |-> 0, buffer |-> <<>>, rolling |-> <<>>, oldest |-> <<>>]

MemoryTypeOK ==
  /\ messages \in Seq(MemoryMessage)
  /\ summary \in Seq(Pair)
  /\ memoryTurn \in [MemoryTurns -> MemoryTurn]
  /\ asked \in 0..MaxAsked
  /\ excused \in BOOLEAN

MemoryInit ==
  /\ messages = <<>> /\ summary = <<>>
  /\ memoryTurn = [t \in MemoryTurns |-> NoTurn]
  /\ asked = 0
  /\ excused = FALSE

TurnAt(t, pc) == memoryTurn[t].pc = pc
SetTurn(t, new) == memoryTurn' = [memoryTurn EXCEPT ![t] = new]

-----------------------------------------------------------------------------
(* A turn *)

\* The prompt is stored first.  An answer from the cache is remembered like any
\* other.
AskPrompt(t) ==
  /\ TurnAt(t, "idle") /\ asked < MaxAsked
  /\ asked' = asked + 1
  /\ messages' = Append(messages, <<"user", asked + 1>>)
  /\ SetTurn(t, [NoTurn EXCEPT !.pc = "load", !.n = asked + 1])
  /\ excused' = (excused \/ \E u \in MemoryTurns : ~TurnAt(u, "idle"))
  /\ UNCHANGED summary

\* A question is asked back, the pipeline fails, the user stops or the process dies.
EndWithoutAnswer(t) ==
  /\ ~TurnAt(t, "idle")
  /\ SetTurn(t, NoTurn)
  /\ UNCHANGED <<messages, summary, asked, excused>>

\* ensureLoaded takes the first messages there are.
First(n, s) == SubSeq(s, 1, IF Len(s) < n THEN Len(s) ELSE n)

\* Mutant: the saved summary is not loaded.
LoadMessagesOnly(t) ==
  /\ TurnAt(t, "load")
  /\ SetTurn(t, [memoryTurn[t] EXCEPT !.pc = "answer",
       !.buffer = First(MaxVerbatim, messages)])
  /\ UNCHANGED <<messages, summary, asked, excused>>

\* ensureLoaded.
Load(t) ==
  /\ TurnAt(t, "load")
  /\ SetTurn(t, [memoryTurn[t] EXCEPT !.pc = "answer", !.rolling = summary,
       !.buffer = First(MaxVerbatim, messages)])
  /\ UNCHANGED <<messages, summary, asked, excused>>

\* loaded has been set by then: the turn goes on with an empty memory.
LoadFails(t) ==
  /\ TurnAt(t, "load")
  /\ SetTurn(t, [memoryTurn[t] EXCEPT !.pc = "answer"])
  /\ excused' = TRUE
  /\ UNCHANGED <<messages, summary, asked>>

\* addTurn: the prompt, which is among the loaded messages of a short
\* conversation already, and the answer.
AddTurn(t) ==
  LET n == memoryTurn[t].n
      added == memoryTurn[t].buffer \o <<<<"user", n>>, <<"assistant", n>>>> IN
  /\ TurnAt(t, "answer")
  /\ SetTurn(t, IF Len(added) > MaxVerbatim
       THEN [memoryTurn[t] EXCEPT !.pc = "summarise", !.oldest = SubSeq(added, 1, 2),
                            !.buffer = SubSeq(added, 3, Len(added))]
       ELSE [memoryTurn[t] EXCEPT !.pc = "save", !.buffer = added])
  /\ UNCHANGED <<messages, summary, asked, excused>>

\* pruneAndSummarize: two shifts, whoever they are from.  If the model fails,
\* the pair is gone from the buffer and not in the summary.
Summarise(t, good) ==
  LET r == memoryTurn[t] IN
  /\ TurnAt(t, "summarise")
  /\ SetTurn(t, [r EXCEPT !.pc = "save", !.oldest = <<>>,
       !.rolling = IF good THEN Append(@, <<r.oldest[1], r.oldest[2]>>) ELSE @])
  /\ UNCHANGED <<messages, summary, asked, excused>>

\* saveToDb: the last turn's summary stands; a failure is swallowed.
SaveSummary(t, good) ==
  /\ TurnAt(t, "save")
  /\ summary' = IF good THEN memoryTurn[t].rolling ELSE summary
  /\ SetTurn(t, [memoryTurn[t] EXCEPT !.pc = "store", !.buffer = <<>>, !.rolling = <<>>])
  /\ UNCHANGED <<messages, asked, excused>>

\* persistAssistant.
StoreAnswer(t) ==
  /\ TurnAt(t, "store")
  /\ messages' = Append(messages, <<"assistant", memoryTurn[t].n>>)
  /\ SetTurn(t, NoTurn)
  /\ UNCHANGED <<summary, asked, excused>>

\* conversation.clear deletes the messages; the summary stays.
ClearConversation ==
  /\ messages # <<>>
  /\ messages' = <<>>
  /\ UNCHANGED <<summary, memoryTurn, asked, excused>>

MemoryNext ==
  \/ \E t \in MemoryTurns :
       \/ AskPrompt(t) \/ EndWithoutAnswer(t) \/ Load(t) \/ LoadFails(t) \/ AddTurn(t)
       \/ \E good \in BOOLEAN : Summarise(t, good) \/ SaveSummary(t, good)
       \/ StoreAnswer(t)
  \/ ClearConversation

MemorySpec == MemoryInit /\ [][MemoryNext]_memoryVars

-----------------------------------------------------------------------------
(* Properties *)

\* What has been folded into the saved summary stays in it, and a turn adds one
\* pair at most: summaries are lost by overlapping turns and failed loads only.
Extends(longer, s) ==
  /\ Len(longer) \in Len(s)..(Len(s) + 1)
  /\ SubSeq(longer, 1, Len(s)) = s
SummaryGrows == [][excused' \/ Extends(summary', summary)]_memoryVars

=============================================================================
