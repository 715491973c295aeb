------------------------------- MODULE Agents -------------------------------
(***************************************************************************)
(* What the stages of an agentic turn hand on (runAgenticRag): the memory  *)
(* and what the research agent finds become one context, of which analyst  *)
(* and writer are given the beginning, while the sources of what was found *)
(* are listed beside it; and what is recorded of the turn: steps, tool     *)
(* calls, and each call of a model under the stage that was set last.      *)
(* What is cached and streamed is in AnswerCache and AnswerStream.         *)
(***************************************************************************)
EXTENDS Integers, FiniteSets, FiniteSetsExt, SequencesExt

CONSTANTS
  Passages,       \* chunks that a search may find
  PassageLength, MemoryLengths, SumLength,
  AnalystChars,   \* ANALYST_RESEARCH_CONTEXT_CHARS
  WriterChars     \* ANALYST_FINAL_CONTEXT_CHARS

ASSUME AgentsAssumption ==
  /\ IsFiniteSet(Passages) /\ MemoryLengths \subseteq Nat /\ {PassageLength, SumLength} \subseteq Nat \ {0}
  /\ WriterChars \in Nat \ {0} /\ AnalystChars >= WriterChars

VARIABLES
  ask,      \* the turn: its question's triggers, its memory, its options
  agent,    \* what it does next
  context,  \* accumulatedContext: pieces in their order
  sources,  \* what they are said to come from
  record    \* LlmUsageCollector, researchSteps, toolCalls, and the stages reported

agentVars == <<ask, agent, context, sources, record>>

AgentTurn == [compares : BOOLEAN, costs : BOOLEAN, memory : MemoryLengths, folds : BOOLEAN,
        bypassCache : BOOLEAN, streams : BOOLEAN]

Piece(kind, of, size) == [kind |-> kind, of |-> of, size |-> size]
Chunk(p) == Piece("chunk", p, PassageLength)

\* The pieces of which something lies within the first n characters.
Beginning(n) ==
  {context[i] : i \in {j \in 1..Len(context) :
                         MapThenSumSet(LAMBDA k : context[k].size, 1..(j - 1)) < n}}

\* A call of a model that succeeded, whoever made it, under the label of now.
Recorded(by) == Append(record.calls, [stage |-> record.label, by |-> by])

\* (callLLMStream records nothing.)
Calls(by, streamed) == {record.calls} \cup (IF streamed THEN {} ELSE {Recorded(by)})

Then(pc) == agent' = pc
Stage(stage) == [record EXCEPT !.label = stage]

-----------------------------------------------------------------------------
(* Stage 0 *)

AgentsInit ==
  /\ ask \in AgentTurn
  /\ agent = IF ask.bypassCache THEN "expand" ELSE "look up"
  /\ context = <<>> /\ sources = {}
  /\ record = [label |-> 0, calls |-> <<>>, steps |-> <<>>, tools |-> <<>>,
               shown |-> [a \in {"analyst", "writer"} |-> {}], through |-> -1]

\* A hit by the question, or by its English form, is remembered and served.
LookUp(at, next) ==
  /\ agent = at
  /\ Then("serve") \/ Then(next)
  /\ UNCHANGED <<ask, context, sources, record>>
LookUpQuestion == LookUp("look up", "expand")
LookUpEnglish == LookUp("look up English", "guard")

\* The model may fail, or answer what is no JSON: then the question stands as it is.
GenerateSubQueries ==
  /\ agent = "expand"
  /\ \E calls \in Calls("expansion", FALSE) :
       /\ record' = [record EXCEPT !.calls = calls]
       /\ \/ Then("guard")
          \/ ~ask.bypassCache /\ calls # record.calls /\ Then("look up English")
  /\ UNCHANGED <<ask, context, sources>>

\* Terms block without the model; when it fails the question passes.
IsQueryOutOfDomain ==
  /\ agent = "guard"
  /\ \E calls \in Calls("guardrail", FALSE) : \E blocked \in BOOLEAN :
       record' = [record EXCEPT !.calls = calls, !.through = IF blocked THEN 0 ELSE @,
                                !.label = IF blocked THEN @ ELSE 1]
       /\ Then(IF blocked THEN "done" ELSE "research")
       /\ context' = IF blocked \/ ask.memory = 0 THEN <<>>
                     ELSE <<Piece("memory", "memory", ask.memory)>>
  /\ UNCHANGED <<ask, sources>>

-----------------------------------------------------------------------------
(* Stage 1: the research agent *)

Adds(found, iteration, tools) ==
  /\ context' = context \o found
  /\ record' = [record EXCEPT !.steps = Append(@, iteration), !.tools = @ \o tools]

\* webSearch: a failed or empty search gives a result written into the code.
WebSearch == <<Piece("web", "web", PassageLength)>>

\* Chunks, or else what the web has to offer.
Research ==
  /\ agent = "research"
  /\ \/ \E S \in (SUBSET Passages) \ {{}} : \E order \in SetToSeqs(S) :
          /\ Adds([i \in 1..Len(order) |-> Chunk(order[i])], 1, <<"hybrid">>)
          /\ sources' = S
     \/ /\ Adds(WebSearch, 1, <<"hybrid", "web">>)
        /\ sources' = {"web"}
  /\ Then("compare")
  /\ UNCHANGED ask

\* The second search adds to the context and not to the sources.
Compare ==
  /\ agent = "compare"
  /\ IF ask.compares
     THEN \E S \in SUBSET Passages : \E order \in SetToSeqs(S) :
            Adds([i \in 1..Len(order) |-> Chunk(order[i])], 2, <<"hybrid">>)
     ELSE UNCHANGED <<context, record>>
  /\ Then("calculate")
  /\ UNCHANGED <<ask, sources>>

Sum == Piece("sum", "calculator", SumLength)

\* Mutant: the calculated sum goes behind what was found.
CalculateLast ==
  /\ agent = "calculate"
  /\ context' = IF ask.costs THEN Append(context, Sum) ELSE context
  /\ record' = IF ~ask.costs THEN Stage(2)
               ELSE [Stage(2) EXCEPT !.steps = Append(@, Len(@) + 1), !.tools = Append(@, "calculator")]
  /\ Then("analyse")
  /\ UNCHANGED <<ask, sources>>

\* The calculated sum goes first.
Calculate ==
  /\ agent = "calculate"
  /\ context' = IF ask.costs THEN <<Sum>> \o context ELSE context
  /\ record' = IF ~ask.costs THEN Stage(2)
               ELSE [Stage(2) EXCEPT !.steps = Append(@, Len(@) + 1), !.tools = Append(@, "calculator")]
  /\ Then("analyse")
  /\ UNCHANGED <<ask, sources>>

-----------------------------------------------------------------------------
(* Stages 2 and 3: the analyst and the writer *)

\* When the model fails or its JSON does not fit, there is a fallback matrix.
Analyse ==
  /\ agent = "analyse"
  /\ \E calls \in Calls("analyst", FALSE) :
       record' = [Stage(3) EXCEPT !.calls = calls, !.shown["analyst"] = Beginning(AnalystChars)]
  /\ Then("write")
  /\ UNCHANGED <<ask, context, sources>>

\* When the model fails, what was streamed or the analyst's summary stands.
WriteUp ==
  /\ agent = "write"
  /\ \E calls \in Calls("writer", ask.streams) :
       record' = [record EXCEPT !.calls = calls, !.shown["writer"] = Beginning(WriterChars),
                                !.through = 3]
  /\ Then("remember")
  /\ UNCHANGED <<ask, context, sources>>

\* addTurn: when the buffer is full a model folds the oldest pair, under the
\* label of the last stage.
Remember ==
  /\ agent \in {"serve", "remember"}
  /\ \E calls \in IF ask.folds THEN Calls("memory", FALSE) ELSE {record.calls} :
       record' = [record EXCEPT !.calls = calls, !.through = IF agent = "serve" THEN 0 ELSE @]
  /\ Then("done")
  /\ UNCHANGED <<ask, context, sources>>

\* The embedding of a question or the database fails: the turn has no answer.
Throws ==
  /\ agent \in {"look up", "look up English", "research", "compare"}
  /\ Then("failed")
  /\ UNCHANGED <<ask, context, sources, record>>

AgentsNext ==
  \/ Throws
  \/ LookUpQuestion \/ LookUpEnglish \/ GenerateSubQueries \/ IsQueryOutOfDomain
  \/ Research \/ Compare \/ Calculate \/ Analyse \/ WriteUp \/ Remember

AgentsSpec == AgentsInit /\ [][AgentsNext]_agentVars

-----------------------------------------------------------------------------
(* aggregateAgentCosts: what an agent is said to have used *)

CallsOf(stage) == {i \in 1..Len(record.calls) : record.calls[i].stage = stage}

-----------------------------------------------------------------------------
(* Properties *)

Written == agent \in {"remember", "done"} /\ record.through = 3
Given(a, kinds) == \E piece \in record.shown[a] : piece.kind \in kinds

\* A calculated sum is never cut off; and unless memory and sum fill what the
\* writer is given, it is given something that the sources name.
GivenWhatCounts == Written =>
  /\ ask.costs => Given("writer", {"sum"})
  /\ ask.memory + (IF ask.costs THEN SumLength ELSE 0) < WriterChars =>
       \E piece \in record.shown["writer"] : piece.of \in sources

\* A turn that got to the writer has sources, and all that was found has one of
\* them but for what the second search found.
Sourced == Written =>
  /\ sources # {}
  /\ ~ask.compares => {context[i].of : i \in 1..Len(context)} \subseteq sources \cup {"memory", "calculator"}

\* Each call is put down to the stage that made it, the memory's apart, which go
\* to the writer or to no agent: so no agent has two calls without it.
CallsAttributed ==
  /\ \A i \in 1..Len(record.calls) : LET c == record.calls[i] IN
       c.stage \in CASE c.by \in {"expansion", "guardrail"} -> {0}
                     [] c.by = "analyst" -> {2}
                     [] c.by = "writer" -> {3}
                     [] c.by = "memory" -> {0, 3}
  /\ CallsOf(1) = {}
  /\ \A stage \in {2, 3} : Cardinality(CallsOf(stage)) <= IF ask.folds THEN 2 ELSE 1

\* Iterations are numbered in their order, and every tool call has its step, the
\* search of the web that of the search it stands in for.
StepsCounted ==
  /\ record.steps \in {<<>>, <<1>>, <<1, 2>>, <<1, 2, 3>>}
  /\ Len(record.tools) = Len(record.steps) + (IF Contains(record.tools, "web") THEN 1 ELSE 0)

AgentsInv == Sourced /\ CallsAttributed /\ StepsCounted

=============================================================================
