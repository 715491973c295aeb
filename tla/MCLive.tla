------------------------------- MODULE MCLive -------------------------------
(***************************************************************************)
(* What has to end, for TLC, each part by itself: the stream of an answer, *)
(* calls of the models, translations, and the watching of jobs in the      *)
(* console.                                                                *)
(***************************************************************************)
EXTENDS AnswerStream, LlmClient, Translation, DocumentConsole, TLC

CONSTANT s1

-----------------------------------------------------------------------------
(* LlmClient *)

LlmRetries == [p \in Providers |-> IF p = "groq" THEN 2 ELSE 1]

-----------------------------------------------------------------------------
(* Translation: two documents of the same text, and one model, which may   *)
(* be asked once a day.  The process restarts once a day at most.          *)

SameText == [d \in TransDocs |-> <<s1>>]
OnceADay == [m \in Models |-> 1]
TransStep == TransNext /\ ~(restarted /\ Restart)

-----------------------------------------------------------------------------
(* DocumentConsole: one call of the page, one watch and one poll at a time,*)
(* and no poll while a call is under way; workers do not run out of their  *)
(* budget.  (Both watches and cut runs: MCPages.)                          *)

SecondIsPdf == [j \in 1..MaxJobs |-> IF j = 2 THEN "PDF" ELSE "URL"]
AskedFor(c) == {what \in {"syncing", "uploading"} : c[what]}
                 \cup {what \in {"ingesting"} : c.ingesting.latest}
Watches(c) == c.pollJobId # 0 \/ c.syncPolling
ConsoleStep ==
  LET new == console'
      polls == \E r \in 0..MaxJobs : poll'[r].on IN
  /\ ConsoleNext
  /\ Cardinality(AskedFor(new)) <= 1
  /\ ~(new.pollJobId # 0 /\ new.syncPolling)
  /\ Cardinality({r \in 0..MaxJobs : poll'[r].on}) <= 1
  /\ AskedFor(new) # {} => ~polls
  /\ new.ingesting.earlier => ~Watches(new)
  /\ new.file => ~polls /\ ~Watches(new) /\ AskedFor(new) \subseteq {"uploading"}
  /\ new # console /\ new = NewConsole(new.stats) => ~polls
  /\ (\E j \in JobIds : Has(j, {"DONE", "FAILED"}) /\ jobs'[j].status = "pruned") =>
       AskedFor(console) = {}
  /\ new.said["PDF"].text = "error" =>
       ~polls /\ ~Watches(new) /\ ~new.syncing /\ ~new.ingesting.latest

-----------------------------------------------------------------------------
(* A behaviour is about the part its first state picks; the others stay as *)
(* they begin, in one way where there are several.                         *)

VARIABLE part

MCInit ==
  /\ part \in {"stream", "llm", "translation", "console"}
  /\ StreamInit /\ LlmInit /\ ConsoleInit
  /\ TransInit /\ (part # "translation" => keys = Keys)

OfStream == part = "stream" /\ StreamNext
OfLlm == part = "llm" /\ LlmNext
OfTranslation == part = "translation" /\ TransStep
OfConsole == part = "console" /\ ConsoleStep

Stays(which, variables) == part # which /\ UNCHANGED variables

MCNext ==
  /\ UNCHANGED part
  /\ OfStream \/ Stays("stream", streamVars)
  /\ OfLlm \/ Stays("llm", llmVars)
  /\ OfTranslation \/ Stays("translation", transVars)
  /\ OfConsole \/ Stays("console", consoleVars)

MCVars == <<part, streamVars, llmVars, transVars, consoleVars>>

\* Nothing that is fair is enabled in a part that stays as it begins.
MCSpec ==
  /\ MCInit /\ [][MCNext]_MCVars
  /\ StreamFairness /\ LlmFairness /\ TransFairness /\ ConsoleFairness

-----------------------------------------------------------------------------
(* A breaker that opened lets calls through again some time, and a document*)
(* whose translation has begun is translated or given up.                  *)
BackendsRecover == BreakersRecover /\ DocsEnd

=============================================================================
