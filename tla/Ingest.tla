------------------------------- MODULE Ingest -------------------------------
(***************************************************************************)
(* Background ingestion as it runs: the job queue (JobQueue) whose workers *)
(* run the pipeline (IngestPipeline).  runJob starts a run with the row's  *)
(* cursor, the run's result becomes the job's outcome, and finalizeJob     *)
(* writes the document's status after the job's row.                       *)
(***************************************************************************)
EXTENDS JobQueue, IngestPipeline

VARIABLES           \* histories, by document
  cut,      \* it may show the work of an unfinished or of another run
  mixed,    \* its blocks are of more than one text
  unpurged  \* the purge of its cached answers failed

history == <<cut, mixed, unpurged>>
vars == <<queueVars, pipelineVars, history>>

Init ==
  /\ QueueInit
  /\ PipelineInit
  /\ cut = [d \in Docs |-> FALSE]
  /\ mixed = [d \in Docs |-> FALSE]
  /\ unpurged = [d \in Docs |-> FALSE]

\* A step of one half leaves the other half alone.
Queue(A) == A /\ UNCHANGED <<pipelineVars, history>>
Pipeline(A) == A /\ UNCHANGED <<queueVars, history>>

JobOf(w) == jobs[worker[w].job]

\* A tick whose job row is finished has yet to write the status of document d.
Unsettled(d) == \E w \in Workers : worker[w].pc = "settle" /\ worker[w].doc = d

\* Another job has begun document d and not finished it: it runs, or its worker
\* died and the lease has not expired yet, or it yielded.
Begun(k) == 
  \/ jobs[k].status = "RUNNING"
  \/ jobs[k].status = "QUEUED" /\ jobs[k].progress > 0
Crosses(d, j) ==
  \/ Unsettled(d)
  \/ \E k \in Jobs \ {j} : jobs[k].doc = d /\ Begun(k)

\* Mutant: the row's cursor is not passed on.
ClaimFromStart(w) ==
  LET row == JobOf(w) IN
  /\ TakeJob(w)
  /\ BeginRun(w, row.doc, row.type = "PDF", 0, row.force)
  /\ cut' = [cut EXCEPT ![row.doc] = @ \/ Crosses(row.doc, worker[w].job)]
  /\ UNCHANGED <<mixed, unpurged>>

\* Claiming a job and calling the pipeline for it.
Claim(w) ==
  LET row == JobOf(w) IN
  /\ TakeJob(w)
  /\ BeginRun(w, row.doc, row.type = "PDF",
              IF row.type = "PDF" THEN row.progress ELSE 0, row.force)
  /\ cut' = [cut EXCEPT ![row.doc] = @ \/ Crosses(row.doc, worker[w].job)]
  /\ UNCHANGED <<mixed, unpurged>>

\* Mutant: the tick moves on while its run is still going.
ReportEarly(w) ==
  /\ ~At(w, "off")
  /\ ReturnFromRun(w, run[w].res)
  /\ UNCHANGED <<pipelineVars, history>>

\* The pipeline's result reaches the worker.
Report(w) ==
  /\ At(w, "return")
  /\ ReturnFromRun(w, run[w].res)
  /\ EndRun(w)
  /\ UNCHANGED <<doc, stored, stale, history>>

\* The document half of finalizeJob.
SettleDocument(w) ==
  /\ Settle(w)
  /\ SetStatus(worker[w].doc, IF worker[w].out.status = "done" THEN "SYNCED" ELSE "FAILED")
  /\ UNCHANGED <<stored, stale, run, history>>

\* A resumed run that fails leaves the blocks of earlier ticks behind.
GivesUp(w) ==
  /\ worker[w].from > 0
  /\ run'[w].pc = "return" /\ run'[w].res.status \in {"failed", "threw"}

\* A run resumes a document with another text than the one it was opened with:
\* the PDF is parsed and translated anew by every tick, and a translation that
\* fails leaves the text as it was.
Resumes(w) == At(w, "read") /\ run'[w].pc \in {"block", "invalidate"}
ResumesOtherText(w) == Resumes(w) /\ run[w].text # doc[run[w].doc].hash

\* One step of the run; opening the document afresh makes up for what was cut.
RunJob(w) ==
  LET d == worker[w].doc
      opens == At(w, "open") IN
  /\ RunStep(w)
  /\ cut' = [cut EXCEPT ![d] =
       IF opens THEN @ /\ Crosses(d, worker[w].job) ELSE @ \/ GivesUp(w)]
  /\ mixed' = [mixed EXCEPT ![d] = ~opens /\ (@ \/ ResumesOtherText(w))]
  /\ unpurged' = [unpurged EXCEPT ![d] = @ /\ ~opens]
  /\ UNCHANGED queueVars

\* The purge of the cached answers fails, which the run does not notice.
LosePurge(w) ==
  /\ InvalidateFails(w)
  /\ unpurged' = [unpurged EXCEPT ![worker[w].doc] = TRUE]
  /\ UNCHANGED <<queueVars, cut, mixed>>

CrashWorker(w) ==
  /\ Crash(w)
  /\ cut' = IF worker[w].pc \in {"run", "finalize"}
            THEN [cut EXCEPT ![worker[w].doc] = TRUE] ELSE cut
  /\ EndRun(w)
  /\ UNCHANGED <<doc, stored, stale, mixed, unpurged>>

\* enqueueSyncJobs names every document there is, ingestUrl one page.
RequestSync(r, force) ==
  Queue(RequestUrls(r, {d \in Docs : doc[d].here}, force))
RequestPage(r, d) ==
  d \notin PdfDocs /\ Queue(RequestUrls(r, {d}, FALSE))

Requests ==
  \/ \E r \in Requesters, force \in BOOLEAN : RequestSync(r, force)
  \/ \E r \in Requesters, d \in Docs :
       \/ RequestPage(r, d)
       \/ Queue(LookForDuplicate(r, d))
       \/ Queue(InsertUrl(r, d))
  \/ \E d \in PdfDocs : Queue(InsertPdf(d))

Ticks(w) ==
  \/ Queue(StartTick(w)) \/ Queue(RequeueExpired(w)) \/ Queue(FailExhausted(w))
  \/ Queue(PickOldest(w)) \/ Queue(NothingToPick(w)) \/ Queue(LoseJob(w))
  \/ Claim(w)
  \/ RunJob(w) \/ LosePurge(w)
  \/ Report(w)
  \/ Queue(FinalizeJob(w)) \/ SettleDocument(w)
  \/ Queue(StopTick(w)) \/ Queue(PruneOldJobs(w))
  \/ CrashWorker(w)

Next ==
  \/ Requests
  \/ \E w \in Workers : Ticks(w)
  \/ \E j \in Jobs : Queue(LeaseExpires(j))
  \/ \E d \in Docs : Pipeline(DeleteDocument(d))
  \/ \E d \in Docs, id \in 1..MaxDocIds : Pipeline(InvalidateDeleted(d, id))

Spec == Init /\ [][Next]_vars

-----------------------------------------------------------------------------
(* What is checked *)

TypeOK ==
  /\ jobs \in [Jobs -> Row]
  /\ worker \in [Workers -> Worker]
  /\ doc \in [Docs -> Document]
  /\ \A w \in Workers :
       /\ run[w].pc \in RunPcs
       /\ At(w, "off") <=> worker[w].pc # "run"
       /\ ~At(w, "off") => run[w].doc = worker[w].doc

\* w works for document d: from its claim to the last write finalizeJob makes.
WorksOn(w, d) == worker[w].doc = d /\ worker[w].pc \in {"run", "finalize"}

OneRunOn(d) == \A v, w \in Workers : WorksOn(v, d) /\ WorksOn(w, d) => v = w

\* No two workers ingest the same page at the same time, unless two requests
\* looked it up together: the look-up before the insert and the guarded claim
\* keep it to one run.  (A PDF is enqueued without a look-up.)
OneRunUnlessRaced == \A d \in Docs \ (PdfDocs \cup raced) : OneRunOn(d)

Settled(d) == \A w \in Workers : ~(worker[w].doc = d /\ worker[w].pc \in {"run", "finalize", "settle"})

\* A document listed as SYNCED, with no run left on it, holds every block of
\* the text its hash names once and nothing else, unless a run was cut short,
\* overlapped with another, or resumed it with another text.
Synced(d) == doc[d].here /\ doc[d].status = "SYNCED" /\ Settled(d)
SyncedIsWhole == \A d \in Docs : Synced(d) /\ ~cut[d] /\ ~mixed[d] => Whole(d)

\* A yielded job's cursor is exact: while it waits, the document it will resume
\* holds one block at each of the first `progress` places, of whatever text the
\* tick had, and nothing beyond.
OneBlockAt(d, b) == \E t \in Texts :
  stored[d][t][b] = 1 /\ \A u \in Texts \ {t} : stored[d][u][b] = 0
NoBlockAt(d, b) == \A t \in Texts : stored[d][t][b] = 0
Prefix(d, n) == \A b \in 1..MaxBlocks :
  IF b <= n THEN OneBlockAt(d, b) ELSE NoBlockAt(d, b)
CursorIsExact == \A j \in Jobs :
  LET d == jobs[j].doc IN
  jobs[j].status = "QUEUED" /\ jobs[j].progress > 0 /\ doc[d].here /\ ~cut[d] =>
    Prefix(d, jobs[j].progress) /\ doc[d].count = jobs[j].progress

\* Answers cached from a document's former chunks are gone by the time it is
\* listed as SYNCED and left alone, unless the purge that was to drop them
\* failed.
SyncedIsFresh == \A d \in Docs :
  Synced(d) /\ ~cut[d] /\ ~unpurged[d] => doc[d].id \notin stale[d]

\* What the pipeline hands back is what module JobQueue assumes of it: it yields
\* only a PDF job, past the block the tick started from and short of the last.
\* So every behaviour here is one of the queue, whose theorems hold here too.
ImplementsQueue == QueueSpec

\* The claim of the header of jobs.ts and of the skip in persistIngested.
SyncedMeansInSync == \A d \in Docs : Synced(d) => Whole(d)

=============================================================================
