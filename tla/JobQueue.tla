------------------------------ MODULE JobQueue ------------------------------
(***************************************************************************)
(* The background ingest queue (server/ingest/jobs.ts): a table of job     *)
(* rows, the admin requests that insert into it, and the worker ticks      *)
(* (processIngestJobs) that drain it.  Ticks are started by the cron route *)
(* and by every admin poll, so any number of them may run at once; each    *)
(* database statement is one step here.  What a job does to its document   *)
(* is left open: a run just returns an outcome.  Module Ingest composes    *)
(* this module with the pipeline that produces the outcome.                *)
(*                                                                         *)
(* Rows are numbered in creation order, so the number also stands for the  *)
(* createdAt the claim orders by.  startedAt is abstracted to the state of *)
(* the lease it carries.                                                   *)
(***************************************************************************)
EXTENDS IngestBase

CONSTANTS
  Requesters,       \* admin requests that may run at the same time
  MaxJobs,          \* bound: rows ever created
  MaxAttempts,      \* MAX_ATTEMPTS
  RunsOutliveLease  \* may a live run last longer than RUNNING_LEASE_MS?

\* The platform caps a request at 300 s (tRPC route) or 60 s (cron route)
\* while the lease lasts 600 s: there RunsOutliveLease is FALSE.  A process
\* without such a cap (the local compose file) is the TRUE case.
ASSUME QueueAssumption ==
  /\ MaxJobs \in Nat
  /\ MaxAttempts \in Nat \ {0}
  /\ MaxBlocks \in Nat \ {0}
  /\ RunsOutliveLease \in BOOLEAN

VARIABLES
  jobs,      \* the ingest_jobs table
  created,   \* rows created so far
  request,   \* one admin request: URLs still to look up, URLs to insert
  worker,    \* one worker tick
  crashes,   \* history: workers that died holding the job since it last yielded
  raced      \* history: pages that two requests looked up before either inserted

queueVars == <<jobs, created, request, worker, crashes, raced>>

Jobs == 1..MaxJobs
Statuses == {"QUEUED", "RUNNING", "DONE", "FAILED"}
Finished == {"DONE", "FAILED"}
NoRow == [type |-> "URL", doc |-> SomeDoc, force |-> FALSE,
          status |-> "absent", attempts |-> 0, progress |-> 0,
          lease |-> "none", error |-> "none"]
Row == [type : {"URL", "PDF"}, doc : Docs, force : BOOLEAN,
        status : Statuses \cup {"absent"}, attempts : Nat, progress : Nat,
        lease : {"none", "fresh", "expired"},
        error : {"none", "ingest", "exhausted"}]

NewRow(type, d, force) ==
  [type |-> type, doc |-> d, force |-> force, status |-> "QUEUED",
   attempts |-> 0, progress |-> 0, lease |-> "none", error |-> "none"]

\* What a run hands to finalizeJob; "threw" is an exception out of runJob.
Outcome == [status : {"none", "done", "failed", "threw"}, next : {0}]
             \cup [status : {"progress"}, next : 1..MaxBlocks]
NoOutcome == [status |-> "none", next |-> 0]

WorkerPcs == {"idle", "claim", "expire", "pick", "take", "run", "finalize",
              "settle", "prune"}
Worker == [pc : WorkerPcs, job : 0..MaxJobs, doc : Docs, from : Nat,
           ran : BOOLEAN, out : Outcome]
IdleWorker == [pc |-> "idle", job |-> 0, doc |-> SomeDoc, from |-> 0,
               ran |-> FALSE, out |-> NoOutcome]
NextRound == [pc |-> "claim", job |-> 0, doc |-> SomeDoc, from |-> 0,
              ran |-> TRUE, out |-> NoOutcome]

Pending(j) == jobs[j].status \in {"QUEUED", "RUNNING"}
Queued == {j \in Jobs : jobs[j].status = "QUEUED"}

\* What is left of a request; one with nothing left to do is gone.
Request(look, insert, force) ==
  [look |-> look, insert |-> insert, force |-> force /\ look \cup insert # {}]

\* w is between winning the claim of j and writing j's outcome.
Holds(w, j) == worker[w].job = j /\ worker[w].pc \in {"run", "finalize"}

QueueInit ==
  /\ jobs = [j \in Jobs |-> NoRow]
  /\ created = 0
  /\ request = [r \in Requesters |-> Request({}, {}, FALSE)]
  /\ worker = [w \in Workers |-> IdleWorker]
  /\ crashes = [j \in Jobs |-> 0]
  /\ raced = {}

-----------------------------------------------------------------------------
(* Admin requests *)

Idle(r) == request[r].look = {} /\ request[r].insert = {}

\* document.ingestUrl asks for one URL, enqueueSyncJobs for every document at
\* once (one enqueueUrlJob per document under Promise.all).
RequestUrls(r, urls, force) ==
  /\ Idle(r) /\ urls # {}
  /\ request' = [request EXCEPT ![r] = Request(urls, {}, force)]
  /\ UNCHANGED <<jobs, created, worker, crashes, raced>>

\* Mutant: the look-up forgets the RUNNING rows.
DuplicateQueuedOnly(d) ==
  \E j \in Jobs : jobs[j].type = "URL" /\ jobs[j].doc = d /\ jobs[j].status = "QUEUED"

DuplicateOf(d) == \E j \in Jobs : jobs[j].type = "URL" /\ jobs[j].doc = d /\ Pending(j)

\* enqueueUrlJob, first statement: look for a pending job of the same URL.
\* Nothing keeps another request from looking before this one has inserted.
LookForDuplicate(r, d) ==
  LET finds == DuplicateOf(d)
      meets == \E s \in Requesters \ {r} : d \in request[s].insert IN
  /\ d \in request[r].look
  /\ request' = [request EXCEPT ![r] = Request(@.look \ {d},
       IF finds THEN @.insert ELSE @.insert \cup {d}, @.force)]
  /\ raced' = CASE finds -> raced
               [] ~finds /\ meets -> raced \cup {d}
               [] OTHER -> raced \ {d}
  /\ UNCHANGED <<jobs, created, worker, crashes>>

Insert(row) ==
  /\ created < MaxJobs
  /\ created' = created + 1
  /\ jobs' = [jobs EXCEPT ![created + 1] = row]

\* enqueueUrlJob, second statement: insert the row.
InsertUrl(r, d) ==
  /\ d \in request[r].insert
  /\ Insert(NewRow("URL", d, request[r].force))
  /\ request' = [request EXCEPT ![r] = Request(@.look, @.insert \ {d}, @.force)]
  /\ UNCHANGED <<worker, crashes, raced>>

\* enqueuePdfJob: one insert, no look-up.
InsertPdf(d) ==
  /\ d \in PdfDocs
  /\ Insert(NewRow("PDF", d, FALSE))
  /\ UNCHANGED <<request, worker, crashes, raced>>

-----------------------------------------------------------------------------
(* Worker ticks *)

Goto(w, pc) == worker' = [worker EXCEPT ![w].pc = pc]
Turned(tick, pc, j) == [tick EXCEPT !.pc = pc, !.job = j]
Running(tick, row) == [tick EXCEPT !.pc = "run", !.doc = row.doc, !.from = row.progress]
Returned(tick, out) == [tick EXCEPT !.pc = "finalize", !.out = out]

StartTick(w) ==
  /\ worker[w].pc = "idle"
  /\ worker' = [worker EXCEPT ![w] = [IdleWorker EXCEPT !.pc = "claim"]]
  /\ UNCHANGED <<jobs, created, request, crashes, raced>>

\* Mutants: a requeued job starts over; a claim keeps the old startedAt.
RequeuedFromStart(row) == [row EXCEPT !.status = "QUEUED", !.lease = "none", !.progress = 0]
TakenWithoutLease(row) == [row EXCEPT !.status = "RUNNING", !.attempts = @ + 1]

Requeued(row) == [row EXCEPT !.status = "QUEUED", !.lease = "none"]
Exhausted(row) == [row EXCEPT !.status = "FAILED", !.error = "exhausted"]
Taken(row) == [row EXCEPT !.status = "RUNNING", !.lease = "fresh", !.attempts = @ + 1]

LeaseExpired(j) == jobs[j].status = "RUNNING" /\ jobs[j].lease = "expired"

\* Mutants: the cap is off by one on either side.
RequeueAtCap(w) ==
  /\ worker[w].pc = "claim"
  /\ jobs' = [j \in Jobs |->
       IF LeaseExpired(j) /\ jobs[j].attempts <= MaxAttempts
       THEN Requeued(jobs[j])
       ELSE jobs[j]]
  /\ Goto(w, "expire")
  /\ UNCHANGED <<created, request, crashes, raced>>
FailBeyondCap(w) ==
  /\ worker[w].pc = "expire"
  /\ jobs' = [j \in Jobs |->
       IF LeaseExpired(j) /\ jobs[j].attempts > MaxAttempts
       THEN Exhausted(jobs[j])
       ELSE jobs[j]]
  /\ Goto(w, "pick")
  /\ UNCHANGED <<created, request, crashes, raced>>

\* claimNextJob, first statement: expired leases with attempts left go back.
RequeueExpired(w) ==
  /\ worker[w].pc = "claim"
  /\ jobs' = [j \in Jobs |->
       IF LeaseExpired(j) /\ jobs[j].attempts < MaxAttempts
       THEN Requeued(jobs[j])
       ELSE jobs[j]]
  /\ Goto(w, "expire")
  /\ UNCHANGED <<created, request, crashes, raced>>

\* claimNextJob, second statement: expired leases without attempts left fail.
FailExhausted(w) ==
  /\ worker[w].pc = "expire"
  /\ jobs' = [j \in Jobs |->
       IF LeaseExpired(j) /\ jobs[j].attempts >= MaxAttempts
       THEN Exhausted(jobs[j])
       ELSE jobs[j]]
  /\ Goto(w, "pick")
  /\ UNCHANGED <<created, request, crashes, raced>>

\* claimNextJob, the transaction's read: the oldest queued row.
PickOldest(w) ==
  /\ worker[w].pc = "pick"
  /\ \E j \in Queued :
       /\ \A k \in Queued : j <= k
       /\ worker' = [worker EXCEPT ![w] = Turned(@, "take", j)]
  /\ UNCHANGED <<jobs, created, request, crashes, raced>>

NothingToPick(w) ==
  /\ worker[w].pc = "pick"
  /\ Queued = {}
  /\ Goto(w, "prune")
  /\ UNCHANGED <<jobs, created, request, crashes, raced>>

\* Mutants: the guarded update matches by id alone, or anything not RUNNING.
TakeById(w) ==
  LET j == worker[w].job IN
  /\ worker[w].pc = "take"
  /\ jobs' = [jobs EXCEPT ![j] = Taken(@)]
  /\ worker' = [worker EXCEPT ![w] = Running(@, jobs[j])]
  /\ UNCHANGED <<created, request, crashes, raced>>
TakeUnlessRunning(w) ==
  /\ worker[w].pc = "take"
  /\ jobs[worker[w].job].status # "RUNNING"
  /\ TakeById(w)

\* claimNextJob, the transaction's guarded update.  Read Committed lets other
\* ticks in between the read and this update; the status in its WHERE decides.
TakeJob(w) ==
  LET j == worker[w].job IN
  /\ worker[w].pc = "take"
  /\ jobs[j].status = "QUEUED"
  /\ jobs' = [jobs EXCEPT ![j] = Taken(@)]
  /\ worker' = [worker EXCEPT ![w] = Running(@, jobs[j])]
  /\ UNCHANGED <<created, request, crashes, raced>>

\* The update matched no row: claimNextJob returns null and the tick ends.
LoseJob(w) ==
  /\ worker[w].pc = "take"
  /\ jobs[worker[w].job].status # "QUEUED"
  /\ worker' = [worker EXCEPT ![w] = Turned(@, "prune", 0)]
  /\ UNCHANGED <<jobs, created, request, crashes, raced>>

\* What the pipeline may answer: it yields only a PDF job, past the block the
\* run started from and short of the last one.
MayReturn(w, out) ==
  \/ out.status \in {"done", "failed", "threw"}
  \/ /\ out.status = "progress"
     /\ jobs[worker[w].job].type = "PDF"
     /\ worker[w].from < out.next /\ out.next < MaxBlocks

ReturnFromRun(w, out) ==
  /\ worker[w].pc = "run"
  /\ worker' = [worker EXCEPT ![w] = Returned(@, out)]
  /\ UNCHANGED <<jobs, created, request, crashes, raced>>

\* Mutants: a yield keeps the attempts, or records one block too few.
FinalizedKeepingAttempts(row, out) ==
  CASE out.status = "progress" ->
         [row EXCEPT !.status = "QUEUED", !.progress = out.next, !.lease = "none"]
    [] out.status = "done" -> [row EXCEPT !.status = "DONE", !.error = "none"]
    [] OTHER -> [row EXCEPT !.status = "FAILED", !.error = "ingest"]
FinalizedOneBack(row, out) ==
  IF out.status = "progress"
  THEN [row EXCEPT !.status = "QUEUED", !.progress = out.next - 1,
                   !.lease = "none", !.attempts = 0]
  ELSE FinalizedKeepingAttempts(row, out)

\* The row finalizeJob writes for an outcome; it is addressed by id alone.
Finalized(row, out) ==
  CASE out.status = "progress" ->
         [row EXCEPT !.status = "QUEUED", !.progress = out.next,
                     !.lease = "none", !.attempts = 0]
    [] out.status = "done" -> [row EXCEPT !.status = "DONE", !.error = "none"]
    [] OTHER -> [row EXCEPT !.status = "FAILED", !.error = "ingest"]

\* finalizeJob's row update, or markJobFailed for a run that threw.  Only a
\* completed or failed run goes on to the document (Settle).  Updating a row
\* that was pruned throws, and so does the safety net: nothing is written.
FinalizeJob(w) ==
  LET j == worker[w].job
      out == worker[w].out
      there == jobs[j].status # "absent" IN
  /\ worker[w].pc = "finalize"
  /\ jobs' = IF there THEN [jobs EXCEPT ![j] = Finalized(@, out)] ELSE jobs
  /\ crashes' = IF there /\ out.status = "progress"
                THEN [crashes EXCEPT ![j] = 0] ELSE crashes
  /\ worker' = [worker EXCEPT ![w] =
       IF there /\ out.status \in {"done", "failed"}
       THEN [@ EXCEPT !.pc = "settle"] ELSE NextRound]
  /\ UNCHANGED <<created, request, raced>>

\* finalizeJob's second statement; the document it writes belongs to Ingest.
Settle(w) ==
  /\ worker[w].pc = "settle"
  /\ worker' = [worker EXCEPT ![w] = NextRound]
  /\ UNCHANGED <<jobs, created, request, crashes, raced>>

\* The loop stops on maxJobs or on the time budget: never before the first job.
StopTick(w) ==
  /\ worker[w].pc = "claim"
  /\ worker[w].ran
  /\ Goto(w, "prune")
  /\ UNCHANGED <<jobs, created, request, crashes, raced>>

\* pruneOldJobs: finished rows past PRUNE_AFTER_MS go; any may be that old.
PruneOldJobs(w) ==
  /\ worker[w].pc = "prune"
  /\ \E old \in SUBSET {j \in Jobs : jobs[j].status \in Finished} :
       jobs' = [j \in Jobs |-> IF j \in old THEN NoRow ELSE jobs[j]]
  /\ worker' = [worker EXCEPT ![w] = IdleWorker]
  /\ UNCHANGED <<created, request, crashes, raced>>

\* The process dies (60 s or 300 s cap, deploy, out of memory) at any step.
Crash(w) ==
  /\ worker[w].pc # "idle"
  /\ worker' = [worker EXCEPT ![w] = IdleWorker]
  /\ crashes' = [j \in Jobs |-> IF Holds(w, j) THEN crashes[j] + 1 ELSE crashes[j]]
  /\ UNCHANGED <<jobs, created, request, raced>>

\* RUNNING_LEASE_MS passes since startedAt.
LeaseExpires(j) ==
  /\ jobs[j].status = "RUNNING"
  /\ jobs[j].lease = "fresh"
  /\ RunsOutliveLease \/ \A w \in Workers : ~Holds(w, j)
  /\ jobs' = [jobs EXCEPT ![j].lease = "expired"]
  /\ UNCHANGED <<created, request, worker, crashes, raced>>

-----------------------------------------------------------------------------
WorkerStep(w) ==
  \/ RequeueExpired(w) \/ FailExhausted(w)
  \/ PickOldest(w) \/ NothingToPick(w) \/ TakeJob(w) \/ LoseJob(w)
  \/ \E out \in Outcome : ReturnFromRun(w, out) /\ MayReturn(w, out)
  \/ FinalizeJob(w) \/ Settle(w) \/ StopTick(w) \/ PruneOldJobs(w)

RequestStep ==
  \/ \E r \in Requesters, urls \in SUBSET Docs, force \in BOOLEAN :
       RequestUrls(r, urls, force)
  \/ \E r \in Requesters, d \in Docs : LookForDuplicate(r, d) \/ InsertUrl(r, d)
  \/ \E d \in PdfDocs : InsertPdf(d)

QueueNext ==
  \/ RequestStep
  \/ \E w \in Workers : StartTick(w) \/ WorkerStep(w) \/ Crash(w)
  \/ \E j \in Jobs : LeaseExpires(j)

QueueSpec == QueueInit /\ [][QueueNext]_queueVars

\* Ticks keep coming (admin polls, cron), the steps of a live tick happen, time
\* passes; and although any tick may die, ticks do not die for ever before they
\* reach the row they came for.
Fairness ==
  /\ \A j \in Jobs : WF_queueVars(LeaseExpires(j))
  /\ \A w \in Workers :
       /\ WF_queueVars(StartTick(w))
       /\ WF_queueVars(WorkerStep(w))
       /\ SF_queueVars(RequeueExpired(w)) /\ SF_queueVars(FailExhausted(w))
       /\ SF_queueVars(PickOldest(w)) /\ SF_queueVars(TakeJob(w))

LiveQueueSpec == QueueSpec /\ Fairness

-----------------------------------------------------------------------------
(* What is checked *)

QueueTypeOK ==
  /\ jobs \in [Jobs -> Row]
  /\ created \in 0..MaxJobs
  /\ request \in [Requesters -> [look : SUBSET Docs, insert : SUBSET Docs,
                                 force : BOOLEAN]]
  /\ worker \in [Workers -> Worker]
  /\ \A w \in Workers :
       worker[w].pc \in {"take", "run", "finalize", "settle"} => worker[w].job \in Jobs
  /\ crashes \in [Jobs -> Nat]
  /\ raced \subseteq Docs

\* A job is never run by two ticks: a tick that lost the guarded update, or
\* whose job was requeued, does not process the row (claimNextJob).
OneWorkerPerJob == \A j \in Jobs : \A v, w \in Workers :
  Holds(v, j) /\ Holds(w, j) => v = w

Held(j) == \E w \in Workers : Holds(w, j)

\* attempts counts crashes, not claims: a job fails as exhausted exactly when
\* MaxAttempts workers died with it since it last yielded, and a graceful
\* yield starts the count again (finalizeJob, claimNextJob).
AttemptsCountCrashes == \A j \in Jobs :
  /\ crashes[j] <= MaxAttempts
  /\ jobs[j].status \in {"QUEUED", "RUNNING"} =>
       jobs[j].attempts = crashes[j] + (IF Held(j) THEN 1 ELSE 0)
  /\ jobs[j].error = "exhausted" => crashes[j] = MaxAttempts

\* No job is tried more often than the cap between two yields, even where runs
\* may outlive their lease.
AttemptsBounded == \A j \in Jobs :
  /\ jobs[j].attempts <= MaxAttempts
  /\ jobs[j].status = "QUEUED" => jobs[j].attempts < MaxAttempts

\* What makes the two above inductive while no run outlives its lease: the row
\* of a held job is RUNNING under a live lease and its cursor is the block the
\* run started from, so nobody requeues, fails or takes it before the outcome
\* is written; rows not created yet carry no crash; and only a FAILED row is
\* exhausted.
HoldersAreCurrent ==
  /\ \A w \in Workers, j \in Jobs : Holds(w, j) =>
       /\ jobs[j].status = "RUNNING" /\ jobs[j].lease = "fresh"
       /\ worker[w].from = jobs[j].progress
       /\ worker[w].pc = "finalize" /\ worker[w].out.status = "progress"
            => worker[w].from < worker[w].out.next
  /\ \A j \in Jobs : j > created => jobs[j] = NoRow /\ crashes[j] = 0
  /\ \A j \in Jobs : jobs[j].error = "exhausted" => jobs[j].status = "FAILED"

OnePendingRow(d) == \A j, k \in Jobs :
  /\ jobs[j].type = "URL" /\ Pending(j) /\ jobs[j].doc = d
  /\ jobs[k].type = "URL" /\ Pending(k) /\ jobs[k].doc = d
  => j = k

\* The comment on enqueueUrlJob promises one pending row per page. What its
\* look-up gives is less: a page has a second pending row only after two
\* requests looked it up before either had inserted, and no longer than until
\* a request finds it without a pending row again.
OnePendingUnlessRaced == \A d \in Docs \ raced : OnePendingRow(d)

\* A finished row is never written again, only pruned.
FinishedIsFinal == [][\A j \in Jobs :
  jobs[j].status \in Finished => jobs'[j] \in {jobs[j], NoRow}]_queueVars

\* The cursor of a job only moves forward: no tick goes back over blocks that
\* an earlier tick recorded.
CursorAdvances == [][\A j \in Jobs :
  jobs'[j].status # "absent" => jobs'[j].progress >= jobs[j].progress]_queueVars

\* A job in the queue is done, failed or exhausted in the end, whatever
\* crashes, yields and competing ticks it meets.
EveryJobFinishes == \A j \in Jobs : Pending(j) ~> ~Pending(j)

\* The queue implements the job life cycle of module JobLifecycle.
Phase(j) ==
  CASE jobs[j].status = "absent" -> "unknown"
    [] jobs[j].status = "QUEUED" -> "waiting"
    [] jobs[j].status = "RUNNING" -> IF Held(j) THEN "held" ELSE "lost"
    [] jobs[j].status = "DONE" -> "done"
    [] jobs[j].status = "FAILED" -> "failed"

Lifecycle == INSTANCE JobLifecycle WITH
  MaxLosses <- MaxAttempts,
  phase <- [j \in Jobs |-> Phase(j)],
  owners <- [j \in Jobs |-> {w \in Workers : Holds(w, j)}],
  losses <- crashes
ImplementsLifecycle == Lifecycle!Spec

=============================================================================
