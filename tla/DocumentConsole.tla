--------------------------- MODULE DocumentConsole ---------------------------
(***************************************************************************)
(* The documents page of the administration and the job queue behind it.   *)
(* No cron drains the queue: the page's own polls of a job (jobGet) and of *)
(* the queue's depth (jobStats) do, while they are answered.  The page     *)
(* watches one job after an ingest or an upload, and the depth after a     *)
(* sync of everything, and says what became of them.                       *)
(***************************************************************************)
EXTENDS Integers, FiniteSets

CONSTANTS
  MaxJobs,    \* bound of the checking: jobs in all
  TypeOf,     \* TypeOf[j]
  JobAttempts,
  MaxPerPoll, \* maxJobs of a drain
  MaxParts    \* bound of the checking: times the budget cuts a PDF

ASSUME ConsoleAssumption ==
  /\ MaxJobs \in Nat \ {0} /\ TypeOf \in [1..MaxJobs -> {"URL", "PDF"}]
  /\ JobAttempts \in Nat \ {0} /\ MaxPerPoll \in Nat \ {0} /\ MaxParts \in Nat

VARIABLES
  jobs,   \* jobs[j]: its row
  poll,   \* poll[j] is the page's jobGet of j, poll[0] its jobStats
  console \* the page

consoleVars == <<jobs, poll, console>>

JobIds == 1..MaxJobs
JobStatuses == {"none", "QUEUED", "RUNNING", "DONE", "FAILED", "pruned"}
\* lease: whose run it is, of a live worker, a dead one, or one given up.
JobRow == [status : JobStatuses, attempts : 0..JobAttempts, parts : 0..MaxParts,
           lease : {"none", "live", "dead", "over"}]
NoJob == [status |-> "none", attempts |-> 0, parts |-> 0, lease |-> "none"]
ConsolePoll == [on : BOOLEAN, owned : 0..MaxJobs, processed : 0..MaxPerPoll]
NoPoll == [on |-> FALSE, owned |-> 0, processed |-> 0]
Said == [text : {"", "pending", "ended", "error", "started", "finished"}, job : 0..MaxJobs]
SaysNothing == [text |-> "", job |-> 0]
\* stats: jobStatsQuery.data, kept by the query cache when polling stops.
Console == [pollJobId : 0..MaxJobs, syncPolling : BOOLEAN, stats : {"none", "busy", "empty"},
            said : [{"URL", "PDF"} -> Said],
            ingesting : [latest : BOOLEAN, earlier : BOOLEAN],
            syncing : BOOLEAN, uploading : BOOLEAN, file : BOOLEAN]
NewConsole(stats) ==
  [pollJobId |-> 0, syncPolling |-> FALSE, stats |-> stats,
   said |-> [t \in {"URL", "PDF"} |-> SaysNothing],
   ingesting |-> [latest |-> FALSE, earlier |-> FALSE], syncing |-> FALSE, uploading |-> FALSE,
   file |-> FALSE]

ConsoleTypeOK ==
  /\ jobs \in [JobIds -> JobRow] /\ poll \in [0..MaxJobs -> ConsolePoll]
  /\ console \in Console

ConsoleInit ==
  /\ jobs = [j \in JobIds |-> NoJob]
  /\ poll = [r \in 0..MaxJobs |-> NoPoll]
  /\ console = NewConsole("none")

Has(j, statuses) == jobs[j].status \in statuses
Pending(j) == Has(j, {"QUEUED", "RUNNING"})
JobEnded(j) == Has(j, {"DONE", "FAILED", "pruned"})
Row(j, status, lease) == [jobs[j] EXCEPT !.status = status, !.lease = lease]
NextJob(j) == Has(j, {"none"}) /\ \A i \in 1..(j - 1) : ~Has(i, {"none"})
Enqueued(J) == [j \in JobIds |-> IF j \in J THEN [NoJob EXCEPT !.status = "QUEUED"] ELSE jobs[j]]
Say(t, text) == [console EXCEPT !.said[t] = [text |-> text, job |-> 0]]
ConsoleBusy == console.ingesting.latest \/ console.syncing

-----------------------------------------------------------------------------
(* Ingest, upload, sync *)

ButtonsEnabled == ~ConsoleBusy

\* The Enter key does not wait for what is under way.
EnterUrl ==
  /\ ~console.ingesting.earlier
  /\ console' = [Say("URL", "") EXCEPT
       !.ingesting = [latest |-> TRUE, earlier |-> console.ingesting.latest]]
  /\ UNCHANGED <<jobs, poll>>

ClickIngest == ButtonsEnabled /\ EnterUrl

\* A new job, or the one pending for this URL.
Target(j) == TypeOf[j] = "URL" /\ (NextJob(j) \/ Pending(j))

Ingested(j, told) ==
  /\ console.ingesting.latest /\ Target(j)
  /\ jobs' = IF Pending(j) THEN jobs ELSE Enqueued({j})
  /\ console' = [(IF told THEN [Say("URL", "pending") EXCEPT !.pollJobId = j]
                  ELSE Say("URL", "error")) EXCEPT !.ingesting.latest = FALSE]
  /\ UNCHANGED poll

\* Only the last call's callbacks run.
IngestedEarlier(j) ==
  /\ console.ingesting.earlier /\ Target(j)
  /\ jobs' = IF Pending(j) THEN jobs ELSE Enqueued({j})
  /\ console' = [console EXCEPT !.ingesting.earlier = FALSE]
  /\ UNCHANGED poll

\* An unsafe URL, no network.
IngestRefused ==
  /\ console.ingesting.latest \/ console.ingesting.earlier
  /\ console' = IF console.ingesting.latest
                THEN [Say("URL", "error") EXCEPT !.ingesting.latest = FALSE]
                ELSE [console EXCEPT !.ingesting.earlier = FALSE]
  /\ UNCHANGED <<jobs, poll>>

ClickSync ==
  /\ ButtonsEnabled
  /\ console' = [console EXCEPT !.syncing = TRUE]
  /\ UNCHANGED <<jobs, poll>>

\* The effect that watches the depth, with what the query cache holds.
SyncEffect(new) ==
  IF new.syncPolling /\ new.stats = "empty"
  THEN [new EXCEPT !.syncPolling = FALSE, !.said["URL"] = [text |-> "finished", job |-> 0]]
  ELSE new

\* enqueueSyncJobs: a job for every document that has none pending.  Data older
\* than a minute is asked for again at once.
SyncStarted(J, stale) ==
  /\ console.syncing
  /\ \A j \in J : Has(j, {"none"}) /\ TypeOf[j] = "URL"
  /\ jobs' = Enqueued(J)
  /\ console' = SyncEffect([Say("URL", "started") EXCEPT !.syncing = FALSE, !.syncPolling = TRUE])
  /\ poll' = IF stale /\ ~poll[0].on THEN [poll EXCEPT ![0].on = TRUE] ELSE poll

SyncFails ==
  /\ console.syncing
  /\ console' = [console EXCEPT !.syncing = FALSE]
  /\ UNCHANGED <<jobs, poll>>

\* Browsed for or dropped, also while another one is uploaded.
ChoosePdf(accepted) ==
  /\ console' = IF accepted THEN [Say("PDF", "") EXCEPT !.file = TRUE] ELSE Say("PDF", "error")
  /\ UNCHANGED <<jobs, poll>>

UploadPdf ==
  /\ console.file /\ ~console.uploading
  /\ console' = [Say("PDF", "") EXCEPT !.uploading = TRUE]
  /\ UNCHANGED <<jobs, poll>>

Uploaded(j) ==
  /\ console.uploading /\ TypeOf[j] = "PDF" /\ Has(j, {"none"})
  /\ jobs' = Enqueued({j})
  /\ console' = [Say("PDF", "pending") EXCEPT !.uploading = FALSE, !.file = FALSE, !.pollJobId = j]
  /\ UNCHANGED poll

UploadFails ==
  /\ console.uploading
  /\ console' = [Say("PDF", "error") EXCEPT !.uploading = FALSE]
  /\ UNCHANGED <<jobs, poll>>

-----------------------------------------------------------------------------
(* Polls *)

Enabled(r) == IF r = 0 THEN console.syncPolling ELSE console.pollJobId = r

SendPoll(r) ==
  /\ Enabled(r) /\ ~poll[r].on
  /\ poll' = [poll EXCEPT ![r].on = TRUE]
  /\ UNCHANGED <<jobs, console>>

Claimable(j) == Has(j, {"QUEUED"}) \/ (Has(j, {"RUNNING"}) /\ jobs[j].lease = "over")
Room(r) == poll[r].on /\ poll[r].owned = 0 /\ poll[r].processed < MaxPerPoll

\* Mutant: a poll of a job reads its row and drains nothing.
MayClaimByStats(r, j) == r = 0 /\ Room(r) /\ Claimable(j)

MayClaim(r, j) == Room(r) /\ Claimable(j)

\* claimNextJob, the oldest first; given up jobs out of attempts are failed.
ClaimJob(r, j) ==
  /\ MayClaim(r, j)
  /\ IF jobs[j].attempts < JobAttempts
     THEN /\ \A i \in JobIds : Claimable(i) => j <= i
          /\ jobs' = [jobs EXCEPT ![j] = [Row(j, "RUNNING", "live") EXCEPT !.attempts = @ + 1]]
          /\ poll' = [poll EXCEPT ![r].owned = j]
     ELSE jobs' = [jobs EXCEPT ![j] = Row(j, "FAILED", "none")] /\ UNCHANGED poll
  /\ UNCHANGED console

FinishJob(r, outcome) ==
  LET j == poll[r].owned IN
  /\ j # 0
  /\ jobs' = [jobs EXCEPT ![j] = Row(j, outcome, "none")]
  /\ poll' = [poll EXCEPT ![r].owned = 0, ![r].processed = @ + 1]
  /\ UNCHANGED console

\* The budget is over in the middle of a PDF.
CutJob(r) ==
  LET j == poll[r].owned IN
  /\ j # 0 /\ TypeOf[j] = "PDF" /\ jobs[j].parts < MaxParts
  /\ jobs' = [jobs EXCEPT ![j] = [Row(j, "QUEUED", "none") EXCEPT !.attempts = 0, !.parts = @ + 1]]
  /\ poll' = [poll EXCEPT ![r] = [on |-> TRUE, owned |-> 0, processed |-> MaxPerPoll]]
  /\ UNCHANGED console

Killed(r) ==
  LET j == poll[r].owned IN
  /\ j # 0
  /\ jobs' = [jobs EXCEPT ![j].lease = "dead"]
  /\ poll' = [poll EXCEPT ![r] = NoPoll]
  /\ UNCHANGED console

LeaseEnds(j) ==
  /\ jobs[j].lease = "dead"
  /\ jobs' = [jobs EXCEPT ![j].lease = "over"]
  /\ UNCHANGED <<poll, console>>

Drained(r) == /\ poll[r].on /\ poll[r].owned = 0
              /\ poll[r].processed > 0 \/ \A j \in JobIds : ~Claimable(j)

\* Mutant: every outcome is told where ingests of URLs are.
TellUrl(j) == [console EXCEPT !.pollJobId = 0, !.said["URL"] = [text |-> "ended", job |-> j]]

Tell(j) == [console EXCEPT !.pollJobId = 0, !.said[TypeOf[j]] = [text |-> "ended", job |-> j]]

\* The page learns what the row says once the drain is over; a pruned job is
\* not found, and nothing is told of it.
JobAnswered(j) ==
  /\ Drained(j)
  /\ poll' = [poll EXCEPT ![j] = NoPoll]
  /\ console' = IF console.pollJobId # j \/ Pending(j) THEN console
                ELSE IF Has(j, {"pruned"}) THEN [console EXCEPT !.pollJobId = 0] ELSE Tell(j)
  /\ UNCHANGED jobs

StatsAnswered ==
  /\ Drained(0)
  /\ poll' = [poll EXCEPT ![0] = NoPoll]
  /\ console' = SyncEffect([console EXCEPT
       !.stats = IF \E j \in JobIds : Pending(j) THEN "busy" ELSE "empty"])
  /\ UNCHANGED jobs

Answered(r) == IF r = 0 THEN StatsAnswered ELSE JobAnswered(r)

AnswerLost(r) ==
  /\ Drained(r)
  /\ poll' = [poll EXCEPT ![r] = NoPoll]
  /\ UNCHANGED <<jobs, console>>

-----------------------------------------------------------------------------
(* Meanwhile *)

EnqueueElsewhere(j) == NextJob(j) /\ jobs' = Enqueued({j}) /\ UNCHANGED <<poll, console>>

Prune(j) ==
  /\ Has(j, {"DONE", "FAILED"})
  /\ jobs' = [jobs EXCEPT ![j] = [NoJob EXCEPT !.status = "pruned"]]
  /\ UNCHANGED <<poll, console>>

\* Another page and back: the state is new, the query cache may have been kept.
LeaveConsole(kept) ==
  /\ ~ConsoleBusy /\ ~console.ingesting.earlier /\ ~console.uploading
  /\ console' = NewConsole(IF kept THEN console.stats ELSE "none")
  /\ UNCHANGED <<jobs, poll>>

ConsoleNext ==
  \/ ClickIngest \/ EnterUrl \/ IngestRefused \/ ClickSync \/ SyncFails \/ UploadPdf \/ UploadFails
  \/ \E accepted \in BOOLEAN : ChoosePdf(accepted)
  \/ \E j \in JobIds : \/ \E told \in BOOLEAN : Ingested(j, told)
                       \/ IngestedEarlier(j) \/ Uploaded(j)
                       \/ LeaseEnds(j) \/ EnqueueElsewhere(j) \/ Prune(j)
  \/ \E J \in SUBSET JobIds, stale \in BOOLEAN : SyncStarted(J, stale)
  \/ \E r \in 0..MaxJobs : \/ SendPoll(r) \/ \E j \in JobIds : ClaimJob(r, j)
                           \/ \E outcome \in {"DONE", "FAILED"} : FinishJob(r, outcome)
                           \/ CutJob(r) \/ Killed(r) \/ Answered(r) \/ AnswerLost(r)
  \/ \E kept \in BOOLEAN : LeaveConsole(kept)

Work(r) == \/ \E j \in JobIds : ClaimJob(r, j)
           \/ \E outcome \in {"DONE", "FAILED"} : FinishJob(r, outcome)
           \/ Answered(r)

\* The interval goes on, workers end by themselves or by the platform, leases
\* end; and not every answer is lost.
ConsoleFairness ==
  /\ \A r \in 0..MaxJobs : WF_consoleVars(SendPoll(r)) /\ SF_consoleVars(Work(r))
  /\ WF_consoleVars(\E j \in JobIds : LeaseEnds(j))

ConsoleSpec == ConsoleInit /\ [][ConsoleNext]_consoleVars /\ ConsoleFairness

-----------------------------------------------------------------------------

(* What the page says ended has ended, and is said where such jobs are     *)
(* started from, although answers come late and jobs are pruned.           *)
SaidIsTrue == \A t \in {"URL", "PDF"} :
  console.said[t].text = "ended" => JobEnded(console.said[t].job) /\ TypeOf[console.said[t].job] = t

ConsoleInv == ConsoleTypeOK /\ SaidIsTrue

(* A watch ends, because watching drains the queue: whatever workers die   *)
(* and answers are lost, the page does not poll for ever.                  *)
WatchesEnd ==
  /\ \A j \in JobIds : console.pollJobId = j ~> console.pollJobId # j
  /\ console.syncPolling ~> ~console.syncPolling

=============================================================================
