--------------------------- MODULE PipelineTester ---------------------------
(***************************************************************************)
(* Glass-box pipeline runs: testPipeline creates a RUNNING row and leaves  *)
(* the work to executePipelineTest behind after(), which stores the        *)
(* outcome and prunes old rows in two queries; the tester page asks for    *)
(* runs, polls the newest one, and shows stored traces.                    *)
(*                                                                         *)
(* Runs are numbered as they are created.  One page is followed; other     *)
(* administrators' runs are those it did not ask for.                      *)
(***************************************************************************)
EXTENDS Integers, FiniteSets, FiniteSetsExt

CONSTANTS
  MaxRuns, \* runs created in all
  Keep     \* MAX_PIPELINE_RUNS; also the length of the page's list

ASSUME TesterAssumption == MaxRuns \in Nat \ {0} /\ Keep \in Nat \ {0}

VARIABLES
  status,  \* status[r] of the row of run r
  worker,  \* worker[r]: executePipelineTest
  page,    \* the tester page
  unpruned, \* history: outcomes stored whose pruning was cut short or failed
  crossed  \* history: rows deleted by a pruning that began before they were there

testerVars == <<status, worker, page, unpruned, crossed>>

Runs == 1..MaxRuns
Statuses == {"none", "RUNNING", "SUCCESS", "FAILED", "deleted"}
Terminal == {"SUCCESS", "FAILED"}

\* keep: the rows found by the first query of prunePipelineRuns.
Worker == [pc : {"none", "run", "find", "delete", "over"}, keep : SUBSET Runs]
NoWorker == [pc |-> "none", keep |-> {}]
WorkerOver == [pc |-> "over", keep |-> {}]

\* asked: requests without their reply, pending the last of them unless it was
\* reset; active: activeRunId, and seen what
\* its last poll brought; selected: selectedRunId; trace: selectedTrace, by its
\* run; listed: the runs the list shows as SUCCESS.  0 is none.
TesterPage == [asked : SUBSET Runs, pending : 0..MaxRuns, error : BOOLEAN, active : 0..MaxRuns,
         seen : {"none", "RUNNING", "SUCCESS", "FAILED"}, stalled : BOOLEAN,
         selected : 0..MaxRuns, trace : 0..MaxRuns, listed : SUBSET Runs]
NewPage == [asked |-> {}, pending |-> 0, error |-> FALSE, active |-> 0, seen |-> "none",
            stalled |-> FALSE, selected |-> 0, trace |-> 0, listed |-> {}]

TesterTypeOK ==
  /\ status \in [Runs -> Statuses]
  /\ worker \in [Runs -> Worker]
  /\ page \in TesterPage
  /\ unpruned \in 0..MaxRuns
  /\ crossed \subseteq Runs

TesterInit ==
  /\ status = [r \in Runs |-> "none"]
  /\ worker = [r \in Runs |-> NoWorker]
  /\ page = NewPage /\ unpruned = 0 /\ crossed = {}

RunRows == {r \in Runs : status[r] \in {"RUNNING", "SUCCESS", "FAILED"}}
NewestRows(n) == {r \in RunRows : Cardinality({s \in RunRows : s > r}) < n}
SetWorker(r, new) == worker' = [worker EXCEPT ![r] = new]
WorkerAt(r, pc) == worker[r].pc = pc
Histories == <<unpruned, crossed>>

-----------------------------------------------------------------------------
(* testPipeline and executePipelineTest *)

NextRun(r) == status[r] = "none" /\ \A s \in 1..(r - 1) : status[s] # "none"

CreateRun(r) ==
  /\ NextRun(r)
  /\ status' = [status EXCEPT ![r] = "RUNNING"]
  /\ SetWorker(r, [NoWorker EXCEPT !.pc = "run"])

\* By another administrator.
CreateElsewhere(r) == CreateRun(r) /\ UNCHANGED page /\ UNCHANGED Histories

\* The outcome, unless the update fails and the row stays RUNNING.
Finish(r, outcome) ==
  /\ WorkerAt(r, "run")
  /\ status' = [status EXCEPT ![r] = outcome]
  /\ SetWorker(r, [NoWorker EXCEPT !.pc = "find"])
  /\ UNCHANGED page /\ UNCHANGED Histories

\* Mutant: one row more is kept.
FindMore == NewestRows(Keep + 1)

FindKept == NewestRows(Keep)

FindRecent(r) ==
  /\ WorkerAt(r, "find")
  /\ SetWorker(r, [pc |-> "delete", keep |-> FindKept])
  /\ UNCHANGED <<status, page>> /\ UNCHANGED Histories

Doomed(keep) == {r \in RunRows : r \notin keep /\ status[r] \in Terminal}

DeleteOld(r) ==
  /\ WorkerAt(r, "delete")
  /\ status' = [s \in Runs |-> IF s \in Doomed(worker[r].keep) THEN "deleted" ELSE status[s]]
  /\ SetWorker(r, WorkerOver)
  /\ crossed' = crossed \cup {s \in Doomed(worker[r].keep) : \A k \in worker[r].keep : s > k}
  /\ UNCHANGED <<page, unpruned>>

\* A query of the pruning fails, or the platform ends the invocation anywhere.
EndEarly(r) ==
  /\ worker[r].pc \in {"run", "find", "delete"}
  /\ SetWorker(r, WorkerOver)
  /\ unpruned' = unpruned + (IF WorkerAt(r, "run") THEN 0 ELSE 1)
  /\ UNCHANGED <<status, page, crossed>>

-----------------------------------------------------------------------------
(* The page *)

SetPage(new) == page' = new
Server == <<status, worker, unpruned, crossed>>
isRunning == page.active # 0 /\ page.seen = "RUNNING"
CanRun == page.pending = 0 /\ ~isRunning

AskForRun(r) ==
  /\ CanRun
  /\ CreateRun(r)
  /\ SetPage([page EXCEPT !.pending = r, !.error = FALSE, !.asked = @ \cup {r}])
  /\ UNCHANGED Histories

\* The request never reaches the server.
AskInVain ==
  /\ CanRun
  /\ SetPage([page EXCEPT !.error = TRUE])
  /\ UNCHANGED Server

Listed == {r \in NewestRows(Keep) : status[r] = "SUCCESS"}

Unless(r) == IF page.pending = r THEN 0 ELSE page.pending

\* Mutant: the stored trace stays in front of the new run.
OnSuccessKeepsTrace(r) ==
  [page EXCEPT !.asked = @ \ {r}, !.pending = Unless(r), !.active = r, !.seen = "none",
               !.stalled = FALSE, !.listed = Listed]

\* onSuccess, also of a request the page was reset during: r is the active run.
OnSuccess(r) ==
  [page EXCEPT !.asked = @ \ {r}, !.pending = Unless(r), !.active = r, !.seen = "none",
               !.stalled = FALSE, !.selected = 0, !.trace = 0,
               !.listed = Listed]

ReplyToRun(r) ==
  /\ r \in page.asked
  /\ SetPage(OnSuccess(r))
  /\ UNCHANGED Server

ReplyLost(r) ==
  /\ r \in page.asked
  /\ SetPage([page EXCEPT !.asked = @ \ {r}, !.pending = Unless(r),
                          !.error = @ \/ page.pending = r])
  /\ UNCHANGED Server

\* getTestRun of the active run, until it is seen to have ended or has stalled.
Poll ==
  /\ page.active # 0 /\ page.seen \in {"none", "RUNNING"} /\ ~page.stalled
  /\ status[page.active] # "deleted"
  /\ SetPage([page EXCEPT !.seen = status[page.active]])
  /\ UNCHANGED Server

\* RUN_STALL_MS after its creation, longer than an invocation may live.
Stall ==
  /\ isRunning /\ ~page.stalled /\ WorkerAt(page.active, "over")
  /\ SetPage([page EXCEPT !.stalled = TRUE])
  /\ UNCHANGED Server

\* loadRun, from a row of the list; the mutation's state is reset.
LoadRun(r) ==
  /\ r \in page.listed
  /\ SetPage([page EXCEPT !.selected = r, !.active = 0, !.seen = "none", !.stalled = FALSE,
                          !.pending = 0, !.error = FALSE])
  /\ UNCHANGED Server

\* The row of the selected run has come; of a pruned one only an error comes.
Selected ==
  /\ page.selected # 0 /\ status[page.selected] \in Terminal
  /\ page.trace # page.selected
  /\ SetPage([page EXCEPT !.trace = page.selected])
  /\ UNCHANGED Server

\* An example or the other pipeline is chosen: testPipeline.reset().
Reset ==
  /\ page.pending # 0 \/ page.error
  /\ SetPage([page EXCEPT !.pending = 0, !.error = FALSE])
  /\ UNCHANGED Server

\* The page is opened anew.
Reload == page # NewPage /\ SetPage([NewPage EXCEPT !.listed = Listed]) /\ UNCHANGED Server

TesterNext ==
  \/ \E r \in Runs :
       \/ CreateElsewhere(r) \/ FindRecent(r) \/ DeleteOld(r) \/ EndEarly(r)
       \/ \E outcome \in {"SUCCESS", "FAILED", "RUNNING"} : Finish(r, outcome)
       \/ AskForRun(r) \/ ReplyToRun(r) \/ ReplyLost(r) \/ LoadRun(r)
  \/ AskInVain \/ Poll \/ Stall \/ Selected \/ Reset \/ Reload

TesterSpec == TesterInit /\ [][TesterNext]_testerVars

-----------------------------------------------------------------------------

\* What the visualizer is given: selectedTrace ?? freshTrace.
Displayed == IF page.trace # 0 THEN page.trace
             ELSE IF page.seen = "SUCCESS" THEN page.active ELSE 0

(* "So the table stays bounded": of rows with an outcome there are never   *)
(* more than Keep, and one for every pruning under way, failed or cut      *)
(* short; rows left RUNNING by a dead worker are not counted, they stay.   *)
HistoryBounded ==
  Cardinality({r \in RunRows : status[r] \in Terminal})
    <= Keep + unpruned + Cardinality({r \in Runs : worker[r].pc \in {"find", "delete"}})

(* A run is lost only to Keep newer ones, whatever the prunings of         *)
(* several runs overlap, except to a pruning whose list was read before    *)
(* the run was there; and never while its own worker is at it.             *)
LostToNewer ==
  \A r \in Runs : status[r] = "deleted" =>
    /\ ~WorkerAt(r, "run")
    /\ r \in crossed \/ Cardinality({s \in Runs : s > r /\ status[s] # "none"}) >= Keep

(* The page never shows the trace of one run for another: what it shows is *)
(* the run it follows or the stored one last chosen, unless that one's row *)
(* has not come (yet, or at all).                                          *)
ShowsItsRun ==
  Displayed # 0 =>
    \/ Displayed = page.active /\ page.selected = 0
    \/ Displayed = page.selected /\ page.active = 0
    \/ page.selected # 0 /\ page.active = 0 /\ Displayed # page.selected

TesterInv == TesterTypeOK /\ HistoryBounded /\ LostToNewer /\ ShowsItsRun

=============================================================================
