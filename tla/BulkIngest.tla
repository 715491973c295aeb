----------------------------- MODULE BulkIngest -----------------------------
(***************************************************************************)
(* One run of the ingest command line: a batch, read from a file and the   *)
(* arguments, one entry after another; or all stored documents, through a  *)
(* queue that runs so many jobs at a time and wakes whoever drains it.     *)
(***************************************************************************)
EXTENDS Integers, Sequences, FiniteSets, FiniteSetsExt, SequencesExt

CONSTANTS
  Pages, Pdfs,  \* what may be ingested
  Titles,       \* display names, of the file or of --title
  MaxEntries,   \* bound of the checking: entries of a batch
  Concurrency   \* of the queue

ASSUME BulkAssumption ==
  IsFiniteSet(Pages \cup Pdfs) /\ MaxEntries \in Nat /\ Concurrency \in Nat \ {0}

VARIABLES
  args,     \* what the command was given
  entries,  \* of a batch, those left
  queue,    \* of a sync: jobs that wait, jobs that run, and whether drain resolved
  results,  \* results, in their order
  named,    \* named[v]: the display name v was last ingested under
  exitCode  \* 3 while it runs

bulkVars == <<args, entries, queue, results, named, exitCode>>

Values == Pages \cup Pdfs
Untitled == "untitled"
Title == Titles \cup {Untitled}
InputEntry == [value : Values, title : Title]
Args == [sync : BOOLEAN, title : Title,
         file : SeqOf(InputEntry, MaxEntries), urls : SeqOf(Pages, MaxEntries)]
Result == [value : Values, status : {"ingested", "failed"}]
NoQueue == [pending |-> <<>>, running |-> {}, drained |-> FALSE, thrown |-> {}]

BulkTypeOK ==
  /\ args \in Args /\ entries \in Seq(InputEntry) /\ results \in Seq(Result)
  /\ queue \in [pending : Seq(Values), running : SUBSET Values, drained : BOOLEAN, thrown : SUBSET Values]
  /\ named \in [Values -> Title] /\ exitCode \in 0..3

BulkInit ==
  /\ args \in {a \in Args : Len(a.file) + Len(a.urls) <= MaxEntries}
  /\ entries = <<>> /\ queue = NoQueue /\ results = <<>> /\ exitCode = 3
  /\ named = [v \in Values |-> Untitled]

-----------------------------------------------------------------------------
(* Ingesting *)

NotStarted == exitCode = 3 /\ results = <<>> /\ entries = <<>> /\ queue = NoQueue

\* The options are the run's: they hold the title of the arguments alone.
IngestOptions == [title |-> args.title]

\* Ingested, failed with a result, or thrown: a PDF that cannot be read or parsed.
Outcomes(v) == {"ingested", "failed"} \cup (IF v \in Pdfs THEN {"thrown"} ELSE {})
Ingest(v, outcome) ==
  named' = IF outcome = "ingested" THEN [named EXCEPT ![v] = IngestOptions.title] ELSE named
Push(v, status) == results' = Append(results, [value |-> v, status |-> status])

\* A batch

TitleOfMany == args.title # Untitled /\ Len(args.urls) > 1
Read == args.file \o [i \in 1..Len(args.urls) |-> [value |-> args.urls[i], title |-> args.title]]

Usage ==
  /\ NotStarted /\ ~args.sync /\ (TitleOfMany \/ Read = <<>>)
  /\ exitCode' = 2
  /\ UNCHANGED <<args, entries, queue, results, named>>

StartBatch ==
  /\ NotStarted /\ ~args.sync /\ ~TitleOfMany /\ Read # <<>>
  /\ entries' = Read
  /\ UNCHANGED <<args, queue, results, named, exitCode>>

RunEntry(outcome) ==
  /\ entries # <<>> /\ outcome \in Outcomes(Head(entries).value)
  /\ Ingest(Head(entries).value, outcome)
  /\ Push(Head(entries).value, IF outcome = "ingested" THEN "ingested" ELSE "failed")
  /\ entries' = Tail(entries)
  /\ UNCHANGED <<args, queue, exitCode>>

-----------------------------------------------------------------------------
(* IngestQueue *)

\* A job that ends starts the next.
Tick(q) == IF Cardinality(q.running) >= Concurrency \/ q.pending = <<>> THEN q
           ELSE [q EXCEPT !.pending = Tail(@), !.running = @ \cup {Head(q.pending)}]

\* add starts a job at once while there is room; those that come later wait.
Added(documents) ==
  [pending |-> SubSeq(documents, Concurrency + 1, Len(documents)),
   running |-> {documents[i] : i \in {j \in 1..Len(documents) : j <= Concurrency}},
   drained |-> documents = <<>>, thrown |-> {}]

StartSync(documents) ==
  /\ NotStarted /\ args.sync
  /\ queue' = Added(documents)
  /\ UNCHANGED <<args, entries, results, named, exitCode>>

\* No database: nothing was queued.
SyncFails ==
  /\ NotStarted /\ args.sync
  /\ exitCode' = 1
  /\ UNCHANGED <<args, entries, queue, results, named>>

\* Mutant: drain resolves when nothing waits any more.
SettledEarly(q) == Tick([q EXCEPT !.drained = (q.pending = <<>>)])

\* Whoever drains is woken before the next job starts.
Settled(q) == Tick([q EXCEPT !.drained = (q.pending = <<>> /\ q.running = {})])

\* A job that throws is logged: it has no result.
JobSettles(v, outcome) ==
  /\ v \in queue.running /\ exitCode = 3 /\ outcome \in Outcomes(v)
  /\ Ingest(v, outcome)
  /\ IF outcome = "thrown" THEN UNCHANGED results ELSE Push(v, outcome)
  /\ queue' = Settled([queue EXCEPT !.running = @ \ {v},
                         !.thrown = IF outcome = "thrown" THEN @ \cup {v} ELSE @])
  /\ UNCHANGED <<args, entries, exitCode>>

-----------------------------------------------------------------------------

Failed == {i \in 1..Len(results) : results[i].status = "failed"}

PrintSummary ==
  /\ exitCode = 3 /\ (queue.drained \/ (~NotStarted /\ ~args.sync /\ entries = <<>>))
  /\ exitCode' = IF Failed # {} THEN 1 ELSE 0
  /\ UNCHANGED <<args, entries, queue, results, named>>

BulkNext ==
  \/ Usage \/ StartBatch \/ SyncFails \/ PrintSummary
  \/ \E documents \in SeqOf(Values, Cardinality(Values)) :
       IsInjective(documents) /\ StartSync(documents)
  \/ \E outcome \in {"ingested", "failed", "thrown"} :
       RunEntry(outcome) \/ \E v \in Values : JobSettles(v, outcome)

BulkSpec == BulkInit /\ [][BulkNext]_bulkVars

-----------------------------------------------------------------------------

ResultOf(v) == {i \in 1..Len(results) : results[i].value = v}

(* A sync sums up when every job has settled and not before, and no job    *)
(* waits while there is room: every document has one result, or threw.     *)
QueueDrains == args.sync =>
  /\ Cardinality(queue.running) <= Concurrency
  /\ queue.pending # <<>> => Cardinality(queue.running) = Concurrency
  /\ queue.drained => queue.pending = <<>> /\ queue.running = {}
  /\ \A v \in Values : Cardinality(ResultOf(v)) +
       (IF v \in queue.thrown \cup queue.running \cup ToSet(queue.pending) THEN 1 ELSE 0) <= 1
  /\ exitCode < 3 => queue.drained \/ queue = NoQueue

(* The exit code of a batch tells of a failure, also of one that threw.    *)
BatchTells == ~args.sync /\ exitCode \in {0, 1} =>
  /\ Len(results) = Len(Read)
  /\ exitCode = 0 => \A i \in 1..Len(results) : results[i].status = "ingested"

BulkInv == BulkTypeOK /\ QueueDrains /\ BatchTells

=============================================================================
