--------------------------- MODULE JobQueueProofs ---------------------------
(***************************************************************************)
(* Theorems about the ingest queue, for any number of ticks, requests,     *)
(* documents and rows, the implementation of JobLifecycle among them.      *)
(***************************************************************************)
EXTENDS JobQueue, TLAPS

LEMMA SomeDocType == SomeDoc \in Docs
  BY BaseAssumption DEF SomeDoc

LEMMA NoRowType == NoRow \in Row
  BY SomeDocType DEF NoRow, Row

LEMMA NewRowType ==
  ASSUME NEW t \in {"URL", "PDF"}, NEW d \in Docs, NEW f \in BOOLEAN
  PROVE  NewRow(t, d, f) \in Row
  BY DEF NewRow, Row, Statuses

LEMMA IdleWorkerType == IdleWorker \in Worker /\ NextRound \in Worker
<1>1. NoOutcome \in Outcome
  BY DEF NoOutcome, Outcome
<1> QED
  BY <1>1, SomeDocType, QueueAssumption DEF IdleWorker, NextRound, Worker, WorkerPcs

LEMMA OutcomeType ==
  ASSUME NEW out \in Outcome
  PROVE  /\ out.status \in {"none", "done", "failed", "threw", "progress"}
         /\ out.next \in Nat
         /\ out.status = "progress" => out.next \in 1..MaxBlocks
  BY QueueAssumption DEF Outcome

LEMMA RequeuedRow ==
  ASSUME NEW row \in Row
  PROVE  /\ Requeued(row) \in Row
         /\ Requeued(row).status = "QUEUED"
         /\ Requeued(row).attempts = row.attempts
         /\ Requeued(row).progress = row.progress
         /\ Requeued(row).error = row.error
         /\ Requeued(row).type = row.type /\ Requeued(row).doc = row.doc
<1> DEFINE a == [row EXCEPT !.status = "QUEUED"]
<1>1. a \in Row /\ a.status = "QUEUED" /\ a.attempts = row.attempts
        /\ a.progress = row.progress /\ a.error = row.error
        /\ a.type = row.type /\ a.doc = row.doc
  BY DEF Row, Statuses
<1> HIDE DEF a
<1> DEFINE b == [a EXCEPT !.lease = "none"]
<1>2. b \in Row /\ b.status = a.status /\ b.attempts = a.attempts
        /\ b.progress = a.progress /\ b.error = a.error
        /\ b.type = a.type /\ b.doc = a.doc
  BY <1>1 DEF Row
<1> HIDE DEF b
<1>3. Requeued(row) = b
  BY DEF Requeued, a, b
<1> QED BY <1>1, <1>2, <1>3

LEMMA ExhaustedRow ==
  ASSUME NEW row \in Row
  PROVE  /\ Exhausted(row) \in Row
         /\ Exhausted(row).status = "FAILED"
         /\ Exhausted(row).attempts = row.attempts
         /\ Exhausted(row).progress = row.progress
         /\ Exhausted(row).error = "exhausted"
         /\ Exhausted(row).type = row.type /\ Exhausted(row).doc = row.doc
<1> DEFINE a == [row EXCEPT !.status = "FAILED"]
<1>1. a \in Row /\ a.status = "FAILED" /\ a.attempts = row.attempts
        /\ a.progress = row.progress /\ a.type = row.type /\ a.doc = row.doc
  BY DEF Row, Statuses
<1> HIDE DEF a
<1> DEFINE b == [a EXCEPT !.error = "exhausted"]
<1>2. b \in Row /\ b.status = a.status /\ b.attempts = a.attempts
        /\ b.progress = a.progress /\ b.error = "exhausted"
        /\ b.type = a.type /\ b.doc = a.doc
  BY <1>1 DEF Row
<1> HIDE DEF b
<1>3. Exhausted(row) = b
  BY DEF Exhausted, a, b
<1> QED BY <1>1, <1>2, <1>3

LEMMA TakenRow ==
  ASSUME NEW row \in Row
  PROVE  /\ Taken(row) \in Row
         /\ Taken(row).status = "RUNNING" /\ Taken(row).lease = "fresh"
         /\ Taken(row).attempts = row.attempts + 1
         /\ Taken(row).progress = row.progress
         /\ Taken(row).error = row.error
         /\ Taken(row).type = row.type /\ Taken(row).doc = row.doc
<1> DEFINE a == [row EXCEPT !.status = "RUNNING"]
<1>1. a \in Row /\ a.status = "RUNNING" /\ a.attempts = row.attempts
        /\ a.progress = row.progress /\ a.error = row.error
        /\ a.type = row.type /\ a.doc = row.doc
  BY DEF Row, Statuses
<1> HIDE DEF a
<1> DEFINE b == [a EXCEPT !.lease = "fresh"]
<1>2. b \in Row /\ b.status = a.status /\ b.lease = "fresh" /\ b.attempts = a.attempts
        /\ b.progress = a.progress /\ b.error = a.error
        /\ b.type = a.type /\ b.doc = a.doc
  BY <1>1 DEF Row
<1> HIDE DEF b
<1> DEFINE c == [b EXCEPT !.attempts = @ + 1]
<1>3. c \in Row /\ c.status = b.status /\ c.lease = b.lease
        /\ c.attempts = b.attempts + 1 /\ c.progress = b.progress /\ c.error = b.error
        /\ c.type = b.type /\ c.doc = b.doc
  BY <1>2 DEF Row
<1> HIDE DEF c
<1>4. Taken(row) = c
  BY DEF Taken, a, b, c
<1> QED BY <1>1, <1>2, <1>3, <1>4

LEMMA FinalizedRow ==
  ASSUME NEW row \in Row, NEW out \in Outcome
  PROVE  /\ Finalized(row, out) \in Row
         /\ Finalized(row, out).type = row.type /\ Finalized(row, out).doc = row.doc
         /\ out.status = "progress" =>
              /\ Finalized(row, out).status = "QUEUED"
              /\ Finalized(row, out).attempts = 0
              /\ Finalized(row, out).progress = out.next
              /\ Finalized(row, out).error = row.error
         /\ out.status # "progress" =>
              /\ Finalized(row, out).status \in Finished
              /\ Finalized(row, out).attempts = row.attempts
              /\ Finalized(row, out).progress = row.progress
              /\ Finalized(row, out).error # "exhausted"
<1>1. CASE out.status = "progress"
  <2> DEFINE a == [row EXCEPT !.status = "QUEUED"]
  <2>1. a \in Row /\ a.status = "QUEUED" /\ a.error = row.error
          /\ a.type = row.type /\ a.doc = row.doc
    BY DEF Row, Statuses
  <2> HIDE DEF a
  <2> DEFINE b == [a EXCEPT !.progress = out.next]
  <2>2. b \in Row /\ b.status = a.status /\ b.progress = out.next /\ b.error = a.error
          /\ b.type = a.type /\ b.doc = a.doc
    BY <2>1, OutcomeType DEF Row
  <2> HIDE DEF b
  <2> DEFINE c == [b EXCEPT !.lease = "none"]
  <2>3. c \in Row /\ c.status = b.status /\ c.progress = b.progress /\ c.error = b.error
          /\ c.type = b.type /\ c.doc = b.doc
    BY <2>2 DEF Row
  <2> HIDE DEF c
  <2> DEFINE d == [c EXCEPT !.attempts = 0]
  <2>4. d \in Row /\ d.status = c.status /\ d.progress = c.progress /\ d.error = c.error
          /\ d.attempts = 0 /\ d.type = c.type /\ d.doc = c.doc
    BY <2>3 DEF Row
  <2> HIDE DEF d
  <2>5. Finalized(row, out) = d
    BY <1>1 DEF Finalized, a, b, c, d
  <2> QED BY <1>1, <2>1, <2>2, <2>3, <2>4, <2>5
<1>2. CASE out.status # "progress"
  <2> DEFINE end == IF out.status = "done" THEN "DONE" ELSE "FAILED"
             why == IF out.status = "done" THEN "none" ELSE "ingest"
             a == [row EXCEPT !.status = end]
  <2>1. a \in Row /\ a.status = end /\ a.attempts = row.attempts
          /\ a.progress = row.progress /\ a.type = row.type /\ a.doc = row.doc
    BY DEF Row, Statuses
  <2> HIDE DEF a
  <2> DEFINE b == [a EXCEPT !.error = why]
  <2>2. b \in Row /\ b.status = a.status /\ b.attempts = a.attempts
          /\ b.progress = a.progress /\ b.error = why
          /\ b.type = a.type /\ b.doc = a.doc
    BY <2>1 DEF Row
  <2> HIDE DEF b
  <2>3. Finalized(row, out) = b
    BY <1>2 DEF Finalized, a, b
  <2> QED BY <1>2, <2>1, <2>2, <2>3 DEF Finished
<1> QED BY <1>1, <1>2

LEMMA TurnedWorker ==
  ASSUME NEW t \in Worker, NEW pc \in WorkerPcs, NEW j \in 0..MaxJobs
  PROVE  /\ Turned(t, pc, j) \in Worker
         /\ Turned(t, pc, j).pc = pc /\ Turned(t, pc, j).job = j
<1> DEFINE a == [t EXCEPT !.pc = pc]
<1>1. a \in Worker /\ a.pc = pc
  BY DEF Worker
<1> HIDE DEF a
<1> DEFINE b == [a EXCEPT !.job = j]
<1>2. b \in Worker /\ b.pc = a.pc /\ b.job = j
  BY <1>1 DEF Worker
<1> HIDE DEF b
<1>3. Turned(t, pc, j) = b
  BY DEF Turned, a, b
<1> QED BY <1>1, <1>2, <1>3

LEMMA RunningWorker ==
  ASSUME NEW t \in Worker, NEW row \in Row
  PROVE  /\ Running(t, row) \in Worker
         /\ Running(t, row).pc = "run" /\ Running(t, row).job = t.job
         /\ Running(t, row).from = row.progress /\ Running(t, row).doc = row.doc
<1>0. row.doc \in Docs /\ row.progress \in Nat
  BY DEF Row
<1> DEFINE a == [t EXCEPT !.pc = "run"]
<1>1. a \in Worker /\ a.pc = "run" /\ a.job = t.job
  BY DEF Worker, WorkerPcs
<1> HIDE DEF a
<1> DEFINE b == [a EXCEPT !.doc = row.doc]
<1>2. b \in Worker /\ b.pc = a.pc /\ b.job = a.job /\ b.doc = row.doc
  BY <1>0, <1>1 DEF Worker
<1> HIDE DEF b
<1> DEFINE c == [b EXCEPT !.from = row.progress]
<1>3. c \in Worker /\ c.pc = b.pc /\ c.job = b.job /\ c.from = row.progress
        /\ c.doc = b.doc
  BY <1>0, <1>2 DEF Worker
<1> HIDE DEF c
<1>4. Running(t, row) = c
  BY DEF Running, a, b, c
<1> QED BY <1>1, <1>2, <1>3, <1>4

LEMMA ReturnedWorker ==
  ASSUME NEW t \in Worker, NEW out \in Outcome
  PROVE  /\ Returned(t, out) \in Worker
         /\ Returned(t, out).pc = "finalize" /\ Returned(t, out).job = t.job
         /\ Returned(t, out).from = t.from /\ Returned(t, out).out = out
         /\ Returned(t, out).doc = t.doc
<1> DEFINE a == [t EXCEPT !.pc = "finalize"]
<1>1. a \in Worker /\ a.pc = "finalize" /\ a.job = t.job /\ a.from = t.from
        /\ a.doc = t.doc
  BY DEF Worker, WorkerPcs
<1> HIDE DEF a
<1> DEFINE b == [a EXCEPT !.out = out]
<1>2. b \in Worker /\ b.pc = a.pc /\ b.job = a.job /\ b.from = a.from /\ b.out = out
        /\ b.doc = a.doc
  BY <1>1 DEF Worker
<1> HIDE DEF b
<1>3. Returned(t, out) = b
  BY DEF Returned, a, b
<1> QED BY <1>1, <1>2, <1>3

LEMMA MovedWorker ==
  ASSUME NEW t \in Worker, NEW pc \in WorkerPcs
  PROVE  LET u == [t EXCEPT !.pc = pc] IN
         u \in Worker /\ u.pc = pc /\ u.job = t.job /\ u.from = t.from /\ u.out = t.out
         /\ u.doc = t.doc
  BY DEF Worker

LEMMA RequestType ==
  ASSUME NEW look \in SUBSET Docs, NEW insert \in SUBSET Docs, NEW force \in BOOLEAN
  PROVE  /\ Request(look, insert, force) \in [look : SUBSET Docs, insert : SUBSET Docs,
                                             force : BOOLEAN]
         /\ Request(look, insert, force).insert = insert
  BY DEF Request

-----------------------------------------------------------------------------
(* The effect of each action, for the proofs below *)

\* Every other tick is where it was.
OthersStay(w) == \A v \in Workers : v # w => worker'[v] = worker[v]

LEMMA RequestEffect ==
  ASSUME QueueTypeOK, RequestStep
  PROVE  /\ QueueTypeOK'
         /\ worker' = worker /\ crashes' = crashes
         /\ \/ jobs' = jobs /\ created' = created
            \/ /\ created' = created + 1 /\ created' \in Jobs
               /\ jobs'[created'].status = "QUEUED" /\ jobs'[created'].attempts = 0
               /\ jobs'[created'].progress = 0 /\ jobs'[created'].error = "none"
               /\ \A j \in Jobs : j # created' => jobs'[j] = jobs[j]
<1> USE DEF QueueTypeOK
<1>1. ASSUME NEW r \in Requesters, NEW urls \in SUBSET Docs, NEW f \in BOOLEAN,
             RequestUrls(r, urls, f)
      PROVE  QueueTypeOK' /\ UNCHANGED <<jobs, created, worker, crashes>>
  <2>1. Request(urls, {}, f) \in [look : SUBSET Docs, insert : SUBSET Docs, force : BOOLEAN]
    BY RequestType
  <2> QED BY <1>1, <2>1 DEF RequestUrls
<1>2. ASSUME NEW r \in Requesters, NEW d \in Docs, LookForDuplicate(r, d)
      PROVE  QueueTypeOK' /\ UNCHANGED <<jobs, created, worker, crashes>>
  <2> DEFINE asked == request[r]
             insert == IF DuplicateOf(d) THEN asked.insert ELSE asked.insert \cup {d}
             new == Request(asked.look \ {d}, insert, asked.force)
  <2>1. insert \in SUBSET Docs /\ asked.look \ {d} \in SUBSET Docs
    OBVIOUS
  <2>2. request' = [request EXCEPT ![r] = new]
    BY <1>2 DEF LookForDuplicate
  <2> HIDE DEF insert
  <2>3. new \in [look : SUBSET Docs, insert : SUBSET Docs, force : BOOLEAN]
    BY <2>1, RequestType
  <2>4. raced' \subseteq Docs
    BY <1>2 DEF LookForDuplicate
  <2> HIDE DEF new
  <2> QED BY <1>2, <2>2, <2>3, <2>4 DEF LookForDuplicate
<1>3. ASSUME NEW row \in Row, Insert(row)
      PROVE  /\ created' \in 0..MaxJobs /\ jobs' \in [Jobs -> Row]
             /\ created' = created + 1 /\ created' \in Jobs /\ jobs'[created'] = row
             /\ \A j \in Jobs : j # created' => jobs'[j] = jobs[j]
  BY <1>3, QueueAssumption DEF Insert, Jobs
<1>4. ASSUME NEW r \in Requesters, NEW d \in Docs, InsertUrl(r, d)
      PROVE  /\ QueueTypeOK' /\ UNCHANGED <<worker, crashes>>
             /\ Insert(NewRow("URL", d, request[r].force))
             /\ NewRow("URL", d, request[r].force) \in Row
  <2>1. NewRow("URL", d, request[r].force) \in Row
    BY NewRowType
  <2>2. request' \in [Requesters -> [look : SUBSET Docs, insert : SUBSET Docs,
                                     force : BOOLEAN]]
    <3> DEFINE new == Request(request[r].look, request[r].insert \ {d}, request[r].force)
    <3>1. new \in [look : SUBSET Docs, insert : SUBSET Docs, force : BOOLEAN]
      BY RequestType
    <3>2. request' = [request EXCEPT ![r] = new]
      BY <1>4 DEF InsertUrl
    <3> HIDE DEF new
    <3> QED BY <3>1, <3>2
  <2> QED BY <1>3, <1>4, <2>1, <2>2 DEF InsertUrl
<1>5. ASSUME NEW d \in PdfDocs, InsertPdf(d)
      PROVE  /\ QueueTypeOK' /\ UNCHANGED <<worker, crashes>>
             /\ Insert(NewRow("PDF", d, FALSE)) /\ NewRow("PDF", d, FALSE) \in Row
  <2>1. NewRow("PDF", d, FALSE) \in Row
    BY NewRowType, BaseAssumption
  <2> QED BY <1>3, <1>5, <2>1 DEF InsertPdf
<1>6. \A t, d, f : /\ NewRow(t, d, f).status = "QUEUED" /\ NewRow(t, d, f).attempts = 0
                   /\ NewRow(t, d, f).progress = 0 /\ NewRow(t, d, f).error = "none"
  BY DEF NewRow
<1>7. CASE \E r \in Requesters, urls \in SUBSET Docs, force \in BOOLEAN :
             RequestUrls(r, urls, force)
  BY <1>1, <1>7
<1>8. CASE \E r \in Requesters, d \in Docs : LookForDuplicate(r, d) \/ InsertUrl(r, d)
  <2>1. ASSUME NEW r \in Requesters, NEW d \in Docs, InsertUrl(r, d)
        PROVE  \E row \in Row : /\ Insert(row) /\ QueueTypeOK'
                                /\ UNCHANGED <<worker, crashes>>
                                /\ row.status = "QUEUED" /\ row.attempts = 0
                                /\ row.progress = 0 /\ row.error = "none"
    BY <1>4, <1>6, <2>1
  <2> HIDE DEF QueueTypeOK
  <2> QED BY <1>2, <1>3, <1>8, <2>1
<1>9. CASE \E d \in PdfDocs : InsertPdf(d)
  <2> PICK d \in PdfDocs : InsertPdf(d)
    BY <1>9
  <2> DEFINE row == NewRow("PDF", d, FALSE)
  <2>1. Insert(row) /\ row \in Row /\ QueueTypeOK' /\ UNCHANGED <<worker, crashes>>
    BY <1>5
  <2>2. row.status = "QUEUED" /\ row.attempts = 0 /\ row.progress = 0 /\ row.error = "none"
    BY <1>6
  <2> HIDE DEF QueueTypeOK, row
  <2> QED BY <1>3, <2>1, <2>2
<1> QED BY <1>7, <1>8, <1>9 DEF RequestStep

LEMMA StartEffect ==
  ASSUME QueueTypeOK, NEW w \in Workers, StartTick(w)
  PROVE  /\ QueueTypeOK' /\ UNCHANGED <<jobs, created, crashes>>
         /\ worker[w].pc = "idle" /\ worker'[w].pc = "claim" /\ OthersStay(w)
<1> DEFINE new == [IdleWorker EXCEPT !.pc = "claim"]
<1>1. new \in Worker /\ new.pc = "claim"
  BY IdleWorkerType, MovedWorker DEF WorkerPcs
<1> HIDE DEF new
<1>2. worker' = [worker EXCEPT ![w] = new]
  BY DEF StartTick, new
<1> QED BY <1>1, <1>2 DEF StartTick, QueueTypeOK, OthersStay

LEMMA GotoEffect ==
  ASSUME QueueTypeOK, NEW w \in Workers, NEW pc \in WorkerPcs, Goto(w, pc)
  PROVE  /\ worker' \in [Workers -> Worker] /\ OthersStay(w)
         /\ worker'[w].pc = pc /\ worker'[w].job = worker[w].job
<1> DEFINE new == [worker[w] EXCEPT !.pc = pc]
<1>1. new \in Worker /\ new.pc = pc /\ new.job = worker[w].job
  BY MovedWorker DEF QueueTypeOK
<1>2. worker' = [worker EXCEPT ![w] = new]
  BY DEF Goto
<1> HIDE DEF new
<1> QED BY <1>1, <1>2 DEF QueueTypeOK, OthersStay

LEMMA RequeueEffect ==
  ASSUME QueueTypeOK, NEW w \in Workers, RequeueExpired(w)
  PROVE  /\ QueueTypeOK' /\ UNCHANGED <<created, crashes>>
         /\ worker[w].pc = "claim" /\ worker'[w].pc = "expire" /\ OthersStay(w)
         /\ \A j \in Jobs : jobs'[j] = IF LeaseExpired(j) /\ jobs[j].attempts < MaxAttempts
                                       THEN Requeued(jobs[j]) ELSE jobs[j]
<1>1. \A j \in Jobs : Requeued(jobs[j]) \in Row
  BY RequeuedRow DEF QueueTypeOK
<1>2. jobs' \in [Jobs -> Row]
  BY <1>1 DEF RequeueExpired, QueueTypeOK
<1>3. Goto(w, "expire") /\ "expire" \in WorkerPcs
  BY DEF RequeueExpired, WorkerPcs
<1>4. worker'[w].pc = "expire" /\ worker' \in [Workers -> Worker] /\ OthersStay(w)
  BY <1>3, GotoEffect
<1> QED BY <1>2, <1>4 DEF RequeueExpired, QueueTypeOK, OthersStay

LEMMA ExhaustEffect ==
  ASSUME QueueTypeOK, NEW w \in Workers, FailExhausted(w)
  PROVE  /\ QueueTypeOK' /\ UNCHANGED <<created, crashes>>
         /\ worker[w].pc = "expire" /\ worker'[w].pc = "pick" /\ OthersStay(w)
         /\ \A j \in Jobs : jobs'[j] = IF LeaseExpired(j) /\ jobs[j].attempts >= MaxAttempts
                                       THEN Exhausted(jobs[j]) ELSE jobs[j]
<1>1. \A j \in Jobs : Exhausted(jobs[j]) \in Row
  BY ExhaustedRow DEF QueueTypeOK
<1>2. jobs' \in [Jobs -> Row]
  BY <1>1 DEF FailExhausted, QueueTypeOK
<1>3. Goto(w, "pick") /\ "pick" \in WorkerPcs
  BY DEF FailExhausted, WorkerPcs
<1>4. worker'[w].pc = "pick" /\ worker' \in [Workers -> Worker] /\ OthersStay(w)
  BY <1>3, GotoEffect
<1> QED BY <1>2, <1>4 DEF FailExhausted, QueueTypeOK, OthersStay

LEMMA PickEffect ==
  ASSUME QueueTypeOK, NEW w \in Workers, PickOldest(w) \/ NothingToPick(w) \/ LoseJob(w)
  PROVE  /\ QueueTypeOK' /\ UNCHANGED <<jobs, created, crashes>>
         /\ worker[w].pc \in {"pick", "take"} /\ worker'[w].pc \in {"take", "prune"}
         /\ OthersStay(w)
<1>1. CASE PickOldest(w)
  <2> PICK j \in Queued : worker' = [worker EXCEPT ![w] = Turned(worker[w], "take", j)]
    BY <1>1 DEF PickOldest
  <2> DEFINE new == Turned(worker[w], "take", j)
  <2>0. j \in Jobs /\ j \in 0..MaxJobs
    BY QueueAssumption DEF Queued, Jobs
  <2>1. worker[w] \in Worker /\ "take" \in WorkerPcs
    BY DEF QueueTypeOK, WorkerPcs
  <2>2. new \in Worker /\ new.pc = "take" /\ new.job = j
    BY <2>0, <2>1, TurnedWorker
  <2>3. worker' = [worker EXCEPT ![w] = new]
    OBVIOUS
  <2> HIDE DEF new
  <2> QED BY <1>1, <2>0, <2>2, <2>3 DEF PickOldest, QueueTypeOK, OthersStay
<1>2. CASE NothingToPick(w)
  <2>1. /\ worker'[w].pc = "prune" /\ worker' \in [Workers -> Worker] /\ OthersStay(w)
    BY <1>2, GotoEffect DEF NothingToPick, WorkerPcs
  <2> QED BY <1>2, <2>1 DEF NothingToPick, QueueTypeOK, OthersStay
<1>3. CASE LoseJob(w)
  <2> DEFINE new == Turned(worker[w], "prune", 0)
  <2>1. worker[w] \in Worker /\ "prune" \in WorkerPcs /\ 0 \in 0..MaxJobs
    BY QueueAssumption DEF QueueTypeOK, WorkerPcs
  <2>2. new \in Worker /\ new.pc = "prune"
    BY <2>1, TurnedWorker
  <2>3. worker' = [worker EXCEPT ![w] = new]
    BY <1>3 DEF LoseJob
  <2> HIDE DEF new
  <2> QED BY <1>3, <2>2, <2>3 DEF LoseJob, QueueTypeOK, OthersStay
<1> QED BY <1>1, <1>2, <1>3

LEMMA TakeEffect ==
  ASSUME QueueTypeOK, NEW w \in Workers, TakeJob(w)
  PROVE  LET j == worker[w].job IN
         /\ QueueTypeOK' /\ UNCHANGED <<created, crashes>>
         /\ worker[w].pc = "take" /\ j \in Jobs /\ jobs[j].status = "QUEUED"
         /\ jobs'[j] = Taken(jobs[j]) /\ \A k \in Jobs : k # j => jobs'[k] = jobs[k]
         /\ worker'[w].pc = "run" /\ worker'[w].job = j
         /\ worker'[w].from = jobs[j].progress /\ worker'[w].doc = jobs[j].doc
         /\ OthersStay(w)
<1> DEFINE j == worker[w].job
           new == Running(worker[w], jobs[j])
<1>1. j \in Jobs
  BY DEF TakeJob, QueueTypeOK
<1>2. jobs[j] \in Row /\ worker[w] \in Worker
  BY <1>1 DEF QueueTypeOK
<1>3. /\ new \in Worker /\ new.pc = "run" /\ new.job = worker[w].job
      /\ new.from = jobs[j].progress /\ new.doc = jobs[j].doc
  BY <1>2, RunningWorker
<1>4. worker' = [worker EXCEPT ![w] = new]
  BY DEF TakeJob
<1>5. Taken(jobs[j]) \in Row
  BY <1>1, TakenRow DEF QueueTypeOK
<1> HIDE DEF new
<1> QED BY <1>1, <1>3, <1>4, <1>5 DEF TakeJob, QueueTypeOK, OthersStay

LEMMA ReturnEffect ==
  ASSUME QueueTypeOK, NEW w \in Workers, NEW out \in Outcome, ReturnFromRun(w, out)
  PROVE  /\ QueueTypeOK' /\ UNCHANGED <<jobs, created, crashes>>
         /\ worker[w].pc = "run" /\ worker'[w].pc = "finalize"
         /\ worker'[w].job = worker[w].job /\ worker'[w].from = worker[w].from
         /\ worker'[w].out = out /\ worker'[w].doc = worker[w].doc /\ OthersStay(w)
<1> DEFINE new == Returned(worker[w], out)
<1>1. /\ new \in Worker /\ new.pc = "finalize" /\ new.job = worker[w].job
      /\ new.from = worker[w].from /\ new.out = out /\ new.doc = worker[w].doc
  <2>1. worker[w] \in Worker
    BY DEF QueueTypeOK
  <2> QED BY <2>1, ReturnedWorker
<1>2. worker' = [worker EXCEPT ![w] = new]
  BY DEF ReturnFromRun
<1> HIDE DEF new
<1> QED BY <1>1, <1>2 DEF ReturnFromRun, QueueTypeOK, OthersStay

LEMMA FinalizeEffect ==
  ASSUME QueueTypeOK, NEW w \in Workers, FinalizeJob(w)
  PROVE  LET j == worker[w].job
             out == worker[w].out
             there == jobs[j].status # "absent" IN
         /\ QueueTypeOK' /\ UNCHANGED created
         /\ worker[w].pc = "finalize" /\ j \in Jobs /\ out \in Outcome
         /\ jobs'[j] = IF there THEN Finalized(jobs[j], out) ELSE jobs[j]
         /\ \A k \in Jobs : k # j => jobs'[k] = jobs[k] /\ crashes'[k] = crashes[k]
         /\ crashes'[j] = IF there /\ out.status = "progress" THEN 0 ELSE crashes[j]
         /\ worker'[w].pc \in {"settle", "claim"} /\ OthersStay(w)
         /\ worker'[w].pc = "settle" =>
              /\ worker'[w].job = j /\ worker'[w].doc = worker[w].doc
              /\ worker'[w].out = out /\ out.status \in {"done", "failed"}
<1> DEFINE j == worker[w].job
           out == worker[w].out
           there == jobs[j].status # "absent"
           new == IF there /\ out.status \in {"done", "failed"}
                  THEN [worker[w] EXCEPT !.pc = "settle"] ELSE NextRound
<1>1. j \in Jobs /\ out \in Outcome /\ worker[w] \in Worker
  BY DEF FinalizeJob, QueueTypeOK, Worker
<1>2. /\ new \in Worker /\ new.pc \in {"settle", "claim"}
      /\ new.pc = "settle" =>
           /\ new.job = j /\ new.doc = worker[w].doc
           /\ new.out = out /\ out.status \in {"done", "failed"}
  BY <1>1, MovedWorker, IdleWorkerType DEF NextRound, WorkerPcs
<1>3. worker' = [worker EXCEPT ![w] = new]
  BY DEF FinalizeJob
<1>4. Finalized(jobs[j], out) \in Row
  BY <1>1, FinalizedRow DEF QueueTypeOK
<1> HIDE DEF new
<1> QED BY <1>1, <1>2, <1>3, <1>4 DEF FinalizeJob, QueueTypeOK, OthersStay

LEMMA RestEffect ==
  ASSUME QueueTypeOK, NEW w \in Workers, Settle(w) \/ StopTick(w)
  PROVE  /\ QueueTypeOK' /\ UNCHANGED <<jobs, created, crashes>>
         /\ worker[w].pc \in {"settle", "claim"} /\ worker'[w].pc \in {"claim", "prune"}
         /\ OthersStay(w)
<1>1. CASE Settle(w)
  <2>1. NextRound \in Worker /\ NextRound.pc = "claim"
    BY IdleWorkerType DEF NextRound
  <2> QED BY <1>1, <2>1 DEF Settle, QueueTypeOK, OthersStay
<1>2. CASE StopTick(w)
  <2>1. /\ worker'[w].pc = "prune" /\ worker' \in [Workers -> Worker] /\ OthersStay(w)
    BY <1>2, GotoEffect DEF StopTick, WorkerPcs
  <2> QED BY <1>2, <2>1 DEF StopTick, QueueTypeOK, OthersStay
<1> QED BY <1>1, <1>2

LEMMA PruneEffect ==
  ASSUME QueueTypeOK, NEW w \in Workers, PruneOldJobs(w)
  PROVE  /\ QueueTypeOK' /\ UNCHANGED <<created, crashes>>
         /\ worker[w].pc = "prune" /\ worker'[w].pc = "idle" /\ OthersStay(w)
         /\ \A j \in Jobs : \/ jobs'[j] = jobs[j]
                            \/ jobs[j].status \in Finished /\ jobs'[j] = NoRow
<1>1. IdleWorker \in Worker /\ IdleWorker.pc = "idle"
  BY IdleWorkerType DEF IdleWorker
<1> QED BY <1>1, NoRowType DEF PruneOldJobs, QueueTypeOK, OthersStay

LEMMA CrashEffect ==
  ASSUME QueueTypeOK, NEW w \in Workers, Crash(w)
  PROVE  /\ QueueTypeOK' /\ UNCHANGED <<jobs, created>>
         /\ worker'[w].pc = "idle" /\ OthersStay(w)
         /\ \A j \in Jobs : crashes'[j] = IF Holds(w, j) THEN crashes[j] + 1 ELSE crashes[j]
<1>1. IdleWorker \in Worker /\ IdleWorker.pc = "idle"
  BY IdleWorkerType DEF IdleWorker
<1> QED BY <1>1 DEF Crash, QueueTypeOK, OthersStay

LEMMA LeaseEffect ==
  ASSUME QueueTypeOK, NEW j \in Jobs, LeaseExpires(j)
  PROVE  /\ QueueTypeOK' /\ UNCHANGED <<created, request, worker, crashes, raced>>
         /\ RunsOutliveLease \/ \A w \in Workers : ~Holds(w, j)
         /\ jobs[j].status = "RUNNING"
         /\ jobs'[j].status = "RUNNING" /\ jobs'[j].attempts = jobs[j].attempts
         /\ jobs'[j].progress = jobs[j].progress /\ jobs'[j].error = jobs[j].error
         /\ jobs'[j].type = jobs[j].type /\ jobs'[j].doc = jobs[j].doc
         /\ \A k \in Jobs : k # j => jobs'[k] = jobs[k]
<1> DEFINE new == [jobs[j] EXCEPT !.lease = "expired"]
<1>1. /\ new \in Row /\ new.status = jobs[j].status /\ new.attempts = jobs[j].attempts
      /\ new.progress = jobs[j].progress /\ new.error = jobs[j].error
      /\ new.type = jobs[j].type /\ new.doc = jobs[j].doc
  BY DEF QueueTypeOK, Row
<1>2. jobs' = [jobs EXCEPT ![j] = new]
  BY DEF LeaseExpires
<1> HIDE DEF new
<1> QED BY <1>1, <1>2 DEF LeaseExpires, QueueTypeOK

-----------------------------------------------------------------------------
(* Types *)

LEMMA TypeStep == QueueTypeOK /\ [QueueNext]_queueVars => QueueTypeOK'
<1> SUFFICES ASSUME QueueTypeOK, [QueueNext]_queueVars PROVE QueueTypeOK'
  OBVIOUS
<1>1. CASE RequestStep
  BY <1>1, RequestEffect
<1>2. ASSUME NEW w \in Workers, StartTick(w) PROVE QueueTypeOK'
  BY <1>2, StartEffect
<1>3. ASSUME NEW w \in Workers, WorkerStep(w) PROVE QueueTypeOK'
  <2>1. CASE RequeueExpired(w)
    BY <2>1, RequeueEffect
  <2>2. CASE FailExhausted(w)
    BY <2>2, ExhaustEffect
  <2>3. CASE PickOldest(w) \/ NothingToPick(w) \/ LoseJob(w)
    BY <2>3, PickEffect
  <2>4. CASE TakeJob(w)
    BY <2>4, TakeEffect
  <2>5. CASE \E out \in Outcome : ReturnFromRun(w, out) /\ MayReturn(w, out)
    BY <2>5, ReturnEffect
  <2>6. CASE FinalizeJob(w)
    BY <2>6, FinalizeEffect
  <2>7. CASE Settle(w) \/ StopTick(w)
    BY <2>7, RestEffect
  <2>8. CASE PruneOldJobs(w)
    BY <2>8, PruneEffect
  <2> QED
    BY <1>3, <2>1, <2>2, <2>3, <2>4, <2>5, <2>6, <2>7, <2>8 DEF WorkerStep
<1>4. ASSUME NEW w \in Workers, Crash(w) PROVE QueueTypeOK'
  BY <1>4, CrashEffect
<1>5. ASSUME NEW j \in Jobs, LeaseExpires(j) PROVE QueueTypeOK'
  BY <1>5, LeaseEffect
<1>6. CASE UNCHANGED queueVars
  BY <1>6 DEF queueVars, QueueTypeOK
<1> QED
  BY <1>1, <1>2, <1>3, <1>4, <1>5, <1>6 DEF QueueNext

LEMMA TypeInit == QueueInit => QueueTypeOK
<1> SUFFICES ASSUME QueueInit PROVE QueueTypeOK
  OBVIOUS
<1>1. IdleWorker.pc = "idle"
  BY DEF IdleWorker
<1>2. 0 \in 0..MaxJobs
  BY QueueAssumption
<1> QED
  BY <1>1, <1>2, NoRowType, IdleWorkerType DEF QueueInit, QueueTypeOK, Request

\* Every reachable state of the queue is well typed: in particular a tick that
\* is past its claim always refers to a row.
THEOREM TypeCorrect == QueueSpec => []QueueTypeOK
<1> QED
  BY TypeInit, TypeStep, PTL DEF QueueSpec

-----------------------------------------------------------------------------
(* Attempts *)

LEMMA AttemptsStep ==
  QueueTypeOK /\ AttemptsBounded /\ [QueueNext]_queueVars => AttemptsBounded'
<1> SUFFICES ASSUME QueueTypeOK, AttemptsBounded, [QueueNext]_queueVars,
                    NEW j \in Jobs
             PROVE  /\ jobs'[j].attempts <= MaxAttempts
                    /\ jobs'[j].status = "QUEUED" => jobs'[j].attempts < MaxAttempts
  BY DEF AttemptsBounded
<1> DEFINE Bounded(row) == /\ row.attempts <= MaxAttempts
                           /\ row.status = "QUEUED" => row.attempts < MaxAttempts
<1>0. /\ Bounded(jobs[j]) /\ jobs[j] \in Row /\ jobs[j].attempts \in Nat
      /\ MaxAttempts \in Nat /\ MaxAttempts > 0
  BY QueueAssumption DEF AttemptsBounded, QueueTypeOK, Row
<1>1. CASE RequestStep
  BY <1>0, <1>1, RequestEffect
<1>2. ASSUME NEW w \in Workers, StartTick(w) PROVE Bounded(jobs'[j])
  BY <1>0, <1>2, StartEffect
<1>3. ASSUME NEW w \in Workers, WorkerStep(w) PROVE Bounded(jobs'[j])
  <2>1. CASE RequeueExpired(w)
    BY <1>0, <2>1, RequeueEffect, RequeuedRow
  <2>2. CASE FailExhausted(w)
    BY <1>0, <2>2, ExhaustEffect, ExhaustedRow
  <2>3. CASE PickOldest(w) \/ NothingToPick(w) \/ LoseJob(w)
    BY <1>0, <2>3, PickEffect
  <2>4. CASE TakeJob(w)
    BY <1>0, <2>4, TakeEffect, TakenRow
  <2>5. CASE \E out \in Outcome : ReturnFromRun(w, out) /\ MayReturn(w, out)
    BY <1>0, <2>5, ReturnEffect
  <2>6. CASE FinalizeJob(w)
    <3>1. worker[w].out \in Outcome
      BY <2>6, FinalizeEffect
    <3>2. Bounded(Finalized(jobs[j], worker[w].out))
      BY <1>0, <3>1, FinalizedRow DEF Finished
    <3> QED BY <1>0, <2>6, <3>2, FinalizeEffect
  <2>7. CASE Settle(w) \/ StopTick(w)
    BY <1>0, <2>7, RestEffect
  <2>8. CASE PruneOldJobs(w)
    <3>1. Bounded(NoRow)
      BY <1>0 DEF NoRow
    <3> QED BY <1>0, <2>8, <3>1, PruneEffect
  <2> QED
    BY <1>3, <2>1, <2>2, <2>3, <2>4, <2>5, <2>6, <2>7, <2>8 DEF WorkerStep
<1>4. ASSUME NEW w \in Workers, Crash(w) PROVE Bounded(jobs'[j])
  BY <1>0, <1>4, CrashEffect
<1>5. ASSUME NEW k \in Jobs, LeaseExpires(k) PROVE Bounded(jobs'[j])
  BY <1>0, <1>5, LeaseEffect
<1>6. CASE UNCHANGED queueVars
  BY <1>0, <1>6 DEF queueVars
<1> QED
  BY <1>1, <1>2, <1>3, <1>4, <1>5, <1>6 DEF QueueNext

\* No job is attempted more often than the cap between two yields, whether or
\* not runs outlive their lease.
THEOREM AttemptsAreBounded == QueueSpec => []AttemptsBounded
<1>1. QueueInit => AttemptsBounded
  BY QueueAssumption DEF QueueInit, AttemptsBounded, NoRow
<1> QED
  BY <1>1, AttemptsStep, TypeCorrect, PTL DEF QueueSpec

-----------------------------------------------------------------------------
(* Exclusive runs and the crash count, where no run outlives its lease *)

LeaseInv == QueueTypeOK /\ HoldersAreCurrent /\ OneWorkerPerJob

LEMMA HoldsNobody ==
  ASSUME NEW w \in Workers, worker'[w].pc \notin {"run", "finalize"}
  PROVE  \A j \in Jobs : ~Holds(w, j)'
  BY DEF Holds

LEMMA HoldsSame ==
  ASSUME NEW w \in Workers, worker'[w] = worker[w]
  PROVE  \A j \in Jobs : Holds(w, j)' <=> Holds(w, j)
  BY DEF Holds

\* A step that changes no held row and makes no new holder keeps the invariant.
LEMMA LeaseInvKept ==
  ASSUME LeaseInv, QueueTypeOK',
         \A w \in Workers, j \in Jobs : Holds(w, j)' =>
           Holds(w, j) /\ worker'[w] = worker[w] /\ jobs'[j] = jobs[j],
         \A j \in Jobs : j > created' => jobs'[j] = NoRow /\ crashes'[j] = 0,
         \A j \in Jobs : jobs'[j].error = "exhausted" => jobs'[j].status = "FAILED"
  PROVE  LeaseInv'
<1>1. HoldersAreCurrent'
  BY DEF HoldersAreCurrent, LeaseInv
<1>2. OneWorkerPerJob'
  BY DEF OneWorkerPerJob, LeaseInv
<1> QED
  BY <1>1, <1>2 DEF LeaseInv

LEMMA LeaseInvStep ==
  ~RunsOutliveLease /\ LeaseInv /\ [QueueNext]_queueVars => LeaseInv'
<1> SUFFICES ASSUME ~RunsOutliveLease, LeaseInv, [QueueNext]_queueVars PROVE LeaseInv'
  OBVIOUS
<1>0. QueueTypeOK /\ QueueTypeOK' /\ created \in 0..MaxJobs /\ MaxJobs \in Nat
  BY TypeStep, QueueAssumption DEF LeaseInv, QueueTypeOK
<1>a. /\ \A w \in Workers, j \in Jobs : Holds(w, j) =>
           jobs[j].status = "RUNNING" /\ jobs[j].lease = "fresh"
      /\ \A j \in Jobs : j > created => jobs[j] = NoRow /\ crashes[j] = 0
      /\ \A j \in Jobs : jobs[j].error = "exhausted" => jobs[j].status = "FAILED"
      /\ \A j \in Jobs : jobs[j] \in Row
      /\ \A v, w \in Workers, j \in Jobs : Holds(v, j) /\ Holds(w, j) => v = w
  BY <1>0 DEF LeaseInv, HoldersAreCurrent, QueueTypeOK, OneWorkerPerJob
<1>b. /\ NoRow.status = "absent" /\ NoRow.error = "none"
  BY DEF NoRow
\* Steps that leave the table alone and give no tick a job.
<1>c. ASSUME NEW w \in Workers, UNCHANGED <<jobs, created>>, OthersStay(w),
             \A j \in Jobs : ~Holds(w, j)',
             \A j \in Jobs : jobs[j] = NoRow => crashes'[j] = crashes[j]
      PROVE  LeaseInv'
  <2>1. ASSUME NEW v \in Workers, NEW j \in Jobs, Holds(v, j)'
        PROVE  Holds(v, j) /\ worker'[v] = worker[v] /\ jobs'[j] = jobs[j]
    BY <1>c, <2>1, HoldsSame DEF OthersStay
  <2>2. \A j \in Jobs : j > created' => jobs'[j] = NoRow /\ crashes'[j] = 0
    BY <1>a, <1>c
  <2>3. \A j \in Jobs : jobs'[j].error = "exhausted" => jobs'[j].status = "FAILED"
    BY <1>a, <1>c
  <2> QED BY <1>0, <2>1, <2>2, <2>3, LeaseInvKept
<1>1. CASE RequestStep
  <2>1. ASSUME NEW v \in Workers, NEW j \in Jobs, Holds(v, j)'
        PROVE  Holds(v, j) /\ worker'[v] = worker[v] /\ jobs'[j] = jobs[j]
    <3>1. Holds(v, j) /\ worker'[v] = worker[v]
      BY <1>0, <1>1, <2>1, RequestEffect, HoldsSame
    <3>2. jobs[j].status = "RUNNING"
      BY <1>a, <3>1
    <3>3. j # created + 1
      BY <1>a, <1>b, <1>0, <3>2
    <3> QED BY <1>0, <1>1, <3>1, <3>3, RequestEffect
  <2>2. \A j \in Jobs : j > created' => jobs'[j] = NoRow /\ crashes'[j] = 0
    BY <1>0, <1>1, <1>a, RequestEffect DEF Jobs
  <2>3. \A j \in Jobs : jobs'[j].error = "exhausted" => jobs'[j].status = "FAILED"
    BY <1>0, <1>1, <1>a, RequestEffect
  <2> QED BY <1>0, <2>1, <2>2, <2>3, LeaseInvKept
<1>2. ASSUME NEW w \in Workers, StartTick(w) PROVE LeaseInv'
  BY <1>0, <1>2, <1>c, StartEffect, HoldsNobody
<1>3. ASSUME NEW w \in Workers, RequeueExpired(w) PROVE LeaseInv'
  <2>0. \A j \in Jobs : Requeued(jobs[j]).error = jobs[j].error
    BY <1>a, RequeuedRow
  <2>1. ASSUME NEW v \in Workers, NEW j \in Jobs, Holds(v, j)'
        PROVE  Holds(v, j) /\ worker'[v] = worker[v] /\ jobs'[j] = jobs[j]
    <3>1. Holds(v, j) /\ worker'[v] = worker[v]
      BY <1>0, <1>3, <2>1, RequeueEffect, HoldsSame, HoldsNobody DEF OthersStay
    <3> QED BY <1>0, <1>3, <1>a, <3>1, RequeueEffect DEF LeaseExpired
  <2>2. \A j \in Jobs : j > created' => jobs'[j] = NoRow /\ crashes'[j] = 0
    BY <1>0, <1>3, <1>a, <1>b, RequeueEffect DEF LeaseExpired
  <2>3. \A j \in Jobs : jobs'[j].error = "exhausted" => jobs'[j].status = "FAILED"
    BY <1>0, <1>3, <1>a, <2>0, RequeueEffect DEF LeaseExpired
  <2> QED BY <1>0, <2>1, <2>2, <2>3, LeaseInvKept
<1>4. ASSUME NEW w \in Workers, FailExhausted(w) PROVE LeaseInv'
  <2>0. \A j \in Jobs : Exhausted(jobs[j]).status = "FAILED"
    BY <1>a, ExhaustedRow
  <2>1. ASSUME NEW v \in Workers, NEW j \in Jobs, Holds(v, j)'
        PROVE  Holds(v, j) /\ worker'[v] = worker[v] /\ jobs'[j] = jobs[j]
    <3>1. Holds(v, j) /\ worker'[v] = worker[v]
      BY <1>0, <1>4, <2>1, ExhaustEffect, HoldsSame, HoldsNobody DEF OthersStay
    <3> QED BY <1>0, <1>4, <1>a, <3>1, ExhaustEffect DEF LeaseExpired
  <2>2. \A j \in Jobs : j > created' => jobs'[j] = NoRow /\ crashes'[j] = 0
    BY <1>0, <1>4, <1>a, <1>b, ExhaustEffect DEF LeaseExpired
  <2>3. \A j \in Jobs : jobs'[j].error = "exhausted" => jobs'[j].status = "FAILED"
    BY <1>0, <1>4, <1>a, <2>0, ExhaustEffect
  <2> QED BY <1>0, <2>1, <2>2, <2>3, LeaseInvKept
<1>5. ASSUME NEW w \in Workers, PickOldest(w) \/ NothingToPick(w) \/ LoseJob(w)
      PROVE  LeaseInv'
  BY <1>0, <1>5, <1>c, PickEffect, HoldsNobody
<1>6. ASSUME NEW w \in Workers, TakeJob(w) PROVE LeaseInv'
  <2> DEFINE j == worker[w].job
  <2>0. /\ j \in Jobs /\ jobs[j].status = "QUEUED" /\ UNCHANGED <<created, crashes>>
        /\ jobs'[j] = Taken(jobs[j]) /\ \A k \in Jobs : k # j => jobs'[k] = jobs[k]
        /\ worker'[w].pc = "run" /\ worker'[w].job = j /\ OthersStay(w)
        /\ worker'[w].from = jobs[j].progress
    BY <1>0, <1>6, TakeEffect
  <2>1. /\ Taken(jobs[j]).status = "RUNNING" /\ Taken(jobs[j]).lease = "fresh"
        /\ Taken(jobs[j]).progress = jobs[j].progress
        /\ Taken(jobs[j]).error = jobs[j].error
    BY <1>a, <2>0, TakenRow
  <2> HIDE DEF j
  <2>2. \A v \in Workers : ~Holds(v, j)
    BY <1>a, <2>0
  <2>3. ASSUME NEW v \in Workers, v # w
        PROVE  worker'[v] = worker[v] /\ \A k \in Jobs : Holds(v, k)' <=> Holds(v, k)
    BY <2>0, <2>3, HoldsSame DEF OthersStay
  <2>4. \A k \in Jobs : Holds(w, k)' => k = j
    BY <2>0 DEF Holds
  <2>5. OneWorkerPerJob'
    <3> SUFFICES ASSUME NEW k \in Jobs, NEW u \in Workers, NEW v \in Workers,
                        Holds(u, k)', Holds(v, k)'
                 PROVE  u = v
      BY DEF OneWorkerPerJob
    <3>1. CASE k = j
      BY <2>2, <2>3, <3>1
    <3>2. CASE k # j
      BY <1>a, <2>3, <2>4, <3>2
    <3> QED BY <3>1, <3>2
  <2>6. HoldersAreCurrent'
    <3>1. ASSUME NEW v \in Workers, NEW k \in Jobs, Holds(v, k)'
          PROVE  /\ jobs'[k].status = "RUNNING" /\ jobs'[k].lease = "fresh"
                 /\ worker'[v].from = jobs'[k].progress
                 /\ worker'[v].pc = "finalize" /\ worker'[v].out.status = "progress"
                      => worker'[v].from < worker'[v].out.next
      <4>1. CASE v = w
        BY <2>0, <2>1, <2>4, <3>1, <4>1
      <4>2. CASE v # w
        <5>1. Holds(v, k) /\ worker'[v] = worker[v] /\ k # j
          BY <2>2, <2>3, <3>1, <4>2
        <5> QED BY <2>0, <5>1 DEF LeaseInv, HoldersAreCurrent
      <4> QED BY <4>1, <4>2
    <3>2. \A k \in Jobs : k > created' => jobs'[k] = NoRow /\ crashes'[k] = 0
      BY <1>a, <1>b, <2>0
    <3>3. \A k \in Jobs : jobs'[k].error = "exhausted" => jobs'[k].status = "FAILED"
      BY <1>a, <2>0, <2>1
    <3> QED BY <3>1, <3>2, <3>3 DEF HoldersAreCurrent
  <2> QED BY <1>0, <2>5, <2>6 DEF LeaseInv
<1>7. ASSUME NEW w \in Workers, NEW out \in Outcome,
             ReturnFromRun(w, out), MayReturn(w, out)
      PROVE  LeaseInv'
  <2>0. /\ UNCHANGED <<jobs, created, crashes>>
        /\ worker[w].pc = "run" /\ worker'[w].pc = "finalize"
        /\ worker'[w].job = worker[w].job /\ worker'[w].from = worker[w].from
        /\ worker'[w].out = out /\ OthersStay(w)
    BY <1>0, <1>7, ReturnEffect
  <2>1. \A v \in Workers, j \in Jobs : Holds(v, j)' <=> Holds(v, j)
    BY <2>0 DEF Holds, OthersStay
  <2>2. out.status = "progress" => worker[w].from < out.next
    BY <1>7 DEF MayReturn
  <2>3. HoldersAreCurrent'
    BY <2>0, <2>1, <2>2 DEF LeaseInv, HoldersAreCurrent, OthersStay
  <2>4. OneWorkerPerJob'
    BY <2>1 DEF LeaseInv, OneWorkerPerJob
  <2> QED BY <1>0, <2>3, <2>4 DEF LeaseInv
<1>8. ASSUME NEW w \in Workers, FinalizeJob(w) PROVE LeaseInv'
  <2> DEFINE j == worker[w].job
             out == worker[w].out
  <2>0. /\ UNCHANGED created /\ worker[w].pc = "finalize" /\ j \in Jobs
        /\ out \in Outcome
        /\ jobs'[j] = IF jobs[j].status # "absent" THEN Finalized(jobs[j], out)
                                                    ELSE jobs[j]
        /\ \A k \in Jobs : k # j => jobs'[k] = jobs[k] /\ crashes'[k] = crashes[k]
        /\ worker'[w].pc \in {"settle", "claim"} /\ OthersStay(w)
    BY <1>0, <1>8, FinalizeEffect
  <2>1. /\ Finalized(jobs[j], out).error = "exhausted"
             => Finalized(jobs[j], out).error = jobs[j].error
        /\ out.status # "progress" => Finalized(jobs[j], out).error # "exhausted"
    BY <1>a, <2>0, FinalizedRow
  <2>2. Holds(w, j)
    BY <2>0 DEF Holds
  <2>3. jobs[j].status = "RUNNING" /\ jobs[j].error # "exhausted" /\ ~(j > created)
    BY <1>a, <1>b, <2>0, <2>2
  <2>4. ASSUME NEW v \in Workers, NEW k \in Jobs, Holds(v, k)'
        PROVE  Holds(v, k) /\ worker'[v] = worker[v] /\ jobs'[k] = jobs[k]
    <3>1. v # w
      BY <2>0, <2>4, HoldsNobody
    <3>2. Holds(v, k) /\ worker'[v] = worker[v]
      BY <2>0, <2>4, <3>1, HoldsSame DEF OthersStay
    <3>3. k # j
      BY <1>a, <2>0, <2>2, <3>1, <3>2
    <3> QED BY <2>0, <3>2, <3>3
  <2>5. \A k \in Jobs : k > created' => jobs'[k] = NoRow /\ crashes'[k] = 0
    BY <1>a, <2>0, <2>3
  <2>6. \A k \in Jobs : jobs'[k].error = "exhausted" => jobs'[k].status = "FAILED"
    BY <1>a, <2>0, <2>1, <2>3
  <2> QED BY <1>0, <2>4, <2>5, <2>6, LeaseInvKept
<1>9. ASSUME NEW w \in Workers, Settle(w) \/ StopTick(w) PROVE LeaseInv'
  BY <1>0, <1>9, <1>c, RestEffect, HoldsNobody
<1>10. ASSUME NEW w \in Workers, PruneOldJobs(w) PROVE LeaseInv'
  <2>0. /\ UNCHANGED <<created, crashes>> /\ worker'[w].pc = "idle" /\ OthersStay(w)
        /\ \A j \in Jobs : \/ jobs'[j] = jobs[j]
                           \/ jobs[j].status \in Finished /\ jobs'[j] = NoRow
    BY <1>0, <1>10, PruneEffect
  <2>1. ASSUME NEW v \in Workers, NEW j \in Jobs, Holds(v, j)'
        PROVE  Holds(v, j) /\ worker'[v] = worker[v] /\ jobs'[j] = jobs[j]
    <3>1. Holds(v, j) /\ worker'[v] = worker[v]
      BY <2>0, <2>1, HoldsSame, HoldsNobody DEF OthersStay
    <3> QED BY <1>a, <2>0, <3>1 DEF Finished
  <2>2. \A j \in Jobs : j > created' => jobs'[j] = NoRow /\ crashes'[j] = 0
    BY <1>a, <2>0
  <2>3. \A j \in Jobs : jobs'[j].error = "exhausted" => jobs'[j].status = "FAILED"
    BY <1>a, <1>b, <2>0
  <2> QED BY <1>0, <2>1, <2>2, <2>3, LeaseInvKept
<1>11. ASSUME NEW w \in Workers, Crash(w) PROVE LeaseInv'
  <2>1. \A j \in Jobs : jobs[j] = NoRow => ~Holds(w, j)
    BY <1>a, <1>b
  <2>2. \A j \in Jobs : jobs[j] = NoRow => crashes'[j] = crashes[j]
    BY <1>0, <1>11, <2>1, CrashEffect
  <2> QED BY <1>0, <1>11, <1>c, <2>2, CrashEffect, HoldsNobody
<1>12. ASSUME NEW i \in Jobs, LeaseExpires(i) PROVE LeaseInv'
  <2>0. /\ UNCHANGED <<created, worker, crashes>> /\ \A w \in Workers : ~Holds(w, i)
        /\ jobs[i].status = "RUNNING"
        /\ jobs'[i].status = "RUNNING" /\ jobs'[i].error = jobs[i].error
        /\ \A k \in Jobs : k # i => jobs'[k] = jobs[k]
    BY <1>0, <1>12, LeaseEffect
  <2>1. ASSUME NEW v \in Workers, NEW j \in Jobs, Holds(v, j)'
        PROVE  Holds(v, j) /\ worker'[v] = worker[v] /\ jobs'[j] = jobs[j]
    BY <2>0, <2>1, HoldsSame
  <2>2. \A j \in Jobs : j > created' => jobs'[j] = NoRow /\ crashes'[j] = 0
    BY <1>a, <1>b, <2>0
  <2>3. \A j \in Jobs : jobs'[j].error = "exhausted" => jobs'[j].status = "FAILED"
    BY <1>a, <2>0
  <2> QED BY <1>0, <2>1, <2>2, <2>3, LeaseInvKept
<1>13. CASE UNCHANGED queueVars
  BY <1>0, <1>13 DEF queueVars, LeaseInv, HoldersAreCurrent, OneWorkerPerJob, Holds
<1> QED
  BY <1>1, <1>2, <1>3, <1>4, <1>5, <1>6, <1>7, <1>8, <1>9, <1>10, <1>11, <1>12, <1>13
     DEF QueueNext, WorkerStep

LEMMA LeaseInvInit == QueueInit => LeaseInv
<1> SUFFICES ASSUME QueueInit PROVE LeaseInv
  OBVIOUS
<1>1. \A w \in Workers, j \in Jobs : ~Holds(w, j)
  BY DEF QueueInit, IdleWorker, Holds
<1>2. NoRow.error # "exhausted"
  BY DEF NoRow
<1>3. HoldersAreCurrent
  BY <1>1, <1>2 DEF HoldersAreCurrent, QueueInit
<1>4. OneWorkerPerJob
  BY <1>1 DEF OneWorkerPerJob
<1> QED
  BY <1>3, <1>4, TypeInit DEF LeaseInv

\* Where the platform ends every run before its lease does, no two ticks ever
\* run the same job, however many ticks the cron route and the admin polls start.
THEOREM OneTickPerJob ==
  ASSUME ~RunsOutliveLease
  PROVE  QueueSpec => []OneWorkerPerJob
<1>1. LeaseInv /\ [QueueNext]_queueVars => LeaseInv'
  BY LeaseInvStep
<1>2. LeaseInv => OneWorkerPerJob
  BY DEF LeaseInv
<1> QED
  BY <1>1, <1>2, LeaseInvInit, PTL DEF QueueSpec

CountInv == LeaseInv /\ AttemptsBounded /\ AttemptsCountCrashes

\* One row's share of AttemptsCountCrashes.
Counted(row, n, held) ==
  /\ n <= MaxAttempts
  /\ row.status \in {"QUEUED", "RUNNING"} => row.attempts = n + (IF held THEN 1 ELSE 0)
  /\ row.error = "exhausted" => n = MaxAttempts

LEMMA CountStep ==
  ~RunsOutliveLease /\ CountInv /\ [QueueNext]_queueVars => CountInv'
<1> SUFFICES ASSUME ~RunsOutliveLease, CountInv, [QueueNext]_queueVars PROVE CountInv'
  OBVIOUS
<1>0. QueueTypeOK /\ LeaseInv'  /\ AttemptsBounded'
  BY LeaseInvStep, AttemptsStep DEF CountInv, LeaseInv
<1> SUFFICES ASSUME NEW j \in Jobs PROVE Counted(jobs'[j], crashes'[j], Held(j)')
  BY <1>0 DEF CountInv, AttemptsCountCrashes, Counted
<1>a. /\ Counted(jobs[j], crashes[j], Held(j))
      /\ jobs[j] \in Row /\ jobs[j].attempts \in Nat /\ crashes[j] \in Nat
      /\ jobs[j].attempts <= MaxAttempts /\ MaxAttempts \in Nat
      /\ jobs[j].status = "QUEUED" => jobs[j].attempts < MaxAttempts
  BY <1>0, QueueAssumption
     DEF CountInv, AttemptsCountCrashes, Counted, AttemptsBounded, QueueTypeOK, Row
<1>b. /\ \A w \in Workers : Holds(w, j) =>
           jobs[j].status = "RUNNING" /\ jobs[j].lease = "fresh"
      /\ j > created => jobs[j] = NoRow /\ crashes[j] = 0
      /\ jobs[j].error = "exhausted" => jobs[j].status = "FAILED"
      /\ \A v, w \in Workers : Holds(v, j) /\ Holds(w, j) => v = w
  BY DEF CountInv, LeaseInv, HoldersAreCurrent, OneWorkerPerJob
<1>c. NoRow.status = "absent" /\ NoRow.error = "none" /\ NoRow.attempts = 0
  BY DEF NoRow
<1>d. ASSUME NEW w \in Workers, OthersStay(w), ~Holds(w, j), ~Holds(w, j)'
      PROVE  Held(j)' <=> Held(j)
  BY <1>d, HoldsSame DEF Held, OthersStay
\* Steps of a tick that does not hold j and leave j's row and count alone.
<1>e. ASSUME NEW w \in Workers, OthersStay(w), ~Holds(w, j), ~Holds(w, j)',
             jobs'[j] = jobs[j], crashes'[j] = crashes[j]
      PROVE  Counted(jobs'[j], crashes'[j], Held(j)')
  BY <1>a, <1>d, <1>e DEF Counted
<1>f. ASSUME NEW w \in Workers, worker[w].pc \notin {"run", "finalize"}
      PROVE  ~Holds(w, j)
  BY <1>f DEF Holds
<1>1. CASE RequestStep
  <2>1. Held(j)' <=> Held(j)
    BY <1>0, <1>1, RequestEffect DEF Held, Holds
  <2>2. CASE jobs'[j] = jobs[j]
    BY <1>0, <1>1, <1>a, <2>1, <2>2, RequestEffect DEF Counted
  <2>3. CASE jobs'[j] # jobs[j]
    <3>1. /\ j = created' /\ created' = created + 1 /\ crashes' = crashes
          /\ jobs'[j].status = "QUEUED" /\ jobs'[j].attempts = 0
          /\ jobs'[j].error = "none"
      BY <1>0, <1>1, <2>3, RequestEffect
    <3>2. j > created
      BY <1>0, <3>1, QueueAssumption DEF QueueTypeOK
    <3>3. ~Held(j)
      BY <1>b, <1>c, <3>2 DEF Held
    <3> QED BY <1>a, <1>b, <2>1, <3>1, <3>2, <3>3 DEF Counted
  <2> QED BY <2>2, <2>3
<1>2. ASSUME NEW w \in Workers, StartTick(w)
      PROVE  Counted(jobs'[j], crashes'[j], Held(j)')
  BY <1>0, <1>2, <1>e, <1>f, StartEffect, HoldsNobody
<1>3. ASSUME NEW w \in Workers, RequeueExpired(w)
      PROVE  Counted(jobs'[j], crashes'[j], Held(j)')
  <2>0. /\ UNCHANGED crashes /\ OthersStay(w)
        /\ worker[w].pc = "claim" /\ worker'[w].pc = "expire"
        /\ jobs'[j] = IF LeaseExpired(j) /\ jobs[j].attempts < MaxAttempts
                      THEN Requeued(jobs[j]) ELSE jobs[j]
    BY <1>0, <1>3, RequeueEffect
  <2>1. Held(j)' <=> Held(j)
    BY <1>d, <1>f, <2>0, HoldsNobody
  <2>2. CASE LeaseExpired(j) /\ jobs[j].attempts < MaxAttempts
    <3>1. ~Held(j)
      BY <1>b, <2>2 DEF Held, LeaseExpired
    <3>2. /\ jobs'[j].attempts = jobs[j].attempts /\ jobs'[j].error = jobs[j].error
          /\ jobs'[j].status = "QUEUED" /\ jobs[j].status = "RUNNING"
      BY <1>a, <2>0, <2>2, RequeuedRow DEF LeaseExpired
    <3> QED BY <1>a, <2>0, <2>1, <3>1, <3>2 DEF Counted
  <2>3. CASE ~(LeaseExpired(j) /\ jobs[j].attempts < MaxAttempts)
    BY <1>a, <2>0, <2>1, <2>3 DEF Counted
  <2> QED BY <2>2, <2>3
<1>4. ASSUME NEW w \in Workers, FailExhausted(w)
      PROVE  Counted(jobs'[j], crashes'[j], Held(j)')
  <2>0. /\ UNCHANGED crashes /\ OthersStay(w)
        /\ worker[w].pc = "expire" /\ worker'[w].pc = "pick"
        /\ jobs'[j] = IF LeaseExpired(j) /\ jobs[j].attempts >= MaxAttempts
                      THEN Exhausted(jobs[j]) ELSE jobs[j]
    BY <1>0, <1>4, ExhaustEffect
  <2>1. Held(j)' <=> Held(j)
    BY <1>d, <1>f, <2>0, HoldsNobody
  <2>2. CASE LeaseExpired(j) /\ jobs[j].attempts >= MaxAttempts
    <3>1. ~Held(j) /\ jobs[j].status = "RUNNING"
      BY <1>b, <2>2 DEF Held, LeaseExpired
    <3>2. crashes[j] = MaxAttempts
      BY <1>a, <2>2, <3>1 DEF Counted
    <3>3. jobs'[j].status = "FAILED"
      BY <1>a, <2>0, <2>2, ExhaustedRow
    <3> QED BY <1>a, <2>0, <3>2, <3>3 DEF Counted
  <2>3. CASE ~(LeaseExpired(j) /\ jobs[j].attempts >= MaxAttempts)
    BY <1>a, <2>0, <2>1, <2>3 DEF Counted
  <2> QED BY <2>2, <2>3
<1>5. ASSUME NEW w \in Workers, PickOldest(w) \/ NothingToPick(w) \/ LoseJob(w)
      PROVE  Counted(jobs'[j], crashes'[j], Held(j)')
  BY <1>0, <1>5, <1>e, <1>f, PickEffect, HoldsNobody
<1>6. ASSUME NEW w \in Workers, TakeJob(w)
      PROVE  Counted(jobs'[j], crashes'[j], Held(j)')
  <2>0. /\ UNCHANGED crashes /\ OthersStay(w) /\ worker[w].pc = "take"
        /\ worker'[w].pc = "run" /\ worker'[w].job = worker[w].job
        /\ j = worker[w].job => jobs[j].status = "QUEUED" /\ jobs'[j] = Taken(jobs[j])
        /\ j # worker[w].job => jobs'[j] = jobs[j]
    BY <1>0, <1>6, TakeEffect
  <2>1. CASE j = worker[w].job
    <3>1. /\ jobs'[j].status = "RUNNING" /\ jobs'[j].attempts = jobs[j].attempts + 1
          /\ jobs'[j].error = jobs[j].error
      BY <1>a, <2>0, <2>1, TakenRow
    <3>2. ~Held(j)
      BY <1>b, <2>0, <2>1 DEF Held
    <3>3. Held(j)'
      BY <2>0, <2>1 DEF Held, Holds
    <3> QED BY <1>a, <2>0, <2>1, <3>1, <3>2, <3>3 DEF Counted
  <2>2. CASE j # worker[w].job
    <3>1. ~Holds(w, j) /\ ~Holds(w, j)'
      BY <2>0, <2>2 DEF Holds
    <3> QED BY <1>e, <2>0, <2>2, <3>1
  <2> QED BY <2>1, <2>2
<1>7. ASSUME NEW w \in Workers, NEW out \in Outcome, ReturnFromRun(w, out)
      PROVE  Counted(jobs'[j], crashes'[j], Held(j)')
  <2>1. Held(j)' <=> Held(j)
    BY <1>0, <1>7, ReturnEffect DEF Held, Holds, OthersStay
  <2> QED BY <1>0, <1>7, <1>a, <2>1, ReturnEffect DEF Counted
<1>8. ASSUME NEW w \in Workers, FinalizeJob(w)
      PROVE  Counted(jobs'[j], crashes'[j], Held(j)')
  <2> DEFINE i == worker[w].job
             out == worker[w].out
  <2>0. /\ worker[w].pc = "finalize" /\ out \in Outcome
        /\ worker'[w].pc \in {"settle", "claim"} /\ OthersStay(w)
        /\ j = i => /\ jobs'[j] = IF jobs[j].status # "absent"
                                  THEN Finalized(jobs[j], out) ELSE jobs[j]
                    /\ crashes'[j] = IF /\ jobs[j].status # "absent"
                                        /\ out.status = "progress"
                                     THEN 0 ELSE crashes[j]
        /\ j # i => jobs'[j] = jobs[j] /\ crashes'[j] = crashes[j]
    BY <1>0, <1>8, FinalizeEffect
  <2>1. CASE j = i
    <3>1. Holds(w, j)
      BY <2>0, <2>1 DEF Holds
    <3>2. jobs[j].status = "RUNNING"
      BY <1>b, <3>1
    <3>3. ~Held(j)'
      <4> SUFFICES ASSUME NEW v \in Workers, Holds(v, j)' PROVE FALSE
        BY DEF Held
      <4>1. v # w
        BY <2>0, HoldsNobody
      <4>2. Holds(v, j)
        BY <2>0, <4>1, HoldsSame DEF OthersStay
      <4> QED BY <1>b, <3>1, <4>1, <4>2
    <3>4. CASE out.status = "progress"
      <4>1. jobs'[j].status = "QUEUED" /\ jobs'[j].attempts = 0
              /\ jobs'[j].error = jobs[j].error /\ crashes'[j] = 0
        BY <1>a, <2>0, <2>1, <3>2, <3>4, FinalizedRow
      <4>2. jobs[j].error # "exhausted"
        BY <1>b, <3>2
      <4> QED BY <1>a, <3>3, <4>1, <4>2 DEF Counted
    <3>5. CASE out.status # "progress"
      <4>1. /\ jobs'[j].status \in Finished /\ jobs'[j].error # "exhausted"
            /\ crashes'[j] = crashes[j]
        BY <1>a, <2>0, <2>1, <3>2, <3>5, FinalizedRow
      <4> QED BY <1>a, <4>1 DEF Counted, Finished
    <3> QED BY <3>4, <3>5
  <2>2. CASE j # i
    <3>1. ~Holds(w, j) /\ ~Holds(w, j)'
      BY <2>0, <2>2, HoldsNobody DEF Holds
    <3> QED BY <1>e, <2>0, <2>2, <3>1
  <2> QED BY <2>1, <2>2
<1>9. ASSUME NEW w \in Workers, Settle(w) \/ StopTick(w)
      PROVE  Counted(jobs'[j], crashes'[j], Held(j)')
  BY <1>0, <1>9, <1>e, <1>f, RestEffect, HoldsNobody
<1>10. ASSUME NEW w \in Workers, PruneOldJobs(w)
       PROVE  Counted(jobs'[j], crashes'[j], Held(j)')
  <2>0. /\ UNCHANGED crashes /\ OthersStay(w)
        /\ worker[w].pc = "prune" /\ worker'[w].pc = "idle"
        /\ jobs'[j] = jobs[j] \/ jobs'[j] = NoRow
    BY <1>0, <1>10, PruneEffect
  <2>1. CASE jobs'[j] = jobs[j]
    BY <1>e, <1>f, <2>0, <2>1, HoldsNobody
  <2>2. CASE jobs'[j] = NoRow
    BY <1>a, <1>c, <2>0, <2>2 DEF Counted
  <2> QED BY <2>0, <2>1, <2>2
<1>11. ASSUME NEW w \in Workers, Crash(w)
       PROVE  Counted(jobs'[j], crashes'[j], Held(j)')
  <2>0. /\ jobs' = jobs /\ OthersStay(w) /\ worker'[w].pc = "idle"
        /\ crashes'[j] = IF Holds(w, j) THEN crashes[j] + 1 ELSE crashes[j]
    BY <1>0, <1>11, CrashEffect
  <2>1. ~Holds(w, j)'
    BY <2>0, HoldsNobody
  <2>2. CASE Holds(w, j)
    <3>1. Held(j) /\ jobs[j].status = "RUNNING" /\ jobs[j].error # "exhausted"
      BY <1>b, <2>2 DEF Held
    <3>2. ~Held(j)'
      <4> SUFFICES ASSUME NEW v \in Workers, Holds(v, j)' PROVE FALSE
        BY DEF Held
      <4>1. v # w
        BY <2>1
      <4>2. Holds(v, j)
        BY <2>0, <4>1, HoldsSame DEF OthersStay
      <4> QED BY <1>b, <2>2, <4>1, <4>2
    <3> QED BY <1>a, <2>0, <2>2, <3>1, <3>2 DEF Counted
  <2>3. CASE ~Holds(w, j)
    BY <1>e, <2>0, <2>1, <2>3
  <2> QED BY <2>2, <2>3
<1>12. ASSUME NEW i \in Jobs, LeaseExpires(i)
       PROVE  Counted(jobs'[j], crashes'[j], Held(j)')
  <2>1. Held(j)' <=> Held(j)
    BY <1>0, <1>12, LeaseEffect DEF Held, Holds
  <2> QED BY <1>0, <1>12, <1>a, <2>1, LeaseEffect DEF Counted
<1>13. CASE UNCHANGED queueVars
  BY <1>a, <1>13 DEF queueVars, Held, Holds, Counted
<1> QED
  BY <1>1, <1>2, <1>3, <1>4, <1>5, <1>6, <1>7, <1>8, <1>9, <1>10, <1>11, <1>12, <1>13
     DEF QueueNext, WorkerStep

LEMMA CountInit == QueueInit => CountInv
<1> SUFFICES ASSUME QueueInit PROVE CountInv
  OBVIOUS
<1>1. AttemptsBounded
  BY QueueAssumption DEF QueueInit, AttemptsBounded, NoRow
<1>2. AttemptsCountCrashes
  BY QueueAssumption DEF QueueInit, AttemptsCountCrashes, NoRow
<1> QED
  BY <1>1, <1>2, LeaseInvInit DEF CountInv

\* The attempts a row counts are the crashes since its last yield, so a job
\* fails as exhausted exactly after MaxAttempts of them.
THEOREM AttemptsAreCrashes ==
  ASSUME ~RunsOutliveLease
  PROVE  QueueSpec => []AttemptsCountCrashes
<1>1. CountInv /\ [QueueNext]_queueVars => CountInv'
  BY CountStep
<1>2. CountInv => AttemptsCountCrashes
  BY DEF CountInv
<1> QED
  BY <1>1, <1>2, CountInit, PTL DEF QueueSpec

-----------------------------------------------------------------------------
(* What a step may do to a row *)

\* A step leaves a row, or creates it, or writes it the way one statement does.
RowStep(j) ==
  \/ jobs'[j] = jobs[j]
  \/ jobs[j] = NoRow
  \/ jobs[j].status \in Finished /\ jobs'[j] = NoRow
  \/ /\ jobs[j].status \notin Finished
     /\ jobs'[j].progress >= jobs[j].progress

LEMMA RowSteps ==
  ASSUME ~RunsOutliveLease, LeaseInv, [QueueNext]_queueVars, NEW j \in Jobs
  PROVE  RowStep(j)
<1>0. /\ QueueTypeOK /\ jobs[j] \in Row /\ jobs[j].progress \in Nat
      /\ \A w \in Workers : Holds(w, j) =>
           jobs[j].status = "RUNNING" /\ worker[w].from = jobs[j].progress
      /\ j > created => jobs[j] = NoRow
  BY DEF LeaseInv, QueueTypeOK, Row, HoldersAreCurrent
<1>1. CASE RequestStep
  <2>1. jobs'[j] = jobs[j] \/ j = created + 1
    BY <1>0, <1>1, RequestEffect
  <2>2. created \in Nat
    BY <1>0, QueueAssumption DEF QueueTypeOK
  <2> QED BY <1>0, <2>1, <2>2 DEF RowStep
<1>2. ASSUME NEW w \in Workers,
             \/ StartTick(w) \/ PickOldest(w) \/ NothingToPick(w) \/ LoseJob(w)
             \/ \E out \in Outcome : ReturnFromRun(w, out)
             \/ Settle(w) \/ StopTick(w) \/ Crash(w)
      PROVE  RowStep(j)
  BY <1>0, <1>2, StartEffect, PickEffect, ReturnEffect, RestEffect, CrashEffect
     DEF RowStep
<1>3. ASSUME NEW w \in Workers, RequeueExpired(w) PROVE RowStep(j)
  BY <1>0, <1>3, RequeueEffect, RequeuedRow DEF RowStep, LeaseExpired, Finished
<1>4. ASSUME NEW w \in Workers, FailExhausted(w) PROVE RowStep(j)
  BY <1>0, <1>4, ExhaustEffect, ExhaustedRow DEF RowStep, LeaseExpired, Finished
<1>5. ASSUME NEW w \in Workers, TakeJob(w) PROVE RowStep(j)
  BY <1>0, <1>5, TakeEffect, TakenRow DEF RowStep, Finished
<1>6. ASSUME NEW w \in Workers, FinalizeJob(w) PROVE RowStep(j)
  <2> DEFINE out == worker[w].out
  <2>0. /\ worker[w].pc = "finalize" /\ out \in Outcome
        /\ j = worker[w].job => jobs'[j] = IF jobs[j].status # "absent"
                                          THEN Finalized(jobs[j], out) ELSE jobs[j]
        /\ j # worker[w].job => jobs'[j] = jobs[j]
    BY <1>0, <1>6, FinalizeEffect
  <2>1. CASE j = worker[w].job
    <3>1. Holds(w, j) /\ jobs[j].status = "RUNNING" /\ worker[w].from = jobs[j].progress
      BY <1>0, <2>0, <2>1 DEF Holds
    <3>2. CASE out.status = "progress"
      <4>1. worker[w].from < out.next /\ out.next \in Nat
        BY <2>0, <3>1, <3>2, OutcomeType DEF LeaseInv, HoldersAreCurrent
      <4>2. jobs'[j].progress = out.next
        BY <1>0, <2>0, <2>1, <3>1, <3>2, FinalizedRow
      <4> QED BY <1>0, <3>1, <4>1, <4>2 DEF RowStep, Finished
    <3>3. CASE out.status # "progress"
      <4>1. jobs'[j].progress = jobs[j].progress
        BY <1>0, <2>0, <2>1, <3>1, <3>3, FinalizedRow
      <4> QED BY <1>0, <3>1, <4>1 DEF RowStep, Finished
    <3> QED BY <3>2, <3>3
  <2>2. CASE j # worker[w].job
    BY <2>0, <2>2 DEF RowStep
  <2> QED BY <2>1, <2>2
<1>7. ASSUME NEW w \in Workers, PruneOldJobs(w) PROVE RowStep(j)
  BY <1>0, <1>7, PruneEffect DEF RowStep
<1>8. ASSUME NEW i \in Jobs, LeaseExpires(i) PROVE RowStep(j)
  BY <1>0, <1>8, LeaseEffect DEF RowStep, Finished
<1>9. CASE UNCHANGED queueVars
  BY <1>9 DEF queueVars, RowStep
<1> QED
  BY <1>1, <1>2, <1>3, <1>4, <1>5, <1>6, <1>7, <1>8, <1>9 DEF QueueNext, WorkerStep

\* A finished job row is never rewritten, only pruned: no late outcome reaches it.
THEOREM FinishedStaysFinished ==
  ASSUME ~RunsOutliveLease
  PROVE  QueueSpec => FinishedIsFinal
<1>1. LeaseInv /\ [QueueNext]_queueVars =>
        [\A j \in Jobs : jobs[j].status \in Finished
                          => jobs'[j] \in {jobs[j], NoRow}]_queueVars
  <2>1. NoRow.status \notin Finished
    BY DEF NoRow, Finished
  <2> QED BY <2>1, RowSteps DEF RowStep
<1>2. LeaseInv /\ [QueueNext]_queueVars => LeaseInv'
  BY LeaseInvStep
<1> QED
  BY <1>1, <1>2, LeaseInvInit, PTL DEF QueueSpec, FinishedIsFinal

\* The cursor of a job never goes back while the row exists.
THEOREM CursorOnlyAdvances ==
  ASSUME ~RunsOutliveLease
  PROVE  QueueSpec => CursorAdvances
<1>1. LeaseInv /\ [QueueNext]_queueVars =>
        [\A j \in Jobs : jobs'[j].status # "absent"
                          => jobs'[j].progress >= jobs[j].progress]_queueVars
  <2> SUFFICES ASSUME LeaseInv, [QueueNext]_queueVars, NEW j \in Jobs,
                      jobs'[j].status # "absent"
               PROVE  jobs'[j].progress >= jobs[j].progress
    OBVIOUS
  <2>1. NoRow.status = "absent" /\ NoRow.progress = 0
    BY DEF NoRow
  <2>2. RowStep(j)
    BY RowSteps
  <2>3. jobs[j].progress \in Nat /\ jobs'[j].progress \in Nat
    BY TypeStep DEF LeaseInv, QueueTypeOK, Row
  <2> QED BY <2>1, <2>2, <2>3 DEF RowStep
<1>2. LeaseInv /\ [QueueNext]_queueVars => LeaseInv'
  BY LeaseInvStep
<1> QED
  BY <1>1, <1>2, LeaseInvInit, PTL DEF QueueSpec, CursorAdvances

-----------------------------------------------------------------------------
(* One pending row per page, unless two requests looked it up at once *)

\* Where no run outlives its lease, the row a tick works for is RUNNING under a
\* live lease, and its cursor is where the tick started: nobody else may touch it.
THEOREM HoldersStayCurrent ==
  ASSUME ~RunsOutliveLease
  PROVE  QueueSpec => []HoldersAreCurrent
<1>1. LeaseInv /\ [QueueNext]_queueVars => LeaseInv'
  BY LeaseInvStep
<1>2. LeaseInv => HoldersAreCurrent
  BY DEF LeaseInv
<1> QED
  BY <1>1, <1>2, LeaseInvInit, PTL DEF QueueSpec

\* What the look-up of a request found out still holds when it inserts, unless
\* another request looked the page up meanwhile.
PendingInv ==
  /\ OnePendingUnlessRaced
  /\ \A r \in Requesters : \A d \in request[r].insert \ raced :
       ~DuplicateOf(d) /\ \A s \in Requesters \ {r} : d \notin request[s].insert

\* The step prunes row j or leaves what job it is, and revives no finished job.
SameJob(j) ==
  \/ jobs'[j] = NoRow
  \/ /\ jobs'[j].type = jobs[j].type /\ jobs'[j].doc = jobs[j].doc
     /\ Pending(j)' => Pending(j)

\* Only requests create jobs: any other step leaves every row the job it was.
LEMMA OtherStepsSameJob ==
  ASSUME ~RunsOutliveLease, LeaseInv,
         \/ \E w \in Workers : StartTick(w) \/ WorkerStep(w) \/ Crash(w)
         \/ \E i \in Jobs : LeaseExpires(i),
         NEW j \in Jobs
  PROVE  SameJob(j) /\ UNCHANGED <<request, raced>>
<1>0. /\ QueueTypeOK /\ jobs[j] \in Row
      /\ \A w \in Workers : Holds(w, j) => jobs[j].status = "RUNNING"
  BY DEF LeaseInv, QueueTypeOK, HoldersAreCurrent
<1>1. ASSUME NEW w \in Workers,
             \/ StartTick(w) \/ PickOldest(w) \/ NothingToPick(w) \/ LoseJob(w)
             \/ \E out \in Outcome : ReturnFromRun(w, out)
             \/ Settle(w) \/ StopTick(w) \/ Crash(w)
      PROVE  SameJob(j) /\ UNCHANGED <<request, raced>>
  <2>1. jobs' = jobs
    BY <1>0, <1>1, StartEffect, PickEffect, ReturnEffect, RestEffect, CrashEffect
  <2>2. UNCHANGED <<request, raced>>
    BY <1>1 DEF StartTick, PickOldest, NothingToPick, LoseJob, ReturnFromRun, Settle,
                StopTick, Crash
  <2> QED BY <2>1, <2>2 DEF SameJob, Pending
<1>2. ASSUME NEW w \in Workers, RequeueExpired(w) PROVE SameJob(j) /\ UNCHANGED <<request, raced>>
  <2>1. Requeued(jobs[j]).type = jobs[j].type /\ Requeued(jobs[j]).doc = jobs[j].doc
    BY <1>0, RequeuedRow
  <2>2. UNCHANGED <<request, raced>>
    BY <1>2 DEF RequeueExpired
  <2>3. jobs'[j] = IF LeaseExpired(j) /\ jobs[j].attempts < MaxAttempts
                   THEN Requeued(jobs[j]) ELSE jobs[j]
    BY <1>0, <1>2, RequeueEffect
  <2> QED BY <2>1, <2>2, <2>3 DEF SameJob, Pending, LeaseExpired
<1>3. ASSUME NEW w \in Workers, FailExhausted(w) PROVE SameJob(j) /\ UNCHANGED <<request, raced>>
  <2>1. Exhausted(jobs[j]).type = jobs[j].type /\ Exhausted(jobs[j]).doc = jobs[j].doc
    BY <1>0, ExhaustedRow
  <2>2. UNCHANGED <<request, raced>>
    BY <1>3 DEF FailExhausted
  <2>3. jobs'[j] = IF LeaseExpired(j) /\ jobs[j].attempts >= MaxAttempts
                   THEN Exhausted(jobs[j]) ELSE jobs[j]
    BY <1>0, <1>3, ExhaustEffect
  <2> QED BY <2>1, <2>2, <2>3 DEF SameJob, Pending, LeaseExpired
<1>4. ASSUME NEW w \in Workers, TakeJob(w) PROVE SameJob(j) /\ UNCHANGED <<request, raced>>
  <2>1. Taken(jobs[j]).type = jobs[j].type /\ Taken(jobs[j]).doc = jobs[j].doc
    BY <1>0, TakenRow
  <2>2. UNCHANGED <<request, raced>>
    BY <1>4 DEF TakeJob
  <2>3. jobs'[j] = jobs[j] \/ (jobs[j].status = "QUEUED" /\ jobs'[j] = Taken(jobs[j]))
    BY <1>0, <1>4, TakeEffect
  <2> QED BY <2>1, <2>2, <2>3 DEF SameJob, Pending
<1>5. ASSUME NEW w \in Workers, FinalizeJob(w) PROVE SameJob(j) /\ UNCHANGED <<request, raced>>
  <2> DEFINE out == worker[w].out
  <2>0. /\ worker[w].pc = "finalize" /\ out \in Outcome
        /\ \/ jobs'[j] = jobs[j]
           \/ j = worker[w].job /\ jobs'[j] = Finalized(jobs[j], out)
    BY <1>0, <1>5, FinalizeEffect
  <2>1. j = worker[w].job => jobs[j].status = "RUNNING"
    BY <1>0, <2>0 DEF Holds
  <2>2. /\ Finalized(jobs[j], out).type = jobs[j].type
        /\ Finalized(jobs[j], out).doc = jobs[j].doc
    BY <1>0, <2>0, FinalizedRow
  <2>3. UNCHANGED <<request, raced>>
    BY <1>5 DEF FinalizeJob
  <2> QED BY <2>0, <2>1, <2>2, <2>3 DEF SameJob, Pending
<1>6. ASSUME NEW w \in Workers, PruneOldJobs(w) PROVE SameJob(j) /\ UNCHANGED <<request, raced>>
  <2>1. jobs'[j] = jobs[j] \/ jobs'[j] = NoRow
    BY <1>0, <1>6, PruneEffect
  <2>2. UNCHANGED <<request, raced>>
    BY <1>6 DEF PruneOldJobs
  <2> QED BY <2>1, <2>2 DEF SameJob, Pending
<1>7. ASSUME NEW i \in Jobs, LeaseExpires(i) PROVE SameJob(j) /\ UNCHANGED <<request, raced>>
  BY <1>0, <1>7, LeaseEffect DEF SameJob, Pending
<1> QED
  BY <1>1, <1>2, <1>3, <1>4, <1>5, <1>6, <1>7 DEF WorkerStep

LEMMA NoRowNotPending == \A j \in Jobs : jobs[j] = NoRow => ~Pending(j)
  BY DEF NoRow, Pending

\* The two statements of enqueueUrlJob, and the one of enqueuePdfJob.
LEMMA LookEffect ==
  ASSUME QueueTypeOK, NEW r \in Requesters, NEW d \in Docs, LookForDuplicate(r, d)
  PROVE  /\ jobs' = jobs /\ \A s \in Requesters \ {r} : request'[s] = request[s]
         /\ DuplicateOf(d) => request'[r].insert = request[r].insert
         /\ ~DuplicateOf(d) => request'[r].insert = request[r].insert \cup {d}
<1> DEFINE asked == request[r]
           insert == IF DuplicateOf(d) THEN asked.insert ELSE asked.insert \cup {d}
           new == Request(asked.look \ {d}, insert, asked.force)
<1>1. request' = [request EXCEPT ![r] = new] /\ jobs' = jobs
  BY DEF LookForDuplicate
<1>2. insert \in SUBSET Docs /\ asked.look \ {d} \in SUBSET Docs /\ asked.force \in BOOLEAN
  BY DEF QueueTypeOK
<1>3. /\ DuplicateOf(d) => insert = request[r].insert
      /\ ~DuplicateOf(d) => insert = request[r].insert \cup {d}
  OBVIOUS
<1> HIDE DEF insert, asked
<1>4. new.insert = insert
  BY <1>2, RequestType
<1> HIDE DEF new
<1> QED BY <1>1, <1>3, <1>4 DEF QueueTypeOK

LEMMA InsertRequest ==
  ASSUME QueueTypeOK, NEW r \in Requesters, NEW d \in Docs, InsertUrl(r, d)
  PROVE  /\ \A s \in Requesters \ {r} : request'[s] = request[s]
         /\ request'[r].insert = request[r].insert \ {d}
<1> DEFINE new == Request(request[r].look, request[r].insert \ {d}, request[r].force)
<1>1. request' = [request EXCEPT ![r] = new]
  BY DEF InsertUrl
<1>2. new.insert = request[r].insert \ {d}
  BY DEF Request
<1> HIDE DEF new
<1> QED BY <1>1, <1>2 DEF QueueTypeOK

LEMMA InsertEffect ==
  ASSUME QueueTypeOK, NEW row, Insert(row)
  PROVE  /\ created + 1 \in Jobs /\ created' = created + 1 /\ jobs'[created + 1] = row
         /\ \A j \in Jobs : j # created + 1 => jobs'[j] = jobs[j]
  BY QueueAssumption DEF Insert, QueueTypeOK, Jobs

LEMMA PendingStep ==
  ~RunsOutliveLease /\ LeaseInv /\ PendingInv /\ [QueueNext]_queueVars => PendingInv'
<1> SUFFICES ASSUME ~RunsOutliveLease, LeaseInv, PendingInv, [QueueNext]_queueVars
             PROVE  PendingInv'
  OBVIOUS
<1>0. QueueTypeOK
  BY DEF LeaseInv
<1>1. ASSUME NEW r \in Requesters, NEW urls \in SUBSET Docs, NEW f \in BOOLEAN,
             RequestUrls(r, urls, f)
      PROVE  PendingInv'
  <2> DEFINE new == Request(urls, {}, f)
  <2>1. request' = [request EXCEPT ![r] = new] /\ jobs' = jobs /\ raced' = raced
    BY <1>1 DEF RequestUrls
  <2>2. new.insert = {}
    BY RequestType
  <2> HIDE DEF new
  <2>3. \A s \in Requesters : request'[s].insert \subseteq request[s].insert
    BY <1>0, <2>1, <2>2 DEF QueueTypeOK
  <2> QED BY <2>1, <2>3 DEF PendingInv, OnePendingUnlessRaced, OnePendingRow, Pending,
                            DuplicateOf
<1>2. ASSUME NEW r \in Requesters, NEW d \in Docs, LookForDuplicate(r, d)
      PROVE  PendingInv'
  <2> DEFINE meets == \E s \in Requesters \ {r} : d \in request[s].insert
  <2>1. jobs' = jobs /\ \A s \in Requesters \ {r} : request'[s] = request[s]
    BY <1>0, <1>2, LookEffect
  <2>2. \A e : DuplicateOf(e)' <=> DuplicateOf(e)
    BY <2>1 DEF DuplicateOf, Pending
  <2>3. \A e : OnePendingRow(e)' <=> OnePendingRow(e)
    BY <2>1 DEF OnePendingRow, Pending
  <2>4. CASE DuplicateOf(d)
    <3>1. raced' = raced /\ request'[r].insert = request[r].insert
      BY <1>0, <1>2, <2>4, LookEffect DEF LookForDuplicate
    <3> QED BY <2>1, <2>2, <2>3, <3>1 DEF PendingInv, OnePendingUnlessRaced
  <2>5. CASE ~DuplicateOf(d) /\ meets
    <3>1. raced' = raced \cup {d} /\ request'[r].insert = request[r].insert \cup {d}
      BY <1>0, <1>2, <2>5, LookEffect DEF LookForDuplicate
    <3> QED BY <2>1, <2>2, <2>3, <3>1 DEF PendingInv, OnePendingUnlessRaced
  <2>6. CASE ~DuplicateOf(d) /\ ~meets
    <3>1. raced' = raced \ {d} /\ request'[r].insert = request[r].insert \cup {d}
      BY <1>0, <1>2, <2>6, LookEffect DEF LookForDuplicate
    <3>2. OnePendingRow(d)
      BY <2>6 DEF OnePendingRow, DuplicateOf
    <3> QED BY <2>1, <2>2, <2>3, <2>6, <3>1, <3>2 DEF PendingInv, OnePendingUnlessRaced
  <2> QED BY <2>4, <2>5, <2>6
<1>3. ASSUME NEW r \in Requesters, NEW d \in Docs, InsertUrl(r, d)
      PROVE  PendingInv'
  <2> DEFINE n == created + 1
             row == NewRow("URL", d, request[r].force)
  <2>1. /\ n \in Jobs /\ jobs'[n] = row /\ raced' = raced
        /\ \A j \in Jobs : j # n => jobs'[j] = jobs[j]
    BY <1>0, <1>3, InsertEffect DEF InsertUrl
  <2>2. row.doc = d /\ row.type = "URL"
    BY DEF NewRow
  <2>3. d \notin raced =>
          /\ ~DuplicateOf(d)
          /\ \A s \in Requesters \ {r} : d \notin request[s].insert
    BY <1>3 DEF InsertUrl, PendingInv
  <2> HIDE DEF n, row
  <2>4. ASSUME NEW e \in Docs \ raced PROVE OnePendingRow(e)'
    <3> SUFFICES ASSUME NEW j \in Jobs, NEW k \in Jobs,
                        jobs'[j].type = "URL", Pending(j)', jobs'[j].doc = e,
                        jobs'[k].type = "URL", Pending(k)', jobs'[k].doc = e
                 PROVE  j = k
      BY DEF OnePendingRow
    <3>1. CASE j # n /\ k # n
      BY <2>1, <3>1 DEF PendingInv, OnePendingUnlessRaced, OnePendingRow, Pending
    <3>2. CASE j = n /\ k # n
      BY <2>1, <2>2, <2>3, <3>2 DEF DuplicateOf, Pending
    <3>3. CASE j # n /\ k = n
      BY <2>1, <2>2, <2>3, <3>3 DEF DuplicateOf, Pending
    <3> QED BY <3>1, <3>2, <3>3
  <2>5. /\ request'[r].insert = request[r].insert \ {d}
        /\ \A s \in Requesters \ {r} : request'[s] = request[s]
    BY <1>0, <1>3, InsertRequest
  <2>6. ASSUME NEW s \in Requesters, NEW e \in request'[s].insert \ raced
        PROVE  /\ ~DuplicateOf(e)'
               /\ \A q \in Requesters \ {s} : e \notin request'[q].insert
    <3>1. e \in request[s].insert
      BY <2>5, <2>6
    <3>2. /\ ~DuplicateOf(e)
          /\ \A q \in Requesters \ {s} : e \notin request[q].insert
      BY <2>6, <3>1 DEF PendingInv
    <3>3. e # d
      <4>1. CASE s = r
        BY <2>5, <2>6, <4>1
      <4>2. CASE s # r
        BY <2>3, <2>6, <3>1, <4>2
      <4> QED BY <4>1, <4>2
    <3>4. ~DuplicateOf(e)'
      BY <2>1, <2>2, <3>2, <3>3 DEF DuplicateOf, Pending
    <3>5. \A q \in Requesters : request'[q].insert \subseteq request[q].insert
      BY <2>5
    <3> QED BY <3>2, <3>4, <3>5
  <2> QED BY <2>1, <2>4, <2>6 DEF PendingInv, OnePendingUnlessRaced
<1>4. ASSUME NEW d \in PdfDocs, InsertPdf(d)
      PROVE  PendingInv'
  <2> DEFINE n == created + 1
             row == NewRow("PDF", d, FALSE)
  <2>1. /\ n \in Jobs /\ jobs'[n] = row /\ request' = request /\ raced' = raced
        /\ \A j \in Jobs : j # n => jobs'[j] = jobs[j]
    BY <1>0, <1>4, InsertEffect DEF InsertPdf
  <2>2. row.type = "PDF"
    BY DEF NewRow
  <2> HIDE DEF n, row
  <2>3. OnePendingUnlessRaced'
    BY <2>1, <2>2 DEF PendingInv, OnePendingUnlessRaced, OnePendingRow, Pending
  <2>4. \A e : DuplicateOf(e)' => DuplicateOf(e)
    BY <2>1, <2>2 DEF DuplicateOf, Pending
  <2> QED BY <2>1, <2>3, <2>4 DEF PendingInv
<1>5. CASE \/ \E w \in Workers : StartTick(w) \/ WorkerStep(w) \/ Crash(w)
           \/ \E i \in Jobs : LeaseExpires(i)
  <2>0. \A j \in Jobs : SameJob(j) /\ UNCHANGED <<request, raced>>
    BY <1>5, OtherStepsSameJob
  <2>1. ASSUME NEW j \in Jobs, Pending(j)'
        PROVE  Pending(j) /\ jobs'[j].type = jobs[j].type /\ jobs'[j].doc = jobs[j].doc
    BY <2>0, <2>1 DEF SameJob, Pending, NoRow
  <2>2. \A e : OnePendingRow(e) => OnePendingRow(e)'
    BY <2>1 DEF OnePendingRow
  <2>3. \A e : DuplicateOf(e)' => DuplicateOf(e)
    BY <2>1 DEF DuplicateOf
  <2>4. UNCHANGED <<request, raced>>
    BY <1>5 DEF StartTick, WorkerStep, Crash, LeaseExpires, RequeueExpired, FailExhausted,
                PickOldest, NothingToPick, TakeJob, LoseJob, ReturnFromRun, FinalizeJob,
                Settle, StopTick, PruneOldJobs
  <2> QED BY <2>2, <2>3, <2>4 DEF PendingInv, OnePendingUnlessRaced
<1>6. CASE UNCHANGED queueVars
  BY <1>6 DEF queueVars, PendingInv, OnePendingUnlessRaced, OnePendingRow, Pending,
              DuplicateOf
<1> QED
  BY <1>1, <1>2, <1>3, <1>4, <1>5, <1>6 DEF QueueNext, RequestStep

LEMMA PendingInit == QueueInit => PendingInv
<1> SUFFICES ASSUME QueueInit PROVE PendingInv
  OBVIOUS
<1>1. OnePendingUnlessRaced
  BY NoRowNotPending DEF QueueInit, OnePendingUnlessRaced, OnePendingRow
<1>2. \A r \in Requesters : request[r].insert = {}
  BY DEF QueueInit, Request
<1> QED BY <1>1, <1>2 DEF PendingInv

\* For any number of requests and ticks: the look-up before the insert keeps a
\* page to one pending job, however many ticks requeue, take and finish jobs
\* meanwhile, unless two requests looked the page up before either inserted.
THEOREM OnePendingJobPerPage ==
  ASSUME ~RunsOutliveLease
  PROVE  QueueSpec => []OnePendingUnlessRaced
<1> DEFINE Inv == LeaseInv /\ PendingInv
<1>1. QueueInit => Inv
  BY LeaseInvInit, PendingInit
<1>2. Inv /\ [QueueNext]_queueVars => Inv'
  BY LeaseInvStep, PendingStep
<1>3. Inv => OnePendingUnlessRaced
  BY DEF PendingInv
<1> HIDE DEF Inv
<1> QED
  BY <1>1, <1>2, <1>3, PTL DEF QueueSpec

-----------------------------------------------------------------------------
(* The queue implements the job life cycle of JobLifecycle: each abstract *)
(* action has a lemma that says what must change for it to have happened; *)
(* the step lemma then reads that off the effect of each queue action.    *)

\* The abstract phase, from the row and from whether a tick holds it.
PhaseOf(row, held) ==
  CASE row.status = "absent" -> "unknown"
    [] row.status = "QUEUED" -> "waiting"
    [] row.status = "RUNNING" -> IF held THEN "held" ELSE "lost"
    [] row.status = "DONE" -> "done"
    [] row.status = "FAILED" -> "failed"

LEMMA PhaseIs ==
  \A j : Phase(j) = PhaseOf(jobs[j], Held(j)) /\ Phase(j)' = PhaseOf(jobs'[j], Held(j)')
  BY DEF Phase, PhaseOf

LEMMA PhaseValues ==
  ASSUME NEW row, NEW held \in BOOLEAN
  PROVE  /\ row.status = "absent" => PhaseOf(row, held) = "unknown"
         /\ row.status = "QUEUED" => PhaseOf(row, held) = "waiting"
         /\ row.status = "RUNNING" /\ held => PhaseOf(row, held) = "held"
         /\ row.status = "RUNNING" /\ ~held => PhaseOf(row, held) = "lost"
         /\ row.status = "DONE" => PhaseOf(row, held) = "done"
         /\ row.status = "FAILED" => PhaseOf(row, held) = "failed"
  BY DEF PhaseOf

HoldersStay(j) == \A w \in Workers : Holds(w, j)' <=> Holds(w, j)

\* Nothing the abstraction sees of job j has changed.
Unseen(j) == Phase(j)' = Phase(j) /\ HoldersStay(j) /\ crashes'[j] = crashes[j]

\* The holders of j leave it.
Released(j) == \A w \in Workers : ~Holds(w, j)'

LEMMA HeldStays ==
  ASSUME NEW j \in Jobs, HoldersStay(j)
  PROVE  Held(j)' <=> Held(j)
  BY DEF HoldersStay, Held

LEMMA HeldIsBoolean == \A j : Held(j) \in BOOLEAN /\ Held(j)' \in BOOLEAN
  BY DEF Held

\* Same status and same holders, same phase.
LEMMA UnseenRow ==
  ASSUME NEW j \in Jobs, HoldersStay(j), jobs'[j].status = jobs[j].status,
         crashes'[j] = crashes[j]
  PROVE  Unseen(j)
<1>1. Held(j)' = Held(j)
  BY HeldStays, HeldIsBoolean
<1>2. Phase(j)' = Phase(j)
  BY <1>1 DEF Phase
<1> QED
  BY <1>2 DEF Unseen

-----------------------------------------------------------------------------
(* When an abstract action has happened *)

LEMMA StutterHappened ==
  ASSUME QueueTypeOK, QueueTypeOK', \A j \in Jobs : Unseen(j)
  PROVE  UNCHANGED Lifecycle!vars
<1>1. crashes' = crashes
  BY DEF QueueTypeOK, Unseen
<1>2. \A j \in Jobs : Phase(j)' = Phase(j)
  BY DEF Unseen
<1>3. \A j \in Jobs : {w \in Workers : Holds(w, j)}' = {w \in Workers : Holds(w, j)}
  BY DEF Unseen, HoldersStay
<1> QED
  BY <1>1, <1>2, <1>3 DEF Lifecycle!vars

LEMMA SubmitHappened ==
  ASSUME QueueTypeOK, QueueTypeOK', NEW j \in Jobs,
         Phase(j) = "unknown", Phase(j)' = "waiting",
         HoldersStay(j), crashes'[j] = crashes[j],
         \A k \in Jobs : k # j => Unseen(k)
  PROVE  Lifecycle!Submit(j)
<1>1. crashes' = crashes
  BY DEF QueueTypeOK, Unseen
<1>2. [k \in Jobs |-> Phase(k)]' = [[k \in Jobs |-> Phase(k)] EXCEPT ![j] = "waiting"]
  BY DEF Unseen
<1>3. \A k \in Jobs : {w \in Workers : Holds(w, k)}' = {w \in Workers : Holds(w, k)}
  BY DEF Unseen, HoldersStay
<1> QED
  BY <1>1, <1>2, <1>3 DEF Lifecycle!Submit

LEMMA TakeHappened ==
  ASSUME QueueTypeOK, QueueTypeOK', NEW j \in Jobs, NEW w \in Workers,
         Phase(j) = "waiting", Phase(j)' = "held",
         \A v \in Workers : Holds(v, j)' <=> v = w, crashes'[j] = crashes[j],
         \A k \in Jobs : k # j => Unseen(k)
  PROVE  Lifecycle!Take(w, j)
<1>1. crashes' = crashes
  BY DEF QueueTypeOK, Unseen
<1>2. [k \in Jobs |-> Phase(k)]' = [[k \in Jobs |-> Phase(k)] EXCEPT ![j] = "held"]
  BY DEF Unseen
<1>3. {v \in Workers : Holds(v, j)}' = {w}
  OBVIOUS
<1>4. \A k \in Jobs : k # j =>
        {v \in Workers : Holds(v, k)}' = {v \in Workers : Holds(v, k)}
  BY DEF Unseen, HoldersStay
<1> QED
  BY <1>1, <1>2, <1>3, <1>4 DEF Lifecycle!Take

\* The owners of one job leave it and nobody else moves.
LEMMA OwnersReleased ==
  ASSUME NEW j \in Jobs, Released(j), \A k \in Jobs : k # j => Unseen(k)
  PROVE  [k \in Jobs |-> {w \in Workers : Holds(w, k)}]' =
           [[k \in Jobs |-> {w \in Workers : Holds(w, k)}] EXCEPT ![j] = {}]
<1>1. {w \in Workers : Holds(w, j)}' = {}
  BY DEF Released
<1>2. \A k \in Jobs : k # j =>
        {w \in Workers : Holds(w, k)}' = {w \in Workers : Holds(w, k)}
  BY DEF Unseen, HoldersStay
<1> QED
  BY <1>1, <1>2

LEMMA YieldHappened ==
  ASSUME QueueTypeOK, QueueTypeOK', NEW j \in Jobs,
         Phase(j) = "held", Phase(j)' = "waiting", Released(j), crashes'[j] = 0,
         \A k \in Jobs : k # j => Unseen(k)
  PROVE  Lifecycle!Yield(j)
<1>1. crashes' = [crashes EXCEPT ![j] = 0]
  BY DEF QueueTypeOK, Unseen
<1>2. [k \in Jobs |-> Phase(k)]' = [[k \in Jobs |-> Phase(k)] EXCEPT ![j] = "waiting"]
  BY DEF Unseen
<1> QED
  BY <1>1, <1>2, OwnersReleased DEF Lifecycle!Yield

LEMMA FinishHappened ==
  ASSUME QueueTypeOK, QueueTypeOK', NEW j \in Jobs,
         Phase(j) = "held", Phase(j)' \in {"done", "failed"}, Released(j),
         crashes'[j] = crashes[j], \A k \in Jobs : k # j => Unseen(k)
  PROVE  Lifecycle!Finish(j)
<1>1. crashes' = crashes
  BY DEF QueueTypeOK, Unseen
<1>2. [k \in Jobs |-> Phase(k)]' = [[k \in Jobs |-> Phase(k)] EXCEPT ![j] = Phase(j)']
  BY DEF Unseen
<1> QED
  BY <1>1, <1>2, OwnersReleased DEF Lifecycle!Finish

LEMMA LoseHappened ==
  ASSUME QueueTypeOK, QueueTypeOK', NEW j \in Jobs,
         Phase(j) = "held", Phase(j)' = "lost", Released(j),
         crashes'[j] = crashes[j] + 1, \A k \in Jobs : k # j => Unseen(k)
  PROVE  Lifecycle!Lose(j)
<1>1. crashes' = [crashes EXCEPT ![j] = crashes[j] + 1]
  BY DEF QueueTypeOK, Unseen
<1>2. [k \in Jobs |-> Phase(k)]' = [[k \in Jobs |-> Phase(k)] EXCEPT ![j] = "lost"]
  BY DEF Unseen
<1> QED
  BY <1>1, <1>2, OwnersReleased DEF Lifecycle!Lose

\* Recover, GiveUp and Forget move a set of jobs to one phase.
LEMMA MovedHappened ==
  ASSUME QueueTypeOK, QueueTypeOK', NEW moved \in SUBSET Jobs, NEW to,
         \A j \in moved : Phase(j)' = to /\ HoldersStay(j) /\ crashes'[j] = crashes[j],
         \A j \in Jobs \ moved : Unseen(j)
  PROVE  /\ crashes' = crashes
         /\ [j \in Jobs |-> Phase(j)]' =
              [j \in Jobs |-> IF j \in moved THEN to ELSE [i \in Jobs |-> Phase(i)][j]]
         /\ [j \in Jobs |-> {w \in Workers : Holds(w, j)}]' =
              [j \in Jobs |-> {w \in Workers : Holds(w, j)}]
<1>1. \A j \in Jobs : HoldersStay(j) /\ crashes'[j] = crashes[j]
  BY DEF Unseen
<1>2. crashes' = crashes
  BY <1>1 DEF QueueTypeOK
<1>3. \A j \in Jobs : Phase(j)' = IF j \in moved THEN to ELSE Phase(j)
  BY DEF Unseen
<1>4. \A j \in Jobs : {w \in Workers : Holds(w, j)}' = {w \in Workers : Holds(w, j)}
  BY <1>1 DEF HoldersStay
<1> QED
  BY <1>2, <1>3, <1>4

-----------------------------------------------------------------------------
(* Every step of the queue is a step of the life cycle or a stutter *)

\* A tick that holds no job before or after a step changes no holders.
LEMMA FreeTick ==
  ASSUME NEW w \in Workers, OthersStay(w), worker[w].pc \notin {"run", "finalize"},
         worker'[w].pc \notin {"run", "finalize"}
  PROVE  \A j \in Jobs : HoldersStay(j)
<1>1. \A j \in Jobs : ~Holds(w, j) /\ ~Holds(w, j)'
  BY DEF Holds
<1> QED
  BY <1>1, HoldsSame DEF OthersStay, HoldersStay

LEMMA RequestRefines ==
  ASSUME CountInv, RequestStep
  PROVE  (\E j \in Jobs : Lifecycle!Submit(j)) \/ UNCHANGED Lifecycle!vars
<1>0. /\ QueueTypeOK /\ QueueTypeOK' /\ worker' = worker /\ crashes' = crashes
      /\ \/ jobs' = jobs
         \/ /\ created' = created + 1 /\ created' \in Jobs
            /\ jobs'[created'].status = "QUEUED"
            /\ \A j \in Jobs : j # created' => jobs'[j] = jobs[j]
  BY RequestEffect DEF CountInv, LeaseInv
<1>1. \A j \in Jobs : HoldersStay(j)
  BY <1>0 DEF HoldersStay, Holds
<1>2. CASE jobs' = jobs
  <2>1. \A j \in Jobs : Unseen(j)
    BY <1>0, <1>1, <1>2, UnseenRow
  <2> QED BY <1>0, <2>1, StutterHappened
<1>3. CASE jobs' # jobs
  <2>1. PICK j \in Jobs : /\ j = created' /\ j = created + 1
                         /\ jobs'[j].status = "QUEUED"
                         /\ \A k \in Jobs : k # j => jobs'[k] = jobs[k]
    BY <1>0, <1>3
  <2>2. j > created
    BY <1>0, <2>1, QueueAssumption DEF QueueTypeOK
  <2>3. jobs[j].status = "absent"
    <3>1. jobs[j] = NoRow
      BY <2>1, <2>2 DEF CountInv, LeaseInv, HoldersAreCurrent
    <3> QED BY <3>1 DEF NoRow
  <2>4. Phase(j) = "unknown" /\ Phase(j)' = "waiting"
    BY <2>1, <2>3, PhaseIs, PhaseValues, HeldIsBoolean
  <2>5. \A k \in Jobs : k # j => Unseen(k)
    BY <1>0, <1>1, <2>1, UnseenRow
  <2>6. Lifecycle!Submit(j)
    BY <1>0, <1>1, <2>1, <2>4, <2>5, SubmitHappened
  <2> QED BY <2>1, <2>6
<1> QED BY <1>2, <1>3

\* Steps that move a tick which holds no job, and write no row.
LEMMA MovesRefine ==
  ASSUME CountInv, NEW w \in Workers,
         \/ StartTick(w) \/ PickOldest(w) \/ NothingToPick(w) \/ LoseJob(w)
         \/ Settle(w) \/ StopTick(w)
  PROVE  UNCHANGED Lifecycle!vars
<1>0. QueueTypeOK
  BY DEF CountInv, LeaseInv
<1>1. /\ QueueTypeOK' /\ UNCHANGED <<jobs, crashes>> /\ OthersStay(w)
      /\ worker[w].pc \notin {"run", "finalize"}
      /\ worker'[w].pc \notin {"run", "finalize"}
  BY <1>0, StartEffect, PickEffect, RestEffect
<1>2. \A j \in Jobs : Unseen(j)
  BY <1>1, FreeTick, UnseenRow
<1> QED BY <1>0, <1>1, <1>2, StutterHappened

LEMMA RequeueRefines ==
  ASSUME CountInv, NEW w \in Workers, RequeueExpired(w)
  PROVE  \E found \in SUBSET Jobs : Lifecycle!Recover(found)
<1> DEFINE found == {j \in Jobs : LeaseExpired(j) /\ jobs[j].attempts < MaxAttempts}
<1>0. QueueTypeOK
  BY DEF CountInv, LeaseInv
<1>1. /\ QueueTypeOK' /\ UNCHANGED crashes /\ OthersStay(w)
      /\ worker[w].pc = "claim" /\ worker'[w].pc = "expire"
      /\ \A j \in Jobs : jobs'[j] = IF LeaseExpired(j) /\ jobs[j].attempts < MaxAttempts
                                    THEN Requeued(jobs[j]) ELSE jobs[j]
  BY <1>0, RequeueEffect
<1>2. \A j \in Jobs : HoldersStay(j)
  BY <1>1, FreeTick
<1>3. ASSUME NEW j \in found
      PROVE  Phase(j) = "lost" /\ crashes[j] < MaxAttempts /\ Phase(j)' = "waiting"
  <2>1. j \in Jobs /\ jobs[j] \in Row /\ crashes[j] \in Nat
    BY <1>0 DEF QueueTypeOK
  <2>2. jobs[j].status = "RUNNING" /\ jobs[j].lease = "expired"
    BY DEF LeaseExpired
  <2>3. ~Held(j)
    BY <2>1, <2>2 DEF CountInv, LeaseInv, HoldersAreCurrent, Held
  <2>4. crashes[j] < MaxAttempts
    BY <2>1, <2>2, <2>3, QueueAssumption DEF CountInv, AttemptsCountCrashes
  <2>5. jobs'[j].status = "QUEUED"
    BY <1>1, <2>1, RequeuedRow
  <2> QED BY <2>2, <2>3, <2>4, <2>5, PhaseIs, PhaseValues, HeldIsBoolean
<1>4. \A j \in Jobs \ found : Unseen(j)
  BY <1>1, <1>2, UnseenRow
<1> HIDE DEF found
<1>5. found \in SUBSET Jobs
  BY DEF found
<1>6. Lifecycle!Recover(found)
  <2>1. /\ crashes' = crashes
        /\ [j \in Jobs |-> Phase(j)]' =
             [j \in Jobs |-> IF j \in found THEN "waiting" ELSE [i \in Jobs |-> Phase(i)][j]]
        /\ [j \in Jobs |-> {v \in Workers : Holds(v, j)}]' =
             [j \in Jobs |-> {v \in Workers : Holds(v, j)}]
    BY <1>0, <1>1, <1>2, <1>3, <1>4, <1>5, MovedHappened
  <2>2. \A j \in found : [i \in Jobs |-> Phase(i)][j] = "lost" /\ crashes[j] < MaxAttempts
    BY <1>3, <1>5
  <2> QED BY <2>1, <2>2 DEF Lifecycle!Recover
<1> QED BY <1>5, <1>6

LEMMA ExhaustRefines ==
  ASSUME CountInv, NEW w \in Workers, FailExhausted(w)
  PROVE  \E found \in SUBSET Jobs : Lifecycle!GiveUp(found)
<1> DEFINE found == {j \in Jobs : LeaseExpired(j) /\ jobs[j].attempts >= MaxAttempts}
<1>0. QueueTypeOK
  BY DEF CountInv, LeaseInv
<1>1. /\ QueueTypeOK' /\ UNCHANGED crashes /\ OthersStay(w)
      /\ worker[w].pc = "expire" /\ worker'[w].pc = "pick"
      /\ \A j \in Jobs : jobs'[j] = IF LeaseExpired(j) /\ jobs[j].attempts >= MaxAttempts
                                    THEN Exhausted(jobs[j]) ELSE jobs[j]
  BY <1>0, ExhaustEffect
<1>2. \A j \in Jobs : HoldersStay(j)
  BY <1>1, FreeTick
<1>3. ASSUME NEW j \in found
      PROVE  Phase(j) = "lost" /\ crashes[j] = MaxAttempts /\ Phase(j)' = "failed"
  <2>1. j \in Jobs /\ jobs[j] \in Row /\ crashes[j] \in Nat /\ jobs[j].attempts \in Nat
    BY <1>0 DEF QueueTypeOK, Row
  <2>2. jobs[j].status = "RUNNING" /\ jobs[j].lease = "expired"
    BY DEF LeaseExpired
  <2>3. ~Held(j)
    BY <2>1, <2>2 DEF CountInv, LeaseInv, HoldersAreCurrent, Held
  <2>4. crashes[j] = MaxAttempts
    BY <2>1, <2>2, <2>3, QueueAssumption DEF CountInv, AttemptsCountCrashes
  <2>5. jobs'[j].status = "FAILED"
    BY <1>1, <2>1, ExhaustedRow
  <2> QED BY <2>2, <2>3, <2>4, <2>5, PhaseIs, PhaseValues, HeldIsBoolean
<1>4. \A j \in Jobs \ found : Unseen(j)
  BY <1>1, <1>2, UnseenRow
<1> HIDE DEF found
<1>5. found \in SUBSET Jobs
  BY DEF found
<1>6. Lifecycle!GiveUp(found)
  <2>1. /\ crashes' = crashes
        /\ [j \in Jobs |-> Phase(j)]' =
             [j \in Jobs |-> IF j \in found THEN "failed" ELSE [i \in Jobs |-> Phase(i)][j]]
        /\ [j \in Jobs |-> {v \in Workers : Holds(v, j)}]' =
             [j \in Jobs |-> {v \in Workers : Holds(v, j)}]
    BY <1>0, <1>1, <1>2, <1>3, <1>4, <1>5, MovedHappened
  <2>2. \A j \in found : [i \in Jobs |-> Phase(i)][j] = "lost" /\ crashes[j] = MaxAttempts
    BY <1>3, <1>5
  <2> QED BY <2>1, <2>2 DEF Lifecycle!GiveUp
<1> QED BY <1>5, <1>6

LEMMA PruneRefines ==
  ASSUME CountInv, NEW w \in Workers, PruneOldJobs(w)
  PROVE  \E old \in SUBSET Jobs : Lifecycle!Forget(old)
<1> DEFINE old == {j \in Jobs : jobs[j].status \in Finished /\ jobs'[j] = NoRow}
<1>0. QueueTypeOK
  BY DEF CountInv, LeaseInv
<1>1. /\ QueueTypeOK' /\ UNCHANGED crashes /\ OthersStay(w)
      /\ worker[w].pc = "prune" /\ worker'[w].pc = "idle"
      /\ \A j \in Jobs : \/ jobs'[j] = jobs[j]
                         \/ jobs[j].status \in Finished /\ jobs'[j] = NoRow
  BY <1>0, PruneEffect
<1>2. \A j \in Jobs : HoldersStay(j)
  BY <1>1, FreeTick
<1>3. ASSUME NEW j \in old
      PROVE  Phase(j) \in {"done", "failed"} /\ Phase(j)' = "unknown"
  <2>1. jobs[j].status \in {"DONE", "FAILED"} /\ jobs'[j] = NoRow
    BY DEF Finished
  <2>2. jobs'[j].status = "absent"
    BY <2>1 DEF NoRow
  <2> QED BY <2>1, <2>2, PhaseIs, PhaseValues, HeldIsBoolean
<1>4. \A j \in Jobs \ old : Unseen(j)
  BY <1>1, <1>2, UnseenRow
<1> HIDE DEF old
<1>5. old \in SUBSET Jobs
  BY DEF old
<1>6. Lifecycle!Forget(old)
  <2>1. /\ crashes' = crashes
        /\ [j \in Jobs |-> Phase(j)]' =
             [j \in Jobs |-> IF j \in old THEN "unknown" ELSE [i \in Jobs |-> Phase(i)][j]]
        /\ [j \in Jobs |-> {v \in Workers : Holds(v, j)}]' =
             [j \in Jobs |-> {v \in Workers : Holds(v, j)}]
    BY <1>0, <1>1, <1>2, <1>3, <1>4, <1>5, MovedHappened
  <2>2. \A j \in old : [i \in Jobs |-> Phase(i)][j] \in {"done", "failed"}
    BY <1>3, <1>5
  <2> QED BY <2>1, <2>2 DEF Lifecycle!Forget
<1> QED BY <1>5, <1>6

LEMMA TakeRefines ==
  ASSUME CountInv, NEW w \in Workers, TakeJob(w)
  PROVE  \E j \in Jobs : Lifecycle!Take(w, j)
<1>0. QueueTypeOK
  BY DEF CountInv, LeaseInv
<1>1. PICK j \in Jobs :
        /\ QueueTypeOK' /\ UNCHANGED crashes /\ OthersStay(w)
        /\ worker[w].pc = "take" /\ jobs[j].status = "QUEUED"
        /\ jobs'[j] = Taken(jobs[j]) /\ \A k \in Jobs : k # j => jobs'[k] = jobs[k]
        /\ worker'[w].pc = "run" /\ worker'[w].job = j
  BY <1>0, TakeEffect
<1>2. jobs'[j].status = "RUNNING"
  BY <1>0, <1>1, TakenRow DEF QueueTypeOK
<1>3. \A v \in Workers : ~Holds(v, j)
  BY <1>1 DEF CountInv, LeaseInv, HoldersAreCurrent
<1>4. \A v \in Workers : Holds(v, j)' <=> v = w
  BY <1>1, <1>3, HoldsSame DEF OthersStay, Holds
<1>5. ~Held(j) /\ Held(j)'
  BY <1>3, <1>4 DEF Held
<1>6. Phase(j) = "waiting" /\ Phase(j)' = "held"
  BY <1>1, <1>2, <1>5, PhaseIs, PhaseValues, HeldIsBoolean
<1>7. ASSUME NEW k \in Jobs, k # j PROVE Unseen(k)
  <2>1. ~Holds(w, k) /\ ~Holds(w, k)'
    BY <1>1, <1>7 DEF Holds
  <2>2. HoldersStay(k)
    BY <1>1, <2>1, HoldsSame DEF OthersStay, HoldersStay
  <2> QED BY <1>1, <1>7, <2>2, UnseenRow
<1>8. Lifecycle!Take(w, j)
  BY <1>0, <1>1, <1>4, <1>6, <1>7, TakeHappened
<1> QED BY <1>8

LEMMA ReturnRefines ==
  ASSUME CountInv, NEW w \in Workers, NEW out \in Outcome, ReturnFromRun(w, out)
  PROVE  UNCHANGED Lifecycle!vars
<1>0. QueueTypeOK
  BY DEF CountInv, LeaseInv
<1>1. /\ QueueTypeOK' /\ UNCHANGED <<jobs, crashes>> /\ OthersStay(w)
      /\ worker[w].pc = "run" /\ worker'[w].pc = "finalize"
      /\ worker'[w].job = worker[w].job
  BY <1>0, ReturnEffect
<1>2. \A j \in Jobs : HoldersStay(j)
  BY <1>1 DEF OthersStay, HoldersStay, Holds
<1>3. \A j \in Jobs : Unseen(j)
  BY <1>1, <1>2, UnseenRow
<1> QED BY <1>0, <1>1, <1>3, StutterHappened

\* The tick that leaves a job it held was the only one to hold it.
LEMMA LastHolder ==
  ASSUME CountInv, NEW w \in Workers, NEW j \in Jobs, Holds(w, j), OthersStay(w),
         ~Holds(w, j)'
  PROVE  Released(j)
<1> SUFFICES ASSUME NEW v \in Workers, Holds(v, j)' PROVE FALSE
  BY DEF Released
<1>1. v # w
  OBVIOUS
<1>2. Holds(v, j)
  BY <1>1, HoldsSame DEF OthersStay
<1> QED BY <1>1, <1>2 DEF CountInv, LeaseInv, OneWorkerPerJob

LEMMA FinalizeRefines ==
  ASSUME CountInv, NEW w \in Workers, FinalizeJob(w)
  PROVE  \E j \in Jobs : Lifecycle!Yield(j) \/ Lifecycle!Finish(j)
<1>0. QueueTypeOK
  BY DEF CountInv, LeaseInv
<1>1. PICK j \in Jobs, out \in Outcome :
        /\ j = worker[w].job /\ QueueTypeOK'
        /\ worker[w].pc = "finalize" /\ out = worker[w].out
        /\ jobs'[j] = IF jobs[j].status # "absent" THEN Finalized(jobs[j], out) ELSE jobs[j]
        /\ \A k \in Jobs : k # j => jobs'[k] = jobs[k] /\ crashes'[k] = crashes[k]
        /\ crashes'[j] = IF jobs[j].status # "absent" /\ out.status = "progress"
                         THEN 0 ELSE crashes[j]
        /\ worker'[w].pc \in {"settle", "claim"} /\ OthersStay(w)
  BY <1>0, FinalizeEffect
<1>2. Holds(w, j)
  BY <1>1 DEF Holds
<1>3. jobs[j] \in Row /\ jobs[j].status = "RUNNING"
  BY <1>0, <1>2 DEF CountInv, LeaseInv, HoldersAreCurrent, QueueTypeOK
<1>4. \A k \in Jobs : ~Holds(w, k)'
  BY <1>1, HoldsNobody
<1>5. Released(j)
  BY <1>1, <1>2, <1>4, LastHolder
<1>6. Phase(j) = "held"
  <2>1. Held(j)
    BY <1>2 DEF Held
  <2> QED BY <1>3, <2>1, PhaseIs, PhaseValues, HeldIsBoolean
<1>7. ASSUME NEW k \in Jobs, k # j PROVE Unseen(k)
  <2>1. ~Holds(w, k)
    BY <1>1, <1>7 DEF Holds
  <2>2. HoldersStay(k)
    BY <1>1, <1>4, <2>1, HoldsSame DEF OthersStay, HoldersStay
  <2> QED BY <1>1, <1>7, <2>2, UnseenRow
<1>8. CASE out.status = "progress"
  <2>1. jobs'[j].status = "QUEUED" /\ crashes'[j] = 0
    BY <1>1, <1>3, <1>8, FinalizedRow
  <2>2. Phase(j)' = "waiting"
    BY <2>1, PhaseIs, PhaseValues, HeldIsBoolean
  <2>3. Lifecycle!Yield(j)
    BY <1>0, <1>1, <1>5, <1>6, <1>7, <2>1, <2>2, YieldHappened
  <2> QED BY <2>3
<1>9. CASE out.status # "progress"
  <2>1. jobs'[j].status \in {"DONE", "FAILED"} /\ crashes'[j] = crashes[j]
    BY <1>1, <1>3, <1>9, FinalizedRow DEF Finished
  <2>2. Phase(j)' \in {"done", "failed"}
    BY <2>1, PhaseIs, PhaseValues, HeldIsBoolean
  <2>3. Lifecycle!Finish(j)
    BY <1>0, <1>1, <1>5, <1>6, <1>7, <2>1, <2>2, FinishHappened
  <2> QED BY <2>3
<1> QED BY <1>8, <1>9

LEMMA CrashRefines ==
  ASSUME CountInv, NEW w \in Workers, Crash(w)
  PROVE  (\E j \in Jobs : Lifecycle!Lose(j)) \/ UNCHANGED Lifecycle!vars
<1>0. QueueTypeOK
  BY DEF CountInv, LeaseInv
<1>1. /\ QueueTypeOK' /\ UNCHANGED jobs /\ worker'[w].pc = "idle" /\ OthersStay(w)
      /\ \A j \in Jobs : crashes'[j] = IF Holds(w, j) THEN crashes[j] + 1 ELSE crashes[j]
  BY <1>0, CrashEffect
<1>2. \A k \in Jobs : ~Holds(w, k)'
  BY <1>1, HoldsNobody
<1>3. ASSUME NEW k \in Jobs, ~Holds(w, k) PROVE Unseen(k)
  <2>1. HoldersStay(k)
    BY <1>1, <1>2, <1>3, HoldsSame DEF OthersStay, HoldersStay
  <2> QED BY <1>1, <1>3, <2>1, UnseenRow
<1>4. CASE \A j \in Jobs : ~Holds(w, j)
  <2>1. \A j \in Jobs : Unseen(j)
    BY <1>3, <1>4
  <2> QED BY <1>0, <1>1, <2>1, StutterHappened
<1>5. CASE \E j \in Jobs : Holds(w, j)
  <2> PICK j \in Jobs : Holds(w, j)
    BY <1>5
  <2>1. Held(j) /\ jobs[j].status = "RUNNING" /\ jobs'[j].status = "RUNNING"
    BY <1>1 DEF Held, CountInv, LeaseInv, HoldersAreCurrent
  <2>2. Released(j)
    BY <1>1, <1>2, LastHolder
  <2>3. ~Held(j)'
    BY <2>2 DEF Released, Held
  <2>4. Phase(j) = "held" /\ Phase(j)' = "lost"
    BY <2>1, <2>3, PhaseIs, PhaseValues, HeldIsBoolean
  <2>5. \A k \in Jobs : k # j => Unseen(k)
    <3>1. \A k \in Jobs : k # j => ~Holds(w, k)
      BY DEF Holds
    <3> QED BY <1>3, <3>1
  <2>6. Lifecycle!Lose(j)
    BY <1>0, <1>1, <2>2, <2>4, <2>5, LoseHappened
  <2> QED BY <2>6
<1> QED BY <1>4, <1>5

LEMMA LeaseRefines ==
  ASSUME CountInv, NEW i \in Jobs, LeaseExpires(i)
  PROVE  UNCHANGED Lifecycle!vars
<1>0. QueueTypeOK
  BY DEF CountInv, LeaseInv
<1>1. /\ QueueTypeOK' /\ UNCHANGED <<worker, crashes>>
      /\ jobs'[i].status = jobs[i].status
      /\ \A k \in Jobs : k # i => jobs'[k] = jobs[k]
  BY <1>0, LeaseEffect
<1>2. \A j \in Jobs : HoldersStay(j)
  BY <1>1 DEF HoldersStay, Holds
<1>3. \A j \in Jobs : Unseen(j)
  BY <1>1, <1>2, UnseenRow
<1> QED BY <1>0, <1>1, <1>3, StutterHappened

LEMMA StepRefines == CountInv /\ [QueueNext]_queueVars => [Lifecycle!Next]_Lifecycle!vars
<1> SUFFICES ASSUME CountInv, [QueueNext]_queueVars
             PROVE  Lifecycle!Next \/ UNCHANGED Lifecycle!vars
  OBVIOUS
<1>1. CASE RequestStep
  BY <1>1, RequestRefines DEF Lifecycle!Next
<1>2. ASSUME NEW w \in Workers,
             \/ StartTick(w) \/ PickOldest(w) \/ NothingToPick(w) \/ LoseJob(w)
             \/ Settle(w) \/ StopTick(w)
      PROVE  UNCHANGED Lifecycle!vars
  BY <1>2, MovesRefine
<1>3. ASSUME NEW w \in Workers, RequeueExpired(w) PROVE Lifecycle!Next
  BY <1>3, RequeueRefines DEF Lifecycle!Next
<1>4. ASSUME NEW w \in Workers, FailExhausted(w) PROVE Lifecycle!Next
  BY <1>4, ExhaustRefines DEF Lifecycle!Next
<1>5. ASSUME NEW w \in Workers, TakeJob(w) PROVE Lifecycle!Next
  BY <1>5, TakeRefines DEF Lifecycle!Next
<1>6. ASSUME NEW w \in Workers, NEW out \in Outcome, ReturnFromRun(w, out)
      PROVE  UNCHANGED Lifecycle!vars
  BY <1>6, ReturnRefines
<1>7. ASSUME NEW w \in Workers, FinalizeJob(w) PROVE Lifecycle!Next
  BY <1>7, FinalizeRefines DEF Lifecycle!Next
<1>8. ASSUME NEW w \in Workers, PruneOldJobs(w) PROVE Lifecycle!Next
  BY <1>8, PruneRefines DEF Lifecycle!Next
<1>9. ASSUME NEW w \in Workers, Crash(w) PROVE Lifecycle!Next \/ UNCHANGED Lifecycle!vars
  BY <1>9, CrashRefines DEF Lifecycle!Next
<1>10. ASSUME NEW i \in Jobs, LeaseExpires(i) PROVE UNCHANGED Lifecycle!vars
  BY <1>10, LeaseRefines
<1>11. CASE UNCHANGED queueVars
  BY <1>11 DEF queueVars, Lifecycle!vars, Phase, Held, Holds
<1> QED
  BY <1>1, <1>2, <1>3, <1>4, <1>5, <1>6, <1>7, <1>8, <1>9, <1>10, <1>11
     DEF QueueNext, WorkerStep

LEMMA InitRefines == QueueInit => Lifecycle!Init
<1> SUFFICES ASSUME QueueInit PROVE Lifecycle!Init
  OBVIOUS
<1>1. \A w \in Workers, j \in Jobs : ~Holds(w, j)
  BY DEF QueueInit, IdleWorker, Holds
<1>2. \A j \in Jobs : Phase(j) = "unknown"
  <2>1. \A j \in Jobs : jobs[j].status = "absent"
    BY DEF QueueInit, NoRow
  <2> QED BY <2>1, PhaseIs, PhaseValues, HeldIsBoolean
<1>3. crashes = [j \in Jobs |-> 0]
  BY DEF QueueInit
<1> QED
  BY <1>1, <1>2, <1>3 DEF Lifecycle!Init

\* While no run outlives its lease, the table of rows, leases and counters that
\* jobs.ts keeps is a job life cycle: one owner at a time, a job lost with its
\* worker waits again or is given up at the cap, and what is finished stays so.
THEOREM QueueImplementsLifecycle ==
  ASSUME ~RunsOutliveLease
  PROVE  QueueSpec => ImplementsLifecycle
<1>1. CountInv /\ [QueueNext]_queueVars => CountInv'
  BY CountStep
<1> QED
  BY <1>1, CountInit, InitRefines, StepRefines, PTL
     DEF QueueSpec, ImplementsLifecycle, Lifecycle!Spec

=============================================================================
