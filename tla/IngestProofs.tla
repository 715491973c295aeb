---------------------------- MODULE IngestProofs ----------------------------
(***************************************************************************)
(* Theorems about background ingestion: what the pipeline does to          *)
(* documents while the queue's ticks run it, for any number of ticks,      *)
(* pages, texts and blocks.  The theorems of JobQueueProofs carry over,    *)
(* because every behaviour here is one of the queue (QueueImplemented).    *)
(***************************************************************************)
EXTENDS Ingest, JobQueueProofs

Run == [pc : RunPcs, doc : Docs, pdf : BOOLEAN, from : Nat, force : BOOLEAN,
        text : Texts \cup {"none"}, seen : {"INGESTING", "SYNCED", "FAILED"},
        id : Nat, i : Nat, count : Nat, res : Outcome]

PipelineTypeOK ==
  /\ doc \in [Docs -> Document]
  /\ stored \in [Docs -> [Texts -> [1..MaxBlocks -> Nat]]]
  /\ stale \in [Docs -> SUBSET Nat]
  /\ run \in [Workers -> Run]

HistoryTypeOK ==
  /\ cut \in [Docs -> BOOLEAN]
  /\ mixed \in [Docs -> BOOLEAN]
  /\ unpurged \in [Docs -> BOOLEAN]

\* A tick works on the document of its row, and only pdf:// keys have PDF rows.
HoldersKnowTheirJob ==
  /\ \A w \in Workers, j \in Jobs : Holds(w, j) => worker[w].doc = jobs[j].doc
  /\ \A j \in Jobs : jobs[j].type = "PDF" => jobs[j].doc \in PdfDocs

\* A run belongs to a tick that runs, has its arguments from the tick's row, and
\* is past its fetch only with a text, within the text's blocks, and so on.
RunOK(w) ==
  LET r == run[w] IN
  /\ r.pc = "off" <=> worker[w].pc # "run"
  /\ r.pc # "off" => /\ r.doc = worker[w].doc
                     /\ r.pdf <=> jobs[worker[w].job].type = "PDF"
                     /\ r.from = (IF r.pdf THEN worker[w].from ELSE 0)
  /\ r.pc \notin {"off", "fetch", "return"} => r.text \in Texts
  /\ r.pc \in {"open", "rollback", "mark"} => r.from = 0
  /\ r.pc = "open" => Blocks[r.text] > 0
  /\ r.pc = "block" => r.from <= r.i /\ r.i < Blocks[r.text]
  /\ r.pc = "return" =>
       \/ r.res.status \in {"done", "failed", "threw"}
       \/ /\ r.res.status = "progress" /\ r.pdf
          /\ r.from < r.res.next /\ r.res.next < MaxBlocks

IngestInv ==
  /\ LeaseInv /\ PipelineTypeOK /\ HoldersKnowTheirJob /\ HistoryTypeOK
  /\ \A w \in Workers : RunOK(w)

\* w is on document d until its late status write is made.
Busy(w, d) == worker[w].doc = d /\ worker[w].pc \in {"run", "finalize", "settle"}

\* Job j has begun document d and not finished it.
Works(j, d) == jobs[j].doc = d /\ Begun(j)

\* Nobody else is on a document that is not cut: at most one job has begun it,
\* at most one tick is busy on it, and a running job still has its tick.
Alone(d) ==
  /\ \A j, k \in Jobs : Works(j, d) /\ Works(k, d) => j = k
  /\ \A v, w \in Workers : Busy(v, d) /\ Busy(w, d) => v = w
  /\ \A j \in Jobs : Works(j, d) /\ jobs[j].status = "RUNNING" => Held(j)
  /\ Unsettled(d) => \A j \in Jobs : ~Works(j, d)

Filled(d, t, n) == \A u \in Texts, b \in 1..MaxBlocks :
  stored[d][u][b] = IF u = t /\ b <= n THEN 1 ELSE 0

Fresh(d) == doc[d].id \notin stale[d]
Complete(d) == (mixed[d] \/ Whole(d)) /\ (unpurged[d] \/ Fresh(d))
Good(d) == doc[d].here => Complete(d)
Tidy(d) == doc[d].here /\ (doc[d].count > 0 \/ doc[d].status = "SYNCED") => Complete(d)

\* The first n blocks of d are in, and more are to come.
Opened(d, n) == doc[d].here =>
  /\ doc[d].count = n /\ doc[d].status # "SYNCED" /\ Prefix(d, n)
  /\ mixed[d] \/ /\ doc[d].hash \in Texts /\ n < Blocks[doc[d].hash]
                 /\ Filled(d, doc[d].hash, n)

\* What a tick that starts from block n finds, and what one that ends leaves.
StartsFrom(d, n) == IF n = 0 THEN Tidy(d) ELSE Opened(d, n)
EndsWith(d, out) ==
  /\ out.status = "progress" => Opened(d, out.next)
  /\ out.status # "progress" => Tidy(d)
  /\ out.status = "done" => Good(d)

Mine(w, d) == doc[d].here => doc[d].id = run[w].id
WorkOK(w, d) ==
  LET r == run[w] IN
  /\ r.pc \in {"fetch", "read"} => StartsFrom(d, r.from)
  /\ r.pc = "skip" => Good(d)
  /\ r.pc \in {"block", "rollback", "mark", "invalidate", "sync"} => Mine(w, d)
  /\ r.pc = "block" /\ doc[d].here =>
       r.count = r.i /\ Opened(d, r.i) /\ (mixed[d] \/ doc[d].hash = r.text)
  /\ r.pc = "invalidate" /\ doc[d].here => mixed[d] \/ Whole(d)
  /\ r.pc = "sync" => Good(d)
  /\ r.pc = "return" => EndsWith(d, r.res)
  /\ worker[w].pc \in {"finalize", "settle"} => EndsWith(d, worker[w].out)
  /\ worker[w].pc = "settle" => worker[w].out.status \in {"done", "failed"}

DocOK(d) ==
  /\ Alone(d)
  /\ \A w \in Workers : Busy(w, d) => WorkOK(w, d)
  /\ \A j \in Jobs : Works(j, d) /\ jobs[j].status = "QUEUED" => Opened(d, jobs[j].progress)
  /\ (\A w \in Workers : ~Busy(w, d)) /\ (\A j \in Jobs : ~Works(j, d)) => Tidy(d)

DocsInv == \A d \in Docs : ~cut[d] => DocOK(d)

\* Only a PDF job yields, and so has a cursor.
OnlyPdfsYield ==
  /\ \A w \in Workers :
       worker[w].pc = "finalize" /\ worker[w].out.status = "progress" =>
         jobs[worker[w].job].type = "PDF"
  /\ \A j \in Jobs : jobs[j].progress > 0 => jobs[j].type = "PDF"

-----------------------------------------------------------------------------
(* What each step of a run does *)

OthersRun(w) == \A v \in Workers : v # w => run'[v] = run[v]
OthersKept(d) == \A e \in Docs : e # d =>
  doc'[e] = doc[e] /\ stored'[e] = stored[e] /\ stale'[e] = stale[e]

\* w's run goes to pc with the arguments it has; r is its record afterwards.
Moves(w, pc) ==
  LET r == run[w]
      s == run'[w] IN
  /\ run' \in [Workers -> Run] /\ OthersRun(w)
  /\ s.pc = pc /\ s.doc = r.doc /\ s.pdf = r.pdf /\ s.from = r.from

\* ... keeping its text and its counters too.
Keeps(w) ==
  LET r == run[w]
      s == run'[w] IN
  s.text = r.text /\ s.id = r.id /\ s.i = r.i /\ s.count = r.count

LEMMA NoResultType ==
  /\ NoResult \in Outcome
  /\ \A s \in {"none", "done", "failed", "threw"} :
       /\ Result(s) \in Outcome /\ Result(s).status = s
BY DEF NoResult, Result, Outcome

LEMMA NoRunType == NoRun \in Run /\ NoRun.pc = "off"
BY SomeDocType, NoResultType DEF NoRun, Run, RunPcs

LEMMA NoChunksType == NoChunks \in [Texts -> [1..MaxBlocks -> Nat]]
BY DEF NoChunks

LEMMA ReturnsEffect ==
  ASSUME PipelineTypeOK, NEW w \in Workers, NEW res \in Outcome, Returns(w, res)
  PROVE  Moves(w, "return") /\ Keeps(w) /\ run'[w].res = res
<1>0. run \in [Workers -> Run] /\ run[w] \in Run
  BY DEF PipelineTypeOK
<1> DEFINE a == [run[w] EXCEPT !.pc = "return"]
<1>1. /\ a \in Run /\ a.pc = "return" /\ a.doc = run[w].doc /\ a.pdf = run[w].pdf
      /\ a.from = run[w].from /\ a.text = run[w].text /\ a.id = run[w].id
      /\ a.i = run[w].i /\ a.count = run[w].count
  BY <1>0 DEF Run, RunPcs
<1> DEFINE b == [a EXCEPT !.res = res]
<1>2. run' = [run EXCEPT ![w] = b]
  BY <1>0 DEF Returns
<1> HIDE DEF a
<1>3. /\ b \in Run /\ b.pc = a.pc /\ b.doc = a.doc /\ b.pdf = a.pdf /\ b.from = a.from
      /\ b.text = a.text /\ b.id = a.id /\ b.i = a.i /\ b.count = a.count /\ b.res = res
  BY <1>1 DEF Run
<1> HIDE DEF b
<1> QED BY <1>0, <1>1, <1>2, <1>3 DEF Moves, Keeps, OthersRun

LEMMA GotoRunEffect ==
  ASSUME PipelineTypeOK, NEW w \in Workers, NEW pc \in RunPcs, RunGoto(w, pc)
  PROVE  Moves(w, pc) /\ Keeps(w)
<1>0. run \in [Workers -> Run] /\ run[w] \in Run
  BY DEF PipelineTypeOK
<1> DEFINE a == [run[w] EXCEPT !.pc = pc]
<1>1. /\ a \in Run /\ a.pc = pc /\ a.doc = run[w].doc /\ a.pdf = run[w].pdf
      /\ a.from = run[w].from /\ a.text = run[w].text /\ a.id = run[w].id
      /\ a.i = run[w].i /\ a.count = run[w].count
  BY <1>0 DEF Run
<1>2. run' = [run EXCEPT ![w] = a]
  BY <1>0 DEF RunGoto
<1> HIDE DEF a
<1> QED BY <1>0, <1>1, <1>2 DEF Moves, Keeps, OthersRun

LEMMA BeginEffect ==
  ASSUME PipelineTypeOK, NEW w \in Workers, NEW d \in Docs, NEW pdf \in BOOLEAN,
         NEW from \in Nat, NEW force \in BOOLEAN, BeginRun(w, d, pdf, from, force)
  PROVE  /\ run' \in [Workers -> Run] /\ OthersRun(w) /\ run[w].pc = "off"
         /\ run'[w].pc = "fetch" /\ run'[w].doc = d /\ run'[w].pdf = pdf
         /\ run'[w].from = from /\ UNCHANGED <<doc, stored, stale>>
<1>0. NoRun \in Run
  BY NoRunType
<1> DEFINE a == [NoRun EXCEPT !.pc = "fetch"]
<1>1. a \in Run /\ a.pc = "fetch"
  BY <1>0 DEF Run, RunPcs
<1> DEFINE b == [a EXCEPT !.doc = d]
<1>2. b \in Run /\ b.pc = a.pc /\ b.doc = d
  <2> HIDE DEF a
  <2> QED BY <1>1 DEF Run
<1> DEFINE c == [b EXCEPT !.pdf = pdf]
<1>3. c \in Run /\ c.pc = b.pc /\ c.doc = b.doc /\ c.pdf = pdf
  <2> HIDE DEF b
  <2> QED BY <1>2 DEF Run
<1> DEFINE e == [c EXCEPT !.from = from]
<1>4. e \in Run /\ e.pc = c.pc /\ e.doc = c.doc /\ e.pdf = c.pdf /\ e.from = from
  <2> HIDE DEF c
  <2> QED BY <1>3 DEF Run
<1> DEFINE f == [e EXCEPT !.force = force]
<1>5. /\ f \in Run /\ f.pc = e.pc /\ f.doc = e.doc /\ f.pdf = e.pdf
      /\ f.from = e.from
  <2> HIDE DEF e
  <2> QED BY <1>4 DEF Run
<1>6. run' = [run EXCEPT ![w] = f]
  BY DEF BeginRun
<1> HIDE DEF a, b, c, e, f
<1> QED BY <1>1, <1>2, <1>3, <1>4, <1>5, <1>6 DEF BeginRun, At, PipelineTypeOK, OthersRun

LEMMA StatusField ==
  ASSUME NEW e \in Document, NEW s \in {"INGESTING", "SYNCED", "FAILED"}
  PROVE  LET f == [e EXCEPT !.status = s] IN
         /\ f \in Document /\ f.status = s /\ f.here = e.here /\ f.id = e.id
         /\ f.hash = e.hash /\ f.count = e.count
BY DEF Document

LEMMA CountField ==
  ASSUME NEW e \in Document, NEW n \in Nat
  PROVE  LET f == [e EXCEPT !.count = n] IN
         /\ f \in Document /\ f.count = n /\ f.here = e.here /\ f.id = e.id
         /\ f.hash = e.hash /\ f.status = e.status
BY DEF Document

LEMMA FetchEffect ==
  ASSUME PipelineTypeOK, NEW w \in Workers, NEW t \in Texts, FetchText(w, t)
  PROVE  /\ PipelineTypeOK' /\ UNCHANGED <<doc, stored, stale>>
         /\ run[w].pc = "fetch" /\ Moves(w, "read") /\ run'[w].text = t
         /\ t \in TextsOf[run[w].doc]
<1>0. run \in [Workers -> Run] /\ run[w] \in Run
  BY DEF PipelineTypeOK
<1> DEFINE a == [run[w] EXCEPT !.pc = "read"]
<1>1. /\ a \in Run /\ a.pc = "read" /\ a.doc = run[w].doc /\ a.pdf = run[w].pdf
      /\ a.from = run[w].from
  BY <1>0 DEF Run, RunPcs
<1> DEFINE b == [a EXCEPT !.text = t]
<1>2. run' = [run EXCEPT ![w] = b]
  BY <1>0 DEF FetchText
<1> HIDE DEF a
<1>3. /\ b \in Run /\ b.pc = a.pc /\ b.doc = a.doc /\ b.pdf = a.pdf /\ b.from = a.from
      /\ b.text = t
  BY <1>1 DEF Run
<1> HIDE DEF b
<1> QED BY <1>0, <1>1, <1>2, <1>3 DEF FetchText, At, Moves, OthersRun, PipelineTypeOK

\* The steps that end a run and leave the tables alone.
LEMMA FailEffect ==
  ASSUME PipelineTypeOK, NEW w \in Workers,
         \/ FetchFails(w)
         \/ StoreFails(w)
         \/ EmbedFails(w) /\ run[w].from # 0
  PROVE  /\ PipelineTypeOK' /\ UNCHANGED <<doc, stored, stale>>
         /\ run[w].pc \in {"fetch", "block"} /\ Moves(w, "return")
         /\ run'[w].res.status \in {"failed", "threw"}
         /\ run[w].pc = "block" => ~DocumentThere(run[w]) \/ run[w].from # 0
<1>1. ASSUME NEW s \in {"failed", "threw"}, Returns(w, Result(s))
      PROVE  Moves(w, "return") /\ run'[w].res.status \in {"failed", "threw"}
  BY <1>1, NoResultType, ReturnsEffect
<1>2. Moves(w, "return") /\ run'[w].res.status \in {"failed", "threw"}
  <2>1. \E s \in {"failed", "threw"} : Returns(w, Result(s))
    BY DEF FetchFails, StoreFails, EmbedFails
  <2> QED BY <1>1, <2>1
<1> QED
  BY <1>2 DEF FetchFails, StoreFails, EmbedFails, At, Moves, PipelineTypeOK

LEMMA RollbackEffect ==
  ASSUME PipelineTypeOK, NEW w \in Workers, EmbedFails(w), run[w].from = 0
  PROVE  /\ PipelineTypeOK' /\ UNCHANGED <<doc, stored, stale>>
         /\ run[w].pc = "block" /\ Moves(w, "rollback") /\ Keeps(w)
<1>1. RunGoto(w, "rollback") /\ "rollback" \in RunPcs
  BY DEF EmbedFails, RunPcs
<1>2. Moves(w, "rollback") /\ Keeps(w)
  BY <1>1, GotoRunEffect
<1> QED BY <1>2 DEF EmbedFails, At, Moves, PipelineTypeOK

\* The branches of the read: skip, fail, open afresh, or resume.
LEMMA ReadEffect ==
  ASSUME PipelineTypeOK, NEW w \in Workers, ReadExisting(w), run[w].text \in Texts
  PROVE  LET r == run[w]
             s == run'[w]
             e == doc[r.doc] IN
         /\ PipelineTypeOK' /\ UNCHANGED <<doc, stored, stale>> /\ r.pc = "read"
         /\ \/ Unchanged(r, e) /\ Moves(w, "skip") /\ s.text = r.text
            \/ Moves(w, "return") /\ s.res.status \in {"failed", "threw"}
            \/ /\ Moves(w, "open") /\ s.text = r.text
               /\ r.from = 0 /\ Blocks[r.text] > 0
            \/ /\ Moves(w, "block") /\ s.text = r.text
               /\ s.id = e.id /\ s.i = r.from /\ s.count = e.count
               /\ r.from > 0 /\ r.from < Blocks[r.text]
            \/ /\ Moves(w, "invalidate") /\ s.text = r.text
               /\ s.id = e.id /\ s.i = r.from /\ s.count = e.count
               /\ r.from > 0 /\ r.from >= Blocks[r.text]
<1> DEFINE r == run[w]
           e == doc[r.doc]
           s == run'[w]
<1>0. run \in [Workers -> Run] /\ r \in Run /\ e \in Document
  BY DEF PipelineTypeOK, Run
<1>a. /\ r.from \in Nat /\ e.id \in Nat /\ e.count \in Nat /\ r.text \in Texts
      /\ Blocks[r.text] \in Nat /\ e.status \in {"INGESTING", "SYNCED", "FAILED"}
  BY <1>0, PipelineAssumption, QueueAssumption DEF Run, Document
<1>b. r.pc = "read" /\ UNCHANGED <<doc, stored, stale>>
  BY DEF ReadExisting, At
<1>c. ASSUME run' \in [Workers -> Run] PROVE PipelineTypeOK'
  BY <1>b, <1>c DEF PipelineTypeOK
<1>1. CASE Unchanged(r, e) /\ run' = [run EXCEPT ![w].pc = "skip", ![w].seen = e.status]
  <2> DEFINE a == [r EXCEPT !.pc = "skip"]
             b == [a EXCEPT !.seen = e.status]
  <2>1. run' = [run EXCEPT ![w] = b]
    BY <1>0, <1>1
  <2>2. /\ a \in Run /\ a.pc = "skip" /\ a.doc = r.doc /\ a.pdf = r.pdf
        /\ a.from = r.from /\ a.text = r.text
    BY <1>0 DEF Run, RunPcs
  <2> HIDE DEF a
  <2>3. /\ b \in Run /\ b.pc = a.pc /\ b.doc = a.doc /\ b.pdf = a.pdf
        /\ b.from = a.from /\ b.text = a.text
    BY <1>a, <2>2 DEF Run
  <2> HIDE DEF b
  <2>4. Moves(w, "skip") /\ s.text = r.text
    BY <1>0, <2>1, <2>2, <2>3 DEF Moves, OthersRun
  <2> QED BY <1>1, <1>b, <1>c, <2>4 DEF Moves
<1>2. ASSUME NEW x \in {"failed", "threw"}, Returns(w, Result(x))
      PROVE  PipelineTypeOK' /\ Moves(w, "return") /\ s.res.status \in {"failed", "threw"}
  <2>1. Moves(w, "return") /\ s.res.status \in {"failed", "threw"}
    BY <1>2, NoResultType, ReturnsEffect
  <2> QED BY <1>c, <2>1 DEF Moves
<1>3. CASE Blocks[r.text] > 0 /\ r.from = 0 /\ RunGoto(w, "open")
  <2>1. Moves(w, "open") /\ Keeps(w)
    BY <1>3, GotoRunEffect DEF RunPcs
  <2> QED BY <1>3, <1>b, <1>c, <2>1 DEF Moves, Keeps
<1>4. CASE /\ Blocks[r.text] > 0 /\ r.from > 0 /\ e.here
           /\ run' = [run EXCEPT
                ![w].pc = IF r.from < Blocks[r.text] THEN "block" ELSE "invalidate",
                ![w].id = e.id, ![w].i = r.from, ![w].count = e.count]
  <2> DEFINE pc == IF r.from < Blocks[r.text] THEN "block" ELSE "invalidate"
             a == [r EXCEPT !.pc = pc]
             b == [a EXCEPT !.id = e.id]
             c == [b EXCEPT !.i = r.from]
             f == [c EXCEPT !.count = e.count]
  <2>1. run' = [run EXCEPT ![w] = f]
    BY <1>0, <1>4
  <2>2. /\ a \in Run /\ a.pc = pc /\ a.doc = r.doc /\ a.pdf = r.pdf
        /\ a.from = r.from /\ a.text = r.text
    BY <1>0 DEF Run, RunPcs
  <2> HIDE DEF a
  <2>3. /\ b \in Run /\ b.pc = a.pc /\ b.doc = a.doc /\ b.pdf = a.pdf
        /\ b.from = a.from /\ b.text = a.text /\ b.id = e.id
    BY <1>a, <2>2 DEF Run
  <2> HIDE DEF b
  <2>4. /\ c \in Run /\ c.pc = b.pc /\ c.doc = b.doc /\ c.pdf = b.pdf
        /\ c.from = b.from /\ c.text = b.text /\ c.id = b.id /\ c.i = r.from
    BY <1>a, <2>3 DEF Run
  <2> HIDE DEF c
  <2>5. /\ f \in Run /\ f.pc = c.pc /\ f.doc = c.doc /\ f.pdf = c.pdf
        /\ f.from = c.from /\ f.text = c.text /\ f.id = c.id /\ f.i = c.i
        /\ f.count = e.count
    BY <1>a, <2>4 DEF Run
  <2> HIDE DEF f, pc
  <2>6. /\ Moves(w, pc) /\ s.text = r.text /\ s.id = e.id /\ s.i = r.from
        /\ s.count = e.count
    BY <1>0, <2>1, <2>2, <2>3, <2>4, <2>5 DEF Moves, OthersRun
  <2>7. PipelineTypeOK'
    BY <1>c, <2>6 DEF Moves
  <2>8. pc = IF r.from < Blocks[r.text] THEN "block" ELSE "invalidate"
    BY DEF pc
  <2>9. CASE r.from < Blocks[r.text]
    BY <1>4, <1>b, <2>6, <2>7, <2>8, <2>9
  <2>10. CASE ~(r.from < Blocks[r.text])
    <3>1. r.from >= Blocks[r.text]
      BY <1>a, <2>10
    <3> QED BY <1>4, <1>b, <2>6, <2>7, <2>8, <2>10, <3>1
  <2> QED BY <2>9, <2>10
<1> QED
  BY <1>1, <1>2, <1>3, <1>4, <1>b DEF ReadExisting

LEMMA SkipEffect ==
  ASSUME PipelineTypeOK, NEW w \in Workers, SkipUnchanged(w)
  PROVE  LET d == run[w].doc IN
         /\ PipelineTypeOK' /\ UNCHANGED <<stored, stale>> /\ OthersKept(d)
         /\ run[w].pc = "skip" /\ Moves(w, "return") /\ run'[w].res.status = "done"
         /\ doc'[d].here = doc[d].here /\ doc'[d].id = doc[d].id
         /\ doc'[d].hash = doc[d].hash /\ doc'[d].count = doc[d].count
<1> DEFINE d == run[w].doc
           new == [doc[d] EXCEPT !.status = "SYNCED"]
<1>0. d \in Docs /\ doc[d] \in Document /\ doc \in [Docs -> Document]
  BY DEF PipelineTypeOK, Run
<1>1. /\ new \in Document /\ new.here = doc[d].here /\ new.id = doc[d].id
      /\ new.hash = doc[d].hash /\ new.count = doc[d].count
  BY <1>0, StatusField
<1>2. doc' = [doc EXCEPT ![d] = new] \/ doc' = doc
  BY DEF SkipUnchanged
<1>3. Moves(w, "return") /\ run'[w].res.status = "done"
  <2>1. Returns(w, Result("done"))
    BY DEF SkipUnchanged
  <2> QED BY <2>1, NoResultType, ReturnsEffect
<1> HIDE DEF d, new
<1>4. UNCHANGED <<stored, stale>> /\ run[w].pc = "skip" /\ d = run[w].doc
  BY DEF SkipUnchanged, At, d
<1> QED BY <1>0, <1>1, <1>2, <1>3, <1>4 DEF Moves, OthersKept, PipelineTypeOK

LEMMA OpenEffect ==
  ASSUME PipelineTypeOK, NEW w \in Workers, OpenDocument(w), run[w].text \in Texts
  PROVE  LET d == run[w].doc
             s == run'[w] IN
         /\ PipelineTypeOK' /\ OthersKept(d)
         /\ run[w].pc = "open" /\ Moves(w, "block") /\ s.text = run[w].text
         /\ s.i = 0 /\ s.count = 0 /\ s.id = doc'[d].id
         /\ doc'[d].here /\ doc'[d].hash = run[w].text /\ doc'[d].count = 0
         /\ doc'[d].status = "INGESTING" /\ stored'[d] = NoChunks
<1> DEFINE r == run[w]
           d == r.doc
           id == IF doc[d].here THEN doc[d].id ELSE doc[d].id + 1
           new == [here |-> TRUE, id |-> id, hash |-> r.text, count |-> 0,
                   status |-> "INGESTING"]
           a == [r EXCEPT !.pc = "block"]
           b == [a EXCEPT !.id = id]
           c == [b EXCEPT !.i = 0]
           f == [c EXCEPT !.count = 0]
<1>0. d \in Docs /\ doc[d] \in Document /\ r \in Run /\ run \in [Workers -> Run]
  BY DEF PipelineTypeOK, Run
<1>1. id \in Nat
  BY <1>0 DEF Document
<1>2. run' = [run EXCEPT ![w] = f]
  BY <1>0 DEF OpenDocument
<1>3. /\ a \in Run /\ a.pc = "block" /\ a.doc = r.doc /\ a.pdf = r.pdf
      /\ a.from = r.from /\ a.text = r.text
  BY <1>0 DEF Run, RunPcs
<1> HIDE DEF a
<1>4. /\ b \in Run /\ b.pc = a.pc /\ b.doc = a.doc /\ b.pdf = a.pdf
      /\ b.from = a.from /\ b.text = a.text /\ b.id = id
  <2> HIDE DEF id
  <2> QED BY <1>1, <1>3 DEF Run
<1> HIDE DEF b
<1>5. /\ c \in Run /\ c.pc = b.pc /\ c.doc = b.doc /\ c.pdf = b.pdf
      /\ c.from = b.from /\ c.text = b.text /\ c.id = b.id /\ c.i = 0
  BY <1>4 DEF Run
<1> HIDE DEF c
<1>6. /\ f \in Run /\ f.pc = c.pc /\ f.doc = c.doc /\ f.pdf = c.pdf
      /\ f.from = c.from /\ f.text = c.text /\ f.id = c.id /\ f.i = c.i /\ f.count = 0
  BY <1>5 DEF Run
<1> HIDE DEF f
<1>7. /\ new \in Document /\ new.here /\ new.id = id /\ new.hash = r.text
      /\ new.count = 0 /\ new.status = "INGESTING"
  <2> HIDE DEF id
  <2> QED BY <1>1 DEF Document
<1>8. doc' = [doc EXCEPT ![d] = new] /\ stored' = [stored EXCEPT ![d] = NoChunks]
      /\ run[w].pc = "open"
  BY DEF OpenDocument, At
<1>9. stale' \in [Docs -> SUBSET Nat] /\ \A e \in Docs : e # d => stale'[e] = stale[e]
  <2>1. stale' = [stale EXCEPT ![d] = IF HasChunks(d) THEN stale[d] \cup {id} ELSE stale[d]]
    BY <1>0 DEF OpenDocument, PipelineTypeOK
  <2> HIDE DEF id
  <2> QED BY <1>0, <1>1, <2>1 DEF PipelineTypeOK
<1>10. Moves(w, "block") /\ run'[w] = f
  BY <1>0, <1>2, <1>3, <1>4, <1>5, <1>6 DEF Moves, OthersRun
<1>11. PipelineTypeOK'
  BY <1>0, <1>7, <1>8, <1>9, <1>10, NoChunksType DEF PipelineTypeOK, Moves
<1>12. OthersKept(d)
  BY <1>0, <1>8, <1>9 DEF OthersKept, PipelineTypeOK
<1>13. doc'[d] = new /\ stored'[d] = NoChunks
  BY <1>0, <1>8 DEF PipelineTypeOK
<1> HIDE DEF new, id
<1> QED
  BY <1>3, <1>4, <1>5, <1>6, <1>7, <1>8, <1>10, <1>11, <1>12, <1>13

LEMMA StoreEffect ==
  ASSUME PipelineTypeOK, NEW w \in Workers, StoreBlock(w), run[w].text \in Texts,
         run[w].i < Blocks[run[w].text]
  PROVE  LET r == run[w]
             d == r.doc
             b == r.i + 1
             s == run'[w] IN
         /\ PipelineTypeOK' /\ OthersKept(d) /\ DocumentThere(r) /\ r.pc = "block"
         /\ \A u \in Texts, c \in 1..MaxBlocks :
              stored'[d][u][c] = stored[d][u][c] + (IF u = r.text /\ c = b THEN 1 ELSE 0)
         /\ doc'[d].here /\ doc'[d].id = r.id /\ doc'[d].hash = doc[d].hash
         /\ doc'[d].count = r.count + 1 /\ doc'[d].status = doc[d].status
         /\ \/ /\ Moves(w, IF b = Blocks[r.text] THEN "invalidate" ELSE "block")
               /\ s.text = r.text /\ s.id = r.id /\ s.i = b /\ s.count = r.count + 1
            \/ /\ r.pdf /\ b # Blocks[r.text] /\ Moves(w, "return")
               /\ s.res.status = "progress" /\ s.res.next = b
<1> DEFINE r == run[w]
           d == r.doc
           b == r.i + 1
           new == [doc[d] EXCEPT !.count = r.count + 1]
           row == [stored[d][r.text] EXCEPT ![b] = @ + 1]
           all == [stored[d] EXCEPT ![r.text] = row]
<1>0. d \in Docs /\ doc[d] \in Document /\ r \in Run /\ run \in [Workers -> Run]
  BY DEF PipelineTypeOK, Run
<1>1. r.count + 1 \in Nat /\ r.i \in Nat /\ b \in Nat /\ r.id \in Nat
  BY <1>0 DEF Run
<1>2. /\ new \in Document /\ new.here = doc[d].here /\ new.id = doc[d].id
      /\ new.hash = doc[d].hash /\ new.count = r.count + 1
      /\ new.status = doc[d].status
  BY <1>0, <1>1, CountField
<1>3. /\ doc' = [doc EXCEPT ![d] = new] /\ DocumentThere(r) /\ r.pc = "block"
      /\ stale' = [stale EXCEPT ![d] = stale[d] \cup {r.id}]
  BY <1>0 DEF StoreBlock, At, PipelineTypeOK
<1>4. stored' = [stored EXCEPT ![d] = all]
  BY <1>0 DEF StoreBlock, PipelineTypeOK
<1>5. stored[d][r.text] \in [1..MaxBlocks -> Nat]
  BY <1>0 DEF PipelineTypeOK
<1>6. row \in [1..MaxBlocks -> Nat]
      /\ \A c \in 1..MaxBlocks : row[c] = stored[d][r.text][c] + (IF c = b THEN 1 ELSE 0)
  <2> DEFINE f == stored[d][r.text]
  <2>1. f \in [1..MaxBlocks -> Nat] /\ row = [f EXCEPT ![b] = f[b] + 1]
    BY <1>5
  <2> HIDE DEF b, row, f
  <2>2. \A c \in 1..MaxBlocks :
           f[c] \in Nat /\ row[c] = IF c = b THEN f[c] + 1 ELSE f[c]
    BY <2>1
  <2>3. row = [c \in 1..MaxBlocks |-> row[c]]
    BY <2>1
  <2>4. \A c \in 1..MaxBlocks :
           row[c] \in Nat /\ row[c] = f[c] + (IF c = b THEN 1 ELSE 0)
    BY <2>2
  <2> QED BY <2>3, <2>4 DEF f
<1> HIDE DEF row
<1>7. /\ all \in [Texts -> [1..MaxBlocks -> Nat]] /\ all[r.text] = row
      /\ \A u \in Texts : u # r.text => all[u] = stored[d][u]
  BY <1>0, <1>6 DEF PipelineTypeOK
<1> HIDE DEF all
<1>8. \A u \in Texts, c \in 1..MaxBlocks :
         stored'[d][u][c] = stored[d][u][c] + (IF u = r.text /\ c = b THEN 1 ELSE 0)
  <2> SUFFICES ASSUME NEW u \in Texts, NEW c \in 1..MaxBlocks
               PROVE  all[u][c] = stored[d][u][c] + (IF u = r.text /\ c = b THEN 1 ELSE 0)
    BY <1>0, <1>4 DEF PipelineTypeOK
  <2>1. stored[d] \in [Texts -> [1..MaxBlocks -> Nat]]
    BY <1>0 DEF PipelineTypeOK
  <2>2. stored[d][u] \in [1..MaxBlocks -> Nat]
    BY <2>1
  <2>3. stored[d][u][c] \in Nat
    BY <2>2
  <2>4. CASE u = r.text
    BY <1>6, <1>7, <2>4
  <2>5. CASE u # r.text
    BY <1>7, <2>3, <2>5
  <2> QED BY <2>4, <2>5
<1>9. ASSUME run' = [run EXCEPT
               ![w].pc = IF b = Blocks[r.text] THEN "invalidate" ELSE "block",
               ![w].i = b, ![w].count = @ + 1]
      PROVE  /\ Moves(w, IF b = Blocks[r.text] THEN "invalidate" ELSE "block")
             /\ run'[w].text = r.text /\ run'[w].id = r.id /\ run'[w].i = b
             /\ run'[w].count = r.count + 1
  <2> DEFINE pc == IF b = Blocks[r.text] THEN "invalidate" ELSE "block"
             e == [r EXCEPT !.pc = pc]
             f == [e EXCEPT !.i = b]
             g == [f EXCEPT !.count = @ + 1]
  <2>1. run' = [run EXCEPT ![w] = g]
    BY <1>0, <1>9
  <2>2. pc \in RunPcs
    BY DEF RunPcs
  <2> HIDE DEF pc, b
  <2>3. /\ e \in Run /\ e.pc = pc /\ e.doc = r.doc /\ e.pdf = r.pdf /\ e.from = r.from
        /\ e.text = r.text /\ e.id = r.id /\ e.count = r.count
    BY <1>0, <2>2 DEF Run
  <2> HIDE DEF e
  <2>4. /\ f \in Run /\ f.pc = e.pc /\ f.doc = e.doc /\ f.pdf = e.pdf /\ f.from = e.from
        /\ f.text = e.text /\ f.id = e.id /\ f.i = b /\ f.count = e.count
    BY <1>1, <2>3 DEF Run
  <2> HIDE DEF f
  <2>5. /\ g \in Run /\ g.pc = f.pc /\ g.doc = f.doc /\ g.pdf = f.pdf /\ g.from = f.from
        /\ g.text = f.text /\ g.id = f.id /\ g.i = f.i /\ g.count = f.count + 1
    BY <2>4 DEF Run
  <2> HIDE DEF g
  <2>6. Moves(w, pc) /\ run'[w] = g
    BY <1>0, <2>1, <2>2, <2>3, <2>4, <2>5 DEF Moves, OthersRun
  <2>7. /\ Moves(w, IF b = Blocks[r.text] THEN "invalidate" ELSE "block")
        /\ run'[w].text = r.text /\ run'[w].id = r.id /\ run'[w].i = b
        /\ run'[w].count = r.count + 1
    BY <2>3, <2>4, <2>5, <2>6 DEF pc
  <2> QED BY <2>7
<1>10. ASSUME MayYield(r, b = Blocks[r.text]),
              Returns(w, [status |-> "progress", next |-> b])
       PROVE  /\ r.pdf /\ b # Blocks[r.text] /\ Moves(w, "return")
              /\ run'[w].res.status = "progress" /\ run'[w].res.next = b
  <2> DEFINE res == [status |-> "progress", next |-> b]
  <2>0. Blocks[r.text] \in 0..MaxBlocks
    BY PipelineAssumption
  <2>1. b \in 1..MaxBlocks
    BY <1>1, <2>0, QueueAssumption
  <2>2. res \in Outcome /\ res.status = "progress" /\ res.next = b
    <3> HIDE DEF b
    <3> QED BY <2>1 DEF Outcome
  <2> HIDE DEF res
  <2>3. Moves(w, "return") /\ run'[w].res = res
    BY <1>10, <2>2, ReturnsEffect DEF res
  <2> QED BY <1>10, <2>2, <2>3 DEF MayYield
<1>11. \/ /\ Moves(w, IF b = Blocks[r.text] THEN "invalidate" ELSE "block")
          /\ run'[w].text = r.text /\ run'[w].id = r.id /\ run'[w].i = b
          /\ run'[w].count = r.count + 1
       \/ /\ r.pdf /\ b # Blocks[r.text] /\ Moves(w, "return")
          /\ run'[w].res.status = "progress" /\ run'[w].res.next = b
  BY <1>9, <1>10 DEF StoreBlock
<1>12. run' \in [Workers -> Run]
  BY <1>11 DEF Moves
<1> HIDE DEF new
<1>13. PipelineTypeOK'
  BY <1>0, <1>1, <1>2, <1>3, <1>4, <1>7, <1>12 DEF PipelineTypeOK
<1>14. OthersKept(d)
  BY <1>0, <1>3, <1>4 DEF OthersKept, PipelineTypeOK
<1>15. doc'[d] = new
  BY <1>0, <1>3 DEF PipelineTypeOK
<1> QED
  BY <1>2, <1>3, <1>8, <1>11, <1>13, <1>14, <1>15 DEF DocumentThere

LEMMA RollbackChunksEffect ==
  ASSUME PipelineTypeOK, NEW w \in Workers, RollbackChunks(w)
  PROVE  LET d == run[w].doc IN
         /\ PipelineTypeOK' /\ UNCHANGED doc /\ OthersKept(d)
         /\ run[w].pc = "rollback" /\ Moves(w, "mark") /\ Keeps(w)
         /\ DocumentThere(run[w]) => stored'[d] = NoChunks
<1> DEFINE d == run[w].doc
           more == IF HasChunks(d) THEN stale[d] \cup {run[w].id} ELSE stale[d]
<1>0. d \in Docs /\ run[w].id \in Nat
  BY DEF PipelineTypeOK, Run
<1>1. Moves(w, "mark") /\ Keeps(w)
  <2>1. RunGoto(w, "mark") /\ "mark" \in RunPcs
    BY DEF RollbackChunks, RunPcs
  <2> QED BY <2>1, GotoRunEffect
<1>2. /\ run[w].pc = "rollback" /\ doc' = doc
      /\ \/ /\ DocumentThere(run[w]) /\ stored' = [stored EXCEPT ![d] = NoChunks]
            /\ stale' = [stale EXCEPT ![d] = more]
         \/ ~DocumentThere(run[w]) /\ stored' = stored /\ stale' = stale
  BY <1>0 DEF RollbackChunks, At, PipelineTypeOK
<1>3. more \in SUBSET Nat
  BY <1>0 DEF PipelineTypeOK
<1> HIDE DEF more
<1>4. PipelineTypeOK'
  BY <1>0, <1>1, <1>2, <1>3, NoChunksType DEF PipelineTypeOK, Moves
<1>5. OthersKept(d)
  BY <1>0, <1>2 DEF OthersKept, PipelineTypeOK
<1>6. DocumentThere(run[w]) => stored'[d] = NoChunks
  BY <1>0, <1>2 DEF PipelineTypeOK
<1> QED
  BY <1>1, <1>2, <1>4, <1>5, <1>6

LEMMA RollbackMarkEffect ==
  ASSUME PipelineTypeOK, NEW w \in Workers, RollbackMark(w)
  PROVE  LET d == run[w].doc IN
         /\ PipelineTypeOK' /\ UNCHANGED <<stored, stale>> /\ OthersKept(d)
         /\ run[w].pc = "mark" /\ Moves(w, "return") /\ run'[w].res.status = "failed"
         /\ doc'[d].here = doc[d].here /\ doc'[d].id = doc[d].id
         /\ doc'[d].hash = doc[d].hash
         /\ DocumentThere(run[w]) => doc'[d].count = 0 /\ doc'[d].status = "FAILED"
         /\ ~DocumentThere(run[w]) => doc' = doc
<1> DEFINE d == run[w].doc
           a == [doc[d] EXCEPT !.count = 0]
           b == [a EXCEPT !.status = "FAILED"]
<1>0. d \in Docs /\ doc[d] \in Document /\ doc \in [Docs -> Document]
  BY DEF PipelineTypeOK, Run
<1>1. doc' = IF DocumentThere(run[w]) THEN [doc EXCEPT ![d] = b] ELSE doc
  BY <1>0 DEF RollbackMark
<1>2. /\ a \in Document /\ a.count = 0 /\ a.here = doc[d].here /\ a.id = doc[d].id
      /\ a.hash = doc[d].hash
  BY <1>0, CountField
<1> HIDE DEF a
<1>3. /\ b \in Document /\ b.status = "FAILED" /\ b.here = a.here /\ b.id = a.id
      /\ b.hash = a.hash /\ b.count = a.count
  BY <1>2, StatusField
<1> HIDE DEF b
<1>4. Moves(w, "return") /\ run'[w].res.status = "failed"
  <2>1. Returns(w, Result("failed"))
    BY DEF RollbackMark
  <2> QED BY <2>1, NoResultType, ReturnsEffect
<1>5. run[w].pc = "mark" /\ stored' = stored /\ stale' = stale
  BY DEF RollbackMark, At
<1> HIDE DEF d
<1>6. PipelineTypeOK' /\ OthersKept(d)
  BY <1>0, <1>1, <1>2, <1>3, <1>4, <1>5 DEF PipelineTypeOK, Moves, OthersKept
<1> QED
  BY <1>0, <1>1, <1>2, <1>3, <1>4, <1>5, <1>6 DEF d

LEMMA InvalidateEffect ==
  ASSUME PipelineTypeOK, NEW w \in Workers, InvalidateAnswers(w)
  PROVE  LET d == run[w].doc IN
         /\ PipelineTypeOK' /\ UNCHANGED <<doc, stored>> /\ OthersKept(d)
         /\ run[w].pc = "invalidate" /\ Moves(w, "sync") /\ Keeps(w)
         /\ stale'[d] = stale[d] \ {run[w].id}
<1> DEFINE d == run[w].doc
<1>0. d \in Docs
  BY DEF PipelineTypeOK, Run
<1>1. Moves(w, "sync") /\ Keeps(w)
  <2>1. RunGoto(w, "sync") /\ "sync" \in RunPcs
    BY DEF InvalidateAnswers, RunPcs
  <2> QED BY <2>1, GotoRunEffect
<1>2. /\ run[w].pc = "invalidate" /\ doc' = doc /\ stored' = stored
      /\ stale' = [stale EXCEPT ![d] = stale[d] \ {run[w].id}]
  BY <1>0 DEF InvalidateAnswers, At, PipelineTypeOK
<1>3. PipelineTypeOK' /\ OthersKept(d) /\ stale'[d] = stale[d] \ {run[w].id}
  BY <1>0, <1>1, <1>2 DEF PipelineTypeOK, Moves, OthersKept
<1> QED BY <1>1, <1>2, <1>3

LEMMA PurgeLostEffect ==
  ASSUME PipelineTypeOK, NEW w \in Workers, InvalidateFails(w)
  PROVE  /\ PipelineTypeOK' /\ UNCHANGED <<doc, stored, stale>>
         /\ run[w].pc = "invalidate" /\ Moves(w, "sync") /\ Keeps(w)
<1>1. RunGoto(w, "sync") /\ "sync" \in RunPcs
  BY DEF InvalidateFails, RunPcs
<1>2. Moves(w, "sync") /\ Keeps(w)
  BY <1>1, GotoRunEffect
<1> QED BY <1>2 DEF InvalidateFails, At, Moves, PipelineTypeOK

LEMMA SyncEffect ==
  ASSUME PipelineTypeOK, NEW w \in Workers, MarkSynced(w)
  PROVE  LET d == run[w].doc IN
         /\ PipelineTypeOK' /\ UNCHANGED <<stored, stale>> /\ OthersKept(d)
         /\ run[w].pc = "sync" /\ Moves(w, "return") /\ run'[w].res.status = "done"
         /\ doc'[d].here = doc[d].here /\ doc'[d].id = doc[d].id
         /\ doc'[d].hash = doc[d].hash /\ doc'[d].count = doc[d].count
<1> DEFINE d == run[w].doc
           new == [doc[d] EXCEPT !.status = "SYNCED"]
<1>0. d \in Docs /\ doc[d] \in Document /\ doc \in [Docs -> Document]
  BY DEF PipelineTypeOK, Run
<1>1. /\ new \in Document /\ new.here = doc[d].here /\ new.id = doc[d].id
      /\ new.hash = doc[d].hash /\ new.count = doc[d].count
  BY <1>0, StatusField
<1>2. doc' = [doc EXCEPT ![d] = new] \/ doc' = doc
  BY DEF MarkSynced
<1>3. Moves(w, "return") /\ run'[w].res.status = "done"
  <2>1. Returns(w, Result("done"))
    BY DEF MarkSynced
  <2> QED BY <2>1, NoResultType, ReturnsEffect
<1> HIDE DEF d, new
<1>4. UNCHANGED <<stored, stale>> /\ run[w].pc = "sync" /\ d = run[w].doc
  BY DEF MarkSynced, At, d
<1> QED BY <1>0, <1>1, <1>2, <1>3, <1>4 DEF Moves, OthersKept, PipelineTypeOK

-----------------------------------------------------------------------------
(* Every step is a step of the queue *)

\* A row that is held after a step is the job it was before it.
LEMMA HeldIsSameJob ==
  ASSUME ~RunsOutliveLease, LeaseInv, [QueueNext]_queueVars,
         NEW w \in Workers, NEW j \in Jobs, Holds(w, j)'
  PROVE  jobs'[j].type = jobs[j].type /\ jobs'[j].doc = jobs[j].doc
<1>0. QueueTypeOK /\ LeaseInv'
  BY LeaseInvStep DEF LeaseInv
<1>1. jobs'[j].status = "RUNNING"
  BY <1>0 DEF LeaseInv, HoldersAreCurrent
<1>2. CASE RequestStep
  BY <1>0, <1>1, <1>2, RequestEffect
<1>3. CASE \/ \E v \in Workers : StartTick(v) \/ WorkerStep(v) \/ Crash(v)
           \/ \E i \in Jobs : LeaseExpires(i)
  BY <1>1, <1>3, OtherStepsSameJob DEF SameJob, NoRow
<1>4. CASE UNCHANGED queueVars
  BY <1>4 DEF queueVars
<1> QED BY <1>2, <1>3, <1>4 DEF QueueNext

\* A tick that holds a row after a step held it before, or has just claimed it.
LEMMA HolderSteps ==
  ASSUME ~RunsOutliveLease, LeaseInv, [QueueNext]_queueVars,
         NEW w \in Workers, NEW j \in Jobs, Holds(w, j)'
  PROVE  \/ Holds(w, j) /\ worker'[w].doc = worker[w].doc
         \/ worker'[w].doc = jobs[j].doc
<1> DEFINE Goal == \/ Holds(w, j) /\ worker'[w].doc = worker[w].doc
                   \/ worker'[w].doc = jobs[j].doc
<1> SUFFICES Goal
  OBVIOUS
<1>0. QueueTypeOK
  BY DEF LeaseInv
<1>1. ASSUME worker'[w] = worker[w] PROVE Goal
  BY <1>1, HoldsSame
<1>2. CASE RequestStep \/ UNCHANGED queueVars
  <2>1. worker' = worker
    BY <1>0, <1>2, RequestEffect DEF queueVars
  <2> QED BY <1>1, <2>1
<1>3. ASSUME NEW i \in Jobs, LeaseExpires(i) PROVE Goal
  BY <1>1, <1>3 DEF LeaseExpires
<1>4. ASSUME NEW v \in Workers, v # w, StartTick(v) \/ WorkerStep(v) \/ Crash(v)
      PROVE  Goal
  <2>1. OthersStay(v)
    BY <1>0, <1>4, StartEffect, RequeueEffect, ExhaustEffect, PickEffect, TakeEffect,
       ReturnEffect, FinalizeEffect, RestEffect, PruneEffect, CrashEffect DEF WorkerStep
  <2> QED BY <1>1, <1>4, <2>1 DEF OthersStay
<1>5. ASSUME worker'[w].pc \notin {"run", "finalize"} PROVE FALSE
  BY <1>5, HoldsNobody
<1>6. CASE TakeJob(w)
  BY <1>0, <1>6, TakeEffect DEF Holds
<1>7. ASSUME NEW out \in Outcome, ReturnFromRun(w, out) PROVE Goal
  BY <1>0, <1>7, ReturnEffect DEF Holds
<1>8. CASE \/ StartTick(w) \/ Crash(w) \/ RequeueExpired(w) \/ FailExhausted(w)
           \/ PickOldest(w) \/ NothingToPick(w) \/ LoseJob(w)
           \/ FinalizeJob(w) \/ Settle(w) \/ StopTick(w) \/ PruneOldJobs(w)
  BY <1>0, <1>5, <1>8, StartEffect, RequeueEffect, ExhaustEffect, PickEffect,
     FinalizeEffect, RestEffect, PruneEffect, CrashEffect
<1> HIDE DEF Goal
<1> QED
  BY <1>2, <1>3, <1>4, <1>6, <1>7, <1>8 DEF QueueNext, WorkerStep

LEMMA HoldersKnowStep ==
  ASSUME ~RunsOutliveLease, LeaseInv, HoldersKnowTheirJob, [QueueNext]_queueVars
  PROVE  HoldersKnowTheirJob'
<1>0. QueueTypeOK
  BY DEF LeaseInv
<1>1. ASSUME NEW w \in Workers, NEW j \in Jobs, Holds(w, j)'
      PROVE  worker'[w].doc = jobs'[j].doc
  BY <1>1, HeldIsSameJob, HolderSteps DEF HoldersKnowTheirJob
<1>2. ASSUME NEW j \in Jobs, jobs'[j].type = "PDF"
      PROVE  jobs'[j].doc \in PdfDocs
  <2>1. CASE jobs'[j] = jobs[j]
    BY <1>2, <2>1 DEF HoldersKnowTheirJob
  <2>2. ASSUME NEW row, Insert(row), row.type = "PDF" => row.doc \in PdfDocs
        PROVE  jobs'[j].doc \in PdfDocs
    BY <1>0, <1>2, <2>1, <2>2, InsertEffect
  <2>3. CASE RequestStep
    <3>1. ASSUME NEW r \in Requesters, NEW d \in Docs, InsertUrl(r, d)
          PROVE  jobs'[j].doc \in PdfDocs
      BY <2>2, <3>1 DEF InsertUrl, NewRow
    <3>2. ASSUME NEW d \in PdfDocs, InsertPdf(d)
          PROVE  jobs'[j].doc \in PdfDocs
      BY <2>2, <3>2 DEF InsertPdf, NewRow
    <3> QED BY <2>1, <2>3, <3>1, <3>2 DEF RequestStep, RequestUrls, LookForDuplicate
  <2>4. CASE \/ \E v \in Workers : StartTick(v) \/ WorkerStep(v) \/ Crash(v)
             \/ \E i \in Jobs : LeaseExpires(i)
    BY <1>2, <2>4, OtherStepsSameJob DEF SameJob, NoRow, HoldersKnowTheirJob
  <2>5. CASE UNCHANGED queueVars
    BY <2>1, <2>5 DEF queueVars
  <2> QED BY <2>3, <2>4, <2>5 DEF QueueNext
<1> QED BY <1>1, <1>2 DEF HoldersKnowTheirJob

\* What a run hands back is what the queue assumes of it.
LEMMA ReportMayReturn ==
  ASSUME IngestInv, NEW w \in Workers, Report(w)
  PROVE  run[w].res \in Outcome /\ MayReturn(w, run[w].res)
<1>1. run[w] \in Run /\ RunOK(w) /\ run[w].pc = "return"
  BY DEF IngestInv, PipelineTypeOK, Report, At
<1> QED BY <1>1 DEF Run, RunOK, MayReturn

LEMMA QueueSteps ==
  ASSUME IngestInv, [Next]_vars
  PROVE  [QueueNext]_queueVars
<1>1. CASE Requests
  <2>1. ASSUME NEW r \in Requesters, NEW f \in BOOLEAN, RequestSync(r, f)
        PROVE  RequestStep
    BY <2>1 DEF RequestSync, Queue, RequestStep
  <2>2. ASSUME NEW r \in Requesters, NEW d \in Docs, RequestPage(r, d)
        PROVE  RequestStep
    BY <2>2 DEF RequestPage, Queue, RequestStep
  <2> QED BY <1>1, <2>1, <2>2 DEF Requests, Queue, RequestStep, QueueNext
<1>2. ASSUME NEW w \in Workers, Ticks(w) PROVE [QueueNext]_queueVars
  <2>1. CASE Report(w)
    BY <2>1, ReportMayReturn DEF Report, WorkerStep, QueueNext
  <2>2. CASE RunJob(w) \/ LosePurge(w)
    BY <2>2 DEF RunJob, LosePurge
  <2>3. CASE Claim(w) \/ SettleDocument(w) \/ CrashWorker(w)
    BY <2>3 DEF Claim, SettleDocument, CrashWorker, WorkerStep, QueueNext
  <2> QED BY <1>2, <2>1, <2>2, <2>3 DEF Ticks, Queue, WorkerStep, QueueNext
<1>3. ASSUME NEW j \in Jobs, Queue(LeaseExpires(j)) PROVE [QueueNext]_queueVars
  BY <1>3 DEF Queue, QueueNext
<1>4. ASSUME NEW d \in Docs, Pipeline(DeleteDocument(d)) PROVE [QueueNext]_queueVars
  BY <1>4 DEF Pipeline
<1>5. ASSUME NEW d \in Docs, NEW id \in 1..MaxDocIds, Pipeline(InvalidateDeleted(d, id))
      PROVE  [QueueNext]_queueVars
  BY <1>5 DEF Pipeline
<1>6. CASE UNCHANGED vars
  BY <1>6 DEF vars
<1> QED BY <1>1, <1>2, <1>3, <1>4, <1>5, <1>6 DEF Next

-----------------------------------------------------------------------------
(* Types, and the runs of the ticks *)

\* A step that leaves tick v, or takes it from one place without a run to another.
QuietTick(v) ==
  \/ worker'[v] = worker[v]
  \/ worker[v].pc # "run" /\ worker'[v].pc # "run"

LEMMA OtherRunsOK ==
  ASSUME ~RunsOutliveLease, IngestInv, [QueueNext]_queueVars,
         NEW v \in Workers, run'[v] = run[v], QuietTick(v)
  PROVE  RunOK(v)'
<1>0. RunOK(v) /\ LeaseInv /\ QueueTypeOK
  BY DEF IngestInv, LeaseInv
<1>1. CASE worker[v].pc = "run"
  <2>1. worker'[v] = worker[v] /\ worker[v].job \in Jobs
    BY <1>0, <1>1 DEF QuietTick, QueueTypeOK
  <2>2. Holds(v, worker[v].job)'
    BY <1>1, <2>1 DEF Holds
  <2>3. jobs'[worker[v].job].type = jobs[worker[v].job].type
    BY <1>0, <2>1, <2>2, HeldIsSameJob
  <2> QED BY <1>0, <2>1, <2>3 DEF RunOK
<1>2. CASE worker[v].pc # "run"
  BY <1>0, <1>2 DEF RunOK, QuietTick
<1> QED BY <1>1, <1>2

LEMMA EndEffect ==
  ASSUME PipelineTypeOK, NEW w \in Workers, EndRun(w)
  PROVE  run' \in [Workers -> Run] /\ OthersRun(w) /\ run'[w] = NoRun
BY NoRunType DEF EndRun, PipelineTypeOK, OthersRun

\* One step of w's run, seen from the queue: the worker and its row stay.
LEMMA MovedRunOK ==
  ASSUME IngestInv, UNCHANGED queueVars, NEW w \in Workers, NEW pc, Moves(w, pc),
         run[w].pc # "off", pc # "off",
         pc \notin {"fetch", "return"} => run'[w].text \in Texts,
         pc \in {"open", "rollback", "mark"} => run[w].from = 0,
         pc = "open" => Blocks[run'[w].text] > 0,
         pc = "block" => /\ run[w].from <= run'[w].i
                         /\ run'[w].i < Blocks[run'[w].text],
         pc = "return" =>
           \/ run'[w].res.status \in {"done", "failed", "threw"}
           \/ /\ run'[w].res.status = "progress" /\ run[w].pdf
              /\ run[w].from < run'[w].res.next /\ run'[w].res.next < MaxBlocks
  PROVE  \A v \in Workers : RunOK(v)'
<1>0. worker' = worker /\ jobs' = jobs /\ \A v \in Workers : RunOK(v)
  BY DEF queueVars, IngestInv
<1>1. ASSUME NEW v \in Workers, v # w PROVE RunOK(v)'
  <2>1. run'[v] = run[v] /\ RunOK(v)
    BY <1>0, <1>1 DEF Moves, OthersRun
  <2> QED BY <1>0, <2>1 DEF RunOK
<1>2. RunOK(w)'
  BY <1>0 DEF RunOK, Moves
<1> QED BY <1>1, <1>2

LEMMA RunStepsOK ==
  ASSUME IngestInv, NEW w \in Workers, RunStep(w), UNCHANGED queueVars
  PROVE  PipelineTypeOK' /\ \A v \in Workers : RunOK(v)'
<1> DEFINE r == run[w]
           s == run'[w]
<1>0. PipelineTypeOK /\ RunOK(w) /\ r \in Run
  BY DEF IngestInv, PipelineTypeOK
<1>a. /\ r.from \in Nat /\ r.i \in Nat
      /\ r.text \in Texts => Blocks[r.text] \in Nat /\ Blocks[r.text] <= MaxBlocks
  BY <1>0, PipelineAssumption, QueueAssumption DEF Run
<1>b. /\ r.pc \notin {"off", "fetch", "return"} => r.text \in Texts
      /\ r.pc \in {"open", "rollback", "mark"} => r.from = 0
      /\ r.pc = "open" => Blocks[r.text] > 0
      /\ r.pc = "block" => r.from <= r.i /\ r.i < Blocks[r.text]
  BY <1>0 DEF RunOK
<1>1. ASSUME NEW t \in Texts, FetchText(w, t)
      PROVE  PipelineTypeOK' /\ \A v \in Workers : RunOK(v)'
  <2>1. r.pc = "fetch" /\ Moves(w, "read") /\ s.text = t /\ PipelineTypeOK'
    BY <1>0, <1>1, FetchEffect
  <2> QED BY <2>1, MovedRunOK
<1>2. CASE FetchFails(w) \/ StoreFails(w) \/ (EmbedFails(w) /\ r.from # 0)
  <2>1. /\ r.pc \in {"fetch", "block"} /\ Moves(w, "return") /\ PipelineTypeOK'
        /\ s.res.status \in {"failed", "threw"}
    BY <1>0, <1>2, FailEffect
  <2> QED BY <2>1, MovedRunOK
<1>3. CASE EmbedFails(w) /\ r.from = 0
  <2>1. r.pc = "block" /\ Moves(w, "rollback") /\ Keeps(w) /\ PipelineTypeOK'
    BY <1>0, <1>3, RollbackEffect
  <2> QED BY <1>3, <1>b, <2>1, MovedRunOK DEF Keeps
<1>4. CASE ReadExisting(w)
  <2>0. r.pc = "read" /\ r.text \in Texts
    BY <1>4, <1>b DEF ReadExisting, At
  <2>1. PipelineTypeOK'
    BY <1>0, <1>4, <2>0, ReadEffect
  <2>2. \/ Moves(w, "skip") /\ s.text = r.text
        \/ Moves(w, "return") /\ s.res.status \in {"failed", "threw"}
        \/ Moves(w, "open") /\ s.text = r.text /\ r.from = 0 /\ Blocks[r.text] > 0
        \/ /\ Moves(w, "block") /\ s.text = r.text /\ s.i = r.from
           /\ r.from < Blocks[r.text]
        \/ Moves(w, "invalidate") /\ s.text = r.text
    BY <1>0, <1>4, <2>0, ReadEffect
  <2>3. CASE Moves(w, "skip") /\ s.text = r.text
    BY <2>0, <2>1, <2>3, MovedRunOK
  <2>4. CASE Moves(w, "return") /\ s.res.status \in {"failed", "threw"}
    BY <2>0, <2>1, <2>4, MovedRunOK
  <2>5. CASE Moves(w, "open") /\ s.text = r.text /\ r.from = 0 /\ Blocks[r.text] > 0
    BY <2>0, <2>1, <2>5, MovedRunOK
  <2>6. CASE /\ Moves(w, "block") /\ s.text = r.text /\ s.i = r.from
             /\ r.from < Blocks[r.text]
    <3>1. r.from <= s.i /\ s.i < Blocks[s.text]
      BY <1>a, <2>6
    <3> QED BY <2>0, <2>1, <2>6, <3>1, MovedRunOK
  <2>7. CASE Moves(w, "invalidate") /\ s.text = r.text
    BY <2>0, <2>1, <2>7, MovedRunOK
  <2> QED BY <2>2, <2>3, <2>4, <2>5, <2>6, <2>7
<1>5. CASE SkipUnchanged(w)
  <2>1. r.pc = "skip" /\ Moves(w, "return") /\ s.res.status = "done" /\ PipelineTypeOK'
    BY <1>0, <1>5, SkipEffect
  <2> QED BY <2>1, MovedRunOK
<1>6. CASE OpenDocument(w)
  <2>0. r.pc = "open" /\ r.text \in Texts /\ r.from = 0
    BY <1>6, <1>b DEF OpenDocument, At
  <2>1. Moves(w, "block") /\ s.text = r.text /\ s.i = 0 /\ PipelineTypeOK'
    BY <1>0, <1>6, <2>0, OpenEffect
  <2>2. 0 < Blocks[r.text] /\ r.from <= s.i
    BY <1>a, <1>b, <2>0, <2>1
  <2> QED BY <2>0, <2>1, <2>2, MovedRunOK
<1>7. CASE StoreBlock(w)
  <2> DEFINE b == r.i + 1
  <2>0. /\ r.pc = "block" /\ r.text \in Texts /\ r.from <= r.i /\ r.i < Blocks[r.text]
    BY <1>7, <1>b DEF StoreBlock, At
  <2>1. PipelineTypeOK'
    BY <1>0, <1>7, <2>0, StoreEffect
  <2>2. \/ /\ Moves(w, IF b = Blocks[r.text] THEN "invalidate" ELSE "block")
           /\ s.text = r.text /\ s.i = b
        \/ /\ r.pdf /\ b # Blocks[r.text] /\ Moves(w, "return")
           /\ s.res.status = "progress" /\ s.res.next = b
    BY <1>0, <1>7, <2>0, StoreEffect
  <2>3. /\ r.from < b /\ r.from <= b
        /\ b # Blocks[r.text] => b < Blocks[r.text] /\ b < MaxBlocks
    BY <1>a, <2>0, QueueAssumption
  <2> HIDE DEF b
  <2>4. CASE b = Blocks[r.text] /\ Moves(w, "invalidate") /\ s.text = r.text
    BY <2>0, <2>1, <2>4, MovedRunOK
  <2>5. CASE /\ b # Blocks[r.text] /\ Moves(w, "block") /\ s.text = r.text /\ s.i = b
    BY <2>0, <2>1, <2>3, <2>5, MovedRunOK
  <2>6. CASE /\ r.pdf /\ b # Blocks[r.text] /\ Moves(w, "return")
             /\ s.res.status = "progress" /\ s.res.next = b
    BY <2>0, <2>1, <2>3, <2>6, MovedRunOK
  <2> QED BY <2>2, <2>4, <2>5, <2>6
<1>8. CASE RollbackChunks(w)
  <2>1. r.pc = "rollback" /\ Moves(w, "mark") /\ Keeps(w) /\ PipelineTypeOK'
    BY <1>0, <1>8, RollbackChunksEffect
  <2> QED BY <1>b, <2>1, MovedRunOK DEF Keeps
<1>9. CASE RollbackMark(w)
  <2>1. r.pc = "mark" /\ Moves(w, "return") /\ s.res.status = "failed" /\ PipelineTypeOK'
    BY <1>0, <1>9, RollbackMarkEffect
  <2> QED BY <2>1, MovedRunOK
<1>10. CASE InvalidateAnswers(w)
  <2>1. r.pc = "invalidate" /\ Moves(w, "sync") /\ Keeps(w) /\ PipelineTypeOK'
    BY <1>0, <1>10, InvalidateEffect
  <2> QED BY <1>b, <2>1, MovedRunOK DEF Keeps
<1>11. CASE MarkSynced(w)
  <2>1. r.pc = "sync" /\ Moves(w, "return") /\ s.res.status = "done" /\ PipelineTypeOK'
    BY <1>0, <1>11, SyncEffect
  <2> QED BY <2>1, MovedRunOK
<1> QED
  BY <1>1, <1>2, <1>3, <1>4, <1>5, <1>6, <1>7, <1>8, <1>9, <1>10, <1>11 DEF RunStep

\* The document half of finalizeJob, and the two statements of a deletion.
LEMMA SettleDocEffect ==
  ASSUME QueueTypeOK, PipelineTypeOK, NEW w \in Workers, SettleDocument(w)
  PROVE  LET d == worker[w].doc IN
         /\ PipelineTypeOK' /\ UNCHANGED <<stored, stale, run, history>> /\ OthersKept(d)
         /\ d \in Docs /\ worker[w].pc = "settle"
         /\ doc'[d].here = doc[d].here /\ doc'[d].id = doc[d].id
         /\ doc'[d].hash = doc[d].hash /\ doc'[d].count = doc[d].count
         /\ doc[d].here => doc'[d].status = IF worker[w].out.status = "done"
                                            THEN "SYNCED" ELSE "FAILED"
<1> DEFINE d == worker[w].doc
           st == IF worker[w].out.status = "done" THEN "SYNCED" ELSE "FAILED"
           new == [doc[d] EXCEPT !.status = st]
<1>0. d \in Docs /\ doc[d] \in Document /\ st \in {"INGESTING", "SYNCED", "FAILED"}
  BY DEF PipelineTypeOK, QueueTypeOK, Worker
<1>1. /\ new \in Document /\ new.here = doc[d].here /\ new.id = doc[d].id
      /\ new.hash = doc[d].hash /\ new.count = doc[d].count /\ new.status = st
  <2> HIDE DEF st
  <2> QED BY <1>0, StatusField
<1>2. /\ doc' = IF doc[d].here THEN [doc EXCEPT ![d] = new] ELSE doc
      /\ UNCHANGED <<stored, stale, run, history>> /\ worker[w].pc = "settle"
  BY DEF SettleDocument, SetStatus, Settle
<1> HIDE DEF new
<1>3. PipelineTypeOK' /\ OthersKept(d)
  BY <1>0, <1>1, <1>2 DEF PipelineTypeOK, OthersKept
<1> QED
  BY <1>0, <1>1, <1>2, <1>3 DEF PipelineTypeOK

LEMMA DeleteEffect ==
  ASSUME PipelineTypeOK, NEW d \in Docs, DeleteDocument(d)
  PROVE  /\ PipelineTypeOK' /\ OthersKept(d) /\ UNCHANGED run /\ ~doc'[d].here
<1> DEFINE a == [doc[d] EXCEPT !.here = FALSE]
           b == [a EXCEPT !.hash = "none"]
           c == [b EXCEPT !.count = 0]
           more == IF HasChunks(d) THEN stale[d] \cup {doc[d].id} ELSE stale[d]
<1>0. doc[d] \in Document /\ doc \in [Docs -> Document] /\ doc[d].id \in Nat
  BY DEF PipelineTypeOK, Document
<1>1. a \in Document /\ a.here = FALSE
  BY <1>0 DEF Document
<1>2. b \in Document /\ b.here = FALSE
  <2> HIDE DEF a
  <2> QED BY <1>1 DEF Document
<1>3. c \in Document /\ c.here = FALSE
  <2> HIDE DEF b
  <2> QED BY <1>2 DEF Document
<1>4. doc' = [doc EXCEPT ![d] = c]
  BY <1>0 DEF DeleteDocument
<1> HIDE DEF a, b, c
<1>5. /\ stored' = [stored EXCEPT ![d] = NoChunks]
      /\ stale' = [stale EXCEPT ![d] = more] /\ run' = run
  BY <1>0 DEF DeleteDocument, PipelineTypeOK
<1>6. more \in SUBSET Nat
  BY <1>0 DEF PipelineTypeOK
<1> HIDE DEF more
<1> QED
  BY <1>0, <1>3, <1>4, <1>5, <1>6, NoChunksType DEF PipelineTypeOK, OthersKept

LEMMA DropEffect ==
  ASSUME PipelineTypeOK, NEW d \in Docs, NEW id, InvalidateDeleted(d, id)
  PROVE  /\ PipelineTypeOK' /\ OthersKept(d) /\ UNCHANGED <<doc, stored, run>>
         /\ stale'[d] \subseteq stale[d]
<1>1. stale' = [stale EXCEPT ![d] = stale[d] \ {id}] /\ UNCHANGED <<doc, stored, run>>
  BY DEF InvalidateDeleted, PipelineTypeOK
<1> QED
  BY <1>1 DEF PipelineTypeOK, OthersKept

\* A claim begins a run with the arguments of its row.
LEMMA ClaimEffect ==
  ASSUME QueueTypeOK, PipelineTypeOK, NEW w \in Workers, Claim(w)
  PROVE  LET row == jobs[worker[w].job]
             s == run'[w] IN
         /\ PipelineTypeOK' /\ UNCHANGED <<doc, stored, stale>> /\ OthersRun(w)
         /\ TakeJob(w) /\ row \in Row /\ worker[w].job \in Jobs
         /\ run[w].pc = "off" /\ s.pc = "fetch" /\ s.doc = row.doc
         /\ s.pdf = (row.type = "PDF")
         /\ s.from = (IF row.type = "PDF" THEN row.progress ELSE 0)
<1> DEFINE row == jobs[worker[w].job]
           from == IF row.type = "PDF" THEN row.progress ELSE 0
           pdf == row.type = "PDF"
<1>1. TakeJob(w) /\ BeginRun(w, row.doc, pdf, from, row.force)
  BY DEF Claim, JobOf
<1>2. worker[w].job \in Jobs /\ row \in Row
  BY <1>1 DEF TakeJob, QueueTypeOK
<1>3. row.doc \in Docs /\ row.force \in BOOLEAN /\ from \in Nat /\ pdf \in BOOLEAN
  BY <1>2 DEF Row
<1> HIDE DEF pdf, from, row
<1>4. /\ run' \in [Workers -> Run] /\ OthersRun(w) /\ run[w].pc = "off"
      /\ run'[w].pc = "fetch" /\ run'[w].doc = row.doc /\ run'[w].pdf = pdf
      /\ run'[w].from = from /\ UNCHANGED <<doc, stored, stale>>
  BY <1>1, <1>3, BeginEffect
<1>5. PipelineTypeOK'
  BY <1>4 DEF PipelineTypeOK
<1> QED
  BY <1>1, <1>2, <1>4, <1>5 DEF pdf, from, row

LEMMA ReportEffect ==
  ASSUME QueueTypeOK, PipelineTypeOK, NEW w \in Workers, Report(w)
  PROVE  /\ PipelineTypeOK' /\ UNCHANGED <<doc, stored, stale, history, jobs>> /\ OthersRun(w)
         /\ run[w].pc = "return" /\ run'[w] = NoRun /\ OthersStay(w)
         /\ worker[w].pc = "run" /\ worker'[w].pc = "finalize"
         /\ worker'[w].doc = worker[w].doc /\ worker'[w].out = run[w].res
<1>1. ReturnFromRun(w, run[w].res) /\ run[w].res \in Outcome /\ EndRun(w)
  BY DEF Report, PipelineTypeOK, Run
<1>2. run' \in [Workers -> Run] /\ OthersRun(w) /\ run'[w] = NoRun
  BY <1>1, EndEffect
<1>3. /\ worker[w].pc = "run" /\ worker'[w].pc = "finalize" /\ OthersStay(w)
      /\ worker'[w].doc = worker[w].doc /\ worker'[w].out = run[w].res /\ jobs' = jobs
  BY <1>1, ReturnEffect
<1>4. UNCHANGED <<doc, stored, stale, history>> /\ run[w].pc = "return"
  BY DEF Report, At
<1> QED
  BY <1>2, <1>3, <1>4 DEF PipelineTypeOK

LEMMA CrashWorkerEffect ==
  ASSUME QueueTypeOK, PipelineTypeOK, NEW w \in Workers, CrashWorker(w)
  PROVE  /\ PipelineTypeOK' /\ UNCHANGED <<doc, stored, stale>> /\ OthersRun(w)
         /\ run'[w] = NoRun /\ worker'[w].pc = "idle" /\ OthersStay(w)
<1>1. run' \in [Workers -> Run] /\ OthersRun(w) /\ run'[w] = NoRun
  BY EndEffect DEF CrashWorker
<1>2. worker'[w].pc = "idle" /\ OthersStay(w)
  BY CrashEffect DEF CrashWorker
<1>3. UNCHANGED <<doc, stored, stale>>
  BY DEF CrashWorker
<1> QED
  BY <1>1, <1>2, <1>3 DEF PipelineTypeOK

\* The steps of the queue that leave the pipeline alone.
QuietStep(w) ==
  \/ StartTick(w) \/ RequeueExpired(w) \/ FailExhausted(w)
  \/ PickOldest(w) \/ NothingToPick(w) \/ LoseJob(w)
  \/ FinalizeJob(w) \/ StopTick(w) \/ PruneOldJobs(w)

LEMMA QuietEffect ==
  ASSUME QueueTypeOK, NEW w \in Workers, QuietStep(w) \/ Settle(w)
  PROVE  /\ OthersStay(w) /\ worker[w].pc # "run" /\ worker'[w].pc # "run"
  BY StartEffect, RequeueEffect, ExhaustEffect, PickEffect, FinalizeEffect, RestEffect,
     PruneEffect DEF QuietStep

LEMMA HistoryType ==
  ASSUME HistoryTypeOK, [Next]_vars
  PROVE  HistoryTypeOK'
<1>1. ASSUME NEW w \in Workers, Claim(w) PROVE HistoryTypeOK'
  BY <1>1 DEF Claim, HistoryTypeOK
<1>2. ASSUME NEW w \in Workers, RunJob(w) PROVE HistoryTypeOK'
  <2> DEFINE d == worker[w].doc
             b1 == IF At(w, "open") THEN cut[d] /\ Crosses(d, worker[w].job)
                                    ELSE cut[d] \/ GivesUp(w)
             b2 == ~At(w, "open") /\ (mixed[d] \/ ResumesOtherText(w))
             b3 == unpurged[d] /\ ~At(w, "open")
  <2>1. b1 \in BOOLEAN /\ b2 \in BOOLEAN /\ b3 \in BOOLEAN
    <3>1. (cut[d] /\ Crosses(d, worker[w].job)) \in BOOLEAN /\ (cut[d] \/ GivesUp(w)) \in BOOLEAN
      OBVIOUS
    <3> QED BY <3>1
  <2>2. cut' = [cut EXCEPT ![d] = b1]
    BY <1>2 DEF RunJob, HistoryTypeOK
  <2>3. mixed' = [mixed EXCEPT ![d] = b2]
    BY <1>2 DEF RunJob, HistoryTypeOK
  <2>4. unpurged' = [unpurged EXCEPT ![d] = b3]
    BY <1>2 DEF RunJob, HistoryTypeOK
  <2> HIDE DEF b1, b2, b3
  <2> QED BY <2>1, <2>2, <2>3, <2>4 DEF HistoryTypeOK
<1>3. ASSUME NEW w \in Workers, CrashWorker(w) PROVE HistoryTypeOK'
  BY <1>3 DEF CrashWorker, HistoryTypeOK
<1>4. ASSUME NEW w \in Workers, LosePurge(w) PROVE HistoryTypeOK'
  BY <1>4 DEF LosePurge, HistoryTypeOK
<1>5. ASSUME UNCHANGED history PROVE HistoryTypeOK'
  BY <1>5 DEF history, HistoryTypeOK
<1>6. ASSUME NEW w \in Workers, Report(w) \/ SettleDocument(w) PROVE HistoryTypeOK'
  BY <1>5, <1>6 DEF Report, SettleDocument
<1> QED
  BY <1>1, <1>2, <1>3, <1>4, <1>5, <1>6 DEF Next, Ticks, Requests, RequestSync, RequestPage,
     Queue, Pipeline, vars

LEMMA IngestInvStep ==
  ASSUME ~RunsOutliveLease, IngestInv, [Next]_vars
  PROVE  IngestInv'
<1>0. /\ LeaseInv /\ QueueTypeOK /\ PipelineTypeOK /\ HoldersKnowTheirJob
      /\ \A w \in Workers : RunOK(w)
  BY DEF IngestInv, LeaseInv
<1>a. [QueueNext]_queueVars
  BY QueueSteps
<1>b. LeaseInv' /\ HoldersKnowTheirJob' /\ HistoryTypeOK'
  BY <1>0, <1>a, LeaseInvStep, HoldersKnowStep, HistoryType DEF IngestInv
<1> SUFFICES PipelineTypeOK' /\ \A v \in Workers : RunOK(v)'
  BY <1>b DEF IngestInv
<1>c. ASSUME run' = run, \A v \in Workers : QuietTick(v)
      PROVE  \A v \in Workers : RunOK(v)'
  BY <1>a, <1>c, OtherRunsOK
<1>d. ASSUME UNCHANGED pipelineVars PROVE PipelineTypeOK'
  BY <1>0, <1>d DEF PipelineTypeOK, pipelineVars
<1>1. CASE Requests
  <2>1. RequestStep /\ UNCHANGED pipelineVars
    BY <1>1 DEF Requests, RequestSync, RequestPage, Queue, RequestStep
  <2>2. worker' = worker
    BY <1>0, <2>1, RequestEffect
  <2> QED BY <1>c, <1>d, <2>1, <2>2 DEF QuietTick, pipelineVars
<1>2. ASSUME NEW w \in Workers, QuietStep(w), UNCHANGED pipelineVars
      PROVE  PipelineTypeOK' /\ \A v \in Workers : RunOK(v)'
  <2>1. \A v \in Workers : QuietTick(v)
    BY <1>0, <1>2, QuietEffect DEF QuietTick, OthersStay
  <2> QED BY <1>2, <1>c, <1>d, <2>1 DEF pipelineVars
<1>3. ASSUME NEW w \in Workers, Claim(w)
      PROVE  PipelineTypeOK' /\ \A v \in Workers : RunOK(v)'
  <2> DEFINE j == worker[w].job
             s == run'[w]
  <2>1. /\ PipelineTypeOK' /\ OthersRun(w) /\ TakeJob(w) /\ j \in Jobs /\ jobs[j] \in Row
        /\ s.pc = "fetch" /\ s.doc = jobs[j].doc /\ s.pdf = (jobs[j].type = "PDF")
        /\ s.from = (IF jobs[j].type = "PDF" THEN jobs[j].progress ELSE 0)
    BY <1>0, <1>3, ClaimEffect
  <2>2. /\ jobs'[j] = Taken(jobs[j]) /\ worker'[w].pc = "run" /\ worker'[w].job = j
        /\ worker'[w].from = jobs[j].progress /\ worker'[w].doc = jobs[j].doc
        /\ OthersStay(w)
    BY <1>0, <2>1, TakeEffect
  <2>3. jobs'[j].type = jobs[j].type
    BY <2>1, <2>2, TakenRow
  <2>4. RunOK(w)'
    <3> HIDE DEF j
    <3> QED BY <2>1, <2>2, <2>3 DEF RunOK
  <2>5. \A v \in Workers : v # w => RunOK(v)'
    BY <1>a, <2>1, <2>2, OtherRunsOK DEF QuietTick, OthersStay, OthersRun
  <2> QED BY <2>1, <2>4, <2>5
<1>4. ASSUME NEW w \in Workers, RunJob(w) \/ LosePurge(w)
      PROVE  PipelineTypeOK' /\ \A v \in Workers : RunOK(v)'
  <2>1. CASE RunJob(w)
    BY <2>1, RunStepsOK DEF RunJob
  <2>2. CASE LosePurge(w)
    <3>1. /\ PipelineTypeOK' /\ run[w].pc = "invalidate" /\ Moves(w, "sync") /\ Keeps(w)
          /\ UNCHANGED queueVars
      BY <1>0, <2>2, PurgeLostEffect DEF LosePurge
    <3>2. run[w].text \in Texts
      BY <1>0, <3>1 DEF RunOK
    <3> QED BY <3>1, <3>2, MovedRunOK DEF Keeps
  <2> QED BY <1>4, <2>1, <2>2
<1>5. ASSUME NEW w \in Workers, Report(w) \/ CrashWorker(w)
      PROVE  PipelineTypeOK' /\ \A v \in Workers : RunOK(v)'
  <2>1. /\ PipelineTypeOK' /\ OthersRun(w) /\ OthersStay(w) /\ run'[w] = NoRun
        /\ worker'[w].pc # "run"
    BY <1>0, <1>5, ReportEffect, CrashWorkerEffect
  <2>2. RunOK(w)'
    BY <2>1, NoRunType DEF RunOK
  <2>3. \A v \in Workers : v # w => RunOK(v)'
    BY <1>a, <2>1, OtherRunsOK DEF QuietTick, OthersStay, OthersRun
  <2> QED BY <2>1, <2>2, <2>3
<1>6. ASSUME NEW w \in Workers, SettleDocument(w)
      PROVE  PipelineTypeOK' /\ \A v \in Workers : RunOK(v)'
  <2>1. PipelineTypeOK' /\ run' = run
    BY <1>0, <1>6, SettleDocEffect
  <2>2. \A v \in Workers : QuietTick(v)
    BY <1>0, <1>6, QuietEffect DEF SettleDocument, QuietTick, OthersStay
  <2> QED BY <1>c, <2>1, <2>2
<1>7. ASSUME NEW j \in Jobs, Queue(LeaseExpires(j))
      PROVE  PipelineTypeOK' /\ \A v \in Workers : RunOK(v)'
  BY <1>7, <1>c, <1>d DEF Queue, LeaseExpires, QuietTick, pipelineVars
<1>8. ASSUME NEW d \in Docs, Pipeline(DeleteDocument(d))
      PROVE  PipelineTypeOK' /\ \A v \in Workers : RunOK(v)'
  BY <1>0, <1>8, <1>c, DeleteEffect DEF Pipeline, QuietTick, queueVars
<1>9. ASSUME NEW d \in Docs, NEW id \in 1..MaxDocIds, Pipeline(InvalidateDeleted(d, id))
      PROVE  PipelineTypeOK' /\ \A v \in Workers : RunOK(v)'
  BY <1>0, <1>9, <1>c, DropEffect DEF Pipeline, QuietTick, queueVars
<1>10. CASE UNCHANGED vars
  BY <1>10, <1>c, <1>d DEF vars, queueVars, pipelineVars, QuietTick
<1>11. ASSUME NEW w \in Workers, Ticks(w)
       PROVE  PipelineTypeOK' /\ \A v \in Workers : RunOK(v)'
  BY <1>2, <1>3, <1>4, <1>5, <1>6, <1>11 DEF Ticks, Queue, QuietStep
<1> QED
  BY <1>1, <1>7, <1>8, <1>9, <1>10, <1>11 DEF Next

LEMMA IngestInvInit == Init => IngestInv
<1> SUFFICES ASSUME Init PROVE IngestInv
  OBVIOUS
<1>1. LeaseInv
  BY LeaseInvInit DEF Init
<1>2. NoDocument \in Document
  BY DEF NoDocument, Document
<1>3. PipelineTypeOK /\ HistoryTypeOK
  BY <1>2, NoRunType, NoChunksType DEF Init, PipelineInit, PipelineTypeOK, HistoryTypeOK
<1>4. \A w \in Workers : worker[w].pc = "idle" /\ run[w].pc = "off"
  BY NoRunType DEF Init, QueueInit, PipelineInit, IdleWorker
<1>5. HoldersKnowTheirJob
  BY <1>4 DEF HoldersKnowTheirJob, Holds, Init, QueueInit, NoRow
<1>6. \A w \in Workers : RunOK(w)
  BY <1>4 DEF RunOK
<1> QED BY <1>1, <1>3, <1>5, <1>6 DEF IngestInv

\* Every reachable state of the background ingestion is well typed, and a tick
\* has a run exactly while it is between its claim and its outcome.
THEOREM IngestTypeCorrect ==
  ASSUME ~RunsOutliveLease
  PROVE  Spec => []TypeOK
<1>1. IngestInv /\ [Next]_vars => IngestInv'
  BY IngestInvStep
<1>2. IngestInv => TypeOK
  <2> SUFFICES ASSUME IngestInv, NEW w \in Workers
               PROVE  /\ run[w].pc \in RunPcs
                      /\ At(w, "off") <=> worker[w].pc # "run"
                      /\ ~At(w, "off") => run[w].doc = worker[w].doc
    BY DEF TypeOK, IngestInv, LeaseInv, QueueTypeOK, PipelineTypeOK
  <2>1. run[w] \in Run /\ RunOK(w)
    BY DEF IngestInv, PipelineTypeOK
  <2> QED BY <2>1 DEF Run, RunOK, At
<1> QED
  BY <1>1, <1>2, IngestInvInit, PTL DEF Spec

\* Background ingestion implements the queue: what the pipeline hands back is
\* what the queue assumes of a run, and no other step touches the queue.
THEOREM QueueImplemented ==
  ASSUME ~RunsOutliveLease
  PROVE  Spec => ImplementsQueue
<1>1. IngestInv /\ [Next]_vars => IngestInv'
  BY IngestInvStep
<1>2. IngestInv /\ [Next]_vars => [QueueNext]_queueVars
  BY QueueSteps
<1>3. Init => QueueInit
  BY DEF Init
<1> QED
  BY <1>1, <1>2, <1>3, IngestInvInit, PTL DEF Spec, ImplementsQueue, QueueSpec

-----------------------------------------------------------------------------
(* One run per page, unless two requests looked it up together *)

LEMMA HolderOfWork ==
  ASSUME LeaseInv, NEW w \in Workers, NEW d, WorksOn(w, d)
  PROVE  worker[w].job \in Jobs /\ Holds(w, worker[w].job)
BY DEF LeaseInv, QueueTypeOK, WorksOn, Holds

LEMMA OneRun == LeaseInv /\ HoldersKnowTheirJob /\ PendingInv => OneRunUnlessRaced
<1> SUFFICES ASSUME LeaseInv, HoldersKnowTheirJob, PendingInv,
                    NEW d \in Docs, d \notin PdfDocs, d \notin raced,
                    NEW v \in Workers, NEW w \in Workers,
                    WorksOn(v, d), WorksOn(w, d)
             PROVE  v = w
  BY DEF OneRunUnlessRaced, OneRunOn
<1> DEFINE j == worker[v].job
           k == worker[w].job
<1>1. j \in Jobs /\ k \in Jobs /\ Holds(v, j) /\ Holds(w, k)
  BY HolderOfWork
<1>2. jobs[j].doc = d /\ jobs[k].doc = d /\ jobs[j].type = "URL" /\ jobs[k].type = "URL"
  <2>1. jobs[j] \in Row /\ jobs[k] \in Row
    BY <1>1 DEF LeaseInv, QueueTypeOK
  <2> QED BY <1>1, <2>1 DEF HoldersKnowTheirJob, WorksOn, Row
<1>3. Pending(j) /\ Pending(k)
  BY <1>1 DEF LeaseInv, HoldersAreCurrent, Pending
<1>4. j = k
  BY <1>1, <1>2, <1>3 DEF PendingInv, OnePendingUnlessRaced, OnePendingRow
<1> QED BY <1>1, <1>4 DEF LeaseInv, OneWorkerPerJob

\* The look-up before the insert and the guarded claim together keep a page to
\* one run, however many requests and PDFs there are, unless two requests
\* looked the page up before either had inserted its row.
THEOREM PagesHaveOneRun ==
  ASSUME ~RunsOutliveLease
  PROVE  Spec => []OneRunUnlessRaced
<1> DEFINE Inv == IngestInv /\ PendingInv
<1>1. Init => Inv
  BY IngestInvInit, PendingInit DEF Init
<1>2. Inv /\ [Next]_vars => Inv'
  BY IngestInvStep, QueueSteps, PendingStep DEF IngestInv
<1>3. Inv => OneRunUnlessRaced
  BY OneRun DEF IngestInv
<1> HIDE DEF Inv
<1> QED
  BY <1>1, <1>2, <1>3, PTL DEF Spec

-----------------------------------------------------------------------------
(* Only PDF jobs yield *)

\* A cursor is set by the outcome of a tick that yields, or with its row.
LEMMA CursorSteps ==
  ASSUME LeaseInv, [QueueNext]_queueVars, NEW j \in Jobs
  PROVE  \/ jobs'[j].progress \in {0, jobs[j].progress}
         \/ \E w \in Workers : /\ worker[w].pc = "finalize" /\ worker[w].job = j
                               /\ worker[w].out.status = "progress"
<1> DEFINE Goal == \/ jobs'[j].progress \in {0, jobs[j].progress}
                   \/ \E w \in Workers : /\ worker[w].pc = "finalize" /\ worker[w].job = j
                                         /\ worker[w].out.status = "progress"
<1> SUFFICES Goal
  OBVIOUS
<1>0. QueueTypeOK /\ jobs[j] \in Row
  BY DEF LeaseInv, QueueTypeOK
<1>a. ASSUME jobs'[j] = jobs[j] PROVE Goal
  BY <1>a
<1>b. ASSUME NEW w \in Workers, WorkerStep(w) \/ StartTick(w) \/ Crash(w) PROVE Goal
  <2>1. CASE \/ StartTick(w) \/ PickOldest(w) \/ NothingToPick(w) \/ LoseJob(w)
             \/ \E out \in Outcome : ReturnFromRun(w, out)
             \/ Settle(w) \/ StopTick(w) \/ Crash(w)
    BY <1>0, <1>a, <2>1, StartEffect, PickEffect, ReturnEffect, RestEffect, CrashEffect
  <2>2. CASE RequeueExpired(w)
    BY <1>0, <2>2, RequeueEffect, RequeuedRow
  <2>3. CASE FailExhausted(w)
    BY <1>0, <2>3, ExhaustEffect, ExhaustedRow
  <2>4. CASE TakeJob(w)
    BY <1>0, <2>4, TakeEffect, TakenRow
  <2>5. CASE FinalizeJob(w)
    BY <1>0, <2>5, FinalizeEffect, FinalizedRow
  <2>6. CASE PruneOldJobs(w)
    <3>1. NoRow.progress = 0
      BY DEF NoRow
    <3> QED BY <1>0, <2>6, <3>1, PruneEffect
  <2> QED BY <1>b, <2>1, <2>2, <2>3, <2>4, <2>5, <2>6 DEF WorkerStep
<1>c. CASE RequestStep
  BY <1>0, <1>c, RequestEffect
<1>d. ASSUME NEW i \in Jobs, LeaseExpires(i) PROVE Goal
  BY <1>0, <1>d, LeaseEffect
<1> QED
  BY <1>a, <1>b, <1>c, <1>d DEF QueueNext, queueVars

\* A tick moves only itself, and gets an outcome only from its run.
LEMMA TickMoves ==
  ASSUME IngestInv, NEW w \in Workers, Ticks(w)
  PROVE  /\ OthersStay(w)
         /\ worker'[w] = worker[w] \/ Report(w) \/ worker'[w].pc # "finalize"
<1>0. QueueTypeOK /\ PipelineTypeOK
  BY DEF IngestInv, LeaseInv
<1>1. CASE Queue(QuietStep(w)) \/ SettleDocument(w)
  <2>1. OthersStay(w)
    BY <1>0, <1>1, QuietEffect DEF Queue, SettleDocument
  <2>2. worker'[w].pc # "finalize"
    BY <1>0, <1>1, StartEffect, RequeueEffect, ExhaustEffect, PickEffect, FinalizeEffect,
       RestEffect, PruneEffect DEF Queue, QuietStep, SettleDocument
  <2> QED BY <2>1, <2>2
<1>2. CASE Claim(w)
  BY <1>0, <1>2, ClaimEffect, TakeEffect
<1>3. CASE RunJob(w) \/ LosePurge(w)
  BY <1>3 DEF RunJob, LosePurge, queueVars, OthersStay
<1>4. CASE Report(w)
  BY <1>0, <1>4, ReportEffect
<1>5. CASE CrashWorker(w)
  BY <1>0, <1>5, CrashWorkerEffect
<1> QED BY <1>1, <1>2, <1>3, <1>4, <1>5 DEF Ticks, Queue, QuietStep

LEMMA YieldStep ==
  ASSUME ~RunsOutliveLease, IngestInv, OnlyPdfsYield, [Next]_vars
  PROVE  OnlyPdfsYield'
<1>0. /\ LeaseInv /\ QueueTypeOK /\ PipelineTypeOK /\ [QueueNext]_queueVars
      /\ \A v \in Workers : RunOK(v)
  BY QueueSteps DEF IngestInv, LeaseInv
<1>1. ASSUME NEW j \in Jobs, jobs'[j].progress > 0 PROVE jobs'[j].type = "PDF"
  <2>0. NoRow.progress = 0
    BY DEF NoRow
  <2>1. jobs'[j].progress \in {0, jobs[j].progress} => jobs[j].type = "PDF"
    BY <1>1 DEF OnlyPdfsYield
  <2>2. ASSUME NEW w \in Workers, worker[w].pc = "finalize", worker[w].job = j,
               worker[w].out.status = "progress"
        PROVE  jobs[j].type = "PDF"
    BY <2>2 DEF OnlyPdfsYield
  <2>3. jobs[j].type = "PDF"
    BY <1>0, <2>1, <2>2, CursorSteps
  <2>4. CASE RequestStep
    BY <1>0, <1>1, <2>3, <2>4, RequestEffect
  <2>5. CASE \/ \E v \in Workers : StartTick(v) \/ WorkerStep(v) \/ Crash(v)
             \/ \E i \in Jobs : LeaseExpires(i)
    BY <1>0, <1>1, <2>0, <2>3, <2>5, OtherStepsSameJob DEF SameJob
  <2>6. CASE UNCHANGED queueVars
    BY <2>3, <2>6 DEF queueVars
  <2> QED BY <1>0, <2>4, <2>5, <2>6 DEF QueueNext
<1>2. ASSUME NEW v \in Workers, worker'[v].pc = "finalize",
             worker'[v].out.status = "progress"
      PROVE  jobs'[worker'[v].job].type = "PDF"
  <2>1. CASE worker'[v] = worker[v]
    <3>1. PICK j \in Jobs : j = worker[v].job
      BY <1>0, <1>2, <2>1 DEF QueueTypeOK
    <3>2. Holds(v, j)'
      BY <1>2, <2>1, <3>1 DEF Holds
    <3>3. jobs'[j].type = jobs[j].type
      BY <1>0, <3>2, HeldIsSameJob
    <3> QED BY <1>2, <2>1, <3>1, <3>3 DEF OnlyPdfsYield
  <2>2. CASE Report(v)
    <3>1. /\ jobs' = jobs /\ run[v].pc = "return" /\ worker'[v].out = run[v].res
          /\ worker[v].pc = "run"
      BY <1>0, <2>2, ReportEffect
    <3>2. worker'[v].job = worker[v].job
      BY <1>0, <2>2, ReportMayReturn, ReturnEffect DEF Report
    <3> QED BY <1>0, <1>2, <3>1, <3>2 DEF RunOK
  <2>3. worker'[v] = worker[v] \/ Report(v)
    <3>1. CASE Requests
      <4>1. RequestStep
        BY <3>1 DEF Requests, RequestSync, RequestPage, Queue, RequestStep
      <4> QED BY <1>0, <4>1, RequestEffect
    <3>2. ASSUME NEW w \in Workers, Ticks(w)
          PROVE  worker'[v] = worker[v] \/ Report(v)
      BY <1>2, <3>2, TickMoves DEF OthersStay
    <3>3. ASSUME NEW j \in Jobs, Queue(LeaseExpires(j)) PROVE worker'[v] = worker[v]
      BY <3>3 DEF Queue, LeaseExpires
    <3>4. ASSUME NEW d \in Docs, Pipeline(DeleteDocument(d)) PROVE worker'[v] = worker[v]
      BY <3>4 DEF Pipeline, queueVars
    <3>5. ASSUME NEW d \in Docs, NEW id \in 1..MaxDocIds, Pipeline(InvalidateDeleted(d, id))
          PROVE  worker'[v] = worker[v]
      BY <3>5 DEF Pipeline, queueVars
    <3>6. CASE UNCHANGED vars
      BY <3>6 DEF vars, queueVars
    <3> QED BY <3>1, <3>2, <3>3, <3>4, <3>5, <3>6 DEF Next
  <2> QED BY <2>1, <2>2, <2>3
<1> QED BY <1>1, <1>2 DEF OnlyPdfsYield

-----------------------------------------------------------------------------
(* A step that leaves a document and whoever is on it alone *)

\* The step takes nothing back that a tick on d relies on.
Weaker(d) ==
  /\ Tidy(d) => Tidy(d)'
  /\ Good(d) => Good(d)'
  /\ \A n : Opened(d, n) => Opened(d, n)'
  /\ mixed[d] => mixed'[d]
  /\ doc'[d].here => /\ doc[d].here /\ doc'[d].id = doc[d].id
                     /\ doc'[d].hash = doc[d].hash
                     /\ Whole(d) => Whole(d)'

LEMMA SameIsWeaker ==
  ASSUME NEW d \in Docs, doc'[d] = doc[d], stored'[d] = stored[d],
         stale'[d] \subseteq stale[d], mixed[d] => mixed'[d], unpurged[d] => unpurged'[d]
  PROVE  Weaker(d)
<1>1. (Whole(d) => Whole(d)') /\ (Fresh(d) => Fresh(d)')
  BY DEF Whole, Fresh
<1>2. Complete(d) => Complete(d)'
  BY <1>1 DEF Complete
<1>3. \A n : Prefix(d, n)' <=> Prefix(d, n)
  BY DEF Prefix, OneBlockAt, NoBlockAt
<1>4. \A t, n : Filled(d, t, n)' <=> Filled(d, t, n)
  BY DEF Filled
<1>5. ASSUME NEW n, Opened(d, n) PROVE Opened(d, n)'
  <2>1. Filled(d, doc[d].hash, n) => \A u \in Texts, b \in 1..MaxBlocks :
          stored'[d][u][b] = IF u = doc'[d].hash /\ b <= n THEN 1 ELSE 0
    BY DEF Filled
  <2> QED BY <1>3, <1>5, <2>1 DEF Opened, Filled
<1> QED BY <1>1, <1>2, <1>5 DEF Weaker, Tidy, Good

LEMMA StillWorkOK ==
  ASSUME NEW d, Weaker(d), NEW v \in Workers, worker'[v] = worker[v], run'[v] = run[v],
         WorkOK(v, d)
  PROVE  WorkOK(v, d)'
<1> DEFINE r == run[v]
<1>1. \A n : StartsFrom(d, n) => StartsFrom(d, n)'
  BY DEF Weaker, StartsFrom
<1>2. \A out : EndsWith(d, out) => EndsWith(d, out)'
  BY DEF Weaker, EndsWith
<1>3. r.pc \in {"fetch", "read"} => StartsFrom(d, run[v].from)'
  <2>1. \A n : n = r.from /\ r.pc \in {"fetch", "read"} => StartsFrom(d, n)'
    BY <1>1 DEF WorkOK
  <2> QED BY <2>1 DEF StartsFrom, Tidy, Opened, Filled, Prefix
<1>4. /\ r.pc = "return" => EndsWith(d, run[v].res)'
      /\ worker[v].pc \in {"finalize", "settle"} => EndsWith(d, worker[v].out)'
  <2>1. \A out : out = r.res /\ r.pc = "return" => EndsWith(d, out)'
    BY <1>2 DEF WorkOK
  <2>2. \A out : out = worker[v].out /\ worker[v].pc \in {"finalize", "settle"}
          => EndsWith(d, out)'
    BY <1>2 DEF WorkOK
  <2> QED BY <2>1, <2>2 DEF EndsWith, Tidy, Good, Opened, Filled, Prefix
<1>5. r.pc = "block" /\ doc'[d].here =>
        r.count = r.i /\ Opened(d, run[v].i)' /\ (mixed'[d] \/ doc'[d].hash = r.text)
  <2>1. r.pc = "block" /\ doc'[d].here => \A n : n = r.i => Opened(d, n)'
    BY DEF WorkOK, Weaker
  <2>2. r.pc = "block" /\ doc'[d].here =>
          r.count = r.i /\ (mixed'[d] \/ doc'[d].hash = r.text)
    BY DEF WorkOK, Weaker
  <2> QED BY <2>1, <2>2 DEF Opened, Filled, Prefix
<1>6. /\ r.pc \in {"skip", "sync"} => Good(d)'
      /\ r.pc \in {"block", "rollback", "mark", "invalidate", "sync"} => Mine(v, d)'
      /\ r.pc = "invalidate" /\ doc'[d].here => mixed'[d] \/ Whole(d)'
      /\ worker[v].pc = "settle" => worker[v].out.status \in {"done", "failed"}
  BY DEF WorkOK, Weaker, Mine
<1> QED BY <1>3, <1>4, <1>5, <1>6 DEF WorkOK

\* A job that has begun d stays as it is, and no other begins it.
RowStays(j, d) ==
  /\ Works(j, d)' <=> Works(j, d)
  /\ Works(j, d) => jobs'[j].status = jobs[j].status /\ jobs'[j].progress = jobs[j].progress

LEMMA SameRowStays ==
  ASSUME NEW d, NEW j \in Jobs, jobs'[j] = jobs[j]
  PROVE  RowStays(j, d)
BY DEF RowStays, Works, Begun

LEMMA HolderWorks ==
  ASSUME IngestInv, NEW w \in Workers, NEW j \in Jobs, Holds(w, j)
  PROVE  /\ jobs[j].status = "RUNNING" /\ jobs[j].lease = "fresh"
         /\ Works(j, worker[w].doc) /\ Busy(w, worker[w].doc)
         /\ worker[w].doc = jobs[j].doc
BY DEF IngestInv, LeaseInv, HoldersAreCurrent, HoldersKnowTheirJob, Holds, Works, Begun, Busy

LEMMA DocFrame ==
  ASSUME IngestInv, NEW d \in Docs, DocOK(d), Weaker(d), \A j \in Jobs : RowStays(j, d),
         \A v \in Workers :
           \/ worker'[v] = worker[v] /\ run'[v] = run[v]
           \/ ~Busy(v, d) /\ ~Busy(v, d)'
  PROVE  DocOK(d)'
<1>1. \A v \in Workers :
        /\ Busy(v, d)' <=> Busy(v, d)
        /\ Busy(v, d) => worker'[v] = worker[v] /\ run'[v] = run[v]
  BY DEF Busy
<1>2. \A j \in Jobs : Works(j, d)' <=> Works(j, d)
  BY DEF RowStays
<1>3. ASSUME NEW j \in Jobs, Works(j, d)', jobs'[j].status = "RUNNING"
      PROVE  Held(j)'
  <2>1. Works(j, d) /\ jobs[j].status = "RUNNING"
    BY <1>3 DEF RowStays
  <2>2. PICK v \in Workers : Holds(v, j)
    BY <2>1 DEF DocOK, Alone, Held
  <2>3. Busy(v, d)
    BY <2>1, <2>2, HolderWorks DEF Works
  <2>4. Holds(v, j)'
    BY <1>1, <2>2, <2>3 DEF Holds
  <2> QED BY <2>4 DEF Held
<1>4. Unsettled(d)' => Unsettled(d)
  BY <1>1 DEF Unsettled, Busy
<1>5. Alone(d)'
  BY <1>1, <1>2, <1>3, <1>4 DEF DocOK, Alone
<1>6. ASSUME NEW v \in Workers, Busy(v, d)' PROVE WorkOK(v, d)'
  BY <1>1, <1>6, StillWorkOK DEF DocOK
<1>7. ASSUME NEW j \in Jobs, Works(j, d)', jobs'[j].status = "QUEUED"
      PROVE  Opened(d, jobs[j].progress)'
  <2>1. Works(j, d) /\ jobs[j].status = "QUEUED" /\ jobs'[j].progress = jobs[j].progress
    BY <1>7 DEF RowStays
  <2>2. \A n : n = jobs[j].progress => Opened(d, n)'
    BY <2>1 DEF DocOK, Weaker
  <2> QED BY <2>1, <2>2 DEF Opened, Filled, Prefix
<1>8. (\A v \in Workers : ~Busy(v, d)') /\ (\A j \in Jobs : ~Works(j, d)') => Tidy(d)'
  BY <1>1, <1>2 DEF DocOK, Weaker
<1> QED BY <1>5, <1>6, <1>7, <1>8 DEF DocOK

\* Document d is left alone by tick w, which is not busy on it before or after.
LEMMA DocElsewhere ==
  ASSUME IngestInv, NEW d \in Docs, NEW w \in Workers, DocOK(d), OthersStay(w),
         OthersRun(w), Weaker(d), \A j \in Jobs : RowStays(j, d),
         ~Busy(w, d), ~Busy(w, d)'
  PROVE  DocOK(d)'
<1>1. \A v \in Workers :
        \/ worker'[v] = worker[v] /\ run'[v] = run[v]
        \/ ~Busy(v, d) /\ ~Busy(v, d)'
  BY DEF OthersStay, OthersRun
<1> QED BY <1>1, DocFrame

-----------------------------------------------------------------------------
(* The tick that is on a document *)

\* The job of a busy tick is the only one that has begun the document.
LEMMA SoleWorker ==
  ASSUME IngestInv, NEW d \in Docs, Alone(d), NEW w \in Workers, Busy(w, d)
  PROVE  /\ worker[w].pc # "settle" =>
              /\ worker[w].job \in Jobs /\ Holds(w, worker[w].job)
              /\ jobs[worker[w].job].status = "RUNNING"
              /\ \A j \in Jobs : Works(j, d) <=> j = worker[w].job
         /\ worker[w].pc = "settle" => \A j \in Jobs : ~Works(j, d)
         /\ \A v \in Workers : v # w => ~Busy(v, d)
<1>1. ASSUME worker[w].pc # "settle"
      PROVE  /\ worker[w].job \in Jobs /\ Holds(w, worker[w].job)
             /\ jobs[worker[w].job].status = "RUNNING"
             /\ \A j \in Jobs : Works(j, d) <=> j = worker[w].job
  <2>1. worker[w].job \in Jobs /\ Holds(w, worker[w].job)
    BY <1>1, HolderOfWork DEF IngestInv, Busy, WorksOn
  <2>2. Works(worker[w].job, d) /\ jobs[worker[w].job].status = "RUNNING"
    BY <2>1, HolderWorks DEF Busy
  <2> QED BY <2>1, <2>2 DEF Alone
<1>2. worker[w].pc = "settle" => Unsettled(d)
  BY DEF Unsettled, Busy
<1> QED BY <1>1, <1>2 DEF Alone

\* Nobody else is on a document that job j does not cross.
LEMMA NobodyElse ==
  ASSUME IngestInv, NEW d \in Docs, NEW j \in Jobs, ~Crosses(d, j)
  PROVE  /\ \A k \in Jobs : Works(k, d) => k = j
         /\ ~Unsettled(d)
         /\ \A v \in Workers : Busy(v, d) => Holds(v, j)
<1>1. \A k \in Jobs : Works(k, d) => k = j
  BY DEF Crosses, Works
<1>2. ~Unsettled(d)
  BY DEF Crosses
<1>3. ASSUME NEW v \in Workers, Busy(v, d) PROVE Holds(v, j)
  <2>1. worker[v].pc # "settle"
    BY <1>2, <1>3 DEF Unsettled, Busy
  <2>2. worker[v].job \in Jobs /\ Holds(v, worker[v].job)
    BY <1>3, <2>1, HolderOfWork DEF IngestInv, Busy, WorksOn
  <2>3. Works(worker[v].job, d)
    BY <1>3, <2>2, HolderWorks DEF Busy
  <2> QED BY <1>1, <2>2, <2>3
<1> QED BY <1>1, <1>2, <1>3

LEMMA DocMoves ==
  ASSUME NEW d \in Docs, NEW w \in Workers, Alone(d)', Busy(w, d)', WorkOK(w, d)',
         \A j \in Jobs : Works(j, d)' => jobs'[j].status # "QUEUED"
  PROVE  DocOK(d)'
BY DEF DocOK, Alone

\* Nobody is on document d any more and no job has begun it.
LEMMA DocFree ==
  ASSUME NEW d \in Docs, Tidy(d)', \A v \in Workers : ~Busy(v, d)',
         \A j \in Jobs : ~Works(j, d)'
  PROVE  DocOK(d)'
<1>1. ~Unsettled(d)'
  BY DEF Unsettled, Busy
<1>2. Alone(d)'
  BY <1>1 DEF Alone
<1> QED BY <1>2 DEF DocOK

LEMMA RunStepKeepsOthers ==
  ASSUME IngestInv, NEW w \in Workers, RunStep(w)
  PROVE  OthersKept(run[w].doc) /\ OthersRun(w)
<1>0. PipelineTypeOK /\ RunOK(w)
  BY DEF IngestInv
<1>1. UNCHANGED <<doc, stored, stale>> => OthersKept(run[w].doc)
  BY DEF OthersKept
<1>2. ASSUME NEW t \in Texts, FetchText(w, t)
      PROVE  OthersKept(run[w].doc) /\ OthersRun(w)
  BY <1>0, <1>1, <1>2, FetchEffect DEF Moves
<1>3. CASE FetchFails(w) \/ StoreFails(w) \/ EmbedFails(w)
  BY <1>0, <1>1, <1>3, FailEffect, RollbackEffect DEF Moves
<1>4. CASE ReadExisting(w)
  <2>1. run[w].text \in Texts
    BY <1>0, <1>4 DEF RunOK, ReadExisting, At
  <2>2. UNCHANGED <<doc, stored, stale>>
    BY <1>0, <1>4, <2>1, ReadEffect
  <2>3. OthersRun(w)
    BY <1>0, <1>4, <2>1, ReadEffect DEF Moves
  <2> QED BY <1>1, <2>2, <2>3
<1>5. CASE OpenDocument(w) \/ StoreBlock(w)
  <2>1. run[w].text \in Texts /\ (StoreBlock(w) => run[w].i < Blocks[run[w].text])
    BY <1>0, <1>5 DEF RunOK, OpenDocument, StoreBlock, At
  <2>2. CASE OpenDocument(w)
    BY <1>0, <2>1, <2>2, OpenEffect DEF Moves
  <2>3. CASE StoreBlock(w)
    BY <1>0, <2>1, <2>3, StoreEffect DEF Moves
  <2> QED BY <1>5, <2>2, <2>3
<1>6. CASE SkipUnchanged(w) \/ MarkSynced(w)
  BY <1>0, <1>6, SkipEffect, SyncEffect DEF Moves
<1>7. CASE RollbackChunks(w) \/ RollbackMark(w) \/ InvalidateAnswers(w)
  BY <1>0, <1>7, RollbackChunksEffect, RollbackMarkEffect, InvalidateEffect DEF Moves
<1> QED
  BY <1>2, <1>3, <1>4, <1>5, <1>6, <1>7 DEF RunStep

LEMMA RunIsOn ==
  ASSUME IngestInv, NEW w \in Workers, RunStep(w) \/ InvalidateFails(w)
  PROVE  /\ run[w].pc # "off" /\ worker[w].pc = "run" /\ run[w].doc = worker[w].doc
         /\ worker[w].doc \in Docs /\ worker[w].job \in Jobs
         /\ Holds(w, worker[w].job) /\ run[w] \in Run
         /\ run[w].from > 0 => worker[w].from > 0
<1>1. /\ RunOK(w) /\ run[w] \in Run /\ worker[w] \in Worker /\ LeaseInv /\ QueueTypeOK
  BY DEF IngestInv, PipelineTypeOK, LeaseInv, QueueTypeOK
<1>2. run[w].pc # "off"
  BY DEF RunStep, FetchText, FetchFails, ReadExisting, SkipUnchanged, OpenDocument,
         StoreBlock, StoreFails, EmbedFails, RollbackChunks, RollbackMark,
         InvalidateAnswers, InvalidateFails, MarkSynced, At
<1>3. worker[w].pc = "run" /\ run[w].doc = worker[w].doc /\ worker[w].doc \in Docs
  BY <1>1, <1>2 DEF RunOK, Worker
<1>4. worker[w].job \in Jobs
  BY <1>1, <1>3 DEF QueueTypeOK
<1>5. run[w].from > 0 => worker[w].from > 0
  BY <1>1, <1>2 DEF RunOK
<1> QED BY <1>1, <1>2, <1>3, <1>4, <1>5 DEF Holds

-----------------------------------------------------------------------------
(* A step of a run and the document it works on *)

\* The document keeps its blocks; only its status may change.
LEMMA SameBlocks ==
  ASSUME NEW d \in Docs, stored'[d] = stored[d], stale'[d] = stale[d],
         doc'[d].here = doc[d].here, doc'[d].id = doc[d].id,
         doc'[d].hash = doc[d].hash, doc'[d].count = doc[d].count,
         mixed[d] => mixed'[d], unpurged[d] => unpurged'[d]
  PROVE  /\ Whole(d) => Whole(d)'
         /\ Good(d) => Good(d)'
         /\ Good(d) => Tidy(d)'
<1>1. (Whole(d) => Whole(d)') /\ (Fresh(d) => Fresh(d)')
  BY DEF Whole, Fresh
<1>2. Complete(d) => Complete(d)'
  BY <1>1 DEF Complete
<1> QED BY <1>1, <1>2 DEF Good, Tidy

\* One more block, at the next place.
LEMMA PrefixGrows ==
  ASSUME PipelineTypeOK, NEW d \in Docs, NEW n \in Nat, NEW m, m = n + 1, NEW t \in Texts,
         Prefix(d, n),
         \A u \in Texts, c \in 1..MaxBlocks :
           stored'[d][u][c] = stored[d][u][c] + (IF u = t /\ c = m THEN 1 ELSE 0)
  PROVE  /\ Prefix(d, m)'
         /\ Filled(d, t, n) => Filled(d, t, m)'
<1>0. \A u \in Texts, c \in 1..MaxBlocks : stored[d][u][c] \in Nat
  <2>1. stored[d] \in [Texts -> [1..MaxBlocks -> Nat]]
    BY DEF PipelineTypeOK
  <2> QED BY <2>1
<1>1. ASSUME NEW c \in 1..MaxBlocks, c <= n PROVE OneBlockAt(d, c)'
  <2>1. c # m /\ OneBlockAt(d, c)
    BY <1>1 DEF Prefix
  <2>2. \A u \in Texts : stored'[d][u][c] = stored[d][u][c]
    BY <1>0, <2>1
  <2> QED BY <2>1, <2>2 DEF OneBlockAt
<1>2. ASSUME NEW c \in 1..MaxBlocks, ~(c <= n) PROVE \A u \in Texts : stored[d][u][c] = 0
  BY <1>2 DEF Prefix, NoBlockAt
<1>3. ASSUME NEW c \in 1..MaxBlocks, c = m PROVE OneBlockAt(d, c)'
  <2>1. \A u \in Texts : stored'[d][u][c] = IF u = t THEN 1 ELSE 0
    BY <1>0, <1>2, <1>3
  <2> QED BY <2>1 DEF OneBlockAt
<1>4. ASSUME NEW c \in 1..MaxBlocks, ~(c <= m) PROVE NoBlockAt(d, c)'
  <2>1. ~(c <= n) /\ c # m
    BY <1>4
  <2> QED BY <1>0, <1>2, <2>1 DEF NoBlockAt
<1>5. Prefix(d, m)'
  <2>1. \A c \in 1..MaxBlocks : c <= m => c <= n \/ c = m
    OBVIOUS
  <2> QED BY <1>1, <1>3, <1>4, <2>1 DEF Prefix
<1>6. ASSUME Filled(d, t, n) PROVE Filled(d, t, m)'
  <2> SUFFICES ASSUME NEW u \in Texts, NEW c \in 1..MaxBlocks
               PROVE  stored'[d][u][c] = IF u = t /\ c <= m THEN 1 ELSE 0
    BY DEF Filled
  <2>1. stored[d][u][c] = IF u = t /\ c <= n THEN 1 ELSE 0
    BY <1>6 DEF Filled
  <2> QED BY <2>1
<1> QED BY <1>5, <1>6

\* One step of a run keeps the document it works on in order, unless a resumed
\* run gives up.
LEMMA DocRunStep ==
  ASSUME IngestInv, NEW w \in Workers, RunJob(w), NEW d \in Docs, d = worker[w].doc,
         WorkOK(w, d) \/ run[w].pc = "open", ~GivesUp(w)
  PROVE  WorkOK(w, d)'
<1> DEFINE r == run[w]
           s == run'[w]
<1>0. /\ PipelineTypeOK /\ RunOK(w) /\ HistoryTypeOK /\ worker' = worker /\ RunStep(w)
      /\ worker'[w].pc = "run"
  BY RunIsOn DEF IngestInv, RunJob, queueVars
<1>b. /\ d = r.doc /\ r \in Run /\ r.from \in Nat
      /\ r.from > 0 => worker[w].from > 0
  BY <1>0, RunIsOn DEF Run
<1>c. /\ r.pc \notin {"off", "fetch", "return"} => r.text \in Texts
      /\ r.pc = "block" => r.i < Blocks[r.text]
      /\ r.pc = "open" => 0 < Blocks[r.text]
  BY <1>0 DEF RunOK
<1>d. s.pc = "return" /\ s.res.status \in {"failed", "threw"} => r.from = 0
  BY <1>b DEF GivesUp
<1>e. WorkOK(w, d) \/ r.pc = "open"
  OBVIOUS
<1>f. /\ r.pc # "open" => /\ mixed[d] \/ ResumesOtherText(w) => mixed'[d]
                          /\ unpurged'[d] = unpurged[d]
      /\ r.pc = "open" => ~mixed'[d] /\ ~unpurged'[d]
  BY <1>0 DEF RunJob, HistoryTypeOK, At
<1>g. UNCHANGED <<doc, stored, stale>> /\ r.pc # "open" => Weaker(d)
  BY <1>f, SameIsWeaker
<1>1. ASSUME NEW t \in Texts, FetchText(w, t) PROVE WorkOK(w, d)'
  <2>1. r.pc = "fetch" /\ Moves(w, "read") /\ UNCHANGED <<doc, stored, stale>>
    BY <1>0, <1>1, FetchEffect
  <2>2. StartsFrom(d, r.from) /\ s.from = r.from /\ Weaker(d)
    BY <1>e, <1>g, <2>1 DEF WorkOK, Moves
  <2>3. ASSUME NEW n, n = s.from PROVE StartsFrom(d, n)'
    BY <2>2, <2>3 DEF StartsFrom, Weaker
  <2>4. StartsFrom(d, run[w].from)'
    BY <2>3 DEF StartsFrom, Opened, Filled, Prefix
  <2> QED BY <1>0, <2>1, <2>4 DEF WorkOK, Moves
<1>2. CASE FetchFails(w) \/ StoreFails(w) \/ (EmbedFails(w) /\ r.from # 0)
  <2>1. /\ r.pc \in {"fetch", "block"} /\ Moves(w, "return")
        /\ UNCHANGED <<doc, stored, stale>> /\ s.res.status \in {"failed", "threw"}
        /\ r.pc = "block" => ~DocumentThere(r) \/ r.from # 0
    BY <1>0, <1>2, FailEffect
  <2>2. r.from = 0
    BY <1>d, <2>1 DEF Moves
  <2>3. Tidy(d)
    <3>1. CASE r.pc = "fetch"
      BY <1>e, <2>2, <3>1 DEF WorkOK, StartsFrom
    <3>2. CASE r.pc = "block"
      <4>1. ~doc[d].here
        BY <1>b, <1>e, <2>1, <2>2, <3>2 DEF WorkOK, Mine, DocumentThere
      <4> QED BY <4>1 DEF Tidy
    <3> QED BY <2>1, <3>1, <3>2
  <2>4. Tidy(d)'
    BY <1>g, <2>1, <2>3 DEF Weaker
  <2> QED BY <1>0, <2>1, <2>4 DEF WorkOK, Moves, EndsWith
<1>3. CASE EmbedFails(w) /\ r.from = 0
  <2>1. /\ r.pc = "block" /\ Moves(w, "rollback") /\ Keeps(w)
        /\ UNCHANGED <<doc, stored, stale>>
    BY <1>0, <1>3, RollbackEffect
  <2>2. Mine(w, d)'
    BY <1>e, <2>1 DEF WorkOK, Mine, Keeps
  <2> QED BY <1>0, <2>1, <2>2 DEF WorkOK, Moves
<1>4. CASE ReadExisting(w)
  <2>0. r.pc = "read" /\ r.text \in Texts
    BY <1>4, <1>c DEF ReadExisting, At
  <2>1. /\ UNCHANGED <<doc, stored, stale>>
        /\ \/ Unchanged(r, doc[d]) /\ Moves(w, "skip")
           \/ Moves(w, "return") /\ s.res.status \in {"failed", "threw"}
           \/ Moves(w, "open")
           \/ /\ Moves(w, "block") /\ s.text = r.text /\ s.id = doc[d].id
              /\ s.i = r.from /\ s.count = doc[d].count /\ r.from > 0
           \/ /\ Moves(w, "invalidate") /\ s.id = doc[d].id
              /\ r.from > 0 /\ r.from >= Blocks[r.text]
    BY <1>0, <1>4, <1>b, <2>0, ReadEffect
  <2>2. StartsFrom(d, r.from) /\ Weaker(d)
    BY <1>e, <1>g, <2>0, <2>1 DEF WorkOK
  <2>3. CASE Unchanged(r, doc[d]) /\ Moves(w, "skip")
    <3>1. Good(d)
      BY <2>2, <2>3 DEF Unchanged, StartsFrom, Good, Tidy
    <3> QED BY <1>0, <2>2, <2>3, <3>1 DEF WorkOK, Moves, Weaker
  <2>4. CASE Moves(w, "return") /\ s.res.status \in {"failed", "threw"}
    <3>1. Tidy(d)'
      BY <1>d, <2>2, <2>4 DEF StartsFrom, Moves, Weaker
    <3> QED BY <1>0, <2>4, <3>1 DEF WorkOK, Moves, EndsWith
  <2>5. CASE Moves(w, "open")
    BY <1>0, <2>5 DEF WorkOK, Moves
  <2>6. CASE /\ Moves(w, "block") /\ s.text = r.text /\ s.id = doc[d].id
             /\ s.i = r.from /\ s.count = doc[d].count /\ r.from > 0
    <3>1. Mine(w, d)'
      BY <2>1, <2>6 DEF Mine
    <3>2. Opened(d, r.from)
      BY <2>2, <2>6 DEF StartsFrom
    <3>3. ASSUME NEW n, n = s.i PROVE Opened(d, n)'
      BY <2>2, <2>6, <3>2, <3>3 DEF Weaker
    <3>4. Opened(d, run[w].i)'
      BY <3>3 DEF Opened, Filled, Prefix
    <3>5. mixed'[d] \/ doc'[d].hash = s.text
      BY <1>b, <1>f, <2>0, <2>1, <2>6 DEF ResumesOtherText, Resumes, At, Moves
    <3>6. doc'[d].here => s.count = s.i
      BY <2>1, <2>6, <3>2 DEF Opened
    <3> QED BY <1>0, <2>6, <3>1, <3>4, <3>5, <3>6 DEF WorkOK, Moves
  <2>7. CASE /\ Moves(w, "invalidate") /\ s.id = doc[d].id
             /\ r.from > 0 /\ r.from >= Blocks[r.text]
    <3>1. Opened(d, r.from) /\ Blocks[r.text] \in Nat
      BY <2>0, <2>2, <2>7, PipelineAssumption, QueueAssumption DEF StartsFrom
    <3>2. mixed[d] \/ r.text # doc[d].hash => mixed'[d]
      BY <1>b, <1>f, <2>0, <2>7 DEF ResumesOtherText, Resumes, At, Moves
    <3>3. doc[d].here => mixed'[d]
      BY <1>b, <2>7, <3>1, <3>2 DEF Opened
    <3>4. Mine(w, d)'
      BY <2>1, <2>7 DEF Mine
    <3> QED BY <1>0, <2>1, <2>7, <3>3, <3>4 DEF WorkOK, Moves
  <2> QED BY <2>1, <2>3, <2>4, <2>5, <2>6, <2>7
<1>5. CASE SkipUnchanged(w) \/ MarkSynced(w)
  <2>1. /\ r.pc \in {"skip", "sync"} /\ Moves(w, "return") /\ s.res.status = "done"
        /\ stored' = stored /\ stale' = stale
        /\ doc'[d].here = doc[d].here /\ doc'[d].id = doc[d].id
        /\ doc'[d].hash = doc[d].hash /\ doc'[d].count = doc[d].count
    BY <1>0, <1>5, <1>b, SkipEffect, SyncEffect
  <2>2. Good(d)
    BY <1>e, <2>1 DEF WorkOK
  <2>3. Good(d)' /\ Tidy(d)'
    BY <1>f, <2>1, <2>2, SameBlocks
  <2> QED BY <1>0, <2>1, <2>3 DEF WorkOK, Moves, EndsWith
<1>6. CASE OpenDocument(w)
  <2>0. r.pc = "open" /\ r.text \in Texts
    BY <1>6, <1>c DEF OpenDocument, At
  <2>1. /\ Moves(w, "block") /\ s.text = r.text
        /\ s.i = 0 /\ s.count = 0 /\ s.id = doc'[d].id /\ doc'[d].status = "INGESTING"
        /\ doc'[d].hash = r.text /\ doc'[d].count = 0 /\ stored'[d] = NoChunks
    BY <1>0, <1>6, <1>b, <2>0, OpenEffect
  <2>2. \A u \in Texts, b \in 1..MaxBlocks : stored'[d][u][b] = 0 /\ ~(b <= 0)
    BY <2>1, QueueAssumption DEF NoChunks
  <2>3. Mine(w, d)' /\ 0 < Blocks[r.text]
    BY <1>c, <2>0, <2>1 DEF Mine
  <2>4. ASSUME NEW n, n = 0 PROVE Opened(d, n)'
    <3>1. Prefix(d, n)'
      BY <2>2, <2>4 DEF Prefix, NoBlockAt
    <3>2. \A u \in Texts, b \in 1..MaxBlocks :
            stored'[d][u][b] = IF u = doc'[d].hash /\ b <= n THEN 1 ELSE 0
      BY <2>2, <2>4
    <3> QED BY <2>0, <2>1, <2>3, <2>4, <3>1, <3>2 DEF Opened, Filled
  <2>5. Opened(d, run[w].i)'
    BY <2>1, <2>4 DEF Opened, Filled, Prefix
  <2> QED BY <1>0, <2>1, <2>3, <2>5 DEF WorkOK, Moves
<1>7. CASE StoreBlock(w)
  <2>0. r.pc = "block" /\ r.text \in Texts /\ r.i < Blocks[r.text] /\ r.i \in Nat
    BY <1>7, <1>b, <1>c DEF StoreBlock, At, Run
  <2> DEFINE n == r.i + 1
             last == n = Blocks[r.text]
  <2>1. /\ DocumentThere(r)
        /\ \A u \in Texts, c \in 1..MaxBlocks :
             stored'[d][u][c] = stored[d][u][c] + (IF u = r.text /\ c = n THEN 1 ELSE 0)
        /\ doc'[d].here /\ doc'[d].id = r.id /\ doc'[d].hash = doc[d].hash
        /\ doc'[d].count = r.count + 1 /\ doc'[d].status = doc[d].status
        /\ \/ /\ Moves(w, IF last THEN "invalidate" ELSE "block")
              /\ s.text = r.text /\ s.id = r.id /\ s.i = n /\ s.count = r.count + 1
           \/ /\ ~last /\ Moves(w, "return")
              /\ s.res.status = "progress" /\ s.res.next = n
    BY <1>0, <1>7, <1>b, <2>0, StoreEffect
  <2>2. /\ r.count = r.i /\ Opened(d, r.i) /\ doc[d].here
        /\ mixed[d] \/ doc[d].hash = r.text
    BY <1>b, <1>e, <2>0, <2>1 DEF WorkOK, DocumentThere
  <2>3. /\ Prefix(d, r.i) /\ doc[d].status # "SYNCED"
        /\ mixed[d] \/ (Filled(d, r.text, r.i) /\ doc[d].hash = r.text)
    BY <2>2 DEF Opened
  <2>4. mixed[d] => mixed'[d]
    BY <1>f, <2>0
  <2>5. ASSUME NEW m, m = n
        PROVE  /\ Prefix(d, m)'
               /\ \/ mixed'[d]
                  \/ /\ doc'[d].hash = r.text
                     /\ \A u \in Texts, c \in 1..MaxBlocks :
                          stored'[d][u][c] = IF u = r.text /\ c <= m THEN 1 ELSE 0
    <3>1. ASSUME NEW t \in Texts, t = r.text, NEW i \in Nat, i = r.i
          PROVE  Prefix(d, m)' /\ (Filled(d, t, i) => Filled(d, t, m)')
      BY <1>0, <2>1, <2>3, <2>5, <3>1, PrefixGrows
    <3>2. Prefix(d, m)' /\ (Filled(d, r.text, r.i) =>
             \A u \in Texts, c \in 1..MaxBlocks :
               stored'[d][u][c] = IF u = r.text /\ c <= m THEN 1 ELSE 0)
      BY <2>0, <3>1 DEF Filled
    <3> QED BY <2>1, <2>3, <2>4, <3>2
  <2>6. ASSUME NEW m, m = n PROVE ~last => Opened(d, m)'
    <3>1. ~last => n < Blocks[r.text]
      BY <2>0, PipelineAssumption, QueueAssumption
    <3>2. Prefix(d, m)' /\ doc'[d].count = m /\ doc'[d].status # "SYNCED"
      BY <2>1, <2>2, <2>3, <2>5, <2>6
    <3>3. doc'[d].hash = r.text =>
            doc'[d].hash \in Texts /\ (~last => m < Blocks[doc'[d].hash])
      BY <2>0, <2>6, <3>1
    <3>4. CASE mixed'[d]
      BY <3>2, <3>4 DEF Opened
    <3>5. CASE ~mixed'[d]
      <4>1. doc'[d].hash = r.text /\ \A u \in Texts, c \in 1..MaxBlocks :
              stored'[d][u][c] = IF u = doc'[d].hash /\ c <= m THEN 1 ELSE 0
        BY <2>5, <2>6, <3>5
      <4> QED BY <3>2, <3>3, <4>1 DEF Opened, Filled
    <3> QED BY <3>4, <3>5
  <2>7. CASE last /\ Moves(w, "invalidate") /\ s.id = r.id
    <3>1. mixed'[d] \/ Whole(d)'
      BY <2>0, <2>1, <2>2, <2>5, <2>7 DEF Whole
    <3>2. Mine(w, d)'
      BY <2>1, <2>7 DEF Mine
    <3> QED BY <1>0, <2>7, <3>1, <3>2 DEF WorkOK, Moves
  <2>8. CASE /\ ~last /\ Moves(w, "block")
             /\ s.text = r.text /\ s.id = r.id /\ s.i = n /\ s.count = r.count + 1
    <3>1. Mine(w, d)'
      BY <2>1, <2>8 DEF Mine
    <3>2. (mixed'[d] \/ doc'[d].hash = s.text) /\ s.count = s.i
      BY <2>1, <2>2, <2>4, <2>8
    <3>3. Opened(d, run[w].i)'
      BY <2>6, <2>8 DEF Opened, Filled, Prefix
    <3> QED BY <1>0, <2>8, <3>1, <3>2, <3>3 DEF WorkOK, Moves
  <2>9. CASE ~last /\ Moves(w, "return") /\ s.res.status = "progress" /\ s.res.next = n
    <3>1. Opened(d, run[w].res.next)'
      BY <2>6, <2>9 DEF Opened, Filled, Prefix
    <3> QED BY <1>0, <2>9, <3>1 DEF WorkOK, Moves, EndsWith
  <2> QED BY <2>1, <2>7, <2>8, <2>9
<1>8. CASE RollbackChunks(w)
  <2>1. r.pc = "rollback" /\ Moves(w, "mark") /\ Keeps(w) /\ doc' = doc
    BY <1>0, <1>8, RollbackChunksEffect
  <2>2. Mine(w, d)'
    BY <1>e, <2>1 DEF WorkOK, Mine, Keeps
  <2> QED BY <1>0, <2>1, <2>2 DEF WorkOK, Moves
<1>9. CASE RollbackMark(w)
  <2>1. /\ r.pc = "mark" /\ Moves(w, "return")
        /\ s.res.status = "failed" /\ doc'[d].here = doc[d].here
        /\ DocumentThere(r) => doc'[d].count = 0 /\ doc'[d].status = "FAILED"
    BY <1>0, <1>9, <1>b, RollbackMarkEffect
  <2>2. doc[d].here => DocumentThere(r)
    BY <1>b, <1>e, <2>1 DEF WorkOK, Mine, DocumentThere
  <2>3. Tidy(d)'
    BY <2>1, <2>2 DEF Tidy
  <2> QED BY <1>0, <2>1, <2>3 DEF WorkOK, Moves, EndsWith
<1>10. CASE InvalidateAnswers(w)
  <2>1. /\ r.pc = "invalidate" /\ Moves(w, "sync") /\ Keeps(w) /\ doc' = doc
        /\ stored' = stored /\ stale'[d] = stale[d] \ {r.id}
    BY <1>0, <1>10, <1>b, InvalidateEffect
  <2>2. Mine(w, d) /\ (doc[d].here => mixed[d] \/ Whole(d))
    BY <1>e, <2>1 DEF WorkOK
  <2>3. Mine(w, d)' /\ Good(d)'
    <3>1. Mine(w, d)'
      BY <2>1, <2>2 DEF Mine, Keeps
    <3>2. doc[d].here => mixed'[d] \/ Whole(d)'
      BY <1>f, <2>1, <2>2 DEF Whole
    <3>3. doc[d].here => Fresh(d)'
      BY <2>1, <2>2 DEF Mine, Fresh
    <3> QED BY <2>1, <3>1, <3>2, <3>3 DEF Good, Complete
  <2> QED BY <1>0, <2>1, <2>3 DEF WorkOK, Moves
<1> QED
  BY <1>0, <1>1, <1>2, <1>3, <1>4, <1>5, <1>6, <1>7, <1>8, <1>9, <1>10 DEF RunStep

\* A purge that fails leaves the cached answers of the document there.
LEMMA DocPurgeLost ==
  ASSUME IngestInv, NEW w \in Workers, LosePurge(w), NEW d \in Docs, d = worker[w].doc,
         WorkOK(w, d)
  PROVE  WorkOK(w, d)'
<1> DEFINE r == run[w]
<1>0. PipelineTypeOK /\ HistoryTypeOK /\ worker' = worker /\ worker'[w].pc = "run"
  BY RunIsOn DEF IngestInv, LosePurge, queueVars
<1>1. /\ doc' = doc /\ stored' = stored /\ r.pc = "invalidate"
      /\ Moves(w, "sync") /\ Keeps(w)
  BY <1>0, PurgeLostEffect DEF LosePurge
<1>2. Mine(w, d) /\ (doc[d].here => mixed[d] \/ Whole(d))
  BY <1>1 DEF WorkOK
<1>3. Mine(w, d)'
  BY <1>1, <1>2 DEF Mine, Keeps
<1>4. mixed' = mixed /\ unpurged'[d]
  BY <1>0 DEF LosePurge, HistoryTypeOK
<1>5. Good(d)'
  <2>1. Whole(d) => Whole(d)'
    BY <1>1 DEF Whole
  <2> QED BY <1>1, <1>2, <1>4, <2>1 DEF Good, Complete
<1> QED BY <1>0, <1>1, <1>3, <1>5 DEF WorkOK, Moves

\* Where a tick is alone on a document.
LEMMA AloneOn ==
  ASSUME IngestInv, NEW d \in Docs, NEW w \in Workers, NEW j \in Jobs, Holds(w, j),
         ~Crosses(d, j)
  PROVE  Alone(d)
<1>1. \A k \in Jobs : Works(k, d) => k = j
  BY NobodyElse
<1>2. ASSUME NEW v \in Workers, Busy(v, d) PROVE v = w
  BY <1>2, NobodyElse DEF IngestInv, LeaseInv, OneWorkerPerJob
<1>3. ~Unsettled(d) /\ Held(j)
  BY NobodyElse DEF Held
<1> QED BY <1>1, <1>2, <1>3 DEF Alone

\* The step leaves every document but that of tick w alone.
LEMMA OtherDocs ==
  ASSUME IngestInv, NEW w \in Workers, OthersStay(w), OthersRun(w),
         NEW own \in Docs, NEW d \in Docs, d # own, DocOK(d), OthersKept(own),
         mixed'[d] = mixed[d], unpurged'[d] = unpurged[d],
         worker[w].doc # d \/ ~Busy(w, d), worker'[w].doc # d \/ ~Busy(w, d)',
         \A j \in Jobs : RowStays(j, d)
  PROVE  DocOK(d)'
<1>1. Weaker(d)
  BY SameIsWeaker DEF OthersKept
<1>2. ~Busy(w, d) /\ ~Busy(w, d)'
  BY DEF Busy
<1> QED BY <1>1, <1>2, DocElsewhere

LEMMA DocWorked ==
  ASSUME IngestInv, DocsInv, NEW w \in Workers, RunJob(w) \/ LosePurge(w)
  PROVE  DocsInv'
<1> DEFINE own == worker[w].doc
           i == worker[w].job
<1>0. /\ RunStep(w) \/ InvalidateFails(w)
      /\ worker' = worker /\ jobs' = jobs /\ PipelineTypeOK /\ HistoryTypeOK
  BY DEF IngestInv, RunJob, LosePurge, queueVars
<1>1. /\ worker[w].pc = "run" /\ run[w].doc = own /\ own \in Docs
      /\ i \in Jobs /\ Holds(w, i)
  BY <1>0, RunIsOn
<1>2. OthersKept(own) /\ OthersRun(w) /\ OthersStay(w)
  <2>1. CASE RunJob(w)
    BY <1>0, <1>1, <2>1, RunStepKeepsOthers DEF RunJob, OthersStay
  <2>2. CASE LosePurge(w)
    BY <1>0, <2>2, PurgeLostEffect DEF LosePurge, OthersKept, OthersStay, Moves
  <2> QED BY <2>1, <2>2
<1>3. ASSUME NEW d \in Docs, d # own, ~cut'[d] PROVE DocOK(d)'
  <2>1. ~cut[d] /\ mixed'[d] = mixed[d] /\ unpurged'[d] = unpurged[d]
    BY <1>0, <1>1, <1>3 DEF RunJob, LosePurge, HistoryTypeOK
  <2>2. DocOK(d)
    BY <2>1 DEF DocsInv
  <2>3. \A j \in Jobs : RowStays(j, d)
    BY <1>0, SameRowStays
  <2> QED BY <1>0, <1>1, <1>2, <1>3, <2>1, <2>2, <2>3, OtherDocs DEF Busy
<1>4. ASSUME NEW d \in Docs, d = own, Alone(d), WorkOK(w, d)' PROVE DocOK(d)'
  <2>1. Busy(w, d) /\ Busy(w, d)'
    BY <1>0, <1>1, <1>4 DEF Busy
  <2>2. Alone(d)'
    BY <1>0, <1>4 DEF Alone, Works, Begun, Busy, Held, Holds, Unsettled
  <2>3. \A j \in Jobs : Works(j, d)' => jobs'[j].status # "QUEUED"
    <3>1. \A j \in Jobs : Works(j, d) => jobs[j].status # "QUEUED"
      BY <1>1, <1>4, <2>1, SoleWorker
    <3> QED BY <1>0, <3>1 DEF Works, Begun
  <2> QED BY <1>0, <1>4, <2>1, <2>2, <2>3, DocMoves
<1>5. CASE LosePurge(w)
  <2>1. ASSUME NEW d \in Docs, d = own, ~cut'[d] PROVE DocOK(d)'
    <3>1. DocOK(d)
      BY <1>5, <2>1 DEF LosePurge, DocsInv
    <3>2. Alone(d) /\ WorkOK(w, d)
      BY <1>1, <2>1, <3>1 DEF DocOK, Busy
    <3> QED BY <1>4, <1>5, <2>1, <3>2, DocPurgeLost
  <2> QED BY <1>0, <1>3, <2>1 DEF DocsInv
<1>6. CASE RunJob(w)
  <2>1. ASSUME NEW d \in Docs, d = own, ~cut'[d] PROVE DocOK(d)'
    <3>1. CASE run[w].pc = "open"
      <4>1. ~cut[d] \/ ~Crosses(d, i)
        BY <1>0, <1>1, <1>6, <2>1, <3>1 DEF RunJob, HistoryTypeOK, At
      <4>2. Alone(d)
        <5>1. CASE ~cut[d]
          BY <1>1, <5>1 DEF DocsInv, DocOK
        <5> QED BY <1>1, <4>1, <5>1, AloneOn
      <4>3. ~GivesUp(w)
        <5>1. OpenDocument(w)
          BY <1>6, <3>1 DEF RunJob, RunStep, FetchText, FetchFails, ReadExisting,
             SkipUnchanged, StoreBlock, StoreFails, EmbedFails, RollbackChunks,
             RollbackMark, InvalidateAnswers, MarkSynced, At
        <5>2. run'[w].pc = "block"
          BY <1>0, <5>1 DEF OpenDocument, PipelineTypeOK, Run
        <5> QED BY <5>2 DEF GivesUp
      <4>4. WorkOK(w, d)'
        BY <1>6, <2>1, <3>1, <4>3, DocRunStep
      <4> QED BY <1>4, <2>1, <4>2, <4>4
    <3>2. CASE run[w].pc # "open"
      <4>1. ~cut[d] /\ ~GivesUp(w)
        BY <1>0, <1>1, <1>6, <2>1, <3>2 DEF RunJob, HistoryTypeOK, At
      <4>2. Alone(d) /\ WorkOK(w, d)
        BY <1>1, <2>1, <4>1 DEF DocsInv, DocOK, Busy
      <4>3. WorkOK(w, d)'
        BY <1>6, <2>1, <4>1, <4>2, DocRunStep
      <4> QED BY <1>4, <2>1, <4>2, <4>3
    <3> QED BY <3>1, <3>2
  <2> QED BY <1>0, <1>3, <2>1 DEF DocsInv
<1> QED BY <1>5, <1>6

LEMMA DocClaimed ==
  ASSUME IngestInv, OnlyPdfsYield, DocsInv, NEW w \in Workers, Claim(w)
  PROVE  DocsInv'
<1>0. QueueTypeOK /\ PipelineTypeOK /\ HistoryTypeOK
  BY DEF IngestInv, LeaseInv
<1>a. PICK i \in Jobs : i = worker[w].job
  BY <1>0, ClaimEffect
<1> DEFINE row == jobs[i]
           own == row.doc
<1>1. /\ UNCHANGED <<doc, stored, stale>> /\ OthersRun(w) /\ row \in Row
      /\ run'[w].pc = "fetch" /\ run'[w].from = (IF row.type = "PDF" THEN row.progress ELSE 0)
  BY <1>0, <1>a, ClaimEffect
<1>2. /\ OthersStay(w) /\ worker[w].pc = "take" /\ row.status = "QUEUED"
      /\ jobs'[i] = Taken(row) /\ \A k \in Jobs : k # i => jobs'[k] = jobs[k]
      /\ worker'[w].pc = "run" /\ worker'[w].job = i /\ worker'[w].doc = own
  BY <1>0, <1>a, TakeEffect DEF Claim
<1>3. own \in Docs /\ row.progress \in Nat /\ jobs'[i].doc = own /\ jobs'[i].status = "RUNNING"
  BY <1>1, <1>2, TakenRow DEF Row
<1>4. mixed' = mixed /\ unpurged' = unpurged
  BY DEF Claim
<1>5. ASSUME NEW d \in Docs, d # own, ~cut'[d] PROVE DocOK(d)'
  <2>1. DocOK(d)
    BY <1>0, <1>a, <1>3, <1>5 DEF Claim, HistoryTypeOK, DocsInv
  <2>2. \A j \in Jobs : RowStays(j, d)
    BY <1>2, <1>3, <1>5, SameRowStays DEF RowStays, Works
  <2>3. OthersKept(own)
    BY <1>1 DEF OthersKept
  <2>4. ~Busy(w, d) /\ ~Busy(w, d)'
    BY <1>2, <1>5 DEF Busy
  <2> QED BY <1>1, <1>2, <1>3, <1>4, <1>5, <2>1, <2>2, <2>3, <2>4, OtherDocs
<1>6. ASSUME NEW d \in Docs, d = own, ~cut'[d] PROVE DocOK(d)'
  <2>1. ~cut[d] /\ ~Crosses(d, i)
    BY <1>0, <1>a, <1>3, <1>6 DEF Claim, HistoryTypeOK, JobOf
  <2>2. DocOK(d)
    BY <2>1 DEF DocsInv
  <2>3. \A k \in Jobs : Works(k, d) => k = i
    BY <1>1, <2>1, NobodyElse
  <2>4. \A v \in Workers : ~Busy(v, d)
    <3>1. \A v \in Workers : ~Holds(v, i)
      BY <1>1, <1>2, HolderWorks
    <3> QED BY <1>1, <2>1, <3>1, NobodyElse
  <2>5. \A v \in Workers : Busy(v, d)' <=> v = w
    BY <1>2, <1>6, <2>4 DEF Busy, OthersStay
  <2>6. Holds(w, i)' /\ ~Unsettled(d)'
    BY <1>1, <1>2, <2>4 DEF Holds, Unsettled, Busy, OthersStay
  <2>7. \A k \in Jobs : Works(k, d)' => k = i
    BY <1>2, <2>3 DEF Works, Begun
  <2>8. Alone(d)'
    BY <2>5, <2>6, <2>7 DEF Alone, Held
  <2>9. row.progress > 0 => Opened(d, row.progress)
    BY <1>1, <1>2, <1>6, <2>2 DEF DocOK, Works, Begun
  <2>10. row.progress = 0 => Tidy(d)
    <3>1. row.progress = 0 => ~Works(i, d)
      BY <1>2 DEF Works, Begun
    <3> QED BY <2>2, <2>3, <2>4, <3>1 DEF DocOK
  <2>11. row.progress > 0 => row.type = "PDF"
    BY <1>1 DEF OnlyPdfsYield
  <2>12. Weaker(d)
    BY <1>1, <1>4, SameIsWeaker
  <2>13. ASSUME NEW n, n = run'[w].from PROVE StartsFrom(d, n)'
    BY <1>1, <1>3, <2>9, <2>10, <2>11, <2>12, <2>13 DEF StartsFrom, Weaker
  <2>14. StartsFrom(d, run[w].from)'
    BY <2>13 DEF StartsFrom, Opened, Filled, Prefix
  <2>15. WorkOK(w, d)'
    BY <1>1, <1>2, <2>14 DEF WorkOK
  <2>16. \A j \in Jobs : Works(j, d)' => jobs'[j].status # "QUEUED"
    BY <1>3, <2>7
  <2> QED BY <2>5, <2>8, <2>15, <2>16, DocMoves
<1> QED BY <1>5, <1>6 DEF DocsInv

LEMMA DocReported ==
  ASSUME IngestInv, DocsInv, NEW w \in Workers, Report(w)
  PROVE  DocsInv'
<1> DEFINE own == worker[w].doc
<1>0. QueueTypeOK /\ PipelineTypeOK /\ HistoryTypeOK
  BY DEF IngestInv, LeaseInv
<1>1. /\ UNCHANGED <<doc, stored, stale, history, jobs>> /\ OthersRun(w)
      /\ run[w].pc = "return" /\ run'[w] = NoRun /\ OthersStay(w)
      /\ worker[w].pc = "run" /\ worker'[w].pc = "finalize"
      /\ worker'[w].doc = own /\ worker'[w].out = run[w].res
  BY <1>0, ReportEffect
<1>2. worker'[w].job = worker[w].job /\ own \in Docs
  <2>1. worker'[w].job = worker[w].job
    BY <1>0, ReportMayReturn, ReturnEffect DEF Report
  <2>2. worker[w] \in Worker
    BY <1>0 DEF QueueTypeOK
  <2> QED BY <2>1, <2>2 DEF Worker
<1>3. cut' = cut /\ mixed' = mixed /\ unpurged' = unpurged
  BY <1>1 DEF history
<1>4. \A d : \A j \in Jobs : RowStays(j, d)
  BY <1>1, SameRowStays
<1>5. ASSUME NEW d \in Docs, d # own, ~cut'[d] PROVE DocOK(d)'
  <2>1. DocOK(d) /\ OthersKept(own)
    BY <1>1, <1>3, <1>5 DEF DocsInv, OthersKept
  <2> QED BY <1>1, <1>2, <1>3, <1>4, <1>5, <2>1, OtherDocs
<1>6. ASSUME NEW d \in Docs, d = own, ~cut'[d] PROVE DocOK(d)'
  <2>1. DocOK(d) /\ Busy(w, d) /\ Busy(w, d)'
    BY <1>1, <1>3, <1>6 DEF DocsInv, Busy
  <2>2. \A v \in Workers : /\ Busy(v, d)' <=> Busy(v, d)
                           /\ \A j \in Jobs : Holds(v, j)' <=> Holds(v, j)
    BY <1>1, <1>2, <2>1 DEF Busy, Holds, OthersStay
  <2>3. Alone(d)'
    <3>1. Unsettled(d)' => Unsettled(d)
      BY <1>1 DEF Unsettled, OthersStay
    <3>2. \A j \in Jobs : /\ Works(j, d)' <=> Works(j, d)
                          /\ jobs'[j].status = jobs[j].status
                          /\ Held(j) => Held(j)'
      BY <1>1, <2>2 DEF Works, Begun, Held
    <3>3. Alone(d)
      BY <2>1 DEF DocOK
    <3>4. \A j, k \in Jobs : Works(j, d)' /\ Works(k, d)' => j = k
      BY <3>2, <3>3 DEF Alone
    <3>5. \A u, v \in Workers : Busy(u, d)' /\ Busy(v, d)' => u = v
      BY <2>2, <3>3 DEF Alone
    <3>6. \A j \in Jobs : Works(j, d)' /\ jobs'[j].status = "RUNNING" => Held(j)'
      BY <3>2, <3>3 DEF Alone
    <3>7. Unsettled(d)' => \A j \in Jobs : ~Works(j, d)'
      BY <3>1, <3>2, <3>3 DEF Alone
    <3> QED BY <3>4, <3>5, <3>6, <3>7 DEF Alone
  <2>4. EndsWith(d, run[w].res) /\ Weaker(d)
    BY <1>1, <1>3, <2>1, SameIsWeaker DEF DocOK, WorkOK
  <2>5. ASSUME NEW out, out = worker'[w].out PROVE EndsWith(d, out)'
    BY <1>1, <2>4, <2>5 DEF EndsWith, Weaker
  <2>6. EndsWith(d, worker[w].out)'
    BY <2>5 DEF EndsWith, Opened, Filled, Prefix
  <2>7. WorkOK(w, d)'
    BY <1>1, <2>6, NoRunType DEF WorkOK
  <2>8. \A j \in Jobs : Works(j, d)' => jobs'[j].status # "QUEUED"
    <3>1. \A j \in Jobs : Works(j, d) => jobs[j].status # "QUEUED"
      BY <1>1, <2>1, SoleWorker DEF DocOK
    <3> QED BY <1>1, <3>1 DEF Works, Begun
  <2> QED BY <2>1, <2>3, <2>7, <2>8, DocMoves
<1> QED BY <1>5, <1>6 DEF DocsInv

LEMMA DocFinalized ==
  ASSUME IngestInv, DocsInv, NEW w \in Workers, Queue(FinalizeJob(w))
  PROVE  DocsInv'
<1> DEFINE own == worker[w].doc
           out == worker[w].out
<1>0. QueueTypeOK /\ PipelineTypeOK /\ HistoryTypeOK /\ RunOK(w)
  BY DEF IngestInv, LeaseInv
<1>a. PICK i \in Jobs : i = worker[w].job
  BY <1>0, FinalizeEffect DEF Queue
<1>1. /\ UNCHANGED <<doc, stored, stale, run>>
      /\ cut' = cut /\ mixed' = mixed /\ unpurged' = unpurged
  BY DEF Queue, pipelineVars, history
<1>2. /\ worker[w].pc = "finalize" /\ out \in Outcome /\ own \in Docs
      /\ \A k \in Jobs : k # i => jobs'[k] = jobs[k]
      /\ worker'[w].pc \in {"settle", "claim"} /\ OthersStay(w)
      /\ worker'[w].pc = "settle" =>
           worker'[w].doc = own /\ worker'[w].out = out /\ out.status \in {"done", "failed"}
  <2>1. worker[w] \in Worker
    BY <1>0 DEF QueueTypeOK
  <2> QED BY <1>0, <1>a, <2>1, FinalizeEffect DEF Queue, Worker
<1>3. Holds(w, i) /\ jobs[i].status = "RUNNING" /\ jobs[i].doc = own /\ jobs[i] \in Row
  BY <1>0, <1>a, <1>2, HolderWorks DEF Holds, QueueTypeOK
<1>4. jobs'[i] = Finalized(jobs[i], out)
  BY <1>0, <1>a, <1>3, FinalizeEffect DEF Queue
<1>5. jobs'[i].doc = own
  BY <1>2, <1>3, <1>4, FinalizedRow
<1>6. ASSUME NEW d \in Docs, d # own, ~cut'[d] PROVE DocOK(d)'
  <2>1. DocOK(d) /\ OthersKept(own)
    BY <1>1, <1>6 DEF DocsInv, OthersKept
  <2>2. \A j \in Jobs : RowStays(j, d)
    BY <1>2, <1>3, <1>5, <1>6, SameRowStays DEF RowStays, Works
  <2>3. OthersRun(w)
    BY <1>1 DEF OthersRun
  <2>4. ~Busy(w, d) /\ ~Busy(w, d)'
    BY <1>2, <1>6 DEF Busy
  <2> QED BY <1>1, <1>2, <1>6, <2>1, <2>2, <2>3, <2>4, OtherDocs
<1>7. ASSUME NEW d \in Docs, d = own, ~cut'[d] PROVE DocOK(d)'
  <2>1. DocOK(d) /\ Busy(w, d) /\ Alone(d)
    BY <1>1, <1>2, <1>7 DEF DocsInv, Busy, DocOK
  <2>2. /\ \A j \in Jobs : Works(j, d) <=> j = i
        /\ \A v \in Workers : v # w => ~Busy(v, d)
    BY <1>a, <1>2, <2>1, SoleWorker
  <2>3. /\ \A j \in Jobs : j # i => ~Works(j, d)'
        /\ \A v \in Workers : v # w => ~Busy(v, d)'
    BY <1>2, <2>2 DEF Works, Begun, Busy, OthersStay
  <2>4. EndsWith(d, out) /\ Weaker(d)
    BY <1>1, <1>2, <2>1, SameIsWeaker DEF DocOK, WorkOK
  <2>5. CASE out.status = "progress"
    <3>1. /\ jobs'[i].status = "QUEUED" /\ jobs'[i].progress = out.next
          /\ out.next \in 1..MaxBlocks /\ out.next > 0
      BY <1>2, <1>3, <1>4, <2>5, FinalizedRow, OutcomeType, QueueAssumption
    <3>2. \A v \in Workers : ~Busy(v, d)'
      BY <1>2, <2>3, <2>5 DEF Busy
    <3>3. Works(i, d)'
      BY <1>5, <1>7, <3>1 DEF Works, Begun
    <3>4. Alone(d)'
      BY <2>3, <3>1, <3>2 DEF Alone, Unsettled, Busy
    <3>5. ASSUME NEW n, n = jobs'[i].progress PROVE Opened(d, n)'
      BY <2>4, <2>5, <3>1, <3>5 DEF EndsWith, Weaker
    <3>6. \A j \in Jobs : Works(j, d)' => Opened(d, jobs[j].progress)'
      <4>1. Opened(d, jobs[i].progress)'
        BY <3>5 DEF Opened, Filled, Prefix
      <4> QED BY <2>3, <4>1
    <3> QED BY <1>2, <3>2, <3>3, <3>4, <3>6 DEF DocOK
  <2>6. CASE out.status # "progress"
    <3>1. \A j \in Jobs : ~Works(j, d)'
      <4>1. jobs'[i].status \in Finished
        BY <1>2, <1>3, <1>4, <2>6, FinalizedRow
      <4> QED BY <2>3, <4>1 DEF Works, Begun, Finished
    <3>2. CASE worker'[w].pc = "settle"
      <4>1. Busy(w, d)' /\ run'[w].pc = "off"
        BY <1>0, <1>1, <1>2, <1>7, <3>2 DEF Busy, RunOK
      <4>2. ASSUME NEW o, o = out PROVE EndsWith(d, o)'
        BY <2>4, <4>2 DEF EndsWith, Weaker
      <4>3. EndsWith(d, worker[w].out)'
        BY <1>2, <3>2, <4>2 DEF EndsWith, Opened, Filled, Prefix
      <4>4. WorkOK(w, d)'
        BY <1>2, <3>2, <4>1, <4>3 DEF WorkOK
      <4>5. Alone(d)'
        BY <2>3, <3>1 DEF Alone
      <4> QED BY <3>1, <4>1, <4>4, <4>5, DocMoves
    <3>3. CASE worker'[w].pc = "claim"
      <4>1. \A v \in Workers : ~Busy(v, d)'
        BY <2>3, <3>3 DEF Busy
      <4>2. Tidy(d)'
        BY <2>4, <2>6 DEF EndsWith, Weaker
      <4> QED BY <3>1, <4>1, <4>2, DocFree
    <3> QED BY <1>2, <3>2, <3>3
  <2> QED BY <2>5, <2>6
<1> QED BY <1>6, <1>7 DEF DocsInv

LEMMA DocSettled ==
  ASSUME IngestInv, DocsInv, NEW w \in Workers, SettleDocument(w)
  PROVE  DocsInv'
<1> DEFINE own == worker[w].doc
           out == worker[w].out
<1>0. QueueTypeOK /\ PipelineTypeOK
  BY DEF IngestInv, LeaseInv
<1>1. /\ UNCHANGED <<stored, stale, run, history>> /\ OthersKept(own)
      /\ own \in Docs /\ worker[w].pc = "settle"
      /\ doc'[own].here = doc[own].here /\ doc'[own].id = doc[own].id
      /\ doc'[own].hash = doc[own].hash /\ doc'[own].count = doc[own].count
      /\ doc[own].here => doc'[own].status = IF out.status = "done"
                                             THEN "SYNCED" ELSE "FAILED"
  BY <1>0, SettleDocEffect
<1>2. jobs' = jobs /\ OthersStay(w) /\ worker'[w].pc \notin {"run", "finalize", "settle"}
  BY <1>0, <1>1, RestEffect DEF SettleDocument
<1>3. cut' = cut /\ mixed' = mixed /\ unpurged' = unpurged /\ OthersRun(w)
  BY <1>1 DEF history, OthersRun
<1>4. ASSUME NEW d \in Docs, d # own, ~cut'[d] PROVE DocOK(d)'
  <2>1. DocOK(d) /\ ~Busy(w, d)'
    BY <1>2, <1>3, <1>4 DEF DocsInv, Busy
  <2>2. \A j \in Jobs : RowStays(j, d)
    BY <1>2, SameRowStays
  <2> QED BY <1>1, <1>2, <1>3, <1>4, <2>1, <2>2, OtherDocs
<1>5. ASSUME NEW d \in Docs, d = own, ~cut'[d] PROVE DocOK(d)'
  <2>1. DocOK(d) /\ Busy(w, d) /\ Alone(d) /\ WorkOK(w, d)
    BY <1>1, <1>3, <1>5 DEF DocsInv, Busy, DocOK
  <2>2. /\ \A j \in Jobs : ~Works(j, d)
        /\ \A v \in Workers : v # w => ~Busy(v, d)
    BY <1>1, <2>1, SoleWorker
  <2>3. /\ \A j \in Jobs : ~Works(j, d)'
        /\ \A v \in Workers : ~Busy(v, d)'
    BY <1>2, <2>2 DEF Works, Begun, Busy, OthersStay
  <2>4. EndsWith(d, out) /\ out.status \in {"done", "failed"}
    BY <1>1, <2>1 DEF WorkOK
  <2>5. Good(d) => Tidy(d)'
    BY <1>1, <1>3, <1>5, SameBlocks
  <2>6. CASE out.status = "done"
    BY <2>3, <2>4, <2>5, <2>6, DocFree DEF EndsWith
  <2>7. CASE out.status = "failed"
    <3>1. Tidy(d)
      BY <2>4, <2>7 DEF EndsWith
    <3>2. CASE Good(d)
      BY <2>5, <3>2, <2>3, DocFree
    <3>3. CASE ~Good(d)
      <4>1. doc[d].here /\ ~(doc[d].count > 0)
        BY <3>1, <3>3 DEF Tidy, Good
      <4>2. ~(doc'[d].count > 0) /\ doc'[d].status # "SYNCED"
        BY <1>1, <1>5, <2>7, <4>1
      <4>3. Tidy(d)'
        BY <4>2 DEF Tidy
      <4> QED BY <2>3, <4>3, DocFree
    <3> QED BY <3>2, <3>3
  <2> QED BY <2>4, <2>6, <2>7
<1> QED BY <1>4, <1>5 DEF DocsInv

LEMMA DocCrashed ==
  ASSUME IngestInv, DocsInv, NEW w \in Workers, CrashWorker(w)
  PROVE  DocsInv'
<1> DEFINE own == worker[w].doc
<1>0. QueueTypeOK /\ PipelineTypeOK /\ HistoryTypeOK
  BY DEF IngestInv, LeaseInv
<1>1. /\ UNCHANGED <<doc, stored, stale>> /\ OthersRun(w)
      /\ worker'[w].pc = "idle" /\ OthersStay(w) /\ jobs' = jobs
      /\ mixed' = mixed /\ unpurged' = unpurged
  BY <1>0, CrashWorkerEffect, CrashEffect DEF CrashWorker
<1>2. own \in Docs
  <2>1. worker[w] \in Worker
    BY <1>0 DEF QueueTypeOK
  <2> QED BY <2>1 DEF Worker
<1>3. \A d : \A j \in Jobs : RowStays(j, d)
  BY <1>1, SameRowStays
<1>4. ASSUME NEW d \in Docs, ~cut'[d]
      PROVE  ~cut[d] /\ (d = own => worker[w].pc \notin {"run", "finalize"})
  BY <1>0, <1>4 DEF CrashWorker, HistoryTypeOK
<1>5. ASSUME NEW d \in Docs, ~cut'[d], d # own \/ worker[w].pc # "settle"
      PROVE  DocOK(d)'
  <2>1. DocOK(d) /\ Weaker(d)
    BY <1>1, <1>4, <1>5, SameIsWeaker DEF DocsInv
  <2>2. ~Busy(w, d) /\ ~Busy(w, d)'
    BY <1>1, <1>4, <1>5 DEF Busy
  <2> QED BY <1>1, <1>3, <2>1, <2>2, DocElsewhere
<1>6. ASSUME NEW d \in Docs, ~cut'[d], d = own, worker[w].pc = "settle"
      PROVE  DocOK(d)'
  <2>1. DocOK(d) /\ Busy(w, d) /\ Alone(d) /\ WorkOK(w, d) /\ Weaker(d)
    BY <1>1, <1>4, <1>6, SameIsWeaker DEF DocsInv, Busy, DocOK
  <2>2. /\ \A j \in Jobs : ~Works(j, d)
        /\ \A v \in Workers : v # w => ~Busy(v, d)
    BY <1>6, <2>1, SoleWorker
  <2>3. /\ \A j \in Jobs : ~Works(j, d)'
        /\ \A v \in Workers : ~Busy(v, d)'
    BY <1>1, <2>2 DEF Works, Begun, Busy, OthersStay
  <2>4. Tidy(d)'
    BY <1>6, <2>1 DEF WorkOK, EndsWith, Weaker
  <2> QED BY <2>3, <2>4, DocFree
<1> QED BY <1>5, <1>6 DEF DocsInv

LEMMA DocAdministered ==
  ASSUME IngestInv, DocsInv, NEW e \in Docs,
         \/ Pipeline(DeleteDocument(e))
         \/ \E id \in 1..MaxDocIds : Pipeline(InvalidateDeleted(e, id))
  PROVE  DocsInv'
<1>0. PipelineTypeOK
  BY DEF IngestInv
<1>1. jobs' = jobs /\ worker' = worker /\ cut' = cut /\ mixed' = mixed /\ unpurged' = unpurged
  BY DEF Pipeline, queueVars, history
<1>2. /\ OthersKept(e) /\ run' = run
      /\ ~doc'[e].here \/ (UNCHANGED <<doc, stored>> /\ stale'[e] \subseteq stale[e])
  BY <1>0, DeleteEffect, DropEffect DEF Pipeline
<1>3. ASSUME NEW d \in Docs, ~cut'[d] PROVE DocOK(d)'
  <2>1. DocOK(d)
    BY <1>1, <1>3 DEF DocsInv
  <2>2. Weaker(d)
    <3>1. CASE ~doc'[d].here
      BY <1>1, <3>1 DEF Weaker, Tidy, Good, Opened
    <3>2. CASE doc'[d].here
      <4>1. doc'[d] = doc[d] /\ stored'[d] = stored[d] /\ stale'[d] \subseteq stale[d]
        BY <1>2, <3>2 DEF OthersKept
      <4> QED BY <1>1, <4>1, SameIsWeaker
    <3> QED BY <3>1, <3>2
  <2>3. \A j \in Jobs : RowStays(j, d)
    BY <1>1, SameRowStays
  <2> QED BY <1>1, <1>2, <2>1, <2>2, <2>3, DocFrame
<1> QED BY <1>3 DEF DocsInv

\* The steps of the queue that no tick on a document takes: they requeue, fail
\* and prune rows nobody holds, insert new ones, and let leases expire.
LEMMA DocQuiet ==
  ASSUME ~RunsOutliveLease, IngestInv, DocsInv, UNCHANGED <<pipelineVars, history>>,
         \/ RequestStep
         \/ \E w \in Workers : QuietStep(w) /\ ~FinalizeJob(w)
         \/ \E j \in Jobs : LeaseExpires(j)
         \/ UNCHANGED queueVars
  PROVE  DocsInv'
<1>0. QueueTypeOK /\ LeaseInv /\ \A j \in Jobs : jobs[j] \in Row
  BY DEF IngestInv, LeaseInv, QueueTypeOK
<1>1. /\ UNCHANGED <<doc, stored, stale, run>>
      /\ cut' = cut /\ mixed' = mixed /\ unpurged' = unpurged
  BY DEF pipelineVars, history
<1> SUFFICES ASSUME NEW d \in Docs, ~cut'[d] PROVE DocOK(d)'
  BY DEF DocsInv
<1>2. DocOK(d) /\ Weaker(d)
  BY <1>1, SameIsWeaker DEF DocsInv
<1>3. ASSUME NEW j \in Jobs, LeaseExpired(j) PROVE ~Works(j, d)
  <2>1. ~Held(j)
    BY <1>3, HolderWorks DEF Held, LeaseExpired
  <2> QED BY <1>2, <1>3, <2>1 DEF DocOK, Alone, LeaseExpired
<1>4. ASSUME NEW j \in Jobs, LeaseExpired(j), jobs'[j].doc = jobs[j].doc
      PROVE  RowStays(j, d)
  BY <1>3, <1>4 DEF RowStays, Works, Begun, LeaseExpired
<1>5. /\ \A j \in Jobs : RowStays(j, d)
      /\ \A v \in Workers : \/ worker'[v] = worker[v]
                            \/ ~Busy(v, d) /\ ~Busy(v, d)'
  <2>1. CASE RequestStep
    <3>1. worker' = worker
      BY <1>0, <2>1, RequestEffect
    <3>2. CASE jobs' = jobs
      BY <3>1, <3>2, SameRowStays
    <3>3. CASE jobs' # jobs
      <4>1. PICK k \in Jobs : k = created'
        BY <1>0, <2>1, <3>3, RequestEffect
      <4>2. /\ created' = created + 1 /\ jobs'[k].status = "QUEUED"
            /\ jobs'[k].progress = 0
            /\ \A j \in Jobs : j # k => jobs'[j] = jobs[j]
        BY <1>0, <2>1, <3>3, <4>1, RequestEffect
      <4>3. k > created
        BY <1>0, <4>1, <4>2 DEF QueueTypeOK
      <4>4. jobs[k] = NoRow
        BY <1>0, <4>3 DEF LeaseInv, HoldersAreCurrent
      <4>5. RowStays(k, d)
        BY <4>2, <4>4 DEF RowStays, Works, Begun, NoRow
      <4> QED BY <3>1, <4>2, <4>5, SameRowStays
    <3> QED BY <3>2, <3>3
  <2>2. ASSUME NEW w \in Workers, QuietStep(w), ~FinalizeJob(w)
        PROVE  /\ \A j \in Jobs : RowStays(j, d)
               /\ \A v \in Workers : \/ worker'[v] = worker[v]
                                     \/ ~Busy(v, d) /\ ~Busy(v, d)'
    <3>1. /\ OthersStay(w)
          /\ worker[w].pc \notin {"run", "finalize", "settle"}
          /\ worker'[w].pc \notin {"run", "finalize", "settle"}
      <4>1. CASE StopTick(w)
        BY <1>0, <4>1, RestEffect DEF StopTick
      <4> QED
        BY <1>0, <2>2, <4>1, StartEffect, RequeueEffect, ExhaustEffect, PickEffect,
           PruneEffect DEF QuietStep
    <3>2. CASE jobs' = jobs
      BY <3>1, <3>2, SameRowStays DEF Busy, OthersStay
    <3>3. CASE RequeueExpired(w) \/ FailExhausted(w)
      <4>1. \A j \in Jobs : jobs'[j] = jobs[j] \/ (LeaseExpired(j) /\ jobs'[j].doc = jobs[j].doc)
        BY <1>0, <3>3, RequeueEffect, ExhaustEffect, RequeuedRow, ExhaustedRow
      <4> QED BY <1>4, <3>1, <4>1, SameRowStays DEF Busy, OthersStay
    <3>4. CASE PruneOldJobs(w)
      <4>1. \A j \in Jobs : jobs'[j] = jobs[j] \/ (jobs[j].status \in Finished /\ jobs'[j] = NoRow)
        BY <1>0, <3>4, PruneEffect
      <4>2. \A j \in Jobs : RowStays(j, d)
        BY <4>1, SameRowStays DEF RowStays, Works, Begun, Finished, NoRow
      <4> QED BY <3>1, <4>2 DEF Busy, OthersStay
    <3> QED
      BY <1>0, <2>2, <3>2, <3>3, <3>4, StartEffect, PickEffect, RestEffect DEF QuietStep
  <2>3. ASSUME NEW i \in Jobs, LeaseExpires(i)
        PROVE  /\ \A j \in Jobs : RowStays(j, d)
               /\ \A v \in Workers : worker'[v] = worker[v]
    <3>1. RowStays(i, d)
      BY <1>0, <2>3, LeaseEffect DEF RowStays, Works, Begun
    <3> QED BY <1>0, <2>3, <3>1, LeaseEffect, SameRowStays
  <2>4. CASE UNCHANGED queueVars
    BY <2>4, SameRowStays DEF queueVars
  <2> QED BY <2>1, <2>2, <2>3, <2>4
<1> QED BY <1>1, <1>2, <1>5, DocFrame

LEMMA DocsStep ==
  ASSUME ~RunsOutliveLease, IngestInv, OnlyPdfsYield, DocsInv, [Next]_vars
  PROVE  DocsInv'
<1>1. CASE Requests
  <2>1. ASSUME NEW r \in Requesters, NEW f \in BOOLEAN, RequestSync(r, f)
        PROVE  RequestStep /\ UNCHANGED <<pipelineVars, history>>
    BY <2>1 DEF RequestSync, Queue, RequestStep
  <2>2. RequestStep /\ UNCHANGED <<pipelineVars, history>>
    BY <1>1, <2>1 DEF Requests, RequestPage, Queue, RequestStep
  <2> QED BY <2>2, DocQuiet
<1>2. ASSUME NEW w \in Workers, Ticks(w) PROVE DocsInv'
  <2>1. CASE Queue(FinalizeJob(w))
    BY <2>1, DocFinalized
  <2>2. CASE Queue(QuietStep(w)) /\ ~Queue(FinalizeJob(w))
    BY <2>2, DocQuiet DEF Queue
  <2> QED
    BY <1>2, <2>1, <2>2, DocClaimed, DocWorked, DocReported, DocSettled, DocCrashed
    DEF Ticks, Queue, QuietStep
<1>3. ASSUME NEW j \in Jobs, Queue(LeaseExpires(j)) PROVE DocsInv'
  BY <1>3, DocQuiet DEF Queue
<1>4. ASSUME NEW d \in Docs, Pipeline(DeleteDocument(d)) PROVE DocsInv'
  BY <1>4, DocAdministered
<1>5. ASSUME NEW d \in Docs, NEW id \in 1..MaxDocIds, Pipeline(InvalidateDeleted(d, id))
      PROVE  DocsInv'
  BY <1>5, DocAdministered
<1>6. CASE UNCHANGED vars
  BY <1>6, DocQuiet DEF vars
<1> QED BY <1>1, <1>2, <1>3, <1>4, <1>5, <1>6 DEF Next

LEMMA DocsInit == Init => OnlyPdfsYield /\ DocsInv
<1> SUFFICES ASSUME Init PROVE OnlyPdfsYield /\ DocsInv
  OBVIOUS
<1>1. /\ \A j \in Jobs : jobs[j] = NoRow
      /\ \A w \in Workers : worker[w].pc = "idle"
      /\ \A d \in Docs : ~doc[d].here
  BY DEF Init, QueueInit, PipelineInit, IdleWorker, NoDocument
<1>2. OnlyPdfsYield
  BY <1>1 DEF OnlyPdfsYield, NoRow
<1>3. ASSUME NEW d \in Docs PROVE DocOK(d)
  <2>1. (\A w \in Workers : ~Busy(w, d)) /\ (\A j \in Jobs : ~Works(j, d)) /\ Tidy(d)
    BY <1>1 DEF Busy, Works, Begun, NoRow, Tidy
  <2>2. ~Unsettled(d)
    BY <1>1 DEF Unsettled
  <2> QED BY <2>1, <2>2 DEF DocOK, Alone
<1> QED BY <1>2, <1>3 DEF DocsInv

-----------------------------------------------------------------------------
(* What a document holds: for any number of requests, ticks and uploads *)

LEMMA DocsHold ==
  ASSUME DocsInv, IngestInv
  PROVE  CursorIsExact /\ SyncedIsWhole /\ SyncedIsFresh
<1>1. ASSUME NEW j \in Jobs, NEW d \in Docs, d = jobs[j].doc,
             jobs[j].status = "QUEUED", jobs[j].progress > 0, doc[d].here, ~cut[d]
      PROVE  Prefix(d, jobs[j].progress) /\ doc[d].count = jobs[j].progress
  BY <1>1 DEF DocsInv, DocOK, Works, Begun, Opened
<1>2. ASSUME NEW d \in Docs, Synced(d), ~cut[d] PROVE Complete(d)
  <2>1. DocOK(d) /\ \A w \in Workers : ~Busy(w, d)
    BY <1>2 DEF DocsInv, Synced, Settled, Busy
  <2>2. \A j \in Jobs : ~Works(j, d)
    <3> SUFFICES ASSUME NEW j \in Jobs, Works(j, d) PROVE FALSE
      OBVIOUS
    <3>1. jobs[j].status = "RUNNING" => \E w \in Workers : Holds(w, j)
      BY <2>1 DEF DocOK, Alone, Held
    <3>2. jobs[j].status = "QUEUED"
      BY <2>1, <3>1, HolderWorks DEF Works, Begun
    <3>3. Opened(d, jobs[j].progress)
      BY <2>1, <3>2 DEF DocOK
    <3> QED BY <1>2, <3>3 DEF Opened, Synced
  <2> QED BY <1>2, <2>1, <2>2 DEF DocOK, Tidy, Synced
<1>3. \A j \in Jobs : jobs[j].doc \in Docs
  BY DEF IngestInv, LeaseInv, QueueTypeOK, Row
<1> QED
  BY <1>1, <1>2, <1>3 DEF CursorIsExact, SyncedIsWhole, SyncedIsFresh, Complete, Fresh

DocumentInv == IngestInv /\ OnlyPdfsYield /\ DocsInv

LEMMA DocumentsInOrder ==
  ASSUME ~RunsOutliveLease
  PROVE  Spec => []DocumentInv
<1>1. Init => DocumentInv
  BY IngestInvInit, DocsInit DEF DocumentInv
<1>2. DocumentInv /\ [Next]_vars => DocumentInv'
  BY IngestInvStep, YieldStep, DocsStep DEF DocumentInv
<1> QED
  BY <1>1, <1>2, PTL DEF Spec

\* The cursor of a job that yielded is exact (pipeline.ts: chunkCount and the
\* stored blocks agree with it), unless a run was cut short or another one of
\* the same document crossed it.
THEOREM CursorsAreExact ==
  ASSUME ~RunsOutliveLease
  PROVE  Spec => []CursorIsExact
<1>1. DocumentInv => CursorIsExact
  BY DocsHold DEF DocumentInv
<1> QED
  BY <1>1, DocumentsInOrder, PTL

\* A document at rest that is listed as SYNCED holds every block of its text
\* once, unless a run was cut short, was crossed by another one of the same
\* document, or resumed it with another text.
THEOREM SyncedDocumentsAreWhole ==
  ASSUME ~RunsOutliveLease
  PROVE  Spec => []SyncedIsWhole
<1>1. DocumentInv => SyncedIsWhole
  BY DocsHold DEF DocumentInv
<1> QED
  BY <1>1, DocumentsInOrder, PTL

\* ... and no answer cached from its former chunks is left, unless the purge
\* that was to drop them failed.
THEOREM SyncedDocumentsAreFresh ==
  ASSUME ~RunsOutliveLease
  PROVE  Spec => []SyncedIsFresh
<1>1. DocumentInv => SyncedIsFresh
  BY DocsHold DEF DocumentInv
<1> QED
  BY <1>1, DocumentsInOrder, PTL

=============================================================================
