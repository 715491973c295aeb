--------------------------- MODULE IngestPipeline ---------------------------
(***************************************************************************)
(* The persistence tail of an ingest (server/ingest/pipeline.ts:           *)
(* ingestUrl, ingestPdf, persistIngested) and the admin's deletion of a    *)
(* document (server/routers/document.ts).  A run belongs to a worker tick; *)
(* every statement or transaction it sends to the database is one step, so *)
(* runs of the same document interleave as the code lets them.             *)
(*                                                                         *)
(* A text stands for its hash.  A parent block and its children are stored *)
(* in one transaction, so one stored block stands for both and chunkCount  *)
(* counts blocks.  Titles, vectors and the text of a block are left out.   *)
(***************************************************************************)
EXTENDS IngestBase

CONSTANTS
  Texts,        \* cleaned and normalised texts
  TextsOf,      \* TextsOf[d]: the texts a fetch of d may yield
  Blocks,       \* Blocks[t]: the number of parent blocks of text t
  MaxDocIds     \* bound: times one source key gets a fresh document row

ASSUME PipelineAssumption ==
  /\ TextsOf \in [Docs -> SUBSET Texts]
  /\ Blocks \in [Texts -> 0..MaxBlocks]
  /\ MaxDocIds \in Nat \ {0}

VARIABLES
  doc,      \* the documents table, by source key
  stored,   \* stored[d][t][b]: copies of block b of text t stored for d
  stale,    \* stale[d]: document ids with cached answers their chunks do not support
  run       \* the run of each worker

pipelineVars == <<doc, stored, stale, run>>

NoChunks == [t \in Texts |-> [b \in 1..MaxBlocks |-> 0]]

Document == [here : BOOLEAN, id : Nat, hash : Texts \cup {"none"}, count : Nat,
             status : {"INGESTING", "SYNCED", "FAILED"}]
NoDocument == [here |-> FALSE, id |-> 0, hash |-> "none", count |-> 0,
               status |-> "SYNCED"]

NoResult == [status |-> "none", next |-> 0]
Result(status) == [status |-> status, next |-> 0]

RunPcs == {"off", "fetch", "read", "skip", "open", "block", "rollback",
           "mark", "invalidate", "sync", "return"}

\* pc, the arguments (doc, pdf, from, force), the fetched text, the document
\* id written to, and the local loop state (i blocks done, count = childCount).
NoRun == [pc |-> "off", doc |-> SomeDoc, pdf |-> FALSE,
          from |-> 0, force |-> FALSE, text |-> "none", seen |-> "SYNCED",
          id |-> 0, i |-> 0, count |-> 0, res |-> NoResult]

PipelineInit ==
  /\ doc = [d \in Docs |-> NoDocument]
  /\ stored = [d \in Docs |-> NoChunks]
  /\ stale = [d \in Docs |-> {}]
  /\ run = [w \in Workers |-> NoRun]

\* Where w's run ends: the result is what persistIngested returns or throws.
Returns(w, res) == run' = [run EXCEPT ![w].pc = "return", ![w].res = res]
At(w, pc) == run[w].pc = pc
RunGoto(w, pc) == run' = [run EXCEPT ![w].pc = pc]

-----------------------------------------------------------------------------
BeginRun(w, d, pdf, from, force) ==
  /\ At(w, "off")
  /\ run' = [run EXCEPT ![w] =
       [NoRun EXCEPT !.pc = "fetch", !.doc = d, !.pdf = pdf, !.from = from,
                     !.force = force]]
  /\ UNCHANGED <<doc, stored, stale>>

\* Scrape or parse, clean, normalise to English.  The SSRF guard rejects every
\* pdf:// key that a URL job brings, so that fetch cannot succeed.
FetchText(w, t) ==
  /\ At(w, "fetch")
  /\ run[w].pdf \/ run[w].doc \notin PdfDocs
  /\ t \in TextsOf[run[w].doc]
  /\ run' = [run EXCEPT ![w].pc = "read", ![w].text = t]
  /\ UNCHANGED <<doc, stored, stale>>

\* ingestUrl turns a scrape error into a failed result; parsePdf just throws.
FetchFails(w) ==
  /\ At(w, "fetch")
  /\ Returns(w, Result(IF run[w].pdf THEN "threw" ELSE "failed"))
  /\ UNCHANGED <<doc, stored, stale>>

Unchanged(r, e) == e.here /\ e.hash = r.text /\ e.count > 0 /\ ~r.force /\ r.from = 0

\* The read of the existing row, and every branch decided from it.
ReadExisting(w) ==
  LET r == run[w]
      e == doc[r.doc] IN
  /\ At(w, "read")
  /\ \/ Unchanged(r, e) /\ run' = [run EXCEPT ![w].pc = "skip", ![w].seen = e.status]
     \/ ~Unchanged(r, e) /\ Blocks[r.text] = 0 /\ Returns(w, Result("failed"))
     \/ ~Unchanged(r, e) /\ Blocks[r.text] > 0 /\ r.from = 0 /\ RunGoto(w, "open")
     \/ /\ Blocks[r.text] > 0 /\ r.from > 0 /\ ~e.here
        /\ Returns(w, Result("threw"))
     \/ /\ Blocks[r.text] > 0 /\ r.from > 0 /\ e.here
        /\ run' = [run EXCEPT
             ![w].pc = IF r.from < Blocks[r.text] THEN "block" ELSE "invalidate",
             ![w].id = e.id, ![w].i = r.from, ![w].count = e.count]
  /\ UNCHANGED <<doc, stored, stale>>

\* The self-heal of the skip: the update is by source key.
SkipUnchanged(w) ==
  LET d == run[w].doc IN
  /\ At(w, "skip")
  /\ doc' = IF run[w].seen # "SYNCED" /\ doc[d].here
            THEN [doc EXCEPT ![d].status = "SYNCED"] ELSE doc
  /\ Returns(w, Result("done"))
  /\ UNCHANGED <<stored, stale>>

HasChunks(d) == stored[d] # NoChunks

\* Mutant: the old chunks are not deleted.
OpenKeepingChunks(w) ==
  LET d == run[w].doc
      id == IF doc[d].here THEN doc[d].id ELSE doc[d].id + 1 IN
  /\ At(w, "open")
  /\ doc' = [doc EXCEPT ![d] = [here |-> TRUE, id |-> id, hash |-> run[w].text,
                                count |-> 0, status |-> "INGESTING"]]
  /\ run' = [run EXCEPT ![w].pc = "block", ![w].id = id, ![w].i = 0, ![w].count = 0]
  /\ UNCHANGED <<stored, stale>>

\* The upsert transaction: new hash, count 0, INGESTING, old chunks deleted.
OpenDocument(w) ==
  LET d == run[w].doc
      id == IF doc[d].here THEN doc[d].id ELSE doc[d].id + 1 IN
  /\ At(w, "open")
  /\ doc' = [doc EXCEPT ![d] = [here |-> TRUE, id |-> id, hash |-> run[w].text,
                                count |-> 0, status |-> "INGESTING"]]
  /\ stored' = [stored EXCEPT ![d] = NoChunks]
  /\ stale' = [stale EXCEPT ![d] = IF HasChunks(d) THEN @ \cup {id} ELSE @]
  /\ run' = [run EXCEPT ![w].pc = "block", ![w].id = id, ![w].i = 0, ![w].count = 0]

DocumentThere(r) == doc[r.doc].here /\ doc[r.doc].id = r.id

\* A PDF run whose budget is gone yields after any block but the last.
YieldsAnywhere(r, last) == r.pdf   \* mutant
MayYield(r, last) == r.pdf /\ ~last

\* Embed the next block and store it in one transaction; chunkCount is
\* overwritten with this run's own counter.
StoreBlock(w) ==
  LET r == run[w]
      b == r.i + 1
      last == b = Blocks[r.text] IN
  /\ At(w, "block")
  /\ DocumentThere(r)
  /\ stored' = [stored EXCEPT ![r.doc][r.text][b] = @ + 1]
  /\ doc' = [doc EXCEPT ![r.doc].count = r.count + 1]
  /\ stale' = [stale EXCEPT ![r.doc] = @ \cup {r.id}]
  /\ \/ run' = [run EXCEPT ![w].pc = IF last THEN "invalidate" ELSE "block",
                           ![w].i = b, ![w].count = @ + 1]
     \/ /\ MayYield(r, last)
        /\ Returns(w, [status |-> "progress", next |-> b])

\* The document row is gone: the insert breaks its foreign key and throws.
StoreFails(w) ==
  /\ At(w, "block")
  /\ ~DocumentThere(run[w])
  /\ Returns(w, Result("threw"))
  /\ UNCHANGED <<doc, stored, stale>>

\* The embedding call fails: only a run that started from 0 rolls back.
EmbedFails(w) ==
  LET r == run[w] IN
  /\ At(w, "block")
  /\ IF r.from = 0
     THEN RunGoto(w, "rollback") ELSE Returns(w, Result("failed"))
  /\ UNCHANGED <<doc, stored, stale>>

\* Rollback: the chunks and parents of the document id are deleted ...
RollbackChunks(w) ==
  LET d == run[w].doc IN
  /\ At(w, "rollback")
  /\ IF DocumentThere(run[w])
     THEN /\ stored' = [stored EXCEPT ![d] = NoChunks]
          /\ stale' = [stale EXCEPT ![d] = IF HasChunks(d) THEN @ \cup {run[w].id} ELSE @]
     ELSE UNCHANGED <<stored, stale>>
  /\ RunGoto(w, "mark")
  /\ UNCHANGED <<doc>>

\* ... then the row is reset; if it is gone the error is swallowed.
RollbackMark(w) ==
  LET d == run[w].doc IN
  /\ At(w, "mark")
  /\ doc' = IF DocumentThere(run[w])
            THEN [doc EXCEPT ![d].count = 0, ![d].status = "FAILED"] ELSE doc
  /\ Returns(w, Result("failed"))
  /\ UNCHANGED <<stored, stale>>

\* Mutant: the answers stay.
KeepAnswers(w) == At(w, "invalidate") /\ RunGoto(w, "sync") /\ UNCHANGED <<doc, stored, stale>>

\* All blocks are in: drop the answers cached from the document.  Where the
\* cache cannot be reached the failure is swallowed and the run goes on ...
InvalidateFails(w) == At(w, "invalidate") /\ RunGoto(w, "sync") /\ UNCHANGED <<doc, stored, stale>>
InvalidateAnswers(w) ==
  LET d == run[w].doc IN
  /\ At(w, "invalidate")
  /\ stale' = [stale EXCEPT ![d] = @ \ {run[w].id}]
  /\ RunGoto(w, "sync")
  /\ UNCHANGED <<doc, stored>>

\* ... and mark it SYNCED, by id.
MarkSynced(w) ==
  LET d == run[w].doc IN
  /\ At(w, "sync")
  /\ doc' = IF DocumentThere(run[w]) THEN [doc EXCEPT ![d].status = "SYNCED"] ELSE doc
  /\ Returns(w, Result("done"))
  /\ UNCHANGED <<stored, stale>>

RunStep(w) ==
  \/ \E t \in Texts : FetchText(w, t)
  \/ FetchFails(w) \/ ReadExisting(w) \/ SkipUnchanged(w) \/ OpenDocument(w)
  \/ StoreBlock(w) \/ StoreFails(w) \/ EmbedFails(w)
  \/ RollbackChunks(w) \/ RollbackMark(w)
  \/ InvalidateAnswers(w) \/ MarkSynced(w)

\* The run's result has been handed on.
EndRun(w) == run' = [run EXCEPT ![w] = NoRun]

\* document.delete: the row goes and its chunks cascade ...
DeleteDocument(d) ==
  /\ doc[d].here
  /\ doc[d].id < MaxDocIds
  /\ doc' = [doc EXCEPT ![d].here = FALSE, ![d].hash = "none", ![d].count = 0]
  /\ stored' = [stored EXCEPT ![d] = NoChunks]
  /\ stale' = [stale EXCEPT ![d] = IF HasChunks(d) THEN @ \cup {doc[d].id} ELSE @]
  /\ UNCHANGED run

\* ... then the answers cached from it are dropped.
InvalidateDeleted(d, id) ==
  /\ id \in stale[d]
  /\ ~(doc[d].here /\ doc[d].id = id)
  /\ stale' = [stale EXCEPT ![d] = @ \ {id}]
  /\ UNCHANGED <<doc, stored, run>>

\* finalizeJob's document update, by source key.
SetStatus(d, status) ==
  doc' = IF doc[d].here THEN [doc EXCEPT ![d].status = status] ELSE doc

-----------------------------------------------------------------------------
\* Every block of the stored hash is there exactly once and nothing else is.
Whole(d) ==
  /\ doc[d].hash \in Texts
  /\ \A t \in Texts, b \in 1..MaxBlocks :
       stored[d][t][b] = IF t = doc[d].hash /\ b <= Blocks[t] THEN 1 ELSE 0
  /\ doc[d].count = Blocks[doc[d].hash]

=============================================================================
