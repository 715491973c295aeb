------------------------------ MODULE DocumentList ------------------------------
(***************************************************************************)
(* The list of documents on the administration page: filter and sort, the  *)
(* ticks, deletion of one document or of those ticked, and the button that *)
(* clears the semantic cache, with the server's side of these calls.  Jobs *)
(* and other administrators change the documents at any time, and visitors *)
(* fill the cache.                                                         *)
(***************************************************************************)
EXTENDS Integers, Sequences, FiniteSets, FiniteSetsExt, SequencesExt

CONSTANTS
  Files,    \* documents, numbered in the order of their titles
  Matches,  \* those whose title holds the text of the filter
  MaxBulk   \* 100: ids that deleteMany accepts

ASSUME DocumentListAssumption ==
  /\ IsFiniteSet(Files) /\ Files \subseteq Nat /\ Matches \subseteq Files
  /\ MaxBulk \in Nat \ {0}

VARIABLES
  files,     \* documents stored, the one updated last first
  chunkCount,\* chunkCount[d] of the row
  cited,     \* documents that answers in the semantic cache rest on
  fileList,  \* source.list as the page has it
  desk,      \* the page's own state
  single,    \* document.delete under way
  bulk,      \* document.deleteMany under way
  clearing,  \* admin.clearCache under way
  toast,     \* what the page said last, and what is true of it
  unread     \* history: documents changed since, and this page was not told

listVars == <<files, chunkCount, cited, fileList, desk, single, bulk, clearing, toast, unread>>

ListEntry == [file : Files, chunks : 0..1]
FileList == [has : BOOLEAN, data : Seq(ListEntry), fetch : {"none", "asked", "read"}, read : Seq(ListEntry)]
Desk == [search : BOOLEAN, sort : {"updated", "title", "chunks"}, ticked : SUBSET Files,
         confirm : SUBSET {"bulk", "clear"}]
Single == [at : {"none", "asked", "gone"}, file : SUBSET Files]
Bulk == [at : {"none", "asked", "found", "gone"}, ids : SUBSET Files, found : SUBSET Files,
         left : SUBSET Files]
\* said: the number of documents in the toast; done: the number deleted, or 1
\* for a cache emptied.
Toast == [kind : {"none", "deleted", "cleared", "error"}, said : Nat, done : Nat]

NoSingle == [at |-> "none", file |-> {}]
NoBulk == [at |-> "none", ids |-> {}, found |-> {}, left |-> {}]
Says(kind, said, done) == toast' = [kind |-> kind, said |-> said, done |-> done]

ListTypeOK ==
  /\ files \in Seq(Files) /\ chunkCount \in [Files -> 0..1] /\ cited \subseteq Files
  /\ fileList \in FileList /\ desk \in Desk /\ single \in Single /\ bulk \in Bulk
  /\ clearing \in {"none", "asked", "emptied", "swallowed"} /\ toast \in Toast /\ unread \in BOOLEAN

ListInit ==
  /\ files = SetToSortSeq(Files, <) /\ chunkCount = [d \in Files |-> 1] /\ cited = {}
  /\ fileList = [has |-> FALSE, data |-> <<>>, fetch |-> "asked", read |-> <<>>]
  /\ desk = [search |-> FALSE, sort |-> "updated", ticked |-> {}, confirm |-> {}]
  /\ single = NoSingle /\ bulk = NoBulk /\ clearing = "none"
  /\ toast = [kind |-> "none", said |-> 0, done |-> 0] /\ unread = FALSE

Corpus == <<files, chunkCount>>
Deletions == <<single, bulk>>

-----------------------------------------------------------------------------
(* What is shown *)

StoredFiles == [i \in DOMAIN files |-> [file |-> files[i], chunks |-> chunkCount[files[i]]]]

Searched == SelectSeq(fileList.data, LAMBDA e : desk.search => e.file \in Matches)
ByTitle(e, f) == e.file < f.file
ByChunks(seq) == SelectSeq(seq, LAMBDA e : e.chunks = 1) \o SelectSeq(seq, LAMBDA e : e.chunks = 0)

\* The sort is stable, and the list comes in the order of the last update.
ShownFiles ==
  IF desk.sort = "title" THEN SetToSortSeq(Range(Searched), ByTitle)
  ELSE IF desk.sort = "chunks" THEN ByChunks(Searched) ELSE Searched

ShownIds == {e.file : e \in Range(ShownFiles)}
IsAllSelected == ShownIds # {} /\ ShownIds \subseteq desk.ticked

SettledActions == <<cited, fileList, single, bulk, clearing, unread>>

SearchFiles(on) ==
  /\ on # desk.search /\ desk' = [desk EXCEPT !.search = on]
  /\ UNCHANGED toast /\ UNCHANGED SettledActions /\ UNCHANGED Corpus

SortBy(sort) ==
  /\ sort # desk.sort /\ desk' = [desk EXCEPT !.sort = sort]
  /\ UNCHANGED toast /\ UNCHANGED SettledActions /\ UNCHANGED Corpus

\* A dialog covers the list.
ToggleFile(d) ==
  /\ d \in ShownIds /\ desk.confirm = {}
  /\ desk' = [desk EXCEPT !.ticked = IF d \in @ THEN @ \ {d} ELSE @ \cup {d}]
  /\ UNCHANGED toast /\ UNCHANGED SettledActions /\ UNCHANGED Corpus

\* What the filter hides loses its tick.
ToggleSelectAll ==
  /\ ShownIds # {} /\ desk.confirm = {}
  /\ desk' = [desk EXCEPT !.ticked = IF IsAllSelected THEN {} ELSE ShownIds]
  /\ UNCHANGED toast /\ UNCHANGED SettledActions /\ UNCHANGED Corpus

AskConfirm(what) ==
  /\ desk.confirm = {}
  /\ IF what = "bulk" THEN desk.ticked # {} /\ bulk.at = "none" ELSE clearing = "none"
  /\ desk' = [desk EXCEPT !.confirm = {what}]
  /\ UNCHANGED toast /\ UNCHANGED SettledActions /\ UNCHANGED Corpus

\* Cancel, or Escape, which closes the dialog even of a call under way.
CloseConfirm ==
  /\ desk.confirm # {} /\ desk' = [desk EXCEPT !.confirm = {}]
  /\ UNCHANGED toast /\ UNCHANGED SettledActions /\ UNCHANGED Corpus

-----------------------------------------------------------------------------
(* The list read *)

\* Mutant: any read under way is joined.
RefreshJoining ==
  /\ fileList' = IF fileList.fetch = "none" THEN [fileList EXCEPT !.fetch = "asked"] ELSE fileList
  /\ unread' = FALSE

\* The first read is joined while it is under way, whatever it has found; any other
\* is cancelled and sent again.
FirstRead == ~fileList.has /\ fileList.fetch # "none"
RefreshFiles ==
  /\ fileList' = IF FirstRead THEN fileList ELSE [fileList EXCEPT !.fetch = "asked", !.read = <<>>]
  /\ unread' = (unread /\ FirstRead)

ReadList ==
  /\ fileList.fetch = "asked"
  /\ fileList' = [fileList EXCEPT !.fetch = "read", !.read = StoredFiles] /\ unread' = FALSE
  /\ UNCHANGED <<cited, desk, clearing, toast>> /\ UNCHANGED Deletions /\ UNCHANGED Corpus

ListAnswered ==
  /\ fileList.fetch = "read"
  /\ fileList' = [has |-> TRUE, data |-> fileList.read, fetch |-> "none", read |-> <<>>]
  /\ UNCHANGED <<cited, desk, clearing, toast, unread>> /\ UNCHANGED Deletions /\ UNCHANGED Corpus

ListLost ==
  /\ fileList.fetch # "none"
  /\ fileList' = [fileList EXCEPT !.fetch = "none", !.read = <<>>] /\ unread' = TRUE
  /\ UNCHANGED <<cited, desk, clearing, toast>> /\ UNCHANGED Deletions /\ UNCHANGED Corpus

\* A job that the page watches has ended.
JobReported ==
  /\ RefreshFiles
  /\ UNCHANGED <<cited, desk, clearing, toast>> /\ UNCHANGED Deletions /\ UNCHANGED Corpus

-----------------------------------------------------------------------------
(* Delete one *)

FilesWithout(D) == SelectSeq(files, LAMBDA d : d \notin D)
FileExists(d) == d \in Range(files)

HandleDelete(d) ==
  /\ d \in ShownIds /\ desk.confirm = {} /\ single.at = "none"
  /\ single' = [at |-> "asked", file |-> {d}]
  /\ UNCHANGED <<cited, fileList, desk, bulk, clearing, toast, unread>> /\ UNCHANGED Corpus

RowDeleted(d) ==
  /\ single = [at |-> "asked", file |-> {d}] /\ FileExists(d)
  /\ files' = FilesWithout({d}) /\ single' = [single EXCEPT !.at = "gone"] /\ unread' = TRUE
  /\ UNCHANGED <<chunkCount, cited, fileList, desk, bulk, clearing, toast>>

\* The cache is told, and a failure of that is only logged.
Deleted(told) ==
  /\ single.at = "gone"
  /\ cited' = IF told THEN cited \ single.file ELSE cited
  /\ single' = NoSingle /\ RefreshFiles
  /\ desk' = [desk EXCEPT !.ticked = @ \ single.file]
  /\ UNCHANGED <<bulk, clearing, toast>> /\ UNCHANGED Corpus

\* The row was not found, or the call or its answer was lost: nothing is said.
DeleteFails ==
  /\ single.at # "none"
  /\ single' = NoSingle
  /\ UNCHANGED <<cited, fileList, desk, bulk, clearing, toast, unread>> /\ UNCHANGED Corpus

-----------------------------------------------------------------------------
(* Delete those ticked *)

HandleBulkDelete ==
  /\ desk.confirm = {"bulk"} /\ desk.ticked # {} /\ bulk.at = "none"
  /\ bulk' = [NoBulk EXCEPT !.at = "asked", !.ids = desk.ticked]
  /\ UNCHANGED <<cited, fileList, desk, single, clearing, toast, unread>> /\ UNCHANGED Corpus

BulkFinds ==
  /\ bulk.at = "asked" /\ Cardinality(bulk.ids) <= MaxBulk
  /\ bulk' = [bulk EXCEPT !.at = "found", !.found = @ \cup {d \in bulk.ids : FileExists(d)}]
  /\ UNCHANGED <<cited, fileList, desk, single, clearing, toast, unread>> /\ UNCHANGED Corpus

BulkDeletes ==
  /\ bulk.at = "found"
  /\ IF bulk.found = {} THEN UNCHANGED <<files, unread>>
     ELSE files' = FilesWithout(bulk.found) /\ unread' = TRUE
  /\ bulk' = [bulk EXCEPT !.at = "gone", !.left = bulk.found]
  /\ UNCHANGED <<chunkCount, cited, fileList, desk, single, clearing, toast>>

\* One document after the other.
BulkInvalidates(d, told) ==
  /\ bulk.at = "gone" /\ d \in bulk.left
  /\ cited' = IF told THEN cited \ {d} ELSE cited
  /\ bulk' = [bulk EXCEPT !.left = @ \ {d}]
  /\ UNCHANGED <<fileList, desk, single, clearing, toast, unread>> /\ UNCHANGED Corpus

\* The toast gives the number of ids sent, not of rows deleted.
BulkDeleted ==
  /\ bulk.at = "gone" /\ bulk.left = {}
  /\ Says("deleted", Cardinality(bulk.ids), Cardinality(bulk.found))
  /\ bulk' = NoBulk /\ desk' = [desk EXCEPT !.ticked = {}, !.confirm = @ \ {"bulk"}]
  /\ RefreshFiles
  /\ UNCHANGED <<cited, single, clearing>> /\ UNCHANGED Corpus

\* More ids than are accepted, or the call or its answer lost.
BulkFails ==
  /\ bulk.at # "none" /\ Says("error", 0, 0) /\ bulk' = NoBulk
  /\ UNCHANGED <<cited, fileList, desk, single, clearing, unread>> /\ UNCHANGED Corpus

-----------------------------------------------------------------------------
(* Clear the cache *)

HandleClearCache ==
  /\ desk.confirm = {"clear"} /\ clearing = "none" /\ clearing' = "asked"
  /\ UNCHANGED <<cited, fileList, desk, toast, unread>> /\ UNCHANGED Deletions /\ UNCHANGED Corpus

\* clearAll catches its failure and returns FALSE.
CacheCleared(ok) ==
  /\ clearing = "asked"
  /\ cited' = IF ok THEN {} ELSE cited
  /\ clearing' = IF ok THEN "emptied" ELSE "swallowed"
  /\ UNCHANGED <<fileList, desk, toast, unread>> /\ UNCHANGED Deletions /\ UNCHANGED Corpus

\* The page does not look at what was returned.
ClearAnswered ==
  /\ clearing \in {"emptied", "swallowed"}
  /\ Says("cleared", 1, IF clearing = "emptied" THEN 1 ELSE 0)
  /\ clearing' = "none" /\ desk' = [desk EXCEPT !.confirm = @ \ {"clear"}]
  /\ RefreshFiles
  /\ UNCHANGED cited /\ UNCHANGED Deletions /\ UNCHANGED Corpus

ClearFails ==
  /\ clearing # "none" /\ clearing' = "none" /\ Says("error", 0, 0)
  /\ UNCHANGED <<cited, fileList, desk, unread>> /\ UNCHANGED Deletions /\ UNCHANGED Corpus

-----------------------------------------------------------------------------
(* Elsewhere *)

\* A job has ingested d, anew or for the first time.
IngestedElsewhere(d, chunks) ==
  /\ files' = <<d>> \o FilesWithout({d}) /\ chunkCount' = [chunkCount EXCEPT ![d] = chunks]
  /\ cited' = cited \ {d} /\ unread' = TRUE
  /\ UNCHANGED <<fileList, desk, clearing, toast>> /\ UNCHANGED Deletions

FileDeletedElsewhere(d) ==
  /\ FileExists(d) /\ files' = FilesWithout({d}) /\ cited' = cited \ {d} /\ unread' = TRUE
  /\ UNCHANGED <<chunkCount, fileList, desk, clearing, toast>> /\ UNCHANGED Deletions

AnswerKept(d) ==
  /\ FileExists(d) /\ d \notin cited /\ cited' = cited \cup {d}
  /\ UNCHANGED <<fileList, desk, clearing, toast, unread>> /\ UNCHANGED Deletions /\ UNCHANGED Corpus

ListNext ==
  \/ ToggleSelectAll \/ CloseConfirm \/ ReadList \/ ListAnswered \/ ListLost \/ JobReported \/ DeleteFails
  \/ HandleBulkDelete \/ BulkFinds \/ BulkDeletes \/ BulkDeleted \/ BulkFails
  \/ HandleClearCache \/ ClearAnswered \/ ClearFails
  \/ \E on \in BOOLEAN : SearchFiles(on) \/ Deleted(on) \/ CacheCleared(on)
  \/ \E sort \in {"updated", "title", "chunks"} : SortBy(sort)
  \/ \E what \in {"bulk", "clear"} : AskConfirm(what)
  \/ \E d \in Files :
       \/ ToggleFile(d) \/ HandleDelete(d) \/ RowDeleted(d)
       \/ FileDeletedElsewhere(d) \/ AnswerKept(d)
       \/ \E told \in BOOLEAN : BulkInvalidates(d, told)
       \/ \E chunks \in 0..1 : IngestedElsewhere(d, chunks)

ListSpec == ListInit /\ [][ListNext]_listVars

-----------------------------------------------------------------------------

(* After a deletion of this page was answered, the list that is no longer  *)
(* being read is the list stored, whatever read was under way before,      *)
(* unless the reading failed, others changed documents after it, or the    *)
(* first read of all had been made before a job changed them.              *)
DocumentsAreStored == fileList.has /\ fileList.fetch = "none" /\ ~unread => fileList.data = StoredFiles

=============================================================================
