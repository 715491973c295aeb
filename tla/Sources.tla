------------------------------- MODULE Sources -------------------------------
(***************************************************************************)
(* The source browser, or the administrators' preview of a document (the   *)
(* modal): a list of documents read once, and the chunks of the chosen one *)
(* page after page, while the job worker ingests documents anew and        *)
(* administrators delete them.  A page is asked for with a cursor; loading *)
(* more and refreshing cancel each other.                                  *)
(***************************************************************************)
EXTENDS Integers, Sequences, FiniteSets, FiniteSetsExt, SequencesExt

CONSTANTS
  Sources,
  BlocksOf,   \* BlocksOf[d]: chunks of a whole ingestion of d
  ChunkPageSize,   \* limit of getChunks
  MaxIngestions  \* bound of the checking: ingestions of a document

ASSUME SourcesAssumption ==
  /\ IsFiniteSet(Sources) /\ BlocksOf \in [Sources -> 1..9]
  /\ ChunkPageSize \in Nat \ {0} /\ MaxIngestions \in Nat

VARIABLES
  documents,  \* rows of documents
  ingestion,  \* ingestion[d]: the last ingestion and the chunks it has committed
  listed,     \* source.list as the page has it
  sourceBrowser,    \* the page's own state
  chunkPages  \* chunkPages[d]: getChunks as the page has it

sourcesVars == <<documents, ingestion, listed, sourceBrowser, chunkPages>>

\* Ids grow with every ingestion.
IdOf(v, k) == 10 * v + k
VersionOfId(id) == id \div 10
ChunkIds == {IdOf(v, k) : v \in 0..MaxIngestions, k \in 1..9}

\* modal: which of the two it is; paged: one chunk at a time.
Browser == [modal : BOOLEAN, selected : SUBSET Sources, index : Nat, filtered : BOOLEAN, paged : BOOLEAN]
\* A page's items are shown in the order of their ids.
ChunkPage == [items : SUBSET ChunkIds, nextCursor : {0} \cup ChunkIds]
NoFetch == [kind |-> "none", read |-> <<>>]
Unread == [pages |-> <<>>, fetch |-> NoFetch]

SourcesTypeOK ==
  /\ documents \subseteq Sources /\ listed \subseteq Sources
  /\ ingestion \in [Sources -> [version : 0..MaxIngestions, blocks : 0..9]]
  /\ sourceBrowser \in Browser
  /\ chunkPages \in [Sources -> [pages : Seq(ChunkPage),
                       fetch : [kind : {"none", "more", "all"}, read : Seq(ChunkPage)]]]

SourcesInit ==
  /\ documents = Sources /\ listed = {}
  /\ ingestion = [d \in Sources |-> [version |-> 0, blocks |-> BlocksOf[d]]]
  /\ sourceBrowser \in [modal : BOOLEAN, selected : {{}}, index : {0}, filtered : {FALSE}, paged : {FALSE}]
  /\ chunkPages = [d \in Sources |-> Unread]

StoredSources == <<documents, ingestion>>

-----------------------------------------------------------------------------
(* getChunks *)

ChunkRows(d) ==
  IF d \in documents THEN {IdOf(ingestion[d].version, k) : k \in 1..ingestion[d].blocks} ELSE {}

\* Mutant: rows after the cursor, whether or not the cursor is still there.
RowsFromGreater(d, cursor) == {r \in ChunkRows(d) : cursor = 0 \/ r > cursor}

\* Prisma's cursor with skip 1: no rows when the row of the cursor is gone.
RowsFrom(d, cursor) ==
  {r \in ChunkRows(d) : cursor = 0 \/ (cursor \in ChunkRows(d) /\ r > cursor)}

\* One row more than the limit is read: its id is the next cursor.
GetChunks(d, cursor) ==
  LET rows == RowsFrom(d, cursor)
      page == {r \in rows : Cardinality({s \in rows : s < r}) < ChunkPageSize} IN
  [items |-> page, nextCursor |-> IF page = rows THEN 0 ELSE Min(rows \ page)]

-----------------------------------------------------------------------------
(* The page *)

PageItems(p) == UNION {p[i].items : i \in 1..Len(p)}
\* What the search within the document leaves, of an example text.
Matching(items, filtered) == {id \in items : ~filtered \/ id % 10 > 1}
InList(b, pages) ==
  UNION {Matching(PageItems(pages[d].pages), b.filtered) : d \in b.selected}
Count(b, pages) == Cardinality(InList(b, pages))

\* Mutant: the navigator is left where it was.
UnClamped(b, pages) == b

\* The effect behind every rendering keeps the navigator within its list.
Clamped(b, pages) == [b EXCEPT !.index = Min({@, Max({0, Count(b, pages) - 1})})]
Render(b, pages) == sourceBrowser' = Clamped(b, pages) /\ chunkPages' = pages

Chosen(d) == sourceBrowser.selected = {d}
HasNextPage(d) == chunkPages[d].pages # <<>> /\ Last(chunkPages[d].pages).nextCursor # 0
Fetching(d, kind) == [chunkPages EXCEPT ![d].fetch = [kind |-> kind, read |-> <<>>]]

LoadList == listed' = documents /\ UNCHANGED <<sourceBrowser, chunkPages>> /\ UNCHANGED StoredSources

\* Chunks not read yet, or read a minute ago, are read.
Viewed(d, stale) == IF chunkPages[d].fetch.kind = "none" /\ (stale \/ chunkPages[d].pages = <<>>)
                    THEN Fetching(d, "all") ELSE chunkPages

Choose(d, stale) ==
  /\ d \in listed /\ ~sourceBrowser.modal
  /\ Render([sourceBrowser EXCEPT !.selected = {d}], Viewed(d, stale))
  /\ UNCHANGED listed /\ UNCHANGED StoredSources

\* The modal covers the list and is mounted anew.
OpenModal(d, stale) ==
  /\ d \in listed /\ sourceBrowser.modal /\ sourceBrowser.selected = {}
  /\ Render([sourceBrowser EXCEPT !.selected = {d}, !.index = 0, !.paged = FALSE], Viewed(d, stale))
  /\ UNCHANGED listed /\ UNCHANGED StoredSources

Back ==
  /\ sourceBrowser.selected # {}
  /\ Render([sourceBrowser EXCEPT !.selected = {}], chunkPages)
  /\ UNCHANGED listed /\ UNCHANGED StoredSources

SetViewMode(paged) ==
  /\ sourceBrowser.selected # {} /\ sourceBrowser.paged # paged
  /\ Render([sourceBrowser EXCEPT !.paged = paged], chunkPages)
  /\ UNCHANGED listed /\ UNCHANGED StoredSources

SearchWithin(filtered) ==
  /\ sourceBrowser.filtered # filtered /\ ~sourceBrowser.modal
  /\ Render([sourceBrowser EXCEPT !.filtered = filtered], chunkPages)
  /\ UNCHANGED listed /\ UNCHANGED StoredSources

StepEnabled(delta) == sourceBrowser.index + delta \in 0..(Count(sourceBrowser, chunkPages) - 1)
GoTo(delta) == Render([sourceBrowser EXCEPT !.index = @ + delta], chunkPages)

GoToChunk(delta) ==
  /\ StepEnabled(delta) /\ ~sourceBrowser.modal /\ GoTo(delta)
  /\ UNCHANGED listed /\ UNCHANGED StoredSources

\* The modal's buttons are off at the ends only.
StepModal(delta) ==
  /\ sourceBrowser.modal /\ Count(sourceBrowser, chunkPages) > 1
  /\ sourceBrowser.index # (IF delta < 0 THEN 0 ELSE Count(sourceBrowser, chunkPages) - 1) /\ GoTo(delta)
  /\ UNCHANGED listed /\ UNCHANGED StoredSources

LoadMoreChunks(d) ==
  /\ Chosen(d) /\ HasNextPage(d) /\ chunkPages[d].fetch.kind # "more"
  /\ Render(sourceBrowser, Fetching(d, "more"))
  /\ UNCHANGED listed /\ UNCHANGED StoredSources

\* Invalidated: the list and the chunks in view are read again.
RefreshSources ==
  /\ ~sourceBrowser.modal /\ listed' = documents
  /\ Render(sourceBrowser, [d \in Sources |-> IF Chosen(d) THEN Fetching(d, "all")[d]
                                        ELSE chunkPages[d]])
  /\ UNCHANGED StoredSources

-----------------------------------------------------------------------------
(* Answers *)

Arrived(d, new) == Render(sourceBrowser, [chunkPages EXCEPT ![d] = new])

MoreArrives(d) ==
  LET pages == chunkPages[d].pages IN
  /\ chunkPages[d].fetch.kind = "more"
  /\ Arrived(d, [pages |-> Append(pages, GetChunks(d, Last(pages).nextCursor)),
                 fetch |-> NoFetch])
  /\ UNCHANGED listed /\ UNCHANGED StoredSources

\* As many pages as there were, one request after another.
PageArrives(d) ==
  LET read == chunkPages[d].fetch.read
      page == GetChunks(d, IF read = <<>> THEN 0 ELSE Last(read).nextCursor)
      all == Append(read, page) IN
  /\ chunkPages[d].fetch.kind = "all"
  /\ Arrived(d, IF page.nextCursor = 0 \/ Len(all) >= Len(chunkPages[d].pages)
                THEN [pages |-> all, fetch |-> NoFetch]
                ELSE [chunkPages[d] EXCEPT !.fetch.read = all])
  /\ UNCHANGED listed /\ UNCHANGED StoredSources

\* No such document, or no network: what was read stays.
FetchChunksFails(d) ==
  /\ chunkPages[d].fetch.kind # "none"
  /\ Arrived(d, [chunkPages[d] EXCEPT !.fetch = NoFetch])
  /\ UNCHANGED listed /\ UNCHANGED StoredSources

-----------------------------------------------------------------------------
(* Meanwhile *)

PageState == <<listed, sourceBrowser, chunkPages>>

\* The parents and with them the chunks go, in the transaction that starts anew; a
\* document deleted and added again is another one.
StartOver(d) ==
  /\ d \in documents /\ ingestion[d].version < MaxIngestions
  /\ ingestion' = [ingestion EXCEPT ![d] = [version |-> @.version + 1, blocks |-> 0]]
  /\ UNCHANGED documents /\ UNCHANGED PageState

CommitBlock(d) ==
  /\ d \in documents /\ ingestion[d].blocks < BlocksOf[d]
  /\ ingestion' = [ingestion EXCEPT ![d].blocks = @ + 1]
  /\ UNCHANGED documents /\ UNCHANGED PageState

DeleteDocument(d) ==
  /\ d \in documents
  /\ documents' = documents \ {d}
  /\ ingestion' = [ingestion EXCEPT ![d].blocks = 0]
  /\ UNCHANGED PageState

SourcesNext ==
  \/ LoadList \/ Back \/ RefreshSources
  \/ \E d \in Sources, stale \in BOOLEAN : Choose(d, stale) \/ OpenModal(d, stale)
  \/ \E on \in BOOLEAN : SearchWithin(on) \/ SetViewMode(on)
  \/ \E delta \in {-1, 1} : GoToChunk(delta) \/ StepModal(delta)
  \/ \E d \in Sources :
       \/ LoadMoreChunks(d) \/ MoreArrives(d) \/ PageArrives(d) \/ FetchChunksFails(d)
       \/ StartOver(d) \/ CommitBlock(d) \/ DeleteDocument(d)

SourcesSpec == SourcesInit /\ [][SourcesNext]_sourcesVars

-----------------------------------------------------------------------------

ShownChunks(d) == PageItems(chunkPages[d].pages)

(* However documents are ingested anew between the pages of a list, the    *)
(* chunks shown are those of one ingestion, each once and in its order.    *)
OneIngestion == \A d \in Sources :
  LET pages == chunkPages[d].pages IN
  /\ \A i, j \in 1..Len(pages) : i < j =>
       \A a \in pages[i].items, b \in pages[j].items : a < b
  /\ \A a, b \in ShownChunks(d) : VersionOfId(a) = VersionOfId(b)

ChunksInView ==
  LET items == InList(sourceBrowser, chunkPages)
      one == {c \in items : Cardinality({x \in items : x < c}) = sourceBrowser.index}
  IN  IF sourceBrowser.paged /\ one # {} THEN one ELSE items

(* However the chunks shrink or are searched, one at a time shows one as   *)
(* long as there is any, and not the whole document.                       *)
PagedShowsOne == sourceBrowser.paged => Cardinality(ChunksInView) = Min({1, Count(sourceBrowser, chunkPages)})

SourcesInv == SourcesTypeOK /\ OneIngestion /\ PagedShowsOne

(* "Paginated chunks for a source": when there is nothing more to load,    *)
(* every chunk of a document that nothing replaced is shown.               *)
ChunksWhole == \A d \in Sources :
  LET pages == chunkPages[d].pages IN
  pages # <<>> /\ Last(pages).nextCursor = 0 /\ d \in documents /\ ingestion[d].version = 0
    => Cardinality(ShownChunks(d)) = BlocksOf[d]
=============================================================================
