---------------------------- MODULE HistoryList ----------------------------
(***************************************************************************)
(* The history page (useHistoryList) against conversation.list, .delete,   *)
(* .deleteMany, .clearAll and .restore of its user.  The list is paged by  *)
(* (updatedAt, id), and every update of a conversation, here or in another *)
(* tab, moves it to the top (@updatedAt).                                  *)
(***************************************************************************)
EXTENDS Integers, Sequences, FiniteSets

CONSTANTS
  Items,     \* conversations of the user; numbers, as ids are ordered
  PageSize,  \* limit
  ModeOf,    \* ModeOf[c]: "standard" or "agentic"; what the filter is on
  MaxNow     \* bound: moments at which something is updated

ASSUME HistoryAssumption ==
  /\ Items \subseteq Nat /\ IsFiniteSet(Items)
  /\ PageSize \in Nat \ {0} /\ MaxNow \in Nat \ {0}
  /\ ModeOf \in [Items -> {"standard", "agentic"}]

VARIABLES
  stored,  \* stored[c]: updatedAt, and whether deletedAt is null
  now,     \* the clock of updatedAt
  list,    \* the pages loaded, and where the next one starts
  refetch, \* a refresh under way
  filter,  \* modeFilter and dateRange
  picked,  \* selectMode and selected
  confirm, \* confirmClearAll
  undo,    \* conversations whose toast offers to undo
  preview  \* the conversation in the quick preview

historyVars == <<stored, now, list, refetch, filter, picked, confirm, undo, preview>>

Modes == {"all", "standard", "agentic"}
Key == (0..MaxNow) \X Items
NoCursor == <<-1, 0>>

\* since: the clock when the first page was read.
Loaded == [pages : Seq(SUBSET Key), cursor : Key \cup {NoCursor}, since : 0..MaxNow]
Unloaded == [pages |-> <<>>, cursor |-> NoCursor, since |-> 0]

HistoryTypeOK ==
  /\ stored \in [Items -> [at : 0..MaxNow, here : BOOLEAN]]
  /\ now \in 0..MaxNow
  /\ list \in Loaded
  /\ refetch \in [left : Nat, got : Loaded]
  /\ filter \in [mode : Modes, recent : BOOLEAN]
  /\ picked \in [on : BOOLEAN, ids : SUBSET Items]
  /\ confirm \in BOOLEAN
  /\ undo \subseteq Items
  /\ preview \in {{}} \cup {{c} : c \in Items}

NoRefetch == [left |-> 0, got |-> Unloaded]

HistoryInit ==
  /\ stored \in [Items -> [at : {0, 1} \cap (0..MaxNow), here : {TRUE}]]
  /\ now = 1
  /\ list = Unloaded
  /\ refetch = NoRefetch
  /\ filter = [mode |-> "all", recent |-> FALSE]
  /\ picked = [on |-> FALSE, ids |-> {}]
  /\ confirm = FALSE
  /\ undo = {} /\ preview = {}

-----------------------------------------------------------------------------
(* conversation.list *)

KeyOf(c) == <<stored[c].at, c>>
Below(k, l) == k[1] < l[1] \/ (k[1] = l[1] /\ k[2] < l[2])
MatchesMode(c) == filter.mode \in {"all", ModeOf[c]}

\* Mutant: the cursor's own row is read again.
AfterOrAt(cursor) ==
  {c \in Items : stored[c].here /\ MatchesMode(c) /\
                 (cursor = NoCursor \/ ~Below(cursor, KeyOf(c)))}

After(cursor) ==
  {c \in Items : stored[c].here /\ MatchesMode(c) /\
                 (cursor = NoCursor \/ Below(KeyOf(c), cursor))}

Page(cursor) ==
  {c \in After(cursor) :
     Cardinality({d \in After(cursor) : Below(KeyOf(c), KeyOf(d))}) < PageSize}

\* Mutant: the cursor is the row after the page, which the next one leaves out.
NextCursorSkips(cursor) ==
  IF Page(cursor) = After(cursor) THEN NoCursor
  ELSE KeyOf(CHOOSE c \in After(cursor) \ Page(cursor) :
         \A d \in After(cursor) \ Page(cursor) : ~Below(KeyOf(c), KeyOf(d)))

\* The last row of a page that is not the last.
NextCursor(cursor) ==
  IF Page(cursor) = After(cursor) THEN NoCursor
  ELSE KeyOf(CHOOSE c \in Page(cursor) : \A d \in Page(cursor) : ~Below(KeyOf(d), KeyOf(c)))

\* l with one more page.
WithPage(l) ==
  [pages |-> Append(l.pages, {KeyOf(c) : c \in Page(l.cursor)}), cursor |-> NextCursor(l.cursor),
   since |-> IF l.pages = <<>> THEN now ELSE l.since]

HasNext(l) == l.pages = <<>> \/ l.cursor # NoCursor
Complete(l) == l.pages # <<>> /\ l.cursor = NoCursor

-----------------------------------------------------------------------------
(* Loading *)

Selecting == <<filter, picked, confirm, undo, preview>>
Rows == <<stored, now>>

\* The first page, or the next when the end of the list is scrolled to; that
\* cancels a refresh.
FetchPage ==
  /\ HasNext(list)
  /\ list' = WithPage(list)
  /\ refetch' = NoRefetch
  /\ UNCHANGED Rows /\ UNCHANGED Selecting

\* refresh: as many pages as there were are read again, one by one ...
Refresh == refetch' = [left |-> Len(list.pages), got |-> Unloaded]

RefetchPage ==
  /\ refetch.left > 0 /\ HasNext(refetch.got)
  /\ refetch' = [left |-> refetch.left - 1, got |-> WithPage(refetch.got)]
  /\ UNCHANGED Rows /\ UNCHANGED Selecting /\ UNCHANGED list

\* ... and replace the old ones together.
RefetchEnds ==
  /\ refetch.got.pages # <<>>
  /\ refetch.left = 0 \/ ~HasNext(refetch.got)
  /\ list' = refetch.got
  /\ refetch' = NoRefetch
  /\ UNCHANGED Rows /\ UNCHANGED Selecting

\* Another filter is another query.
FilterBy(mode) ==
  /\ mode # filter.mode
  /\ filter' = [filter EXCEPT !.mode = mode]
  /\ list' = Unloaded /\ refetch' = NoRefetch
  /\ UNCHANGED Rows /\ UNCHANGED <<picked, confirm, undo, preview>>

FilterByDate ==
  /\ filter' = [filter EXCEPT !.recent = ~@]
  /\ UNCHANGED Rows /\ UNCHANGED <<list, refetch, picked, confirm, undo, preview>>

-----------------------------------------------------------------------------
(* Updates *)

\* updateMany: every row of S at the same moment, perhaps that of the last update.
Update(S, here) ==
  \E at \in {now, now + 1} \cap (0..MaxNow) :
    /\ now' = at
    /\ stored' = [c \in Items |-> IF c \in S THEN [at |-> at, here |-> here] ELSE stored[c]]

\* A turn, a new title or a pin, in this tab or another.
Touch(c) ==
  /\ stored[c].here
  /\ Update({c}, TRUE)
  /\ UNCHANGED Selecting /\ UNCHANGED <<list, refetch>>

\* What the tab shows of the pages; the date range goes by the updatedAt it knows.
Ids(page) == {k[2] : k \in page}
WithinRange(key) == filter.recent => key[1] > 0
Shown ==
  {k[2] : k \in {l \in UNION {list.pages[i] : i \in 1..Len(list.pages)} : WithinRange(l)}}
PickedShown == Shown \cap picked.ids

\* A row has a box in select mode, and otherwise its buttons.
HasBox(c) == picked.on /\ c \in Shown
HasButtons(c) == ~picked.on /\ c \in Shown
CanClearAll == Shown # {}
CanDelete == PickedShown # {}

DeleteWithUndo(c) ==
  /\ HasButtons(c)
  /\ Update({c}, FALSE)
  /\ Refresh
  /\ undo' = undo \cup {c}
  /\ UNCHANGED <<list, filter, picked, confirm, preview>>

Undo(c) ==
  /\ c \in undo
  /\ Update({c}, TRUE)
  /\ Refresh
  /\ undo' = undo \ {c}
  /\ UNCHANGED <<list, filter, picked, confirm, preview>>

SelectMode ==
  /\ picked' = [on |-> ~picked.on, ids |-> {}]
  /\ UNCHANGED Rows /\ UNCHANGED <<list, refetch, filter, confirm, undo, preview>>

ToggleSelect(c) ==
  /\ HasBox(c)
  /\ picked' = [picked EXCEPT !.ids = (@ \ {c}) \cup ({c} \ @)]
  /\ UNCHANGED Rows /\ UNCHANGED <<list, refetch, filter, confirm, undo, preview>>

SelectAllShown ==
  /\ picked.on /\ Shown # {}
  /\ picked' = [picked EXCEPT !.ids = IF PickedShown = Shown THEN {} ELSE Shown]
  /\ UNCHANGED Rows /\ UNCHANGED <<list, refetch, filter, confirm, undo, preview>>

\* The button needs a selected item on the page, and deletes all selected ones.
DeleteSelected ==
  /\ CanDelete
  /\ Update(picked.ids, FALSE)
  /\ Refresh
  /\ picked' = [on |-> FALSE, ids |-> {}]
  /\ UNCHANGED <<list, filter, confirm, undo, preview>>

\* The first click arms the button for four seconds.
Arm ==
  /\ CanClearAll /\ ~confirm
  /\ confirm' = TRUE
  /\ UNCHANGED Rows /\ UNCHANGED <<list, refetch, filter, picked, undo, preview>>

Disarm ==
  /\ confirm
  /\ confirm' = FALSE
  /\ UNCHANGED Rows /\ UNCHANGED <<list, refetch, filter, picked, undo, preview>>

\* clearAll: by the mode of this moment; the date range is the client's only.
ClearAllShown ==
  /\ CanClearAll /\ confirm
  /\ Update({c \in Items : stored[c].here /\ MatchesMode(c)}, FALSE)
  /\ Refresh
  /\ confirm' = FALSE
  /\ UNCHANGED <<list, filter, picked, undo, preview>>

Preview(c) ==
  /\ HasButtons(c) /\ preview' = {c}
  /\ UNCHANGED Rows /\ UNCHANGED <<list, refetch, filter, picked, confirm, undo>>

ClosePreview ==
  /\ preview # {} /\ preview' = {}
  /\ UNCHANGED Rows /\ UNCHANGED <<list, refetch, filter, picked, confirm, undo>>

\* A document is loaded, and the state of the page lost.
Leave ==
  /\ list' = Unloaded /\ refetch' = NoRefetch
  /\ filter' = [mode |-> "all", recent |-> FALSE] /\ picked' = [on |-> FALSE, ids |-> {}]
  /\ confirm' = FALSE /\ undo' = {} /\ preview' = {}
  /\ UNCHANGED Rows

\* A click on the row, and Enter or the space bar on the row, its box or its
\* buttons: the key bubbles to the row, which prevents the button's own click.
OpenItem(c) == c \in Shown /\ preview = {} /\ Leave
OpenPreviewed == preview # {} /\ Leave

HistoryNext ==
  \/ ClosePreview \/ OpenPreviewed
  \/ FetchPage \/ RefetchPage \/ RefetchEnds
  \/ \E mode \in Modes : FilterBy(mode)
  \/ FilterByDate \/ SelectMode \/ SelectAllShown \/ DeleteSelected
  \/ Arm \/ Disarm \/ ClearAllShown
  \/ \E c \in Items : Touch(c) \/ DeleteWithUndo(c) \/ Undo(c) \/ ToggleSelect(c) \/ Preview(c) \/ OpenItem(c)

HistorySpec == HistoryInit /\ [][HistoryNext]_historyVars

-----------------------------------------------------------------------------
(* Properties *)

\* However conversations move while the pages are loaded, one is never listed
\* twice (React would drop or double a row), ...
NoItemTwice ==
  \A i, j \in 1..Len(list.pages) : i # j => Ids(list.pages[i]) \cap Ids(list.pages[j]) = {}

\* ... and one that the whole list leaves out has been updated since its first
\* page was read: it has moved to the top.
MissedOnlyIfMoved ==
  Complete(list) => \A c \in Items :
    stored[c].here /\ MatchesMode(c) /\ (\A i \in 1..Len(list.pages) : c \notin Ids(list.pages[i]))
      => stored[c].at >= list.since

HistoryInv == NoItemTwice /\ MissedOnlyIfMoved

=============================================================================
