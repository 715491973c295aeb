-------------------------------- MODULE Sidebar --------------------------------
(***************************************************************************)
(* The sidebar of the chat pages: the list of the user's conversations by  *)
(* age, with pins kept in the browser, inline rename and delete, and the   *)
(* command palette.  The layout mounts it twice, as a bar and, while it    *)
(* is open, as a drawer: both show one cached list, but each has its own   *)
(* copy of the pins and its own row state.  Modelled without the search    *)
(* and without a second page of the list.                                  *)
(***************************************************************************)
EXTENDS Integers, Sequences, FiniteSets, SequencesExt

CONSTANTS
  Chats,
  ChatTitles,      \* titles a user may give
  NewTitle,    \* "New conversation"
  PaletteFilter,    \* Filtered[q]: the palette's commands that match the text q
  AllCommands, \* the empty text
  MaxDay       \* bound of the checking: days that pass

ASSUME SidebarAssumption ==
  /\ IsFiniteSet(Chats) /\ IsFiniteSet(ChatTitles) /\ NewTitle \notin ChatTitles
  /\ AllCommands \in DOMAIN PaletteFilter /\ MaxDay \in Nat
  /\ \A text \in DOMAIN PaletteFilter : PaletteFilter[text] \in Seq(STRING)

VARIABLES
  chats,    \* chats[c]: the row of a conversation
  recent,   \* those stored, the one updated last first
  today,
  chatList, \* conversation.list as the query cache has it
  bars,     \* bars[b]: an instance of AppSidebar
  pinStore, \* the pins in localStorage
  titleCall,\* titleCall[c]: an updateTitle or delete under way
  asking,   \* asking[c]: the title a chat turn has read and will write back
  palette,
  tapped,   \* history: conversations whose Delete was tapped, until answered
  untold    \* history: the list changed and the cache reads nothing newer on its own

sidebarVars == <<chats, recent, today, chatList, bars, pinStore, titleCall, asking, palette, tapped, untold>>

Bars == {"bar", "drawer"}
AllTitles == ChatTitles \cup {NewTitle}
Chat == [stored : BOOLEAN, title : AllTitles, day : 0..MaxDay, deleted : BOOLEAN]
NoChat == [stored |-> FALSE, title |-> NewTitle, day |-> 0, deleted |-> FALSE]

\* An entry is what list returns of a conversation.
ChatEntry == [chat : Chats, title : AllTitles, day : 0..MaxDay]
ChatList == [has : BOOLEAN, data : Seq(ChatEntry), stale : BOOLEAN, fetch : {"none", "asked", "read"},
             read : Seq(ChatEntry)]

\* What survives as long as its row is mounted; calling: the call under way for its
\* conversation is this row's.
RowState == [is : {"gone", "plain", "editing", "confirming"}, draft : AllTitles, calling : BOOLEAN]
Gone == [is |-> "gone", draft |-> NewTitle, calling |-> FALSE]

\* grouped: the day on which the groups were computed (useMemo).
Bar == [open : BOOLEAN, pins : SUBSET Chats, grouped : 0..MaxDay, rowOf : [Chats -> RowState]]

TitleCall == [kind : {"none", "rename", "delete"}, title : AllTitles]
NoCall == [kind |-> "none", title |-> NewTitle]

Palette == [open : BOOLEAN, text : DOMAIN PaletteFilter, active : Nat]

SidebarTypeOK ==
  /\ chats \in [Chats -> Chat] /\ recent \in Seq(Chats) /\ today \in 0..MaxDay
  /\ chatList \in ChatList /\ bars \in [Bars -> Bar] /\ pinStore \subseteq Chats
  /\ titleCall \in [Chats -> TitleCall] /\ asking \in [Chats -> SUBSET AllTitles]
  /\ palette \in Palette /\ tapped \subseteq Chats /\ untold \in BOOLEAN

SidebarInit ==
  /\ chats = [c \in Chats |-> NoChat] /\ recent = <<>> /\ today = 0
  /\ chatList = [has |-> FALSE, data |-> <<>>, stale |-> FALSE, fetch |-> "asked", read |-> <<>>]
  /\ bars = [b \in Bars |-> [open |-> b = "bar", pins |-> {}, grouped |-> 0, rowOf |-> [c \in Chats |-> Gone]]]
  /\ pinStore = {} /\ titleCall = [c \in Chats |-> NoCall] /\ asking = [c \in Chats |-> {}]
  /\ palette = [open |-> FALSE, text |-> AllCommands, active |-> 0]
  /\ tapped = {} /\ untold = FALSE

Stored == <<chats, recent>>
Shell == <<today, palette, tapped>>

-----------------------------------------------------------------------------
(* The groups *)

GroupKeys == <<"today", "yesterday", "previous7", "older">>
GroupOf(entry, day) ==
  IF entry.day >= day THEN "today"
  ELSE IF entry.day >= day - 1 THEN "yesterday"
  ELSE IF entry.day >= day - 7 THEN "previous7" ELSE "older"

\* Mutant: the pinned come first, and again in their place.
GroupItemsTwice(key, data, pins, day) ==
  LET inGroup == SelectSeq(data, LAMBDA e : GroupOf(e, day) = key)
  IN  SelectSeq(inGroup, LAMBDA e : e.chat \in pins) \o inGroup

GroupItems(key, data, pins, day) ==
  LET inGroup == SelectSeq(data, LAMBDA e : GroupOf(e, day) = key)
  IN  SelectSeq(inGroup, LAMBDA e : e.chat \in pins) \o SelectSeq(inGroup, LAMBDA e : e.chat \notin pins)

Groups(data, pins, day) ==
  LET nonEmpty == SelectSeq(GroupKeys, LAMBDA key : GroupItems(key, data, pins, day) # <<>>)
  IN  [i \in DOMAIN nonEmpty |-> [key |-> nonEmpty[i], items |-> GroupItems(nonEmpty[i], data, pins, day)]]

EntriesOf(data, c) == {e \in Range(data) : e.chat = c}
TitleShown(c) == (CHOOSE e \in EntriesOf(chatList.data, c) : TRUE).title

\* A row is mounted anew when its conversation appears or changes its group.
Mounted(bar, data, newData, day) ==
  [c \in Chats |->
     LET old == EntriesOf(data, c)
         new == EntriesOf(newData, c)
         stays == \E e \in old, f \in new : GroupOf(e, bar.grouped) = GroupOf(f, day)
     IN  IF new = {} \/ ~bar.open THEN Gone
         ELSE IF stays /\ bar.rowOf[c].is # "gone" THEN bar.rowOf[c]
         ELSE [is |-> "plain", draft |-> (CHOOSE f \in new : TRUE).title, calling |-> FALSE]]

Rendered(bar, data, newData) ==
  [bar EXCEPT !.rowOf = Mounted(bar, data, newData, today), !.grouped = IF bar.open THEN today ELSE 0]

-----------------------------------------------------------------------------
(* The list *)

ListingOf(order, rows) ==
  LET live == SelectSeq(order, LAMBDA c : ~rows[c].deleted)
  IN  [i \in DOMAIN live |-> [chat |-> live[i], title |-> rows[live[i]].title, day |-> rows[live[i]].day]]
Listing == ListingOf(recent, chats)

\* A first load that is under way is joined, and may have read before the change;
\* any other is cancelled and sent again.
JoinsFirstLoad == ~chatList.has /\ chatList.fetch # "none"
InvalidateList ==
  /\ chatList' = IF JoinsFirstLoad THEN [chatList EXCEPT !.stale = TRUE]
                 ELSE [chatList EXCEPT !.stale = TRUE, !.fetch = "asked", !.read = <<>>]
  /\ untold' = (untold \/ (JoinsFirstLoad /\ chatList.fetch = "read"))

ListReads ==
  /\ chatList.fetch = "asked"
  /\ chatList' = [chatList EXCEPT !.fetch = "read", !.read = Listing]
  /\ untold' = FALSE
  /\ UNCHANGED <<bars, pinStore, titleCall, asking>> /\ UNCHANGED Stored /\ UNCHANGED Shell

\* Equal data is no change, and then nothing is grouped anew.
ListArrives ==
  /\ chatList.fetch = "read"
  /\ chatList' = [has |-> TRUE, data |-> chatList.read, stale |-> FALSE, fetch |-> "none", read |-> <<>>]
  /\ bars' = IF chatList.has /\ chatList.read = chatList.data THEN bars
             ELSE [b \in Bars |-> Rendered(bars[b], chatList.data, chatList.read)]
  /\ UNCHANGED <<pinStore, titleCall, asking, untold>> /\ UNCHANGED Stored /\ UNCHANGED Shell

ListFails ==
  /\ chatList.fetch # "none"
  /\ chatList' = [chatList EXCEPT !.fetch = "none", !.read = <<>>, !.stale = TRUE]
  /\ UNCHANGED <<bars, pinStore, titleCall, asking, untold>> /\ UNCHANGED Stored /\ UNCHANGED Shell

\* The drawer is mounted with the pins of the store and the list of the cache.
OpenDrawer(old) ==
  LET drawer == [bars["drawer"] EXCEPT !.open = TRUE, !.pins = pinStore] IN
  /\ ~bars["drawer"].open
  /\ bars' = [bars EXCEPT !["drawer"] = Rendered(drawer, <<>>, chatList.data)]
  /\ chatList' = IF (old \/ chatList.stale) /\ chatList.fetch = "none"
                 THEN [chatList EXCEPT !.fetch = "asked"] ELSE chatList
  /\ tapped' = {}
  /\ UNCHANGED <<pinStore, titleCall, asking, today, palette, untold>> /\ UNCHANGED Stored

ClosedDrawer == [open |-> FALSE, pins |-> {}, grouped |-> 0, rowOf |-> [c \in Chats |-> Gone]]

\* Escape, a navigation, or a press anywhere outside the panel.
CloseDrawer ==
  /\ bars["drawer"].open
  /\ bars' = [bars EXCEPT !["drawer"] = ClosedDrawer]
  /\ UNCHANGED <<chatList, pinStore, titleCall, asking, untold>> /\ UNCHANGED Stored /\ UNCHANGED Shell

TogglePin(b, c) ==
  LET bar == bars[b]
      pins == IF c \in bar.pins THEN bar.pins \ {c} ELSE bar.pins \cup {c}
      regrouped == Rendered(bar, chatList.data, chatList.data)
  IN
  /\ bar.rowOf[c].is = "plain"
  /\ pinStore' = pins
  /\ bars' = [bars EXCEPT ![b] = [regrouped EXCEPT !.pins = pins]]
  /\ UNCHANGED <<chatList, titleCall, asking, untold>> /\ UNCHANGED Stored /\ UNCHANGED Shell

DayPasses(days) ==
  /\ today + days <= MaxDay
  /\ today' = today + days
  /\ UNCHANGED <<chatList, bars, pinStore, titleCall, asking, palette, tapped, untold>> /\ UNCHANGED Stored

-----------------------------------------------------------------------------
(* Rename and delete *)

SetRow(b, c, row) == bars' = [bars EXCEPT ![b].rowOf[c] = row]
RowIs(b, c, is) == bars[b].rowOf[c].is = is

StartRename(b, c) ==
  /\ RowIs(b, c, "plain") /\ SetRow(b, c, [bars[b].rowOf[c] EXCEPT !.is = "editing"])
  /\ UNCHANGED <<chatList, pinStore, titleCall, asking, untold>> /\ UNCHANGED Stored /\ UNCHANGED Shell

TypeTitle(b, c, title) ==
  /\ RowIs(b, c, "editing") /\ title # bars[b].rowOf[c].draft
  /\ SetRow(b, c, [bars[b].rowOf[c] EXCEPT !.draft = title])
  /\ UNCHANGED <<chatList, pinStore, titleCall, asking, untold>> /\ UNCHANGED Stored /\ UNCHANGED Shell

CancelRename(b, c) ==
  /\ RowIs(b, c, "editing") /\ SetRow(b, c, [bars[b].rowOf[c] EXCEPT !.is = "plain", !.draft = TitleShown(c)])
  /\ UNCHANGED <<chatList, pinStore, titleCall, asking, untold>> /\ UNCHANGED Stored /\ UNCHANGED Shell

\* Enter, the tick, and whatever takes the focus away, the cross included.  One
\* call per conversation at a time (a bound of the checking).
SaveRename(b, c) ==
  LET draft == bars[b].rowOf[c].draft IN
  /\ RowIs(b, c, "editing") /\ titleCall[c].kind = "none"
  /\ SetRow(b, c, [bars[b].rowOf[c] EXCEPT !.is = "plain", !.calling = (draft # TitleShown(c))])
  /\ titleCall' = IF draft = TitleShown(c) THEN titleCall
                  ELSE [titleCall EXCEPT ![c] = [kind |-> "rename", title |-> draft]]
  /\ UNCHANGED <<chatList, pinStore, asking, untold>> /\ UNCHANGED Stored /\ UNCHANGED Shell

AskDelete(b, c) ==
  /\ RowIs(b, c, "plain") /\ SetRow(b, c, [bars[b].rowOf[c] EXCEPT !.is = "confirming"])
  /\ UNCHANGED <<chatList, pinStore, titleCall, asking, untold>> /\ UNCHANGED Stored /\ UNCHANGED Shell

KeepChat(b, c) ==
  /\ RowIs(b, c, "confirming") /\ SetRow(b, c, [bars[b].rowOf[c] EXCEPT !.is = "plain"])
  /\ UNCHANGED <<chatList, pinStore, titleCall, asking, untold>> /\ UNCHANGED Stored /\ UNCHANGED Shell

RemoveChat(b, c) ==
  /\ RowIs(b, c, "confirming") /\ titleCall[c].kind = "none"
  /\ SetRow(b, c, [bars[b].rowOf[c] EXCEPT !.is = "plain", !.calling = TRUE])
  /\ titleCall' = [titleCall EXCEPT ![c].kind = "delete"]
  /\ UNCHANGED <<chatList, pinStore, asking, untold>> /\ UNCHANGED Stored /\ UNCHANGED Shell

\* The pointer: the dialog is a portal, outside the drawer's panel, and the press
\* closes the drawer and the dialog with it before it is a click.
TapDelete(b, c) ==
  /\ RowIs(b, c, "confirming") /\ titleCall[c].kind = "none"
  /\ tapped' = {c}
  /\ IF b = "drawer"
     THEN bars' = [bars EXCEPT ![b] = ClosedDrawer] /\ titleCall' = titleCall
     ELSE /\ SetRow(b, c, [bars[b].rowOf[c] EXCEPT !.is = "plain", !.calling = TRUE])
          /\ titleCall' = [titleCall EXCEPT ![c].kind = "delete"]
  /\ UNCHANGED <<chatList, pinStore, asking, today, palette, untold>> /\ UNCHANGED Stored

\* The row is updated, and so the newest.
Updated(c, row) ==
  /\ chats' = [chats EXCEPT ![c] = [row EXCEPT !.day = today]]
  /\ recent' = <<c>> \o SelectSeq(recent, LAMBDA d : d # c)

\* Mutant: the list is left to its age.
AnswersQuietly(c) == chatList' = chatList /\ untold' = untold

\* What the call does on success belongs to the row that made it, and is left out
\* when that row is gone: another of the same conversation does not do it instead.
TitleAnswers(c) ==
  IF \E b \in Bars : bars[b].rowOf[c].calling THEN InvalidateList
  ELSE chatList' = chatList /\ untold' = TRUE

NobodyCalls(c) == bars' = [b \in Bars |-> [bars[b] EXCEPT !.rowOf[c].calling = FALSE]]

CallAnswered(c) ==
  /\ titleCall[c].kind # "none"
  /\ titleCall' = [titleCall EXCEPT ![c] = NoCall]
  /\ Updated(c, IF titleCall[c].kind = "delete" THEN [chats[c] EXCEPT !.deleted = TRUE]
                ELSE [chats[c] EXCEPT !.title = titleCall[c].title])
  /\ TitleAnswers(c) /\ NobodyCalls(c) /\ tapped' = {}
  /\ UNCHANGED <<pinStore, asking, today, palette>>

CallFails(c) ==
  /\ titleCall[c].kind # "none"
  /\ titleCall' = [titleCall EXCEPT ![c] = NoCall] /\ NobodyCalls(c) /\ tapped' = {}
  /\ UNCHANGED <<chatList, pinStore, asking, today, palette, untold>> /\ UNCHANGED Stored

-----------------------------------------------------------------------------
(* Turns and other tabs *)

Store(c) ==
  /\ ~chats[c].stored
  /\ chats' = [chats EXCEPT ![c] = [NoChat EXCEPT !.stored = TRUE, !.day = today]]
  /\ recent' = <<c>> \o recent

\* A new chat stores its conversation before its first turn.
CreateChat(c) ==
  /\ Store(c) /\ untold' = TRUE
  /\ UNCHANGED <<chatList, bars, pinStore, titleCall, asking>> /\ UNCHANGED Shell

TurnReads(c) ==
  /\ chats[c].stored /\ asking[c] = {}
  /\ asking' = [asking EXCEPT ![c] = {chats[c].title}]
  /\ UNCHANGED <<chatList, bars, pinStore, titleCall, untold>> /\ UNCHANGED Stored /\ UNCHANGED Shell

\* The title read is written back; the first question gives one.
TurnWrites(c, title) ==
  /\ asking[c] # {} /\ (NewTitle \in asking[c] \/ title \in asking[c])
  /\ asking' = [asking EXCEPT ![c] = {}]
  /\ Updated(c, [chats[c] EXCEPT !.title = title])
  /\ InvalidateList
  /\ UNCHANGED <<bars, pinStore, titleCall>> /\ UNCHANGED Shell

DeletedElsewhere(c) ==
  /\ chats[c].stored /\ ~chats[c].deleted
  /\ Updated(c, [chats[c] EXCEPT !.deleted = TRUE]) /\ untold' = TRUE
  /\ UNCHANGED <<chatList, bars, pinStore, titleCall, asking>> /\ UNCHANGED Shell

-----------------------------------------------------------------------------
(* The command palette *)

Commands == PaletteFilter[palette.text]

\* Ctrl+K.
TogglePalette ==
  /\ palette' = [open |-> ~palette.open, text |-> AllCommands, active |-> 0]
  /\ UNCHANGED <<chatList, bars, pinStore, titleCall, asking, today, tapped, untold>> /\ UNCHANGED Stored

\* Mutant: the selection stays where it was.
TypeCommandKeeping(text) ==
  /\ palette.open /\ text # palette.text
  /\ palette' = [palette EXCEPT !.text = text]
  /\ UNCHANGED <<chatList, bars, pinStore, titleCall, asking, today, tapped, untold>> /\ UNCHANGED Stored

TypeCommand(text) ==
  /\ palette.open /\ text # palette.text
  /\ palette' = [palette EXCEPT !.text = text, !.active = 0]
  /\ UNCHANGED <<chatList, bars, pinStore, titleCall, asking, today, tapped, untold>> /\ UNCHANGED Stored

ArrowKey(step) ==
  /\ palette.open /\ Commands # <<>>
  /\ palette' = [palette EXCEPT !.active = (@ + step + Len(Commands)) % Len(Commands)]
  /\ UNCHANGED <<chatList, bars, pinStore, titleCall, asking, today, tapped, untold>> /\ UNCHANGED Stored

HoverCommand(i) ==
  /\ palette.open /\ i < Len(Commands) /\ i # palette.active
  /\ palette' = [palette EXCEPT !.active = i]
  /\ UNCHANGED <<chatList, bars, pinStore, titleCall, asking, today, tapped, untold>> /\ UNCHANGED Stored

ClosePalette ==
  /\ palette.open
  /\ palette' = [palette EXCEPT !.open = FALSE, !.text = AllCommands, !.active = 0]
  /\ UNCHANGED <<chatList, bars, pinStore, titleCall, asking, today, tapped, untold>> /\ UNCHANGED Stored

\* "Start a new chat" stores an empty conversation and tells no cache; the other
\* commands leave the page or change the theme.
RunCommand(c) ==
  /\ palette.open /\ palette.active < Len(Commands)
  /\ palette' = [open |-> FALSE, text |-> AllCommands, active |-> 0]
  /\ IF Commands[palette.active + 1] = "new-chat" THEN Store(c) /\ untold' = TRUE
     ELSE UNCHANGED untold /\ UNCHANGED Stored
  /\ UNCHANGED <<chatList, bars, pinStore, titleCall, asking, today, tapped>>

SidebarNext ==
  \/ ListReads \/ ListArrives \/ ListFails \/ CloseDrawer \/ TogglePalette \/ ClosePalette
  \/ \E old \in BOOLEAN : OpenDrawer(old)
  \/ \E days \in {1, 7} : DayPasses(days)
  \/ \E text \in DOMAIN PaletteFilter : TypeCommand(text)
  \/ \E step \in {-1, 1} : ArrowKey(step)
  \/ \E i \in 0..(Len(PaletteFilter[AllCommands]) - 1) : HoverCommand(i)
  \/ \E c \in Chats :
       \/ CreateChat(c) \/ TurnReads(c) \/ CallAnswered(c) \/ CallFails(c) \/ RunCommand(c) \/ DeletedElsewhere(c)
       \/ \E title \in AllTitles : TurnWrites(c, title)
       \/ \E b \in Bars : \/ TogglePin(b, c) \/ StartRename(b, c) \/ CancelRename(b, c) \/ SaveRename(b, c)
                          \/ AskDelete(b, c) \/ KeepChat(b, c) \/ RemoveChat(b, c) \/ TapDelete(b, c)
                          \/ \E title \in ChatTitles : TypeTitle(b, c, title)

SidebarSpec == SidebarInit /\ [][SidebarNext]_sidebarVars

-----------------------------------------------------------------------------

(* Unless another tab, the palette or a row that is gone since changed     *)
(* something, or the first load had read before a change of this tab, a    *)
(* list that is neither stale nor being read is the list stored.           *)
ListIsStored ==
  chatList.has /\ ~chatList.stale /\ chatList.fetch = "none" /\ ~untold => chatList.data = Listing

(* However old and wherever pinned, every conversation of the list is in   *)
(* exactly one group of each sidebar, once, and no unpinned one is below   *)
(* an older unpinned one.                                                  *)
EachInOneGroup ==
  \A b \in Bars : bars[b].open =>
    LET groups == Groups(chatList.data, bars[b].pins, bars[b].grouped)
        shown == FlattenSeq([i \in DOMAIN groups |-> groups[i].items])
        rest == SelectSeq(shown, LAMBDA e : e.chat \notin bars[b].pins)
    IN  /\ Len(shown) = Len(chatList.data) /\ Range(shown) = Range(chatList.data)
        /\ \A i, j \in DOMAIN rest : i < j => rest[i].day >= rest[j].day

(* Enter runs a command of the list whenever there is one.                 *)
SelectionInList == palette.open /\ Commands # <<>> => palette.active < Len(Commands)

=============================================================================
