------------------------------ MODULE MCPages ------------------------------
(***************************************************************************)
(* The pages of the client for TLC, each by itself: what the state space   *)
(* of each leaves out, and the two invariants of the pages together.       *)
(***************************************************************************)
EXTENDS HistoryList, QueryLog, PipelineTester, Sources, ChatView, Sidebar,
        DocumentList, DocumentConsole

-----------------------------------------------------------------------------
(* HistoryList: the middle one of three conversations is the newest.  The  *)
(* dialog, the selection, an undo, previews and the filters are looked at  *)
(* one by one; the clock moves on once, for turns, deletions and undos.    *)

HistoryModeOf == [c \in Items |-> IF c = 1 THEN "standard" ELSE "agentic"]
HistoryStep ==
  /\ HistoryNext
  /\ filter'.recent => filter'.mode = "all" /\ refetch'.left = 0 /\ undo' = {}
  /\ filter'.mode # "all" => undo' = {} /\ ~picked'.on
  /\ Cardinality(picked'.ids) <= 2 /\ Cardinality(undo') <= 1
  /\ confirm' => undo' = {} /\ ~picked'.on
  /\ now' > 1 => ~filter'.recent /\ preview' = {} /\ ~confirm' /\ ~picked'.on
  /\ picked'.on => undo' = {}
  /\ preview' # {} => ~confirm' /\ undo' = {} /\ ~filter'.recent /\ refetch'.left = 0

-----------------------------------------------------------------------------
(* QueryLog: the second stream begins while the first is under way; the   *)
(* first question is a standard one.  The table is read while at most one  *)
(* stream goes on, and none while it is read during a regeneration; one    *)
(* answer is regenerated.                                                  *)

LogBusy == {c \in LogCalls : calls'[c].pc # "idle"}
LogStep ==
  /\ LogNext
  /\ Len(SelectSeq(log', LAMBDA row : row.role = "deleted")) + Cardinality(found') <= 1
  /\ LogBusy = {"s2"} => calls["s2"].pc # "idle"
  /\ \A c \in LogBusy : Len(log') = 0 => calls'[c].content = "a" /\ calls'[c].mode = "standard"
  /\ Cardinality(LogBusy) = 2 => found' = {} /\ pages' = NoPages /\ Len(log') <= 3
  /\ found' # {} /\ pages' # NoPages => LogBusy = {}

-----------------------------------------------------------------------------
(* Sources: one document of five blocks, shown one at a time.              *)

SourceBlocksOf == [d \in Sources |-> 5]

-----------------------------------------------------------------------------
(* ChatView: two calls overlap only in a conversation of at most one turn  *)
(* and without retries; the standard mode, the creation of a conversation  *)
(* and the clearing dialog are looked at without a second call.            *)

UnderWay == {s \in Sends : sends'[s].pc # "idle"}
ViewStep ==
  /\ ViewNext
  /\ Len(view'.items) <= 4
  /\ \A s \in Sends : sends'[s].mode = "agentic"
  /\ answerMode' = "standard" => view'.conv = {} /\ UNCHANGED <<ids, sends>>
  /\ view'.creating # {} => UnderWay = {} /\ \A c \in ViewConvs : ids'[c] = 0
  /\ view'.conv = {} /\ UnderWay # {} => view'.creating = {}
  /\ Cardinality(UnderWay) = 2 =>
       /\ \A c \in ViewConvs : ids'[c] <= 1
       /\ unseen' = ViewConvs /\ \A s \in Sends : sends'[s].attempt = 0
  /\ view'.clearing \/ view'.notFound =>
       Cardinality(UnderWay) <= 1 /\ \A s \in Sends : sends'[s].attempt = 0
  /\ unseen' # {} => \A c \in ViewConvs : ids'[c] <= 2

-----------------------------------------------------------------------------
(* Sidebar: one row is edited or one call under way at a time; the palette *)
(* pins and the days of the groups are looked at while nothing else        *)
(* happens.                                                                *)

PaletteFiltered == [t \in {"", "n", "x"} |->
  CASE t = "" -> <<"home", "new-chat">> [] t = "n" -> <<"new-chat">> [] OTHER -> <<>>]
RowsThatAre(is) == {r \in Bars \X Chats : bars'[r[1]].rowOf[r[2]].is \in is}
TitlesRead == {c \in Chats : asking'[c] # {}}
TitlesAtStake == TitlesRead \cup {c \in Chats : titleCall'[c].kind # "none"}
Untouched ==
  /\ RowsThatAre({"editing", "confirming"}) = {} /\ TitlesAtStake = {}
  /\ \A c \in Chats : chats'[c].title = NewTitle /\ ~chats'[c].deleted
SidebarStep ==
  /\ SidebarNext
  /\ palette'.open =>
       /\ Untouched /\ ~bars'["drawer"].open
       /\ today' = 0 /\ pinStore' = {} /\ chatList'.fetch = "none"
  /\ Cardinality(RowsThatAre({"editing", "confirming"})) + Cardinality(TitlesAtStake) <= 1
  /\ bars'["drawer"].open => TitlesRead = {} /\ Len(recent') <= 1
  /\ today' > 0 \/ pinStore' # {} => Untouched
  /\ today' # today \/ pinStore' # {} => chatList'.fetch = "none"
  /\ bars'["drawer"].open /\ pinStore' # {} => pinStore' = {1} /\ today' = 0
  /\ (\E c \in Chats : chats'[c].deleted) => Len(recent') <= 1

-----------------------------------------------------------------------------
(* DocumentList: one deletion or clearing at a time; the search, the order *)
(* and a refetch that is read in two steps are looked at one by one.       *)

Deleting == {x \in 1..3 : \/ x = 1 /\ single'.at # "none"
                          \/ x = 2 /\ bulk'.at # "none"
                          \/ x = 3 /\ clearing' # "none"}
PlainDesk == ~desk'.search /\ desk'.sort = "updated" /\ desk'.confirm = {} /\ desk'.ticked = {}
ListStep ==
  /\ ListNext
  /\ Cardinality(Deleting) <= 1
  /\ Deleting # {} => ~desk'.search /\ desk'.sort = "updated"
  /\ desk'.search \/ desk'.sort # "updated" \/ clearing' # "none" => fileList'.fetch = "none"
  /\ desk'.sort # "updated" => desk'.ticked = {} /\ ~desk'.search
  /\ chunkCount'[2] = 1 /\ (chunkCount'[1] = 0 => Deleting = {} /\ desk'.ticked = {})
  /\ cited' \subseteq {1}
  /\ cited' # {} => Deleting # {} \/ (PlainDesk /\ fileList'.fetch = "none")
  /\ toast'.kind # "none" =>
       /\ PlainDesk /\ Deleting = {} /\ chunkCount'[1] = 1
       /\ cited' = {} /\ fileList'.fetch # "read"

-----------------------------------------------------------------------------
(* DocumentConsole: one call of the page at a time, and no poll while it   *)
(* is under way; a file is chosen while nothing is.                        *)

SecondIsPdf == [j \in 1..MaxJobs |-> IF j = 2 THEN "PDF" ELSE "URL"]
AskedFor(c) == {what \in {"syncing", "uploading"} : c[what]}
                 \cup {what \in {"ingesting"} : c.ingesting.latest}
Watches(c) == c.pollJobId # 0 \/ c.syncPolling
ConsoleStep ==
  LET new == console'
      polls == \E r \in 0..MaxJobs : poll'[r].on IN
  /\ ConsoleNext
  /\ Cardinality(AskedFor(new)) <= 1
  /\ AskedFor(new) # {} => ~polls
  /\ new.ingesting.earlier => ~Watches(new)
  /\ new.file => ~polls /\ ~Watches(new) /\ AskedFor(new) \subseteq {"uploading"}
  /\ new # console /\ new = NewConsole(new.stats) => ~polls
  /\ (\E j \in JobIds : Has(j, {"DONE", "FAILED"}) /\ jobs'[j].status = "pruned") =>
       AskedFor(console) = {}
  /\ new.said["PDF"].text = "error" =>
       ~polls /\ ~Watches(new) /\ AskedFor(new) = {}

-----------------------------------------------------------------------------
(* A behaviour is about the part its first state picks; the others stay as *)
(* they begin, in one way where there are several.                         *)

VARIABLE part

MCInit ==
  /\ part \in {"history", "log", "tester", "sources", "view", "sidebar", "list", "console"}
  /\ LogInit /\ TesterInit /\ ViewInit /\ SidebarInit /\ ListInit
  /\ ConsoleInit
  /\ HistoryInit /\ (\A c \in Items : stored[c].at = IF c = 2 THEN 1 ELSE 0)
  /\ SourcesInit /\ (part # "sources" => ~sourceBrowser.modal)

OfHistory == part = "history" /\ HistoryStep
OfLog == part = "log" /\ LogStep
OfTester == part = "tester" /\ TesterNext
OfSources == part = "sources" /\ SourcesNext
OfView == part = "view" /\ ViewStep
OfSidebar == part = "sidebar" /\ SidebarStep
OfList == part = "list" /\ ListStep
OfConsole == part = "console" /\ ConsoleStep

Stays(which, variables) == part # which /\ UNCHANGED variables

MCNext ==
  /\ UNCHANGED part
  /\ OfHistory \/ Stays("history", historyVars)
  /\ OfLog \/ Stays("log", logVars)
  /\ OfTester \/ Stays("tester", testerVars)
  /\ OfSources \/ Stays("sources", sourcesVars)
  /\ OfView \/ Stays("view", viewVars)
  /\ OfSidebar \/ Stays("sidebar", sidebarVars)
  /\ OfList \/ Stays("list", listVars)
  /\ OfConsole \/ Stays("console", consoleVars)

MCVars == <<part, historyVars, logVars, testerVars, sourcesVars, viewVars, sidebarVars,
            listVars, consoleVars>>
MCSpec == MCInit /\ [][MCNext]_MCVars

-----------------------------------------------------------------------------
(* The pages together *)

(* However runs, jobs, turns and other tabs go on meanwhile: the tester    *)
(* keeps the runs it should and shows the one chosen, the history neither  *)
(* repeats nor misses what did not move nor the table of queries what had  *)
(* its answer, a conversation and the lists of documents and conversations *)
(* are those stored once they have been read again, the chunks shown of a  *)
(* document are those of one ingestion, and what the console says of a job *)
(* has happened.                                                           *)
FollowedPagesInv ==
  /\ part = "tester" => TesterInv
  /\ part = "history" => HistoryTypeOK /\ HistoryInv
  /\ part = "log" => LogTypeOK /\ TableWhole /\ UnansweredIsTrue /\ ModesAgree
  /\ part = "list" => DocumentsAreStored
  /\ part = "view" => ViewTypeOK /\ StoredIsShown
  /\ part = "sidebar" => ListIsStored /\ SelectionInList
  /\ part = "console" => ConsoleInv
  /\ part = "sources" => SourcesInv

(* Whatever is renamed, deleted and written by turns while the day changes *)
(* and one sidebar is pinned against the other: each conversation is in    *)
(* one group of each bar, and the two lists keep their types.              *)
GroupsInv ==
  /\ part = "sidebar" => SidebarTypeOK /\ EachInOneGroup
  /\ part = "list" => ListTypeOK

=============================================================================
