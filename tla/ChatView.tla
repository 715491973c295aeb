------------------------------- MODULE ChatView -------------------------------
(***************************************************************************)
(* What a chat page shows.  The page of a conversation keeps a list of     *)
(* messages of its own: it starts as the cached answer of getById, gets    *)
(* the prompt and a placeholder when something is sent, and is replaced    *)
(* when the cache brings other data.  Sends outlive the page they were     *)
(* made on; leaving a page and coming back makes a new one.  The answer    *)
(* mode is shared by all pages, and the composer of a new chat hands its   *)
(* first question and mode over to the page of the new conversation.       *)
(* A stored message is a role and an id; texts are left out.               *)
(***************************************************************************)
EXTENDS Integers, Sequences, FiniteSets, SequencesExt

CONSTANTS
  ViewConvs,
  Sends,        \* calls of sendMessage and regenerate under way at a time
  StreamRetries,\* MAX_STREAM_RETRIES
  MaxRows       \* bound of the checking: messages ever stored per conversation

ASSUME ViewAssumption ==
  /\ IsFiniteSet(ViewConvs) /\ IsFiniteSet(Sends)
  /\ StreamRetries \in Nat /\ MaxRows \in Nat

VARIABLES
  rows,   \* rows[c]: the messages stored
  ids,    \* ids[c]: how many were ever stored
  query,  \* query[c]: getById as the query cache has it
  view,   \* the page
  sends,  \* sends[s]: a call
  answerMode, \* the mode of ModeProvider
  unseen  \* history: conversations changed in a way the cache was not told of or
          \* missed, or by two calls at a time

viewVars == <<rows, ids, query, view, sends, answerMode, unseen>>

AnswerModes == {"agentic", "standard"}
StoredMessage == [role : {"USER", "ASSISTANT"}, id : 1..MaxRows]
Item == [kind : {"row", "sent", "bubble", "stopped"}, role : {"USER", "ASSISTANT"}, id : 0..MaxRows]
Bubble == [kind |-> "bubble", role |-> "ASSISTANT", id |-> 0]
Sent == [kind |-> "sent", role |-> "USER", id |-> 0]
AsItems(messages) ==
  [i \in 1..Len(messages) |-> [kind |-> "row", role |-> messages[i].role, id |-> messages[i].id]]

\* read: what a request for the conversation found, until its reply is here.
Query == [has : BOOLEAN, data : Seq(StoredMessage), stale : BOOLEAN,
          fetch : {"none", "asked", "read"}, read : Seq(StoredMessage)]
NoQuery == [has |-> FALSE, data |-> <<>>, stale |-> FALSE, fetch |-> "none", read |-> <<>>]

\* creating: the mode of a first question whose conversation is being created, on
\* whatever page; one at a time (a bound of the checking).
View == [conv : SUBSET ViewConvs, items : Seq(Item), isStreaming : BOOLEAN, abort : SUBSET Sends,
         notFound : BOOLEAN, clearing : BOOLEAN, creating : SUBSET AnswerModes]
PageOf(C) == [conv |-> C, items |-> <<>>, isStreaming |-> FALSE, abort |-> {}, notFound |-> FALSE,
              clearing |-> FALSE, creating |-> {}]

\* mine: its page is the one in view.  answer: the message stored for it.
\* handed: the mode of a handed-over question.
SendCall == [pc : {"idle", "regenerate", "post", "reading", "answered", "backoff"},
             regenerates : BOOLEAN, conv : SUBSET ViewConvs, mine : BOOLEAN, attempt : 0..StreamRetries,
             prompted : BOOLEAN, answer : 0..MaxRows, mode : AnswerModes, handed : SUBSET AnswerModes]
NoSend == [pc |-> "idle", regenerates |-> FALSE, conv |-> {}, mine |-> FALSE, attempt |-> 0,
           prompted |-> FALSE, answer |-> 0, mode |-> "agentic", handed |-> {}]

ViewTypeOK ==
  /\ rows \in [ViewConvs -> Seq(StoredMessage)] /\ ids \in [ViewConvs -> 0..MaxRows]
  /\ query \in [ViewConvs -> Query] /\ view \in View /\ sends \in [Sends -> SendCall]
  /\ answerMode \in AnswerModes /\ unseen \subseteq ViewConvs

ViewInit ==
  /\ rows = [c \in ViewConvs |-> <<>>] /\ ids = [c \in ViewConvs |-> 0]
  /\ query = [c \in ViewConvs |-> NoQuery]
  /\ view = PageOf({})
  /\ sends = [s \in Sends |-> NoSend]
  /\ answerMode = "agentic" /\ unseen = {}

Storage == <<rows, ids, unseen>>
Active(s, pcs) == sends[s].pc \in pcs
Streams(s) == Active(s, {"post", "reading", "answered"})
Called(c) == \E s \in Sends : sends[s].conv = {c}
ConvOf(s) == CHOOSE c \in sends[s].conv : TRUE
MovesTo(s, new) == sends' = [sends EXCEPT ![s] = new]
Append1(c, role) == Append(rows[c], [role |-> role, id |-> ids[c] + 1])

-----------------------------------------------------------------------------
(* The query cache *)

\* Marked stale; while its page is in view, read again at once instead of whatever
\* was being read, but for its first read, which goes on.
FirstFetch(c) == ~query[c].has /\ query[c].fetch # "none"
Invalidated(c) ==
  [query EXCEPT ![c] = IF view.conv = {c} /\ ~FirstFetch(c)
                       THEN [@ EXCEPT !.stale = TRUE, !.read = <<>>, !.fetch = "asked"]
                       ELSE [@ EXCEPT !.stale = TRUE]]

\* The reply under way for a page that was left takes the mark away again, and so
\* does that of a first read which has found what there was before.
Missed(c) ==
  IF query[c].fetch # "none" /\ (view.conv # {c} \/ (FirstFetch(c) /\ query[c].fetch = "read"))
  THEN {c} ELSE {}

FetchReads(c) ==
  /\ query[c].fetch = "asked"
  /\ query' = [query EXCEPT ![c] = [@ EXCEPT !.fetch = "read", !.read = rows[c]]]
  /\ UNCHANGED <<view, sends, answerMode>> /\ UNCHANGED Storage

\* Equal data is the same data to the cache, and then the effect does not run.
FetchArrives(c) ==
  LET q == query[c] IN
  /\ q.fetch = "read"
  /\ query' = [query EXCEPT ![c] = [NoQuery EXCEPT !.has = TRUE, !.data = q.read]]
  /\ view' = IF view.conv = {c} /\ (~q.has \/ q.read # q.data)
             THEN [view EXCEPT !.items = AsItems(q.read), !.notFound = FALSE] ELSE view
  /\ unseen' = IF q.read = rows[c] /\ (~q.has \/ q.read # q.data) /\ ~Called(c) THEN unseen \ {c}
               ELSE unseen
  /\ UNCHANGED <<rows, ids, sends, answerMode>>

FetchFails(c) ==
  /\ query[c].fetch # "none"
  /\ query' = [query EXCEPT ![c] = [@ EXCEPT !.fetch = "none", !.read = <<>>]]
  /\ view' = IF view.conv = {c} THEN [view EXCEPT !.notFound = TRUE] ELSE view
  /\ UNCHANGED <<sends, answerMode>> /\ UNCHANGED Storage

-----------------------------------------------------------------------------
(* Coming and going *)

Unmounted == [s \in Sends |-> [sends[s] EXCEPT !.mine = FALSE]]

\* old: read more than five minutes ago.
Open(c, old) ==
  /\ view.conv # {c} /\ ids[c] > 0
  /\ view' = [PageOf({c}) EXCEPT !.items = AsItems(query[c].data), !.creating = view.creating]
  /\ query' = [query EXCEPT ![c].fetch =
       IF @ = "none" /\ (old \/ ~query[c].has \/ query[c].stale) THEN "asked" ELSE @]
  /\ sends' = Unmounted
  /\ UNCHANGED answerMode /\ UNCHANGED Storage

NewChat ==
  /\ view.conv # {}
  /\ view' = [PageOf({}) EXCEPT !.creating = view.creating] /\ sends' = Unmounted
  /\ UNCHANGED <<query, answerMode>> /\ UNCHANGED Storage

\* The tab is loaded anew, on the page it shows.  What the server still does for its
\* calls is StoredElsewhere.
ReloadTab ==
  LET shown == {c \in view.conv : ids[c] > 0} IN
  /\ view' = PageOf(shown) /\ sends' = [s \in Sends |-> NoSend] /\ answerMode' = "agentic"
  /\ query' = [c \in ViewConvs |-> [NoQuery EXCEPT !.fetch = IF c \in shown THEN "asked" ELSE "none"]]
  /\ unseen' = {}
  /\ UNCHANGED <<rows, ids>>

setMode(mode) ==
  /\ mode # answerMode
  /\ answerMode' = mode
  /\ UNCHANGED <<query, view, sends>> /\ UNCHANGED Storage

StartConversation ==
  /\ view.conv = {} /\ view.creating = {}
  /\ view' = [view EXCEPT !.creating = {answerMode}]
  /\ UNCHANGED <<query, sends, answerMode>> /\ UNCHANGED Storage

CreateFails ==
  /\ view.creating # {}
  /\ view' = [view EXCEPT !.creating = {}]
  /\ UNCHANGED <<query, sends, answerMode>> /\ UNCHANGED Storage

\* The new conversation's page, wherever one is by now: its data is put into the cache, and its effects
\* set the mode that was handed over and send the question, in the mode there was.
HandOver(s, c) ==
  /\ view.creating # {} /\ ids[c] = 0 /\ ~query[c].has /\ Active(s, {"idle"})
  /\ query' = [query EXCEPT ![c] = [NoQuery EXCEPT !.has = TRUE]]
  /\ view' = [PageOf({c}) EXCEPT !.items = <<Sent, Bubble>>, !.isStreaming = TRUE, !.abort = {s}]
  /\ sends' = [Unmounted EXCEPT ![s] = [NoSend EXCEPT !.pc = "post", !.conv = {c}, !.mine = TRUE,
                                         !.mode = answerMode, !.handed = view.creating]]
  /\ answerMode' = CHOOSE m \in view.creating : TRUE
  /\ UNCHANGED Storage

-----------------------------------------------------------------------------
(* Sending *)

\* What is done to the placeholder is done to every item with its id.
Becoming(items, new) == [i \in 1..Len(items) |-> IF items[i].kind = "bubble" THEN new ELSE items[i]]

\* The items at the places I, in their order.
ItemsAt(items, I) ==
  [n \in 1..Cardinality(I) |-> items[CHOOSE i \in I : Cardinality({j \in I : j <= i}) = n]]
NoBubbles(items) == ItemsAt(items, {i \in 1..Len(items) : items[i].kind # "bubble"})
RowsIn(items) == ItemsAt(items, {i \in 1..Len(items) : items[i].kind = "row"})

Consumes(s, items) ==
  IF sends[s].mine THEN [view EXCEPT !.items = items, !.isStreaming = TRUE, !.abort = {s}] ELSE view

\* Whichever call the page's last one was.
Consumed(s, items) ==
  IF sends[s].mine THEN [view EXCEPT !.items = items, !.isStreaming = FALSE, !.abort = {}] ELSE view

LastAssistant(seq) == {i \in 1..Len(seq) : seq[i].role = "ASSISTANT"
                  /\ \A j \in (i + 1)..Len(seq) : seq[j].role # "ASSISTANT"}

\* The composer goes with "not found"; the follow-ups of an answer stay.
Composer == view.conv # {} /\ ~view.isStreaming /\ (view.notFound => LastAssistant(view.items) # {})

SendMessage(s) ==
  /\ Composer /\ Active(s, {"idle"})
  /\ MovesTo(s, [NoSend EXCEPT !.pc = "post", !.conv = view.conv, !.mine = TRUE, !.mode = answerMode])
  /\ view' = [view EXCEPT !.items = @ \o <<Sent, Bubble>>, !.isStreaming = TRUE, !.abort = {s}]
  /\ unseen' = unseen \cup {c \in view.conv : Called(c)}
  /\ UNCHANGED <<query, answerMode, rows, ids>>

\* The route stores the prompt, once for all attempts.
SendAccepted(s) ==
  LET c == ConvOf(s) IN
  /\ Active(s, {"post"})
  /\ IF sends[s].prompted THEN UNCHANGED <<rows, ids>>
     ELSE /\ ids[c] < MaxRows
          /\ rows' = [rows EXCEPT ![c] = Append1(c, "USER")]
          /\ ids' = [ids EXCEPT ![c] = @ + 1]
  /\ MovesTo(s, [sends[s] EXCEPT !.pc = "reading", !.prompted = TRUE])
  /\ UNCHANGED <<query, view, answerMode, unseen>>

\* The answer is stored before it is streamed.
AnswerStored(s) ==
  LET c == ConvOf(s) IN
  /\ Active(s, {"reading"}) /\ ids[c] < MaxRows
  /\ rows' = [rows EXCEPT ![c] = Append1(c, "ASSISTANT")]
  /\ ids' = [ids EXCEPT ![c] = @ + 1]
  /\ MovesTo(s, [sends[s] EXCEPT !.pc = "answered", !.answer = ids[c] + 1])
  /\ UNCHANGED <<query, view, answerMode, unseen>>

\* Mutant: only a call that failed asks for the conversation again.
EndedQuietly(s, items) ==
  /\ view' = Consumed(s, items)
  /\ query' = query
  /\ MovesTo(s, NoSend)
  /\ UNCHANGED answerMode /\ UNCHANGED Storage

Ended(s, items) ==
  /\ view' = Consumed(s, items)
  /\ query' = Invalidated(ConvOf(s)) /\ unseen' = unseen \cup Missed(ConvOf(s))
  /\ MovesTo(s, NoSend)
  /\ UNCHANGED <<rows, ids, answerMode>>

SendDone(s) ==
  /\ Active(s, {"answered"})
  /\ Ended(s, Becoming(view.items, [kind |-> "row", role |-> "ASSISTANT", id |-> sends[s].answer]))

\* The answer asks back: the placeholder goes.
Disambiguation(s) == Active(s, {"reading"}) /\ Ended(s, NoBubbles(view.items))

\* Out of attempts, or refused; the placeholder of a send keeps its id.
SendFailed(s, items) == Ended(s, IF sends[s].regenerates THEN NoBubbles(items) ELSE items)

Refused(s) == Active(s, {"post"}) /\ SendFailed(s, view.items)

TriesAgain(s) == ~sends[s].regenerates /\ sends[s].attempt < StreamRetries

Breaks(s) ==
  /\ Streams(s)
  /\ IF TriesAgain(s)
     THEN /\ MovesTo(s, [sends[s] EXCEPT !.pc = "backoff", !.answer = 0])
          /\ view' = Consumed(s, view.items)
          /\ UNCHANGED <<query, answerMode>> /\ UNCHANGED Storage
     ELSE SendFailed(s, view.items)

RetryAfterBackoff(s) ==
  /\ Active(s, {"backoff"})
  /\ MovesTo(s, [sends[s] EXCEPT !.pc = "post", !.attempt = @ + 1])
  /\ view' = Consumes(s, view.items)
  /\ UNCHANGED <<query, answerMode>> /\ UNCHANGED Storage

\* The placeholder is detached and the conversation read again, at once; the
\* aborted attempt fails like any other.
StopIt(s) ==
  LET items == Becoming(view.items, [Bubble EXCEPT !.kind = "stopped"]) IN
  /\ view.isStreaming /\ s \in view.abort
  /\ query' = Invalidated(ConvOf(s)) /\ unseen' = unseen \cup Missed(ConvOf(s))
  /\ view' = Consumed(s, items)
  /\ MovesTo(s, IF TriesAgain(s) THEN [sends[s] EXCEPT !.pc = "backoff", !.answer = 0] ELSE NoSend)
  /\ UNCHANGED <<rows, ids, answerMode>>

-----------------------------------------------------------------------------
(* Regenerating and clearing *)

DropLastAssistant(seq) ==
  IF LastAssistant(seq) = {} THEN seq ELSE RemoveAt(seq, CHOOSE i \in LastAssistant(seq) : TRUE)

ShownRows == RowsIn(view.items)

RegenerateAnswer(s) ==
  /\ view.conv # {} /\ ~view.isStreaming /\ Active(s, {"idle"}) /\ LastAssistant(view.items) # {}
  /\ MovesTo(s, [NoSend EXCEPT !.pc = "regenerate", !.regenerates = TRUE, !.prompted = TRUE,
                                !.conv = view.conv, !.mine = TRUE, !.mode = answerMode])
  /\ unseen' = unseen \cup {c \in view.conv : Called(c)}
  /\ UNCHANGED <<query, view, answerMode, rows, ids>>

\* The page drops its own last answer: another one when the page is behind.
Regenerated(s) ==
  LET c == ConvOf(s) IN
  /\ Active(s, {"regenerate"}) /\ LastAssistant(rows[c]) # {}
  /\ rows' = [rows EXCEPT ![c] = DropLastAssistant(@)]
  /\ MovesTo(s, [sends[s] EXCEPT !.pc = "post"])
  /\ view' = Consumes(s, Append(DropLastAssistant(view.items), Bubble))
  /\ unseen' = IF ShownRows = AsItems(rows[c]) \/ ~sends[s].mine THEN unseen ELSE unseen \cup {c}
  /\ UNCHANGED <<query, answerMode, ids>>

\* Nothing is read again, whether the answer was deleted or not.
RegenerateFails(s, deleted) ==
  LET c == ConvOf(s) IN
  /\ Active(s, {"regenerate"})
  /\ rows' = IF deleted THEN [rows EXCEPT ![c] = DropLastAssistant(@)] ELSE rows
  /\ unseen' = IF deleted THEN unseen \cup {c} ELSE unseen
  /\ MovesTo(s, NoSend)
  /\ UNCHANGED <<query, view, answerMode, ids>>

ClearFromView ==
  /\ view.conv # {} /\ view.items # <<>> /\ ~view.clearing
  /\ rows' = [c \in ViewConvs |-> IF c \in view.conv THEN <<>> ELSE rows[c]]
  /\ unseen' = unseen \cup view.conv
  /\ view' = [view EXCEPT !.clearing = TRUE]
  /\ UNCHANGED <<query, sends, answerMode, ids>>

Cleared(c, ok) ==
  /\ view.clearing /\ view.conv = {c}
  /\ view' = [view EXCEPT !.clearing = FALSE, !.items = IF ok THEN <<>> ELSE @]
  /\ query' = IF ok THEN Invalidated(c) ELSE query
  /\ unseen' = IF ok THEN unseen \cup {c} ELSE unseen
  /\ UNCHANGED <<rows, ids, sends, answerMode>>

\* Another tab, or an answer whose stream broke, stored late.
StoredElsewhere(c, role) ==
  /\ 0 < ids[c] /\ ids[c] < MaxRows
  /\ rows' = [rows EXCEPT ![c] = Append1(c, role)]
  /\ ids' = [ids EXCEPT ![c] = @ + 1]
  /\ unseen' = unseen \cup {c}
  /\ UNCHANGED <<query, view, sends, answerMode>>

ViewNext ==
  \/ NewChat \/ ReloadTab \/ StartConversation \/ CreateFails \/ ClearFromView
  \/ \E mode \in AnswerModes : setMode(mode)
  \/ \E c \in ViewConvs : \/ FetchReads(c) \/ FetchArrives(c) \/ FetchFails(c)
                      \/ \E old \in BOOLEAN : Open(c, old)
                      \/ \E ok \in BOOLEAN : Cleared(c, ok)
                      \/ \E role \in {"USER", "ASSISTANT"} : StoredElsewhere(c, role)
                      \/ \E s \in Sends : HandOver(s, c)
  \/ \E s \in Sends : \/ SendMessage(s) \/ SendAccepted(s) \/ AnswerStored(s) \/ SendDone(s)
                      \/ Disambiguation(s) \/ Refused(s) \/ Breaks(s) \/ RetryAfterBackoff(s)
                      \/ StopIt(s) \/ RegenerateAnswer(s) \/ Regenerated(s)
                      \/ \E deleted \in BOOLEAN : RegenerateFails(s, deleted)

ViewSpec == ViewInit /\ [][ViewNext]_viewVars

-----------------------------------------------------------------------------

ViewSettled(c) ==
  /\ view.conv = {c} /\ c \notin unseen /\ ~view.clearing
  /\ query[c].has /\ ~query[c].stale /\ query[c].fetch = "none"
  /\ \A s \in Sends : c \in sends[s].conv => Active(s, {"idle"})

(* When the calls on a conversation have ended, failed, been stopped or    *)
(* left behind on another page, and nothing changed it behind the cache's  *)
(* back, its page shows the messages stored, all of them and in order;     *)
(* besides, what a failed or stopped send has left.                        *)
StoredIsShown == \A c \in ViewConvs : ViewSettled(c) => ShownRows = AsItems(rows[c])

=============================================================================
