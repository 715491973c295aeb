------------------------------ MODULE QueryLog ------------------------------
(***************************************************************************)
(* What the administration dashboard reads from the messages of one        *)
(* conversation while it is in use: the paged table of recent queries with *)
(* the answer it attributes to each, the unanswered queries, and the       *)
(* details of one query.  A message's place in log is its createdAt; the   *)
(* time window of the unanswered queries is the last Window messages.      *)
(***************************************************************************)
EXTENDS Integers, Sequences, FiniteSets, FiniteSetsExt, SequencesExt

CONSTANTS
  Texts,      \* what may be asked
  LogCalls,   \* chat streams that may be under way at once
  MaxMessages,  \* bound on the rows written
  PageRows,   \* limit of recentQueries
  FailedRows, \* limit of failedQueries
  Window      \* messages young enough for failedQueries

ASSUME QueryLogAssumption ==
  /\ Texts # {} /\ MaxMessages \in Nat /\ Window \in Nat \ {0}
  /\ PageRows \in Nat \ {0} /\ FailedRows \in Nat \ {0}

VARIABLES
  log,     \* rows of messages, oldest first; one that was deleted keeps its place
  calls,   \* the chat streams
  found,   \* answers that a regeneration has looked up and not deleted yet
  pages,   \* the table of recent queries in a browser: its pages, of rows newest first
  base,    \* history: length of log when its first page was read
  reasked  \* history: questions that a later turn took up in another mode

logVars == <<log, calls, found, pages, base, reasked>>

LogModes == {"standard", "agentic"}

\* metadata.mode is that of the row.  History: to is the row that an answer answers.
Message == [role : {"USER", "ASSISTANT", "deleted"}, content : Texts, mode : LogModes, to : Nat]

\* A stream that has no row yet has looked for one and creates it next.
LogCall == [pc : {"idle", "creating", "answering"}, row : Nat, content : Texts, mode : LogModes]
NoLogCall == [pc |-> "idle", row |-> 0, content |-> CHOOSE text \in Texts : TRUE,
              mode |-> "standard"]
NoPages == [rows |-> <<>>, cursor |-> 0, more |-> FALSE]

LogTypeOK ==
  /\ log \in Seq(Message) /\ base \in 0..Len(log) /\ calls \in [LogCalls -> LogCall]
  /\ found \subseteq 1..Len(log)
  /\ pages \in [rows : Seq(SUBSET Nat), cursor : Nat, more : BOOLEAN]

LogInit ==
  /\ log = <<>> /\ found = {} /\ pages = NoPages /\ base = 0 /\ reasked = {}
  /\ calls = [c \in LogCalls |-> NoLogCall]

RowsOf(r) == {i \in 1..Len(log) : log[i].role = r}
Present == RowsOf("USER") \cup RowsOf("ASSISTANT")

\* The newest message, if it is the question that is asked again.
SameQuestion(text) ==
  {i \in RowsOf("USER") : log[i].content = text /\ \A j \in Present : j <= i}

\* findOrCreateUserMessage looks first; a question it takes up keeps its metadata.
FindQuestion(c, text, mode) ==
  LET same == SameQuestion(text) IN
  /\ calls[c].pc = "idle"
  /\ \E row \in IF same = {} THEN {0} ELSE same :
       calls' = [calls EXCEPT ![c] = [pc |-> IF row = 0 THEN "creating" ELSE "answering",
                                      row |-> row, content |-> text, mode |-> mode]]
  /\ reasked' = reasked \cup {i \in same : log[i].mode # mode}
  /\ UNCHANGED <<log, found, pages, base>>

CreateQuestion(c) ==
  /\ calls[c].pc = "creating" /\ Len(log) < MaxMessages
  /\ log' = Append(log, [role |-> "USER", content |-> calls[c].content,
                         mode |-> calls[c].mode, to |-> 0])
  /\ calls' = [calls EXCEPT ![c].pc = "answering", ![c].row = Len(log) + 1]
  /\ UNCHANGED <<found, pages, base, reasked>>

\* Mutant: with the mode of the newest question.
AnswerRowOfNewest(call) ==
  [role |-> "ASSISTANT", content |-> call.content, mode |-> log[Max(RowsOf("USER"))].mode,
   to |-> call.row]

\* With the mode of its turn; its text is that of the question here.
AnswerRow(call) ==
  [role |-> "ASSISTANT", content |-> call.content, mode |-> call.mode, to |-> call.row]

\* An answer, a refusal or an error.
Answer(c) ==
  /\ calls[c].pc = "answering" /\ Len(log) < MaxMessages
  /\ log' = Append(log, AnswerRow(calls[c]))
  /\ calls' = [calls EXCEPT ![c] = NoLogCall]
  /\ UNCHANGED <<found, pages, base, reasked>>

\* Stopped, or its process is gone: the question stays without an answer.
LoseTurn(c) ==
  /\ calls[c].pc # "idle"
  /\ calls' = [calls EXCEPT ![c] = NoLogCall]
  /\ UNCHANGED <<log, found, pages, base, reasked>>

\* regenerate: the newest answer that a question precedes.  The stream that follows
\* asks the same again, in any mode: FindQuestion.
FindAnswer ==
  LET newest == {j \in RowsOf("ASSISTANT") : \A k \in RowsOf("ASSISTANT") : k <= j} IN
  /\ \E j \in newest, i \in RowsOf("USER") : i < j
  /\ found' = found \cup newest
  /\ UNCHANGED <<log, calls, pages, base, reasked>>

\* Deleting what another regeneration has deleted throws and changes nothing.
DeleteAnswer(j) ==
  /\ j \in found
  /\ log' = [log EXCEPT ![j].role = "deleted"]
  /\ found' = found \ {j}
  /\ UNCHANGED <<calls, pages, base, reasked>>

-----------------------------------------------------------------------------
(* Queries *)

\* The first answer after row i, of the conversation and not of the turn.
AnswersAfter(i) == {j \in RowsOf("ASSISTANT") : j > i}
AnsweredRows == {i \in RowsOf("USER") : AnswersAfter(i) # {}}
Lateral(i) == Min(AnswersAfter(i))

InWindow == {i \in 1..Len(log) : i > Len(log) - Window}

\* The newest below the cursor (0 for none), as many as a page holds; one more
\* row that is read tells of more.
RowsBelow(cursor) == {i \in AnsweredRows : cursor = 0 \/ i < cursor}
NewestBelow(cursor) ==
  {i \in RowsBelow(cursor) : Cardinality({j \in RowsBelow(cursor) : j > i}) < PageRows}

\* Mutant: the next page begins below the row that was only looked at.
RecentQueriesSkips(cursor) ==
  LET rows == NewestBelow(cursor)
      more == rows # RowsBelow(cursor) IN
  [rows |-> <<rows>>, cursor |-> IF more THEN Max(RowsBelow(cursor) \ rows) ELSE 0, more |-> more]

RecentQueries(cursor) ==
  LET rows == NewestBelow(cursor)
      more == rows # RowsBelow(cursor) IN
  [rows |-> <<rows>>, cursor |-> IF more THEN Min(rows) ELSE 0, more |-> more]

\* The table's row has the mode of the answer; the drawer that of the question.
RecentRow(i) == [mode |-> log[Lateral(i)].mode]
QueryDetail(i) == [mode |-> log[i].mode]

Unanswered == {i \in RowsOf("USER") \cap InWindow : AnswersAfter(i) = {}}
FailedQueries ==
  {i \in Unanswered : Cardinality({j \in Unanswered : j > i}) < FailedRows}

-----------------------------------------------------------------------------
(* The table in the browser *)

\* The refetch of every minute is of all pages; one page stands for them.
RefreshLog ==
  /\ pages' = RecentQueries(0)
  /\ base' = Len(log)
  /\ UNCHANGED <<log, calls, found, reasked>>

LoadMore ==
  LET next == RecentQueries(pages.cursor) IN
  /\ pages.more
  /\ pages' = [next EXCEPT !.rows = pages.rows \o @]
  /\ UNCHANGED <<log, calls, found, base, reasked>>

LogNext ==
  \/ \E c \in LogCalls, text \in Texts, mode \in LogModes : FindQuestion(c, text, mode)
  \/ \E c \in LogCalls : CreateQuestion(c)
  \/ \E c \in LogCalls : Answer(c)
  \/ \E c \in LogCalls : LoseTurn(c)
  \/ FindAnswer \/ \E j \in found : DeleteAnswer(j)
  \/ RefreshLog \/ LoadMore

LogSpec == LogInit /\ [][LogNext]_logVars

-----------------------------------------------------------------------------

(* Page by page, while questions and answers arrive and answers are        *)
(* regenerated, no query is listed twice, and none is passed over that had *)
(* an answer when the first page was read which is still there.            *)
TableWhole ==
  /\ \A m, n \in 1..Len(pages.rows) : m < n =>
       \A i \in pages.rows[m], j \in pages.rows[n] : i > j
  /\ \A i \in 1..base :
       (\E j \in AnswersAfter(i) : j <= base) /\ i \in RowsOf("USER")
         /\ (pages.more => i >= pages.cursor)
       => \E k \in 1..Len(pages.rows) : i \in pages.rows[k]

(* A question shown as unanswered has no answer: its own comes later than  *)
(* it, whatever turns cross and whatever is regenerated.                   *)
UnansweredIsTrue ==
  \A i \in FailedQueries : \A j \in RowsOf("ASSISTANT") : log[j].to # i

(* The table and the drawer tell the same mode of a query, unless the      *)
(* answer they found is the one of another question, or the question was   *)
(* asked again in another mode: it then keeps its own, and the answer has  *)
(* the new one.                                                            *)
ModesAgree ==
  \A i \in AnsweredRows \ reasked :
    log[Lateral(i)].to = i => QueryDetail(i).mode = RecentRow(i).mode

=============================================================================
