----------------------------- MODULE ChatTurn -----------------------------
(***************************************************************************)
(* One conversation from both ends: the calls a browser tab makes (useChat:*)
(* send with its retries, regenerate, stop) and the requests that serve    *)
(* them (POST /api/chat/stream, chat.regenerate).  A connection can break  *)
(* while the request behind it goes on, so a retry may meet its            *)
(* predecessor.                                                            *)
(*                                                                         *)
(* What an answer says and how it is produced is left out (AnswerCache):   *)
(* rows carry the prompt they hold or answer.  Their ids follow their      *)
(* createdAt, taken to differ.                                             *)
(***************************************************************************)
EXTENDS Integers, FiniteSets

CONSTANTS
  Tabs,         \* browser tabs that show the conversation
  Calls,        \* calls of sendMessage or regenerate that may run at once
  TabOf,        \* TabOf[c]: the tab of call c
  Requests,     \* requests the server may serve at once
  Prompts,      \* what users ask
  MaxRetries,   \* MAX_STREAM_RETRIES
  Limit,        \* GUEST_PROMPT_LIMIT
  MaxCalls      \* bound: calls made

ASSUME ChatAssumption ==
  /\ TabOf \in [Calls -> Tabs]
  /\ MaxRetries \in Nat /\ MaxCalls \in Nat
  /\ Limit \in Nat \ {0}
  /\ Prompts # {}
  /\ IsFiniteSet(Requests) /\ Requests # {}

VARIABLES
  messages,    \* the rows of the conversation
  created,     \* how many rows were ever inserted; the next row's id
  tab,         \* tab[t]: isStreaming and abortRef
  call,        \* call[c]: a call of sendMessage or regenerate
  request,     \* request[r]: a request being served
  made,        \* how many calls were made
  overlapped   \* history: two writers of the conversation were at work at once

vars == <<messages, created, tab, call, request, made, overlapped>>

Message == [id : Nat, role : {"USER", "ASSISTANT"}, q : Prompts]
Tab == [streaming : BOOLEAN, abort : SUBSET Calls]
Call == [pc : {"idle", "find", "delete", "post", "reading", "backoff"},
         kind : {"send", "regenerate"}, q : Prompts, attempt : 0..MaxRetries,
         target : Nat, stopped : BOOLEAN]
Request == [pc : {"none", "find", "create", "work", "persist", "reply"},
            q : Prompts, call : SUBSET Calls]

SomePrompt == CHOOSE q \in Prompts : TRUE
NoCall == [pc |-> "idle", kind |-> "send", q |-> SomePrompt, attempt |-> 0,
           target |-> 0, stopped |-> FALSE]
NoRequest == [pc |-> "none", q |-> SomePrompt, call |-> {}]

TypeOK ==
  /\ messages \in SUBSET Message
  /\ created \in Nat /\ made \in 0..MaxCalls
  /\ tab \in [Tabs -> Tab]
  /\ call \in [Calls -> Call]
  /\ request \in [Requests -> Request]
  /\ overlapped \in BOOLEAN

Init ==
  /\ messages = {} /\ created = 0 /\ made = 0
  /\ tab = [t \in Tabs |-> [streaming |-> FALSE, abort |-> {}]]
  /\ call = [c \in Calls |-> NoCall]
  /\ request = [r \in Requests |-> NoRequest]
  /\ overlapped = FALSE

Rows(role) == {m \in messages : m.role = role}
IsLast(m, S) == m \in S /\ \A n \in S : n.id <= m.id
Before(m, S) == {n \in S : n.id < m.id}
Insert(role, q) ==
  /\ messages' = messages \cup {[id |-> created + 1, role |-> role, q |-> q]}
  /\ created' = created + 1

Busy == \/ \E r \in Requests : request[r].pc # "none"
        \/ \E c \in Calls : call[c].pc \in {"find", "delete"}

Rowless == UNCHANGED <<messages, created>>
Becomes(c, new) == call' = [call EXCEPT ![c] = new]

-----------------------------------------------------------------------------
(* The tab *)

\* consumeStream starts and ends: isStreaming and the abort controller are the
\* tab's, whichever call it is for.
Consume(c) == tab' = [tab EXCEPT ![TabOf[c]] = [streaming |-> TRUE, abort |-> {c}]]
Consumed(c) == tab' = [tab EXCEPT ![TabOf[c]] = [streaming |-> FALSE, abort |-> {}]]

\* The composer and the buttons are off while the tab streams, not while a
\* call waits between two attempts or for the regenerate mutation.
MayCall(c) == call[c].pc = "idle" /\ ~tab[TabOf[c]].streaming /\ made < MaxCalls

Send(c, q) ==
  /\ MayCall(c)
  /\ Becomes(c, [NoCall EXCEPT !.pc = "post", !.q = q])
  /\ Consume(c)
  /\ made' = made + 1
  /\ Rowless /\ UNCHANGED <<request, overlapped>>

Regenerate(c) ==
  /\ MayCall(c)
  /\ Becomes(c, [NoCall EXCEPT !.pc = "find", !.kind = "regenerate"])
  /\ made' = made + 1
  /\ overlapped' = (overlapped \/ Busy)
  /\ Rowless /\ UNCHANGED <<tab, request>>

\* chat.regenerate: the last answer, and the last prompt before it ...
Regenerable(a, p) ==
  IsLast(a, Rows("ASSISTANT")) /\ IsLast(p, Before(a, Rows("USER")))

FindAnswer(c) ==
  /\ call[c].pc = "find"
  /\ \/ \E a, p \in messages :
          /\ Regenerable(a, p)
          /\ Becomes(c, [call[c] EXCEPT !.pc = "delete", !.target = a.id, !.q = p.q])
     \/ /\ \A a, p \in messages : ~Regenerable(a, p)
        /\ Becomes(c, NoCall)
  /\ Rowless /\ UNCHANGED <<tab, request, made, overlapped>>

\* ... is deleted, unless it is gone by now, and its prompt is asked again,
\* unless the reply is lost.
DeleteAnswer(c) ==
  LET target == {m \in messages : m.id = call[c].target} IN
  /\ call[c].pc = "delete"
  /\ messages' = messages \ target
  /\ \/ /\ target # {}
        /\ Becomes(c, [call[c] EXCEPT !.pc = "post", !.target = 0])
        /\ Consume(c)
     \/ /\ Becomes(c, NoCall)
        /\ UNCHANGED tab
  /\ UNCHANGED <<created, request, made, overlapped>>

\* Mutant: the attempts are counted from one.
FailsOneLater(c, final, stopped) ==
  LET again == call[c].kind = "send" /\ ~final /\ call[c].attempt <= MaxRetries IN
  /\ Becomes(c, IF again THEN [call[c] EXCEPT !.pc = "backoff",
                                               !.stopped = call[c].stopped \/ stopped]
                 ELSE NoCall)
  /\ Consumed(c)

\* An attempt fails.  A send tries again unless the error is final or its
\* attempts are used up; regenerate does not retry.
Fails(c, final, stopped) ==
  LET again == call[c].kind = "send" /\ ~final /\ call[c].attempt < MaxRetries IN
  /\ Becomes(c, IF again THEN [call[c] EXCEPT !.pc = "backoff",
                                               !.stopped = call[c].stopped \/ stopped]
                 ELSE NoCall)
  /\ Consumed(c)

\* isRetryableError does not know the error of an aborted fetch, so a stopped
\* attempt fails like one whose connection broke.
Stop(t) ==
  /\ \E c \in tab[t].abort :
       /\ call[c].pc \in {"post", "reading"}
       /\ Fails(c, FALSE, TRUE)
  /\ Rowless /\ UNCHANGED <<request, made, overlapped>>

Disconnect(c) ==
  /\ call[c].pc \in {"post", "reading"}
  /\ Fails(c, FALSE, FALSE)
  /\ Rowless /\ UNCHANGED <<request, made, overlapped>>

\* Mutant: the attempt is not counted.
RetryUncounted(c) ==
  /\ call[c].pc = "backoff"
  /\ Becomes(c, [call[c] EXCEPT !.pc = "post"])
  /\ Consume(c)
  /\ Rowless /\ UNCHANGED <<request, made, overlapped>>

\* The back-off is over.
Retry(c) ==
  /\ call[c].pc = "backoff"
  /\ Becomes(c, [call[c] EXCEPT !.pc = "post", !.attempt = call[c].attempt + 1])
  /\ Consume(c)
  /\ Rowless /\ UNCHANGED <<request, made, overlapped>>

-----------------------------------------------------------------------------
(* The server *)

Connected(r, c) == c \in request[r].call /\ call[c].pc = "reading"

\* Mutant: the cap is off by one.
AdmitAtLimit(c, r) ==
  /\ call[c].pc = "post" /\ request[r].pc = "none"
  /\ Cardinality(Rows("USER")) <= Limit
  /\ request' = [s \in Requests |->
       IF s = r THEN [pc |-> "find", q |-> call[c].q, call |-> {c}]
       ELSE [request[s] EXCEPT !.call = request[s].call \ {c}]]
  /\ Becomes(c, [call[c] EXCEPT !.pc = "reading"])
  /\ overlapped' = (overlapped \/ Busy)
  /\ Rowless /\ UNCHANGED <<tab, made>>

\* The guest cap is looked at before the prompt is stored.
Admit(c, r) ==
  /\ call[c].pc = "post" /\ request[r].pc = "none"
  /\ Cardinality(Rows("USER")) < Limit
  /\ request' = [s \in Requests |->
       IF s = r THEN [pc |-> "find", q |-> call[c].q, call |-> {c}]
       ELSE [request[s] EXCEPT !.call = request[s].call \ {c}]]
  /\ Becomes(c, [call[c] EXCEPT !.pc = "reading"])
  /\ overlapped' = (overlapped \/ Busy)
  /\ Rowless /\ UNCHANGED <<tab, made>>

\* 403 at the cap is final.  The other refusals (429, 401, ...) carry a text
\* that replaces the status the client looks for, and are retried.
Refuse(c) ==
  /\ call[c].pc = "post"
  /\ \E final \in BOOLEAN :
       /\ final => Cardinality(Rows("USER")) >= Limit
       /\ Fails(c, final, FALSE)
  /\ Rowless /\ UNCHANGED <<request, made, overlapped>>

Set(r, pc) == request' = [request EXCEPT ![r] = [request[r] EXCEPT !.pc = pc]]

\* Mutant: the prompt is stored without looking.
FindNothing(r) ==
  /\ request[r].pc = "find"
  /\ Set(r, "create")
  /\ Rowless /\ UNCHANGED <<tab, call, made, overlapped>>

\* Mutant: the content of the last row is not compared.
FindAnyPrompt(r) ==
  /\ request[r].pc = "find"
  /\ Set(r, IF \E m \in Rows("USER") : IsLast(m, messages) THEN "work" ELSE "create")
  /\ Rowless /\ UNCHANGED <<tab, call, made, overlapped>>

\* The last row holds prompt q.
Asked(q) == \E m \in Rows("USER") : m.q = q /\ IsLast(m, messages)

\* findOrCreateUserMessage looks at the last row ...
FindPrompt(r) ==
  /\ request[r].pc = "find"
  /\ Set(r, IF Asked(request[r].q) THEN "work" ELSE "create")
  /\ Rowless /\ UNCHANGED <<tab, call, made, overlapped>>

\* ... and inserts the prompt.
CreatePrompt(r) ==
  /\ request[r].pc = "create"
  /\ Insert("USER", request[r].q)
  /\ Set(r, "work")
  /\ UNCHANGED <<tab, call, made, overlapped>>

\* The pipeline returns, is blocked or throws: each ends in an answer, if the
\* event before it still finds a client, or nobody has noticed that it is gone.
Answer(r) ==
  /\ request[r].pc = "work"
  /\ Set(r, "persist")
  /\ Rowless /\ UNCHANGED <<tab, call, made, overlapped>>

\* Mutant: an answer is stored twice, as finishWithAnswer followed by the
\* ordinary path would.
PersistTwice(r) ==
  /\ request[r].pc = "persist"
  /\ Insert("ASSISTANT", request[r].q)
  /\ \E pc \in {"persist", "reply"} : Set(r, pc)
  /\ UNCHANGED <<tab, call, made, overlapped>>

PersistAssistant(r) ==
  /\ request[r].pc = "persist"
  /\ Insert("ASSISTANT", request[r].q)
  /\ Set(r, "reply")
  /\ UNCHANGED <<tab, call, made, overlapped>>

End(r) == request' = [request EXCEPT ![r] = NoRequest]

\* The stream ends: after done, after the disambiguation event, which leaves the
\* prompt unanswered, or because a statement threw, which the client takes for
\* an answer too.
Reply(r) ==
  /\ request[r].pc # "none"
  /\ IF \E c \in Calls : Connected(r, c)
     THEN LET c == CHOOSE c \in Calls : Connected(r, c) IN
          Becomes(c, NoCall) /\ Consumed(c)
     ELSE UNCHANGED <<call, tab>>
  /\ End(r)
  /\ Rowless /\ UNCHANGED <<made, overlapped>>

\* The route breaks off at the first event after its client went away.
Abandon(r) ==
  /\ request[r].pc = "work" /\ \A c \in Calls : ~Connected(r, c)
  /\ End(r)
  /\ Rowless /\ UNCHANGED <<tab, call, made, overlapped>>

\* Its process dies or is cut off at maxDuration.
Die(r) ==
  /\ request[r].pc # "none"
  /\ \A c \in Calls : ~Connected(r, c)
  /\ End(r)
  /\ Rowless /\ UNCHANGED <<tab, call, made, overlapped>>

CallStep(c) ==
  \/ \E q \in Prompts : Send(c, q)
  \/ Regenerate(c) \/ FindAnswer(c) \/ DeleteAnswer(c)
  \/ Disconnect(c) \/ Retry(c) \/ Refuse(c)
  \/ \E r \in Requests : Admit(c, r)

RequestStep(r) ==
  \/ FindPrompt(r) \/ CreatePrompt(r) \/ Answer(r) \/ PersistAssistant(r)
  \/ Reply(r) \/ Abandon(r) \/ Die(r)

Next ==
  \/ \E c \in Calls : CallStep(c)
  \/ \E r \in Requests : RequestStep(r)
  \/ \E t \in Tabs : Stop(t)

Spec == Init /\ [][Next]_vars

\* Promises settle, timers fire, and a request that is served gets on.
Fairness ==
  /\ \A c \in Calls :
       /\ WF_vars(FindAnswer(c) \/ DeleteAnswer(c) \/ Retry(c))
       /\ WF_vars(Refuse(c) \/ \E r \in Requests : Admit(c, r))
  /\ \A r \in Requests :
       WF_vars(FindPrompt(r) \/ CreatePrompt(r) \/ Answer(r) \/ PersistAssistant(r) \/ Reply(r))

FairSpec == Spec /\ Fairness

-----------------------------------------------------------------------------
(* Properties *)

\* Whatever overlaps, an answer never stands before or without the prompt it
\* answers (findOrCreateUserMessage runs first; regenerate deletes no prompt).
AnswerHasPrompt ==
  \A m \in Rows("ASSISTANT") : \E n \in Rows("USER") : n.id < m.id /\ n.q = m.q

\* As long as no two writers of the conversation overlapped, failures,
\* retries, stops and regenerations leave every answer right behind its prompt.
OrderlyUnlessOverlapped ==
  ~overlapped => \A m \in Rows("ASSISTANT") :
    \E n \in Rows("USER") : n.q = m.q /\ IsLast(n, Before(m, messages))

\* ... and a prompt is not stored behind an unanswered copy of itself: a retry
\* reuses the row.
InsertsTwin == \E m \in messages' \ messages : m.role = "USER" /\ Asked(m.q)
NoDoubleInsert == [][overlapped' \/ ~InsertsTwin]_vars

\* The cap is checked before the prompt is stored, so it can be overrun, but
\* only by the other requests that are served at the same time.
CapOverrunBounded == Cardinality(Rows("USER")) <= Limit + Cardinality(Requests) - 1

\* The composer comes back: every call ends, by an answer, an error, or after
\* its last attempt.
CallsEnd == \A c \in Calls : call[c].pc # "idle" ~> call[c].pc = "idle"

=============================================================================
