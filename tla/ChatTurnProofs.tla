--------------------------- MODULE ChatTurnProofs ---------------------------
(***************************************************************************)
(* Type correctness of a conversation, that no answer is without its       *)
(* prompt, how far the guest cap can be overrun, that prompts and answers  *)
(* alternate unless turns overlap, and that a retry reuses the prompt its  *)
(* first attempt stored.                                                   *)
(***************************************************************************)
EXTENDS ChatTurn, FiniteSetTheorems, TLAPS

-----------------------------------------------------------------------------
(* Types *)

\* A call that waits for its next attempt has one left.
Counted == \A c \in Calls : call[c].pc = "backoff" => call[c].attempt < MaxRetries

LEMMA NothingTyped == NoCall \in Call /\ NoRequest \in Request
<1>1. SomePrompt \in Prompts
  BY ChatAssumption DEF SomePrompt
<1>2. 0 \in 0..MaxRetries /\ 0 \in Nat
  BY ChatAssumption
<1> QED BY <1>1, <1>2 DEF NoCall, NoRequest, Call, Request

LEMMA BecomesTyped ==
  ASSUME TypeOK, Counted, NEW c \in Calls, NEW new \in Call,
         new.pc = "backoff" => new.attempt < MaxRetries, Becomes(c, new)
  PROVE  call' \in [Calls -> Call] /\ Counted'
BY DEF TypeOK, Counted, Becomes

LEMMA IdleTyped ==
  ASSUME TypeOK, Counted, NEW c \in Calls, Becomes(c, NoCall)
  PROVE  call' \in [Calls -> Call] /\ Counted'
<1>1. NoCall.pc # "backoff"
  BY DEF NoCall
<1> QED BY <1>1, NothingTyped, BecomesTyped

LEMMA TabTyped ==
  ASSUME TypeOK, NEW c \in Calls, Consume(c) \/ Consumed(c)
  PROVE  tab' \in [Tabs -> Tab]
<1>1. [streaming |-> TRUE, abort |-> {c}] \in Tab
  BY DEF Tab
<1>2. [streaming |-> FALSE, abort |-> {}] \in Tab
  BY DEF Tab
<1>3. tab \in [Tabs -> Tab]
  BY DEF TypeOK
<1> QED BY <1>1, <1>2, <1>3 DEF Consume, Consumed

LEMMA FailsTyped ==
  ASSUME TypeOK, Counted, NEW c \in Calls, NEW final \in BOOLEAN, NEW stopped \in BOOLEAN,
         Fails(c, final, stopped)
  PROVE  call' \in [Calls -> Call] /\ Counted' /\ tab' \in [Tabs -> Tab]
<1> DEFINE again == call[c].kind = "send" /\ ~final /\ call[c].attempt < MaxRetries
           new == [call[c] EXCEPT !.pc = "backoff", !.stopped = call[c].stopped \/ stopped]
<1>1. tab' \in [Tabs -> Tab]
  BY TabTyped DEF Fails
<1>2. CASE ~again
  <2>1. Becomes(c, NoCall)
    BY <1>2 DEF Fails
  <2> QED BY <1>1, <2>1, IdleTyped
<1>3. CASE again
  <2>1. Becomes(c, new)
    BY <1>3 DEF Fails
  <2>2. call[c] \in Call
    BY DEF TypeOK
  <2>3. (call[c].stopped \/ stopped) \in BOOLEAN
    OBVIOUS
  <2>4. new \in Call
    BY <2>2, <2>3 DEF Call
  <2>5. new.attempt < MaxRetries
    BY <1>3, <2>2 DEF Call
  <2> HIDE DEF new
  <2> QED BY <1>1, <2>1, <2>4, <2>5, BecomesTyped
<1> QED BY <1>2, <1>3

LEMMA SetTyped ==
  ASSUME TypeOK, NEW r \in Requests, Set(r, "create") \/ Set(r, "work") \/ Set(r, "persist")
                                     \/ Set(r, "reply") \/ End(r)
  PROVE  request' \in [Requests -> Request]
<1>1. request[r] \in Request
  BY DEF TypeOK
<1>2. \A pc \in {"create", "work", "persist", "reply"} : [request[r] EXCEPT !.pc = pc] \in Request
  BY <1>1 DEF Request
<1> QED BY <1>2, NothingTyped DEF TypeOK, Set, End

LEMMA InsertTyped ==
  ASSUME TypeOK, NEW role \in {"USER", "ASSISTANT"}, NEW q \in Prompts, Insert(role, q)
  PROVE  messages' \in SUBSET Message /\ created' \in Nat
<1>1. [id |-> created + 1, role |-> role, q |-> q] \in Message
  BY DEF TypeOK, Message
<1> QED BY <1>1 DEF TypeOK, Insert

\* The parts of TypeOK that do not follow at once from UNCHANGED.
LEMMA TypeParts ==
  ASSUME messages' \in SUBSET Message, created' \in Nat, made' \in 0..MaxCalls,
         tab' \in [Tabs -> Tab], call' \in [Calls -> Call],
         request' \in [Requests -> Request], overlapped' \in BOOLEAN
  PROVE  TypeOK'
BY DEF TypeOK

LEMMA AdmitTyped ==
  ASSUME TypeOK, Counted, NEW c \in Calls, NEW r \in Requests, Admit(c, r)
  PROVE  TypeOK' /\ Counted'
<1>1. call[c] \in Call
  BY DEF TypeOK
<1>2. [call[c] EXCEPT !.pc = "reading"] \in Call /\ [call[c] EXCEPT !.pc = "reading"].pc # "backoff"
  BY <1>1 DEF Call
<1>3. call' \in [Calls -> Call] /\ Counted'
  BY <1>2, BecomesTyped DEF Admit
<1>4. [pc |-> "find", q |-> call[c].q, call |-> {c}] \in Request
  BY <1>1 DEF Call, Request
<1>5. \A s \in Requests : [request[s] EXCEPT !.call = request[s].call \ {c}] \in Request
  BY DEF TypeOK, Request
<1>6. request' \in [Requests -> Request]
  BY <1>4, <1>5 DEF Admit
<1>7. overlapped' \in BOOLEAN
  BY DEF TypeOK, Admit, Busy
<1> QED BY <1>3, <1>6, <1>7, TypeParts DEF TypeOK, Admit, Rowless

LEMMA CallStepTyped ==
  ASSUME TypeOK, Counted, NEW c \in Calls, CallStep(c)
  PROVE  TypeOK' /\ Counted'
<1>1. call[c] \in Call /\ NoCall \in Call
  BY NothingTyped DEF TypeOK
<1>2. ASSUME NEW q \in Prompts, Send(c, q) PROVE TypeOK' /\ Counted'
  <2>1. [NoCall EXCEPT !.pc = "post", !.q = q] \in Call
    BY <1>1 DEF Call
  <2>2. [NoCall EXCEPT !.pc = "post", !.q = q].pc # "backoff"
    BY DEF NoCall
  <2>3. call' \in [Calls -> Call] /\ Counted'
    BY <1>2, <2>1, <2>2, BecomesTyped DEF Send
  <2>4. tab' \in [Tabs -> Tab]
    BY <1>2, TabTyped DEF Send
  <2>5. made' \in 0..MaxCalls
    BY <1>2, ChatAssumption DEF TypeOK, Send, MayCall
  <2> QED BY <1>2, <2>3, <2>4, <2>5, TypeParts DEF TypeOK, Send, Rowless
<1>3. CASE Regenerate(c)
  <2>1. [NoCall EXCEPT !.pc = "find", !.kind = "regenerate"] \in Call
    BY <1>1 DEF Call
  <2>2. [NoCall EXCEPT !.pc = "find", !.kind = "regenerate"].pc # "backoff"
    BY DEF NoCall
  <2>3. call' \in [Calls -> Call] /\ Counted'
    BY <1>3, <2>1, <2>2, BecomesTyped DEF Regenerate
  <2>4. made' \in 0..MaxCalls
    BY <1>3, ChatAssumption DEF TypeOK, Regenerate, MayCall
  <2>5. overlapped' \in BOOLEAN
    BY <1>3 DEF TypeOK, Regenerate, Busy
  <2> QED BY <1>3, <2>3, <2>4, <2>5, TypeParts DEF TypeOK, Regenerate, Rowless
<1>4. CASE FindAnswer(c)
  <2>1. ASSUME NEW a \in messages, NEW p \in messages,
               Becomes(c, [call[c] EXCEPT !.pc = "delete", !.target = a.id, !.q = p.q])
        PROVE  call' \in [Calls -> Call] /\ Counted'
    <3>1. a.id \in Nat /\ p.q \in Prompts
      BY DEF TypeOK, Message
    <3>2. [call[c] EXCEPT !.pc = "delete", !.target = a.id, !.q = p.q] \in Call
      BY <1>1, <3>1 DEF Call
    <3>3. [call[c] EXCEPT !.pc = "delete", !.target = a.id, !.q = p.q].pc # "backoff"
      BY <1>1 DEF Call
    <3> QED BY <2>1, <3>2, <3>3, BecomesTyped
  <2>2. call' \in [Calls -> Call] /\ Counted'
    BY <1>4, <2>1, IdleTyped DEF FindAnswer
  <2> QED BY <1>4, <2>2, TypeParts DEF TypeOK, FindAnswer, Rowless
<1>5. CASE DeleteAnswer(c)
  <2>1. messages' \in SUBSET Message
    BY <1>5 DEF TypeOK, DeleteAnswer
  <2>2. CASE Becomes(c, [call[c] EXCEPT !.pc = "post", !.target = 0]) /\ Consume(c)
    <3>1. [call[c] EXCEPT !.pc = "post", !.target = 0] \in Call
      BY <1>1 DEF Call
    <3>2. [call[c] EXCEPT !.pc = "post", !.target = 0].pc # "backoff"
      BY <1>1 DEF Call
    <3>3. call' \in [Calls -> Call] /\ Counted'
      BY <2>2, <3>1, <3>2, BecomesTyped
    <3> QED BY <1>5, <2>1, <2>2, <3>3, TabTyped, TypeParts DEF TypeOK, DeleteAnswer
  <2>3. CASE Becomes(c, NoCall) /\ UNCHANGED tab
    BY <1>5, <2>1, <2>3, IdleTyped, TypeParts DEF TypeOK, DeleteAnswer
  <2> QED BY <1>5, <2>2, <2>3 DEF DeleteAnswer
<1>6. CASE Disconnect(c)
  BY <1>6, FailsTyped, TypeParts DEF TypeOK, Disconnect, Rowless
<1>7. CASE Retry(c)
  <2>1. call[c].attempt + 1 \in 0..MaxRetries
    BY <1>1, <1>7, ChatAssumption DEF Counted, Retry, Call
  <2>2. [call[c] EXCEPT !.pc = "post", !.attempt = call[c].attempt + 1] \in Call
    BY <1>1, <2>1 DEF Call
  <2>3. [call[c] EXCEPT !.pc = "post", !.attempt = call[c].attempt + 1].pc # "backoff"
    BY <1>1 DEF Call
  <2>4. call' \in [Calls -> Call] /\ Counted'
    BY <1>7, <2>2, <2>3, BecomesTyped DEF Retry
  <2> QED BY <1>7, <2>4, TabTyped, TypeParts DEF TypeOK, Retry, Rowless
<1>8. CASE Refuse(c)
  BY <1>8, FailsTyped, TypeParts DEF TypeOK, Refuse, Rowless
<1> QED BY <1>2, <1>3, <1>4, <1>5, <1>6, <1>7, <1>8, AdmitTyped DEF CallStep

LEMMA RequestStepTyped ==
  ASSUME TypeOK, Counted, NEW r \in Requests, RequestStep(r)
  PROVE  TypeOK' /\ Counted'
<1>1. request[r].q \in Prompts
  BY DEF TypeOK, Request
<1>2. CASE FindPrompt(r)
  <2>1. Set(r, "create") \/ Set(r, "work")
    BY <1>2 DEF FindPrompt
  <2> QED BY <1>2, <2>1, SetTyped, TypeParts DEF TypeOK, Counted, FindPrompt, Rowless
<1>3. CASE CreatePrompt(r)
  BY <1>1, <1>3, SetTyped, InsertTyped, TypeParts DEF TypeOK, Counted, CreatePrompt
<1>4. CASE Answer(r)
  BY <1>4, SetTyped, TypeParts DEF TypeOK, Counted, Answer, Rowless
<1>5. CASE PersistAssistant(r)
  BY <1>1, <1>5, SetTyped, InsertTyped, TypeParts DEF TypeOK, Counted, PersistAssistant
<1>6. CASE Reply(r)
  <2>1. CASE UNCHANGED <<call, tab>>
    BY <1>6, <2>1, SetTyped, TypeParts DEF TypeOK, Counted, Reply, Rowless
  <2>2. CASE \E c \in Calls : Connected(r, c)
    <3> DEFINE d == CHOOSE c \in Calls : Connected(r, c)
    <3>1. d \in Calls
      BY <2>2
    <3>2. Becomes(d, NoCall) /\ Consumed(d)
      BY <1>6, <2>2 DEF Reply
    <3> HIDE DEF d
    <3> QED BY <1>6, <3>1, <3>2, SetTyped, IdleTyped, TabTyped, TypeParts DEF TypeOK, Reply, Rowless
  <2> QED BY <1>6, <2>1, <2>2 DEF Reply
<1>7. CASE Abandon(r) \/ Die(r)
  BY <1>7, SetTyped, TypeParts DEF TypeOK, Counted, Abandon, Die, Rowless
<1> QED BY <1>2, <1>3, <1>4, <1>5, <1>6, <1>7 DEF RequestStep

LEMMA StopTyped ==
  ASSUME TypeOK, Counted, NEW t \in Tabs, Stop(t)
  PROVE  TypeOK' /\ Counted'
<1>1. PICK c \in tab[t].abort : Fails(c, FALSE, TRUE)
  BY DEF Stop
<1>2. c \in Calls
  BY DEF TypeOK, Tab
<1> QED BY <1>1, <1>2, FailsTyped, TypeParts DEF TypeOK, Stop, Rowless

LEMMA TypeStep == TypeOK /\ Counted /\ [Next]_vars => TypeOK' /\ Counted'
<1> SUFFICES ASSUME TypeOK, Counted, [Next]_vars PROVE TypeOK' /\ Counted'
  OBVIOUS
<1>1. CASE Next
  BY <1>1, CallStepTyped, RequestStepTyped, StopTyped DEF Next
<1>2. CASE UNCHANGED vars
  BY <1>2 DEF TypeOK, Counted, vars
<1> QED BY <1>1, <1>2

LEMMA TypeInit == Init => TypeOK /\ Counted
<1> SUFFICES ASSUME Init PROVE TypeOK /\ Counted
  OBVIOUS
<1>1. messages \in SUBSET Message /\ created \in Nat /\ made \in 0..MaxCalls
  BY ChatAssumption DEF Init
<1>5. overlapped \in BOOLEAN
  BY DEF Init
<1>2. tab \in [Tabs -> Tab]
  BY DEF Init, Tab
<1>3. call \in [Calls -> Call] /\ request \in [Requests -> Request]
  BY NothingTyped DEF Init
<1>4. Counted
  BY DEF Init, Counted, NoCall
<1> QED BY <1>1, <1>2, <1>3, <1>4, <1>5 DEF TypeOK

\* The tabs, calls, requests and rows keep their shape, and no call makes more
\* attempts than MAX_STREAM_RETRIES allows.
THEOREM TypeCorrect == Spec => []TypeOK
<1>1. Spec => [](TypeOK /\ Counted)
  BY TypeInit, TypeStep, PTL DEF Spec
<1> QED BY <1>1, PTL

-----------------------------------------------------------------------------
(* Answers and their prompts *)

\* Ids are used once, and not before their row is inserted.
Identified == \A m, n \in messages : m.id \in 1..created /\ (m.id = n.id => m = n)

\* What regenerate is about to delete is an answer.
Targeted == \A c \in Calls :
  /\ call[c].target \in 0..created
  /\ \A m \in messages : m.id = call[c].target => m.role = "ASSISTANT"

\* A request gets to work only once its prompt is stored.
Stored(q) == \E n \in messages : n.role = "USER" /\ n.q = q
Worked == {"work", "persist", "reply"}
Prompted == \A r \in Requests : request[r].pc \in Worked => Stored(request[r].q)

RowInv == Identified /\ Targeted /\ Prompted /\ AnswerHasPrompt

\* No row changes, no call takes aim, and whatever works has its prompt.
LEMMA RowsStay ==
  ASSUME TypeOK, RowInv, Rowless,
         \A c \in Calls : call'[c].target \in {0, call[c].target},
         \A r \in Requests : request'[r].pc \in Worked => Stored(request'[r].q)
  PROVE  RowInv'
<1>1. Identified' /\ AnswerHasPrompt'
  BY DEF RowInv, Identified, AnswerHasPrompt, Rows, Rowless
<1>2. Targeted'
  BY DEF TypeOK, RowInv, Identified, Targeted, Rowless
<1>3. Prompted'
  BY DEF Prompted, Stored, Rowless
<1> QED BY <1>1, <1>2, <1>3 DEF RowInv

LEMMA CallMoves ==
  ASSUME TypeOK, RowInv, NEW c \in Calls, NEW new \in Call, new.target \in {0, call[c].target},
         Becomes(c, new), Rowless, UNCHANGED request
  PROVE  RowInv'
<1>1. \A d \in Calls : call'[d].target \in {0, call[d].target}
  BY DEF TypeOK, Becomes
<1>2. \A r \in Requests : request'[r].pc \in Worked => Stored(request'[r].q)
  BY DEF RowInv, Prompted
<1> QED BY <1>1, <1>2, RowsStay

LEMMA FailsKeepsRows ==
  ASSUME TypeOK, RowInv, NEW c \in Calls, NEW final \in BOOLEAN, NEW stopped \in BOOLEAN,
         Fails(c, final, stopped), Rowless, UNCHANGED request
  PROVE  RowInv'
<1> DEFINE new == [call[c] EXCEPT !.pc = "backoff", !.stopped = call[c].stopped \/ stopped]
<1>1. call[c] \in Call
  BY DEF TypeOK
<1>2. NoCall.target = 0 /\ NoCall \in Call
  BY NothingTyped DEF NoCall
<1>3. (call[c].stopped \/ stopped) \in BOOLEAN
  OBVIOUS
<1>4. new \in Call /\ new.target = call[c].target
  BY <1>1, <1>3 DEF Call
<1>5. Becomes(c, new) \/ Becomes(c, NoCall)
  BY DEF Fails
<1> HIDE DEF new
<1> QED BY <1>2, <1>4, <1>5, CallMoves

\* A request goes on without touching the rows.
LEMMA RequestMoves ==
  ASSUME TypeOK, RowInv, NEW r \in Requests, NEW pc, Rowless, Set(r, pc),
         pc \in Worked => Stored(request[r].q),
         \A c \in Calls : call'[c].target \in {0, call[c].target}
  PROVE  RowInv'
<1>1. request[r] \in Request
  BY DEF TypeOK
<1>2. \A s \in Requests : request'[s].pc \in Worked => Stored(request'[s].q)
  BY <1>1 DEF TypeOK, RowInv, Prompted, Set, Request
<1> QED BY <1>2, RowsStay

LEMMA RequestEnds ==
  ASSUME TypeOK, RowInv, NEW r \in Requests, Rowless, End(r),
         \A c \in Calls : call'[c].target \in {0, call[c].target}
  PROVE  RowInv'
<1>1. NoRequest.pc \notin Worked
  BY DEF NoRequest, Worked
<1>2. \A s \in Requests : request'[s].pc \in Worked => Stored(request'[s].q)
  BY <1>1 DEF TypeOK, RowInv, Prompted, End
<1> QED BY <1>2, RowsStay

\* A row is added; an answer only behind its prompt.
LEMMA RowAdded ==
  ASSUME TypeOK, RowInv, NEW r \in Requests, NEW role \in {"USER", "ASSISTANT"},
         NEW q \in Prompts, NEW pc, Insert(role, q), Set(r, pc), UNCHANGED call,
         q = request[r].q, role = "ASSISTANT" => Stored(q)
  PROVE  RowInv'
<1> DEFINE row == [id |-> created + 1, role |-> role, q |-> q]
<1>1. messages' = messages \cup {row} /\ created' = created + 1 /\ created \in Nat
  BY DEF Insert, TypeOK
<1>2. row.id = created + 1 /\ row.role = role /\ row.q = q
  OBVIOUS
<1> HIDE DEF row
<1>3. \A m \in messages : m.id \in 1..created
  BY DEF RowInv, Identified
<1>4. Identified'
  BY <1>1, <1>2, <1>3 DEF RowInv, Identified
<1>5. Targeted'
  BY <1>1, <1>2 DEF RowInv, Targeted
<1>6. AnswerHasPrompt'
  <2>1. ASSUME NEW m \in messages, m.role = "ASSISTANT"
        PROVE  \E n \in messages' : n.role = "USER" /\ n.id < m.id /\ n.q = m.q
    BY <2>1, <1>1 DEF RowInv, AnswerHasPrompt, Rows
  <2>2. ASSUME role = "ASSISTANT"
        PROVE  \E n \in messages' : n.role = "USER" /\ n.id < row.id /\ n.q = row.q
    <3>1. PICK n \in messages : n.role = "USER" /\ n.q = q
      BY <2>2 DEF Stored
    <3>2. n.id < created + 1
      BY <1>1, <1>3
    <3> QED BY <1>1, <1>2, <3>1, <3>2
  <2> QED BY <1>1, <1>2, <2>1, <2>2 DEF AnswerHasPrompt, Rows
<1>7. Prompted'
  <2>1. request[r] \in Request
    BY DEF TypeOK
  <2>2. \A p : Stored(p) => Stored(p)'
    BY <1>1 DEF Stored
  <2>3. Stored(q)'
    BY <1>1, <1>2 DEF Stored
  <2>4. \A s \in Requests : request'[s].q = request[s].q
    BY <2>1 DEF TypeOK, Set, Request
  <2>5. \A s \in Requests : s # r => request'[s] = request[s]
    BY DEF TypeOK, Set
  <2> QED BY <2>2, <2>3, <2>4, <2>5 DEF RowInv, Prompted
<1> QED BY <1>4, <1>5, <1>6, <1>7 DEF RowInv

LEMMA FindAnswerKeepsRows ==
  ASSUME TypeOK, RowInv, NEW c \in Calls, FindAnswer(c)
  PROVE  RowInv'
<1>1. call[c] \in Call
  BY DEF TypeOK
<1>2. ASSUME NEW a \in messages, NEW p \in messages, Regenerable(a, p),
             Becomes(c, [call[c] EXCEPT !.pc = "delete", !.target = a.id, !.q = p.q])
      PROVE  RowInv'
  <2>1. Rowless /\ UNCHANGED request
    BY DEF FindAnswer
  <2>2. Identified' /\ AnswerHasPrompt' /\ Prompted'
    BY <2>1 DEF RowInv, Identified, AnswerHasPrompt, Prompted, Stored, Rows, Rowless
  <2>3. call'[c].target = a.id
    BY <1>1, <1>2 DEF TypeOK, Becomes, Call
  <2>4. \A d \in Calls : d # c => call'[d] = call[d]
    BY <1>2 DEF TypeOK, Becomes
  <2>5. a.role = "ASSISTANT" /\ a.id \in 0..created
    BY <1>2 DEF Regenerable, IsLast, Rows, RowInv, Identified
  <2>6. Targeted'
    BY <2>1, <2>3, <2>4, <2>5 DEF RowInv, Identified, Targeted, Rowless
  <2> QED BY <2>2, <2>6 DEF RowInv
<1>3. ASSUME Becomes(c, NoCall) PROVE RowInv'
  <2>1. NoCall.target = 0
    BY DEF NoCall
  <2> QED BY <1>3, <2>1, NothingTyped, CallMoves DEF FindAnswer
<1> QED BY <1>2, <1>3 DEF FindAnswer

LEMMA DeleteAnswerKeepsRows ==
  ASSUME TypeOK, RowInv, NEW c \in Calls, DeleteAnswer(c)
  PROVE  RowInv'
<1>1. call[c] \in Call
  BY DEF TypeOK
<1>2. \A d \in Calls : call'[d].target \in {0, call[d].target}
  <2>1. NoCall.target = 0
    BY DEF NoCall
  <2>2. [call[c] EXCEPT !.pc = "post", !.target = 0].target = 0
    BY <1>1 DEF Call
  <2> QED BY <2>1, <2>2 DEF TypeOK, DeleteAnswer, Becomes
<1>3. messages' \subseteq messages /\ created' = created /\ request' = request
  BY DEF DeleteAnswer
<1>4. \A m \in messages : m.role = "USER" => m \in messages'
  BY DEF RowInv, Targeted, DeleteAnswer
<1>5. Identified'
  BY <1>3 DEF RowInv, Identified
<1>6. Targeted'
  BY <1>2, <1>3 DEF TypeOK, RowInv, Identified, Targeted
<1>7. Prompted' /\ AnswerHasPrompt'
  BY <1>3, <1>4 DEF RowInv, Prompted, Stored, AnswerHasPrompt, Rows
<1> QED BY <1>5, <1>6, <1>7 DEF RowInv

LEMMA CallStepKeepsRows ==
  ASSUME TypeOK, Counted, RowInv, NEW c \in Calls, CallStep(c)
  PROVE  RowInv'
<1>1. call[c] \in Call
  BY DEF TypeOK
<1>2. ASSUME NEW q \in Prompts, Send(c, q) PROVE RowInv'
  <2>1. [NoCall EXCEPT !.pc = "post", !.q = q].target = 0
    BY DEF NoCall
  <2>2. [NoCall EXCEPT !.pc = "post", !.q = q] \in Call
    BY NothingTyped DEF Call
  <2> QED BY <1>2, <2>1, <2>2, CallMoves DEF Send
<1>3. CASE Regenerate(c)
  <2>1. [NoCall EXCEPT !.pc = "find", !.kind = "regenerate"].target = 0
    BY DEF NoCall
  <2>2. [NoCall EXCEPT !.pc = "find", !.kind = "regenerate"] \in Call
    BY NothingTyped DEF Call
  <2> QED BY <1>3, <2>1, <2>2, CallMoves DEF Regenerate
<1>4. CASE FindAnswer(c) \/ DeleteAnswer(c)
  BY <1>4, FindAnswerKeepsRows, DeleteAnswerKeepsRows
<1>5. CASE Disconnect(c) \/ Refuse(c)
  BY <1>5, FailsKeepsRows DEF Disconnect, Refuse
<1>6. CASE Retry(c)
  <2>1. call[c].attempt + 1 \in 0..MaxRetries
    BY <1>1, <1>6, ChatAssumption DEF Counted, Retry, Call
  <2>2. [call[c] EXCEPT !.pc = "post", !.attempt = call[c].attempt + 1] \in Call
    BY <1>1, <2>1 DEF Call
  <2>3. [call[c] EXCEPT !.pc = "post", !.attempt = call[c].attempt + 1].target = call[c].target
    BY <1>1 DEF Call
  <2> QED BY <1>6, <2>2, <2>3, CallMoves DEF Retry
<1>7. ASSUME NEW r \in Requests, Admit(c, r) PROVE RowInv'
  <2>1. \A d \in Calls : call'[d].target \in {0, call[d].target}
    BY <1>1, <1>7 DEF TypeOK, Admit, Becomes, Call
  <2>2. \A s \in Requests : s # r => request[s] \in Request
    BY DEF TypeOK
  <2>3. \A s \in Requests : s # r =>
          request'[s].pc = request[s].pc /\ request'[s].q = request[s].q
    BY <1>7, <2>2 DEF Admit, Request
  <2>4. request'[r].pc = "find"
    BY <1>7 DEF Admit
  <2>5. \A s \in Requests : request'[s].pc \in Worked => Stored(request'[s].q)
    BY <2>3, <2>4 DEF RowInv, Prompted, Worked
  <2> QED BY <1>7, <2>1, <2>5, RowsStay DEF Admit
<1> QED BY <1>2, <1>3, <1>4, <1>5, <1>6, <1>7 DEF CallStep

LEMMA RequestStepKeepsRows ==
  ASSUME TypeOK, RowInv, NEW r \in Requests, RequestStep(r)
  PROVE  RowInv'
<1>1. request[r] \in Request
  BY DEF TypeOK
<1>2. CASE FindPrompt(r)
  <2>1. Asked(request[r].q) => Stored(request[r].q)
    BY DEF Asked, Stored, Rows
  <2>2. \A c \in Calls : call'[c].target \in {0, call[c].target}
    BY <1>2 DEF FindPrompt
  <2>3. "create" \notin Worked
    BY DEF Worked
  <2> QED BY <1>2, <2>1, <2>2, <2>3, RequestMoves DEF FindPrompt
<1>3. CASE CreatePrompt(r)
  BY <1>1, <1>3, RowAdded DEF CreatePrompt, Request
<1>4. CASE Answer(r)
  <2>1. Stored(request[r].q)
    BY <1>4 DEF RowInv, Prompted, Answer, Worked
  <2>2. \A c \in Calls : call'[c].target \in {0, call[c].target}
    BY <1>4 DEF Answer
  <2> QED BY <1>4, <2>1, <2>2, RequestMoves DEF Answer
<1>5. CASE PersistAssistant(r)
  <2>1. Stored(request[r].q)
    BY <1>5 DEF RowInv, Prompted, PersistAssistant, Worked
  <2> QED BY <1>1, <1>5, <2>1, RowAdded DEF PersistAssistant, Request
<1>6. CASE Reply(r)
  <2>1. NoCall.target = 0
    BY DEF NoCall
  <2>2. \A c \in Calls : call'[c].target \in {0, call[c].target}
    BY <1>6, <2>1 DEF TypeOK, Reply, Becomes
  <2> QED BY <1>6, <2>2, RequestEnds DEF Reply
<1>7. CASE Abandon(r) \/ Die(r)
  <2>1. \A c \in Calls : call'[c].target \in {0, call[c].target}
    BY <1>7 DEF Abandon, Die
  <2> QED BY <1>7, <2>1, RequestEnds DEF Abandon, Die
<1> QED BY <1>2, <1>3, <1>4, <1>5, <1>6, <1>7 DEF RequestStep

LEMMA RowStep == TypeOK /\ Counted /\ RowInv /\ [Next]_vars => RowInv'
<1> SUFFICES ASSUME TypeOK, Counted, RowInv, [Next]_vars PROVE RowInv'
  OBVIOUS
<1>1. ASSUME NEW t \in Tabs, Stop(t) PROVE RowInv'
  <2>1. PICK c \in tab[t].abort : Fails(c, FALSE, TRUE)
    BY <1>1 DEF Stop
  <2>2. c \in Calls
    BY DEF TypeOK, Tab
  <2> QED BY <1>1, <2>1, <2>2, FailsKeepsRows DEF Stop
<1>2. CASE Next
  BY <1>1, <1>2, CallStepKeepsRows, RequestStepKeepsRows DEF Next
<1>3. CASE UNCHANGED vars
  BY <1>3 DEF RowInv, Identified, Targeted, Prompted, Stored, AnswerHasPrompt, Rows, vars
<1> QED BY <1>2, <1>3

LEMMA RowInit == Init => RowInv
<1> SUFFICES ASSUME Init PROVE RowInv
  OBVIOUS
<1>1. Identified /\ AnswerHasPrompt
  BY DEF Init, Identified, AnswerHasPrompt, Rows
<1>2. Targeted
  BY DEF Init, Targeted, NoCall
<1>3. Prompted
  BY DEF Init, Prompted, NoRequest, Worked
<1> QED BY <1>1, <1>2, <1>3 DEF RowInv

\* Whatever connections break, tabs overlap and processes die, every answer
\* stands behind the prompt it answers.
THEOREM AnswersArePrompted == Spec => []AnswerHasPrompt
<1>1. Spec => [](TypeOK /\ Counted /\ RowInv)
  BY TypeInit, TypeStep, RowInit, RowStep, PTL DEF Spec
<1>2. RowInv => AnswerHasPrompt
  BY DEF RowInv
<1> QED BY <1>1, <1>2, PTL

-----------------------------------------------------------------------------
(* The guest cap *)

\* The requests that were let in and have not stored their prompt.
Asking == {r \in Requests : request[r].pc \in {"find", "create"}}

\* The rows are finitely many, and whoever is let in is counted at once.
CapInv ==
  /\ IsFiniteSet(messages)
  /\ Cardinality(Rows("USER")) + Cardinality(Asking) <= Limit + Cardinality(Requests) - 1

LEMMA Finite ==
  ASSUME CapInv
  PROVE  /\ IsFiniteSet(Rows("USER")) /\ Cardinality(Rows("USER")) \in Nat
         /\ IsFiniteSet(Asking) /\ Cardinality(Asking) \in Nat
         /\ Cardinality(Requests) \in Nat
         /\ Cardinality(Asking) <= Cardinality(Requests)
<1>1. Rows("USER") \in SUBSET messages /\ Asking \in SUBSET Requests
  BY DEF Rows, Asking
<1>2. IsFiniteSet(Rows("USER")) /\ IsFiniteSet(Asking) /\ Cardinality(Asking) <= Cardinality(Requests)
  BY <1>1, FS_Subset, ChatAssumption DEF CapInv
<1> QED BY <1>2, FS_CardinalityType, ChatAssumption

\* Neither prompts nor requests that may store one become more.
LEMMA CapKept ==
  ASSUME CapInv, IsFiniteSet(messages'), Rows("USER")' \subseteq Rows("USER"),
         Asking' \subseteq Asking
  PROVE  CapInv'
<1>1. Cardinality(Rows("USER")') <= Cardinality(Rows("USER")) /\ Cardinality(Asking') <= Cardinality(Asking)
  BY Finite, FS_Subset
<1>2. Cardinality(Rows("USER")') \in Nat /\ Cardinality(Asking') \in Nat
  BY Finite, FS_Subset, FS_CardinalityType
<1>3. Limit \in Nat
  BY ChatAssumption
<1> QED BY <1>1, <1>2, <1>3, Finite DEF CapInv

LEMMA AdmitKeepsCap ==
  ASSUME TypeOK, CapInv, NEW c \in Calls, NEW r \in Requests, Admit(c, r)
  PROVE  CapInv'
<1>1. messages' = messages
  BY DEF Admit, Rowless
<1>2. Asking' \in SUBSET Requests
  BY DEF Asking
<1>3. Cardinality(Asking') <= Cardinality(Requests) /\ Cardinality(Asking') \in Nat
  BY <1>2, FS_Subset, FS_CardinalityType, ChatAssumption
<1>4. Cardinality(Rows("USER")) < Limit /\ Limit \in Nat
  BY ChatAssumption DEF Admit
<1>5. Rows("USER")' = Rows("USER")
  BY <1>1 DEF Rows
<1> QED BY <1>1, <1>3, <1>4, <1>5, Finite DEF CapInv

LEMMA CreatePromptKeepsCap ==
  ASSUME TypeOK, CapInv, NEW r \in Requests, CreatePrompt(r)
  PROVE  CapInv'
<1> DEFINE row == [id |-> created + 1, role |-> "USER", q |-> request[r].q]
<1>1. messages' = messages \cup {row} /\ row.role = "USER"
  BY DEF CreatePrompt, Insert
<1> HIDE DEF row
<1>2. IsFiniteSet(messages')
  BY <1>1, FS_AddElement DEF CapInv
<1>3. Rows("USER")' = Rows("USER") \cup {row}
  BY <1>1 DEF Rows
<1>4. Cardinality(Rows("USER")') <= Cardinality(Rows("USER")) + 1 /\ Cardinality(Rows("USER")') \in Nat
  <2> DEFINE prompts == Rows("USER")
  <2>1. IsFiniteSet(prompts) /\ Cardinality(prompts) \in Nat
    BY Finite
  <2> HIDE DEF prompts
  <2>2. Cardinality(prompts \cup {row}) <= Cardinality(prompts) + 1
        /\ Cardinality(prompts \cup {row}) \in Nat
    BY <2>1, FS_AddElement
  <2> QED BY <1>3, <2>2 DEF prompts
<1>5. Asking' = Asking \ {r} /\ r \in Asking
  <2>1. request[r] \in Request /\ request[r].pc = "create"
    BY DEF TypeOK, CreatePrompt
  <2>2. request'[r].pc = "work" /\ \A s \in Requests : s # r => request'[s] = request[s]
    BY <2>1 DEF TypeOK, CreatePrompt, Set, Request
  <2> QED BY <2>1, <2>2 DEF Asking
<1>6. Cardinality(Asking') = Cardinality(Asking) - 1
  BY <1>5, Finite, FS_RemoveElement
<1>7. Limit \in Nat
  BY ChatAssumption
<1> QED BY <1>2, <1>4, <1>6, <1>7, Finite DEF CapInv

LEMMA CapStep == TypeOK /\ CapInv /\ [Next]_vars => CapInv'
<1> SUFFICES ASSUME TypeOK, CapInv, [Next]_vars PROVE CapInv'
  OBVIOUS
<1>1. ASSUME UNCHANGED <<messages, request>> PROVE CapInv'
  BY <1>1 DEF CapInv, Rows, Asking
<1>2. ASSUME NEW c \in Calls, CallStep(c) PROVE CapInv'
  <2>1. CASE DeleteAnswer(c)
    <3>1. messages' \in SUBSET messages /\ request' = request
      BY <2>1 DEF DeleteAnswer
    <3>2. IsFiniteSet(messages')
      BY <3>1, FS_Subset DEF CapInv
    <3> QED BY <3>1, <3>2, CapKept DEF Rows, Asking
  <2> QED BY <1>1, <1>2, <2>1, AdmitKeepsCap
          DEF CallStep, Send, Regenerate, FindAnswer, Disconnect, Retry, Refuse, Rowless
<1>3. ASSUME NEW r \in Requests, RequestStep(r) PROVE CapInv'
  <2>1. CASE FindPrompt(r) \/ Answer(r) \/ Reply(r) \/ Abandon(r) \/ Die(r)
    <3>1. messages' = messages
      BY <2>1 DEF FindPrompt, Answer, Reply, Abandon, Die, Rowless
    <3>2. Asking' \subseteq Asking
      BY <2>1 DEF TypeOK, Request, FindPrompt, Answer, Reply, Abandon, Die, Set, End, NoRequest, Asking
    <3>3. IsFiniteSet(messages') /\ Rows("USER")' = Rows("USER")
      BY <3>1 DEF CapInv, Rows
    <3> QED BY <3>2, <3>3, CapKept
  <2>2. CASE PersistAssistant(r)
    <3> DEFINE row == [id |-> created + 1, role |-> "ASSISTANT", q |-> request[r].q]
    <3>1. messages' = messages \cup {row} /\ row.role = "ASSISTANT"
      BY <2>2 DEF PersistAssistant, Insert
    <3> HIDE DEF row
    <3>2. IsFiniteSet(messages')
      BY <3>1, FS_AddElement DEF CapInv
    <3>3. Rows("USER")' = Rows("USER")
      BY <3>1 DEF Rows
    <3>4. Asking' \subseteq Asking
      BY <2>2 DEF TypeOK, Request, PersistAssistant, Set, Asking
    <3> QED BY <3>2, <3>3, <3>4, CapKept
  <2> QED BY <1>3, <2>1, <2>2, CreatePromptKeepsCap DEF RequestStep
<1>4. ASSUME NEW t \in Tabs, Stop(t) PROVE CapInv'
  BY <1>1, <1>4 DEF Stop, Rowless
<1>5. CASE UNCHANGED vars
  BY <1>1, <1>5 DEF vars
<1> QED BY <1>2, <1>3, <1>4, <1>5 DEF Next

LEMMA CapInit == Init => CapInv
<1> SUFFICES ASSUME Init PROVE CapInv
  OBVIOUS
<1>1. messages = {} /\ Rows("USER") = {}
  BY DEF Init, Rows
<1>2. NoRequest.pc = "none"
  BY DEF NoRequest
<1>3. Asking = {}
  BY <1>2 DEF Init, Asking
<1>4. IsFiniteSet(messages) /\ Cardinality(Rows("USER")) = 0 /\ Cardinality(Asking) = 0
  BY <1>1, <1>3, FS_EmptySet
<1>5. Cardinality(Requests) \in Nat
  BY FS_CardinalityType, ChatAssumption
<1> QED BY <1>4, <1>5, ChatAssumption DEF CapInv

LEMMA CapImplied == CapInv => CapOverrunBounded
<1>1. Limit \in Nat
  BY ChatAssumption
<1> QED BY <1>1, Finite DEF CapInv, CapOverrunBounded

\* However many tabs send at once, a conversation's prompts exceed
\* GUEST_PROMPT_LIMIT by no more than the other requests served meanwhile.
THEOREM CapOverrunIsBounded == Spec => []CapOverrunBounded
<1>1. Spec => [](TypeOK /\ Counted /\ CapInv)
  BY TypeInit, TypeStep, CapInit, CapStep, PTL DEF Spec
<1> QED BY <1>1, CapImplied, PTL

-----------------------------------------------------------------------------
(* Turns that do not overlap *)

Serving(r) == request[r].pc # "none"
Editing(c) == call[c].pc \in {"find", "delete"}

\* As long as nothing overlapped, the conversation has at most one writer ...
Alone == ~overlapped =>
  /\ \A r, s \in Requests : Serving(r) /\ Serving(s) => r = s
  /\ \A c, d \in Calls : Editing(c) /\ Editing(d) => c = d
  /\ \A r \in Requests, c \in Calls : ~(Serving(r) /\ Editing(c))

\* ... so what a request saw of the last row still holds when it writes.
Looked == ~overlapped => \A r \in Requests :
  /\ request[r].pc = "create" => ~Asked(request[r].q)
  /\ request[r].pc \in {"work", "persist"} => Asked(request[r].q)

TurnInv == Alone /\ Looked /\ OrderlyUnlessOverlapped

\* A call moves on; no row and no request changes.
LEMMA CallTurn ==
  ASSUME TypeOK, TurnInv, NEW c \in Calls, NEW new, Becomes(c, new), Rowless,
         UNCHANGED <<request, overlapped>>, new.pc \in {"find", "delete"} => Editing(c)
  PROVE  TurnInv'
<1>1. call'[c] = new /\ \A d \in Calls : d # c => call'[d] = call[d]
  BY DEF TypeOK, Becomes
<1>2. \A d \in Calls : Editing(d)' => Editing(d)
  BY <1>1 DEF Editing
<1>3. Alone'
  BY <1>2 DEF TurnInv, Alone, Serving
<1>4. Looked' /\ OrderlyUnlessOverlapped'
  BY DEF TurnInv, Looked, OrderlyUnlessOverlapped, Asked, Rows, IsLast, Before, Rowless
<1> QED BY <1>3, <1>4 DEF TurnInv

LEMMA FailsTurn ==
  ASSUME TypeOK, TurnInv, NEW c \in Calls, NEW final \in BOOLEAN, NEW stopped \in BOOLEAN,
         Fails(c, final, stopped), Rowless, UNCHANGED <<request, overlapped>>
  PROVE  TurnInv'
<1> DEFINE new == [call[c] EXCEPT !.pc = "backoff", !.stopped = call[c].stopped \/ stopped]
<1>1. call[c] \in Call
  BY DEF TypeOK
<1>2. new.pc = "backoff" /\ NoCall.pc = "idle"
  BY <1>1 DEF Call, NoCall
<1>3. Becomes(c, new) \/ Becomes(c, NoCall)
  BY DEF Fails
<1> HIDE DEF new
<1> QED BY <1>2, <1>3, CallTurn

\* The rows that answers stand behind stay where they are.
LEMMA OrderStays ==
  ASSUME OrderlyUnlessOverlapped,
         overlapped => overlapped', messages' \subseteq messages,
         \A m \in messages : m.role = "USER" => m \in messages'
  PROVE  OrderlyUnlessOverlapped'
BY DEF OrderlyUnlessOverlapped, Rows, IsLast, Before

LEMMA DeleteTurn ==
  ASSUME TypeOK, RowInv, TurnInv, NEW c \in Calls, DeleteAnswer(c)
  PROVE  TurnInv'
<1>1. /\ call[c].pc = "delete" /\ messages' \subseteq messages /\ UNCHANGED <<request, overlapped>>
      /\ \A d \in Calls : d # c => call'[d] = call[d]
      /\ call'[c].pc \in {"post", "idle"}
  <2>1. call[c] \in Call /\ NoCall.pc = "idle"
    BY DEF TypeOK, NoCall
  <2>2. [call[c] EXCEPT !.pc = "post", !.target = 0].pc = "post"
    BY <2>1 DEF Call
  <2> QED BY <2>1, <2>2 DEF TypeOK, DeleteAnswer, Becomes
<1>2. \A d \in Calls : Editing(d)' => Editing(d)
  BY <1>1 DEF Editing
<1>3. Alone'
  BY <1>1, <1>2 DEF TurnInv, Alone, Serving
<1>4. \A m \in messages : m.role = "USER" => m \in messages'
  BY DEF RowInv, Targeted, DeleteAnswer
<1>5. OrderlyUnlessOverlapped'
  BY <1>1, <1>4, OrderStays DEF TurnInv
<1>6. ~overlapped => \A r \in Requests : request[r].pc = "none"
  BY <1>1 DEF TurnInv, Alone, Serving, Editing
<1>7. Looked'
  BY <1>1, <1>6 DEF Looked
<1> QED BY <1>3, <1>5, <1>7 DEF TurnInv

\* A new writer comes in: either it is the only one or the turns overlap.
LEMMA AdmitTurn ==
  ASSUME TypeOK, TurnInv, NEW c \in Calls, NEW r \in Requests, Admit(c, r)
  PROVE  TurnInv'
<1>1. Rowless /\ overlapped' = (overlapped \/ Busy)
  BY DEF Admit
<1>2. OrderlyUnlessOverlapped'
  BY <1>1 DEF TurnInv, OrderlyUnlessOverlapped, Rows, IsLast, Before, Rowless
<1>3. /\ request'[r].pc = "find"
      /\ \A s \in Requests : s # r => request'[s].pc = request[s].pc
  <2>1. \A s \in Requests : request[s] \in Request
    BY DEF TypeOK
  <2> QED BY <2>1 DEF Admit, Request
<1>4. call'[c].pc = "reading" /\ \A d \in Calls : d # c => call'[d] = call[d]
  BY DEF TypeOK, Admit, Becomes, Call
<1>5. CASE ~Busy
  <2>1. \A s \in Requests : s # r => request'[s].pc = "none"
    BY <1>3, <1>5 DEF Busy
  <2>2. \A d \in Calls : ~Editing(d)'
    BY <1>4, <1>5 DEF Busy, Editing
  <2>3. Alone'
    BY <2>1, <2>2 DEF Alone, Serving
  <2>4. Looked'
    BY <1>3, <2>1 DEF Looked
  <2> QED BY <1>2, <2>3, <2>4 DEF TurnInv
<1>6. CASE Busy
  <2>1. overlapped'
    BY <1>1, <1>6
  <2> QED BY <2>1 DEF TurnInv, Alone, Looked, OrderlyUnlessOverlapped
<1> QED BY <1>5, <1>6

LEMMA RegenerateTurn ==
  ASSUME TypeOK, TurnInv, NEW c \in Calls, Regenerate(c)
  PROVE  TurnInv'
<1>1. Rowless /\ overlapped' = (overlapped \/ Busy) /\ request' = request
  BY DEF Regenerate
<1>2. OrderlyUnlessOverlapped'
  BY <1>1 DEF TurnInv, OrderlyUnlessOverlapped, Rows, IsLast, Before, Rowless
<1>3. \A d \in Calls : d # c => call'[d] = call[d]
  BY DEF TypeOK, Regenerate, Becomes
<1>4. CASE ~Busy
  <2>1. \A s \in Requests : request'[s].pc = "none"
    BY <1>1, <1>4 DEF Busy
  <2>2. \A d \in Calls : d # c => ~Editing(d)'
    BY <1>3, <1>4 DEF Busy, Editing
  <2> QED BY <1>2, <2>1, <2>2 DEF TurnInv, Alone, Looked, Serving
<1>5. CASE Busy
  <2>1. overlapped'
    BY <1>1, <1>5
  <2> QED BY <2>1 DEF TurnInv, Alone, Looked, OrderlyUnlessOverlapped
<1> QED BY <1>4, <1>5

LEMMA CallStepTurn ==
  ASSUME TypeOK, RowInv, TurnInv, NEW c \in Calls, CallStep(c)
  PROVE  TurnInv'
<1>1. call[c] \in Call
  BY DEF TypeOK
<1>2. ASSUME NEW q \in Prompts, Send(c, q) PROVE TurnInv'
  <2>1. [NoCall EXCEPT !.pc = "post", !.q = q].pc = "post"
    BY DEF NoCall
  <2> QED BY <1>2, <2>1, CallTurn DEF Send
<1>3. CASE FindAnswer(c)
  <2>1. \E new : Becomes(c, new)
    BY <1>3 DEF FindAnswer
  <2> QED BY <1>3, <2>1, CallTurn DEF FindAnswer, Editing
<1>4. CASE Disconnect(c) \/ Refuse(c)
  BY <1>4, FailsTurn DEF Disconnect, Refuse
<1>5. CASE Retry(c)
  <2>1. [call[c] EXCEPT !.pc = "post", !.attempt = call[c].attempt + 1].pc = "post"
    BY <1>1 DEF Call
  <2> QED BY <1>5, <2>1, CallTurn DEF Retry
<1> QED
  BY <1>2, <1>3, <1>4, <1>5, RegenerateTurn, DeleteTurn, AdmitTurn DEF CallStep

LEMMA SetEffect ==
  ASSUME TypeOK, NEW r \in Requests, NEW pc, Set(r, pc)
  PROVE  /\ request'[r].pc = pc /\ request'[r].q = request[r].q
         /\ \A s \in Requests : s # r => request'[s] = request[s]
<1>1. request[r] \in Request
  BY DEF TypeOK
<1> QED BY <1>1 DEF TypeOK, Set, Request

\* The one request that writes stays the one.
LEMMA AloneServes ==
  ASSUME TurnInv, NEW r \in Requests, Serving(r), UNCHANGED overlapped,
         \A s \in Requests : s # r => request'[s] = request[s],
         \A d \in Calls : Editing(d)' => Editing(d)
  PROVE  /\ Alone'
         /\ ~overlapped => \A s \in Requests : s # r => request'[s].pc = "none"
BY DEF TurnInv, Alone, Serving

LEMMA FindTurn ==
  ASSUME TypeOK, TurnInv, NEW r \in Requests, FindPrompt(r) \/ Answer(r)
  PROVE  TurnInv'
<1>1. Serving(r) /\ Rowless /\ UNCHANGED <<call, overlapped>>
  BY DEF FindPrompt, Answer, Serving
<1>2. /\ request'[r].q = request[r].q /\ \A s \in Requests : s # r => request'[s] = request[s]
      /\ \/ request'[r].pc = "work" /\ Asked(request[r].q)
         \/ request'[r].pc = "create" /\ ~Asked(request[r].q)
         \/ request'[r].pc = "persist" /\ request[r].pc = "work"
  BY SetEffect DEF FindPrompt, Answer
<1>3. Alone' /\ (~overlapped => \A s \in Requests : s # r => request'[s].pc = "none")
  BY <1>1, <1>2, AloneServes DEF Editing
<1>4. \A q : Asked(q)' <=> Asked(q)
  BY <1>1 DEF Asked, Rows, IsLast, Rowless
<1>5. Looked'
  BY <1>1, <1>2, <1>3, <1>4 DEF TurnInv, Looked
<1>6. OrderlyUnlessOverlapped'
  BY <1>1 DEF TurnInv, OrderlyUnlessOverlapped, Rows, IsLast, Before, Rowless
<1> QED BY <1>3, <1>5, <1>6 DEF TurnInv

\* The prompt becomes the last row; the answers before it keep theirs.
LEMMA WriteTurn ==
  ASSUME TypeOK, RowInv, TurnInv, NEW r \in Requests, CreatePrompt(r) \/ PersistAssistant(r)
  PROVE  TurnInv'
<1> DEFINE role == IF CreatePrompt(r) THEN "USER" ELSE "ASSISTANT"
           row == [id |-> created + 1, role |-> role, q |-> request[r].q]
<1>1. /\ Serving(r) /\ UNCHANGED <<call, overlapped>>
      /\ \/ role = "USER" /\ request'[r].pc = "work"
         \/ role = "ASSISTANT" /\ request'[r].pc = "reply" /\ request[r].pc = "persist"
      /\ request'[r].q = request[r].q
      /\ \A s \in Requests : s # r => request'[s] = request[s]
  BY SetEffect DEF CreatePrompt, PersistAssistant, Serving
<1>2. messages' = messages \cup {row}
  BY DEF CreatePrompt, PersistAssistant, Insert
<1>3. row.id = created + 1 /\ row.role = role /\ row.q = request[r].q /\ created \in Nat
  BY DEF TypeOK
<1> HIDE DEF row
<1>4. \A m \in messages : m.id \in 1..created /\ m.id < row.id /\ m # row
  BY <1>3 DEF RowInv, Identified
<1>5. Alone' /\ (~overlapped => \A s \in Requests : s # r => request'[s].pc = "none")
  BY <1>1, AloneServes DEF Editing
<1>6. role = "USER" => Asked(request[r].q)'
  <2> SUFFICES ASSUME role = "USER"
               PROVE  /\ row \in messages' /\ row.role = "USER" /\ row.q = request'[r].q
                      /\ \A n \in messages' : n.id <= row.id
    BY DEF Asked, Rows, IsLast
  <2> QED BY <1>1, <1>2, <1>3, <1>4
<1>7. Looked'
  BY <1>1, <1>5, <1>6 DEF Looked
<1>8. ASSUME ~overlapped, NEW m \in messages', m.role = "ASSISTANT"
      PROVE  \E n \in messages' : /\ n.role = "USER" /\ n.q = m.q /\ n.id < m.id
                                  /\ \A k \in messages' : k.id < m.id => k.id <= n.id
  <2>1. CASE m \in messages
    <3>1. PICK n \in messages : /\ n.role = "USER" /\ n.q = m.q /\ n.id < m.id
                                /\ \A k \in messages : k.id < m.id => k.id <= n.id
      BY <1>8, <2>1 DEF TurnInv, OrderlyUnlessOverlapped, Rows, IsLast, Before
    <3>2. ~(row.id < m.id)
      BY <1>3, <1>4, <2>1
    <3> QED BY <1>2, <3>1, <3>2
  <2>2. CASE m = row
    <3>1. Asked(request[r].q)
      BY <1>1, <1>3, <1>8, <2>2 DEF TurnInv, Looked
    <3>2. PICK n \in messages : /\ n.role = "USER" /\ n.q = request[r].q
                                /\ \A k \in messages : k.id <= n.id
      BY <3>1 DEF Asked, Rows, IsLast
    <3>3. ~(row.id < row.id)
      BY <1>3
    <3> QED BY <1>2, <1>3, <1>4, <2>2, <3>2, <3>3
  <2> QED BY <1>2, <2>1, <2>2
<1>9. OrderlyUnlessOverlapped'
  BY <1>1, <1>8 DEF OrderlyUnlessOverlapped, Rows, IsLast, Before
<1> QED BY <1>5, <1>7, <1>9 DEF TurnInv

LEMMA EndTurn ==
  ASSUME TypeOK, TurnInv, NEW r \in Requests, Reply(r) \/ Abandon(r) \/ Die(r)
  PROVE  TurnInv'
<1>1. Rowless /\ UNCHANGED overlapped /\ End(r)
  BY DEF Reply, Abandon, Die
<1>2. \A d \in Calls : Editing(d)' => Editing(d)
  <2>1. call' = call \/ \E c : Becomes(c, NoCall)
    BY DEF Reply, Abandon, Die
  <2>2. \A d \in Calls : call'[d] \in {call[d], NoCall}
    BY <2>1 DEF TypeOK, Becomes
  <2> QED BY <2>2 DEF Editing, NoCall
<1>3. request'[r].pc = "none" /\ \A s \in Requests : s # r => request'[s] = request[s]
  BY <1>1 DEF TypeOK, End, NoRequest
<1>4. Alone'
  BY <1>1, <1>2, <1>3 DEF TurnInv, Alone, Serving
<1>5. Looked'
  BY <1>1, <1>3 DEF TurnInv, Looked, Asked, Rows, IsLast, Rowless
<1>6. OrderlyUnlessOverlapped'
  BY <1>1 DEF TurnInv, OrderlyUnlessOverlapped, Rows, IsLast, Before, Rowless
<1> QED BY <1>4, <1>5, <1>6 DEF TurnInv

LEMMA TurnStep == TypeOK /\ RowInv /\ TurnInv /\ [Next]_vars => TurnInv'
<1> SUFFICES ASSUME TypeOK, RowInv, TurnInv, [Next]_vars PROVE TurnInv'
  OBVIOUS
<1>1. ASSUME NEW t \in Tabs, Stop(t) PROVE TurnInv'
  <2>1. PICK c \in tab[t].abort : Fails(c, FALSE, TRUE)
    BY <1>1 DEF Stop
  <2>2. c \in Calls
    BY DEF TypeOK, Tab
  <2> QED BY <1>1, <2>1, <2>2, FailsTurn DEF Stop
<1>2. ASSUME NEW r \in Requests, RequestStep(r) PROVE TurnInv'
  BY <1>2, FindTurn, WriteTurn, EndTurn DEF RequestStep
<1>3. CASE UNCHANGED vars
  BY <1>3 DEF TurnInv, Alone, Looked, OrderlyUnlessOverlapped, Serving, Editing, Asked,
              Rows, IsLast, Before, vars
<1> QED BY <1>1, <1>2, <1>3, CallStepTurn DEF Next

LEMMA TurnInit == Init => TurnInv
BY DEF Init, TurnInv, Alone, Looked, OrderlyUnlessOverlapped, Serving, Editing, Rows,
       NoCall, NoRequest

\* Failures, retries, stops and regenerations leave every answer right behind
\* its prompt, as long as no two writers of the conversation overlapped.
THEOREM TurnsAreOrderly == Spec => []OrderlyUnlessOverlapped
<1>1. Spec => [](TypeOK /\ Counted /\ RowInv /\ TurnInv)
  BY TypeInit, TypeStep, RowInit, RowStep, TurnInit, TurnStep, PTL DEF Spec
<1>2. TurnInv => OrderlyUnlessOverlapped
  BY DEF TurnInv
<1> QED BY <1>1, <1>2, PTL

\* Only a request that found another last row inserts its prompt.
LEMMA TwinStep ==
  TypeOK /\ RowInv /\ TurnInv /\ [Next]_vars => [overlapped' \/ ~InsertsTwin]_vars
<1> SUFFICES ASSUME TypeOK, RowInv, TurnInv, [Next]_vars, ~overlapped',
                    NEW m \in messages' \ messages, m.role = "USER", Asked(m.q)
             PROVE  FALSE
  BY DEF InsertsTwin
<1>1. ASSUME NEW r \in Requests, CreatePrompt(r) PROVE FALSE
  <2>1. m.q = request[r].q /\ ~overlapped /\ request[r].pc = "create"
    BY <1>1 DEF CreatePrompt, Insert
  <2> QED BY <2>1 DEF TurnInv, Looked
<1>2. ASSUME NEW r \in Requests, PersistAssistant(r) PROVE FALSE
  BY <1>2 DEF PersistAssistant, Insert
<1>3. CASE messages' \subseteq messages
  BY <1>3
<1> QED
  BY <1>1, <1>2, <1>3 DEF Next, CallStep, RequestStep, Send, Regenerate, FindAnswer,
     DeleteAnswer, Disconnect, Retry, Refuse, Admit, FindPrompt, Answer, Reply, Abandon,
     Die, Stop, Rowless, vars

\* ... and a retry reuses the row of its prompt: none is stored behind an
\* unanswered copy of itself.
THEOREM RetriesReuseThePrompt == Spec => NoDoubleInsert
<1>1. Spec => [](TypeOK /\ Counted /\ RowInv /\ TurnInv)
  BY TypeInit, TypeStep, RowInit, RowStep, TurnInit, TurnStep, PTL DEF Spec
<1>2. TypeOK /\ RowInv /\ TurnInv /\ [Next]_vars => [overlapped' \/ ~InsertsTwin]_vars
  BY TwinStep
<1> QED BY <1>1, <1>2, PTL DEF Spec, NoDoubleInsert

=============================================================================
