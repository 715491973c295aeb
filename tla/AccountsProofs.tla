-------------------------- MODULE AccountsProofs --------------------------
(***************************************************************************)
(* Theorems about who owns what: the foreign keys, what becomes of the     *)
(* data of a guest who signs in, whose rating wins, and how many prompts a *)
(* guest gets, for any number of guests, accounts, conversations and       *)
(* requests that run together.                                             *)
(***************************************************************************)
EXTENDS Accounts, FiniteSetTheorems, WellFoundedInduction, TLAPS

\* The claim of a request has moved the conversations.
PastMove(x) ==
  /\ x.member # none
  /\ \/ x.pc = "claim" /\ "move" \notin x.todo
     \/ x.pc = "forget"
     \/ x.claimed
Past(r) == PastMove(request[r])

\* The request has been found to own what it writes to; a conversation does not
\* leave an account, nor a guest but for an account.
Writes(x) == x.pc = "write" /\ x.conv # none
Held(x, owner) ==
  IF x.member # none THEN owner = x.member ELSE owner \in {x.cookie, none} \cup Members
Working(r) == Writes(request[r])

\* What the fields of a request say of each other.
RequestOK(x) ==
  /\ x.todo # {} \/ x.pc \in {"claim", "forget"} \/ x.claimed
       => x.cookie \in Guests /\ x.member \in Members
  /\ x.claimed \/ x.pc = "forget" => x.todo = {}
  /\ x.pc = "idle" => ~x.claimed
  /\ x.op \in OwnOps <=> x.conv # none
  /\ x.pc = "cap" => x.member = none /\ x.op \in {"create", "ask"}
  /\ x.pc = "own" => x.op \in OwnOps
  /\ x.pc # "idle" => x.cookie # none \/ x.member # none

RequestsOK == \A r \in Requests : RequestOK(request[r])

\* The rows of accounts stay, and a conversation that is not born holds nothing.
RowsOK ==
  /\ Members \subseteq here
  /\ \A c \in Convs \ born : conv[c].owner = none /\ conv[c].prompts = 0

Rows == AccountsTypeOK /\ RequestsOK /\ RowsOK /\ RowsHang

\* Nothing a guest had is left under it once its claim has moved it.
MovedAll ==
  \A r \in Requests, c \in born \ late : Past(r) => conv[c].owner # request[r].cookie

Claims == MovedAll /\ GuestDataFollows

HeldAll == \A r \in Requests : Working(r) => /\ request[r].conv \in born
                                             /\ Held(request[r], conv[request[r].conv].owner)

\* Who has rated an answer itself owns the conversation, if it is an account,
\* and an account keeps what it owns.
Ratings ==
  /\ \A c \in Convs, m \in Members : rating[c][m] = m => conv[c].owner = m
  /\ \A c \in Convs, g \in Guests : rating[c][g] \in {g, none}
  /\ HeldAll

-----------------------------------------------------------------------------
(* One request changes *)

\* Request r becomes another, and no other does.
Turned(r) ==
  /\ request' \in [Requests -> Request] /\ RequestsOK'
  /\ \A q \in Requests : q # r => request'[q] = request[q]

\* A request past its move was so before, for the same guest.
KeepsClaim(r) == Past(r)' => Past(r) /\ request'[r].cookie = request[r].cookie

\* A request that writes did so before, to the same conversation.
KeepsWork(r) ==
  Working(r)' => /\ Working(r)
                 /\ request'[r].conv = request[r].conv
                 /\ request'[r].member = request[r].member
                 /\ request'[r].cookie = request[r].cookie

\* A guest's question that has passed the cap did so before.
Asks(x) == x.member = none /\ x.op = "ask" /\ x.pc \in {"own", "write"}
KeepsAsking(r) == Asks(request'[r]) => /\ Asks(request[r])
                                       /\ request'[r].cookie = request[r].cookie

LEMMA Becomes ==
  ASSUME Rows, NEW r \in Requests, NEW new \in Request, RequestOK(new), RequestBecomes(r, new)
  PROVE  Turned(r) /\ request'[r] = new
<1>1. request \in [Requests -> Request]
  BY DEF Rows, AccountsTypeOK
<1>2. request' \in [Requests -> Request] /\ request'[r] = new
      /\ \A q \in Requests : q # r => request'[q] = request[q]
  BY <1>1 DEF RequestBecomes
<1> QED BY <1>2 DEF Turned, RequestsOK, Rows

LEMMA IdleOK == IdleRequest \in Request /\ RequestOK(IdleRequest)
                /\ ~PastMove(IdleRequest) /\ ~Writes(IdleRequest) /\ ~Asks(IdleRequest)
BY DEF IdleRequest, Request, RequestOK, PastMove, Writes, Asks, Ops, OwnOps

\* The request goes on to pc, its claim being over or never made.
LEMMA Goes ==
  ASSUME Rows, NEW r \in Requests, NEW pc \in {"auth", "cap", "own", "write"}, RequestGoes(r, pc),
         request[r].pc \in {"auth", "cap", "own", "write"},
         pc = "cap" => ByGuest(r) /\ request[r].op \in {"create", "ask"},
         pc = "own" => request[r].op \in OwnOps
  PROVE  Turned(r) /\ KeepsClaim(r) /\ request'[r] = [request[r] EXCEPT !.pc = pc]
<1> DEFINE x == request[r]
           y == [x EXCEPT !.pc = pc]
<1>1. x \in Request /\ RequestOK(x)
  BY DEF Rows, AccountsTypeOK, RequestsOK
<1>2. /\ y \in Request /\ y.pc = pc /\ y.op = x.op /\ y.cookie = x.cookie /\ y.member = x.member
      /\ y.conv = x.conv /\ y.todo = x.todo /\ y.claimed = x.claimed
  BY <1>1 DEF Request
<1>3. RequestBecomes(r, y)
  BY DEF RequestGoes
<1> HIDE DEF y
<1>4. RequestOK(y) /\ (PastMove(y) => PastMove(x))
  BY <1>1, <1>2 DEF RequestOK, PastMove, ByGuest
<1>5. Turned(r) /\ request'[r] = y
  BY <1>2, <1>3, <1>4, Becomes
<1> QED BY <1>2, <1>4, <1>5 DEF KeepsClaim, Past, y

\* The work is done or refused.
LEMMA Ends ==
  ASSUME Rows, NEW r \in Requests, Done(r), request[r].pc \in {"auth", "cap", "own", "write"}
  PROVE  /\ Turned(r) /\ KeepsClaim(r) /\ KeepsWork(r) /\ KeepsAsking(r)
         /\ request'[r].pc = "reply"
<1> DEFINE x == request[r]
           a == [x EXCEPT !.pc = "reply"]
           b == [a EXCEPT !.op = "create"]
           y == [b EXCEPT !.conv = none]
<1>1. x \in Request /\ RequestOK(x)
  BY DEF Rows, AccountsTypeOK, RequestsOK
<1>2. /\ a \in Request /\ a.pc = "reply" /\ a.cookie = x.cookie /\ a.member = x.member
      /\ a.todo = x.todo /\ a.claimed = x.claimed
  BY <1>1 DEF Request
<1>3. RequestBecomes(r, y)
  BY <1>1 DEF Done, Request
<1> HIDE DEF a
<1>4. /\ b \in Request /\ b.pc = "reply" /\ b.op = "create" /\ b.cookie = x.cookie
      /\ b.member = x.member /\ b.todo = x.todo /\ b.claimed = x.claimed
  BY <1>2 DEF Request, Ops
<1> HIDE DEF b
<1>5. /\ y \in Request /\ y.pc = "reply" /\ y.op = "create" /\ y.cookie = x.cookie /\ y.conv = none
      /\ y.member = x.member /\ y.todo = x.todo /\ y.claimed = x.claimed
  BY <1>4 DEF Request
<1> HIDE DEF y
<1>6. RequestOK(y) /\ ~Writes(y) /\ ~Asks(y) /\ (PastMove(y) => PastMove(x))
  BY <1>1, <1>5 DEF RequestOK, Writes, Asks, PastMove, OwnOps
<1>7. Turned(r) /\ request'[r] = y
  BY <1>3, <1>5, <1>6, Becomes
<1> QED BY <1>5, <1>6, <1>7 DEF KeepsClaim, KeepsWork, KeepsAsking, Past, Working
Stmts == {"move", "rate", "drop", "again"}

\* A statement of a claim is done.
LEMMA Statement ==
  ASSUME Rows, NEW r \in Requests, NEW stmt \in Stmts, NEW more \in SUBSET {"drop", "again"},
         Owes(r, stmt), Did(r, stmt, more)
  PROVE  Turned(r) /\ KeepsWork(r) /\ KeepsAsking(r) /\ (stmt # "move" => KeepsClaim(r))
         /\ (Past(r)' => request'[r].cookie = request[r].cookie)
<1> DEFINE x == request[r]
           rest == (x.todo \ {stmt}) \cup more
           pc == IF x.pc = "claim" /\ rest = {} THEN "forget" ELSE x.pc
           a == [x EXCEPT !.todo = rest]
           y == [a EXCEPT !.pc = pc]
<1>1. x \in Request /\ RequestOK(x) /\ stmt \in x.todo
  BY DEF Rows, AccountsTypeOK, RequestsOK, Owes
<1>2. rest \in SUBSET Stmts /\ pc \in {"idle", "claim", "forget", "auth", "cap", "own", "write", "reply"}
  BY <1>1 DEF Request, Stmts
<1>3. RequestBecomes(r, IF x.pc = "idle" /\ rest = {} THEN IdleRequest ELSE y)
  BY <1>1 DEF Did, RequestAt, Request
<1>4. /\ pc = "idle" <=> x.pc = "idle"
      /\ pc # x.pc => x.pc = "claim" /\ pc = "forget" /\ rest = {}
      /\ pc = "forget" => x.pc = "claim" /\ rest = {}
      /\ "move" \notin rest => "move" \notin x.todo \/ stmt = "move"
  BY <1>1 DEF RequestOK
<1> HIDE DEF rest, pc
<1>5. /\ a \in Request /\ a.pc = x.pc /\ a.op = x.op /\ a.cookie = x.cookie /\ a.member = x.member
      /\ a.conv = x.conv /\ a.todo = rest /\ a.claimed = x.claimed
  BY <1>1, <1>2 DEF Request, Stmts
<1> HIDE DEF a
<1>6. /\ y \in Request /\ y.pc = pc /\ y.op = x.op /\ y.cookie = x.cookie /\ y.member = x.member
      /\ y.conv = x.conv /\ y.todo = rest /\ y.claimed = x.claimed
  BY <1>2, <1>5 DEF Request
<1> HIDE DEF y
<1>7. ~x.claimed /\ x.cookie \in Guests /\ x.member \in Members
  BY <1>1 DEF RequestOK
<1>8. RequestOK(y)
  BY <1>1, <1>4, <1>6, <1>7 DEF RequestOK
<1>9. /\ PastMove(y) => PastMove(x) \/ stmt = "move"
      /\ Writes(y) => Writes(x)
      /\ ~Asks(y)
  BY <1>4, <1>6, <1>7, AccountsAssumption DEF PastMove, Writes, Asks
<1>10. Turned(r) /\ (request'[r] = y \/ request'[r] = IdleRequest)
  BY <1>3, <1>6, <1>8, IdleOK, Becomes
<1> QED
  BY <1>6, <1>9, <1>10, IdleOK DEF KeepsClaim, KeepsWork, KeepsAsking, Past, Working

\* A statement of a claim fails.
LEMMA StatementFails ==
  ASSUME Rows, NEW r \in Requests, NEW stmt \in Stmts, ClaimFails(r, stmt)
  PROVE  Turned(r) /\ KeepsWork(r) /\ KeepsClaim(r) /\ KeepsAsking(r)
<1> DEFINE x == request[r]
           rest == x.todo \ {stmt}
           pc == IF x.pc = "claim" THEN "auth" ELSE x.pc
           a == [x EXCEPT !.todo = rest]
           y == [a EXCEPT !.pc = pc]
<1>1. x \in Request /\ RequestOK(x) /\ stmt \in x.todo
  BY DEF Rows, AccountsTypeOK, RequestsOK, Owes, ClaimFails
<1>2. rest \in SUBSET Stmts /\ pc \in {"idle", "claim", "forget", "auth", "cap", "own", "write", "reply"}
  BY <1>1 DEF Request, Stmts
<1>3. RequestBecomes(r, IF x.pc = "idle" /\ x.todo = {stmt} THEN IdleRequest ELSE y)
  BY <1>1 DEF ClaimFails, RequestAt, Request
<1>4. /\ pc # "claim" /\ pc # "forget"
      /\ pc # x.pc => pc = "auth"
  BY <1>1 DEF RequestOK
<1> HIDE DEF rest, pc
<1>5. /\ a \in Request /\ a.pc = x.pc /\ a.op = x.op /\ a.cookie = x.cookie /\ a.member = x.member
      /\ a.conv = x.conv /\ a.todo = rest /\ a.claimed = x.claimed
  BY <1>1, <1>2 DEF Request, Stmts
<1> HIDE DEF a
<1>6. /\ y \in Request /\ y.pc = pc /\ y.op = x.op /\ y.cookie = x.cookie /\ y.member = x.member
      /\ y.conv = x.conv /\ y.todo = rest /\ y.claimed = x.claimed
  BY <1>2, <1>5 DEF Request
<1> HIDE DEF y
<1>7. ~x.claimed /\ x.cookie \in Guests /\ x.member \in Members /\ x.cookie # none
  BY <1>1, AccountsAssumption DEF RequestOK
<1>8. RequestOK(y)
  BY <1>1, <1>4, <1>6, <1>7 DEF RequestOK
<1>9. ~PastMove(y) /\ (Writes(y) => Writes(x)) /\ ~Asks(y)
  BY <1>4, <1>6, <1>7, AccountsAssumption DEF PastMove, Writes, Asks
<1>10. Turned(r) /\ (request'[r] = y \/ request'[r] = IdleRequest)
  BY <1>3, <1>6, <1>8, IdleOK, Becomes
<1> QED
  BY <1>6, <1>9, <1>10, IdleOK DEF KeepsClaim, KeepsWork, KeepsAsking, Past, Working

\* The claim is over.
LEMMA Forgets ==
  ASSUME Rows, NEW r \in Requests, RequestAt(r, "forget"),
         RequestBecomes(r, [request[r] EXCEPT !.pc = "auth", !.claimed = TRUE])
  PROVE  /\ Turned(r) /\ KeepsWork(r) /\ KeepsClaim(r) /\ KeepsAsking(r)
         /\ Past(r) /\ request[r].cookie \in Guests
<1> DEFINE x == request[r]
           a == [x EXCEPT !.pc = "auth"]
           y == [a EXCEPT !.claimed = TRUE]
<1>1. x \in Request /\ RequestOK(x) /\ x.pc = "forget"
  BY DEF Rows, AccountsTypeOK, RequestsOK, RequestAt
<1>2. RequestBecomes(r, y)
  BY <1>1 DEF Request
<1>3. /\ a \in Request /\ a.pc = "auth" /\ a.op = x.op /\ a.cookie = x.cookie /\ a.member = x.member
      /\ a.conv = x.conv /\ a.todo = x.todo
  BY <1>1 DEF Request
<1> HIDE DEF a
<1>4. /\ y \in Request /\ y.pc = "auth" /\ y.op = x.op /\ y.cookie = x.cookie /\ y.member = x.member
      /\ y.conv = x.conv /\ y.todo = x.todo /\ y.claimed
  BY <1>3 DEF Request
<1> HIDE DEF y
<1>5. x.cookie \in Guests /\ x.member \in Members /\ x.member # none /\ x.todo = {}
  BY <1>1, AccountsAssumption DEF RequestOK
<1>6. RequestOK(y) /\ PastMove(x) /\ ~Writes(y) /\ ~Asks(y)
  BY <1>1, <1>4, <1>5 DEF RequestOK, PastMove, Writes, Asks
<1>7. Turned(r) /\ request'[r] = y
  BY <1>2, <1>4, <1>6, Becomes
<1> QED
  BY <1>4, <1>5, <1>6, <1>7 DEF KeepsClaim, KeepsWork, KeepsAsking, Past, Working

LEMMA Sent ==
  ASSUME Rows, NEW r \in Requests, NEW op \in Ops, NEW c \in Convs \cup {none}, Send(r, op, c)
  PROVE  Turned(r) /\ KeepsWork(r) /\ KeepsClaim(r) /\ KeepsAsking(r)
<1> DEFINE claims == browser.session # none /\ browser.cookie # none /\ op # "ask"
           todo == IF claims THEN {"move", "rate"} ELSE {}
           pc == IF claims THEN "claim" ELSE "auth"
           y == [IdleRequest EXCEPT !.pc = pc, !.op = op, !.cookie = browser.cookie,
                   !.member = browser.session, !.conv = c, !.todo = todo]
<1>1. /\ browser.cookie \in Guests \cup {none} /\ browser.session \in Members \cup {none}
      /\ browser.session # none \/ browser.cookie # none
      /\ c # none <=> op \in OwnOps
  BY DEF Rows, AccountsTypeOK, Send
<1>2. RequestBecomes(r, y)
  BY DEF Send
<1>3. /\ y \in Request /\ y.pc = pc /\ y.op = op /\ y.cookie = browser.cookie /\ y.todo = todo
      /\ y.member = browser.session /\ y.conv = c /\ ~y.claimed
  <2>1. pc \in {"claim", "auth"} /\ todo \in SUBSET {"move", "rate", "drop", "again"}
    OBVIOUS
  <2> HIDE DEF pc, todo
  <2> QED BY <1>1, <2>1 DEF Request, IdleRequest
<1> HIDE DEF y
<1>4. RequestOK(y) /\ ~PastMove(y) /\ ~Writes(y) /\ ~Asks(y)
  BY <1>1, <1>3 DEF RequestOK, PastMove, Writes, Asks
<1>5. Turned(r) /\ request'[r] = y
  BY <1>2, <1>3, <1>4, Becomes
<1> QED BY <1>4, <1>5 DEF KeepsClaim, KeepsWork, KeepsAsking, Past, Working

LEMMA Replied ==
  ASSUME Rows, NEW r \in Requests, NEW arrives \in BOOLEAN, Reply(r, arrives)
  PROVE  Turned(r) /\ KeepsWork(r) /\ KeepsClaim(r) /\ KeepsAsking(r)
<1> DEFINE x == request[r]
           y == [x EXCEPT !.pc = "idle"]
<1>1. x \in Request /\ RequestOK(x)
  BY DEF Rows, AccountsTypeOK, RequestsOK
<1>2. RequestBecomes(r, IF x.todo = {} THEN IdleRequest ELSE y)
  BY DEF Reply
<1>3. /\ y \in Request /\ y.pc = "idle" /\ y.op = x.op /\ y.cookie = x.cookie /\ y.member = x.member
      /\ y.conv = x.conv /\ y.todo = x.todo /\ y.claimed = x.claimed
  BY <1>1 DEF Request
<1> HIDE DEF y
<1>4. x.todo # {} => RequestOK(y)
  BY <1>1, <1>3 DEF RequestOK
<1>5. ~Writes(y) /\ ~Asks(y) /\ (PastMove(y) => PastMove(x))
  BY <1>3 DEF Writes, Asks, PastMove
<1>6. Turned(r) /\ (request'[r] = y \/ request'[r] = IdleRequest)
  BY <1>2, <1>3, <1>4, IdleOK, Becomes
<1> QED
  BY <1>3, <1>5, <1>6, IdleOK DEF KeepsClaim, KeepsWork, KeepsAsking, Past, Working
-----------------------------------------------------------------------------
(* The rows change, and no conversation changes hands *)

IInv == Rows /\ Claims /\ Ratings

\* What is known of the rows before a step.
LEMMA Before ==
  ASSUME IInv
  PROVE  /\ conv \in [Convs -> Conv] /\ rating \in [Convs -> [Users -> Users \cup {none}]]
         /\ restored \subseteq Guests /\ born \subseteq Convs
         /\ \A c \in Convs : c \notin born => conv[c].owner = none /\ conv[c].prompts = 0
         /\ \A c \in Convs, u \in Users : rating[c][u] # none => u \in here /\ conv[c].prompts > 0
         /\ \A c \in Convs, g \in Guests : rating[c][g] \in {g, none}
         /\ Members \subseteq here /\ here \subseteq Users
         /\ \A u \in Users : u # none
         /\ \A m \in Members : m \notin Guests
         /\ \A c \in Convs : c # none
BY AccountsAssumption
   DEF IInv, Rows, AccountsTypeOK, RowsOK, RowsHang, Ratings, Users

LEMMA OneRequest ==
  ASSUME IInv, NEW r \in Requests
  PROVE  request[r] \in Request /\ RequestOK(request[r])
BY DEF IInv, Rows, AccountsTypeOK, RequestsOK

\* Conversations leave guests only, for an account or for good.
OwnersStay ==
  /\ born \subseteq born'
  /\ \A c \in born : \/ conv'[c].owner = conv[c].owner
                     \/ conv[c].owner \in Guests /\ conv'[c].owner \in Members \cup {none}

LEMMA HeldKept ==
  ASSUME IInv, NEW r \in Requests, Turned(r), KeepsWork(r), OwnersStay
  PROVE  HeldAll'
<1> SUFFICES ASSUME NEW q \in Requests, Working(q)'
             PROVE  /\ request'[q].conv \in born'
                    /\ Held(request'[q], conv'[request'[q].conv].owner)
  BY DEF HeldAll
<1>1. /\ Working(q) /\ request'[q].conv = request[q].conv
      /\ request'[q].member = request[q].member /\ request'[q].cookie = request[q].cookie
  BY DEF Turned, KeepsWork, Working
<1>2. request[q].conv \in born /\ Held(request[q], conv[request[q].conv].owner)
  BY <1>1 DEF IInv, Ratings, HeldAll
<1>3. request[q].member \in Members \cup {none}
  BY OneRequest DEF Request
<1> QED BY <1>1, <1>2, <1>3, Before DEF Held, OwnersStay

LEMMA SameOwners ==
  ASSUME IInv, NEW r \in Requests, Turned(r), KeepsClaim(r), KeepsWork(r),
         UNCHANGED <<here, blocked, browser, born, late, wiped>>, restored' \subseteq Guests,
         conv' \in [Convs -> Conv], rating' \in [Convs -> [Users -> Users \cup {none}]],
         \A c \in Convs : /\ conv'[c].owner = conv[c].owner
                          /\ c \notin born => conv'[c].prompts = 0,
         \A c \in Convs, u \in Users : rating'[c][u] # none => u \in here /\ conv'[c].prompts > 0,
         \A c \in Convs, m \in Members :
           rating'[c][m] = m => rating[c][m] = m \/ conv[c].owner = m,
         \A c \in Convs, g \in Guests : rating'[c][g] \in {g, none}
  PROVE  IInv'
<1>1. Rows'
  BY DEF IInv, Rows, AccountsTypeOK, RowsOK, RowsHang, Turned
<1>2. born \subseteq Convs
  BY DEF IInv, Rows, AccountsTypeOK
<1>3. ASSUME NEW q \in Requests, NEW c \in (born \ late)', Past(q)'
      PROVE  conv'[c].owner # request'[q].cookie
  <2>1. Past(q) /\ request'[q].cookie = request[q].cookie
    BY <1>3 DEF Turned, KeepsClaim, Past
  <2> QED BY <1>2, <1>3, <2>1 DEF IInv, Claims, MovedAll
<1>4. Claims'
  BY <1>2, <1>3 DEF IInv, Claims, MovedAll, GuestDataFollows
<1>5. HeldAll'
  <2>1. OwnersStay
    BY <1>2 DEF OwnersStay
  <2> QED BY <2>1, HeldKept
<1>6. Ratings'
  BY <1>5 DEF IInv, Ratings
<1> QED BY <1>1, <1>4, <1>6 DEF IInv

LEMMA QuietKeeps ==
  ASSUME IInv, NEW r \in Requests, Turned(r), KeepsClaim(r), KeepsWork(r), Quiet
  PROVE  IInv'
<1>1. UNCHANGED <<here, blocked, conv, rating, browser, born, late, restored, wiped>>
  BY DEF Quiet, Database, History
<1> QED
  BY <1>1, Before, SameOwners

LEMMA MoveRatingsKeeps ==
  ASSUME IInv, NEW r \in Requests, NEW stmt \in Stmts, MoveRatings(r, stmt)
  PROVE  IInv'
<1> DEFINE g == request[r].cookie
           m == request[r].member
<1>1. stmt # "move" /\ Owes(r, stmt) /\ Did(r, stmt, {}) /\ (\A c \in Convs : ~Clash(g, m, c))
      /\ rating' = [c \in Convs |-> Handed(g, m, c)]
      /\ UNCHANGED <<here, blocked, conv, browser, born, late, restored, wiped>>
  BY DEF MoveRatings, History
<1>2. Turned(r) /\ KeepsClaim(r) /\ KeepsWork(r)
  BY <1>1, Statement DEF IInv
<1>3. g \in Guests /\ m \in Members /\ m # g
  BY <1>1, OneRequest, Before DEF RequestOK, Owes
<1> HIDE DEF g, m
<1>4. ASSUME NEW c \in Convs
      PROVE  /\ rating'[c] \in [Users -> Users \cup {none}]
             /\ \A u \in Users : rating'[c][u] # none => u \in here /\ conv[c].prompts > 0
             /\ \A n \in Members : rating'[c][n] = n => rating[c][n] = n
             /\ \A h \in Guests : rating'[c][h] \in {h, none}
  <2>1. CASE rating[c][g] # none
    <3>1. rating'[c] = [rating[c] EXCEPT ![g] = none, ![m] = rating[c][g]]
      BY <1>1, <2>1 DEF Handed
    <3>2. rating[c] \in [Users -> Users \cup {none}] /\ rating[c][g] = g /\ g \in Users /\ m \in Users
      BY <1>3, <2>1, Before DEF Users
    <3>3. \A u \in Users : rating'[c][u] = IF u = g THEN none ELSE IF u = m THEN g ELSE rating[c][u]
      BY <1>3, <3>1, <3>2
    <3>4. rating'[c] \in [Users -> Users \cup {none}]
      BY <3>1, <3>2
    <3>5. conv[c].prompts > 0 /\ m \in here
      BY <1>3, <2>1, <3>2, Before
    <3>6. \A n \in Members : n \in Users
      BY DEF Users
    <3>7. \A h \in Guests : h \in Users
      BY DEF Users
    <3> QED BY <1>3, <3>3, <3>4, <3>5, <3>6, <3>7, Before
  <2>2. CASE rating[c][g] = none
    BY <1>1, <2>2, Before DEF Handed
  <2> QED BY <2>1, <2>2
<1>5. rating' \in [Convs -> [Users -> Users \cup {none}]]
  BY <1>1, <1>4
<1> QED BY <1>1, <1>2, <1>4, <1>5, Before, SameOwners

LEMMA DropRatingsKeeps ==
  ASSUME IInv, NEW r \in Requests, DropRatings(r)
  PROVE  IInv'
<1> DEFINE g == request[r].cookie
           m == request[r].member
<1>1. Owes(r, "drop") /\ Did(r, "drop", {"again"})
      /\ rating' = [c \in Convs |-> IF Clash(g, m, c) THEN [rating[c] EXCEPT ![g] = none] ELSE rating[c]]
      /\ UNCHANGED <<here, blocked, conv, browser, born, late, restored, wiped>>
  BY DEF DropRatings, History
<1>2. Turned(r) /\ KeepsClaim(r) /\ KeepsWork(r)
  BY <1>1, Statement DEF IInv, Stmts
<1> HIDE DEF g, m
<1>3. ASSUME NEW c \in Convs
      PROVE  /\ rating'[c] \in [Users -> Users \cup {none}]
             /\ \A u \in Users : rating'[c][u] \in {rating[c][u], none}
  BY <1>1, Before
<1>4. rating' \in [Convs -> [Users -> Users \cup {none}]]
  BY <1>1, <1>3
<1>5. \A c \in Convs, n \in Members : rating'[c][n] = n => rating[c][n] = n
  BY <1>3, Before DEF Users
<1>6. \A c \in Convs, h \in Guests : rating'[c][h] \in {h, none}
  BY <1>3, Before DEF Users
<1>7. \A c \in Convs, u \in Users : rating'[c][u] # none => u \in here /\ conv'[c].prompts > 0
  BY <1>1, <1>3, Before
<1> QED BY <1>1, <1>2, <1>4, <1>5, <1>6, <1>7, Before, SameOwners
\* The row that is written exists, and its id is that of a conversation.
LEMMA RowWritten ==
  ASSUME IInv, NEW r \in Requests, Exists(r)
  PROVE  /\ request[r].conv \in born /\ request[r].conv \in Convs
         /\ request[r].pc = "write" /\ request[r].conv # none
         /\ UserOf(r) \in Users
         /\ conv[request[r].conv] \in Conv
<1>1. request[r] \in Request /\ RequestOK(request[r]) /\ request[r].pc = "write"
      /\ request[r].conv # none /\ conv[request[r].conv].owner # none
  BY OneRequest DEF Exists, RequestAt
<1>2. request[r].conv \in Convs /\ UserOf(r) \in Users
  BY <1>1 DEF RequestOK, Request, UserOf, Users
<1> QED BY <1>1, <1>2, Before

\* One row becomes another of the same owner; the ratings of its answer go, or
\* none does.
LEMMA OneRowKeeps ==
  ASSUME IInv, NEW r \in Requests, Exists(r), Done(r), NEW row \in Conv, SetConv(r, row),
         row.owner = conv[request[r].conv].owner,
         UNCHANGED <<here, blocked, browser, born, late, wiped>>, restored' \subseteq Guests,
         \/ rating' = [rating EXCEPT ![request[r].conv] = Unrated]
         \/ /\ rating' = rating
            /\ row.prompts >= conv[request[r].conv].prompts
  PROVE  IInv'
<1> DEFINE c == request[r].conv
<1>1. Turned(r) /\ KeepsClaim(r) /\ KeepsWork(r) /\ c \in born /\ c \in Convs
  BY RowWritten, Ends DEF IInv
<1> HIDE DEF c
<1>2. /\ conv' \in [Convs -> Conv] /\ conv'[c] = row
      /\ \A d \in Convs : d # c => conv'[d] = conv[d]
  BY <1>1, Before DEF SetConv, c
<1>3. /\ rating' \in [Convs -> [Users -> Users \cup {none}]]
      /\ \A d \in Convs : d # c => rating'[d] = rating[d]
      /\ (rating'[c] = Unrated \/ (rating'[c] = rating[c] /\ row.prompts >= conv[c].prompts))
  BY <1>1, Before DEF Unrated, c
<1>4. \A d \in Convs : /\ conv'[d].owner = conv[d].owner
                       /\ d \notin born => conv'[d].prompts = 0
  BY <1>1, <1>2, Before DEF c
<1>5. row.prompts \in Int /\ conv[c].prompts \in Int
  BY <1>1, Before, AccountsAssumption DEF Conv
<1>6. \A d \in Convs, u \in Users : rating'[d][u] # none => u \in here /\ conv'[d].prompts > 0
  BY <1>2, <1>3, <1>5, Before DEF Unrated
<1>7. \A d \in Convs, m \in Members : rating'[d][m] = m => rating[d][m] = m
  BY <1>3, Before DEF Unrated, Users
<1>8. \A d \in Convs, g \in Guests : rating'[d][g] \in {g, none}
  BY <1>3, Before DEF Unrated, Users
<1> QED BY <1>1, <1>2, <1>3, <1>4, <1>6, <1>7, <1>8, SameOwners

LEMMA AskKeeps ==
  ASSUME IInv, NEW r \in Requests, AskRequest(r)
  PROVE  IInv'
<1> DEFINE c == request[r].conv
           row == [conv[c] EXCEPT !.prompts = @ + 1]
<1>1. /\ Exists(r) /\ Done(r) /\ SetConv(r, row) /\ conv[c].prompts < MaxPrompts
      /\ rating' = [rating EXCEPT ![c] = Unrated]
      /\ UNCHANGED <<here, blocked, browser, born, late, restored, wiped>>
  BY DEF AskRequest, History
<1>2. row \in Conv /\ row.owner = conv[c].owner
  BY <1>1, RowWritten, AccountsAssumption DEF Conv
<1> HIDE DEF row
<1> QED BY <1>1, <1>2, Before, OneRowKeeps

LEMMA MarkKeeps ==
  ASSUME IInv, NEW r \in Requests, Mark(r)
  PROVE  IInv'
<1> DEFINE c == request[r].conv
           row == [conv[c] EXCEPT !.deleted = ~(request[r].op = "restore")]
<1>1. /\ Exists(r) /\ Done(r) /\ SetConv(r, row) /\ rating' = rating
      /\ restored' \subseteq restored \cup Guests
      /\ UNCHANGED <<here, blocked, browser, born, late, wiped>>
  BY DEF Mark
<1>2. row \in Conv /\ row.owner = conv[c].owner /\ row.prompts = conv[c].prompts
  BY <1>1, RowWritten DEF Conv
<1>3. conv[c].prompts \in Int
  BY <1>1, RowWritten, AccountsAssumption DEF Conv
<1> HIDE DEF row
<1> QED BY <1>1, <1>2, <1>3, Before, OneRowKeeps

LEMMA EraseKeeps ==
  ASSUME IInv, NEW r \in Requests, Erase(r)
  PROVE  IInv'
<1> DEFINE c == request[r].conv
           empty == [conv[c] EXCEPT !.prompts = 0]
           row == IF request[r].op = "clear" THEN empty ELSE conv[c]
<1>1. /\ Exists(r) /\ Done(r) /\ SetConv(r, row)
      /\ rating' = [rating EXCEPT ![c] = Unrated]
      /\ UNCHANGED <<here, blocked, browser, born, late, restored, wiped>>
  BY DEF Erase, History
<1>2. empty \in Conv /\ empty.owner = conv[c].owner
  BY <1>1, RowWritten, AccountsAssumption DEF Conv
<1>3. row \in Conv /\ row.owner = conv[c].owner
  BY <1>1, <1>2, RowWritten
<1> HIDE DEF row
<1> QED BY <1>1, <1>3, Before, OneRowKeeps

\* The cell that a rating is written to.
LEMMA RateCell ==
  ASSUME IInv, NEW r \in Requests, Rate(r)
  PROVE  LET c == request[r].conv  u == UserOf(r) IN
         /\ rating' \in [Convs -> [Users -> Users \cup {none}]]
         /\ \A d \in Convs : d # c => rating'[d] = rating[d]
         /\ \A v \in Users : v # u => rating'[c][v] = rating[c][v]
         /\ (rating'[c][u] = none \/ (rating'[c][u] = u /\ u \in here /\ conv[c].prompts > 0))
<1> DEFINE c == request[r].conv
           u == UserOf(r)
           value == IF request[r].op = "rate" THEN u ELSE none
           cell == [rating[c] EXCEPT ![u] = value]
<1>1. Exists(r) /\ (request[r].op = "rate" => u \in here /\ conv[c].prompts > 0)
      /\ rating' = [rating EXCEPT ![c] = cell]
  BY DEF Rate
<1>2. c \in Convs /\ u \in Users /\ rating \in [Convs -> [Users -> Users \cup {none}]]
  BY <1>1, RowWritten, Before
<1>3. value = none \/ (value = u /\ u \in here /\ conv[c].prompts > 0)
  BY <1>1
<1> HIDE DEF value, u, c
<1>4. cell \in [Users -> Users \cup {none}] /\ cell[u] = value
      /\ \A v \in Users : v # u => cell[v] = rating[c][v]
  BY <1>2, <1>3
<1> HIDE DEF cell
<1>5. /\ rating' \in [Convs -> [Users -> Users \cup {none}]] /\ rating'[c] = cell
      /\ \A d \in Convs : d # c => rating'[d] = rating[d]
  BY <1>1, <1>2, <1>4
<1> QED BY <1>3, <1>4, <1>5 DEF u, c

LEMMA RateKeeps ==
  ASSUME IInv, NEW r \in Requests, Rate(r)
  PROVE  IInv'
<1> DEFINE c == request[r].conv
           u == UserOf(r)
<1>1. Exists(r) /\ Done(r) /\ UNCHANGED <<here, blocked, conv, browser, born, late, restored, wiped>>
  BY DEF Rate, History
<1>2. Turned(r) /\ KeepsClaim(r) /\ KeepsWork(r) /\ c \in Convs /\ u \in Users
  BY <1>1, RowWritten, Ends DEF IInv
<1>3. /\ rating' \in [Convs -> [Users -> Users \cup {none}]]
      /\ \A d \in Convs : d # c => rating'[d] = rating[d]
      /\ \A v \in Users : v # u => rating'[c][v] = rating[c][v]
      /\ (rating'[c][u] = none \/ (rating'[c][u] = u /\ u \in here /\ conv[c].prompts > 0))
  BY RateCell
<1>4. u \in Members => conv[c].owner = u
  <2>1. ASSUME u \in Members PROVE Working(r) /\ request[r].member = u
    BY <1>1, <2>1, RowWritten, OneRequest, Before DEF UserOf, Working, Writes, Request
  <2>2. u \in Members => u # none
    BY Before DEF Users
  <2> QED BY <2>1, <2>2 DEF IInv, Ratings, HeldAll, Held
<1> HIDE DEF c, u
<1>5. \A d \in Convs, v \in Users : rating'[d][v] # none => v \in here /\ conv'[d].prompts > 0
  BY <1>1, <1>3, Before
<1>6. \A d \in Convs, m \in Members : rating'[d][m] = m => rating[d][m] = m \/ conv[d].owner = m
  BY <1>3, <1>4, Before DEF Users
<1>7. \A d \in Convs, g \in Guests : rating'[d][g] \in {g, none}
  BY <1>3, Before DEF Users
<1> QED BY <1>1, <1>2, <1>3, <1>5, <1>6, <1>7, Before, SameOwners

LEMMA ClearAllKeeps ==
  ASSUME IInv, NEW r \in Requests, NEW K, ClearAllConversations(r, K)
  PROVE  IInv'
<1>1. /\ Done(r) /\ request[r].pc = "write"
      /\ UNCHANGED <<here, blocked, rating, browser, born, late, restored, wiped>>
      /\ conv' = [c \in Convs |->
           IF c \in K /\ conv[c].owner = UserOf(r) THEN [conv[c] EXCEPT !.deleted = TRUE] ELSE conv[c]]
  BY DEF ClearAllConversations, RequestAt, History
<1>2. Turned(r) /\ KeepsClaim(r) /\ KeepsWork(r)
  BY <1>1, Ends DEF IInv
<1>3. ASSUME NEW c \in Convs
      PROVE  conv'[c] \in Conv /\ conv'[c].owner = conv[c].owner /\ conv'[c].prompts = conv[c].prompts
  <2> DEFINE row == [conv[c] EXCEPT !.deleted = TRUE]
  <2>1. conv[c] \in Conv
    BY Before
  <2>2. row \in Conv /\ row.owner = conv[c].owner /\ row.prompts = conv[c].prompts
    BY <2>1 DEF Conv
  <2>3. conv'[c] = row \/ conv'[c] = conv[c]
    BY <1>1
  <2> HIDE DEF row
  <2> QED BY <2>1, <2>2, <2>3
<1>4. conv' \in [Convs -> Conv]
  BY <1>1, <1>3
<1> QED BY <1>1, <1>2, <1>3, <1>4, Before, SameOwners
-----------------------------------------------------------------------------
(* The other steps *)

\* The owner has been read: it is that of the request.
LEMMA OwnsKeeps ==
  ASSUME IInv, NEW r \in Requests, Owns(r)
  PROVE  IInv'
<1> DEFINE c == request[r].conv
           y == [request[r] EXCEPT !.pc = "write"]
<1>1. /\ RequestGoes(r, "write") /\ request[r].pc = "own" /\ conv[c].owner = UserOf(r)
      /\ UNCHANGED <<here, blocked, conv, rating, browser, born, late, restored, wiped>>
  BY DEF Owns, Quiet, Database, History, RequestAt
<1>2. Turned(r) /\ KeepsClaim(r) /\ request'[r] = y
  BY <1>1, Goes DEF IInv
<1>3. request[r] \in Request /\ RequestOK(request[r])
  BY OneRequest
<1>4. y.conv = c /\ y.member = request[r].member /\ y.cookie = request[r].cookie
  BY <1>3 DEF Request
<1>5. Held(y, conv[c].owner) /\ c \in born
  <2>1. Held(y, conv[c].owner) /\ conv[c].owner # none
    BY <1>1, <1>3, <1>4 DEF Held, UserOf, RequestOK
  <2>2. c \in Convs
    BY <1>1, <1>3 DEF RequestOK, Request
  <2> QED BY <2>1, <2>2, Before
<1> HIDE DEF y
<1>6. Rows'
  BY <1>1, <1>2 DEF IInv, Rows, AccountsTypeOK, RowsOK, RowsHang, Turned
<1>7. \A q \in Requests : Past(q)' => Past(q) /\ request'[q].cookie = request[q].cookie
  BY <1>2 DEF Turned, KeepsClaim, Past
<1>8. Claims'
  BY <1>1, <1>7 DEF IInv, Claims, MovedAll, GuestDataFollows
<1>9. HeldAll'
  BY <1>1, <1>2, <1>4, <1>5 DEF IInv, Ratings, HeldAll, Turned, Working
<1> QED BY <1>1, <1>6, <1>8, <1>9 DEF IInv, Ratings

\* A guest's row is made.
LEMMA AdmitKeeps ==
  ASSUME IInv, NEW r \in Requests, Admit(r)
  PROVE  IInv'
<1> DEFINE x == request[r]
           y == [x EXCEPT !.pc = AfterAuth(r)]
<1>1. /\ RequestGoes(r, AfterAuth(r)) /\ x.pc = "auth"
      /\ UNCHANGED <<blocked, conv, rating, browser, born, late, restored, wiped>>
      /\ here \subseteq here' /\ here' \subseteq here \cup {x.cookie}
      /\ ~ByGuest(r) => here' = here
  BY DEF Admit, History, RequestAt
<1>2. x \in Request /\ RequestOK(x)
  BY OneRequest
<1>3. AfterAuth(r) \in {"cap", "own", "write"}
      /\ (AfterAuth(r) = "cap" => ByGuest(r) /\ x.op \in {"create", "ask"})
      /\ (AfterAuth(r) = "own" => x.op \in OwnOps)
      /\ (AfterAuth(r) = "write" => x.op \notin OwnOps)
  BY DEF AfterAuth
<1>4. Turned(r) /\ KeepsClaim(r) /\ request'[r] = y
  BY <1>1, <1>3, Goes DEF IInv
<1>5. here' \subseteq Users /\ Members \subseteq here'
  BY <1>1, <1>2, Before DEF ByGuest, RequestOK, Request, Users
<1>6. y.pc = AfterAuth(r) /\ y.conv = x.conv
  BY <1>2 DEF Request
<1> HIDE DEF y
<1>7. ~Working(r)'
  BY <1>2, <1>3, <1>4, <1>6 DEF Working, Writes, RequestOK
<1>8. Rows'
  BY <1>1, <1>4, <1>5 DEF IInv, Rows, AccountsTypeOK, RowsOK, RowsHang, Turned
<1>9. \A q \in Requests : Past(q)' => Past(q) /\ request'[q].cookie = request[q].cookie
  BY <1>4 DEF Turned, KeepsClaim, Past
<1>10. Claims'
  BY <1>1, <1>9 DEF IInv, Claims, MovedAll, GuestDataFollows
<1>11. HeldAll'
  BY <1>1, <1>4, <1>7 DEF IInv, Ratings, HeldAll, Turned, Working
<1> QED BY <1>1, <1>8, <1>10, <1>11 DEF IInv, Ratings

LEMMA UnderCapKeeps ==
  ASSUME IInv, NEW r \in Requests, UnderCap(r)
  PROVE  IInv'
<1> DEFINE x == request[r]
           pc == IF x.op = "ask" THEN "own" ELSE "write"
           y == [x EXCEPT !.pc = pc]
<1>1. RequestGoes(r, pc) /\ x.pc = "cap" /\ Quiet
  BY DEF UnderCap, RequestAt
<1>2. x \in Request /\ RequestOK(x)
  BY OneRequest
<1>3. Turned(r) /\ KeepsClaim(r) /\ request'[r] = y
  BY <1>1, Goes DEF IInv, OwnOps
<1>4. y.conv = x.conv /\ y.pc = pc /\ (pc = "write" => x.conv = none)
  BY <1>1, <1>2 DEF Request, RequestOK, OwnOps
<1>5. KeepsWork(r)
  BY <1>3, <1>4 DEF KeepsWork, Working, Writes
<1> QED BY <1>1, <1>3, <1>5, QuietKeeps

\* The guest's conversations become the account's.
LEMMA MoveConversationsKeeps ==
  ASSUME IInv, NEW r \in Requests, MoveConversations(r)
  PROVE  IInv'
<1> DEFINE g == request[r].cookie
           m == request[r].member
<1>1. /\ Owes(r, "move") /\ Did(r, "move", {})
      /\ conv' = [c \in Convs |-> IF conv[c].owner = g THEN [conv[c] EXCEPT !.owner = m] ELSE conv[c]]
      /\ UNCHANGED <<here, blocked, rating, browser, born, late, restored, wiped>>
  BY DEF MoveConversations, History
<1>2. Turned(r) /\ KeepsWork(r) /\ (Past(r)' => request'[r].cookie = g)
  BY <1>1, Statement DEF IInv, Stmts
<1>3. g \in Guests /\ m \in Members /\ m # g /\ g # none
  BY <1>1, OneRequest, Before DEF RequestOK, Owes, Users
<1> HIDE DEF g, m
<1>4. ASSUME NEW c \in Convs
      PROVE  /\ conv'[c] \in Conv /\ conv'[c].prompts = conv[c].prompts
             /\ conv'[c].owner = IF conv[c].owner = g THEN m ELSE conv[c].owner
  <2> DEFINE row == [conv[c] EXCEPT !.owner = m]
  <2>1. conv[c] \in Conv
    BY Before
  <2>2. row \in Conv /\ row.owner = m /\ row.prompts = conv[c].prompts
    BY <1>3, <2>1 DEF Conv, Users
  <2>3. conv'[c] = IF conv[c].owner = g THEN row ELSE conv[c]
    BY <1>1
  <2> HIDE DEF row
  <2> QED BY <2>1, <2>2, <2>3
<1>5. conv' \in [Convs -> Conv]
  BY <1>1, <1>4
<1>6. Rows'
  BY <1>1, <1>2, <1>3, <1>4, <1>5, Before
     DEF IInv, Rows, AccountsTypeOK, RowsOK, RowsHang, Turned
<1>7. ASSUME NEW q \in Requests, NEW c \in born \ late, Past(q)'
      PROVE  conv'[c].owner # request'[q].cookie
  <2>1. c \in Convs
    BY Before
  <2>2. CASE q = r
    BY <1>2, <1>3, <1>4, <1>7, <2>1, <2>2
  <2>3. CASE q # r
    <3>1. Past(q) /\ request'[q] = request[q]
      BY <1>2, <1>7, <2>3 DEF Turned, Past
    <3>2. request[q].cookie \in Guests /\ conv[c].owner # request[q].cookie
      BY <3>1, OneRequest DEF IInv, Claims, MovedAll, Past, PastMove, RequestOK
    <3> QED BY <1>3, <1>4, <2>1, <3>1, <3>2, Before
  <2> QED BY <2>2, <2>3
<1>8. MovedAll'
  BY <1>1, <1>7 DEF MovedAll
<1>9. GuestDataFollows'
  BY <1>1, <1>3, <1>4, Before DEF IInv, Claims, GuestDataFollows
<1>10. \A c \in Convs, n \in Members : conv[c].owner = n => conv'[c].owner = n
  BY <1>3, <1>4, Before
<1>11. HeldAll'
  <2>1. OwnersStay
    BY <1>1, <1>2, <1>3, <1>4, Before DEF OwnersStay
  <2> QED BY <1>2, <2>1, HeldKept
<1>12. Ratings'
  BY <1>1, <1>10, <1>11 DEF IInv, Ratings
<1> QED BY <1>6, <1>8, <1>9, <1>12 DEF IInv, Claims

\* The guest's row goes: whatever still hangs on it was late.
LEMMA ForgetGuestKeeps ==
  ASSUME IInv, NEW r \in Requests, ForgetGuest(r)
  PROVE  IInv'
<1> DEFINE g == request[r].cookie
<1>1. /\ RequestAt(r, "forget") /\ here' = here \ {g}
      /\ RequestBecomes(r, [request[r] EXCEPT !.pc = "auth", !.claimed = TRUE])
      /\ conv' = [c \in Convs |-> IF conv[c].owner = g THEN NoConv ELSE conv[c]]
      /\ rating' = [c \in Convs |->
           IF conv[c].owner = g THEN Unrated ELSE [rating[c] EXCEPT ![g] = none]]
      /\ UNCHANGED <<blocked, browser, born, late, restored, wiped>>
  BY DEF ForgetGuest, History
<1>2. Turned(r) /\ KeepsWork(r) /\ KeepsClaim(r) /\ Past(r) /\ g \in Guests
  BY <1>1, Forgets DEF IInv
<1> HIDE DEF g
<1>3. NoConv \in Conv /\ NoConv.owner = none /\ NoConv.prompts = 0
  BY AccountsAssumption DEF NoConv, Conv
<1>4. /\ conv' \in [Convs -> Conv]
      /\ \A c \in Convs : IF conv[c].owner = g THEN conv'[c] = NoConv ELSE conv'[c] = conv[c]
  BY <1>1, <1>3, Before
<1>5. ASSUME NEW c \in Convs
      PROVE  /\ rating'[c] \in [Users -> Users \cup {none}]
             /\ conv[c].owner = g => rating'[c] = Unrated
             /\ \A u \in Users : rating'[c][u] \in {rating[c][u], none}
             /\ rating'[c][g] = none
  BY <1>1, <1>2, Before DEF Unrated, Users
<1>6. rating' \in [Convs -> [Users -> Users \cup {none}]]
  BY <1>1, <1>5
<1>7. here' \subseteq Users /\ Members \subseteq here'
  BY <1>1, <1>2, Before
<1>8. \A c \in Convs : /\ conv'[c].owner \in here' \cup {none}
                       /\ c \notin born => conv'[c].owner = none /\ conv'[c].prompts = 0
  BY <1>1, <1>3, <1>4, Before DEF IInv, Rows, RowsHang
<1>9. \A c \in Convs, u \in Users : rating'[c][u] # none => u \in here' /\ conv'[c].prompts > 0
  <2> SUFFICES ASSUME NEW c \in Convs, NEW u \in Users, rating'[c][u] # none
               PROVE  u \in here' /\ conv'[c].prompts > 0
    OBVIOUS
  <2>1. conv[c].owner # g
    BY <1>5 DEF Unrated
  <2>2. rating[c][u] # none /\ u # g
    BY <1>5
  <2> QED BY <1>1, <1>4, <2>1, <2>2, Before
<1>10. Rows'
  BY <1>1, <1>2, <1>4, <1>6, <1>7, <1>8, <1>9 DEF IInv, Rows, AccountsTypeOK, RowsOK, RowsHang, Turned
<1>11. \A c \in born \ late : c \in Convs /\ conv[c].owner # g /\ conv'[c] = conv[c]
  BY <1>2, <1>4, Before DEF IInv, Claims, MovedAll, g
<1>12. \A q \in Requests : Past(q)' => Past(q) /\ request'[q].cookie = request[q].cookie
  BY <1>2 DEF Turned, KeepsClaim, Past
<1>13. Claims'
  BY <1>1, <1>11, <1>12 DEF IInv, Claims, MovedAll, GuestDataFollows
<1>14. \A c \in Convs, n \in Members : conv[c].owner = n => conv'[c].owner = n
  BY <1>2, <1>4, Before
<1>15. HeldAll'
  <2>1. OwnersStay
    BY <1>1, <1>2, <1>3, <1>4, Before DEF OwnersStay
  <2> QED BY <1>2, <2>1, HeldKept
<1>16. \A c \in Convs, n \in Members : rating'[c][n] = n => rating[c][n] = n
  BY <1>5, Before DEF Users
<1>17. \A c \in Convs, h \in Guests : rating'[c][h] \in {h, none}
  BY <1>5, Before DEF Users
<1>18. Ratings'
  BY <1>14, <1>15, <1>16, <1>17 DEF IInv, Ratings
<1> QED BY <1>10, <1>13, <1>18 DEF IInv
\* A new conversation: late, if its guest has been moved.
LEMMA CreateKeeps ==
  ASSUME IInv, NEW r \in Requests, NEW c \in Convs, Create(r, c)
  PROVE  IInv'
<1> DEFINE u == UserOf(r)
           row == [NoConv EXCEPT !.owner = u]
<1>1. /\ request[r].pc = "write" /\ c \notin born /\ u \in here /\ Done(r)
      /\ conv' = [conv EXCEPT ![c] = row] /\ born' = born \cup {c}
      /\ late' = IF ByGuest(r) /\ Moved(request[r].cookie) THEN late \cup {c} ELSE late
      /\ UNCHANGED <<here, blocked, rating, browser, restored, wiped>>
  BY DEF Create, RequestAt
<1>2. Turned(r) /\ KeepsClaim(r) /\ KeepsWork(r)
  BY <1>1, Ends DEF IInv
<1>3. row \in Conv /\ row.owner = u /\ row.prompts = 0
  <2>1. u \in Users
    BY <1>1, Before
  <2> HIDE DEF u
  <2>2. NoConv \in Conv /\ NoConv.prompts = 0
    BY AccountsAssumption DEF NoConv, Conv
  <2> QED BY <2>1, <2>2 DEF Conv
<1> HIDE DEF row
<1>4. conv' \in [Convs -> Conv] /\ conv'[c] = row /\ \A d \in Convs : d # c => conv'[d] = conv[d]
  BY <1>1, <1>3, Before
<1>5. late \subseteq Convs /\ born' \subseteq Convs /\ late' \subseteq Convs
  BY <1>1 DEF IInv, Rows, AccountsTypeOK
<1>6. \A v \in Users : rating[c][v] = none
  <2> SUFFICES ASSUME NEW v \in Users, rating[c][v] # none PROVE FALSE
    OBVIOUS
  <2>1. conv[c].prompts > 0 /\ conv[c].prompts = 0
    BY <1>1, Before
  <2> QED BY <2>1
<1>7. RowsHang'
  <2>1. \A d \in Convs : conv'[d].owner \in here \cup {none}
    BY <1>1, <1>3, <1>4 DEF IInv, Rows, RowsHang
  <2>2. \A d \in Convs, v \in Users : rating[d][v] # none => v \in here /\ conv'[d].prompts > 0
    BY <1>4, <1>6, Before
  <2> QED BY <1>1, <2>1, <2>2 DEF RowsHang
<1>8. RowsOK'
  BY <1>1, <1>4 DEF IInv, Rows, RowsOK
<1>9. Rows'
  BY <1>1, <1>2, <1>4, <1>5, <1>7, <1>8 DEF IInv, Rows, AccountsTypeOK, Turned
<1>10. c \in born' \ late' /\ u \notin Members => u \in Guests /\ u = browser.cookie
                                               /\ \A q \in Requests : Past(q) => request[q].cookie # u
  <2> SUFFICES ASSUME c \in born' \ late', u \notin Members
               PROVE  u \in Guests /\ u = browser.cookie
                      /\ \A q \in Requests : Past(q) => request[q].cookie # u
    OBVIOUS
  <2>1. ByGuest(r) /\ u = request[r].cookie /\ u \in Guests
    BY <1>1, OneRequest, Before DEF UserOf, ByGuest, Request, Users
  <2>2. ~Moved(u)
    BY <1>1, <2>1
  <2> HIDE DEF u
  <2> QED BY <2>1, <2>2 DEF Moved, Past, PastMove, RequestAt, Owes
<1>11. \A d \in born' \ late' : d = c \/ (d \in born \ late /\ d # c /\ conv'[d] = conv[d])
  BY <1>1, <1>4, <1>5
<1>12. ASSUME NEW q \in Requests, NEW d \in born' \ late', Past(q)'
       PROVE  conv'[d].owner # request'[q].cookie
  <2>1. Past(q) /\ request'[q].cookie = request[q].cookie
    BY <1>2, <1>12 DEF Turned, KeepsClaim, Past
  <2>2. CASE d = c
    <3>1. request[q].cookie \in Guests
      BY <2>1, OneRequest DEF Past, PastMove, RequestOK
    <3>2. conv'[d].owner = u
      BY <1>3, <1>4, <2>2
    <3> HIDE DEF u
    <3> QED BY <1>10, <2>1, <2>2, <3>1, <3>2, Before
  <2>3. CASE d # c
    BY <1>11, <2>1, <2>3 DEF IInv, Claims, MovedAll
  <2> QED BY <2>2, <2>3
<1>13. MovedAll'
  BY <1>12 DEF MovedAll
<1>14. ASSUME NEW d \in born' \ late'
       PROVE  \/ conv'[d].owner \in Members
              \/ conv'[d].owner \in Guests /\ conv'[d].owner \in {browser.cookie} \cup wiped
  <2>1. CASE d = c
    <3>1. conv'[d].owner = u
      BY <1>3, <1>4, <2>1
    <3> HIDE DEF u
    <3> QED BY <1>10, <2>1, <3>1
  <2>2. CASE d # c
    BY <1>11, <2>2 DEF IInv, Claims, GuestDataFollows
  <2> QED BY <2>1, <2>2
<1>15. GuestDataFollows'
  BY <1>1, <1>14 DEF GuestDataFollows
<1>16. \A d \in Convs, n \in Members : conv[d].owner = n => conv'[d].owner = n
  BY <1>1, <1>4, Before
<1>17. HeldAll'
  <2>1. OwnersStay
    BY <1>1, <1>2, <1>4, Before DEF OwnersStay
  <2> QED BY <1>2, <2>1, HeldKept
<1>18. Ratings'
  BY <1>1, <1>16, <1>17 DEF IInv, Ratings
<1> QED BY <1>9, <1>13, <1>15, <1>18 DEF IInv, Claims

\* The reply takes a cookie that the claim has emptied, or that of another guest.
LEMMA ReplyKeeps ==
  ASSUME IInv, NEW r \in Requests, NEW arrives \in BOOLEAN, Reply(r, arrives)
  PROVE  IInv'
<1> DEFINE takes == arrives /\ request[r].claimed
           cookie == IF takes THEN none ELSE browser.cookie
<1>1. /\ browser' = IF takes THEN [browser EXCEPT !.cookie = none] ELSE browser
      /\ wiped' = wiped \cup (IF takes THEN {browser.cookie} \ {request[r].cookie, none} ELSE {})
      /\ UNCHANGED <<here, blocked, conv, rating, born, late, restored>>
  BY DEF Reply, Database
<1>2. Turned(r) /\ KeepsClaim(r) /\ KeepsWork(r)
  BY Replied DEF IInv
<1>3. browser \in [cookie : Guests \cup {none}, session : Members \cup {none}] /\ wiped \subseteq Guests
  BY DEF IInv, Rows, AccountsTypeOK
<1>4. /\ browser' \in [cookie : Guests \cup {none}, session : Members \cup {none}]
      /\ browser'.cookie = cookie /\ wiped' \subseteq Guests
  BY <1>1, <1>3
<1>5. takes => Past(r) /\ request[r].cookie \in Guests
  BY OneRequest, Before DEF Past, PastMove, RequestOK, Users
<1> HIDE DEF takes
<1>6. Rows'
  BY <1>1, <1>2, <1>4 DEF IInv, Rows, AccountsTypeOK, RowsOK, RowsHang, Turned
<1>7. \A q \in Requests : Past(q)' => Past(q) /\ request'[q].cookie = request[q].cookie
  BY <1>2 DEF Turned, KeepsClaim, Past
<1>8. MovedAll'
  BY <1>1, <1>7 DEF IInv, Claims, MovedAll
<1>9. ASSUME NEW c \in born \ late, conv[c].owner \in Guests,
             conv[c].owner \in {browser.cookie} \cup wiped
      PROVE  conv[c].owner \in {browser'.cookie} \cup wiped'
  <2>1. CASE takes
    <3>1. conv[c].owner # request[r].cookie
      BY <1>5, <2>1 DEF IInv, Claims, MovedAll
    <3>2. conv[c].owner # none
      BY <1>9, Before DEF Users
    <3> QED BY <1>1, <1>9, <2>1, <3>1, <3>2
  <2>2. CASE ~takes
    BY <1>1, <1>9, <2>2
  <2> QED BY <2>1, <2>2
<1>10. GuestDataFollows'
  BY <1>1, <1>9 DEF IInv, Claims, GuestDataFollows
<1>11. HeldAll'
  <2>1. OwnersStay
    BY <1>1, <1>2, Before DEF OwnersStay
  <2> QED BY <1>2, <2>1, HeldKept
<1>12. Ratings'
  BY <1>1, <1>11 DEF IInv, Ratings
<1> QED BY <1>6, <1>8, <1>10, <1>12 DEF IInv, Claims

LEMMA RequestStepKeeps ==
  ASSUME IInv, NEW r \in Requests, RequestStep(r)
  PROVE  IInv'
<1>1. ASSUME NEW op \in Ops, NEW c \in Convs \cup {none}, Send(r, op, c) PROVE IInv'
  BY <1>1, Sent, QuietKeeps DEF IInv, Send
<1>2. CASE RatingsClash(r)
  BY <1>2, Statement, QuietKeeps DEF IInv, RatingsClash, Stmts
<1>3. ASSUME NEW stmt \in Stmts, ClaimFails(r, stmt) PROVE IInv'
  BY <1>3, StatementFails, QuietKeeps DEF IInv, ClaimFails
<1>4. CASE ForgetFails(r)
  BY <1>4, Forgets, QuietKeeps DEF IInv, ForgetFails
<1>5. CASE Refuse(r)
  BY <1>5, Ends, QuietKeeps DEF IInv, Refuse, RequestAt
<1>6. CASE ClaimStep(r)
  BY <1>2, <1>3, <1>4, <1>6, MoveConversationsKeeps, MoveRatingsKeeps, DropRatingsKeeps,
     ForgetGuestKeeps DEF ClaimStep, Stmts
<1> QED
  BY <1>1, <1>5, <1>6, ReplyKeeps, AdmitKeeps, UnderCapKeeps, OwnsKeeps, CreateKeeps, AskKeeps,
     MarkKeeps, EraseKeeps, RateKeeps, ClearAllKeeps DEF RequestStep

\* The browser signs in and out, and an administrator blocks an account.
LEMMA BrowserKeeps ==
  ASSUME IInv,
         \/ \E g \in Guests : BecomeGuest(g)
         \/ \E m \in Members : SignIn(m) \/ SetBlocked(m)
         \/ SignOut
  PROVE  IInv'
<1>1. /\ UNCHANGED <<here, conv, rating, request, born, late, restored, wiped>>
      /\ blocked' \subseteq Members
      /\ browser' \in [cookie : Guests \cup {none}, session : Members \cup {none}]
      /\ browser'.cookie = browser.cookie \/ browser.cookie = none
  BY DEF IInv, Rows, AccountsTypeOK, BecomeGuest, SignIn, SetBlocked, SignOut, Database, History
<1>2. Rows'
  BY <1>1 DEF IInv, Rows, AccountsTypeOK, RequestsOK, RowsOK, RowsHang
<1>3. \A g \in Guests : g # none
  BY AccountsAssumption
<1>4. GuestDataFollows'
  BY <1>1, <1>3 DEF IInv, Claims, GuestDataFollows
<1>5. MovedAll' /\ Ratings'
  BY <1>1 DEF IInv, Claims, MovedAll, Ratings, HeldAll, Past, Working
<1> QED BY <1>2, <1>4, <1>5 DEF IInv, Claims

LEMMA AccountsStep == IInv /\ [AccountsNext]_accountsVars => IInv'
<1>1. IInv /\ UNCHANGED accountsVars => IInv'
  BY DEF IInv, Rows, Claims, Ratings, HeldAll, AccountsTypeOK, RequestsOK, RowsOK, RowsHang, MovedAll,
         GuestDataFollows, Past, Working, accountsVars
<1> QED BY <1>1, RequestStepKeeps, BrowserKeeps DEF AccountsNext

LEMMA AccountsStart == AccountsInit => IInv
<1> SUFFICES ASSUME AccountsInit PROVE IInv
  OBVIOUS
<1>1. NoConv \in Conv /\ NoConv.owner = none /\ NoConv.prompts = 0
  BY AccountsAssumption DEF NoConv, Conv
<1>2. /\ here = Members /\ blocked = {} /\ born = {} /\ late = {} /\ restored = {} /\ wiped = {}
      /\ \A c \in Convs : conv[c] = NoConv /\ \A u \in Users : rating[c][u] = none
      /\ \A r \in Requests : request[r] = IdleRequest
  BY DEF AccountsInit, Unrated
<1>3. AccountsTypeOK
  BY <1>1, IdleOK DEF AccountsInit, AccountsTypeOK, Users, Unrated
<1>4. Rows
  BY <1>1, <1>2, <1>3, IdleOK DEF Rows, RequestsOK, RowsOK, RowsHang
<1>5. Claims
  BY <1>2 DEF Claims, MovedAll, GuestDataFollows
<1>6. Ratings
  <2>1. \A m \in Members : m \in Users /\ m # none
    BY AccountsAssumption DEF Users
  <2> QED BY <1>2, <2>1, IdleOK DEF Ratings, HeldAll, Working, Users
<1> QED BY <1>4, <1>5, <1>6 DEF IInv
-----------------------------------------------------------------------------
(* Theorems *)

\* Signing in loses nothing a guest has asked, whatever fails on the way and
\* however many requests claim it at once (claimGuestData, forgetGuest).
THEOREM GuestsKeepTheirData == AccountsSpec => []GuestDataFollows
<1>1. IInv => GuestDataFollows
  BY DEF IInv, Claims
<1> QED BY <1>1, AccountsStart, AccountsStep, PTL DEF AccountsSpec

\* The ratings of one conversation go only with its answer.
LEMMA UnratedBy ==
  ASSUME IInv, NEW r \in Requests, NEW c \in Convs, NEW m \in Members,
         rating[c][m] = m, rating'[c][m] # m, AskRequest(r) \/ Erase(r)
  PROVE  Takes(r, m, c)
<1>1. Exists(r) /\ Done(r) /\ rating' = [rating EXCEPT ![request[r].conv] = Unrated]
      /\ request[r].op \in {"ask", "clear", "regenerate"}
  BY DEF AskRequest, Erase
<1>2. request[r].conv \in Convs /\ request[r].pc = "write"
  BY <1>1, RowWritten
<1>3. request[r].conv = c
  BY <1>1, <1>2, Before
<1>4. request'[r].pc = "reply"
  BY <1>1, <1>2, Ends DEF IInv
<1> QED BY <1>1, <1>2, <1>3, <1>4 DEF Takes, RequestAt

LEMMA RatedBy ==
  ASSUME IInv, NEW r \in Requests, NEW c \in Convs, NEW m \in Members,
         rating[c][m] = m, rating'[c][m] # m, Rate(r)
  PROVE  Takes(r, m, c)
<1>1. Exists(r) /\ Done(r)
  BY DEF Rate
<1>2. request[r].pc = "write"
  BY <1>1, RowWritten
<1>3. request'[r].pc = "reply"
  BY <1>1, <1>2, Ends DEF IInv
<1>4. m \in Users
  BY DEF Users
<1>5. request[r].conv = c /\ UserOf(r) = m
  BY <1>4, RateCell
<1> QED BY <1>2, <1>3, <1>5 DEF Takes, RequestAt

\* A claim leaves alone what the account itself has said.
LEMMA ClaimLeaves ==
  ASSUME IInv, NEW r \in Requests, ClaimStep(r), NEW c \in Convs, NEW m \in Members,
         rating[c][m] = m
  PROVE  rating'[c][m] = m
<1> DEFINE g == request[r].cookie
           n == request[r].member
<1>1. rating[c] \in [Users -> Users \cup {none}] /\ m \in Users /\ conv[c].owner = m /\ m \notin Guests
      /\ m # none
  BY Before DEF IInv, Ratings, Users
<1>2. CASE \E stmt \in Stmts : MoveRatings(r, stmt)
  <2>1. g \in Guests /\ n \in Members
    BY <1>2, OneRequest DEF MoveRatings, Owes, RequestOK
  <2>2. ~Clash(g, n, c) /\ rating'[c] = Handed(g, n, c)
    BY <1>2 DEF MoveRatings
  <2> HIDE DEF g, n
  <2>3. CASE rating[c][g] # none
    <3>1. n # m
      BY <1>1, <2>2, <2>3 DEF Clash
    <3>2. rating'[c] = [rating[c] EXCEPT ![g] = none, ![n] = rating[c][g]]
      BY <2>2, <2>3 DEF Handed
    <3> QED BY <1>1, <2>1, <3>1, <3>2
  <2>4. CASE rating[c][g] = none
    BY <2>2, <2>4 DEF Handed
  <2> QED BY <2>3, <2>4
<1>3. CASE DropRatings(r)
  <2>1. g \in Guests
    BY <1>3, OneRequest DEF DropRatings, Owes, RequestOK
  <2>2. rating'[c] = IF Clash(g, n, c) THEN [rating[c] EXCEPT ![g] = none] ELSE rating[c]
    BY <1>3 DEF DropRatings
  <2> HIDE DEF g, n
  <2> QED BY <1>1, <2>1, <2>2
<1>4. CASE ForgetGuest(r)
  <2>1. g \in Guests
    BY <1>4, Forgets DEF IInv, ForgetGuest
  <2>2. rating'[c] = IF conv[c].owner = g THEN Unrated ELSE [rating[c] EXCEPT ![g] = none]
    BY <1>4 DEF ForgetGuest
  <2> HIDE DEF g
  <2> QED BY <1>1, <2>1, <2>2
<1>5. CASE UNCHANGED rating
  BY <1>5
<1> QED
  BY <1>2, <1>3, <1>4, <1>5
     DEF ClaimStep, Stmts, MoveConversations, RatingsClash, ClaimFails, ForgetFails, Quiet, Database

LEMMA RatingStep ==
  ASSUME IInv, AccountsNext, NEW c \in Convs, NEW m \in Members,
         rating[c][m] = m, rating'[c][m] # m
  PROVE  \E r \in Requests : Takes(r, m, c)
<1>1. PICK r \in Requests : RequestStep(r)
  BY DEF AccountsNext, BecomeGuest, SignIn, SetBlocked, SignOut, Database
<1>2. ~ClaimStep(r)
  BY ClaimLeaves
<1>3. AskRequest(r) \/ Erase(r) \/ Rate(r)
  BY <1>1, <1>2
     DEF RequestStep, Send, Reply, Admit, UnderCap, Owns, Refuse, Create, Mark,
         ClearAllConversations, Quiet, Database
<1> QED BY <1>3, UnratedBy, RatedBy

\* What an account has said of an answer is never overwritten by what it said as
\* a guest: it goes with the answer, or the account takes it back
\* (claimGuestFeedback).
THEOREM AccountRatingsStand == AccountsSpec => AccountRatingWins
<1>1. IInv /\ [AccountsNext]_accountsVars
        => [\A c \in Convs, m \in Members :
              rating[c][m] = m /\ rating'[c][m] # m => \E r \in Requests : Takes(r, m, c)]_accountsVars
  BY RatingStep
<1> QED BY <1>1, AccountsStart, AccountsStep, PTL DEF AccountsSpec, AccountRatingWins
-----------------------------------------------------------------------------
(* Sums over finite sets *)

\* A set of subsets of a finite set has a smallest member: induction on finite sets
\* is the search for a smallest counterexample.
LEMMA LeastSet ==
  ASSUME NEW S, IsFiniteSet(S), NEW T, T \subseteq SUBSET S, T # {}
  PROVE  \E m \in T : \A k \in T : k \subseteq m => k = m
<1>1. T \subseteq FiniteSubsetsOf(S)
  BY FS_Subset DEF FiniteSubsetsOf
<1>2. \E m \in T : \A k \in T : ~ (<<k, m>> \in StrictSubsetOrdering(S))
  BY <1>1, FS_StrictSubsetOrderingWellFounded, WFMin
<1> QED BY <1>2 DEF StrictSubsetOrdering

First(s) == CHOOSE x \in s : TRUE

LEMMA FirstIn == \A s : s # {} => First(s) \in s /\ s \ {First(s)} \subseteq s /\ s \ {First(s)} # s
BY DEF First

\* sum[s] is the sum of F over s.
Sums(F, S, sum) ==
  sum = [s \in SUBSET S |-> IF s = {} THEN 0 ELSE F[First(s)] + sum[s \ {First(s)}]]

LEMMA SumsStep ==
  ASSUME NEW F, NEW S, NEW sum, Sums(F, S, sum), NEW s \in SUBSET S
  PROVE  sum[s] = IF s = {} THEN 0 ELSE F[First(s)] + sum[s \ {First(s)}]
BY DEF Sums

LEMMA SumsUnique ==
  ASSUME NEW F, NEW S, NEW T, T \subseteq S, IsFiniteSet(T),
         NEW i, NEW j, Sums(F, S, i), Sums(F, T, j)
  PROVE  \A s \in SUBSET T : i[s] = j[s]
<1> DEFINE Bad == {s \in SUBSET T : i[s] # j[s]}
<1> SUFFICES ASSUME Bad # {} PROVE FALSE
  OBVIOUS
<1>1. PICK m \in Bad : \A k \in Bad : k \subseteq m => k = m
  <2>1. Bad \subseteq SUBSET T
    OBVIOUS
  <2> HIDE DEF Bad
  <2> QED BY <2>1, LeastSet
<1>2. m \in SUBSET T /\ m \in SUBSET S /\ i[m] # j[m]
  OBVIOUS
<1>3. i[m] = IF m = {} THEN 0 ELSE F[First(m)] + i[m \ {First(m)}]
  BY <1>2 DEF Sums
<1>4. j[m] = IF m = {} THEN 0 ELSE F[First(m)] + j[m \ {First(m)}]
  BY <1>2 DEF Sums
<1>5. m # {}
  BY <1>2, <1>3, <1>4
<1>6. i[m \ {First(m)}] = j[m \ {First(m)}]
  BY <1>1, <1>2, <1>5, FirstIn
<1> QED BY <1>2, <1>3, <1>4, <1>6

LEMMA SumsTyped ==
  ASSUME NEW S, IsFiniteSet(S), NEW F \in [S -> Nat], NEW sum, Sums(F, S, sum)
  PROVE  sum \in [SUBSET S -> Nat]
<1> DEFINE Bad == {s \in SUBSET S : sum[s] \notin Nat}
<1>1. ASSUME Bad # {} PROVE FALSE
  <2>1. PICK m \in Bad : \A k \in Bad : k \subseteq m => k = m
    <3>1. Bad \subseteq SUBSET S
      OBVIOUS
    <3> HIDE DEF Bad
    <3> QED BY <1>1, <3>1, LeastSet
  <2>2. sum[m] = IF m = {} THEN 0 ELSE F[First(m)] + sum[m \ {First(m)}]
    BY <2>1 DEF Sums
  <2>3. m # {} /\ First(m) \in S /\ sum[m \ {First(m)}] \in Nat
    BY <2>1, <2>2, FirstIn
  <2> QED BY <2>2, <2>3
<1>2. sum = [s \in SUBSET S |-> sum[s]]
  BY DEF Sums
<1> QED BY <1>1, <1>2

LEMMA SumsExists ==
  ASSUME NEW S, IsFiniteSet(S), NEW F \in [S -> Nat]
  PROVE  \E sum : Sums(F, S, sum)
<1> DEFINE Has(s) == \E sum : Sums(F, s, sum)
           Bad == {s \in SUBSET S : ~Has(s)}
<1> SUFFICES ASSUME Bad # {} PROVE FALSE
  OBVIOUS
<1>1. PICK m \in Bad : \A k \in Bad : k \subseteq m => k = m
  <2>1. Bad \subseteq SUBSET S
    OBVIOUS
  <2> HIDE DEF Bad
  <2> QED BY <2>1, LeastSet
<1> DEFINE P(s) == CHOOSE sum : Sums(F, s, sum)
           rest(s) == s \ {First(s)}
           G == [s \in SUBSET m |-> IF s = {} THEN 0 ELSE F[First(s)] + P(rest(s))[rest(s)]]
<1>2. \A s \in SUBSET m : s # m => Sums(F, s, P(s)) /\ IsFiniteSet(s)
  <2> SUFFICES ASSUME NEW s \in SUBSET m, s # m PROVE Sums(F, s, P(s)) /\ IsFiniteSet(s)
    OBVIOUS
  <2>1. s \in SUBSET S /\ s \notin Bad
    BY <1>1
  <2>2. IsFiniteSet(s)
    BY <2>1, FS_Subset
  <2> QED BY <2>1, <2>2
<1> HIDE DEF P
<1>3. ASSUME NEW s \in SUBSET m, s # {}
      PROVE  G[s] = F[First(s)] + G[rest(s)]
  <2> DEFINE v == rest(s)
             w == rest(v)
  <2>1. v \in SUBSET m /\ v # m /\ v \in SUBSET v
    BY <1>3, FirstIn
  <2>2. Sums(F, v, P(v)) /\ IsFiniteSet(v)
    BY <1>2, <2>1
  <2>3. P(v)[v] = IF v = {} THEN 0 ELSE F[First(v)] + P(v)[w]
    <3> HIDE DEF v
    <3> QED BY <2>1, <2>2, SumsStep
  <2>4. G[v] = IF v = {} THEN 0 ELSE F[First(v)] + P(w)[w]
    <3> HIDE DEF v
    <3> QED BY <2>1
  <2>5. v # {} => P(v)[w] = P(w)[w]
    <3> HIDE DEF v
    <3> SUFFICES ASSUME v # {} PROVE P(v)[w] = P(w)[w]
      OBVIOUS
    <3>1. w \in SUBSET m /\ w # m /\ w \subseteq v
      BY <2>1, FirstIn
    <3>2. Sums(F, w, P(w)) /\ IsFiniteSet(w)
      BY <1>2, <3>1
    <3> HIDE DEF w
    <3> QED BY <2>2, <3>1, <3>2, SumsUnique
  <2>6. G[s] = F[First(s)] + P(v)[v]
    BY <1>3
  <2> HIDE DEF v, w, G
  <2>7. P(v)[v] = G[v]
    BY <2>3, <2>4, <2>5
  <2> QED BY <2>6, <2>7 DEF v
<1>4. Sums(F, m, G)
  <2>1. G = [s \in SUBSET m |-> G[s]] /\ G[{}] = 0
    OBVIOUS
  <2> HIDE DEF G
  <2>2. \A s \in SUBSET m : G[s] = IF s = {} THEN 0 ELSE F[First(s)] + G[s \ {First(s)}]
    BY <1>3, <2>1
  <2> QED BY <2>1, <2>2 DEF Sums
<1> HIDE DEF G
<1> QED BY <1>4

\* At most one at c is added, and no other value grows.
LEMMA SumsGrow ==
  ASSUME NEW S, IsFiniteSet(S), NEW F \in [S -> Nat], NEW G \in [S -> Nat], NEW c,
         \A x \in S : G[x] <= F[x] + (IF x = c THEN 1 ELSE 0),
         NEW i, NEW j, Sums(F, S, i), Sums(G, S, j)
  PROVE  \A s \in SUBSET S : j[s] <= i[s] + (IF c \in s THEN 1 ELSE 0)
<1> DEFINE Bad == {s \in SUBSET S : ~(j[s] <= i[s] + (IF c \in s THEN 1 ELSE 0))}
<1> SUFFICES ASSUME Bad # {} PROVE FALSE
  OBVIOUS
<1>0. i \in [SUBSET S -> Nat] /\ j \in [SUBSET S -> Nat]
  BY SumsTyped
<1>1. PICK m \in Bad : \A k \in Bad : k \subseteq m => k = m
  <2>1. Bad \subseteq SUBSET S
    OBVIOUS
  <2> HIDE DEF Bad
  <2> QED BY <2>1, LeastSet
<1> DEFINE x == First(m)
           r == m \ {x}
<1>2. m \in SUBSET S
  OBVIOUS
<1>a. i[m] = IF m = {} THEN 0 ELSE F[x] + i[r]
  BY <1>2 DEF Sums
<1>b. j[m] = IF m = {} THEN 0 ELSE G[x] + j[r]
  BY <1>2 DEF Sums
<1>3. m # {}
  BY <1>a, <1>b
<1>4. x \in S /\ x \in m /\ r \in SUBSET S /\ r \notin Bad
  BY <1>1, <1>3, FirstIn
<1>5. j[r] <= i[r] + (IF c \in r THEN 1 ELSE 0) /\ i[r] \in Nat /\ j[r] \in Nat
  BY <1>0, <1>4
<1>6. G[x] <= F[x] + (IF x = c THEN 1 ELSE 0) /\ F[x] \in Nat /\ G[x] \in Nat
  BY <1>4
<1>7. ~(j[m] <= i[m] + (IF c \in m THEN 1 ELSE 0))
  OBVIOUS
<1>8. c \in m <=> c \in r \/ x = c
  BY <1>4
<1>9. c \in r => x # c
  OBVIOUS
<1> HIDE DEF r, x
<1> QED BY <1>a, <1>b, <1>3, <1>5, <1>6, <1>7, <1>8, <1>9

LEMMA SumsZero ==
  ASSUME NEW S, IsFiniteSet(S), NEW F \in [S -> Nat], \A x \in S : F[x] = 0,
         NEW sum, Sums(F, S, sum)
  PROVE  sum[S] = 0
<1> DEFINE Bad == {s \in SUBSET S : sum[s] # 0}
<1>1. ASSUME Bad # {} PROVE FALSE
  <2>1. PICK m \in Bad : \A k \in Bad : k \subseteq m => k = m
    <3>1. Bad \subseteq SUBSET S
      OBVIOUS
    <3> HIDE DEF Bad
    <3> QED BY <1>1, <3>1, LeastSet
  <2>2. sum[m] = IF m = {} THEN 0 ELSE F[First(m)] + sum[m \ {First(m)}]
    BY <2>1 DEF Sums
  <2>3. m # {} /\ First(m) \in S /\ sum[m \ {First(m)}] = 0
    BY <2>1, <2>2, FirstIn
  <2> QED BY <2>1, <2>2, <2>3
<1> QED BY <1>1

-----------------------------------------------------------------------------
(* The cap of a guest *)

\* A guest's prompts in one conversation of rows k, and all of them.
UsedBy(k, g, c) == IF k[c].owner = g /\ ~k[c].deleted THEN k[c].prompts ELSE 0
UsedSum(k, g) == MapThenSumSet(LAMBDA c : UsedBy(k, g, c), Convs)

LEMMA UsedIsSum ==
  ASSUME NEW k \in [Convs -> Conv], NEW g
  PROVE  LET F == [c \in Convs |-> UsedBy(k, g, c)] IN
         F \in [Convs -> Nat] /\ \E sum : Sums(F, Convs, sum) /\ UsedSum(k, g) = sum[Convs]
<1> DEFINE F == [c \in Convs |-> UsedBy(k, g, c)]
           Goes2(sum) == sum = [s \in SUBSET Convs |->
                           IF s = {} THEN 0 ELSE UsedBy(k, g, First(s)) + sum[s \ {First(s)}]]
<1>1. F \in [Convs -> Nat]
  BY AccountsAssumption DEF UsedBy, Conv
<1>2. ASSUME NEW sum PROVE Sums(F, Convs, sum) <=> Goes2(sum)
  <2>1. ASSUME NEW s \in SUBSET Convs, s # {} PROVE F[First(s)] = UsedBy(k, g, First(s))
    BY <2>1, FirstIn
  <2> QED BY <2>1 DEF Sums
<1>3. UsedSum(k, g) = (CHOOSE sum : Goes2(sum))[Convs]
  BY DEF UsedSum, MapThenSumSet, MapThenFoldSet, First
<1>4. \E sum : Sums(F, Convs, sum)
  BY <1>1, SumsExists, AccountsAssumption
<1> HIDE DEF F
<1>5. \E sum : Goes2(sum)
  BY <1>2, <1>4
<1> HIDE DEF Goes2
<1>6. Goes2(CHOOSE sum : Goes2(sum))
  BY <1>5
<1> QED BY <1>1, <1>2, <1>3, <1>6 DEF F

LEMMA UsedGrows ==
  ASSUME NEW k \in [Convs -> Conv], NEW h \in [Convs -> Conv], NEW g, NEW c \in Convs \cup {none},
         \A d \in Convs : UsedBy(h, g, d) <= UsedBy(k, g, d) + (IF d = c THEN 1 ELSE 0)
  PROVE  /\ UsedSum(k, g) \in Nat /\ UsedSum(h, g) \in Nat
         /\ UsedSum(h, g) <= UsedSum(k, g) + (IF c = none THEN 0 ELSE 1)
<1> DEFINE F == [d \in Convs |-> UsedBy(k, g, d)]
           G == [d \in Convs |-> UsedBy(h, g, d)]
<1>1. F \in [Convs -> Nat] /\ \E sum : Sums(F, Convs, sum) /\ UsedSum(k, g) = sum[Convs]
  BY UsedIsSum
<1>2. G \in [Convs -> Nat] /\ \E sum : Sums(G, Convs, sum) /\ UsedSum(h, g) = sum[Convs]
  BY UsedIsSum
<1>3. \A x \in Convs : G[x] <= F[x] + (IF x = c THEN 1 ELSE 0)
  OBVIOUS
<1> HIDE DEF F, G
<1>4. PICK i : Sums(F, Convs, i) /\ UsedSum(k, g) = i[Convs]
  BY <1>1
<1>5. PICK j : Sums(G, Convs, j) /\ UsedSum(h, g) = j[Convs]
  BY <1>2
<1>6. i \in [SUBSET Convs -> Nat] /\ j \in [SUBSET Convs -> Nat]
  BY <1>1, <1>2, <1>4, <1>5, SumsTyped, AccountsAssumption
<1>7. \A s \in SUBSET Convs : j[s] <= i[s] + (IF c \in s THEN 1 ELSE 0)
  BY <1>1, <1>2, <1>3, <1>4, <1>5, SumsGrow, AccountsAssumption
<1>8. Convs \in SUBSET Convs /\ (c \in Convs <=> c # none)
  BY AccountsAssumption
<1> QED BY <1>4, <1>5, <1>6, <1>7, <1>8

LEMMA UsedIsUsed ==
  ASSUME NEW g
  PROVE  Used(g) = UsedSum(conv, g) /\ Used(g)' = UsedSum(conv', g)
<1>1. Used(g) = UsedSum(conv, g)
  BY DEF Used, UsedIn, UsedSum, UsedBy, MapThenSumSet, MapThenFoldSet
<1>2. Used(g)' = UsedSum(conv', g)
  BY DEF Used, UsedIn, UsedSum, UsedBy, MapThenSumSet, MapThenFoldSet
<1> QED BY <1>1, <1>2
\* The questions of g that have passed the cap and are not written yet.
Asking(g) == {r \in Requests : Asks(request[r]) /\ request[r].cookie = g}

\* Each of them may add one prompt, and the last to pass saw fewer than the limit.
CapInv ==
  \A g \in Guests \ restored :
    Used(g) + Cardinality(Asking(g)) <= Limit + Cardinality(Requests) - 1
LEMMA UsedByIsNat ==
  ASSUME NEW k \in [Convs -> Conv], NEW g, NEW c \in Convs
  PROVE  UsedBy(k, g, c) \in Nat /\ k[c].prompts \in Nat
BY AccountsAssumption DEF UsedBy, Conv

LEMMA AskingFinite ==
  ASSUME NEW g
  PROVE  /\ IsFiniteSet(Asking(g)) /\ IsFiniteSet(Asking(g)')
         /\ Cardinality(Asking(g)) \in Nat /\ Cardinality(Asking(g)') \in Nat
         /\ Cardinality(Asking(g)') <= Cardinality(Requests)
         /\ Cardinality(Requests) \in Nat
<1>1. Asking(g) \in SUBSET Requests /\ Asking(g)' \in SUBSET Requests
  BY DEF Asking
<1> QED BY <1>1, AccountsAssumption, FS_Subset, FS_CardinalityType

LEMMA AskingShrinks ==
  ASSUME NEW r \in Requests, Turned(r), KeepsAsking(r), NEW g
  PROVE  Asking(g)' \subseteq Asking(g) /\ Cardinality(Asking(g)') <= Cardinality(Asking(g))
<1>1. Asking(g)' \subseteq Asking(g)
  BY DEF Asking, Turned, KeepsAsking
<1> QED BY <1>1, AskingFinite, FS_Subset

\* No guest that counts has more prompts, or one more question on its way.
Lessens == /\ restored \subseteq restored'
           /\ \A g \in Guests \ restored', c \in Convs : UsedBy(conv', g, c) <= UsedBy(conv, g, c)

LEMMA CapKeptBy ==
  ASSUME IInv, CapInv, conv' \in [Convs -> Conv], Lessens,
         NEW r \in Requests, Turned(r), KeepsAsking(r)
  PROVE  CapInv'
<1> SUFFICES ASSUME NEW g \in Guests \ restored'
             PROVE  Used(g)' + Cardinality(Asking(g)') <= Limit + Cardinality(Requests) - 1
  BY DEF CapInv
<1>1. g \in Guests \ restored /\ \A c \in Convs : UsedBy(conv', g, c) <= UsedBy(conv, g, c)
  BY DEF Lessens
<1>2. conv \in [Convs -> Conv] /\ none \notin Convs
  BY Before, AccountsAssumption
<1>3. \A c \in Convs : UsedBy(conv', g, c) <= UsedBy(conv, g, c) + (IF c = none THEN 1 ELSE 0)
  BY <1>1, <1>2, UsedByIsNat
<1>4. UsedSum(conv, g) \in Nat /\ UsedSum(conv', g) \in Nat /\ UsedSum(conv', g) <= UsedSum(conv, g)
  BY <1>2, <1>3, UsedGrows
<1>5. Used(g) = UsedSum(conv, g) /\ Used(g)' = UsedSum(conv', g)
  BY UsedIsUsed
<1>6. Used(g) + Cardinality(Asking(g)) <= Limit + Cardinality(Requests) - 1
  BY <1>1 DEF CapInv
<1>7. Cardinality(Asking(g)') <= Cardinality(Asking(g))
  BY AskingShrinks
<1> QED BY <1>4, <1>5, <1>6, <1>7, AskingFinite, AccountsAssumption

\* The rows stay as they are.
LEMMA CapSameRows ==
  ASSUME IInv, CapInv, UNCHANGED <<conv, restored>>,
         NEW r \in Requests, Turned(r), KeepsAsking(r)
  PROVE  CapInv'
<1>1. conv' \in [Convs -> Conv] /\ conv \in [Convs -> Conv]
  BY Before
<1>2. Lessens
  BY <1>1, UsedByIsNat DEF Lessens
<1> QED BY <1>1, <1>2, CapKeptBy

\* A question passes the cap.
LEMMA UnderCapKeepsCap ==
  ASSUME IInv, CapInv, NEW r \in Requests, UnderCap(r)
  PROVE  CapInv'
<1> DEFINE x == request[r]
           y == [x EXCEPT !.pc = IF x.op = "ask" THEN "own" ELSE "write"]
<1>1. /\ x.pc = "cap" /\ Used(x.cookie) < Limit /\ UNCHANGED <<conv, restored>>
      /\ RequestGoes(r, IF x.op = "ask" THEN "own" ELSE "write")
  BY DEF UnderCap, RequestAt, Quiet, Database, History
<1>2. x \in Request /\ RequestOK(x)
  BY OneRequest
<1>3. Turned(r) /\ request'[r] = y
  BY <1>1, Goes DEF IInv, OwnOps
<1>4. y.cookie = x.cookie
  BY <1>2 DEF Request
<1> HIDE DEF y
<1> SUFFICES ASSUME NEW g \in Guests \ restored
             PROVE  Used(g)' + Cardinality(Asking(g)') <= Limit + Cardinality(Requests) - 1
  BY <1>1 DEF CapInv
<1>5. Used(g)' = Used(g) /\ Used(g) \in Nat
  <2>1. conv \in [Convs -> Conv] /\ none \notin Convs
    BY Before, AccountsAssumption
  <2>2. \A c \in Convs : UsedBy(conv, g, c) <= UsedBy(conv, g, c) + (IF c = none THEN 1 ELSE 0)
    BY <2>1, UsedByIsNat
  <2>3. UsedSum(conv, g) \in Nat
    BY <2>1, <2>2, UsedGrows
  <2> QED BY <1>1, <2>3, UsedIsUsed
<1>6. CASE x.cookie = g
  BY <1>1, <1>5, <1>6, AskingFinite, AccountsAssumption
<1>7. CASE x.cookie # g
  <2>1. Asking(g)' \subseteq Asking(g)
    BY <1>3, <1>4, <1>7 DEF Asking, Turned
  <2>2. Cardinality(Asking(g)') <= Cardinality(Asking(g))
    BY <2>1, AskingFinite, FS_Subset
  <2> QED BY <1>5, <2>2, AskingFinite, AccountsAssumption DEF CapInv
<1> QED BY <1>6, <1>7

\* A question is written: one more prompt, and one less on its way.
LEMMA AskKeepsCap ==
  ASSUME IInv, CapInv, NEW r \in Requests, AskRequest(r)
  PROVE  CapInv'
<1> DEFINE x == request[r]
           c == x.conv
           row == [conv[c] EXCEPT !.prompts = @ + 1]
<1>1. /\ Exists(r) /\ Done(r) /\ SetConv(r, row) /\ conv[c].prompts < MaxPrompts
      /\ x.op = "ask" /\ restored' = restored
  BY DEF AskRequest, History
<1>2. x.pc = "write" /\ c \in born /\ c \in Convs /\ conv[c] \in Conv /\ c # none
  BY <1>1, RowWritten
<1>3. row \in Conv /\ row.owner = conv[c].owner /\ row.deleted = conv[c].deleted
      /\ row.prompts = conv[c].prompts + 1 /\ conv[c].prompts \in Nat
  BY <1>1, <1>2, AccountsAssumption DEF Conv
<1>4. Turned(r) /\ KeepsAsking(r) /\ request'[r].pc = "reply"
  BY <1>1, <1>2, Ends DEF IInv
<1> HIDE DEF row
<1>5. conv' \in [Convs -> Conv] /\ conv'[c] = row /\ \A d \in Convs : d # c => conv'[d] = conv[d]
  BY <1>1, <1>2, <1>3, Before DEF SetConv
<1>6. Held(x, conv[c].owner)
  BY <1>2 DEF IInv, Ratings, HeldAll, Working, Writes
<1> HIDE DEF c
<1> SUFFICES ASSUME NEW g \in Guests \ restored
             PROVE  Used(g)' + Cardinality(Asking(g)') <= Limit + Cardinality(Requests) - 1
  BY <1>1 DEF CapInv
<1>7. Used(g) + Cardinality(Asking(g)) <= Limit + Cardinality(Requests) - 1
  BY DEF CapInv
<1>8. conv \in [Convs -> Conv] /\ none \notin Convs
  BY Before, AccountsAssumption
<1>9. CASE conv[c].owner = g
  <2>1. \A d \in Convs : UsedBy(conv', g, d) <= UsedBy(conv, g, d) + (IF d = c THEN 1 ELSE 0)
    BY <1>3, <1>5, <1>8, UsedByIsNat DEF UsedBy
  <2>2. UsedSum(conv, g) \in Nat /\ UsedSum(conv', g) \in Nat
        /\ UsedSum(conv', g) <= UsedSum(conv, g) + 1
    BY <1>2, <1>5, <1>8, <2>1, UsedGrows
  <2>3. x.member = none /\ x.cookie = g
    BY <1>6, <1>9, Before, OneRequest DEF Held, Request, Users
  <2>4. r \in Asking(g) /\ r \notin Asking(g)'
    BY <1>1, <1>2, <1>4, <2>3 DEF Asking, Asks
  <2>5. Asking(g)' \subseteq Asking(g) \ {r}
    BY <1>4, <2>4, AskingShrinks
  <2>6. Cardinality(Asking(g) \ {r}) = Cardinality(Asking(g)) - 1 /\ IsFiniteSet(Asking(g) \ {r})
    BY <2>4, AskingFinite, FS_RemoveElement
  <2>7. Cardinality(Asking(g)') <= Cardinality(Asking(g)) - 1
    BY <2>5, <2>6, FS_Subset
  <2> QED BY <1>7, <2>2, <2>7, UsedIsUsed, AskingFinite, AccountsAssumption
<1>10. CASE conv[c].owner # g
  <2>1. \A d \in Convs : UsedBy(conv', g, d) <= UsedBy(conv, g, d) + (IF d = none THEN 1 ELSE 0)
    BY <1>3, <1>5, <1>8, <1>10, UsedByIsNat DEF UsedBy
  <2>2. UsedSum(conv, g) \in Nat /\ UsedSum(conv', g) \in Nat
        /\ UsedSum(conv', g) <= UsedSum(conv, g)
    BY <1>5, <1>8, <2>1, UsedGrows
  <2>3. Cardinality(Asking(g)') <= Cardinality(Asking(g))
    BY <1>4, AskingShrinks
  <2> QED BY <1>7, <2>2, <2>3, UsedIsUsed, AskingFinite, AccountsAssumption
<1> QED BY <1>9, <1>10
\* The owner is read, or the request admitted: nothing new passes the cap.
LEMMA GoesKeepsCap ==
  ASSUME IInv, CapInv, NEW r \in Requests, Owns(r) \/ Admit(r)
  PROVE  CapInv'
<1> DEFINE x == request[r]
<1>1. x \in Request /\ RequestOK(x)
  BY OneRequest
<1>2. CASE Owns(r)
  <2>1. RequestGoes(r, "write") /\ x.pc = "own" /\ UNCHANGED <<conv, restored>>
    BY <1>2 DEF Owns, RequestAt, Quiet, Database, History
  <2>2. Turned(r) /\ request'[r] = [x EXCEPT !.pc = "write"]
    BY <2>1, Goes DEF IInv
  <2>3. KeepsAsking(r)
    BY <1>1, <2>1, <2>2 DEF KeepsAsking, Asks, Request
  <2> QED BY <2>1, <2>2, <2>3, CapSameRows
<1>3. CASE Admit(r)
  <2>1. RequestGoes(r, AfterAuth(r)) /\ x.pc = "auth" /\ UNCHANGED <<conv, restored>>
    BY <1>3 DEF Admit, RequestAt, History
  <2>2. /\ AfterAuth(r) \in {"cap", "own", "write"}
        /\ AfterAuth(r) = "cap" => ByGuest(r) /\ x.op \in {"create", "ask"}
        /\ AfterAuth(r) = "own" => x.op \in OwnOps
        /\ x.op = "ask" /\ x.member = none => AfterAuth(r) = "cap"
    BY DEF AfterAuth, ByGuest
  <2>3. Turned(r) /\ request'[r] = [x EXCEPT !.pc = AfterAuth(r)]
    BY <2>1, <2>2, Goes DEF IInv
  <2>4. KeepsAsking(r)
    BY <1>1, <2>2, <2>3 DEF KeepsAsking, Asks, Request
  <2> QED BY <2>1, <2>3, <2>4, CapSameRows
<1> QED BY <1>2, <1>3

\* Rows are deleted, moved to an account, emptied or new.
LEMMA ClaimKeepsCap ==
  ASSUME IInv, CapInv, NEW r \in Requests, ClaimStep(r), IInv'
  PROVE  CapInv'
<1>1. conv \in [Convs -> Conv] /\ conv' \in [Convs -> Conv]
  BY Before DEF IInv, Rows, AccountsTypeOK
<1>2. CASE MoveConversations(r)
  <2>1. /\ Turned(r) /\ KeepsAsking(r) /\ restored' = restored
        /\ request[r].cookie \in Guests /\ request[r].member \in Members
    BY <1>2, Statement, OneRequest
       DEF IInv, Stmts, MoveConversations, History, Owes, RequestOK
  <2>2. ASSUME NEW g \in Guests, NEW c \in Convs
        PROVE  UsedBy(conv', g, c) <= UsedBy(conv, g, c)
    <3>1. UsedBy(conv, g, c) \in Nat
      BY <1>1, UsedByIsNat
    <3>2. CASE conv[c].owner = request[r].cookie
      <4>1. conv'[c] = [conv[c] EXCEPT !.owner = request[r].member]
        BY <1>2, <3>2 DEF MoveConversations
      <4>2. conv'[c].owner = request[r].member
        BY <1>1, <4>1 DEF Conv
      <4> QED BY <2>1, <3>1, <4>2, Before DEF UsedBy
    <3>3. CASE conv[c].owner # request[r].cookie
      <4>1. conv'[c] = conv[c]
        BY <1>2, <3>3 DEF MoveConversations
      <4> QED BY <3>1, <4>1 DEF UsedBy
    <3> QED BY <3>2, <3>3
  <2>3. Lessens
    BY <2>1, <2>2 DEF Lessens
  <2> QED BY <1>1, <2>1, <2>3, CapKeptBy
<1>3. CASE ForgetGuest(r)
  <2>1. Turned(r) /\ KeepsAsking(r) /\ restored' = restored
    BY <1>3, Forgets DEF IInv, ForgetGuest, History
  <2>2. ASSUME NEW g \in Guests, NEW c \in Convs
        PROVE  UsedBy(conv', g, c) <= UsedBy(conv, g, c)
    <3>1. UsedBy(conv, g, c) \in Nat
      BY <1>1, UsedByIsNat
    <3>2. conv'[c] = NoConv \/ conv'[c] = conv[c]
      BY <1>3 DEF ForgetGuest
    <3> QED BY <3>1, <3>2, AccountsAssumption DEF UsedBy, NoConv
  <2>3. Lessens
    BY <2>1, <2>2 DEF Lessens
  <2> QED BY <1>1, <2>1, <2>3, CapKeptBy
<1>4. CASE ForgetFails(r)
  BY <1>4, Forgets, CapSameRows DEF IInv, ForgetFails, Quiet, Database, History
<1>5. CASE RatingsClash(r)
  BY <1>5, Statement, CapSameRows DEF IInv, RatingsClash, Stmts, Quiet, Database, History
<1>6. CASE DropRatings(r)
  BY <1>6, Statement, CapSameRows DEF IInv, DropRatings, Stmts, History
<1>7. ASSUME NEW stmt \in Stmts, MoveRatings(r, stmt)
      PROVE  CapInv'
  BY <1>7, Statement, CapSameRows DEF IInv, MoveRatings, History
<1>8. ASSUME NEW stmt \in Stmts, ClaimFails(r, stmt)
      PROVE  CapInv'
  <2>1. UNCHANGED <<conv, restored>>
    BY <1>8 DEF ClaimFails, Quiet, Database, History
  <2> QED BY <1>8, <2>1, StatementFails, CapSameRows DEF IInv
<1> QED BY <1>2, <1>3, <1>4, <1>5, <1>6, <1>7, <1>8 DEF ClaimStep, Stmts

LEMMA WriteKeepsCap ==
  ASSUME IInv, CapInv, NEW r \in Requests, IInv',
         \/ \E c \in Convs : Create(r, c)
         \/ Mark(r) \/ Erase(r) \/ Rate(r)
         \/ \E K \in SUBSET Convs : ClearAllConversations(r, K)
  PROVE  CapInv'
<1>1. conv \in [Convs -> Conv] /\ conv' \in [Convs -> Conv]
  BY Before DEF IInv, Rows, AccountsTypeOK
<1>2. Turned(r) /\ KeepsAsking(r) /\ restored \subseteq restored'
  BY Ends DEF IInv, Create, Mark, Erase, Rate, ClearAllConversations, Exists, RequestAt, History
<1>3. ASSUME NEW g \in Guests \ restored', NEW c \in Convs
      PROVE  UsedBy(conv', g, c) <= UsedBy(conv, g, c)
  <2>1. UsedBy(conv, g, c) \in Nat /\ conv[c].prompts \in Nat
    BY <1>1, UsedByIsNat
  <2>2. CASE \E d \in Convs : Create(r, d)
    <3>1. PICK d \in Convs : Create(r, d)
      BY <2>2
    <3>2. CASE c = d
      <4>1. conv'[c] = [NoConv EXCEPT !.owner = UserOf(r)]
        BY <1>1, <3>1, <3>2 DEF Create
      <4>2. conv'[c].prompts = 0
        BY <4>1 DEF NoConv
      <4> QED BY <2>1, <4>2 DEF UsedBy
    <3>3. CASE c # d
      BY <1>1, <2>1, <3>1, <3>3 DEF Create, UsedBy
    <3> QED BY <3>2, <3>3
  <2>3. CASE Mark(r)
    <3> DEFINE row == [conv[c] EXCEPT !.deleted = ~(request[r].op = "restore")]
    <3>1. row.owner = conv[c].owner /\ row.prompts = conv[c].prompts
          /\ row.deleted = ~(request[r].op = "restore")
      BY <1>1 DEF Conv
    <3>2. CASE c = request[r].conv
      <4>1. conv'[c] = row
        BY <1>1, <2>3, <3>2 DEF Mark, SetConv
      <4>2. request[r].op = "restore" => conv[c].owner # g
        BY <1>3, <2>3, <3>2 DEF Mark
      <4>3. request[r].op # "restore" => row.deleted
        BY <3>1
      <4> HIDE DEF row
      <4>4. CASE request[r].op = "restore"
        BY <2>1, <3>1, <4>1, <4>2, <4>4 DEF UsedBy
      <4>5. CASE request[r].op # "restore"
        <5>1. conv'[c].deleted
          BY <4>1, <4>3, <4>5
        <5> QED BY <2>1, <5>1 DEF UsedBy
      <4> QED BY <4>4, <4>5
    <3>3. CASE c # request[r].conv
      BY <1>1, <2>1, <2>3, <3>3 DEF Mark, SetConv, UsedBy
    <3> QED BY <3>2, <3>3
  <2>4. CASE Erase(r)
    <3> DEFINE row == [conv[c] EXCEPT !.prompts = 0]
    <3>1. row.prompts = 0
      BY <1>1 DEF Conv
    <3>2. conv'[c] = row \/ conv'[c] = conv[c]
      BY <1>1, <2>4 DEF Erase, SetConv
    <3> HIDE DEF row
    <3> QED BY <2>1, <3>1, <3>2 DEF UsedBy
  <2>5. CASE Rate(r)
    BY <2>1, <2>5 DEF Rate, UsedBy
  <2>6. CASE \E K \in SUBSET Convs : ClearAllConversations(r, K)
    <3> DEFINE row == [conv[c] EXCEPT !.deleted = TRUE]
    <3>1. row.deleted
      BY <1>1 DEF Conv
    <3>2. conv'[c] = row \/ conv'[c] = conv[c]
      BY <1>1, <2>6 DEF ClearAllConversations
    <3> HIDE DEF row
    <3> QED BY <2>1, <3>1, <3>2 DEF UsedBy
  <2> QED BY <2>2, <2>3, <2>4, <2>5, <2>6
<1>4. Lessens
  BY <1>2, <1>3 DEF Lessens
<1> QED BY <1>1, <1>2, <1>4, CapKeptBy

LEMMA RequestKeepsCap ==
  ASSUME IInv, CapInv, NEW r \in Requests, RequestStep(r), IInv'
  PROVE  CapInv'
<1>1. ASSUME NEW op \in Ops, NEW c \in Convs \cup {none}, Send(r, op, c) PROVE CapInv'
  <2>1. UNCHANGED <<conv, restored>>
    BY <1>1 DEF Send, Quiet, Database, History
  <2> QED BY <1>1, <2>1, Sent, CapSameRows DEF IInv
<1>2. ASSUME NEW arrives \in BOOLEAN, Reply(r, arrives) PROVE CapInv'
  <2>1. UNCHANGED <<conv, restored>>
    BY <1>2 DEF Reply, Database
  <2> QED BY <1>2, <2>1, Replied, CapSameRows DEF IInv
<1>3. CASE Refuse(r)
  BY <1>3, Ends, CapSameRows DEF IInv, Refuse, RequestAt, Quiet, Database, History
<1> QED
  BY <1>1, <1>2, <1>3, ClaimKeepsCap, GoesKeepsCap, UnderCapKeepsCap, AskKeepsCap, WriteKeepsCap
     DEF RequestStep

LEMMA CapStep == IInv /\ CapInv /\ [AccountsNext]_accountsVars => CapInv'
<1> SUFFICES ASSUME IInv, CapInv, [AccountsNext]_accountsVars PROVE CapInv'
  OBVIOUS
<1>1. IInv'
  BY AccountsStep
<1>2. ASSUME NEW r \in Requests, RequestStep(r) PROVE CapInv'
  BY <1>1, <1>2, RequestKeepsCap
<1>3. CASE UNCHANGED <<conv, restored, request>>
  <2>1. \A g \in Guests : Used(g)' = Used(g) /\ Asking(g)' = Asking(g)
    BY <1>3, UsedIsUsed DEF Asking
  <2> QED BY <1>3, <2>1 DEF CapInv
<1> QED
  BY <1>2, <1>3
     DEF AccountsNext, accountsVars, BecomeGuest, SignIn, SetBlocked, SignOut, Database, History

LEMMA CapStart == AccountsInit => CapInv
<1> SUFFICES ASSUME AccountsInit, NEW g \in Guests
             PROVE  Used(g) + Cardinality(Asking(g)) <= Limit + Cardinality(Requests) - 1
  BY DEF CapInv
<1>1. conv \in [Convs -> Conv] /\ \A c \in Convs : conv[c].owner # g
  BY AccountsStart, Before, AccountsAssumption DEF AccountsInit, NoConv
<1> DEFINE F == [c \in Convs |-> UsedBy(conv, g, c)]
<1>2. F \in [Convs -> Nat] /\ \E sum : Sums(F, Convs, sum) /\ UsedSum(conv, g) = sum[Convs]
  BY <1>1, UsedIsSum
<1>3. \A c \in Convs : F[c] = 0
  BY <1>1 DEF UsedBy
<1> HIDE DEF F
<1>4. UsedSum(conv, g) = 0
  BY <1>2, <1>3, SumsZero, AccountsAssumption
<1>5. Asking(g) = {}
  BY IdleOK DEF AccountsInit, Asking
<1>6. Cardinality(Asking(g)) = 0 /\ Cardinality(Requests) # 0
  BY <1>5, FS_EmptySet, AccountsAssumption
<1> QED BY <1>4, <1>6, UsedIsUsed, AskingFinite, AccountsAssumption

\* However many requests a guest sends at once, each of them passes the cap once and
\* no more (countGuestPromptsUsed is read before the prompt is written); no row is
\* left behind.
THEOREM AccountsAreSound == AccountsSpec => []AccountsInv
<1>1. IInv /\ CapInv => AccountsInv
  <2> SUFFICES ASSUME IInv, CapInv, NEW g \in Guests \ restored
               PROVE  Used(g) <= Limit + Cardinality(Requests) - 1
    BY DEF IInv, Rows, AccountsInv, PromptCapKept
  <2>1. conv \in [Convs -> Conv] /\ none \notin Convs
    BY Before, AccountsAssumption
  <2>2. \A c \in Convs : UsedBy(conv, g, c) <= UsedBy(conv, g, c) + (IF c = none THEN 1 ELSE 0)
    BY <2>1, UsedByIsNat
  <2>3. Used(g) \in Nat
    BY <2>1, <2>2, UsedGrows, UsedIsUsed
  <2> QED BY <2>3, AskingFinite, AccountsAssumption DEF CapInv
<1> QED
  BY <1>1, AccountsStart, AccountsStep, CapStart, CapStep, PTL DEF AccountsSpec

=============================================================================
