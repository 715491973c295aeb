------------------------------ MODULE Accounts ------------------------------
(***************************************************************************)
(* Who owns what: guests, accounts, their conversations and ratings.  One  *)
(* browser holds at most one guest cookie and one session and sends        *)
(* requests that run at the same time.  A request that carries both moves  *)
(* the guest's rows to the account before it does its own work             *)
(* (createTRPCContext, claimGuestData); each database statement is a step, *)
(* may fail, and the reply that takes the cookie back may be lost.         *)
(*                                                                         *)
(* Of a conversation the model keeps its owner, the soft-delete mark, the  *)
(* number of USER messages and the ratings of its newest answer.           *)
(***************************************************************************)
EXTENDS Integers, FiniteSets, FiniteSetsExt

CONSTANTS
  Guests, Members,  \* ids of User rows: devices without, people with a session
  Convs,            \* ids of conversations
  Requests,         \* requests that may run at the same time
  Limit,            \* GUEST_PROMPT_LIMIT
  MaxPrompts,       \* bound on the prompts of one conversation
  none

ASSUME AccountsAssumption ==
  /\ Guests \cap Members = {} /\ none \notin Guests \cup Members \cup Convs
  /\ Limit \in Nat /\ MaxPrompts \in Nat
  /\ IsFiniteSet(Convs) /\ IsFiniteSet(Requests) /\ Requests # {}

VARIABLES
  here,      \* User rows
  blocked,   \* accounts an administrator has blocked
  conv,      \* conv[c]: the row of c
  rating,    \* rating[c][u]: who gave the rating that u has of c's newest answer
  browser,   \* its guest cookie and its session
  request,   \* one request
  born,      \* history: conversations created so far
  late,      \* history: conversations created for a guest already moved
  restored,  \* history: guests with a conversation that was restored
  wiped      \* history: guests whose cookie the reply to another's claim took

accountsVars == <<here, blocked, conv, rating, browser, request, born, late, restored, wiped>>
Database == <<here, blocked, conv, rating>>
History == <<born, late, restored, wiped>>

Users == Guests \cup Members
Conv == [owner : Users \cup {none}, deleted : BOOLEAN, prompts : 0..MaxPrompts]
NoConv == [owner |-> none, deleted |-> FALSE, prompts |-> 0]
Unrated == [u \in Users |-> none]

OwnOps == {"ask", "remove", "restore", "clear", "regenerate", "rate", "unrate"}
Ops == OwnOps \cup {"create", "clearAll"}
Request == [pc : {"idle", "claim", "forget", "auth", "cap", "own", "write", "reply"},
            op : Ops, cookie : Guests \cup {none}, member : Members \cup {none},
            conv : Convs \cup {none}, todo : SUBSET {"move", "rate", "drop", "again"},
            claimed : BOOLEAN]
IdleRequest == [pc |-> "idle", op |-> "create", cookie |-> none, member |-> none,
         conv |-> none, todo |-> {}, claimed |-> FALSE]

AccountsTypeOK ==
  /\ here \subseteq Users /\ blocked \subseteq Members
  /\ conv \in [Convs -> Conv]
  /\ rating \in [Convs -> [Users -> Users \cup {none}]]
  /\ browser \in [cookie : Guests \cup {none}, session : Members \cup {none}]
  /\ request \in [Requests -> Request]
  /\ born \subseteq Convs /\ late \subseteq Convs
  /\ restored \subseteq Guests /\ wiped \subseteq Guests

AccountsInit ==
  /\ here = Members /\ blocked = {}
  /\ conv = [c \in Convs |-> NoConv]
  /\ rating = [c \in Convs |-> Unrated]
  /\ browser = [cookie |-> none, session |-> none]
  /\ request = [r \in Requests |-> IdleRequest]
  /\ born = {} /\ late = {} /\ restored = {} /\ wiped = {}

RequestAt(r, pc) == request[r].pc = pc
UserOf(r) == IF request[r].member # none THEN request[r].member ELSE request[r].cookie
ByGuest(r) == request[r].member = none
RequestBecomes(r, new) == request' = [request EXCEPT ![r] = new]
RequestGoes(r, pc) == RequestBecomes(r, [request[r] EXCEPT !.pc = pc])

\* The work is done: all that is left of the request is its claim.
Done(r) == RequestBecomes(r, [request[r] EXCEPT !.pc = "reply", !.op = "create", !.conv = none])
Quiet == UNCHANGED Database /\ UNCHANGED browser /\ UNCHANGED History

\* countGuestPromptsUsed.
UsedIn(g, c) ==
  IF conv[c].owner = g /\ ~conv[c].deleted THEN conv[c].prompts ELSE 0
Used(g) == MapThenSumSet(LAMBDA c : UsedIn(g, c), Convs)

-----------------------------------------------------------------------------
(* The browser *)

\* POST /api/guest: a cookie that is already there is kept.
BecomeGuest(g) ==
  /\ browser.session = none /\ browser.cookie = none
  /\ g \notin here /\ \A r \in Requests : request[r].cookie # g
  /\ \A c \in Convs : conv[c].owner # g
  /\ browser' = [browser EXCEPT !.cookie = g]
  /\ UNCHANGED Database /\ UNCHANGED History /\ UNCHANGED request

\* The sign-in callback turns a blocked account away; the cookie stays.
SignIn(m) ==
  /\ browser.session = none /\ m \notin blocked
  /\ browser' = [browser EXCEPT !.session = m]
  /\ UNCHANGED Database /\ UNCHANGED History /\ UNCHANGED request

SignOut ==
  /\ browser.session # none
  /\ browser' = [browser EXCEPT !.session = none]
  /\ UNCHANGED Database /\ UNCHANGED History /\ UNCHANGED request

\* A request takes the cookie and the session of its moment along.  The stream
\* route ("ask") claims nothing; a request without any identity is refused.
Send(r, op, c) ==
  LET claims == browser.session # none /\ browser.cookie # none /\ op # "ask" IN
  /\ RequestAt(r, "idle") /\ request[r].todo = {}
  /\ browser.session # none \/ browser.cookie # none
  /\ c # none <=> op \in OwnOps
  /\ RequestBecomes(r, [IdleRequest EXCEPT !.pc = IF claims THEN "claim" ELSE "auth", !.op = op,
                             !.cookie = browser.cookie, !.member = browser.session,
                             !.conv = c,
                             !.todo = IF claims THEN {"move", "rate"} ELSE {}])
  /\ Quiet

\* The answer arrives, or is lost; a claim's answer takes the cookie back.
Reply(r, arrives) ==
  LET takes == arrives /\ request[r].claimed IN
  /\ RequestAt(r, "reply")
  /\ RequestBecomes(r, IF request[r].todo = {} THEN IdleRequest
                       ELSE [request[r] EXCEPT !.pc = "idle"])
  /\ browser' = IF takes THEN [browser EXCEPT !.cookie = none] ELSE browser
  /\ wiped' = wiped \cup (IF takes THEN {browser.cookie} \ {request[r].cookie, none} ELSE {})
  /\ UNCHANGED Database /\ UNCHANGED <<born, late, restored>>

-----------------------------------------------------------------------------
(* The claim.  Its two halves run side by side, and one that fails does not*)
(* stop the other: todo holds the statements that are still to come.       *)

Owes(r, stmt) == stmt \in request[r].todo

\* One statement is done; the last of a claim that has not failed ends it.
Did(r, stmt, more) ==
  LET rest == (request[r].todo \ {stmt}) \cup more IN
  RequestBecomes(r, IF RequestAt(r, "idle") /\ rest = {} THEN IdleRequest
             ELSE [request[r] EXCEPT !.todo = rest,
                     !.pc = IF RequestAt(r, "claim") /\ rest = {} THEN "forget" ELSE @])

MoveConversations(r) ==
  /\ Owes(r, "move")
  /\ conv' = [c \in Convs |->
       IF conv[c].owner = request[r].cookie
       THEN [conv[c] EXCEPT !.owner = request[r].member] ELSE conv[c]]
  /\ Did(r, "move", {})
  /\ UNCHANGED <<here, blocked, rating, browser>> /\ UNCHANGED History

\* At most one rating of a message by each user.
Clash(g, m, c) == rating[c][g] # none /\ rating[c][m] # none
Handed(g, m, c) ==
  IF rating[c][g] # none THEN [rating[c] EXCEPT ![g] = none, ![m] = rating[c][g]] ELSE rating[c]

MoveRatings(r, stmt) ==
  LET g == request[r].cookie  m == request[r].member IN
  /\ stmt \in {"rate", "again"} /\ Owes(r, stmt)
  /\ \A c \in Convs : ~Clash(g, m, c)
  /\ rating' = [c \in Convs |-> Handed(g, m, c)]
  /\ Did(r, stmt, {})
  /\ UNCHANGED <<here, blocked, conv, browser>> /\ UNCHANGED History

RatingsClash(r) ==
  /\ Owes(r, "rate")
  /\ \E c \in Convs : Clash(request[r].cookie, request[r].member, c)
  /\ Did(r, "rate", {"drop"})
  /\ Quiet

\* Mutant: the account's rating gives way.
DropAccountRatings(r) ==
  LET g == request[r].cookie  m == request[r].member IN
  /\ Owes(r, "drop")
  /\ rating' = [c \in Convs |->
       IF Clash(g, m, c) THEN [rating[c] EXCEPT ![m] = none] ELSE rating[c]]
  /\ Did(r, "drop", {"again"})
  /\ UNCHANGED <<here, blocked, conv, browser>> /\ UNCHANGED History

\* The account's rating wins: the guest's is dropped.
DropRatings(r) ==
  LET g == request[r].cookie  m == request[r].member IN
  /\ Owes(r, "drop")
  /\ rating' = [c \in Convs |->
       IF Clash(g, m, c) THEN [rating[c] EXCEPT ![g] = none] ELSE rating[c]]
  /\ Did(r, "drop", {"again"})
  /\ UNCHANGED <<here, blocked, conv, browser>> /\ UNCHANGED History

\* Mutant: the claim goes on as if nothing had failed.
IgnoreFailure(r, stmt) ==
  /\ Owes(r, stmt)
  /\ Did(r, stmt, {})
  /\ Quiet

\* A statement fails (also "again", on a rating given meanwhile): the claim is
\* given up and the request goes on without it.
ClaimFails(r, stmt) ==
  /\ Owes(r, stmt)
  /\ RequestBecomes(r, IF RequestAt(r, "idle") /\ request[r].todo = {stmt} THEN IdleRequest
                ELSE [request[r] EXCEPT !.todo = @ \ {stmt},
                        !.pc = IF RequestAt(r, "claim") THEN "auth" ELSE @])
  /\ Quiet

\* Mutant: the row goes without what hangs on it.
ForgetRowOnly(r) ==
  /\ RequestAt(r, "forget")
  /\ here' = here \ {request[r].cookie}
  /\ RequestBecomes(r, [request[r] EXCEPT !.pc = "auth", !.claimed = TRUE])
  /\ UNCHANGED <<blocked, conv, rating, browser>> /\ UNCHANGED History

\* The guest's User row goes, and with it whatever still hangs on it.
ForgetGuest(r) ==
  LET g == request[r].cookie
      dead == {c \in Convs : conv[c].owner = g} IN
  /\ RequestAt(r, "forget")
  /\ here' = here \ {g}
  /\ conv' = [c \in Convs |-> IF c \in dead THEN NoConv ELSE conv[c]]
  /\ rating' = [c \in Convs |->
       IF c \in dead THEN Unrated ELSE [rating[c] EXCEPT ![g] = none]]
  /\ RequestBecomes(r, [request[r] EXCEPT !.pc = "auth", !.claimed = TRUE])
  /\ UNCHANGED <<blocked, browser>> /\ UNCHANGED History

\* It is best effort.
ForgetFails(r) ==
  /\ RequestAt(r, "forget")
  /\ RequestBecomes(r, [request[r] EXCEPT !.pc = "auth", !.claimed = TRUE])
  /\ Quiet

-----------------------------------------------------------------------------
(* The request's own work *)

AfterAuth(r) ==
  IF request[r].op \in {"create", "ask"} /\ ByGuest(r) THEN "cap"
  ELSE IF request[r].op \in OwnOps THEN "own" ELSE "write"

\* isAuthenticated, and the stream route's own check: a guest's row is made on
\* the way (not by the stream route), an account must be there and not blocked.
Admit(r) ==
  /\ RequestAt(r, "auth")
  /\ ByGuest(r) \/ request[r].member \in here \ blocked
  /\ here' = IF ByGuest(r) /\ request[r].op # "ask" THEN here \cup {request[r].cookie} ELSE here
  /\ RequestGoes(r, AfterAuth(r))
  /\ UNCHANGED <<blocked, conv, rating, browser>> /\ UNCHANGED History

\* Mutant: the cap is off by one.
UnderCapOrAt(r) ==
  /\ RequestAt(r, "cap") /\ Used(request[r].cookie) <= Limit
  /\ RequestGoes(r, IF request[r].op = "ask" THEN "own" ELSE "write")
  /\ Quiet

\* The guest's cap: prompts in conversations that are not deleted.
UnderCap(r) ==
  /\ RequestAt(r, "cap") /\ Used(request[r].cookie) < Limit
  /\ RequestGoes(r, IF request[r].op = "ask" THEN "own" ELSE "write")
  /\ Quiet

\* ensureConversationOwnership and its likes; a deleted conversation passes.
\* A rating and a regeneration need an answer.
Owns(r) ==
  LET c == request[r].conv IN
  /\ RequestAt(r, "own")
  /\ conv[c].owner = UserOf(r)
  /\ request[r].op \in {"rate", "unrate", "regenerate"} => conv[c].prompts > 0
  /\ RequestGoes(r, "write")
  /\ Quiet

\* Blocked, over the cap, not the owner, or the database fails.
Refuse(r) ==
  /\ RequestAt(r, "auth") \/ RequestAt(r, "cap") \/ RequestAt(r, "own") \/ RequestAt(r, "write")
  /\ Done(r)
  /\ Quiet

\* A guest is moved while a claim of it is past its move, or its cookie is gone.
Moved(g) ==
  \/ browser.cookie # g
  \/ \E r \in Requests :
       /\ request[r].cookie = g /\ request[r].member # none
       /\ \/ RequestAt(r, "claim") /\ ~Owes(r, "move")
          \/ RequestAt(r, "forget")
          \/ request[r].claimed

Create(r, c) ==
  /\ RequestAt(r, "write") /\ request[r].op = "create"
  /\ c \notin born /\ UserOf(r) \in here
  /\ conv' = [conv EXCEPT ![c] = [NoConv EXCEPT !.owner = UserOf(r)]]
  /\ born' = born \cup {c}
  /\ late' = IF ByGuest(r) /\ Moved(request[r].cookie) THEN late \cup {c} ELSE late
  /\ Done(r)
  /\ UNCHANGED <<here, blocked, rating, browser, restored, wiped>>

\* The statements below name the conversation by its id: whoever owns it now.
Exists(r) ==
  RequestAt(r, "write") /\ request[r].conv # none /\ conv[request[r].conv].owner # none
SetConv(r, new) == conv' = [conv EXCEPT ![request[r].conv] = new]

AskRequest(r) ==
  LET c == request[r].conv IN
  /\ Exists(r) /\ request[r].op = "ask" /\ conv[c].prompts < MaxPrompts
  /\ SetConv(r, [conv[c] EXCEPT !.prompts = @ + 1])
  /\ rating' = [rating EXCEPT ![c] = Unrated]
  /\ Done(r)
  /\ UNCHANGED <<here, blocked, browser>> /\ UNCHANGED History

\* delete, one of deleteMany, restore.
Mark(r) ==
  LET c == request[r].conv  restores == request[r].op = "restore" IN
  /\ Exists(r) /\ request[r].op \in {"remove", "restore"}
  /\ SetConv(r, [conv[c] EXCEPT !.deleted = ~restores])
  /\ restored' = IF restores THEN restored \cup ({conv[c].owner} \cap Guests) ELSE restored
  /\ Done(r)
  /\ UNCHANGED <<here, blocked, rating, browser, born, late, wiped>>

\* clear deletes the messages, regenerate the newest answer; ratings go along.
Erase(r) ==
  LET c == request[r].conv IN
  /\ Exists(r) /\ request[r].op \in {"clear", "regenerate"}
  /\ SetConv(r, IF request[r].op = "clear" THEN [conv[c] EXCEPT !.prompts = 0] ELSE conv[c])
  /\ rating' = [rating EXCEPT ![c] = Unrated]
  /\ Done(r)
  /\ UNCHANGED <<here, blocked, browser>> /\ UNCHANGED History

Rate(r) ==
  LET c == request[r].conv  u == UserOf(r) IN
  /\ Exists(r) /\ request[r].op \in {"rate", "unrate"}
  /\ request[r].op = "rate" => u \in here /\ conv[c].prompts > 0
  /\ rating' = [rating EXCEPT ![c] = [@ EXCEPT ![u] = IF request[r].op = "rate" THEN u ELSE none]]
  /\ Done(r)
  /\ UNCHANGED <<here, blocked, conv, browser>> /\ UNCHANGED History

\* clearAll: every conversation of the user that the filter K lets through.
ClearAllConversations(r, K) ==
  /\ RequestAt(r, "write") /\ request[r].op = "clearAll"
  /\ conv' = [c \in Convs |->
       IF c \in K /\ conv[c].owner = UserOf(r) THEN [conv[c] EXCEPT !.deleted = TRUE]
       ELSE conv[c]]
  /\ Done(r)
  /\ UNCHANGED <<here, blocked, rating, browser>> /\ UNCHANGED History

\* setUserBlocked, by an administrator.
SetBlocked(m) ==
  /\ blocked' = IF m \in blocked THEN blocked \ {m} ELSE blocked \cup {m}
  /\ UNCHANGED <<here, conv, rating, browser, request>> /\ UNCHANGED History

ClaimStep(r) ==
  \/ MoveConversations(r) \/ RatingsClash(r) \/ DropRatings(r)
  \/ \E stmt \in {"move", "rate", "drop", "again"} : MoveRatings(r, stmt) \/ ClaimFails(r, stmt)
  \/ ForgetGuest(r) \/ ForgetFails(r)

RequestStep(r) ==
  \/ \E op \in Ops, c \in Convs \cup {none} : Send(r, op, c)
  \/ \E arrives \in BOOLEAN : Reply(r, arrives)
  \/ ClaimStep(r)
  \/ Admit(r) \/ UnderCap(r) \/ Owns(r) \/ Refuse(r)
  \/ \E c \in Convs : Create(r, c)
  \/ AskRequest(r) \/ Mark(r) \/ Erase(r) \/ Rate(r)
  \/ \E K \in SUBSET Convs : ClearAllConversations(r, K)

AccountsNext ==
  \/ \E r \in Requests : RequestStep(r)
  \/ \E g \in Guests : BecomeGuest(g)
  \/ \E m \in Members : SignIn(m) \/ SetBlocked(m)
  \/ SignOut

AccountsSpec == AccountsInit /\ [][AccountsNext]_accountsVars

-----------------------------------------------------------------------------
(* Properties *)

\* The foreign keys: a conversation hangs on its owner's row, a rating on its
\* user's row and on an answer.  Statements that come after a claim or a
\* clear must not leave a row behind.
RowsHang ==
  \A c \in Convs :
    /\ conv[c].owner \in here \cup {none}
    /\ \A u \in Users : rating[c][u] # none => u \in here /\ conv[c].prompts > 0

\* countGuestPromptsUsed is read before the prompt is written, so requests that
\* run together can pass the cap, each of them once and no more.  Restoring a
\* deleted conversation is not counted at all.
PromptCapKept ==
  \A g \in Guests \ restored : Used(g) <= Limit + Cardinality(Requests) - 1

\* No row is left behind, and the cap of a guest holds but for races.
AccountsInv == AccountsTypeOK /\ RowsHang /\ PromptCapKept

\* What a guest has asked is not lost by signing in (claimGuestData): a
\* conversation stays, under an account or under the guest the browser still
\* stands for.  The exceptions are conversations a request of the guest created
\* after its claim had moved the others, and guests whose cookie was taken by
\* the reply to the claim of an earlier one.
GuestDataFollows ==
  \A c \in born \ late :
    \/ conv[c].owner \in Members
    \/ conv[c].owner \in Guests /\ conv[c].owner \in {browser.cookie} \cup wiped

\* claimGuestFeedback: what an account itself said of an answer is never
\* overwritten by what its guest said of it; it goes only with the answer or
\* when the account takes it back.
Takes(r, m, c) ==
  /\ RequestAt(r, "write") /\ request[r].conv = c /\ request'[r].pc = "reply"
  /\ request[r].op \in {"ask", "clear", "regenerate"} \/ UserOf(r) = m
AccountRatingWins ==
  [][\A c \in Convs, m \in Members :
       rating[c][m] = m /\ rating'[c][m] # m => \E r \in Requests : Takes(r, m, c)]_accountsVars

=============================================================================
