----------------------------- MODULE AdminUsers -----------------------------
(***************************************************************************)
(* Roles and suspensions: the users table of each administrator's browser  *)
(* (UsersTable), which acts on the rows it was last sent, and the two      *)
(* mutations of the admin router behind adminProcedure, which reads the    *)
(* actor's row and then, in a later query, writes the target's.            *)
(***************************************************************************)
EXTENDS Integers, FiniteSets

CONSTANT KnownUsers

ASSUME AdminUsersAssumption == IsFiniteSet(KnownUsers) /\ KnownUsers # {}

VARIABLES
  role,     \* role[u]
  blockedUsers,  \* users whose blockedAt is set
  table,    \* table[a]: the users page of a
  mutation, \* mutation[a]: the request of a in flight
  lateWrite      \* history: an update was written for somebody no longer admin

adminVars == <<role, blockedUsers, table, mutation, lateWrite>>
Roles == {"USER", "ADMIN"}

\* knowsMe: the session has loaded, so the page can tell its own row.
Table == [open : BOOLEAN, knowsMe : BOOLEAN, roles : [KnownUsers -> Roles],
          blocked : SUBSET KnownUsers, target : SUBSET KnownUsers]
ClosedTable == [open |-> FALSE, knowsMe |-> FALSE, roles |-> [u \in KnownUsers |-> "USER"],
                blocked |-> {}, target |-> {}]

Mutation == [pc : {"none", "sent", "admitted", "replied"}, op : {"role", "blocked"},
             target : KnownUsers, role : Roles, block : BOOLEAN]
NoMutation == [pc |-> "none", op |-> "role", target |-> CHOOSE u \in KnownUsers : TRUE,
               role |-> "USER", block |-> FALSE]

ActiveAdmin(u) == role[u] = "ADMIN" /\ u \notin blockedUsers

AdminTypeOK ==
  /\ role \in [KnownUsers -> Roles]
  /\ blockedUsers \subseteq KnownUsers
  /\ table \in [KnownUsers -> Table]
  /\ mutation \in [KnownUsers -> Mutation]
  /\ lateWrite \in BOOLEAN

\* An operator has made the first administrators by hand.
AdminInit ==
  /\ role \in [KnownUsers -> Roles] /\ blockedUsers = {}
  /\ \E u \in KnownUsers : role[u] = "ADMIN"
  /\ table = [a \in KnownUsers |-> ClosedTable]
  /\ mutation = [a \in KnownUsers |-> NoMutation]
  /\ lateWrite = FALSE

SetTable(a, new) == table' = [table EXCEPT ![a] = new]
SetMutation(a, new) == mutation' = [mutation EXCEPT ![a] = new]
AccountRows == <<role, blockedUsers, lateWrite>>

\* admin.users answers an active admin only; guests are not in the list.
LoadUsers(a) ==
  /\ ActiveAdmin(a)
  /\ SetTable(a, [table[a] EXCEPT !.open = TRUE, !.roles = role, !.blocked = blockedUsers])
  /\ UNCHANGED mutation /\ UNCHANGED AccountRows

SessionLoads(a) ==
  /\ ~table[a].knowsMe
  /\ SetTable(a, [table[a] EXCEPT !.knowsMe = TRUE])
  /\ UNCHANGED mutation /\ UNCHANGED AccountRows

\* A row's buttons: not on the row known to be one's own, not while one is pending.
Clickable(a, u) ==
  /\ table[a].open /\ mutation[a].pc = "none" /\ table[a].target = {}
  /\ ~(table[a].knowsMe /\ u = a)

ClickRole(a, u) ==
  /\ Clickable(a, u)
  /\ SetMutation(a, [pc |-> "sent", op |-> "role", target |-> u, block |-> FALSE,
                     role |-> IF table[a].roles[u] = "ADMIN" THEN "USER" ELSE "ADMIN"])
  /\ UNCHANGED table /\ UNCHANGED AccountRows

Blocking(u, block) ==
  [pc |-> "sent", op |-> "blocked", target |-> u, role |-> "USER", block |-> block]

ClickUnblock(a, u) ==
  /\ Clickable(a, u) /\ u \in table[a].blocked
  /\ SetMutation(a, Blocking(u, FALSE))
  /\ UNCHANGED table /\ UNCHANGED AccountRows

ClickBlock(a, u) ==
  /\ Clickable(a, u) /\ u \notin table[a].blocked
  /\ SetTable(a, [table[a] EXCEPT !.target = {u}])
  /\ UNCHANGED mutation /\ UNCHANGED AccountRows

\* The dialog: confirmed or not, it closes.
AnswerDialog(a, u, confirmed) ==
  /\ u \in table[a].target
  /\ SetTable(a, [table[a] EXCEPT !.target = {}])
  /\ IF confirmed THEN SetMutation(a, Blocking(u, TRUE)) ELSE UNCHANGED mutation
  /\ UNCHANGED AccountRows

-----------------------------------------------------------------------------
(* Server *)

\* isAuthenticated and isAdmin, from the database and not from the token.
AdmitAdmin(a) ==
  /\ mutation[a].pc = "sent"
  /\ SetMutation(a, IF ActiveAdmin(a) THEN [mutation[a] EXCEPT !.pc = "admitted"]
                    ELSE NoMutation)
  /\ UNCHANGED table /\ UNCHANGED AccountRows

\* Mutant: the target may be the actor.
RequireAnyUser(a) == TRUE

RequireOtherUser(a) == mutation[a].target # a

WriteUser(u, m) ==
  /\ role' = IF m.op = "role" THEN [role EXCEPT ![u] = m.role] ELSE role
  /\ blockedUsers' = IF m.op = "role" THEN blockedUsers
                ELSE IF m.block THEN blockedUsers \cup {u} ELSE blockedUsers \ {u}

\* setUserRole and setUserBlocked after admission: refused, failed or written.
RefuseAdmin(a) ==
  /\ mutation[a].pc = "admitted"
  /\ SetMutation(a, NoMutation)
  /\ UNCHANGED table /\ UNCHANGED AccountRows

UpdateUser(a) ==
  /\ mutation[a].pc = "admitted" /\ RequireOtherUser(a)
  /\ WriteUser(mutation[a].target, mutation[a])
  /\ lateWrite' = (lateWrite \/ ~ActiveAdmin(a))
  /\ SetMutation(a, [NoMutation EXCEPT !.pc = "replied"])
  /\ UNCHANGED table

\* onSuccess: the list is asked for again, by whoever still may.
Replied(a) ==
  /\ mutation[a].pc = "replied"
  /\ SetMutation(a, NoMutation)
  /\ IF ActiveAdmin(a)
     THEN SetTable(a, [table[a] EXCEPT !.roles = role, !.blocked = blockedUsers])
     ELSE UNCHANGED table
  /\ UNCHANGED AccountRows

AdminNext == \E a \in KnownUsers :
  \/ LoadUsers(a) \/ SessionLoads(a)
  \/ \E u \in KnownUsers : ClickRole(a, u) \/ ClickUnblock(a, u) \/ ClickBlock(a, u)
  \/ \E u \in KnownUsers, confirmed \in BOOLEAN : AnswerDialog(a, u, confirmed)
  \/ AdmitAdmin(a) \/ RefuseAdmin(a) \/ UpdateUser(a) \/ Replied(a)

AdminSpec == AdminInit /\ [][AdminNext]_adminVars

-----------------------------------------------------------------------------

(* "That keeps the app from being locked out of admin access": some active *)
(* administrator remains, whatever administrators do to each other, unless *)
(* an update was written for one who had lost the right since its request  *)
(* was admitted.                                                           *)
AdminRemains == lateWrite \/ \E u \in KnownUsers : ActiveAdmin(u)

AdminUsersInv == AdminTypeOK /\ AdminRemains
=============================================================================
