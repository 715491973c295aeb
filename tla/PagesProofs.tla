---------------------------- MODULE PagesProofs ----------------------------
(***************************************************************************)
(* Theorems about the pages of the client that follow what the server does *)
(* in the background or in other tabs: the tester of the pipelines, the    *)
(* history, the documents' console and list, the sidebar, the table of     *)
(* queries, the page of a conversation and the source browser, each for    *)
(* any bounds and by an invariant of its own; at the end all of them       *)
(* together.                                                               *)
(***************************************************************************)
EXTENDS MCPages, FiniteSetTheorems, SequenceTheorems, WellFoundedInduction, TLAPS

-----------------------------------------------------------------------------
(* The tester page: rows that are bounded, and lost only to newer ones,    *)
(* for any number of runs, workers and rows kept                           *)

Created == {r \in Runs : status[r] # "none"}
NewerThan(r) == {s \in Runs : s > r /\ status[s] # "none"}
WithOutcome == {r \in RunRows : status[r] \in Terminal}
Pruning == {r \in Runs : worker[r].pc \in {"find", "delete"}}
Over == {r \in Runs : worker[r].pc = "over"}

\* Rows are created in the order of their numbers.
CreatedInOrder == \A r, s \in Runs : s < r /\ r \in Created => s \in Created

\* Only rows have workers, and until one has stored its outcome its row is RUNNING.
WorkersHaveRows == \A r \in Runs : status[r] = "none" => WorkerAt(r, "none")
RunningRuns == \A r \in Runs : WorkerAt(r, "run") => status[r] = "RUNNING"

\* What a pruning is about to keep: at most Keep rows, and of those that are older
\* than one of them and are not among them, only such as have Keep newer ones.
KeepsEnough(K) ==
  /\ Cardinality(K) <= Keep /\ K \subseteq Created
  /\ \A s \in Runs : (\E k \in K : k > s) /\ s \notin K /\ status[s] \notin {"none", "deleted"} =>
       Cardinality(NewerThan(s)) >= Keep
PruningsKeepEnough == \A r \in Runs : WorkerAt(r, "delete") => KeepsEnough(worker[r].keep)

\* An invocation is over before its pruning counts as cut short.
CutShortOnce == unpruned <= Cardinality(Over)

\* The page shows a stored trace of a run that was chosen, or follows a run.
PageOK ==
  /\ page.trace # 0 => page.selected # 0
  /\ page.selected # 0 => page.active = 0
  /\ page.seen # "none" => page.active # 0

TesterIInv ==
  /\ TesterTypeOK /\ HistoryBounded /\ LostToNewer
  /\ CreatedInOrder /\ WorkersHaveRows /\ RunningRuns
  /\ PruningsKeepEnough /\ CutShortOnce /\ PageOK

-----------------------------------------------------------------------------
(* Of a finite set of numbers, those with fewer than n above them          *)

LEMMA RunsFinite ==
  /\ IsFiniteSet(Runs) /\ Cardinality(Runs) = MaxRuns /\ MaxRuns \in Nat /\ Keep \in Nat /\ Keep > 0
  /\ \A S \in SUBSET Runs : IsFiniteSet(S) /\ Cardinality(S) \in 0..MaxRuns
<1>1. MaxRuns \in Nat /\ Keep \in Nat /\ Keep > 0
  BY TesterAssumption
<1>2. IsFiniteSet(Runs) /\ Cardinality(Runs) = MaxRuns
  BY <1>1, FS_Interval DEF Runs
<1>3. ASSUME NEW S \in SUBSET Runs PROVE IsFiniteSet(S) /\ Cardinality(S) \in 0..MaxRuns
  BY <1>2, FS_Subset, FS_CardinalityType
<1> QED BY <1>1, <1>2, <1>3

\* Of finitely many things in a strict order there is one below which there is none.
LEMMA MinimalOf ==
  ASSUME NEW C, IsFiniteSet(C), C # {}, NEW R,
         \A a, b, c \in C : <<a, b>> \in R /\ <<b, c>> \in R => <<a, c>> \in R,
         \A a \in C : <<a, a>> \notin R
  PROVE  \E m \in C : \A a \in C : <<a, m>> \notin R
<1> DEFINE under(c) == {a \in C : <<a, c>> \in R}
<1> DEFINE T == {under(c) : c \in C}
<1>1. T \subseteq SUBSET C /\ T # {}
  <2>1. PICK c \in C : TRUE
    OBVIOUS
  <2>2. under(c) \in T
    BY <2>1
  <2>3. T \subseteq SUBSET C
    OBVIOUS
  <2> QED BY <2>2, <2>3
<1>2. T \subseteq FiniteSubsetsOf(C)
  BY <1>1, FS_Subset DEF FiniteSubsetsOf
<1>3. \E s \in T : \A k \in T : ~ (<<k, s>> \in StrictSubsetOrdering(C))
  <2> HIDE DEF T
  <2> QED BY <1>1, <1>2, FS_StrictSubsetOrderingWellFounded, WFMin
<1>4. PICK s \in T : \A k \in T : k \subseteq s => k = s
  <2> HIDE DEF T
  <2> QED BY <1>1, <1>3 DEF StrictSubsetOrdering
<1>5. PICK m \in C : s = under(m)
  OBVIOUS
<1>6. ASSUME NEW a \in C, <<a, m>> \in R PROVE FALSE
  <2>1. under(a) \in T /\ under(a) \subseteq under(m) /\ a \in under(m) /\ a \notin under(a)
    BY <1>6
  <2> QED BY <1>4, <1>5, <2>1
<1> QED BY <1>6

\* Of numbers up to n there is a least one.
LEMMA LeastIndex ==
  ASSUME NEW n \in Nat, NEW I, I \subseteq 1..n, I # {}
  PROVE  \E m \in I : \A i \in I : m <= i
<1> DEFINE R == {p \in I \X I : p[1] < p[2]}
<1>1. IsFiniteSet(I)
  <2>1. IsFiniteSet(1..n)
    BY FS_Interval
  <2> QED BY <2>1, FS_Subset
<1>2. \A a, b \in I : <<a, b>> \in R <=> a < b
  OBVIOUS
<1>3. \A a, b \in I : a \in Int /\ b \in Int
  OBVIOUS
<1> HIDE DEF R
<1>4. /\ \A a, b, c \in I : <<a, b>> \in R /\ <<b, c>> \in R => <<a, c>> \in R
      /\ \A a \in I : <<a, a>> \notin R
  BY <1>2, <1>3
<1>5. PICK m \in I : \A i \in I : <<i, m>> \notin R
  BY <1>1, <1>4, MinimalOf
<1>6. \A i \in I : ~ (i < m)
  BY <1>2, <1>5
<1>7. \A i \in I : m <= i
  BY <1>3, <1>6
<1> QED BY <1>7

\* Those of R with fewer than n others of R above them.
HighestOf(R, n) == {r \in R : Cardinality({s \in R : s > r}) < n}

\* They are n at most: the least of them has all the others above it.
LEMMA FewHighest ==
  ASSUME NEW m \in Nat, NEW R \in SUBSET (1..m), IsFiniteSet(R), NEW n \in Nat
  PROVE  Cardinality(HighestOf(R, n)) <= n
<1> DEFINE K == HighestOf(R, n)
<1>1. IsFiniteSet(K) /\ K \subseteq R /\ Cardinality(K) \in Nat
  BY FS_Subset, FS_CardinalityType DEF HighestOf
<1>2. CASE K = {}
  <2> HIDE DEF K
  <2>1. Cardinality(K) = 0
    BY <1>2, FS_EmptySet
  <2> QED BY <1>1, <2>1 DEF K
<1>3. CASE K # {}
  <2>1. PICK least \in K : \A k \in K : least <= k
    <3> HIDE DEF K
    <3> QED BY <1>1, <1>3, LeastIndex
  <2> DEFINE above == {s \in R : s > least}
  <2>2. K \ {least} \subseteq above
    <3> SUFFICES ASSUME NEW k \in K, k # least PROVE k > least
      BY <1>1
    <3>1. k \in R /\ least \in R /\ least <= k
      BY <1>1, <2>1
    <3>2. k \in 1..m /\ least \in 1..m
      BY <3>1
    <3> HIDE DEF K
    <3> QED BY <3>1, <3>2
  <2>3. IsFiniteSet(above) /\ Cardinality(above) \in Nat
    BY FS_Subset, FS_CardinalityType
  <2>4. Cardinality(above) < n
    BY <2>1 DEF HighestOf
  <2> HIDE DEF K, above
  <2>5. Cardinality(K \ {least}) <= Cardinality(above)
    BY <2>2, <2>3, FS_Subset
  <2>6. Cardinality(K \ {least}) = Cardinality(K) - 1
    BY <1>1, <2>1, FS_RemoveElement
  <2>7. Cardinality(K) <= n
    BY <1>1, <2>3, <2>4, <2>5, <2>6
  <2> QED BY <2>7 DEF K
<1> QED BY <1>2, <1>3

-----------------------------------------------------------------------------
(* The invariant of the tester page *)

\* What one worker or row becomes leaves the types as they are.
LEMMA TesterTypes ==
  ASSUME TesterTypeOK
  PROVE  /\ \A r \in Runs : status[r] \in Statuses /\ worker[r] \in Worker
         /\ \A r \in Runs : worker[r].pc \in {"none", "run", "find", "delete", "over"}
         /\ \A r \in Runs : worker[r].keep \in SUBSET Runs
         /\ RunRows \in SUBSET Runs /\ Pruning \in SUBSET Runs /\ Over \in SUBSET Runs
         /\ WithOutcome \in SUBSET Runs /\ Created \in SUBSET Runs
         /\ \A r : NewerThan(r) \in SUBSET Runs
BY DEF TesterTypeOK, Worker, RunRows, Pruning, Over, WithOutcome, Created, NewerThan

\* A set that loses at most what another gains by one, and their sizes.
LEMMA OneMore ==
  ASSUME NEW A \in SUBSET Runs, NEW B \in SUBSET Runs, NEW x, B \subseteq A \cup {x}
  PROVE  Cardinality(B) <= Cardinality(A) + 1
<1>1. IsFiniteSet(A) /\ IsFiniteSet(A \cup {x}) /\ IsFiniteSet(B)
  BY RunsFinite, FS_AddElement
<1>2. Cardinality(A \cup {x}) <= Cardinality(A) + 1 /\ Cardinality(A \cup {x}) \in Nat
  BY <1>1, FS_AddElement, FS_CardinalityType
<1>3. Cardinality(B) <= Cardinality(A \cup {x})
  BY <1>1, FS_Subset
<1> QED BY <1>1, <1>2, <1>3, FS_CardinalityType

LEMMA OneLess ==
  ASSUME NEW A \in SUBSET Runs, NEW x \in A
  PROVE  Cardinality(A \ {x}) = Cardinality(A) - 1
BY RunsFinite, FS_RemoveElement

LEMMA NoMore ==
  ASSUME NEW A \in SUBSET Runs, NEW B \in SUBSET A
  PROVE  Cardinality(B) <= Cardinality(A)
BY RunsFinite, FS_Subset

LEMMA TesterStart == ASSUME TesterInit PROVE TesterIInv
<1>1. TesterTypeOK
  BY RunsFinite DEF TesterInit, TesterTypeOK, Statuses, NoWorker, Worker, NewPage, TesterPage
<1>2. WithOutcome = {} /\ Cardinality({}) = 0 /\ Pruning = {}
  BY FS_EmptySet DEF TesterInit, WithOutcome, RunRows, Pruning, NoWorker
<1>3. HistoryBounded
  <2>1. Cardinality(WithOutcome) = 0 /\ Cardinality(Pruning) = 0 /\ unpruned = 0
    BY <1>2 DEF TesterInit
  <2>2. Cardinality(WithOutcome) <= Keep + unpruned + Cardinality(Pruning)
    BY <2>1, RunsFinite
  <2> QED BY <2>2 DEF HistoryBounded, WithOutcome, Pruning
<1>4. LostToNewer /\ CreatedInOrder /\ WorkersHaveRows /\ RunningRuns /\ PruningsKeepEnough
  BY DEF TesterInit, LostToNewer, CreatedInOrder, WorkersHaveRows, RunningRuns, PruningsKeepEnough, Created,
         WorkerAt, NoWorker
<1>5. CutShortOnce
  <2>1. Over = {} /\ unpruned = 0
    BY DEF TesterInit, Over, NoWorker
  <2>2. Cardinality(Over) = 0
    BY <1>2, <2>1
  <2> QED BY <2>1, <2>2 DEF CutShortOnce
<1>6. PageOK
  BY DEF TesterInit, PageOK, NewPage
<1> QED BY <1>1, <1>3, <1>4, <1>5, <1>6 DEF TesterIInv

\* A step of the page alone.
LEMMA PageStep ==
  ASSUME TesterIInv, UNCHANGED Server, page' \in TesterPage, PageOK'
  PROVE  TesterIInv'
<1>1. TesterTypeOK'
  BY DEF TesterIInv, TesterTypeOK, Server
<1>2. HistoryBounded' /\ LostToNewer'
  BY DEF TesterIInv, HistoryBounded, LostToNewer, Server, RunRows, WorkerAt
<1>3. CreatedInOrder' /\ WorkersHaveRows' /\ RunningRuns' /\ CutShortOnce'
  BY DEF TesterIInv, CreatedInOrder, WorkersHaveRows, RunningRuns, CutShortOnce, Server, Created, WorkerAt, Over
<1>4. PruningsKeepEnough'
  BY DEF TesterIInv, PruningsKeepEnough, KeepsEnough, Server, Created, WorkerAt, NewerThan
<1> QED BY <1>1, <1>2, <1>3, <1>4 DEF TesterIInv

\* Rows that are there stay created, and newer ones may be.
LEMMA StillEnough ==
  ASSUME NEW S \in SUBSET Runs, NEW T \in SUBSET Runs, S \subseteq T, Cardinality(S) >= Keep
  PROVE  Cardinality(T) >= Keep
<1>1. Cardinality(S) <= Cardinality(T)
  BY NoMore
<1>2. Cardinality(S) \in Nat /\ Cardinality(T) \in Nat /\ Keep \in Nat
  BY RunsFinite
<1> QED BY <1>1, <1>2

\* A row is created RUNNING; the page asks for it or does not.
LEMMA CreateStep ==
  ASSUME TesterIInv, NEW r \in Runs, CreateRun(r), UNCHANGED Histories,
         page' \in TesterPage, PageOK'
  PROVE  TesterIInv'
<1>1. /\ status[r] = "none" /\ \A s \in Runs : s < r => status[s] # "none"
      /\ \A s \in Runs : status'[s] = IF s = r THEN "RUNNING" ELSE status[s]
      /\ \A s \in Runs : worker'[s] = IF s = r THEN [pc |-> "run", keep |-> {}] ELSE worker[s]
      /\ unpruned' = unpruned /\ crossed' = crossed
  <2>1. \A s \in Runs : s < r => s \in 1..(r - 1)
    BY RunsFinite DEF Runs
  <2>2. status[r] = "none" /\ \A s \in Runs : s < r => status[s] # "none"
    BY <2>1 DEF CreateRun, NextRun
  <2>3. \A s \in Runs : status'[s] = IF s = r THEN "RUNNING" ELSE status[s]
    BY DEF CreateRun, TesterIInv, TesterTypeOK
  <2>4. \A s \in Runs : worker'[s] = IF s = r THEN [pc |-> "run", keep |-> {}] ELSE worker[s]
    BY DEF CreateRun, SetWorker, NoWorker, TesterIInv, TesterTypeOK
  <2> QED BY <2>2, <2>3, <2>4 DEF Histories
<1>2. TesterTypeOK'
  BY <1>1 DEF CreateRun, SetWorker, NoWorker, TesterIInv, TesterTypeOK, Statuses, Worker
<1>3. worker[r].pc = "none"
  BY <1>1 DEF TesterIInv, WorkersHaveRows, WorkerAt
<1>4. HistoryBounded'
  <2>1. WithOutcome' = WithOutcome
    BY <1>1 DEF WithOutcome, RunRows, Terminal
  <2>2. Pruning' = Pruning
    BY <1>1, <1>3 DEF Pruning
  <2> QED BY <1>1, <2>1, <2>2 DEF TesterIInv, HistoryBounded, WithOutcome, Pruning
<1>5. \A s \in Runs : NewerThan(s) \subseteq NewerThan(s)'
  BY <1>1 DEF NewerThan
<1>6. \A s \in Runs : Cardinality(NewerThan(s)) >= Keep => Cardinality(NewerThan(s)') >= Keep
  <2> SUFFICES ASSUME NEW s \in Runs, Cardinality(NewerThan(s)) >= Keep
               PROVE  Cardinality(NewerThan(s)') >= Keep
    OBVIOUS
  <2>1. NewerThan(s) \in SUBSET Runs /\ NewerThan(s)' \in SUBSET Runs
    BY DEF NewerThan
  <2> QED BY <1>5, <2>1, StillEnough
<1>7. LostToNewer'
  BY <1>1, <1>6 DEF TesterIInv, LostToNewer, WorkerAt, NewerThan
<1>8. CreatedInOrder' /\ WorkersHaveRows' /\ RunningRuns'
  BY <1>1 DEF TesterIInv, CreatedInOrder, WorkersHaveRows, RunningRuns, Created, WorkerAt
<1>9. PruningsKeepEnough'
  <2> SUFFICES ASSUME NEW t \in Runs, WorkerAt(t, "delete")' PROVE KeepsEnough(worker[t].keep)'
    BY DEF PruningsKeepEnough
  <2>1. t # r /\ worker'[t] = worker[t] /\ KeepsEnough(worker[t].keep)
    BY <1>1 DEF WorkerAt, TesterIInv, PruningsKeepEnough
  <2>2. worker[t].keep \subseteq Created' /\ \A k \in worker[t].keep : ~ k > r
    BY <1>1, <2>1 DEF KeepsEnough, Created, TesterIInv, CreatedInOrder
  <2>3. ASSUME NEW s \in Runs, NEW k \in worker[t].keep, k > s, s \notin worker[t].keep,
               status'[s] \notin {"none", "deleted"}
        PROVE  Cardinality(NewerThan(s)') >= Keep
    BY <1>1, <1>6, <2>1, <2>2, <2>3 DEF KeepsEnough
  <2> QED BY <2>1, <2>2, <2>3 DEF KeepsEnough
<1>10. CutShortOnce'
  <2>1. Over' = Over
    BY <1>1, <1>3 DEF Over
  <2> QED BY <1>1, <2>1 DEF TesterIInv, CutShortOnce
<1> QED BY <1>2, <1>4, <1>7, <1>8, <1>9, <1>10 DEF TesterIInv
\* A worker stores its outcome, or fails to, and goes on to prune.
LEMMA FinishStep ==
  ASSUME TesterIInv, NEW r \in Runs, NEW outcome \in {"SUCCESS", "FAILED", "RUNNING"},
         Finish(r, outcome)
  PROVE  TesterIInv'
<1>1. /\ worker[r].pc = "run" /\ status[r] = "RUNNING"
      /\ \A s \in Runs : status'[s] = IF s = r THEN outcome ELSE status[s]
      /\ \A s \in Runs : worker'[s] = IF s = r THEN [pc |-> "find", keep |-> {}] ELSE worker[s]
      /\ unpruned' = unpruned /\ crossed' = crossed /\ page' = page
  <2>1. worker[r].pc = "run" /\ status[r] = "RUNNING"
    BY DEF Finish, WorkerAt, TesterIInv, RunningRuns
  <2>2. \A s \in Runs : status'[s] = IF s = r THEN outcome ELSE status[s]
    BY DEF Finish, TesterIInv, TesterTypeOK
  <2>3. \A s \in Runs : worker'[s] = IF s = r THEN [pc |-> "find", keep |-> {}] ELSE worker[s]
    BY DEF Finish, SetWorker, NoWorker, TesterIInv, TesterTypeOK
  <2> QED BY <2>1, <2>2, <2>3 DEF Finish, Histories
<1>2. TesterTypeOK'
  BY <1>1 DEF Finish, SetWorker, NoWorker, TesterIInv, TesterTypeOK, Statuses, Worker
<1>3. HistoryBounded'
  <2>1. /\ WithOutcome \in SUBSET Runs /\ WithOutcome' \in SUBSET Runs
        /\ WithOutcome' \subseteq WithOutcome \cup {r}
    BY <1>1 DEF WithOutcome, RunRows, Terminal
  <2>2. /\ Pruning \in SUBSET Runs /\ Pruning' \in SUBSET Runs /\ r \in Pruning'
        /\ Pruning = Pruning' \ {r}
    BY <1>1 DEF Pruning
  <2>3. Cardinality(WithOutcome') <= Cardinality(WithOutcome) + 1
    BY <2>1, OneMore
  <2>4. Cardinality(Pruning) = Cardinality(Pruning') - 1
    BY <2>2, OneLess
  <2>5. Cardinality(WithOutcome) <= Keep + unpruned + Cardinality(Pruning) /\ unpruned \in Nat
    BY RunsFinite DEF TesterIInv, TesterTypeOK, HistoryBounded, WithOutcome, Pruning
  <2>6. /\ Cardinality(WithOutcome) \in Nat /\ Cardinality(WithOutcome') \in Nat
        /\ Cardinality(Pruning) \in Nat /\ Cardinality(Pruning') \in Nat /\ Keep \in Nat
    BY <2>1, <2>2, RunsFinite
  <2>7. Cardinality(WithOutcome') <= Keep + unpruned' + Cardinality(Pruning')
    BY <1>1, <2>3, <2>4, <2>5, <2>6
  <2> QED BY <2>7 DEF HistoryBounded, WithOutcome, Pruning
<1>4. Created' = Created /\ \A s \in Runs : NewerThan(s)' = NewerThan(s)
  BY <1>1 DEF Created, NewerThan
<1>5. LostToNewer'
  BY <1>1, <1>4 DEF TesterIInv, LostToNewer, WorkerAt, NewerThan
<1>6. CreatedInOrder' /\ WorkersHaveRows' /\ RunningRuns'
  BY <1>1, <1>4 DEF TesterIInv, CreatedInOrder, WorkersHaveRows, RunningRuns, WorkerAt
<1>7. PruningsKeepEnough'
  <2> SUFFICES ASSUME NEW t \in Runs, WorkerAt(t, "delete")' PROVE KeepsEnough(worker[t].keep)'
    BY DEF PruningsKeepEnough
  <2>1. t # r /\ worker'[t] = worker[t] /\ KeepsEnough(worker[t].keep)
    BY <1>1 DEF WorkerAt, TesterIInv, PruningsKeepEnough
  <2>2. ASSUME NEW s \in Runs, NEW k \in worker[t].keep, k > s, s \notin worker[t].keep,
               status'[s] \notin {"none", "deleted"}
        PROVE  Cardinality(NewerThan(s)') >= Keep
    BY <1>1, <1>4, <2>1, <2>2 DEF KeepsEnough
  <2> QED BY <1>4, <2>1, <2>2 DEF KeepsEnough
<1>8. CutShortOnce'
  <2>1. Over' = Over
    BY <1>1 DEF Over
  <2> QED BY <1>1, <2>1 DEF TesterIInv, CutShortOnce
<1>9. PageOK'
  BY <1>1 DEF TesterIInv, PageOK
<1> QED BY <1>2, <1>3, <1>5, <1>6, <1>7, <1>8, <1>9 DEF TesterIInv

\* What the first query of a pruning finds is enough.
LEMMA FoundEnough == ASSUME TesterIInv PROVE NewestRows(Keep) \in SUBSET Runs /\ KeepsEnough(NewestRows(Keep))
<1> DEFINE K == NewestRows(Keep)
<1>1. /\ RunRows \in SUBSET Runs /\ K \in SUBSET RunRows /\ K = HighestOf(RunRows, Keep)
      /\ RunRows \subseteq Created
  BY DEF NewestRows, HighestOf, RunRows, Created
<1>2. Cardinality(K) <= Keep
  BY <1>1, RunsFinite, FewHighest DEF Runs
<1>3. ASSUME NEW s \in Runs, s \notin K, status[s] \notin {"none", "deleted"}
      PROVE  Cardinality(NewerThan(s)) >= Keep
  <2> DEFINE above == {t \in RunRows : t > s}
  <2>1. s \in RunRows
    BY <1>3 DEF TesterIInv, TesterTypeOK, Statuses, RunRows
  <2>2. ~ (Cardinality(above) < Keep)
    BY <1>3, <2>1 DEF NewestRows
  <2>3. above \in SUBSET Runs /\ NewerThan(s) \in SUBSET Runs /\ above \subseteq NewerThan(s)
    BY DEF RunRows, NewerThan
  <2> HIDE DEF above
  <2>4. Cardinality(above) >= Keep
    BY <2>2, <2>3, RunsFinite
  <2> QED BY <2>3, <2>4, StillEnough
<1> QED BY <1>1, <1>2, <1>3 DEF KeepsEnough

LEMMA FindStep ==
  ASSUME TesterIInv, NEW r \in Runs, FindRecent(r)
  PROVE  TesterIInv'
<1> DEFINE K == NewestRows(Keep)
<1>1. K \in SUBSET Runs /\ KeepsEnough(K)
  BY FoundEnough
<1>2. /\ worker[r].pc = "find"
      /\ \A s \in Runs : worker'[s] = IF s = r THEN [pc |-> "delete", keep |-> K] ELSE worker[s]
      /\ unpruned' = unpruned /\ crossed' = crossed /\ page' = page /\ status' = status
  BY DEF FindRecent, FindKept, SetWorker, WorkerAt, TesterIInv, TesterTypeOK, Histories
<1>3. worker' \in [Runs -> Worker]
  BY <1>1 DEF FindRecent, FindKept, SetWorker, TesterIInv, TesterTypeOK, Worker
<1> HIDE DEF K
<1>4. TesterTypeOK'
  BY <1>2, <1>3 DEF TesterIInv, TesterTypeOK
<1>5. WithOutcome' = WithOutcome /\ Created' = Created /\ \A s \in Runs : NewerThan(s)' = NewerThan(s)
  BY <1>2 DEF WithOutcome, RunRows, Created, NewerThan
<1>6. Pruning' = Pruning /\ Over' = Over
  BY <1>2 DEF Pruning, Over
<1>7. HistoryBounded' /\ CutShortOnce'
  BY <1>2, <1>5, <1>6 DEF TesterIInv, HistoryBounded, WithOutcome, Pruning, CutShortOnce
<1>8. LostToNewer' /\ CreatedInOrder' /\ WorkersHaveRows' /\ RunningRuns'
  BY <1>2, <1>5 DEF TesterIInv, LostToNewer, CreatedInOrder, WorkersHaveRows, RunningRuns, WorkerAt,
     NewerThan
<1>9. PruningsKeepEnough'
  <2> SUFFICES ASSUME NEW t \in Runs, WorkerAt(t, "delete")' PROVE KeepsEnough(worker[t].keep)'
    BY DEF PruningsKeepEnough
  <2>1. KeepsEnough(worker'[t].keep)
    BY <1>1, <1>2 DEF WorkerAt, TesterIInv, PruningsKeepEnough
  <2> QED BY <1>2, <1>5, <2>1 DEF KeepsEnough
<1>10. PageOK'
  BY <1>2 DEF TesterIInv, PageOK
<1> QED BY <1>4, <1>7, <1>8, <1>9, <1>10 DEF TesterIInv

\* The second query deletes rows with an outcome that the first has not found: what
\* it leaves of them is Keep at most, and what it deletes has Keep newer ones or was
\* above all the first has found.
LEMMA DeleteStep ==
  ASSUME TesterIInv, NEW r \in Runs, DeleteOld(r)
  PROVE  TesterIInv'
<1> DEFINE K == worker[r].keep
<1> DEFINE gone == Doomed(K)
<1>1. /\ worker[r].pc = "delete" /\ KeepsEnough(K) /\ K \in SUBSET Runs
      /\ \A s \in Runs : status'[s] = IF s \in gone THEN "deleted" ELSE status[s]
      /\ \A s \in Runs : worker'[s] = IF s = r THEN [pc |-> "over", keep |-> {}] ELSE worker[s]
      /\ crossed' = crossed \cup {s \in gone : \A k \in K : s > k}
      /\ unpruned' = unpruned /\ page' = page
  <2>1. worker[r].pc = "delete" /\ KeepsEnough(K)
    BY DEF DeleteOld, WorkerAt, TesterIInv, PruningsKeepEnough
  <2>2. \A s \in Runs : worker'[s] = IF s = r THEN [pc |-> "over", keep |-> {}] ELSE worker[s]
    BY DEF DeleteOld, SetWorker, WorkerOver, TesterIInv, TesterTypeOK
  <2>3. K \in SUBSET Runs
    BY DEF TesterIInv, TesterTypeOK, Worker
  <2> QED BY <2>1, <2>2, <2>3 DEF DeleteOld
<1>2. gone \in SUBSET Runs /\ \A s \in gone : s \notin K /\ status[s] \in {"SUCCESS", "FAILED"}
  BY DEF Doomed, RunRows, Terminal
<1>3. TesterTypeOK'
  BY <1>1, <1>2 DEF DeleteOld, SetWorker, WorkerOver, TesterIInv, TesterTypeOK, Statuses, Worker
<1>4. HistoryBounded'
  <2>1. WithOutcome' \in SUBSET K
    BY <1>1 DEF WithOutcome, RunRows, Terminal, Doomed
  <2>2. Cardinality(WithOutcome') <= Cardinality(K) /\ Cardinality(K) <= Keep
    BY <1>1, <2>1, NoMore DEF KeepsEnough
  <2>3. unpruned' \in Nat /\ Cardinality(Pruning') \in Nat
    BY <1>3, RunsFinite DEF TesterTypeOK, Pruning
  <2>4. Cardinality(WithOutcome') \in Nat /\ Cardinality(K) \in Nat /\ Keep \in Nat
    BY <1>1, <2>1, RunsFinite
  <2> HIDE DEF K
  <2>5. Cardinality(WithOutcome') <= Keep + unpruned' + Cardinality(Pruning')
    BY <2>2, <2>3, <2>4
  <2> QED BY <2>5 DEF HistoryBounded, WithOutcome, Pruning
<1>5. \A s \in Runs : status'[s] = "none" <=> status[s] = "none"
  BY <1>1, <1>2
<1>6. Created' = Created /\ \A s \in Runs : NewerThan(s)' = NewerThan(s)
  BY <1>5 DEF Created, NewerThan
<1>7. CreatedInOrder' /\ WorkersHaveRows'
  BY <1>1, <1>5, <1>6 DEF TesterIInv, CreatedInOrder, WorkersHaveRows, WorkerAt
<1>8. RunningRuns'
  BY <1>1, <1>2 DEF TesterIInv, RunningRuns, WorkerAt
<1>9. LostToNewer'
  <2> SUFFICES ASSUME NEW s \in Runs, status'[s] = "deleted"
               PROVE  /\ ~WorkerAt(s, "run")'
                      /\ s \in crossed' \/ Cardinality(NewerThan(s)') >= Keep
    BY DEF LostToNewer, NewerThan
  <2>1. ~WorkerAt(s, "run")'
    BY <1>8 DEF RunningRuns
  <2>2. CASE status[s] = "deleted"
    BY <1>1, <1>6, <2>1, <2>2 DEF TesterIInv, LostToNewer, NewerThan
  <2>3. CASE s \in gone /\ \A k \in K : s > k
    BY <1>1, <2>1, <2>3
  <2>4. CASE s \in gone /\ ~ \A k \in K : s > k
    <3>1. PICK k \in K : ~ (s > k)
      BY <2>4
    <3>2. k \in Int /\ s \in Int /\ k # s
      BY <1>1, <1>2, <2>4, <3>1, RunsFinite DEF Runs
    <3>3. k > s
      BY <3>1, <3>2
    <3>4. Cardinality(NewerThan(s)) >= Keep
      BY <1>1, <1>2, <2>4, <3>1, <3>3 DEF KeepsEnough
    <3> QED BY <1>6, <2>1, <3>4
  <2> QED BY <1>1, <2>2, <2>3, <2>4
<1>10. PruningsKeepEnough'
  <2> SUFFICES ASSUME NEW t \in Runs, WorkerAt(t, "delete")' PROVE KeepsEnough(worker[t].keep)'
    BY DEF PruningsKeepEnough
  <2>1. t # r /\ worker'[t] = worker[t] /\ KeepsEnough(worker[t].keep)
    BY <1>1 DEF WorkerAt, TesterIInv, PruningsKeepEnough
  <2>2. ASSUME NEW s \in Runs, NEW k \in worker[t].keep, k > s, s \notin worker[t].keep,
               status'[s] \notin {"none", "deleted"}
        PROVE  Cardinality(NewerThan(s)') >= Keep
    BY <1>1, <1>6, <2>1, <2>2 DEF KeepsEnough
  <2> QED BY <1>6, <2>1, <2>2 DEF KeepsEnough
<1>11. CutShortOnce'
  <2>1. Over \in SUBSET Over' /\ Over' \in SUBSET Runs
    BY <1>1 DEF Over
  <2>2. Cardinality(Over) <= Cardinality(Over') /\ Cardinality(Over) \in Nat /\ Cardinality(Over') \in Nat
    BY <2>1, NoMore, RunsFinite
  <2> QED BY <1>1, <2>2 DEF TesterIInv, TesterTypeOK, CutShortOnce
<1>12. PageOK'
  BY <1>1 DEF TesterIInv, PageOK
<1> QED BY <1>3, <1>4, <1>7, <1>8, <1>9, <1>10, <1>11, <1>12 DEF TesterIInv

\* A worker ends early: a pruning under way becomes one that was cut short.
LEMMA EndStep ==
  ASSUME TesterIInv, NEW r \in Runs, EndEarly(r)
  PROVE  TesterIInv'
<1>1. /\ worker[r].pc \in {"run", "find", "delete"}
      /\ \A s \in Runs : worker'[s] = IF s = r THEN [pc |-> "over", keep |-> {}] ELSE worker[s]
      /\ unpruned' = IF worker[r].pc = "run" THEN unpruned ELSE unpruned + 1
      /\ crossed' = crossed /\ page' = page /\ status' = status
      /\ unpruned \in Nat
  <2>1. \A s \in Runs : worker'[s] = IF s = r THEN [pc |-> "over", keep |-> {}] ELSE worker[s]
    BY DEF EndEarly, SetWorker, WorkerOver, TesterIInv, TesterTypeOK
  <2>2. unpruned \in Nat
    BY RunsFinite DEF TesterIInv, TesterTypeOK
  <2> QED BY <2>1, <2>2 DEF EndEarly, WorkerAt
<1>2. CutShortOnce' /\ unpruned' \in 0..MaxRuns
  <2>1. Over \in SUBSET Runs /\ Over' \in SUBSET Runs /\ r \in Over' /\ Over = Over' \ {r}
    BY <1>1 DEF Over
  <2>2. Cardinality(Over) = Cardinality(Over') - 1
    BY <2>1, OneLess
  <2>3. Cardinality(Over) \in 0..MaxRuns /\ Cardinality(Over') \in 0..MaxRuns /\ MaxRuns \in Nat
    BY <2>1, RunsFinite
  <2>4. unpruned <= Cardinality(Over)
    BY DEF TesterIInv, CutShortOnce
  <2>5. unpruned' <= Cardinality(Over') /\ unpruned' \in 0..MaxRuns
    BY <1>1, <2>2, <2>3, <2>4
  <2> QED BY <2>5 DEF CutShortOnce
<1>3. TesterTypeOK'
  BY <1>1, <1>2 DEF EndEarly, SetWorker, WorkerOver, TesterIInv, TesterTypeOK, Worker
<1>4. WithOutcome' = WithOutcome /\ Created' = Created /\ \A s \in Runs : NewerThan(s)' = NewerThan(s)
  BY <1>1 DEF WithOutcome, RunRows, Created, NewerThan
<1>5. HistoryBounded'
  <2>1. /\ Cardinality(WithOutcome) <= Keep + unpruned + Cardinality(Pruning)
        /\ Cardinality(WithOutcome) \in Nat /\ Cardinality(Pruning) \in Nat /\ Keep \in Nat
    BY RunsFinite DEF TesterIInv, HistoryBounded, WithOutcome, RunRows, Pruning
  <2>2. CASE worker[r].pc = "run"
    <3>1. Pruning' = Pruning
      BY <1>1, <2>2 DEF Pruning
    <3>2. Cardinality(WithOutcome') <= Keep + unpruned' + Cardinality(Pruning')
      BY <1>1, <1>4, <2>1, <2>2, <3>1
    <3> QED BY <3>2 DEF HistoryBounded, WithOutcome, Pruning
  <2>3. CASE worker[r].pc # "run"
    <3>1. Pruning \in SUBSET Runs /\ r \in Pruning /\ Pruning' = Pruning \ {r}
      BY <1>1, <2>3 DEF Pruning
    <3>2. Cardinality(Pruning') = Cardinality(Pruning) - 1
      BY <3>1, OneLess
    <3>3. Cardinality(WithOutcome') <= Keep + unpruned' + Cardinality(Pruning')
      BY <1>1, <1>4, <2>1, <2>3, <3>2
    <3> QED BY <3>3 DEF HistoryBounded, WithOutcome, Pruning
  <2> QED BY <2>2, <2>3
<1>6. LostToNewer' /\ CreatedInOrder' /\ WorkersHaveRows' /\ RunningRuns'
  BY <1>1, <1>4 DEF TesterIInv, LostToNewer, CreatedInOrder, WorkersHaveRows, RunningRuns, WorkerAt,
     NewerThan
<1>7. PruningsKeepEnough'
  <2> SUFFICES ASSUME NEW t \in Runs, WorkerAt(t, "delete")' PROVE KeepsEnough(worker[t].keep)'
    BY DEF PruningsKeepEnough
  <2>1. worker'[t] = worker[t] /\ KeepsEnough(worker'[t].keep)
    BY <1>1 DEF WorkerAt, TesterIInv, PruningsKeepEnough
  <2> QED BY <1>1, <1>4, <2>1 DEF KeepsEnough
<1>8. PageOK'
  BY <1>1 DEF TesterIInv, PageOK
<1> QED BY <1>2, <1>3, <1>5, <1>6, <1>7, <1>8 DEF TesterIInv
\* What the page does, each by itself: its type, and what it shows.
LEMMA PageTypes ==
  ASSUME TesterIInv
  PROVE  /\ page \in TesterPage /\ Listed \in SUBSET Runs
         /\ \A r \in Runs : Unless(r) \in 0..MaxRuns /\ r \in 0..MaxRuns
         /\ page.asked \in SUBSET Runs /\ page.listed \in SUBSET Runs
<1>1. page \in TesterPage
  BY DEF TesterIInv, TesterTypeOK
<1>2. Listed \in SUBSET Runs
  BY DEF Listed, NewestRows, RunRows
<1>3. \A r \in Runs : Unless(r) \in 0..MaxRuns /\ r \in 0..MaxRuns
  BY <1>1, RunsFinite DEF Unless, TesterPage, Runs
<1> QED BY <1>1, <1>2, <1>3 DEF TesterPage

LEMMA AskStep ==
  ASSUME TesterIInv, NEW r \in Runs, AskForRun(r)
  PROVE  TesterIInv'
<1>1. page' \in TesterPage /\ PageOK'
  BY PageTypes DEF AskForRun, SetPage, TesterPage, PageOK, TesterIInv
<1> QED BY <1>1, CreateStep DEF AskForRun

LEMMA ReplyStep ==
  ASSUME TesterIInv, NEW r \in Runs, ReplyToRun(r)
  PROVE  TesterIInv'
<1>1. page' = OnSuccess(r) /\ 0 \in 0..MaxRuns
  BY RunsFinite DEF ReplyToRun, SetPage
<1>2. page' \in TesterPage
  BY <1>1, PageTypes DEF OnSuccess, TesterPage
<1>3. PageOK'
  BY <1>1, PageTypes DEF OnSuccess, TesterPage, PageOK
<1> QED BY <1>2, <1>3, PageStep DEF ReplyToRun

LEMMA ReplyLostStep ==
  ASSUME TesterIInv, NEW r \in Runs, ReplyLost(r)
  PROVE  TesterIInv'
<1>1. page' \in TesterPage /\ PageOK'
  BY PageTypes DEF ReplyLost, SetPage, TesterPage, PageOK, TesterIInv
<1> QED BY <1>1, PageStep DEF ReplyLost

LEMMA LoadStep ==
  ASSUME TesterIInv, NEW r \in Runs, LoadRun(r)
  PROVE  TesterIInv'
<1>1. r \in 0..MaxRuns /\ r # 0 /\ 0 \in 0..MaxRuns
  BY RunsFinite DEF Runs
<1>2. page' \in TesterPage
  BY <1>1, PageTypes DEF LoadRun, SetPage, TesterPage
<1>3. PageOK'
  BY <1>1, PageTypes DEF LoadRun, SetPage, TesterPage, PageOK
<1> QED BY <1>2, <1>3, PageStep DEF LoadRun

\* (A poll asks for a run the page follows: its row is there.)
LEMMA PollStep ==
  ASSUME TesterIInv, Poll
  PROVE  TesterIInv'
<1>1. status[page.active] \in {"RUNNING", "SUCCESS", "FAILED", "none"}
  <2>1. page.active \in Runs
    BY PageTypes, RunsFinite DEF Poll, TesterPage, Runs
  <2> QED BY <2>1 DEF Poll, TesterIInv, TesterTypeOK, Statuses
<1>2. page' \in TesterPage /\ PageOK'
  BY <1>1, PageTypes DEF Poll, SetPage, TesterPage, PageOK, TesterIInv
<1> QED BY <1>2, PageStep DEF Poll

LEMMA OtherPageSteps ==
  ASSUME TesterIInv, AskInVain \/ Stall \/ Selected \/ Reset \/ Reload
  PROVE  TesterIInv'
<1>1. CASE AskInVain
  <2>1. page' \in TesterPage /\ PageOK'
    BY <1>1, PageTypes DEF AskInVain, SetPage, TesterPage, PageOK, TesterIInv
  <2> QED BY <1>1, <2>1, PageStep DEF AskInVain
<1>2. CASE Stall
  <2>1. page' \in TesterPage /\ PageOK'
    BY <1>2, PageTypes DEF Stall, SetPage, TesterPage, PageOK, TesterIInv
  <2> QED BY <1>2, <2>1, PageStep DEF Stall
<1>3. CASE Selected
  <2>1. page' \in TesterPage /\ PageOK'
    BY <1>3, PageTypes DEF Selected, SetPage, TesterPage, PageOK, TesterIInv
  <2> QED BY <1>3, <2>1, PageStep DEF Selected
<1>4. CASE Reset
  <2>1. page' \in TesterPage /\ PageOK'
    BY <1>4, PageTypes, RunsFinite DEF Reset, SetPage, TesterPage, PageOK, TesterIInv
  <2> QED BY <1>4, <2>1, PageStep DEF Reset
<1>5. CASE Reload
  <2>1. page' \in TesterPage /\ PageOK'
    BY <1>5, PageTypes, RunsFinite DEF Reload, NewPage, SetPage, TesterPage, PageOK, TesterIInv
  <2> QED BY <1>5, <2>1, PageStep DEF Reload
<1> QED BY <1>1, <1>2, <1>3, <1>4, <1>5

LEMMA TesterStep == ASSUME TesterIInv, [TesterNext]_testerVars PROVE TesterIInv'
<1>1. ASSUME NEW r \in Runs, CreateElsewhere(r) PROVE TesterIInv'
  <2>1. page' \in TesterPage /\ PageOK'
    BY <1>1 DEF CreateElsewhere, TesterIInv, TesterTypeOK, PageOK
  <2> QED BY <1>1, <2>1, CreateStep DEF CreateElsewhere
<1>2. ASSUME NEW r \in Runs, FindRecent(r) \/ DeleteOld(r) \/ EndEarly(r) PROVE TesterIInv'
  BY <1>2, FindStep, DeleteStep, EndStep
<1>3. ASSUME NEW r \in Runs, NEW outcome \in {"SUCCESS", "FAILED", "RUNNING"}, Finish(r, outcome)
      PROVE  TesterIInv'
  BY <1>3, FinishStep
<1>4. ASSUME NEW r \in Runs, AskForRun(r) \/ ReplyToRun(r) \/ ReplyLost(r) \/ LoadRun(r)
      PROVE  TesterIInv'
  BY <1>4, AskStep, ReplyStep, ReplyLostStep, LoadStep
<1>5. CASE UNCHANGED testerVars
  <2>1. UNCHANGED Server /\ page' \in TesterPage /\ PageOK'
    BY <1>5 DEF testerVars, Server, TesterIInv, TesterTypeOK, PageOK
  <2> QED BY <2>1, PageStep
<1> QED BY <1>1, <1>2, <1>3, <1>4, <1>5, PollStep, OtherPageSteps DEF TesterNext

\* The trace in front is that of the run followed, or of one chosen, or the chosen
\* one's has not come.
LEMMA ShownRun == ASSUME TesterIInv PROVE ShowsItsRun
BY DEF TesterIInv, PageOK, ShowsItsRun, Displayed

\* Rows with an outcome stay bounded by Keep and the prunings under way, failed or
\* cut short (MAX_PIPELINE_RUNS, prunePipelineRuns), a run is lost only to Keep newer
\* ones and not under its own worker, and the page shows no run's trace for another's:
\* for any number of runs, of overlapping prunings and of rows kept.
THEOREM TesterCorrect == TesterSpec => []TesterInv
<1>1. TesterInit => TesterIInv
  BY TesterStart
<1>2. TesterIInv /\ [TesterNext]_testerVars => TesterIInv'
  BY TesterStep
<1>3. TesterIInv => TesterInv
  BY ShownRun DEF TesterIInv, TesterInv
<1> QED BY <1>1, <1>2, <1>3, PTL DEF TesterSpec
-----------------------------------------------------------------------------
(* The history page: pages that are read while conversations move, for any *)
(* conversations, page size and order of updates                           *)

\* Pages read so far, and where the next one starts: no conversation is on two, none
\* has a later key than it has now, none is below the cursor; and of those that are
\* on none, the ones not updated since the first was read are below the cursor.
LoadedOK(l) ==
  /\ l.pages = <<>> => l.cursor = NoCursor
  /\ l.pages # <<>> => l.since <= now
  /\ \A i \in 1..Len(l.pages) : \A k \in l.pages[i] :
       k[1] <= stored[k[2]].at /\ (l.cursor # NoCursor => ~Below(k, l.cursor))
  /\ \A i, j \in 1..Len(l.pages) : i # j => Ids(l.pages[i]) \cap Ids(l.pages[j]) = {}
  /\ l.pages # <<>> => \A c \in Items :
       stored[c].here /\ MatchesMode(c) /\ (\A i \in 1..Len(l.pages) : c \notin Ids(l.pages[i]))
         => \/ stored[c].at >= l.since
            \/ l.cursor # NoCursor /\ Below(KeyOf(c), l.cursor)

NoneLater == \A c \in Items : stored[c].at <= now

HistoryIInv == HistoryTypeOK /\ NoneLater /\ LoadedOK(list) /\ LoadedOK(refetch.got)

\* The order of the keys of conversations.
LEMMA KeysOrdered ==
  ASSUME HistoryTypeOK
  PROVE  /\ \A c \in Items : KeyOf(c) \in Key /\ c \in Int /\ stored[c].at \in 0..MaxNow
         /\ \A c, d \in Items : Below(KeyOf(c), KeyOf(d)) <=>
              stored[c].at < stored[d].at \/ (stored[c].at = stored[d].at /\ c < d)
         /\ \A k \in Key : k # NoCursor /\ k[1] \in 0..MaxNow /\ k[2] \in Items
         /\ NoCursor \notin Key /\ IsFiniteSet(Items) /\ MaxNow \in Nat /\ PageSize \in Nat /\ PageSize > 0
<1>1. /\ IsFiniteSet(Items) /\ Items \subseteq Nat /\ MaxNow \in Nat /\ PageSize \in Nat /\ PageSize > 0
  BY HistoryAssumption
<1>2. \A c \in Items : stored[c].at \in 0..MaxNow
  BY DEF HistoryTypeOK
<1>3. \A c, d \in Items : Below(KeyOf(c), KeyOf(d)) <=>
        stored[c].at < stored[d].at \/ (stored[c].at = stored[d].at /\ c < d)
  BY DEF Below, KeyOf
<1>4. \A k \in Key : k[1] \in 0..MaxNow /\ k[2] \in Items
  BY DEF Key
<1>5. \A k \in Key : k # NoCursor
  BY <1>4, <1>1 DEF NoCursor
<1>6. \A c \in Items : KeyOf(c) \in Key
  BY <1>2 DEF KeyOf, Key
<1> QED BY <1>1, <1>2, <1>3, <1>4, <1>5, <1>6

LEMMA KeysLinear ==
  ASSUME HistoryTypeOK
  PROVE  /\ \A c, d, e \in Items : Below(KeyOf(c), KeyOf(d)) /\ Below(KeyOf(d), KeyOf(e)) => Below(KeyOf(c), KeyOf(e))
         /\ \A c \in Items : ~Below(KeyOf(c), KeyOf(c))
         /\ \A c, d \in Items : c # d => Below(KeyOf(c), KeyOf(d)) \/ Below(KeyOf(d), KeyOf(c))
<1>1. \A c \in Items : c \in Int /\ stored[c].at \in Int
  BY KeysOrdered
<1> QED BY <1>1, KeysOrdered

\* Of some conversations one is above none of the others, and one below none.
LEMMA LastItem ==
  ASSUME HistoryTypeOK, NEW C \in SUBSET Items, C # {}
  PROVE  \E m \in C : \A c \in C : ~Below(KeyOf(c), KeyOf(m))
<1> DEFINE R == {p \in C \X C : Below(KeyOf(p[1]), KeyOf(p[2]))}
<1>1. IsFiniteSet(C)
  BY KeysOrdered, FS_Subset
<1>2. \A a, b \in C : <<a, b>> \in R <=> Below(KeyOf(a), KeyOf(b))
  OBVIOUS
<1> HIDE DEF R
<1>3. /\ \A a, b, c \in C : <<a, b>> \in R /\ <<b, c>> \in R => <<a, c>> \in R
      /\ \A a \in C : <<a, a>> \notin R
  BY <1>2, KeysLinear
<1>4. PICK m \in C : \A a \in C : <<a, m>> \notin R
  BY <1>1, <1>3, MinimalOf
<1> QED BY <1>2, <1>4

LEMMA FirstItem ==
  ASSUME HistoryTypeOK, NEW C \in SUBSET Items, C # {}
  PROVE  \E m \in C : \A c \in C : ~Below(KeyOf(m), KeyOf(c))
<1> DEFINE R == {p \in C \X C : Below(KeyOf(p[2]), KeyOf(p[1]))}
<1>1. IsFiniteSet(C)
  BY KeysOrdered, FS_Subset
<1>2. \A a, b \in C : <<a, b>> \in R <=> Below(KeyOf(b), KeyOf(a))
  OBVIOUS
<1> HIDE DEF R
<1>3. /\ \A a, b, c \in C : <<a, b>> \in R /\ <<b, c>> \in R => <<a, c>> \in R
      /\ \A a \in C : <<a, a>> \notin R
  BY <1>2, KeysLinear
<1>4. PICK m \in C : \A a \in C : <<a, m>> \notin R
  BY <1>1, <1>3, MinimalOf
<1> QED BY <1>2, <1>4
\* A page holds the first ones after the cursor; the next cursor is the last of them,
\* and what the page leaves over is below that.
LEMMA PageIs ==
  ASSUME HistoryTypeOK, NEW cursor
  PROVE  /\ After(cursor) \subseteq Items /\ Page(cursor) \subseteq After(cursor)
         /\ Page(cursor) = After(cursor) => NextCursor(cursor) = NoCursor
         /\ Page(cursor) # After(cursor) =>
              \E last \in Page(cursor) :
                /\ NextCursor(cursor) = KeyOf(last)
                /\ \A c \in Page(cursor) : ~Below(KeyOf(c), KeyOf(last))
                /\ \A c \in After(cursor) \ Page(cursor) : Below(KeyOf(c), KeyOf(last))
<1> DEFINE A == After(cursor)
<1> DEFINE above(c) == {d \in A : Below(KeyOf(c), KeyOf(d))}
<1> DEFINE P == Page(cursor)
<1>1. A \subseteq Items /\ P \subseteq A
  BY DEF After, Page
<1>2. \A c \in A : c \in P <=> Cardinality(above(c)) < PageSize
  BY DEF Page
<1>3. \A c \in A : IsFiniteSet(above(c)) /\ Cardinality(above(c)) \in Nat
  <2> SUFFICES ASSUME NEW c \in A PROVE IsFiniteSet(above(c)) /\ Cardinality(above(c)) \in Nat
    OBVIOUS
  <2>1. above(c) \subseteq Items
    BY <1>1
  <2> HIDE DEF above
  <2> QED BY <2>1, KeysOrdered, FS_Subset, FS_CardinalityType
<1>4. ASSUME NEW c \in A, NEW d \in P, Below(KeyOf(d), KeyOf(c)) PROVE c \in P
  <2>1. above(c) \subseteq above(d)
    BY <1>1, <1>4, KeysLinear
  <2>2. /\ IsFiniteSet(above(d)) /\ Cardinality(above(c)) \in Nat /\ Cardinality(above(d)) \in Nat
        /\ Cardinality(above(d)) < PageSize /\ PageSize \in Nat
    BY <1>1, <1>2, <1>3, KeysOrdered
  <2>3. Cardinality(above(c)) <= Cardinality(above(d))
    BY <2>1, <2>2, FS_Subset
  <2>4. Cardinality(above(c)) < PageSize
    BY <2>2, <2>3
  <2> QED BY <1>2, <2>4
<1>5. CASE P = A
  BY <1>1, <1>5 DEF NextCursor
<1>6. CASE P # A
  <2>1. A # {}
    BY <1>1, <1>6
  <2>2. PICK first \in A : \A c \in A : ~Below(KeyOf(first), KeyOf(c))
    <3> HIDE DEF A
    <3> QED BY <1>1, <2>1, FirstItem
  <2>3. above(first) = {}
    BY <2>2
  <2>4. Cardinality(above(first)) = 0
    BY <2>3, FS_EmptySet
  <2>5. P # {} /\ P \in SUBSET Items
    BY <1>1, <1>2, <2>2, <2>4, KeysOrdered
  <2>6. \E last \in P : \A c \in P : ~Below(KeyOf(c), KeyOf(last))
    <3> HIDE DEF P
    <3> QED BY <2>5, LastItem
  <2>7. PICK last \in P : /\ NextCursor(cursor) = KeyOf(last)
                          /\ \A c \in P : ~Below(KeyOf(c), KeyOf(last))
    BY <1>6, <2>6 DEF NextCursor
  <2>8. ASSUME NEW c \in A \ P PROVE Below(KeyOf(c), KeyOf(last))
    BY <1>1, <1>4, <2>7, <2>8, KeysLinear
  <2> QED BY <1>1, <1>6, <2>7, <2>8
<1> QED BY <1>5, <1>6

\* One page more.
LEMMA NextPageOK ==
  ASSUME HistoryTypeOK, NoneLater
  PROVE  \A l \in Loaded : LoadedOK(l) /\ HasNext(l) =>
           /\ WithPage(l) \in Loaded /\ LoadedOK(WithPage(l))
           /\ WithPage(l).pages # <<>>
<1> SUFFICES ASSUME NEW l \in Loaded, LoadedOK(l), HasNext(l)
             PROVE  WithPage(l) \in Loaded /\ LoadedOK(WithPage(l)) /\ WithPage(l).pages # <<>>
  OBVIOUS
<1> DEFINE P == Page(l.cursor)
<1> DEFINE A == After(l.cursor)
<1> DEFINE new == {KeyOf(c) : c \in P}
<1> DEFINE w == WithPage(l)
<1> DEFINE n == Len(l.pages)
<1>1. /\ l.pages \in Seq(SUBSET Key) /\ l.cursor \in Key \cup {NoCursor} /\ l.since \in 0..MaxNow
      /\ now \in 0..MaxNow
      /\ l.pages = <<>> => l.cursor = NoCursor
      /\ l.pages # <<>> => l.cursor \in Key
  BY DEF Loaded, LoadedOK, HasNext, HistoryTypeOK
<1>2. P \subseteq A /\ A \subseteq Items /\ new \subseteq Key
  BY PageIs, KeysOrdered
<1>3. /\ n \in Nat /\ w.pages = Append(l.pages, new) /\ w.cursor = NextCursor(l.cursor)
      /\ w.since = IF l.pages = <<>> THEN now ELSE l.since
  BY <1>1 DEF WithPage
<1>4. /\ w.pages \in Seq(SUBSET Key) /\ w.pages # <<>> /\ Len(w.pages) = n + 1
      /\ \A i \in 1..n : w.pages[i] = l.pages[i] /\ l.pages[i] \in SUBSET Key
      /\ w.pages[n + 1] = new
  BY <1>1, <1>2, <1>3
<1>5. /\ \A c \in P : KeyOf(c) \in new
      /\ \A k \in new : \E c \in P : k = KeyOf(c)
      /\ \A c : KeyOf(c)[2] = c /\ KeyOf(c)[1] = stored[c].at
  BY DEF KeyOf
<1>6. w.cursor \in Key \cup {NoCursor}
  BY <1>2, <1>3, PageIs, KeysOrdered
<1>7. w \in Loaded
  BY <1>1, <1>3, <1>4, <1>6 DEF WithPage, Loaded
<1>8. w.since <= now
  BY <1>1, <1>3 DEF LoadedOK
<1>9. \A i \in 1..(n + 1) : i \in 1..n \/ i = n + 1
  BY <1>3
<1>10. ASSUME l.pages # <<>>, NEW c \in A PROVE Below(KeyOf(c), l.cursor)
  BY <1>1, <1>10, KeysOrdered DEF After
<1>11. n > 0 => l.pages # <<>>
  BY <1>1
<1> HIDE DEF w, new, P, A, n
<1>12. ASSUME NEW i \in 1..(n + 1), NEW k \in w.pages[i]
       PROVE  k[1] <= stored[k[2]].at /\ (w.cursor # NoCursor => ~Below(k, w.cursor))
  <2>1. CASE i = n + 1
    <3>1. PICK c \in P : k = KeyOf(c)
      BY <1>4, <1>5, <1>12, <2>1
    <3>2. k[1] = stored[k[2]].at /\ k[1] \in Int
      BY <1>2, <1>5, <3>1, KeysOrdered
    <3>3. w.cursor # NoCursor => ~Below(k, w.cursor)
      BY <1>3, <3>1, PageIs DEF P, A
    <3> QED BY <3>2, <3>3
  <2>2. CASE i \in 1..n
    <3>1. n > 0 /\ l.pages # <<>> /\ l.cursor \in Key /\ k \in l.pages[i] /\ k \in Key
      BY <1>1, <1>3, <1>4, <1>11, <1>12, <2>2
    <3>2. k[1] <= stored[k[2]].at /\ ~Below(k, l.cursor)
      BY <2>2, <3>1, KeysOrdered DEF LoadedOK, n
    <3>3. ASSUME w.cursor # NoCursor, Below(k, w.cursor) PROVE FALSE
      <4>1. PICK last \in P : w.cursor = KeyOf(last)
        BY <1>3, <3>3, PageIs DEF P, A
      <4>2. Below(KeyOf(last), l.cursor)
        BY <1>2, <1>10, <3>1
      <4>3. KeyOf(last) \in Key
        BY <1>2, KeysOrdered
      <4>4. /\ k[1] \in Int /\ k[2] \in Int /\ KeyOf(last)[1] \in Int /\ KeyOf(last)[2] \in Int
            /\ l.cursor[1] \in Int /\ l.cursor[2] \in Int
        BY <3>1, <4>3, KeysOrdered
      <4> QED BY <3>2, <3>3, <4>1, <4>2, <4>4 DEF Below
    <3> QED BY <3>2, <3>3
  <2> QED BY <1>9, <2>1, <2>2
<1>13. ASSUME NEW i \in 1..n PROVE Ids(l.pages[i]) \cap Ids(new) = {}
  <2> SUFFICES ASSUME NEW k \in l.pages[i], NEW c \in P, k[2] = c PROVE FALSE
    BY <1>5 DEF Ids
  <2>1. l.pages # <<>> /\ l.cursor \in Key /\ k \in Key
    BY <1>1, <1>3, <1>4, <1>11
  <2>2. k[1] <= stored[c].at /\ ~Below(k, l.cursor)
    BY <2>1, KeysOrdered DEF LoadedOK, n
  <2>3. Below(KeyOf(c), l.cursor)
    BY <1>2, <1>10, <2>1
  <2>4. k[1] \in Int /\ c \in Int /\ stored[c].at \in Int /\ l.cursor[1] \in Int /\ l.cursor[2] \in Int
    BY <1>2, <2>1, KeysOrdered
  <2>5. stored[c].at < l.cursor[1] \/ (stored[c].at = l.cursor[1] /\ c < l.cursor[2])
    BY <1>5, <2>3 DEF Below
  <2> QED BY <2>2, <2>4, <2>5 DEF Below
<1>14. ASSUME NEW i \in 1..(n + 1), NEW j \in 1..(n + 1), i # j
       PROVE  Ids(w.pages[i]) \cap Ids(w.pages[j]) = {}
  <2>1. CASE i \in 1..n /\ j \in 1..n
    BY <1>4, <1>14, <2>1 DEF LoadedOK, n
  <2>2. CASE i \in 1..n /\ j = n + 1
    BY <1>4, <1>13, <2>2
  <2>3. CASE j \in 1..n /\ i = n + 1
    BY <1>4, <1>13, <2>3
  <2> QED BY <1>9, <1>14, <2>1, <2>2, <2>3
<1>15. ASSUME NEW c \in Items, stored[c].here, MatchesMode(c),
              \A i \in 1..(n + 1) : c \notin Ids(w.pages[i])
       PROVE  \/ stored[c].at >= w.since
              \/ w.cursor # NoCursor /\ Below(KeyOf(c), w.cursor)
  <2>1. c \notin P
    <3>1. n + 1 \in 1..(n + 1)
      BY <1>3
    <3> QED BY <1>4, <1>5, <1>15, <3>1 DEF Ids
  <2>2. CASE c \in A
    <3>1. P # A
      BY <2>1, <2>2
    <3>2. PICK last \in P : w.cursor = KeyOf(last) /\ Below(KeyOf(c), KeyOf(last))
      BY <1>3, <2>1, <2>2, <3>1, PageIs DEF P, A
    <3> QED BY <1>2, <3>2, KeysOrdered
  <2>3. CASE c \notin A
    <3>1. l.cursor # NoCursor /\ ~Below(KeyOf(c), l.cursor)
      BY <1>15, <2>3 DEF A, After
    <3>2. l.pages # <<>>
      BY <1>1, <3>1
    <3>3. ASSUME NEW i \in 1..n PROVE c \notin Ids(l.pages[i])
      <4>1. i \in 1..(n + 1) /\ w.pages[i] = l.pages[i]
        BY <1>3, <1>4
      <4> QED BY <1>15, <4>1
    <3> QED BY <1>3, <1>15, <3>1, <3>2, <3>3 DEF LoadedOK, n
  <2> QED BY <2>2, <2>3
<1>16. LoadedOK(w)
  BY <1>4, <1>8, <1>12, <1>14, <1>15 DEF LoadedOK
<1> QED BY <1>4, <1>7, <1>16 DEF w
LEMMA NothingLoaded ==
  ASSUME HistoryTypeOK
  PROVE  Unloaded \in Loaded /\ LoadedOK(Unloaded) /\ NoRefetch \in [left : Nat, got : Loaded]
<1>1. Unloaded \in Loaded
  BY KeysOrdered DEF Unloaded, Loaded
<1>2. Unloaded.pages = <<>> /\ Unloaded.cursor = NoCursor /\ Len(Unloaded.pages) = 0
  BY DEF Unloaded
<1>3. LoadedOK(Unloaded)
  BY <1>2 DEF LoadedOK
<1> QED BY <1>1, <1>3 DEF NoRefetch

\* Rows that stay as they are leave what was loaded as good as it was ...
LEMMA RowsStay ==
  ASSUME UNCHANGED Rows, filter'.mode = filter.mode, NoneLater
  PROVE  NoneLater' /\ \A l : LoadedOK(l) => LoadedOK(l)'
BY DEF Rows, NoneLater, LoadedOK, KeyOf, MatchesMode

\* ... also under another filter if nothing was loaded.
LEMMA RowsStayUnloaded ==
  ASSUME UNCHANGED Rows, NoneLater
  PROVE  NoneLater' /\ LoadedOK(Unloaded)'
<1>1. Unloaded.pages = <<>> /\ Unloaded.cursor = NoCursor /\ Len(Unloaded.pages) = 0
  BY DEF Unloaded
<1>2. LoadedOK(Unloaded)'
  BY <1>1 DEF LoadedOK
<1> QED BY <1>2 DEF Rows, NoneLater

\* Rows that are updated move to the top, above all that was loaded.
LEMMA UpdateStep ==
  ASSUME HistoryTypeOK, NoneLater, NEW S \in SUBSET Items, NEW here \in BOOLEAN, Update(S, here),
         filter' = filter
  PROVE  /\ stored' \in [Items -> [at : 0..MaxNow, here : BOOLEAN]] /\ now' \in 0..MaxNow
         /\ NoneLater' /\ \A l \in Loaded : LoadedOK(l) => LoadedOK(l)'
<1>1. PICK at \in {now, now + 1} \cap (0..MaxNow) :
        /\ now' = at
        /\ stored' = [c \in Items |-> IF c \in S THEN [at |-> at, here |-> here] ELSE stored[c]]
  BY DEF Update
<1>2. now \in 0..MaxNow /\ MaxNow \in Nat /\ at \in 0..MaxNow /\ now <= at /\ now <= now'
  BY <1>1, KeysOrdered DEF HistoryTypeOK
<1>3. \A c \in Items : stored[c].at <= now /\ stored[c].at \in Int
  BY KeysOrdered DEF NoneLater
<1>4. /\ \A c \in S : stored'[c].at = at
      /\ \A c \in Items \ S : stored'[c] = stored[c]
  BY <1>1
<1>5. stored' \in [Items -> [at : 0..MaxNow, here : BOOLEAN]] /\ now' \in 0..MaxNow
  BY <1>1, <1>2 DEF HistoryTypeOK
<1>6. \A c \in Items : stored[c].at <= stored'[c].at /\ stored'[c].at <= now' /\ stored'[c].at \in Int
  BY <1>1, <1>2, <1>3, <1>4
<1>7. ASSUME NEW l \in Loaded, LoadedOK(l) PROVE LoadedOK(l)'
  <2>1. /\ l.pages \in Seq(SUBSET Key) /\ l.since \in 0..MaxNow
        /\ \A i \in 1..Len(l.pages) : l.pages[i] \in SUBSET Key
    BY DEF Loaded
  <2>2. l.pages # <<>> => l.since <= now /\ l.since <= now'
    <3>1. l.pages # <<>> => l.since <= now
      BY <1>7 DEF LoadedOK
    <3>2. l.since \in Int /\ now \in Int /\ now' \in Int /\ now <= now'
      BY <1>1, <1>2, <2>1
    <3> QED BY <3>1, <3>2
  <2>3. ASSUME NEW i \in 1..Len(l.pages), NEW k \in l.pages[i]
        PROVE  k[1] <= stored'[k[2]].at /\ (l.cursor # NoCursor => ~Below(k, l.cursor))
    <3>1. k \in Key /\ k[1] \in Int /\ k[2] \in Items
      BY <2>1, KeysOrdered
    <3>2. k[1] <= stored[k[2]].at /\ (l.cursor # NoCursor => ~Below(k, l.cursor))
      BY <1>7 DEF LoadedOK
    <3> QED BY <1>3, <1>6, <3>1, <3>2
  <2>4. ASSUME l.pages # <<>>, NEW c \in Items, stored'[c].here, MatchesMode(c)',
               \A i \in 1..Len(l.pages) : c \notin Ids(l.pages[i])
        PROVE  \/ stored'[c].at >= l.since
               \/ l.cursor # NoCursor /\ Below(KeyOf(c)', l.cursor)
    <3>1. CASE c \in S
      BY <1>1, <1>2, <1>4, <2>1, <2>2, <2>4, <3>1
    <3>2. CASE c \notin S
      <4>1. stored'[c] = stored[c] /\ KeyOf(c)' = KeyOf(c) /\ MatchesMode(c)
        BY <1>4, <2>4, <3>2 DEF KeyOf, MatchesMode
      <4> QED BY <1>7, <2>4, <4>1 DEF LoadedOK
    <3> QED BY <3>1, <3>2
  <2> QED BY <1>7, <2>2, <2>3, <2>4 DEF LoadedOK
<1> QED BY <1>5, <1>6, <1>7 DEF NoneLater

\* Put together from its parts.
LEMMA HistoryParts ==
  HistoryIInv <=>
    /\ stored \in [Items -> [at : 0..MaxNow, here : BOOLEAN]] /\ now \in 0..MaxNow
    /\ list \in Loaded /\ refetch \in [left : Nat, got : Loaded]
    /\ filter \in [mode : Modes, recent : BOOLEAN] /\ picked \in [on : BOOLEAN, ids : SUBSET Items]
    /\ confirm \in BOOLEAN /\ undo \subseteq Items /\ preview \in {{}} \cup {{c} : c \in Items}
    /\ NoneLater /\ LoadedOK(list) /\ LoadedOK(refetch.got)
BY DEF HistoryIInv, HistoryTypeOK

LEMMA HistoryStart == ASSUME HistoryInit PROVE HistoryIInv
<1>1. MaxNow \in Nat /\ MaxNow # 0
  BY HistoryAssumption
<1>2. now \in 0..MaxNow /\ stored \in [Items -> [at : 0..MaxNow, here : BOOLEAN]]
  <2>1. now \in 0..MaxNow
    BY <1>1 DEF HistoryInit
  <2>2. [at : {0, 1} \cap (0..MaxNow), here : {TRUE}] \subseteq [at : 0..MaxNow, here : BOOLEAN]
    OBVIOUS
  <2> QED BY <2>1, <2>2 DEF HistoryInit
<1>3. Unloaded \in Loaded
  BY <1>1 DEF Unloaded, Loaded
<1>4. HistoryTypeOK
  BY <1>2, <1>3 DEF HistoryInit, HistoryTypeOK, NoRefetch, Modes
<1>5. NoneLater
  <2>1. \A c \in Items : stored[c].at \in {0, 1}
    BY DEF HistoryInit
  <2> QED BY <2>1 DEF HistoryInit, NoneLater
<1>6. list = Unloaded /\ refetch.got = Unloaded
  BY DEF HistoryInit, NoRefetch
<1> QED BY <1>4, <1>5, <1>6, NothingLoaded DEF HistoryIInv
\* A step that updates no row and keeps the mode.
LEMMA QuietStep ==
  ASSUME HistoryIInv, UNCHANGED Rows, filter'.mode = filter.mode,
         \/ list' \in {list, Unloaded, refetch.got}
         \/ HasNext(list) /\ list' = WithPage(list),
         \/ refetch' \in {refetch, NoRefetch}
         \/ /\ refetch.left > 0 /\ HasNext(refetch.got)
            /\ refetch' = [left |-> refetch.left - 1, got |-> WithPage(refetch.got)]
  PROVE  /\ stored' \in [Items -> [at : 0..MaxNow, here : BOOLEAN]] /\ now' \in 0..MaxNow
         /\ list' \in Loaded /\ refetch' \in [left : Nat, got : Loaded]
         /\ NoneLater' /\ LoadedOK(list)' /\ LoadedOK(refetch.got)'
<1>1. /\ stored' \in [Items -> [at : 0..MaxNow, here : BOOLEAN]] /\ now' \in 0..MaxNow
      /\ NoneLater' /\ \A l : LoadedOK(l) => LoadedOK(l)'
  BY HistoryParts, RowsStay DEF Rows
<1>2. /\ HistoryTypeOK /\ NoneLater /\ LoadedOK(list) /\ LoadedOK(refetch.got)
      /\ list \in Loaded /\ refetch \in [left : Nat, got : Loaded]
  BY HistoryParts DEF HistoryIInv
<1>3. PICK newList : newList = list'
  OBVIOUS
<1>4. newList \in Loaded /\ LoadedOK(newList)
  BY <1>2, <1>3, NothingLoaded, NextPageOK
<1>5. PICK newGot : newGot = refetch'.got
  OBVIOUS
<1>6. newGot \in Loaded /\ LoadedOK(newGot) /\ refetch' \in [left : Nat, got : Loaded]
  <2>1. CASE refetch' = refetch
    BY <1>2, <1>5, <2>1
  <2>2. CASE refetch' = NoRefetch
    BY <1>2, <1>5, <2>2, NothingLoaded DEF NoRefetch
  <2>3. CASE /\ refetch.left > 0 /\ HasNext(refetch.got)
             /\ refetch' = [left |-> refetch.left - 1, got |-> WithPage(refetch.got)]
    <3>1. refetch.left - 1 \in Nat /\ refetch.got \in Loaded
      BY <1>2, <2>3
    <3>2. WithPage(refetch.got) \in Loaded /\ LoadedOK(WithPage(refetch.got))
      BY <1>2, <2>3, <3>1, NextPageOK
    <3> QED BY <1>5, <2>3, <3>1, <3>2
  <2> QED BY <2>1, <2>2, <2>3
<1>7. LoadedOK(newList)' /\ LoadedOK(newGot)'
  BY <1>1, <1>4, <1>6
<1> QED BY <1>1, <1>3, <1>4, <1>5, <1>6, <1>7

\* A step that updates rows; the list is left, and perhaps read again.
LEMMA MovingStep ==
  ASSUME HistoryIInv, NEW S \in SUBSET Items, NEW here \in BOOLEAN, Update(S, here),
         list' = list, filter' = filter, refetch' = refetch \/ Refresh
  PROVE  /\ stored' \in [Items -> [at : 0..MaxNow, here : BOOLEAN]] /\ now' \in 0..MaxNow
         /\ list' \in Loaded /\ refetch' \in [left : Nat, got : Loaded]
         /\ NoneLater' /\ LoadedOK(list)' /\ LoadedOK(refetch.got)'
<1>1. /\ HistoryTypeOK /\ NoneLater /\ LoadedOK(list) /\ LoadedOK(refetch.got)
      /\ list \in Loaded /\ refetch \in [left : Nat, got : Loaded] /\ refetch.got \in Loaded
  BY HistoryParts DEF HistoryIInv
<1>2. /\ stored' \in [Items -> [at : 0..MaxNow, here : BOOLEAN]] /\ now' \in 0..MaxNow
      /\ NoneLater' /\ \A l \in Loaded : LoadedOK(l) => LoadedOK(l)'
  BY <1>1, UpdateStep
<1>3. LoadedOK(list)'
  BY <1>1, <1>2
<1>4. refetch' \in [left : Nat, got : Loaded] /\ LoadedOK(refetch.got)'
  <2>1. CASE refetch' = refetch
    BY <1>1, <1>2, <2>1
  <2>2. CASE Refresh
    <3>1. Len(list.pages) \in Nat
      BY <1>1 DEF Loaded
    <3>2. refetch' = [left |-> Len(list.pages), got |-> Unloaded] /\ refetch'.got = Unloaded
      BY <2>2 DEF Refresh
    <3>3. Unloaded \in Loaded /\ LoadedOK(Unloaded)
      BY <1>1, NothingLoaded
    <3>4. LoadedOK(Unloaded)'
      BY <1>2, <3>3
    <3> QED BY <3>1, <3>2, <3>3, <3>4
  <2> QED BY <2>1, <2>2
<1> QED BY <1>1, <1>2, <1>3, <1>4

\* What is shown are conversations.
LEMMA ShownItems == ASSUME HistoryTypeOK PROVE Shown \subseteq Items
<1>1. \A i \in 1..Len(list.pages) : list.pages[i] \subseteq Key
  BY DEF HistoryTypeOK, Loaded
<1>2. \A k \in UNION {list.pages[i] : i \in 1..Len(list.pages)} : k \in Key
  BY <1>1
<1> QED BY <1>2, KeysOrdered DEF Shown

LEMMA LoadingSteps ==
  ASSUME HistoryIInv, FetchPage \/ RefetchPage \/ RefetchEnds
  PROVE  HistoryIInv'
<1>1. UNCHANGED Rows /\ UNCHANGED Selecting /\ filter'.mode = filter.mode
  BY DEF FetchPage, RefetchPage, RefetchEnds, Selecting
<1>2. /\ \/ list' \in {list, Unloaded, refetch.got}
         \/ HasNext(list) /\ list' = WithPage(list)
      /\ \/ refetch' \in {refetch, NoRefetch}
         \/ /\ refetch.left > 0 /\ HasNext(refetch.got)
            /\ refetch' = [left |-> refetch.left - 1, got |-> WithPage(refetch.got)]
  BY DEF FetchPage, RefetchPage, RefetchEnds
<1>3. /\ filter' \in [mode : Modes, recent : BOOLEAN] /\ picked' \in [on : BOOLEAN, ids : SUBSET Items]
      /\ confirm' \in BOOLEAN /\ undo' \subseteq Items /\ preview' \in {{}} \cup {{c} : c \in Items}
  BY <1>1, HistoryParts DEF Selecting
<1>4. /\ stored' \in [Items -> [at : 0..MaxNow, here : BOOLEAN]] /\ now' \in 0..MaxNow
      /\ list' \in Loaded /\ refetch' \in [left : Nat, got : Loaded]
      /\ NoneLater' /\ LoadedOK(list)' /\ LoadedOK(refetch.got)'
  BY <1>1, <1>2, QuietStep
<1> QED BY <1>3, <1>4 DEF HistoryIInv, HistoryTypeOK

\* Another filter, and a page left, begin with nothing loaded.
LEMMA NewQuerySteps ==
  ASSUME HistoryIInv, UNCHANGED Rows, list' = Unloaded, refetch' = NoRefetch,
         filter' \in [mode : Modes, recent : BOOLEAN],
         picked' \in [on : BOOLEAN, ids : SUBSET Items],
         confirm' \in BOOLEAN, undo' \subseteq Items, preview' \in {{}} \cup {{c} : c \in Items}
  PROVE  HistoryIInv'
<1>1. /\ stored' \in [Items -> [at : 0..MaxNow, here : BOOLEAN]] /\ now' \in 0..MaxNow
      /\ NoneLater /\ HistoryTypeOK
  BY HistoryParts DEF Rows, HistoryIInv
<1>2. NoneLater' /\ LoadedOK(Unloaded)'
  BY <1>1, RowsStayUnloaded
<1>3. list' \in Loaded /\ refetch' \in [left : Nat, got : Loaded] /\ refetch'.got = Unloaded
  BY <1>1, NothingLoaded DEF NoRefetch
<1>4. LoadedOK(list)' /\ LoadedOK(refetch.got)'
  BY <1>2, <1>3
<1> QED BY <1>1, <1>2, <1>3, <1>4 DEF HistoryIInv, HistoryTypeOK

LEMMA FilterSteps ==
  ASSUME HistoryIInv, NEW mode \in Modes, FilterBy(mode)
  PROVE  HistoryIInv'
<1>1. /\ filter' \in [mode : Modes, recent : BOOLEAN] /\ picked' \in [on : BOOLEAN, ids : SUBSET Items]
      /\ confirm' \in BOOLEAN /\ undo' \subseteq Items /\ preview' \in {{}} \cup {{c} : c \in Items}
  BY HistoryParts DEF FilterBy
<1> QED BY <1>1, NewQuerySteps DEF FilterBy

LEMMA LeaveSteps ==
  ASSUME HistoryIInv, Leave
  PROVE  HistoryIInv'
<1>1. /\ filter' \in [mode : Modes, recent : BOOLEAN] /\ picked' \in [on : BOOLEAN, ids : SUBSET Items]
      /\ confirm' \in BOOLEAN /\ undo' \subseteq Items /\ preview' \in {{}} \cup {{c} : c \in Items}
  BY DEF Leave, Modes
<1> QED BY <1>1, NewQuerySteps DEF Leave

\* Clicks that touch neither rows nor pages.
LEMMA ClickSteps ==
  ASSUME HistoryIInv,
         \/ FilterByDate \/ SelectMode \/ SelectAllShown \/ Arm \/ Disarm \/ ClosePreview
         \/ \E c \in Items : ToggleSelect(c) \/ Preview(c)
         \/ UNCHANGED historyVars
  PROVE  HistoryIInv'
<1>1. UNCHANGED Rows /\ list' = list /\ refetch' = refetch
  BY DEF FilterByDate, SelectMode, SelectAllShown, Arm, Disarm, ClosePreview, ToggleSelect, Preview,
     historyVars, Rows
<1>2. filter' \in [mode : Modes, recent : BOOLEAN] /\ filter'.mode = filter.mode
  BY HistoryParts DEF FilterByDate, SelectMode, SelectAllShown, Arm, Disarm, ClosePreview,
     ToggleSelect, Preview, historyVars
<1>3. picked' \in [on : BOOLEAN, ids : SUBSET Items]
  <2>1. Shown \subseteq Items /\ picked \in [on : BOOLEAN, ids : SUBSET Items]
    BY ShownItems, HistoryParts DEF HistoryIInv
  <2>2. ASSUME NEW c \in Items, ToggleSelect(c) PROVE picked' \in [on : BOOLEAN, ids : SUBSET Items]
    <3>1. (picked.ids \ {c}) \cup ({c} \ picked.ids) \in SUBSET Items
      BY <2>1
    <3> QED BY <2>1, <2>2, <3>1 DEF ToggleSelect
  <2>3. CASE SelectAllShown
    BY <2>1, <2>3 DEF SelectAllShown
  <2>4. CASE SelectMode
    <3>1. (~picked.on) \in BOOLEAN
      OBVIOUS
    <3> QED BY <2>4, <3>1 DEF SelectMode
  <2>5. CASE FilterByDate \/ Arm \/ Disarm \/ ClosePreview \/ (\E c \in Items : Preview(c)) \/ UNCHANGED historyVars
    BY <2>1, <2>5 DEF FilterByDate, Arm, Disarm, ClosePreview, Preview, historyVars
  <2> QED BY <2>2, <2>3, <2>4, <2>5
<1>4. confirm' \in BOOLEAN /\ undo' \subseteq Items /\ preview' \in {{}} \cup {{c} : c \in Items}
  BY HistoryParts DEF FilterByDate, SelectMode, SelectAllShown, Arm, Disarm, ClosePreview,
     ToggleSelect, Preview, historyVars
<1>5. /\ stored' \in [Items -> [at : 0..MaxNow, here : BOOLEAN]] /\ now' \in 0..MaxNow
      /\ list' \in Loaded /\ refetch' \in [left : Nat, got : Loaded]
      /\ NoneLater' /\ LoadedOK(list)' /\ LoadedOK(refetch.got)'
  BY <1>1, <1>2, QuietStep
<1> QED BY <1>2, <1>3, <1>4, <1>5 DEF HistoryIInv, HistoryTypeOK

\* Steps of this tab or another that update rows.
LEMMA UpdatingSteps ==
  ASSUME HistoryIInv,
         \/ DeleteSelected \/ ClearAllShown
         \/ \E c \in Items : Touch(c) \/ DeleteWithUndo(c) \/ Undo(c)
  PROVE  HistoryIInv'
<1>1. PICK S \in SUBSET Items, here \in BOOLEAN : Update(S, here)
  <2>1. picked.ids \in SUBSET Items
    BY HistoryParts
  <2>2. CASE DeleteSelected
    BY <2>1, <2>2 DEF DeleteSelected
  <2>3. CASE ClearAllShown
    <3>1. {c \in Items : stored[c].here /\ MatchesMode(c)} \in SUBSET Items
      OBVIOUS
    <3> QED BY <2>3, <3>1 DEF ClearAllShown
  <2>4. ASSUME NEW c \in Items, Touch(c) \/ DeleteWithUndo(c) \/ Undo(c)
        PROVE  \E S \in SUBSET Items, here \in BOOLEAN : Update(S, here)
    <3>1. {c} \in SUBSET Items
      OBVIOUS
    <3> QED BY <2>4, <3>1 DEF Touch, DeleteWithUndo, Undo
  <2> QED BY <2>2, <2>3, <2>4
<1>2. list' = list /\ filter' = filter /\ (refetch' = refetch \/ Refresh)
  BY DEF DeleteSelected, ClearAllShown, Touch, DeleteWithUndo, Undo, Selecting
<1>3. /\ picked' \in [on : BOOLEAN, ids : SUBSET Items]
      /\ confirm' \in BOOLEAN /\ undo' \subseteq Items /\ preview' \in {{}} \cup {{c} : c \in Items}
  <2>1. /\ picked \in [on : BOOLEAN, ids : SUBSET Items]
        /\ confirm \in BOOLEAN /\ undo \subseteq Items /\ preview \in {{}} \cup {{c} : c \in Items}
    BY HistoryParts
  <2>2. CASE DeleteSelected
    BY <2>1, <2>2 DEF DeleteSelected
  <2>3. CASE ClearAllShown
    BY <2>1, <2>3 DEF ClearAllShown
  <2>4. ASSUME NEW c \in Items, Touch(c) \/ DeleteWithUndo(c) \/ Undo(c)
        PROVE  picked' = picked /\ confirm' = confirm /\ preview' = preview /\ undo' \subseteq Items
    BY <2>1, <2>4 DEF Touch, DeleteWithUndo, Undo, Selecting
  <2> QED BY <2>1, <2>2, <2>3, <2>4
<1>4. /\ stored' \in [Items -> [at : 0..MaxNow, here : BOOLEAN]] /\ now' \in 0..MaxNow
      /\ list' \in Loaded /\ refetch' \in [left : Nat, got : Loaded]
      /\ NoneLater' /\ LoadedOK(list)' /\ LoadedOK(refetch.got)'
  BY <1>1, <1>2, MovingStep
<1>5. filter' \in [mode : Modes, recent : BOOLEAN]
  BY <1>2, HistoryParts
<1> QED BY <1>3, <1>4, <1>5 DEF HistoryIInv, HistoryTypeOK

LEMMA HistoryKept == ASSUME HistoryIInv, [HistoryNext]_historyVars PROVE HistoryIInv'
<1>1. ASSUME NEW mode \in Modes, FilterBy(mode) PROVE HistoryIInv'
  BY <1>1, FilterSteps
<1>2. ASSUME NEW c \in Items, OpenItem(c) PROVE HistoryIInv'
  BY <1>2, LeaveSteps DEF OpenItem
<1>3. CASE OpenPreviewed
  BY <1>3, LeaveSteps DEF OpenPreviewed
<1> QED BY <1>1, <1>2, <1>3, LoadingSteps, ClickSteps, UpdatingSteps DEF HistoryNext

LEMMA LoadedIs == ASSUME HistoryIInv PROVE HistoryInv
<1>1. NoItemTwice
  BY DEF HistoryIInv, LoadedOK, NoItemTwice
<1>2. MissedOnlyIfMoved
  BY DEF HistoryIInv, LoadedOK, MissedOnlyIfMoved, Complete
<1> QED BY <1>1, <1>2 DEF HistoryInv

\* However conversations are updated, deleted, restored and cleared between the
\* pages, the history lists none twice, and what the whole list leaves out was updated
\* after its first page was read (cursor by updatedAt and id, conversation.list): for
\* any conversations and any page size.
THEOREM HistoryCorrect == HistorySpec => [](HistoryTypeOK /\ HistoryInv)
<1>1. HistoryInit => HistoryIInv
  BY HistoryStart
<1>2. HistoryIInv /\ [HistoryNext]_historyVars => HistoryIInv'
  BY HistoryKept
<1>3. HistoryIInv => HistoryTypeOK /\ HistoryInv
  BY LoadedIs DEF HistoryIInv
<1> QED BY <1>1, <1>2, <1>3, PTL DEF HistorySpec
-----------------------------------------------------------------------------
(* The documents page: what it says of jobs, for any number of jobs and    *)
(* of polls that drain the queue                                           *)

\* A job that a poll has claimed is running under its lease, and under no other poll's.
OwnedRuns ==
  \A r \in 0..MaxJobs : poll[r].owned # 0 =>
    /\ Has(poll[r].owned, {"RUNNING"}) /\ jobs[poll[r].owned].lease = "live"
    /\ poll[r].processed < MaxPerPoll
    /\ \A s \in 0..MaxJobs : poll[s].owned = poll[r].owned => s = r

\* The job that is watched is there, or was.
WatchedThere == console.pollJobId # 0 => ~Has(console.pollJobId, {"none"})

\* (SaidIsTrue, of jobs.)
SaidOfJobs == \A t \in {"URL", "PDF"} :
  console.said[t].text = "ended" =>
    /\ console.said[t].job \in JobIds
    /\ JobEnded(console.said[t].job) /\ TypeOf[console.said[t].job] = t

ConsoleIInv == ConsoleTypeOK /\ OwnedRuns /\ WatchedThere /\ SaidOfJobs

Kinds == {"URL", "PDF"}

\* A page that watches no other job than before, and says no other has ended.
Quiet(new) ==
  /\ new \in Console /\ new.pollJobId \in {0, console.pollJobId}
  /\ \A t \in Kinds : new.said[t] = console.said[t] \/ new.said[t].text # "ended"

LEMMA ConsoleConstants ==
  /\ MaxJobs \in Nat /\ MaxJobs > 0 /\ JobAttempts \in Nat /\ MaxPerPoll \in Nat /\ MaxPerPoll > 0
  /\ MaxParts \in Nat /\ 0 \in 0..MaxJobs /\ JobIds \subseteq 0..MaxJobs /\ 0 \notin JobIds
  /\ \A r \in 0..MaxJobs : r # 0 => r \in JobIds
  /\ \A j \in JobIds : TypeOf[j] \in Kinds
  /\ 0 \in 0..MaxPerPoll /\ 0 \in 0..JobAttempts /\ 0 \in 0..MaxParts
BY ConsoleAssumption DEF JobIds, Kinds

\* The invariant follows from what jobs, polls and page become.
LEMMA ConsoleFollows ==
  ASSUME ConsoleIInv, jobs' \in [JobIds -> JobRow], poll' \in [0..MaxJobs -> ConsolePoll],
         console' \in Console, OwnedRuns',
         \A j \in JobIds : JobEnded(j) => JobEnded(j)',
         \A j \in JobIds : ~Has(j, {"none"}) => ~Has(j, {"none"})',
         \/ console'.pollJobId \in {0, console.pollJobId}
         \/ ~Has(console.pollJobId, {"none"})',
         \A t \in Kinds :
           \/ console'.said[t] = console.said[t] \/ console'.said[t].text # "ended"
           \/ /\ console'.said[t].job \in JobIds /\ JobEnded(console.said[t].job)'
              /\ TypeOf[console'.said[t].job] = t
  PROVE  ConsoleIInv'
<1>1. ConsoleTypeOK'
  BY DEF ConsoleTypeOK
<1>2. WatchedThere'
  <2>1. console.pollJobId # 0 => console.pollJobId \in JobIds
    BY ConsoleConstants DEF ConsoleIInv, ConsoleTypeOK, Console
  <2>2. CASE console'.pollJobId = console.pollJobId /\ console.pollJobId # 0
    <3>1. ~Has(console.pollJobId, {"none"})
      BY <2>2 DEF ConsoleIInv, WatchedThere
    <3>2. jobs'[console.pollJobId].status # "none"
      BY <2>1, <2>2, <3>1 DEF Has
    <3> QED BY <2>2, <3>2 DEF WatchedThere, Has
  <2> QED BY <2>2 DEF WatchedThere
<1>3. SaidOfJobs'
  <2> SUFFICES ASSUME NEW t \in Kinds, console'.said[t].text = "ended"
               PROVE  /\ console'.said[t].job \in JobIds
                      /\ JobEnded(console.said[t].job)' /\ TypeOf[console'.said[t].job] = t
    BY DEF SaidOfJobs, Kinds
  <2>1. CASE console'.said[t] = console.said[t]
    <3>1. /\ console.said[t].job \in JobIds /\ JobEnded(console.said[t].job)
          /\ TypeOf[console.said[t].job] = t
      BY <2>1 DEF ConsoleIInv, SaidOfJobs, Kinds
    <3>2. jobs'[console.said[t].job].status \in {"DONE", "FAILED", "pruned"}
      BY <3>1 DEF JobEnded, Has
    <3> QED BY <2>1, <3>1, <3>2 DEF JobEnded, Has
  <2> QED BY <2>1
<1> QED BY <1>1, <1>2, <1>3 DEF ConsoleIInv

LEMMA ConsoleTypes ==
  ASSUME ConsoleTypeOK
  PROVE  /\ jobs \in [JobIds -> JobRow] /\ poll \in [0..MaxJobs -> ConsolePoll] /\ console \in Console
         /\ \A j \in JobIds : /\ jobs[j].status \in JobStatuses /\ jobs[j].attempts \in 0..JobAttempts
                              /\ jobs[j].parts \in 0..MaxParts
                              /\ jobs[j].lease \in {"none", "live", "dead", "over"}
         /\ \A r \in 0..MaxJobs : /\ poll[r].on \in BOOLEAN /\ poll[r].owned \in 0..MaxJobs
                                  /\ poll[r].processed \in 0..MaxPerPoll
         /\ NoJob \in JobRow /\ NoPoll \in ConsolePoll
BY ConsoleConstants DEF ConsoleTypeOK, JobRow, ConsolePoll, NoJob, NoPoll, JobStatuses

\* What the page says, and the effect that watches the depth.
LEMMA SayQuiet ==
  ASSUME ConsoleTypeOK
  PROVE  /\ Quiet(console)
         /\ \A t \in Kinds, text \in {"", "pending", "error", "started", "finished"} : Quiet(Say(t, text))
<1>1. console \in Console /\ console.said \in [Kinds -> Said]
  BY DEF ConsoleTypeOK, Console, Kinds
<1>2. ASSUME NEW t \in Kinds, NEW text \in {"", "pending", "error", "started", "finished"}
      PROVE  Quiet(Say(t, text))
  <2>1. [text |-> text, job |-> 0] \in Said
    BY ConsoleConstants DEF Said
  <2>2. PICK said : said = [console.said EXCEPT ![t] = [text |-> text, job |-> 0]]
    OBVIOUS
  <2>3. said \in [Kinds -> Said]
    BY <1>1, <2>1, <2>2
  <2>4. Say(t, text) = [console EXCEPT !.said = said]
    BY <2>2 DEF Say
  <2>5. Say(t, text) \in Console /\ Say(t, text).said = said /\ Say(t, text).pollJobId = console.pollJobId
    BY <1>1, <2>3, <2>4 DEF Console, Kinds
  <2>6. \A u \in Kinds : said[u] = console.said[u] \/ said[u].text # "ended"
    BY <1>1, <2>2
  <2> QED BY <2>5, <2>6 DEF Quiet
<1> QED BY <1>1, <1>2 DEF Quiet

LEMMA EffectQuiet ==
  ASSUME ConsoleTypeOK
  PROVE  \A new : Quiet(new) => Quiet(SyncEffect(new))
<1> SUFFICES ASSUME NEW new, Quiet(new) PROVE Quiet(SyncEffect(new))
  OBVIOUS
<1>1. CASE new.syncPolling /\ new.stats = "empty"
  <2>1. [text |-> "finished", job |-> 0] \in Said
    BY ConsoleConstants DEF Said
  <2>2. PICK said : said = [new.said EXCEPT !["URL"] = [text |-> "finished", job |-> 0]]
    OBVIOUS
  <2>3. new \in Console /\ new.said \in [Kinds -> Said]
    BY DEF Quiet, Console, Kinds
  <2>4. said \in [Kinds -> Said] /\ "URL" \in Kinds
    BY <2>1, <2>2, <2>3 DEF Kinds
  <2>5. SyncEffect(new) = [new EXCEPT !.syncPolling = FALSE, !.said = said]
    BY <1>1, <2>2 DEF SyncEffect
  <2>6. /\ SyncEffect(new) \in Console /\ SyncEffect(new).said = said
        /\ SyncEffect(new).pollJobId = new.pollJobId
    BY <2>3, <2>4, <2>5 DEF Console, Kinds
  <2>7. \A u \in Kinds : said[u] = new.said[u] \/ said[u].text # "ended"
    BY <2>2, <2>3, <2>4
  <2> QED BY <2>6, <2>7 DEF Quiet
<1>2. CASE ~ (new.syncPolling /\ new.stats = "empty")
  BY <1>2 DEF SyncEffect
<1> QED BY <1>1, <1>2

\* A step of the page that says nothing of a job.
LEMMA QuietPage ==
  ASSUME ConsoleIInv, UNCHANGED <<jobs, poll>>, Quiet(console')
  PROVE  ConsoleIInv'
<1>1. OwnedRuns'
  BY DEF ConsoleIInv, OwnedRuns, Has
<1>2. \A j \in JobIds : (JobEnded(j) => JobEnded(j)') /\ (~Has(j, {"none"}) => ~Has(j, {"none"})')
  BY DEF JobEnded, Has
<1>3. jobs' \in [JobIds -> JobRow] /\ poll' \in [0..MaxJobs -> ConsolePoll]
  BY ConsoleTypes DEF ConsoleIInv
<1> QED BY <1>1, <1>2, <1>3, ConsoleFollows DEF Quiet
LEMMA PageAlone ==
  ASSUME ConsoleIInv,
         \/ EnterUrl \/ IngestRefused \/ ClickSync \/ SyncFails \/ UploadPdf \/ UploadFails
         \/ (\E accepted \in BOOLEAN : ChoosePdf(accepted)) \/ (\E kept \in BOOLEAN : LeaveConsole(kept))
         \/ UNCHANGED consoleVars
  PROVE  ConsoleIInv'
<1> USE DEF Kinds
<1>1. /\ ConsoleTypeOK /\ console \in Console /\ Quiet(console)
      /\ console.ingesting.latest \in BOOLEAN /\ console.ingesting.earlier \in BOOLEAN
  BY SayQuiet, ConsoleTypes DEF ConsoleIInv, Console
<1>2. /\ Quiet(Say("URL", "")) /\ Quiet(Say("URL", "error"))
      /\ Quiet(Say("PDF", "")) /\ Quiet(Say("PDF", "error"))
  BY <1>1, SayQuiet
<1>3. CASE EnterUrl
  <2>1. PICK s : s = Say("URL", "")
    OBVIOUS
  <2>2. console' = [s EXCEPT !.ingesting = [latest |-> TRUE, earlier |-> console.ingesting.latest]]
    BY <1>3, <2>1 DEF EnterUrl
  <2>3. Quiet(console')
    BY <1>1, <1>2, <2>1, <2>2 DEF Quiet, Console
  <2> QED BY <1>3, <2>3, QuietPage DEF EnterUrl
<1>4. CASE IngestRefused
  <2>1. PICK s : s = Say("URL", "error")
    OBVIOUS
  <2>2. ASSUME console' = [s EXCEPT !.ingesting = [s.ingesting EXCEPT !.latest = FALSE]]
        PROVE  Quiet(console')
    BY <1>2, <2>1, <2>2 DEF Quiet, Console
  <2>3. ASSUME console' = [console EXCEPT !.ingesting = [console.ingesting EXCEPT !.earlier = FALSE]]
        PROVE  Quiet(console')
    BY <1>1, <2>3 DEF Quiet, Console
  <2>4. Quiet(console')
    BY <1>4, <2>1, <2>2, <2>3 DEF IngestRefused
  <2> QED BY <1>4, <2>4, QuietPage DEF IngestRefused
<1>5. CASE ClickSync \/ SyncFails
  <2>1. Quiet(console')
    BY <1>1, <1>5 DEF ClickSync, SyncFails, Quiet, Console
  <2> QED BY <1>5, <2>1, QuietPage DEF ClickSync, SyncFails
<1>6. CASE UploadPdf
  <2>1. PICK s : s = Say("PDF", "")
    OBVIOUS
  <2>2. console' = [s EXCEPT !.uploading = TRUE]
    BY <1>6, <2>1 DEF UploadPdf
  <2>3. Quiet(console')
    BY <1>2, <2>1, <2>2 DEF Quiet, Console
  <2> QED BY <1>6, <2>3, QuietPage DEF UploadPdf
<1>7. CASE UploadFails
  <2>1. PICK s : s = Say("PDF", "error")
    OBVIOUS
  <2>2. console' = [s EXCEPT !.uploading = FALSE]
    BY <1>7, <2>1 DEF UploadFails
  <2>3. Quiet(console')
    BY <1>2, <2>1, <2>2 DEF Quiet, Console
  <2> QED BY <1>7, <2>3, QuietPage DEF UploadFails
<1>8. ASSUME NEW accepted \in BOOLEAN, ChoosePdf(accepted) PROVE ConsoleIInv'
  <2>1. PICK s : s = Say("PDF", "")
    OBVIOUS
  <2>2. console' = [s EXCEPT !.file = TRUE] \/ console' = Say("PDF", "error")
    BY <1>8, <2>1 DEF ChoosePdf
  <2>3. Quiet(console')
    BY <1>2, <2>1, <2>2 DEF Quiet, Console
  <2> QED BY <1>8, <2>3, QuietPage DEF ChoosePdf
<1>9. ASSUME NEW kept \in BOOLEAN, LeaveConsole(kept) PROVE ConsoleIInv'
  <2>1. PICK stats \in {"none", "busy", "empty"} : console' = NewConsole(stats)
    BY <1>1, <1>9 DEF LeaveConsole, Console
  <2>2. SaysNothing \in Said /\ SaysNothing.text # "ended"
    BY ConsoleConstants DEF SaysNothing, Said
  <2>3. console' \in Console /\ console'.pollJobId = 0 /\ \A t \in Kinds : console'.said[t] = SaysNothing
    BY <2>1, <2>2, ConsoleConstants DEF NewConsole, Console
  <2>4. Quiet(console')
    BY <2>2, <2>3 DEF Quiet
  <2> QED BY <1>9, <2>4, QuietPage DEF LeaveConsole
<1>10. CASE UNCHANGED consoleVars
  <2>1. console' = console /\ UNCHANGED <<jobs, poll>>
    BY <1>10 DEF consoleVars
  <2> QED BY <1>1, <2>1, QuietPage
<1> QED BY <1>3, <1>4, <1>5, <1>6, <1>7, <1>8, <1>9, <1>10

\* Jobs that are enqueued were not there, and no poll has claimed one.
LEMMA Enqueuing ==
  ASSUME ConsoleIInv, NEW J \in SUBSET JobIds, \A j \in J : Has(j, {"none"}),
         jobs' = Enqueued(J),
         \A r \in 0..MaxJobs : /\ poll'[r].owned = poll[r].owned
                               /\ poll'[r].processed = poll[r].processed
  PROVE  /\ jobs' \in [JobIds -> JobRow] /\ OwnedRuns'
         /\ \A j \in JobIds : (JobEnded(j) => JobEnded(j)') /\ (~Has(j, {"none"}) => ~Has(j, {"none"})')
         /\ \A j \in J : ~Has(j, {"none"})'
<1>1. [NoJob EXCEPT !.status = "QUEUED"] \in JobRow /\ [NoJob EXCEPT !.status = "QUEUED"].status = "QUEUED"
  BY ConsoleConstants DEF NoJob, JobRow, JobStatuses
<1>2. /\ \A j \in J : jobs'[j].status = "QUEUED"
      /\ \A j \in JobIds \ J : jobs'[j] = jobs[j]
  BY <1>1 DEF Enqueued
<1>3. jobs' \in [JobIds -> JobRow]
  BY <1>1, ConsoleTypes DEF Enqueued, ConsoleIInv
<1>4. \A r \in 0..MaxJobs : poll[r].owned # 0 => poll[r].owned \in JobIds \ J
  BY ConsoleTypes, ConsoleConstants DEF ConsoleIInv, OwnedRuns, Has
<1>5. OwnedRuns'
  BY <1>2, <1>4 DEF ConsoleIInv, OwnedRuns, Has
<1> QED BY <1>2, <1>3, <1>5 DEF JobEnded, Has
LEMMA EnqueuingOne ==
  ASSUME ConsoleIInv, NEW j \in JobIds, Has(j, {"none"}) \/ Pending(j),
         jobs' = IF Pending(j) THEN jobs ELSE Enqueued({j}), UNCHANGED poll
  PROVE  /\ jobs' \in [JobIds -> JobRow] /\ OwnedRuns'
         /\ \A i \in JobIds : (JobEnded(i) => JobEnded(i)') /\ (~Has(i, {"none"}) => ~Has(i, {"none"})')
         /\ ~Has(j, {"none"})'
<1>1. CASE Pending(j)
  <2>1. jobs' = jobs /\ ~Has(j, {"none"})
    BY <1>1 DEF Pending, Has
  <2>2. OwnedRuns'
    BY <2>1 DEF ConsoleIInv, OwnedRuns, Has
  <2> QED BY <2>1, <2>2, ConsoleTypes DEF ConsoleIInv, JobEnded, Has
<1>2. CASE ~Pending(j)
  <2>1. Has(j, {"none"}) /\ jobs' = Enqueued({j}) /\ {j} \in SUBSET JobIds /\ \A i \in {j} : Has(i, {"none"})
    BY <1>2
  <2> QED BY <2>1, Enqueuing
<1> QED BY <1>1, <1>2

\* The page watches a job that was enqueued or pending.
LEMMA WatchStep ==
  ASSUME ConsoleIInv, NEW j \in JobIds, NEW told \in BOOLEAN, Ingested(j, told) \/ Uploaded(j)
  PROVE  ConsoleIInv'
<1> USE DEF Kinds
<1>1. ConsoleTypeOK /\ Quiet(Say("URL", "pending")) /\ Quiet(Say("URL", "error")) /\ Quiet(Say("PDF", "pending"))
  BY SayQuiet DEF ConsoleIInv
<1>2. /\ jobs' \in [JobIds -> JobRow] /\ OwnedRuns' /\ UNCHANGED poll
      /\ \A i \in JobIds : (JobEnded(i) => JobEnded(i)') /\ (~Has(i, {"none"}) => ~Has(i, {"none"})')
      /\ ~Has(j, {"none"})'
  <2>1. CASE Ingested(j, told)
    BY <2>1, EnqueuingOne DEF Ingested, Target, NextJob
  <2>2. CASE Uploaded(j)
    <3>1. Has(j, {"none"}) /\ ~Pending(j) /\ jobs' = Enqueued({j}) /\ UNCHANGED poll
      BY <2>2 DEF Uploaded, Has, Pending
    <3> QED BY <3>1, EnqueuingOne
  <2> QED BY <2>1, <2>2
<1>3. /\ console' \in Console /\ console'.pollJobId \in {0, console.pollJobId, j}
      /\ \A t \in Kinds : console'.said[t] = console.said[t] \/ console'.said[t].text # "ended"
  <2>1. j \in 0..MaxJobs
    BY ConsoleConstants
  <2>2. CASE Ingested(j, told) /\ told
    <3>1. PICK s : s = Say("URL", "pending")
      OBVIOUS
    <3>2. console' = [[s EXCEPT !.pollJobId = j] EXCEPT !.ingesting = [s.ingesting EXCEPT !.latest = FALSE]]
      BY <2>2, <3>1 DEF Ingested
    <3> QED BY <1>1, <2>1, <3>1, <3>2 DEF Quiet, Console
  <2>3. CASE Ingested(j, told) /\ ~told
    <3>1. PICK s : s = Say("URL", "error")
      OBVIOUS
    <3>2. console' = [s EXCEPT !.ingesting = [s.ingesting EXCEPT !.latest = FALSE]]
      BY <2>3, <3>1 DEF Ingested
    <3> QED BY <1>1, <3>1, <3>2 DEF Quiet, Console
  <2>4. CASE Uploaded(j)
    <3>1. PICK s : s = Say("PDF", "pending")
      OBVIOUS
    <3>2. console' = [s EXCEPT !.uploading = FALSE, !.file = FALSE, !.pollJobId = j]
      BY <2>4, <3>1 DEF Uploaded
    <3> QED BY <1>1, <2>1, <3>1, <3>2 DEF Quiet, Console
  <2> QED BY <2>2, <2>3, <2>4
<1>4. console'.pollJobId \in {0, console.pollJobId} \/ ~Has(console.pollJobId, {"none"})'
  BY <1>2, <1>3 DEF Has
<1>5. poll' \in [0..MaxJobs -> ConsolePoll]
  BY <1>1, <1>2, ConsoleTypes
<1> QED BY <1>2, <1>3, <1>4, <1>5, ConsoleFollows

\* Jobs are enqueued, and the page says nothing of them.
LEMMA EnqueueSteps ==
  ASSUME ConsoleIInv, NEW j \in JobIds, IngestedEarlier(j) \/ EnqueueElsewhere(j)
  PROVE  ConsoleIInv'
<1>1. ConsoleTypeOK /\ Quiet(console)
  BY SayQuiet DEF ConsoleIInv
<1>2. /\ jobs' \in [JobIds -> JobRow] /\ OwnedRuns' /\ UNCHANGED poll
      /\ \A i \in JobIds : (JobEnded(i) => JobEnded(i)') /\ (~Has(i, {"none"}) => ~Has(i, {"none"})')
  <2>1. CASE IngestedEarlier(j)
    BY <2>1, EnqueuingOne DEF IngestedEarlier, Target, NextJob
  <2>2. CASE EnqueueElsewhere(j)
    <3>1. Has(j, {"none"}) /\ ~Pending(j) /\ jobs' = Enqueued({j}) /\ UNCHANGED poll
      BY <2>2 DEF EnqueueElsewhere, NextJob, Has, Pending
    <3> QED BY <3>1, EnqueuingOne
  <2> QED BY <2>1, <2>2
<1>3. Quiet(console')
  <2>1. CASE IngestedEarlier(j)
    <3>1. console' = [console EXCEPT !.ingesting = [console.ingesting EXCEPT !.earlier = FALSE]]
      BY <2>1 DEF IngestedEarlier
    <3> QED BY <1>1, <3>1 DEF Quiet, Console
  <2>2. CASE EnqueueElsewhere(j)
    BY <1>1, <2>2 DEF EnqueueElsewhere
  <2> QED BY <2>1, <2>2
<1>4. poll' \in [0..MaxJobs -> ConsolePoll]
  BY <1>1, <1>2, ConsoleTypes
<1> QED BY <1>2, <1>3, <1>4, ConsoleFollows DEF Quiet

LEMMA SyncStep ==
  ASSUME ConsoleIInv, NEW J \in SUBSET JobIds, NEW stale \in BOOLEAN, SyncStarted(J, stale)
  PROVE  ConsoleIInv'
<1> USE DEF Kinds
<1>1. ConsoleTypeOK /\ Quiet(Say("URL", "started"))
  BY SayQuiet DEF ConsoleIInv
<1>2. /\ poll' \in [0..MaxJobs -> ConsolePoll]
      /\ \A r \in 0..MaxJobs : poll'[r].owned = poll[r].owned /\ poll'[r].processed = poll[r].processed
  <2>1. CASE poll' = poll
    BY <1>1, <2>1, ConsoleTypes
  <2>2. CASE poll' = [poll EXCEPT ![0].on = TRUE]
    <3>1. poll[0] \in ConsolePoll /\ [poll[0] EXCEPT !.on = TRUE] \in ConsolePoll
      BY <1>1, ConsoleTypes, ConsoleConstants DEF ConsolePoll
    <3>2. /\ poll' \in [0..MaxJobs -> ConsolePoll]
          /\ \A r \in 0..MaxJobs : poll'[r] = IF r = 0 THEN [poll[0] EXCEPT !.on = TRUE] ELSE poll[r]
      BY <1>1, <2>2, <3>1, ConsoleTypes
    <3> QED BY <3>1, <3>2 DEF ConsolePoll
  <2> QED BY <2>1, <2>2 DEF SyncStarted
<1>3. /\ jobs' \in [JobIds -> JobRow] /\ OwnedRuns'
      /\ \A i \in JobIds : (JobEnded(i) => JobEnded(i)') /\ (~Has(i, {"none"}) => ~Has(i, {"none"})')
  BY <1>2, Enqueuing DEF SyncStarted
<1>4. Quiet(console')
  <2>1. PICK s : s = Say("URL", "started")
    OBVIOUS
  <2>2. PICK new : new = [s EXCEPT !.syncing = FALSE, !.syncPolling = TRUE]
    OBVIOUS
  <2>3. Quiet(new)
    BY <1>1, <2>1, <2>2 DEF Quiet, Console
  <2>4. console' = SyncEffect(new)
    BY <2>1, <2>2 DEF SyncStarted
  <2> QED BY <1>1, <2>3, <2>4, EffectQuiet
<1> QED BY <1>2, <1>3, <1>4, ConsoleFollows DEF Quiet
\* A poll is sent or ends while it has claimed no job.
LEMMA PollOnly ==
  ASSUME ConsoleIInv, UNCHANGED jobs, NEW r \in 0..MaxJobs,
         \/ poll' = [poll EXCEPT ![r].on = TRUE]
         \/ poll[r].owned = 0 /\ poll' = [poll EXCEPT ![r] = NoPoll]
  PROVE  /\ jobs' \in [JobIds -> JobRow] /\ poll' \in [0..MaxJobs -> ConsolePoll] /\ OwnedRuns'
         /\ \A j \in JobIds : (JobEnded(j) => JobEnded(j)') /\ (~Has(j, {"none"}) => ~Has(j, {"none"})')
<1>1. /\ poll[r] \in ConsolePoll /\ [poll[r] EXCEPT !.on = TRUE] \in ConsolePoll /\ NoPoll \in ConsolePoll
      /\ jobs \in [JobIds -> JobRow] /\ poll \in [0..MaxJobs -> ConsolePoll]
  BY ConsoleTypes DEF ConsoleIInv, ConsolePoll
<1>2. PICK new : /\ poll' = [poll EXCEPT ![r] = new]
                 /\ new = [poll[r] EXCEPT !.on = TRUE] \/ (new = NoPoll /\ poll[r].owned = 0)
  OBVIOUS
<1>3. /\ new \in ConsolePoll /\ new.owned = poll[r].owned
      /\ new.owned # 0 => new.processed = poll[r].processed
  <2>1. CASE new = [poll[r] EXCEPT !.on = TRUE]
    BY <1>1, <2>1 DEF ConsolePoll
  <2>2. CASE new = NoPoll /\ poll[r].owned = 0
    BY <1>1, <2>2 DEF NoPoll
  <2> QED BY <1>2, <2>1, <2>2
<1>4. /\ \A s \in 0..MaxJobs : poll'[s] = IF s = r THEN new ELSE poll[s]
      /\ poll' \in [0..MaxJobs -> ConsolePoll]
  BY <1>1, <1>2, <1>3
<1>5. \A s \in 0..MaxJobs : /\ poll'[s].owned = poll[s].owned
                            /\ poll'[s].owned # 0 => poll'[s].processed = poll[s].processed
  BY <1>3, <1>4
<1>6. OwnedRuns'
  BY <1>5 DEF ConsoleIInv, OwnedRuns, Has
<1> QED BY <1>1, <1>4, <1>6 DEF JobEnded, Has

LEMMA SendSteps ==
  ASSUME ConsoleIInv, NEW r \in 0..MaxJobs, SendPoll(r) \/ AnswerLost(r)
  PROVE  ConsoleIInv'
<1>1. console' = console /\ Quiet(console) /\ UNCHANGED jobs
  BY SayQuiet DEF ConsoleIInv, SendPoll, AnswerLost
<1>2. \/ poll' = [poll EXCEPT ![r].on = TRUE]
      \/ poll[r].owned = 0 /\ poll' = [poll EXCEPT ![r] = NoPoll]
  BY DEF SendPoll, AnswerLost, Drained
<1> QED BY <1>1, <1>2, PollOnly, ConsoleFollows DEF Quiet

\* The page is told that the job it watches has ended, only if it has.
LEMMA AnswerSteps ==
  ASSUME ConsoleIInv, NEW r \in 0..MaxJobs, Answered(r)
  PROVE  ConsoleIInv'
<1> USE DEF Kinds
<1>1. ConsoleTypeOK /\ Quiet(console) /\ console \in Console
  BY SayQuiet, ConsoleTypes DEF ConsoleIInv
<1>2. UNCHANGED jobs /\ poll[r].owned = 0 /\ poll' = [poll EXCEPT ![r] = NoPoll]
  BY DEF Answered, StatsAnswered, JobAnswered, Drained
<1>3. /\ jobs' \in [JobIds -> JobRow] /\ poll' \in [0..MaxJobs -> ConsolePoll] /\ OwnedRuns'
      /\ \A j \in JobIds : (JobEnded(j) => JobEnded(j)') /\ (~Has(j, {"none"}) => ~Has(j, {"none"})')
  BY <1>2, PollOnly
<1>4. ASSUME Quiet(console') PROVE ConsoleIInv'
  BY <1>3, <1>4, ConsoleFollows DEF Quiet
<1>5. CASE r = 0
  <2>1. PICK stats \in {"busy", "empty"} : console' = SyncEffect([console EXCEPT !.stats = stats])
    BY <1>5 DEF Answered, StatsAnswered
  <2>2. Quiet([console EXCEPT !.stats = stats])
    BY <1>1 DEF Quiet, Console
  <2>3. Quiet(console')
    BY <1>1, <2>1, <2>2, EffectQuiet
  <2> QED BY <1>4, <2>3
<1>6. CASE r # 0
  <2>1. r \in JobIds /\ JobAnswered(r)
    BY <1>6, ConsoleConstants DEF Answered
  <2>2. CASE console' = console
    BY <1>1, <1>4, <2>2
  <2>3. CASE console' = [console EXCEPT !.pollJobId = 0]
    <3>1. Quiet(console')
      BY <1>1, <2>3, ConsoleConstants DEF Quiet, Console
    <3> QED BY <1>4, <3>1
  <2>4. CASE console' = Tell(r) /\ console.pollJobId = r /\ ~Pending(r)
    <3>1. JobEnded(r)
      <4>1. ~Has(r, {"none"}) /\ jobs[r].status \in JobStatuses
        BY <1>1, <1>6, <2>1, <2>4, ConsoleTypes DEF ConsoleIInv, WatchedThere
      <4> QED BY <2>4, <4>1 DEF JobEnded, Pending, Has, JobStatuses
    <3>2. [text |-> "ended", job |-> r] \in Said /\ TypeOf[r] \in Kinds
      BY <2>1, ConsoleConstants DEF Said
    <3>3. PICK said : said = [console.said EXCEPT ![TypeOf[r]] = [text |-> "ended", job |-> r]]
      OBVIOUS
    <3>4. console.said \in [Kinds -> Said]
      BY <1>1 DEF Console
    <3>5. /\ said \in [Kinds -> Said]
          /\ \A t \in Kinds : said[t] = IF t = TypeOf[r] THEN [text |-> "ended", job |-> r]
                                        ELSE console.said[t]
      BY <3>2, <3>3, <3>4
    <3>6. console' = [console EXCEPT !.pollJobId = 0, !.said = said]
      BY <2>4, <3>3 DEF Tell
    <3>7. console' \in Console /\ console'.pollJobId = 0 /\ console'.said = said
      BY <1>1, <3>5, <3>6, ConsoleConstants DEF Console
    <3>8. JobEnded(r)'
      BY <1>3, <2>1, <3>1
    <3>9. ASSUME NEW t \in Kinds
          PROVE  \/ console'.said[t] = console.said[t] \/ console'.said[t].text # "ended"
                 \/ /\ console'.said[t].job \in JobIds /\ JobEnded(console.said[t].job)'
                    /\ TypeOf[console'.said[t].job] = t
      <4>1. CASE t = TypeOf[r]
        <5>1. console'.said[t].job = r
          BY <3>5, <3>7, <4>1
        <5>2. JobEnded(console.said[t].job)'
          BY <3>8, <5>1 DEF JobEnded, Has
        <5> QED BY <2>1, <4>1, <5>1, <5>2
      <4>2. CASE t # TypeOf[r]
        BY <3>5, <3>7, <4>2
      <4> QED BY <4>1, <4>2
    <3> QED BY <1>3, <3>7, <3>9, ConsoleFollows
  <2> QED BY <2>1, <2>2, <2>3, <2>4 DEF JobAnswered
<1> QED BY <1>5, <1>6
\* One job is changed, by a poll that lets go of it or by none that has claimed it;
\* only an ended job, if any, is changed to an ended one.
LEMMA JobStep ==
  ASSUME ConsoleIInv, UNCHANGED console, NEW j \in JobIds, NEW row \in JobRow,
         jobs' = [jobs EXCEPT ![j] = row],
         JobEnded(j) => row.status \in {"DONE", "FAILED", "pruned"},
         ~Has(j, {"none"}) => row.status # "none",
         poll' \in [0..MaxJobs -> ConsolePoll], OwnedRuns'
  PROVE  ConsoleIInv'
<1>1. jobs \in [JobIds -> JobRow] /\ Quiet(console)
  BY ConsoleTypes, SayQuiet DEF ConsoleIInv
<1>2. /\ jobs' \in [JobIds -> JobRow]
      /\ \A i \in JobIds : jobs'[i] = IF i = j THEN row ELSE jobs[i]
  BY <1>1
<1>3. \A i \in JobIds : (JobEnded(i) => JobEnded(i)') /\ (~Has(i, {"none"}) => ~Has(i, {"none"})')
  BY <1>2 DEF JobEnded, Has
<1> QED BY <1>1, <1>2, <1>3, ConsoleFollows DEF Quiet

\* A job no poll has claimed, and one a poll lets go of.
LEMMA OwnedStay ==
  ASSUME ConsoleIInv, NEW j \in JobIds, NEW row, jobs' = [jobs EXCEPT ![j] = row],
         \A s \in 0..MaxJobs :
           \/ poll'[s].owned = 0
           \/ /\ poll'[s].owned = poll[s].owned /\ poll'[s].owned # j
              /\ poll'[s].processed = poll[s].processed
  PROVE  OwnedRuns'
<1>1. jobs \in [JobIds -> JobRow]
  BY ConsoleTypes DEF ConsoleIInv
<1>2. \A i \in JobIds : i # j => jobs'[i] = jobs[i]
  BY <1>1
<1>3. \A s \in 0..MaxJobs : poll[s].owned # 0 => poll[s].owned \in JobIds
  BY ConsoleTypes, ConsoleConstants DEF ConsoleIInv
<1>4. ASSUME NEW s \in 0..MaxJobs, poll'[s].owned # 0
      PROVE  /\ jobs'[poll'[s].owned].status = "RUNNING" /\ jobs'[poll'[s].owned].lease = "live"
             /\ poll'[s].processed < MaxPerPoll
             /\ \A q \in 0..MaxJobs : poll'[q].owned = poll'[s].owned => q = s
  <2>1. /\ poll'[s].owned = poll[s].owned /\ poll[s].owned \in JobIds /\ poll[s].owned # j
        /\ poll'[s].processed = poll[s].processed
    BY <1>3, <1>4
  <2>2. jobs'[poll[s].owned] = jobs[poll[s].owned]
    BY <1>2, <2>1
  <2>3. /\ jobs[poll[s].owned].status = "RUNNING" /\ jobs[poll[s].owned].lease = "live"
        /\ poll[s].processed < MaxPerPoll
        /\ \A q \in 0..MaxJobs : poll[q].owned = poll[s].owned => q = s
    BY <1>4, <2>1 DEF ConsoleIInv, OwnedRuns, Has
  <2> QED BY <1>4, <2>1, <2>2, <2>3
<1> QED BY <1>4 DEF OwnedRuns, Has

\* Who has claimed a job.
LEMMA Owners ==
  ASSUME ConsoleIInv
  PROVE  \A s \in 0..MaxJobs : poll[s].owned # 0 =>
           /\ poll[s].owned \in JobIds /\ jobs[poll[s].owned].status = "RUNNING"
           /\ jobs[poll[s].owned].lease = "live" /\ poll[s].processed < MaxPerPoll
           /\ \A q \in 0..MaxJobs : poll[q].owned = poll[s].owned => q = s
BY ConsoleTypes, ConsoleConstants DEF ConsoleIInv, OwnedRuns, Has

LEMMA ClaimStep ==
  ASSUME ConsoleIInv, NEW r \in 0..MaxJobs, NEW j \in JobIds, ClaimJob(r, j)
  PROVE  ConsoleIInv'
<1>1. /\ jobs \in [JobIds -> JobRow] /\ poll \in [0..MaxJobs -> ConsolePoll] /\ jobs[j] \in JobRow
      /\ poll[r] \in ConsolePoll /\ MaxPerPoll \in Nat /\ JobAttempts \in Nat
  BY ConsoleTypes, ConsoleConstants DEF ConsoleIInv
<1>2. /\ UNCHANGED console /\ poll[r].owned = 0 /\ poll[r].processed < MaxPerPoll
      /\ jobs[j].status = "QUEUED" \/ jobs[j].lease = "over"
      /\ jobs[j].status \in {"QUEUED", "RUNNING"}
  BY DEF ClaimJob, MayClaim, Room, Claimable, Has
<1>3. \A s \in 0..MaxJobs : poll[s].owned # j
  BY <1>2, Owners, ConsoleConstants
<1>4. ~JobEnded(j)
  BY <1>2 DEF JobEnded, Has
<1>5. CASE jobs[j].attempts < JobAttempts
  <2>1. PICK row : row = [Row(j, "RUNNING", "live") EXCEPT !.attempts = jobs[j].attempts + 1]
    OBVIOUS
  <2>2. row \in JobRow /\ row.status = "RUNNING" /\ row.lease = "live"
    <3>1. jobs[j].attempts \in 0..JobAttempts
      BY <1>1 DEF JobRow
    <3>2. PICK a : a = jobs[j].attempts + 1
      OBVIOUS
    <3>3. a \in 0..JobAttempts
      BY <1>1, <1>5, <3>1, <3>2
    <3>4. row = [jobs[j] EXCEPT !.status = "RUNNING", !.lease = "live", !.attempts = a]
      BY <1>1, <2>1, <3>2 DEF Row, JobRow
    <3> QED BY <1>1, <3>3, <3>4 DEF JobRow, JobStatuses
  <2>3. /\ jobs' = [jobs EXCEPT ![j] = row] /\ poll' = [poll EXCEPT ![r].owned = j]
    BY <1>1, <1>5, <2>1 DEF ClaimJob, Row, JobRow
  <2>4. PICK new : new = [poll[r] EXCEPT !.owned = j]
    OBVIOUS
  <2>5. new \in ConsolePoll /\ new.owned = j /\ new.processed = poll[r].processed
    BY <1>1, <2>4, ConsoleConstants DEF ConsolePoll
  <2>6. /\ poll' \in [0..MaxJobs -> ConsolePoll]
        /\ \A s \in 0..MaxJobs : poll'[s] = IF s = r THEN new ELSE poll[s]
    BY <1>1, <2>3, <2>4, <2>5
  <2>7. \A i \in JobIds : jobs'[i] = IF i = j THEN row ELSE jobs[i]
    BY <1>1, <2>3
  <2>8. ASSUME NEW s \in 0..MaxJobs, poll'[s].owned # 0
        PROVE  /\ jobs'[poll'[s].owned].status = "RUNNING" /\ jobs'[poll'[s].owned].lease = "live"
               /\ poll'[s].processed < MaxPerPoll
               /\ \A q \in 0..MaxJobs : poll'[q].owned = poll'[s].owned => q = s
    <3>1. CASE s = r
      BY <1>2, <1>3, <2>2, <2>5, <2>6, <2>7, <3>1
    <3>2. CASE s # r
      <4>1. poll'[s] = poll[s] /\ poll[s].owned \in JobIds /\ poll[s].owned # j
        BY <1>3, <2>6, <2>8, <3>2, Owners
      <4>2. jobs'[poll[s].owned] = jobs[poll[s].owned]
        BY <2>7, <4>1
      <4>3. \A q \in 0..MaxJobs : poll'[q].owned = poll[s].owned => q = s
        BY <2>5, <2>6, <2>8, <4>1, Owners
      <4> QED BY <2>8, <4>1, <4>2, <4>3, Owners
    <3> QED BY <3>1, <3>2
  <2>9. OwnedRuns'
    BY <2>8 DEF OwnedRuns, Has
  <2> QED BY <1>2, <1>4, <2>2, <2>3, <2>6, <2>9, JobStep
<1>6. CASE ~ (jobs[j].attempts < JobAttempts)
  <2>1. PICK row : row = Row(j, "FAILED", "none")
    OBVIOUS
  <2>2. row \in JobRow /\ row.status = "FAILED"
    BY <1>1, <2>1 DEF Row, JobRow, JobStatuses
  <2>3. jobs' = [jobs EXCEPT ![j] = row] /\ poll' = poll
    BY <1>6, <2>1 DEF ClaimJob
  <2>4. OwnedRuns'
    BY <1>3, <2>3, OwnedStay
  <2> QED BY <1>1, <1>2, <1>4, <2>2, <2>3, <2>4, JobStep
<1> QED BY <1>5, <1>6

\* A run that finishes, is cut short or killed lets go of its job.
LEMMA LetGoSteps ==
  ASSUME ConsoleIInv, NEW r \in 0..MaxJobs, NEW outcome \in {"DONE", "FAILED"},
         FinishJob(r, outcome) \/ CutJob(r) \/ Killed(r)
  PROVE  ConsoleIInv'
<1> DEFINE j == poll[r].owned
<1>1. /\ jobs \in [JobIds -> JobRow] /\ poll \in [0..MaxJobs -> ConsolePoll]
      /\ poll[r] \in ConsolePoll /\ MaxPerPoll \in Nat /\ MaxParts \in Nat /\ j # 0 /\ UNCHANGED console
  BY ConsoleTypes, ConsoleConstants DEF ConsoleIInv, FinishJob, CutJob, Killed
<1>2. /\ j \in JobIds /\ jobs[j] \in JobRow /\ jobs[j].status = "RUNNING" /\ poll[r].processed < MaxPerPoll
      /\ \A q \in 0..MaxJobs : poll[q].owned = j => q = r
  BY <1>1, Owners
<1>3. ~JobEnded(j)
  BY <1>2 DEF JobEnded, Has
<1>4. \E row \in JobRow : jobs' = [jobs EXCEPT ![j] = row] /\ row.status # "none"
  <2>1. CASE FinishJob(r, outcome)
    <3>1. Row(j, outcome, "none") \in JobRow /\ Row(j, outcome, "none").status = outcome
      BY <1>2 DEF Row, JobRow, JobStatuses
    <3>2. jobs' = [jobs EXCEPT ![j] = Row(j, outcome, "none")]
      BY <2>1 DEF FinishJob
    <3> QED BY <3>1, <3>2
  <2>2. CASE CutJob(r)
    <3>1. PICK row : row = [Row(j, "QUEUED", "none") EXCEPT !.attempts = 0, !.parts = jobs[j].parts + 1]
      OBVIOUS
    <3>2. row \in JobRow /\ row.status = "QUEUED"
      <4>1. jobs[j].parts \in 0..MaxParts /\ jobs[j].parts < MaxParts
        BY <1>2, <2>2 DEF CutJob, JobRow
      <4>2. PICK p : p = jobs[j].parts + 1
        OBVIOUS
      <4>3. p \in 0..MaxParts
        BY <1>1, <4>1, <4>2
      <4>4. row = [jobs[j] EXCEPT !.status = "QUEUED", !.lease = "none", !.attempts = 0, !.parts = p]
        BY <1>2, <3>1, <4>2 DEF Row, JobRow
      <4> QED BY <1>2, <4>3, <4>4, ConsoleConstants DEF JobRow, JobStatuses
    <3>3. jobs' = [jobs EXCEPT ![j] = row]
      BY <1>1, <1>2, <2>2, <3>1 DEF CutJob, Row, JobRow
    <3> QED BY <3>2, <3>3
  <2>3. CASE Killed(r)
    <3>1. PICK row : row = [jobs[j] EXCEPT !.lease = "dead"]
      OBVIOUS
    <3>2. row \in JobRow /\ row.status = "RUNNING"
      BY <1>2, <3>1 DEF JobRow
    <3>3. jobs' = [jobs EXCEPT ![j] = row]
      BY <2>3, <3>1 DEF Killed
    <3> QED BY <3>2, <3>3
  <2> QED BY <2>1, <2>2, <2>3
<1>5. \E new \in ConsolePoll : poll' = [poll EXCEPT ![r] = new] /\ new.owned = 0
  <2>1. CASE FinishJob(r, outcome)
    <3>1. PICK new : new = [poll[r] EXCEPT !.owned = 0, !.processed = poll[r].processed + 1]
      OBVIOUS
    <3>2. new \in ConsolePoll /\ new.owned = 0
      <4>1. poll[r].processed \in 0..MaxPerPoll
        BY <1>1 DEF ConsolePoll
      <4>2. PICK p : p = poll[r].processed + 1
        OBVIOUS
      <4>3. p \in 0..MaxPerPoll
        BY <1>1, <1>2, <4>1, <4>2
      <4>4. new = [poll[r] EXCEPT !.owned = 0, !.processed = p]
        BY <3>1, <4>2
      <4> QED BY <1>1, <4>3, <4>4, ConsoleConstants DEF ConsolePoll
    <3>3. poll' = [poll EXCEPT ![r] = new]
      BY <1>1, <2>1, <3>1 DEF FinishJob, ConsolePoll
    <3> QED BY <3>2, <3>3
  <2>2. CASE CutJob(r)
    <3>1. [on |-> TRUE, owned |-> 0, processed |-> MaxPerPoll] \in ConsolePoll
      BY <1>1, ConsoleConstants DEF ConsolePoll
    <3>2. poll' = [poll EXCEPT ![r] = [on |-> TRUE, owned |-> 0, processed |-> MaxPerPoll]]
      BY <2>2 DEF CutJob
    <3> QED BY <3>1, <3>2
  <2>3. CASE Killed(r)
    <3>1. NoPoll \in ConsolePoll /\ NoPoll.owned = 0
      BY ConsoleTypes DEF ConsoleIInv, NoPoll
    <3>2. poll' = [poll EXCEPT ![r] = NoPoll]
      BY <2>3 DEF Killed
    <3> QED BY <3>1, <3>2
  <2> QED BY <2>1, <2>2, <2>3
<1>6. PICK row \in JobRow : jobs' = [jobs EXCEPT ![j] = row] /\ row.status # "none"
  BY <1>4
<1>7. PICK new \in ConsolePoll : poll' = [poll EXCEPT ![r] = new] /\ new.owned = 0
  BY <1>5
<1>8. /\ poll' \in [0..MaxJobs -> ConsolePoll]
      /\ \A s \in 0..MaxJobs : poll'[s] = IF s = r THEN new ELSE poll[s]
  BY <1>1, <1>7
<1>9. OwnedRuns'
  <2> HIDE DEF j
  <2>1. \A s \in 0..MaxJobs :
           \/ poll'[s].owned = 0
           \/ /\ poll'[s].owned = poll[s].owned /\ poll'[s].owned # j
              /\ poll'[s].processed = poll[s].processed
    BY <1>2, <1>7, <1>8
  <2> QED BY <1>2, <1>6, <2>1, OwnedStay
<1> HIDE DEF j
<1> QED BY <1>1, <1>2, <1>3, <1>6, <1>8, <1>9, JobStep

\* The lease of a dead worker ends, an ended job's row is pruned.
LEMMA RowSteps ==
  ASSUME ConsoleIInv, NEW j \in JobIds, LeaseEnds(j) \/ Prune(j)
  PROVE  ConsoleIInv'
<1>1. /\ jobs \in [JobIds -> JobRow] /\ poll \in [0..MaxJobs -> ConsolePoll] /\ jobs[j] \in JobRow
      /\ UNCHANGED console /\ poll' = poll
  BY ConsoleTypes DEF ConsoleIInv, LeaseEnds, Prune
<1>2. \A s \in 0..MaxJobs : poll[s].owned # j
  <2>1. jobs[j].lease = "dead" \/ jobs[j].status \in {"DONE", "FAILED"}
    BY DEF LeaseEnds, Prune, Has
  <2> QED BY <2>1, Owners, ConsoleConstants
<1>3. \E row \in JobRow : /\ jobs' = [jobs EXCEPT ![j] = row]
                          /\ row.status = jobs[j].status \/ row.status = "pruned"
  <2>1. CASE LeaseEnds(j)
    <3>1. PICK row : row = [jobs[j] EXCEPT !.lease = "over"]
      OBVIOUS
    <3>2. row \in JobRow /\ row.status = jobs[j].status
      BY <1>1, <3>1 DEF JobRow
    <3>3. jobs' = [jobs EXCEPT ![j] = row]
      BY <2>1, <3>1 DEF LeaseEnds
    <3> QED BY <3>2, <3>3
  <2>2. CASE Prune(j)
    <3>1. PICK row : row = [NoJob EXCEPT !.status = "pruned"]
      OBVIOUS
    <3>2. row \in JobRow /\ row.status = "pruned"
      BY <3>1, ConsoleConstants DEF NoJob, JobRow, JobStatuses
    <3>3. jobs' = [jobs EXCEPT ![j] = row]
      BY <2>2, <3>1 DEF Prune
    <3> QED BY <3>2, <3>3
  <2> QED BY <2>1, <2>2
<1>4. PICK row \in JobRow : /\ jobs' = [jobs EXCEPT ![j] = row]
                            /\ row.status = jobs[j].status \/ row.status = "pruned"
  BY <1>3
<1>5. /\ JobEnded(j) => row.status \in {"DONE", "FAILED", "pruned"}
      /\ ~Has(j, {"none"}) => row.status # "none"
  BY <1>4 DEF JobEnded, Has
<1>6. OwnedRuns'
  BY <1>1, <1>2, <1>4, OwnedStay
<1> QED BY <1>1, <1>4, <1>5, <1>6, JobStep

LEMMA ConsoleStart == ASSUME ConsoleInit PROVE ConsoleIInv
<1>1. /\ NoJob \in JobRow /\ NoPoll \in ConsolePoll /\ NoPoll.owned = 0 /\ SaysNothing \in Said
      /\ SaysNothing.text = ""
  BY ConsoleConstants DEF NoJob, JobRow, JobStatuses, NoPoll, ConsolePoll, SaysNothing, Said
<1>2. NewConsole("none") \in Console
  BY <1>1, ConsoleConstants DEF NewConsole, Console
<1>3. ConsoleTypeOK
  BY <1>1, <1>2 DEF ConsoleInit, ConsoleTypeOK
<1>4. OwnedRuns
  BY <1>1 DEF ConsoleInit, OwnedRuns
<1>5. WatchedThere /\ SaidOfJobs
  BY <1>1 DEF ConsoleInit, WatchedThere, SaidOfJobs, NewConsole
<1> QED BY <1>3, <1>4, <1>5 DEF ConsoleIInv

LEMMA ConsoleKept == ASSUME ConsoleIInv, [ConsoleNext]_consoleVars PROVE ConsoleIInv'
<1>1. ASSUME NEW j \in JobIds, NEW told \in BOOLEAN, Ingested(j, told) PROVE ConsoleIInv'
  BY <1>1, WatchStep
<1>2. ASSUME NEW j \in JobIds, Uploaded(j) PROVE ConsoleIInv'
  <2>1. TRUE \in BOOLEAN
    OBVIOUS
  <2> QED BY <1>2, <2>1, WatchStep
<1>3. ASSUME NEW j \in JobIds,
             IngestedEarlier(j) \/ EnqueueElsewhere(j) \/ LeaseEnds(j) \/ Prune(j)
      PROVE  ConsoleIInv'
  BY <1>3, EnqueueSteps, RowSteps
<1>4. ASSUME NEW J \in SUBSET JobIds, NEW stale \in BOOLEAN, SyncStarted(J, stale) PROVE ConsoleIInv'
  BY <1>4, SyncStep
<1>5. ASSUME NEW r \in 0..MaxJobs, SendPoll(r) \/ AnswerLost(r) \/ Answered(r) PROVE ConsoleIInv'
  BY <1>5, SendSteps, AnswerSteps
<1>6. ASSUME NEW r \in 0..MaxJobs, NEW j \in JobIds, ClaimJob(r, j) PROVE ConsoleIInv'
  BY <1>6, ClaimStep
<1>7. ASSUME NEW r \in 0..MaxJobs, NEW outcome \in {"DONE", "FAILED"}, FinishJob(r, outcome)
      PROVE  ConsoleIInv'
  BY <1>7, LetGoSteps
<1>8. ASSUME NEW r \in 0..MaxJobs, CutJob(r) \/ Killed(r) PROVE ConsoleIInv'
  <2>1. "DONE" \in {"DONE", "FAILED"}
    OBVIOUS
  <2> QED BY <1>8, <2>1, LetGoSteps
<1>9. ClickIngest => EnterUrl
  BY DEF ClickIngest
<1> QED BY <1>1, <1>2, <1>3, <1>4, <1>5, <1>6, <1>7, <1>8, <1>9, PageAlone DEF ConsoleNext

\* What the documents page says has ended has ended, and is said where such jobs are
\* started from, whatever polls drain the queue, workers die, answers come late or
\* not, and rows are pruned (Tell): for any number of jobs and attempts.
THEOREM ConsoleCorrect == ConsoleSpec => []ConsoleInv
<1>1. ConsoleInit => ConsoleIInv
  BY ConsoleStart
<1>2. ConsoleIInv /\ [ConsoleNext]_consoleVars => ConsoleIInv'
  BY ConsoleKept
<1>3. ConsoleIInv => ConsoleInv
  BY DEF ConsoleIInv, ConsoleInv, SaidOfJobs, SaidIsTrue
<1> QED BY <1>1, <1>2, <1>3, PTL DEF ConsoleSpec

-----------------------------------------------------------------------------
(* The list of documents: what is shown after it has been read again       *)

\* The answer to come is what is stored, and so is the list when none is to come,
\* unless documents changed since.
ListShape ==
  fileList = [has |-> fileList.has, data |-> fileList.data, fetch |-> fileList.fetch,
              read |-> fileList.read]
ReadIsStored == fileList.fetch = "read" /\ ~unread => fileList.read = StoredFiles
ListIInv == ListShape /\ ReadIsStored /\ DocumentsAreStored

\* Documents stay, and the page's copy of them.
LEMMA NothingListed ==
  ASSUME ListIInv, UNCHANGED <<fileList, unread>>, UNCHANGED Corpus
  PROVE  ListIInv'
<1>1. StoredFiles' = StoredFiles
  BY DEF StoredFiles, Corpus
<1> QED BY <1>1 DEF ListIInv, ListShape, ReadIsStored, DocumentsAreStored

\* The page asks for the list, and what was under way is cancelled or joined.
LEMMA ListRefreshed ==
  ASSUME ListIInv, RefreshFiles, UNCHANGED Corpus
  PROVE  ListIInv'
<1>1. StoredFiles' = StoredFiles
  BY DEF StoredFiles, Corpus
<1>2. CASE FirstRead
  BY <1>1, <1>2 DEF ListIInv, ListShape, ReadIsStored, DocumentsAreStored, RefreshFiles, FirstRead
<1>3. CASE ~FirstRead
  BY <1>3 DEF ListIInv, ListShape, ReadIsStored, DocumentsAreStored, RefreshFiles
<1> QED BY <1>2, <1>3

\* Documents change, and the page is not told.
LEMMA ListOutdated ==
  ASSUME ListIInv, UNCHANGED fileList, unread' = TRUE
  PROVE  ListIInv'
BY DEF ListIInv, ListShape, ReadIsStored, DocumentsAreStored

LEMMA ListStarts == ASSUME ListInit PROVE ListIInv
BY DEF ListInit, ListIInv, ListShape, ReadIsStored, DocumentsAreStored

LEMMA ListReadSteps ==
  ASSUME ListIInv, ReadList \/ ListAnswered \/ ListLost
  PROVE  ListIInv'
<1>1. CASE ReadList
  <2>1. StoredFiles' = StoredFiles
    BY <1>1 DEF ReadList, StoredFiles, Corpus
  <2> QED BY <1>1, <2>1
       DEF ReadList, ListIInv, ListShape, ReadIsStored, DocumentsAreStored
<1>2. CASE ListAnswered
  <2>1. StoredFiles' = StoredFiles
    BY <1>2 DEF ListAnswered, StoredFiles, Corpus
  <2> QED BY <1>2, <2>1
       DEF ListAnswered, ListIInv, ListShape, ReadIsStored, DocumentsAreStored
<1>3. CASE ListLost
  BY <1>3 DEF ListLost, ListIInv, ListShape, ReadIsStored, DocumentsAreStored
<1> QED BY <1>1, <1>2, <1>3

\* What an administrator does on the page before anything is sent or answered.
LEMMA DeskSteps ==
  ASSUME ListIInv,
         \/ ToggleSelectAll \/ CloseConfirm \/ DeleteFails
         \/ HandleBulkDelete \/ BulkFinds \/ BulkFails \/ HandleClearCache \/ ClearFails
         \/ \E on \in BOOLEAN : SearchFiles(on) \/ CacheCleared(on)
         \/ \E sort \in {"updated", "title", "chunks"} : SortBy(sort)
         \/ \E what \in {"bulk", "clear"} : AskConfirm(what)
         \/ \E d \in Files : \/ ToggleFile(d) \/ HandleDelete(d) \/ AnswerKept(d)
                             \/ \E told \in BOOLEAN : BulkInvalidates(d, told)
  PROVE  ListIInv'
<1>1. UNCHANGED <<fileList, unread>> /\ UNCHANGED Corpus
  BY DEF ToggleSelectAll, CloseConfirm, DeleteFails, HandleBulkDelete, BulkFinds, BulkFails,
         HandleClearCache, ClearFails, SearchFiles, CacheCleared, SortBy, AskConfirm, ToggleFile,
         HandleDelete, AnswerKept, BulkInvalidates, SettledActions, Deletions
<1> QED BY <1>1, NothingListed

LEMMA DeletingSteps ==
  ASSUME ListIInv,
         \/ JobReported \/ BulkDeletes \/ BulkDeleted \/ ClearAnswered
         \/ \E on \in BOOLEAN : Deleted(on)
         \/ \E d \in Files : \/ RowDeleted(d) \/ FileDeletedElsewhere(d)
                             \/ \E chunks \in 0..1 : IngestedElsewhere(d, chunks)
  PROVE  ListIInv'
<1>1. CASE JobReported \/ BulkDeleted \/ ClearAnswered \/ (\E on \in BOOLEAN : Deleted(on))
  BY <1>1, ListRefreshed DEF JobReported, BulkDeleted, ClearAnswered, Deleted
<1>2. CASE BulkDeletes
  <2>1. CASE bulk.found = {}
    BY <1>2, <2>1, NothingListed DEF BulkDeletes, Corpus
  <2>2. CASE bulk.found # {}
    BY <1>2, <2>2, ListOutdated DEF BulkDeletes
  <2> QED BY <2>1, <2>2
<1>3. ASSUME NEW d \in Files, \/ RowDeleted(d) \/ FileDeletedElsewhere(d)
                              \/ \E chunks \in 0..1 : IngestedElsewhere(d, chunks)
      PROVE  ListIInv'
  BY <1>3, ListOutdated DEF RowDeleted, FileDeletedElsewhere, IngestedElsewhere
<1> QED BY <1>1, <1>2, <1>3

LEMMA ListKept ==
  ASSUME ListIInv, [ListNext]_listVars
  PROVE  ListIInv'
<1>1. CASE UNCHANGED listVars
  BY <1>1, NothingListed DEF listVars, Corpus
<1>2. CASE ListNext
  <2>1. ASSUME NEW d \in Files,
               \/ ToggleFile(d) \/ HandleDelete(d) \/ RowDeleted(d)
               \/ FileDeletedElsewhere(d) \/ AnswerKept(d)
               \/ \E told \in BOOLEAN : BulkInvalidates(d, told)
               \/ \E chunks \in 0..1 : IngestedElsewhere(d, chunks)
        PROVE  ListIInv'
    BY <2>1, DeskSteps, DeletingSteps
  <2>2. ASSUME NEW on \in BOOLEAN, SearchFiles(on) \/ Deleted(on) \/ CacheCleared(on)
        PROVE  ListIInv'
    BY <2>2, DeskSteps, DeletingSteps
  <2> QED BY <1>2, <2>1, <2>2, DeskSteps, DeletingSteps, ListReadSteps DEF ListNext
<1> QED BY <1>1, <1>2

\* Whatever read was under way when a document was deleted here, a job ended or the
\* cache was cleared, the list of documents that is not being read is the one stored,
\* unless reading failed or others changed documents since (utils.source.list
\* invalidated by every mutation): for any documents and any size of a deletion.
THEOREM ListCorrect == ListSpec => []DocumentsAreStored
<1>1. ListInit => ListIInv
  BY ListStarts
<1>2. ListIInv /\ [ListNext]_listVars => ListIInv'
  BY ListKept
<1>3. ListIInv => DocumentsAreStored
  BY DEF ListIInv
<1> QED BY <1>1, <1>2, <1>3, PTL DEF ListSpec

-----------------------------------------------------------------------------
(* The sidebar: its list against the conversations stored, and the palette *)

ChatListShape ==
  chatList = [has |-> chatList.has, data |-> chatList.data, stale |-> chatList.stale,
              fetch |-> chatList.fetch, read |-> chatList.read]

\* The answer to come is what is stored, unless the list changed since.
ReadIsListing == chatList.fetch = "read" /\ ~untold => chatList.read = Listing

SidebarIInv == ChatListShape /\ ReadIsListing /\ ListIsStored /\ palette \in Palette /\ SelectionInList

\* The list of the cache against the rows: nothing changed, it is to be read again,
\* or something changed it was not told of.
ListTold ==
  \/ UNCHANGED <<chatList, untold>> /\ UNCHANGED Stored
  \/ InvalidateList
  \/ UNCHANGED chatList /\ untold' = TRUE

LEMMA ToldSteps ==
  ASSUME SidebarIInv, ListTold, UNCHANGED palette
  PROVE  SidebarIInv'
<1>1. CASE UNCHANGED <<chatList, untold>> /\ UNCHANGED Stored
  <2>1. Listing' = Listing
    BY <1>1 DEF Listing, Stored
  <2> QED BY <1>1, <2>1 DEF SidebarIInv, ChatListShape, ReadIsListing, ListIsStored, SelectionInList,
                            Commands
<1>2. CASE InvalidateList
  <2>1. CASE JoinsFirstLoad
    BY <1>2, <2>1 DEF SidebarIInv, ChatListShape, ReadIsListing, ListIsStored, SelectionInList,
                      Commands, InvalidateList, JoinsFirstLoad
  <2>2. CASE ~JoinsFirstLoad
    BY <1>2, <2>2 DEF SidebarIInv, ChatListShape, ReadIsListing, ListIsStored, SelectionInList,
                      Commands, InvalidateList
  <2> QED BY <2>1, <2>2
<1>3. CASE UNCHANGED chatList /\ untold' = TRUE
  BY <1>3 DEF SidebarIInv, ChatListShape, ReadIsListing, ListIsStored, SelectionInList, Commands
<1> QED BY <1>1, <1>2, <1>3 DEF ListTold

\* A text of the palette, and the number of its commands.
LEMMA CommandsCounted ==
  ASSUME NEW text \in DOMAIN PaletteFilter
  PROVE  /\ PaletteFilter[text] \in Seq(STRING) /\ Len(PaletteFilter[text]) \in Nat
         /\ PaletteFilter[text] # <<>> => Len(PaletteFilter[text]) > 0
<1>1. PaletteFilter[text] \in Seq(STRING)
  BY SidebarAssumption
<1> QED BY <1>1

LEMMA SidebarStarts == ASSUME SidebarInit PROVE SidebarIInv
<1>1. palette \in Palette /\ palette.open = FALSE
  BY SidebarAssumption DEF SidebarInit, Palette
<1> QED BY <1>1 DEF SidebarInit, SidebarIInv, ChatListShape, ReadIsListing, ListIsStored, SelectionInList

LEMMA ListingSteps ==
  ASSUME SidebarIInv, \/ ListReads \/ ListArrives \/ ListFails
                      \/ \E old \in BOOLEAN : OpenDrawer(old)
  PROVE  SidebarIInv'
<1>1. Listing' = Listing /\ UNCHANGED palette
  BY DEF ListReads, ListArrives, ListFails, OpenDrawer, Listing, Stored, Shell
<1>2. palette' \in Palette /\ SelectionInList'
  BY <1>1 DEF SidebarIInv, SelectionInList, Commands
<1>3. CASE ListReads
  BY <1>1, <1>2, <1>3 DEF ListReads, SidebarIInv, ChatListShape, ReadIsListing, ListIsStored
<1>4. CASE ListArrives
  BY <1>1, <1>2, <1>4 DEF ListArrives, SidebarIInv, ChatListShape, ReadIsListing, ListIsStored
<1>5. CASE ListFails
  BY <1>1, <1>2, <1>5 DEF ListFails, SidebarIInv, ChatListShape, ReadIsListing, ListIsStored
<1>6. ASSUME NEW old \in BOOLEAN, OpenDrawer(old) PROVE SidebarIInv'
  BY <1>1, <1>2, <1>6 DEF OpenDrawer, SidebarIInv, ChatListShape, ReadIsListing, ListIsStored
<1> QED BY <1>3, <1>4, <1>5, <1>6

\* What is done in the rows, and what others do.
LEMMA RowStepsOfList ==
  ASSUME SidebarIInv, NEW c \in Chats,
         \/ CreateChat(c) \/ TurnReads(c) \/ CallAnswered(c) \/ CallFails(c) \/ DeletedElsewhere(c)
         \/ \E title \in AllTitles : TurnWrites(c, title)
         \/ \E b \in Bars : \/ TogglePin(b, c) \/ StartRename(b, c) \/ CancelRename(b, c)
                            \/ SaveRename(b, c) \/ AskDelete(b, c) \/ KeepChat(b, c)
                            \/ RemoveChat(b, c) \/ TapDelete(b, c)
                            \/ \E title \in ChatTitles : TypeTitle(b, c, title)
  PROVE  SidebarIInv'
<1>1. ASSUME \/ CreateChat(c) \/ TurnReads(c) \/ CallAnswered(c) \/ CallFails(c) \/ DeletedElsewhere(c)
             \/ \E title \in AllTitles : TurnWrites(c, title)
      PROVE  ListTold /\ UNCHANGED palette
  BY <1>1 DEF ListTold, CreateChat, TurnReads, CallAnswered, TitleAnswers, CallFails,
              DeletedElsewhere, TurnWrites, Shell
<1>2. ASSUME NEW b \in Bars,
             \/ TogglePin(b, c) \/ StartRename(b, c) \/ CancelRename(b, c)
             \/ SaveRename(b, c) \/ AskDelete(b, c) \/ KeepChat(b, c)
             \/ RemoveChat(b, c) \/ TapDelete(b, c)
             \/ \E title \in ChatTitles : TypeTitle(b, c, title)
      PROVE  ListTold /\ UNCHANGED palette
  BY <1>2 DEF ListTold, TogglePin, StartRename, CancelRename, SaveRename, AskDelete, KeepChat,
              RemoveChat, TapDelete, TypeTitle, Shell
<1> QED BY <1>1, <1>2, ToldSteps

\* The palette: the rows are stored anew at most, and then the list is not told.
LEMMA PaletteKept ==
  ASSUME SidebarIInv, palette' \in Palette, SelectionInList', UNCHANGED chatList,
         untold' = TRUE \/ (UNCHANGED untold /\ UNCHANGED Stored)
  PROVE  SidebarIInv'
<1>1. CASE untold' = TRUE
  BY <1>1 DEF SidebarIInv, ChatListShape, ReadIsListing, ListIsStored
<1>2. CASE UNCHANGED untold /\ UNCHANGED Stored
  <2>1. Listing' = Listing
    BY <1>2 DEF Listing, Stored
  <2> QED BY <1>2, <2>1 DEF SidebarIInv, ChatListShape, ReadIsListing, ListIsStored
<1> QED BY <1>1, <1>2

LEMMA PaletteSteps ==
  ASSUME SidebarIInv,
         \/ TogglePalette \/ ClosePalette
         \/ \E text \in DOMAIN PaletteFilter : TypeCommand(text)
         \/ \E step \in {-1, 1} : ArrowKey(step)
         \/ \E i \in 0..(Len(PaletteFilter[AllCommands]) - 1) : HoverCommand(i)
         \/ \E c \in Chats : RunCommand(c)
  PROVE  SidebarIInv'
<1>0. /\ palette \in Palette /\ palette.open \in BOOLEAN /\ palette.text \in DOMAIN PaletteFilter
      /\ palette.active \in Nat
  BY DEF SidebarIInv, Palette
<1>1. CASE TogglePalette \/ ClosePalette \/ \E c \in Chats : RunCommand(c)
  <2>1. /\ palette'.text = AllCommands /\ palette'.active = 0
        /\ palette' = [open |-> palette'.open, text |-> palette'.text, active |-> palette'.active]
        /\ palette'.open \in BOOLEAN
    <3>1. CASE TogglePalette
      <4>1. palette' = [open |-> ~palette.open, text |-> AllCommands, active |-> 0]
        BY <3>1 DEF TogglePalette
      <4>2. (~palette.open) \in BOOLEAN
        OBVIOUS
      <4> QED BY <4>1, <4>2
    <3>2. CASE ClosePalette
      <4>1. palette' = [open |-> FALSE, text |-> AllCommands, active |-> 0]
        BY <1>0, <3>2 DEF ClosePalette, Palette
      <4> QED BY <4>1
    <3>3. CASE \E c \in Chats : RunCommand(c)
      <4>1. palette' = [open |-> FALSE, text |-> AllCommands, active |-> 0]
        BY <3>3 DEF RunCommand
      <4> QED BY <4>1
    <3> QED BY <1>1, <3>1, <3>2, <3>3
  <2>2. palette' \in Palette
    BY <2>1, SidebarAssumption DEF Palette
  <2>3. SelectionInList'
    BY <2>1, SidebarAssumption, CommandsCounted DEF SelectionInList, Commands
  <2>4. UNCHANGED chatList /\ (untold' = TRUE \/ (UNCHANGED untold /\ UNCHANGED Stored))
    BY <1>1 DEF TogglePalette, ClosePalette, RunCommand
  <2> QED BY <2>2, <2>3, <2>4, PaletteKept
<1>2. ASSUME NEW text \in DOMAIN PaletteFilter, TypeCommand(text) PROVE SidebarIInv'
  <2>1. palette' \in Palette /\ palette'.text = text /\ palette'.active = 0
    BY <1>0, <1>2 DEF TypeCommand, Palette
  <2>2. SelectionInList'
    BY <2>1, CommandsCounted DEF SelectionInList, Commands
  <2> QED BY <1>2, <2>1, <2>2, PaletteKept DEF TypeCommand
<1>3. ASSUME NEW step \in {-1, 1}, ArrowKey(step) PROVE SidebarIInv'
  <2> DEFINE n == Len(Commands)
             next == (palette.active + step + n) % n
  <2>1. n \in Nat /\ n > 0
    BY <1>0, <1>3, CommandsCounted DEF ArrowKey, Commands
  <2>2. palette.active + step + n \in Int
    BY <1>0, <2>1
  <2>3. next \in 0..(n - 1)
    <3> HIDE DEF n
    <3> QED BY <2>1, <2>2
  <2>4. palette' = [palette EXCEPT !.active = next]
    BY <1>3 DEF ArrowKey
  <2>5. /\ palette' \in Palette /\ palette'.text = palette.text /\ palette'.active = next
    <3> HIDE DEF next, n
    <3>1. next \in Nat
      BY <2>1, <2>3
    <3> QED BY <1>0, <2>4, <3>1 DEF Palette
  <2>6. SelectionInList'
    <3>1. Commands' = Commands
      BY <2>5 DEF Commands
    <3>2. palette'.active < n
      <4> HIDE DEF next, n
      <4> QED BY <2>1, <2>3, <2>5
    <3> QED BY <3>1, <3>2 DEF SelectionInList
  <2> QED BY <1>3, <2>5, <2>6, PaletteKept DEF ArrowKey
<1>4. ASSUME NEW i \in 0..(Len(PaletteFilter[AllCommands]) - 1), HoverCommand(i) PROVE SidebarIInv'
  <2>1. i \in Nat
    BY CommandsCounted, SidebarAssumption
  <2>2. palette' \in Palette /\ palette'.text = palette.text /\ palette'.active = i
    BY <1>0, <1>4, <2>1 DEF HoverCommand, Palette
  <2>3. SelectionInList'
    BY <1>4, <2>2 DEF SelectionInList, Commands, HoverCommand
  <2> QED BY <1>4, <2>2, <2>3, PaletteKept DEF HoverCommand
<1> QED BY <1>1, <1>2, <1>3, <1>4

LEMMA SidebarKept ==
  ASSUME SidebarIInv, [SidebarNext]_sidebarVars
  PROVE  SidebarIInv'
<1>1. CASE UNCHANGED sidebarVars \/ CloseDrawer \/ (\E days \in {1, 7} : DayPasses(days))
  <2>1. ListTold /\ UNCHANGED palette
    BY <1>1 DEF sidebarVars, CloseDrawer, DayPasses, ListTold, Stored, Shell
  <2> QED BY <2>1, ToldSteps
<1>2. CASE SidebarNext
  <2>1. ASSUME NEW c \in Chats,
               \/ CreateChat(c) \/ TurnReads(c) \/ CallAnswered(c) \/ CallFails(c)
               \/ RunCommand(c) \/ DeletedElsewhere(c)
               \/ \E title \in AllTitles : TurnWrites(c, title)
               \/ \E b \in Bars : \/ TogglePin(b, c) \/ StartRename(b, c) \/ CancelRename(b, c)
                                  \/ SaveRename(b, c) \/ AskDelete(b, c) \/ KeepChat(b, c)
                                  \/ RemoveChat(b, c) \/ TapDelete(b, c)
                                  \/ \E title \in ChatTitles : TypeTitle(b, c, title)
        PROVE  SidebarIInv'
    BY <2>1, RowStepsOfList, PaletteSteps
  <2> QED BY <1>1, <1>2, <2>1, ListingSteps, PaletteSteps DEF SidebarNext
<1> QED BY <1>1, <1>2

\* Whatever is renamed, deleted and asked in the rows of bar and drawer, a list that
\* is neither stale nor being read is the one stored, unless something the cache is
\* not told of changed it; and Enter in the palette always has a command to run while
\* any matches: for any conversations, titles and commands.
THEOREM SidebarCorrect == SidebarSpec => [](ListIsStored /\ SelectionInList)
<1>1. SidebarInit => SidebarIInv
  BY SidebarStarts
<1>2. SidebarIInv /\ [SidebarNext]_sidebarVars => SidebarIInv'
  BY SidebarKept
<1>3. SidebarIInv => ListIsStored /\ SelectionInList
  BY DEF SidebarIInv
<1> QED BY <1>1, <1>2, <1>3, PTL DEF SidebarSpec

-----------------------------------------------------------------------------
(* The table of recent queries: pages that are read while questions and    *)
(* answers arrive, for any questions, page size and window                 *)

LogTypes ==
  /\ log \in Seq(Message) /\ base \in 0..Len(log) /\ calls \in [LogCalls -> LogCall]
  /\ pages = [rows |-> pages.rows, cursor |-> pages.cursor, more |-> pages.more]
  /\ pages.rows \in Seq(SUBSET Nat) /\ pages.cursor \in Nat /\ pages.more \in BOOLEAN

\* Of the mode that a question of row i was given, or of one it was asked again in.
InModeOf(mode, i) == i \in RowsOf("USER") /\ (mode = log[i].mode \/ i \in reasked)

\* A stream and an answer have a question, which is before the answer; and questions
\* are not deleted.
AnswersOwned ==
  /\ \A c \in LogCalls : calls[c].pc = "answering" => InModeOf(calls[c].mode, calls[c].row)
  /\ \A j \in RowsOf("ASSISTANT") : log[j].to < j /\ InModeOf(log[j].mode, log[j].to)
  /\ \A j \in found : j \in 1..Len(log) /\ j \notin RowsOf("USER")

\* The pages hold queries, none below where the next one starts.
PagesOfQueries ==
  /\ pages.more => pages.cursor # 0
  /\ \A m \in 1..Len(pages.rows) : pages.rows[m] \subseteq RowsOf("USER")
  /\ pages.more => \A m \in 1..Len(pages.rows) : \A i \in pages.rows[m] : i >= pages.cursor

LogIInv == LogTypes /\ AnswersOwned /\ PagesOfQueries /\ TableWhole

LEMMA LogParts ==
  ASSUME LogTypes
  PROVE  /\ Len(log) \in Nat /\ \A i \in 1..Len(log) : log[i] \in Message
         /\ AnsweredRows \subseteq RowsOf("USER") /\ base \in Nat
         /\ \A r : RowsOf(r) \subseteq 1..Len(log)
         /\ \A i : AnswersAfter(i) \subseteq 1..Len(log)
         /\ \A c \in LogCalls : calls[c] \in LogCall
BY DEF LogTypes, RowsOf, AnsweredRows, AnswersAfter

\* A row more leaves the others as they are.
LEMMA LogGrows ==
  ASSUME LogTypes, NEW row \in Message, log' = Append(log, row)
  PROVE  /\ Len(log') = Len(log) + 1 /\ log' \in Seq(Message) /\ log'[Len(log) + 1] = row
         /\ \A i \in 1..Len(log) : log'[i] = log[i]
         /\ \A r : RowsOf(r)' = RowsOf(r) \cup {i \in {Len(log) + 1} : row.role = r}
<1>0. Len(log) \in Nat
  BY DEF LogTypes
<1>1. /\ Len(log') = Len(log) + 1 /\ log' \in Seq(Message) /\ log'[Len(log) + 1] = row
      /\ \A i \in 1..Len(log) : log'[i] = log[i]
  BY DEF LogTypes
<1>2. \A r : RowsOf(r)' = RowsOf(r) \cup {i \in {Len(log) + 1} : row.role = r}
  <2> SUFFICES ASSUME NEW r, NEW i
               PROVE  i \in RowsOf(r)' <=> i \in RowsOf(r) \cup {k \in {Len(log) + 1} : row.role = r}
    OBVIOUS
  <2>1. i \in 1..Len(log') <=> i \in 1..Len(log) \/ i = Len(log) + 1
    BY <1>0, <1>1
  <2>2. i \in RowsOf(r)' <=> i \in 1..Len(log') /\ log'[i].role = r
    BY DEF RowsOf
  <2>3. i \in RowsOf(r) <=> i \in 1..Len(log) /\ log[i].role = r
    BY DEF RowsOf
  <2>4. Len(log) + 1 \notin 1..Len(log)
    BY <1>0
  <2> QED BY <1>0, <1>1, <2>1, <2>2, <2>3, <2>4
<1> QED BY <1>1, <1>2

\* Of indices there is a greatest one.
LEMMA GreatestIndex ==
  ASSUME NEW n \in Nat, NEW I, I \subseteq 1..n, I # {}
  PROVE  \E m \in I : \A i \in I : i <= m
<1> DEFINE J == {n + 1 - i : i \in I}
<1>1. J \subseteq 1..n /\ J # {}
  <2>1. \A i \in I : i \in 1..n
    OBVIOUS
  <2>2. \A i \in 1..n : n + 1 - i \in 1..n
    OBVIOUS
  <2> QED BY <2>1, <2>2
<1>2. PICK m \in J : \A j \in J : m <= j
  <2> HIDE DEF J
  <2> QED BY <1>1, LeastIndex
<1>3. PICK k \in I : m = n + 1 - k
  BY <1>2
<1>4. \A i \in I : n + 1 - k <= n + 1 - i
  BY <1>2, <1>3
<1>5. \A i \in I : i \in Int /\ k \in Int
  OBVIOUS
<1> QED BY <1>3, <1>4, <1>5

\* A page holds the newest of the rows below the cursor, and with one all newer ones.
LEMMA NewestAre ==
  ASSUME LogTypes, NEW cursor \in Nat
  PROVE  /\ NewestBelow(cursor) \subseteq RowsBelow(cursor) /\ RowsBelow(cursor) \subseteq AnsweredRows
         /\ RowsBelow(cursor) # {} => NewestBelow(cursor) # {}
         /\ NewestBelow(cursor) # {} =>
              /\ Min(NewestBelow(cursor)) \in NewestBelow(cursor)
              /\ \A i \in NewestBelow(cursor) : Min(NewestBelow(cursor)) <= i
         /\ \A n \in NewestBelow(cursor), i \in RowsBelow(cursor) : i >= n => i \in NewestBelow(cursor)
<1> DEFINE B == RowsBelow(cursor)
           N == NewestBelow(cursor)
           Above(i) == {j \in B : j > i}
<1>1. N \subseteq B /\ B \subseteq AnsweredRows /\ B \subseteq 1..Len(log) /\ Len(log) \in Nat
  <2>1. N \subseteq B /\ B \subseteq AnsweredRows
    BY DEF NewestBelow, RowsBelow
  <2> QED BY <2>1, LogParts
<1>2. IsFiniteSet(B)
  <2>1. IsFiniteSet(1..Len(log))
    BY <1>1, FS_Interval
  <2> QED BY <1>1, <2>1, FS_Subset
<1>3. \A i : i \in N <=> i \in B /\ Cardinality(Above(i)) < PageRows
  BY DEF NewestBelow
<1>4. \A i : IsFiniteSet(Above(i)) /\ Cardinality(Above(i)) \in Nat
  <2> HIDE DEF B
  <2> QED BY <1>2, FS_Subset, FS_CardinalityType
<1>5. ASSUME B # {} PROVE N # {}
  <2> HIDE DEF B, N
  <2>1. PICK m \in B : \A i \in B : i <= m
    BY <1>1, <1>5, GreatestIndex
  <2>2. Above(m) = {}
    <3> SUFFICES ASSUME NEW j \in B, j > m PROVE FALSE
      OBVIOUS
    <3>1. j <= m /\ j \in 1..Len(log) /\ m \in 1..Len(log)
      BY <1>1, <2>1
    <3> QED BY <1>1, <3>1
  <2>3. Cardinality(Above(m)) = 0
    BY <2>2, FS_EmptySet
  <2> QED BY <1>3, <2>1, <2>3, QueryLogAssumption
<1>6. ASSUME N # {} PROVE Min(N) \in N /\ \A i \in N : Min(N) <= i
  <2> HIDE DEF B, N
  <2>1. \E m \in N : \A i \in N : m <= i
    BY <1>1, <1>6, LeastIndex
  <2> QED BY <2>1 DEF Min
<1>7. ASSUME NEW n \in N, NEW i \in B, i >= n PROVE i \in N
  <2>1. Above(i) \subseteq Above(n)
    <3> SUFFICES ASSUME NEW j \in B, j > i PROVE j > n
      OBVIOUS
    <3>1. i \in 1..Len(log) /\ j \in 1..Len(log) /\ n \in 1..Len(log)
      BY <1>1
    <3> QED BY <1>1, <1>7, <3>1
  <2>2. Cardinality(Above(i)) <= Cardinality(Above(n))
    <3> HIDE DEF Above
    <3> QED BY <1>4, <2>1, FS_Subset
  <2>3. Cardinality(Above(i)) < PageRows
    <3> HIDE DEF Above
    <3> QED BY <1>3, <1>4, <2>2, QueryLogAssumption
  <2> QED BY <1>3, <2>3
<1> QED BY <1>1, <1>5, <1>6, <1>7

\* One page read with a cursor: where the next one starts, and what it leaves over.
LEMMA TablePage ==
  ASSUME LogTypes, NEW cursor \in Nat
  PROVE  LET got == RecentQueries(cursor) IN
         /\ got = [rows |-> got.rows, cursor |-> got.cursor, more |-> got.more]
         /\ got.rows = <<NewestBelow(cursor)>> /\ got.cursor \in Nat /\ got.more \in BOOLEAN
         /\ NewestBelow(cursor) \subseteq AnsweredRows
         /\ got.more => /\ got.cursor # 0 /\ (cursor = 0 \/ got.cursor < cursor)
                        /\ \A i \in NewestBelow(cursor) : i >= got.cursor
         /\ \A i \in RowsBelow(cursor) : (got.more => i >= got.cursor) => i \in NewestBelow(cursor)
<1> DEFINE got == RecentQueries(cursor)
           N == NewestBelow(cursor)
           B == RowsBelow(cursor)
<1>1. /\ got = [rows |-> got.rows, cursor |-> got.cursor, more |-> got.more]
      /\ got.rows = <<N>> /\ got.more = (N # B)
      /\ got.cursor = IF got.more THEN Min(N) ELSE 0
  BY DEF RecentQueries
<1>2. N \subseteq B /\ B \subseteq AnsweredRows /\ B \subseteq 1..Len(log) /\ Len(log) \in Nat
  BY LogParts, NewestAre
<1>3. CASE N = B
  <2>1. got.more = FALSE /\ got.cursor = 0
    BY <1>1, <1>3
  <2> HIDE DEF N, B, got
  <2>2. /\ 0 \in Nat /\ got.cursor \in Nat
    BY <2>1
  <2>3. got.more \in BOOLEAN /\ ~got.more
    BY <2>1
  <2> QED BY <1>1, <1>2, <1>3, <2>2, <2>3 DEF N, B, got
<1>4. CASE N # B
  <2>1. N # {} /\ Min(N) \in N /\ \A i \in N : Min(N) <= i
    BY <1>2, <1>4, NewestAre
  <2>2. got.more = TRUE /\ got.cursor = Min(N)
    BY <1>1, <1>4
  <2>3. \A i \in B : i >= Min(N) => i \in N
    BY <2>1, NewestAre
  <2>4. cursor = 0 \/ Min(N) < cursor
    BY <1>2, <2>1 DEF RowsBelow
  <2> HIDE DEF N, B, got
  <2>5. Min(N) \in Nat /\ Min(N) # 0
    <3>1. Min(N) \in 1..Len(log)
      BY <1>2, <2>1
    <3> QED BY <1>2, <3>1
  <2> QED BY <1>1, <1>2, <2>1, <2>2, <2>3, <2>4, <2>5 DEF N, B, got
<1> QED BY <1>3, <1>4

LEMMA LogStarts == ASSUME LogInit PROVE LogIInv
<1>1. Len(log) = 0 /\ log = <<>> /\ Len(pages.rows) = 0 /\ base = 0
  BY DEF LogInit, NoPages
<1>2. \A r : RowsOf(r) = {}
  BY <1>1 DEF RowsOf
<1>3. NoLogCall \in LogCall /\ NoLogCall.pc = "idle"
  BY QueryLogAssumption DEF NoLogCall, LogCall, LogModes
<1>4. calls \in [LogCalls -> LogCall] /\ \A c \in LogCalls : calls[c].pc # "answering"
  BY <1>3 DEF LogInit
<1> QED BY <1>1, <1>2, <1>4
    DEF LogInit, NoPages, LogIInv, LogTypes, AnswersOwned, PagesOfQueries, TableWhole

\* What disturbs no page: rows that come, answers that go, and what streams do.
LEMMA PagesUndisturbed ==
  ASSUME LogIInv, log' \in Seq(Message), Len(log) <= Len(log'), calls' \in [LogCalls -> LogCall],
         AnswersOwned', UNCHANGED <<pages, base>>, RowsOf("USER") \subseteq RowsOf("USER")',
         \A i \in 1..Len(log) : /\ i \in RowsOf("USER")' => i \in RowsOf("USER")
                                /\ i \in RowsOf("ASSISTANT")' => i \in RowsOf("ASSISTANT")
  PROVE  LogIInv'
<1>0. LogTypes /\ PagesOfQueries /\ TableWhole /\ Len(log) \in Nat /\ base \in 0..Len(log)
  BY LogParts DEF LogIInv, LogTypes
<1>1. LogTypes'
  <2>1. Len(log') \in Nat
    OBVIOUS
  <2> QED BY <1>0, <2>1 DEF LogTypes
<1>2. PagesOfQueries'
  BY <1>0 DEF PagesOfQueries
<1>3. TableWhole'
  <2> SUFFICES ASSUME NEW i \in 1..base, NEW j \in AnswersAfter(i)', j <= base, i \in RowsOf("USER")',
                      pages.more => i >= pages.cursor
               PROVE  \E k \in 1..Len(pages.rows) : i \in pages.rows[k]
    BY <1>0 DEF TableWhole
  <2>1. i \in 1..Len(log) /\ j \in RowsOf("ASSISTANT")' /\ j > i
    BY <1>0 DEF AnswersAfter
  <2>2. j \in 1..Len(log)
    <3>1. j \in 1..Len(log')
      BY <2>1 DEF RowsOf
    <3> QED BY <1>0, <3>1
  <2>3. j \in AnswersAfter(i) /\ i \in RowsOf("USER")
    BY <2>1, <2>2 DEF AnswersAfter
  <2> QED BY <1>0, <2>3 DEF TableWhole
<1> QED BY <1>1, <1>2, <1>3 DEF LogIInv

\* A stream finds its question, or is over.
LEMMA CallSteps ==
  ASSUME LogIInv, NEW c \in LogCalls,
         LoseTurn(c) \/ \E text \in Texts, mode \in LogModes : FindQuestion(c, text, mode)
  PROVE  LogIInv'
<1>0. LogTypes /\ AnswersOwned /\ Len(log) \in Nat
  BY LogParts DEF LogIInv
<1>1. UNCHANGED <<log, found, pages, base>> /\ reasked \subseteq reasked'
  BY DEF LoseTurn, FindQuestion
<1>2. \A r : RowsOf(r)' = RowsOf(r)
  BY <1>1 DEF RowsOf
<1>3. PICK new \in LogCall : /\ calls' = [calls EXCEPT ![c] = new]
                             /\ new.pc = "answering" => InModeOf(new.mode, new.row)'
  <2>1. CASE LoseTurn(c)
    <3>1. NoLogCall \in LogCall /\ NoLogCall.pc = "idle"
      BY QueryLogAssumption DEF NoLogCall, LogCall, LogModes
    <3> QED BY <2>1, <3>1 DEF LoseTurn
  <2>2. ASSUME NEW text \in Texts, NEW mode \in LogModes, FindQuestion(c, text, mode)
        PROVE  \E new \in LogCall : /\ calls' = [calls EXCEPT ![c] = new]
                                    /\ new.pc = "answering" => InModeOf(new.mode, new.row)'
    <3> DEFINE same == SameQuestion(text)
               New(row) == [pc |-> IF row = 0 THEN "creating" ELSE "answering",
                            row |-> row, content |-> text, mode |-> mode]
    <3>1. PICK row \in IF same = {} THEN {0} ELSE same : calls' = [calls EXCEPT ![c] = New(row)]
      BY <2>2 DEF FindQuestion
    <3>2. same \subseteq RowsOf("USER") /\ same \subseteq Nat
      BY <1>0, LogParts DEF SameQuestion
    <3>3. row \in Nat
      BY <3>1, <3>2
    <3>4. New(row) \in LogCall
      BY <3>3 DEF LogCall
    <3>5. ASSUME row # 0 PROVE InModeOf(mode, row)'
      <4>1. row \in same /\ row \in RowsOf("USER")
        BY <3>1, <3>2, <3>5
      <4>2. reasked' = reasked \cup {i \in same : log[i].mode # mode}
        BY <2>2 DEF FindQuestion
      <4>3. mode = log[row].mode \/ row \in reasked'
        BY <4>1, <4>2
      <4> QED BY <1>1, <1>2, <4>1, <4>3 DEF InModeOf
    <3>6. New(row).pc = "answering" => row # 0
      OBVIOUS
    <3> QED BY <3>1, <3>4, <3>5, <3>6
  <2> QED BY <2>1, <2>2
<1>4. calls' \in [LogCalls -> LogCall] /\ calls'[c] = new /\ \A d \in LogCalls : d # c => calls'[d] = calls[d]
  BY <1>0, <1>3 DEF LogTypes
<1>5. \A mode, i : InModeOf(mode, i) => InModeOf(mode, i)'
  BY <1>1, <1>2 DEF InModeOf
<1>6. AnswersOwned'
  BY <1>0, <1>1, <1>2, <1>3, <1>4, <1>5 DEF AnswersOwned
<1> QED BY <1>0, <1>1, <1>2, <1>4, <1>6, PagesUndisturbed DEF LogTypes

\* A question or an answer more, of a stream that goes on with it or is over.
LEMMA RowArrives ==
  ASSUME LogIInv, NEW c \in LogCalls, NEW row \in Message, NEW new \in LogCall,
         log' = Append(log, row), calls' = [calls EXCEPT ![c] = new],
         UNCHANGED <<found, pages, base, reasked>>,
         row.role = "ASSISTANT" => InModeOf(row.mode, row.to) /\ new.pc = "idle",
         row.role = "USER" => new.row = Len(log) + 1 /\ new.mode = row.mode,
         row.role # "deleted"
  PROVE  LogIInv'
<1>0. LogTypes /\ AnswersOwned /\ Len(log) \in Nat
  BY LogParts DEF LogIInv
<1> DEFINE last == Len(log) + 1
<1>1. /\ Len(log') = last /\ log' \in Seq(Message) /\ log'[last] = row
      /\ \A i \in 1..Len(log) : log'[i] = log[i]
      /\ \A r : RowsOf(r)' = RowsOf(r) \cup {i \in {last} : row.role = r}
  BY <1>0, LogGrows
<1>2. last \in Nat /\ last \notin 1..Len(log) /\ \A r : RowsOf(r) \subseteq 1..Len(log)
  BY <1>0, LogParts
<1>3. calls' \in [LogCalls -> LogCall] /\ calls'[c] = new /\ \A d \in LogCalls : d # c => calls'[d] = calls[d]
  BY <1>0 DEF LogTypes
<1> HIDE DEF last
<1>4. RowsOf("USER") \subseteq RowsOf("USER")' /\ RowsOf("ASSISTANT") \subseteq RowsOf("ASSISTANT")'
  BY <1>1
<1>5. \A mode, i : InModeOf(mode, i) => InModeOf(mode, i)'
  BY <1>1, <1>2, <1>4 DEF InModeOf
<1>6. row.role = "USER" => last \in RowsOf("USER")' /\ row.mode = log'[last].mode
  BY <1>1
<1>7. row.role \in {"USER", "ASSISTANT"}
  BY DEF Message
<1>8. AnswersOwned'
  <2>1. ASSUME NEW d \in LogCalls, calls'[d].pc = "answering"
        PROVE  InModeOf(calls[d].mode, calls[d].row)'
    <3>1. CASE d = c
      <4>1. row.role = "USER"
        BY <1>3, <1>7, <2>1, <3>1
      <4> QED BY <1>3, <1>6, <3>1, <4>1 DEF last, InModeOf
    <3>2. CASE d # c
      BY <1>0, <1>3, <1>5, <2>1, <3>2 DEF AnswersOwned, InModeOf
    <3> QED BY <3>1, <3>2
  <2>2. ASSUME NEW j \in RowsOf("ASSISTANT")'
        PROVE  log'[j].to < j /\ InModeOf(log[j].mode, log[j].to)'
    <3>1. CASE j = last
      <4>1. row.role = "ASSISTANT"
        BY <1>1, <2>2, <3>1 DEF RowsOf
      <4>2. InModeOf(row.mode, row.to) /\ row.to \in 1..Len(log)
        BY <1>2, <4>1 DEF InModeOf
      <4>3. row.to < last
        BY <1>0, <4>2 DEF last
      <4> QED BY <1>1, <1>5, <3>1, <4>2, <4>3 DEF InModeOf
    <3>2. CASE j # last
      <4>1. j \in RowsOf("ASSISTANT")
        BY <1>1, <2>2, <3>2
      <4>2. log'[j] = log[j]
        BY <1>1, <1>2, <4>1
      <4> QED BY <1>0, <1>5, <4>1, <4>2 DEF AnswersOwned, InModeOf
    <3> QED BY <3>1, <3>2
  <2>3. ASSUME NEW j \in found' PROVE j \in 1..Len(log') /\ j \notin RowsOf("USER")'
    <3>1. j \in 1..Len(log) /\ j \notin RowsOf("USER")
      BY <1>0, <2>3 DEF AnswersOwned
    <3>2. j \in 1..Len(log')
      BY <1>0, <1>1, <3>1 DEF last
    <3> QED BY <1>1, <1>2, <3>1, <3>2
  <2> QED BY <2>1, <2>2, <2>3 DEF AnswersOwned
<1>9. \A i \in 1..Len(log) : /\ i \in RowsOf("USER")' => i \in RowsOf("USER")
                             /\ i \in RowsOf("ASSISTANT")' => i \in RowsOf("ASSISTANT")
  BY <1>1, <1>2
<1>10. Len(log) <= Len(log')
  BY <1>0, <1>1 DEF last
<1> QED BY <1>1, <1>3, <1>4, <1>8, <1>9, <1>10, PagesUndisturbed

LEMMA MessageSteps ==
  ASSUME LogIInv, NEW c \in LogCalls, CreateQuestion(c) \/ Answer(c)
  PROVE  LogIInv'
<1>0. LogTypes /\ AnswersOwned /\ Len(log) \in Nat /\ calls[c] \in LogCall
  BY LogParts DEF LogIInv
<1>1. /\ calls[c].row \in Nat /\ calls[c].content \in Texts /\ calls[c].mode \in LogModes
  BY <1>0 DEF LogCall
<1>2. CASE CreateQuestion(c)
  <2> DEFINE row == [role |-> "USER", content |-> calls[c].content, mode |-> calls[c].mode, to |-> 0]
             new == [calls[c] EXCEPT !.pc = "answering", !.row = Len(log) + 1]
  <2>1. row \in Message /\ row.role = "USER" /\ row.mode = calls[c].mode
    BY <1>1 DEF Message
  <2>2. new \in LogCall /\ new.row = Len(log) + 1 /\ new.mode = calls[c].mode
    <3>1. Len(log) + 1 \in Nat
      BY <1>0
    <3> QED BY <1>0, <3>1 DEF LogCall
  <2>3. log' = Append(log, row) /\ calls' = [calls EXCEPT ![c] = new]
        /\ UNCHANGED <<found, pages, base, reasked>>
    BY <1>2 DEF CreateQuestion
  <2> HIDE DEF row, new
  <2> QED BY <2>1, <2>2, <2>3, RowArrives
<1>3. CASE Answer(c)
  <2> DEFINE row == AnswerRow(calls[c])
  <2>1. /\ row \in Message /\ row.role = "ASSISTANT" /\ row.mode = calls[c].mode
        /\ row.to = calls[c].row
    BY <1>1 DEF Message, AnswerRow
  <2>2. NoLogCall \in LogCall /\ NoLogCall.pc = "idle"
    BY QueryLogAssumption DEF NoLogCall, LogCall, LogModes
  <2>3. log' = Append(log, row) /\ calls' = [calls EXCEPT ![c] = NoLogCall]
        /\ UNCHANGED <<found, pages, base, reasked>>
    BY <1>3 DEF Answer
  <2>4. InModeOf(row.mode, row.to)
    BY <1>0, <1>3, <2>1 DEF Answer, AnswersOwned
  <2> HIDE DEF row
  <2> QED BY <2>1, <2>2, <2>3, <2>4, RowArrives
<1> QED BY <1>2, <1>3

\* An answer is found and deleted.
LEMMA RegeneratingSteps ==
  ASSUME LogIInv, FindAnswer \/ \E j \in found : DeleteAnswer(j)
  PROVE  LogIInv'
<1>0. LogTypes /\ AnswersOwned /\ Len(log) \in Nat
  BY LogParts DEF LogIInv
<1>1. CASE FindAnswer
  <2>1. /\ UNCHANGED <<log, calls, pages, base, reasked>>
        /\ \A j \in found' : j \in found \/ j \in RowsOf("ASSISTANT")
    BY <1>1 DEF FindAnswer
  <2>2. \A r : RowsOf(r)' = RowsOf(r)
    BY <2>1 DEF RowsOf
  <2>3. \A j \in RowsOf("ASSISTANT") : j \in 1..Len(log) /\ j \notin RowsOf("USER")
    BY DEF RowsOf
  <2>4. AnswersOwned'
    BY <1>0, <2>1, <2>2, <2>3 DEF AnswersOwned, InModeOf
  <2> QED BY <1>0, <2>1, <2>2, <2>4, PagesUndisturbed DEF LogTypes
<1>2. ASSUME NEW j \in found, DeleteAnswer(j) PROVE LogIInv'
  <2> DEFINE row == [log[j] EXCEPT !.role = "deleted"]
  <2>1. j \in 1..Len(log) /\ j \notin RowsOf("USER") /\ log[j] \in Message
    BY <1>0, LogParts DEF AnswersOwned
  <2>2. row \in Message /\ row.role = "deleted"
    BY <2>1 DEF Message
  <2>3. log' = [log EXCEPT ![j] = row] /\ found' \subseteq found /\ UNCHANGED <<calls, pages, base, reasked>>
    BY <1>2 DEF DeleteAnswer
  <2> HIDE DEF row
  <2>4. /\ log' \in Seq(Message) /\ Len(log') = Len(log) /\ log'[j] = row
        /\ \A i \in 1..Len(log) : i # j => log'[i] = log[i]
    BY <1>0, <2>1, <2>2, <2>3 DEF LogTypes
  <2>5. RowsOf("USER")' = RowsOf("USER") /\ RowsOf("ASSISTANT")' \subseteq RowsOf("ASSISTANT")
        /\ j \notin RowsOf("ASSISTANT")'
    BY <2>1, <2>2, <2>4 DEF RowsOf
  <2>6. \A mode, i : InModeOf(mode, i) => InModeOf(mode, i)'
    <3>1. \A i \in RowsOf("USER") : log'[i] = log[i]
      BY <2>1, <2>4 DEF RowsOf
    <3> QED BY <2>3, <2>5, <3>1 DEF InModeOf
  <2>7. AnswersOwned'
    <3>1. \A i \in RowsOf("ASSISTANT")' : log'[i] = log[i]
      BY <1>0, <2>4, <2>5, LogParts
    <3> QED BY <1>0, <2>3, <2>4, <2>5, <2>6, <3>1 DEF AnswersOwned
  <2> QED BY <1>0, <2>3, <2>4, <2>5, <2>7, PagesUndisturbed DEF LogTypes
<1> QED BY <1>1, <1>2

\* A page more, or the first one anew: it continues where the pages end.
LEMMA TableSteps ==
  ASSUME LogIInv, RefreshLog \/ LoadMore
  PROVE  LogIInv'
<1>0. /\ LogTypes /\ AnswersOwned /\ PagesOfQueries /\ TableWhole
      /\ UNCHANGED <<log, calls, found, reasked>>
      /\ Len(log) \in Nat /\ AnsweredRows \subseteq RowsOf("USER") /\ RowsOf("USER") \subseteq 1..Len(log)
  BY LogParts DEF LogIInv, RefreshLog, LoadMore
<1>1. /\ \A r : RowsOf(r)' = RowsOf(r)
      /\ \A i : AnswersAfter(i)' = AnswersAfter(i)
      /\ AnsweredRows' = AnsweredRows /\ AnswersOwned'
  BY <1>0 DEF RowsOf, AnswersAfter, AnsweredRows, AnswersOwned, InModeOf
<1>2. CASE RefreshLog
  <2> DEFINE got == RecentQueries(0)
             N == NewestBelow(0)
  <2>1. pages' = got /\ base' = Len(log)
    BY <1>2 DEF RefreshLog
  <2>2. /\ got = [rows |-> got.rows, cursor |-> got.cursor, more |-> got.more]
        /\ got.rows = <<N>> /\ got.cursor \in Nat /\ got.more \in BOOLEAN
        /\ N \subseteq AnsweredRows
        /\ got.more => got.cursor # 0 /\ \A i \in N : i >= got.cursor
        /\ \A i \in RowsBelow(0) : (got.more => i >= got.cursor) => i \in N
    BY <1>0, TablePage
  <2>3. RowsBelow(0) = AnsweredRows
    BY DEF RowsBelow
  <2> HIDE DEF got, N
  <2>4. Len(got.rows) = 1 /\ got.rows[1] = N /\ got.rows \in Seq(SUBSET Nat)
    <3>1. N \in SUBSET Nat
      BY <1>0, <2>2
    <3> QED BY <2>2, <3>1
  <2>5. LogTypes'
    BY <1>0, <2>1, <2>2, <2>4 DEF LogTypes
  <2>6. PagesOfQueries'
    <3>1. N \subseteq RowsOf("USER")
      BY <1>0, <2>2
    <3> QED BY <1>1, <2>1, <2>2, <2>4, <3>1 DEF PagesOfQueries
  <2>7. TableWhole'
    <3>1. \A m, n \in 1..Len(got.rows) : ~ (m < n)
      BY <2>4
    <3>2. ASSUME NEW i \in 1..Len(log), AnswersAfter(i) # {}, i \in RowsOf("USER"),
                 got.more => i >= got.cursor
          PROVE  \E k \in 1..Len(got.rows) : i \in got.rows[k]
      <4>1. i \in AnsweredRows
        BY <3>2 DEF AnsweredRows
      <4> QED BY <2>2, <2>3, <2>4, <3>2, <4>1
    <3> QED BY <1>1, <2>1, <3>1, <3>2 DEF TableWhole
  <2> QED BY <1>1, <2>5, <2>6, <2>7 DEF LogIInv
<1>3. CASE LoadMore
  <2> DEFINE c == pages.cursor
             got == RecentQueries(c)
             N == NewestBelow(c)
             last == Len(pages.rows)
  <2>1. /\ pages' = [got EXCEPT !.rows = pages.rows \o @] /\ UNCHANGED base
        /\ pages.more /\ c \in Nat /\ c # 0
    BY <1>0, <1>3 DEF LoadMore, LogTypes, PagesOfQueries
  <2>2. /\ got = [rows |-> got.rows, cursor |-> got.cursor, more |-> got.more]
        /\ got.rows = <<N>> /\ got.cursor \in Nat /\ got.more \in BOOLEAN
        /\ N \subseteq AnsweredRows
        /\ got.more => /\ got.cursor # 0 /\ got.cursor < c
                       /\ \A i \in N : i >= got.cursor
        /\ \A i \in RowsBelow(c) : (got.more => i >= got.cursor) => i \in N
    BY <1>0, <2>1, TablePage
  <2>3. /\ \A i : i \in RowsBelow(c) <=> i \in AnsweredRows /\ i < c
        /\ \A i \in N : i < c
    BY <1>0, <2>1, NewestAre DEF RowsBelow
  <2>4. pages.rows \in Seq(SUBSET Nat) /\ last \in Nat /\ N \in SUBSET Nat
    BY <1>0, <2>2 DEF LogTypes
  <2> HIDE DEF got, N, c
  <2>5. pages' = [rows |-> pages.rows \o <<N>>, cursor |-> got.cursor, more |-> got.more]
    BY <2>1, <2>2
  <2>6. /\ pages'.rows = pages.rows \o <<N>> /\ pages'.cursor = got.cursor /\ pages'.more = got.more
        /\ pages' = [rows |-> pages'.rows, cursor |-> pages'.cursor, more |-> pages'.more]
    BY <2>5
  <2>7. /\ pages'.rows \in Seq(SUBSET Nat) /\ Len(pages'.rows) = last + 1
        /\ pages'.rows[last + 1] = N
        /\ \A m \in 1..last : pages'.rows[m] = pages.rows[m]
    <3>1. <<N>> \in Seq(SUBSET Nat)
      BY <2>4
    <3> QED BY <2>4, <2>6, <3>1
  <2>8. LogTypes'
    BY <1>0, <2>1, <2>2, <2>6, <2>7 DEF LogTypes
  <2>9. \A m \in 1..(last + 1) : m \in 1..last \/ m = last + 1
    BY <2>4
  <2>10. \A m \in 1..last : \A i \in pages.rows[m] : i \in RowsOf("USER") /\ i >= c
    BY <1>0, <2>1 DEF PagesOfQueries, c
  <2>11. PagesOfQueries'
    <3>1. \A m \in 1..Len(pages'.rows) : pages'.rows[m] \subseteq RowsOf("USER")
      BY <1>0, <2>2, <2>7, <2>9, <2>10
    <3>2. ASSUME got.more, NEW m \in 1..(last + 1), NEW i \in pages'.rows[m] PROVE i >= got.cursor
      <4>1. CASE m \in 1..last
        <5>1. i >= c /\ got.cursor < c /\ i \in Int
          BY <1>0, <2>2, <2>7, <2>10, <3>2, <4>1
        <5> QED BY <2>1, <2>2, <5>1
      <4>2. CASE m = last + 1
        BY <2>2, <2>7, <3>2, <4>2
      <4> QED BY <2>9, <4>1, <4>2
    <3> QED BY <1>1, <2>2, <2>6, <2>7, <3>1, <3>2 DEF PagesOfQueries
  <2>12. TableWhole'
    <3>1. ASSUME NEW m \in 1..(last + 1), NEW n \in 1..(last + 1), m < n,
                 NEW i \in pages'.rows[m], NEW j \in pages'.rows[n]
          PROVE  i > j
      <4>1. m \in 1..last
        BY <2>4, <3>1
      <4>2. CASE n \in 1..last
        BY <1>0, <2>7, <3>1, <4>1, <4>2 DEF TableWhole
      <4>3. CASE n = last + 1
        <5>1. i >= c /\ j < c /\ i \in Int /\ j \in Int
          BY <1>0, <2>2, <2>3, <2>7, <2>10, <3>1, <4>1, <4>3
        <5> QED BY <2>1, <5>1
      <4> QED BY <2>9, <4>2, <4>3
    <3>2. ASSUME NEW i \in 1..base, NEW j \in AnswersAfter(i), j <= base, i \in RowsOf("USER"),
                 got.more => i >= got.cursor
          PROVE  \E k \in 1..(last + 1) : i \in pages'.rows[k]
      <4>1. CASE i >= c
        <5>1. PICK k \in 1..last : i \in pages.rows[k]
          BY <1>0, <3>2, <4>1 DEF TableWhole, c
        <5> QED BY <2>4, <2>7, <5>1
      <4>2. CASE ~ (i >= c)
        <5>1. i \in AnsweredRows /\ i < c
          <6>1. i \in Int
            OBVIOUS
          <6> QED BY <2>1, <3>2, <4>2, <6>1 DEF AnsweredRows
        <5>2. i \in N
          BY <2>2, <2>3, <3>2, <5>1
        <5> QED BY <2>4, <2>7, <5>2
      <4> QED BY <4>1, <4>2
    <3> QED BY <1>1, <2>1, <2>6, <2>7, <3>1, <3>2 DEF TableWhole
  <2> QED BY <1>1, <2>8, <2>11, <2>12 DEF LogIInv
<1> QED BY <1>2, <1>3

LEMMA LogKept ==
  ASSUME LogIInv, [LogNext]_logVars
  PROVE  LogIInv'
<1>1. CASE UNCHANGED logVars
  <2>1. UNCHANGED <<log, calls, found, pages, base, reasked>>
    BY <1>1 DEF logVars
  <2>2. \A r : RowsOf(r)' = RowsOf(r)
    BY <2>1 DEF RowsOf
  <2>3. \A i : AnswersAfter(i)' = AnswersAfter(i)
    BY <2>2 DEF AnswersAfter
  <2> QED BY <2>1, <2>2, <2>3
       DEF LogIInv, LogTypes, AnswersOwned, InModeOf, PagesOfQueries, TableWhole
<1>2. CASE LogNext
  BY <1>2, CallSteps, MessageSteps, RegeneratingSteps, TableSteps DEF LogNext
<1> QED BY <1>1, <1>2

\* A question's own answer comes after it, so one without an answer after it has none;
\* and an answer has the mode in which its question was asked last.
LEMMA AnswersAreTold == ASSUME LogIInv PROVE UnansweredIsTrue /\ ModesAgree
<1>0. LogTypes /\ AnswersOwned /\ Len(log) \in Nat
  BY LogParts DEF LogIInv
<1>1. UnansweredIsTrue
  <2> SUFFICES ASSUME NEW i \in FailedQueries, NEW j \in RowsOf("ASSISTANT"), log[j].to = i
               PROVE  FALSE
    BY DEF UnansweredIsTrue
  <2>1. i \in RowsOf("USER") /\ AnswersAfter(i) = {}
    BY DEF FailedQueries, Unanswered
  <2>2. i < j /\ i \in 1..Len(log) /\ j \in 1..Len(log)
    BY <1>0, <2>1, LogParts DEF AnswersOwned
  <2>3. j > i
    BY <1>0, <2>2
  <2> QED BY <2>1, <2>3 DEF AnswersAfter
<1>2. ModesAgree
  <2> SUFFICES ASSUME NEW i \in AnsweredRows \ reasked, log[Lateral(i)].to = i
               PROVE  log[i].mode = log[Lateral(i)].mode
    BY DEF ModesAgree, QueryDetail, RecentRow
  <2>1. AnswersAfter(i) # {} /\ AnswersAfter(i) \subseteq 1..Len(log)
    BY <1>0, LogParts DEF AnsweredRows
  <2>2. Lateral(i) \in AnswersAfter(i)
    <3>1. \E m \in AnswersAfter(i) : \A j \in AnswersAfter(i) : m <= j
      BY <1>0, <2>1, LeastIndex
    <3> QED BY <3>1 DEF Lateral, Min
  <2>3. InModeOf(log[Lateral(i)].mode, i)
    BY <1>0, <2>2 DEF AnswersOwned, AnswersAfter
  <2> QED BY <2>3 DEF InModeOf
<1> QED BY <1>1, <1>2

LEMMA LogTyped == ASSUME LogTypes, AnswersOwned PROVE LogTypeOK
<1>1. pages \in [rows : Seq(SUBSET Nat), cursor : Nat, more : BOOLEAN]
  BY DEF LogTypes
<1>2. found \subseteq 1..Len(log)
  BY DEF AnswersOwned
<1> QED BY <1>1, <1>2 DEF LogTypes, LogTypeOK

\* Page by page, while questions and answers arrive and answers are regenerated, the
\* table of recent queries lists none twice and passes over none that had an answer
\* which is still there; what is listed as unanswered is; and table and drawer tell the
\* same mode of a query unless the answer found is another question's or the question
\* was asked again in another mode (recentQueries, failedQueries, queryDetail): for any
\* texts, streams, page size and limits.
THEOREM LogCorrect == LogSpec => [](LogTypeOK /\ TableWhole /\ UnansweredIsTrue /\ ModesAgree)
<1>1. LogInit => LogIInv
  BY LogStarts
<1>2. LogIInv /\ [LogNext]_logVars => LogIInv'
  BY LogKept
<1>3. LogIInv => LogTypeOK /\ TableWhole /\ UnansweredIsTrue /\ ModesAgree
  BY AnswersAreTold, LogTyped DEF LogIInv
<1> QED BY <1>1, <1>2, <1>3, PTL DEF LogSpec

-----------------------------------------------------------------------------
(* The items at some places of a page                                      *)

\* How many of the places I are up to i, and the place that has n of them up to it.
UpTo(I, i) == {j \in I : j <= i}
PlaceOf(I, n) == CHOOSE i \in I : Cardinality(UpTo(I, i)) = n

\* Places and their numbers are one to one, in their order.
LEMMA PlacesCounted ==
  ASSUME NEW m \in Nat, NEW I, I \subseteq 1..m
  PROVE  /\ IsFiniteSet(I) /\ Cardinality(I) \in Nat
         /\ \A i \in I : Cardinality(UpTo(I, i)) \in 1..Cardinality(I)
         /\ \A i, k \in I : i < k => Cardinality(UpTo(I, i)) < Cardinality(UpTo(I, k))
         /\ \A n \in 1..Cardinality(I) : PlaceOf(I, n) \in I /\ Cardinality(UpTo(I, PlaceOf(I, n))) = n
         /\ \A i \in I : PlaceOf(I, Cardinality(UpTo(I, i))) = i
<1> DEFINE rank == [i \in I |-> Cardinality(UpTo(I, i))]
<1>1. IsFiniteSet(I) /\ Cardinality(I) \in Nat
  <2>1. IsFiniteSet(1..m)
    BY FS_Interval
  <2> QED BY <2>1, FS_Subset, FS_CardinalityType
<1>2. \A i : UpTo(I, i) \subseteq I
  BY DEF UpTo
<1>3. \A i : IsFiniteSet(UpTo(I, i)) /\ Cardinality(UpTo(I, i)) \in Nat /\ Cardinality(UpTo(I, i)) <= Cardinality(I)
  BY <1>1, <1>2, FS_Subset, FS_CardinalityType
<1>4. \A i \in I : i \in Int
  OBVIOUS
<1>5. \A i \in I : Cardinality(UpTo(I, i)) \in 1..Cardinality(I)
  <2> TAKE i \in I
  <2>1. i \in UpTo(I, i)
    BY <1>4 DEF UpTo
  <2>2. Cardinality(UpTo(I, i)) # 0
    BY <1>3, <2>1, FS_EmptySet
  <2> QED BY <1>1, <1>3, <2>2
<1>6. ASSUME NEW i \in I, NEW k \in I, i < k PROVE Cardinality(UpTo(I, i)) < Cardinality(UpTo(I, k))
  <2>1. UpTo(I, i) \subseteq UpTo(I, k)
    <3> SUFFICES ASSUME NEW j \in UpTo(I, i) PROVE j \in UpTo(I, k)
      OBVIOUS
    <3>1. j \in I /\ j <= i
      BY DEF UpTo
    <3>2. j \in Int /\ i \in Int /\ k \in Int
      BY <1>4, <3>1
    <3>3. j <= k
      BY <1>6, <3>1, <3>2
    <3> QED BY <3>1, <3>3 DEF UpTo
  <2>2. k \in UpTo(I, k) /\ k \notin UpTo(I, i)
    <3>1. ~ (k <= i) /\ k <= k
      BY <1>4, <1>6
    <3> QED BY <3>1 DEF UpTo
  <2>3. Cardinality(UpTo(I, i)) <= Cardinality(UpTo(I, k)) /\ Cardinality(UpTo(I, i)) # Cardinality(UpTo(I, k))
    BY <1>3, <2>1, <2>2, FS_Subset
  <2> QED BY <1>3, <2>3
<1>7. rank \in Injection(I, 1..Cardinality(I))
  <2>1. rank \in [I -> 1..Cardinality(I)]
    BY <1>5
  <2>2. ASSUME NEW i \in I, NEW k \in I, rank[i] = rank[k] PROVE i = k
    <3>1. ~ (i < k) /\ ~ (k < i)
      <4>1. rank[i] \in Nat /\ rank[k] \in Nat
        BY <1>3
      <4>2. rank[i] = Cardinality(UpTo(I, i)) /\ rank[k] = Cardinality(UpTo(I, k))
        OBVIOUS
      <4> HIDE DEF rank
      <4>3. ASSUME i < k PROVE FALSE
        <5>1. rank[i] < rank[k]
          BY <1>6, <4>2, <4>3
        <5> QED BY <2>2, <4>1, <5>1
      <4>4. ASSUME k < i PROVE FALSE
        <5>1. rank[k] < rank[i]
          BY <1>6, <4>2, <4>4
        <5> QED BY <2>2, <4>1, <5>1
      <4> QED BY <4>3, <4>4
    <3> QED BY <1>4, <3>1
  <2> HIDE DEF rank
  <2> QED BY <2>1, <2>2 DEF Injection, IsInjective
<1>8. rank \in Surjection(I, 1..Cardinality(I))
  <2>1. IsFiniteSet(1..Cardinality(I)) /\ Cardinality(1..Cardinality(I)) = Cardinality(I)
    BY <1>1, FS_Interval
  <2> HIDE DEF rank
  <2> QED BY <1>7, <2>1, FS_Injection
<1>9. \A n \in 1..Cardinality(I) : \E i \in I : Cardinality(UpTo(I, i)) = n
  BY <1>8 DEF Surjection
<1>10. \A n \in 1..Cardinality(I) : PlaceOf(I, n) \in I /\ Cardinality(UpTo(I, PlaceOf(I, n))) = n
  BY <1>9 DEF PlaceOf
<1>11. \A i \in I : PlaceOf(I, Cardinality(UpTo(I, i))) = i
  <2> TAKE i \in I
  <2> DEFINE k == PlaceOf(I, Cardinality(UpTo(I, i)))
  <2>1. k \in I /\ Cardinality(UpTo(I, k)) = Cardinality(UpTo(I, i))
    BY <1>5, <1>10
  <2> HIDE DEF k
  <2>2. ~ (i < k) /\ ~ (k < i)
    BY <1>3, <1>6, <2>1
  <2>3. k \in Int /\ i \in Int
    BY <1>4, <2>1
  <2>4. k = i
    BY <2>2, <2>3
  <2> QED BY <2>4 DEF k
<1> QED BY <1>1, <1>5, <1>6, <1>10, <1>11

\* The numbers that places P have among the places I.
NumbersOf(I, P) == {n \in 1..Cardinality(I) : PlaceOf(I, n) \in P}

\* Taking the places I and then those of them that are P is taking P.
LEMMA PlacesOfPlaces ==
  ASSUME NEW m \in Nat, NEW I \in SUBSET (1..m), NEW P \in SUBSET I
  PROVE  /\ Cardinality(NumbersOf(I, P)) = Cardinality(P)
         /\ \A n \in 1..Cardinality(P) : /\ PlaceOf(NumbersOf(I, P), n) \in NumbersOf(I, P)
                                         /\ PlaceOf(P, n) = PlaceOf(I, PlaceOf(NumbersOf(I, P), n))
<1> DEFINE c == Cardinality(I)
           R == NumbersOf(I, P)
<1>0. R = {n \in 1..c : PlaceOf(I, n) \in P}
  BY DEF NumbersOf
<1> HIDE DEF R
<1>1. /\ IsFiniteSet(I) /\ c \in Nat
      /\ \A n \in 1..c : PlaceOf(I, n) \in I
      /\ \A i \in I : Cardinality(UpTo(I, i)) \in 1..c /\ PlaceOf(I, Cardinality(UpTo(I, i))) = i
  BY PlacesCounted
<1>2. \A i, k \in I : i \in Int /\ k \in Int
  OBVIOUS
<1>3. \A n, l \in 1..c : n < l => PlaceOf(I, n) < PlaceOf(I, l)
  <2> SUFFICES ASSUME NEW n \in 1..c, NEW l \in 1..c, n < l PROVE PlaceOf(I, n) < PlaceOf(I, l)
    OBVIOUS
  <2>1. /\ PlaceOf(I, n) \in I /\ Cardinality(UpTo(I, PlaceOf(I, n))) = n
        /\ PlaceOf(I, l) \in I /\ Cardinality(UpTo(I, PlaceOf(I, l))) = l
    BY PlacesCounted
  <2>2. \A i, k \in I : i < k => Cardinality(UpTo(I, i)) < Cardinality(UpTo(I, k))
    BY PlacesCounted
  <2>3. ~ (PlaceOf(I, l) < PlaceOf(I, n)) /\ PlaceOf(I, l) # PlaceOf(I, n)
    <3>1. n \in Int /\ l \in Int
      BY <1>1
    <3> DEFINE a == PlaceOf(I, n)
               b == PlaceOf(I, l)
    <3>2. a \in I /\ b \in I /\ Cardinality(UpTo(I, a)) = n /\ Cardinality(UpTo(I, b)) = l
      BY <2>1
    <3> HIDE DEF a, b
    <3>3. b < a => l < n
      BY <2>2, <3>2
    <3>4. a = b => n = l
      BY <3>2
    <3>5. ~ (b < a) /\ b # a
      BY <3>1, <3>3, <3>4
    <3> QED BY <3>5 DEF a, b
  <2>4. PlaceOf(I, n) \in Int /\ PlaceOf(I, l) \in Int
    BY <1>2, <2>1
  <2> QED BY <2>3, <2>4
<1>4. R \subseteq 1..c /\ P \subseteq 1..m
  BY <1>0
<1>5. \A n \in R : PlaceOf(I, n) \in P
  BY <1>0
<1>6. \A i \in P : Cardinality(UpTo(I, i)) \in R
  BY <1>0, <1>1
<1>7. \A n, l \in R : n <= l <=> PlaceOf(I, n) <= PlaceOf(I, l)
  <2> SUFFICES ASSUME NEW n \in R, NEW l \in R PROVE n <= l <=> PlaceOf(I, n) <= PlaceOf(I, l)
    OBVIOUS
  <2>1. n \in 1..c /\ l \in 1..c
    BY <1>4
  <2>2. n < l => PlaceOf(I, n) < PlaceOf(I, l)
    BY <1>3, <2>1
  <2>3. l < n => PlaceOf(I, l) < PlaceOf(I, n)
    BY <1>3, <2>1
  <2>4. PlaceOf(I, n) \in Int /\ PlaceOf(I, l) \in Int /\ n \in Int /\ l \in Int
    <3>1. PlaceOf(I, n) \in I /\ PlaceOf(I, l) \in I
      BY <1>1, <2>1
    <3>2. PlaceOf(I, n) \in Int /\ PlaceOf(I, l) \in Int
      BY <1>2, <3>1
    <3>3. n \in Int /\ l \in Int
      BY <1>1, <2>1
    <3> QED BY <3>2, <3>3
  <2> HIDE DEF c
  <2>5. n = l => PlaceOf(I, n) = PlaceOf(I, l)
    OBVIOUS
  <2> QED BY <2>2, <2>3, <2>4, <2>5
<1> HIDE DEF c
\* As many numbers up to n as places of P up to the place of n.
<1>8. \A n \in R : Cardinality(UpTo(R, n)) = Cardinality(UpTo(P, PlaceOf(I, n)))
  <2> TAKE n \in R
  <2> DEFINE g == [l \in UpTo(R, n) |-> PlaceOf(I, l)]
             S == UpTo(R, n)
             T == UpTo(P, PlaceOf(I, n))
  <2>1. IsFiniteSet(S)
    <3>1. IsFiniteSet(R) /\ S \subseteq R
      BY <1>1, <1>4, PlacesCounted DEF UpTo
    <3> QED BY <3>1, FS_Subset
  <2>2. g \in [S -> T]
    BY <1>5, <1>7 DEF UpTo
  <2>3. \A l, k \in S : g[l] = g[k] => l = k
    <3> SUFFICES ASSUME NEW l \in S, NEW k \in S, g[l] = g[k] PROVE l = k
      OBVIOUS
    <3>1. l \in R /\ k \in R /\ PlaceOf(I, l) = PlaceOf(I, k)
      BY DEF UpTo
    <3>2. PlaceOf(I, l) \in Int
      BY <1>2, <1>5, <3>1
    <3>3. l <= k /\ k <= l
      BY <1>7, <3>1, <3>2
    <3>4. l \in Int /\ k \in Int
      BY <1>1, <1>4, <3>1
    <3> QED BY <3>3, <3>4
  <2>4. \A t \in T : \E l \in S : g[l] = t
    <3> SUFFICES ASSUME NEW t \in T PROVE \E l \in S : g[l] = t
      OBVIOUS
    <3>1. t \in P /\ t <= PlaceOf(I, n)
      BY DEF UpTo
    <3>2. Cardinality(UpTo(I, t)) \in R /\ PlaceOf(I, Cardinality(UpTo(I, t))) = t
      BY <1>1, <1>6, <3>1
    <3>3. Cardinality(UpTo(I, t)) \in S
      BY <1>7, <3>1, <3>2 DEF UpTo
    <3> QED BY <3>2, <3>3
  <2>5. g \in Bijection(S, T)
    <3> HIDE DEF g, S, T
    <3> QED BY <2>2, <2>3, <2>4 DEF Bijection, Injection, Surjection, IsInjective
  <2>6. ExistsBijection(S, T)
    <3> HIDE DEF g, S, T
    <3> QED BY <2>5 DEF ExistsBijection
  <2> HIDE DEF g, S, T
  <2> QED BY <2>1, <2>6, FS_Bijection DEF S, T
<1>9. Cardinality(R) = Cardinality(P)
  <2> DEFINE g == [l \in R |-> PlaceOf(I, l)]
  <2>1. IsFiniteSet(R)
    BY <1>1, <1>4, PlacesCounted
  <2>2. g \in [R -> P]
    BY <1>5
  <2>3. \A l, k \in R : g[l] = g[k] => l = k
    <3> SUFFICES ASSUME NEW l \in R, NEW k \in R, g[l] = g[k] PROVE l = k
      OBVIOUS
    <3>1. PlaceOf(I, l) = PlaceOf(I, k)
      OBVIOUS
    <3>2. PlaceOf(I, l) \in Int
      BY <1>2, <1>5
    <3>3. l <= k /\ k <= l
      BY <1>7, <3>1, <3>2
    <3>4. l \in Int /\ k \in Int
      BY <1>1, <1>4
    <3> QED BY <3>3, <3>4
  <2>4. \A t \in P : \E l \in R : g[l] = t
    BY <1>1, <1>6
  <2>5. g \in Bijection(R, P)
    <3> HIDE DEF g
    <3> QED BY <2>2, <2>3, <2>4 DEF Bijection, Injection, Surjection, IsInjective
  <2>6. ExistsBijection(R, P)
    <3> HIDE DEF g
    <3> QED BY <2>5 DEF ExistsBijection
  <2> QED BY <2>1, <2>6, FS_Bijection
<1>10. ASSUME NEW n \in 1..Cardinality(P) PROVE PlaceOf(R, n) \in R /\ PlaceOf(P, n) = PlaceOf(I, PlaceOf(R, n))
  <2>1. PlaceOf(R, n) \in R /\ Cardinality(UpTo(R, PlaceOf(R, n))) = n
    BY <1>1, <1>4, <1>9, PlacesCounted
  <2>2. Cardinality(UpTo(P, PlaceOf(I, PlaceOf(R, n)))) = n
    BY <1>8, <2>1
  <2>3. PlaceOf(I, PlaceOf(R, n)) \in P
    BY <1>5, <2>1
  <2>4. PlaceOf(P, n) = PlaceOf(I, PlaceOf(R, n))
    BY <1>4, <2>2, <2>3, PlacesCounted
  <2> QED BY <2>1, <2>4
<1> QED BY <1>9, <1>10 DEF R

LEMMA ItemsAtPlaces ==
  ASSUME NEW x \in Seq(Item), NEW I, I \subseteq 1..Len(x)
  PROVE  /\ ItemsAt(x, I) \in Seq(Item) /\ Len(ItemsAt(x, I)) = Cardinality(I) /\ Cardinality(I) \in Nat
         /\ \A n \in 1..Cardinality(I) : PlaceOf(I, n) \in I /\ ItemsAt(x, I)[n] = x[PlaceOf(I, n)]
<1> DEFINE y == ItemsAt(x, I)
           c == Cardinality(I)
<1>1. Len(x) \in Nat /\ \A i \in 1..Len(x) : x[i] \in Item
  OBVIOUS
<1>2. c \in Nat /\ \A n \in 1..c : PlaceOf(I, n) \in I
  BY <1>1, PlacesCounted
<1>3. y = [n \in 1..c |-> x[PlaceOf(I, n)]]
  BY DEF ItemsAt, PlaceOf, UpTo
<1>4. \A n \in 1..c : x[PlaceOf(I, n)] \in Item
  BY <1>1, <1>2
<1> HIDE DEF y, c
<1>5. y \in [1..c -> Item]
  BY <1>3, <1>4
<1>6. y \in Seq(Item) /\ Len(y) = c
  BY <1>2, <1>5
<1>7. \A n \in 1..c : y[n] = x[PlaceOf(I, n)]
  BY <1>3
<1> QED BY <1>2, <1>6, <1>7 DEF y, c

\* The rows among items, and those that are no bubbles.
RowPlaces(x) == {i \in 1..Len(x) : x[i].kind = "row"}
LEMMA RowsAt ==
  ASSUME NEW x \in Seq(Item)
  PROVE  /\ RowPlaces(x) \subseteq 1..Len(x) /\ RowsIn(x) = ItemsAt(x, RowPlaces(x))
         /\ RowsIn(x) \in Seq(Item) /\ Len(RowsIn(x)) = Cardinality(RowPlaces(x))
         /\ \A n \in 1..Cardinality(RowPlaces(x)) :
              PlaceOf(RowPlaces(x), n) \in RowPlaces(x) /\ RowsIn(x)[n] = x[PlaceOf(RowPlaces(x), n)]
<1>1. RowPlaces(x) \subseteq 1..Len(x) /\ RowsIn(x) = ItemsAt(x, RowPlaces(x))
  BY DEF RowPlaces, RowsIn
<1> QED BY <1>1, ItemsAtPlaces

\* The same rows at the same places are the same rows.
LEMMA RowsUndisturbed ==
  ASSUME NEW x \in Seq(Item), NEW y \in Seq(Item), RowPlaces(x) = RowPlaces(y),
         \A i \in RowPlaces(x) : y[i] = x[i]
  PROVE  RowsIn(y) = RowsIn(x)
<1> DEFINE R == RowPlaces(x)
<1>1. /\ Len(RowsIn(x)) = Cardinality(R) /\ Len(RowsIn(y)) = Cardinality(R)
      /\ RowsIn(x) \in Seq(Item) /\ RowsIn(y) \in Seq(Item)
  BY RowsAt
<1>2. \A n \in 1..Cardinality(R) : PlaceOf(R, n) \in R /\ RowsIn(x)[n] = x[PlaceOf(R, n)]
  BY RowsAt
<1>3. \A n \in 1..Cardinality(R) : RowsIn(y)[n] = y[PlaceOf(R, n)]
  BY RowsAt
<1>4. \A n \in 1..Cardinality(R) : RowsIn(x)[n] = RowsIn(y)[n]
  BY <1>2, <1>3
<1> HIDE DEF R
<1> QED BY <1>1, <1>4

LEMMA BecomingOnly ==
  ASSUME NEW x \in Seq(Item), NEW new \in Item
  PROVE  /\ Becoming(x, new) \in Seq(Item) /\ Len(Becoming(x, new)) = Len(x)
         /\ \A i \in 1..Len(x) : Becoming(x, new)[i] = IF x[i].kind = "bubble" THEN new ELSE x[i]
         /\ (\A i \in 1..Len(x) : x[i].kind # "bubble") => Becoming(x, new) = x
         /\ new.kind # "row" => RowsIn(Becoming(x, new)) = RowsIn(x)
<1> DEFINE y == Becoming(x, new)
<1>1. y = [i \in 1..Len(x) |-> IF x[i].kind = "bubble" THEN new ELSE x[i]]
  BY DEF Becoming
<1>2. Len(x) \in Nat /\ \A i \in 1..Len(x) : x[i] \in Item
  OBVIOUS
<1>3. y \in Seq(Item) /\ Len(y) = Len(x)
  BY <1>1, <1>2
<1>4. \A i \in 1..Len(x) : y[i] = IF x[i].kind = "bubble" THEN new ELSE x[i]
  BY <1>1
<1> HIDE DEF y
<1>5. ASSUME \A i \in 1..Len(x) : x[i].kind # "bubble" PROVE y = x
  BY <1>3, <1>4, <1>5
<1>6. ASSUME new.kind # "row" PROVE RowsIn(y) = RowsIn(x)
  <2>1. RowPlaces(x) = RowPlaces(y) /\ \A i \in RowPlaces(x) : y[i] = x[i]
    BY <1>3, <1>4, <1>6 DEF RowPlaces
  <2> QED BY <1>3, <2>1, RowsUndisturbed
<1> QED BY <1>3, <1>4, <1>5, <1>6 DEF y

\* Without the bubbles: the other items, and of them the same rows.
LEMMA NoBubblesOnly ==
  ASSUME NEW x \in Seq(Item)
  PROVE  /\ NoBubbles(x) \in Seq(Item)
         /\ \A n \in 1..Len(NoBubbles(x)) : \E i \in 1..Len(x) : x[i].kind # "bubble" /\ NoBubbles(x)[n] = x[i]
         /\ RowsIn(NoBubbles(x)) = RowsIn(x)
<1> DEFINE I == {i \in 1..Len(x) : x[i].kind # "bubble"}
           P == RowPlaces(x)
           y == NoBubbles(x)
           R == RowPlaces(y)
           c == Cardinality(I)
<1>1. y = ItemsAt(x, I) /\ I \subseteq 1..Len(x) /\ P \subseteq I /\ Len(x) \in Nat
  BY DEF NoBubbles, RowPlaces
<1>2. \A i : i \in P <=> i \in 1..Len(x) /\ x[i].kind = "row"
  BY DEF RowPlaces
<1>3. \A i \in I : i \in 1..Len(x) /\ x[i].kind # "bubble"
  OBVIOUS
<1> HIDE DEF I, P, y
<1>4. /\ y \in Seq(Item) /\ Len(y) = c
      /\ \A n \in 1..c : PlaceOf(I, n) \in I /\ y[n] = x[PlaceOf(I, n)]
  BY <1>1, ItemsAtPlaces
<1>5. \A n \in 1..Len(y) : \E i \in 1..Len(x) : x[i].kind # "bubble" /\ y[n] = x[i]
  BY <1>3, <1>4
<1>6. \A n : n \in R <=> n \in 1..c /\ y[n].kind = "row"
  BY <1>4 DEF RowPlaces
<1>7. R = NumbersOf(I, P)
  BY <1>2, <1>3, <1>4, <1>6 DEF NumbersOf
<1> HIDE DEF R, c
<1>8. /\ Cardinality(R) = Cardinality(P)
      /\ \A n \in 1..Cardinality(P) : PlaceOf(R, n) \in R /\ PlaceOf(P, n) = PlaceOf(I, PlaceOf(R, n))
  <2>1. I \in SUBSET (1..Len(x)) /\ P \in SUBSET I /\ Len(x) \in Nat
    BY <1>1
  <2>2. /\ Cardinality(NumbersOf(I, P)) = Cardinality(P)
        /\ \A n \in 1..Cardinality(P) : /\ PlaceOf(NumbersOf(I, P), n) \in NumbersOf(I, P)
                                        /\ PlaceOf(P, n) = PlaceOf(I, PlaceOf(NumbersOf(I, P), n))
    BY <2>1, PlacesOfPlaces
  <2> QED BY <1>7, <2>2
<1>9. /\ RowsIn(x) \in Seq(Item) /\ Len(RowsIn(x)) = Cardinality(P)
      /\ \A n \in 1..Cardinality(P) : RowsIn(x)[n] = x[PlaceOf(P, n)]
  BY RowsAt DEF P
<1>10. /\ RowsIn(y) \in Seq(Item) /\ Len(RowsIn(y)) = Cardinality(R)
       /\ \A n \in 1..Cardinality(R) : RowsIn(y)[n] = y[PlaceOf(R, n)]
  BY <1>4, RowsAt DEF R
<1>11. \A n \in 1..Cardinality(P) : RowsIn(y)[n] = RowsIn(x)[n]
  <2> TAKE n \in 1..Cardinality(P)
  <2>1. PlaceOf(R, n) \in R /\ PlaceOf(P, n) = PlaceOf(I, PlaceOf(R, n))
    BY <1>8
  <2>2. y[PlaceOf(R, n)] = x[PlaceOf(P, n)]
    BY <1>4, <1>6, <2>1
  <2> QED BY <1>8, <1>9, <1>10, <2>2
<1>12. RowsIn(y) = RowsIn(x)
  <2> DEFINE a == RowsIn(x)
             b == RowsIn(y)
  <2>1. a \in Seq(Item) /\ b \in Seq(Item) /\ Len(a) = Len(b) /\ \A n \in 1..Len(a) : a[n] = b[n]
    BY <1>8, <1>9, <1>10, <1>11
  <2> HIDE DEF a, b
  <2>2. a = b
    BY <2>1
  <2> QED BY <2>2 DEF a, b
<1> QED BY <1>4, <1>5, <1>12 DEF y

\* Items at the end that are no rows.
LEMMA NoRowsMore ==
  ASSUME NEW x \in Seq(Item)
  PROVE  /\ x \o <<Sent, Bubble>> \in Seq(Item) /\ RowsIn(x \o <<Sent, Bubble>>) = RowsIn(x)
         /\ Append(x, Bubble) \in Seq(Item) /\ RowsIn(Append(x, Bubble)) = RowsIn(x)
<1>0. Len(x) \in Nat /\ Sent \in Item /\ Bubble \in Item /\ Sent.kind # "row" /\ Bubble.kind # "row"
  BY ViewAssumption DEF Item, Sent, Bubble
<1>1. ASSUME NEW y \in Seq(Item), Len(y) >= Len(x), \A i \in 1..Len(x) : y[i] = x[i],
             \A i \in (Len(x) + 1)..Len(y) : y[i].kind # "row"
      PROVE  RowsIn(y) = RowsIn(x)
  <2>1. \A i \in 1..Len(y) : i \in 1..Len(x) \/ i \in (Len(x) + 1)..Len(y)
    BY <1>0
  <2>2. \A i \in 1..Len(x) : i \in 1..Len(y)
    BY <1>0, <1>1
  <2>3. RowPlaces(x) = RowPlaces(y)
    BY <1>1, <2>1, <2>2 DEF RowPlaces
  <2>4. \A i \in RowPlaces(x) : y[i] = x[i]
    BY <1>1 DEF RowPlaces
  <2> QED BY <2>3, <2>4, RowsUndisturbed
<1>2. x \o <<Sent, Bubble>> \in Seq(Item) /\ RowsIn(x \o <<Sent, Bubble>>) = RowsIn(x)
  <2> DEFINE y == x \o <<Sent, Bubble>>
  <2>1. y \in Seq(Item) /\ Len(y) = Len(x) + 2 /\ \A i \in 1..Len(x) : y[i] = x[i]
    BY <1>0
  <2>2. y[Len(x) + 1] = Sent /\ y[Len(x) + 2] = Bubble
    BY <1>0
  <2> HIDE DEF y
  <2>3. \A i \in (Len(x) + 1)..Len(y) : y[i].kind # "row"
    <3> SUFFICES ASSUME NEW i \in (Len(x) + 1)..Len(y) PROVE y[i].kind # "row"
      OBVIOUS
    <3>1. i = Len(x) + 1 \/ i = Len(x) + 2
      BY <1>0, <2>1
    <3> QED BY <1>0, <2>2, <3>1
  <2>4. Len(y) >= Len(x)
    BY <1>0, <2>1
  <2> QED BY <1>1, <2>1, <2>3, <2>4 DEF y
<1>3. Append(x, Bubble) \in Seq(Item) /\ RowsIn(Append(x, Bubble)) = RowsIn(x)
  <2> DEFINE y == Append(x, Bubble)
  <2>1. y \in Seq(Item) /\ Len(y) = Len(x) + 1 /\ \A i \in 1..Len(x) : y[i] = x[i]
    BY <1>0
  <2>2. y[Len(x) + 1] = Bubble
    BY <1>0
  <2> HIDE DEF y
  <2>3. \A i \in (Len(x) + 1)..Len(y) : y[i].kind # "row"
    BY <1>0, <2>1, <2>2
  <2>4. Len(y) >= Len(x)
    BY <1>0, <2>1
  <2> QED BY <1>1, <2>1, <2>3, <2>4 DEF y
<1> QED BY <1>2, <1>3

\* Messages as items: all of them rows.
OfRow(item) == [role |-> item.role, id |-> item.id]
LEMMA RowsOfMessages ==
  ASSUME NEW m \in Seq(StoredMessage)
  PROVE  /\ AsItems(m) \in Seq(Item) /\ Len(AsItems(m)) = Len(m) /\ RowsIn(AsItems(m)) = AsItems(m)
         /\ \A i \in 1..Len(m) : AsItems(m)[i].kind = "row" /\ OfRow(AsItems(m)[i]) = m[i]
<1> DEFINE y == AsItems(m)
<1>1. Len(m) \in Nat /\ \A i \in 1..Len(m) : m[i] \in StoredMessage
  OBVIOUS
<1>2. y = [i \in 1..Len(m) |-> [kind |-> "row", role |-> m[i].role, id |-> m[i].id]]
  BY DEF AsItems
<1>3. \A i \in 1..Len(m) : [kind |-> "row", role |-> m[i].role, id |-> m[i].id] \in Item
  BY <1>1, ViewAssumption DEF StoredMessage, Item
<1> HIDE DEF y
<1>4. y \in Seq(Item) /\ Len(y) = Len(m)
  BY <1>1, <1>2, <1>3
<1>5. \A i \in 1..Len(m) : y[i] = [kind |-> "row", role |-> m[i].role, id |-> m[i].id]
  BY <1>2
<1>6. \A i \in 1..Len(m) : y[i].kind = "row" /\ OfRow(y[i]) = m[i]
  <2>1. \A i \in 1..Len(m) : m[i] = [role |-> m[i].role, id |-> m[i].id]
    BY <1>1 DEF StoredMessage
  <2> SUFFICES ASSUME NEW i \in 1..Len(m) PROVE y[i].kind = "row" /\ OfRow(y[i]) = m[i]
    OBVIOUS
  <2>2. y[i].kind = "row" /\ y[i].role = m[i].role /\ y[i].id = m[i].id
    <3>1. y[i] = [kind |-> "row", role |-> m[i].role, id |-> m[i].id]
      BY <1>5, Zenon
    <3> QED BY <3>1
  <2>3. m[i] = [role |-> m[i].role, id |-> m[i].id]
    BY <2>1, Zenon
  <2> QED BY <2>2, <2>3 DEF OfRow
<1>7. RowPlaces(y) = 1..Len(m)
  BY <1>4, <1>6 DEF RowPlaces
<1>8. \A n \in 1..Len(m) : PlaceOf(1..Len(m), n) = n
  <2> TAKE n \in 1..Len(m)
  <2>1. UpTo(1..Len(m), n) = 1..n
    BY <1>1 DEF UpTo
  <2>2. Cardinality(1..n) = n
    BY <1>1, FS_Interval
  <2> DEFINE I == 1..Len(m)
  <2>3. PlaceOf(I, Cardinality(UpTo(I, n))) = n
    <3>1. I \subseteq 1..Len(m) /\ n \in I
      OBVIOUS
    <3> HIDE DEF I
    <3> QED BY <1>1, <3>1, PlacesCounted
  <2> QED BY <2>1, <2>2, <2>3
<1>9. Cardinality(1..Len(m)) = Len(m)
  <2>1. Cardinality(1..Len(m)) = IF 1 > Len(m) THEN 0 ELSE Len(m) - 1 + 1
    BY <1>1, FS_Interval
  <2> QED BY <1>1, <2>1
<1>10. RowsIn(y) = y
  <2> DEFINE a == RowsIn(y)
  <2>1. a \in Seq(Item) /\ Len(a) = Len(m) /\ \A n \in 1..Len(m) : a[n] = y[n]
    BY <1>4, <1>7, <1>8, <1>9, RowsAt
  <2> HIDE DEF a
  <2>2. a = y
    BY <1>4, <2>1
  <2> QED BY <2>2 DEF a
<1> QED BY <1>4, <1>6, <1>10 DEF y

\* Dropping the last answer: one item goes, and it is an answer.
LEMMA LastDropped ==
  ASSUME NEW S, NEW x \in Seq(S), LastAssistant(x) # {}
  PROVE  LET y == DropLastAssistant(x) IN
         /\ y \in Seq(S)
         /\ \E k \in 1..Len(x) :
              /\ x[k].role = "ASSISTANT" /\ Len(y) = Len(x) - 1
              /\ \A i \in 1..Len(y) : y[i] = x[IF i < k THEN i ELSE i + 1]
<1> DEFINE k == CHOOSE i \in LastAssistant(x) : TRUE
           y == DropLastAssistant(x)
<1>1. k \in LastAssistant(x)
  OBVIOUS
<1>2. k \in 1..Len(x) /\ x[k].role = "ASSISTANT" /\ Len(x) \in Nat
  BY <1>1 DEF LastAssistant
<1>3. y = SubSeq(x, 1, k - 1) \o SubSeq(x, k + 1, Len(x))
  BY DEF DropLastAssistant, RemoveAt
<1> HIDE DEF k, y
<1> DEFINE a == SubSeq(x, 1, k - 1)
           b == SubSeq(x, k + 1, Len(x))
<1>4. a \in Seq(S) /\ Len(a) = k - 1 /\ \A i \in 1..(k - 1) : a[i] = x[i]
  BY <1>2
<1>5. b \in Seq(S) /\ Len(b) = Len(x) - k /\ \A i \in 1..(Len(x) - k) : b[i] = x[k + i]
  BY <1>2
<1>5a. y = a \o b
  BY <1>3
<1> HIDE DEF a, b
<1>6. y \in Seq(S) /\ Len(y) = Len(x) - 1
  <2>1. a \in Seq(S) /\ b \in Seq(S)
    BY <1>4, <1>5
  <2>2. y \in Seq(S) /\ Len(y) = Len(a) + Len(b)
    BY <1>5a, <2>1, ConcatProperties
  <2> QED BY <1>2, <1>4, <1>5, <2>2
<1>7. \A i \in 1..Len(y) : y[i] = x[IF i < k THEN i ELSE i + 1]
  <2> SUFFICES ASSUME NEW i \in 1..Len(y) PROVE y[i] = x[IF i < k THEN i ELSE i + 1]
    OBVIOUS
  <2>1. y[i] = IF i <= Len(a) THEN a[i] ELSE b[i - Len(a)]
    <3>1. \A n \in 1..(Len(a) + Len(b)) : (a \o b)[n] = IF n <= Len(a) THEN a[n] ELSE b[n - Len(a)]
      BY <1>4, <1>5, ConcatProperties
    <3>2. i \in 1..(Len(a) + Len(b))
      BY <1>2, <1>4, <1>5, <1>6
    <3> QED BY <1>5a, <3>1, <3>2
  <2>2. CASE i < k
    <3>1. i <= Len(a) /\ i \in 1..(k - 1)
      BY <1>2, <1>4, <1>6, <2>2
    <3> QED BY <1>4, <2>1, <2>2, <3>1
  <2>3. CASE ~ (i < k)
    <3>1. ~ (i <= Len(a)) /\ i - Len(a) = i - k + 1 /\ i - k + 1 \in 1..(Len(x) - k) /\ k + (i - k + 1) = i + 1
      BY <1>2, <1>4, <1>6, <2>3
    <3>2. b[i - k + 1] = x[i + 1]
      BY <1>5, <3>1
    <3> QED BY <2>1, <2>3, <3>1, <3>2
  <2> QED BY <2>2, <2>3
<1> QED BY <1>2, <1>6, <1>7 DEF y

-----------------------------------------------------------------------------
(* The chat page: its rows are those stored once everything has ended, for *)
(* any conversations, calls, retries and messages                          *)

HeldIn(m, q) == \E i \in 1..Len(q) : q[i] = m

\* A call is on a conversation, a page's on its own; two on one conversation are not
\* followed, and only attempts under way can be stopped.
CallsOnPages ==
  /\ view.conv # {} => \E c \in ViewConvs : view.conv = {c}
  /\ \A s \in Sends :
       /\ sends[s].pc = "idle" => sends[s].conv = {}
       /\ sends[s].pc # "idle" => \E c \in ViewConvs : sends[s].conv = {c}
       /\ sends[s].mine => sends[s].conv = view.conv /\ sends[s].pc # "idle"
       /\ sends[s].pc \in {"reading", "answered"} => sends[s].prompted
       /\ sends[s].pc = "backoff" => sends[s].attempt < StreamRetries
       /\ s \in view.abort => sends[s].mine /\ sends[s].pc \in {"post", "reading", "answered"}
  /\ \A s, t \in Sends : s # t /\ sends[s].conv = sends[t].conv => sends[s].conv \subseteq unseen

\* What has a page or a call has a message, or came with its data in the cache.
Begun == \A c \in ViewConvs : view.conv = {c} \/ Called(c) => ids[c] > 0 \/ query[c].has

\* Messages are numbered as they are stored, and no number is used twice.
Numbered(c) ==
  /\ \A i \in 1..Len(rows[c]) : rows[c][i].id <= ids[c]
  /\ \A i \in 1..Len(query[c].data) : query[c].data[i].id <= ids[c]
  /\ \A i \in 1..Len(query[c].read) : query[c].read[i].id <= ids[c]
  /\ \A i, j \in 1..Len(rows[c]) : rows[c][i].id = rows[c][j].id => i = j

\* While no call streams, the cache's answer is what is stored, unless marked, and so is the one to come.
Streamless(c) == \A s \in Sends : sends[s].conv = {c} => sends[s].pc = "regenerate"
FoundIs(c) == Streamless(c) =>
  /\ query[c].has /\ ~query[c].stale => query[c].data = rows[c]
  /\ query[c].fetch = "read" => query[c].read = rows[c]

\* The cache has an answer that was dropped, or lacks a prompt.
Differs(c) ==
  \/ \E i \in 1..Len(query[c].data) : ~HeldIn(query[c].data[i], rows[c])
  \/ \E i \in 1..Len(rows[c]) : rows[c][i].role = "USER" /\ ~HeldIn(rows[c][i], query[c].data)

\* The page is right when the cache is; and when it runs ahead of the cache, or will,
\* the cache's answer is not what is stored, so that the next one is taken.
Placeholder == \E i \in 1..Len(view.items) : view.items[i].kind = "bubble"
RowsRight(c) == query[c].data = rows[c] => RowsIn(view.items) = AsItems(rows[c])
AheadDiffers(c) ==
  /\ \A i \in 1..Len(view.items) : view.items[i].kind = "row" =>
       HeldIn(OfRow(view.items[i]), query[c].data) \/ Differs(c)
  /\ \A s \in Sends : sends[s].mine /\ sends[s].prompted /\ sends[s].pc # "regenerate" /\ Placeholder =>
       Differs(c)
LeftBehind(c) == \A s \in Sends : sends[s].conv = {c} /\ ~sends[s].mine => view.items = AsItems(query[c].data)
PageFollows(c) == view.conv = {c} =>
  /\ LeftBehind(c)
  /\ query[c].has => RowsRight(c) /\ AheadDiffers(c)

ConvOK(c) == Numbered(c) /\ (c \notin unseen => FoundIs(c) /\ PageFollows(c))
ViewIInv == ViewTypeOK /\ CallsOnPages /\ Begun /\ \A c \in ViewConvs : ConvOK(c)

\* The cached data of a conversation and the page in view are as they were.
LEMMA PageKept ==
  ASSUME NEW c \in ViewConvs, ConvOK(c), Numbered(c)', c \notin unseen' => c \notin unseen /\ FoundIs(c)',
         rows'[c] = rows[c], query'[c].has = query[c].has, query'[c].data = query[c].data,
         view'.conv = {c} =>
           /\ view.conv = {c} /\ view'.items = view.items
           /\ \A s \in Sends : /\ sends'[s].mine /\ sends'[s].prompted /\ sends'[s].pc # "regenerate" =>
                                    sends[s].mine /\ sends[s].prompted /\ sends[s].pc # "regenerate"
                               /\ sends'[s].conv = {c} /\ ~sends'[s].mine => sends[s].conv = {c} /\ ~sends[s].mine
  PROVE  ConvOK(c)'
<1>1. Differs(c)' <=> Differs(c)
  BY DEF Differs
<1>2. ASSUME c \notin unseen', view'.conv = {c}
      PROVE  LeftBehind(c)' /\ (query'[c].has => RowsRight(c)' /\ AheadDiffers(c)')
  <2>1. LeftBehind(c) /\ (query[c].has => RowsRight(c) /\ AheadDiffers(c)) /\ (Placeholder' <=> Placeholder)
    BY <1>2 DEF ConvOK, PageFollows, Placeholder
  <2>2. LeftBehind(c)'
    BY <1>2, <2>1 DEF LeftBehind
  <2>3. RowsRight(c) => RowsRight(c)'
    BY <1>2 DEF RowsRight
  <2>4. AheadDiffers(c) => AheadDiffers(c)'
    BY <1>1, <1>2, <2>1 DEF AheadDiffers
  <2> QED BY <2>1, <2>2, <2>3, <2>4
<1> QED BY <1>2 DEF ConvOK, PageFollows

\* Nothing of a conversation changes that matters to it.
LEMMA ConvKept ==
  ASSUME NEW c \in ViewConvs, ConvOK(c), rows'[c] = rows[c], ids'[c] = ids[c], query'[c] = query[c],
         c \in unseen => c \in unseen', Streamless(c)' => Streamless(c),
         view'.conv = {c} =>
           /\ view.conv = {c} /\ view'.items = view.items
           /\ \A s \in Sends : /\ sends'[s].mine /\ sends'[s].prompted /\ sends'[s].pc # "regenerate" =>
                                    sends[s].mine /\ sends[s].prompted /\ sends[s].pc # "regenerate"
                               /\ sends'[s].conv = {c} /\ ~sends'[s].mine => sends[s].conv = {c} /\ ~sends[s].mine
  PROVE  ConvOK(c)'
<1>1. Numbered(c)'
  BY DEF ConvOK, Numbered
<1>2. c \notin unseen' => c \notin unseen /\ FoundIs(c)'
  BY DEF ConvOK, FoundIs
<1> QED BY <1>1, <1>2, PageKept

\* In a conversation that is not followed numbers are what matters.
LEMMA ConvUnfollowed ==
  ASSUME NEW c \in ViewConvs, Numbered(c)', c \in unseen'
  PROVE  ConvOK(c)'
BY DEF ConvOK

\* Calls are as they were, and so is where the page is.
LEMMA CallsUndisturbed ==
  ASSUME CallsOnPages, Begun, ViewTypeOK, UNCHANGED sends, view'.conv = view.conv, view'.abort = view.abort,
         \A c \in unseen : c \in unseen' \/ ~Called(c),
         \A c \in ViewConvs : (ids[c] > 0 => ids'[c] > 0) /\ (query[c].has => query'[c].has)
  PROVE  CallsOnPages' /\ Begun'
<1>1. \A c : Called(c)' <=> Called(c)
  BY DEF Called
<1>2. \A s, t \in Sends : s # t /\ sends[s].conv = sends[t].conv => sends[s].conv \subseteq unseen'
  <2> SUFFICES ASSUME NEW s \in Sends, NEW t \in Sends, s # t, sends[s].conv = sends[t].conv, NEW c \in sends[s].conv
               PROVE  c \in unseen'
    OBVIOUS
  <2>1. sends[s].conv = {c} /\ c \in unseen
    BY DEF CallsOnPages
  <2>2. Called(c)
    BY <2>1 DEF Called
  <2> QED BY <2>1, <2>2
<1> QED BY <1>1, <1>2 DEF CallsOnPages, Begun

\* One call becomes new.
LEMMA CallChanges ==
  ASSUME CallsOnPages, Begun, NEW s \in Sends, NEW new, sends' = [sends EXCEPT ![s] = new],
         DOMAIN sends = Sends, view'.conv = view.conv, unseen \subseteq unseen',
         \A c \in ViewConvs : (ids[c] > 0 => ids'[c] > 0) /\ (query[c].has => query'[c].has),
         \/ new.conv = sends[s].conv /\ sends[s].pc # "idle"
         \/ new.conv = view.conv /\ view.conv # {} /\ \A c \in view.conv : Called(c) => c \in unseen'
         \/ new.conv = {},
         new.pc = "idle" <=> new.conv = {}, new.mine => new.conv = view.conv /\ new.pc # "idle",
         new.pc \in {"reading", "answered"} => new.prompted,
         new.pc = "backoff" => new.attempt < StreamRetries,
         view'.abort \subseteq view.abort \cup {s},
         s \in view'.abort => new.mine /\ new.pc \in {"post", "reading", "answered"}
  PROVE  CallsOnPages' /\ Begun'
<1>1. sends'[s] = new /\ \A t \in Sends : t # s => sends'[t] = sends[t]
  OBVIOUS
<1>2. new.conv # {} => \E c \in ViewConvs : new.conv = {c}
  BY DEF CallsOnPages
<1>3. \A t \in Sends :
        /\ sends'[t].pc = "idle" => sends'[t].conv = {}
        /\ sends'[t].pc # "idle" => \E c \in ViewConvs : sends'[t].conv = {c}
        /\ sends'[t].mine => sends'[t].conv = view'.conv /\ sends'[t].pc # "idle"
        /\ sends'[t].pc \in {"reading", "answered"} => sends'[t].prompted
        /\ sends'[t].pc = "backoff" => sends'[t].attempt < StreamRetries
        /\ t \in view'.abort => sends'[t].mine /\ sends'[t].pc \in {"post", "reading", "answered"}
  <2> TAKE t \in Sends
  <2>1. CASE t = s
    BY <1>1, <1>2, <2>1
  <2>2. CASE t # s
    BY <1>1, <2>2 DEF CallsOnPages
  <2> QED BY <2>1, <2>2
<1>4. \A t \in Sends : t # s /\ new.conv = sends[t].conv => new.conv \subseteq unseen'
  <2> SUFFICES ASSUME NEW t \in Sends, t # s, new.conv = sends[t].conv, NEW c \in new.conv PROVE c \in unseen'
    OBVIOUS
  <2>1. new.conv = {c} /\ c \in ViewConvs /\ Called(c)
    BY <1>2 DEF Called
  <2>2. CASE new.conv = sends[s].conv
    <3>1. c \in unseen
      BY <2>1, <2>2 DEF CallsOnPages
    <3> QED BY <3>1
  <2>3. CASE new.conv = view.conv /\ \A d \in view.conv : Called(d) => d \in unseen'
    BY <2>1, <2>3
  <2> QED BY <2>1, <2>2, <2>3
<1>5. \A t, u \in Sends : t # u /\ sends'[t].conv = sends'[u].conv => sends'[t].conv \subseteq unseen'
  <2> SUFFICES ASSUME NEW t \in Sends, NEW u \in Sends, t # u, sends'[t].conv = sends'[u].conv
               PROVE  sends'[t].conv \subseteq unseen'
    OBVIOUS
  <2>1. CASE t # s /\ u # s
    <3>1. sends[t].conv \subseteq unseen
      BY <1>1, <2>1 DEF CallsOnPages
    <3> QED BY <1>1, <2>1, <3>1
  <2>2. CASE t = s
    BY <1>1, <1>4, <2>2
  <2>3. CASE u = s
    BY <1>1, <1>4, <2>3
  <2> QED BY <2>1, <2>2, <2>3
<1>6. Begun'
  <2> SUFFICES ASSUME NEW c \in ViewConvs, view.conv = {c} \/ Called(c)' PROVE ids'[c] > 0 \/ query'[c].has
    BY DEF Begun
  <2>1. CASE view.conv = {c}
    BY <2>1 DEF Begun
  <2>2. CASE Called(c)'
    <3>1. PICK t \in Sends : sends'[t].conv = {c}
      BY <2>2 DEF Called
    <3>2. view.conv = {c} \/ Called(c)
      BY <1>1, <3>1 DEF Called
    <3> QED BY <3>2 DEF Begun
  <2> QED BY <2>1, <2>2
<1> QED BY <1>3, <1>5, <1>6 DEF CallsOnPages

\* The page is left for one that was not in view, or for none.
LEMMA PageLeft ==
  ASSUME CallsOnPages, Begun, ViewTypeOK, sends' = Unmounted, view'.abort = {}, unseen' = unseen,
         view'.conv # {} => \E c \in ViewConvs : view'.conv = {c} /\ ids[c] > 0,
         UNCHANGED ids, \A c \in ViewConvs : query[c].has => query'[c].has
  PROVE  CallsOnPages' /\ Begun'
<1>1. \A s \in Sends : sends'[s] = [sends[s] EXCEPT !.mine = FALSE]
  BY DEF Unmounted
<1>2. \A s \in Sends : sends[s] \in SendCall
  BY DEF ViewTypeOK
<1>3. \A s \in Sends : /\ sends'[s].pc = sends[s].pc /\ sends'[s].conv = sends[s].conv /\ ~sends'[s].mine
                       /\ sends'[s].prompted = sends[s].prompted /\ sends'[s].attempt = sends[s].attempt
  BY <1>1, <1>2 DEF SendCall
<1>4. CallsOnPages'
  BY <1>3 DEF CallsOnPages
<1>5. \A c : Called(c)' <=> Called(c)
  BY <1>3 DEF Called
<1> QED BY <1>4, <1>5 DEF Begun

-----------------------------------------------------------------------------
(* The steps of the chat page                                              *)

LEMMA ViewTypes ==
  ASSUME ViewTypeOK
  PROVE  /\ DOMAIN rows = ViewConvs /\ DOMAIN ids = ViewConvs /\ DOMAIN query = ViewConvs /\ DOMAIN sends = Sends
         /\ \A c \in ViewConvs :
              /\ rows[c] \in Seq(StoredMessage) /\ ids[c] \in 0..MaxRows /\ ids[c] \in Int /\ query[c] \in Query
              /\ query[c].data \in Seq(StoredMessage) /\ query[c].read \in Seq(StoredMessage)
              /\ query[c].has \in BOOLEAN /\ query[c].stale \in BOOLEAN
              /\ query[c].fetch \in {"none", "asked", "read"}
         /\ view.items \in Seq(Item) /\ view.abort \in SUBSET Sends
         /\ \A s \in Sends : sends[s] \in SendCall /\ sends[s].mine \in BOOLEAN /\ sends[s].prompted \in BOOLEAN
         /\ MaxRows \in Nat /\ StreamRetries \in Nat
<1>1. \A c \in ViewConvs : query[c] \in Query
  BY DEF ViewTypeOK
<1>2. \A c \in ViewConvs :
        /\ query[c].data \in Seq(StoredMessage) /\ query[c].read \in Seq(StoredMessage)
        /\ query[c].has \in BOOLEAN /\ query[c].stale \in BOOLEAN
        /\ query[c].fetch \in {"none", "asked", "read"}
  BY <1>1 DEF Query
<1>3. view.items \in Seq(Item) /\ view.abort \in SUBSET Sends
  BY DEF ViewTypeOK, View
<1>4. \A s \in Sends : sends[s] \in SendCall
  BY DEF ViewTypeOK
<1>5. \A s \in Sends : sends[s].mine \in BOOLEAN /\ sends[s].prompted \in BOOLEAN
  BY <1>4 DEF SendCall
<1>6. \A c \in ViewConvs : rows[c] \in Seq(StoredMessage) /\ ids[c] \in 0..MaxRows
  BY DEF ViewTypeOK
<1>7. MaxRows \in Nat /\ StreamRetries \in Nat
  BY ViewAssumption
<1>8. \A c \in ViewConvs : ids[c] \in Int
  BY <1>6, <1>7
<1>9. DOMAIN rows = ViewConvs /\ DOMAIN ids = ViewConvs /\ DOMAIN query = ViewConvs /\ DOMAIN sends = Sends
  BY DEF ViewTypeOK
<1> QED BY <1>1, <1>2, <1>3, <1>4, <1>5, <1>6, <1>7, <1>8, <1>9

\* Marked stale; what a reply has already found is found anew, or missed.
LEMMA InvalidatedOnly ==
  ASSUME ViewTypeOK, NEW c \in ViewConvs
  PROVE  LET q == Invalidated(c) IN
         /\ q \in [ViewConvs -> Query] /\ \A d \in ViewConvs : d # c => q[d] = query[d]
         /\ q[c].has = query[c].has /\ q[c].data = query[c].data /\ q[c].stale
         /\ q[c].read = query[c].read \/ q[c].read = <<>>
         /\ q[c].fetch = "read" => c \in Missed(c)
<1>1. query[c] \in Query /\ query \in [ViewConvs -> Query]
  BY DEF ViewTypeOK
<1>2. CASE view.conv = {c} /\ ~FirstFetch(c)
  <2> DEFINE new == [query[c] EXCEPT !.stale = TRUE, !.read = <<>>, !.fetch = "asked"]
  <2>1. /\ new \in Query /\ new.has = query[c].has /\ new.data = query[c].data /\ new.stale
        /\ new.fetch = "asked" /\ new.read = <<>>
    <3>1. PICK none : none = <<>> /\ none \in Seq(StoredMessage)
      <4>1. <<>> \in Seq(StoredMessage)
        OBVIOUS
      <4> QED BY <4>1, Zenon
    <3>2. new = [query[c] EXCEPT !.stale = TRUE, !.read = none, !.fetch = "asked"]
      BY <3>1
    <3>3. new \in Query
      BY <1>1, <3>1, <3>2 DEF Query
    <3>4. /\ new.has = query[c].has /\ new.data = query[c].data /\ new.stale
          /\ new.fetch = "asked" /\ new.read = none
      BY <1>1, <3>2 DEF Query
    <3> QED BY <3>1, <3>3, <3>4
  <2>2. Invalidated(c) = [query EXCEPT ![c] = new]
    BY <1>2 DEF Invalidated
  <2> HIDE DEF new
  <2> QED BY <1>1, <1>2, <2>1, <2>2
<1>3. CASE ~(view.conv = {c} /\ ~FirstFetch(c))
  <2> DEFINE new == [query[c] EXCEPT !.stale = TRUE]
  <2>1. /\ new \in Query /\ new.has = query[c].has /\ new.data = query[c].data /\ new.stale
        /\ new.fetch = query[c].fetch /\ new.read = query[c].read
    BY <1>1 DEF Query
  <2>2. Invalidated(c) = [query EXCEPT ![c] = new]
    BY <1>3 DEF Invalidated
  <2>3. query[c].fetch = "read" => c \in Missed(c)
    BY <1>3 DEF Missed
  <2> HIDE DEF new
  <2> QED BY <1>1, <1>3, <2>1, <2>2, <2>3
<1> QED BY <1>2, <1>3

\* A reply that is missed is one conversation's.
LEMMA MissedOnly == \A c \in ViewConvs : Missed(c) \subseteq {c}
BY DEF Missed

\* A call changes the page if that is still its own.
LEMMA ConsumedOnly ==
  ASSUME ViewTypeOK, NEW s \in Sends, NEW x \in Seq(Item)
  PROVE  /\ Consumed(s, x) \in View /\ Consumed(s, x).conv = view.conv
         /\ IF sends[s].mine THEN Consumed(s, x).items = x /\ Consumed(s, x).abort = {} ELSE Consumed(s, x) = view
         /\ Consumes(s, x) \in View /\ Consumes(s, x).conv = view.conv
         /\ IF sends[s].mine THEN Consumes(s, x).items = x /\ Consumes(s, x).abort = {s} ELSE Consumes(s, x) = view
<1>1. view \in View
  BY DEF ViewTypeOK
<1>2. CASE sends[s].mine
  <2> DEFINE new == [view EXCEPT !.items = x, !.isStreaming = FALSE, !.abort = {}]
             old == [view EXCEPT !.items = x, !.isStreaming = TRUE, !.abort = {s}]
  <2>1. new \in View /\ new.conv = view.conv /\ new.items = x /\ new.abort = {}
    BY <1>1 DEF View
  <2>2. old \in View /\ old.conv = view.conv /\ old.items = x /\ old.abort = {s}
    BY <1>1 DEF View
  <2>3. Consumed(s, x) = new /\ Consumes(s, x) = old
    BY <1>2 DEF Consumed, Consumes
  <2> HIDE DEF new, old
  <2> QED BY <1>2, <2>1, <2>2, <2>3
<1>3. CASE ~sends[s].mine
  BY <1>1, <1>3 DEF Consumed, Consumes
<1> QED BY <1>2, <1>3

\* What a request finds, and that it fails.
LEMMA ReadSteps ==
  ASSUME ViewIInv, NEW c \in ViewConvs, FetchReads(c) \/ FetchFails(c)
  PROVE  ViewIInv'
<1> USE DEF ViewIInv
<1>1. /\ UNCHANGED <<rows, ids, sends, answerMode, unseen>> /\ view'.conv = view.conv /\ view'.abort = view.abort
      /\ view'.items = view.items /\ view' \in View
      /\ \E new \in Query : /\ query' = [query EXCEPT ![c] = new]
                            /\ new.has = query[c].has /\ new.data = query[c].data /\ new.stale = query[c].stale
                            /\ \/ new.fetch = "read" /\ new.read = rows[c]
                               \/ new.fetch = "none" /\ new.read = <<>>
  <2>0. query[c] \in Query /\ view \in View /\ rows[c] \in Seq(StoredMessage)
    BY ViewTypes DEF ViewTypeOK
  <2>1. CASE FetchReads(c)
    <3> DEFINE new == [query[c] EXCEPT !.fetch = "read", !.read = rows[c]]
    <3>1. /\ new \in Query /\ new.has = query[c].has /\ new.data = query[c].data /\ new.stale = query[c].stale
          /\ new.fetch = "read" /\ new.read = rows[c]
      BY <2>0 DEF Query
    <3>2. query' = [query EXCEPT ![c] = new] /\ UNCHANGED <<rows, ids, sends, answerMode, unseen, view>>
      BY <2>1 DEF FetchReads, Storage
    <3> HIDE DEF new
    <3> QED BY <2>0, <3>1, <3>2
  <2>2. CASE FetchFails(c)
    <3> DEFINE new == [query[c] EXCEPT !.fetch = "none", !.read = <<>>]
               page_ == [view EXCEPT !.notFound = TRUE]
    <3>1. /\ new \in Query /\ new.has = query[c].has /\ new.data = query[c].data /\ new.stale = query[c].stale
          /\ new.fetch = "none" /\ new.read = <<>>
      <4>1. PICK none : none = <<>> /\ none \in Seq(StoredMessage)
        <5>1. <<>> \in Seq(StoredMessage)
          OBVIOUS
        <5> QED BY <5>1, Zenon
      <4>2. new = [query[c] EXCEPT !.fetch = "none", !.read = none]
        BY <4>1
      <4>3. new \in Query
        BY <2>0, <4>1, <4>2 DEF Query
      <4>4. /\ new.has = query[c].has /\ new.data = query[c].data /\ new.stale = query[c].stale
            /\ new.fetch = "none" /\ new.read = none
        BY <2>0, <4>2 DEF Query
      <4> QED BY <4>1, <4>3, <4>4
    <3>2. page_ \in View /\ page_.conv = view.conv /\ page_.abort = view.abort /\ page_.items = view.items
      BY <2>0 DEF View
    <3>3. /\ query' = [query EXCEPT ![c] = new] /\ UNCHANGED <<rows, ids, sends, answerMode, unseen>>
          /\ view' = page_ \/ view' = view
      BY <2>2 DEF FetchFails, Storage
    <3> HIDE DEF new, page_
    <3> QED BY <2>0, <3>1, <3>2, <3>3
  <2> QED BY <2>1, <2>2
<1>2. PICK new \in Query :
        /\ query' = [query EXCEPT ![c] = new]
        /\ new.has = query[c].has /\ new.data = query[c].data /\ new.stale = query[c].stale
        /\ \/ new.fetch = "read" /\ new.read = rows[c]
           \/ new.fetch = "none" /\ new.read = <<>>
  BY <1>1
<1>3. query'[c] = new /\ \A d \in ViewConvs : d # c => query'[d] = query[d]
  BY <1>2, ViewTypes
<1>4. ViewTypeOK'
  BY <1>1, <1>2 DEF ViewTypeOK
<1>5. CallsOnPages' /\ Begun'
  <2>1. \A d \in ViewConvs : query[d].has => query'[d].has
    BY <1>2, <1>3
  <2> QED BY <1>1, <2>1, CallsUndisturbed
<1>6. \A d \in ViewConvs : d # c => ConvOK(d)'
  <2> SUFFICES ASSUME NEW d \in ViewConvs, d # c PROVE ConvOK(d)'
    OBVIOUS
  <2> QED BY <1>1, <1>3, ConvKept DEF Streamless
<1>7. ConvOK(c)'
  <2>1. Numbered(c)'
    <3>1. Numbered(c)
      BY DEF ConvOK
    <3>2. query'[c].read = rows[c] \/ query'[c].read = <<>>
      BY <1>2, <1>3
    <3>3. Len(<<>>) = 0
      OBVIOUS
    <3> QED BY <1>1, <1>2, <1>3, <3>1, <3>2, <3>3 DEF Numbered
  <2>2. c \notin unseen' => c \notin unseen /\ FoundIs(c)'
    BY <1>1, <1>2, <1>3 DEF ConvOK, FoundIs, Streamless
  <2> QED BY <1>1, <1>2, <1>3, <2>1, <2>2, PageKept
<1> QED BY <1>4, <1>5, <1>6, <1>7

\* A page made of the cache's answer follows it.
LEMMA PageFresh ==
  ASSUME NEW c \in ViewConvs, query'[c].data \in Seq(StoredMessage), view'.items = AsItems(query'[c].data)
  PROVE  LeftBehind(c)' /\ RowsRight(c)' /\ AheadDiffers(c)'
<1> DEFINE m == query'[c].data
<1>1. m \in Seq(StoredMessage) /\ view'.items = AsItems(m)
  OBVIOUS
<1>2. /\ Len(AsItems(m)) = Len(m) /\ RowsIn(AsItems(m)) = AsItems(m)
      /\ \A i \in 1..Len(m) : AsItems(m)[i].kind = "row" /\ OfRow(AsItems(m)[i]) = m[i]
  BY <1>1, RowsOfMessages
<1>3. LeftBehind(c)'
  BY DEF LeftBehind
<1>4. RowsRight(c)'
  BY <1>1, <1>2 DEF RowsRight
<1>5. ~Placeholder'
  BY <1>1, <1>2 DEF Placeholder
<1>6. \A i \in 1..Len(view'.items) : HeldIn(OfRow(view'.items[i]), m)
  BY <1>1, <1>2 DEF HeldIn
<1> QED BY <1>3, <1>4, <1>5, <1>6 DEF AheadDiffers

LEMMA ArrivalStep ==
  ASSUME ViewIInv, NEW c \in ViewConvs, FetchArrives(c)
  PROVE  ViewIInv'
<1> USE DEF ViewIInv
<1> DEFINE q == query[c]
           taken == ~q.has \/ q.read # q.data
<1>0. q \in Query /\ view \in View /\ q.read \in Seq(StoredMessage) /\ AsItems(q.read) \in Seq(Item)
  BY ViewTypes, RowsOfMessages DEF ViewTypeOK
<1>1. PICK new \in Query : /\ query' = [query EXCEPT ![c] = new]
                           /\ new.has /\ new.data = q.read /\ ~new.stale /\ new.fetch = "none" /\ new.read = <<>>
  <2>1. PICK none : none = <<>> /\ none \in Seq(StoredMessage)
    <3>1. <<>> \in Seq(StoredMessage)
      OBVIOUS
    <3> QED BY <3>1, Zenon
  <2>2. NoQuery \in Query /\ NoQuery.fetch = "none" /\ NoQuery.read = none /\ ~NoQuery.stale
    <3>1. NoQuery = [has |-> FALSE, data |-> none, stale |-> FALSE, fetch |-> "none", read |-> none]
      BY <2>1, Zenon DEF NoQuery
    <3> QED BY <2>1, <3>1 DEF Query
  <2> DEFINE new == [NoQuery EXCEPT !.has = TRUE, !.data = q.read]
  <2>3. query' = [query EXCEPT ![c] = new]
    BY DEF FetchArrives
  <2>4. new \in Query /\ new.has /\ new.data = q.read /\ ~new.stale /\ new.fetch = "none" /\ new.read = none
    BY <1>0, <2>2 DEF Query
  <2> QED BY <2>1, <2>3, <2>4
<1>2. query'[c] = new /\ \A d \in ViewConvs : d # c => query'[d] = query[d]
  BY <1>1, ViewTypes
<1>3. /\ UNCHANGED <<rows, ids, sends, answerMode>> /\ q.fetch = "read"
      /\ unseen' = IF q.read = rows[c] /\ taken /\ ~Called(c) THEN unseen \ {c} ELSE unseen
      /\ view' = IF view.conv = {c} /\ taken THEN [view EXCEPT !.items = AsItems(q.read), !.notFound = FALSE]
                 ELSE view
  BY DEF FetchArrives
<1>4. /\ view' \in View /\ view'.conv = view.conv /\ view'.abort = view.abort
      /\ IF view.conv = {c} /\ taken THEN view'.items = AsItems(q.read) ELSE view'.items = view.items
  BY <1>0, <1>3 DEF View
<1> HIDE DEF taken
<1>5. ViewTypeOK'
  BY <1>1, <1>3, <1>4 DEF ViewTypeOK
<1>6. CallsOnPages' /\ Begun'
  <2>1. \A d \in ViewConvs : query[d].has => query'[d].has
    BY <1>1, <1>2
  <2>2. \A d \in unseen : d \in unseen' \/ ~Called(d)
    BY <1>3
  <2> QED BY <1>3, <1>4, <2>1, <2>2, CallsUndisturbed
<1>7. ASSUME NEW d \in ViewConvs, d # c PROVE ConvOK(d)'
  <2>1. d \in unseen => d \in unseen'
    BY <1>3, <1>7
  <2>2. view'.conv = {d} => view.conv = {d} /\ view'.items = view.items
    BY <1>4, <1>7
  <2> QED BY <1>2, <1>3, <1>7, <2>1, <2>2, ConvKept DEF Streamless
<1>8. Numbered(c)'
  <2>1. Numbered(c) /\ Len(<<>>) = 0
    BY DEF ConvOK
  <2> QED BY <1>1, <1>2, <1>3, <2>1 DEF Numbered
<1>9. c \notin unseen' => query'[c].data = rows'[c] \/ ~Streamless(c)
  <2>1. CASE c \in unseen
    BY <1>1, <1>2, <1>3, <2>1
  <2>2. CASE c \notin unseen
    BY <1>1, <1>2, <1>3, <2>2 DEF ConvOK, FoundIs
  <2> QED BY <2>1, <2>2
<1>10. c \notin unseen' => FoundIs(c)'
  BY <1>1, <1>2, <1>3, <1>9 DEF FoundIs, Streamless
<1>11. CASE view.conv = {c} /\ taken
  <2>1. query'[c].data \in Seq(StoredMessage) /\ view'.items = AsItems(query'[c].data)
    BY <1>0, <1>1, <1>2, <1>4, <1>11
  <2>2. ConvOK(c)'
    BY <1>8, <1>10, <2>1, PageFresh DEF ConvOK, PageFollows
  <2> QED BY <1>5, <1>6, <1>7, <2>2
<1>12. CASE view.conv = {c} /\ ~taken
  <2>1. q.has /\ q.read = q.data /\ c \in unseen' <=> c \in unseen
    BY <1>3, <1>12 DEF taken
  <2>2. query'[c].data = query[c].data /\ query'[c].has = query[c].has
    BY <1>0, <1>1, <1>2, <1>12 DEF taken, Query
  <2>3. view'.conv = view.conv /\ view'.items = view.items
    BY <1>4, <1>12
  <2>4. c \notin unseen' => c \notin unseen
    BY <1>3, <1>12
  <2>5. ConvOK(c)'
    BY <1>3, <1>8, <1>10, <2>2, <2>3, <2>4, PageKept
  <2> QED BY <1>5, <1>6, <1>7, <2>5
<1>13. CASE view.conv # {c}
  <2>1. ConvOK(c)'
    BY <1>4, <1>8, <1>10, <1>13 DEF ConvOK, PageFollows
  <2> QED BY <1>5, <1>6, <1>7, <2>1
<1> QED BY <1>11, <1>12, <1>13

\* The mode, and a conversation that is being created.
LEMMA ComposingSteps ==
  ASSUME ViewIInv, (\E mode \in AnswerModes : setMode(mode)) \/ StartConversation \/ CreateFails
  PROVE  ViewIInv'
<1> USE DEF ViewIInv
<1>1. view \in View /\ answerMode \in AnswerModes
  BY DEF ViewTypeOK
<1>2. /\ UNCHANGED <<rows, ids, query, sends, unseen>> /\ view'.conv = view.conv /\ view'.abort = view.abort
      /\ view'.items = view.items /\ view' \in View /\ answerMode' \in AnswerModes
  <2>1. CASE \E mode \in AnswerModes : setMode(mode)
    BY <1>1, <2>1 DEF setMode, Storage
  <2>2. CASE StartConversation
    <3>1. view' = [view EXCEPT !.creating = {answerMode}] /\ UNCHANGED <<rows, ids, query, sends, unseen, answerMode>>
      BY <2>2 DEF StartConversation, Storage
    <3> QED BY <1>1, <3>1 DEF View
  <2>3. CASE CreateFails
    <3>1. view' = [view EXCEPT !.creating = {}] /\ UNCHANGED <<rows, ids, query, sends, unseen, answerMode>>
      BY <2>3 DEF CreateFails, Storage
    <3> QED BY <1>1, <3>1 DEF View
  <2> QED BY <2>1, <2>2, <2>3
<1>3. ViewTypeOK'
  BY <1>2 DEF ViewTypeOK
<1>4. CallsOnPages' /\ Begun'
  BY <1>2, CallsUndisturbed
<1>5. \A c \in ViewConvs : ConvOK(c)'
  BY <1>2, ConvKept DEF Streamless
<1> QED BY <1>3, <1>4, <1>5

\* Another conversation, or none: a new page, and the calls go on without one.
LEMMA GoingSteps ==
  ASSUME ViewIInv, (\E c \in ViewConvs, old \in BOOLEAN : Open(c, old)) \/ NewChat
  PROVE  ViewIInv'
<1> USE DEF ViewIInv
<1>0. view \in View /\ view.creating \subseteq AnswerModes
  BY DEF ViewTypeOK, View
<1>1. sends' = Unmounted /\ UNCHANGED <<rows, ids, unseen, answerMode>>
  BY DEF Open, NewChat, Storage
<1>2. \A s \in Sends : sends[s] \in SendCall /\ sends'[s] = [sends[s] EXCEPT !.mine = FALSE]
  BY <1>1, ViewTypes DEF Unmounted
<1>3. \A s \in Sends : /\ sends'[s] \in SendCall /\ ~sends'[s].mine /\ sends'[s].conv = sends[s].conv
                       /\ sends'[s].pc = sends[s].pc /\ sends'[s].prompted = sends[s].prompted
  <2> TAKE s \in Sends
  <2> DEFINE new == [sends[s] EXCEPT !.mine = FALSE]
  <2>1. sends[s] \in SendCall /\ sends'[s] = new
    BY <1>2
  <2>2. /\ new \in SendCall /\ ~new.mine /\ new.conv = sends[s].conv
        /\ new.pc = sends[s].pc /\ new.prompted = sends[s].prompted
    BY <2>1 DEF SendCall
  <2> HIDE DEF new
  <2> QED BY <2>1, <2>2
<1>4. sends' \in [Sends -> SendCall]
  <2>1. sends' = [s \in Sends |-> [sends[s] EXCEPT !.mine = FALSE]]
    BY <1>1 DEF Unmounted
  <2> QED BY <1>3, <2>1
<1>5. \A d \in ViewConvs : Streamless(d)' => Streamless(d)
  BY <1>3 DEF Streamless
<1>6. CASE NewChat
  <2>1. view' = [PageOf({}) EXCEPT !.creating = view.creating] /\ UNCHANGED query
    BY <1>6 DEF NewChat
  <2>2. view' \in View /\ view'.conv = {} /\ view'.abort = {}
    <3>1. PICK none : none = <<>> /\ none \in Seq(Item)
      <4>1. <<>> \in Seq(Item)
        OBVIOUS
      <4> QED BY <4>1, Zenon
    <3>2. view' = [conv |-> {}, items |-> none, isStreaming |-> FALSE, abort |-> {}, notFound |-> FALSE,
                   clearing |-> FALSE, creating |-> view.creating]
      BY <2>1, <3>1 DEF PageOf
    <3> QED BY <1>0, <3>1, <3>2 DEF View
  <2>3. ViewTypeOK'
    BY <1>1, <1>4, <2>1, <2>2 DEF ViewTypeOK
  <2>4. CallsOnPages' /\ Begun'
    BY <1>1, <2>1, <2>2, PageLeft
  <2>5. \A d \in ViewConvs : view'.conv # {d}
    BY <2>2
  <2>6. \A d \in ViewConvs : ConvOK(d)'
    BY <1>1, <1>5, <2>1, <2>5, ConvKept
  <2> QED BY <2>3, <2>4, <2>6
<1>7. ASSUME NEW c \in ViewConvs, NEW old \in BOOLEAN, Open(c, old) PROVE ViewIInv'
  <2>0. query[c] \in Query /\ query[c].data \in Seq(StoredMessage) /\ AsItems(query[c].data) \in Seq(Item)
    BY ViewTypes, RowsOfMessages
  <2>1. /\ view' = [PageOf({c}) EXCEPT !.items = AsItems(query[c].data), !.creating = view.creating]
        /\ view.conv # {c} /\ ids[c] > 0
        /\ query' = [query EXCEPT ![c].fetch =
             IF @ = "none" /\ (old \/ ~query[c].has \/ query[c].stale) THEN "asked" ELSE @]
    BY <1>7 DEF Open
  <2>2. view' \in View /\ view'.conv = {c} /\ view'.abort = {} /\ view'.items = AsItems(query[c].data)
    <3>1. view' = [conv |-> {c}, items |-> AsItems(query[c].data), isStreaming |-> FALSE, abort |-> {},
                   notFound |-> FALSE, clearing |-> FALSE, creating |-> view.creating]
      BY <2>1 DEF PageOf
    <3> QED BY <1>0, <2>0, <3>1 DEF View
  <2>3. PICK f \in {"none", "asked", "read"} :
          query' = [query EXCEPT ![c].fetch = f] /\ (f = query[c].fetch \/ f = "asked")
    <3>1. query[c].fetch \in {"none", "asked", "read"}
      BY ViewTypes
    <3> QED BY <2>1, <3>1
  <2> DEFINE new == [query[c] EXCEPT !.fetch = f]
  <2>4. /\ new \in Query /\ new.has = query[c].has /\ new.data = query[c].data /\ new.stale = query[c].stale
        /\ new.read = query[c].read /\ new.fetch = f
    BY <2>0 DEF Query
  <2>5. query' = [query EXCEPT ![c] = new]
    BY <2>3
  <2> HIDE DEF new
  <2>6. query'[c] = new /\ \A d \in ViewConvs : d # c => query'[d] = query[d]
    BY <2>5, ViewTypes
  <2>7. ViewTypeOK'
    BY <1>1, <1>4, <2>2, <2>4, <2>5 DEF ViewTypeOK
  <2>8. CallsOnPages' /\ Begun'
    <3>1. \A d \in ViewConvs : query[d].has => query'[d].has
      BY <2>4, <2>6
    <3> QED BY <1>1, <2>1, <2>2, <3>1, PageLeft
  <2>9. ASSUME NEW d \in ViewConvs, d # c PROVE ConvOK(d)'
    <3>1. view'.conv # {d}
      BY <2>2, <2>9
    <3> QED BY <1>1, <1>5, <2>6, <2>9, <3>1, ConvKept
  <2>10. ConvOK(c)'
    <3>1. Numbered(c)'
      BY <1>1, <2>4, <2>6 DEF ConvOK, Numbered
    <3>2. c \notin unseen' => FoundIs(c)'
      BY <1>1, <1>5, <2>3, <2>4, <2>6 DEF ConvOK, FoundIs
    <3>3. LeftBehind(c)' /\ RowsRight(c)' /\ AheadDiffers(c)'
      BY <2>0, <2>2, <2>4, <2>6, PageFresh
    <3> QED BY <3>1, <3>2, <3>3 DEF ConvOK, PageFollows
  <2> QED BY <2>7, <2>8, <2>9, <2>10
<1> QED BY <1>6, <1>7

\* Items as right as those of the page are.
ItemsSuit(x, c) ==
  /\ query[c].data = rows[c] => RowsIn(x) = AsItems(rows[c])
  /\ \A i \in 1..Len(x) : x[i].kind = "row" => HeldIn(OfRow(x[i]), query[c].data) \/ Differs(c)
StoppedBubble == [Bubble EXCEPT !.kind = "stopped"]
StoredAnswer(s) == [kind |-> "row", role |-> "ASSISTANT", id |-> sends[s].answer]

LEMMA DiffersIsOther ==
  ASSUME ViewTypeOK, NEW c \in ViewConvs, Differs(c)
  PROVE  query[c].data # rows[c]
BY DEF Differs, HeldIn

LEMMA ViewItems ==
  ASSUME ViewTypeOK
  PROVE  /\ Sent \in Item /\ Bubble \in Item /\ StoppedBubble \in Item /\ StoppedBubble.kind # "row"
         /\ \A s \in Sends : StoredAnswer(s) \in Item
         /\ NoBubbles(view.items) \in Seq(Item) /\ view.items \in Seq(Item)
         /\ \A new \in Item : Becoming(view.items, new) \in Seq(Item)
<1>1. MaxRows \in Nat /\ view.items \in Seq(Item) /\ \A s \in Sends : sends[s] \in SendCall
  BY ViewTypes
<1>2. \A s \in Sends : sends[s].answer \in 0..MaxRows
  BY <1>1 DEF SendCall
<1>3. \A s \in Sends : StoredAnswer(s) \in Item
  BY <1>2 DEF StoredAnswer, Item
<1>4. Sent \in Item /\ Bubble \in Item
  BY <1>1 DEF Item, Sent, Bubble
<1>5. StoppedBubble \in Item /\ StoppedBubble.kind # "row"
  BY <1>1 DEF Item, Bubble, StoppedBubble
<1>6. NoBubbles(view.items) \in Seq(Item)
  BY <1>1, NoBubblesOnly
<1>7. \A new \in Item : Becoming(view.items, new) \in Seq(Item)
  BY <1>1, BecomingOnly
<1> QED BY <1>1, <1>3, <1>4, <1>5, <1>6, <1>7

\* What a call makes of the page's items when it ends, when it is stopped and when its answer is there.
LEMMA EndingItems ==
  ASSUME ViewIInv, NEW s \in Sends, NEW c \in ViewConvs, sends[s].conv = {c}, sends[s].mine,
         c \notin unseen, query[c].has
  PROVE  /\ ItemsSuit(view.items, c)
         /\ ItemsSuit(NoBubbles(view.items), c)
         /\ ItemsSuit(Becoming(view.items, StoppedBubble), c)
         /\ sends[s].pc = "answered" => ItemsSuit(Becoming(view.items, StoredAnswer(s)), c)
<1>1. view.conv = {c} /\ view.items \in Seq(Item) /\ RowsRight(c) /\ AheadDiffers(c)
  BY ViewTypes DEF ViewIInv, CallsOnPages, ConvOK, PageFollows
<1>2. ItemsSuit(view.items, c)
  BY <1>1 DEF ItemsSuit, RowsRight, AheadDiffers
<1>3. ItemsSuit(NoBubbles(view.items), c)
  <2>1. /\ RowsIn(NoBubbles(view.items)) = RowsIn(view.items)
        /\ \A n \in 1..Len(NoBubbles(view.items)) : \E i \in 1..Len(view.items) : NoBubbles(view.items)[n] = view.items[i]
    BY <1>1, NoBubblesOnly
  <2> QED BY <1>2, <2>1 DEF ItemsSuit
<1>4. ItemsSuit(Becoming(view.items, StoppedBubble), c)
  <2> DEFINE x == Becoming(view.items, StoppedBubble)
  <2>1. StoppedBubble \in Item /\ StoppedBubble.kind # "row"
    BY ViewItems DEF ViewIInv
  <2>2. /\ RowsIn(x) = RowsIn(view.items) /\ Len(x) = Len(view.items)
        /\ \A i \in 1..Len(view.items) : x[i] = IF view.items[i].kind = "bubble" THEN StoppedBubble ELSE view.items[i]
    BY <1>1, <2>1, BecomingOnly
  <2> HIDE DEF x
  <2>3. ItemsSuit(x, c)
    BY <1>2, <2>1, <2>2 DEF ItemsSuit
  <2> QED BY <2>3 DEF x
<1>5. ASSUME sends[s].pc = "answered" PROVE ItemsSuit(Becoming(view.items, StoredAnswer(s)), c)
  <2> DEFINE x == Becoming(view.items, StoredAnswer(s))
  <2>1. StoredAnswer(s) \in Item
    BY ViewItems DEF ViewIInv
  <2>2. CASE Placeholder
    <3>1. Differs(c)
      BY <1>1, <1>5, <2>2 DEF ViewIInv, CallsOnPages, AheadDiffers
    <3>2. query[c].data # rows[c]
      BY <3>1, DiffersIsOther DEF ViewIInv
    <3> QED BY <3>1, <3>2 DEF ItemsSuit
  <2>3. CASE ~Placeholder
    <3>1. x = view.items
      BY <1>1, <2>1, <2>3, BecomingOnly DEF Placeholder
    <3> QED BY <1>2, <3>1
  <2> QED BY <2>2, <2>3
<1> QED BY <1>2, <1>3, <1>4, <1>5

\* A call is over: the conversation is asked for again.
LEMMA CallEnded ==
  ASSUME ViewIInv, NEW s \in Sends, NEW c \in ViewConvs, sends[s].conv = {c}, sends[s].pc # "idle",
         NEW x \in Seq(Item), sends' = [sends EXCEPT ![s] = NoSend], UNCHANGED <<rows, ids, answerMode>>,
         query' = Invalidated(c), view' = Consumed(s, x), unseen \subseteq unseen', unseen' \subseteq ViewConvs,
         \A d \in unseen' : d # c => d \in unseen,
         c \notin unseen' => query'[c].fetch # "read",
         sends[s].mine /\ c \notin unseen /\ query[c].has => ItemsSuit(x, c)
  PROVE  ViewIInv'
<1> USE DEF ViewIInv
<1>1. /\ NoSend \in SendCall /\ NoSend.conv = {} /\ NoSend.pc = "idle" /\ ~NoSend.mine
  BY ViewTypes DEF NoSend, SendCall, AnswerModes
<1>2. /\ query' \in [ViewConvs -> Query] /\ \A d \in ViewConvs : d # c => query'[d] = query[d]
      /\ query'[c].has = query[c].has /\ query'[c].data = query[c].data /\ query'[c].stale
      /\ query'[c].read = query[c].read \/ query'[c].read = <<>>
  BY InvalidatedOnly
<1>3. /\ view' \in View /\ view'.conv = view.conv
      /\ IF sends[s].mine THEN view'.items = x /\ view'.abort = {} ELSE view' = view
  BY ConsumedOnly
<1>4. sends'[s] = NoSend /\ \A t \in Sends : t # s => sends'[t] = sends[t]
  BY ViewTypes
<1>5. ViewTypeOK'
  <2>1. sends' \in [Sends -> SendCall]
    BY <1>1 DEF ViewTypeOK
  <2> QED BY <1>2, <1>3, <2>1 DEF ViewTypeOK
<1>6. CallsOnPages' /\ Begun'
  <2>1. view'.abort \subseteq view.abort \cup {s} /\ s \notin view'.abort
    BY <1>3 DEF CallsOnPages
  <2>2. \A d \in ViewConvs : (ids[d] > 0 => ids'[d] > 0) /\ (query[d].has => query'[d].has)
    BY <1>2
  <2>3. DOMAIN sends = Sends
    BY ViewTypes
  <2> DEFINE new == NoSend
  <2>4. /\ sends' = [sends EXCEPT ![s] = new] /\ new.conv = {} /\ new.pc = "idle" /\ ~new.mine
    BY <1>1
  <2> HIDE DEF new
  <2> QED BY <1>3, <2>1, <2>2, <2>3, <2>4, CallChanges
<1>7. ASSUME NEW d \in ViewConvs, d # c PROVE ConvOK(d)'
  <2>1. {c} # {d}
    BY <1>7
  <2>2. view'.conv = {d} => view.conv = {d} /\ view'.items = view.items
    BY <1>3, <2>1 DEF CallsOnPages
  <2>3. Streamless(d)' => Streamless(d)
    BY <1>1, <1>4, <2>1 DEF Streamless
  <2>4. \A t \in Sends : /\ sends'[t].mine => t # s
                         /\ sends'[t].conv = {d} => t # s
    BY <1>1, <1>4
  <2> QED BY <1>2, <1>4, <1>7, <2>2, <2>3, <2>4, ConvKept
<1>8. Numbered(c)'
  <2>1. Numbered(c) /\ Len(<<>>) = 0
    BY DEF ConvOK
  <2> QED BY <1>2, <2>1 DEF Numbered
<1>9. CASE c \in unseen'
  BY <1>5, <1>6, <1>7, <1>8, <1>9, ConvUnfollowed
<1>10. CASE c \notin unseen'
  <2>0. c \notin unseen
    BY <1>10
  <2>1. FoundIs(c)'
    BY <1>2, <1>10 DEF FoundIs
  <2>2. \A t \in Sends : sends'[t].conv # {c}
    <3> SUFFICES ASSUME NEW t \in Sends, sends'[t].conv = {c} PROVE FALSE
      OBVIOUS
    <3>1. t # s
      BY <1>1, <1>4
    <3>2. sends[t].conv = sends[s].conv
      BY <1>4, <3>1
    <3> QED BY <2>0, <3>1, <3>2 DEF CallsOnPages
  <2>3. ASSUME view'.conv = {c} PROVE LeftBehind(c)' /\ (query'[c].has => RowsRight(c)' /\ AheadDiffers(c)')
    <3>1. LeftBehind(c)'
      BY <2>2 DEF LeftBehind
    <3>2. \A t \in Sends : ~sends'[t].mine
      <4>1. \A t \in Sends : sends'[t].mine => sends'[t].conv = {c}
        BY <1>6, <2>3 DEF CallsOnPages
      <4> QED BY <2>2, <4>1
    <3>3. query[c].has => ItemsSuit(view'.items, c)
      <4>1. CASE sends[s].mine
        BY <1>3, <2>0, <4>1
      <4>2. CASE ~sends[s].mine
        BY <1>3, <2>0, <2>3, <4>2 DEF ConvOK, PageFollows, ItemsSuit, RowsRight, AheadDiffers
      <4> QED BY <4>1, <4>2
    <3>4. Differs(c)' <=> Differs(c)
      BY <1>2 DEF Differs
    <3> QED BY <1>2, <3>1, <3>2, <3>3, <3>4 DEF ItemsSuit, RowsRight, AheadDiffers
  <2>4. ConvOK(c)'
    BY <1>8, <2>1, <2>3 DEF ConvOK, PageFollows
  <2> QED BY <1>5, <1>6, <1>7, <2>4
<1> QED BY <1>9, <1>10

\* The answer is there, asks back, or will not come.
LEMMA EndingSteps ==
  ASSUME ViewIInv, NEW s \in Sends,
         SendDone(s) \/ Disambiguation(s) \/ Refused(s) \/ (Breaks(s) /\ ~TriesAgain(s))
  PROVE  ViewIInv'
<1>1. \E x : /\ Ended(s, x) /\ sends[s].pc # "idle"
             /\ \/ x = view.items \/ x = NoBubbles(view.items)
                \/ sends[s].pc = "answered" /\ x = Becoming(view.items, StoredAnswer(s))
  BY DEF SendDone, Disambiguation, Refused, Breaks, SendFailed, Active, Streams, StoredAnswer
<1>2. PICK x : /\ Ended(s, x) /\ sends[s].pc # "idle"
               /\ \/ x = view.items \/ x = NoBubbles(view.items)
                  \/ sends[s].pc = "answered" /\ x = Becoming(view.items, StoredAnswer(s))
  BY <1>1
<1>3. x \in Seq(Item)
  BY <1>2, ViewItems DEF ViewIInv
<1>4. PICK c \in ViewConvs : sends[s].conv = {c}
  BY <1>2 DEF ViewIInv, CallsOnPages
<1>5. ConvOf(s) = c
  BY <1>4 DEF ConvOf
<1>6. /\ sends' = [sends EXCEPT ![s] = NoSend] /\ UNCHANGED <<rows, ids, answerMode>>
      /\ query' = Invalidated(c) /\ view' = Consumed(s, x) /\ unseen' = unseen \cup Missed(c)
  BY <1>2, <1>5 DEF Ended, MovesTo
<1>7. /\ unseen \subseteq unseen' /\ unseen' \subseteq ViewConvs /\ \A d \in unseen' : d # c => d \in unseen
      /\ c \notin unseen' => query'[c].fetch # "read"
  BY <1>4, <1>6, MissedOnly, InvalidatedOnly DEF ViewIInv, ViewTypeOK
<1>8. sends[s].mine /\ c \notin unseen /\ query[c].has => ItemsSuit(x, c)
  BY <1>2, <1>4, EndingItems
<1> QED BY <1>2, <1>3, <1>4, <1>6, <1>7, <1>8, CallEnded

\* Other conversations are not disturbed by what one call does.
LEMMA OthersKept ==
  ASSUME ViewIInv, NEW s \in Sends, NEW c \in ViewConvs, sends[s].conv \subseteq {c},
         NEW new, sends' = [sends EXCEPT ![s] = new], new.conv \subseteq {c}, new.mine => view.conv = {c},
         view'.conv = view.conv, view.conv # {c} => view'.items = view.items, unseen \subseteq unseen',
         \A d \in ViewConvs : d # c => rows'[d] = rows[d] /\ ids'[d] = ids[d] /\ query'[d] = query[d]
  PROVE  \A d \in ViewConvs : d # c => ConvOK(d)'
<1> SUFFICES ASSUME NEW d \in ViewConvs, d # c PROVE ConvOK(d)'
  OBVIOUS
<1>1. sends'[s] = new /\ \A t \in Sends : t # s => sends'[t] = sends[t]
  BY ViewTypes DEF ViewIInv
<1>2. Streamless(d)' => Streamless(d)
  BY <1>1 DEF Streamless
<1>3. view'.conv = {d} => view'.items = view.items /\ view.conv = {d} /\ view.conv # {c}
  BY DEF ViewIInv
<1>4. \A t \in Sends : sends'[t].conv = {d} => t # s
  BY <1>1
<1>5. view'.conv = {d} => \A t \in Sends : sends'[t].mine => t # s
  BY <1>1, <1>3
<1> QED BY <1>1, <1>2, <1>3, <1>4, <1>5, ConvKept DEF ViewIInv

\* One message more.
LEMMA RowAdded ==
  ASSUME ViewIInv, NEW c \in ViewConvs, NEW role \in {"USER", "ASSISTANT"}, ids[c] < MaxRows,
         rows' = [rows EXCEPT ![c] = Append1(c, role)], ids' = [ids EXCEPT ![c] = @ + 1], UNCHANGED query
  PROVE  /\ rows' \in [ViewConvs -> Seq(StoredMessage)] /\ ids' \in [ViewConvs -> 0..MaxRows] /\ ids'[c] > 0
         /\ \A d \in ViewConvs : d # c => rows'[d] = rows[d] /\ ids'[d] = ids[d]
         /\ Numbered(c)' /\ query[c].data # rows'[c] /\ (Differs(c) \/ role = "USER" => Differs(c)')
<1> DEFINE new == [role |-> role, id |-> ids[c] + 1]
           n == Len(rows[c])
<1>1. /\ rows \in [ViewConvs -> Seq(StoredMessage)] /\ ids \in [ViewConvs -> 0..MaxRows] /\ MaxRows \in Nat
      /\ rows[c] \in Seq(StoredMessage) /\ ids[c] \in 0..MaxRows /\ ids[c] \in Int /\ Numbered(c)
      /\ query[c].data \in Seq(StoredMessage) /\ query[c].read \in Seq(StoredMessage)
  BY ViewTypes DEF ViewIInv, ViewTypeOK, ConvOK
<1>2. ids[c] + 1 \in 1..MaxRows /\ new \in StoredMessage /\ n \in Nat
  BY <1>1 DEF StoredMessage
<1>3. rows'[c] = Append(rows[c], new) /\ ids'[c] = ids[c] + 1
  BY <1>1 DEF Append1
<1>4. Append(rows[c], new) \in Seq(StoredMessage)
  BY <1>1, <1>2
<1>5. rows' \in [ViewConvs -> Seq(StoredMessage)] /\ ids' \in [ViewConvs -> 0..MaxRows] /\ ids'[c] > 0
  <2>1. rows' = [rows EXCEPT ![c] = Append(rows[c], new)]
    BY DEF Append1
  <2>2. rows' \in [ViewConvs -> Seq(StoredMessage)]
    BY <1>1, <1>4, <2>1
  <2> QED BY <1>1, <1>2, <1>3, <2>2
<1>6. /\ Len(rows'[c]) = n + 1 /\ rows'[c][n + 1] = new /\ \A i \in 1..n : rows'[c][i] = rows[c][i]
  BY <1>1, <1>2, <1>3
<1>7. new.id = ids[c] + 1 /\ new.role = role
  OBVIOUS
<1>8. \A i \in 1..n : rows[c][i] \in StoredMessage /\ rows[c][i].id \in Int /\ rows[c][i].id <= ids[c]
  <2>1. \A i \in 1..Len(rows[c]) : rows[c][i] \in StoredMessage
    BY <1>1
  <2> QED BY <1>1, <2>1 DEF Numbered, StoredMessage
<1>9. \A i \in 1..Len(query[c].data) : query[c].data[i].id \in Int /\ query[c].data[i].id <= ids[c]
  <2>1. \A i \in 1..Len(query[c].data) : query[c].data[i] \in StoredMessage
    BY <1>1
  <2> QED BY <1>1, <2>1 DEF Numbered, StoredMessage
<1>10. \A i \in 1..Len(query[c].read) : query[c].read[i].id \in Int /\ query[c].read[i].id <= ids[c]
  <2>1. \A i \in 1..Len(query[c].read) : query[c].read[i] \in StoredMessage
    BY <1>1
  <2> QED BY <1>1, <2>1 DEF Numbered, StoredMessage
<1> HIDE DEF new, n
<1>11. \A i \in 1..(n + 1) : i \in 1..n \/ i = n + 1
  BY <1>2
<1>12. Numbered(c)'
  <2>1. \A i \in 1..Len(rows'[c]) : rows'[c][i].id <= ids'[c]
    <3> SUFFICES ASSUME NEW i \in 1..Len(rows'[c]) PROVE rows'[c][i].id <= ids'[c]
      OBVIOUS
    <3>1. CASE i \in 1..n
      BY <1>1, <1>3, <1>6, <1>8, <3>1
    <3>2. CASE i = n + 1
      BY <1>1, <1>3, <1>6, <1>7, <3>2
    <3> QED BY <1>6, <1>11, <3>1, <3>2
  <2>2. /\ \A i \in 1..Len(query[c].data) : query[c].data[i].id <= ids'[c]
        /\ \A i \in 1..Len(query[c].read) : query[c].read[i].id <= ids'[c]
    BY <1>1, <1>3, <1>9, <1>10
  <2>3. ASSUME NEW i \in 1..Len(rows'[c]), NEW j \in 1..Len(rows'[c]), rows'[c][i].id = rows'[c][j].id PROVE i = j
    <3>1. CASE i \in 1..n /\ j \in 1..n
      BY <1>1, <1>6, <2>3, <3>1 DEF Numbered, n
    <3>2. CASE i \in 1..n /\ j = n + 1
      BY <1>1, <1>6, <1>7, <1>8, <2>3, <3>2
    <3>3. CASE i = n + 1 /\ j \in 1..n
      BY <1>1, <1>6, <1>7, <1>8, <2>3, <3>3
    <3> QED BY <1>6, <1>11, <3>1, <3>2, <3>3
  <2> QED BY <2>1, <2>2, <2>3 DEF Numbered
<1>13. ~HeldIn(new, query[c].data)
  BY <1>1, <1>7, <1>9 DEF HeldIn
<1>14. HeldIn(new, rows'[c]) /\ n + 1 \in 1..Len(rows'[c])
  BY <1>2, <1>6 DEF HeldIn
<1>15. query[c].data # rows'[c]
  BY <1>13, <1>14
<1>16. role = "USER" => Differs(c)'
  BY <1>6, <1>7, <1>13, <1>14 DEF Differs
<1>17. ASSUME Differs(c) PROVE Differs(c)'
  <2>1. CASE \E i \in 1..Len(query[c].data) : ~HeldIn(query[c].data[i], rows[c])
    <3>1. PICK i \in 1..Len(query[c].data) : ~HeldIn(query[c].data[i], rows[c])
      BY <2>1
    <3>2. query[c].data[i] # new
      BY <1>13, <3>1 DEF HeldIn
    <3>3. ~HeldIn(query[c].data[i], rows'[c])
      BY <1>6, <1>11, <3>1, <3>2 DEF HeldIn, n
    <3> QED BY <3>3 DEF Differs
  <2>2. CASE \E i \in 1..Len(rows[c]) : rows[c][i].role = "USER" /\ ~HeldIn(rows[c][i], query[c].data)
    <3>1. PICK i \in 1..n : rows[c][i].role = "USER" /\ ~HeldIn(rows[c][i], query[c].data)
      BY <2>2 DEF n
    <3>2. i \in 1..Len(rows'[c])
      BY <1>2, <1>6
    <3> QED BY <1>6, <3>1, <3>2 DEF Differs
  <2> QED BY <1>17, <2>1, <2>2 DEF Differs
<1>18. \A d \in ViewConvs : d # c => rows'[d] = rows[d] /\ ids'[d] = ids[d]
  BY <1>1
<1> QED BY <1>5, <1>12, <1>15, <1>16, <1>17, <1>18

\* The prompt and the answer are stored, and the cache is told of neither.
LEMMA StoringSteps ==
  ASSUME ViewIInv, NEW s \in Sends, (SendAccepted(s) /\ ~sends[s].prompted) \/ AnswerStored(s)
  PROVE  ViewIInv'
<1> USE DEF ViewIInv
<1>0. PICK c \in ViewConvs : sends[s].conv = {c} /\ ConvOf(s) = c
  BY DEF SendAccepted, AnswerStored, Active, CallsOnPages, ConvOf
<1>1. sends[s] \in SendCall /\ sends[s].answer \in 0..MaxRows /\ sends[s].mine \in BOOLEAN /\ ids[c] \in 0..MaxRows
      /\ MaxRows \in Nat
  <2>1. sends[s] \in SendCall
    BY ViewTypes
  <2> QED BY <2>1, ViewTypes DEF SendCall
<1>2. PICK role \in {"USER", "ASSISTANT"}, new \in SendCall :
        /\ ids[c] < MaxRows /\ rows' = [rows EXCEPT ![c] = Append1(c, role)] /\ ids' = [ids EXCEPT ![c] = @ + 1]
        /\ sends' = [sends EXCEPT ![s] = new] /\ UNCHANGED <<query, view, answerMode, unseen>>
        /\ new.conv = {c} /\ new.mine = sends[s].mine /\ new.prompted /\ new.pc \in {"reading", "answered"}
        /\ sends[s].pc \in {"post", "reading"} /\ (role = "USER" \/ sends[s].prompted)
  <2>1. CASE SendAccepted(s) /\ ~sends[s].prompted
    <3> DEFINE new == [sends[s] EXCEPT !.pc = "reading", !.prompted = TRUE]
    <3>1. new \in SendCall /\ new.conv = {c} /\ new.mine = sends[s].mine /\ new.prompted /\ new.pc = "reading"
      BY <1>0, <1>1 DEF SendCall
    <3>2. sends' = [sends EXCEPT ![s] = new]
      BY <2>1 DEF SendAccepted, MovesTo
    <3> HIDE DEF new
    <3> QED BY <1>0, <2>1, <3>1, <3>2 DEF SendAccepted, Active
  <2>2. CASE AnswerStored(s)
    <3> DEFINE new == [sends[s] EXCEPT !.pc = "answered", !.answer = ids[c] + 1]
    <3>0. ids[c] + 1 \in 0..MaxRows
      BY <1>0, <1>1, <2>2 DEF AnswerStored
    <3>1. new \in SendCall /\ new.conv = {c} /\ new.mine = sends[s].mine /\ new.pc = "answered"
          /\ new.prompted = sends[s].prompted
      BY <1>0, <1>1, <3>0 DEF SendCall
    <3>2. sends' = [sends EXCEPT ![s] = new]
      BY <1>0, <2>2 DEF AnswerStored, MovesTo
    <3>3. sends[s].prompted
      BY <2>2 DEF AnswerStored, Active, CallsOnPages
    <3> HIDE DEF new
    <3> QED BY <1>0, <2>2, <3>1, <3>2, <3>3 DEF AnswerStored, Active
  <2> QED BY <2>1, <2>2
<1>3. /\ rows' \in [ViewConvs -> Seq(StoredMessage)] /\ ids' \in [ViewConvs -> 0..MaxRows] /\ ids'[c] > 0
      /\ \A d \in ViewConvs : d # c => rows'[d] = rows[d] /\ ids'[d] = ids[d]
      /\ Numbered(c)' /\ query[c].data # rows'[c] /\ (Differs(c) \/ role = "USER" => Differs(c)')
  BY <1>2, RowAdded
<1>4. ViewTypeOK'
  BY <1>2, <1>3 DEF ViewTypeOK
<1>5. sends'[s] = new /\ \A t \in Sends : t # s => sends'[t] = sends[t]
  BY <1>2, ViewTypes
<1>6. CallsOnPages' /\ Begun'
  <2>1. \A d \in ViewConvs : (ids[d] > 0 => ids'[d] > 0) /\ (query[d].has => query'[d].has)
    BY <1>2, <1>3
  <2>2. new.mine => new.conv = view.conv
    BY <1>0, <1>2 DEF CallsOnPages
  <2>3. s \in view'.abort => new.mine /\ new.pc \in {"post", "reading", "answered"}
    BY <1>2 DEF CallsOnPages
  <2>4. view'.abort \subseteq view.abort \cup {s} /\ unseen \subseteq unseen' /\ view'.conv = view.conv
    BY <1>2
  <2>5. new.conv = sends[s].conv /\ sends[s].pc # "idle" /\ DOMAIN sends = Sends
    BY <1>0, <1>2, ViewTypes
  <2>6. new.pc # "idle" /\ new.conv # {} /\ new.pc # "backoff" /\ new.prompted
    BY <1>2
  <2> QED BY <1>2, <2>1, <2>2, <2>3, <2>4, <2>5, <2>6, CallChanges
<1>7. \A d \in ViewConvs : d # c => ConvOK(d)'
  <2>1. new.mine => view.conv = {c}
    BY <1>0, <1>2 DEF CallsOnPages
  <2>2. \A d \in ViewConvs : d # c => rows'[d] = rows[d] /\ ids'[d] = ids[d] /\ query'[d] = query[d]
    BY <1>2, <1>3
  <2> QED BY <1>0, <1>2, <2>1, <2>2, OthersKept
<1>8. ConvOK(c)'
  <2> SUFFICES ASSUME c \notin unseen PROVE FoundIs(c)' /\ PageFollows(c)'
    BY <1>2, <1>3 DEF ConvOK
  <2>1. ~Streamless(c)'
    BY <1>2, <1>5 DEF Streamless
  <2>2. ASSUME view.conv = {c} PROVE LeftBehind(c)' /\ (query[c].has => RowsRight(c)' /\ AheadDiffers(c)')
    <3>1. LeftBehind(c) /\ (query[c].has => AheadDiffers(c))
      BY <2>2 DEF ConvOK, PageFollows
    <3>2. \A t \in Sends : sends'[t].conv = {c} /\ ~sends'[t].mine => sends[t].conv = {c} /\ ~sends[t].mine
      BY <1>0, <1>2, <1>5
    <3>3. LeftBehind(c)'
      BY <1>2, <3>1, <3>2 DEF LeftBehind
    <3>4. RowsRight(c)'
      BY <1>2, <1>3 DEF RowsRight
    <3>5. ASSUME query[c].has PROVE AheadDiffers(c)'
      <4>1. \A t \in Sends : sends'[t].mine /\ sends'[t].prompted /\ sends'[t].pc # "regenerate" =>
              \/ role = "USER" /\ t = s
              \/ sends[t].mine /\ sends[t].prompted /\ sends[t].pc # "regenerate"
        BY <1>2, <1>5
      <4>2. Placeholder' <=> Placeholder
        BY <1>2 DEF Placeholder
      <4> QED BY <1>2, <1>3, <3>1, <3>5, <4>1, <4>2 DEF AheadDiffers
    <3> QED BY <3>3, <3>4, <3>5
  <2> QED BY <1>2, <2>1, <2>2 DEF FoundIs, PageFollows
<1> QED BY <1>4, <1>6, <1>7, <1>8

LEMMA BackingOff ==
  ASSUME NEW call \in SendCall, MaxRows \in Nat
  PROVE  LET new == [call EXCEPT !.pc = "backoff", !.answer = 0] IN
         /\ new \in SendCall /\ new.pc = "backoff" /\ new.conv = call.conv /\ new.mine = call.mine
         /\ new.prompted = call.prompted /\ new.attempt = call.attempt
<1> DEFINE new == [call EXCEPT !.pc = "backoff", !.answer = 0]
<1>1. 0 \in 0..MaxRows
  OBVIOUS
<1>2. new \in SendCall
  BY <1>1 DEF SendCall
<1>3. /\ new.pc = "backoff" /\ new.conv = call.conv /\ new.mine = call.mine
      /\ new.prompted = call.prompted /\ new.attempt = call.attempt
  BY DEF SendCall
<1> QED BY <1>2, <1>3

\* An attempt more: nothing is stored, and the page keeps its items.
LEMMA RetryingSteps ==
  ASSUME ViewIInv, NEW s \in Sends,
         (SendAccepted(s) /\ sends[s].prompted) \/ (Breaks(s) /\ TriesAgain(s)) \/ RetryAfterBackoff(s)
  PROVE  ViewIInv'
<1> USE DEF ViewIInv
<1>0. PICK c \in ViewConvs : sends[s].conv = {c} /\ ConvOf(s) = c
  BY DEF SendAccepted, Breaks, RetryAfterBackoff, Active, Streams, CallsOnPages, ConvOf
<1>1. /\ sends[s] \in SendCall /\ sends[s].attempt \in 0..StreamRetries /\ sends[s].mine \in BOOLEAN
      /\ sends[s].prompted \in BOOLEAN /\ StreamRetries \in Nat /\ MaxRows \in Nat /\ view.items \in Seq(Item)
  <2>1. sends[s] \in SendCall
    BY ViewTypes
  <2> QED BY <2>1, ViewTypes DEF SendCall
<1>2. PICK new \in SendCall :
        /\ sends' = [sends EXCEPT ![s] = new] /\ UNCHANGED <<rows, ids, query, answerMode, unseen>>
        /\ new.conv = {c} /\ new.mine = sends[s].mine /\ new.prompted = sends[s].prompted
        /\ new.pc \in {"post", "reading", "backoff"} /\ sends[s].pc \notin {"idle", "regenerate"}
        /\ new.pc = "reading" => new.prompted
        /\ new.pc = "backoff" => new.attempt < StreamRetries
        /\ \/ view' = view /\ new.pc = "reading"
           \/ view' = Consumed(s, view.items)
           \/ view' = Consumes(s, view.items) /\ new.pc = "post"
  <2>1. CASE SendAccepted(s) /\ sends[s].prompted
    <3> DEFINE new == [sends[s] EXCEPT !.pc = "reading", !.prompted = TRUE]
    <3>1. new \in SendCall /\ new.conv = {c} /\ new.mine = sends[s].mine /\ new.prompted /\ new.pc = "reading"
      BY <1>0, <1>1 DEF SendCall
    <3>2. sends' = [sends EXCEPT ![s] = new] /\ UNCHANGED <<rows, ids, query, answerMode, unseen, view>>
      BY <2>1 DEF SendAccepted, MovesTo
    <3>3. sends[s].pc = "post" /\ new.prompted = sends[s].prompted
      BY <1>1, <2>1, <3>1 DEF SendAccepted, Active, SendCall
    <3> HIDE DEF new
    <3> QED BY <3>1, <3>2, <3>3
  <2>2. CASE Breaks(s) /\ TriesAgain(s)
    <3> DEFINE new == [sends[s] EXCEPT !.pc = "backoff", !.answer = 0]
    <3>1. /\ new \in SendCall /\ new.conv = {c} /\ new.mine = sends[s].mine /\ new.prompted = sends[s].prompted
          /\ new.pc = "backoff" /\ new.attempt = sends[s].attempt
      BY <1>0, <1>1, BackingOff
    <3>2. /\ sends' = [sends EXCEPT ![s] = new] /\ view' = Consumed(s, view.items)
          /\ UNCHANGED <<rows, ids, query, answerMode, unseen>>
      BY <2>2 DEF Breaks, MovesTo, Storage
    <3>3. sends[s].pc \notin {"idle", "regenerate"} /\ sends[s].attempt < StreamRetries
      BY <2>2 DEF Breaks, TriesAgain, Active, Streams
    <3> HIDE DEF new
    <3> QED BY <3>1, <3>2, <3>3
  <2>3. CASE RetryAfterBackoff(s)
    <3> DEFINE new == [sends[s] EXCEPT !.pc = "post", !.attempt = @ + 1]
    <3>0. sends[s].attempt < StreamRetries /\ sends[s].pc = "backoff"
      BY <2>3 DEF RetryAfterBackoff, Active, CallsOnPages
    <3>1. sends[s].attempt + 1 \in 0..StreamRetries
      BY <1>1, <3>0
    <3>2. /\ new \in SendCall /\ new.conv = {c} /\ new.mine = sends[s].mine /\ new.prompted = sends[s].prompted
          /\ new.pc = "post"
      BY <1>0, <1>1, <3>1 DEF SendCall
    <3>3. /\ sends' = [sends EXCEPT ![s] = new] /\ view' = Consumes(s, view.items)
          /\ UNCHANGED <<rows, ids, query, answerMode, unseen>>
      BY <2>3 DEF RetryAfterBackoff, MovesTo, Storage
    <3> HIDE DEF new
    <3> QED BY <3>0, <3>2, <3>3
  <2> QED BY <2>1, <2>2, <2>3
<1>3. /\ view' \in View /\ view'.conv = view.conv /\ view'.items = view.items
      /\ \/ view'.abort = view.abort /\ (sends[s].mine => new.pc = "reading")
         \/ sends[s].mine /\ view'.abort = {}
         \/ sends[s].mine /\ view'.abort = {s} /\ new.pc = "post"
  <2>1. /\ Consumed(s, view.items) \in View /\ Consumed(s, view.items).conv = view.conv
        /\ IF sends[s].mine THEN Consumed(s, view.items).items = view.items /\ Consumed(s, view.items).abort = {}
           ELSE Consumed(s, view.items) = view
        /\ Consumes(s, view.items) \in View /\ Consumes(s, view.items).conv = view.conv
        /\ IF sends[s].mine THEN Consumes(s, view.items).items = view.items /\ Consumes(s, view.items).abort = {s}
           ELSE Consumes(s, view.items) = view
    BY <1>1, ConsumedOnly
  <2>2. view \in View
    BY DEF ViewTypeOK
  <2> QED BY <1>2, <2>1, <2>2
<1>4. ViewTypeOK'
  BY <1>2, <1>3 DEF ViewTypeOK
<1>5. sends'[s] = new /\ \A t \in Sends : t # s => sends'[t] = sends[t]
  BY <1>2, ViewTypes
<1>6. CallsOnPages' /\ Begun'
  <2>1. new.mine => new.conv = view.conv
    BY <1>0, <1>2 DEF CallsOnPages
  <2>2. s \in view'.abort => new.mine /\ new.pc \in {"post", "reading", "answered"}
    BY <1>2, <1>3 DEF CallsOnPages
  <2>3. view'.abort \subseteq view.abort \cup {s} /\ unseen \subseteq unseen' /\ view'.conv = view.conv
    BY <1>2, <1>3
  <2>4. new.conv = sends[s].conv /\ sends[s].pc # "idle" /\ DOMAIN sends = Sends
    BY <1>0, <1>2, ViewTypes
  <2>5. new.pc # "idle" /\ new.conv # {} /\ (new.pc \in {"reading", "answered"} => new.prompted)
    BY <1>2
  <2>6. \A d \in ViewConvs : (ids[d] > 0 => ids'[d] > 0) /\ (query[d].has => query'[d].has)
    BY <1>2
  <2> QED BY <1>2, <2>1, <2>2, <2>3, <2>4, <2>5, <2>6, CallChanges
<1>7. ASSUME NEW d \in ViewConvs PROVE ConvOK(d)'
  <2>1. Streamless(d)' => Streamless(d)
    BY <1>0, <1>2, <1>5 DEF Streamless
  <2>2. \A t \in Sends : /\ sends'[t].mine /\ sends'[t].prompted /\ sends'[t].pc # "regenerate" =>
                              sends[t].mine /\ sends[t].prompted /\ sends[t].pc # "regenerate"
                         /\ sends'[t].conv = {d} /\ ~sends'[t].mine => sends[t].conv = {d} /\ ~sends[t].mine
    BY <1>0, <1>2, <1>5
  <2> QED BY <1>2, <1>3, <2>1, <2>2, ConvKept
<1> QED BY <1>4, <1>6, <1>7

\* A call is stopped: its bubble is left behind, and the conversation is read again.
LEMMA StopStep ==
  ASSUME ViewIInv, NEW s \in Sends, StopIt(s)
  PROVE  ViewIInv'
<1> USE DEF ViewIInv
<1> DEFINE x == Becoming(view.items, StoppedBubble)
<1>0. PICK c \in ViewConvs : sends[s].conv = {c} /\ view.conv = {c} /\ ConvOf(s) = c
  BY DEF StopIt, CallsOnPages, ConvOf
<1>1. sends[s].mine /\ sends[s].pc \in {"post", "reading", "answered"} /\ x \in Seq(Item)
  BY ViewItems DEF StopIt, CallsOnPages
<1>2. /\ query' = Invalidated(c) /\ view' = Consumed(s, x) /\ UNCHANGED <<rows, ids, answerMode>>
      /\ unseen' = unseen \cup Missed(c)
  BY <1>0 DEF StopIt, StoppedBubble
<1>a. /\ unseen \subseteq unseen' /\ unseen' \subseteq ViewConvs /\ \A d \in unseen' : d # c => d \in unseen
      /\ c \notin unseen' => c \notin unseen /\ query'[c].fetch # "read"
  BY <1>0, <1>2, MissedOnly, InvalidatedOnly DEF ViewTypeOK
<1>3. CASE ~TriesAgain(s)
  <2>1. sends' = [sends EXCEPT ![s] = NoSend]
    BY <1>3 DEF StopIt, MovesTo
  <2>2. c \notin unseen /\ query[c].has => ItemsSuit(x, c)
    BY <1>0, <1>1, EndingItems
  <2> HIDE DEF x
  <2> QED BY <1>0, <1>1, <1>2, <1>a, <2>1, <2>2, CallEnded
<1>4. CASE TriesAgain(s)
  <2> DEFINE new == [sends[s] EXCEPT !.pc = "backoff", !.answer = 0]
  <2>1. /\ new \in SendCall /\ new.conv = {c} /\ new.mine /\ new.prompted = sends[s].prompted
        /\ new.pc = "backoff" /\ new.attempt < StreamRetries
    <3>1. sends[s] \in SendCall /\ MaxRows \in Nat /\ sends[s].attempt < StreamRetries
      BY <1>4, ViewTypes DEF TriesAgain
    <3> QED BY <1>0, <1>1, <3>1, BackingOff
  <2>2. sends' = [sends EXCEPT ![s] = new]
    BY <1>4 DEF StopIt, MovesTo
  <2> HIDE DEF new
  <2>3. /\ query' \in [ViewConvs -> Query] /\ \A d \in ViewConvs : d # c => query'[d] = query[d]
        /\ query'[c].has = query[c].has /\ query'[c].data = query[c].data /\ query'[c].stale
        /\ query'[c].read = query[c].read \/ query'[c].read = <<>>
    BY <1>0, <1>2, InvalidatedOnly
  <2>4. view' \in View /\ view'.conv = view.conv /\ view'.items = x /\ view'.abort = {}
    <3> HIDE DEF x
    <3> QED BY <1>1, <1>2, ConsumedOnly
  <2>5. ViewTypeOK'
    BY <1>2, <1>a, <2>1, <2>2, <2>3, <2>4 DEF ViewTypeOK
  <2>6. sends'[s] = new /\ \A t \in Sends : t # s => sends'[t] = sends[t]
    BY <2>2, ViewTypes
  <2>7. CallsOnPages' /\ Begun'
    <3>1. \A d \in ViewConvs : (ids[d] > 0 => ids'[d] > 0) /\ (query[d].has => query'[d].has)
      BY <1>2, <2>3
    <3>2. new.conv = sends[s].conv /\ sends[s].pc # "idle" /\ DOMAIN sends = Sends /\ new.conv = view.conv
      BY <1>0, <1>1, <2>1, ViewTypes
    <3>3. view'.abort \subseteq view.abort \cup {s} /\ s \notin view'.abort /\ unseen \subseteq unseen'
      BY <1>a, <2>4
    <3>4. new.pc # "idle" /\ new.conv # {} /\ new.pc \notin {"reading", "answered"}
      BY <2>1
    <3> QED BY <2>1, <2>2, <2>4, <3>1, <3>2, <3>3, <3>4, CallChanges
  <2>8. \A d \in ViewConvs : d # c => ConvOK(d)'
    <3>1. \A d \in ViewConvs : d # c => rows'[d] = rows[d] /\ ids'[d] = ids[d] /\ query'[d] = query[d]
      BY <1>2, <2>3
    <3> QED BY <1>0, <1>2, <1>a, <2>1, <2>2, <2>4, <3>1, OthersKept
  <2>9. Numbered(c)'
    <3>1. Numbered(c) /\ Len(<<>>) = 0
      BY DEF ConvOK
    <3> QED BY <1>2, <2>3, <3>1 DEF Numbered
  <2>10. ASSUME c \notin unseen' PROVE FoundIs(c)' /\ PageFollows(c)'
    <3>1. FoundIs(c)'
      BY <1>a, <2>3, <2>10 DEF FoundIs
    <3>2. \A t \in Sends : sends'[t].conv = {c} => t = s
      <4> SUFFICES ASSUME NEW t \in Sends, sends'[t].conv = {c}, t # s PROVE FALSE
        OBVIOUS
      <4>1. sends[t].conv = sends[s].conv
        BY <1>0, <2>6
      <4>2. c \in unseen
        BY <1>0, <4>1 DEF CallsOnPages
      <4> QED BY <1>a, <2>10, <4>2
    <3>3. LeftBehind(c)'
      BY <2>1, <2>6, <3>2 DEF LeftBehind
    <3>4. ~Placeholder'
      <4>1. StoppedBubble \in Item /\ StoppedBubble.kind # "bubble" /\ view.items \in Seq(Item)
        BY ViewItems DEF StoppedBubble, Bubble
      <4>2. Len(x) = Len(view.items) /\ \A i \in 1..Len(view.items) :
                 x[i] = IF view.items[i].kind = "bubble" THEN StoppedBubble ELSE view.items[i]
        BY <4>1, BecomingOnly
      <4> HIDE DEF x
      <4> QED BY <2>4, <4>1, <4>2 DEF Placeholder
    <3>5. query[c].has => ItemsSuit(x, c)
      BY <1>0, <1>1, <1>a, <2>10, EndingItems
    <3>6. Differs(c)' <=> Differs(c)
      BY <1>2, <2>3 DEF Differs
    <3> HIDE DEF x
    <3> QED BY <1>2, <2>3, <2>4, <3>1, <3>3, <3>4, <3>5, <3>6 DEF PageFollows, ItemsSuit, RowsRight, AheadDiffers
  <2>11. ConvOK(c)'
    BY <2>9, <2>10 DEF ConvOK
  <2> QED BY <2>5, <2>7, <2>8, <2>11
<1> QED BY <1>3, <1>4

LEMMA NoSendIs == NoSend \in SendCall /\ NoSend.conv = {} /\ NoSend.pc = "idle" /\ ~NoSend.mine /\ ~NoSend.prompted
<1>1. MaxRows \in Nat /\ StreamRetries \in Nat
  BY ViewAssumption
<1> QED BY <1>1 DEF NoSend, SendCall, AnswerModes

\* A question is sent, or the last answer asked for again.
LEMMA CallingSteps ==
  ASSUME ViewIInv, NEW s \in Sends, SendMessage(s) \/ RegenerateAnswer(s)
  PROVE  ViewIInv'
<1> USE DEF ViewIInv
<1>0. PICK c \in ViewConvs : view.conv = {c}
  BY DEF SendMessage, RegenerateAnswer, Composer, CallsOnPages
<1>1. sends[s].pc = "idle" /\ sends[s].conv = {} /\ UNCHANGED <<query, answerMode, rows, ids>>
      /\ unseen' = unseen \cup {d \in view.conv : Called(d)}
  BY DEF SendMessage, RegenerateAnswer, Active, CallsOnPages
<1>2. /\ MaxRows \in Nat /\ StreamRetries \in Nat /\ view \in View /\ view.items \in Seq(Item)
      /\ answerMode \in AnswerModes
  BY ViewTypes DEF ViewTypeOK
<1>3. PICK new \in SendCall :
        /\ sends' = [sends EXCEPT ![s] = new] /\ new.conv = {c} /\ new.mine
        /\ \/ new.pc = "post" /\ ~new.prompted
           \/ new.pc = "regenerate" /\ new.prompted
        /\ view' \in View /\ view'.conv = {c} /\ view'.items \in Seq(Item)
        /\ RowsIn(view'.items) = RowsIn(view.items)
        /\ \A i \in 1..Len(view'.items) : view'.items[i].kind = "row" =>
             i \in 1..Len(view.items) /\ view'.items[i] = view.items[i]
        /\ \/ view'.abort = {s} /\ new.pc = "post"
           \/ view'.abort = view.abort
  <2>1. CASE SendMessage(s)
    <3> DEFINE new == [NoSend EXCEPT !.pc = "post", !.conv = view.conv, !.mine = TRUE, !.mode = answerMode]
               x == view.items \o <<Sent, Bubble>>
               page_ == [view EXCEPT !.items = x, !.isStreaming = TRUE, !.abort = {s}]
    <3>1. new \in SendCall /\ new.conv = {c} /\ new.mine /\ new.pc = "post" /\ ~new.prompted
      BY <1>0, <1>2, NoSendIs DEF SendCall
    <3>2. sends' = [sends EXCEPT ![s] = new] /\ view' = page_
      BY <2>1 DEF SendMessage, MovesTo
    <3>3. x \in Seq(Item) /\ RowsIn(x) = RowsIn(view.items)
      BY <1>2, NoRowsMore
    <3>4. \A i \in 1..Len(x) : x[i].kind = "row" => i \in 1..Len(view.items) /\ x[i] = view.items[i]
      <4>1. Sent \in Item /\ Bubble \in Item /\ Sent.kind # "row" /\ Bubble.kind # "row" /\ Len(view.items) \in Nat
        BY <1>2, ViewItems DEF Sent, Bubble
      <4>2. /\ Len(x) = Len(view.items) + 2 /\ \A i \in 1..Len(view.items) : x[i] = view.items[i]
            /\ x[Len(view.items) + 1] = Sent /\ x[Len(view.items) + 2] = Bubble
        BY <1>2, <4>1
      <4> HIDE DEF x
      <4>3. \A i \in 1..Len(x) : i \in 1..Len(view.items) \/ i = Len(view.items) + 1 \/ i = Len(view.items) + 2
        BY <4>1, <4>2
      <4> QED BY <4>1, <4>2, <4>3
    <3> HIDE DEF x
    <3>5. page_ \in View /\ page_.conv = view.conv /\ page_.items = x /\ page_.abort = {s}
      BY <1>2, <3>3 DEF View
    <3> HIDE DEF new, page_
    <3> QED BY <1>0, <3>1, <3>2, <3>3, <3>4, <3>5
  <2>2. CASE RegenerateAnswer(s)
    <3> DEFINE new == [NoSend EXCEPT !.pc = "regenerate", !.regenerates = TRUE, !.prompted = TRUE,
                                     !.conv = view.conv, !.mine = TRUE, !.mode = answerMode]
    <3>1. new \in SendCall /\ new.conv = {c} /\ new.mine /\ new.pc = "regenerate" /\ new.prompted
      BY <1>0, <1>2, NoSendIs DEF SendCall
    <3>2. sends' = [sends EXCEPT ![s] = new] /\ view' = view
      BY <2>2 DEF RegenerateAnswer, MovesTo
    <3> HIDE DEF new
    <3> QED BY <1>0, <1>2, <3>1, <3>2
  <2> QED BY <2>1, <2>2
<1>4. ViewTypeOK'
  BY <1>0, <1>1, <1>3 DEF ViewTypeOK
<1>5. sends'[s] = new /\ \A t \in Sends : t # s => sends'[t] = sends[t]
  BY <1>3, ViewTypes
<1>6. s \notin view.abort
  BY <1>1 DEF CallsOnPages
<1>7. CallsOnPages' /\ Begun'
  <2>1. new.conv = view.conv /\ view.conv # {} /\ \A d \in view.conv : Called(d) => d \in unseen'
    BY <1>0, <1>1, <1>3
  <2>2. view'.abort \subseteq view.abort \cup {s} /\ unseen \subseteq unseen' /\ view'.conv = view.conv
    BY <1>0, <1>1, <1>3
  <2>3. s \in view'.abort => new.mine /\ new.pc \in {"post", "reading", "answered"}
    BY <1>3, <1>6
  <2>4. new.pc # "idle" /\ new.conv # {} /\ new.pc \notin {"reading", "answered", "backoff"}
    BY <1>3
  <2>5. \A d \in ViewConvs : (ids[d] > 0 => ids'[d] > 0) /\ (query[d].has => query'[d].has)
    BY <1>1
  <2>6. DOMAIN sends = Sends
    BY ViewTypes
  <2> QED BY <1>3, <2>1, <2>2, <2>3, <2>4, <2>5, <2>6, CallChanges
<1>8. \A d \in ViewConvs : d # c => ConvOK(d)'
  BY <1>0, <1>1, <1>3, OthersKept
<1>9. ConvOK(c)'
  <2>1. Numbered(c)'
    BY <1>1 DEF ConvOK, Numbered
  <2>2. CASE Called(c)
    BY <1>0, <1>1, <2>1, <2>2, ConvUnfollowed
  <2>3. CASE ~Called(c) /\ c \in unseen
    BY <1>1, <2>1, <2>3, ConvUnfollowed
  <2>4. CASE ~Called(c) /\ c \notin unseen
    <3>1. Streamless(c) /\ c \notin unseen' /\ \A t \in Sends : sends'[t].conv = {c} => t = s
      BY <1>0, <1>1, <1>5, <2>4 DEF Called, Streamless
    <3>2. FoundIs(c)'
      BY <1>1, <2>4, <3>1 DEF ConvOK, FoundIs
    <3>3. LeftBehind(c)'
      BY <1>3, <1>5, <3>1 DEF LeftBehind
    <3>4. Differs(c)' <=> Differs(c)
      BY <1>1 DEF Differs
    <3>5. ASSUME query[c].has PROVE RowsRight(c)' /\ AheadDiffers(c)'
      <4>1. RowsRight(c) /\ AheadDiffers(c)
        BY <1>0, <2>4, <3>5 DEF ConvOK, PageFollows
      <4>2. RowsRight(c)'
        BY <1>1, <1>3, <4>1 DEF RowsRight
      <4>3. \A t \in Sends : sends'[t].mine => sends'[t].conv = {c}
        BY <1>3, <1>7 DEF CallsOnPages
      <4>4. \A t \in Sends : ~(sends'[t].mine /\ sends'[t].prompted /\ sends'[t].pc # "regenerate")
        BY <1>3, <1>5, <3>1, <4>3
      <4> QED BY <1>1, <1>3, <3>4, <4>1, <4>2, <4>4 DEF AheadDiffers
    <3> QED BY <1>1, <2>1, <3>2, <3>3, <3>5 DEF ConvOK, PageFollows
  <2> QED BY <2>2, <2>3, <2>4
<1> QED BY <1>4, <1>7, <1>8, <1>9

\* The first question of a conversation is handed over to its page.
LEMMA HandOverStep ==
  ASSUME ViewIInv, NEW s \in Sends, NEW c \in ViewConvs, HandOver(s, c)
  PROVE  ViewIInv'
<1> USE DEF ViewIInv
<1>1. /\ ids[c] = 0 /\ ~query[c].has /\ sends[s].pc = "idle" /\ UNCHANGED <<rows, ids, unseen>>
      /\ view.creating # {} /\ answerMode' = CHOOSE m \in view.creating : TRUE
  BY DEF HandOver, Storage, Active
<1>2. /\ view.conv # {c} /\ ~Called(c) /\ sends[s].conv = {}
  BY <1>1 DEF Begun, CallsOnPages
<1>3. /\ MaxRows \in Nat /\ StreamRetries \in Nat /\ view \in View /\ answerMode \in AnswerModes
      /\ view.creating \in SUBSET AnswerModes
  BY ViewTypes DEF ViewTypeOK, View
<1>4. answerMode' \in AnswerModes
  BY <1>1, <1>3
<1> DEFINE new == [NoSend EXCEPT !.pc = "post", !.conv = {c}, !.mine = TRUE,
                                 !.mode = answerMode, !.handed = view.creating]
<1>5. new \in SendCall /\ new.conv = {c} /\ new.mine /\ new.pc = "post" /\ ~new.prompted
  BY <1>3, NoSendIs DEF SendCall
<1>6. sends' = [Unmounted EXCEPT ![s] = new]
  BY DEF HandOver
<1> HIDE DEF new
<1>7. sends'[s] = new /\ \A t \in Sends : t # s => sends'[t] = [sends[t] EXCEPT !.mine = FALSE]
  BY <1>6 DEF Unmounted
<1>8. \A t \in Sends : t # s =>
        /\ sends'[t] \in SendCall /\ ~sends'[t].mine /\ sends'[t].conv = sends[t].conv
        /\ sends'[t].pc = sends[t].pc /\ sends'[t].prompted = sends[t].prompted
        /\ sends'[t].attempt = sends[t].attempt
  <2> SUFFICES ASSUME NEW t \in Sends, t # s
               PROVE  /\ sends'[t] \in SendCall /\ ~sends'[t].mine /\ sends'[t].conv = sends[t].conv
                      /\ sends'[t].pc = sends[t].pc /\ sends'[t].prompted = sends[t].prompted
                      /\ sends'[t].attempt = sends[t].attempt
    OBVIOUS
  <2> DEFINE left == [sends[t] EXCEPT !.mine = FALSE]
  <2>1. sends[t] \in SendCall /\ sends'[t] = left
    BY <1>7, ViewTypes
  <2>2. /\ left \in SendCall /\ ~left.mine /\ left.conv = sends[t].conv /\ left.pc = sends[t].pc
        /\ left.prompted = sends[t].prompted /\ left.attempt = sends[t].attempt
    BY <2>1 DEF SendCall
  <2> HIDE DEF left
  <2> QED BY <2>1, <2>2
<1>9. sends' \in [Sends -> SendCall]
  <2>1. DOMAIN sends' = Sends /\ sends' = [t \in Sends |-> sends'[t]]
    BY <1>6 DEF Unmounted
  <2>2. \A t \in Sends : sends'[t] \in SendCall
    BY <1>5, <1>7, <1>8
  <2> QED BY <2>1, <2>2
<1>10. PICK q \in Query : /\ query' = [query EXCEPT ![c] = q] /\ q.has /\ q.data = <<>> /\ ~q.stale
                          /\ q.fetch = "none" /\ q.read = <<>>
  <2>1. PICK none : none = <<>> /\ none \in Seq(StoredMessage)
    <3>1. <<>> \in Seq(StoredMessage)
      OBVIOUS
    <3> QED BY <3>1, Zenon
  <2>2. NoQuery \in Query /\ NoQuery.fetch = "none" /\ NoQuery.read = none /\ ~NoQuery.stale /\ NoQuery.data = none
    <3>1. NoQuery = [has |-> FALSE, data |-> none, stale |-> FALSE, fetch |-> "none", read |-> none]
      BY <2>1, Zenon DEF NoQuery
    <3> QED BY <2>1, <3>1 DEF Query
  <2> DEFINE q == [NoQuery EXCEPT !.has = TRUE]
  <2>3. query' = [query EXCEPT ![c] = q]
    BY DEF HandOver
  <2>4. q \in Query /\ q.has /\ q.data = none /\ ~q.stale /\ q.fetch = "none" /\ q.read = none
    BY <2>2 DEF Query
  <2> QED BY <2>1, <2>3, <2>4
<1>11. query'[c] = q /\ \A d \in ViewConvs : d # c => query'[d] = query[d]
  BY <1>10, ViewTypes
<1>12. /\ view' \in View /\ view'.conv = {c} /\ view'.abort = {s} /\ view'.items = <<Sent, Bubble>>
       /\ view'.items \in Seq(Item)
  <2>1. PICK two : two = <<Sent, Bubble>> /\ two \in Seq(Item)
    <3>1. Sent \in Item /\ Bubble \in Item
      BY ViewItems
    <3>2. <<Sent, Bubble>> \in Seq(Item)
      BY <3>1
    <3> QED BY <3>2, Zenon
  <2>2. view' = [PageOf({c}) EXCEPT !.items = two, !.isStreaming = TRUE, !.abort = {s}]
    BY <2>1 DEF HandOver
  <2>3. view' = [conv |-> {c}, items |-> two, isStreaming |-> TRUE, abort |-> {s}, notFound |-> FALSE,
                 clearing |-> FALSE, creating |-> {}]
    BY <2>2 DEF PageOf
  <2> QED BY <2>1, <2>3 DEF View
<1>13. ViewTypeOK'
  BY <1>1, <1>4, <1>9, <1>10, <1>12 DEF ViewTypeOK
<1>14. CallsOnPages'
  <2>1. \A t \in Sends : t # s => sends[t].conv # {c}
    BY <1>2 DEF Called
  <2>2. \A t \in Sends :
          /\ sends'[t].pc = "idle" => sends'[t].conv = {}
          /\ sends'[t].pc # "idle" => \E d \in ViewConvs : sends'[t].conv = {d}
          /\ sends'[t].mine => sends'[t].conv = view'.conv /\ sends'[t].pc # "idle"
          /\ sends'[t].pc \in {"reading", "answered"} => sends'[t].prompted
          /\ sends'[t].pc = "backoff" => sends'[t].attempt < StreamRetries
          /\ t \in view'.abort => sends'[t].mine /\ sends'[t].pc \in {"post", "reading", "answered"}
    <3> TAKE t \in Sends
    <3>1. CASE t = s
      BY <1>5, <1>7, <1>12, <3>1
    <3>2. CASE t # s
      BY <1>8, <1>12, <3>2 DEF CallsOnPages
    <3> QED BY <3>1, <3>2
  <2>3. \A t, u \in Sends : t # u /\ sends'[t].conv = sends'[u].conv => sends'[t].conv \subseteq unseen'
    <3> SUFFICES ASSUME NEW t \in Sends, NEW u \in Sends, t # u, sends'[t].conv = sends'[u].conv
                 PROVE  sends'[t].conv \subseteq unseen'
      OBVIOUS
    <3>1. CASE t # s /\ u # s
      <4>1. sends[t].conv \subseteq unseen
        BY <1>8, <3>1 DEF CallsOnPages
      <4> QED BY <1>1, <1>8, <3>1, <4>1
    <3>2. CASE t = s \/ u = s
      BY <1>5, <1>7, <1>8, <2>1, <3>2
    <3> QED BY <3>1, <3>2
  <2>4. view'.conv # {} => \E d \in ViewConvs : view'.conv = {d}
    BY <1>12
  <2> QED BY <2>2, <2>3, <2>4 DEF CallsOnPages
<1>15. Begun'
  <2> SUFFICES ASSUME NEW d \in ViewConvs, view'.conv = {d} \/ Called(d)' PROVE ids'[d] > 0 \/ query'[d].has
    BY DEF Begun
  <2>1. CASE d = c
    BY <1>10, <1>11, <2>1
  <2>2. CASE d # c
    <3>1. Called(d)
      BY <1>5, <1>7, <1>8, <1>12, <2>2 DEF Called
    <3> QED BY <1>1, <1>11, <2>2, <3>1 DEF Begun
  <2> QED BY <2>1, <2>2
<1>16. ASSUME NEW d \in ViewConvs, d # c PROVE ConvOK(d)'
  <2>1. view'.conv # {d} /\ {c} # {d}
    BY <1>12, <1>16
  <2>2. Streamless(d)' => Streamless(d)
    BY <1>2, <1>7, <1>8 DEF Streamless
  <2> QED BY <1>1, <1>11, <1>16, <2>1, <2>2, ConvKept
<1>17. ConvOK(c)'
  <2>1. Numbered(c)
    BY DEF ConvOK
  <2>2. Len(<<>>) = 0
    OBVIOUS
  <2>3. Numbered(c)'
    BY <1>1, <1>10, <1>11, <2>1, <2>2 DEF Numbered
  <2>4. rows[c] = <<>>
    <3>1. rows[c] \in Seq(StoredMessage) /\ Len(rows[c]) \in Nat
      BY ViewTypes
    <3>2. ASSUME Len(rows[c]) > 0 PROVE FALSE
      <4>1. 1 \in 1..Len(rows[c]) /\ rows[c][1] \in StoredMessage
        BY <3>1, <3>2
      <4>2. rows[c][1].id <= 0 /\ rows[c][1].id \in 1..MaxRows
        BY <1>1, <2>1, <4>1 DEF Numbered, StoredMessage
      <4> QED BY <1>3, <4>2
    <3> QED BY <3>1, <3>2
  <2>5. FoundIs(c)'
    BY <1>5, <1>7, <1>10, <1>11 DEF FoundIs, Streamless
  <2>6. \A t \in Sends : t # s => sends'[t].conv # {c}
    BY <1>2, <1>8 DEF Called
  <2>7. LeftBehind(c)'
    BY <1>5, <1>7, <2>6 DEF LeftBehind
  <2>8. /\ Len(view'.items) = 2 /\ view'.items[1].kind # "row" /\ view'.items[2].kind # "row"
        /\ \A i \in 1..2 : i = 1 \/ i = 2
    BY <1>12 DEF Sent, Bubble
  <2>9. RowPlaces(view'.items) = {}
    BY <2>8 DEF RowPlaces
  <2>10. RowsRight(c)'
    <3>1. Cardinality(RowPlaces(view'.items)) = 0
      BY <2>9, FS_EmptySet
    <3>2. Len(RowsIn(view'.items)) = 0 /\ RowsIn(view'.items) \in Seq(Item)
      BY <1>12, <3>1, RowsAt
    <3>3. rows[c] \in Seq(StoredMessage) /\ Len(rows[c]) = 0
      BY <2>4, ViewTypes
    <3>4. Len(AsItems(rows[c])) = 0 /\ AsItems(rows[c]) \in Seq(Item)
      BY <3>3, RowsOfMessages
    <3>5. RowsIn(view'.items) = AsItems(rows[c])
      BY <3>2, <3>4
    <3> QED BY <1>1, <3>5 DEF RowsRight
  <2>11. AheadDiffers(c)'
    <3>1. \A i \in 1..Len(view'.items) : view'.items[i].kind # "row"
      BY <2>8
    <3>2. \A t \in Sends : ~(sends'[t].mine /\ sends'[t].prompted)
      BY <1>5, <1>7, <1>8
    <3> QED BY <3>1, <3>2 DEF AheadDiffers
  <2> QED BY <2>3, <2>5, <2>7, <2>10, <2>11 DEF ConvOK, PageFollows
<1> QED BY <1>13, <1>14, <1>15, <1>16, <1>17

\* The last answer stored goes: all else stays, and what the cache lacked or had too much of still differs.
LEMMA RowDropped ==
  ASSUME ViewIInv, NEW c \in ViewConvs, rows' = [rows EXCEPT ![c] = DropLastAssistant(@)], UNCHANGED <<ids, query>>
  PROVE  /\ rows' \in [ViewConvs -> Seq(StoredMessage)] /\ \A d \in ViewConvs : d # c => rows'[d] = rows[d]
         /\ Numbered(c)'
         /\ LastAssistant(rows[c]) # {} => \E m \in StoredMessage :
              /\ HeldIn(m, rows[c]) /\ (HeldIn(m, query[c].data) \/ Differs(c) => Differs(c)')
<1> DEFINE x == rows[c]
           y == DropLastAssistant(x)
<1>1. /\ rows \in [ViewConvs -> Seq(StoredMessage)] /\ x \in Seq(StoredMessage) /\ Len(x) \in Nat /\ Numbered(c)
  BY ViewTypes DEF ViewIInv, ViewTypeOK, ConvOK
<1>2. rows' = [rows EXCEPT ![c] = y] /\ rows'[c] = y /\ \A d \in ViewConvs : d # c => rows'[d] = rows[d]
  BY <1>1
<1>3. CASE LastAssistant(x) = {}
  <2>1. y = x
    BY <1>3 DEF DropLastAssistant
  <2> HIDE DEF y
  <2>2. rows' = rows
    BY <1>1, <1>2, <2>1
  <2>3. Numbered(c)'
    BY <1>1, <2>2 DEF Numbered
  <2> QED BY <1>1, <1>2, <1>3, <2>2, <2>3
<1>4. CASE LastAssistant(x) # {}
  <2>1. y \in Seq(StoredMessage)
    BY <1>1, <1>4, LastDropped
  <2>2. PICK k \in 1..Len(x) : /\ x[k].role = "ASSISTANT" /\ Len(y) = Len(x) - 1
                               /\ \A i \in 1..Len(y) : y[i] = x[IF i < k THEN i ELSE i + 1]
    BY <1>1, <1>4, LastDropped
  <2> HIDE DEF x, y
  <2> DEFINE at(i) == IF i < k THEN i ELSE i + 1
  <2>3. /\ \A i \in 1..Len(y) : at(i) \in 1..Len(x) /\ at(i) # k /\ y[i] = x[at(i)]
        /\ \A i, j \in 1..Len(y) : at(i) = at(j) => i = j
    <3>1. k \in Int /\ Len(x) \in Nat /\ 1 <= k /\ k <= Len(x) /\ Len(y) = Len(x) - 1
      BY <1>1, <2>2
    <3>2. \A i \in 1..Len(y) : at(i) \in 1..Len(x) /\ at(i) # k
      BY <3>1
    <3>3. \A i, j \in 1..Len(y) : at(i) = at(j) => i = j
      BY <3>1
    <3> QED BY <2>2, <3>2, <3>3
  <2>4. \A j \in 1..Len(x) : j # k => \E i \in 1..Len(y) : at(i) = j
    <3> SUFFICES ASSUME NEW j \in 1..Len(x), j # k PROVE \E i \in 1..Len(y) : at(i) = j
      OBVIOUS
    <3>1. k \in Int /\ Len(x) \in Nat /\ 1 <= k /\ k <= Len(x) /\ Len(y) = Len(x) - 1 /\ j \in Int /\ 1 <= j /\ j <= Len(x)
      BY <1>1, <2>2
    <3>2. CASE j < k
      <4>1. j \in 1..Len(y) /\ at(j) = j
        BY <3>1, <3>2
      <4> QED BY <4>1
    <3>3. CASE ~ (j < k)
      <4>1. j > k
        BY <3>1, <3>3
      <4>2. j - 1 \in 1..Len(y) /\ ~(j - 1 < k) /\ (j - 1) + 1 = j
        BY <3>1, <4>1
      <4>3. at(j - 1) = j
        BY <4>2
      <4> QED BY <4>2, <4>3
    <3> QED BY <3>2, <3>3
  <2> HIDE DEF at
  <2>5. \A i, j \in 1..Len(x) : x[i].id = x[j].id => i = j
    BY <1>1 DEF Numbered, x
  <2>6. Numbered(c)'
    <3>1. \A i \in 1..Len(y) : y[i].id <= ids[c]
      BY <1>1, <2>3 DEF Numbered, x
    <3>2. \A i, j \in 1..Len(y) : y[i].id = y[j].id => i = j
      BY <2>3, <2>5
    <3> QED BY <1>1, <1>2, <3>1, <3>2 DEF Numbered
  <2>7. HeldIn(x[k], x) /\ ~HeldIn(x[k], y) /\ x[k] \in StoredMessage
    <3>1. x[k] \in StoredMessage
      BY <1>1
    <3> QED BY <2>3, <2>5, <3>1 DEF HeldIn
  <2>8. \A m : HeldIn(m, y) => HeldIn(m, x)
    BY <2>3 DEF HeldIn
  <2>9. ASSUME HeldIn(x[k], query[c].data) PROVE Differs(c)'
    <3>1. PICK i \in 1..Len(query[c].data) : query[c].data[i] = x[k]
      BY <2>9 DEF HeldIn
    <3>2. ~HeldIn(query[c].data[i], rows'[c])
      BY <1>2, <2>7, <3>1
    <3> QED BY <3>2 DEF Differs
  <2>10. ASSUME Differs(c) PROVE Differs(c)'
    <3>1. CASE \E i \in 1..Len(query[c].data) : ~HeldIn(query[c].data[i], x)
      BY <1>2, <2>8, <3>1 DEF Differs
    <3>2. CASE \E j \in 1..Len(x) : x[j].role = "USER" /\ ~HeldIn(x[j], query[c].data)
      <4>1. PICK j \in 1..Len(x) : x[j].role = "USER" /\ ~HeldIn(x[j], query[c].data)
        BY <3>2
      <4>2. j # k
        BY <2>2, <4>1
      <4>3. PICK i \in 1..Len(y) : at(i) = j
        BY <2>4, <4>2
      <4>4. y[i] = x[j]
        BY <2>3, <4>3
      <4> QED BY <1>2, <4>1, <4>4 DEF Differs
    <3> QED BY <2>10, <3>1, <3>2 DEF Differs, x
  <2>11. rows' \in [ViewConvs -> Seq(StoredMessage)]
    BY <1>1, <1>2, <2>1
  <2> QED BY <1>2, <2>6, <2>7, <2>9, <2>10, <2>11 DEF x
<1> QED BY <1>3, <1>4

\* The answer to be replaced is deleted, and the page drops its own.
LEMMA RegeneratedStep ==
  ASSUME ViewIInv, NEW s \in Sends, Regenerated(s)
  PROVE  ViewIInv'
<1> USE DEF ViewIInv
<1> DEFINE x == Append(DropLastAssistant(view.items), Bubble)
<1>0. PICK c \in ViewConvs : sends[s].conv = {c} /\ ConvOf(s) = c
  BY DEF Regenerated, Active, CallsOnPages, ConvOf
<1>1. /\ sends[s].pc = "regenerate" /\ LastAssistant(rows[c]) # {} /\ rows' = [rows EXCEPT ![c] = DropLastAssistant(@)]
      /\ view' = Consumes(s, x) /\ UNCHANGED <<query, answerMode, ids>>
      /\ unseen' = IF ShownRows = AsItems(rows[c]) \/ ~sends[s].mine THEN unseen ELSE unseen \cup {c}
  BY <1>0 DEF Regenerated, Active
<1>2. view.items \in Seq(Item) /\ Bubble \in Item /\ x \in Seq(Item)
  <2>1. view.items \in Seq(Item) /\ Bubble \in Item
    BY ViewItems
  <2>2. DropLastAssistant(view.items) \in Seq(Item)
    BY <2>1, LastDropped DEF DropLastAssistant
  <2> QED BY <2>1, <2>2
<1> HIDE DEF x
<1>3. PICK new \in SendCall : /\ sends' = [sends EXCEPT ![s] = new] /\ new.pc = "post" /\ new.conv = {c}
                              /\ new.mine = sends[s].mine
  <2> DEFINE new == [sends[s] EXCEPT !.pc = "post"]
  <2>1. sends[s] \in SendCall
    BY ViewTypes
  <2>2. new \in SendCall /\ new.pc = "post" /\ new.conv = {c} /\ new.mine = sends[s].mine
    BY <1>0, <2>1 DEF SendCall
  <2>3. sends' = [sends EXCEPT ![s] = new]
    BY DEF Regenerated, MovesTo
  <2> QED BY <2>2, <2>3
<1>4. /\ view' \in View /\ view'.conv = view.conv
      /\ IF sends[s].mine THEN view'.items = x /\ view'.abort = {s} ELSE view' = view
  BY <1>1, <1>2, ConsumedOnly
<1>5. /\ rows' \in [ViewConvs -> Seq(StoredMessage)] /\ \A d \in ViewConvs : d # c => rows'[d] = rows[d]
      /\ Numbered(c)'
  BY <1>1, RowDropped
<1>6. PICK m \in StoredMessage : HeldIn(m, rows[c]) /\ (HeldIn(m, query[c].data) \/ Differs(c) => Differs(c)')
  BY <1>1, RowDropped
<1>7. ViewTypeOK'
  BY <1>1, <1>3, <1>4, <1>5 DEF ViewTypeOK
<1>8. sends'[s] = new /\ \A t \in Sends : t # s => sends'[t] = sends[t]
  BY <1>3, ViewTypes
<1>9. CallsOnPages' /\ Begun'
  <2>1. new.mine => new.conv = view.conv
    BY <1>0, <1>3 DEF CallsOnPages
  <2>2. s \in view'.abort => new.mine /\ new.pc \in {"post", "reading", "answered"}
    BY <1>1, <1>3, <1>4 DEF CallsOnPages
  <2>3. view'.abort \subseteq view.abort \cup {s} /\ unseen \subseteq unseen'
    BY <1>1, <1>4
  <2>4. new.conv = sends[s].conv /\ sends[s].pc # "idle" /\ DOMAIN sends = Sends
    BY <1>0, <1>1, <1>3, ViewTypes
  <2>5. new.pc # "idle" /\ new.conv # {} /\ new.pc \notin {"reading", "answered", "backoff"}
    BY <1>3
  <2>6. \A d \in ViewConvs : (ids[d] > 0 => ids'[d] > 0) /\ (query[d].has => query'[d].has)
    BY <1>1
  <2> QED BY <1>3, <1>4, <2>1, <2>2, <2>3, <2>4, <2>5, <2>6, CallChanges
<1>10. \A d \in ViewConvs : d # c => ConvOK(d)'
  <2>1. new.mine => view.conv = {c}
    BY <1>0, <1>3 DEF CallsOnPages
  <2>2. \A d \in ViewConvs : d # c => rows'[d] = rows[d] /\ ids'[d] = ids[d] /\ query'[d] = query[d]
    BY <1>1, <1>5
  <2>3. view.conv # {c} => view'.items = view.items
    BY <1>0, <1>4 DEF CallsOnPages
  <2>4. unseen \subseteq unseen'
    BY <1>1
  <2> QED BY <1>0, <1>3, <1>4, <2>1, <2>2, <2>3, <2>4, OthersKept
<1>11. ASSUME c \notin unseen' PROVE FoundIs(c)' /\ PageFollows(c)'
  <2>0. c \notin unseen
    BY <1>1, <1>11
  <2>1. FoundIs(c)'
    BY <1>3, <1>8 DEF FoundIs, Streamless
  <2>2. CASE ~sends[s].mine
    <3>1. view.conv = {c} => view.items = AsItems(query[c].data)
      BY <1>0, <2>0, <2>2 DEF ConvOK, PageFollows, LeftBehind
    <3>2. query'[c].data \in Seq(StoredMessage) /\ query'[c].data = query[c].data /\ view' = view
      BY <1>1, <1>4, <2>2, ViewTypes
    <3> QED BY <2>1, <3>1, <3>2, PageFresh DEF PageFollows
  <2>3. CASE sends[s].mine
    <3>1. view.conv = {c} /\ RowsIn(view.items) = AsItems(rows[c])
      BY <1>0, <1>1, <1>11, <2>3 DEF CallsOnPages, ShownRows
    <3>2. \A t \in Sends : sends'[t].conv = {c} => t = s
      BY <1>0, <1>8, <2>0 DEF CallsOnPages
    <3>3. LeftBehind(c)'
      BY <1>3, <1>8, <2>3, <3>2 DEF LeftBehind
    <3>4. ASSUME query[c].has PROVE RowsRight(c)' /\ AheadDiffers(c)'
      <4>1. AheadDiffers(c)
        BY <2>0, <3>1, <3>4 DEF ConvOK, PageFollows
      <4>2. PICK k \in 1..Len(rows[c]) : rows[c][k] = m
        BY <1>6 DEF HeldIn
      <4>3. /\ Len(AsItems(rows[c])) = Len(rows[c]) /\ AsItems(rows[c])[k].kind = "row"
            /\ OfRow(AsItems(rows[c])[k]) = m
        BY <4>2, ViewTypes, RowsOfMessages
      <4>4. k \in 1..Cardinality(RowPlaces(view.items))
        BY <1>2, <3>1, <4>3, RowsAt
      <4>5. \E i \in 1..Len(view.items) : RowsIn(view.items)[k] = view.items[i]
        BY <1>2, <4>4, RowsAt DEF RowPlaces
      <4>6. \E i \in 1..Len(view.items) : view.items[i].kind = "row" /\ OfRow(view.items[i]) = m
        BY <3>1, <4>3, <4>5
      <4>7. HeldIn(m, query[c].data) \/ Differs(c)
        BY <4>1, <4>6 DEF AheadDiffers
      <4>8. Differs(c)'
        BY <1>6, <4>7
      <4>9. query'[c].data # rows'[c]
        BY <4>8 DEF Differs, HeldIn
      <4> QED BY <4>8, <4>9 DEF RowsRight, AheadDiffers
    <3> QED BY <1>1, <2>1, <3>3, <3>4 DEF PageFollows
  <2> QED BY <2>2, <2>3
<1>12. ConvOK(c)'
  BY <1>5, <1>11 DEF ConvOK
<1> QED BY <1>7, <1>9, <1>10, <1>12

\* Asking for an answer again fails, with or without the old one deleted.
LEMMA RegenerateFailsStep ==
  ASSUME ViewIInv, NEW s \in Sends, NEW deleted \in BOOLEAN, RegenerateFails(s, deleted)
  PROVE  ViewIInv'
<1> USE DEF ViewIInv
<1>0. PICK c \in ViewConvs : sends[s].conv = {c} /\ ConvOf(s) = c
  BY DEF RegenerateFails, Active, CallsOnPages, ConvOf
<1>1. /\ sends[s].pc = "regenerate" /\ sends' = [sends EXCEPT ![s] = NoSend] /\ UNCHANGED <<query, view, answerMode, ids>>
      /\ \/ ~deleted /\ rows' = rows /\ unseen' = unseen
         \/ deleted /\ rows' = [rows EXCEPT ![c] = DropLastAssistant(@)] /\ unseen' = unseen \cup {c}
  BY <1>0 DEF RegenerateFails, Active, MovesTo
<1>2. rows' \in [ViewConvs -> Seq(StoredMessage)] /\ Numbered(c)' /\ \A d \in ViewConvs : d # c => rows'[d] = rows[d]
  <2>1. CASE deleted
    BY <1>1, <2>1, RowDropped
  <2>2. CASE ~deleted
    BY <1>1, <2>2 DEF ViewTypeOK, ConvOK, Numbered
  <2> QED BY <2>1, <2>2
<1>3. ViewTypeOK'
  BY <1>1, <1>2, NoSendIs DEF ViewTypeOK
<1>4. sends'[s] = NoSend /\ \A t \in Sends : t # s => sends'[t] = sends[t]
  BY <1>1, ViewTypes
<1> DEFINE new == NoSend
<1>5. /\ sends' = [sends EXCEPT ![s] = new] /\ new.conv = {} /\ new.pc = "idle" /\ ~new.mine
  BY <1>1, NoSendIs
<1> HIDE DEF new
<1>6. CallsOnPages' /\ Begun'
  <2>1. s \notin view'.abort
    BY <1>1 DEF CallsOnPages
  <2>2. view'.abort \subseteq view.abort \cup {s} /\ unseen \subseteq unseen' /\ view'.conv = view.conv
    BY <1>1
  <2>3. DOMAIN sends = Sends
    BY ViewTypes
  <2>4. \A d \in ViewConvs : (ids[d] > 0 => ids'[d] > 0) /\ (query[d].has => query'[d].has)
    BY <1>1
  <2> QED BY <1>5, <2>1, <2>2, <2>3, <2>4, CallChanges
<1>7. \A d \in ViewConvs : d # c => ConvOK(d)'
  <2>1. \A d \in ViewConvs : d # c => rows'[d] = rows[d] /\ ids'[d] = ids[d] /\ query'[d] = query[d]
    BY <1>1, <1>2
  <2>2. sends[s].conv \subseteq {c} /\ new.conv \subseteq {c} /\ (new.mine => view.conv = {c})
    BY <1>0, <1>5
  <2>3. view'.conv = view.conv /\ view'.items = view.items /\ unseen \subseteq unseen'
    BY <1>1
  <2>4. view.conv # {c} => view'.items = view.items
    BY <2>3
  <2> QED BY <1>5, <2>1, <2>2, <2>3, <2>4, OthersKept
<1>8. ConvOK(c)'
  <2>1. CASE deleted
    BY <1>1, <1>2, <2>1, ConvUnfollowed
  <2>2. CASE ~deleted
    <3>1. Streamless(c)' => Streamless(c)
      BY <1>1, <1>4 DEF Streamless
    <3>2. \A t \in Sends : /\ sends'[t].mine => t # s
                           /\ sends'[t].conv = {c} => t # s
      BY <1>4, NoSendIs
    <3> QED BY <1>1, <1>4, <2>2, <3>1, <3>2, ConvKept
  <2> QED BY <2>1, <2>2
<1> QED BY <1>3, <1>6, <1>7, <1>8

\* The conversation is cleared from its page, and others store in it.
LEMMA ClearingSteps ==
  ASSUME ViewIInv,
         \/ ClearFromView
         \/ \E c \in ViewConvs : \/ \E ok \in BOOLEAN : Cleared(c, ok)
                                 \/ \E role \in {"USER", "ASSISTANT"} : StoredElsewhere(c, role)
  PROVE  ViewIInv'
<1> USE DEF ViewIInv
<1>0. view \in View
  BY DEF ViewTypeOK
<1>1. CASE ClearFromView
  <2>1. /\ rows' = [c \in ViewConvs |-> IF c \in view.conv THEN <<>> ELSE rows[c]] /\ unseen' = unseen \cup view.conv
        /\ view' = [view EXCEPT !.clearing = TRUE] /\ UNCHANGED <<query, sends, answerMode, ids>>
    BY <1>1 DEF ClearFromView
  <2>2. view' \in View /\ view'.conv = view.conv /\ view'.items = view.items /\ view'.abort = view.abort
    BY <1>0, <2>1 DEF View
  <2>3. \A c \in ViewConvs : IF c \in view.conv THEN rows'[c] = <<>> ELSE rows'[c] = rows[c]
    BY <2>1
  <2>4. rows' \in [ViewConvs -> Seq(StoredMessage)]
    <3>1. PICK none : none = <<>> /\ none \in Seq(StoredMessage)
      <4>1. <<>> \in Seq(StoredMessage)
        OBVIOUS
      <4> QED BY <4>1, Zenon
    <3>2. \A c \in ViewConvs : rows'[c] \in Seq(StoredMessage)
      BY <2>3, <3>1, ViewTypes
    <3> QED BY <2>1, <3>2
  <2>5. view.conv \subseteq ViewConvs
    BY DEF CallsOnPages
  <2>6. ViewTypeOK'
    BY <2>1, <2>2, <2>4, <2>5 DEF ViewTypeOK
  <2>7. CallsOnPages' /\ Begun'
    BY <2>1, <2>2, CallsUndisturbed
  <2>8. ASSUME NEW c \in ViewConvs PROVE ConvOK(c)'
    <3>1. Numbered(c) /\ Len(<<>>) = 0
      BY DEF ConvOK
    <3>2. CASE c \in view.conv
      <4>1. Numbered(c)'
        BY <2>1, <2>3, <3>1, <3>2 DEF Numbered
      <4> QED BY <2>1, <3>2, <4>1, ConvUnfollowed
    <3>3. CASE c \notin view.conv
      <4>1. rows'[c] = rows[c] /\ view'.conv # {c}
        BY <2>2, <2>3, <3>3
      <4> QED BY <2>1, <4>1, ConvKept DEF Streamless
    <3> QED BY <3>2, <3>3
  <2> QED BY <2>6, <2>7, <2>8
<1>2. ASSUME NEW c \in ViewConvs, NEW ok \in BOOLEAN, Cleared(c, ok) PROVE ViewIInv'
  <2>1. /\ view' = [view EXCEPT !.clearing = FALSE, !.items = IF ok THEN <<>> ELSE @]
        /\ query' = (IF ok THEN Invalidated(c) ELSE query) /\ unseen' = (IF ok THEN unseen \cup {c} ELSE unseen)
        /\ UNCHANGED <<rows, ids, sends, answerMode>>
    BY <1>2 DEF Cleared
  <2>2. /\ view' \in View /\ view'.conv = view.conv /\ view'.abort = view.abort /\ (~ok => view'.items = view.items)
    <3>1. PICK none : none = <<>> /\ none \in Seq(Item)
      <4>1. <<>> \in Seq(Item)
        OBVIOUS
      <4> QED BY <4>1, Zenon
    <3>2. view' = [view EXCEPT !.clearing = FALSE, !.items = IF ok THEN none ELSE view.items]
      BY <2>1, <3>1
    <3>3. view.items \in Seq(Item)
      BY ViewTypes
    <3>4. CASE ok
      BY <1>0, <3>1, <3>2, <3>4 DEF View
    <3>5. CASE ~ok
      BY <1>0, <3>2, <3>3, <3>5 DEF View
    <3> QED BY <3>4, <3>5
  <2>3. /\ query' \in [ViewConvs -> Query] /\ \A d \in ViewConvs : d # c \/ ~ok => query'[d] = query[d]
        /\ query'[c].has = query[c].has /\ query'[c].data = query[c].data
        /\ query'[c].read = query[c].read \/ query'[c].read = <<>>
    BY <2>1, InvalidatedOnly DEF ViewTypeOK
  <2>4. ViewTypeOK'
    BY <2>1, <2>2, <2>3 DEF ViewTypeOK
  <2>5. CallsOnPages' /\ Begun'
    <3>1. \A d \in ViewConvs : query[d].has => query'[d].has
      BY <2>3
    <3> QED BY <2>1, <2>2, <3>1, CallsUndisturbed
  <2>6. ASSUME NEW d \in ViewConvs, d # c \/ ~ok PROVE ConvOK(d)'
    <3>1. view'.conv = {d} => view.conv = {d} /\ view'.items = view.items
      <4>1. view.conv = {c}
        BY <1>2 DEF Cleared
      <4> QED BY <2>2, <2>6, <4>1
    <3>2. d \in unseen => d \in unseen'
      BY <2>1
    <3>3. query'[d] = query[d]
      BY <2>3, <2>6
    <3> QED BY <2>1, <3>1, <3>2, <3>3, ConvKept DEF Streamless
  <2>7. ASSUME ok PROVE ConvOK(c)'
    <3>1. Numbered(c) /\ Len(<<>>) = 0
      BY DEF ConvOK
    <3>2. Numbered(c)'
      BY <2>1, <2>3, <3>1 DEF Numbered
    <3> QED BY <2>1, <2>7, <3>2, ConvUnfollowed
  <2> QED BY <2>4, <2>5, <2>6, <2>7
<1>3. ASSUME NEW c \in ViewConvs, NEW role \in {"USER", "ASSISTANT"}, StoredElsewhere(c, role) PROVE ViewIInv'
  <2>1. /\ ids[c] < MaxRows /\ rows' = [rows EXCEPT ![c] = Append1(c, role)] /\ ids' = [ids EXCEPT ![c] = @ + 1]
        /\ unseen' = unseen \cup {c} /\ UNCHANGED <<query, view, sends, answerMode>>
    BY <1>3 DEF StoredElsewhere
  <2>2. /\ rows' \in [ViewConvs -> Seq(StoredMessage)] /\ ids' \in [ViewConvs -> 0..MaxRows] /\ ids'[c] > 0
        /\ \A d \in ViewConvs : d # c => rows'[d] = rows[d] /\ ids'[d] = ids[d]
        /\ Numbered(c)'
    BY <2>1, RowAdded
  <2>3. ViewTypeOK'
    BY <2>1, <2>2 DEF ViewTypeOK
  <2>4. CallsOnPages' /\ Begun'
    BY <2>1, <2>2, CallsUndisturbed
  <2>5. ASSUME NEW d \in ViewConvs, d # c PROVE ConvOK(d)'
    BY <2>1, <2>2, <2>5, ConvKept DEF Streamless
  <2>6. ConvOK(c)'
    BY <2>1, <2>2, ConvUnfollowed
  <2> QED BY <2>3, <2>4, <2>5, <2>6
<1> QED BY <1>1, <1>2, <1>3

LEMMA ViewStarts == ASSUME ViewInit PROVE ViewIInv
<1> USE DEF ViewInit
<1>0. MaxRows \in Nat /\ StreamRetries \in Nat
  BY ViewAssumption
<1>1. PICK none : none = <<>> /\ none \in Seq(StoredMessage) /\ none \in Seq(Item) /\ Len(none) = 0
  <2>1. <<>> \in Seq(StoredMessage) /\ <<>> \in Seq(Item) /\ Len(<<>>) = 0
    OBVIOUS
  <2> QED BY <2>1, Zenon
<1>2. NoQuery \in Query /\ NoQuery.data = none /\ NoQuery.read = none /\ ~NoQuery.has /\ NoQuery.fetch = "none"
  <2>1. NoQuery = [has |-> FALSE, data |-> none, stale |-> FALSE, fetch |-> "none", read |-> none]
    BY <1>1, Zenon DEF NoQuery
  <2> QED BY <1>1, <2>1 DEF Query
<1>3. view \in View /\ view.conv = {} /\ view.abort = {}
  <2> DEFINE blank == [conv |-> {}, items |-> none, isStreaming |-> FALSE, abort |-> {}, notFound |-> FALSE,
                      clearing |-> FALSE, creating |-> {}]
  <2>1. view = blank
    <3>1. view = PageOf({})
      BY DEF ViewInit
    <3> QED BY <1>1, <3>1, Zenon DEF PageOf
  <2>2. blank \in View /\ blank.conv = {} /\ blank.abort = {}
    BY <1>1 DEF View
  <2> QED BY <2>1, <2>2, Zenon
<1>4. \A s \in Sends : sends[s] = NoSend
  OBVIOUS
<1>5. ViewTypeOK
  <2>1. rows \in [ViewConvs -> Seq(StoredMessage)]
    BY <1>1
  <2>2. ids \in [ViewConvs -> 0..MaxRows] /\ query \in [ViewConvs -> Query] /\ sends \in [Sends -> SendCall]
    BY <1>0, <1>2, NoSendIs
  <2> QED BY <1>3, <2>1, <2>2 DEF ViewTypeOK, AnswerModes
<1>6. \A s \in Sends : sends[s].conv = {} /\ sends[s].pc = "idle" /\ ~sends[s].mine
  BY <1>4, NoSendIs
<1>7. CallsOnPages /\ Begun
  BY <1>3, <1>6 DEF CallsOnPages, Begun, Called
<1>8. ASSUME NEW c \in ViewConvs PROVE ConvOK(c)
  <2>1. query[c] = NoQuery /\ rows[c] = none
    BY <1>1
  <2>2. Numbered(c)
    BY <1>1, <1>2, <2>1 DEF Numbered
  <2>3. FoundIs(c) /\ PageFollows(c)
    BY <1>2, <1>3, <2>1 DEF FoundIs, PageFollows
  <2> QED BY <2>2, <2>3 DEF ConvOK
<1> QED BY <1>5, <1>7, <1>8 DEF ViewIInv

\* A tab loaded anew has what is stored to read, and nothing else.
LEMMA ReloadStep == ASSUME ViewIInv, ReloadTab PROVE ViewIInv'
<1> USE DEF ViewIInv
<1> DEFINE shown == {c \in view.conv : ids[c] > 0}
<1>1. PICK none : none = <<>> /\ none \in Seq(StoredMessage) /\ none \in Seq(Item) /\ Len(none) = 0
  <2>1. <<>> \in Seq(StoredMessage) /\ <<>> \in Seq(Item) /\ Len(<<>>) = 0
    OBVIOUS
  <2> QED BY <2>1, Zenon
<1>2. /\ UNCHANGED <<rows, ids>> /\ unseen' = {} /\ answerMode' \in AnswerModes
      /\ sends' = [s \in Sends |-> NoSend] /\ view' = PageOf(shown)
      /\ query' = [c \in ViewConvs |-> [NoQuery EXCEPT !.fetch = IF c \in shown THEN "asked" ELSE "none"]]
  BY DEF ReloadTab, AnswerModes
<1>3. shown \subseteq view.conv /\ shown \subseteq ViewConvs /\ \A c \in shown : shown = {c} /\ ids[c] > 0
  BY DEF CallsOnPages
<1> HIDE DEF shown
<1>4. view' \in View /\ view'.conv = shown /\ view'.abort = {} /\ view'.items = none
  <2> DEFINE blank == [conv |-> shown, items |-> none, isStreaming |-> FALSE, abort |-> {}, notFound |-> FALSE,
                      clearing |-> FALSE, creating |-> {}]
  <2>1. view' = blank
    BY <1>1, <1>2, Zenon DEF PageOf
  <2>2. blank \in View /\ blank.conv = shown /\ blank.abort = {} /\ blank.items = none
    BY <1>1, <1>3 DEF View
  <2> QED BY <2>1, <2>2, Zenon
<1>5. \A c \in ViewConvs : /\ query'[c] \in Query /\ query'[c].data = none /\ query'[c].read = none
                           /\ ~query'[c].has /\ query'[c].fetch \in {"none", "asked"}
  <2>1. NoQuery = [has |-> FALSE, data |-> none, stale |-> FALSE, fetch |-> "none", read |-> none]
    BY <1>1, Zenon DEF NoQuery
  <2> TAKE c \in ViewConvs
  <2>2. PICK f \in {"none", "asked"} : query'[c] = [NoQuery EXCEPT !.fetch = f]
    BY <1>2
  <2>3. query'[c] = [has |-> FALSE, data |-> none, stale |-> FALSE, fetch |-> f, read |-> none]
    BY <2>1, <2>2
  <2> QED BY <1>1, <2>3 DEF Query
<1>6. \A s \in Sends : sends'[s] \in SendCall /\ sends'[s].conv = {} /\ sends'[s].pc = "idle" /\ ~sends'[s].mine
  BY <1>2, NoSendIs
<1>7. ViewTypeOK'
  <2>1. query' \in [ViewConvs -> Query]
    BY <1>2, <1>5
  <2>2. sends' \in [Sends -> SendCall]
    BY <1>2, <1>6
  <2> QED BY <1>2, <1>4, <2>1, <2>2 DEF ViewTypeOK
<1>8. CallsOnPages' /\ Begun'
  <2>1. view'.conv # {} => \E c \in ViewConvs : view'.conv = {c}
    BY <1>3, <1>4
  <2>2. \A c \in ViewConvs : view'.conv = {c} => ids'[c] > 0
    BY <1>2, <1>3, <1>4
  <2> QED BY <1>4, <1>6, <2>1, <2>2 DEF CallsOnPages, Begun, Called
<1>9. ASSUME NEW c \in ViewConvs PROVE ConvOK(c)'
  <2>1. Numbered(c)'
    <3>1. Numbered(c)
      BY DEF ConvOK
    <3> QED BY <1>1, <1>2, <1>5, <3>1 DEF Numbered
  <2>2. FoundIs(c)'
    BY <1>5 DEF FoundIs
  <2>3. PageFollows(c)'
    BY <1>5, <1>6 DEF PageFollows, LeftBehind
  <2> QED BY <2>1, <2>2, <2>3 DEF ConvOK
<1> QED BY <1>7, <1>8, <1>9

LEMMA ViewKept == ASSUME ViewIInv, [ViewNext]_viewVars PROVE ViewIInv'
<1>1. CASE NewChat \/ \E c \in ViewConvs, old \in BOOLEAN : Open(c, old)
  BY <1>1, GoingSteps
<1>2. CASE StartConversation \/ CreateFails \/ \E mode \in AnswerModes : setMode(mode)
  BY <1>2, ComposingSteps
<1>3. CASE \E c \in ViewConvs : FetchReads(c) \/ FetchFails(c)
  BY <1>3, ReadSteps
<1>4. CASE \E c \in ViewConvs : FetchArrives(c)
  BY <1>4, ArrivalStep
<1>5. CASE \/ ClearFromView
           \/ \E c \in ViewConvs : \/ \E ok \in BOOLEAN : Cleared(c, ok)
                                   \/ \E role \in {"USER", "ASSISTANT"} : StoredElsewhere(c, role)
  BY <1>5, ClearingSteps
<1>6. CASE \E c \in ViewConvs, s \in Sends : HandOver(s, c)
  BY <1>6, HandOverStep
<1>7. CASE \E s \in Sends : SendMessage(s) \/ RegenerateAnswer(s)
  BY <1>7, CallingSteps
<1>8. CASE \E s \in Sends : SendAccepted(s) \/ AnswerStored(s)
  BY <1>8, StoringSteps, RetryingSteps
<1>9. CASE \E s \in Sends : SendDone(s) \/ Disambiguation(s) \/ Refused(s)
  BY <1>9, EndingSteps
<1>10. CASE \E s \in Sends : Breaks(s) \/ RetryAfterBackoff(s)
  BY <1>10, EndingSteps, RetryingSteps
<1>11. CASE \E s \in Sends : StopIt(s)
  BY <1>11, StopStep
<1>12. CASE \E s \in Sends : Regenerated(s) \/ \E deleted \in BOOLEAN : RegenerateFails(s, deleted)
  BY <1>12, RegeneratedStep, RegenerateFailsStep
<1>14. CASE ReloadTab
  BY <1>14, ReloadStep
<1>13. CASE UNCHANGED viewVars
  <2>1. UNCHANGED <<rows, ids, unseen, query, view, sends, answerMode>>
    BY <1>13 DEF viewVars
  <2>2. ViewTypeOK'
    BY <2>1 DEF ViewIInv, ViewTypeOK
  <2>3. CallsOnPages' /\ Begun'
    BY <2>1, CallsUndisturbed DEF ViewIInv
  <2>4. ASSUME NEW c \in ViewConvs PROVE ConvOK(c)'
    <3>1. ConvOK(c)
      BY DEF ViewIInv
    <3> QED BY <2>1, <3>1, ConvKept DEF Streamless
  <2> QED BY <2>2, <2>3, <2>4 DEF ViewIInv
<1> QED BY <1>1, <1>2, <1>3, <1>4, <1>5, <1>6, <1>7, <1>8, <1>9, <1>10, <1>11, <1>12, <1>13, <1>14 DEF ViewNext

\* Once everything has ended, the cache's answer is what is stored, and the page follows it.
LEMMA SettledIsShown == ASSUME ViewIInv PROVE StoredIsShown
<1> SUFFICES ASSUME NEW c \in ViewConvs, ViewSettled(c) PROVE ShownRows = AsItems(rows[c])
  BY DEF StoredIsShown
<1>1. ConvOK(c) /\ view.conv = {c} /\ c \notin unseen /\ query[c].has /\ ~query[c].stale
  BY DEF ViewIInv, ViewSettled
<1>2. Streamless(c)
  BY DEF ViewIInv, ViewSettled, Active, CallsOnPages, Streamless
<1> QED BY <1>1, <1>2 DEF ConvOK, FoundIs, PageFollows, RowsRight, ShownRows

(* The page of a conversation shows the messages stored, all and in order, *)
(* once nothing is under way and nothing changed behind the cache's back,  *)
(* for any conversations, calls, retries and messages.                     *)
THEOREM ViewCorrect == ViewSpec => [](ViewTypeOK /\ StoredIsShown)
<1>1. ViewInit => ViewIInv
  BY ViewStarts
<1>2. ViewIInv /\ [ViewNext]_viewVars => ViewIInv'
  BY ViewKept
<1>3. ViewIInv => ViewTypeOK /\ StoredIsShown
  BY SettledIsShown DEF ViewIInv
<1> QED BY <1>1, <1>2, <1>3, PTL DEF ViewSpec

-----------------------------------------------------------------------------
(* The source browser: the chunks of one ingestion, each once, for any     *)
(* documents, sizes of lists and ingestions                                *)

\* The next page of a list may be asked for, after the id that is its cursor.
Continues(p) == p # <<>> /\ Last(p).nextCursor # 0

\* The lists of a list go up, through one ingestion, to its cursor.
PagesUp(p) ==
  /\ p \in Seq(ChunkPage)
  /\ \A i, j \in 1..Len(p) : i < j => \A a \in p[i].items, b \in p[j].items : a < b
  /\ \A a, b \in PageItems(p) : VersionOfId(a) = VersionOfId(b)
  /\ Continues(p) => \A a \in PageItems(p) :
       a < Last(p).nextCursor /\ VersionOfId(a) = VersionOfId(Last(p).nextCursor)

ReadOK(x) ==
  /\ PagesUp(x.pages) /\ PagesUp(x.fetch.read)
  /\ x.fetch.kind = "more" => Continues(x.pages)
  /\ x.fetch.kind = "all" /\ x.fetch.read # <<>> => Continues(x.fetch.read)

\* The navigator is at a chunk of the list, or at its start.
PlaceWithin(b, lists) == b.index = 0 \/ b.index < Count(b, lists)

SourcesIInv ==
  /\ SourcesTypeOK /\ \A d \in Sources : ReadOK(chunkPages[d])
  /\ PlaceWithin(sourceBrowser, chunkPages)

LEMMA IdsAre ==
  ASSUME NEW v \in Nat, NEW k \in 1..9
  PROVE  IdOf(v, k) \in Nat \ {0} /\ VersionOfId(IdOf(v, k)) = v
BY DEF IdOf, VersionOfId

LEMMA ChunkIdsAre ==
  \A id \in ChunkIds : id \in Nat /\ id # 0 /\ id \in 1..(10 * MaxIngestions + 9)
<1> SUFFICES ASSUME NEW id \in ChunkIds
             PROVE  id \in Nat /\ id # 0 /\ id \in 1..(10 * MaxIngestions + 9)
  OBVIOUS
<1>1. PICK v \in 0..MaxIngestions, k \in 1..9 : id = IdOf(v, k)
  BY DEF ChunkIds
<1> QED BY <1>1, SourcesAssumption DEF IdOf

\* The after of a document are of its last ingestion.
LEMMA RowsAre ==
  ASSUME SourcesTypeOK, NEW d \in Sources
  PROVE  /\ ChunkRows(d) \subseteq ChunkIds
         /\ \A r \in ChunkRows(d) : VersionOfId(r) = ingestion[d].version
<1>1. ingestion[d].version \in 0..MaxIngestions /\ ingestion[d].blocks \in 0..9
  BY DEF SourcesTypeOK
<1> SUFFICES ASSUME NEW r \in ChunkRows(d)
             PROVE  r \in ChunkIds /\ VersionOfId(r) = ingestion[d].version
  OBVIOUS
<1>2. PICK k \in 1..ingestion[d].blocks : r = IdOf(ingestion[d].version, k)
  BY DEF ChunkRows
<1>3. k \in 1..9 /\ ingestion[d].version \in Nat
  BY <1>1, SourcesAssumption
<1> QED BY <1>1, <1>2, <1>3, IdsAre DEF ChunkIds

\* A page that was read: rows after the cursor, all before the next one.
LEMMA ReadIs ==
  ASSUME SourcesTypeOK, NEW d \in Sources, NEW cursor \in {0} \cup ChunkIds
  PROVE  LET g == GetChunks(d, cursor) IN
         /\ g \in ChunkPage
         /\ g.items \subseteq ChunkRows(d)
         /\ cursor # 0 => \A a \in g.items \cup ({g.nextCursor} \ {0}) :
              cursor < a /\ VersionOfId(a) = VersionOfId(cursor)
         /\ g.nextCursor # 0 => g.nextCursor \in ChunkRows(d) /\ \A a \in g.items : a < g.nextCursor
<1> DEFINE g == GetChunks(d, cursor)
           after == RowsFrom(d, cursor)
           below(r) == {s \in after : s < r}
           taken == {r \in after : Cardinality(below(r)) < ChunkPageSize}
           N == 10 * MaxIngestions + 9
<1>1. after \subseteq ChunkRows(d) /\ after \subseteq ChunkIds /\ taken \subseteq after
  BY RowsAre DEF RowsFrom
<1>2. N \in Nat /\ after \subseteq 1..N /\ IsFiniteSet(1..N) /\ 0 \notin after
  <2>1. N \in Nat
    BY SourcesAssumption
  <2>2. after \subseteq 1..N /\ 0 \notin after
    <3> HIDE DEF after
    <3> QED BY <1>1, ChunkIdsAre
  <2> HIDE DEF N, after
  <2>3. IsFiniteSet(1..N)
    BY <2>1, FS_Interval
  <2> QED BY <2>1, <2>2, <2>3
<1>3. g = [items |-> taken, nextCursor |-> IF taken = after THEN 0 ELSE Min(after \ taken)]
  BY DEF GetChunks
<1>4. g.items = taken /\ g.nextCursor = IF taken = after THEN 0 ELSE Min(after \ taken)
  BY <1>3
<1>5. ASSUME taken # after PROVE Min(after \ taken) \in after \ taken
  <2>1. after \ taken # {} /\ after \ taken \subseteq 1..N
    BY <1>1, <1>2, <1>5
  <2>2. PICK m \in after \ taken : \A r \in after \ taken : m <= r
    <3> HIDE DEF after, taken, N
    <3> QED BY <1>2, <2>1, LeastIndex
  <2> HIDE DEF after, taken
  <2> QED BY <2>2 DEF Min
<1>6. ASSUME taken # after, NEW a \in taken, ~(a < Min(after \ taken)) PROVE FALSE
  <2> DEFINE c == Min(after \ taken)
  <2>1. c \in after \ taken
    BY <1>5, <1>6
  <2> HIDE DEF c
  <2>2. a \in Nat /\ c \in Nat /\ a \in after /\ c \in after /\ c <= a
    BY <1>1, <1>2, <1>6, <2>1 DEF c
  <2>3. below(c) \subseteq below(a) /\ below(a) \subseteq after
    BY <1>2, <2>2
  <2>4. IsFiniteSet(below(a))
    <3> HIDE DEF after, below
    <3> QED BY <1>2, <2>3, FS_Subset
  <2>5. /\ Cardinality(below(c)) <= Cardinality(below(a))
        /\ Cardinality(below(c)) \in Nat /\ Cardinality(below(a)) \in Nat
    <3> HIDE DEF after, below
    <3> QED BY <2>3, <2>4, FS_Subset, FS_CardinalityType
  <2>6. Cardinality(below(a)) < ChunkPageSize /\ ~(Cardinality(below(c)) < ChunkPageSize)
    BY <1>6, <2>1, <2>2
  <2> HIDE DEF below
  <2> QED BY <2>5, <2>6, SourcesAssumption
<1>7. g.nextCursor # 0 => g.nextCursor \in ChunkRows(d) /\ \A a \in g.items : a < g.nextCursor
  <2> HIDE DEF after, taken, g
  <2> QED BY <1>1, <1>4, <1>5, <1>6
<1>8. g \in ChunkPage
  <2>1. g.items \in SUBSET ChunkIds /\ g.nextCursor \in {0} \cup ChunkIds
    <3> HIDE DEF after, taken, g
    <3> QED BY <1>1, <1>4, <1>7, RowsAre
  <2>2. g = [items |-> g.items, nextCursor |-> g.nextCursor]
    BY <1>3, <1>4
  <2> HIDE DEF g
  <2> QED BY <2>1, <2>2 DEF ChunkPage
<1>9. cursor # 0 => \A a \in g.items \cup ({g.nextCursor} \ {0}) :
        cursor < a /\ VersionOfId(a) = VersionOfId(cursor)
  <2> SUFFICES ASSUME cursor # 0, NEW a \in g.items \cup ({g.nextCursor} \ {0})
               PROVE  cursor < a /\ VersionOfId(a) = VersionOfId(cursor)
    OBVIOUS
  <2>1. a \in after
    <3> HIDE DEF after, taken, g
    <3> QED BY <1>1, <1>4, <1>5
  <2>2. a \in ChunkRows(d) /\ cursor \in ChunkRows(d) /\ a > cursor
    BY <2>1 DEF RowsFrom
  <2>3. ChunkRows(d) \subseteq ChunkIds /\ \A r \in ChunkRows(d) : VersionOfId(r) = ingestion[d].version
    BY RowsAre
  <2>4. cursor \in Nat /\ a \in Nat
    <3> HIDE DEF after, taken, g
    <3> QED BY <2>2, <2>3, ChunkIdsAre
  <2> QED BY <2>2, <2>3, <2>4
<1> QED BY <1>1, <1>4, <1>7, <1>8, <1>9

\* A page behind the others.
LEMMA PageAdded ==
  ASSUME SourcesTypeOK, NEW d \in Sources, NEW p, PagesUp(p), p = <<>> \/ Continues(p),
         NEW g, g = GetChunks(d, IF p = <<>> THEN 0 ELSE Last(p).nextCursor)
  PROVE  PagesUp(Append(p, g))
<1> DEFINE q == Append(p, g)
           cursor == IF p = <<>> THEN 0 ELSE Last(p).nextCursor
<1>1. p \in Seq(ChunkPage) /\ Len(p) \in Nat
  BY DEF PagesUp
<1>2. \A i \in 1..Len(p) : p[i].items \subseteq ChunkIds /\ p[i].nextCursor \in {0} \cup ChunkIds
  <2>1. \A i \in 1..Len(p) : p[i] \in ChunkPage
    BY <1>1
  <2>2. \A x \in ChunkPage : x.items \subseteq ChunkIds /\ x.nextCursor \in {0} \cup ChunkIds
    BY DEF ChunkPage
  <2> QED BY <2>1, <2>2
<1>3. p # <<>> => Len(p) \in 1..Len(p) /\ Last(p) = p[Len(p)]
  BY <1>1 DEF Last
<1>4. cursor \in {0} \cup ChunkIds
  BY <1>2, <1>3
<1>5. /\ g \in ChunkPage /\ g.items \subseteq ChunkRows(d)
      /\ cursor # 0 => \A a \in g.items \cup ({g.nextCursor} \ {0}) :
           cursor < a /\ VersionOfId(a) = VersionOfId(cursor)
      /\ g.nextCursor # 0 => g.nextCursor \in ChunkRows(d) /\ \A a \in g.items : a < g.nextCursor
  <2> HIDE DEF cursor
  <2>1. g = GetChunks(d, cursor)
    BY DEF cursor
  <2> QED BY <1>4, <2>1, ReadIs
<1>6. q \in Seq(ChunkPage) /\ Len(q) = Len(p) + 1 /\ q[Len(p) + 1] = g /\ \A i \in 1..Len(p) : q[i] = p[i]
  BY <1>1, <1>5
<1> HIDE DEF q
<1>7. Last(q) = g
  BY <1>1, <1>6 DEF Last
<1>8. PageItems(q) = PageItems(p) \cup g.items
  <2>1. 1..Len(q) = (1..Len(p)) \cup {Len(p) + 1}
    BY <1>1, <1>6
  <2>2. \A a : a \in PageItems(q) <=> \E i \in 1..Len(q) : a \in q[i].items
    BY DEF PageItems
  <2>3. \A a : a \in PageItems(p) <=> \E i \in 1..Len(p) : a \in p[i].items
    BY DEF PageItems
  <2> QED BY <1>6, <2>1, <2>2, <2>3
<1>9. PageItems(p) \subseteq ChunkIds
  BY <1>2 DEF PageItems
<1>10. \A a, b \in g.items : VersionOfId(a) = VersionOfId(b)
  BY <1>5, RowsAre
<1>11. \A a \in PageItems(p), b \in g.items : a < b /\ VersionOfId(a) = VersionOfId(b)
  <2> SUFFICES ASSUME NEW a \in PageItems(p), NEW b \in g.items
               PROVE  a < b /\ VersionOfId(a) = VersionOfId(b)
    OBVIOUS
  <2>1. p # <<>>
    BY <1>1 DEF PageItems
  <2>2. cursor = Last(p).nextCursor /\ cursor # 0 /\ Continues(p)
    BY <2>1 DEF Continues
  <2>3. a < cursor /\ VersionOfId(a) = VersionOfId(cursor)
    BY <2>2 DEF PagesUp
  <2>4. cursor < b /\ VersionOfId(b) = VersionOfId(cursor)
    BY <1>5, <2>2
  <2>5. a \in Int /\ b \in Int /\ cursor \in Int
    <3>1. ChunkRows(d) \subseteq ChunkIds
      BY RowsAre
    <3> HIDE DEF cursor
    <3> QED BY <1>4, <1>5, <1>9, <3>1, ChunkIdsAre
  <2> HIDE DEF cursor
  <2> QED BY <2>3, <2>4, <2>5
<1>12. \A i, j \in 1..Len(q) : i < j => \A a \in q[i].items, b \in q[j].items : a < b
  <2> SUFFICES ASSUME NEW i \in 1..Len(q), NEW j \in 1..Len(q), i < j, NEW a \in q[i].items, NEW b \in q[j].items
               PROVE  a < b
    OBVIOUS
  <2>1. i \in 1..Len(p) /\ q[i] = p[i] /\ a \in PageItems(p)
    BY <1>1, <1>6 DEF PageItems
  <2>2. CASE j = Len(p) + 1
    BY <1>6, <1>11, <2>1, <2>2
  <2>3. CASE j # Len(p) + 1
    <3>1. j \in 1..Len(p) /\ q[j] = p[j]
      BY <1>1, <1>6, <2>3
    <3> QED BY <2>1, <3>1 DEF PagesUp
  <2> QED BY <2>2, <2>3
<1>13. \A a, b \in PageItems(q) : VersionOfId(a) = VersionOfId(b)
  <2>1. \A a, b \in PageItems(p) : VersionOfId(a) = VersionOfId(b)
    BY DEF PagesUp
  <2> QED BY <1>8, <1>10, <1>11, <2>1
<1>14. ASSUME Continues(q), NEW a \in PageItems(q)
       PROVE  a < g.nextCursor /\ VersionOfId(a) = VersionOfId(g.nextCursor)
  <2>1. g.nextCursor # 0 /\ g.nextCursor \in ChunkRows(d)
    BY <1>5, <1>7, <1>14 DEF Continues
  <2>2. CASE a \in g.items
    BY <1>5, <2>1, <2>2, RowsAre
  <2>3. CASE a \notin g.items
    <3>1. a \in PageItems(p)
      BY <1>8, <1>14, <2>3
    <3>2. p # <<>>
      BY <1>1, <3>1 DEF PageItems
    <3>3. cursor = Last(p).nextCursor /\ cursor # 0 /\ Continues(p)
      BY <3>2 DEF Continues
    <3>4. a < cursor /\ VersionOfId(a) = VersionOfId(cursor)
      BY <3>1, <3>3 DEF PagesUp
    <3>5. cursor < g.nextCursor /\ VersionOfId(g.nextCursor) = VersionOfId(cursor)
      BY <1>5, <2>1, <3>3
    <3>6. a \in Int /\ cursor \in Int /\ g.nextCursor \in Int
      <4>1. ChunkRows(d) \subseteq ChunkIds
        BY RowsAre
      <4> HIDE DEF cursor
      <4> QED BY <1>4, <1>9, <2>1, <3>1, <4>1, ChunkIdsAre
    <3> HIDE DEF cursor
    <3> QED BY <3>4, <3>5, <3>6
  <2> QED BY <2>2, <2>3
<1>15. PagesUp(q)
  BY <1>6, <1>7, <1>12, <1>13, <1>14 DEF PagesUp
<1> QED BY <1>15 DEF q

-----------------------------------------------------------------------------

Reads == [pages : Seq(ChunkPage), fetch : [kind : {"none", "more", "all"}, read : Seq(ChunkPage)]]

LEMMA NothingRead == PagesUp(<<>>) /\ ~Continues(<<>>)
BY DEF PagesUp, PageItems, Continues

\* What is in the list, in numbers.
LEMMA ListedAre ==
  ASSUME NEW b \in Browser, NEW lists \in [Sources -> Reads]
  PROVE  /\ InList(b, lists) \subseteq 1..(10 * MaxIngestions + 9)
         /\ IsFiniteSet(InList(b, lists)) /\ Count(b, lists) \in Nat
<1>1. \A d \in Sources : PageItems(lists[d].pages) \subseteq ChunkIds
  <2> SUFFICES ASSUME NEW d \in Sources, NEW i \in 1..Len(lists[d].pages)
               PROVE  lists[d].pages[i].items \subseteq ChunkIds
    BY DEF PageItems
  <2>1. lists[d].pages \in Seq(ChunkPage)
    BY DEF Reads
  <2>2. lists[d].pages[i] \in ChunkPage
    BY <2>1
  <2> QED BY <2>2 DEF ChunkPage
<1>2. InList(b, lists) \subseteq 1..(10 * MaxIngestions + 9)
  <2>1. b.selected \subseteq Sources
    BY DEF Browser
  <2>2. \A d \in b.selected : Matching(PageItems(lists[d].pages), b.filtered) \subseteq ChunkIds
    BY <1>1, <2>1 DEF Matching
  <2> QED BY <2>2, ChunkIdsAre DEF InList
<1>3. IsFiniteSet(1..(10 * MaxIngestions + 9))
  BY SourcesAssumption, FS_Interval
<1> QED BY <1>2, <1>3, FS_Subset, FS_CardinalityType DEF Count

\* The navigator's place is one of the list, of which it changes nothing.
LEMMA ClampedIs ==
  ASSUME NEW b \in Browser, NEW lists \in [Sources -> Reads]
  PROVE  Clamped(b, lists) \in Browser /\ PlaceWithin(Clamped(b, lists), lists)
<1> DEFINE n == Count(b, lists)
           m == Max({0, n - 1})
           k == Min({b.index, m})
<1>1. n \in Nat
  BY ListedAre
<1>2. m \in Nat /\ (m = 0 \/ m = n - 1)
  <2> HIDE DEF n
  <2>1. \E x \in {0, n - 1} : x >= 0 /\ \A y \in {0, n - 1} : x >= y
    BY <1>1
  <2>2. m \in {0, n - 1} /\ \A y \in {0, n - 1} : m >= y
    BY <2>1 DEF Max
  <2> HIDE DEF m
  <2> QED BY <1>1, <2>2
<1> HIDE DEF n, m
<1>3. k \in Nat /\ k <= m
  <2>1. b.index \in Nat
    BY DEF Browser
  <2>2. \E x \in {b.index, m} : \A y \in {b.index, m} : x <= y
    BY <1>2, <2>1
  <2>3. k \in {b.index, m} /\ \A y \in {b.index, m} : k <= y
    BY <2>2 DEF Min
  <2> HIDE DEF k
  <2> QED BY <1>2, <2>1, <2>3
<1>4. \A i \in Nat : [b EXCEPT !.index = i] \in Browser
  BY DEF Browser
<1>5. Clamped(b, lists) = [b EXCEPT !.index = k]
  BY DEF Clamped, k, m, n
<1> HIDE DEF k
<1>6. /\ Clamped(b, lists).selected = b.selected /\ Clamped(b, lists).filtered = b.filtered
      /\ Clamped(b, lists).index = k
  BY <1>5 DEF Browser
<1>7. Count(Clamped(b, lists), lists) = n
  BY <1>6 DEF Count, InList, n
<1>8. k = 0 \/ k < n
  BY <1>1, <1>2, <1>3
<1> QED BY <1>3, <1>4, <1>5, <1>6, <1>7, <1>8 DEF PlaceWithin

\* A rendering.
LEMMA BrowserShown ==
  ASSUME SourcesIInv, NEW b \in Browser, NEW lists \in [Sources -> Reads],
         \A d \in Sources : ReadOK(lists[d]),
         Render(b, lists), listed' \subseteq Sources, UNCHANGED StoredSources
  PROVE  SourcesIInv'
<1>1. sourceBrowser' \in Browser /\ chunkPages' = lists /\ PlaceWithin(sourceBrowser', lists)
  BY ClampedIs DEF Render
<1>2. SourcesTypeOK'
  BY <1>1 DEF SourcesIInv, SourcesTypeOK, StoredSources, Reads
<1>3. \A d \in Sources : ReadOK(chunkPages'[d])
  BY <1>1
<1>4. (\A d \in Sources : ReadOK(chunkPages[d]))'
  BY <1>3 DEF ReadOK, PagesUp, Continues
<1>5. PlaceWithin(sourceBrowser, chunkPages)'
  BY <1>1 DEF PlaceWithin, Count, InList, PageItems, Matching
<1> QED BY <1>2, <1>4, <1>5 DEF SourcesIInv

LEMMA ReadsAre ==
  ASSUME SourcesIInv
  PROVE  /\ chunkPages \in [Sources -> Reads] /\ \A d \in Sources : ReadOK(chunkPages[d])
         /\ sourceBrowser \in Browser /\ listed \subseteq Sources /\ documents \subseteq Sources
BY DEF SourcesIInv, SourcesTypeOK, Reads

\* One document's lists changed.
LEMMA OneRead ==
  ASSUME SourcesIInv, NEW d \in Sources, NEW x \in Reads, ReadOK(x)
  PROVE  LET lists == [chunkPages EXCEPT ![d] = x] IN
         lists \in [Sources -> Reads] /\ \A e \in Sources : ReadOK(lists[e])
BY ReadsAre

\* A read that begins.
LEMMA ReadBegins ==
  ASSUME SourcesIInv, NEW d \in Sources, NEW kind \in {"none", "more", "all"},
         kind = "more" => Continues(chunkPages[d].pages)
  PROVE  LET lists == Fetching(d, kind) IN
         lists \in [Sources -> Reads] /\ \A e \in Sources : ReadOK(lists[e])
<1> DEFINE x == [chunkPages[d] EXCEPT !.fetch = [kind |-> kind, read |-> <<>>]]
<1>1. chunkPages[d] \in Reads /\ ReadOK(chunkPages[d])
  BY ReadsAre
<1>2. [kind |-> kind, read |-> <<>>] \in [kind : {"none", "more", "all"}, read : Seq(ChunkPage)]
  OBVIOUS
<1>3. x \in Reads /\ x.pages = chunkPages[d].pages /\ x.fetch = [kind |-> kind, read |-> <<>>]
  BY <1>1, <1>2 DEF Reads
<1>4. ReadOK(x)
  <2> HIDE DEF x
  <2> QED BY <1>1, <1>3, NothingRead DEF ReadOK
<1>5. Fetching(d, kind) = [chunkPages EXCEPT ![d] = x]
  BY DEF Fetching
<1> HIDE DEF x
<1> QED BY <1>3, <1>4, <1>5, OneRead

LEMMA SourcesStart == SourcesInit => SourcesIInv
<1> SUFFICES ASSUME SourcesInit PROVE SourcesIInv
  OBVIOUS
<1>1. Unread \in Reads
  BY DEF Unread, NoFetch, Reads
<1>2. ReadOK(Unread)
  BY NothingRead DEF ReadOK, Unread, NoFetch
<1>3. \A d \in Sources : chunkPages[d] = Unread
  BY DEF SourcesInit
<1>4. sourceBrowser \in Browser
  <2>1. sourceBrowser \in [modal : BOOLEAN, selected : {{}}, index : {0}, filtered : {FALSE}, paged : {FALSE}]
    BY DEF SourcesInit
  <2>2. PICK b \in [modal : BOOLEAN, selected : {{}}, index : {0}, filtered : {FALSE}, paged : {FALSE}] :
          sourceBrowser = b
    BY <2>1
  <2>3. b.modal \in BOOLEAN /\ b.selected = {} /\ b.index = 0 /\ b.filtered = FALSE /\ b.paged = FALSE
    OBVIOUS
  <2>4. b = [modal |-> b.modal, selected |-> {}, index |-> 0, filtered |-> FALSE, paged |-> FALSE]
    BY <2>3
  <2>5. \A m \in BOOLEAN :
          [modal |-> m, selected |-> {}, index |-> 0, filtered |-> FALSE, paged |-> FALSE] \in Browser
    BY DEF Browser
  <2> QED BY <2>2, <2>3, <2>4, <2>5
<1>5. \A d \in Sources : [version |-> 0, blocks |-> BlocksOf[d]] \in [version : 0..MaxIngestions, blocks : 0..9]
  <2> SUFFICES ASSUME NEW d \in Sources
               PROVE  [version |-> 0, blocks |-> BlocksOf[d]] \in [version : 0..MaxIngestions, blocks : 0..9]
    OBVIOUS
  <2>1. BlocksOf[d] \in 0..9 /\ 0 \in 0..MaxIngestions
    BY SourcesAssumption
  <2> QED BY <2>1
<1>6. SourcesTypeOK
  BY <1>1, <1>4, <1>5 DEF SourcesInit, SourcesTypeOK, Reads
<1>7. sourceBrowser.index = 0
  BY DEF SourcesInit
<1> QED BY <1>2, <1>3, <1>6, <1>7 DEF SourcesIInv, PlaceWithin

LEMMA SourcesKept == SourcesIInv /\ [SourcesNext]_sourcesVars => SourcesIInv'
<1> SUFFICES ASSUME SourcesIInv, [SourcesNext]_sourcesVars PROVE SourcesIInv'
  OBVIOUS
<1>0. /\ chunkPages \in [Sources -> Reads] /\ \A d \in Sources : ReadOK(chunkPages[d])
      /\ sourceBrowser \in Browser /\ listed \subseteq Sources /\ documents \subseteq Sources
  BY ReadsAre
<1>1. /\ \A s \in SUBSET Sources : [sourceBrowser EXCEPT !.selected = s] \in Browser
      /\ \A s \in SUBSET Sources :
           [sourceBrowser EXCEPT !.selected = s, !.index = 0, !.paged = FALSE] \in Browser
      /\ \A on \in BOOLEAN : [sourceBrowser EXCEPT !.paged = on] \in Browser
      /\ \A on \in BOOLEAN : [sourceBrowser EXCEPT !.filtered = on] \in Browser
      /\ \A k \in Nat : [sourceBrowser EXCEPT !.index = k] \in Browser
  BY <1>0 DEF Browser
\* What the page stays with.
<1>2. ASSUME UNCHANGED <<chunkPages, sourceBrowser>>, listed' \subseteq Sources,
             documents' \subseteq Sources,
             ingestion' \in [Sources -> [version : 0..MaxIngestions, blocks : 0..9]]
      PROVE  SourcesIInv'
  <2>1. PlaceWithin(sourceBrowser, chunkPages)'
    BY <1>2 DEF SourcesIInv, PlaceWithin, Count, InList, PageItems, Matching
  <2>2. (\A d \in Sources : ReadOK(chunkPages[d]))'
    BY <1>0, <1>2
  <2>3. (chunkPages \in [Sources -> Reads])' /\ (sourceBrowser \in Browser)'
    BY <1>0, <1>2
  <2>4. SourcesTypeOK'
    BY <1>2, <2>3 DEF SourcesTypeOK, Reads
  <2> QED BY <2>1, <2>2, <2>4 DEF SourcesIInv
<1>3. ingestion \in [Sources -> [version : 0..MaxIngestions, blocks : 0..9]]
  BY DEF SourcesIInv, SourcesTypeOK
<1>4. CASE LoadList
  BY <1>0, <1>2, <1>3, <1>4 DEF LoadList, StoredSources
<1>5. CASE Back
  <2>1. [sourceBrowser EXCEPT !.selected = {}] \in Browser
    BY <1>1
  <2> QED BY <1>0, <1>5, <2>1, BrowserShown DEF Back
<1>6. CASE RefreshSources
  <2> DEFINE lists == [d \in Sources |-> IF Chosen(d) THEN Fetching(d, "all")[d] ELSE chunkPages[d]]
  <2>1. ASSUME NEW d \in Sources PROVE lists[d] \in Reads /\ ReadOK(lists[d])
    <3>1. Fetching(d, "all") \in [Sources -> Reads] /\ \A e \in Sources : ReadOK(Fetching(d, "all")[e])
      BY ReadBegins
    <3>2. lists[d] = Fetching(d, "all")[d] \/ lists[d] = chunkPages[d]
      OBVIOUS
    <3> QED BY <1>0, <3>1, <3>2
  <2>2. lists \in [Sources -> Reads]
    BY <2>1
  <2>3. Render(sourceBrowser, lists) /\ listed' \subseteq Sources /\ UNCHANGED StoredSources
    BY <1>0, <1>6 DEF RefreshSources
  <2> HIDE DEF lists
  <2> QED BY <1>0, <2>1, <2>2, <2>3, BrowserShown
<1>7. ASSUME NEW d \in Sources, NEW stale \in BOOLEAN, Choose(d, stale) \/ OpenModal(d, stale)
      PROVE  SourcesIInv'
  <2>1. Viewed(d, stale) \in [Sources -> Reads] /\ \A e \in Sources : ReadOK(Viewed(d, stale)[e])
    BY <1>0, ReadBegins DEF Viewed
  <2>2. /\ [sourceBrowser EXCEPT !.selected = {d}] \in Browser
        /\ [sourceBrowser EXCEPT !.selected = {d}, !.index = 0, !.paged = FALSE] \in Browser
    BY <1>1
  <2>3. listed' \subseteq Sources /\ UNCHANGED StoredSources
    BY <1>0, <1>7 DEF Choose, OpenModal
  <2>4. \/ Render([sourceBrowser EXCEPT !.selected = {d}], Viewed(d, stale))
        \/ Render([sourceBrowser EXCEPT !.selected = {d}, !.index = 0, !.paged = FALSE], Viewed(d, stale))
    BY <1>7 DEF Choose, OpenModal
  <2> QED BY <2>1, <2>2, <2>3, <2>4, BrowserShown
<1>8. ASSUME NEW on \in BOOLEAN, SearchWithin(on) \/ SetViewMode(on) PROVE SourcesIInv'
  <2>1. [sourceBrowser EXCEPT !.paged = on] \in Browser /\ [sourceBrowser EXCEPT !.filtered = on] \in Browser
    BY <1>1
  <2>2. listed' \subseteq Sources /\ UNCHANGED StoredSources
    BY <1>0, <1>8 DEF SearchWithin, SetViewMode
  <2>3. \/ Render([sourceBrowser EXCEPT !.paged = on], chunkPages)
        \/ Render([sourceBrowser EXCEPT !.filtered = on], chunkPages)
    BY <1>8 DEF SearchWithin, SetViewMode
  <2> QED BY <1>0, <2>1, <2>2, <2>3, BrowserShown
<1>9. ASSUME NEW delta \in {-1, 1}, GoToChunk(delta) \/ StepModal(delta) PROVE SourcesIInv'
  <2>1. sourceBrowser.index \in Nat
    BY <1>0 DEF Browser
  <2>2. sourceBrowser.index + delta \in Nat
    BY <1>9, <2>1 DEF GoToChunk, StepEnabled, StepModal
  <2>3. [sourceBrowser EXCEPT !.index = @ + delta] \in Browser
    BY <1>1, <2>2
  <2>4. Render([sourceBrowser EXCEPT !.index = @ + delta], chunkPages) /\ listed' \subseteq Sources
        /\ UNCHANGED StoredSources
    BY <1>0, <1>9 DEF GoToChunk, StepModal, GoTo
  <2> QED BY <1>0, <2>3, <2>4, BrowserShown
<1>10. ASSUME NEW d \in Sources, LoadMoreChunks(d) PROVE SourcesIInv'
  <2>1. Fetching(d, "more") \in [Sources -> Reads] /\ \A e \in Sources : ReadOK(Fetching(d, "more")[e])
    BY <1>10, ReadBegins DEF LoadMoreChunks, HasNextPage, Continues
  <2>2. Render(sourceBrowser, Fetching(d, "more")) /\ listed' \subseteq Sources /\ UNCHANGED StoredSources
    BY <1>0, <1>10 DEF LoadMoreChunks
  <2> QED BY <1>0, <2>1, <2>2, BrowserShown
<1>11. ASSUME NEW d \in Sources, NEW x \in Reads, ReadOK(x), Arrived(d, x), UNCHANGED listed,
              UNCHANGED StoredSources
       PROVE  SourcesIInv'
  <2> DEFINE lists == [chunkPages EXCEPT ![d] = x]
  <2>1. lists \in [Sources -> Reads] /\ \A e \in Sources : ReadOK(lists[e])
    BY <1>11, OneRead
  <2>2. Render(sourceBrowser, lists)
    BY <1>11 DEF Arrived
  <2> HIDE DEF lists
  <2> QED BY <1>0, <1>11, <2>1, <2>2, BrowserShown
<1>12. NoFetch = [kind |-> "none", read |-> <<>>]
         /\ NoFetch \in [kind : {"none", "more", "all"}, read : Seq(ChunkPage)]
  BY DEF NoFetch
<1>13. ASSUME NEW d \in Sources, MoreArrives(d) PROVE SourcesIInv'
  <2> DEFINE p == chunkPages[d].pages
             g == GetChunks(d, Last(p).nextCursor)
             x == [pages |-> Append(p, g), fetch |-> NoFetch]
  <2>1. PagesUp(p) /\ Continues(p) /\ SourcesTypeOK
    BY <1>0, <1>13 DEF MoreArrives, ReadOK, SourcesIInv
  <2>2. p # <<>>
    BY <2>1 DEF Continues
  <2>3. PagesUp(Append(p, g))
    <3> HIDE DEF p
    <3> QED BY <2>1, <2>2, PageAdded
  <2>4. Arrived(d, x) /\ UNCHANGED listed /\ UNCHANGED StoredSources
    BY <1>13 DEF MoreArrives
  <2> HIDE DEF p, g
  <2>5. x \in Reads
    BY <1>12, <2>3 DEF PagesUp, Reads
  <2>6. x.pages = Append(p, g) /\ x.fetch = NoFetch
    OBVIOUS
  <2> HIDE DEF x
  <2>7. ReadOK(x)
    BY <1>12, <2>3, <2>6, NothingRead DEF ReadOK
  <2> QED BY <1>11, <2>4, <2>5, <2>7
<1>14. ASSUME NEW d \in Sources, PageArrives(d) PROVE SourcesIInv'
  <2> DEFINE r == chunkPages[d].fetch.read
             g == GetChunks(d, IF r = <<>> THEN 0 ELSE Last(r).nextCursor)
             all == Append(r, g)
             whole == [pages |-> all, fetch |-> NoFetch]
             some == [chunkPages[d] EXCEPT !.fetch.read = all]
  <2>1. /\ PagesUp(r) /\ (r = <<>> \/ Continues(r)) /\ SourcesTypeOK /\ PagesUp(chunkPages[d].pages)
        /\ chunkPages[d].fetch.kind = "all" /\ chunkPages[d] \in Reads
    BY <1>0, <1>14 DEF PageArrives, ReadOK, SourcesIInv
  <2>2. PagesUp(all)
    <3> HIDE DEF r
    <3> QED BY <2>1, PageAdded
  <2>3. all # <<>> /\ Last(all) = g
    <3>1. r \in Seq(ChunkPage) /\ Len(r) \in Nat
      BY <2>1 DEF PagesUp
    <3> HIDE DEF r, g
    <3> QED BY <3>1 DEF Last
  <2>4. /\ Arrived(d, whole) \/ (g.nextCursor # 0 /\ Arrived(d, some))
        /\ UNCHANGED listed /\ UNCHANGED StoredSources
    BY <1>14 DEF PageArrives
  <2>5. some \in Reads /\ some.pages = chunkPages[d].pages
        /\ some.fetch.kind = "all" /\ some.fetch.read = all
    <3>1. all \in Seq(ChunkPage)
      BY <2>2 DEF PagesUp
    <3> HIDE DEF all
    <3> QED BY <2>1, <3>1 DEF Reads
  <2> HIDE DEF r, g, all
  <2>6. whole \in Reads /\ whole.pages = all /\ whole.fetch = NoFetch
    BY <1>12, <2>2 DEF PagesUp, Reads
  <2> HIDE DEF whole, some
  <2>7. ReadOK(whole)
    BY <1>12, <2>2, <2>6, NothingRead DEF ReadOK
  <2>8. g.nextCursor # 0 => ReadOK(some)
    BY <2>1, <2>2, <2>3, <2>5 DEF ReadOK, Continues
  <2> QED BY <1>11, <2>4, <2>5, <2>6, <2>7, <2>8
<1>15. ASSUME NEW d \in Sources, FetchChunksFails(d) PROVE SourcesIInv'
  <2> DEFINE x == [chunkPages[d] EXCEPT !.fetch = NoFetch]
  <2>1. chunkPages[d] \in Reads /\ ReadOK(chunkPages[d])
    BY <1>0
  <2>2. x \in Reads /\ x.pages = chunkPages[d].pages /\ x.fetch = NoFetch
    BY <1>12, <2>1 DEF Reads
  <2>3. Arrived(d, x) /\ UNCHANGED listed /\ UNCHANGED StoredSources
    BY <1>15 DEF FetchChunksFails
  <2> HIDE DEF x
  <2>4. ReadOK(x)
    BY <1>12, <2>1, <2>2, NothingRead DEF ReadOK
  <2> QED BY <1>11, <2>2, <2>3, <2>4
<1>16. ASSUME NEW d \in Sources, StartOver(d) \/ CommitBlock(d) \/ DeleteDocument(d) PROVE SourcesIInv'
  <2>1. ingestion[d].version \in 0..MaxIngestions /\ ingestion[d].blocks \in 0..9
    BY <1>3
  <2>2. BlocksOf[d] \in 1..9 /\ MaxIngestions \in Nat
    BY SourcesAssumption
  <2>3. \A i \in [version : 0..MaxIngestions, blocks : 0..9] :
          [ingestion EXCEPT ![d] = i] \in [Sources -> [version : 0..MaxIngestions, blocks : 0..9]]
    BY <1>3
  <2>4. CASE StartOver(d)
    <3>1. [version |-> ingestion[d].version + 1, blocks |-> 0] \in [version : 0..MaxIngestions, blocks : 0..9]
      <4>1. ingestion[d].version + 1 \in 0..MaxIngestions /\ 0 \in 0..9
        BY <2>1, <2>2, <2>4 DEF StartOver
      <4> QED BY <4>1
    <3> QED BY <1>0, <1>2, <2>3, <2>4, <3>1 DEF StartOver, PageState
  <2>5. \A k \in 0..9 : [ingestion EXCEPT ![d].blocks = k]
                          \in [Sources -> [version : 0..MaxIngestions, blocks : 0..9]]
    BY <1>3
  <2>6. CASE CommitBlock(d)
    <3>1. ingestion[d].blocks + 1 \in 0..9
      BY <2>1, <2>2, <2>6 DEF CommitBlock
    <3> QED BY <1>0, <1>2, <2>5, <2>6, <3>1 DEF CommitBlock, PageState
  <2>7. CASE DeleteDocument(d)
    <3>1. 0 \in 0..9
      OBVIOUS
    <3> QED BY <1>0, <1>2, <2>5, <2>7, <3>1 DEF DeleteDocument, PageState
  <2> QED BY <1>16, <2>4, <2>6, <2>7
<1>17. CASE UNCHANGED sourcesVars
  BY <1>0, <1>2, <1>3, <1>17 DEF sourcesVars
<1> QED BY <1>4, <1>5, <1>6, <1>7, <1>8, <1>9, <1>10, <1>13, <1>14, <1>15, <1>16, <1>17 DEF SourcesNext

Ranked(S, k) == {x \in S : Cardinality({y \in S : y < x}) = k}

\* Of a set of numbers, one has k of the others below it.
LEMMA RankedOne ==
  ASSUME NEW n \in Nat, NEW S, S \subseteq 1..n, NEW k \in Nat, k < Cardinality(S)
  PROVE  \E c \in S : Ranked(S, k) = {c}
<1> DEFINE under(x) == {y \in S : y < x}
           above == {x \in S : Cardinality(under(x)) >= k}
<1>1. IsFiniteSet(S) /\ Cardinality(S) \in Nat /\ S # {} /\ \A x \in S : x \in Int
  <2>1. IsFiniteSet(1..n)
    BY FS_Interval
  <2>2. IsFiniteSet(S) /\ Cardinality(S) \in Nat
    BY <2>1, FS_Subset, FS_CardinalityType
  <2> QED BY <2>2, FS_EmptySet
<1>2. \A x : IsFiniteSet(under(x)) /\ Cardinality(under(x)) \in Nat /\ under(x) \subseteq S
  BY <1>1, FS_Subset, FS_CardinalityType
<1>3. ASSUME NEW x \in S, NEW y \in S, x < y PROVE Cardinality(under(x)) < Cardinality(under(y))
  <2>1. under(x) \subseteq under(y) \ {x} /\ x \in under(y)
    <3> SUFFICES ASSUME NEW z \in under(x) PROVE z \in S /\ z < y /\ z # x
      BY <1>3
    <3>1. z \in S /\ z < x
      OBVIOUS
    <3> QED BY <1>1, <1>3, <3>1
  <2> HIDE DEF under
  <2>2. IsFiniteSet(under(y) \ {x}) /\ Cardinality(under(y) \ {x}) = Cardinality(under(y)) - 1
    BY <1>2, <2>1, FS_RemoveElement
  <2>3. Cardinality(under(x)) <= Cardinality(under(y) \ {x})
    BY <2>1, <2>2, FS_Subset
  <2> QED BY <1>2, <2>2, <2>3
<1>4. above # {}
  <2>1. PICK g \in S : \A x \in S : x <= g
    BY <1>1, GreatestIndex
  <2>2. under(g) = S \ {g}
    <3>1. \A x \in S : x < g <=> x # g
      BY <1>1, <2>1
    <3> QED BY <3>1
  <2> HIDE DEF under
  <2>3. Cardinality(under(g)) = Cardinality(S) - 1
    BY <1>1, <2>2, FS_RemoveElement
  <2> QED BY <1>1, <2>3
<1>5. PICK m \in above : \A x \in above : m <= x
  <2>1. above \subseteq 1..n
    OBVIOUS
  <2> HIDE DEF above
  <2> QED BY <1>4, <2>1, LeastIndex
<1>6. m \in S /\ Cardinality(under(m)) >= k
  BY <1>5
<1>7. ASSUME Cardinality(under(m)) > k PROVE FALSE
  <2>1. under(m) # {} /\ under(m) \subseteq 1..n
    <3>1. Cardinality({}) = 0
      BY FS_EmptySet
    <3>2. under(m) # {}
      <4> HIDE DEF under
      <4> QED BY <1>7, <3>1
    <3> QED BY <3>2
  <2>2. PICK g \in under(m) : \A x \in under(m) : x <= g
    <3> HIDE DEF under
    <3> QED BY <2>1, GreatestIndex
  <2>3. g \in S /\ g < m
    BY <2>2
  <2>4. under(g) = under(m) \ {g}
    <3>1. \A x \in S : x \in Int /\ m \in Int /\ g \in Int
      BY <1>1, <1>6, <2>3
    <3>2. \A x \in S : x < g <=> x < m /\ x # g
      BY <2>2, <2>3, <3>1
    <3> QED BY <3>2
  <2>5. Cardinality(under(g)) = Cardinality(under(m)) - 1
    <3> HIDE DEF under
    <3> QED BY <1>2, <2>2, <2>4, FS_RemoveElement
  <2>6. g \in above
    <3> HIDE DEF under
    <3> QED BY <1>2, <1>7, <2>3, <2>5
  <2> HIDE DEF under, above
  <2> QED BY <1>1, <1>5, <1>6, <2>3, <2>6
<1>8. Cardinality(under(m)) = k
  <2> HIDE DEF under
  <2> QED BY <1>2, <1>6, <1>7
<1>9. ASSUME NEW x \in S, Cardinality(under(x)) = k PROVE x = m
  <2> HIDE DEF under
  <2> QED BY <1>1, <1>3, <1>6, <1>8, <1>9
<1>10. Ranked(S, k) = {m}
  <2>1. Ranked(S, k) = {x \in S : Cardinality(under(x)) = k}
    BY DEF Ranked
  <2> HIDE DEF under
  <2> QED BY <1>6, <1>8, <1>9, <2>1
<1> QED BY <1>6, <1>10

LEMMA SourcesFollow == ASSUME SourcesIInv PROVE SourcesInv
<1> DEFINE items == InList(sourceBrowser, chunkPages)
           n == Count(sourceBrowser, chunkPages)
           k == sourceBrowser.index
           one == {c \in items : Cardinality({x \in items : x < c}) = k}
<1>1. SourcesTypeOK /\ OneIngestion
  BY DEF SourcesIInv, ReadOK, PagesUp, OneIngestion, ShownChunks
<1>2. items \subseteq 1..(10 * MaxIngestions + 9) /\ IsFiniteSet(items) /\ n \in Nat
  BY ReadsAre, ListedAre
<1>3. k \in Nat /\ (k = 0 \/ k < n) /\ n = Cardinality(items)
  BY ReadsAre DEF SourcesIInv, PlaceWithin, Browser, Count
<1>4. ASSUME sourceBrowser.paged PROVE Cardinality(ChunksInView) = Min({1, n})
  <2>1. ChunksInView = IF one # {} THEN one ELSE items
    BY <1>4 DEF ChunksInView
  <2>2. CASE n = 0
    <3>1. items = {}
      <4> HIDE DEF items
      <4> QED BY <1>2, <1>3, <2>2, FS_EmptySet
    <3>2. ChunksInView = {}
      BY <2>1, <3>1
    <3>3. Min({1, n}) = 0
      <4> HIDE DEF n
      <4>1. \E x \in {1, n} : \A y \in {1, n} : x <= y
        BY <2>2
      <4>2. Min({1, n}) \in {1, n} /\ \A y \in {1, n} : Min({1, n}) <= y
        BY <4>1 DEF Min
      <4> QED BY <2>2, <4>2
    <3> QED BY <3>2, <3>3, FS_EmptySet
  <2>3. CASE n # 0
    <3>1. 10 * MaxIngestions + 9 \in Nat
      BY SourcesAssumption
    <3>2. PICK c \in items : one = {c}
      <4> DEFINE top == 10 * MaxIngestions + 9
      <4>1. k < Cardinality(items) /\ top \in Nat /\ items \subseteq 1..top /\ k \in Nat
        BY <1>2, <1>3, <2>3, <3>1
      <4> HIDE DEF items, k, top
      <4>2. \E c \in items : Ranked(items, k) = {c}
        BY <4>1, RankedOne
      <4>3. one = Ranked(items, k)
        BY DEF Ranked
      <4> QED BY <4>2, <4>3
    <3>3. Cardinality(ChunksInView) = 1
      <4> HIDE DEF one, items
      <4> QED BY <2>1, <3>2, FS_Singleton
    <3>4. Min({1, n}) = 1
      <4> HIDE DEF n
      <4>1. \E x \in {1, n} : \A y \in {1, n} : x <= y
        BY <1>2, <2>3
      <4>2. Min({1, n}) \in {1, n} /\ \A y \in {1, n} : Min({1, n}) <= y
        BY <4>1 DEF Min
      <4> QED BY <1>2, <2>3, <4>2
    <3> QED BY <3>3, <3>4
  <2> QED BY <2>2, <2>3
<1> HIDE DEF n
<1> QED BY <1>1, <1>4 DEF SourcesInv, PagedShowsOne, n

(* However documents are ingested anew, deleted and read meanwhile, for    *)
(* any documents and sizes of pages: the chunks the browser shows of one   *)
(* are of one ingestion, each once and in order, and one at a time shows   *)
(* one of them as long as there is any.                                    *)
THEOREM SourcesCorrect == SourcesSpec => []SourcesInv
<1>1. SourcesInit => SourcesIInv
  BY SourcesStart
<1>2. SourcesIInv /\ [SourcesNext]_sourcesVars => SourcesIInv'
  BY SourcesKept
<1>3. SourcesIInv => SourcesInv
  BY SourcesFollow
<1> QED BY <1>1, <1>2, <1>3, PTL DEF SourcesSpec

-----------------------------------------------------------------------------
(* The pages together                                                      *)

PagesIInv ==
  /\ TesterIInv /\ HistoryIInv /\ LogIInv /\ ListIInv /\ ViewIInv /\ SidebarIInv /\ ConsoleIInv
  /\ SourcesIInv

LEMMA PagesStart == ASSUME MCInit PROVE PagesIInv
<1>1. /\ TesterInit /\ HistoryInit /\ LogInit /\ ListInit /\ ViewInit /\ SidebarInit /\ ConsoleInit
      /\ SourcesInit
  BY DEF MCInit
<1> QED BY <1>1, TesterStart, HistoryStart, LogStarts, ListStarts, ViewStarts, SidebarStarts, ConsoleStart,
            SourcesStart DEF PagesIInv

\* A step is one of one page, and the others stay as they are.
LEMMA PagesKept == ASSUME PagesIInv, [MCNext]_MCVars PROVE PagesIInv'
<1>1. /\ [TesterNext]_testerVars /\ [HistoryNext]_historyVars /\ [LogNext]_logVars /\ [ListNext]_listVars
      /\ [ViewNext]_viewVars /\ [SidebarNext]_sidebarVars /\ [ConsoleNext]_consoleVars
      /\ [SourcesNext]_sourcesVars
  <2>1. CASE MCNext
    BY <2>1 DEF MCNext, Stays, OfTester, OfHistory, OfLog, OfList, OfView, OfSidebar, OfConsole, OfSources,
                HistoryStep, LogStep, ListStep, ViewStep, SidebarStep, ConsoleStep
  <2>2. CASE UNCHANGED MCVars
    BY <2>2 DEF MCVars
  <2> QED BY <2>1, <2>2
<1> QED BY <1>1, TesterStep, HistoryKept, LogKept, ListKept, ViewKept, SidebarKept, ConsoleKept, SourcesKept DEF PagesIInv

(* Whatever page is looked at: the tester keeps the runs it should and     *)
(* shows the one chosen, the history neither repeats nor misses what did   *)
(* not move, the table of queries tells every answer, a conversation and   *)
(* the lists of documents and of conversations are those stored once they  *)
(* have been read again, the chunks shown are of one ingestion, and what   *)
(* the console says of a job has happened.                                 *)
THEOREM PagesCorrect == MCSpec => []FollowedPagesInv
<1>1. MCInit => PagesIInv
  BY PagesStart
<1>2. PagesIInv /\ [MCNext]_MCVars => PagesIInv'
  BY PagesKept
<1>3. PagesIInv => FollowedPagesInv
  <2> SUFFICES ASSUME PagesIInv PROVE FollowedPagesInv
    OBVIOUS
  <2>1. TesterInv
    BY ShownRun DEF PagesIInv, TesterIInv, TesterInv
  <2>2. HistoryTypeOK /\ HistoryInv
    BY LoadedIs DEF PagesIInv, HistoryIInv
  <2>3. LogTypeOK /\ TableWhole /\ UnansweredIsTrue /\ ModesAgree
    BY AnswersAreTold, LogTyped DEF PagesIInv, LogIInv
  <2>4. ViewTypeOK /\ StoredIsShown
    BY SettledIsShown DEF PagesIInv, ViewIInv
  <2>5. DocumentsAreStored /\ ListIsStored /\ SelectionInList
    BY DEF PagesIInv, ListIInv, SidebarIInv
  <2>6. ConsoleInv
    BY DEF PagesIInv, ConsoleIInv, ConsoleInv, SaidOfJobs, SaidIsTrue
  <2>7. SourcesInv
    BY SourcesFollow DEF PagesIInv
  <2> QED BY <2>1, <2>2, <2>3, <2>4, <2>5, <2>6, <2>7 DEF FollowedPagesInv
<1> QED BY <1>1, <1>2, <1>3, PTL DEF MCSpec

=============================================================================
