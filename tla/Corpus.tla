------------------------------ MODULE Corpus ------------------------------
(***************************************************************************)
(* What a retrieval can see: the chunks in the database, and the copy of   *)
(* them each process keeps for its in-process keyword search, which is     *)
(* used when full-text search in the database fails (PrismaCorpusProvider, *)
(* SparseRetriever).                                                       *)
(*                                                                         *)
(* A document's chunks are reduced to a version, bumped whenever they      *)
(* change.  Deleting a document is such a change too.                      *)
(***************************************************************************)
EXTENDS Naturals, FiniteSets

CONSTANTS
  Docs,         \* documents
  Processes,    \* server processes, each with a corpus of its own
  MaxVersion,   \* bound: times a document's chunks change
  CorpusTTL     \* PrismaCorpusProvider.CACHE_TTL_MS, in ticks

ASSUME CorpusAssumption ==
  /\ MaxVersion \in Nat
  /\ CorpusTTL \in Nat \ {0}

VARIABLES
  version,   \* version[d]: the state of d's chunks, 0 before there are any
  corpus     \* corpus[p]: the chunks p keeps, and since when

Versions == [Docs -> 0..MaxVersion]
Copy == [here : BOOLEAN, got : Versions, age : 0..CorpusTTL]
NoCopy == [here |-> FALSE, got |-> [d \in Docs |-> 0], age |-> 0]

CorpusTypeOK ==
  /\ version \in Versions
  /\ corpus \in [Processes -> Copy]

CorpusInit ==
  /\ version = [d \in Docs |-> 0]
  /\ corpus = [p \in Processes |-> NoCopy]

Usable(p) == corpus[p].here /\ corpus[p].age < CorpusTTL

\* A load that has read every batch; its age counts from the load's start.
Install(p, got, age) == corpus' = [corpus EXCEPT ![p] = [here |-> TRUE, got |-> got, age |-> age]]

InvalidateCorpus(p) == corpus' = [corpus EXCEPT ![p] = NoCopy]

\* Mutant: a copy's age is not compared with the TTL.
CorpusAgesOn ==
  corpus' = [p \in Processes |->
    IF corpus[p].here THEN [corpus[p] EXCEPT !.age = @ + 1] ELSE corpus[p]]

CorpusAges ==
  corpus' = [p \in Processes |->
    IF Usable(p) THEN [corpus[p] EXCEPT !.age = @ + 1] ELSE corpus[p]]

=============================================================================
