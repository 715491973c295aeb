------------------------------ MODULE MCIngest ------------------------------
(***************************************************************************)
(* Instances of Ingest for TLC.  A page may be found empty; a PDF has one  *)
(* text where its translation succeeds and another where it fails.         *)
(***************************************************************************)
EXTENDS Ingest, TLC

CONSTANTS w1, w2, r1, r2, page, pdf, words, blank, english, german

MCTextsOf == [d \in Docs |->
  Texts \cap (IF d \in PdfDocs THEN {english, german} ELSE {words, blank})]
MCBlocks == [t \in Texts |->
  CASE t \in {words, german} -> 2 [] t = english -> 3 [] t = blank -> 0]

MCSymmetry == Permutations(Workers) \cup Permutations(Requesters)

\* Bound: the PDF's jobs stand at one loss between them at most, so none of them
\* is exhausted; with pages, where MaxAttempts is 1, the first loss exhausts a job.
OneLoss == \A j, k \in Jobs : crashes[j] > 0 /\ crashes[k] > 0 => j = k /\ crashes[j] = 1

=============================================================================
