----------------------------- MODULE IngestBase -----------------------------
(***************************************************************************)
(* What the ingest queue and the ingest pipeline share: the worker ticks   *)
(* and the source keys of documents.                                       *)
(***************************************************************************)
EXTENDS Naturals, FiniteSets

CONSTANTS
  Workers,   \* worker ticks that may run at the same time
  Docs,      \* source keys: page URLs and pdf:// keys
  PdfDocs,   \* the source keys that are pdf://
  MaxBlocks  \* bound: parent blocks of one document

ASSUME BaseAssumption == PdfDocs \subseteq Docs /\ Docs # {}

SomeDoc == CHOOSE d \in Docs : TRUE

=============================================================================
