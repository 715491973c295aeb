------------------------------ MODULE MCChunks ------------------------------
(***************************************************************************)
(* How chunks come out of a text, and how they are read: each half in a    *)
(* run of its own, while the other stays as it begins.                     *)
(***************************************************************************)
EXTENDS Chunker, Sources

-----------------------------------------------------------------------------
(* Chunker with a text of seven short paragraphs.                          *)

Paragraphs(n) == [i \in 1..(4 * n - 1) |-> IF i % 4 = 0 THEN 1 ELSE 0]
OneText == {Paragraphs(7)}
BlankLineAndSpace == <<2, 1>>
SmallOptions == [l \in {"parent", "child"} |->
  [chunkSize |-> 5, chunkOverlap |-> 2, minChunkChars |-> 2]]

SplitSpec ==
  /\ ChunkerInit /\ SourcesInit
  /\ [][ChunkerNext /\ UNCHANGED sourcesVars]_<<chunkerVars, sourcesVars>>
  /\ WF_chunkerVars(ChunkerNext)

-----------------------------------------------------------------------------
(* Sources with a document of three chunks, read page after page.          *)

ThreeBlocks == [d \in Sources |-> 3]
OnlyRead ==
  /\ \A d \in Sources : ingestion'[d] = ingestion[d] /\ documents' = documents
  /\ UNCHANGED chunkerVars
ReadSpec == ChunkerInit /\ SourcesInit /\ [][SourcesNext /\ OnlyRead]_<<chunkerVars, sourcesVars>>

=============================================================================
