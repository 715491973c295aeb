------------------------------- MODULE Chunker -------------------------------
(***************************************************************************)
(* How a cleaned document becomes parents, and every parent its children:  *)
(* the text is split at the strongest separator it has, pieces that are    *)
(* too long are split again, and runs of short pieces are merged into      *)
(* chunks that begin with the end of the one before.  A text is a sequence *)
(* of characters and separators; a piece or a chunk is an interval of it.  *)
(***************************************************************************)
EXTENDS Integers, Sequences, FiniteSetsExt, SequencesExt

CONSTANTS
  SepLength, \* SepLength[k]: characters of the k-th separator, the strongest first
  Texts,     \* documents: sequences of characters (0) and separators
  Options    \* Options[level]: chunkSize, chunkOverlap, minChunkChars

ASSUME ChunkerAssumption ==
  /\ SepLength \in Seq(Nat \ {0})
  /\ \A t \in Texts : t \in Seq(0..Len(SepLength))
  /\ Options \in [{"parent", "child"} -> [chunkSize : Nat \ {0}, chunkOverlap : Nat, minChunkChars : Nat]]

VARIABLES
  text,
  level,    \* the splitter at work
  parents,  \* its chunks, once the parents' splitter is through
  children, \* children[i] of parents[i]
  stack,    \* recursiveSplit: pieces to come and short pieces gathered, the innermost last
  merge,    \* mergeSplits
  docs      \* what mergeSplits gave so far

chunkerVars == <<text, level, parents, children, stack, merge, docs>>

Interval == [from : Nat, to : Nat]
Char(i) == IF text[i] = 0 THEN 1 ELSE SepLength[text[i]]
Length(p) == MapThenSumSet(Char, p.from..p.to)
Of == Options[level]

Frame == [sep : 0..Len(SepLength), rest : Seq(Interval), good : Seq(Interval)]
Merging == [on : BOOLEAN, shedding : BOOLEAN, splits : Seq(Interval), current : Seq(Interval), total : Int]
NotMerging == [on |-> FALSE, shedding |-> FALSE, splits |-> <<>>, current |-> <<>>, total |-> 0]

ChunkerTypeOK ==
  /\ text \in Texts /\ level \in {"parent", "child", "done"}
  /\ parents \in Seq(Interval) /\ children \in Seq(Seq(Interval)) /\ docs \in Seq(Interval)
  /\ stack \in Seq(Frame) /\ merge \in Merging

-----------------------------------------------------------------------------
(* Texts *)

Separators(p) == {text[i] : i \in p.from..p.to} \ {0}

\* The strongest in the text, or none: then every character is a piece.
FindSeparator(p) == IF Separators(p) = {} THEN 0 ELSE Min(Separators(p))

Split(p, sep) ==
  IF sep = 0 THEN [i \in 1..(p.to - p.from + 1) |-> [from |-> p.from + i - 1, to |-> p.from + i - 1]]
  ELSE LET ends == {p.from - 1, p.to + 1}
           places == [i \in 1..(p.to - p.from + 3) |-> p.from + i - 2]
           cuts == SelectSeq(places, LAMBDA i : i \in ends \/ text[i] = sep)
       IN  [i \in 1..(Len(cuts) - 1) |-> [from |-> cuts[i] + 1, to |-> cuts[i + 1] - 1]]

FrameOf(p) == [sep |-> FindSeparator(p), rest |-> Split(p, FindSeparator(p)), good |-> <<>>]

\* Joined with what separated them, trimmed; nothing of nothing but blanks.
JoinDocs(pieces) ==
  LET chars == {i \in Head(pieces).from..Last(pieces).to : text[i] = 0} IN
  IF chars = {} THEN <<>> ELSE <<[from |-> Min(chars), to |-> Max(chars)]>>

Whole(t) == [from |-> 1, to |-> Len(t)]

ChunkerInit ==
  /\ text \in Texts
  /\ level = "parent" /\ parents = <<>> /\ children = <<>>
  /\ stack = IF text = <<>> THEN <<>> ELSE <<FrameOf(Whole(text))>>
  /\ merge = NotMerging /\ docs = <<>>

-----------------------------------------------------------------------------
(* recursiveSplit *)

SplitOf == <<text, level, parents, children>>
Top == Last(stack)
SetTop(frame) == [stack EXCEPT ![Len(stack)] = frame]
Splitting == stack # <<>> /\ ~merge.on

StartMerge == /\ merge' = [NotMerging EXCEPT !.on = TRUE, !.splits = Top.good]
              /\ stack' = SetTop([Top EXCEPT !.good = <<>>])
              /\ UNCHANGED docs /\ UNCHANGED SplitOf

GatherPiece ==
  /\ Splitting /\ Top.rest # <<>> /\ Length(Head(Top.rest)) < Of.chunkSize
  /\ stack' = SetTop([Top EXCEPT !.rest = Tail(@), !.good = Append(@, Head(Top.rest))])
  /\ UNCHANGED <<merge, docs>> /\ UNCHANGED SplitOf

SplitPiece ==
  /\ Splitting /\ Top.rest # <<>> /\ Length(Head(Top.rest)) >= Of.chunkSize
  /\ IF Top.good # <<>> THEN StartMerge
     ELSE /\ stack' = Append(SetTop([Top EXCEPT !.rest = Tail(@)]), FrameOf(Head(Top.rest)))
          /\ UNCHANGED <<merge, docs>> /\ UNCHANGED SplitOf

EndOfPieces ==
  /\ Splitting /\ Top.rest = <<>>
  /\ IF Top.good # <<>> THEN StartMerge
     ELSE stack' = Front(stack) /\ UNCHANGED <<merge, docs>> /\ UNCHANGED SplitOf

-----------------------------------------------------------------------------
(* mergeSplits *)

SepOf == IF Top.sep = 0 THEN 0 ELSE SepLength[Top.sep]

\* Mutant: the chunk is closed after the piece that no longer fits.
FitsLate(piece) == merge.total <= Of.chunkSize

Fits(piece) ==
  merge.total + Length(piece) + (IF merge.current = <<>> THEN 0 ELSE SepOf) <= Of.chunkSize

Merged(new) == merge' = new /\ UNCHANGED stack /\ UNCHANGED SplitOf

\* The separator is counted with the first piece too.
Pushed(piece) == [merge EXCEPT !.shedding = FALSE, !.splits = Tail(@),
                    !.current = Append(@, piece), !.total = @ + Length(piece) + SepOf]

AddPiece ==
  /\ merge.on /\ ~merge.shedding /\ merge.splits # <<>>
  /\ LET piece == Head(merge.splits) IN
     IF Fits(piece) \/ merge.current = <<>>
     THEN Merged(Pushed(piece)) /\ UNCHANGED docs
     ELSE Merged([merge EXCEPT !.shedding = TRUE]) /\ docs' = docs \o JoinDocs(merge.current)

ShedFirst == [merge EXCEPT !.current = Tail(@),
                !.total = @ - Length(Head(merge.current)) - (IF Len(merge.current) > 1 THEN SepOf ELSE 0)]

\* The oldest pieces leave until the rest is overlap.  When nothing is left to
\* leave and the total still exceeds it, the loop goes round for ever.
Shed ==
  /\ merge.on /\ merge.shedding
  /\ IF merge.total <= Of.chunkOverlap THEN Merged(Pushed(Head(merge.splits)))
     ELSE IF merge.current # <<>> THEN Merged(ShedFirst) ELSE Merged(merge)
  /\ UNCHANGED docs

EndMerge ==
  /\ merge.on /\ ~merge.shedding /\ merge.splits = <<>>
  /\ docs' = docs \o JoinDocs(merge.current) /\ merge' = NotMerging
  /\ UNCHANGED stack /\ UNCHANGED SplitOf

-----------------------------------------------------------------------------
(* chunkParentChild *)

ChunksKept == SelectSeq(docs, LAMBDA d : Length(d) >= Of.minChunkChars)
StartNext(ps, done) == IF Len(ps) = done THEN level' = "done" /\ stack' = <<>>
                   ELSE level' = "child" /\ stack' = <<FrameOf(ps[done + 1])>>

ParentsSplit ==
  /\ level = "parent" /\ stack = <<>>
  /\ parents' = ChunksKept /\ docs' = <<>> /\ StartNext(ChunksKept, 0)
  /\ UNCHANGED <<text, children, merge>>

\* A parent too short for a child is its own child.
ParentSplit ==
  /\ level = "child" /\ stack = <<>>
  /\ children' = Append(children, IF ChunksKept = <<>>
                                  THEN <<parents[Len(children) + 1]>> ELSE ChunksKept)
  /\ docs' = <<>> /\ StartNext(parents, Len(children) + 1)
  /\ UNCHANGED <<text, parents, merge>>

ChunkerNext == \/ GatherPiece \/ SplitPiece \/ EndOfPieces \/ AddPiece \/ Shed \/ EndMerge
               \/ ParentsSplit \/ ParentSplit

ChunkerSpec == ChunkerInit /\ [][ChunkerNext]_chunkerVars /\ WF_chunkerVars(ChunkerNext)

-----------------------------------------------------------------------------

SizesKept(chunks, options) == \A i \in 1..Len(chunks) :
  Length(chunks[i]) \in options.minChunkChars..(options.chunkSize + options.chunkOverlap)

(* No chunk is longer than its size and the overlap together, whatever is  *)
(* carried over from the chunk before; none is shorter than the least.     *)
ChunksFit ==
  /\ SizesKept(parents, Options.parent)
  /\ \A i \in 1..Len(children) :
       children[i] = <<parents[i]>> \/ SizesKept(children[i], Options.child)

(* Between two chunks, and around them, no character is left out: what is  *)
(* in no chunk was in one too short to keep, between separators or ends.   *)
Within(chunks) == UNION {chunks[i].from..chunks[i].to : i \in 1..Len(chunks)}
LeftOut(p, chunks) == {i \in p.from..p.to : text[i] = 0} \ Within(chunks)
NothingLost(p, chunks, least) == \A i \in LeftOut(p, chunks) :
  \E a, b \in p.from..p.to : /\ i \in a..b /\ Length([from |-> a, to |-> b]) < least
                             /\ a = p.from \/ text[a - 1] # 0 \/ a - 1 \in Within(chunks)
                             /\ b = p.to \/ text[b + 1] # 0 \/ b + 1 \in Within(chunks)

(* Chunks come in the order of the text, children of every parent lie in   *)
(* it, and nothing but snippets is left out on either level.               *)
ContentKept == level = "done" =>
  /\ text # <<>> => NothingLost(Whole(text), parents, Options.parent.minChunkChars)
  /\ Len(children) = Len(parents)
  /\ \A i \in 1..Len(parents) :
       /\ children[i] # <<>> /\ NothingLost(parents[i], children[i], Options.child.minChunkChars)
       /\ \A j \in 1..Len(children[i]) :
            children[i][j].from >= parents[i].from /\ children[i][j].to <= parents[i].to
  /\ \A i \in 1..(Len(parents) - 1) : parents[i].from < parents[i + 1].from

ChunkerInv == ChunkerTypeOK /\ ChunksFit /\ ContentKept

(* "Overlap is preserved at both levels so section boundaries are never    *)
(* lost": however many sections a document has, its chunks come out.       *)
ChunksComeOut == <>(level = "done")
=============================================================================
