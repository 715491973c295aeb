------------------------------ MODULE JsonLoose ------------------------------
(***************************************************************************)
(* How the JSON a model was asked for is read out of what it sent          *)
(* (parseJsonLoose): as it is, then the first value in it, then that value *)
(* repaired, then the text closed as if it had been cut off, then that     *)
(* repaired.  A text is a sequence of brackets, colons, commas, strings,   *)
(* literals, fences of a code block and other words.                       *)
(***************************************************************************)
EXTENDS Integers, FiniteSetsExt, SequencesExt

CONSTANTS
  Intended,  \* what a model means to say: objects and arrays in JSON
  Prose      \* what it may say beside them

VARIABLES
  how,       \* "whole", "cut" off, or "noise" without a value
  meant,     \* what the model meant, or what is left of it
  response,
  stage,     \* what JSON.parse is asked next, "done" or "failed"
  given      \* the value it gave

jsonVars == <<how, meant, response, stage, given>>

Opens == {"{", "["}
Closers == {"}", "]"}
CloserOf(k) == IF k = "{" THEN "}" ELSE "]"

\* A string has what it says, its quotes ("bare" for an identifier), whether a
\* line break in it is raw, and whether it lacks its closing quote.
Sign(k) == [kind |-> k]
Said(s) == [kind |-> "string", says |-> s, quote |-> "dq", raw |-> FALSE, open |-> FALSE]

EachString(t, Op(_)) == [i \in 1..Len(t) |-> IF t[i].kind = "string" THEN Op(t[i]) ELSE t[i]]
Rewrite(t, Op(_)) == FlattenSeq([i \in 1..Len(t) |-> Op(i)])
EndsIn(t, k) == t # <<>> /\ Last(t).kind = k

-----------------------------------------------------------------------------
(* JSON.parse *)

WellWritten(x) == x.kind = "string" => x.quote = "dq" /\ ~x.raw /\ ~x.open

\* want: what may come next; open: the brackets that are.
ReadToken(r, x) ==
  LET k == x.kind
      value == k \in {"string", "literal"} \cup Opens /\ r.want \in {"value", "item"}
      Behind(open) == [want |-> IF open = <<>> THEN "end" ELSE "more", open |-> open]
  IN  CASE ~WellWritten(x) -> [r EXCEPT !.want = "nothing"]
        [] value /\ k \notin Opens -> Behind(r.open)
        [] value -> [want |-> IF k = "{" THEN "field" ELSE "item", open |-> Append(r.open, k)]
        [] k = "string" /\ r.want \in {"key", "field"} -> [r EXCEPT !.want = "colon"]
        [] k = ":" /\ r.want = "colon" -> [r EXCEPT !.want = "value"]
        [] k = "," /\ r.want = "more" ->
             [r EXCEPT !.want = IF Last(r.open) = "{" THEN "key" ELSE "value"]
        [] /\ k \in Closers /\ r.open # <<>> /\ CloserOf(Last(r.open)) = k
           /\ r.want \in {"more", IF k = "}" THEN "field" ELSE "item"} -> Behind(Front(r.open))
        [] OTHER -> [r EXCEPT !.want = "nothing"]
ReadAll(t) == FoldLeft(ReadToken, [want |-> "value", open |-> <<>>], t)
IsJson(t) == ReadAll(t).want = "end"

-----------------------------------------------------------------------------
(* The passes *)

\* Without the fences of a code block.
Unfenced(t) ==
  LET tail == IF t # <<>> /\ Head(t).kind = "fence" THEN Tail(t) ELSE t
  IN  IF EndsIn(tail, "fence") THEN Front(tail) ELSE tail

\* Where a value begins: at a brace, or else at a bracket.
ValueStart(t) ==
  LET Places(k) == {i \in 1..Len(t) : t[i].kind = k}
      places == IF Places("{") # {} THEN Places("{") ELSE Places("[")
  IN  IF places = {} THEN 0 ELSE Min(places)
From(t) == SubSeq(t, ValueStart(t), Len(t))

Balanced(t, Opening(_), Closing(_)) ==
  {i \in 1..Len(t) : /\ Closing(t[i])
                     /\ Cardinality({j \in 1..i : Opening(t[j])}) = Cardinality({j \in 1..i : Closing(t[j])})}
IsOpen(x) == x.kind \in Opens
IsClose(x) == x.kind \in Closers

\* Mutant: a bracket in a single-quoted string counts.
ExtractJsonDouble(t) ==
  LET ends == Balanced(t, IsOpen, LAMBDA x :
                IsClose(x) \/ (x.kind = "string" /\ x.quote = "sq" /\ x.says = "closing bracket"))
  IN  IF ends = {} THEN t ELSE SubSeq(t, 1, Min(ends))

\* The first complete value, or all of it when none is.
ExtractJsonValue(t) ==
  LET ends == Balanced(t, IsOpen, IsClose) IN IF ends = {} THEN t ELSE SubSeq(t, 1, Min(ends))

NoTrailingCommas(t) ==
  Rewrite(t, LAMBDA i : IF t[i].kind = "," /\ i < Len(t) /\ IsClose(t[i + 1]) THEN <<>> ELSE <<t[i]>>)

EscapeControlCharsInStrings(t) ==
  EachString(t, LAMBDA s : IF s.quote = "bare" THEN s ELSE [s EXCEPT !.raw = FALSE])

ConvertSingleQuotes(t) ==
  EachString(t, LAMBDA s : IF s.quote = "sq" THEN [s EXCEPT !.quote = "dq"] ELSE s)

\* A comma before whatever begins behind the end of a value.
InsertMissingCommas(t) ==
  LET Begins(x) == x.kind \in {"string", "literal"} \cup Opens
      Ends(x) == x.kind \in {"string", "literal"} \cup Closers
      BehindValue(i) ==
        LET before == {j \in 1..(i - 1) : Begins(t[j]) \/ t[j].kind \in {":", ","} \cup Closers}
        IN  before # {} /\ Ends(t[Max(before)])
  IN  Rewrite(t, LAMBDA i : IF Begins(t[i]) /\ BehindValue(i) THEN <<Sign(","), t[i]>> ELSE <<t[i]>>)

QuoteBareIdentifiers(t) ==
  EachString(t, LAMBDA s : IF s.quote = "bare" THEN [s EXCEPT !.quote = "dq"] ELSE s)

RepairJson(t) ==
  NoTrailingCommas(QuoteBareIdentifiers(InsertMissingCommas(ConvertSingleQuotes(
    EscapeControlCharsInStrings(NoTrailingCommas(t))))))

\* The brackets that stay open, outermost first.
StillOpen(t) ==
  FoldLeft(LAMBDA open, x :
             IF IsOpen(x) THEN Append(open, x.kind)
             ELSE IF IsClose(x) /\ open # <<>> /\ CloserOf(Last(open)) = x.kind THEN Front(open)
             ELSE open, <<>>, t)

\* A colon at the end gets an empty string, a comma goes, and the open brackets
\* are closed, the innermost first.
ClosedBrackets(t) ==
  LET full == IF EndsIn(t, ":") THEN Append(t, Said("")) ELSE t
      bare == IF EndsIn(full, ",") THEN Front(full) ELSE full
      open == Reverse(StillOpen(t))
  IN  NoTrailingCommas(bare \o [i \in 1..Len(open) |-> Sign(CloserOf(open[i]))])

\* Mutant: a string that is cut off stays open.
CloseBracketsOnly(t) == ClosedBrackets(t)

\* (A string that is open is the last thing in a text, and an identifier has no
\* quote to lack.)
AutoCloseTruncatedJson(t) ==
  ClosedBrackets(EachString(t, LAMBDA s : [s EXCEPT !.open = FALSE]))

-----------------------------------------------------------------------------
(* What models send *)

\* Glitches: each is one the passes are there for.
Glitch(t, g) ==
  CASE g = "newlines" -> EachString(t, LAMBDA s : [s EXCEPT !.raw = (s.says = "two lines")])
    [] g = "spaces" -> SelectSeq(t, LAMBDA x : x.kind # ",")
    [] g = "commas" -> Rewrite(t, LAMBDA i : IF IsClose(t[i]) THEN <<Sign(","), t[i]>> ELSE <<t[i]>>)
    [] g = "words" -> EachString(t, LAMBDA s : IF s.says = "word" THEN [s EXCEPT !.quote = "bare"] ELSE s)
    [] g = "quotes" -> EachString(t, LAMBDA s : IF s.quote = "dq" THEN [s EXCEPT !.quote = "sq"] ELSE s)
GlitchOrder == <<"newlines", "spaces", "commas", "words", "quotes">>
Glitches == ToSet(GlitchOrder)
Glitched(t, G) == FoldLeft(Glitch, t, SelectSeq(GlitchOrder, LAMBDA g : g \in G))

\* In a code block or beside prose, with any glitches.  A brace is taken for the
\* beginning of the value, so there is none before it and none beside an array.
Sent(t) ==
  LET Lacks(p, K) == \A i \in 1..Len(p) : p[i].kind \notin K
      before == {p \in Prose : Lacks(p, IF Head(t).kind = "{" THEN {"{"} ELSE Opens)}
      after == {p \in Prose : Head(t).kind = "{" \/ Lacks(p, {"{"})}
  IN  UNION {LET s == Glitched(t, G) IN
               {b \o s \o a : b \in before, a \in after}
                 \cup {<<Sign("fence")>> \o s \o <<Sign("fence")>> \o a : a \in after} : G \in SUBSET Glitches}

\* A text may be cut off between two tokens, in a string or in a literal, whose
\* beginning reads as an identifier.
Part == [Said("part") EXCEPT !.open = TRUE]
CutOff(t) ==
  {SubSeq(t, 1, n) : n \in 1..(Len(t) - 1)}
    \cup {Append(SubSeq(t, 1, n - 1), Part) : n \in {m \in 1..Len(t) : t[m].kind = "string"}}
    \cup {Append(SubSeq(t, 1, n - 1), [Said("part") EXCEPT !.quote = "bare"])
            : n \in {m \in 1..Len(t) : t[m].kind = "literal"}}

\* What such a text still says, and whether it can be continued: a key lacks its
\* value for good.
SoFar(t) == EachString(t, LAMBDA s : Said(s.says))
Continuable(t) == ReadAll(SoFar(t)).want # "colon"
Kept(t) == IF EndsIn(t, ",") THEN Front(SoFar(t)) ELSE SoFar(t)

JsonInit ==
  /\ stage = "whole" /\ given = <<>>
  /\ \/ how = "whole" /\ \E t \in Intended : meant = t /\ response \in Sent(t)
     \/ /\ how = "cut"
        /\ \E t \in Intended : \E s \in CutOff(t) : \E G \in SUBSET Glitches :
             Continuable(s) /\ meant = Kept(s) /\ response = Glitched(s, G)
     \/ how = "noise" /\ meant = <<>> /\ response \in Prose

-----------------------------------------------------------------------------
(* parseJsonLoose; callLLMJson gives null when it fails *)

\* JSON.parse is asked for t; if it throws, the next stage is tried.
Try(at, t, next) ==
  /\ stage = at
  /\ stage' = IF IsJson(t) THEN "done" ELSE next
  /\ given' = IF IsJson(t) THEN t ELSE <<>>
  /\ UNCHANGED <<how, meant, response>>

Stripped == Unfenced(response)
Value == ExtractJsonValue(From(Stripped))
Closed == AutoCloseTruncatedJson(From(Stripped))

TryWhole == Try("whole", Stripped, IF ValueStart(Stripped) = 0 THEN "failed" ELSE "value")
TryValue == Try("value", Value, "repaired")
TryRepaired == Try("repaired", RepairJson(Value), "closed")
TryClosed == Try("closed", Closed, "closed and repaired")
TryClosedRepaired == Try("closed and repaired", RepairJson(Closed), "failed")

JsonNext == TryWhole \/ TryValue \/ TryRepaired \/ TryClosed \/ TryClosedRepaired

-----------------------------------------------------------------------------
(* Properties *)

\* What a model meant is read: beside prose, in a code block and with every
\* combination of glitches nothing is lost or added, and of an answer that was
\* cut off everything that came is kept, with nothing behind it but the closing
\* brackets and an empty string for a value that did not come.
JsonInv ==
  /\ how # "noise" => stage # "failed"
  /\ stage = "done" /\ how = "whole" => given = meant
  /\ stage = "done" /\ how = "cut" =>
       /\ IsPrefix(meant, given)
       /\ \A i \in (Len(meant) + 1)..Len(given) :
            \/ IsClose(given[i])
            \/ given[i] = Said("") /\ i = Len(meant) + 1 /\ EndsIn(meant, ":")

=============================================================================
