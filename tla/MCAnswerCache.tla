--------------------------- MODULE MCAnswerCache ---------------------------
(***************************************************************************)
(* A German question whose English form is another one, which in turn is   *)
(* close to a third: a chain in which the ends are not close.              *)
(***************************************************************************)
EXTENDS AnswerCache

CONSTANTS de, en, near

MCQuestions == {de, en, near}
MCCanonOf == [q \in Questions |-> IF q = de THEN {de, en} ELSE {q}]
MCSimilar == {<<de, en>>, <<en, de>>, <<en, near>>, <<near, en>>} \cap (Questions \X Questions)

-----------------------------------------------------------------------------
(* With two questions, the near one is only looked up: it is asked in      *)
(* standard turns that bypass the cache, which read it and write nothing.  *)

AskEither(a) ==
  \/ \E mode \in {"standard", "agentic"}, bypass \in BOOLEAN : Ask(a, en, mode, bypass)
  \/ Ask(a, near, "standard", TRUE)

MCNext ==
  \/ \E a \in Turns : AskEither(a) \/ Proceed(a)
  \/ \E d \in Docs : DocumentStep(d)
  \/ TimePasses \/ CleanUp \/ ClearAll

MCFairSpec == Init /\ [][MCNext]_vars /\ WF_vars(TimePasses)

=============================================================================
