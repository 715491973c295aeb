---------------------------- MODULE MCChatTurn ----------------------------
(* Two calls of one tab, as when a second is made while the first backs off. *)
EXTENDS ChatTurn

CONSTANTS t1, c1, c2

OneTab == [c \in Calls |-> t1]

=============================================================================
