--------------------------- MODULE MCDialogContext ---------------------------
(* A small instance of DialogContext for TLC. *)
EXTENDS DialogContext

\* One intent names an entity in both of its operands (a comparison of two
\* periods), one names two entities, one groups.
Entities3 == {"e1", "e2", "e3"}
Intents == {"twice", "pair", "group"}
MentionsOf == [i \in Intents |->
  CASE i = "twice" -> <<"e1", "e1">>
    [] i = "pair" -> <<"e2", "e3">>
    [] i = "group" -> <<"e2">>]
Groupings == {"group"}
=============================================================================
