----------------------------- MODULE MCRetrieval -----------------------------
(* A finite instance of Retrieval: tables an older daemon may have left.   *)
EXTENDS Retrieval

AllStrings == STRING

MkRow(content, scope, mem_type, utility_score) ==
  [content |-> content, scope |-> scope, mem_type |-> mem_type, utility_score |-> utility_score]

Home == <<"/", "home">>
Work == <<"/", "work">>
Places == {Home, Work}

Liked     == MkRow("likes vi", <<"Global">>, "Preference", 0)
LikedToo  == MkRow("likes vim", <<"Global">>, "Preference", 1)
Unhelpful == MkRow("fix tests", <<"Project:">> \o Home, "ErrorFix", -2)
Gone      == MkRow("old", <<"Session:", "1">>, "Retired", 0)

OldTables == {<<Liked, LikedToo>>, <<Unhelpful>>, <<Gone, Liked>>}

(* The contents of rules share their first ten characters.                 *)
Learned == {"When cc", "When make"}
Texts   == Learned \cup {"likes vi", "likes vim", "fix tests", "old"}
Alike   == {<<c, c>> : c \in Texts} \cup (Learned \X Learned)
             \cup {<<"likes vim", "likes vi">>}

Near == {2, 6, NaN}
=============================================================================
