------------------------- MODULE MCArticleSelection -------------------------
(***************************************************************************)
(* Five articles of two sources, one of them urgent.                       *)
(***************************************************************************)
EXTENDS ArticleSelection

CONSTANTS a1, a2, a3, a4, a5, s1, s2

TwoSources == [a \in Article |-> IF a \in {a1, a2, a3} THEN s1 ELSE s2]
FirstUrgent == [a \in Article |-> IF a = a1 THEN 40 ELSE 10]
=============================================================================
