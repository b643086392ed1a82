--------------------------- MODULE MCEngineHealth ---------------------------
(* Three engines, one of them in both categories, a configuration that drops it from one category and
   empties the other, and a threshold of two: rounds are aborted before, at and after an engine. *)
EXTENDS EngineHealth

MCEngines == 1..3
MCCategories == {"general", "images"}
MCConfigurations ==
    {[c \in MCCategories |-> IF c = "general" THEN {1, 2} ELSE {2, 3}],
     [c \in MCCategories |-> IF c = "general" THEN {1, 3} ELSE {}]}
=============================================================================
