--------------------------- MODULE MCExportScript ---------------------------
(***************************************************************************)
(* Three publications: the second and the third have the same year, the    *)
(* first has none; the titles order them the other way round.  The keyword *)
(* of the third is a number, and so is the anchor that a script may give.  *)
(***************************************************************************)
EXTENDS ExportScript

CONSTANTS k1, k2

MCKeywordOf == <<k1, k2, 2>>

MCField == <<[year |-> Missing, title |-> 3],
             [year |-> 5,       title |-> 2],
             [year |-> 5,       title |-> 1]>>

MCSortKeys == {"year", "title"}

Asc(key)  == [key |-> key, ascending |-> TRUE]
Desc(key) == [key |-> key, ascending |-> FALSE]

MCSortCommands == {<<Desc("year"), Asc("title")>>, <<Asc("year")>>}
=============================================================================
