-------------------------- MODULE PublicationOrder --------------------------
(***************************************************************************)
(* The order that the "sort" command asks for:                             *)
(* publicationNodeComparisonFunction() of publicationset.cc, which         *)
(* PublicationSet::sort() hands to qsort().                                *)
(***************************************************************************)
EXTENDS Integers, Sequences

CONSTANTS N,             \* the number of publications
          SortKeys,      \* the BibTeX fields they are compared by
          Field,         \* Field[p][key]: the value of a field, as a number
          Missing        \* the publication has no such field

Publications == 1 .. N

ASSUME NAssumption == N \in Nat
ASSUME MissingAssumption == Missing \notin Int
ASSUME FieldAssumption ==
    Field \in [Publications -> [SortKeys -> Int \cup {Missing}]]

(***************************************************************************)
(* One level of a sort command, as in year/D.  There are at most eight.    *)
(***************************************************************************)
SortLevel == [key : SortKeys, ascending : BOOLEAN]
MaxSortLevels == 8

Has(p, key) == Field[p][key] # Missing

(***************************************************************************)
(* -1, 0 or 1 by one field: publications without it come last.             *)
(***************************************************************************)
CompareField(p, q, key) ==
    IF Has(p, key) /\ Has(q, key)
    THEN IF Field[p][key] < Field[q][key] THEN -1
         ELSE IF Field[p][key] > Field[q][key] THEN 1 ELSE 0
    ELSE IF Has(q, key) THEN 1 ELSE IF Has(p, key) THEN -1 ELSE 0

(***************************************************************************)
(* A descending level turns the result around, also for missing fields.    *)
(***************************************************************************)
CompareLevel(p, q, level) ==
    IF level.ascending THEN CompareField(p, q, level.key)
                       ELSE -CompareField(p, q, level.key)

(***************************************************************************)
(* The first level that tells the publications apart decides.              *)
(***************************************************************************)
Decides(p, q, levels, i) ==
    /\ CompareLevel(p, q, levels[i]) # 0
    /\ \A j \in 1 .. i - 1 : CompareLevel(p, q, levels[j]) = 0

Before(p, q, levels) ==
    \E i \in DOMAIN levels :
        Decides(p, q, levels, i) /\ CompareLevel(p, q, levels[i]) = -1

(***************************************************************************)
(* What qsort() may leave in the array: a permutation of it in which no    *)
(* element comes before one that it follows in the order.  The order of    *)
(* publications that compare equal is not specified.                       *)
(***************************************************************************)
SortedBy(s, levels) ==
    \A i, j \in DOMAIN s : i < j => ~Before(s[j], s[i], levels)
=============================================================================
