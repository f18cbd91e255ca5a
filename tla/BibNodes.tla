------------------------------ MODULE BibNodes ------------------------------
(***************************************************************************)
(* Publications as the parser of bibtexconv keeps them (struct Node in     *)
(* node.h), the operation that puts one more publication in front of a     *)
(* collection (makePublicationCollection() in node.cc), and what the       *)
(* collection of a whole BibTeX file is meant to be, stated without any    *)
(* reference to the order in which the parser builds it.                   *)
(*                                                                         *)
(* A collection is a sequence of nodes here; NodeList.tla keeps the same   *)
(* collection as the doubly linked list of the code.                       *)
(***************************************************************************)
EXTENDS Integers, Sequences, FiniteSets, SequencesExt

CONSTANTS Labels,       \* the keywords an author gives to publications
          Types,        \* the entry types of publications: Article, Book, ...
          Titles,       \* title texts
          NoTitle,      \* a publication without a "title" field
          CommentType   \* the type of the node made from a % comment

(***************************************************************************)
(* Keywords are numbers: n stands for the decimal text of n, the keyword   *)
(* that the n-th comment gets.  An author's label outside of the numbers   *)
(* that the comment counter reaches stands for a label that is not the     *)
(* text of a number.                                                       *)
(***************************************************************************)
ASSUME LabelsAssumption  == Labels \subseteq Nat \ {0}
ASSUME TypesAssumption   == CommentType \notin Types
ASSUME TitlesAssumption  == NoTitle \notin Titles

Sources == Nat \X Nat    \* where fields were written: file and item in it

(***************************************************************************)
(* A node: keyword, entry type (Node::value), and its child list, of which *)
(* the title is kept apart and the other fields are named by the place     *)
(* where they were written.                                                *)
(***************************************************************************)
Node == [keyword : Nat,
         value   : Types \cup {CommentType},
         title   : Titles \cup {NoTitle},
         rest    : Sources]

(***************************************************************************)
(* The title of the reused node: both have one, so the old one is kept.    *)
(***************************************************************************)
KeptTitle(old, new) ==
    IF old.title # NoTitle /\ new.title # NoTitle THEN old.title ELSE new.title

(***************************************************************************)
(* The old node at the head takes over the fields of the newer node n, but *)
(* not its entry type.                                                     *)
(***************************************************************************)
Reuse(old, new) ==
    [old EXCEPT !.title = KeptTitle(old, new), !.rest = new.rest]

SameKeyword(node2, k) == {i \in DOMAIN node2 : node2[i].keyword = k}

FirstWithKeyword(node2, k) ==
    CHOOSE i \in SameKeyword(node2, k) : \A j \in SameKeyword(node2, k) : i <= j

Without(node2, i) ==
    [j \in 1 .. Len(node2) - 1 |-> IF j < i THEN node2[j] ELSE node2[j + 1]]

(***************************************************************************)
(* Mutants of MakePublicationCollection: the walk along the list finds     *)
(* nothing, or the newer node stays where it is.                           *)
(***************************************************************************)
MakePublicationCollectionKeepsBoth(node1, node2) == <<node1>> \o node2

MakePublicationCollectionAtOldPlace(node1, node2) ==
    IF SameKeyword(node2, node1.keyword) = {}
    THEN <<node1>> \o node2
    ELSE LET i == FirstWithKeyword(node2, node1.keyword)
         IN  [node2 EXCEPT ![i] = Reuse(node1, node2[i])]

(***************************************************************************)
(* makePublicationCollection(): node1 was written before everything in     *)
(* node2.  A publication of node2 with the same keyword gives its fields   *)
(* to node1 and leaves the list; node1 becomes the head.                   *)
(***************************************************************************)
MakePublicationCollection(node1, node2) ==
    IF SameKeyword(node2, node1.keyword) = {}
    THEN <<node1>> \o node2
    ELSE LET i == FirstWithKeyword(node2, node1.keyword)
         IN  <<Reuse(node1, node2[i])>> \o Without(node2, i)

KeywordsOf(list) == {list[i].keyword : i \in DOMAIN list}

-----------------------------------------------------------------------------
(***************************************************************************)
(* What a collection is meant to be, for the publications pubs in the      *)
(* order of the file: one node per keyword, in the order in which the      *)
(* keywords first occur, each with the type of its first occurrence, the   *)
(* fields of its latest one and, when that has a title, the title of the   *)
(* first occurrence that has one.                                          *)
(***************************************************************************)
UniqueKeywordsIn(list) ==
    \A i, j \in DOMAIN list : list[i].keyword = list[j].keyword => i = j

IsFirst(pubs, f) ==
    \A j \in DOMAIN pubs : pubs[j].keyword = pubs[f].keyword => f <= j

IsLatest(pubs, l) ==
    \A j \in DOMAIN pubs : pubs[j].keyword = pubs[l].keyword => j <= l

IsFirstTitled(pubs, t) ==
    /\ pubs[t].title # NoTitle
    /\ \A j \in DOMAIN pubs :
          pubs[j].keyword = pubs[t].keyword /\ pubs[j].title # NoTitle => t <= j

IsTitleOf(title, pubs, l) ==
    IF pubs[l].title = NoTitle
    THEN title = NoTitle
    ELSE \E t \in DOMAIN pubs : /\ pubs[t].keyword = pubs[l].keyword
                                /\ IsFirstTitled(pubs, t)
                                /\ title = pubs[t].title

IsMergeOfKeyword(node, pubs) ==
    \E f, l \in DOMAIN pubs :
        /\ IsFirst(pubs, f) /\ pubs[f].keyword = node.keyword
        /\ IsLatest(pubs, l) /\ pubs[l].keyword = node.keyword
        /\ node.value = pubs[f].value
        /\ node.rest = pubs[l].rest
        /\ IsTitleOf(node.title, pubs, l)

InOrderOf(list, pubs) ==
    \A i, j \in DOMAIN list, f, g \in DOMAIN pubs :
        /\ i < j
        /\ IsFirst(pubs, f) /\ pubs[f].keyword = list[i].keyword
        /\ IsFirst(pubs, g) /\ pubs[g].keyword = list[j].keyword
        => f < g

IsMergeOf(list, pubs) ==
    /\ UniqueKeywordsIn(list)
    /\ \A p \in DOMAIN pubs :
          \E i \in DOMAIN list : list[i].keyword = pubs[p].keyword
    /\ \A i \in DOMAIN list : IsMergeOfKeyword(list[i], pubs)
    /\ InOrderOf(list, pubs)
=============================================================================
