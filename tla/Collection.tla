----------------------------- MODULE Collection -----------------------------
(***************************************************************************)
(* The life of one collection of publications, as sequences: publications  *)
(* wait to be put in front of it, from the last one to the first, and in   *)
(* the end freeNode() takes it apart from its head.  NodeList, which does  *)
(* this with the pointers of the code, implements this specification.      *)
(***************************************************************************)
EXTENDS BibNodes

VARIABLES pubs,     \* what makePublication() made of the file: never changes
          waiting, list

Init ==
    /\ pubs \in Seq(Node) \ {<<>>}
    /\ waiting = Front(pubs)
    /\ list = <<Last(pubs)>>

Add ==
    /\ waiting # <<>>
    /\ list' = MakePublicationCollection(Last(waiting), list)
    /\ waiting' = Front(waiting)
    /\ UNCHANGED pubs

FreeHead ==
    /\ waiting = <<>>
    /\ list # <<>>
    /\ list' = Tail(list)
    /\ UNCHANGED <<pubs, waiting>>

Next == Add \/ FreeHead

Spec == Init /\ [][Next]_<<pubs, waiting, list>>

UniqueKeywords == UniqueKeywordsIn(list)
=============================================================================
