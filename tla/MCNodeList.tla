----------------------------- MODULE MCNodeList -----------------------------
(***************************************************************************)
(* Every file of up to MaxPublications publications with three keywords;   *)
(* each publication has no title or one of its own.                        *)
(***************************************************************************)
EXTENDS NodeList

CONSTANTS Article, MaxPublications

MCTitles == 1 .. MaxPublications

MCPublished ==
    UNION {{[i \in 1 .. n |->
                [keyword |-> ks[i], value |-> Article,
                 title |-> IF titled[i] THEN i ELSE NoTitle, rest |-> <<1, i>>]] :
               ks \in [1 .. n -> Labels], titled \in [1 .. n -> BOOLEAN]} :
           n \in 1 .. MaxPublications}
=============================================================================
