---------------------------- MODULE MCBibParser ----------------------------
(***************************************************************************)
(* Command lines for TLC: every single file of up to MaxItems items, and   *)
(* every pair and every triple of the small files.                         *)
(***************************************************************************)
EXTENDS BibParser

CONSTANTS Article, Book, t1, t2, MaxItems, MaxSmall

Publication(label, value, title) ==
    [kind |-> "publication", label |-> label, value |-> value, title |-> title]

Other(kind) ==
    [kind |-> kind, label |-> 10, value |-> Article, title |-> NoTitle]

AllItems ==
    {Publication(l, v, t) : l \in Labels, v \in Types, t \in Titles \cup {NoTitle}}
        \cup {Other(Comment), Other(Broken)}

SmallItems ==
    {Publication(l, Article, t1) : l \in Labels} \cup {Other(Comment), Other(Broken)}

FilesOf(items, n) ==
    {f \in [found : {TRUE}, items : BoundedSeq(items, n), open : BOOLEAN] :
        f.open => f.items # <<>> /\ Last(f.items).kind = Comment}

NoFile == [found |-> FALSE, items |-> <<>>, open |-> FALSE]

SmallFiles == FilesOf(SmallItems, MaxSmall) \cup {NoFile}

MCInputs ==
    {<<f>> : f \in FilesOf(AllItems, MaxItems)}
        \cup {<<f, g>> : f \in SmallFiles, g \in SmallFiles}
        \cup {<<f, g, h>> : f \in FilesOf(SmallItems, 1), g \in SmallFiles,
                            h \in FilesOf(SmallItems, 1)}
=============================================================================
