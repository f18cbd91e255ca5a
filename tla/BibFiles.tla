------------------------------ MODULE BibFiles ------------------------------
(***************************************************************************)
(* The BibTeX files on a command line, and the publications that a file    *)
(* stands for, without regard to how they are parsed.                      *)
(***************************************************************************)
EXTENDS BibNodes

CONSTANTS Inputs   \* the command lines: sequences of files

Comment == "comment"
Broken  == "broken"

(***************************************************************************)
(* An item of kind Broken is no BibTeX.  A comment takes one line, a       *)
(* publication several of them.                                            *)
(***************************************************************************)
Item == [kind  : {"publication", Comment, Broken},
         label : Labels,
         value : Types,
         title : Titles \cup {NoTitle}]

(***************************************************************************)
(* A file: whether fopen() finds it, its items, and whether it ends inside *)
(* of a comment, without a newline.                                        *)
(***************************************************************************)
File == [found : BOOLEAN, items : Seq(Item), open : BOOLEAN]

ASSUME InputsAssumption ==
    \A files \in Inputs :
        /\ files \in Seq(File) \ {<<>>}
        /\ \A f \in DOMAIN files :
              files[f].open => /\ files[f].items # <<>>
                               /\ Last(files[f].items).kind = Comment

(***************************************************************************)
(* The number of items of a file that the scanner makes tokens of: a       *)
(* comment is one when its newline has been read.                          *)
(***************************************************************************)
Tokens(file) == IF file.open THEN Len(file.items) - 1 ELSE Len(file.items)

CommentsIn(file, n) == {j \in 1 .. n : file.items[j].kind = Comment}

(***************************************************************************)
(* The comments up to the i-th item of file f, from the first file on.     *)
(***************************************************************************)
CommentTokens(files, f, i) ==
    UNION {{g} \X CommentsIn(files[g], IF g < f THEN Tokens(files[g]) ELSE i) :
              g \in 1 .. f}

(***************************************************************************)
(* The publications of file f, in its order.  Comments are numbered from   *)
(* the first file on.                                                      *)
(***************************************************************************)
Publications(files, f) ==
    [i \in 1 .. Tokens(files[f]) |->
        LET item == files[f].items[i]
        IN  IF item.kind = Comment
            THEN [keyword |-> Cardinality(CommentTokens(files, f, i)),
                  value |-> CommentType, title |-> NoTitle, rest |-> <<f, i>>]
            ELSE [keyword |-> item.label, value |-> item.value,
                  title |-> item.title, rest |-> <<f, i>>]]
=============================================================================
