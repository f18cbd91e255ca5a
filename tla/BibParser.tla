----------------------------- MODULE BibParser -----------------------------
(***************************************************************************)
(* Reading the BibTeX files: the loop over the file arguments in main()    *)
(* (bibtexconv.cc), the parser that bison generates from grammar.yy, as    *)
(* far as the order of its reductions goes, and makePublication() and      *)
(* makePublicationCollection() (node.cc), which the reductions call.       *)
(*                                                                         *)
(* publicationCollection is right recursive: the parser reduces one        *)
(* publication after the other from the front of the file and leaves all   *)
(* of them on its stack; the collection is only built when the end of the  *)
(* file is reached, from the last publication to the first.                *)
(*                                                                         *)
(* Scanner state that outlives a file (the COMMENT start condition) and    *)
(* the limit of the parser's stack are part of the model; the fields of a  *)
(* publication are not (see BibNodes).                                     *)
(***************************************************************************)
EXTENDS BibFiles

CONSTANTS PublicationWidth,  \* stack slots of a publication not yet reduced
          MaxDepth           \* stack slots that the parser has (YYMAXDEPTH)

ASSUME DepthAssumption == PublicationWidth \in Nat \ {0} /\ MaxDepth \in Nat

VARIABLES
    files,         \* argv[optind..]: never changes
    fileNo,        \* the file being parsed, 0 before the first one
    next,          \* the item the scanner reaches next
    inComment,     \* the start condition COMMENT is on as the file begins
    commentLabel,  \* makePublication()'s static counter
    stack,         \* publications on the parser's stack
    coll,          \* the collection at the top of the parser's stack
    bibTeXFile,    \* the global of this name
    phase          \* where main()'s loop and yyparse() are

vars == <<files, fileNo, next, inComment, commentLabel, stack, coll,
          bibTeXFile, phase>>

Phases == {"open", "scan", "reduce", "parsed", "failed"}

Items    == files[fileNo].items
NextItem == Items[next]
LastItem == Tokens(files[fileNo])

HasItem == phase = "scan" /\ next <= LastItem

Init ==
    /\ files \in Inputs
    /\ fileNo = 0
    /\ next = 1
    /\ inComment = FALSE
    /\ commentLabel = 0
    /\ stack = <<>>
    /\ coll = <<>>
    /\ bibTeXFile = <<>>
    /\ phase = "open"

-----------------------------------------------------------------------------
(***************************************************************************)
(* main(): fopen() of the next argument, then yyparse().                   *)
(***************************************************************************)
OpenFile ==
    /\ phase = "open"
    /\ files[fileNo + 1].found
    /\ fileNo' = fileNo + 1
    /\ next' = 1
    /\ stack' = <<>>
    /\ coll' = <<>>
    /\ phase' = "scan"
    /\ UNCHANGED <<files, inComment, commentLabel, bibTeXFile>>

\* exit(1) on the spot
OpenFails ==
    /\ phase = "open"
    /\ ~files[fileNo + 1].found
    /\ fileNo' = fileNo + 1
    /\ phase' = "failed"
    /\ UNCHANGED <<files, next, inComment, commentLabel, stack, coll,
                   bibTeXFile>>

(***************************************************************************)
(* Each publication that waits on the stack takes a slot of it.            *)
(***************************************************************************)
Width(item) == IF item.kind = Comment THEN 1 ELSE PublicationWidth

\* Mutant of Fits: the publications that wait do not count.
FitsAlone(item) == Width(item) <= MaxDepth

Fits(item) == Len(stack) + Width(item) <= MaxDepth

Reduced(node) ==
    /\ stack' = Append(stack, node)
    /\ next' = next + 1
    /\ inComment' = FALSE
    /\ UNCHANGED <<files, fileNo, coll, bibTeXFile, phase>>

CommentNode(n) ==
    [keyword |-> n, value |-> CommentType, title |-> NoTitle,
     rest |-> <<fileNo, next>>]

PublicationNode ==
    [keyword |-> NextItem.label, value |-> NextItem.value,
     title |-> NextItem.title, rest |-> <<fileNo, next>>]

\* Mutant of MakeComment: the counter runs down.
MakeCommentDown ==
    /\ HasItem
    /\ NextItem.kind = Comment
    /\ Fits(NextItem)
    /\ commentLabel' = commentLabel - 1
    /\ Reduced(CommentNode(commentLabel))

(***************************************************************************)
(* makePublication("Comment", ...).  A comment left open by the file       *)
(* before and the first line of this one are one comment.                  *)
(***************************************************************************)
MakeComment ==
    /\ HasItem
    /\ NextItem.kind = Comment
    /\ Fits(NextItem)
    /\ commentLabel' = commentLabel + 1
    /\ Reduced(CommentNode(commentLabel + 1))

MakePublication ==
    /\ HasItem
    /\ NextItem.kind = "publication"
    /\ ~inComment
    /\ Fits(NextItem)
    /\ Reduced(PublicationNode)
    /\ UNCHANGED commentLabel

(***************************************************************************)
(* yyparse() returns 1 on a syntax error: an item that is no BibTeX, a     *)
(* publication whose first line went into the comment left open by the     *)
(* file before, or a file without any publication.                         *)
(***************************************************************************)
SyntaxError ==
    /\ \/ /\ HasItem
          /\ NextItem.kind = Broken \/ (NextItem.kind # Comment /\ inComment)
       \/ /\ phase = "scan"
          /\ next > LastItem
          /\ stack = <<>>
    /\ phase' = "failed"
    /\ UNCHANGED <<files, fileNo, next, inComment, commentLabel, stack, coll,
                   bibTeXFile>>

\* "memory exhausted": yyparse() returns 2
MemoryExhausted ==
    /\ HasItem
    /\ ~Fits(NextItem)
    /\ phase' = "failed"
    /\ UNCHANGED <<files, fileNo, next, inComment, commentLabel, stack, coll,
                   bibTeXFile>>

(***************************************************************************)
(* publicationCollection: publication, at the end of the file.             *)
(***************************************************************************)
StartCollection ==
    /\ phase = "scan"
    /\ next > LastItem
    /\ stack # <<>>
    /\ coll' = <<Last(stack)>>
    /\ stack' = Front(stack)
    /\ inComment' = files[fileNo].open
    /\ phase' = "reduce"
    /\ UNCHANGED <<files, fileNo, next, commentLabel, bibTeXFile>>

\* Mutant of ReduceCollection: the publication stays on the stack.
ReduceCollectionKeepsStack ==
    /\ phase = "reduce"
    /\ stack # <<>>
    /\ coll' = MakePublicationCollection(Last(stack), coll)
    /\ UNCHANGED <<files, fileNo, next, inComment, commentLabel, stack,
                   bibTeXFile, phase>>

(***************************************************************************)
(* publicationCollection: publication publicationCollection.               *)
(***************************************************************************)
ReduceCollection ==
    /\ phase = "reduce"
    /\ stack # <<>>
    /\ coll' = MakePublicationCollection(Last(stack), coll)
    /\ stack' = Front(stack)
    /\ UNCHANGED <<files, fileNo, next, inComment, commentLabel, bibTeXFile,
                   phase>>

(***************************************************************************)
(* bibTeXFile: publicationCollection.  The global is overwritten, whatever *)
(* an earlier file put there.                                              *)
(***************************************************************************)
Accept ==
    /\ phase = "reduce"
    /\ stack = <<>>
    /\ bibTeXFile' = coll
    /\ phase' = IF fileNo = Len(files) THEN "parsed" ELSE "open"
    /\ UNCHANGED <<files, fileNo, next, inComment, commentLabel, stack, coll>>

Finished == phase \in {"parsed", "failed"} /\ UNCHANGED vars

Next ==
    \/ OpenFile \/ OpenFails
    \/ MakeComment \/ MakePublication \/ SyntaxError \/ MemoryExhausted
    \/ StartCollection \/ ReduceCollection \/ Accept
    \/ Finished

Spec == Init /\ [][Next]_vars

(***************************************************************************)
(* The program is one process that never waits while it parses.            *)
(***************************************************************************)
FairSpec == Spec /\ WF_vars(Next)

-----------------------------------------------------------------------------
TypeOK ==
    /\ files \in Seq(File) \ {<<>>}
    /\ fileNo \in 0 .. Len(files)
    /\ next \in Nat \ {0}
    /\ inComment \in BOOLEAN
    /\ commentLabel \in Nat
    /\ stack \in Seq(Node)
    /\ coll \in Seq(Node)
    /\ bibTeXFile \in Seq(Node)
    /\ phase \in Phases

(***************************************************************************)
(* While the parser works backwards through its stack, the collection is   *)
(* the merge of the publications that it has taken off the stack, and what *)
(* is still on the stack is the front of the file.  Comments take part     *)
(* under their numbers (makePublicationCollection() does not look at the   *)
(* type).                                                                  *)
(***************************************************************************)
CollectionIsMerge ==
    phase = "reduce" =>
       LET pubs == Publications(files, fileNo)
       IN  /\ stack = SubSeq(pubs, 1, Len(stack))
           /\ IsMergeOf(coll, SubSeq(pubs, Len(stack) + 1, Len(pubs)))

(***************************************************************************)
(* Which command lines the program can read at all: every file is there,   *)
(* holds a publication or a comment and nothing that is no BibTeX, does    *)
(* not begin with a publication when the file before it ends in a comment  *)
(* without a newline, and never needs more than the parser's stack, on     *)
(* which all publications of a file wait for the last one.                 *)
(***************************************************************************)
Readable(f) ==
    LET items == files[f].items
        made  == Tokens(files[f])
    IN  /\ files[f].found
        /\ made > 0
        /\ \A i \in 1 .. made :
              /\ items[i].kind # Broken
              /\ i - 1 + Width(items[i]) <= MaxDepth
        /\ f > 1 /\ files[f - 1].open => items[1].kind = Comment

OutcomeFollowsInput ==
    /\ phase = "parsed" => \A f \in DOMAIN files : Readable(f)
    /\ phase = "failed" => /\ ~Readable(fileNo)
                           /\ \A f \in 1 .. fileNo - 1 : Readable(f)

(***************************************************************************)
(* Reading a file one publication at a time implements BibCatalog.         *)
(***************************************************************************)
Loaded == IF phase \in {"open", "parsed"} THEN fileNo
          ELSE IF fileNo = 0 THEN 0 ELSE fileNo - 1

Catalog == INSTANCE BibCatalog WITH loaded <- Loaded, catalog <- bibTeXFile

ImplementsCatalog == Catalog!Spec

(***************************************************************************)
(* The program reads its files to the end or gives up.                     *)
(***************************************************************************)
ParsingEnds == <>(phase \in {"parsed", "failed"})

(***************************************************************************)
(* bibtexconv.1:95, of the file arguments: "Multiple files may be          *)
(* provided."  Once they all have been read, the publications of each of   *)
(* them are there.                                                         *)
(***************************************************************************)
AllFilesProvide ==
    phase = "parsed" =>
       \A f \in DOMAIN files :
          \A i \in DOMAIN Publications(files, f) :
             Publications(files, f)[i].keyword \in KeywordsOf(bibTeXFile)

(***************************************************************************)
(* node.cc:177, of an entry with a keyword that occurs again: "NOTE:       *)
(* Duplicate entry %s, only keeping the latest one!".  The entry that is   *)
(* kept is the latest one, in its type as well as in its fields.           *)
(***************************************************************************)
LatestIsKept ==
    phase = "parsed" =>
       LET pubs == Publications(files, Len(files))
       IN  \A i \in DOMAIN bibTeXFile, p \in DOMAIN pubs :
              pubs[p].keyword = bibTeXFile[i].keyword /\ IsLatest(pubs, p)
              => /\ bibTeXFile[i].rest = pubs[p].rest
                 /\ bibTeXFile[i].value = pubs[p].value
=============================================================================
