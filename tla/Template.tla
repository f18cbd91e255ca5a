------------------------------ MODULE Template ------------------------------
(***************************************************************************)
(* PublicationSet::applyTemplate() (publicationset.cc): what a printing    *)
(* template writes for one publication.  The interpreter goes through the  *)
(* template once, from left to right; what is written in vain is erased    *)
(* again at the end of its block.                                          *)
(*                                                                         *)
(* A template is a sequence of tokens, each of which is one character or   *)
(* one %{...} placeholder of the code.  What is written is the sequence of *)
(* the tokens that wrote it, with the author that the loop was at.         *)
(***************************************************************************)
EXTENDS Integers, Sequences, FiniteSets

CONSTANTS Templates,   \* printing templates
          MaxAuthors   \* bound on the authors of a publication

Opening == {"[", "("}
Closing == {"]", ")"}
AuthorTests == {"is-first-author?", "is-not-first-author?",
                "is-last-author?", "is-not-last-author?"}

(***************************************************************************)
(* text is a character or a placeholder for a field that is there, missing *)
(* one for a field that is not.  "is-not?" compares with the empty string. *)
(* The mapping of "map" has every key but the empty string.                *)
(***************************************************************************)
Token == Opening \cup Closing \cup AuthorTests \cup
         {"|", "text", "missing", "author", "is-not?", "map", "begin", "end"}

ASSUME TemplatesAssumption  == Templates \subseteq Seq(Token)
ASSUME MaxAuthorsAssumption == MaxAuthors \in Nat

VARIABLES
    printingTemplate,
    authors,       \* the authors of the publication; 0 without the field
    i,             \* the token that is next
    result,        \* what has been written
    stack,         \* the blocks that are open: where they began, and skip
    skip,          \* what is written now will be erased
    author,        \* author # nullptr: a loop is at an author
    authorIndex,   \* the author that it is at
    authorBegin,   \* where the loop began, 0 for npos
    phase          \* "running", "done", "exited" or "undefined"

vars == <<printingTemplate, authors, i, result, stack, skip, author,
          authorIndex, authorBegin, phase>>

Init ==
    /\ printingTemplate \in Templates
    /\ authors \in 0 .. MaxAuthors
    /\ i = 1
    /\ result = <<>>
    /\ stack = <<>>
    /\ skip = FALSE
    /\ author = FALSE
    /\ authorIndex = 0
    /\ authorBegin = 0
    /\ phase = "running"

At(tokens) ==
    /\ phase = "running"
    /\ i <= Len(printingTemplate)
    /\ printingTemplate[i] \in tokens

Top == stack[Len(stack)]
Pop == SubSeq(stack, 1, Len(stack) - 1)

\* result.erase(entry.pos) and result.substr(entry.pos)
Erased  == SubSeq(result, 1, Top.pos)
Written == SubSeq(result, Top.pos + 1, Len(result))

Here == <<i, authorIndex>>

GoOn == i' = i + 1 /\ UNCHANGED <<printingTemplate, authors, phase>>

LoopUnchanged == UNCHANGED <<author, authorIndex, authorBegin>>

-----------------------------------------------------------------------------
(***************************************************************************)
(* Characters and placeholders.                                            *)
(***************************************************************************)
Write ==
    /\ At({"text"}) \/ (At({"author"}) /\ author)
    /\ result' = Append(result, Here)
    /\ GoOn /\ LoopUnchanged
    /\ UNCHANGED <<stack, skip>>

\* Outside of a loop, and without authors, there is no name to write
NoAuthor ==
    /\ At({"author"}) /\ ~author
    /\ GoOn /\ LoopUnchanged
    /\ UNCHANGED <<result, stack, skip>>

Missing ==
    /\ At({"missing"})
    /\ skip' = TRUE
    /\ GoOn /\ LoopUnchanged
    /\ UNCHANGED <<result, stack>>

Holds(test, hasAuthor, index, last) ==
    CASE test = "is-first-author?"     -> index = 0
      [] test = "is-not-first-author?" -> hasAuthor /\ index > 0
      [] test = "is-last-author?"      -> hasAuthor /\ last
      [] test = "is-not-last-author?"  -> ~(hasAuthor /\ last)

TestAuthor ==
    /\ At(AuthorTests)
    /\ skip' = (skip \/ ~Holds(printingTemplate[i], author, authorIndex,
                               authorIndex + 1 >= authors))
    /\ GoOn /\ LoopUnchanged
    /\ UNCHANGED <<result, stack>>

(***************************************************************************)
(* What has been written in this block is compared, and erased.            *)
(***************************************************************************)
\* Mutant of Test: all that has been written is erased.
TestErasesAll ==
    /\ At({"is-not?"}) /\ stack # <<>>
    /\ skip' = (skip \/ Written = <<>>)
    /\ result' = <<>>
    /\ GoOn /\ LoopUnchanged
    /\ UNCHANGED stack

Test ==
    /\ At({"is-not?"}) /\ stack # <<>>
    /\ skip' = (skip \/ Written = <<>>)
    /\ result' = Erased
    /\ GoOn /\ LoopUnchanged
    /\ UNCHANGED stack

(***************************************************************************)
(* What has been written in this block is replaced by what it maps to.     *)
(* Here skip is set without regard to what it was before.                  *)
(***************************************************************************)
MapWritten ==
    /\ At({"map"}) /\ stack # <<>>
    /\ skip' = (Written = <<>>)
    /\ result' = IF Written = <<>> THEN result ELSE Append(Erased, Here)
    /\ GoOn /\ LoopUnchanged
    /\ UNCHANGED stack

\* stack.back() of an empty vector: undefined behaviour
NoBlock ==
    /\ At({"is-not?", "map"}) /\ stack = <<>>
    /\ phase' = "undefined"
    /\ LoopUnchanged
    /\ UNCHANGED <<printingTemplate, authors, i, result, stack, skip>>

-----------------------------------------------------------------------------
(***************************************************************************)
(* The author loop.  authorBegin is never reset: a template may have one.  *)
(***************************************************************************)
Exit ==
    /\ phase' = "exited"
    /\ LoopUnchanged
    /\ UNCHANGED <<printingTemplate, authors, i, result, stack, skip>>

BeginAuthorLoop ==
    /\ At({"begin"})
    /\ authorBegin = 0
    /\ author' = (authors > 0)
    /\ authorIndex' = 0
    /\ authorBegin' = i
    /\ GoOn
    /\ UNCHANGED <<result, stack, skip>>

\* Mutant of NextAuthor: the loop stays at its author.
NextAuthorStays ==
    /\ At({"end"}) /\ authorBegin # 0
    /\ author /\ authorIndex + 1 < authors
    /\ authorIndex' = authorIndex
    /\ i' = authorBegin + 1
    /\ UNCHANGED <<printingTemplate, authors, phase, author, authorBegin,
                   result, stack, skip>>

\* Mutant of NextAuthor: off by one, it goes back to before the loop.
NextAuthorBefore ==
    /\ At({"end"}) /\ authorBegin # 0
    /\ author /\ authorIndex + 1 < authors
    /\ authorIndex' = authorIndex + 1
    /\ i' = authorBegin - 1
    /\ UNCHANGED <<printingTemplate, authors, phase, author, authorBegin,
                   result, stack, skip>>

\* Mutant of NextAuthor: one author too many.
NextAuthorTooFar ==
    /\ At({"end"}) /\ authorBegin # 0
    /\ author /\ authorIndex < authors
    /\ authorIndex' = authorIndex + 1
    /\ i' = authorBegin + 1
    /\ UNCHANGED <<printingTemplate, authors, phase, author, authorBegin,
                   result, stack, skip>>

NextAuthor ==
    /\ At({"end"}) /\ authorBegin # 0
    /\ author /\ authorIndex + 1 < authors
    /\ authorIndex' = authorIndex + 1
    /\ i' = authorBegin + 1
    /\ UNCHANGED <<printingTemplate, authors, phase, author, authorBegin,
                   result, stack, skip>>

EndAuthorLoop ==
    /\ At({"end"}) /\ authorBegin # 0
    /\ ~(author /\ authorIndex + 1 < authors)
    /\ author' = FALSE
    /\ authorIndex' = 0
    /\ GoOn
    /\ UNCHANGED <<authorBegin, result, stack, skip>>

BadAuthorLoop ==
    /\ \/ At({"begin"}) /\ authorBegin # 0
       \/ At({"end"}) /\ authorBegin = 0
    /\ Exit

-----------------------------------------------------------------------------
(***************************************************************************)
(* Blocks.                                                                 *)
(***************************************************************************)
OpenBlock ==
    /\ At(Opening)
    /\ skip' = (stack # <<>> /\ skip)
    /\ stack' = Append(stack, [pos |-> Len(result), skip |-> skip'])
    /\ GoOn /\ LoopUnchanged
    /\ UNCHANGED result

(***************************************************************************)
(* A [...] that failed leaves skip as it was before, a (...) leaves it on. *)
(***************************************************************************)
\* Mutant of CloseBlock: skip is reset for both kinds of blocks.
CloseBlockContains ==
    /\ At(Closing) /\ stack # <<>>
    /\ stack' = Pop
    /\ IF skip
       THEN /\ result' = Erased
            /\ skip' = Top.skip
       ELSE UNCHANGED <<result, skip>>
    /\ GoOn /\ LoopUnchanged

CloseBlock ==
    /\ At(Closing) /\ stack # <<>>
    /\ stack' = Pop
    /\ IF skip
       THEN /\ result' = Erased
            /\ skip' = (printingTemplate[i] = "]" => Top.skip)
       ELSE UNCHANGED <<result, skip>>
    /\ GoOn /\ LoopUnchanged

\* The alternative before this | failed
TryAlternative ==
    /\ At({"|"}) /\ stack # <<>>
    /\ skip
    /\ result' = Erased
    /\ skip' = Top.skip
    /\ GoOn /\ LoopUnchanged
    /\ UNCHANGED stack

(***************************************************************************)
(* The ] of the block that this | is in.  ( and ) are not looked at.       *)
(***************************************************************************)
Count(token, from, to) ==
    Cardinality({j \in from .. to : printingTemplate[j] = token})

EndsBlock(j) ==
    /\ printingTemplate[j] = "]"
    /\ Count("]", i, j) = Count("[", i, j) + 1

\* Mutant of EndOfBlock: the first ] there is.
EndOfBlockNext ==
    LET ends == {j \in i .. Len(printingTemplate) : printingTemplate[j] = "]"}
    IN  IF ends = {} THEN Len(printingTemplate)
                     ELSE CHOOSE j \in ends : \A k \in ends : j <= k

EndOfBlock ==
    LET ends == {j \in i .. Len(printingTemplate) : EndsBlock(j)}
    IN  IF ends = {} THEN Len(printingTemplate)
                     ELSE CHOOSE j \in ends : \A k \in ends : j <= k

\* It did not: the ones behind it are skipped
SkipAlternatives ==
    /\ At({"|"}) /\ stack # <<>>
    /\ ~skip
    /\ skip' = Top.skip
    /\ stack' = Pop
    /\ i' = EndOfBlock + 1
    /\ LoopUnchanged
    /\ UNCHANGED <<printingTemplate, authors, phase, result>>

NoBlockToEnd ==
    /\ At(Closing \cup {"|"}) /\ stack = <<>>
    /\ Exit

-----------------------------------------------------------------------------
EndOfTemplate ==
    /\ phase = "running"
    /\ i > Len(printingTemplate)
    /\ phase' = "done"
    /\ LoopUnchanged
    /\ UNCHANGED <<printingTemplate, authors, i, result, stack, skip>>

Finished == phase # "running" /\ UNCHANGED vars

Next ==
    \/ Write \/ NoAuthor \/ Missing \/ TestAuthor \/ Test \/ MapWritten \/ NoBlock
    \/ BeginAuthorLoop \/ NextAuthor \/ EndAuthorLoop \/ BadAuthorLoop
    \/ OpenBlock \/ CloseBlock \/ TryAlternative \/ SkipAlternatives
    \/ NoBlockToEnd
    \/ EndOfTemplate \/ Finished

Spec == Init /\ [][Next]_vars

(***************************************************************************)
(* applyTemplate() does not wait for anything (that exec runs a program is *)
(* not modelled).                                                          *)
(***************************************************************************)
FairSpec == Spec /\ WF_vars(Next)

-----------------------------------------------------------------------------
TypeOK ==
    /\ printingTemplate \in Seq(Token)
    /\ authors \in Nat
    /\ i \in Nat \ {0}
    /\ result \in Seq(Nat \X Nat)
    /\ stack \in Seq([pos : Nat, skip : BOOLEAN])
    /\ skip \in BOOLEAN
    /\ author \in BOOLEAN
    /\ authorIndex \in Nat
    /\ authorBegin \in Nat
    /\ phase \in {"running", "done", "exited", "undefined"}

(***************************************************************************)
(* Every block that is open began within what has been written, and no     *)
(* later than the blocks inside of it: whatever the template, erase() and  *)
(* substr() never throw, and erasing a block leaves the ones around it as  *)
(* they were.                                                              *)
(***************************************************************************)
StackIsSound ==
    /\ \A k \in DOMAIN stack : stack[k].pos <= Len(result)
    /\ \A k, m \in DOMAIN stack : k <= m => stack[k].pos <= stack[m].pos

(***************************************************************************)
(* Names are only written for authors that the publication has: while a    *)
(* loop is at an author, its index is one of the field's.                  *)
(***************************************************************************)
AuthorIsThere ==
    /\ author => authorIndex < authors
    /\ ~author => authorIndex = 0

(***************************************************************************)
(* Whatever the template, also where it jumps back, its end is reached.    *)
(***************************************************************************)
TemplateEnds == <>(phase # "running")
=============================================================================
