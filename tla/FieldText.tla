------------------------------ MODULE FieldText ------------------------------
(***************************************************************************)
(* What happens to the text of a field on its way from a BibTeX file into  *)
(* a node and back (scanner.ll, stringhandling.cc, unification.cc,         *)
(* publicationset.cc).  A text is a sequence of characters; these words    *)
(* count as a single character, because nothing looks into them:           *)
(*   \url, ieee (http://ieeexplore.ieee.org/), &isnumber=, ISBN (or ISSN)  *)
(***************************************************************************)
EXTENDS Integers, Sequences, SequencesExt

(***************************************************************************)
(* Where the quotation mark is that ends a quoted string, in a text that   *)
(* is followed by one; 0 if the scanner goes on into the rest of the file. *)
(***************************************************************************)
QuotedEnd(text) ==
    LET t == Append(text, "\"")
        end[i \in 1 .. Len(t) + 1, level \in -Len(t) .. Len(t)] ==
            IF i > Len(t) THEN 0
            ELSE CASE t[i] = "\\" /\ i < Len(t) /\ t[i + 1] = "\"" -> end[i + 2, level]
                   [] t[i] = "{"                -> end[i + 1, level + 1]
                   [] t[i] = "}"                -> end[i + 1, level - 1]
                   [] t[i] = "\"" /\ level <= 0 -> i
                   [] OTHER                     -> end[i + 1, level]
    IN  end[1, 0]

\* The same for a string in braces, that is followed by a closing brace
BracedEnd(text) ==
    LET t == Append(text, "}")
        end[i \in 1 .. Len(t) + 1, level \in 0 .. Len(t)] ==
            IF i > Len(t) THEN 0
            ELSE CASE t[i] = "{"               -> end[i + 1, level + 1]
                   [] t[i] = "}" /\ level = 1  -> i
                   [] t[i] = "}" /\ level # 1  -> end[i + 1, level - 1]
                   [] OTHER                    -> end[i + 1, level]
    IN  end[1, 1]

ReadsQuoted(text) == QuotedEnd(text) = Len(text) + 1
ReadsBraced(text) == BracedEnd(text) = Len(text) + 1

(***************************************************************************)
(* removeBrackets(): one pair of braces goes if it holds the whole text.   *)
(***************************************************************************)
ClosingBrace(text) ==
    LET at[i \in 2 .. Len(text) + 2, level \in 1 .. Len(text) + 1] ==
            IF i > Len(text) THEN 0
            ELSE CASE text[i] = "\\"             -> at[i + 2, level]
                   [] text[i] = "{"              -> at[i + 1, level + 1]
                   [] text[i] = "}" /\ level = 1 -> i
                   [] text[i] = "}" /\ level # 1 -> at[i + 1, level - 1]
                   [] OTHER                      -> at[i + 1, level]
    IN  at[2, 1]

RemoveBrackets(text) ==
    IF Len(text) > 1 /\ text[1] = "{" /\ ClosingBrace(text) = Len(text)
    THEN SubSeq(text, 2, Len(text) - 1)
    ELSE text

(***************************************************************************)
(* trim(): no space at the ends, and only one at a time in between.        *)
(***************************************************************************)
Trim(text) ==
    LET IsKept(i) == \/ text[i] # " "
                     \/ /\ i > 1 /\ text[i - 1] # " "
                        /\ \E j \in i + 1 .. Len(text) : text[j] # " "
    IN  FlattenSeq([i \in DOMAIN text |-> IF IsKept(i) THEN <<text[i]>> ELSE <<>>])

(***************************************************************************)
(* URLs in LaTeX: a backslash lets the next character be itself.           *)
(***************************************************************************)
LaTeXtoURL(text) ==
    LET Char(c) == IF c = " " THEN <<"%", "2", "0">> ELSE <<c>>
        from[i \in 1 .. Len(text) + 1, isPrefixed \in BOOLEAN] ==
            IF i > Len(text) THEN <<>>
            ELSE CASE ~isPrefixed /\ text[i] = "\\"   -> from[i + 1, TRUE]
                   [] ~isPrefixed /\ text[i] = "\\url" -> <<"url">> \o from[i + 1, FALSE]
                   [] OTHER -> Char(text[i]) \o from[i + 1, FALSE]
    IN  from[1, FALSE]

URLToLaTeX(text) ==
    FlattenSeq([i \in DOMAIN text |->
                   IF text[i] = "%" THEN <<"\\", "%">> ELSE <<text[i]>>])

URLCommand(text) == <<"\\url", "{">> \o text \o <<"}">>

WithoutURLCommand(text) ==
    IF Len(text) > 2 /\ SubSeq(text, 1, 2) = <<"\\url", "{">> /\ Last(text) = "}"
    THEN SubSeq(text, 3, Len(text) - 1)
    ELSE text

WithIsNumber(text) ==
    IF text # <<>> /\ text[1] = "ieee" /\ ~Contains(text, "&isnumber=")
    THEN Append(text, "&isnumber=")
    ELSE text

\* Mutant of UnifyURL: LaTeX remains in the URL.
UnifyURLKeepsLaTeX(text) == WithIsNumber(WithoutURLCommand(text))

UnifyURL(text) == LaTeXtoURL(WithIsNumber(WithoutURLCommand(text)))

UnifyBookTitle(text) ==
    [i \in DOMAIN text |->
        IF text[i] = " " /\ i < Len(text) /\ text[i + 1] = "(" THEN "~" ELSE text[i]]

\* The notes that the options about ISBN and ISSN are for
IsNumberNote(text) ==
    \/ text # <<>> /\ text[1] = "ISBN"
    \/ Len(text) >= 3 /\ SubSeq(text, 1, 3) = <<"{", "ISBN", "}">>
=============================================================================
