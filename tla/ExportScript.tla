---------------------------- MODULE ExportScript ----------------------------
(***************************************************************************)
(* The interactive mode of bibtexconv: handleInput() (bibtexconv.cc) reads *)
(* commands from standard input and from the files that they include, and  *)
(* selects, sorts and exports publications with a PublicationSet           *)
(* (publicationset.cc).                                                    *)
(*                                                                         *)
(* Publications are named by their places 1 .. N in bibTeXFile: keywords   *)
(* are unique there (BibParser), so that findNode() finds the one that a   *)
(* command names, or none.  What a line holds is chosen as it is read;     *)
(* only its effect on the selection, the anchors, the error count and the  *)
(* nesting of files is modelled.                                           *)
(***************************************************************************)
EXTENDS PublicationOrder, SequencesExt

CONSTANTS SortCommands,     \* the levels that a sort command may give
          GivenAnchors,     \* texts that a cite command may give as an anchor
          KeywordOf,        \* KeywordOf[p]: the keyword of publication p
          EmptyText,        \* the text of an anchor that has not been set
          MaxLevel,         \* the deepest level that may include a file: 9
          MaxLines          \* bound on the lines of each file

ASSUME BoundsAssumption == MaxLevel \in Nat /\ MaxLines \in Nat
ASSUME SortCommandsAssumption ==
    \A levels \in SortCommands :
        levels \in Seq(SortLevel) /\ Len(levels) <= MaxSortLevels
ASSUME KeywordsAssumption ==
    \A p, q \in Publications : KeywordOf[p] = KeywordOf[q] => p = q

(***************************************************************************)
(* An anchor is a text, wherever it comes from: a cite command gives it,   *)
(* or cite makes up a number, which stands here for its digits, or citeAll *)
(* takes the keyword.  A text given may be a number or a keyword, and a    *)
(* keyword may be a number.  "by" is not in the code: it says where the    *)
(* text came from.                                                         *)
(***************************************************************************)
Given(a)   == [text |-> a,            by |-> "given"]
Number(n)  == [text |-> n,            by |-> "number"]
Keyword(p) == [text |-> KeywordOf[p], by |-> "keyword"]
NoAnchor   == [text |-> EmptyText,    by |-> "nobody"]

Anchors == {Given(a) : a \in GivenAnchors} \cup {Number(n) : n \in 0 .. N}
              \cup {Keyword(p) : p \in Publications} \cup {NoAnchor}

VARIABLES
    entries,   \* the array of the PublicationSet, up to its entries
    anchor,    \* Node::anchor
    cursor,    \* the publication that addAll() comes to next; 0 outside of it
    frames,    \* the calls of handleInput(): lines left to read, and result
    check,     \* --check-urls: "off", "on", or "waiting" for the web
    reported,  \* whether an error message has been written
    phase,     \* "running", "done", "exited" or "aborted"
    result     \* what handleInput() returned to main()

vars == <<entries, anchor, cursor, frames, check, reported, phase, result>>

Level  == Len(frames) - 1            \* recursionLevel
Frame  == frames[Len(frames)]
Chosen == {entries[i] : i \in DOMAIN entries}

Init ==
    /\ entries = <<>>
    /\ anchor = [p \in Publications |-> NoAnchor]
    /\ cursor = 0
    /\ frames = <<[lines |-> MaxLines, result |-> 0]>>
    /\ check \in {"off", "on"}
    /\ reported = FALSE
    /\ phase = "running"
    /\ result = 0

-----------------------------------------------------------------------------
(***************************************************************************)
(* Reading a line.                                                         *)
(***************************************************************************)
AtLine  == phase = "running" /\ cursor = 0 /\ Frame.lines > 0
HasLine == AtLine /\ check # "waiting"

(***************************************************************************)
(* The line is done with, after errs errors that do not end the file.      *)
(***************************************************************************)
GoOn(errs) ==
    /\ frames' = [frames EXCEPT ![Len(frames)] =
                     [lines |-> @.lines - 1, result |-> @.result + errs]]
    /\ reported' = (reported \/ errs > 0)
    /\ UNCHANGED <<phase, result>>

(***************************************************************************)
(* handleInput() returns r: to the line after the include, or to main().   *)
(***************************************************************************)
Return(r) ==
    IF Level = 0
    THEN /\ phase' = "done"
         /\ result' = r
         /\ UNCHANGED frames
    ELSE /\ frames' = [Front(frames) EXCEPT ![Len(frames) - 1].result = @ + r]
         /\ UNCHANGED <<phase, result>>

\* Mutant of GiveUp: what this file counted so far is the result.
GiveUpWithCount(errs) ==
    /\ reported' = TRUE
    /\ Return(Frame.result + errs)

(***************************************************************************)
(* return 1, after an error message: neither errs nor the errors that were *)
(* counted in this file before are part of it.                             *)
(***************************************************************************)
GiveUp(errs) ==
    /\ reported' = TRUE
    /\ Return(1)

EndOfFile ==
    /\ phase = "running" /\ cursor = 0
    /\ Frame.lines = 0
    /\ Return(Frame.result)
    /\ UNCHANGED <<entries, anchor, cursor, check, reported>>

(***************************************************************************)
(* Lines that change nothing that is modelled: empty lines, comments, echo *)
(* and the printing settings.                                              *)
(***************************************************************************)
OtherLine ==
    /\ HasLine
    /\ GoOn(0)
    /\ UNCHANGED <<entries, anchor, cursor, check>>

\* An unknown command, or a thirteenth month name
BadCommand ==
    /\ HasLine
    /\ GiveUp(0)
    /\ UNCHANGED <<entries, anchor, cursor, check>>

-----------------------------------------------------------------------------
(***************************************************************************)
(* PublicationSet::add().  The assertion comes before the search for the   *)
(* publication.                                                            *)
(***************************************************************************)
AssertionHolds == Len(entries) + 1 <= N

\* Mutant of IsNew: the search stops one entry too early.
IsNewUpToLast(p) == \A i \in 1 .. Len(entries) - 1 : entries[i] # p

IsNew(p) == \A i \in 1 .. Len(entries) : entries[i] # p

Abort ==
    /\ ~AssertionHolds
    /\ phase' = "aborted"
    /\ UNCHANGED <<entries, cursor, frames, check, reported, result>>

(***************************************************************************)
(* citeAll: addAll() walks through bibTeXFile.                             *)
(***************************************************************************)
CiteAll ==
    /\ HasLine
    /\ GoOn(0)
    /\ cursor' = IF N > 0 THEN 1 ELSE 0
    /\ UNCHANGED <<entries, anchor, check>>

\* Mutant of AddAllNext: it walks off the end of the list.
AddAllNextTooFar ==
    /\ phase = "running" /\ cursor # 0
    /\ AssertionHolds
    /\ IF IsNew(cursor)
       THEN /\ entries' = Append(entries, cursor)
            /\ anchor' = [anchor EXCEPT ![cursor] = Keyword(cursor)]
       ELSE UNCHANGED <<entries, anchor>>
    /\ cursor' = IF cursor <= N THEN cursor + 1 ELSE 0
    /\ UNCHANGED <<frames, check, reported, phase, result>>

\* Mutant of AddAllNext: it stops at a publication that is there already.
AddAllNextStops ==
    /\ phase = "running" /\ cursor # 0
    /\ AssertionHolds
    /\ IF IsNew(cursor)
       THEN /\ entries' = Append(entries, cursor)
            /\ anchor' = [anchor EXCEPT ![cursor] = Keyword(cursor)]
            /\ cursor' = IF cursor < N THEN cursor + 1 ELSE 0
       ELSE /\ cursor' = 0
            /\ UNCHANGED <<entries, anchor>>
    /\ UNCHANGED <<frames, check, reported, phase, result>>

AddAllNext ==
    /\ phase = "running" /\ cursor # 0
    /\ AssertionHolds
    /\ IF IsNew(cursor)
       THEN /\ entries' = Append(entries, cursor)
            /\ anchor' = [anchor EXCEPT ![cursor] = Keyword(cursor)]
       ELSE UNCHANGED <<entries, anchor>>
    /\ cursor' = IF cursor < N THEN cursor + 1 ELSE 0
    /\ UNCHANGED <<frames, check, reported, phase, result>>

AddAllAborts ==
    /\ phase = "running" /\ cursor # 0
    /\ Abort
    /\ UNCHANGED anchor

(***************************************************************************)
(* cite, with an anchor or, if it gives none, with the number of entries   *)
(* as the anchor.  The anchor is set before the publication is added, and  *)
(* stays if it has already been added.                                     *)
(***************************************************************************)
CiteAnchors == {Given(a) : a \in GivenAnchors} \cup {Number(Len(entries))}

\* Mutant of Cite: citing again is no error.
CiteAgainSilently ==
    /\ HasLine
    /\ AssertionHolds
    /\ \E p \in Publications, a \in CiteAnchors :
          /\ anchor' = [anchor EXCEPT ![p] = a]
          /\ IF IsNew(p)
             THEN entries' = Append(entries, p) /\ GoOn(0)
             ELSE entries' = entries /\ GoOn(0)
    /\ UNCHANGED <<cursor, check>>

Cite ==
    /\ HasLine
    /\ AssertionHolds
    /\ \E p \in Publications, a \in CiteAnchors :
          /\ anchor' = [anchor EXCEPT ![p] = a]
          /\ IF IsNew(p)
             THEN entries' = Append(entries, p) /\ GoOn(0)
             ELSE entries' = entries /\ GoOn(1)
    /\ UNCHANGED <<cursor, check>>

CiteAborts ==
    /\ HasLine
    /\ \E p \in Publications, a \in CiteAnchors : anchor' = [anchor EXCEPT ![p] = a]
    /\ Abort

CiteUnknown ==
    /\ HasLine
    /\ GoOn(1)
    /\ UNCHANGED <<entries, anchor, cursor, check>>

(***************************************************************************)
(* sort.  After a bad order the levels before it are still sorted by.      *)
(***************************************************************************)
IsSortOf(s, levels) ==
    /\ Len(s) = Len(entries)
    /\ {s[i] : i \in DOMAIN s} = Chosen
    /\ SortedBy(s, levels)

SortEntries(levels) ==
    \E s \in [1 .. Len(entries) -> Chosen] : IsSortOf(s, levels) /\ entries' = s

Sort ==
    /\ HasLine
    /\ \E levels \in SortCommands : SortEntries(levels)
    /\ GoOn(0)
    /\ UNCHANGED <<anchor, cursor, check>>

SortBadOrder ==
    /\ HasLine
    /\ \E levels \in SortCommands, bad \in 0 .. MaxSortLevels - 1 :
          bad < Len(levels) /\ SortEntries(SubSeq(levels, 1, bad))
    /\ GoOn(1)
    /\ UNCHANGED <<anchor, cursor, check>>

Clear ==
    /\ HasLine
    /\ entries' = <<>>
    /\ GoOn(0)
    /\ UNCHANGED <<anchor, cursor, check>>

-----------------------------------------------------------------------------
(***************************************************************************)
(* export.  With --check-urls it begins with checkAllURLs() (UrlCheck),    *)
(* which waits for the web at every transfer: the rest of the command is   *)
(* only taken when the check has come to its end.  The errors of the check *)
(* and of the custom export are counted; an output file that cannot be     *)
(* written ends the script, and an error in the printing template ends the *)
(* program.                                                                *)
(***************************************************************************)
BeginCheck ==
    /\ HasLine
    /\ check = "on"
    /\ check' = "waiting"
    /\ UNCHANGED <<entries, anchor, cursor, frames, reported, phase, result>>

CheckIsOver ==
    /\ AtLine
    /\ check \in {"off", "waiting"}
    /\ check' = IF check = "off" THEN "off" ELSE "on"

Export ==
    /\ CheckIsOver
    /\ \E errs \in {0, 1} : GoOn(errs)
    /\ UNCHANGED <<entries, anchor, cursor>>

ExportFails ==
    /\ CheckIsOver
    /\ \E errs \in {0, 1} : GiveUp(errs)
    /\ UNCHANGED <<entries, anchor, cursor>>

ExportExits ==
    /\ CheckIsOver
    /\ reported' = TRUE
    /\ phase' = "exited"
    /\ UNCHANGED <<entries, anchor, cursor, frames, result>>

(***************************************************************************)
(* include: the file is read to its end, or to an error that ends it,      *)
(* before the next line of this one.                                       *)
(***************************************************************************)
\* Mutant of Include: the line is not consumed.
IncludeAgain ==
    /\ HasLine
    /\ Level <= MaxLevel
    /\ frames' = Append(frames, [lines |-> MaxLines, result |-> 0])
    /\ UNCHANGED <<entries, anchor, cursor, check, reported, phase, result>>

Include ==
    /\ HasLine
    /\ Level <= MaxLevel
    /\ frames' = Append([frames EXCEPT ![Len(frames)].lines = @ - 1],
                        [lines |-> MaxLines, result |-> 0])
    /\ UNCHANGED <<entries, anchor, cursor, check, reported, phase, result>>

\* The file cannot be opened, or the nesting level limit is reached
IncludeFails ==
    /\ HasLine
    /\ GiveUp(0)
    /\ UNCHANGED <<entries, anchor, cursor, check>>

Finished == phase # "running" /\ UNCHANGED vars

Next ==
    \/ EndOfFile \/ OtherLine \/ BadCommand
    \/ CiteAll \/ AddAllNext \/ AddAllAborts
    \/ Cite \/ CiteAborts \/ CiteUnknown
    \/ Sort \/ SortBadOrder \/ Clear
    \/ BeginCheck \/ Export \/ ExportFails \/ ExportExits
    \/ Include \/ IncludeFails
    \/ Finished

Spec == Init /\ [][Next]_vars

(***************************************************************************)
(* The script comes from files: reading a line does not wait, and no other *)
(* command does.  But a transfer has no limit in time once the connection  *)
(* is there (CURLOPT_CONNECTTIMEOUT is the only one that is set), so       *)
(* nothing is assumed of the end of a check.                               *)
(***************************************************************************)
FairSpec == Spec /\ WF_vars(check # "waiting" /\ Next)

-----------------------------------------------------------------------------
TypeOK ==
    /\ entries \in Seq(Publications)
    /\ anchor \in [Publications -> Anchors]
    /\ cursor \in 0 .. N
    /\ frames \in Seq([lines : 0 .. MaxLines, result : Nat]) \ {<<>>}
    /\ check \in {"off", "on", "waiting"}
    /\ reported \in BOOLEAN
    /\ phase \in {"running", "done", "exited", "aborted"}
    /\ result \in Nat

(***************************************************************************)
(* A publication is selected once, and the array, which has one place for  *)
(* each publication of bibTeXFile, never overflows.                        *)
(***************************************************************************)
SelectionIsSound ==
    /\ \A i, j \in DOMAIN entries : entries[i] = entries[j] => i = j
    /\ Len(entries) <= N

(***************************************************************************)
(* When citeAll is through, everything is selected, whatever had been      *)
(* selected before and in whatever order.                                  *)
(***************************************************************************)
CiteAllSelectsAll ==
    [][cursor # 0 /\ cursor' = 0 => Chosen' = Publications]_vars

(***************************************************************************)
(* The assertion in add() can only fail for a publication that has already *)
(* been added: the program never aborts with something left to select.     *)
(***************************************************************************)
AbortsOnlyWhenAllSelected == phase = "aborted" => Chosen = Publications

(***************************************************************************)
(* As long as no error has been reported, the anchors that the program     *)
(* makes up are apart: two selected publications that have the same one    *)
(* have it because a script gave it to one of them at least, or because    *)
(* one has a number from cite and the other a keyword that is this number  *)
(* from citeAll.  In these cases nothing is reported: the code does not    *)
(* look whether an anchor is taken.                                        *)
(***************************************************************************)
AnchorsDiffer ==
    ~reported =>
       \A p, q \in Chosen :
          p # q /\ anchor[p].text = anchor[q].text
          => \/ "given" \in {anchor[p].by, anchor[q].by}
             \/ {anchor[p].by, anchor[q].by} = {"number", "keyword"}

(***************************************************************************)
(* An error is never forgotten: through any nesting of files that give up, *)
(* what main() is told is positive exactly when some error was reported.   *)
(***************************************************************************)
ErrorsReachMain ==
    /\ phase = "done" => (result > 0 <=> reported)
    /\ phase = "running" =>
          (reported <=> \E k \in DOMAIN frames : frames[k].result > 0)

(***************************************************************************)
(* Whatever files include each other, the script comes to an end, unless   *)
(* the URL check of an export waits for ever.  Without --check-urls, it    *)
(* always ends.                                                            *)
(***************************************************************************)
ScriptEnds == <>(phase # "running") \/ <>[](check = "waiting")

(***************************************************************************)
(* bibtexconv.cc:555: "ERROR: Publication '%s' has already been added!" is *)
(* the answer to selecting a publication again (and bibtexconv.1:149 lets  *)
(* citeAll select all entries, without a condition): the program does not  *)
(* abort on it.                                                            *)
(***************************************************************************)
SelectingAgainIsReported == phase # "aborted"
=============================================================================
