---------------------------- MODULE CustomExport ----------------------------
(***************************************************************************)
(* The program from its --mapping options to its custom exports:           *)
(* exportPublicationSetToCustom() applies the printing template to each    *)
(* publication of a selection, and tells it of the publications before and *)
(* after, from which it sees where subdivisions begin and end.  Of the     *)
(* template, only what looks beyond its own publication is kept: numbers,  *)
(* subdivisions and mappings (Template.tla has its blocks).                *)
(***************************************************************************)
EXTENDS Mappings, FiniteSets

CONSTANTS
    Inputs,      \* arguments of --mapping, and the selections of the exports
    MappingName  \* the mapping that the template uses

(***************************************************************************)
(* A publication is a comment or has fields: some of day, month and year,  *)
(* and a key that is looked up in the mapping.                             *)
(***************************************************************************)
Types == {"day", "month", "year"}

AllPublications ==
    UNION {UNION {Range(s) : s \in Range(input.selections)} : input \in Inputs}

IsFile(rows) == rows \in Seq(Range(rows)) /\ \A r \in Range(rows) : IsRow(r)

ASSUME InputsAssumption ==
    \A input \in Inputs :
        /\ input.selections \in Seq(Seq(AllPublications))
        /\ input.options \in Seq(Range(input.options))
        /\ \A option \in Range(input.options) : IsFile(option.rows)

VARIABLES
    exports,       \* the selections that are left to be exported
    selection,     \* the one that is being exported
    index,         \* how far the loop is
    previous,      \* the publication before (publication), 0 is none
    gNumber, gTotalNumber,
    out,           \* what the exports have written: a sequence for each
    phase          \* "start", "loop", "between" or "exited"

exportVars == <<exports, selection, index, previous, gNumber, gTotalNumber, out, phase>>
vars       == <<loadVars, exportVars>>

-----------------------------------------------------------------------------
Has(p, type) == type \in DOMAIN selection[p].fields

Differ(p, q, type) ==
    Has(p, type) /\ Has(q, type) /\ selection[p].fields[type] # selection[q].fields[type]

\* Mutant of NextPublication: a comment is taken for a publication.
NextPublicationAny(p) == IF p < Len(selection) THEN p + 1 ELSE 0

\* The next publication that is no comment, or 0
NextPublication(p) ==
    LET after == {q \in p + 1 .. Len(selection) : ~selection[q].comment}
    IN  IF after = {} THEN 0 ELSE FirstOf(after)

Begins(p, prev, type) == prev = 0 \/ ~Has(prev, type) \/ Differ(prev, p, type)
Ends(p, next, type)   == next = 0 \/ ~Has(next, type) \/ Differ(p, next, type)

(***************************************************************************)
(* What applyTemplate() writes of p.                                       *)
(***************************************************************************)
Written(p, prev, next) ==
    LET key     == selection[p].key
        mapping == mappingSet[MappingName]
    IN  [publication |-> p,
         number      |-> gNumber + 1,
         total       |-> gTotalNumber + 1,
         begins      |-> {t \in Types : Begins(p, prev, t)},
         within      |-> {t \in Types : ~(Begins(p, prev, t) \/ Ends(p, next, t))},
         ends        |-> {t \in Types : Ends(p, next, t)},
         mapped      |-> IF key \in DOMAIN mapping THEN <<mapping[key]>> ELSE <<>>]

-----------------------------------------------------------------------------
Init ==
    /\ \E input \in Inputs : LoadInit(input.options) /\ exports = input.selections
    /\ selection = <<>>
    /\ index = 0
    /\ previous = 0
    /\ gNumber = 0
    /\ gTotalNumber = 0
    /\ out = <<>>
    /\ phase = "start"

LoadMappings == Load /\ UNCHANGED exportVars

\* Mutant of BeginExport: the publications are numbered on.
BeginExportNumbersOn ==
    /\ loading = "done" /\ phase \in {"start", "between"}
    /\ exports # <<>>
    /\ selection' = Head(exports) /\ exports' = Tail(exports)
    /\ index' = 1
    /\ previous' = 0
    /\ out' = Append(out, <<>>)
    /\ phase' = "loop"
    /\ UNCHANGED <<loadVars, gNumber, gTotalNumber>>

BeginExport ==
    /\ loading = "done" /\ phase \in {"start", "between"}
    /\ exports # <<>>
    /\ selection' = Head(exports) /\ exports' = Tail(exports)
    /\ index' = 1
    /\ previous' = 0
    /\ gNumber' = 0
    /\ out' = Append(out, <<>>)
    /\ phase' = "loop"
    /\ UNCHANGED <<loadVars, gTotalNumber>>

SkipComment ==
    /\ phase = "loop" /\ index <= Len(selection)
    /\ selection[index].comment
    /\ index' = index + 1
    /\ UNCHANGED <<loadVars, exports, selection, previous, gNumber, gTotalNumber, out, phase>>

ApplyTemplate ==
    /\ phase = "loop" /\ index <= Len(selection)
    /\ ~selection[index].comment
    /\ MappingName \in DOMAIN mappingSet
    /\ out' = [out EXCEPT ![Len(out)] =
                   Append(@, Written(index, previous, NextPublication(index)))]
    /\ gNumber' = gNumber + 1
    /\ gTotalNumber' = gTotalNumber + 1
    /\ previous' = index
    /\ index' = index + 1
    /\ UNCHANGED <<loadVars, exports, selection, phase>>

\* The template names a mapping that there is not: exit(1)
NoSuchMapping ==
    /\ phase = "loop" /\ index <= Len(selection)
    /\ ~selection[index].comment
    /\ MappingName \notin DOMAIN mappingSet
    /\ phase' = "exited"
    /\ UNCHANGED <<loadVars, exports, selection, index, previous, gNumber, gTotalNumber, out>>

EndExport ==
    /\ phase = "loop" /\ index > Len(selection)
    /\ phase' = "between"
    /\ UNCHANGED <<loadVars, exports, selection, index, previous, gNumber, gTotalNumber, out>>

Finished ==
    /\ \/ loading \in {"failed", "crashed"}
       \/ phase = "exited"
       \/ phase = "between" /\ exports = <<>>
    /\ UNCHANGED vars

Next == LoadMappings \/ BeginExport \/ SkipComment \/ ApplyTemplate \/ NoSuchMapping
            \/ EndExport \/ Finished

Spec == Init /\ [][Next]_vars

-----------------------------------------------------------------------------
(***************************************************************************)
(* Types; the key and value columns are in the array (the assertion in     *)
(* mappings.cc:182), and numbers count publications of the selection.      *)
(***************************************************************************)
TypeOK ==
    /\ loading \in {"options", "header", "rows", "done", "failed", "crashed"}
    /\ phase \in {"start", "loop", "between", "exited"}
    /\ loading = "rows" => ColumnsToProcess(columnIndex) \in 1 .. MaxColumns
    /\ previous \in 0 .. Len(selection)
    /\ index \in 0 .. Len(selection) + 1
    /\ previous = 0 \/ previous < index
    /\ gNumber \in 0 .. Len(selection)

(***************************************************************************)
(* A mapping has what its file says, in the first file of that name that   *)
(* is not empty: of the rows with all the columns and no more, the first   *)
(* one for each key (addMapping(), splitLine()).                           *)
(*                                                                         *)
(* The file has to keep to what splitLine() understands: no gap in front   *)
(* of a line, nothing empty, no quotation marks or \ in the columns, and a *)
(* newline after a last line that has quotation marks.                     *)
(***************************************************************************)
Understood(row) ==
    /\ row.lead = <<>> /\ row.columns # <<>>
    /\ \A c \in Range(row.columns) :
        /\ c.text # <<>>
        /\ Quote \notin Range(c.text) /\ "\\" \notin Range(c.text)
    /\ row.ending = <<>> => ~Last(row.columns).quoted

TextsOf(row) == [c \in DOMAIN row.columns |-> row.columns[c].text]

Meaning(argument) ==
    LET header  == TextsOf(Head(argument.rows))
        keyAt   == FirstOf({c \in DOMAIN header : header[c] = argument.key})
        valueAt == FirstOf({c \in DOMAIN header : header[c] = argument.value})
        rows    == Tail(argument.rows)
        used    == {i \in DOMAIN rows :
                       /\ Len(rows[i].columns) \in {keyAt, valueAt}
                       /\ Len(rows[i].columns) >= keyAt /\ Len(rows[i].columns) >= valueAt
                       /\ LineOf(rows[i])[1] # "#"}
        Key(i)  == rows[i].columns[keyAt].text
        row(k)  == rows[FirstOf({i \in used : Key(i) = k})]
    IN  [k \in {Key(i) : i \in used} |-> row(k).columns[valueAt].text]

RowsAreMapped ==
    loading = "done" =>
        \A i \in DOMAIN given :
            /\ given[i].rows # <<>>
            /\ \A r \in Range(given[i].rows) : Understood(r) /\ Len(r.columns) < MaxColumns
            /\ \A j \in 1 .. i - 1 : given[j].name = given[i].name => given[j].rows = <<>>
            => mappingSet[given[i].name] = Meaning(given[i])

(***************************************************************************)
(* The program does not read a null pointer, or behind the array, while it *)
(* loads mappings, unless there is a line that begins with a gap, or that  *)
(* has a \ in it, or gaps for more columns than fit (splitLine(), whose    *)
(* count of columns is a count of gaps, with the one behind the last       *)
(* column; addMapping()).                                                  *)
(***************************************************************************)
Gaps(line) == {p \in DOMAIN line : line[p] = Space /\ (p = 1 \/ line[p - 1] # Space)}

OnlyKnownCrashes ==
    loading = "crashed" =>
        \E r \in Range(Head(arguments).rows) :
            LET line == LineOf(r)
            IN  line[1] = Space \/ "\\" \in Range(line) \/ Cardinality(Gaps(line)) >= MaxColumns

(***************************************************************************)
(* Subdivisions match: where publications that have the field follow one   *)
(* another, a subdivision begins exactly after one has ended, all the      *)
(* publications in it have one value, and those within are neither its     *)
(* first nor its last.  The first publication of an export begins one, the *)
(* last one ends one, and comments in between change nothing.              *)
(*                                                                         *)
(* A publication without the field breaks this: see the README.            *)
(***************************************************************************)
SubdivisionsMatch ==
    phase = "between" =>
        LET records == Last(out)
            Field(i, t) == selection[records[i].publication].fields[t]
            Both(i, t)  == Has(records[i].publication, t) /\ Has(records[i + 1].publication, t)
        IN  \A t \in Types :
            /\ records # <<>> => t \in records[1].begins /\ t \in Last(records).ends
            /\ \A i \in 1 .. Len(records) - 1 :
                Both(i, t) =>
                    /\ t \in records[i].ends <=> t \in records[i + 1].begins
                    /\ t \notin records[i].ends => Field(i, t) = Field(i + 1, t)
            /\ \A i \in DOMAIN records :
                t \in records[i].within
                    <=> t \notin records[i].begins /\ t \notin records[i].ends

(***************************************************************************)
(* Every export writes each publication of its selection once, in order,   *)
(* and no comment; it numbers them from 1, and over all exports no total   *)
(* number is used twice and none is left out (%{name}, gTotalNumber).      *)
(***************************************************************************)
EachIsWritten ==
    /\ \A e \in DOMAIN out : \A i \in DOMAIN out[e] : out[e][i].number = i
    /\ \A d, e \in DOMAIN out : \A i \in DOMAIN out[d], j \in DOMAIN out[e] :
          d < e \/ (d = e /\ i < j) => out[d][i].total < out[e][j].total
    /\ UNION {{r.total : r \in Range(records)} : records \in Range(out)} = 1 .. gTotalNumber
    /\ phase = "between" =>
        LET shown == [i \in DOMAIN Last(out) |-> Last(out)[i].publication]
        IN  /\ \A i, j \in DOMAIN shown : i < j => shown[i] < shown[j]
            /\ Range(shown) = {p \in DOMAIN selection : ~selection[p].comment}

(***************************************************************************)
(* bibtexconv.1:110, of --mapping: "Read key and value columns from a      *)
(* mapping file into a mapping with given name."  Every row that has both  *)
(* columns is in the mapping, however many more it has.                    *)
(***************************************************************************)
AllRowsAreRead ==
    loading = "done" =>
        \A i \in DOMAIN given :
            \A r \in 2 .. Len(given[i].rows) :
                LET row    == given[i].rows[r]
                    header == TextsOf(Head(given[i].rows))
                IN  (\A s \in Range(given[i].rows) : Understood(s)) /\ Len(row.columns) = Len(header)
                        /\ LineOf(row)[1] # "#" =>
                    \E c \in DOMAIN header :
                        /\ header[c] = given[i].key
                        /\ row.columns[c].text \in DOMAIN mappingSet[given[i].name]
=============================================================================
