------------------------------ MODULE Mappings ------------------------------
(***************************************************************************)
(* Mappings of keys to values, read from the files that the options        *)
(* --mapping=name:file:key_column:value_column name (mappings.cc).         *)
(*                                                                         *)
(* A line is a sequence of characters.  " " stands for space and tab, "\n" *)
(* for the end of a line.  A file is given by its rows, and these by the   *)
(* columns that their author had in mind.                                  *)
(***************************************************************************)
EXTENDS Integers, Sequences, SequencesExt

CONSTANT MaxColumns   \* maxColumns in addMapping()

ASSUME MaxColumnsAssumption == MaxColumns \in Nat \ {0}

VARIABLES
    given,       \* the arguments of the options
    arguments,   \* those that are left
    unread,      \* rows of the file that are left
    columnIndex, \* where the key and the value are
    entry,       \* the mapping that the rows go to
    registered,  \* whether it is the mapping of its name
    mappingSet,  \* the mappings by their names
    loading      \* "options", "header", "rows", "done", "failed" or "crashed"

loadVars == <<given, arguments, unread, columnIndex, entry, registered, mappingSet, loading>>

-----------------------------------------------------------------------------
(***************************************************************************)
(* What the author of a file writes for a row: columns in quotation marks, *)
(* where \ stands before quotation marks, or without; gaps between them;   *)
(* and the end of the line, which the last line of a file may lack.        *)
(***************************************************************************)
Quote == "\""
Space == " "

Escaped(text) ==
    FlattenSeq([i \in DOMAIN text |-> IF text[i] \in {Quote, "\\"} THEN <<"\\", text[i]>>
                                                               ELSE <<text[i]>>])

InFile(c) == IF c.quoted THEN <<Quote>> \o Escaped(c.text) \o <<Quote>> ELSE c.text

PartOf(row, i) ==
    InFile(row.columns[i]) \o IF i = Len(row.columns) THEN <<>> ELSE row.gap

LineOf(row) ==
    row.lead \o FlattenSeq([i \in DOMAIN row.columns |-> PartOf(row, i)]) \o row.ending

(***************************************************************************)
(* What a row is: the ends of lines are not inside of it, a gap or a text  *)
(* that is not quoted is not empty, such a text has no gaps, and there is  *)
(* something in the line, or getline() would not return it.                *)
(***************************************************************************)
IsColumn(c) ==
    /\ c.text \in Seq(Range(c.text)) /\ c.quoted \in BOOLEAN
    /\ "\n" \notin Range(c.text)
    /\ ~c.quoted => c.text # <<>> /\ Space \notin Range(c.text)

IsRow(row) ==
    /\ row.columns \in Seq(Range(row.columns)) /\ \A c \in Range(row.columns) : IsColumn(c)
    /\ row.lead \in Seq({Space})
    /\ row.gap \in Seq({Space}) \ {<<>>}
    /\ row.ending \in Seq({Space, "\n"})
    /\ \A i \in 1 .. Len(row.ending) - 1 : row.ending[i] = Space
    /\ LineOf(row) # <<>>

-----------------------------------------------------------------------------
(***************************************************************************)
(* splitLine().  While it goes along the line, it notes where the columns  *)
(* start, and ends them by zeroes in the line.  A column that starts in    *)
(* front of nothing is a null pointer: NoColumn, which is no text, as the  *)
(* end of a line comes but once.                                           *)
(***************************************************************************)
IsDelimiter(c) == c \in {Space, "\n"}

NoColumn == <<"\n", "\n">>

\* The first position from i on that holds no delimiter
AfterDelimiters(line, i) ==
    CHOOSE j \in i .. Len(line) + 1 :
        /\ j > Len(line) \/ ~IsDelimiter(line[j])
        /\ \A p \in i .. j - 1 : IsDelimiter(line[p])

\* A zero at i, and another one if there is a quotation mark before it
ZeroesAt(line, i) == {i} \cup IF i > 1 /\ line[i - 1] = Quote THEN {i - 1} ELSE {}

Start(s) ==
    [s EXCEPT !.start[s.column] = IF s.char = Quote THEN s.next + 1 ELSE s.next,
              !.next            = IF s.char = Quote THEN s.next + 2 ELSE s.next + 1]

End(s, line) ==
    [s EXCEPT !.zeroes = @ \cup ZeroesAt(line, s.next),
              !.next   = IF s.column = MaxColumns THEN Len(line) + 1
                         ELSE AfterDelimiters(line, s.next + 1),
              !.column = @ + 1]

(***************************************************************************)
(* One turn of the loop, at s.next.  s.char is the character there: a      *)
(* newline has become a zero before anything is done about columns.        *)
(***************************************************************************)
SplitStep(s, line) ==
    LET i == s.next
        c == line[i]
        t == [s EXCEPT !.char   = c,
                       !.quoted = IF c = Quote THEN ~@ ELSE @,
                       !.zeroes = IF c = "\n" THEN @ \cup ZeroesAt(line, i) ELSE @]
    IN  CASE s.escaped -> [s EXCEPT !.escaped = FALSE, !.next = i + 1]
          [] ~s.escaped /\ c = "\\" -> [s EXCEPT !.escaped = TRUE, !.next = i + 1]
          [] ~s.escaped /\ c # "\\" /\ t.start[t.column] = 0 /\ c # Space -> Start(t)
          [] ~s.escaped /\ c = Space /\ ~t.quoted -> End(t, line)
          [] OTHER -> [t EXCEPT !.next = i + 1]

\* Mutant of ColumnsOf: the last column is counted even if it is not there.
ColumnsOfOneMore(s) == IF s.column > MaxColumns THEN MaxColumns .. MaxColumns + 1
                       ELSE {s.column}

(***************************************************************************)
(* How many columns there are.  After the last column of the array, the    *)
(* code looks at what is behind the array: it may be anything.             *)
(***************************************************************************)
ColumnsOf(s) ==
    CASE s.column > MaxColumns     -> MaxColumns .. MaxColumns + 1
      [] s.column <= MaxColumns /\ s.start[s.column] # 0 -> {s.column}
      [] OTHER                     -> {s.column - 1}

BeforeLine(line) ==
    [next |-> 1, char |-> Space, escaped |-> FALSE, quoted |-> FALSE, column |-> 1,
     start |-> [c \in 1 .. Len(line) + MaxColumns |-> 0], zeroes |-> {}]

Turn(s, i, line) == IF i < s.next THEN s ELSE SplitStep(s, line)

\* The string that begins at from, up to the next zero or the end of the line
StringFrom(from, zeroes, line) ==
    SubSeq(line, from,
           CHOOSE e \in from - 1 .. Len(line) :
               /\ e = Len(line) \/ e + 1 \in zeroes
               /\ \A p \in from .. e : p \notin zeroes)

ColumnIn(s, c, line) ==
    IF s.start[c] = 0 THEN NoColumn ELSE StringFrom(s.start[c], s.zeroes, line)

SplitLine(line) ==
    LET turn[i \in 0 .. Len(line)] ==
            IF i = 0 THEN BeforeLine(line) ELSE Turn(turn[i - 1], i, line)
        last == turn[Len(line)]
    IN  [count   |-> ColumnsOf(last),
         columns |-> [c \in DOMAIN last.start |-> ColumnIn(last, c, line)]]

-----------------------------------------------------------------------------
LoadInit(options) ==
    /\ given = options
    /\ arguments = options
    /\ unread = <<>>
    /\ columnIndex = [key |-> 0, value |-> 0]
    /\ entry = <<>>
    /\ registered = FALSE
    /\ mappingSet = <<>>
    /\ loading = "options"

(***************************************************************************)
(* addMapping() opens the next file; an empty one gives no mapping.        *)
(***************************************************************************)
OpenFile ==
    /\ loading = "options"
    /\ arguments # <<>>
    /\ unread' = Head(arguments).rows
    /\ IF unread' = <<>> THEN arguments' = Tail(arguments) /\ UNCHANGED loading
                         ELSE loading' = "header" /\ UNCHANGED arguments
    /\ UNCHANGED <<given, columnIndex, entry, registered, mappingSet>>

\* The file cannot be opened or, at any point, not be read
FileFails ==
    /\ (loading = "options" /\ arguments # <<>>) \/ loading \in {"header", "rows"}
    /\ loading' = "failed"
    /\ UNCHANGED <<given, arguments, unread, columnIndex, entry, registered, mappingSet>>

(***************************************************************************)
(* The first line names the columns: the first ones that fit count.  The   *)
(* search compares the names of the columns until it has found both; what  *)
(* a null pointer is compared with ends the program, and what is behind    *)
(* the array may end it.  A name keeps the mapping that it has already.    *)
(***************************************************************************)
Named(split, count, name) == {c \in 1 .. count : split.columns[c] = name}

FirstOf(S) == CHOOSE c \in S : \A d \in S : c <= d

Compared(count, keys, values) ==
    {c \in 1 .. count : ~(\E k \in keys, v \in values : k < c /\ v < c)}

\* std::map::insert() keeps the value that a key has already.
\* Mutant of WithRow: of the rows with the same key, the last one counts.
WithRowLast(mapping, key, value) ==
    [k \in DOMAIN mapping \cup {key} |-> IF k = key THEN value ELSE mapping[k]]

WithRow(mapping, key, value) ==
    [k \in DOMAIN mapping \cup {key} |-> IF k \in DOMAIN mapping THEN mapping[k] ELSE value]

GiveUp(result) ==
    loading' = result /\ UNCHANGED <<columnIndex, entry, registered, mappingSet>>

ReadHeader ==
    /\ loading = "header"
    /\ unread' = Tail(unread)
    /\ LET argument == Head(arguments)
           split    == SplitLine(LineOf(Head(unread)))
       IN  \E count \in split.count :
            LET keys     == Named(split, count, argument.key) \cap 1 .. MaxColumns
                values   == Named(split, count, argument.value) \cap 1 .. MaxColumns
                compared == Compared(count, keys, values)
            IN  \/ /\ \E c \in compared : c > MaxColumns \/ split.columns[c] = NoColumn
                   /\ GiveUp("crashed")
                \/ /\ \A c \in compared : split.columns[c] # NoColumn
                   /\ keys = {} \/ values = {}
                   /\ GiveUp("failed")
                \/ /\ \A c \in compared : split.columns[c] # NoColumn
                   /\ keys # {} /\ values # {}
                   /\ loading' = "rows"
                   /\ columnIndex' = [key |-> FirstOf(keys), value |-> FirstOf(values)]
                   /\ entry' = <<>>
                   /\ registered' = (argument.name \notin DOMAIN mappingSet)
                   /\ mappingSet' = WithRow(mappingSet, argument.name, <<>>)
    /\ UNCHANGED <<given, arguments>>

(***************************************************************************)
(* A row counts if it has as many columns as are needed, not more; and of  *)
(* the rows with the same key, the first.                                  *)
(***************************************************************************)
ColumnsToProcess(index) == IF index.key > index.value THEN index.key ELSE index.value

IsUsed(line, count) == line[1] # "#" /\ count = ColumnsToProcess(columnIndex)

ReadRow ==
    /\ loading = "rows"
    /\ unread # <<>>
    /\ unread' = Tail(unread)
    /\ LET line  == LineOf(Head(unread))
           split == SplitLine(line)
           key   == split.columns[columnIndex.key]
           value == split.columns[columnIndex.value]
       IN  \E count \in split.count :
            \/ /\ ~IsUsed(line, count)
               /\ UNCHANGED <<columnIndex, entry, registered, mappingSet, loading>>
            \/ /\ IsUsed(line, count)
               /\ NoColumn \in {key, value}
               /\ GiveUp("crashed")
            \/ /\ IsUsed(line, count)
               /\ NoColumn \notin {key, value}
               /\ entry' = WithRow(entry, key, value)
               /\ mappingSet' = IF registered
                                THEN [mappingSet EXCEPT ![Head(arguments).name] = entry']
                                ELSE mappingSet
               /\ UNCHANGED <<columnIndex, registered, loading>>
    /\ UNCHANGED <<given, arguments>>

EndOfFile ==
    /\ loading = "rows"
    /\ unread = <<>>
    /\ arguments' = Tail(arguments)
    /\ loading' = "options"
    /\ UNCHANGED <<given, unread, columnIndex, entry, registered, mappingSet>>

EndOfOptions ==
    /\ loading = "options"
    /\ arguments = <<>>
    /\ loading' = "done"
    /\ UNCHANGED <<given, arguments, unread, columnIndex, entry, registered, mappingSet>>

Load == OpenFile \/ FileFails \/ ReadHeader \/ ReadRow \/ EndOfFile \/ EndOfOptions
=============================================================================
