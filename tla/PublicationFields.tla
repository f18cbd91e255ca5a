-------------------------- MODULE PublicationFields --------------------------
(***************************************************************************)
(* The fields of one publication, over several runs of the program: read   *)
(* from a BibTeX file, sorted and unified (makePublication() in node.cc,   *)
(* unification.cc), updated by a check of the URL (bibtexconv.cc), written *)
(* to a BibTeX file (publicationset.cc) that the next run reads.           *)
(*                                                                         *)
(* The value of a field is a record whose only entry says what the code    *)
(* takes it for: [text |-> ...] a text as in FieldText, [number |-> n] the *)
(* number that atol() finds, [month |-> m], [pages |-> the numbers in it], *)
(* [digits |-> the characters of an ISBN or ISSN], [names |-> authors].    *)
(***************************************************************************)
EXTENDS Unification, FieldText, FiniteSets

CONSTANTS
    Entries,     \* entries of BibTeX files: sequences of keywords and values
    Options,     \* options of a run
    PDFInfos,    \* what pdfinfo may say of a document
    MaxRuns      \* bound on the runs of the program

(***************************************************************************)
(* The keywords, by their priorities; those without one by their names.    *)
(* "x" stands for any that the code does not know.                         *)
(***************************************************************************)
KeywordOrder ==
    <<"author", "title", "subtitle", "howpublished", "booktitle", "series",
      "journal", "type", "volume", "issue", "number", "edition", "editor",
      "pages", "numpages", "day", "month", "year", "date", "organization",
      "school", "institution", "location", "publisher", "address", "language",
      "content-language", "isbn", "issn", "urn", "doi", "eprintclass",
      "eprinttype", "eprint", "note", "keywords", "abstract", "url", "urldate",
      "url.size", "url.md5", "url.mime", "url.pagesize", "url.checked",
      "url.keywords", "file", "repository", "version", "introducedin",
      "hal_id", "hal_version", "swhid", "license", "crossref", "addendum",
      "comment", "removeme", "x">>

Keywords == Range(KeywordOrder)
Rank     == [k \in Keywords |-> CHOOSE r \in DOMAIN KeywordOrder : KeywordOrder[r] = k]

IsText(value) == "text" \in DOMAIN value
NoText        == [text |-> <<>>]

(***************************************************************************)
(* What the program reads of the fields whose values it counts with.       *)
(***************************************************************************)
ValueFits(k, v) ==
    /\ k \in {"year", "day", "numpages"} => v \in [number : Int]
    /\ k = "month"                       => v \in [month : 0 .. 12]
    /\ k = "pages"                       => v \in [pages : Seq(Nat)]
    /\ k \in {"isbn", "issn"}            => v \in [digits : Seq(Digits \cup {X, Hyphen, AByte, Other})]

IsEntry(e) ==
    /\ e \in Seq(Range(e))
    /\ \A i \in DOMAIN e : e[i].keyword \in Keywords /\ ValueFits(e[i].keyword, e[i].value)

PDFKeywords == {"url.keywords", "numpages", "url.pagesize"}

Option == {o \in [skipNotes : BOOLEAN, addNotes : BOOLEAN, urlCommand : BOOLEAN] :
               o.addNotes => o.skipNotes}

ASSUME OptionsAssumption == Options \subseteq Option
ASSUME EntriesAssumption == \A e \in Entries : IsEntry(e)
ASSUME PDFInfosAssumption ==
    \A pdf \in PDFInfos :
        IsEntry(pdf) /\ \A i \in DOMAIN pdf : pdf[i].keyword \in PDFKeywords
ASSUME MaxRunsAssumption == MaxRuns \in Nat \ {0}

VARIABLES
    unread,     \* what is left of the entry in the file
    fields,     \* the children of the publication's node
    warnings,   \* the keywords of the fields that have been warned of
    options,    \* the options of this run
    phase,      \* "reading", "made", "checked", "written" or "unreadable"
    file,       \* the entry as written
    run,        \* number of this run
    written     \* history: the fields and options it was written from

vars == <<unread, fields, warnings, options, phase, file, run, written>>

-----------------------------------------------------------------------------
(***************************************************************************)
(* Lists of fields.                                                        *)
(***************************************************************************)
Has(list, k) == \E i \in DOMAIN list : list[i].keyword = k

\* findChildNode()
FindChildNode(list, k) ==
    CHOOSE i \in DOMAIN list :
        /\ list[i].keyword = k
        /\ \A j \in 1 .. i - 1 : list[j].keyword # k

ValueOf(list, k) == list[FindChildNode(list, k)].value

\* The value of the field, if there is one, is replaced by new
Replace(list, k, new) ==
    IF Has(list, k) THEN [list EXCEPT ![FindChildNode(list, k)].value = new]
                    ELSE list

(***************************************************************************)
(* sortChildren(): fields with the same keyword may come in any order.     *)
(* Field by field, the list grows in every way that keeps it in order.     *)
(***************************************************************************)
Places(list, f) ==
    {i \in 1 .. Len(list) + 1 :
        /\ \A j \in 1 .. i - 1 : Rank[list[j].keyword] <= Rank[f.keyword]
        /\ \A j \in i .. Len(list) : Rank[f.keyword] <= Rank[list[j].keyword]}

Insertions(list, f) == {InsertAt(list, i, f) : i \in Places(list, f)}

\* Mutant of SortChildren: they stay where they are.
SortChildrenNot(list) == {list}

SortChildren(list) ==
    LET sorted[n \in 0 .. Len(list)] ==
            IF n = 0 THEN {<<>>}
            ELSE UNION {Insertions(s, list[n]) : s \in sorted[n - 1]}
    IN  sorted[Len(list)]

(***************************************************************************)
(* makePublicationInfoItem(): a field without content becomes "removeme".  *)
(***************************************************************************)
MakePublicationInfoItem(k, v) ==
    LET value == IF k \in {"comment", "author"} \/ ~IsText(v) THEN v
                 ELSE [text |-> Trim(RemoveBrackets(v.text))]
    IN  [keyword |-> IF k # "comment" /\ value = NoText THEN "removeme" ELSE k,
         value |-> value, number |-> 0]

\* Mutant of AddOrUpdateChildNode: the field is added even if there is one.
AddOrUpdateChildNodeTwice(list, k, value) ==
    SortChildren(<<MakePublicationInfoItem(k, value)>> \o list)

\* addOrUpdateChildNode()
AddOrUpdateChildNode(list, k, value) ==
    IF Has(list, k) THEN {Replace(list, k, value)}
    ELSE SortChildren(<<MakePublicationInfoItem(k, value)>> \o list)

-----------------------------------------------------------------------------
(***************************************************************************)
(* makePublication(): what the fields are unified to, and what is warned   *)
(* of.  Only the first field of a keyword is looked at.                    *)
(***************************************************************************)
WarnIf(condition, keyword) == IF condition THEN {keyword} ELSE {}

UnifyAuthor(list) ==
    IF ~Has(list, "author") THEN list
    ELSE LET names == ValueOf(list, "author").names
         IN  Replace(list, "author",
                     [names     |-> [n \in DOMAIN names |-> JoinedAuthor(names[n])],
                      arguments |-> [n \in DOMAIN names |-> SplitAuthor(names[n])]])

UnifyText(list, k, Op(_)) ==
    IF Has(list, k) THEN Replace(list, k, [text |-> Op(ValueOf(list, k).text)])
                    ELSE list

UnifyTitles(list) ==
    UnifyText(UnifyText(list, "booktitle", UnifyBookTitle), "journal", UnifyBookTitle)

Pages(list) == PageRange(ValueOf(list, "pages").pages)

\* Mutant of UnifyPages: a number of pages that is there already stays.
UnifyPagesKeepsNumber(list) ==
    IF ~Has(list, "pages") \/ ~RangeIsAccepted(Pages(list)) \/ Has(list, "numpages")
    THEN {list}
    ELSE AddOrUpdateChildNode(
             Replace(list, "pages", [pages |-> RangeText(Pages(list))]),
             "numpages", [number |-> NumberOfPages(Pages(list))])

UnifyPages(list) ==
    IF ~Has(list, "pages") \/ ~RangeIsAccepted(Pages(list)) THEN {list}
    ELSE AddOrUpdateChildNode(
             Replace(list, "pages", [pages |-> RangeText(Pages(list))]),
             "numpages", [number |-> NumberOfPages(Pages(list))])

(***************************************************************************)
(* unifyDate() writes the number into the nodes, from where the exports    *)
(* take it.  Without a year, the days of the year 1 count.                 *)
(***************************************************************************)
YearOf(list)  == IF Has(list, "year") THEN ValueOf(list, "year").number ELSE 1
MonthOf(list) == IF Has(list, "month") THEN ValueOf(list, "month").month ELSE 0

UnifyDate(list) ==
    LET Numbered(l, k, n) ==
            IF Has(l, k) THEN [l EXCEPT ![FindChildNode(l, k)].number = n] ELSE l
    IN  Numbered(Numbered(Numbered(list, "year", YearOf(list)),
                          "month", MonthOf(list)),
                 "day", IF Has(list, "day") THEN ValueOf(list, "day").number ELSE 0)

DateWarnings(list) ==
    WarnIf(Has(list, "year") /\ ~YearIsAccepted(YearOf(list)), "year")
        \cup WarnIf(~Has(list, "year") /\ (Has(list, "month") \/ Has(list, "day")),
                    "no year")
        \cup WarnIf(Has(list, "month") /\ MonthOf(list) = 0, "month")
        \cup WarnIf(Has(list, "day") /\ ~Has(list, "month"), "no month")
        \cup WarnIf(/\ Has(list, "day") /\ Has(list, "month")
                    /\ ~DayIsAccepted(YearOf(list), MonthOf(list),
                                      ValueOf(list, "day").number), "day")

NumberWarnings(list) ==
    WarnIf(Has(list, "isbn") /\ ~ISBNIsAccepted(ValueOf(list, "isbn").digits), "isbn")
        \cup WarnIf(Has(list, "issn") /\ ~ISSNIsAccepted(ValueOf(list, "issn").digits),
                    "issn")

PageWarnings(list) ==
    LET accepted == Has(list, "pages") /\ RangeIsAccepted(Pages(list))
        number   == IF accepted THEN NumberOfPages(Pages(list))
                                ELSE ValueOf(list, "numpages").number
    IN  WarnIf(Has(list, "pages") /\ ~accepted, "pages")
            \cup WarnIf(accepted /\ Has(list, "numpages")
                        /\ ValueOf(list, "numpages").number
                               # NumberOfPages(Pages(list)), "inconsistent")
            \cup WarnIf((accepted \/ Has(list, "numpages"))
                        /\ (number < 1 \/ number >= 999999), "numpages")

-----------------------------------------------------------------------------
Init ==
    /\ unread \in Entries
    /\ options \in Options
    /\ fields = <<>>
    /\ warnings = {}
    /\ phase = "reading"
    /\ file = <<>>
    /\ run = 1
    /\ written = [fields |-> <<>>, options |-> options]

ReadItem ==
    /\ phase = "reading"
    /\ unread # <<>>
    /\ fields' = Append(fields, MakePublicationInfoItem(Head(unread).keyword,
                                                        Head(unread).value))
    /\ unread' = Tail(unread)
    /\ UNCHANGED <<warnings, options, phase, file, run, written>>

MakePublication ==
    /\ phase = "reading"
    /\ unread = <<>>
    /\ \E sorted \in SortChildren(fields) :
        \E list \in UnifyPages(UnifyTitles(UnifyAuthor(sorted))) :
            /\ fields' = UnifyText(UnifyDate(list), "url", UnifyURL)
            /\ warnings' = PageWarnings(sorted) \cup NumberWarnings(list)
                               \cup DateWarnings(list)
    /\ phase' = "made"
    /\ UNCHANGED <<unread, options, file, run, written>>

(***************************************************************************)
(* checkAllURLs() writes what it has found into the fields, one by one.    *)
(* What pdfinfo said comes first; its keywords only if there are none.     *)
(* Measured stands for the size, MIME type, MD5 sum and time.  When "file" *)
(* says nothing, the MIME type is an empty text, the document is not known *)
(* to be a PDF document, and the check goes on with a warning only.        *)
(***************************************************************************)
Measured == [measured |-> "now"]

MeasuredUpdates(list, mime) ==
    LET ignored == Has(list, "url.md5") /\ ValueOf(list, "url.md5") = [text |-> <<"ignore">>]
        Update(k, v) == [keyword |-> k, value |-> v]
    IN  <<Update("url.size", Measured), Update("url.mime", mime)>>
            \o IF ignored THEN <<Update("url.checked", Measured)>>
               ELSE <<Update("url.md5", Measured), Update("url.checked", Measured)>>

AfterUpdate(list, update) ==
    IF update.keyword = "url.keywords" /\ Has(list, "keywords") THEN {list}
    ELSE AddOrUpdateChildNode(list, update.keyword, update.value)

AfterUpdates(list, updates) ==
    LET from[n \in 0 .. Len(updates)] ==
            IF n = 0 THEN {list}
            ELSE UNION {AfterUpdate(l, updates[n]) : l \in from[n - 1]}
    IN  from[Len(updates)]

CheckURL ==
    /\ phase = "made"
    /\ Has(fields, "url")
    /\ \E mime \in {Measured, NoText}, pdf \in PDFInfos \cup {<<>>} :
          /\ mime = NoText => pdf = <<>>
          /\ fields' \in AfterUpdates(fields, pdf \o MeasuredUpdates(fields, mime))
    /\ phase' = "checked"
    /\ UNCHANGED <<unread, warnings, options, file, run, written>>

(***************************************************************************)
(* exportPublicationSetToBibTeX().  A field is written after a separator,  *)
(* which is empty for the first child of the node only.                    *)
(***************************************************************************)
Bracketed == {"title", "booktitle", "series", "journal", "abstract"}

\* Mutant of Skipped: a month without a name is looked up in the names.
SkippedNotMonth(f, o) ==
    \/ f.keyword = "removeme"
    \/ f.keyword = "note" /\ o.skipNotes /\ IsNumberNote(f.value.text)

Skipped(f, o) ==
    \/ f.keyword = "removeme"
    \/ f.keyword = "month" /\ f.number \notin 1 .. 12
    \/ f.keyword = "note" /\ o.skipNotes /\ IsNumberNote(f.value.text)

\* Mutant of Exported: a title is written without the braces that keep it.
ExportedBare(f, o) ==
    CASE f.keyword = "author"           -> [names |-> f.value.names]
      [] f.keyword \in {"day", "year"}  -> [number |-> f.number]
      [] f.keyword = "month"            -> [month |-> f.number]
      [] f.keyword = "url" /\ o.urlCommand ->
             [text |-> URLCommand(URLToLaTeX(f.value.text))]
      [] f.keyword = "doi" \/ (f.keyword = "url" /\ ~o.urlCommand) ->
             [text |-> URLToLaTeX(f.value.text)]
      [] OTHER                          -> f.value

Exported(f, o) ==
    CASE f.keyword \in Bracketed        -> [text |-> <<"{">> \o f.value.text \o <<"}">>]
      [] f.keyword = "author"           -> [names |-> f.value.names]
      [] f.keyword \in {"day", "year"}  -> [number |-> f.number]
      [] f.keyword = "month"            -> [month |-> f.number]
      [] f.keyword = "url" /\ o.urlCommand ->
             [text |-> URLCommand(URLToLaTeX(f.value.text))]
      [] f.keyword = "doi" \/ (f.keyword = "url" /\ ~o.urlCommand) ->
             [text |-> URLToLaTeX(f.value.text)]
      [] OTHER                          -> f.value

\* The note that is made up from the ISBN, or else from the ISSN
AddsNote(list, o) == o.addNotes /\ (Has(list, "isbn") \/ Has(list, "issn"))
AddedNote == [text |-> <<"{", "ISBN", "}", " ", "number">>]

WrittenFields(list, o) ==
    LET Part(i) == IF Skipped(list[i], o) THEN <<>>
                   ELSE <<[keyword |-> list[i].keyword,
                           value   |-> Exported(list[i], o),
                           comma   |-> i > 1]>>
        note    == [keyword |-> "note", value |-> AddedNote, comma |-> Len(list) > 1]
    IN  FlattenSeq([i \in DOMAIN list |-> Part(i)])
            \o IF AddsNote(list, o) THEN <<note>> ELSE <<>>

Export ==
    /\ phase \in {"made", "checked"}
    /\ run < MaxRuns
    /\ file' = WrittenFields(fields, options)
    /\ written' = [fields |-> fields, options |-> options]
    /\ phase' = "written"
    /\ UNCHANGED <<unread, fields, warnings, options, run>>

(***************************************************************************)
(* The next run reads the file.  Fields without a comma in between, and    *)
(* texts that do not end where they should, are a syntax error.            *)
(***************************************************************************)
IsReadable(entry) ==
    /\ \A i \in 2 .. Len(entry) : entry[i].comma
    /\ \A i \in DOMAIN entry :
        IsText(entry[i].value) => ReadsQuoted(entry[i].value.text)

NextRun ==
    /\ phase = "written"
    /\ run' = run + 1
    /\ options' \in Options
    /\ IF IsReadable(file) THEN unread' = file /\ phase' = "reading"
                           ELSE unread' = <<>> /\ phase' = "unreadable"
    /\ fields' = <<>>
    /\ file' = <<>>
    /\ warnings' = {}
    /\ UNCHANGED written

Finished ==
    /\ phase = "unreadable" \/ (phase \in {"made", "checked"} /\ run = MaxRuns)
    /\ UNCHANGED vars

Next == ReadItem \/ MakePublication \/ CheckURL \/ Export \/ NextRun \/ Finished

Spec == Init /\ [][Next]_vars

-----------------------------------------------------------------------------
(***************************************************************************)
(* Types; and no month is written that has no name: the array of names is  *)
(* never read outside of its bounds (exportPublicationSetToBibTeX()).      *)
(***************************************************************************)
TypeOK ==
    /\ phase \in {"reading", "made", "checked", "written", "unreadable"}
    /\ run \in 1 .. MaxRuns
    /\ options \in Options
    /\ phase # "reading" => unread = <<>>
    /\ \A i \in DOMAIN fields : fields[i].keyword \in Keywords
    /\ \A i \in DOMAIN file :
        file[i].keyword = "month" => file[i].value.month \in 1 .. 12

(***************************************************************************)
(* Once the publication is made, its fields are in order, however many     *)
(* fields unification and the checks have added (sortChildren()).          *)
(***************************************************************************)
ChildrenInOrder ==
    phase # "reading" =>
        \A i, j \in DOMAIN fields :
            i < j => Rank[fields[i].keyword] <= Rank[fields[j].keyword]

(***************************************************************************)
(* A check of the URL puts its results where the next lookup finds them;   *)
(* it never loses another field, and never makes two of one keyword        *)
(* (addOrUpdateChildNode()).  Results without content are kept apart: what *)
(* pdfinfo says, and the MIME type when "file" has said nothing.  Then a   *)
(* url.mime that was there is emptied; if none was there, there is none    *)
(* afterwards, and what was made of the empty text is a "removeme".        *)
(***************************************************************************)
FromTheCheck == {"url.size", "url.mime", "url.md5", "url.checked", "removeme"} \cup PDFKeywords

PositionsOf(list, k) == {i \in DOMAIN list : list[i].keyword = k}
NumberOf(list, k)    == Cardinality(PositionsOf(list, k))
Count(list, f)       == Cardinality({i \in DOMAIN list : list[i] = f})

\* The two lists have the same fields with this keyword, in whatever order.
SameFields(list, other, k) ==
    \A f \in Range(list) \cup Range(other) :
        f.keyword = k => Count(list, f) = Count(other, f)

MimeIsFound(before, after) ==
    \/ Has(after, "url.mime") /\ ValueOf(after, "url.mime") = Measured
    \/ IF Has(before, "url.mime") THEN ValueOf(after, "url.mime") = NoText
       ELSE ~Has(after, "url.mime") /\ Has(after, "removeme")

UpdatesAreFound ==
    [][CheckURL =>
        \A k \in Keywords :
            /\ k \notin FromTheCheck => SameFields(fields, fields', k)
            /\ k # "removeme" =>
                   \/ NumberOf(fields', k) = NumberOf(fields, k)
                   \/ NumberOf(fields, k) = 0 /\ NumberOf(fields', k) = 1
            /\ k \in {"url.size", "url.checked"} /\ NumberOf(fields, k) <= 1 =>
                   ValueOf(fields', k) = Measured
            /\ k = "url.mime" /\ NumberOf(fields, k) <= 1 =>
                   MimeIsFound(fields, fields')]_vars

(***************************************************************************)
(* Days are warned of exactly if the calendar does not have them (the      *)
(* months before August and those from August on alternate), with one      *)
(* exception: the code also warns of the 31st of July (unifyDate()).       *)
(***************************************************************************)
DaysOfMonth(y, m) ==
    IF m = 2 THEN IF y % 4 = 0 /\ (y % 25 = 0 => y % 16 = 0) THEN 29 ELSE 28
    ELSE 30 + ((m + m \div 8) % 2)

DaysAreJudged ==
    phase = "made" /\ Has(fields, "day") /\ Has(fields, "month") =>
        LET y == YearOf(fields)
            m == MonthOf(fields)
            d == ValueOf(fields, "day").number
        IN  "day" \in warnings
                <=> (m = 0 \/ d \notin 1 .. DaysOfMonth(y, m) \/ (m = 7 /\ d = 31))

(***************************************************************************)
(* An ISBN or ISSN that passes without a warning would not have passed     *)
(* with one digit changed; nor, in an ISBN-10 or ISSN, with two digits     *)
(* swapped.  A hyphen makes no difference, except for one at the end       *)
(* (unifyISBN(), unifyISSN()).                                             *)
(***************************************************************************)
Changed(text, Accepts(_)) ==
    \E i \in DOMAIN text, d \in Digits :
        /\ text[i] \in Digits \ {d}
        /\ Accepts([text EXCEPT ![i] = d])

Swapped(text, Accepts(_)) ==
    \E i, j \in DOMAIN text :
        /\ text[i] \in Digits /\ text[j] \in Digits /\ text[i] # text[j]
        /\ Accepts([text EXCEPT ![i] = text[j], ![j] = text[i]])

NumberErrorsAreFound ==
    phase = "made" =>
        \A k \in {"isbn", "issn"} :
            Has(fields, k) =>
                LET Accepts(t) == IF k = "isbn" THEN ISBNIsAccepted(t) ELSE ISSNIsAccepted(t)
                    text       == ValueOf(fields, k).digits
                IN  AByte \notin Range(text) =>
                    /\ k \notin warnings =>
                        /\ ~Changed(text, Accepts)
                        /\ Len(PureNumber(text)) # 13 => ~Swapped(text, Accepts)
                    /\ \A i \in 1 .. Len(text) - 1 :
                        text[i] = Hyphen => (Accepts(text) <=> Accepts(RemoveAt(text, i)))

(***************************************************************************)
(* When a publication has been read, its number of pages is the number of  *)
(* its pages, if these can be read: whatever was written there before, by  *)
(* hand or by a check of an earlier run (unifyPages()).                    *)
(***************************************************************************)
PagesAreCounted ==
    phase = "made" /\ NumberOf(fields, "pages") = 1 /\ RangeIsAccepted(Pages(fields)) =>
        ValueOf(fields, "numpages").number
            = Cardinality(Pages(fields)[1] .. Pages(fields)[2])

(***************************************************************************)
(* What a run has written, the next one reads as it was, in any number of  *)
(* runs: except for what has been skipped or added by the options.         *)
(*                                                                         *)
(* What does not come back is known: braces around the text of a field     *)
(* whose text is not written in braces, % in a DOI, a backslash in a URL,  *)
(* a family name of several words, the number of pages that pdfinfo has    *)
(* found if the pages say something else, and what is in a second field    *)
(* of a keyword of which only the first one is unified.                    *)
(***************************************************************************)
UnifiedKeywords == {"author", "booktitle", "journal", "pages", "numpages",
                    "year", "month", "day", "url"}

ComesBack(f) ==
    CASE f.keyword \in Bracketed ->
             f.value # NoText /\ ReadsBraced(f.value.text) /\ "\\" \notin Range(f.value.text)
      [] f.keyword = "author"    ->
             "arguments" \in DOMAIN f.value =>
                 \A n \in DOMAIN f.value.names :
                     \/ f.value.names[n].form = "braced"
                     \/ Len(f.value.arguments[n].family) = 1
      [] IsText(f.value)         ->
             /\ f.value # NoText
             /\ RemoveBrackets(f.value.text) = f.value.text
             /\ f.keyword = "doi" => "%" \notin Range(f.value.text)
             /\ f.keyword = "url" => "\\" \notin Range(f.value.text)
      [] OTHER                   -> TRUE

ReadsBack ==
    LET o      == written.options
        kept   == SelectSeq(written.fields, LAMBDA f : ~Skipped(f, o))
        before == SelectSeq(kept, ComesBack)
        fresh  == IF AddsNote(written.fields, o)
                  THEN <<[keyword |-> "note", value |-> AddedNote, number |-> 0]>>
                  ELSE <<>>
        all    == before \o fresh
        Kept    == {k \in Keywords :
                        /\ k \in UnifiedKeywords => NumberOf(kept, k) <= 1
                        /\ k = "numpages" => ~Has(written.fields, "pages")}
    IN  phase = "made" /\ run > 1 /\ Len(before) = Len(kept) =>
            \A k \in Kept : SameFields(all, fields, k)

(***************************************************************************)
(* What a run has written, the next one can read, except for: a quotation  *)
(* mark or braces without their partners in a text that is not written in  *)
(* braces, a backslash at the end of a text, and the note of a publication *)
(* whose only field is its ISBN, which is written without a comma.         *)
(***************************************************************************)
WrittenIsReadable ==
    phase = "unreadable" =>
        \/ Len(written.fields) = 1 /\ AddsNote(written.fields, written.options)
        \/ \E i \in DOMAIN written.fields :
            LET f == written.fields[i]
            IN  /\ IsText(f.value)
                /\ \/ f.keyword \notin Bracketed /\ "\"" \in Range(f.value.text)
                   \/ f.value.text # <<>> /\ Last(f.value.text) = "\\"
                   \/ ~ReadsBraced(f.value.text)
=============================================================================
