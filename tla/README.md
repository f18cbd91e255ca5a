# Verification of BibTeXConv

TLA+ models of bibtexconv: what it makes of BibTeX files, how export scripts
select publications from them, what becomes of the fields of a publication between
one file and the next, how the check of their URLs keeps entries and
downloaded documents together over many runs, and how templates and custom
exports print them. TLC checks the models on small
instances; TLAPS proves what matters most about the core for all instances.

## The system

bibtexconv is a single sequential program. `main()` (`bibtexconv.cc`) reads
BibTeX files, then either does one check and export of everything
(`--non-interactive`) or reads commands from standard input.

| Component | State it keeps | Operations | Hard behaviour | What makes it correct |
|---|---|---|---|---|
| Scanner and parser (`scanner.ll`, `grammar.yy`) | flex start condition, bison stack, the global `bibTeXFile` | one reduction per publication, one per step of the collection | state that outlives a file; the collection is built from the end of the file; stack limit | each file gives the merge of its publications; the program gives up exactly on unreadable input, and always ends |
| Node list (`node.cc`) | doubly linked list of publications, each with a child list | `makePublication()`, `makePublicationCollection()`, `freeNode()`, `findNode()` | duplicates unlink a node anywhere in the list and move a child list | the list is the intended sequence; nothing is freed twice or lost |
| Fields (`node.cc`) | the child list of a publication | `makePublicationInfoItem()`, `sortChildren()`, `addOrUpdateChildNode()`, `makePublication()` | repeated fields, empty fields, updates of a list that is sorted | the list stays sorted; an update is found again, and loses nothing else |
| Selection (`publicationset.cc`) | array of node pointers, anchors in the nodes | `add()`, `addAll()`, `clearAll()`, `sort()` | add again, add when full, anchors that are texts wherever they come from | every publication once; never more than there is room for |
| Export scripts (`handleInput()`) | recursion of included files, error counts, printing settings | one per command | files that give up at any depth, files that include themselves, exports that wait for the web | errors reach the exit status; scripts end unless they wait |
| URL checks (`checkAllURLs()`) | `url.*` fields of the entries, the download directory, temporary files; curl, `file` and `pdfinfo` outside | one check over all selected publications | failures at every step, documents that change, crashes, runs that build on each other | entries and stored files agree; errors are counted; which temporary files go away |
| BibTeX and XML export | output files | one pass over the selection | several files, one of which may fail | an exported file reads back as the same entries |
| Printing templates (`applyTemplate()`) | output so far, stack of groups, skip flag, author loop | one per character or `%{...}` action | nesting, alternatives, loops | what is printed is what the structure of the template means |
| Custom export (`exportPublicationSetToCustom()`) | the previous publication, global numbers | one template per publication | subdivisions depend on the neighbours, comments in between | begins and ends of subdivisions match; numbers have no gaps |
| Unification (`unification.cc`) | fields of one publication | ISBN, ISSN, date, pages, authors, URL | checksums, ends of months, runs that build on each other | agreement with the definitions of the numbers; what has been unified stays as it is |
| Mappings (`mappings.cc`) | tables read from files | load, look up | column limits, quoting | a row's value is found by its key |
| `ietf2bibtex` | cache of downloaded indices | download, parse, write | partial downloads | a cached index is a complete one |

The components interact by calls and by shared state: the parser hands its list
over in the global `bibTeXFile`; a `PublicationSet` points into that list; the
URL check writes fields into its nodes; the export writes the file which the
next run parses. Nothing in the program runs concurrently with it, except the
user and other runs of the program that work in the same directories.
`PROJECT.json` lists the hazards line by line, and which property covers which.

## Modules

| Module | Models | Extends |
|---|---|---|
| `BibNodes` | nodes, `makePublicationCollection()` on sequences, and what a merge of publications is | |
| `BibFiles` | BibTeX files as the scanner sees them, and the publications in them | `BibNodes` |
| `BibParser` | the loop over the files, scanner state, the parser's stack and reductions | `BibFiles` |
| `BibCatalog` | abstract: each file puts the merge of its publications in place in one step | `BibFiles` |
| `NodeList` | the same list with `prev`, `next` and `child` pointers, and `freeNode()` | `BibNodes` |
| `Collection` | abstract: the life of the collection as a sequence | `BibNodes` |
| `PublicationOrder` | the comparison of the `sort` command | |
| `ExportScript` | `handleInput()` with its recursion, `PublicationSet` | `PublicationOrder` |
| `UrlCheck` | `checkAllURLs()` and the files it leaves, over several runs | |
| `Template` | `applyTemplate()`: blocks, alternatives, tests, the author loop | |
| `TemplateMeaning` | what a well-formed template means, by its structure | `Template` |
| `Unification` | numbers in fields: dates, pages, ISBN, ISSN; names of authors | |
| `FieldText` | texts in fields: where the scanner ends them, brackets, spaces, URLs | |
| `PublicationFields` | the fields of a publication over several runs: read, sorted, unified, checked, exported | `Unification`, `FieldText` |
| `Mappings` | `splitLine()`, `addMapping()` | |
| `CustomExport` | the `--mapping` options and the exports that use them | `Mappings` |
| `BibNodesProofs`, `BibParserProofs`, `NodeListProofs`, `ExportScriptProofs`, `UrlCheckProofs`, `TemplateProofs`, `PublicationFieldsProofs`, `CustomExportProofs` | theorems | the module they are about |
| `MC...` | the instances for TLC | |

### BibNodes, BibFiles, BibParser, BibCatalog

A publication is a record: its keyword, its entry type, its title, and `rest`,
the place where its other fields were written; that is all that merging
duplicates tells apart. Keywords are numbers, because a comment gets its own
number as its keyword and may collide with an author's label; labels that are no
numbers are stood for by numbers that the comment counter does not reach.

The grammar is right recursive. `MakePublication` and `MakeComment` reduce one
publication and leave it on `stack`; `StartCollection` is the reduction of the
last one to a collection, `ReduceCollection` each one after it, taking the stack
from its top; `Accept` sets the global. Giving up is `OpenFails` (exit in
`main()`), `SyntaxError` and `MemoryExhausted` (results 1 and 2 of `yyparse()`).
A file that ends in a comment without a newline loses that comment and leaves
the scanner in its COMMENT state (`inComment`), so that the first line of the
next file belongs to that comment. `MaxDepth` is bison's `YYMAXDEPTH`. It is
counted in waiting publications, each of which takes a slot, plus the width of the
item that is being read.

`IsMergeOf` says what the collection should be without regard to the order in
which the code builds it: one node per keyword, in the order of first
occurrences, with the type of the first and the fields of the latest
occurrence, and the title of the first that has one (if the latest has one).

### NodeList, Collection

Node `i` and its child list `i` come from the `i`-th publication of a file.
`AddNew` and `AddDuplicate` are the two paths through
`makePublicationCollection()`, pointer by pointer; `FreeHead` is one round of
`freeNode()`. The pointers of deleted nodes keep their last values, as they do in
memory, so that a pointer to a deleted node is seen by `ListIsSound`. `Walk` and
`Duplicate` are written as functions and with `CHOOSE`, without recursive operators, so that they can be proved about.

### ExportScript, PublicationOrder

A frame is one call of `handleInput()`: the lines left in its file, and
`result`. What a line holds is chosen when it is read. `citeAll` takes one step
per publication (`cursor`), every other command takes one step. `GiveUp` is
`return 1`, `GoOn` the way to the next line. The assertion in `add()` ends the
program (`aborted`), an error in the template does so as well (`exited`); this is
the build without `NDEBUG`. An export's URL checks add zero or one error
(one stands for all positive numbers). `sort` may leave any order that the comparison permits, as
`qsort()` may.

An anchor is a text. `cite` takes it from the script (`Given`) or makes up a number (`Number`),
`citeAll` takes the keyword (`Keyword`), which may be a number, too. Where a text came from (`by`) is
history: the code does not keep it, and two anchors are equal if their texts are. With `--check-urls`, an
export first waits for the URL check (`BeginCheck`; `check` is `waiting`), and the rest of the command is a
step of its own, which may never come.

### UrlCheck

A run of the program reads `bib` into `entry`, checks (`pc` = loop, download,
frame, rename), and may write `entry` back. `stored` is the download directory, which
outlives the runs: one file per publication and extension, where a document of
an unknown type gets the extension `data`. A document stands for its MD5 sum.
`trouble` is a history variable: it names the failures that the properties
make an exception for. The user may remove stored files and fields between the
runs; the program may crash in the middle of a check; `file` may fail (an empty
MIME type). What `pdfinfo` says is left out, but not its output: `/tmp/bibtexconv-pXXXXXX` is the name as it
stands, without `mkstemp()`, and the file is never unlinked; `left` holds it from the first PDF document on.

The publications in `Dynamic` are at IEEE Xplore. Once the page has been downloaded, `handleDynamicURL()` may find
that it is a frame (`FollowFrame`) and download the URL in it. `downloadFile()` is the same for both: it
fails without an error for a URL that does not begin with `http`, which a frame's may do
(`OtherFrame`) although that of the publication does not (`OtherProtocol`).

### Template, TemplateMeaning

A step is one character or one placeholder of the template. Text stands for a
character or for a field that is there, `missing` for one that is not; what is
written is not a text but the sequence of the tokens that wrote it, each with
the author that the loop was at, so that two texts are the same only if they came about in
the same way. `stack`, `skip`, `author`, `authorIndex` (counted in authors, not in the three
names of each) and `authorBegin` are the variables of the code. The six comparisons with what
a block has written are stood for by `is-not?` with an empty string; a mapping
fails for an empty key only. Authors have all their names.

`TemplateMeaning` does not walk through the template: it writes out the loop,
finds the alternatives of each block, which of them fail, and which of the rest is
chosen. Three things that the code does have no meaning there and are left to the other properties:
`|` in `( )`, where the code looks for a `]`; mappings, for which there is
`BlocksAreEmptied`; and a loop that begins and ends in different
alternatives.

### Unification, FieldText, PublicationFields

The children of a publication's node are a sequence of fields. A value says only what the
code takes it for: the value of `day` is a number, that of `month` a month or 0 for a text that names
none, of `isbn` the characters of a number, of `title` or `url` a text. In a text, words
that the code looks for as a whole (`\url`, `{ISBN}`, the address of IEEExplore) are one
character. `ReadItem` is `makePublicationInfoItem()` for each field that the parser reads,
`MakePublication` all of `makePublication()` in its order: sort, authors, titles, pages,
dates, URL; `warnings` holds the keywords that it warns of. `CheckURL` is the part of `checkAllURLs()` that writes fields,
with what `pdfinfo` says before what has been measured. The MIME type may be an empty text
(`file` has failed), which `makePublicationInfoItem()` makes a `removeme` of, and then there is no PDF document to ask `pdfinfo` about; the rest of the check is in `UrlCheck`. `Export` writes the
entry, `NextRun` reads it again, if the scanner finds the ends of its texts.
`sortChildren()` leaves fields of one keyword in any order: the sorted list is put together field by
field, each in any place that keeps the order (`Places`). `howPublished` is never
unified: keywords are in lower case when that name is looked for (`node.cc:391`).

`ReadsBack` compares the fields that a run made of a file with those that the file was written from.
It lists what is known not to come back; `WrittenIsReadable` lists what makes a file unreadable.

### Mappings, CustomExport

A row is given by the columns that its author had in mind; `IsRow` says what a row is, and `LineOf` writes it.
`SplitLine` takes the line apart as the code does, one character at a time: by zeroes in the
line and by the positions where columns start. The turns of its loop are the values of a recursive function (`turn`), not of
a `RECURSIVE` operator, so that they can be proved about. A column that was never started is a
null pointer, and reading it, or what is behind the array, ends the program (`crashed`); what is behind the
array may also do no harm, so that `ColumnsOf` has two results. `Meaning` in `RowsAreMapped` is
computed from the columns, without the line. `OnlyKnownCrashes` says which lines may end the program: those that begin
with a gap, have a `\` in them, or have gaps for `MaxColumns` columns or more. The column counter counts gaps, and
looks for a last column behind the array when there are as many gaps as places.

`CustomExport` goes on to the exports, with a template that asks for the number, the total number, the begin, inside
and end of each subdivision, and the mapping of a key. `custom-*` settings and blocks are
in `Template` or not modelled.

## Runs

| Run | Result | What it shows |
|---|---|---|
| `parser` | passes | types; `CollectionIsMerge` at every reduction; `OutcomeFollowsInput`: exactly which command lines can be read; refinement of `BibCatalog`; every run of the parser ends |
| `node_list` | passes | `ListIsSound`, `ChildrenHaveOneOwner` (no double free, no leak), refinement of `Collection` |
| `script` | passes | `SelectionIsSound`, `AbortsOnlyWhenAllSelected`, `AnchorsDiffer`: without an error, equal anchors are a script's own doing, or a number and a keyword; `ErrorsReachMain`, `CiteAllSelectsAll`; every script ends, or waits for a URL check |
| `url_check` | passes | `StoredMatchesEntry`; `OnlyPDFInfoIsLeft`: all temporary files go away, and the output of `pdfinfo` does not; `NoErrorMeansChecked`, `NoErrorMeansSettled`, with the frames of another protocol as their exception |
| `template` | passes | for every short template: `StackIsSound`, `AuthorIsThere`, every run ends; for every well-formed one: `WritesMeaning`, `WellFormedIsAccepted` |
| `fields` | passes | `ChildrenInOrder`, `UpdatesAreFound`, `DaysAreJudged`, `NumberErrorsAreFound`, `PagesAreCounted`; and from one run to the next `ReadsBack` and `WrittenIsReadable` |
| `custom_export` | passes | `RowsAreMapped`, `OnlyKnownCrashes`, `SubdivisionsMatch`, `EachIsWritten` |
| `parser_all_files` | violated | several input files: only the last one's publications are there (`bibtexconv.1:95`) |
| `parser_latest` | violated | a duplicate keeps the oldest entry type (`node.cc:177`) |
| `script_again` | violated | selecting again when all is selected aborts (`bibtexconv.cc:555`) |
| `template_emptied` | violated | a mapping makes a block with a missing field appear (`bibtexconv.1:284`) |
| `mapping_columns` | violated | a file with columns behind the key and the value gives an empty mapping (`bibtexconv.1:110`) |

Every property of a passing run has a mutant of the code in `PROJECT.json` that
breaks it.

### Further disagreements

These are in the models, too, where properties make an exception for them:

* "Done. %u errors" (`bibtexconv.cc:999`) forgets the errors of a file that ends in `return 1` (line 725).
* A URL that is not HTTP gets neither the fields nor an error (`bibtexconv.cc:97`), while
  `bibtexconv.1:119` has no such limit. The same happens to an HTTP URL of IEEE Xplore
  whose page is a frame for a URL that is relative or not HTTP (`bibtexconv.cc:138-181`): `NoErrorMeansChecked` and
  `NoErrorMeansSettled` make an exception for it.
* "Existing files will be overwritten" (`bibtexconv.1:108`): a stored file is overwritten only if it was
  not there under the name that the entry gives when the check began, for example after the type of the document has changed.
  Otherwise the download is skipped (`bibtexconv.cc:219-233`, as `README.md:81` of the program says); `NoErrorMeansSettled` says
  that this is so after every check without errors.
* The output of `pdfinfo` stays in `/tmp` (`bibtexconv.cc:255`, 379; only the other two files are
  unlinked at 463 and 465). `OnlyPDFInfoIsLeft` says that it is the only one.
* An anchor that two publications get is not noticed (`bibtexconv.cc:545`, `publicationset.cc:91`): `cite A 1` and then `cite B` give
  both the anchor `1`. What `bibtexconv.1:148` calls the first of up to nine custom strings is
  this anchor.
* An empty MIME type goes into the entry as a `removeme` field if there was no `url.mime` (`bibtexconv.cc:417`,
  `node.cc:477`), so that the publication is checked again in each run.
* With a download directory, `--only-check-new-urls` is not looked at (`bibtexconv.cc:219`, `bibtexconv.1:122`).
* Notes with ISBN and ISSN are skipped when writing, not "when reading the BibTeX file"
  (`publicationset.cc:263`, `bibtexconv.1:129`).
* The 31st of July is warned of (`unification.cc:398`).
* A `%` in a DOI gets one more backslash from each run (`publicationset.cc:260`): only URLs are converted back.
* A month that has no name is dropped on export without a message (`publicationset.cc:247`).
* A publication without a year begins and ends nothing, while its neighbours begin and end
  theirs next to it (`publicationset.cc:962`); and months are compared without
  their years, so that the same month of two years has one heading.
* A `note` made from an ISBN is written without a comma after an entry's only field (`publicationset.cc:289`).

### Bounds

* `parser`: every single file of up to 4 items from two labels (one of which is
  the text of a comment's number), two types, two titles or none, comments and
  broken items; every pair, and many triples, of files of up to 2 items. Four items hold
  a keyword three times with another one in between, on either side of the
  reused node; three files make state outlive a file that is itself read.
  `MaxDepth` 5 with publications of width 3 makes the third of them overflow.
* `node_list`: 5 publications, 3 keywords, titles or none: duplicates at the
  head, in the middle, at the end, two pairs, and a keyword four times.
* `script`: 3 publications, 2 lines per file and 2 levels of files, each of
  which may give up; enough for select, clear, select again through an
  included file. The real level limit is 9 and is a constant. A script may give the number 1 as an anchor, the keyword of one
  publication is the number 2, and URL checks are on or off.
* `url_check`: one publication with an HTTP URL at IEEE Xplore, which may be a frame or not, and one of another protocol, five documents
  (same size with different sums, different sizes, an unknown type, an empty
  one), two checks, in one run or in two. Publications do not share fields or files.
* `template`: all templates of up to 3 tokens of any kind; all balanced ones of up to
  6 tokens with blocks inside of each other, alternatives and missing fields, or tests, or mappings;
  loops over bodies of up to 4 tokens, by themselves or in a block whose first
  alternative fails after the loop. Six tokens hold two blocks inside of an
  alternative that is skipped. Three authors are a first, a last, and one that is neither.

* `fields`: two runs, with a check in between or not; texts of up to 3 characters around
  braces, quotation marks, backslashes, `%` and spaces; every month with the days and years at the edges;
  pages of up to 3 numbers; five ISBNs and two ISSNs with every last digit and a
  wrong character or hyphen everywhere; up to 3 authors; and all entries of up to 2 fields
  out of ten. Three characters hold a pair of braces around one character and a backslash in front of either brace.
  The third run would read what the second one has written, which `ReadsBack` says is what it has read.
* `custom_export`: 3 columns instead of 16, with rows of up to 4, so that lines are shorter than, as long as and longer than
  the array, and headers with as many columns as the array and a gap behind the last one; an empty column in quotation marks,
and lines with nothing but their end; headers that end the
program, or from which no mapping can be read, with a single row behind them; rows of two or three columns with two of one key; one export of two publications for all the mappings,
  and two exports, the first of up to 4 publications with any dates, for one mapping. Four publications hold a
  comment and a publication without a date between two others.

The bounds (`MaxLines`, `MaxChecks`, the sets of files) are constants that only
guard how long a behaviour goes on, not what an action does.

### Fairness

Liveness is claimed for the parser, the scripts and the templates. The parser and the templates read files
or memory: the program never waits there (`%{exec}` is not modelled), so weak fairness of the next-state relation is what
any scheduler gives a runnable process. A script waits in one place, for the URL checks of its exports:
only the time for connecting is limited in the code, and a transfer may take forever. `FairSpec` of `ExportScript` is therefore
fair to the steps that are taken while no check is waited for, and to nothing else; `ScriptEnds` has the script come to an end or wait for
ever. Without `--check-urls`, it comes to an end. For the
same reason there is no property of the kind "a check ends" in `UrlCheck`. Deadlock is checked,
with explicit steps for the ended program, except in `url_check`, where
`MaxChecks` ends the behaviour.

## Proofs

`BibNodesProofs`: `MakePublicationCollectionMerges`. If `list` is a merge of
`rest`, then `makePublicationCollection(p, list)` is a merge of `<<p>> \o rest`, for any
number of publications. The lemmas follow the two paths of the code
(`NewMerge`, `ReuseMerge`) and `OtherMerge` says that the merge of the other
keywords is not disturbed.

`BibParserProofs`, about `Spec` for all command lines, labels, titles and stack
limits:

* `TypeCorrect`: `TypeOK` always holds.
* `CollectionMerges`: `CollectionIsMerge` always holds.
* `OutcomeFollows`: `OutcomeFollowsInput` always holds.
* `ParserImplementsCatalog`: the parser implements `BibCatalog`.

`CollectionIsMerge` is not inductive as it stands: it says nothing about the
stack while the file is still scanned, nor about the comment counter, from which
keywords are made. `IInv` adds `StackIsFront` (what has been scanned of the file
is what waits on the stack), `CommentsCounted` (the counter is the number of comment
tokens in the files so far, whose cardinality is computed step by
step) and `Position`. There is a lemma for each action. `OutcomeFollowsInput` has an
invariant of its own, on top of `IInv`: `FilesBefore` (the files that have been read were
readable), `ReadSoFar` (so are the items of this one, as far as the scanner has come) and
`CommentIsOpen` (between two files, the scanner is in its COMMENT state exactly if the last one left it
there). The theorems rest on the named
assumptions about the constants only; TLC evaluates these in each run.

`NodeListProofs`, about `Spec` for files of any length:

* `TypeCorrect`, `OwnersAreOne` and `ListAlwaysSound`: the invariants of the run.
* `NodeListImplementsCollection`: the pointer operations implement `Collection`.
* `ListReadsMerge`: read along the pointers, the list is at every step the merge of
  the publications put in front so far. This puts `MakePublicationCollectionMerges`, which is about
  sequences, to use for the pointers.

The inductive invariant says that there is a sequence `w` that is the list (`IsList`): each
`next` leads from one member to the following one, each `prev` back, the members are the nodes that are in use,
and they get larger, since a node is put in front of those that come after it in the file. The last point
keeps the walk from running in a circle and is what makes it end. `Untouched` adds
what the nodes are like that have not been put in front yet: their own child list, their own title and no `prev`.
`Unlinked` and `LinkedInFront` say what the pointer operations do to `w`; they are
about all positions in the list, the ends included. `Walk` is a recursive function: that
it meets `w` (`WalkFinds`) is shown by giving a function that satisfies its equation, and by the least step
at which another one would differ (`LeastOf`), in place of an induction.

`ExportScriptProofs`, for any number of publications, any sort commands, and files of
any length that include each other to any depth: `TypeCorrect`, `SelectionSound`,
`AbortsSound`, `ErrorsReach`, `AnchorsAreDifferent` and the action property `CiteAllSelects`. The inductive invariant has two
halves. `SelectionInv` adds `AllBefore` (citeAll has selected all publications before
the one that it comes to next), without which nothing is known when it is
through; that a sorted array holds nothing twice, and that a full one holds everything, are
counted with the injections and surjections of the library. `NestingInv` is
kept by each of the ways in which a line ends: `GoOnPreserves`, `ReturnPreserves`
(which `GiveUp` and `EndOfFile` share) and `IncludePreserves`. `AnchorsAreDifferent` needs `AnchorInv`: an
anchor comes from the script, is the keyword, or is a number below the count at which `cite` makes up the next one. Equal texts
are told apart by where they came from: two numbers are different because the count was, two keywords
because keywords are (`KeywordsAssumption`). `CheckInv` is the type of `check`.
`ComparisonIsAnOrder` is what `qsort()` needs of the comparison that it is given: for any levels, ascending or descending,
and with fields missing, it is a strict weak order (asymmetric and transitive, and so is being equal for it), because
the first level that tells two publications apart is the least one in a set of numbers.

`UrlCheckProofs`, for any number of publications, documents, runs and checks, whatever fails:
`TypeCorrect`, `OnlyPDFInfoLeft`, `NoErrorChecked`, `NoErrorSettled`, `StoredMatches`. All five properties are
about the end of a check or about the time between two runs. `IInv` says what holds on the way: `CheckedBefore` (as long
as no error has been counted, the publications behind the loop are checked, and their documents stored under the name that
their entry gives), `Renaming` (between the update of an entry and `rename()`, the entry is already about the new
document) and `MatchInv` (the entries in memory agree with the directory, but for the one that is
about to be renamed; those in the file agree when nothing runs). `ErrorsCounted` keeps the error counter in its type, `PDFInv` has the output of `pdfinfo` stay, and `FrameIsDynamic`
has the page that is a frame be one of IEEE Xplore.

`TemplateProofs`, for all templates, well-formed or not, and any number of authors:
`TypeCorrect`, `StackSound`, `AuthorThere`. The three invariants are
proved together (`IInv`), because the type of `result` depends on the stack: it is cut
off at the positions that the stack holds. That the search for the end of a
block finds a place (`EndOfBlockIsPlace`) rests on the least element of a
set of numbers (`LeastOf`), from the well-foundedness theorems of the library.

`PublicationFieldsProofs`, for entries of any length, any options, anything that `pdfinfo` may say, and any number of
runs of the program: `TypeCorrect`, `AlwaysInOrder`, `DaysAlwaysJudged`, `PagesAlwaysCounted`, `NumberErrorsFound`, and the
action property `UpdatesFound`. What is assumed of an entry is what the code reads of it (`IsEntry`): a year is some number,
pages are numbers, the month is one or none, an ISBN is any characters.

* The inductive invariant `IInv` has `EntriesInv` in addition to the properties: what a run exports is an entry again, so
  that the next run starts from one (`EntryIsWritten`); `NumbersAreJudged`: an ISBN or ISSN is warned of exactly if its
  checksum is wrong, also after the fields have been sorted and the date and URL been unified; and `PagesInv`, the same for
  the pages as they are written: the pages that `unifyPages()` writes are read as the same range (`RangeIsReadAgain`).
* Fields may come several times. Every step is therefore about lists as they are: sorting rearranges the list
  (`SortChildrenSorts`: a permutation of the places), an added field moves the others by one place (`InFrontNumbers`),
  replacing a value leaves all fields where they are (`ReplaceKeeps`); `KeepsAllBut` adds these up along `makePublication()`.
  `AllUpdates` does so along the updates of a check, whatever the number of lines that `pdfinfo` writes. `Updated` says what is known
  after some of them, also of a MIME type without content (`EmptyMime`): a field that is there is
  emptied, and if there is none, none comes and the `removeme` that was made of it stays.
* Lists are computed by recursive functions. That there is a function with the given equation is proved here
  (`RecursiveFunctionExists`: the least argument without a value would be a contradiction), and facts about its values are proved by a least
  counterexample (`LeastOf`), in place of an induction.
* `NumberErrorsFound` goes from the numbers to the texts. Of two ISBN-10 (or ISBN-13, or ISSNs)
  that differ in one digit, the code accepts at most one (`ISBN10FindsWrongDigit` and
  its siblings), and two digits that change places are noticed in ISBN-10 and ISSN (`ISBN10FindsSwap`,
  `ISSNFindsSwap`; not so in ISBN-13, where digits of the same weight, or that differ by five, may change places). The argument is the one of
  the standards, on the sums as the code adds them up: the change is
  a weight times a difference of digits, which 11 does not divide, nor 10 for the weights 1 and 3. `ReadSomehow` says that
  texts with hyphens at the same places are read at the same places, so that a digit of the text is one digit of the
  number; `WithoutHyphen` that a hyphen may go, unless it is the last character: behind it, an X would count.
* `DaysJudged` says that in every year the warnings about days are those of the calendar and the one for the 31st of July,
  a table entry that is wrong.

`CustomExportProofs`, for all mapping files and any number of exports of any length: `TypeCorrect`,
`SubdivisionsAlwaysMatch`, `EachIsWrittenOnce`, `CrashesAreKnown`, `RowsAreAlwaysMapped`. The first two properties are about records, of which only the publications know
their neighbours. The invariant therefore relates the two: `RecordsShown` (the records are the publications before
`index` that are no comments, in order), `PreviousIsLast` (`previous` is the last one of them, and only comments follow it) and
`RecordsWritten` (each record begins and ends what its publication begins and ends next to the neighbours that it has
in the selection, and the next record is that of the following publication). `Numbered`, `InOrder` and `NoneLeftOut` are the
numbers. `EachIsWritten` is stated with comparisons of the numbers, not as an equality with a sorted sequence,
which says the same and needs no recursive operator.

`CrashesAreKnown` and `RowsAreAlwaysMapped` are about all files of mappings whose rows are as `IsRow` says (an assumption on
`Inputs`, `InputsAssumption`), arrays of any size, and any number of options.

* `SplitUnfolds` gives the states of `splitLine()`, turn by turn, from the recursive function of `SplitLine`; each turn
  is of one of five kinds, as in the loop (`TurnCases`). `FlattenUnfolds` does the same for
  `FlattenSeq`, with which `LineOf` writes a line.
* `CrashesAreKnown` needs `Orderly`: in a line that does not begin with a gap and has no `\` in it, each column that is behind
  has been started and has a gap of its own. There are thus no more columns than gaps (`GapsAreCounted`) and none of them is null
  (`ColumnsAreThere`). `ReadingInv` is the invariant of the program: the rows that are left are the end of
  the file that is read, and the options that are left the end of those given.
* `RowsAreAlwaysMapped` needs to know what `splitLine()` makes of every line that its author laid out with care. `IsLaid`
  gives the places of columns and gaps in a line; `IsWhere` says that at every character, `splitLine()` is in front of, inside
  or behind a column, with those before it started and ended where they should. Every turn keeps it (`FromTheFront`,
  `OnInside`, `ToTheNext`), so that the columns it finds are those of the layout (`LaidIsSplit`). The line that `LineOf` writes for a row is laid
  out in this way (`RowIsLaid`); hence the columns of the row come back (`RowIsSplit`).
* The invariant over the rows is `MappedInv`: while a file is read, its mapping is what the rows read so far mean
  (`MeaningUpTo`), it is registered exactly when the file is the first of its name with anything in it, and
  the mappings of the files before stay what they are. `MeaningGrows` is the step, as `std::map::insert()` takes it: a key keeps its
  first value.

In both, a least counterexample (`LeastOf`) stands in place of an induction over the line.

The inductive invariants were checked with TLC before they were proved, on the instances of the runs, or (`MappedInv`,
`ReadingInv`) on a part of them.

Only model-checked:

* liveness, which is out of the prover's reach: that the parser, scripts and templates come to an end;
* `WritesMeaning` and `WellFormedIsAccepted`: `TemplateMeaning` is defined by recursion on the structure of
  the template, and the proof would be an induction over data;
* `ReadsBack` and `WrittenIsReadable`: they are about what conversions of texts do to all texts, and the proof would be an induction over
  the text. `NumberErrorsFound` and `RowsAreAlwaysMapped` show what such a proof takes for a single conversion, `PureNumber()` or
  `splitLine()`, with least counterexamples; here there are eight, one after the other.

## Not modelled

The text of the output formats and the table of LaTeX characters; the XML export, and BibTeX exports of
one file for each entry; comments inside of entries; initials of names; naming templates and
`%{exec}`; printing settings and custom strings of a script; `extractToken()`; command line options;
`ietf2bibtex`; shell scripts; packaging. Warnings about missing and repeated fields are messages
only. `PROJECT.json` gives the reasons.

## Plan

1. (done) Core: `BibNodes`, `BibFiles`, `BibParser` against `BibCatalog`; `NodeList` against `Collection`; `ExportScript`; `UrlCheck`; `Template` against `TemplateMeaning`; first theorems.
2. (done) Fields: `Unification`, `FieldText`, `PublicationFields`, over several runs.
3. (done) `Mappings` and `CustomExport` with its subdivisions.
4. (done) Proofs about the parser, the node list, the scripts, the URL checks, the templates, the custom export and the fields.
5. XML export and separate files; two processes that share the file for the output of `pdfinfo`; the cache of `ietf2bibtex`.
