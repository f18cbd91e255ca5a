------------------------- MODULE MCPublicationFields -------------------------
(***************************************************************************)
(* Entries of a few fields that bear on each other: texts of all kinds,    *)
(* dates, pages, numbers and notes, names, and fields in any order.        *)
(***************************************************************************)
EXTENDS PublicationFields

CONSTANTS MaxText, MaxItems

Text(k, s)   == [keyword |-> k, value |-> [text |-> s]]
Number(k, n) == [keyword |-> k, value |-> [number |-> n]]
Month(m)     == [keyword |-> "month", value |-> [month |-> m]]
PagesOf(p)   == [keyword |-> "pages", value |-> [pages |-> p]]
Code(k, d)   == [keyword |-> k, value |-> [digits |-> d]]
Names(n)     == [keyword |-> "author", value |-> [names |-> n]]

Optional(items) == {<<>>} \cup {<<i>> : i \in items}

\* Texts that the scanner can have read, in braces or in quotation marks
Texts(characters) ==
    {s \in BoundedSeq(characters, MaxText) : ReadsBraced(s) \/ ReadsQuoted(s)}

TextEntries ==
    {<<Text("x", <<"a">>), Text(k, s)>> :
         k \in {"title", "note", "doi"}, s \in Texts({"a", " ", "{", "}", "\\", "\""})}
        \cup {<<Text(k, s)>> : k \in {"url", "doi"},
                  s \in Texts({"a", "%", "{", "}", "\\", " "})}
        \cup {<<Text("url", s)>> :
                  s \in Texts({"\\url", "{", "}", "ieee", "&isnumber="})}
        \cup {<<Text(k, s)>> : k \in {"booktitle", "journal"}, s \in Texts({"a", " ", "("})}

DateEntries ==
    {y \o m \o d :
        y \in Optional({Number("year", n) : n \in {0, 1600, 1900, 2000, 2023, 2024}}),
        m \in Optional({Month(n) : n \in 0 .. 12}),
        d \in Optional({Number("day", n) : n \in {0, 1, 28, 29, 30, 31, 32}})}

PageEntries ==
    {n \o <<PagesOf(p)>> \o u :
        p \in BoundedSeq(0 .. 3, 3),
        n \in Optional({Number("numpages", k) : k \in {0, 2, 3}}),
        u \in Optional({Text("url", <<"a">>)})}

(***************************************************************************)
(* Two ISBN-13, three ISBN-10, two ISSNs; each as it is, and with another  *)
(* last digit, a wrong character or a character of several bytes.          *)
(***************************************************************************)
ISBNs == {<<9, 7, 8, 3, 1, 6, 1, 4, 8, 4, 1, 0, 0>>, <<9, 7, 8, 0, 3, 0, 6, 4, 0, 6, 1, 5, 7>>,
          <<0, 3, 0, 6, 4, 0, 6, 1, 5, 2>>, <<0, 8, 0, 4, 4, 2, 9, 5, 7, X>>,
          <<9, 9, 9, 2, 1, 5, 8, 1, 0, 7>>}
ISSNs == {<<2, 0, 4, 9, 3, 6, 3, 0>>, <<2, 4, 3, 4, 5, 6, 1, X>>}

Variants(n) ==
    {[n EXCEPT ![Len(n)] = d] : d \in 0 .. 10}
        \cup {InsertAt(n, i, c) : i \in 1 .. Len(n) + 1, c \in {Hyphen, AByte, Other}}
        \cup {InsertAt(InsertAt(n, i, AByte), i, AByte) : i \in 1 .. Len(n) + 1}

CodeEntries ==
    {<<Code("isbn", v)>> : v \in UNION {Variants(n) : n \in ISBNs}}
        \cup {<<Code("issn", v)>> : v \in UNION {Variants(n) : n \in ISSNs}}

AName(form, words, family) == [form |-> form, words |-> words, family |-> family]

NameEntries ==
    {<<Names(n)>> : n \in SeqOf({AName("plain", <<"F">>, 0), AName("plain", <<"J", "F">>, 0),
                                 AName("comma", <<"F", "J">>, 1),
                                 AName("comma", <<"van", "F", "J", "K">>, 2),
                                 AName("braced", <<"IETF", "WG">>, 0)}, 3) \ {<<>>}}

OrderEntries ==
    BoundedSeq({Names(<<AName("plain", <<"J", "F">>, 0)>>), Text("title", <<"{", "a", "}">>),
                Text("title", <<>>), Text("note", <<"a">>), Text("note", <<"ISBN", " ", "a">>),
                Code("isbn", <<0, 3, 0, 6, 4, 0, 6, 1, 5, 2>>),
                Text("url.md5", <<"ignore">>), Text("keywords", <<"a">>),
                Text("url", <<"a">>), Text("comment", <<"a", " ">>)}, MaxItems)

MCEntries == TextEntries \cup DateEntries \cup PageEntries \cup CodeEntries
                 \cup NameEntries \cup OrderEntries

MCOptions == {[skipNotes |-> FALSE, addNotes |-> FALSE, urlCommand |-> FALSE],
              [skipNotes |-> TRUE,  addNotes |-> FALSE, urlCommand |-> FALSE],
              [skipNotes |-> TRUE,  addNotes |-> TRUE,  urlCommand |-> TRUE]}

MCPDFInfos == {<<>>,
               <<[keyword |-> "url.keywords", value |-> NoText], Number("numpages", 2),
                 Text("url.pagesize", <<"a">>)>>,
               <<[keyword |-> "url.keywords", value |-> [text |-> <<"a">>]]>>}
=============================================================================
