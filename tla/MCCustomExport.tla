--------------------------- MODULE MCCustomExport ---------------------------
(***************************************************************************)
(* Many files of mappings with one small export, and many exports with a   *)
(* few mappings.                                                           *)
(***************************************************************************)
EXTENDS CustomExport

CONSTANTS MaxPublications

Plain(text)  == [text |-> text, quoted |-> FALSE]
Quoted(text) == [text |-> text, quoted |-> TRUE]

Row(columns) == [lead |-> <<>>, gap |-> <<" ">>, columns |-> columns, ending |-> <<"\n">>]

K == <<"K">>
V == <<"V">>

Headers == {Row(c) : c \in {<<Plain(K), Plain(V)>>, <<Quoted(V), Plain(K)>>,
                            <<Plain(V), Plain(<<"a">>), Plain(K)>>,
                            <<Plain(K), Plain(V), Plain(<<"a">>)>>,
                            <<Plain(K), Quoted(<<>>), Plain(V)>>,
                            <<Plain(K), Plain(V), Plain(K), Plain(V)>>}}

\* Headers that lack a column, or end the program, or may end it
OddHeaders == {Row(<<>>), Row(<<Plain(K), Plain(<<"a">>)>>),
               Row(<<Plain(<<"a">>), Plain(<<"b">>), Plain(K), Plain(V)>>),
               Row(<<Plain(K), Quoted(<<>>), Quoted(<<"a", " ", "b">>)>>),
               [Row(<<Plain(K), Plain(V)>>) EXCEPT !.lead = <<" ">>]}
              \cup {[Row(<<Plain(K)>> \o c) EXCEPT !.ending = <<" ", "\n">>] :
                       c \in {<<Plain(V)>>, <<Plain(V), Plain(<<"a">>)>>,
                             <<Plain(<<"a">>), Plain(<<"a">>)>>}}

Columns == {Plain(<<"a">>), Plain(<<"b">>), Quoted(<<"a">>), Quoted(<<"a", " ", "b">>),
            Quoted(<<>>), Quoted(<<"\"", "b">>), Plain(<<"#">>)}

Rows ==
    {Row(c) : c \in BoundedSeq(Columns, 2)}
        \cup {Row(c) : c \in SeqOf({Plain(<<"a">>), Quoted(<<"a">>), Quoted(<<>>)}, 3)}

\* Gaps and ends of all kinds; the last one may lack its newline
OddRows ==
    {Row(<<>>)} \cup {[lead |-> l, gap |-> g, columns |-> c, ending |-> e] :
         l \in {<<>>, <<" ">>}, g \in {<<" ">>, <<" ", " ">>},
         c \in SeqOf({Plain(<<"a">>), Quoted(<<"a", " ", "b">>)}, MaxColumns + 1) \ {<<>>},
         e \in {<<>>, <<"\n">>, <<" ", "\n">>}}

SecondRows == {Row(<<Plain(<<"a">>), Plain(<<"c">>)>>),
               Row(<<Plain(<<"b">>), Plain(<<"a">>), Quoted(<<"a">>)>>)}

File(rows) == [name |-> "m", rows |-> rows, key |-> K, value |-> V]

SimpleHeader == Row(<<Plain(K), Plain(V)>>)
Simple       == File(<<SimpleHeader, Row(<<Plain(<<"a">>), Plain(<<"b">>)>>)>>)
Other        == [File(<<SimpleHeader, Row(<<Plain(<<"a">>), Plain(<<"c">>)>>)>>)
                     EXCEPT !.name = "other"]

ManyFiles ==
    {<<File(<<h>> \o r)>> : h \in Headers,
         r \in {<<q>> : q \in OddRows} \cup {<<q, s>> : q \in Rows, s \in SecondRows}
                   \cup {<<s, q>> : s \in SecondRows, q \in Rows}}
        \cup {<<File(<<h, s>>)>> : h \in OddHeaders, s \in SecondRows}

FewFiles == {<<>>, <<File(<<>>)>>, <<Simple>>, <<File(<<>>), Simple>>, <<Other, Simple>>,
             <<Simple, [Other EXCEPT !.name = "m"]>>, <<[Other EXCEPT !.name = "m"], Simple>>,
             <<Other>>}

Comment == [comment |-> TRUE, fields |-> <<>>, key |-> <<"a">>]

Dated(fields) == [comment |-> FALSE, fields |-> fields, key |-> <<"a">>]

Dates == {<<>>} \cup {[year |-> y] : y \in 1 .. 2}
             \cup {[year |-> y, month |-> m] : y \in 1 .. 2, m \in 1 .. 2}

Publications == {Comment} \cup {Dated(d) : d \in Dates}

OneSelection == <<Dated(<<>>), [Dated(<<>>) EXCEPT !.key = <<"b">>]>>

Input(options, selections) == [options |-> options, selections |-> selections]

MCInputs == {Input(a, <<OneSelection>>) : a \in ManyFiles \cup FewFiles}
                \cup {Input(<<Simple>>, <<s, <<Dated(<<>>), Comment>>>>) :
                          s \in SeqOf(Publications, MaxPublications)}
=============================================================================
