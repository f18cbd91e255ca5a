----------------------------- MODULE MCTemplate -----------------------------
(***************************************************************************)
(* All short templates of all tokens, and longer ones whose blocks end     *)
(* where they should: with both kinds of blocks, with tests, and with a    *)
(* loop, by itself or in the first alternative of a block.                 *)
(***************************************************************************)
EXTENDS TemplateMeaning

CONSTANTS MaxLength, MaxBlocks, MaxLoop

(***************************************************************************)
(* The sequences of n tokens in plain and of blocks in kinds.              *)
(***************************************************************************)
Nested(kinds, plain, n) ==
    LET of[m \in 0 .. n] ==
            IF m = 0 THEN {<<>>}
            ELSE {<<x>> \o t : x \in plain, t \in of[m - 1]}
                    \cup UNION {{<<k[1]>> \o s \o <<k[2]>> \o t :
                                    k \in kinds, s \in of[l], t \in of[m - 2 - l]} :
                                l \in 0 .. m - 2}
    IN  UNION {of[m] : m \in 0 .. n}

Square == <<"[", "]">>
Round  == <<"(", ")">>

Bodies == Nested({Square}, {"|", "text", "author", "is-first-author?",
                            "is-not-last-author?"}, MaxLoop)

MCTemplates ==
    BoundedSeq(Token, MaxLength)
        \cup Nested({Square, Round}, {"|", "text", "missing"}, MaxBlocks)
        \cup Nested({Square}, {"|", "text", "missing", "is-not?"}, MaxBlocks)
        \cup Nested({Square}, {"text", "missing", "map"}, MaxBlocks)
        \cup {<<"begin">> \o t \o <<"end">> : t \in Bodies}
        \cup {<<"[", "begin">> \o t \o <<"end", "missing", "|", "text", "]">> :
                  t \in Bodies}
=============================================================================
