-------------------------- MODULE TemplateMeaning --------------------------
(***************************************************************************)
(* What a template means, by its blocks and not by a walk through it:      *)
(* bibtexconv.1, "The template allows the evaluation of blocks".           *)
(*                                                                         *)
(* A [...] or (...) block has alternatives, separated by |.  One of them   *)
(* fails if a field is missing or a test fails in it, outside of the [...] *)
(* blocks in it.  The first one that does not fail is written; if all of   *)
(* them fail, the block is empty, and a (...) block lets the alternative   *)
(* that it is in fail as well.  A loop stands for as many copies of its    *)
(* body as there are authors.                                              *)
(***************************************************************************)
EXTENDS Template, SequencesExt

(***************************************************************************)
(* A loop written out: tokens with the place that they came from and the   *)
(* author that they are for.                                               *)
(***************************************************************************)
Places(t, token) == {p \in DOMAIN t : t[p] = token}
LoopStart(t) == CHOOSE p \in Places(t, "begin") : TRUE
LoopEnd(t)   == CHOOSE p \in Places(t, "end") : TRUE

Copy(t, from, to, hasAuthor, index) ==
    [j \in 1 .. to - from + 1 |->
        [token |-> t[from + j - 1], place |-> from + j - 1,
         author |-> hasAuthor, index |-> index]]

WrittenOut(t, n) ==
    IF Places(t, "begin") = {} THEN Copy(t, 1, Len(t), FALSE, 0)
    ELSE LET b == LoopStart(t)
             e == LoopEnd(t)
             bodies == [k \in 1 .. (IF n = 0 THEN 1 ELSE n) |->
                           Copy(t, b + 1, e - 1, n > 0, k - 1)]
         IN  Copy(t, 1, b - 1, FALSE, 0) \o FlattenSeq(bodies)
                \o Copy(t, e + 1, Len(t), FALSE, 0)

-----------------------------------------------------------------------------
(***************************************************************************)
(* Blocks of a template, named by the place where they begin.              *)
(***************************************************************************)
Blocks(t) == {p \in DOMAIN t : t[p] \in Opening}

Depth(t, p) == Cardinality({q \in 1 .. p : t[q] \in Opening})
               - Cardinality({q \in 1 .. p : t[q] \in Closing})

EndOf(t, b) == CHOOSE e \in b + 1 .. Len(t) :
                  /\ Depth(t, e) < Depth(t, b)
                  /\ \A q \in b .. e - 1 : Depth(t, q) >= Depth(t, b)

Balanced(t) ==
    /\ \A p \in DOMAIN t : Depth(t, p) >= 0
    /\ Depth(t, Len(t)) = 0
    /\ \A b \in Blocks(t) : <<t[b], t[EndOf(t, b)]>> \in {<<"[", "]">>, <<"(", ")">>}

BlocksAround(t, p) == {b \in Blocks(t) : b < p /\ p < EndOf(t, b)}

\* p is in block b and in no block inside of it
Directly(t, b, p) ==
    b \in BlocksAround(t, p) /\ \A c \in BlocksAround(t, p) : c <= b

(***************************************************************************)
(* The alternatives of a block, named by the place in front of them; what  *)
(* alternative a of block b holds, apart from what is in its inner blocks. *)
(***************************************************************************)
Alternatives(t, b) == {b} \cup {p \in DOMAIN t : t[p] = "|" /\ Directly(t, b, p)}

In(t, b, a) ==
    {p \in a + 1 .. EndOf(t, b) - 1 :
        Directly(t, b, p) /\ \A c \in Alternatives(t, b) : c <= a \/ p < c}

AlternativeAt(t, b, p) ==
    CHOOSE a \in Alternatives(t, b) :
        a < p /\ \A c \in Alternatives(t, b) : c <= a \/ p < c

SameAlternative(t, p, q) ==
    /\ BlocksAround(t, p) = BlocksAround(t, q)
    /\ \A b \in BlocksAround(t, p) :
          AlternativeAt(t, b, p) = AlternativeAt(t, b, q)

(***************************************************************************)
(* The templates that have a meaning here.  Neither alternatives in (...)  *)
(* nor mappings are among them.                                            *)
(***************************************************************************)
WellFormed(t) ==
    /\ Balanced(t)
    /\ \A p \in Places(t, "|") \cup Places(t, "is-not?") : BlocksAround(t, p) # {}
    /\ \A b \in Blocks(t) : t[b] = "(" => Alternatives(t, b) = {b}
    /\ \/ Places(t, "begin") = {} /\ Places(t, "end") = {}
       \/ \E b, e \in DOMAIN t :
             /\ Places(t, "begin") = {b} /\ Places(t, "end") = {e}
             /\ b < e /\ SameAlternative(t, b, e)

HasMeaning(t) == WellFormed(t) /\ Places(t, "map") = {}

-----------------------------------------------------------------------------
(***************************************************************************)
(* u is a template written out, t its tokens.  fails and shown are sets of *)
(* places: of the alternatives that fail, and of the tokens that write     *)
(* something that is not erased inside of block b.                         *)
(***************************************************************************)
Tokens(u) == [p \in DOMAIN u |-> u[p].token]

Writes(u, p) == \/ u[p].token = "text"
                \/ u[p].token = "author" /\ u[p].author

Chosen(t, b, fails) ==
    {a \in Alternatives(t, b) \ fails :
        \A c \in Alternatives(t, b) \ fails : a <= c}

(***************************************************************************)
(* Text p that comes before place q of alternative a of block b and is not *)
(* erased when q is reached: no test came between, in each block inside of *)
(* b that it is in it is in the chosen alternative, and no test followed.  *)
(***************************************************************************)
NoTest(t, b, from, to) ==
    \A q \in from + 1 .. to : t[q] = "is-not?" => ~Directly(t, b, q)

Remains(t, p, b, fails) ==
    \A c \in BlocksAround(t, p) : c > b =>
       \E a \in Chosen(t, c, fails) :
          /\ AlternativeAt(t, c, p) = a
          /\ \A q \in In(t, c, a) : t[q] = "is-not?" => q < p

AnyWritten(u, t, b, a, q, fails) ==
    \E p \in a + 1 .. q - 1 :
       /\ Writes(u, p)
       /\ NoTest(t, b, p, q - 1)
       /\ Remains(t, p, b, fails)

FailsAt(u, t, b, a, p, fails) ==
    \/ t[p] = "missing"
    \/ t[p] = "is-not?" /\ ~AnyWritten(u, t, b, a, p, fails)
    \/ t[p] \in AuthorTests
          /\ ~Holds(t[p], u[p].author, u[p].index,
                    \A q \in DOMAIN u : u[q].author => u[q].index <= u[p].index)

\* p begins a (...) block, which fails if its only alternative does
BlockFailsAt(t, p, fails) == t[p] = "(" /\ p \in fails

(***************************************************************************)
(* The alternatives that fail: inner blocks come after the beginning of    *)
(* the alternative that they are in, so the last alternative is first.     *)
(***************************************************************************)
Failing(u, t) ==
    LET IsStart(a, b) == a \in Alternatives(t, b)
        from[a \in 1 .. Len(t) + 1] ==
            IF a > Len(t) THEN {}
            ELSE LET later == from[a + 1]
                 IN  later \cup
                     {s \in {a} : \E b \in Blocks(t) :
                         /\ IsStart(s, b)
                         /\ \E p \in In(t, b, s) :
                               \/ FailsAt(u, t, b, s, p, later)
                               \/ BlockFailsAt(t, p, later)}
    IN  from[1]

Meaning(template, n) ==
    LET u == WrittenOut(template, n)
        t == Tokens(u)
        fails == Failing(u, t)
        shown == SelectSeq([p \in DOMAIN u |-> p],
                           LAMBDA p : Writes(u, p) /\ Remains(t, p, 0, fails))
    IN  [k \in DOMAIN shown |-> <<u[shown[k]].place, u[shown[k]].index>>]

-----------------------------------------------------------------------------
(***************************************************************************)
(* The interpreter writes what a template means, for every number of       *)
(* authors.                                                                *)
(***************************************************************************)
WritesMeaning ==
    phase = "done" /\ HasMeaning(printingTemplate)
    => result = Meaning(printingTemplate, authors)

(***************************************************************************)
(* A template whose blocks and loops are well-formed comes to its end: no  *)
(* error ends the program, and no block is looked for that is not there.   *)
(***************************************************************************)
WellFormedIsAccepted ==
    phase \in {"exited", "undefined"} => ~HasMeaning(printingTemplate)

(***************************************************************************)
(* bibtexconv.1, of [...]: "If a referenced placeholder, e.g. %{url}, does *)
(* not exist, the block will be emptied."  Stated for well-formed          *)
(* templates without alternatives: in a block with a missing placeholder   *)
(* that is not in a [...] block inside of it, nothing is written.          *)
(***************************************************************************)
BlocksAreEmptied ==
    phase = "done" /\ WellFormed(printingTemplate)
                   /\ Places(printingTemplate, "|") = {}
    => \A b \in Blocks(printingTemplate) :
          (\E p \in Places(printingTemplate, "missing") :
              Directly(printingTemplate, b, p))
          => \A k \in DOMAIN result :
                b \notin BlocksAround(printingTemplate, result[k][1])
=============================================================================
