-------------------------- MODULE BibParserProofs --------------------------
(***************************************************************************)
(* The parser builds the merge of each file that it reads, for command     *)
(* lines of any number of files of any length: TypeOK, CollectionIsMerge   *)
(* and the implementation of BibCatalog.                                   *)
(***************************************************************************)
EXTENDS BibParser, BibNodesProofs, FiniteSetTheorems

Pubs == Publications(files, fileNo)

(***************************************************************************)
(* CollectionIsMerge alone is not inductive: when the parser turns around  *)
(* at the end of the file, its stack must be known to hold the whole file, *)
(* and comments to have their numbers.                                     *)
(***************************************************************************)
Position ==
    /\ files \in Inputs
    /\ phase = "open" => fileNo < Len(files)
    /\ phase \in {"scan", "reduce"} => fileNo > 0

StackIsFront ==
    phase \in {"scan", "reduce"} => /\ Len(stack) <= Len(Pubs)
                                    /\ stack = SubSeq(Pubs, 1, Len(stack))

ScanFollowsStack == phase = "scan" => next = Len(stack) + 1

CollIsMerge ==
    phase = "reduce" =>
       /\ Len(stack) < Len(Pubs)
       /\ IsMergeOf(coll, SubSeq(Pubs, Len(stack) + 1, Len(Pubs)))

CommentsCounted ==
    /\ phase = "open" =>
          commentLabel = IF fileNo = 0 THEN 0
                         ELSE Cardinality(CommentTokens(files, fileNo, LastItem))
    /\ phase = "scan" =>
          commentLabel = Cardinality(CommentTokens(files, fileNo, next - 1))
    /\ phase = "reduce" =>
          commentLabel = Cardinality(CommentTokens(files, fileNo, LastItem))

IInv == /\ TypeOK
        /\ Position
        /\ StackIsFront
        /\ ScanFollowsStack
        /\ CollIsMerge
        /\ CommentsCounted

-----------------------------------------------------------------------------
(***************************************************************************)
(* What a file stands for: that its publications are nodes, and how the    *)
(* numbers of the comments grow from item to item and from file to file.   *)
(***************************************************************************)
LEMMA FileFacts ==
    ASSUME NEW fs \in Inputs, NEW f \in DOMAIN fs
    PROVE  /\ Tokens(fs[f]) \in Nat
           /\ Tokens(fs[f]) <= Len(fs[f].items)
           /\ fs[f].items \in Seq(Item)
           /\ fs[f].found \in BOOLEAN /\ fs[f].open \in BOOLEAN
           /\ \A i \in 1 .. Tokens(fs[f]) : fs[f].items[i] \in Item
<1>1. fs[f] \in File
  BY InputsAssumption
<1>2. fs[f].open => fs[f].items # <<>>
  BY InputsAssumption
<1>3. /\ fs[f].items \in Seq(Item)
      /\ fs[f].found \in BOOLEAN /\ fs[f].open \in BOOLEAN
  BY <1>1 DEF File
<1> DEFINE s == fs[f].items
<1>4. Len(s) \in Nat /\ (s # <<>> => Len(s) > 0)
  BY <1>3
<1>5. Tokens(fs[f]) \in Nat /\ Tokens(fs[f]) <= Len(s)
  BY <1>2, <1>4 DEF Tokens
<1>6. \A i \in 1 .. Tokens(fs[f]) : s[i] \in Item
  BY <1>3, <1>4, <1>5
<1> QED
  BY <1>3, <1>5, <1>6

LEMMA CommentTokensFinite ==
    ASSUME NEW fs \in Inputs, NEW f \in DOMAIN fs, NEW i \in Nat
    PROVE  /\ IsFiniteSet(CommentTokens(fs, f, i))
           /\ Cardinality(CommentTokens(fs, f, i)) \in Nat
<1> DEFINE Of(g) ==
             {g} \X CommentsIn(fs[g], IF g < f THEN Tokens(fs[g]) ELSE i)
<1>1. f \in Nat /\ \A g \in 1 .. f : g \in DOMAIN fs
  BY InputsAssumption
<1>2. ASSUME NEW g \in 1 .. f
      PROVE  IsFiniteSet(Of(g))
  <2> DEFINE n == IF g < f THEN Tokens(fs[g]) ELSE i
  <2>1. n \in Nat
    BY <1>1, FileFacts
  <2>2. IsFiniteSet(CommentsIn(fs[g], n))
    <3>1. IsFiniteSet(1 .. n)
      BY <2>1, FS_Interval
    <3> QED
      BY <3>1, FS_Subset DEF CommentsIn
  <2> QED
    BY <2>2, FS_Singleton, FS_Product
<1>3. IsFiniteSet({Of(g) : g \in 1 .. f})
  <2> DEFINE F == [g \in 1 .. f |-> Of(g)]
  <2>1. IsFiniteSet(1 .. f)
    BY <1>1, FS_Interval
  <2>2. F \in Surjection(1 .. f, {Of(g) : g \in 1 .. f})
    BY DEF Surjection
  <2> QED
    BY <2>1, <2>2, FS_Surjection
<1>4. IsFiniteSet(UNION {Of(g) : g \in 1 .. f})
  BY <1>2, <1>3, FS_UNION
<1> QED
  BY <1>4, FS_CardinalityType DEF CommentTokens

(***************************************************************************)
(* One item more: only a comment counts.                                   *)
(***************************************************************************)
LEMMA CommentTokensNext ==
    ASSUME NEW fs \in Inputs, NEW f \in DOMAIN fs, NEW i \in Nat
    PROVE  LET before == CommentTokens(fs, f, i)
               after  == CommentTokens(fs, f, i + 1)
           IN  Cardinality(after) =
                 IF fs[f].items[i + 1].kind = Comment
                 THEN Cardinality(before) + 1 ELSE Cardinality(before)
<1> DEFINE before == CommentTokens(fs, f, i)
           after  == CommentTokens(fs, f, i + 1)
<1>1. f \in Nat \ {0}
  BY InputsAssumption
<1>2. ASSUME fs[f].items[i + 1].kind # Comment
      PROVE  CommentsIn(fs[f], i + 1) = CommentsIn(fs[f], i)
  BY <1>2 DEF CommentsIn
<1>3. ASSUME fs[f].items[i + 1].kind = Comment
      PROVE  CommentsIn(fs[f], i + 1) = CommentsIn(fs[f], i) \cup {i + 1}
  BY <1>3 DEF CommentsIn
<1> DEFINE Earlier == UNION {{g} \X CommentsIn(fs[g], Tokens(fs[g])) :
                                g \in 1 .. f - 1}
<1>4. \A n : CommentTokens(fs, f, n) = Earlier \cup ({f} \X CommentsIn(fs[f], n))
  <2> TAKE n
  <2>1. /\ \A g \in 1 .. f : g = f \/ (g \in 1 .. f - 1 /\ g < f)
        /\ \A g \in 1 .. f - 1 : g \in 1 .. f /\ g < f
        /\ f \in 1 .. f /\ ~(f < f)
    BY <1>1
  <2> QED
    BY <2>1 DEF CommentTokens
<1>5. CASE fs[f].items[i + 1].kind # Comment
  BY <1>2, <1>4, <1>5
<1>6. CASE fs[f].items[i + 1].kind = Comment
  <2>1. after = before \cup {<<f, i + 1>>}
    BY <1>3, <1>4, <1>6
  <2>2. <<f, i + 1>> \notin before
    <3>1. i + 1 \notin CommentsIn(fs[f], i)
      BY DEF CommentsIn
    <3>2. <<f, i + 1>> \notin Earlier
      BY <1>1
    <3> QED
      BY <1>4, <3>1, <3>2
  <2>3. IsFiniteSet(before)
    BY CommentTokensFinite
  <2> HIDE DEF before, after
  <2>4. Cardinality(after) = Cardinality(before) + 1
    BY <2>1, <2>2, <2>3, FS_AddElement
  <2> QED
    BY <1>6, <2>4 DEF before, after
<1> QED
  BY <1>5, <1>6

(***************************************************************************)
(* The first file begins with the number 0, every other one with that at   *)
(* the end of the file before it.                                          *)
(***************************************************************************)
LEMMA CommentTokensOfNewFile ==
    ASSUME NEW fs \in Inputs, NEW f \in Nat, f + 1 \in DOMAIN fs
    PROVE  CommentTokens(fs, f + 1, 0) =
             IF f = 0 THEN {} ELSE CommentTokens(fs, f, Tokens(fs[f]))
<1>1. CommentsIn(fs[f + 1], 0) = {}
  BY DEF CommentsIn
<1>2. CASE f = 0
  BY <1>1, <1>2 DEF CommentTokens
<1>3. CASE f # 0
  <2> DEFINE A(g) == {g} \X CommentsIn(fs[g], IF g < f + 1 THEN Tokens(fs[g]) ELSE 0)
             B(g) == {g} \X CommentsIn(fs[g], IF g < f THEN Tokens(fs[g]) ELSE Tokens(fs[f]))
  <2>1. /\ \A g \in 1 .. f : g \in 1 .. f + 1 /\ A(g) = B(g)
        /\ \A g \in 1 .. f + 1 : g \in 1 .. f \/ A(g) = {}
    <3>1. \A g \in 1 .. f : g \in 1 .. f + 1 /\ g < f + 1 /\ (g < f \/ g = f)
      OBVIOUS
    <3>2. \A g \in 1 .. f + 1 : g \in 1 .. f \/ (g = f + 1 /\ ~(g < f + 1))
      OBVIOUS
    <3> QED
      BY <1>1, <3>1, <3>2
  <2> HIDE DEF A, B
  <2>2. UNION {A(g) : g \in 1 .. f + 1} = UNION {B(g) : g \in 1 .. f}
    BY <2>1
  <2> QED
    BY <1>3, <2>2 DEF CommentTokens, A, B
<1> QED
  BY <1>2, <1>3

LEMMA PublicationsType ==
    ASSUME NEW fs \in Inputs, NEW f \in DOMAIN fs
    PROVE  /\ Publications(fs, f) \in Seq(Node)
           /\ Len(Publications(fs, f)) = Tokens(fs[f])
<1>1. f \in Nat /\ Tokens(fs[f]) \in Nat
  BY FileFacts, InputsAssumption
<1>2. ASSUME NEW i \in 1 .. Tokens(fs[f])
      PROVE  Publications(fs, f)[i] \in Node
  <2>1. fs[f].items[i] \in Item /\ i \in Nat
    BY FileFacts
  <2>2. Cardinality(CommentTokens(fs, f, i)) \in Nat
    BY <2>1, CommentTokensFinite
  <2>3. <<f, i>> \in Sources
    BY <1>1, <2>1 DEF Sources
  <2>4. fs[f].items[i].label \in Nat
    BY <2>1, LabelsAssumption DEF Item
  <2> QED
    BY <2>1, <2>2, <2>3, <2>4 DEF Publications, Node, Item
<1>3. /\ Publications(fs, f) = [i \in 1 .. Tokens(fs[f]) |-> Publications(fs, f)[i]]
      /\ DOMAIN Publications(fs, f) = 1 .. Tokens(fs[f])
  BY DEF Publications
<1> QED
  BY <1>1, <1>2, <1>3

-----------------------------------------------------------------------------
(***************************************************************************)
(* The stack of the parser, as the front of the publications of the file.  *)
(***************************************************************************)
LEMMA SubSeqGrows ==
    ASSUME NEW s \in Seq(Node), NEW n \in Nat, n < Len(s)
    PROVE  Append(SubSeq(s, 1, n), s[n + 1]) = SubSeq(s, 1, n + 1)
<1>1. Len(s) \in Nat /\ s[n + 1] \in Node
  OBVIOUS
<1>2. SubSeq(s, 1, n) \in Seq(Node) /\ Len(SubSeq(s, 1, n)) = n
  BY <1>1
<1>3. SubSeq(s, 1, n + 1) \in Seq(Node) /\ Len(SubSeq(s, 1, n + 1)) = n + 1
  BY <1>1
<1>4. \A i \in 1 .. n + 1 :
         Append(SubSeq(s, 1, n), s[n + 1])[i] = SubSeq(s, 1, n + 1)[i]
  BY <1>1, <1>2
<1> QED
  BY <1>1, <1>2, <1>3, <1>4

LEMMA SubSeqShrinks ==
    ASSUME NEW s \in Seq(Node), NEW t \in Seq(Node), t # <<>>,
           Len(t) <= Len(s), t = SubSeq(s, 1, Len(t))
    PROVE  /\ Len(t) \in 1 .. Len(s)
           /\ Last(t) = s[Len(t)] /\ Last(t) \in Node
           /\ Front(t) \in Seq(Node)
           /\ Len(Front(t)) = Len(t) - 1
           /\ Front(t) = SubSeq(s, 1, Len(t) - 1)
<1>1. Len(s) \in Nat /\ Len(t) \in Nat /\ Len(t) >= 1
  OBVIOUS
<1>2. \A i \in 1 .. Len(t) : t[i] = s[i]
  BY <1>1
<1>3. /\ SubSeq(t, 1, Len(t) - 1) \in Seq(Node)
      /\ Len(SubSeq(t, 1, Len(t) - 1)) = Len(t) - 1
      /\ \A i \in 1 .. Len(t) - 1 : SubSeq(t, 1, Len(t) - 1)[i] = t[i]
  BY <1>1
<1>4. SubSeq(t, 1, Len(t) - 1) = SubSeq(s, 1, Len(t) - 1)
  BY <1>1, <1>2, <1>3
<1> QED
  BY <1>1, <1>2, <1>3, <1>4 DEF Last, Front

LEMMA SubSeqInFront ==
    ASSUME NEW s \in Seq(Node), NEW n \in 1 .. Len(s)
    PROVE  /\ SubSeq(s, n + 1, Len(s)) \in Seq(Node)
           /\ <<s[n]>> \o SubSeq(s, n + 1, Len(s)) = SubSeq(s, n, Len(s))
<1> DEFINE p == s[n]
           t == SubSeq(s, n + 1, Len(s))
           u == SubSeq(s, n, Len(s))
<1>1. Len(s) \in Nat /\ n \in Nat /\ n >= 1 /\ n <= Len(s) /\ p \in Node
  OBVIOUS
<1>2. /\ t \in Seq(Node) /\ Len(t) = Len(s) - n
      /\ \A i \in 1 .. Len(s) - n : t[i] = s[n + i]
  BY <1>1
<1>3. /\ u \in Seq(Node) /\ Len(u) = Len(s) - n + 1
      /\ \A i \in 1 .. Len(s) - n + 1 : u[i] = s[n + i - 1]
  BY <1>1
<1>4. u[1] = p
  BY <1>1, <1>3
<1> SUFFICES t \in Seq(Node) /\ <<p>> \o t = u
  OBVIOUS
<1> HIDE DEF p, t, u
<1> DEFINE v == <<p>> \o t
<1>5. /\ v \in Seq(Node) /\ Len(v) = Len(t) + 1
      /\ v[1] = p /\ \A j \in DOMAIN t : v[j + 1] = t[j]
  BY <1>1, <1>2, InFront
<1>6. v = u
  <2> HIDE DEF v
  <2>1. Len(v) = Len(u)
    BY <1>1, <1>2, <1>3, <1>5
  <2>2. ASSUME NEW i \in 1 .. Len(v) PROVE v[i] = u[i]
    <3>1. CASE i = 1
      BY <1>4, <1>5, <3>1
    <3>2. CASE i # 1
      <4>1. i - 1 \in 1 .. Len(s) - n /\ DOMAIN t = 1 .. Len(s) - n
        BY <1>1, <1>2, <1>5, <3>2
      <4>2. v[(i - 1) + 1] = t[i - 1]
        BY <1>5, <4>1
      <4>3. i \in 1 .. Len(s) - n + 1 /\ (i - 1) + 1 = i /\ n + (i - 1) = n + i - 1
        BY <1>1, <1>2, <1>5
      <4> QED
        BY <1>2, <1>3, <4>1, <4>2, <4>3
    <3> QED
      BY <3>1, <3>2
  <2> QED
    BY <1>3, <1>5, <2>1, <2>2
<1> QED
  BY <1>2, <1>6

LEMMA SubSeqLast ==
    ASSUME NEW s \in Seq(Node), Len(s) \in 1 .. Len(s)
    PROVE  SubSeq(s, Len(s), Len(s)) = <<s[Len(s)]>>
<1>1. Len(s) \in Nat /\ Len(s) >= 1 /\ s[Len(s)] \in Node
  OBVIOUS
<1>2. /\ SubSeq(s, Len(s), Len(s)) \in Seq(Node)
      /\ Len(SubSeq(s, Len(s), Len(s))) = 1
      /\ SubSeq(s, Len(s), Len(s))[1] = s[Len(s)]
  BY <1>1
<1>3. \A t \in Seq(Node) : Len(t) = 1 => t = <<t[1]>>
  OBVIOUS
<1> QED
  BY <1>2, <1>3

LEMMA PubsType ==
    ASSUME IInv, fileNo > 0
    PROVE  /\ fileNo \in DOMAIN files
           /\ Pubs \in Seq(Node)
           /\ LastItem \in Nat /\ Len(Pubs) = LastItem
<1>1. files \in Inputs /\ fileNo \in DOMAIN files
  BY DEF IInv, TypeOK, Position
<1> QED
  BY <1>1, FileFacts, PublicationsType DEF Pubs, LastItem

-----------------------------------------------------------------------------
(***************************************************************************)
(* The program starts in IInv, and every step keeps it.                    *)
(***************************************************************************)
LEMMA InitIInv == Init => IInv
<1> SUFFICES ASSUME Init PROVE IInv
  OBVIOUS
<1>1. files \in Inputs /\ files \in Seq(File) \ {<<>>}
  BY InputsAssumption DEF Init
<1>2. Len(files) \in Nat /\ Len(files) > 0
  BY <1>1
<1>3. TypeOK
  <2>1. inComment \in BOOLEAN
    BY DEF Init
  <2>2. <<>> \in Seq(Node)
    OBVIOUS
  <2> QED
    BY <1>1, <1>2, <2>1, <2>2 DEF Init, TypeOK, Phases
<1> QED
  BY <1>1, <1>2, <1>3 DEF Init, IInv, Position, StackIsFront, ScanFollowsStack,
                          CollIsMerge, CommentsCounted

LEMMA OpenFileIInv == IInv /\ OpenFile => IInv'
<1> SUFFICES ASSUME IInv, OpenFile PROVE IInv'
  OBVIOUS
<1>1. /\ files \in Inputs /\ files \in Seq(File) \ {<<>>}
      /\ fileNo \in Nat /\ fileNo + 1 \in DOMAIN files
      /\ phase = "open" /\ phase' = "scan" /\ files' = files
      /\ fileNo' = fileNo + 1 /\ next' = 1 /\ stack' = <<>> /\ coll' = <<>>
      /\ commentLabel' = commentLabel /\ commentLabel \in Nat
  BY DEF IInv, TypeOK, Position, OpenFile
<1>2. TypeOK'
  BY <1>1 DEF IInv, TypeOK, OpenFile, Phases
<1>3. Position'
  BY <1>1 DEF Position
<1>4. StackIsFront'
  <2>1. Publications(files, fileNo + 1) \in Seq(Node)
    BY <1>1, PublicationsType
  <2>2. Pubs' = Publications(files, fileNo + 1)
    BY <1>1 DEF Pubs
  <2>3. Len(stack') = 0 /\ Len(Pubs') >= 0 /\ SubSeq(Pubs', 1, 0) = <<>>
    BY <1>1, <2>1, <2>2
  <2> QED
    BY <1>1, <2>3 DEF StackIsFront
<1>5. ScanFollowsStack' /\ CollIsMerge'
  BY <1>1 DEF ScanFollowsStack, CollIsMerge
<1>6. CommentsCounted'
  <2>1. commentLabel = Cardinality(CommentTokens(files, fileNo + 1, 0))
    <3>1. CASE fileNo = 0
      <4>1. CommentTokens(files, fileNo + 1, 0) = {} /\ commentLabel = 0
        BY <1>1, <3>1, CommentTokensOfNewFile DEF IInv, CommentsCounted
      <4> QED
        BY <4>1, FS_EmptySet
    <3>2. CASE fileNo # 0
      BY <1>1, <3>2, CommentTokensOfNewFile DEF IInv, CommentsCounted, LastItem
    <3> QED
      BY <3>1, <3>2
  <2>2. next' - 1 = 0
    BY <1>1
  <2> QED
    BY <1>1, <2>1, <2>2 DEF CommentsCounted
<1> QED
  BY <1>2, <1>3, <1>4, <1>5, <1>6 DEF IInv

(***************************************************************************)
(* Giving up only changes the phase, and with OpenFails the file number.   *)
(***************************************************************************)
LEMMA GiveUpIInv == IInv /\ (OpenFails \/ SyntaxError \/ MemoryExhausted) => IInv'
<1> SUFFICES ASSUME IInv, OpenFails \/ SyntaxError \/ MemoryExhausted PROVE IInv'
  OBVIOUS
<1>1. /\ phase' = "failed"
      /\ UNCHANGED <<files, next, inComment, commentLabel, stack, coll, bibTeXFile>>
      /\ fileNo' = fileNo \/ (phase = "open" /\ fileNo' = fileNo + 1)
  BY DEF OpenFails, SyntaxError, MemoryExhausted
<1>2. fileNo' \in 0 .. Len(files)
  BY <1>1 DEF IInv, TypeOK, Position
<1>3. TypeOK'
  BY <1>1, <1>2 DEF IInv, TypeOK, Phases
<1> QED
  BY <1>1, <1>3 DEF IInv, Position, StackIsFront, ScanFollowsStack, CollIsMerge,
                    CommentsCounted

(***************************************************************************)
(* A reduction to a publication: what is made of item next is the next of  *)
(* the file's publications.                                                *)
(***************************************************************************)
LEMMA ReducedIInv ==
    ASSUME IInv, HasItem, NEW node, node = Pubs[next], Reduced(node),
           commentLabel' = Cardinality(CommentTokens(files, fileNo, next))
    PROVE  IInv'
<1>1. /\ phase = "scan" /\ phase' = "scan" /\ fileNo > 0
      /\ next \in Nat \ {0} /\ next <= LastItem
      /\ next' = next + 1 /\ stack' = Append(stack, node)
      /\ files' = files /\ fileNo' = fileNo
  BY DEF IInv, TypeOK, Position, HasItem, Reduced
<1>2. /\ fileNo \in DOMAIN files /\ files \in Inputs
      /\ Pubs \in Seq(Node) /\ LastItem \in Nat /\ Len(Pubs) = LastItem
  BY <1>1, PubsType DEF IInv, Position
<1>3. Pubs' = Pubs /\ LastItem' = LastItem
  BY <1>1 DEF Pubs, LastItem
<1>4. /\ stack \in Seq(Node) /\ Len(stack) \in Nat /\ next = Len(stack) + 1
      /\ stack = SubSeq(Pubs, 1, Len(stack)) /\ Len(stack) < Len(Pubs)
  BY <1>1, <1>2 DEF IInv, TypeOK, StackIsFront, ScanFollowsStack
<1>5. node \in Node
  BY <1>1, <1>2
<1>6. stack' \in Seq(Node) /\ Len(stack') = Len(stack) + 1
  BY <1>1, <1>4, <1>5
<1>7. stack' = SubSeq(Pubs, 1, Len(stack) + 1)
  BY <1>1, <1>2, <1>4, SubSeqGrows
<1>8. commentLabel' \in Nat
  BY <1>1, <1>2, CommentTokensFinite
<1>9. TypeOK'
  <2>1. inComment' \in BOOLEAN
    BY DEF Reduced
  <2>2. next' \in Nat \ {0}
    BY <1>1
  <2> QED
    BY <1>1, <1>6, <1>8, <2>1, <2>2 DEF IInv, TypeOK, Reduced
<1>10. Position' /\ CollIsMerge'
  BY <1>1, <1>2 DEF Position, CollIsMerge
<1>11. StackIsFront' /\ ScanFollowsStack'
  BY <1>1, <1>2, <1>3, <1>4, <1>6, <1>7 DEF StackIsFront, ScanFollowsStack
<1>12. CommentsCounted'
  <2>1. next' - 1 = next
    BY <1>1
  <2> QED
    BY <1>1, <2>1 DEF CommentsCounted
<1> QED
  BY <1>9, <1>10, <1>11, <1>12 DEF IInv

LEMMA MakeCommentIInv == IInv /\ MakeComment => IInv'
<1> SUFFICES ASSUME IInv, MakeComment PROVE IInv'
  OBVIOUS
<1>1. /\ HasItem /\ Items[next].kind = Comment
      /\ commentLabel' = commentLabel + 1
      /\ Reduced(CommentNode(commentLabel + 1))
  BY DEF MakeComment, NextItem
<1>2. /\ fileNo \in DOMAIN files /\ files \in Inputs
      /\ next \in Nat \ {0} /\ next \in 1 .. LastItem
      /\ commentLabel = Cardinality(CommentTokens(files, fileNo, next - 1))
  BY <1>1, PubsType DEF IInv, TypeOK, Position, HasItem, CommentsCounted
<1>3. commentLabel + 1 = Cardinality(CommentTokens(files, fileNo, next))
  <2>1. next - 1 \in Nat /\ (next - 1) + 1 = next
    BY <1>2
  <2> QED
    BY <1>1, <1>2, <2>1, CommentTokensNext DEF Items
<1>4. CommentNode(commentLabel + 1) = Pubs[next]
  BY <1>1, <1>2, <1>3 DEF CommentNode, Pubs, Publications, LastItem, Items
<1> QED
  BY <1>1, <1>3, <1>4, ReducedIInv

LEMMA MakePublicationIInv == IInv /\ MakePublication => IInv'
<1> SUFFICES ASSUME IInv, MakePublication PROVE IInv'
  OBVIOUS
<1>1. /\ HasItem /\ Items[next].kind # Comment
      /\ commentLabel' = commentLabel
      /\ Reduced(PublicationNode)
  BY DEF MakePublication, NextItem, Comment
<1>2. /\ fileNo \in DOMAIN files /\ files \in Inputs
      /\ next \in Nat \ {0} /\ next \in 1 .. LastItem
      /\ commentLabel = Cardinality(CommentTokens(files, fileNo, next - 1))
  BY <1>1, PubsType DEF IInv, TypeOK, Position, HasItem, CommentsCounted
<1>3. commentLabel = Cardinality(CommentTokens(files, fileNo, next))
  <2>1. next - 1 \in Nat /\ (next - 1) + 1 = next
    BY <1>2
  <2> QED
    BY <1>1, <1>2, <2>1, CommentTokensNext DEF Items
<1>4. PublicationNode = Pubs[next]
  BY <1>1, <1>2 DEF PublicationNode, NextItem, Pubs, Publications, LastItem, Items
<1> QED
  BY <1>1, <1>3, <1>4, ReducedIInv

(***************************************************************************)
(* At the end of the file the stack holds all of its publications.         *)
(***************************************************************************)
LEMMA StartCollectionIInv == IInv /\ StartCollection => IInv'
<1> SUFFICES ASSUME IInv, StartCollection PROVE IInv'
  OBVIOUS
<1>1. /\ phase = "scan" /\ phase' = "reduce" /\ next > LastItem /\ stack # <<>>
      /\ coll' = <<Last(stack)>> /\ stack' = Front(stack)
      /\ UNCHANGED <<files, fileNo, next, commentLabel, bibTeXFile>>
  BY DEF StartCollection
<1>2. /\ fileNo > 0 /\ fileNo \in DOMAIN files /\ files \in Inputs
      /\ Pubs \in Seq(Node) /\ LastItem \in Nat /\ Len(Pubs) = LastItem
  BY <1>1, PubsType DEF IInv, Position
<1>3. Pubs' = Pubs /\ LastItem' = LastItem
  BY <1>1 DEF Pubs, LastItem
<1>4. /\ stack \in Seq(Node) /\ next = Len(stack) + 1
      /\ stack = SubSeq(Pubs, 1, Len(stack)) /\ Len(stack) <= Len(Pubs)
  BY <1>1, <1>2 DEF IInv, TypeOK, StackIsFront, ScanFollowsStack
<1>5. Len(stack) = Len(Pubs) /\ next - 1 = LastItem
  <2> DEFINE n == Len(stack)
  <2>1. n \in Nat /\ next = n + 1 /\ n <= LastItem
    BY <1>2, <1>4
  <2> HIDE DEF n
  <2>2. n = LastItem /\ next - 1 = LastItem
    BY <1>1, <1>2, <2>1
  <2> QED
    BY <1>2, <2>2 DEF n
<1>6. /\ Len(Pubs) \in 1 .. Len(Pubs)
      /\ Last(stack) = Pubs[Len(Pubs)] /\ Last(stack) \in Node
      /\ stack' \in Seq(Node) /\ Len(stack') = Len(Pubs) - 1
      /\ stack' = SubSeq(Pubs, 1, Len(Pubs) - 1)
  BY <1>1, <1>2, <1>4, <1>5, SubSeqShrinks
<1>7. TypeOK'
  <2>1. inComment' \in BOOLEAN
    BY <1>2, FileFacts DEF StartCollection
  <2>2. coll' \in Seq(Node)
    BY <1>1, <1>6
  <2> QED
    BY <1>1, <1>6, <2>1, <2>2 DEF IInv, TypeOK, Phases
<1>8. Position' /\ ScanFollowsStack'
  BY <1>1, <1>2 DEF Position, ScanFollowsStack
<1>9. StackIsFront'
  BY <1>1, <1>2, <1>3, <1>6 DEF StackIsFront
<1>10. CollIsMerge'
  <2>1. SubSeq(Pubs, Len(Pubs), Len(Pubs)) = <<Pubs[Len(Pubs)]>>
    BY <1>2, <1>6, SubSeqLast
  <2>2. IsMergeOf(coll', SubSeq(Pubs, Len(Pubs), Len(Pubs)))
    BY <1>1, <1>6, <2>1, SingleMerge
  <2>3. Len(stack') + 1 = Len(Pubs) /\ Len(stack') < Len(Pubs)
    BY <1>2, <1>6
  <2> QED
    BY <1>3, <2>2, <2>3 DEF CollIsMerge
<1>11. CommentsCounted'
  BY <1>1, <1>3, <1>5 DEF IInv, CommentsCounted
<1> QED
  BY <1>7, <1>8, <1>9, <1>10, <1>11 DEF IInv

LEMMA ReduceCollectionIInv == IInv /\ ReduceCollection => IInv'
<1> SUFFICES ASSUME IInv, ReduceCollection PROVE IInv'
  OBVIOUS
<1>1. /\ phase = "reduce" /\ phase' = "reduce" /\ stack # <<>>
      /\ coll' = MakePublicationCollection(Last(stack), coll)
      /\ stack' = Front(stack)
      /\ UNCHANGED <<files, fileNo, next, inComment, commentLabel, bibTeXFile>>
  BY DEF ReduceCollection
<1>2. /\ fileNo > 0 /\ fileNo \in DOMAIN files /\ files \in Inputs
      /\ Pubs \in Seq(Node) /\ LastItem \in Nat /\ Len(Pubs) = LastItem
  BY <1>1, PubsType DEF IInv, Position
<1>3. Pubs' = Pubs /\ LastItem' = LastItem
  BY <1>1 DEF Pubs, LastItem
<1> DEFINE n == Len(stack)
<1>4. /\ stack \in Seq(Node) /\ coll \in Seq(Node)
      /\ stack = SubSeq(Pubs, 1, n) /\ n < Len(Pubs)
      /\ IsMergeOf(coll, SubSeq(Pubs, n + 1, Len(Pubs)))
  BY <1>1, <1>2 DEF IInv, TypeOK, StackIsFront, CollIsMerge
<1>5. /\ n \in 1 .. Len(Pubs)
      /\ Last(stack) = Pubs[n] /\ Last(stack) \in Node
      /\ stack' \in Seq(Node) /\ Len(stack') = n - 1
      /\ stack' = SubSeq(Pubs, 1, n - 1)
  <2>1. n <= Len(Pubs)
    BY <1>2, <1>4
  <2> QED
    BY <1>1, <1>2, <1>4, <2>1, SubSeqShrinks
<1>6. coll' \in Seq(Node)
  BY <1>1, <1>4, <1>5, MakePublicationCollectionType
<1>7. IsMergeOf(coll', SubSeq(Pubs, n, Len(Pubs)))
  <2> DEFINE rest == SubSeq(Pubs, n + 1, Len(Pubs))
  <2>1. rest \in Seq(Node) /\ <<Pubs[n]>> \o rest = SubSeq(Pubs, n, Len(Pubs))
    BY <1>2, <1>5, SubSeqInFront
  <2>2. IsMergeOf(MakePublicationCollection(Pubs[n], coll), <<Pubs[n]>> \o rest)
    BY <1>4, <1>5, <2>1, MakePublicationCollectionMerges
  <2> QED
    BY <1>1, <1>5, <2>1, <2>2
<1> HIDE DEF n
<1>8. (n - 1) + 1 = n /\ n - 1 < Len(Pubs) /\ n - 1 <= Len(Pubs)
  BY <1>2, <1>5
<1>9. TypeOK'
  BY <1>1, <1>5, <1>6 DEF IInv, TypeOK
<1>10. Position' /\ ScanFollowsStack'
  BY <1>1, <1>2 DEF Position, ScanFollowsStack
<1>11. StackIsFront'
  BY <1>3, <1>5, <1>8 DEF StackIsFront
<1>12. CollIsMerge'
  BY <1>3, <1>5, <1>7, <1>8 DEF CollIsMerge
<1>13. CommentsCounted'
  BY <1>1, <1>3 DEF IInv, CommentsCounted
<1> QED
  BY <1>9, <1>10, <1>11, <1>12, <1>13 DEF IInv

LEMMA AcceptIInv == IInv /\ Accept => IInv'
<1> SUFFICES ASSUME IInv, Accept PROVE IInv'
  OBVIOUS
<1>1. /\ phase = "reduce" /\ bibTeXFile' = coll
      /\ phase' = IF fileNo = Len(files) THEN "parsed" ELSE "open"
      /\ UNCHANGED <<files, fileNo, next, inComment, commentLabel, stack, coll>>
  BY DEF Accept
<1>2. /\ fileNo > 0 /\ fileNo \in 0 .. Len(files)
      /\ files \in Inputs /\ Len(files) \in Nat
  BY <1>1 DEF IInv, TypeOK, Position
<1>3. TypeOK'
  BY <1>1 DEF IInv, TypeOK, Phases
<1>4. Position'
  BY <1>1, <1>2 DEF Position
<1>5. LastItem' = LastItem
  BY <1>1 DEF LastItem
<1>6. CommentsCounted'
  BY <1>1, <1>2, <1>5 DEF IInv, CommentsCounted
<1> QED
  BY <1>1, <1>3, <1>4, <1>6 DEF IInv, StackIsFront, ScanFollowsStack, CollIsMerge

LEMMA StutterIInv == IInv /\ UNCHANGED vars => IInv'
BY DEF vars, IInv, TypeOK, Position, StackIsFront, ScanFollowsStack, CollIsMerge,
       CommentsCounted, Pubs, LastItem

LEMMA NextIInv == IInv /\ [Next]_vars => IInv'
<1> SUFFICES ASSUME IInv, [Next]_vars PROVE IInv'
  OBVIOUS
<1>1. CASE OpenFile
  BY <1>1, OpenFileIInv
<1>2. CASE OpenFails \/ SyntaxError \/ MemoryExhausted
  BY <1>2, GiveUpIInv
<1>3. CASE MakeComment
  BY <1>3, MakeCommentIInv
<1>4. CASE MakePublication
  BY <1>4, MakePublicationIInv
<1>5. CASE StartCollection
  BY <1>5, StartCollectionIInv
<1>6. CASE ReduceCollection
  BY <1>6, ReduceCollectionIInv
<1>7. CASE Accept
  BY <1>7, AcceptIInv
<1>8. CASE Finished \/ UNCHANGED vars
  BY <1>8, StutterIInv DEF Finished
<1> QED
  BY <1>1, <1>2, <1>3, <1>4, <1>5, <1>6, <1>7, <1>8 DEF Next

LEMMA AlwaysIInv == Spec => []IInv
<1>1. Init => IInv
  BY InitIInv
<1>2. IInv /\ [Next]_vars => IInv'
  BY NextIInv
<1> QED
  BY <1>1, <1>2, PTL DEF Spec

-----------------------------------------------------------------------------
(***************************************************************************)
(* The variables of the parser keep their types: in particular whatever    *)
(* makePublicationCollection() returns is a list of nodes.                 *)
(***************************************************************************)
THEOREM TypeCorrect == Spec => []TypeOK
<1>1. IInv => TypeOK
  BY DEF IInv
<1> QED
  BY <1>1, AlwaysIInv, PTL

(***************************************************************************)
(* Whatever the files on the command line, the collection on the parser's  *)
(* stack is the merge of the publications that have left it (node.cc,      *)
(* makePublicationCollection()), and the stack is the front of the file.   *)
(***************************************************************************)
THEOREM CollectionMerges == Spec => []CollectionIsMerge
<1>1. IInv => CollectionIsMerge
  BY DEF IInv, CollectionIsMerge, StackIsFront, CollIsMerge, Pubs
<1> QED
  BY <1>1, AlwaysIInv, PTL

-----------------------------------------------------------------------------
(***************************************************************************)
(* OutcomeFollowsInput needs to be known on the way: the files before this *)
(* one are readable, and so is this one as far as it has been read; the    *)
(* scanner is in its COMMENT state in front of the first item only, when   *)
(* the file before has left it there.                                      *)
(***************************************************************************)
ItemPasses(f, i) ==
    /\ files[f].items[i].kind # Broken
    /\ i - 1 + Width(files[f].items[i]) <= MaxDepth

LeftOpen(f) == f > 0 /\ files[f].open

BeginsWithComment(f) == LeftOpen(f - 1) => files[f].items[1].kind = Comment

FilesBefore ==
    /\ phase # "failed" => \A f \in 1 .. fileNo - 1 : Readable(f)
    /\ phase \in {"open", "reduce", "parsed"} /\ fileNo > 0 => Readable(fileNo)
    /\ phase = "parsed" => fileNo = Len(files)
    /\ phase = "failed" => OutcomeFollowsInput

ReadSoFar ==
    phase = "scan" =>
        /\ files[fileNo].found
        /\ \A i \in 1 .. next - 1 : ItemPasses(fileNo, i)
        /\ next = 1 => (inComment <=> LeftOpen(fileNo - 1))
        /\ next > 1 => ~inComment /\ BeginsWithComment(fileNo)

CommentIsOpen == phase \in {"open", "reduce"} => (inComment <=> LeftOpen(fileNo))

OutcomeInv == FilesBefore /\ ReadSoFar /\ CommentIsOpen

\* Whether a file is readable does not change.
LEMMA ReadableStays ==
    ASSUME files' = files, NEW f
    PROVE  Readable(f)' <=> Readable(f)
BY DEF Readable

\* What is known of a state while a file is scanned
LEMMA ScanFacts ==
    ASSUME IInv, phase = "scan"
    PROVE  /\ fileNo \in Nat \ {0} /\ next \in Nat \ {0} /\ LastItem \in Nat
           /\ next = Len(stack) + 1 /\ Len(stack) \in Nat /\ next <= LastItem + 1
           /\ stack # <<>> => next > 1
           /\ LastItem = Tokens(files[fileNo])
           /\ \A i \in 1 .. LastItem : Width(files[fileNo].items[i]) \in Nat
<1>1. fileNo \in DOMAIN files /\ fileNo \in Nat \ {0} /\ files \in Inputs
  BY PubsType DEF IInv, TypeOK, Position
<1>2. Pubs \in Seq(Node) /\ LastItem \in Nat /\ Len(Pubs) = LastItem
  BY <1>1, PubsType DEF IInv, Position
<1>3. stack \in Seq(Node) /\ next = Len(stack) + 1 /\ Len(stack) <= Len(Pubs)
  BY DEF IInv, TypeOK, StackIsFront, ScanFollowsStack
<1>4. \A item : Width(item) \in Nat
  BY DepthAssumption DEF Width
<1> QED
  BY <1>1, <1>2, <1>3, <1>4 DEF LastItem

LEMMA OpenOutcome == IInv /\ OutcomeInv /\ (OpenFile \/ OpenFails) => OutcomeInv'
<1> SUFFICES ASSUME IInv, OutcomeInv, OpenFile \/ OpenFails PROVE OutcomeInv'
  OBVIOUS
<1>1. /\ phase = "open" /\ fileNo' = fileNo + 1 /\ files' = files
      /\ inComment' = inComment /\ fileNo \in Nat
  BY DEF OpenFile, OpenFails, IInv, TypeOK
<1>2. \A f \in 1 .. fileNo : Readable(f)
  BY <1>1 DEF OutcomeInv, FilesBefore
<1>3. \A f \in 1 .. fileNo' - 1 : Readable(f)'
  BY <1>1, <1>2, ReadableStays
<1>4. CASE OpenFile
  <2>1. phase' = "scan" /\ next' = 1 /\ files[fileNo + 1].found
    BY <1>4 DEF OpenFile
  <2>2. inComment <=> LeftOpen(fileNo)
    BY <1>1 DEF OutcomeInv, CommentIsOpen
  <2>3. inComment' <=> LeftOpen(fileNo - 1)'
    BY <1>1, <2>2 DEF LeftOpen
  <2> QED
    BY <1>1, <1>3, <2>1, <2>3 DEF OutcomeInv, FilesBefore, ReadSoFar, CommentIsOpen
<1>5. CASE OpenFails
  <2>1. phase' = "failed" /\ ~Readable(fileNo')
    BY <1>1, <1>5 DEF OpenFails, Readable
  <2>2. ~Readable(fileNo)'
    BY <1>1, <2>1 DEF Readable
  <2> QED
    BY <1>3, <2>1, <2>2 DEF OutcomeInv, FilesBefore, ReadSoFar, CommentIsOpen, OutcomeFollowsInput
<1> QED
  BY <1>4, <1>5

LEMMA GiveUpOutcome == IInv /\ OutcomeInv /\ (SyntaxError \/ MemoryExhausted) => OutcomeInv'
<1> SUFFICES ASSUME IInv, OutcomeInv, SyntaxError \/ MemoryExhausted PROVE OutcomeInv'
  OBVIOUS
<1>1. phase = "scan" /\ phase' = "failed" /\ files' = files /\ fileNo' = fileNo
  BY DEF SyntaxError, MemoryExhausted, HasItem
<1>2. \A f \in 1 .. fileNo - 1 : Readable(f)
  BY <1>1 DEF OutcomeInv, FilesBefore
<1>3. /\ fileNo \in Nat \ {0} /\ next \in Nat \ {0} /\ LastItem \in Nat
      /\ next = Len(stack) + 1 /\ Len(stack) \in Nat
      /\ LastItem = Tokens(files[fileNo])
  BY <1>1, ScanFacts
<1>4. ~Readable(fileNo)
  <2>1. CASE HasItem /\ (NextItem.kind = Broken \/ ~Fits(NextItem))
    <3>1. next \in 1 .. Tokens(files[fileNo])
      BY <1>3, <2>1 DEF HasItem
    <3>2. next - 1 = Len(stack)
      BY <1>3
    <3>3. ~(/\ files[fileNo].items[next].kind # Broken
            /\ next - 1 + Width(files[fileNo].items[next]) <= MaxDepth)
      BY <2>1, <3>2 DEF Fits, NextItem, Items
    <3>4. Readable(fileNo) =>
              \A i \in 1 .. Tokens(files[fileNo]) :
                  /\ files[fileNo].items[i].kind # Broken
                  /\ i - 1 + Width(files[fileNo].items[i]) <= MaxDepth
      BY DEF Readable
    <3> QED
      BY <3>1, <3>3, <3>4
  <2>2. CASE HasItem /\ NextItem.kind # Comment /\ inComment
    <3>1. inComment
      BY <2>2
    <3>2. ~(next > 1) /\ next = 1
      BY <1>1, <1>3, <3>1 DEF OutcomeInv, ReadSoFar
    <3>3. inComment <=> LeftOpen(fileNo - 1)
      BY <1>1, <3>2 DEF OutcomeInv, ReadSoFar
    <3>4. fileNo > 1 /\ files[fileNo - 1].open
      BY <1>3, <3>1, <3>3 DEF LeftOpen
    <3>5. files[fileNo].items[1].kind # Comment
      BY <2>2, <3>2 DEF NextItem, Items
    <3> QED
      BY <3>4, <3>5 DEF Readable
  <2>3. CASE next > LastItem /\ stack = <<>>
    <3>1. Tokens(files[fileNo]) = 0
      BY <1>3, <2>3
    <3> QED
      BY <3>1 DEF Readable
  <2> QED
    BY <2>1, <2>2, <2>3 DEF SyntaxError, MemoryExhausted
<1>5. OutcomeFollowsInput'
  BY <1>1, <1>2, <1>4 DEF OutcomeFollowsInput, Readable
<1> QED
  BY <1>1, <1>5 DEF OutcomeInv, FilesBefore, ReadSoFar, CommentIsOpen

LEMMA ReducedOutcome == IInv /\ OutcomeInv /\ (MakeComment \/ MakePublication) => OutcomeInv'
<1> SUFFICES ASSUME IInv, OutcomeInv, MakeComment \/ MakePublication PROVE OutcomeInv'
  OBVIOUS
<1>1. /\ phase = "scan" /\ phase' = "scan" /\ files' = files /\ fileNo' = fileNo
      /\ next' = next + 1 /\ inComment' = FALSE /\ HasItem /\ Fits(NextItem)
      /\ NextItem.kind # Broken /\ (NextItem.kind = Comment \/ ~inComment)
  BY DEF MakeComment, MakePublication, HasItem, Reduced, Comment, Broken
<1>2. /\ fileNo \in Nat \ {0} /\ next \in Nat \ {0}
      /\ next = Len(stack) + 1 /\ Len(stack) \in Nat
  BY <1>1, ScanFacts
<1>3. ItemPasses(fileNo, next)
  <2>1. next - 1 = Len(stack)
    BY <1>2
  <2> QED
    BY <1>1, <2>1 DEF ItemPasses, Fits, NextItem, Items
<1>4. \A i \in 1 .. next' - 1 : ItemPasses(fileNo, i)'
  <2>1. \A i \in 1 .. next - 1 : ItemPasses(fileNo, i)
    BY <1>1 DEF OutcomeInv, ReadSoFar
  <2>2. \A i \in 1 .. next' - 1 : i = next \/ i \in 1 .. next - 1
    BY <1>1, <1>2
  <2> QED
    BY <1>1, <1>3, <2>1, <2>2 DEF ItemPasses
<1>5. BeginsWithComment(fileNo)
  <2>1. CASE next = 1
    <3>1. inComment <=> LeftOpen(fileNo - 1)
      BY <1>1, <2>1 DEF OutcomeInv, ReadSoFar
    <3>2. files[fileNo].items[1].kind = Comment \/ ~inComment
      BY <1>1, <2>1 DEF NextItem, Items
    <3> QED
      BY <3>1, <3>2 DEF BeginsWithComment
  <2>2. CASE next > 1
    BY <1>1, <2>2 DEF OutcomeInv, ReadSoFar
  <2> QED
    BY <1>2, <2>1, <2>2
<1>6. BeginsWithComment(fileNo)'
  BY <1>1, <1>5 DEF BeginsWithComment, LeftOpen
<1>7. next' # 1
  BY <1>1, <1>2
<1>8. FilesBefore'
  BY <1>1, ReadableStays DEF OutcomeInv, FilesBefore
<1> QED
  BY <1>1, <1>4, <1>6, <1>7, <1>8 DEF OutcomeInv, ReadSoFar, CommentIsOpen

LEMMA StartCollectionOutcome == IInv /\ OutcomeInv /\ StartCollection => OutcomeInv'
<1> SUFFICES ASSUME IInv, OutcomeInv, StartCollection PROVE OutcomeInv'
  OBVIOUS
<1>1. /\ phase = "scan" /\ phase' = "reduce" /\ files' = files /\ fileNo' = fileNo
      /\ next > LastItem /\ stack # <<>> /\ inComment' = files[fileNo].open
  BY DEF StartCollection
<1>2. /\ fileNo \in Nat \ {0} /\ next \in Nat \ {0} /\ LastItem \in Nat
      /\ next <= LastItem + 1 /\ next > 1
      /\ LastItem = Tokens(files[fileNo])
  BY <1>1, ScanFacts
<1>3. files[fileNo].found /\ BeginsWithComment(fileNo)
  BY <1>1, <1>2 DEF OutcomeInv, ReadSoFar
<1>4. \A i \in 1 .. LastItem : ItemPasses(fileNo, i)
  BY <1>1, <1>2 DEF OutcomeInv, ReadSoFar
<1>5. Readable(fileNo)
  <2>1. Tokens(files[fileNo]) > 0
    BY <1>1, <1>2
  <2>2. fileNo > 1 /\ files[fileNo - 1].open => files[fileNo].items[1].kind = Comment
    BY <1>2, <1>3 DEF BeginsWithComment, LeftOpen
  <2> QED
    BY <1>2, <1>3, <1>4, <2>1, <2>2 DEF Readable, ItemPasses
<1>6. inComment' <=> LeftOpen(fileNo)'
  <2>1. files[fileNo].open \in BOOLEAN
    BY <1>1, PubsType, FileFacts DEF IInv, Position
  <2> QED
    BY <1>1, <1>2, <2>1 DEF LeftOpen
<1>7. FilesBefore'
  BY <1>1, <1>5, ReadableStays DEF OutcomeInv, FilesBefore, Readable
<1> QED
  BY <1>1, <1>6, <1>7 DEF OutcomeInv, ReadSoFar, CommentIsOpen

LEMMA AcceptOutcome == IInv /\ OutcomeInv /\ Accept => OutcomeInv'
<1> SUFFICES ASSUME IInv, OutcomeInv, Accept PROVE OutcomeInv'
  OBVIOUS
<1>1. /\ phase = "reduce" /\ fileNo > 0 /\ fileNo \in Nat
      /\ phase' = IF fileNo = Len(files) THEN "parsed" ELSE "open"
      /\ UNCHANGED <<files, fileNo, inComment>>
  BY DEF Accept, IInv, TypeOK, Position
<1>2. \A f \in 1 .. fileNo : Readable(f)
  BY <1>1 DEF OutcomeInv, FilesBefore
<1>3. \A f \in 1 .. fileNo' : Readable(f)'
  BY <1>1, <1>2, ReadableStays
<1>4. FilesBefore'
  BY <1>1, <1>3, ReadableStays DEF OutcomeInv, FilesBefore, Readable
<1> QED
  BY <1>1, <1>4 DEF OutcomeInv, ReadSoFar, CommentIsOpen, LeftOpen

LEMMA NextOutcome == IInv /\ OutcomeInv /\ [Next]_vars => OutcomeInv'
<1> SUFFICES ASSUME IInv, OutcomeInv, [Next]_vars PROVE OutcomeInv'
  OBVIOUS
<1>1. CASE ReduceCollection
  BY <1>1 DEF ReduceCollection, OutcomeInv, FilesBefore, ReadSoFar, CommentIsOpen,
              Readable, LeftOpen
<1>2. CASE Finished \/ UNCHANGED vars
  BY <1>2 DEF Finished, vars, OutcomeInv, FilesBefore, ReadSoFar, CommentIsOpen,
              Readable, LeftOpen, ItemPasses, BeginsWithComment, OutcomeFollowsInput
<1> QED
  BY <1>1, <1>2, OpenOutcome, GiveUpOutcome, ReducedOutcome, StartCollectionOutcome,
     AcceptOutcome DEF Next

(***************************************************************************)
(* Whatever the files on the command line and whatever the limit of the    *)
(* parser's stack, the program gives up exactly at the first file that is  *)
(* not readable, and reads all of them if there is none.                   *)
(***************************************************************************)
THEOREM OutcomeFollows == Spec => []OutcomeFollowsInput
<1>1. Init => OutcomeInv
  <2> SUFFICES ASSUME Init PROVE OutcomeInv
    OBVIOUS
  <2>1. phase = "open" /\ fileNo = 0 /\ inComment = FALSE
    BY DEF Init
  <2>2. CommentIsOpen
    BY <2>1 DEF LeftOpen, CommentIsOpen
  <2>3. FilesBefore
    BY <2>1 DEF FilesBefore
  <2> QED
    BY <2>1, <2>2, <2>3 DEF OutcomeInv, ReadSoFar
<1>2. IInv /\ OutcomeInv /\ [Next]_vars => OutcomeInv'
  BY NextOutcome
<1>3. IInv /\ OutcomeInv => OutcomeFollowsInput
  <2> SUFFICES ASSUME IInv, OutcomeInv PROVE OutcomeFollowsInput
    OBVIOUS
  <2>1. fileNo \in Nat /\ files \in Seq(File) \ {<<>>}
    BY DEF IInv, TypeOK
  <2>2. ASSUME phase = "parsed", NEW f \in DOMAIN files PROVE Readable(f)
    <3>1. fileNo = Len(files) /\ f \in 1 .. fileNo /\ fileNo > 0
      BY <2>1, <2>2 DEF OutcomeInv, FilesBefore
    <3>2. f \in 1 .. fileNo - 1 \/ f = fileNo
      BY <2>1, <3>1
    <3> QED
      BY <2>2, <3>1, <3>2 DEF OutcomeInv, FilesBefore
  <2> QED
    BY <2>2 DEF OutcomeInv, FilesBefore, OutcomeFollowsInput
<1> QED
  BY <1>1, <1>2, <1>3, AlwaysIInv, PTL DEF Spec

-----------------------------------------------------------------------------
(***************************************************************************)
(* Catalog!F, as BibCatalog has it, is F as the parser has it, for all of  *)
(* the definitions of BibNodes and BibFiles that BibCatalog uses.          *)
(***************************************************************************)
LEMMA CatalogSpeaksOfTheSame ==
    ASSUME NEW fs, NEW f, NEW list, NEW pubs
    PROVE  /\ Catalog!File = File
           /\ Catalog!Publications(fs, f) = Publications(fs, f)
           /\ Catalog!IsMergeOf(list, pubs) <=> IsMergeOf(list, pubs)
<1>1. Catalog!File = File
  BY DEF Catalog!File, File, Catalog!Item, Item, Catalog!Comment, Comment,
         Catalog!Broken, Broken
<1>2. Catalog!Comment = Comment /\ \A file : Catalog!Tokens(file) = Tokens(file)
  BY DEF Catalog!Comment, Comment, Catalog!Tokens, Tokens
<1>3. \A file, n : Catalog!CommentsIn(file, n) = CommentsIn(file, n)
  BY <1>2 DEF Catalog!CommentsIn, CommentsIn
<1>4. \A i : Catalog!CommentTokens(fs, f, i) = CommentTokens(fs, f, i)
  BY <1>2, <1>3 DEF Catalog!CommentTokens, CommentTokens
<1>5. Catalog!Publications(fs, f) = Publications(fs, f)
  <2>1. \A S : Catalog!Cardinality(S) = Cardinality(S)
    BY DEF Catalog!Cardinality, Cardinality
  <2> QED
    BY <1>2, <1>4, <2>1 DEF Catalog!Publications, Publications
<1>6. Catalog!UniqueKeywordsIn(list) <=> UniqueKeywordsIn(list)
  BY DEF Catalog!UniqueKeywordsIn, UniqueKeywordsIn
<1>7. \A i : /\ Catalog!IsFirst(pubs, i) <=> IsFirst(pubs, i)
             /\ Catalog!IsLatest(pubs, i) <=> IsLatest(pubs, i)
             /\ Catalog!IsFirstTitled(pubs, i) <=> IsFirstTitled(pubs, i)
  BY DEF Catalog!IsFirst, IsFirst, Catalog!IsLatest, IsLatest,
         Catalog!IsFirstTitled, IsFirstTitled
<1>8. \A title, l : Catalog!IsTitleOf(title, pubs, l) <=> IsTitleOf(title, pubs, l)
  BY <1>7 DEF Catalog!IsTitleOf, IsTitleOf
<1>9. \A node : Catalog!IsMergeOfKeyword(node, pubs) <=> IsMergeOfKeyword(node, pubs)
  BY <1>7, <1>8 DEF Catalog!IsMergeOfKeyword, IsMergeOfKeyword
<1>10. Catalog!InOrderOf(list, pubs) <=> InOrderOf(list, pubs)
  BY <1>7 DEF Catalog!InOrderOf, InOrderOf
<1>11. Catalog!IsMergeOf(list, pubs) <=> IsMergeOf(list, pubs)
  BY <1>6, <1>9, <1>10 DEF Catalog!IsMergeOf, IsMergeOf
<1> QED
  BY <1>1, <1>5, <1>11

(***************************************************************************)
(* Parsing implements BibCatalog: the global bibTeXFile changes only when  *)
(* a file has been read to its end, and then it is the merge of the        *)
(* publications of that file, although the parser has built it one by one  *)
(* and from the end.                                                       *)
(***************************************************************************)
THEOREM ParserImplementsCatalog == Spec => ImplementsCatalog
<1> DEFINE catalogVars == <<files, Loaded, bibTeXFile>>
<1>1. Init => Catalog!Init
  <2> SUFFICES ASSUME Init PROVE Catalog!Init
    OBVIOUS
  <2>1. files \in Seq(Catalog!File)
    BY InputsAssumption, CatalogSpeaksOfTheSame DEF Init
  <2>2. Loaded = 0 /\ bibTeXFile = <<>>
    BY DEF Init, Loaded
  <2> QED
    BY <2>1, <2>2 DEF Catalog!Init
<1>2. IInv /\ [Next]_vars => [Catalog!Load]_catalogVars
  <2> SUFFICES ASSUME IInv, [Next]_vars
               PROVE  Catalog!Load \/ UNCHANGED catalogVars
    OBVIOUS
  <2>1. fileNo \in Nat /\ fileNo <= Len(files) /\ Len(files) \in Nat
    BY DEF IInv, TypeOK
  <2>2. phase \in {"scan", "reduce"} => fileNo > 0
    BY DEF IInv, Position
  <2>3. CASE OpenFile \/ OpenFails
    <3>1. /\ phase = "open" /\ phase' \in {"scan", "failed"} /\ fileNo' = fileNo + 1
          /\ files' = files /\ bibTeXFile' = bibTeXFile
      BY <2>3 DEF OpenFile, OpenFails
    <3> QED
      BY <2>1, <3>1 DEF Loaded
  <2>4. CASE \/ MakeComment \/ MakePublication \/ SyntaxError \/ MemoryExhausted
             \/ StartCollection \/ ReduceCollection
    <3>1. /\ phase \in {"scan", "reduce"} /\ phase' \in {"scan", "reduce", "failed"}
          /\ fileNo' = fileNo /\ files' = files /\ bibTeXFile' = bibTeXFile
      BY <2>4 DEF MakeComment, MakePublication, SyntaxError, MemoryExhausted,
                  StartCollection, ReduceCollection, HasItem, Reduced
    <3> QED
      BY <2>1, <3>1 DEF Loaded
  <2>5. CASE Accept
    <3>1. /\ phase = "reduce" /\ phase' \in {"open", "parsed"} /\ stack = <<>>
          /\ bibTeXFile' = coll /\ fileNo' = fileNo /\ files' = files
      BY <2>5 DEF Accept
    <3>2. Loaded' = fileNo /\ Loaded + 1 = fileNo /\ Loaded < Len(files)
      BY <2>1, <2>2, <3>1 DEF Loaded
    <3>3. Pubs \in Seq(Node)
      BY <2>2, <3>1, PubsType
    <3>4. IsMergeOf(coll, Pubs)
      <4>1. IsMergeOf(coll, SubSeq(Pubs, Len(stack) + 1, Len(Pubs)))
        BY <3>1 DEF IInv, CollIsMerge
      <4>2. Len(stack) + 1 = 1
        BY <3>1
      <4>3. SubSeq(Pubs, 1, Len(Pubs)) = Pubs
        BY <3>3
      <4> QED
        BY <4>1, <4>2, <4>3
    <3>5. IsMergeOf(bibTeXFile', Publications(files, Loaded'))
      BY <3>1, <3>2, <3>4 DEF Pubs
    <3>6. Loaded' = Loaded + 1 /\ Loaded < Len(files) /\ UNCHANGED files
      BY <3>1, <3>2
    <3>7. Catalog!Load
      BY <3>5, <3>6, CatalogSpeaksOfTheSame DEF Catalog!Load
    <3> QED
      BY <3>7
  <2>6. CASE Finished \/ UNCHANGED vars
    BY <2>6 DEF Finished, vars, Loaded
  <2> QED
    BY <2>3, <2>4, <2>5, <2>6 DEF Next
<1> QED
  BY <1>1, <1>2, AlwaysIInv, PTL DEF Spec, ImplementsCatalog, Catalog!Spec
=============================================================================
