--------------------------- MODULE BibNodesProofs ---------------------------
(***************************************************************************)
(* What makePublicationCollection() does to a collection, for collections  *)
(* of any length: it keeps the keywords unique, and turns the merge of the *)
(* publications of a file's end into the merge of one publication more.    *)
(***************************************************************************)
EXTENDS BibNodes, WellFoundedInduction, TLAPS

(***************************************************************************)
(* With unique keywords, the node that the walk along the list finds is    *)
(* the only one of its keyword.                                            *)
(***************************************************************************)
LEMMA FirstIsTheOnly ==
    ASSUME NEW node2 \in Seq(Node), UniqueKeywordsIn(node2),
           NEW i \in DOMAIN node2
    PROVE  /\ SameKeyword(node2, node2[i].keyword) = {i}
           /\ FirstWithKeyword(node2, node2[i].keyword) = i
<1>1. SameKeyword(node2, node2[i].keyword) = {i}
  BY DEF SameKeyword, UniqueKeywordsIn
<1>2. i \in Nat
  OBVIOUS
<1> QED
  BY <1>1, <1>2 DEF FirstWithKeyword

(***************************************************************************)
(* The reused node is a node with the keyword and the type of the old one. *)
(***************************************************************************)
LEMMA ReuseFields ==
    ASSUME NEW old \in Node, NEW new \in Node
    PROVE  /\ Reuse(old, new) \in Node
           /\ Reuse(old, new).keyword = old.keyword
           /\ Reuse(old, new).value = old.value
           /\ Reuse(old, new).rest = new.rest
           /\ Reuse(old, new).title = KeptTitle(old, new)
<1>1. KeptTitle(old, new) \in Titles \cup {NoTitle}
  BY DEF KeptTitle, Node
<1> QED
  BY <1>1 DEF Reuse, Node

LEMMA WithoutFields ==
    ASSUME NEW list \in Seq(Node), NEW i \in DOMAIN list
    PROVE  /\ Without(list, i) \in Seq(Node)
           /\ Len(Without(list, i)) = Len(list) - 1
           /\ \A j \in 1 .. Len(list) - 1 :
                 Without(list, i)[j] = IF j < i THEN list[j] ELSE list[j + 1]
<1>1. Len(list) \in Nat /\ DOMAIN list = 1 .. Len(list) /\ i \in 1 .. Len(list)
  OBVIOUS
<1>2. Len(list) - 1 \in Nat
  BY <1>1
<1>3. \A j \in 1 .. Len(list) - 1 :
         (IF j < i THEN list[j] ELSE list[j + 1]) \in Node
  BY <1>1
<1> QED
  BY <1>1, <1>2, <1>3 DEF Without

-----------------------------------------------------------------------------
(***************************************************************************)
(* One more publication in front of the publications of a file's end.      *)
(***************************************************************************)
LEMMA InFront ==
    ASSUME NEW p \in Node, NEW pubs \in Seq(Node)
    PROVE  /\ <<p>> \o pubs \in Seq(Node)
           /\ Len(<<p>> \o pubs) = Len(pubs) + 1
           /\ DOMAIN (<<p>> \o pubs) = 1 .. Len(pubs) + 1
           /\ (<<p>> \o pubs)[1] = p
           /\ \A j \in DOMAIN pubs : (<<p>> \o pubs)[j + 1] = pubs[j]
           /\ \A j \in DOMAIN (<<p>> \o pubs) :
                 j # 1 => /\ j - 1 \in DOMAIN pubs
                          /\ (<<p>> \o pubs)[j] = pubs[j - 1]
<1>1. <<p>> \in Seq(Node) /\ Len(<<p>>) = 1 /\ <<p>>[1] = p
  OBVIOUS
<1>2. Len(pubs) \in Nat /\ DOMAIN pubs = 1 .. Len(pubs)
  OBVIOUS
<1> QED
  BY <1>1, <1>2

(***************************************************************************)
(* The first, the latest and the first titled publication of a keyword     *)
(* other than that of the publication put in front stay the same.          *)
(***************************************************************************)
LEMMA OtherKeyword ==
    ASSUME NEW p \in Node, NEW pubs \in Seq(Node), NEW i \in DOMAIN pubs,
           pubs[i].keyword # p.keyword
    PROVE  LET P == <<p>> \o pubs
           IN  /\ IsFirst(pubs, i) <=> IsFirst(P, i + 1)
               /\ IsLatest(pubs, i) <=> IsLatest(P, i + 1)
               /\ IsFirstTitled(pubs, i) => IsFirstTitled(P, i + 1)
<1> DEFINE P == <<p>> \o pubs
<1>1. /\ DOMAIN P = 1 .. Len(pubs) + 1 /\ P[1] = p
      /\ \A j \in DOMAIN pubs : P[j + 1] = pubs[j]
      /\ \A j \in DOMAIN P : j # 1 => j - 1 \in DOMAIN pubs /\ P[j] = pubs[j - 1]
  BY InFront
<1>2. Len(pubs) \in Nat /\ DOMAIN pubs = 1 .. Len(pubs)
  OBVIOUS
<1> HIDE DEF P
<1>3. /\ i \in Nat /\ i + 1 \in DOMAIN P /\ P[i + 1] = pubs[i]
      /\ \A j \in DOMAIN pubs : j \in Nat /\ j + 1 \in DOMAIN P
      /\ \A j \in DOMAIN P : j \in Nat
  BY <1>1, <1>2
<1>4. ASSUME NEW j \in DOMAIN P, P[j].keyword = P[i + 1].keyword
      PROVE  /\ j - 1 \in DOMAIN pubs /\ P[j] = pubs[j - 1]
             /\ pubs[j - 1].keyword = pubs[i].keyword
  BY <1>1, <1>3, <1>4
<1>5. IsFirst(pubs, i) => IsFirst(P, i + 1)
  BY <1>3, <1>4 DEF IsFirst
<1>6. IsFirst(P, i + 1) => IsFirst(pubs, i)
  BY <1>1, <1>3 DEF IsFirst
<1>7. IsLatest(pubs, i) => IsLatest(P, i + 1)
  BY <1>3, <1>4 DEF IsLatest
<1>8. IsLatest(P, i + 1) => IsLatest(pubs, i)
  BY <1>1, <1>3 DEF IsLatest
<1>9. IsFirstTitled(pubs, i) => IsFirstTitled(P, i + 1)
  BY <1>3, <1>4 DEF IsFirstTitled
<1> QED
  BY <1>5, <1>6, <1>7, <1>8, <1>9 DEF P

LEMMA OtherMerge ==
    ASSUME NEW p \in Node, NEW pubs \in Seq(Node), NEW node \in Node,
           IsMergeOfKeyword(node, pubs), node.keyword # p.keyword
    PROVE  IsMergeOfKeyword(node, <<p>> \o pubs)
<1> DEFINE P == <<p>> \o pubs
<1>1. PICK f \in DOMAIN pubs, l \in DOMAIN pubs :
         /\ IsFirst(pubs, f) /\ pubs[f].keyword = node.keyword
         /\ IsLatest(pubs, l) /\ pubs[l].keyword = node.keyword
         /\ node.value = pubs[f].value
         /\ node.rest = pubs[l].rest
         /\ IsTitleOf(node.title, pubs, l)
  BY DEF IsMergeOfKeyword
<1>2. \A j \in DOMAIN pubs : j + 1 \in DOMAIN P /\ P[j + 1] = pubs[j]
  BY InFront
<1>3. IsFirst(P, f + 1) /\ IsLatest(P, l + 1)
  BY <1>1, OtherKeyword
<1>4. IsTitleOf(node.title, P, l + 1)
  <2>1. CASE pubs[l].title = NoTitle
    BY <1>1, <1>2, <2>1 DEF IsTitleOf
  <2>2. CASE pubs[l].title # NoTitle
    <3>1. PICK t \in DOMAIN pubs : /\ pubs[t].keyword = pubs[l].keyword
                                   /\ IsFirstTitled(pubs, t)
                                   /\ node.title = pubs[t].title
      BY <1>1, <2>2 DEF IsTitleOf
    <3>2. IsFirstTitled(P, t + 1)
      BY <1>1, <3>1, OtherKeyword
    <3> HIDE DEF P
    <3> QED
      BY <1>2, <2>2, <3>1, <3>2 DEF IsTitleOf
  <2> QED
    BY <2>1, <2>2
<1> HIDE DEF P
<1>5. IsMergeOfKeyword(node, P)
  BY <1>1, <1>2, <1>3, <1>4 DEF IsMergeOfKeyword
<1> QED
  BY <1>5 DEF P

(***************************************************************************)
(* The publication in front is the merge of a keyword that is new.         *)
(***************************************************************************)
LEMMA NewMerge ==
    ASSUME NEW p \in Node, NEW pubs \in Seq(Node),
           \A j \in DOMAIN pubs : pubs[j].keyword # p.keyword
    PROVE  IsMergeOfKeyword(p, <<p>> \o pubs)
<1> DEFINE P == <<p>> \o pubs
<1>1. /\ 1 \in DOMAIN P /\ P[1] = p
      /\ \A j \in DOMAIN P : j \in Nat /\ (P[j].keyword = p.keyword => j = 1)
  BY InFront
<1> HIDE DEF P
<1>2. IsFirst(P, 1) /\ IsLatest(P, 1)
  BY <1>1 DEF IsFirst, IsLatest
<1>3. p.title # NoTitle => IsFirstTitled(P, 1)
  BY <1>1 DEF IsFirstTitled
<1>4. IsTitleOf(p.title, P, 1)
  BY <1>1, <1>3 DEF IsTitleOf
<1>5. IsMergeOfKeyword(p, P)
  BY <1>1, <1>2, <1>4 DEF IsMergeOfKeyword
<1> QED
  BY <1>5 DEF P

(***************************************************************************)
(* The reused node is the merge of a keyword that occurs again.            *)
(***************************************************************************)
LEMMA ReuseMerge ==
    ASSUME NEW p \in Node, NEW pubs \in Seq(Node), NEW node \in Node,
           IsMergeOfKeyword(node, pubs), node.keyword = p.keyword
    PROVE  IsMergeOfKeyword(Reuse(p, node), <<p>> \o pubs)
<1> DEFINE P == <<p>> \o pubs
           r == Reuse(p, node)
<1>1. PICK f \in DOMAIN pubs, l \in DOMAIN pubs :
         /\ IsFirst(pubs, f) /\ pubs[f].keyword = node.keyword
         /\ IsLatest(pubs, l) /\ pubs[l].keyword = node.keyword
         /\ node.value = pubs[f].value
         /\ node.rest = pubs[l].rest
         /\ IsTitleOf(node.title, pubs, l)
  BY DEF IsMergeOfKeyword
<1>2. /\ 1 \in DOMAIN P /\ P[1] = p
      /\ \A j \in DOMAIN pubs : j \in Nat \ {0} /\ j + 1 \in DOMAIN P /\ P[j + 1] = pubs[j]
      /\ \A j \in DOMAIN P : /\ j \in Nat \ {0}
                             /\ j # 1 => j - 1 \in DOMAIN pubs /\ P[j] = pubs[j - 1]
  BY InFront
<1>3. /\ r.keyword = p.keyword /\ r.value = p.value /\ r.rest = node.rest
      /\ r.title = KeptTitle(p, node)
  BY ReuseFields
<1> HIDE DEF P, r
<1>4. IsFirst(P, 1)
  BY <1>2 DEF IsFirst
<1>5. IsLatest(P, l + 1)
  <2> SUFFICES ASSUME NEW j \in DOMAIN P, P[j].keyword = P[l + 1].keyword
               PROVE  j <= l + 1
    BY DEF IsLatest
  <2>1. CASE j = 1
    BY <1>2, <2>1
  <2>2. CASE j # 1
    <3>1. j - 1 \in DOMAIN pubs /\ pubs[j - 1].keyword = pubs[l].keyword
      BY <1>2, <2>2
    <3>2. j - 1 <= l
      BY <1>1, <3>1 DEF IsLatest
    <3> QED
      BY <1>2, <3>2
  <2> QED
    BY <2>1, <2>2
<1>6. IsTitleOf(r.title, P, l + 1)
  <2>1. CASE pubs[l].title = NoTitle
    BY <1>1, <1>2, <1>3, <2>1 DEF IsTitleOf, KeptTitle
  <2>2. CASE pubs[l].title # NoTitle
    <3>1. PICK t \in DOMAIN pubs : /\ pubs[t].keyword = pubs[l].keyword
                                   /\ IsFirstTitled(pubs, t)
                                   /\ node.title = pubs[t].title
      BY <1>1, <2>2 DEF IsTitleOf
    <3>2. CASE p.title # NoTitle
      <4>1. r.title = p.title
        BY <1>3, <3>1, <3>2 DEF KeptTitle, IsFirstTitled
      <4>2. IsFirstTitled(P, 1)
        BY <1>2, <3>2 DEF IsFirstTitled
      <4> QED
        BY <1>1, <1>2, <2>2, <4>1, <4>2 DEF IsTitleOf
    <3>3. CASE p.title = NoTitle
      <4>1. r.title = node.title
        BY <1>3, <3>3 DEF KeptTitle
      <4>2. P[t + 1] = pubs[t] /\ P[t + 1].title # NoTitle
        BY <1>2, <3>1 DEF IsFirstTitled
      <4>3. ASSUME NEW j \in DOMAIN P, P[j].keyword = P[t + 1].keyword,
                   P[j].title # NoTitle
            PROVE  t + 1 <= j
        <5>1. j # 1
          BY <1>2, <3>3, <4>3
        <5>2. j - 1 \in DOMAIN pubs /\ P[j] = pubs[j - 1]
          BY <1>2, <5>1
        <5>3. t <= j - 1
          BY <3>1, <4>2, <4>3, <5>2 DEF IsFirstTitled
        <5> QED
          BY <1>2, <5>3
      <4>4. IsFirstTitled(P, t + 1)
        BY <4>2, <4>3 DEF IsFirstTitled
      <4> QED
        BY <1>1, <1>2, <2>2, <3>1, <4>1, <4>4 DEF IsTitleOf
    <3> QED
      BY <3>2, <3>3
  <2> QED
    BY <2>1, <2>2
<1>7. IsMergeOfKeyword(r, P)
  BY <1>1, <1>2, <1>3, <1>4, <1>5, <1>6 DEF IsMergeOfKeyword
<1> QED
  BY <1>7 DEF P, r

-----------------------------------------------------------------------------
(***************************************************************************)
(* A list is the merge of one publication more if it has the merge of the  *)
(* new publication's keyword at its head and after it, in their order      *)
(* (place i held by the node that was at m[i]), all nodes of the merge of  *)
(* the other publications that have another keyword.                       *)
(***************************************************************************)
LEMMA MergeGrows ==
    ASSUME NEW p \in Node, NEW pubs \in Seq(Node), NEW list \in Seq(Node),
           IsMergeOf(list, pubs),
           NEW grown \in Seq(Node), 1 \in DOMAIN grown,
           grown[1].keyword = p.keyword,
           IsMergeOfKeyword(grown[1], <<p>> \o pubs),
           NEW m,
           \A i \in DOMAIN grown \ {1} : /\ m[i] \in DOMAIN list
                                         /\ grown[i] = list[m[i]]
                                         /\ list[m[i]].keyword # p.keyword,
           \A i, j \in DOMAIN grown \ {1} : i < j => m[i] < m[j],
           \A k \in DOMAIN list :
              list[k].keyword = p.keyword \/ \E i \in DOMAIN grown \ {1} : m[i] = k
    PROVE  IsMergeOf(grown, <<p>> \o pubs)
<1> DEFINE P == <<p>> \o pubs
<1>1. /\ 1 \in DOMAIN P /\ P[1] = p
      /\ \A j \in DOMAIN pubs : j + 1 \in DOMAIN P /\ P[j + 1] = pubs[j]
      /\ \A j \in DOMAIN P : /\ j \in Nat \ {0}
                             /\ j # 1 => j - 1 \in DOMAIN pubs /\ P[j] = pubs[j - 1]
  BY InFront
<1>2. /\ \A i \in DOMAIN grown : i \in Nat \ {0} /\ grown[i] \in Node
      /\ \A i \in DOMAIN list : i \in Nat \ {0}
  OBVIOUS
<1>3. /\ UniqueKeywordsIn(list)
      /\ \A q \in DOMAIN pubs : \E i \in DOMAIN list : list[i].keyword = pubs[q].keyword
      /\ \A i \in DOMAIN list : IsMergeOfKeyword(list[i], pubs)
      /\ InOrderOf(list, pubs)
  BY DEF IsMergeOf
<1> HIDE DEF P
<1>4. \A i \in DOMAIN grown : i # 1 => grown[i].keyword # p.keyword
  OBVIOUS
<1>5. UniqueKeywordsIn(grown)
  <2> SUFFICES ASSUME NEW i \in DOMAIN grown, NEW j \in DOMAIN grown,
                      grown[i].keyword = grown[j].keyword
               PROVE  i = j
    BY DEF UniqueKeywordsIn
  <2>1. CASE i = 1 \/ j = 1
    BY <1>4, <2>1
  <2>2. CASE i # 1 /\ j # 1
    <3>1. m[i] = m[j]
      BY <1>3, <2>2 DEF UniqueKeywordsIn
    <3>2. m[i] \in Nat
      BY <1>2, <2>2
    <3>3. ~(i < j) /\ ~(j < i)
      BY <2>2, <3>1, <3>2
    <3> QED
      BY <1>2, <3>3
  <2> QED
    BY <2>1, <2>2
<1>6. ASSUME NEW q \in DOMAIN P
      PROVE  \E i \in DOMAIN grown : grown[i].keyword = P[q].keyword
  <2>1. CASE P[q].keyword = p.keyword
    BY <2>1
  <2>2. CASE P[q].keyword # p.keyword
    <3>1. q - 1 \in DOMAIN pubs /\ P[q] = pubs[q - 1]
      BY <1>1, <2>2
    <3>2. PICK k \in DOMAIN list : list[k].keyword = P[q].keyword
      BY <1>3, <3>1
    <3> QED
      BY <2>2, <3>2
  <2> QED
    BY <2>1, <2>2
<1>7. ASSUME NEW i \in DOMAIN grown
      PROVE  IsMergeOfKeyword(grown[i], P)
  <2>1. CASE i = 1
    BY <2>1 DEF P
  <2>2. CASE i # 1
    <3>1. grown[i] \in Node /\ grown[i].keyword # p.keyword
      BY <1>2, <1>4, <2>2
    <3>2. grown[i] = list[m[i]] /\ IsMergeOfKeyword(list[m[i]], pubs)
      BY <1>3, <2>2
    <3> QED
      BY <3>1, <3>2, OtherMerge DEF P
  <2> QED
    BY <2>1, <2>2
<1>8. ASSUME NEW i \in DOMAIN grown, i # 1, NEW f \in DOMAIN P,
             IsFirst(P, f), P[f].keyword = grown[i].keyword
      PROVE  /\ f # 1 /\ f - 1 \in DOMAIN pubs
             /\ IsFirst(pubs, f - 1)
             /\ pubs[f - 1].keyword = list[m[i]].keyword
  <2>1. f # 1
    BY <1>1, <1>4, <1>8
  <2>2. f - 1 \in DOMAIN pubs /\ P[f] = pubs[f - 1]
    BY <1>1, <2>1
  <2>3. pubs[f - 1].keyword # p.keyword
    BY <1>4, <1>8, <2>2
  <2>4. (f - 1) + 1 = f
    BY <1>1
  <2>5. IsFirst(pubs, f - 1) <=> IsFirst(P, (f - 1) + 1)
    BY <2>2, <2>3, OtherKeyword DEF P
  <2> QED
    BY <1>8, <2>1, <2>2, <2>4, <2>5
<1>9. InOrderOf(grown, P)
  <2> SUFFICES ASSUME NEW i \in DOMAIN grown, NEW j \in DOMAIN grown,
                      NEW f \in DOMAIN P, NEW g \in DOMAIN P,
                      i < j,
                      IsFirst(P, f), P[f].keyword = grown[i].keyword,
                      IsFirst(P, g), P[g].keyword = grown[j].keyword
               PROVE  f < g
    BY DEF InOrderOf
  <2>1. j # 1
    BY <1>2
  <2>2. /\ g # 1 /\ g - 1 \in DOMAIN pubs /\ IsFirst(pubs, g - 1)
        /\ pubs[g - 1].keyword = list[m[j]].keyword
    BY <1>8, <2>1
  <2>3. CASE i = 1
    <3>1. f <= 1
      BY <1>1, <2>3 DEF IsFirst
    <3> QED
      BY <1>1, <2>2, <3>1
  <2>4. CASE i # 1
    <3>1. /\ f - 1 \in DOMAIN pubs /\ IsFirst(pubs, f - 1)
          /\ pubs[f - 1].keyword = list[m[i]].keyword
      BY <1>8, <2>4
    <3>2. m[i] \in DOMAIN list /\ m[j] \in DOMAIN list /\ m[i] < m[j]
      BY <2>1, <2>4
    <3>3. f - 1 < g - 1
      BY <1>3, <2>2, <3>1, <3>2 DEF InOrderOf
    <3> QED
      BY <1>1, <3>3
  <2> QED
    BY <2>3, <2>4
<1>10. IsMergeOf(grown, P)
  BY <1>5, <1>6, <1>7, <1>9 DEF IsMergeOf
<1> QED
  BY <1>10 DEF P

(***************************************************************************)
(* makePublicationCollection() returns a list of nodes.                    *)
(***************************************************************************)
LEMMA MakePublicationCollectionType ==
    ASSUME NEW p \in Node, NEW list \in Seq(Node)
    PROVE  MakePublicationCollection(p, list) \in Seq(Node)
<1>1. CASE SameKeyword(list, p.keyword) = {}
  BY <1>1, InFront DEF MakePublicationCollection
<1>2. CASE SameKeyword(list, p.keyword) # {}
  <2> DEFINE S == SameKeyword(list, p.keyword)
             d == FirstWithKeyword(list, p.keyword)
  <2>1. S \subseteq Nat
    BY DEF SameKeyword
  <2>2. \E i \in S : \A j \in S : i <= j
    <3> DEFINE LT == {ss \in Nat \X Nat : ss[1] < ss[2]}
    <3>1. IsWellFoundedOn(LT, Nat)
      BY NatLessThanWellFounded DEF OpToRel
    <3>2. \E i \in S : \A j \in S : <<j, i>> \notin LT
      BY <1>2, <2>1, <3>1, WFMin
    <3>3. PICK i \in S : \A j \in S : <<j, i>> \notin LT
      BY <3>2
    <3>4. ASSUME NEW j \in S PROVE i <= j
      <4>1. i \in Nat /\ j \in Nat /\ <<j, i>> \notin LT
        BY <2>1, <3>3
      <4> QED
        BY <4>1
    <3> QED
      BY <3>4
  <2>3. d \in DOMAIN list
    BY <2>2 DEF FirstWithKeyword, SameKeyword
  <2>4. list[d] \in Node /\ Without(list, d) \in Seq(Node)
    BY <2>3, WithoutFields
  <2>5. Reuse(p, list[d]) \in Node
    BY <2>4, ReuseFields
  <2>6. <<Reuse(p, list[d])>> \o Without(list, d) \in Seq(Node)
    BY <2>4, <2>5, InFront
  <2> QED
    BY <1>2, <2>6 DEF MakePublicationCollection
<1> QED
  BY <1>1, <1>2

(***************************************************************************)
(* A collection that has one publication and no other is its own merge.    *)
(***************************************************************************)
LEMMA SingleMerge ==
    ASSUME NEW p \in Node
    PROVE  IsMergeOf(<<p>>, <<p>>)
<1> DEFINE P == <<p>>
<1>1. DOMAIN P = {1} /\ P[1] = p
  OBVIOUS
<1> HIDE DEF P
<1>2. UniqueKeywordsIn(P) /\ IsFirst(P, 1) /\ IsLatest(P, 1)
  BY <1>1 DEF UniqueKeywordsIn, IsFirst, IsLatest
<1>3. p.title # NoTitle => IsFirstTitled(P, 1)
  BY <1>1 DEF IsFirstTitled
<1>4. IsTitleOf(p.title, P, 1)
  BY <1>1, <1>3 DEF IsTitleOf
<1>5. IsMergeOfKeyword(P[1], P)
  BY <1>1, <1>2, <1>4 DEF IsMergeOfKeyword
<1>6. InOrderOf(P, P)
  BY <1>1 DEF InOrderOf
<1>7. IsMergeOf(P, P)
  BY <1>1, <1>2, <1>5, <1>6 DEF IsMergeOf
<1> QED
  BY <1>7 DEF P

(***************************************************************************)
(* makePublicationCollection() keeps what a collection is meant to be: the *)
(* merge of the publications put in it so far.                             *)
(***************************************************************************)
THEOREM MakePublicationCollectionMerges ==
    ASSUME NEW p \in Node, NEW pubs \in Seq(Node), NEW list \in Seq(Node),
           IsMergeOf(list, pubs)
    PROVE  IsMergeOf(MakePublicationCollection(p, list), <<p>> \o pubs)
<1> DEFINE grown == MakePublicationCollection(p, list)
<1>1. grown \in Seq(Node)
  BY MakePublicationCollectionType
<1>2. /\ UniqueKeywordsIn(list)
      /\ \A q \in DOMAIN pubs : \E i \in DOMAIN list : list[i].keyword = pubs[q].keyword
      /\ \A i \in DOMAIN list : IsMergeOfKeyword(list[i], pubs)
  BY DEF IsMergeOf
<1>3. Len(list) \in Nat /\ DOMAIN list = 1 .. Len(list)
  OBVIOUS
<1>4. CASE SameKeyword(list, p.keyword) = {}
  <2> DEFINE m == [i \in DOMAIN grown \ {1} |-> i - 1]
  <2>1. grown = <<p>> \o list
    BY <1>4 DEF MakePublicationCollection
  <2>2. /\ DOMAIN grown = 1 .. Len(list) + 1 /\ grown[1] = p
        /\ \A i \in DOMAIN grown \ {1} : i - 1 \in DOMAIN list /\ grown[i] = list[i - 1]
    BY <2>1, InFront
  <2>3. \A k \in DOMAIN list : list[k].keyword # p.keyword
    BY <1>4 DEF SameKeyword
  <2>4. IsMergeOfKeyword(p, <<p>> \o pubs)
    <3>1. \A q \in DOMAIN pubs : pubs[q].keyword # p.keyword
      BY <1>2, <2>3
    <3> QED
      BY <3>1, NewMerge
  <2> HIDE DEF grown
  <2>5. 1 \in DOMAIN grown
    BY <1>3, <2>2
  <2>6. \A i \in DOMAIN grown \ {1} : i \in Nat /\ m[i] = i - 1
    BY <2>2
  <2>7. \A k \in DOMAIN list : k + 1 \in DOMAIN grown \ {1} /\ m[k + 1] = k
    BY <1>3, <2>2
  <2> HIDE DEF m
  <2>8. \A i \in DOMAIN grown \ {1} : /\ m[i] \in DOMAIN list
                                      /\ grown[i] = list[m[i]]
                                      /\ list[m[i]].keyword # p.keyword
    BY <2>2, <2>3, <2>6
  <2>9. \A i, j \in DOMAIN grown \ {1} : i < j => m[i] < m[j]
    BY <2>6
  <2>10. grown[1].keyword = p.keyword /\ IsMergeOfKeyword(grown[1], <<p>> \o pubs)
    BY <2>2, <2>4
  <2>11. \A k \in DOMAIN list :
            list[k].keyword = p.keyword \/ \E i \in DOMAIN grown \ {1} : m[i] = k
    BY <2>7
  <2>12. IsMergeOf(grown, <<p>> \o pubs)
    BY <1>1, <2>5, <2>8, <2>9, <2>10, <2>11, MergeGrows
  <2> QED
    BY <2>12 DEF grown
<1>5. CASE SameKeyword(list, p.keyword) # {}
  <2>1. PICK d \in DOMAIN list : list[d].keyword = p.keyword
    BY <1>5 DEF SameKeyword
  <2> DEFINE r    == Reuse(p, list[d])
             w    == Without(list, d)
             m    == [i \in DOMAIN grown \ {1} |-> IF i - 1 < d THEN i - 1 ELSE i]
  <2>2. FirstWithKeyword(list, p.keyword) = d
    BY <1>2, <2>1, FirstIsTheOnly
  <2>3. grown = <<r>> \o w
    BY <1>5, <2>2 DEF MakePublicationCollection
  <2>4. list[d] \in Node /\ d \in Nat /\ 1 <= d /\ d <= Len(list)
    BY <1>3
  <2>5. r \in Node /\ r.keyword = p.keyword
    BY <2>4, ReuseFields
  <2>6. /\ w \in Seq(Node) /\ Len(w) = Len(list) - 1
        /\ \A j \in 1 .. Len(list) - 1 : w[j] = IF j < d THEN list[j] ELSE list[j + 1]
    BY WithoutFields
  <2>7. IsMergeOfKeyword(r, <<p>> \o pubs)
    BY <1>2, <2>1, <2>4, ReuseMerge
  <2>8. \A k \in DOMAIN list : k # d => list[k].keyword # p.keyword
    BY <1>2, <2>1 DEF UniqueKeywordsIn
  <2> HIDE DEF r, w
  <2>9. /\ DOMAIN grown = 1 .. Len(list) /\ grown[1] = r
        /\ \A i \in DOMAIN grown \ {1} : i - 1 \in DOMAIN w /\ grown[i] = w[i - 1]
    <3>1. /\ DOMAIN grown = 1 .. Len(w) + 1 /\ grown[1] = r
          /\ \A i \in DOMAIN grown :
                i # 1 => i - 1 \in DOMAIN w /\ grown[i] = w[i - 1]
      BY <2>3, <2>5, <2>6, InFront
    <3> HIDE DEF grown
    <3>2. Len(w) + 1 = Len(list)
      BY <1>3, <2>6
    <3> QED
      BY <3>1, <3>2
  <2> HIDE DEF grown
  <2>10. /\ 1 \in DOMAIN grown /\ grown[1].keyword = p.keyword
         /\ IsMergeOfKeyword(grown[1], <<p>> \o pubs)
    <3>1. 1 \in DOMAIN grown /\ grown[1] = r
      BY <1>3, <2>4, <2>9
    <3> QED
      BY <2>5, <2>7, <3>1
  <2>11. \A i \in DOMAIN grown \ {1} :
            i \in Nat /\ 2 <= i /\ m[i] = IF i - 1 < d THEN i - 1 ELSE i
    BY <1>3, <2>9
  <2>12. \A k \in DOMAIN list : k # d => \E i \in DOMAIN grown \ {1} : m[i] = k
    <3> SUFFICES ASSUME NEW k \in DOMAIN list, k # d
                 PROVE  \E i \in DOMAIN grown \ {1} : m[i] = k
      OBVIOUS
    <3>1. CASE k < d
      <4>1. k + 1 \in DOMAIN grown \ {1} /\ (k + 1) - 1 = k
        BY <1>3, <2>4, <2>9, <3>1
      <4> QED
        BY <3>1, <4>1
    <3>2. CASE d < k
      <4>1. k \in DOMAIN grown \ {1} /\ ~(k - 1 < d)
        BY <1>3, <2>4, <2>9, <3>2
      <4> QED
        BY <4>1
    <3> QED
      BY <1>3, <2>4, <3>1, <3>2
  <2> HIDE DEF m
  <2>13. \A i \in DOMAIN grown \ {1} : /\ m[i] \in DOMAIN list
                                       /\ grown[i] = list[m[i]]
                                       /\ list[m[i]].keyword # p.keyword
    <3> TAKE i \in DOMAIN grown \ {1}
    <3>1. /\ i - 1 \in 1 .. Len(list) - 1
          /\ grown[i] = IF i - 1 < d THEN list[i - 1] ELSE list[i]
      BY <1>3, <2>6, <2>9
    <3>2. m[i] \in DOMAIN list /\ grown[i] = list[m[i]] /\ m[i] # d
      BY <1>3, <2>4, <2>11, <3>1
    <3> QED
      BY <2>8, <3>2
  <2>14. \A i, j \in DOMAIN grown \ {1} : i < j => m[i] < m[j]
    BY <2>4, <2>11
  <2>15. \A k \in DOMAIN list :
            list[k].keyword = p.keyword \/ \E i \in DOMAIN grown \ {1} : m[i] = k
    BY <2>1, <2>12
  <2>16. IsMergeOf(grown, <<p>> \o pubs)
    BY <1>1, <2>10, <2>13, <2>14, <2>15, MergeGrows
  <2> QED
    BY <2>16 DEF grown
<1> QED
  BY <1>4, <1>5
=============================================================================
