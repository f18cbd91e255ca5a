---------------------- MODULE PublicationFieldsProofs ----------------------
(***************************************************************************)
(* The fields of a publication, for entries of any length, any options,    *)
(* anything that pdfinfo may say and any number of runs: types, order,     *)
(* dates, pages, the results of URL checks, and the checksums of ISBN and  *)
(* ISSN.                                                                   *)
(***************************************************************************)
EXTENDS PublicationFields, FiniteSetTheorems, WellFoundedInduction, TLAPS

-----------------------------------------------------------------------------
(***************************************************************************)
(* Fields, lists of them, and what recursive definitions need.             *)
(***************************************************************************)
IsField(f) ==
    /\ f = [keyword |-> f.keyword, value |-> f.value, number |-> f.number]
    /\ f.keyword \in Keywords
    /\ f.number \in Int
    /\ ValueFits(f.keyword, f.value)

IsList(list) ==
    /\ list \in Seq(Range(list))
    /\ \A i \in DOMAIN list : IsField(list[i])

InOrder(list) ==
    \A i, j \in DOMAIN list :
        i < j => Rank[list[i].keyword] <= Rank[list[j].keyword]

\* Every set of natural numbers has a least one.
LEMMA LeastOf ==
    ASSUME NEW S \in SUBSET Nat, S # {}
    PROVE  \E j \in S : \A k \in S : j <= k
<1>1. PICK j \in S : \A k \in S : ~ (<<k, j>> \in OpToRel(<, Nat))
  BY NatLessThanWellFounded, WFMin
<1>2. ASSUME NEW k \in S PROVE j <= k
  <2>1. <<k, j>> \in Nat \X Nat
    OBVIOUS
  <2>2. ~(k < j)
    BY <1>1, <2>1 DEF OpToRel
  <2> QED
    BY <2>2
<1> QED
  BY <1>2

(***************************************************************************)
(* A function that is defined by recursion exists: here, one that begins   *)
(* with a and whose next value g makes of the one before it.               *)
(***************************************************************************)
Recurs(f, N, a, g) == \A n \in 0 .. N : f[n] = IF n = 0 THEN a ELSE g[<<n, f[n - 1]>>]

\* There is one for every beginning and every step.
LEMMA RecursiveFunctionExists ==
    ASSUME NEW D, NEW N \in Nat, NEW a \in D, NEW g \in [(1 .. N) \X D -> D]
    PROVE  \E f \in [0 .. N -> D] : Recurs(f, N, a, g)
<1> DEFINE Fits(f, m) ==
              \A n \in 0 .. m : f[n] = IF n = 0 THEN a ELSE g[<<n, f[n - 1]>>]
           S == {m \in 0 .. N : ~\E f \in [0 .. m -> D] : Fits(f, m)}
<1>1. SUFFICES ASSUME S # {} PROVE FALSE
  <2>1. N \in S \/ \E f \in [0 .. N -> D] : Fits(f, N)
    OBVIOUS
  <2> QED
    BY <2>1 DEF Recurs
<1>2. S \in SUBSET Nat
  OBVIOUS
<1>3. PICK j \in S : \A k \in S : j <= k
  <2> HIDE DEF S
  <2> QED
    BY <1>1, <1>2, LeastOf
<1>4. j \in 0 .. N /\ ~\E f \in [0 .. j -> D] : Fits(f, j)
  BY <1>3
<1>5. j # 0
  <2> SUFFICES ASSUME j = 0 PROVE FALSE
    OBVIOUS
  <2>1. [n \in 0 .. 0 |-> a] \in [0 .. j -> D] /\ Fits([n \in 0 .. 0 |-> a], j)
    OBVIOUS
  <2> QED
    BY <1>4, <2>1
<1>6. j - 1 \in 0 .. N /\ j - 1 \notin S
  BY <1>3, <1>4, <1>5
<1>7. PICK f \in [0 .. j - 1 -> D] : Fits(f, j - 1)
  BY <1>6
<1> DEFINE h == [n \in 0 .. j |-> IF n = j THEN g[<<j, f[j - 1]>>] ELSE f[n]]
<1>8. h \in [0 .. j -> D]
  <2>1. f[j - 1] \in D /\ j \in 1 .. N
    BY <1>4, <1>5, <1>6
  <2>2. g[<<j, f[j - 1]>>] \in D
    BY <2>1
  <2>3. ASSUME NEW n \in 0 .. j PROVE h[n] \in D
    <3>1. n # j => n \in 0 .. j - 1
      BY <1>4
    <3> QED
      BY <2>2, <3>1
  <2> QED
    BY <2>3
<1>9. Fits(h, j)
  <2> TAKE n \in 0 .. j
  <2>1. CASE n = j
    <3>1. h[n - 1] = f[j - 1]
      BY <1>4, <1>5, <2>1
    <3> QED
      BY <1>5, <2>1, <3>1
  <2>2. CASE n # j
    <3>1. n \in 0 .. j - 1 /\ h[n] = f[n]
      BY <1>4, <2>2
    <3>2. n # 0 => n - 1 \in 0 .. j /\ n - 1 # j /\ h[n - 1] = f[n - 1]
      BY <1>4, <3>1
    <3> QED
      BY <1>7, <3>1, <3>2
  <2> QED
    BY <2>1, <2>2
<1>10. FALSE
  BY <1>4, <1>8, <1>9
<1> QED
  BY <1>10

-----------------------------------------------------------------------------
\* A function on 1 .. n is a sequence of its values.
LEMMA SequenceOfItsRange ==
    ASSUME NEW S, NEW s \in Seq(S)
    PROVE  /\ s \in Seq(Range(s))
           /\ Len(s) \in Nat /\ DOMAIN s = 1 .. Len(s)
<1>1. Len(s) \in Nat /\ DOMAIN s = 1 .. Len(s)
  OBVIOUS
<1>2. s = [i \in 1 .. Len(s) |-> s[i]]
  OBVIOUS
<1>3. \A i \in 1 .. Len(s) : s[i] \in Range(s)
  BY <1>1 DEF Range
<1> DEFINE n == Len(s)
<1>4. [i \in 1 .. n |-> s[i]] \in Seq(Range(s))
  <2> HIDE DEF n
  <2>1. n \in Nat
    BY <1>1 DEF n
  <2>2. \A i \in 1 .. n : s[i] \in Range(s)
    BY <1>3 DEF n
  <2> QED
    BY <2>1, <2>2
<1> QED
  BY <1>1, <1>2, <1>4

\* A list of fields is a sequence of them.
LEMMA ListIsSeq ==
    ASSUME NEW list, IsList(list)
    PROVE  /\ Len(list) \in Nat /\ DOMAIN list = 1 .. Len(list)
           /\ \A i \in 1 .. Len(list) : IsField(list[i])
BY DEF IsList

\* A sequence of fields is a list.
LEMMA ListFromSeq ==
    ASSUME NEW S, NEW s \in Seq(S), \A i \in 1 .. Len(s) : IsField(s[i])
    PROVE  IsList(s)
BY SequenceOfItsRange DEF IsList

\* Every keyword has its priority.
LEMMA RankIsNat ==
    ASSUME NEW k \in Keywords
    PROVE  Rank[k] \in Nat
<1>1. \E r \in DOMAIN KeywordOrder : KeywordOrder[r] = k
  BY DEF Keywords, Range
<1>2. Rank[k] \in DOMAIN KeywordOrder
  BY <1>1 DEF Rank
<1>3. DOMAIN KeywordOrder \subseteq Nat
  BY DEF KeywordOrder
<1> QED
  BY <1>2, <1>3

\* What is where, after an insertion.
LEMMA InsertAtProperties ==
    ASSUME NEW S, NEW s \in Seq(S), NEW f \in S, NEW i \in 1 .. Len(s) + 1
    PROVE  /\ InsertAt(s, i, f) \in Seq(S)
           /\ Len(InsertAt(s, i, f)) = Len(s) + 1
           /\ InsertAt(s, i, f)[i] = f
           /\ \A m \in 1 .. i - 1 : InsertAt(s, i, f)[m] = s[m]
           /\ \A m \in i + 1 .. Len(s) + 1 : InsertAt(s, i, f)[m] = s[m - 1]
<1>1. Len(s) \in Nat
  OBVIOUS
<1> DEFINE a == SubSeq(s, 1, i - 1)
           b == SubSeq(s, i, Len(s))
<1>2. a \in Seq(S) /\ Len(a) = i - 1 /\ \A m \in 1 .. i - 1 : a[m] = s[m]
  BY <1>1
<1>3. b \in Seq(S) /\ Len(b) = Len(s) - i + 1 /\ \A m \in 1 .. Len(s) - i + 1 : b[m] = s[m + i - 1]
  BY <1>1
<1>4. InsertAt(s, i, f) = (a \o <<f>>) \o b
  BY DEF InsertAt
<1> HIDE DEF a, b
<1>5. a \o <<f>> \in Seq(S) /\ Len(a \o <<f>>) = i /\ (a \o <<f>>)[i] = f
      /\ \A m \in 1 .. i - 1 : (a \o <<f>>)[m] = s[m]
  BY <1>1, <1>2
<1> DEFINE c == a \o <<f>>
<1> HIDE DEF c
<1>6. c \o b \in Seq(S) /\ Len(c \o b) = Len(s) + 1
  BY <1>1, <1>3, <1>5 DEF c
<1>7. \A m \in 1 .. Len(s) + 1 : (c \o b)[m] = IF m <= i THEN c[m] ELSE b[m - i]
  BY <1>1, <1>3, <1>5 DEF c
<1>8. (c \o b)[i] = f /\ \A m \in 1 .. i - 1 : (c \o b)[m] = s[m]
  <2>1. i \in 1 .. Len(s) + 1 /\ i <= i
    BY <1>1
  <2>2. \A m \in 1 .. i - 1 : m \in 1 .. Len(s) + 1 /\ m <= i
    BY <1>1
  <2> QED
    BY <1>5, <1>7, <2>1, <2>2 DEF c
<1>9. ASSUME NEW m \in i + 1 .. Len(s) + 1
      PROVE  (c \o b)[m] = s[m - 1]
  <2>1. /\ m - i \in 1 .. Len(s) - i + 1 /\ (m - i) + i - 1 = m - 1
        /\ m \in 1 .. Len(s) + 1 /\ ~(m <= i)
    BY <1>1
  <2> QED
    BY <1>3, <1>7, <2>1
<1> QED
  BY <1>4, <1>6, <1>8, <1>9 DEF c

-----------------------------------------------------------------------------
(***************************************************************************)
(* Two lists with the same fields, in whatever order.                      *)
(***************************************************************************)
Rearranges(s, t, p) ==
    /\ p \in Bijection(DOMAIN s, DOMAIN t)
    /\ \A m \in DOMAIN s : s[m] = t[p[m]]

Among(s, A) == {m \in DOMAIN s : s[m] \in A}

\* The places of some of the elements can be counted.
LEMMA PositionsAreFinite ==
    ASSUME NEW S, NEW s \in Seq(S), NEW A
    PROVE  IsFiniteSet(Among(s, A))
<1>1. Len(s) \in Nat /\ DOMAIN s = 1 .. Len(s)
  OBVIOUS
<1>2. IsFiniteSet(1 .. Len(s))
  BY <1>1, FS_Interval
<1>3. {m \in DOMAIN s : s[m] \in A} \in SUBSET (1 .. Len(s))
  BY <1>1
<1>4. IsFiniteSet({m \in DOMAIN s : s[m] \in A})
  BY <1>2, <1>3, FS_Subset
<1> QED
  BY <1>4 DEF Among

\* Rearranged, a list has as many fields of a kind as before.
LEMMA RearrangedNumbers ==
    ASSUME NEW S, NEW s \in Seq(S), NEW t \in Seq(S), NEW p, Rearranges(s, t, p), NEW A
    PROVE  Cardinality(Among(s, A)) = Cardinality(Among(t, A))
<1> DEFINE a == {m \in DOMAIN s : s[m] \in A}
           b == {m \in DOMAIN t : t[m] \in A}
           q == [m \in a |-> p[m]]
<1>1. /\ p \in [DOMAIN s -> DOMAIN t]
      /\ \A x, y \in DOMAIN s : p[x] = p[y] => x = y
      /\ \A y \in DOMAIN t : \E x \in DOMAIN s : p[x] = y
      /\ \A m \in DOMAIN s : s[m] = t[p[m]]
  BY DEF Rearranges, Bijection, Injection, Surjection, IsInjective
<1>2. q \in [a -> b] /\ \A m \in a : q[m] = p[m]
  BY <1>1
<1>3. \A x, y \in a : q[x] = q[y] => x = y
  BY <1>1, <1>2
<1>4. \A y \in b : \E x \in a : q[x] = y
  <2> TAKE y \in b
  <2>1. PICK x \in DOMAIN s : p[x] = y
    BY <1>1
  <2>2. x \in a
    BY <1>1, <2>1
  <2> QED
    BY <1>2, <2>1, <2>2
<1> HIDE DEF a, b, q
<1>5. q \in Bijection(a, b)
  BY <1>2, <1>3, <1>4 DEF Bijection, Injection, Surjection, IsInjective
<1>6. IsFiniteSet(a)
  BY PositionsAreFinite DEF a, Among
<1>7. Cardinality(b) = Cardinality(a)
  BY <1>5, <1>6, FS_Bijection DEF ExistsBijection
<1> QED
  BY <1>7 DEF a, b, Among

\* A field is put in at any place: the place of each of the others is known.
Takes(t, list, q, n) ==
    /\ q \in Bijection(1 .. n, 1 .. n)
    /\ \A m \in 1 .. n : t[m] = list[q[m]]

\* A list with one field put in, as a rearrangement.
LEMMA InsertionRearranges ==
    ASSUME NEW S, NEW s \in Seq(S), NEW list \in Seq(S), NEW n \in 1 .. Len(list),
           Len(s) = n - 1, NEW i \in 1 .. n,
           NEW p, Takes(s, list, p, n - 1)
    PROVE  \E q : Takes(InsertAt(s, i, list[n]), list, q, n)
<1> DEFINE q == [m \in 1 .. n |-> IF m < i THEN p[m] ELSE IF m = i THEN n ELSE p[m - 1]]
           u == InsertAt(s, i, list[n])
<1>1. Len(list) \in Nat /\ n \in Nat /\ list[n] \in S
  OBVIOUS
<1>2. /\ p \in [1 .. n - 1 -> 1 .. n - 1]
      /\ \A x, y \in 1 .. n - 1 : p[x] = p[y] => x = y
      /\ \A y \in 1 .. n - 1 : \E x \in 1 .. n - 1 : p[x] = y
      /\ \A m \in 1 .. n - 1 : s[m] = list[p[m]]
  BY DEF Takes, Bijection, Injection, Surjection, IsInjective
<1>3. /\ u[i] = list[n]
      /\ \A m \in 1 .. i - 1 : u[m] = s[m]
      /\ \A m \in i + 1 .. n : u[m] = s[m - 1]
  <2>1. Len(s) + 1 = n /\ i \in 1 .. Len(s) + 1
    BY <1>1
  <2> DEFINE f == list[n]
  <2>2. f \in S
    BY <1>1
  <2> HIDE DEF f
  <2>3. /\ InsertAt(s, i, f)[i] = f
        /\ \A m \in 1 .. i - 1 : InsertAt(s, i, f)[m] = s[m]
        /\ \A m \in i + 1 .. Len(s) + 1 : InsertAt(s, i, f)[m] = s[m - 1]
    BY <2>1, <2>2, InsertAtProperties
  <2> QED
    BY <2>1, <2>3 DEF f
<1>4. \A m \in 1 .. n : /\ m < i => m \in 1 .. n - 1
                        /\ m > i => m - 1 \in 1 .. n - 1
                        /\ m < i \/ m = i \/ m > i
  BY <1>1
<1>5. \A m \in 1 .. n : /\ m < i => q[m] = p[m]
                        /\ m = i => q[m] = n
                        /\ m > i => q[m] = p[m - 1]
  BY <1>1
<1>51. q = [m \in 1 .. n |-> q[m]]
  OBVIOUS
<1> HIDE DEF q
<1>6. \A m \in 1 .. n : q[m] \in 1 .. n /\ (q[m] = n <=> m = i)
  <2> TAKE m \in 1 .. n
  <2>0. \A k \in 1 .. n - 1 : p[k] \in 1 .. n - 1
    BY <1>2
  <2>1. CASE m < i
    <3>1. q[m] = p[m] /\ m \in 1 .. n - 1
      BY <1>1, <1>4, <1>5, <2>1
    <3>2. q[m] \in 1 .. n - 1
      BY <2>0, <3>1
    <3> QED
      BY <1>1, <2>1, <3>2
  <2>2. CASE m = i
    BY <1>1, <1>5, <2>2
  <2>3. CASE m > i
    <3>1. q[m] = p[m - 1] /\ m - 1 \in 1 .. n - 1
      BY <1>1, <1>4, <1>5, <2>3
    <3>2. q[m] \in 1 .. n - 1
      BY <2>0, <3>1
    <3> QED
      BY <1>1, <2>3, <3>2
  <2> QED
    BY <1>1, <1>4, <2>1, <2>2, <2>3
<1>7. \A x, y \in 1 .. n : q[x] = q[y] => x = y
  <2> TAKE x, y \in 1 .. n
  <2> HAVE q[x] = q[y]
  <2>1. CASE x = i \/ y = i
    BY <1>1, <1>6, <2>1
  <2>2. CASE x < i /\ y < i
    <3>1. p[x] = p[y] /\ x \in 1 .. n - 1 /\ y \in 1 .. n - 1
      BY <1>1, <1>4, <1>5, <2>2
    <3> QED
      BY <1>2, <3>1
  <2>3. CASE x < i /\ y > i
    <3>1. p[x] = p[y - 1] /\ x \in 1 .. n - 1 /\ y - 1 \in 1 .. n - 1
      BY <1>1, <1>4, <1>5, <2>3
    <3>2. x = y - 1
      BY <1>2, <3>1
    <3> QED
      BY <1>1, <2>3, <3>2
  <2>4. CASE x > i /\ y < i
    <3>1. p[x - 1] = p[y] /\ x - 1 \in 1 .. n - 1 /\ y \in 1 .. n - 1
      BY <1>1, <1>4, <1>5, <2>4
    <3>2. x - 1 = y
      BY <1>2, <3>1
    <3> QED
      BY <1>1, <2>4, <3>2
  <2>5. CASE x > i /\ y > i
    <3>1. p[x - 1] = p[y - 1] /\ x - 1 \in 1 .. n - 1 /\ y - 1 \in 1 .. n - 1
      BY <1>1, <1>4, <1>5, <2>5
    <3>2. x - 1 = y - 1
      BY <1>2, <3>1
    <3> QED
      BY <1>1, <2>5, <3>2
  <2> QED
    BY <1>1, <1>4, <2>1, <2>2, <2>3, <2>4, <2>5
<1>8. \A y \in 1 .. n : \E x \in 1 .. n : q[x] = y
  <2> TAKE y \in 1 .. n
  <2>1. CASE y = n
    BY <1>1, <1>5, <2>1
  <2>2. CASE y # n
    <3>1. y \in 1 .. n - 1
      BY <1>1, <2>2
    <3>2. PICK x \in 1 .. n - 1 : p[x] = y
      BY <1>2, <3>1
    <3>3. CASE x < i
      <4>1. x \in 1 .. n
        BY <1>1
      <4> QED
        BY <1>1, <1>5, <3>2, <3>3, <4>1
    <3>4. CASE ~(x < i)
      <4>1. x + 1 \in 1 .. n /\ x + 1 > i /\ (x + 1) - 1 = x
        BY <1>1, <3>4
      <4>2. q[x + 1] = p[x]
        BY <1>1, <1>5, <4>1
      <4> QED
        BY <3>2, <4>1, <4>2
    <3> QED
      BY <3>3, <3>4
  <2> QED
    BY <2>1, <2>2
<1>9. q \in Bijection(1 .. n, 1 .. n)
  <2>1. q \in [1 .. n -> 1 .. n]
    BY <1>1, <1>51, <1>6
  <2> QED
    BY <2>1, <1>7, <1>8 DEF Bijection, Injection, Surjection, IsInjective
<1>10. \A m \in 1 .. n : u[m] = list[q[m]]
  <2> TAKE m \in 1 .. n
  <2> HIDE DEF u
  <2>1. CASE m < i
    <3>1. m \in 1 .. i - 1 /\ m \in 1 .. n - 1
      BY <1>1, <2>1
    <3> QED
      BY <1>2, <1>3, <1>5, <2>1, <3>1
  <2>2. CASE m = i
    BY <1>3, <1>5, <2>2
  <2>3. CASE m > i
    <3>1. m - 1 \in 1 .. n - 1 /\ m \in i + 1 .. n
      BY <1>1, <2>3
    <3> QED
      BY <1>2, <1>3, <1>5, <2>3, <3>1
  <2> QED
    BY <1>4, <2>1, <2>2, <2>3
<1> QED
  BY <1>9, <1>10 DEF Takes

\* Places() are those that keep the order.
LEMMA InsertionKeepsOrder ==
    ASSUME NEW S, NEW s \in Seq(S), NEW f \in S, NEW i \in Places(s, f),
           InOrder(s), \A e \in S : IsField(e)
    PROVE  /\ i \in 1 .. Len(s) + 1
           /\ InOrder(InsertAt(s, i, f))
<1> DEFINE u == InsertAt(s, i, f)
           n == Len(s)
           R(e) == Rank[e.keyword]
<1>1. n \in Nat /\ DOMAIN s = 1 .. n /\ \A m \in 1 .. n : s[m] \in S
  OBVIOUS
<1>2. /\ i \in 1 .. n + 1
      /\ \A j \in 1 .. i - 1 : R(s[j]) <= R(f)
      /\ \A j \in i .. n : R(f) <= R(s[j])
  BY DEF Places
<1>3. /\ u \in Seq(S) /\ Len(u) = n + 1
      /\ u[i] = f
      /\ \A m \in 1 .. i - 1 : u[m] = s[m]
      /\ \A m \in i + 1 .. n + 1 : u[m] = s[m - 1]
  BY <1>2, InsertAtProperties
<1>4. \A e \in S : R(e) \in Nat
  BY RankIsNat DEF IsField
<1>5. \A x, y \in 1 .. n : x < y => R(s[x]) <= R(s[y])
  BY <1>1 DEF InOrder
<1> HIDE DEF u, n
<1>6. DOMAIN u = 1 .. n + 1
  BY <1>1, <1>3
<1>7. ASSUME NEW x \in 1 .. n + 1, NEW y \in 1 .. n + 1, x < y
      PROVE  R(u[x]) <= R(u[y])
  <2> HIDE DEF R
  <2>1. CASE y < i
    <3>1. x \in 1 .. i - 1 /\ y \in 1 .. i - 1 /\ x \in 1 .. n /\ y \in 1 .. n
      BY <1>1, <1>2, <1>7, <2>1
    <3> QED
      BY <1>3, <1>5, <1>7, <3>1
  <2>2. CASE y = i
    <3>1. x \in 1 .. i - 1
      BY <1>1, <1>2, <1>7, <2>2
    <3> QED
      BY <1>2, <1>3, <2>2, <3>1
  <2>3. CASE y > i /\ x < i
    <3>1. x \in 1 .. i - 1 /\ y \in i + 1 .. n + 1 /\ x \in 1 .. n /\ y - 1 \in 1 .. n /\ x < y - 1
      BY <1>1, <1>2, <1>7, <2>3
    <3> QED
      BY <1>3, <1>5, <3>1
  <2>4. CASE y > i /\ x = i
    <3>1. y \in i + 1 .. n + 1 /\ y - 1 \in i .. n
      BY <1>1, <1>2, <1>7, <2>4
    <3> QED
      BY <1>2, <1>3, <2>4, <3>1
  <2>5. CASE y > i /\ x > i
    <3>1. /\ x \in i + 1 .. n + 1 /\ y \in i + 1 .. n + 1
          /\ x - 1 \in 1 .. n /\ y - 1 \in 1 .. n /\ x - 1 < y - 1
      BY <1>1, <1>2, <1>7, <2>5
    <3> QED
      BY <1>3, <1>5, <3>1
  <2>6. (y < i \/ y = i \/ y > i) /\ (x < i \/ x = i \/ x > i)
    BY <1>1, <1>2, <1>7
  <2> QED
    BY <2>1, <2>2, <2>3, <2>4, <2>5, <2>6
<1>8. InOrder(u)
  BY <1>6, <1>7 DEF InOrder
<1> QED
  BY <1>2, <1>8 DEF u, n

(***************************************************************************)
(* sortChildren() puts the fields in order, and loses none of them.        *)
(***************************************************************************)
LEMMA SortChildrenSorts ==
    ASSUME NEW S, NEW list \in Seq(S), \A e \in S : IsField(e), NEW s \in SortChildren(list)
    PROVE  s \in Seq(S) /\ InOrder(s) /\ \E p : Rearranges(s, list, p)
<1> DEFINE N == Len(list)
           D == SUBSET Seq(S)
           Grown(f) == [n \in 0 .. N |->
                           IF n = 0 THEN {<<>>}
                           ELSE UNION {Insertions(t, list[n]) : t \in f[n - 1]}]
           sorted == CHOOSE f : f = Grown(f)
           g == [x \in (1 .. N) \X D |-> UNION {Insertions(t, list[x[1]]) : t \in x[2]}]
<1>1. N \in Nat /\ DOMAIN list = 1 .. N /\ \A n \in 1 .. N : list[n] \in S
  OBVIOUS
<1>2. ASSUME NEW t \in Seq(S), NEW e \in S
      PROVE  Insertions(t, e) \subseteq Seq(S)
  BY InsertAtProperties DEF Insertions, Places
<1>3. g \in [(1 .. N) \X D -> D]
  <2>1. ASSUME NEW x \in (1 .. N) \X D
        PROVE  UNION {Insertions(t, list[x[1]]) : t \in x[2]} \in D
    <3>1. x[1] \in 1 .. N /\ x[2] \in D
      OBVIOUS
    <3> QED
      BY <1>1, <1>2, <3>1
  <2> QED
    BY <2>1
<1>4. PICK f \in [0 .. N -> D] :
          \A n \in 0 .. N : f[n] = IF n = 0 THEN {<<>>} ELSE g[<<n, f[n - 1]>>]
  <2> DEFINE a == {<<>>}
  <2>1. a \in D
    OBVIOUS
  <2>2. N \in Nat
    BY <1>1
  <2> HIDE DEF g, D, N, a
  <2>3. \E f \in [0 .. N -> D] : Recurs(f, N, a, g)
    BY <1>3, <2>1, <2>2, RecursiveFunctionExists
  <2> QED
    BY <2>3 DEF a, Recurs
<1>5. f = Grown(f)
  <2>1. ASSUME NEW n \in 0 .. N, n # 0
        PROVE  g[<<n, f[n - 1]>>] = UNION {Insertions(t, list[n]) : t \in f[n - 1]}
    <3>1. n \in 1 .. N /\ f[n - 1] \in D
      BY <1>1, <1>4, <2>1
    <3> QED
      BY <3>1
  <2> HIDE DEF g, D
  <2>2. \A n \in 0 .. N : f[n] = IF n = 0 THEN {<<>>}
                                 ELSE UNION {Insertions(t, list[n]) : t \in f[n - 1]}
    BY <1>4, <2>1
  <2> QED
    BY <1>4, <2>2
<1>6. sorted = Grown(sorted)
  <2> HIDE DEF Grown
  <2> QED
    BY <1>5
<1>7. s \in sorted[N]
  BY DEF SortChildren
<1> HIDE DEF sorted
<1>8. /\ sorted[0] = {<<>>}
      /\ \A n \in 1 .. N : sorted[n] = UNION {Insertions(t, list[n]) : t \in sorted[n - 1]}
  <2> HIDE DEF N
  <2>1. \A n \in 0 .. N : Grown(sorted)[n] = IF n = 0 THEN {<<>>}
                            ELSE UNION {Insertions(t, list[n]) : t \in sorted[n - 1]}
    OBVIOUS
  <2> HIDE DEF Grown
  <2>2. \A n \in 0 .. N : sorted[n] = IF n = 0 THEN {<<>>}
                            ELSE UNION {Insertions(t, list[n]) : t \in sorted[n - 1]}
    BY <1>6, <2>1
  <2>3. 0 \in 0 .. N /\ \A n \in 1 .. N : n \in 0 .. N /\ n # 0
    BY <1>1 DEF N
  <2> QED
    BY <2>2, <2>3
<1> HIDE DEF Grown
<1> DEFINE Good(t, n) ==
              /\ t \in Seq(S) /\ Len(t) = n /\ InOrder(t)
              /\ \E q : Takes(t, list, q, n)
           Bad == {n \in 0 .. N : \E t \in sorted[n] : ~Good(t, n)}
<1>9. Good(<<>>, 0)
  <2> DEFINE q == [m \in 1 .. 0 |-> m]
  <2>1. q \in [1 .. 0 -> 1 .. 0]
    OBVIOUS
  <2>2. q \in Bijection(1 .. 0, 1 .. 0)
    BY <2>1 DEF Bijection, Injection, Surjection, IsInjective
  <2>3. InOrder(<<>>)
    BY DEF InOrder
  <2>4. \A m \in 1 .. 0 : <<>>[m] = list[q[m]]
    OBVIOUS
  <2>5. Takes(<<>>, list, q, 0)
    BY <2>2, <2>4 DEF Takes
  <2> HIDE DEF q
  <2> QED
    BY <2>3, <2>5
<1>10. Bad = {}
  <2> SUFFICES ASSUME Bad # {} PROVE FALSE
    OBVIOUS
  <2>1. Bad \in SUBSET Nat
    BY <1>1
  <2>2. PICK n \in Bad : \A k \in Bad : n <= k
    <3> HIDE DEF Bad
    <3> QED
      BY <2>1, LeastOf
  <2>3. n \in 0 .. N
    OBVIOUS
  <2>4. PICK t \in sorted[n] : ~Good(t, n)
    BY <2>2
  <2>5. n # 0
    <3> HIDE DEF Good
    <3> QED
      BY <1>8, <1>9, <2>4
  <2>6. n \in 1 .. N /\ n - 1 \in 0 .. N /\ n - 1 \notin Bad
    BY <1>1, <2>2, <2>3, <2>5
  <2>7. PICK v \in sorted[n - 1] : t \in Insertions(v, list[n])
    BY <1>8, <2>4, <2>6
  <2>8. Good(v, n - 1)
    BY <2>6, <2>7
  <2>9. PICK i \in Places(v, list[n]) : t = InsertAt(v, i, list[n])
    BY <2>7 DEF Insertions
  <2>10. list[n] \in S /\ v \in Seq(S) /\ Len(v) = n - 1 /\ InOrder(v)
    BY <1>1, <2>6, <2>8
  <2>11. i \in 1 .. Len(v) + 1 /\ InOrder(t)
    BY <2>9, <2>10, InsertionKeepsOrder
  <2>12. t \in Seq(S) /\ Len(t) = n
    <3>1. Len(v) + 1 = n
      BY <1>1, <2>6, <2>10
    <3> QED
      BY <2>9, <2>10, <2>11, <3>1, InsertAtProperties
  <2>13. PICK q : Takes(v, list, q, n - 1)
    BY <2>8
  <2>14. i \in 1 .. n
    BY <1>1, <2>6, <2>10, <2>11
  <2>15. \E r : Takes(t, list, r, n)
    <3>1. n \in 1 .. Len(list)
      BY <2>6
    <3> HIDE DEF N, Good, Bad
    <3> QED
      BY <2>9, <2>10, <2>13, <2>14, <3>1, InsertionRearranges
  <2> QED
    BY <2>4, <2>11, <2>12, <2>15
<1>11. Good(s, N)
  BY <1>1, <1>7, <1>10
<1>12. s \in Seq(S) /\ Len(s) = N /\ DOMAIN s = 1 .. N /\ InOrder(s)
  BY <1>11
<1>13. PICK p : Takes(s, list, p, N)
  BY <1>11
<1>14. Rearranges(s, list, p)
  BY <1>1, <1>12, <1>13 DEF Rearranges, Takes
<1> QED
  BY <1>12, <1>14

-----------------------------------------------------------------------------
(***************************************************************************)
(* Changes of one field.                                                   *)
(***************************************************************************)
(***************************************************************************)
(* Two lists with the same keywords at the same places.                    *)
(***************************************************************************)
Alike(list, other) ==
    /\ DOMAIN other = DOMAIN list
    /\ \A m \in DOMAIN list : other[m].keyword = list[m].keyword

\* findChildNode() finds the first field of a keyword.
LEMMA FoundIsFirst ==
    ASSUME NEW list, IsList(list), NEW k, Has(list, k)
    PROVE  /\ FindChildNode(list, k) \in DOMAIN list
           /\ list[FindChildNode(list, k)].keyword = k
           /\ \A j \in 1 .. FindChildNode(list, k) - 1 : list[j].keyword # k
<1> DEFINE S == {i \in DOMAIN list : list[i].keyword = k}
<1>1. Len(list) \in Nat /\ DOMAIN list = 1 .. Len(list)
  BY ListIsSeq
<1>2. S \in SUBSET Nat /\ S # {}
  BY <1>1 DEF Has
<1>3. PICK i \in S : \A j \in S : i <= j
  <2> HIDE DEF S
  <2> QED
    BY <1>2, LeastOf
<1>4. ASSUME NEW j \in 1 .. i - 1 PROVE list[j].keyword # k
  <2>1. j \in DOMAIN list /\ ~(i <= j)
    BY <1>1, <1>3
  <2> QED
    BY <1>3, <2>1
<1>5. i \in DOMAIN list /\ list[i].keyword = k
  BY <1>3
<1>6. \E n \in DOMAIN list : list[n].keyword = k /\ \A j \in 1 .. n - 1 : list[j].keyword # k
  BY <1>4, <1>5
<1> QED
  BY <1>6 DEF FindChildNode

\* There is only one first field.
LEMMA FirstIsFound ==
    ASSUME NEW list, IsList(list), NEW k, NEW i \in DOMAIN list, list[i].keyword = k,
           \A j \in 1 .. i - 1 : list[j].keyword # k
    PROVE  FindChildNode(list, k) = i
<1> DEFINE p == FindChildNode(list, k)
<1>1. Len(list) \in Nat /\ DOMAIN list = 1 .. Len(list)
  BY ListIsSeq
<1>2. Has(list, k)
  BY DEF Has
<1>3. p \in DOMAIN list /\ list[p].keyword = k /\ \A j \in 1 .. p - 1 : list[j].keyword # k
  BY <1>2, FoundIsFirst
<1> HIDE DEF p
<1>4. ~(p < i)
  <2> SUFFICES ASSUME p < i PROVE FALSE
    OBVIOUS
  <2>1. p \in 1 .. i - 1
    BY <1>1, <1>3
  <2> QED
    BY <1>3, <2>1
<1>5. ~(i < p)
  <2> SUFFICES ASSUME i < p PROVE FALSE
    OBVIOUS
  <2>1. i \in 1 .. p - 1
    BY <1>1, <1>3
  <2> QED
    BY <1>3, <2>1
<1>6. p = i
  BY <1>1, <1>3, <1>4, <1>5
<1> QED
  BY <1>6 DEF p

\* In such lists, the same fields are found.
LEMMA AlikeLists ==
    ASSUME NEW list, IsList(list), NEW other, IsList(other), Alike(list, other)
    PROVE  /\ InOrder(list) => InOrder(other)
           /\ \A k : /\ Has(other, k) <=> Has(list, k)
                     /\ PositionsOf(other, k) = PositionsOf(list, k)
                     /\ NumberOf(other, k) = NumberOf(list, k)
                     /\ Has(list, k) => FindChildNode(other, k) = FindChildNode(list, k)
<1>1. InOrder(list) => InOrder(other)
  BY DEF Alike, InOrder
<1>2. ASSUME NEW k PROVE Has(other, k) <=> Has(list, k)
  BY DEF Alike, Has
<1>3. ASSUME NEW k PROVE PositionsOf(other, k) = PositionsOf(list, k)
  BY DEF Alike, PositionsOf
<1>4. ASSUME NEW k PROVE NumberOf(other, k) = NumberOf(list, k)
  BY <1>3 DEF NumberOf
<1>5. ASSUME NEW k, Has(list, k)
      PROVE  FindChildNode(other, k) = FindChildNode(list, k)
  <2> DEFINE p == FindChildNode(list, k)
  <2>1. p \in DOMAIN list /\ list[p].keyword = k /\ \A j \in 1 .. p - 1 : list[j].keyword # k
    BY <1>5, FoundIsFirst
  <2>2. Len(list) \in Nat /\ DOMAIN list = 1 .. Len(list)
    BY ListIsSeq
  <2> HIDE DEF p
  <2>3. p \in DOMAIN other /\ other[p].keyword = k
    BY <2>1 DEF Alike
  <2>4. \A j \in 1 .. p - 1 : j \in DOMAIN list
    BY <2>1, <2>2
  <2>5. \A j \in 1 .. p - 1 : other[j].keyword # k
    BY <2>1, <2>4 DEF Alike
  <2>6. FindChildNode(other, k) = p
    BY <2>3, <2>5, FirstIsFound
  <2> QED
    BY <2>6 DEF p
<1> QED
  BY <1>1, <1>2, <1>3, <1>4, <1>5

\* Changes of values add up.
LEMMA AlikeIsTransitive ==
    ASSUME NEW a, NEW b, NEW c, Alike(a, b), Alike(b, c)
    PROVE  Alike(a, c)
BY DEF Alike

(***************************************************************************)
(* One field is changed.                                                   *)
(***************************************************************************)
LEMMA FieldChanged ==
    ASSUME NEW list, IsList(list), NEW p \in DOMAIN list, NEW f, IsField(f),
           f.keyword = list[p].keyword
    PROVE  LET new == [list EXCEPT ![p] = f]
           IN  /\ IsList(new) /\ Alike(list, new)
               /\ new[p] = f
               /\ \A m \in DOMAIN list : m # p => new[m] = list[m]
<1> DEFINE new == [list EXCEPT ![p] = f]
           S == Range(list) \cup {f}
<1>1. Len(list) \in Nat /\ DOMAIN list = 1 .. Len(list) /\ \A i \in 1 .. Len(list) : IsField(list[i])
  BY ListIsSeq
<1>2. list \in Seq(S)
  BY DEF IsList
<1>3. new \in Seq(S) /\ Len(new) = Len(list)
  BY <1>1, <1>2
<1>4. new[p] = f /\ \A m \in DOMAIN list : m # p => new[m] = list[m]
  BY <1>1, <1>2
<1> HIDE DEF new
<1>5. \A i \in 1 .. Len(new) : IsField(new[i])
  BY <1>1, <1>3, <1>4
<1>6. IsList(new)
  BY <1>3, <1>5, ListFromSeq
<1>7. Alike(list, new)
  BY <1>1, <1>3, <1>4 DEF Alike
<1> QED
  BY <1>4, <1>6, <1>7 DEF new

\* A field whose value has been replaced is a field.
LEMMA FieldWithValue ==
    ASSUME NEW f, IsField(f), NEW v, ValueFits(f.keyword, v)
    PROVE  /\ IsField([f EXCEPT !.value = v])
           /\ [f EXCEPT !.value = v].keyword = f.keyword
           /\ [f EXCEPT !.value = v].number = f.number
           /\ [f EXCEPT !.value = v].value = v
BY DEF IsField

\* A field whose number has been set is a field.
LEMMA FieldWithNumber ==
    ASSUME NEW f, IsField(f), NEW n \in Int
    PROVE  /\ IsField([f EXCEPT !.number = n])
           /\ [f EXCEPT !.number = n].keyword = f.keyword
           /\ [f EXCEPT !.number = n].value = f.value
           /\ [f EXCEPT !.number = n].number = n
BY DEF IsField

(***************************************************************************)
(* The value of the first field of a keyword is replaced: the fields stay  *)
(* where they are, and the first fields of the other keywords what they    *)
(* are.                                                                    *)
(***************************************************************************)
LEMMA ReplaceOne ==
    ASSUME NEW list, IsList(list), NEW k, NEW v, ValueFits(k, v), Has(list, k)
    PROVE  LET p == FindChildNode(list, k)
           IN  /\ IsList(Replace(list, k, v))
               /\ Alike(list, Replace(list, k, v))
               /\ p \in DOMAIN list /\ list[p].keyword = k
               /\ Replace(list, k, v)[p].value = v
               /\ \A m \in DOMAIN list : m # p => Replace(list, k, v)[m] = list[m]
<1> DEFINE p == FindChildNode(list, k)
           f == [list[p] EXCEPT !.value = v]
<1>1. p \in DOMAIN list /\ list[p].keyword = k
  BY FoundIsFirst
<1>2. IsField(list[p])
  BY <1>1 DEF IsList
<1>3. IsField(f) /\ f.keyword = list[p].keyword /\ f.value = v
  BY <1>1, <1>2, FieldWithValue
<1>4. Replace(list, k, v) = [list EXCEPT ![p] = f]
  BY <1>1 DEF Replace
<1> HIDE DEF f, p
<1>5. /\ IsList([list EXCEPT ![p] = f]) /\ Alike(list, [list EXCEPT ![p] = f])
      /\ [list EXCEPT ![p] = f][p] = f
      /\ \A m \in DOMAIN list : m # p => [list EXCEPT ![p] = f][m] = list[m]
  BY <1>1, <1>3, FieldChanged
<1> QED
  BY <1>1, <1>3, <1>4, <1>5 DEF p

\* The same, for the list and what is found in it.
LEMMA ReplaceKeeps ==
    ASSUME NEW list, IsList(list), NEW k, NEW v, ValueFits(k, v)
    PROVE  /\ IsList(Replace(list, k, v)) /\ Alike(list, Replace(list, k, v))
           /\ Has(list, k) => ValueOf(Replace(list, k, v), k) = v
           /\ \A other : other # k /\ Has(list, other) =>
                  ValueOf(Replace(list, k, v), other) = ValueOf(list, other)
<1>1. CASE ~Has(list, k)
  BY <1>1 DEF Replace, Alike
<1>2. CASE Has(list, k)
  <2> DEFINE p == FindChildNode(list, k)
             new == Replace(list, k, v)
  <2>1. /\ IsList(new) /\ Alike(list, new)
        /\ p \in DOMAIN list /\ list[p].keyword = k
        /\ new[p].value = v
        /\ \A m \in DOMAIN list : m # p => new[m] = list[m]
    BY <1>2, ReplaceOne
  <2> HIDE DEF new
  <2>2. \A other : Has(list, other) => FindChildNode(new, other) = FindChildNode(list, other)
    BY <2>1, AlikeLists
  <2>3. ValueOf(new, k) = v
    BY <1>2, <2>1, <2>2 DEF ValueOf
  <2>4. ASSUME NEW other, other # k, Has(list, other)
        PROVE  ValueOf(new, other) = ValueOf(list, other)
    <3>1. FindChildNode(list, other) \in DOMAIN list /\ list[FindChildNode(list, other)].keyword = other
      BY <2>4, FoundIsFirst
    <3>2. FindChildNode(list, other) # p
      BY <2>1, <2>4, <3>1
    <3> QED
      BY <2>1, <2>2, <2>4, <3>1, <3>2 DEF ValueOf
  <2> QED
    BY <2>1, <2>3, <2>4 DEF new
<1> QED
  BY <1>1, <1>2

(***************************************************************************)
(* The number of a field is set: no value changes.                         *)
(***************************************************************************)
WithNumber(list, k, n) ==
    IF Has(list, k) THEN [list EXCEPT ![FindChildNode(list, k)].number = n] ELSE list

\* Of a list, only the numbers change.
LEMMA WithNumberKeeps ==
    ASSUME NEW list, IsList(list), NEW k, NEW n \in Int
    PROVE  /\ IsList(WithNumber(list, k, n)) /\ Alike(list, WithNumber(list, k, n))
           /\ \A m \in DOMAIN list : WithNumber(list, k, n)[m].value = list[m].value
<1>1. CASE ~Has(list, k)
  BY <1>1 DEF WithNumber, Alike
<1>2. CASE Has(list, k)
  <2> DEFINE p == FindChildNode(list, k)
             f == [list[p] EXCEPT !.number = n]
  <2>1. p \in DOMAIN list
    BY <1>2, FoundIsFirst
  <2>2. IsField(list[p])
    BY <2>1 DEF IsList
  <2>3. IsField(f) /\ f.keyword = list[p].keyword /\ f.value = list[p].value
    BY <2>1, <2>2, FieldWithNumber
  <2>4. WithNumber(list, k, n) = [list EXCEPT ![p] = f]
    BY <1>2, <2>1 DEF WithNumber
  <2> HIDE DEF f, p
  <2>5. /\ IsList([list EXCEPT ![p] = f]) /\ Alike(list, [list EXCEPT ![p] = f])
        /\ [list EXCEPT ![p] = f][p] = f
        /\ \A m \in DOMAIN list : m # p => [list EXCEPT ![p] = f][m] = list[m]
    BY <2>1, <2>3, FieldChanged
  <2> QED
    BY <2>3, <2>4, <2>5
<1> QED
  BY <1>1, <1>2

\* Alike lists with the same values have the same values found.
LEMMA SameValues ==
    ASSUME NEW list, IsList(list), NEW other, IsList(other), Alike(list, other),
           \A m \in DOMAIN list : other[m].value = list[m].value
    PROVE  \A k : Has(list, k) => ValueOf(other, k) = ValueOf(list, k)
<1> TAKE k
<1> HAVE Has(list, k)
<1>1. FindChildNode(list, k) \in DOMAIN list
  BY FoundIsFirst
<1>2. FindChildNode(other, k) = FindChildNode(list, k)
  BY AlikeLists
<1> QED
  BY <1>1, <1>2 DEF ValueOf

-----------------------------------------------------------------------------
(***************************************************************************)
(* Lists that are sorted, and fields that are added.                       *)
(***************************************************************************)
\* What sortChildren() gives is a list in order.
LEMMA SortedList ==
    ASSUME NEW list, IsList(list), NEW s \in SortChildren(list)
    PROVE  /\ IsList(s) /\ InOrder(s)
           /\ s \in Seq(Range(list))
           /\ \E p : Rearranges(s, list, p)
<1> DEFINE S == Range(list)
<1>1. list \in Seq(S) /\ \A e \in S : IsField(e)
  BY DEF IsList, Range
<1> HIDE DEF S
<1>2. s \in Seq(S) /\ InOrder(s) /\ \E p : Rearranges(s, list, p)
  BY <1>1, SortChildrenSorts
<1>3. \A i \in 1 .. Len(s) : s[i] \in S
  BY <1>2
<1>4. IsList(s)
  BY <1>1, <1>2, <1>3, ListFromSeq
<1> QED
  BY <1>2, <1>4 DEF S

\* The only field of a keyword is the one that is found.
LEMMA OnlyField ==
    ASSUME NEW list, IsList(list), NEW k, NumberOf(list, k) = 1,
           NEW i \in DOMAIN list, list[i].keyword = k
    PROVE  Has(list, k) /\ ValueOf(list, k) = list[i].value
<1>1. Has(list, k)
  BY DEF Has
<1>2. FindChildNode(list, k) \in PositionsOf(list, k) /\ i \in PositionsOf(list, k)
  BY <1>1, FoundIsFirst DEF PositionsOf
<1>3. IsFiniteSet(PositionsOf(list, k))
  <2>1. Len(list) \in Nat /\ DOMAIN list = 1 .. Len(list)
    BY ListIsSeq
  <2>2. IsFiniteSet(DOMAIN list)
    BY <2>1, FS_Interval
  <2> QED
    BY <2>2, FS_Subset DEF PositionsOf
<1>4. \E x : PositionsOf(list, k) = {x}
  BY <1>3, FS_Singleton DEF NumberOf
<1>5. FindChildNode(list, k) = i
  BY <1>2, <1>4
<1> QED
  BY <1>1, <1>5 DEF ValueOf

\* The fields of a keyword can be counted.
LEMMA NumberIsNat ==
    ASSUME NEW list, IsList(list), NEW k
    PROVE  /\ NumberOf(list, k) \in Nat
           /\ Has(list, k) <=> NumberOf(list, k) # 0
<1>1. Len(list) \in Nat /\ DOMAIN list = 1 .. Len(list)
  BY ListIsSeq
<1>2. IsFiniteSet(DOMAIN list)
  BY <1>1, FS_Interval
<1>3. IsFiniteSet(PositionsOf(list, k))
  BY <1>2, FS_Subset DEF PositionsOf
<1>4. NumberOf(list, k) = 0 <=> PositionsOf(list, k) = {}
  BY <1>3, FS_EmptySet DEF NumberOf
<1> QED
  BY <1>3, <1>4, FS_CardinalityType DEF NumberOf, PositionsOf, Has

\* What the numbers of fields are in the language of the lemmas above
LEMMA NumbersAsSets ==
    ASSUME NEW S, NEW list \in Seq(S)
    PROVE  /\ \A k : NumberOf(list, k) = Cardinality(Among(list, {e \in S : e.keyword = k}))
           /\ \A f : Count(list, f) = Cardinality(Among(list, {f}))
<1>1. ASSUME NEW k
      PROVE  NumberOf(list, k) = Cardinality(Among(list, {e \in S : e.keyword = k}))
  <2>1. \A m \in DOMAIN list : list[m] \in S
    OBVIOUS
  <2>2. PositionsOf(list, k) = Among(list, {e \in S : e.keyword = k})
    BY <2>1 DEF PositionsOf, Among
  <2> QED
    BY <2>2 DEF NumberOf
<1>2. ASSUME NEW f PROVE Count(list, f) = Cardinality(Among(list, {f}))
  <2>1. Among(list, {f}) = {m \in DOMAIN list : list[m] = f}
    BY DEF Among
  <2> QED
    BY <2>1 DEF Count
<1> QED
  BY <1>1, <1>2

\* What is found in a rearranged list.
LEMMA RearrangedList ==
    ASSUME NEW list, IsList(list), NEW s, IsList(s), s \in Seq(Range(list)),
           NEW p, Rearranges(s, list, p)
    PROVE  /\ \A k : NumberOf(s, k) = NumberOf(list, k)
           /\ \A f : Count(s, f) = Count(list, f)
           /\ \A k : NumberOf(list, k) = 1 => ValueOf(s, k) = ValueOf(list, k)
<1> DEFINE S == Range(list)
<1>1. s \in Seq(S) /\ list \in Seq(S)
  BY DEF IsList
<1> HIDE DEF S
<1>2. \A A : Cardinality(Among(s, A)) = Cardinality(Among(list, A))
  BY <1>1, RearrangedNumbers
<1>3. ASSUME NEW k PROVE NumberOf(s, k) = NumberOf(list, k)
  <2> DEFINE A == {e \in S : e.keyword = k}
  <2>1. NumberOf(s, k) = Cardinality(Among(s, A)) /\ NumberOf(list, k) = Cardinality(Among(list, A))
    BY <1>1, NumbersAsSets
  <2> HIDE DEF A
  <2> QED
    BY <1>2, <2>1
<1>4. ASSUME NEW f PROVE Count(s, f) = Count(list, f)
  <2>1. Count(s, f) = Cardinality(Among(s, {f})) /\ Count(list, f) = Cardinality(Among(list, {f}))
    BY <1>1, NumbersAsSets
  <2> QED
    BY <1>2, <2>1
<1>5. ASSUME NEW k, NumberOf(list, k) = 1 PROVE ValueOf(s, k) = ValueOf(list, k)
  <2> DEFINE i == FindChildNode(s, k)
  <2>1. NumberOf(s, k) = 1 /\ Has(s, k)
    BY <1>3, <1>5, NumberIsNat
  <2>2. i \in DOMAIN s /\ s[i].keyword = k
    BY <2>1, FoundIsFirst
  <2> HIDE DEF i
  <2>3. p[i] \in DOMAIN list /\ s[i] = list[p[i]]
    BY <2>2 DEF Rearranges, Bijection, Injection
  <2>4. ValueOf(list, k) = list[p[i]].value
    BY <1>5, <2>2, <2>3, OnlyField
  <2> QED
    BY <2>3, <2>4 DEF ValueOf, i
<1> QED
  BY <1>3, <1>4, <1>5

(***************************************************************************)
(* A field is put in front of the others.                                  *)
(***************************************************************************)
LEMMA InFront ==
    ASSUME NEW list, IsList(list), NEW item, IsField(item)
    PROVE  LET t == <<item>> \o list
           IN  /\ IsList(t)
               /\ t \in Seq(Range(list) \cup {item})
               /\ DOMAIN t = 1 .. Len(list) + 1
               /\ t[1] = item
               /\ \A m \in 1 .. Len(list) : t[m + 1] = list[m]
<1> DEFINE S == Range(list) \cup {item}
           t == <<item>> \o list
<1>1. Len(list) \in Nat /\ DOMAIN list = 1 .. Len(list) /\ \A i \in 1 .. Len(list) : IsField(list[i])
  BY ListIsSeq
<1>2. list \in Seq(S) /\ item \in S /\ \A e \in S : IsField(e)
  BY DEF IsList, Range
<1> HIDE DEF S
<1>3. /\ t \in Seq(S) /\ Len(t) = Len(list) + 1 /\ DOMAIN t = 1 .. Len(list) + 1
      /\ t[1] = item
      /\ \A m \in 1 .. Len(list) : t[m + 1] = list[m]
  BY <1>1, <1>2
<1>4. \A i \in 1 .. Len(t) : t[i] \in S
  BY <1>3
<1>5. IsList(t)
  BY <1>2, <1>3, <1>4, ListFromSeq
<1> QED
  BY <1>3, <1>5 DEF S

\* Which keywords there are then.
LEMMA FoundInFront ==
    ASSUME NEW list, IsList(list), NEW item, IsField(item)
    PROVE  \A key : Has(<<item>> \o list, key) <=> key = item.keyword \/ Has(list, key)
<1> DEFINE t == <<item>> \o list
<1>1. Len(list) \in Nat /\ DOMAIN list = 1 .. Len(list)
  BY ListIsSeq
<1>2. /\ DOMAIN t = 1 .. Len(list) + 1
      /\ t[1] = item
      /\ \A m \in 1 .. Len(list) : t[m + 1] = list[m]
  BY InFront
<1> HIDE DEF t
<1> SUFFICES ASSUME NEW key
             PROVE  Has(t, key) <=> key = item.keyword \/ Has(list, key)
  BY DEF t
<1>3. ASSUME NEW i \in 1 .. Len(list) + 1, t[i].keyword = key, i # 1
      PROVE  Has(list, key)
  <2>1. i - 1 \in 1 .. Len(list) /\ (i - 1) + 1 = i
    BY <1>1, <1>3
  <2> QED
    BY <1>1, <1>2, <1>3, <2>1 DEF Has
<1>4. ASSUME NEW i \in 1 .. Len(list), list[i].keyword = key
      PROVE  Has(t, key)
  <2>1. i + 1 \in 1 .. Len(list) + 1
    BY <1>1
  <2> QED
    BY <1>2, <1>4, <2>1 DEF Has
<1>5. 1 \in 1 .. Len(list) + 1
  BY <1>1
<1> QED
  BY <1>1, <1>2, <1>3, <1>4, <1>5 DEF Has

\* How many fields of a kind there are then.
LEMMA InFrontNumbers ==
    ASSUME NEW list, IsList(list), NEW item, IsField(item), NEW A, item \notin A
    PROVE  LET t == <<item>> \o list
           IN  Cardinality(Among(t, A)) = Cardinality(Among(list, A))
<1> DEFINE t == <<item>> \o list
           a == {m \in DOMAIN list : list[m] \in A}
           b == {m \in DOMAIN t : t[m] \in A}
           q == [m \in a |-> m + 1]
<1>1. Len(list) \in Nat /\ DOMAIN list = 1 .. Len(list)
  BY ListIsSeq
<1>2. /\ DOMAIN t = 1 .. Len(list) + 1
      /\ t[1] = item
      /\ \A m \in 1 .. Len(list) : t[m + 1] = list[m]
  BY InFront
<1> HIDE DEF t
<1>3. \A m \in a : m \in 1 .. Len(list) /\ m + 1 \in b
  BY <1>1, <1>2
<1>4. ASSUME NEW y \in b PROVE y - 1 \in a /\ (y - 1) + 1 = y
  <2>1. y \in 1 .. Len(list) + 1 /\ t[y] \in A
    BY <1>2
  <2>2. y # 1
    BY <1>2, <2>1
  <2>3. y - 1 \in 1 .. Len(list) /\ (y - 1) + 1 = y
    BY <1>1, <2>1, <2>2
  <2>4. t[y] = list[y - 1]
    BY <1>2, <2>3
  <2> QED
    BY <1>1, <2>1, <2>3, <2>4
<1> HIDE DEF a, b
<1>5. q \in Bijection(a, b)
  <2>1. q \in [a -> b]
    BY <1>3
  <2>2. \A x, y \in a : q[x] = q[y] => x = y
    BY <1>1, <1>3
  <2>3. \A y \in b : \E x \in a : q[x] = y
    BY <1>4
  <2> HIDE DEF q
  <2> QED
    BY <2>1, <2>2, <2>3 DEF Bijection, Injection, Surjection, IsInjective
<1>6. IsFiniteSet(a)
  <2>1. IsFiniteSet(1 .. Len(list))
    BY <1>1, FS_Interval
  <2>2. a \in SUBSET (1 .. Len(list))
    BY <1>1 DEF a
  <2> QED
    BY <2>1, <2>2, FS_Subset
<1>7. Cardinality(b) = Cardinality(a)
  <2> HIDE DEF q
  <2> QED
    BY <1>5, <1>6, FS_Bijection DEF ExistsBijection
<1> QED
  BY <1>7 DEF a, b, t, Among

\* The same, for the list and what is found in it once it is sorted.
LEMMA InFrontList ==
    ASSUME NEW list, IsList(list), NEW item, IsField(item)
    PROVE  LET t == <<item>> \o list
           IN  /\ \A k : k # item.keyword => NumberOf(t, k) = NumberOf(list, k)
               /\ ~Has(list, item.keyword) => NumberOf(t, item.keyword) = 1
               /\ \A f : f # item => Count(t, f) = Count(list, f)
               /\ \A k : k # item.keyword /\ NumberOf(list, k) = 1 =>
                      ValueOf(t, k) = ValueOf(list, k)
<1> DEFINE t == <<item>> \o list
           S == Range(list) \cup {item}
<1>1. /\ IsList(t)
      /\ t \in Seq(S)
      /\ DOMAIN t = 1 .. Len(list) + 1
      /\ t[1] = item
      /\ \A m \in 1 .. Len(list) : t[m + 1] = list[m]
  BY InFront
<1>2. list \in Seq(S)
  BY DEF IsList
<1>3. Len(list) \in Nat /\ DOMAIN list = 1 .. Len(list)
  BY ListIsSeq
<1>4. \A A : item \notin A => Cardinality(Among(t, A)) = Cardinality(Among(list, A))
  BY InFrontNumbers
<1> HIDE DEF t, S
<1>5. ASSUME NEW k, k # item.keyword PROVE NumberOf(t, k) = NumberOf(list, k)
  <2> DEFINE A == {e \in S : e.keyword = k}
  <2>1. NumberOf(t, k) = Cardinality(Among(t, A)) /\ NumberOf(list, k) = Cardinality(Among(list, A))
    BY <1>1, <1>2, NumbersAsSets
  <2>2. item \notin A
    BY <1>5
  <2> HIDE DEF A
  <2> QED
    BY <1>4, <2>1, <2>2
<1>6. ASSUME ~Has(list, item.keyword) PROVE NumberOf(t, item.keyword) = 1
  <2>1. 1 \in PositionsOf(t, item.keyword)
    BY <1>1, <1>3 DEF PositionsOf
  <2>2. ASSUME NEW m \in PositionsOf(t, item.keyword), m # 1 PROVE FALSE
    <3>1. m \in 1 .. Len(list) + 1 /\ t[m].keyword = item.keyword
      BY <1>1 DEF PositionsOf
    <3>2. m - 1 \in 1 .. Len(list) /\ (m - 1) + 1 = m
      BY <1>3, <2>2, <3>1
    <3>3. list[m - 1].keyword = item.keyword
      BY <1>1, <3>1, <3>2
    <3> QED
      BY <1>3, <1>6, <3>2, <3>3 DEF Has
  <2>3. PositionsOf(t, item.keyword) = {1}
    BY <2>1, <2>2
  <2> QED
    BY <2>3, FS_Singleton DEF NumberOf
<1>7. ASSUME NEW f, f # item PROVE Count(t, f) = Count(list, f)
  <2>1. Count(t, f) = Cardinality(Among(t, {f})) /\ Count(list, f) = Cardinality(Among(list, {f}))
    BY <1>1, <1>2, NumbersAsSets
  <2> QED
    BY <1>4, <1>7, <2>1
<1>8. ASSUME NEW k, k # item.keyword, NumberOf(list, k) = 1
      PROVE  ValueOf(t, k) = ValueOf(list, k)
  <2> DEFINE i == FindChildNode(list, k)
  <2>1. Has(list, k)
    BY <1>8, NumberIsNat
  <2>2. i \in 1 .. Len(list) /\ list[i].keyword = k
    BY <1>3, <2>1, FoundIsFirst
  <2> HIDE DEF i
  <2>3. i + 1 \in DOMAIN t /\ t[i + 1] = list[i]
    BY <1>1, <1>3, <2>2
  <2>4. NumberOf(t, k) = 1
    BY <1>5, <1>8
  <2>5. ValueOf(t, k) = list[i].value
    BY <1>1, <2>2, <2>3, <2>4, OnlyField
  <2> QED
    BY <2>5 DEF i, ValueOf
<1> QED
  BY <1>5, <1>6, <1>7, <1>8 DEF t

-----------------------------------------------------------------------------
\* makePublicationInfoItem() makes a field.
LEMMA NewItemIsField ==
    ASSUME NEW k \in Keywords, NEW v, ValueFits(k, v)
    PROVE  /\ IsField(MakePublicationInfoItem(k, v))
           /\ MakePublicationInfoItem(k, v).keyword \in {k, "removeme"}
           /\ ~IsText(v) => MakePublicationInfoItem(k, v) = [keyword |-> k, value |-> v, number |-> 0]
<1> DEFINE value == IF k \in {"comment", "author"} \/ ~IsText(v) THEN v
                    ELSE [text |-> Trim(RemoveBrackets(v.text))]
           key == IF k # "comment" /\ value = NoText THEN "removeme" ELSE k
<1>1. MakePublicationInfoItem(k, v) = [keyword |-> key, value |-> value, number |-> 0]
  BY DEF MakePublicationInfoItem
<1>2. "removeme" \in Keywords
  <2>1. KeywordOrder[57] = "removeme" /\ 57 \in DOMAIN KeywordOrder
    BY DEF KeywordOrder
  <2> QED
    BY <2>1 DEF Keywords, Range
<1>3. key \in Keywords /\ key \in {k, "removeme"}
  BY <1>2
<1>4. ValueFits(key, value)
  <2>1. CASE key = "removeme" /\ key # k
    <3> HIDE DEF key, value
    <3> QED
      BY <2>1 DEF ValueFits
  <2>2. CASE key = k
    <3>1. CASE value = v
      BY <2>2, <3>1
    <3>2. CASE value # v
      <4>1. IsText(v)
        BY <3>2
      <4>2. k \notin {"year", "day", "numpages", "month", "pages", "isbn", "issn"}
        BY <4>1 DEF ValueFits, IsText
      <4> HIDE DEF key, value
      <4> QED
        BY <2>2, <4>2 DEF ValueFits
    <3> QED
      BY <3>1, <3>2
  <2> QED
    BY <1>3, <2>1, <2>2
<1>5. ~IsText(v) => value = v /\ key = k
  BY DEF IsText, NoText
<1> HIDE DEF key, value
<1>6. IsField([keyword |-> key, value |-> value, number |-> 0])
  BY <1>3, <1>4 DEF IsField
<1> QED
  BY <1>1, <1>3, <1>5, <1>6

(***************************************************************************)
(* addOrUpdateChildNode(): what becomes of the list.                       *)
(***************************************************************************)
LEMMA AddOrUpdateKeeps ==
    ASSUME NEW list, IsList(list), InOrder(list), NEW k \in Keywords, NEW v, ValueFits(k, v),
           NEW new \in AddOrUpdateChildNode(list, k, v)
    PROVE  /\ IsList(new) /\ InOrder(new)
           /\ \A f : f.keyword \notin {k, "removeme"} => Count(new, f) = Count(list, f)
           /\ \A key : key # "removeme" =>
                  \/ NumberOf(new, key) = NumberOf(list, key)
                  \/ key = k /\ NumberOf(list, k) = 0 /\ NumberOf(new, k) = 1
           /\ \A key : key \notin {k, "removeme"} /\ NumberOf(list, key) = 1 =>
                  ValueOf(new, key) = ValueOf(list, key)
           /\ ~IsText(v) => Has(new, k) /\ ValueOf(new, k) = v
<1>1. CASE Has(list, k)
  <2>1. new = Replace(list, k, v)
    BY <1>1 DEF AddOrUpdateChildNode
  <2> DEFINE p == FindChildNode(list, k)
  <2>2. /\ IsList(new) /\ Alike(list, new)
        /\ p \in DOMAIN list /\ list[p].keyword = k
        /\ \A m \in DOMAIN list : m # p => new[m] = list[m]
    BY <1>1, <2>1, ReplaceOne
  <2>3. /\ ValueOf(new, k) = v
        /\ \A other : other # k /\ Has(list, other) => ValueOf(new, other) = ValueOf(list, other)
    BY <1>1, <2>1, ReplaceKeeps
  <2> HIDE DEF p
  <2>4. /\ InOrder(new)
        /\ \A key : NumberOf(new, key) = NumberOf(list, key)
        /\ Has(new, k)
    BY <1>1, <2>2, AlikeLists
  <2>5. ASSUME NEW f, f.keyword # k PROVE Count(new, f) = Count(list, f)
    <3>1. new[p].keyword = k
      BY <2>2 DEF Alike
    <3>2. {m \in DOMAIN new : new[m] = f} = {m \in DOMAIN list : list[m] = f}
      BY <2>2, <2>5, <3>1 DEF Alike
    <3> QED
      BY <3>2 DEF Count
  <2>6. \A key : NumberOf(list, key) = 1 => Has(list, key)
    BY NumberIsNat
  <2> QED
    BY <2>2, <2>3, <2>4, <2>5, <2>6
<1>2. CASE ~Has(list, k)
  <2> DEFINE item == MakePublicationInfoItem(k, v)
             t == <<item>> \o list
  <2>1. new \in SortChildren(t)
    BY <1>2 DEF AddOrUpdateChildNode
  <2>2. /\ IsField(item) /\ item.keyword \in {k, "removeme"}
        /\ ~IsText(v) => item = [keyword |-> k, value |-> v, number |-> 0]
    BY NewItemIsField
  <2> HIDE DEF item
  <2>3. /\ IsList(t) /\ DOMAIN t = 1 .. Len(list) + 1 /\ t[1] = item
    BY <2>2, InFront
  <2>4. /\ \A key : key # item.keyword => NumberOf(t, key) = NumberOf(list, key)
        /\ ~Has(list, item.keyword) => NumberOf(t, item.keyword) = 1
        /\ \A f : f # item => Count(t, f) = Count(list, f)
        /\ \A key : key # item.keyword /\ NumberOf(list, key) = 1 =>
               ValueOf(t, key) = ValueOf(list, key)
    BY <2>2, InFrontList
  <2> HIDE DEF t
  <2>5. IsList(new) /\ InOrder(new) /\ new \in Seq(Range(t)) /\ \E p : Rearranges(new, t, p)
    BY <2>1, <2>3, SortedList
  <2>6. /\ \A key : NumberOf(new, key) = NumberOf(t, key)
        /\ \A f : Count(new, f) = Count(t, f)
        /\ \A key : NumberOf(t, key) = 1 => ValueOf(new, key) = ValueOf(t, key)
    BY <2>3, <2>5, RearrangedList
  <2>7. ASSUME NEW f, f.keyword \notin {k, "removeme"} PROVE Count(new, f) = Count(list, f)
    BY <2>2, <2>4, <2>6, <2>7
  <2>8. NumberOf(list, k) = 0
    BY <1>2, NumberIsNat
  <2>9. ASSUME NEW key, key # "removeme"
        PROVE  \/ NumberOf(new, key) = NumberOf(list, key)
               \/ key = k /\ NumberOf(list, k) = 0 /\ NumberOf(new, k) = 1
    BY <1>2, <2>2, <2>4, <2>6, <2>8, <2>9
  <2>10. ASSUME NEW key, key \notin {k, "removeme"}, NumberOf(list, key) = 1
         PROVE  ValueOf(new, key) = ValueOf(list, key)
    BY <2>2, <2>4, <2>6, <2>10
  <2>11. ASSUME ~IsText(v) PROVE Has(new, k) /\ ValueOf(new, k) = v
    <3>1. item.keyword = k /\ item.value = v
      BY <2>2, <2>11
    <3>2. NumberOf(t, k) = 1
      BY <1>2, <2>4, <3>1
    <3>3. 1 \in DOMAIN t /\ t[1].keyword = k /\ t[1].value = v
      <4>1. Len(list) \in Nat
        BY ListIsSeq
      <4> QED
        BY <2>3, <3>1, <4>1
    <3>4. ValueOf(t, k) = v
      BY <2>3, <3>2, <3>3, OnlyField
    <3>5. NumberOf(new, k) = 1
      BY <2>6, <3>2
    <3>6. Has(new, k)
      BY <2>5, <3>5, NumberIsNat
    <3> QED
      BY <2>6, <3>2, <3>4, <3>6
  <2> QED
    BY <2>5, <2>7, <2>9, <2>10, <2>11
<1> QED
  BY <1>1, <1>2

-----------------------------------------------------------------------------
(***************************************************************************)
(* What the updates of a check do to a field that is there; what becomes   *)
(* of a MIME type without content if there was none; and that nothing else *)
(* takes away what has been made of it.                                    *)
(***************************************************************************)
LEMMA EmptyMime == MakePublicationInfoItem("url.mime", NoText).keyword = "removeme"
<1>1. RemoveBrackets(<<>>) = <<>>
  BY DEF RemoveBrackets
<1>2. Trim(<<>>) = <<>>
  <2> DEFINE IsKept(i) == \/ <<>>[i] # " "
                          \/ /\ i > 1 /\ <<>>[i - 1] # " "
                             /\ \E j \in i + 1 .. Len(<<>>) : <<>>[j] # " "
             parts == [i \in DOMAIN <<>> |-> IF IsKept(i) THEN <<<<>>[i]>> ELSE <<>>]
  <2>1. Trim(<<>>) = FlattenSeq(parts)
    BY DEF Trim
  <2> HIDE DEF IsKept
  <2>2. parts = <<>>
    OBVIOUS
  <2>3. FlattenSeq(<<>>) = <<>>
    BY DEF FlattenSeq
  <2> QED
    BY <2>1, <2>2, <2>3
<1>3. IsText(NoText) /\ NoText.text = <<>>
  BY DEF IsText, NoText
<1>4. [text |-> Trim(RemoveBrackets(NoText.text))] = NoText
  BY <1>1, <1>2, <1>3 DEF NoText
<1> QED
  BY <1>3, <1>4 DEF MakePublicationInfoItem

LEMMA UpdateOfField ==
    ASSUME NEW list, IsList(list), InOrder(list), NEW k \in Keywords, NEW v, ValueFits(k, v),
           NEW new \in AddOrUpdateChildNode(list, k, v)
    PROVE  /\ Has(list, k) => Has(new, k) /\ ValueOf(new, k) = v
           /\ k = "url.mime" /\ v = NoText /\ ~Has(list, k) =>
                  ~Has(new, k) /\ Has(new, "removeme")
           /\ Has(list, "removeme") => Has(new, "removeme")
<1>1. CASE Has(list, k)
  <2>1. new = Replace(list, k, v)
    BY <1>1 DEF AddOrUpdateChildNode
  <2>2. IsList(new) /\ Alike(list, new) /\ ValueOf(new, k) = v
    BY <1>1, <2>1, ReplaceKeeps
  <2>3. Has(new, k) /\ (Has(list, "removeme") => Has(new, "removeme"))
    BY <1>1, <2>2, AlikeLists
  <2> QED
    BY <1>1, <2>2, <2>3
<1>2. CASE ~Has(list, k)
  <2> DEFINE item == MakePublicationInfoItem(k, v)
             t == <<item>> \o list
  <2>1. new \in SortChildren(t)
    BY <1>2 DEF AddOrUpdateChildNode
  <2>2. IsField(item) /\ item.keyword \in {k, "removeme"}
    BY NewItemIsField
  <2>3. k = "url.mime" /\ v = NoText => item.keyword = "removeme"
    BY EmptyMime
  <2> HIDE DEF item
  <2>4. IsList(t)
    BY <2>2, InFront
  <2>5. \A key : Has(t, key) <=> key = item.keyword \/ Has(list, key)
    BY <2>2, FoundInFront
  <2> HIDE DEF t
  <2>6. IsList(new) /\ new \in Seq(Range(t)) /\ \E p : Rearranges(new, t, p)
    BY <2>1, <2>4, SortedList
  <2>7. \A key : NumberOf(new, key) = NumberOf(t, key)
    BY <2>4, <2>6, RearrangedList
  <2>8. \A key : Has(new, key) <=> Has(t, key)
    BY <2>4, <2>6, <2>7, NumberIsNat
  <2> QED
    BY <1>2, <2>3, <2>5, <2>8
<1> QED
  BY <1>1, <1>2

-----------------------------------------------------------------------------
(***************************************************************************)
(* Unification, one function of makePublication() after the other.         *)
(***************************************************************************)
(***************************************************************************)
(* No field comes, goes or moves, and the first ones of all keywords but   *)
(* those in K have the values they had.                                    *)
(***************************************************************************)
KeepsAllBut(list, new, K) ==
    /\ IsList(new) /\ Alike(list, new)
    /\ \A k : k \notin K /\ Has(list, k) => ValueOf(new, k) = ValueOf(list, k)

\* One change after another.
LEMMA KeepsAgain ==
    ASSUME NEW a, IsList(a), NEW b, NEW c, NEW K, NEW L,
           KeepsAllBut(a, b, K), KeepsAllBut(b, c, L)
    PROVE  KeepsAllBut(a, c, K \cup L)
<1>1. \A k : Has(b, k) <=> Has(a, k)
  BY AlikeLists DEF KeepsAllBut
<1>2. IsList(c) /\ Alike(a, c)
  BY AlikeIsTransitive DEF KeepsAllBut
<1> QED
  BY <1>1, <1>2 DEF KeepsAllBut

\* Replacing a value changes no other.
LEMMA ReplaceKeepsOthers ==
    ASSUME NEW list, IsList(list), NEW k, NEW v, ValueFits(k, v)
    PROVE  KeepsAllBut(list, Replace(list, k, v), {k})
BY ReplaceKeeps DEF KeepsAllBut

\* No change is one.
LEMMA NothingChanged ==
    ASSUME NEW list, IsList(list), NEW K
    PROVE  KeepsAllBut(list, list, K)
BY DEF KeepsAllBut, Alike

\* unifyAuthor(), unifyBookTitle(), unifyURL(): fields of which nothing is counted
LEMMA TextsAreUnified ==
    ASSUME NEW list, IsList(list)
    PROVE  /\ KeepsAllBut(list, UnifyAuthor(list), {"author"})
           /\ KeepsAllBut(list, UnifyText(list, "booktitle", UnifyBookTitle), {"booktitle"})
           /\ KeepsAllBut(list, UnifyText(list, "journal", UnifyBookTitle), {"journal"})
           /\ KeepsAllBut(list, UnifyText(list, "url", UnifyURL), {"url"})
<1>1. \A v : /\ ValueFits("author", v) /\ ValueFits("booktitle", v)
             /\ ValueFits("journal", v) /\ ValueFits("url", v)
  BY DEF ValueFits
<1>2. \A v : /\ KeepsAllBut(list, Replace(list, "author", v), {"author"})
             /\ KeepsAllBut(list, Replace(list, "booktitle", v), {"booktitle"})
             /\ KeepsAllBut(list, Replace(list, "journal", v), {"journal"})
             /\ KeepsAllBut(list, Replace(list, "url", v), {"url"})
  BY <1>1, ReplaceKeepsOthers
<1>3. KeepsAllBut(list, UnifyAuthor(list), {"author"})
  BY <1>2, NothingChanged DEF UnifyAuthor
<1>4. KeepsAllBut(list, UnifyText(list, "booktitle", UnifyBookTitle), {"booktitle"})
  BY <1>2, NothingChanged DEF UnifyText
<1>5. KeepsAllBut(list, UnifyText(list, "journal", UnifyBookTitle), {"journal"})
  BY <1>2, NothingChanged DEF UnifyText
<1>6. KeepsAllBut(list, UnifyText(list, "url", UnifyURL), {"url"})
  BY <1>2, NothingChanged DEF UnifyText
<1> QED
  BY <1>3, <1>4, <1>5, <1>6

\* The titles of books and journals.
LEMMA TitlesAreUnified ==
    ASSUME NEW list, IsList(list)
    PROVE  KeepsAllBut(list, UnifyTitles(UnifyAuthor(list)), {"author", "booktitle", "journal"})
<1> DEFINE a == UnifyAuthor(list)
           b == UnifyText(a, "booktitle", UnifyBookTitle)
           c == UnifyText(b, "journal", UnifyBookTitle)
<1>1. KeepsAllBut(list, a, {"author"})
  BY TextsAreUnified
<1>2. KeepsAllBut(a, b, {"booktitle"})
  <2> HIDE DEF a
  <2> QED
    BY <1>1, TextsAreUnified DEF KeepsAllBut
<1>3. KeepsAllBut(b, c, {"journal"})
  <2> HIDE DEF b
  <2> QED
    BY <1>2, TextsAreUnified DEF KeepsAllBut
<1>4. UnifyTitles(a) = c
  BY DEF UnifyTitles
<1> HIDE DEF a, b, c
<1>5. KeepsAllBut(list, b, {"author"} \cup {"booktitle"})
  BY <1>1, <1>2, KeepsAgain
<1>6. KeepsAllBut(list, c, ({"author"} \cup {"booktitle"}) \cup {"journal"})
  BY <1>3, <1>5, KeepsAgain
<1>7. ({"author"} \cup {"booktitle"}) \cup {"journal"} = {"author", "booktitle", "journal"}
  OBVIOUS
<1> QED
  BY <1>4, <1>6, <1>7 DEF a

(***************************************************************************)
(* What the program reads of a field is there to be counted with.          *)
(***************************************************************************)
LEMMA ValuesFit ==
    ASSUME NEW list, IsList(list), NEW k, Has(list, k)
    PROVE  ValueFits(k, ValueOf(list, k))
<1>1. FindChildNode(list, k) \in DOMAIN list /\ list[FindChildNode(list, k)].keyword = k
  BY FoundIsFirst
<1>2. IsField(list[FindChildNode(list, k)])
  BY <1>1 DEF IsList
<1> QED
  BY <1>1, <1>2 DEF IsField, ValueOf

\* The date is made of numbers.
LEMMA DatesAreNumbers ==
    ASSUME NEW list, IsList(list)
    PROVE  /\ YearOf(list) \in Int
           /\ MonthOf(list) \in 0 .. 12
           /\ Has(list, "day") => ValueOf(list, "day").number \in Int
<1>1. Has(list, "year") => ValueOf(list, "year") \in [number : Int]
  BY ValuesFit DEF ValueFits
<1>2. Has(list, "month") => ValueOf(list, "month") \in [month : 0 .. 12]
  BY ValuesFit DEF ValueFits
<1>3. Has(list, "day") => ValueOf(list, "day") \in [number : Int]
  BY ValuesFit DEF ValueFits
<1> QED
  BY <1>1, <1>2, <1>3 DEF YearOf, MonthOf

\* unifyDate() changes no value.
LEMMA DateIsUnified ==
    ASSUME NEW list, IsList(list)
    PROVE  KeepsAllBut(list, UnifyDate(list), {})
<1> DEFINE D == IF Has(list, "day") THEN ValueOf(list, "day").number ELSE 0
           a == WithNumber(list, "year", YearOf(list))
           b == WithNumber(a, "month", MonthOf(list))
           c == WithNumber(b, "day", D)
<1>1. YearOf(list) \in Int /\ MonthOf(list) \in Int /\ D \in Int
  BY DatesAreNumbers
<1>2. ASSUME NEW l, IsList(l), NEW k, NEW n \in Int
      PROVE  KeepsAllBut(l, WithNumber(l, k, n), {})
  <2>1. /\ IsList(WithNumber(l, k, n)) /\ Alike(l, WithNumber(l, k, n))
        /\ \A m \in DOMAIN l : WithNumber(l, k, n)[m].value = l[m].value
    BY <1>2, WithNumberKeeps
  <2>2. \A key : Has(l, key) => ValueOf(WithNumber(l, k, n), key) = ValueOf(l, key)
    BY <1>2, <2>1, SameValues
  <2> QED
    BY <2>1, <2>2 DEF KeepsAllBut
<1>3. UnifyDate(list) = c
  BY DEF UnifyDate, WithNumber
<1> HIDE DEF D
<1>4. KeepsAllBut(list, a, {})
  BY <1>1, <1>2
<1> HIDE DEF a
<1>5. KeepsAllBut(a, b, {})
  BY <1>1, <1>2, <1>4 DEF KeepsAllBut
<1> HIDE DEF b
<1>6. KeepsAllBut(b, c, {})
  BY <1>1, <1>2, <1>5 DEF KeepsAllBut
<1> HIDE DEF c
<1>7. KeepsAllBut(list, b, {} \cup {})
  BY <1>4, <1>5, KeepsAgain
<1>8. KeepsAllBut(list, c, ({} \cup {}) \cup {})
  BY <1>6, <1>7, KeepsAgain
<1>9. ({} \cup {}) \cup {} = {}
  OBVIOUS
<1> QED
  BY <1>3, <1>8, <1>9

\* unifyDate() and unifyURL() change the URL alone.
LEMMA DateAndURLAreUnified ==
    ASSUME NEW list, IsList(list)
    PROVE  KeepsAllBut(list, UnifyText(UnifyDate(list), "url", UnifyURL), {"url"})
<1> DEFINE a == UnifyDate(list)
           b == UnifyText(a, "url", UnifyURL)
<1>1. KeepsAllBut(list, a, {})
  BY DateIsUnified
<1> HIDE DEF a
<1>2. KeepsAllBut(a, b, {"url"})
  BY <1>1, TextsAreUnified DEF KeepsAllBut
<1> HIDE DEF b
<1>3. KeepsAllBut(list, b, {} \cup {"url"})
  BY <1>1, <1>2, KeepsAgain
<1>4. {} \cup {"url"} = {"url"}
  OBVIOUS
<1> QED
  BY <1>3, <1>4 DEF a, b

-----------------------------------------------------------------------------
(***************************************************************************)
(* unifyPages(): the pages and their number.                               *)
(***************************************************************************)
LEMMA PageRangeIsRange ==
    ASSUME NEW pages \in Seq(Nat)
    PROVE  /\ PageRange(pages) \in Seq(Nat) /\ Len(PageRange(pages)) = 2
           /\ PageRange(pages)[1] \in Nat /\ PageRange(pages)[2] \in Nat
<1>1. Len(pages) \in Nat /\ \A i \in 1 .. Len(pages) : pages[i] \in Nat
  OBVIOUS
<1>2. CASE Len(pages) = 0
  BY <1>2 DEF PageRange
<1>3. CASE Len(pages) = 1
  BY <1>1, <1>3 DEF PageRange
<1>4. CASE Len(pages) # 0 /\ Len(pages) # 1
  <2>0. 1 \in 1 .. Len(pages) /\ 2 \in 1 .. Len(pages)
    <3> DEFINE n == Len(pages)
    <3>1. n \in Nat /\ n # 0 /\ n # 1
      BY <1>4
    <3> HIDE DEF n
    <3>2. 1 \in 1 .. n /\ 2 \in 1 .. n
      BY <3>1
    <3> QED
      BY <3>2 DEF n
  <2>1. pages[1] \in Nat /\ pages[2] \in Nat
    BY <1>1, <2>0
  <2>2. PageRange(pages) = <<pages[1], pages[2]>>
    BY <1>4 DEF PageRange
  <2> QED
    BY <2>1, <2>2
<1> QED
  BY <1>1, <1>2, <1>3, <1>4

\* The pages as written are read as the same range.
LEMMA RangeIsReadAgain ==
    ASSUME NEW pages \in Seq(Nat)
    PROVE  LET range == PageRange(pages)
           IN  RangeText(range) \in Seq(Nat) /\ PageRange(RangeText(range)) = range
<1> DEFINE range == PageRange(pages)
<1>1. /\ range \in Seq(Nat) /\ Len(range) = 2
      /\ range[1] \in Nat /\ range[2] \in Nat
  BY PageRangeIsRange
<1> HIDE DEF range
<1>2. range = <<range[1], range[2]>>
  BY <1>1
<1> DEFINE a == range[1]
           b == range[2]
<1> HIDE DEF a, b
<1>21. range = <<a, b>> /\ a \in Nat /\ b \in Nat
  BY <1>1, <1>2 DEF a, b
<1>3. CASE a = b
  <2>1. RangeText(range) = <<a>>
    BY <1>3 DEF RangeText, a, b
  <2>2. PageRange(<<a>>) = <<a, a>>
    BY DEF PageRange
  <2>3. <<a>> \in Seq(Nat)
    BY <1>21
  <2>4. RangeText(range) \in Seq(Nat) /\ PageRange(RangeText(range)) = range
    BY <1>3, <1>21, <2>1, <2>2, <2>3
  <2> QED
    BY <2>4 DEF range
<1>4. CASE a # b
  <2>1. RangeText(range) = range
    BY <1>4 DEF RangeText, a, b
  <2>2. PageRange(<<a, b>>) = <<a, b>>
    BY DEF PageRange
  <2> QED
    BY <1>1, <1>21, <2>1, <2>2 DEF range
<1> QED
  BY <1>3, <1>4 DEF range

\* The pages of a publication are numbers.
LEMMA PagesAreNumbers ==
    ASSUME NEW list, IsList(list), Has(list, "pages")
    PROVE  ValueOf(list, "pages") \in [pages : Seq(Nat)]
BY ValuesFit DEF ValueFits

PagesCounted(list) ==
    NumberOf(list, "pages") = 1 /\ RangeIsAccepted(Pages(list)) =>
        /\ Has(list, "numpages")
        /\ ValueOf(list, "numpages").number = Cardinality(Pages(list)[1] .. Pages(list)[2])

\* What becomes of the pages, of their number and of all else.
LEMMA PagesAreUnified ==
    ASSUME NEW list, IsList(list), InOrder(list), NEW new \in UnifyPages(list)
    PROVE  IsList(new) /\ InOrder(new) /\ PagesCounted(new)
<1>1. CASE ~Has(list, "pages") \/ ~RangeIsAccepted(Pages(list))
  <2>1. new = list
    BY <1>1 DEF UnifyPages
  <2>2. ~Has(list, "pages") => NumberOf(list, "pages") # 1
    BY NumberIsNat
  <2> QED
    BY <1>1, <2>1, <2>2 DEF PagesCounted
<1>2. CASE Has(list, "pages") /\ RangeIsAccepted(Pages(list))
  <2> DEFINE range == Pages(list)
             pv == [pages |-> RangeText(range)]
             nv == [number |-> NumberOfPages(range)]
             l == Replace(list, "pages", pv)
  <2>1. ValueOf(list, "pages") \in [pages : Seq(Nat)]
    BY <1>2, PagesAreNumbers
  <2>2. /\ RangeText(range) \in Seq(Nat) /\ PageRange(RangeText(range)) = range
        /\ range[1] \in Nat /\ range[2] \in Nat
    BY <2>1, PageRangeIsRange, RangeIsReadAgain DEF Pages
  <2>3. new \in AddOrUpdateChildNode(l, "numpages", nv)
    BY <1>2 DEF UnifyPages
  <2>4. NumberOfPages(range) \in Int
    BY <2>2 DEF NumberOfPages
  <2>41. range[1] <= range[2]
    BY <1>2 DEF RangeIsAccepted
  <2> HIDE DEF range
  <2>5. ValueFits("pages", pv) /\ ValueFits("numpages", nv) /\ ~IsText(nv)
    BY <2>2, <2>4 DEF ValueFits, IsText
  <2>6. pv.pages = RangeText(range) /\ nv.number = NumberOfPages(range)
    OBVIOUS
  <2> HIDE DEF pv, nv
  <2>7. IsList(l) /\ Alike(list, l) /\ ValueOf(l, "pages") = pv
    BY <1>2, <2>5, ReplaceKeeps
  <2>8. InOrder(l) /\ Has(l, "pages")
    BY <1>2, <2>7, AlikeLists
  <2> HIDE DEF l
  <2>9. "numpages" \in Keywords
    <3>1. KeywordOrder[15] = "numpages" /\ 15 \in DOMAIN KeywordOrder
      BY DEF KeywordOrder
    <3> QED
      BY <3>1 DEF Keywords, Range
  <2>10. /\ IsList(new) /\ InOrder(new)
         /\ Has(new, "numpages") /\ ValueOf(new, "numpages") = nv
    BY <2>3, <2>5, <2>7, <2>8, <2>9, AddOrUpdateKeeps
  <2>11. NumberOf(new, "pages") = 1 => ValueOf(new, "pages") = pv
    <3>1. NumberOf(new, "pages") = NumberOf(l, "pages")
      BY <2>3, <2>5, <2>7, <2>8, <2>9, AddOrUpdateKeeps
    <3>2. NumberOf(l, "pages") = 1 => ValueOf(new, "pages") = ValueOf(l, "pages")
      BY <2>3, <2>5, <2>7, <2>8, <2>9, AddOrUpdateKeeps
    <3> QED
      BY <2>7, <3>1, <3>2
  <2>12. NumberOf(new, "pages") = 1 => Pages(new) = range
    BY <2>2, <2>6, <2>11 DEF Pages
  <2>13. Cardinality(range[1] .. range[2]) = NumberOfPages(range)
    <3> DEFINE a == range[1]
               b == range[2]
    <3>1. a \in Int /\ b \in Int /\ ~(a > b)
      BY <2>2, <2>41
    <3> HIDE DEF a, b
    <3>2. Cardinality(a .. b) = IF a > b THEN 0 ELSE b - a + 1
      BY <3>1, FS_Interval
    <3>3. b - a + 1 = 1 + (b - a)
      BY <3>1
    <3>4. Cardinality(a .. b) = 1 + (b - a)
      BY <3>1, <3>2, <3>3
    <3> QED
      BY <3>4 DEF NumberOfPages, a, b
  <2> QED
    BY <2>6, <2>10, <2>12, <2>13 DEF PagesCounted
<1> QED
  BY <1>1, <1>2

-----------------------------------------------------------------------------
(***************************************************************************)
(* makePublication() as a whole.                                           *)
(***************************************************************************)
WarnedOf(list, all) ==
    \E ofPages \in SUBSET {"pages", "inconsistent", "numpages"} :
        all = ofPages \cup NumberWarnings(list) \cup DateWarnings(list)

\* The list is in order, its pages are counted, and the warnings fit it.
LEMMA PublicationIsMade ==
    ASSUME IsList(fields), MakePublication
    PROVE  /\ IsList(fields') /\ InOrder(fields') /\ PagesCounted(fields')
           /\ \E list : /\ IsList(list)
                        /\ KeepsAllBut(list, fields', {"url"})
                        /\ WarnedOf(list, warnings')
<1>1. PICK sorted \in SortChildren(fields) :
        \E list \in UnifyPages(UnifyTitles(UnifyAuthor(sorted))) :
            /\ fields' = UnifyText(UnifyDate(list), "url", UnifyURL)
            /\ warnings' = PageWarnings(sorted) \cup NumberWarnings(list)
                               \cup DateWarnings(list)
  BY DEF MakePublication
<1> DEFINE l == UnifyTitles(UnifyAuthor(sorted))
<1>2. PICK list \in UnifyPages(l) :
            /\ fields' = UnifyText(UnifyDate(list), "url", UnifyURL)
            /\ warnings' = PageWarnings(sorted) \cup NumberWarnings(list)
                               \cup DateWarnings(list)
  BY <1>1
<1>3. IsList(sorted) /\ InOrder(sorted)
  BY SortedList
<1>4. KeepsAllBut(sorted, l, {"author", "booktitle", "journal"})
  BY <1>3, TitlesAreUnified
<1> HIDE DEF l
<1>5. IsList(l) /\ InOrder(l)
  BY <1>3, <1>4, AlikeLists DEF KeepsAllBut
<1>6. IsList(list) /\ InOrder(list) /\ PagesCounted(list)
  BY <1>2, <1>5, PagesAreUnified
<1>7. KeepsAllBut(list, fields', {"url"})
  BY <1>2, <1>6, DateAndURLAreUnified
<1>8. IsList(fields') /\ InOrder(fields')
  BY <1>6, <1>7, AlikeLists DEF KeepsAllBut
<1>9. PagesCounted(fields')
  <2>1. NumberOf(fields', "pages") = NumberOf(list, "pages")
    BY <1>6, <1>7, AlikeLists DEF KeepsAllBut
  <2>2. NumberOf(list, "pages") = 1 => Has(list, "pages")
    BY <1>6, NumberIsNat
  <2>3. Has(list, "pages") => Pages(fields') = Pages(list)
    BY <1>7 DEF KeepsAllBut, Pages
  <2>4. Has(list, "numpages") =>
            Has(fields', "numpages") /\ ValueOf(fields', "numpages") = ValueOf(list, "numpages")
    BY <1>6, <1>7, AlikeLists DEF KeepsAllBut
  <2> QED
    BY <1>6, <2>1, <2>2, <2>3, <2>4 DEF PagesCounted
<1>10. PageWarnings(sorted) \in SUBSET {"pages", "inconsistent", "numpages"}
  BY DEF PageWarnings, WarnIf
<1>11. WarnedOf(list, warnings')
  BY <1>2, <1>10 DEF WarnedOf
<1> QED
  BY <1>6, <1>7, <1>8, <1>9, <1>11

-----------------------------------------------------------------------------
(***************************************************************************)
(* The export to BibTeX.                                                   *)
(***************************************************************************)
(***************************************************************************)
(* Sequences that are put one behind the other give a sequence.            *)
(***************************************************************************)
LEMMA FlattenedIsSeq ==
    ASSUME NEW S, NEW seqs \in Seq(Seq(S))
    PROVE  FlattenSeq(seqs) \in Seq(S)
<1> DEFINE N == Len(seqs)
           D == Seq(S)
           Flat(f) == [i \in 1 .. N |-> IF i = 1 THEN seqs[i] ELSE f[i - 1] \o seqs[i]]
           flatten == CHOOSE f : f = Flat(f)
           g == [x \in (1 .. N) \X D |-> x[2] \o seqs[x[1]]]
<1>1. N \in Nat /\ \A i \in 1 .. N : seqs[i] \in Seq(S)
  OBVIOUS
<1>2. CASE N = 0
  <2>1. seqs = <<>>
    BY <1>2
  <2> QED
    BY <1>2, <2>1 DEF FlattenSeq
<1>3. CASE N # 0
  <2>1. g \in [(1 .. N) \X D -> D]
    <3>1. ASSUME NEW x \in (1 .. N) \X D PROVE x[2] \o seqs[x[1]] \in D
      <4>1. x[1] \in 1 .. N /\ x[2] \in Seq(S)
        OBVIOUS
      <4>2. seqs[x[1]] \in Seq(S)
        BY <1>1, <4>1
      <4> QED
        BY <4>1, <4>2
    <3> QED
      BY <3>1
  <2>2. PICK f \in [0 .. N -> D] : Recurs(f, N, <<>>, g)
    <3> DEFINE a == <<>>
    <3>1. a \in D
      OBVIOUS
    <3> HIDE DEF g, N, D, a
    <3>2. \E f \in [0 .. N -> D] : Recurs(f, N, a, g)
      BY <1>1, <2>1, <3>1, RecursiveFunctionExists
    <3> QED
      BY <3>2 DEF a
  <2> DEFINE h == [i \in 1 .. N |-> f[i]]
  <2>3. ASSUME NEW i \in 1 .. N
        PROVE  f[i] = f[i - 1] \o seqs[i] /\ f[i] \in Seq(S) /\ f[i - 1] \in Seq(S)
    <3>1. i \in 0 .. N /\ i # 0 /\ i - 1 \in 0 .. N
      BY <1>1
    <3>2. f[i] = g[<<i, f[i - 1]>>]
      BY <2>2, <3>1 DEF Recurs
    <3>3. f[i - 1] \in D /\ f[i] \in D
      BY <2>2, <3>1
    <3>4. g[<<i, f[i - 1]>>] = f[i - 1] \o seqs[i]
      BY <3>3
    <3> QED
      BY <3>2, <3>3, <3>4
  <2>4. f[0] = <<>>
    <3>1. 0 \in 0 .. N
      BY <1>1
    <3>2. \A n \in 0 .. N : f[n] = IF n = 0 THEN <<>> ELSE g[<<n, f[n - 1]>>]
      BY <2>2 DEF Recurs
    <3> HIDE DEF N, g, D
    <3> QED
      BY <3>1, <3>2
  <2>5. ASSUME NEW i \in 1 .. N
        PROVE  h[i] = IF i = 1 THEN seqs[i] ELSE h[i - 1] \o seqs[i]
    <3>1. CASE i = 1
      <4>1. f[1] = <<>> \o seqs[1] /\ seqs[1] \in Seq(S)
        <5>1. i \in 1 .. N
          OBVIOUS
        <5>2. f[i] = f[i - 1] \o seqs[i]
          BY <2>3
        <5>3. seqs[i] \in Seq(S)
          BY <1>1, <5>1
        <5>4. i - 1 = 0
          BY <3>1
        <5> QED
          BY <2>4, <3>1, <5>2, <5>3, <5>4
      <4>2. f[1] = seqs[1]
        BY <4>1
      <4> QED
        BY <3>1, <4>2
    <3>2. CASE i # 1
      <4>1. i - 1 \in 1 .. N
        BY <1>1, <3>2
      <4> QED
        BY <2>3, <3>2, <4>1
    <3> QED
      BY <3>1, <3>2
  <2>6. h = Flat(h)
    <3> HIDE DEF h
    <3>1. h = [i \in 1 .. N |-> h[i]]
      BY DEF h
    <3> QED
      BY <2>5, <3>1
  <2>7. flatten = Flat(flatten)
    <3> HIDE DEF Flat, h
    <3> QED
      BY <2>6
  <2>8. FlattenSeq(seqs) = flatten[N]
    BY <1>3 DEF FlattenSeq
  <2> HIDE DEF flatten
  <2>9. \A i \in 1 .. N : flatten[i] = IF i = 1 THEN seqs[i] ELSE flatten[i - 1] \o seqs[i]
    <3> HIDE DEF N
    <3>1. \A i \in 1 .. N : Flat(flatten)[i] = IF i = 1 THEN seqs[i] ELSE flatten[i - 1] \o seqs[i]
      OBVIOUS
    <3> HIDE DEF Flat
    <3> QED
      BY <2>7, <3>1
  <2> DEFINE Bad == {i \in 1 .. N : flatten[i] \notin Seq(S)}
  <2>10. Bad = {}
    <3> SUFFICES ASSUME Bad # {} PROVE FALSE
      OBVIOUS
    <3>1. Bad \in SUBSET Nat
      OBVIOUS
    <3>2. PICK i \in Bad : \A k \in Bad : i <= k
      <4> HIDE DEF Bad
      <4> QED
        BY <3>1, LeastOf
    <3>3. i \in 1 .. N /\ flatten[i] \notin Seq(S) /\ seqs[i] \in Seq(S)
      BY <1>1, <3>2
    <3>4. i # 1
      BY <2>9, <3>3
    <3>5. i - 1 \in 1 .. N /\ ~(i <= i - 1)
      BY <1>1, <3>3, <3>4
    <3>6. flatten[i - 1] \in Seq(S)
      BY <3>2, <3>5
    <3>7. flatten[i] = flatten[i - 1] \o seqs[i]
      BY <2>9, <3>3, <3>4
    <3> QED
      BY <3>3, <3>6, <3>7
  <2>11. N \in 1 .. N
    BY <1>1, <1>3
  <2> QED
    BY <2>8, <2>10, <2>11
<1> QED
  BY <1>2, <1>3

-----------------------------------------------------------------------------
(***************************************************************************)
(* What is written can be read again as the fields of an entry.            *)
(***************************************************************************)
LEMMA ExportedFits ==
    ASSUME NEW f, IsField(f), NEW o, ~Skipped(f, o)
    PROVE  /\ ValueFits(f.keyword, Exported(f, o))
           /\ f.keyword = "month" => Exported(f, o).month \in 1 .. 12
<1>1. CASE f.keyword = "month"
  <2>1. f.number \in 1 .. 12
    BY <1>1 DEF Skipped
  <2>2. Exported(f, o) = [month |-> f.number]
    BY <1>1 DEF Exported, Bracketed
  <2> QED
    BY <1>1, <2>1, <2>2 DEF ValueFits
<1>2. CASE f.keyword \in {"day", "year"}
  <2>1. Exported(f, o) = [number |-> f.number]
    BY <1>2 DEF Exported, Bracketed
  <2> QED
    BY <1>2, <2>1 DEF ValueFits, IsField
<1>3. CASE f.keyword \in {"numpages", "pages", "isbn", "issn"}
  <2>1. Exported(f, o) = f.value
    BY <1>3 DEF Exported, Bracketed
  <2> QED
    BY <1>3, <2>1 DEF ValueFits, IsField
<1>4. CASE f.keyword \notin {"month", "day", "year", "numpages", "pages", "isbn", "issn"}
  BY <1>4 DEF ValueFits
<1> QED
  BY <1>1, <1>2, <1>3, <1>4

IsWritten(e) ==
    /\ e.keyword \in Keywords /\ ValueFits(e.keyword, e.value)
    /\ e.keyword = "month" => e.value.month \in 1 .. 12

\* What exportPublicationSetToBibTeX() writes is an entry.
LEMMA EntryIsWritten ==
    ASSUME NEW list, IsList(list), NEW o
    PROVE  /\ IsEntry(WrittenFields(list, o))
           /\ \A i \in DOMAIN WrittenFields(list, o) : IsWritten(WrittenFields(list, o)[i])
<1> DEFINE Item(i) == [keyword |-> list[i].keyword,
                       value   |-> Exported(list[i], o),
                       comma   |-> i > 1]
           note == [keyword |-> "note", value |-> AddedNote, comma |-> Len(list) > 1]
           S == {Item(i) : i \in {j \in DOMAIN list : ~Skipped(list[j], o)}} \cup {note}
           Part(i) == IF Skipped(list[i], o) THEN <<>> ELSE <<Item(i)>>
           parts == [i \in DOMAIN list |-> Part(i)]
           added == IF AddsNote(list, o) THEN <<note>> ELSE <<>>
<1>1. Len(list) \in Nat /\ DOMAIN list = 1 .. Len(list) /\ \A i \in 1 .. Len(list) : IsField(list[i])
  BY ListIsSeq
<1>2. \A e \in S : IsWritten(e)
  <2>1. ASSUME NEW i \in DOMAIN list, ~Skipped(list[i], o) PROVE IsWritten(Item(i))
    <3>1. IsField(list[i])
      BY <1>1
    <3>2. /\ ValueFits(list[i].keyword, Exported(list[i], o))
          /\ list[i].keyword = "month" => Exported(list[i], o).month \in 1 .. 12
      BY <2>1, <3>1, ExportedFits
    <3> QED
      BY <3>1, <3>2 DEF IsWritten, IsField
  <2>2. IsWritten(note)
    <3>1. KeywordOrder[35] = "note" /\ 35 \in DOMAIN KeywordOrder
      BY DEF KeywordOrder
    <3>2. "note" \in Keywords
      BY <3>1 DEF Keywords, Range
    <3>3. \A v : ValueFits("note", v)
      BY DEF ValueFits
    <3> QED
      BY <3>2, <3>3 DEF IsWritten
  <2> HIDE DEF Item, note
  <2> QED
    BY <2>1, <2>2
<1>3. WrittenFields(list, o) = FlattenSeq(parts) \o added
  BY DEF WrittenFields
<1> HIDE DEF note
<1>4. \A i \in DOMAIN list : Part(i) \in Seq(S)
  <2> TAKE i \in DOMAIN list
  <2>1. CASE Skipped(list[i], o)
    BY <2>1
  <2>2. CASE ~Skipped(list[i], o)
    <3>1. Item(i) \in S
      BY <2>2
    <3> HIDE DEF S, Item
    <3> QED
      BY <2>2, <3>1
  <2> QED
    BY <2>1, <2>2
<1>5. note \in S
  OBVIOUS
<1> HIDE DEF S, Part
<1>6. parts \in Seq(Seq(S))
  BY <1>1, <1>4
<1> HIDE DEF parts
<1>7. FlattenSeq(parts) \in Seq(S)
  BY <1>6, FlattenedIsSeq
<1>8. added \in Seq(S)
  BY <1>5
<1> HIDE DEF added
<1>9. WrittenFields(list, o) \in Seq(S)
  BY <1>3, <1>7, <1>8
<1> DEFINE w == WrittenFields(list, o)
<1>10. \A i \in DOMAIN w : IsWritten(w[i])
  BY <1>2, <1>9
<1>11. w \in Seq(Range(w))
  <2> HIDE DEF w
  <2> QED
    BY <1>9, SequenceOfItsRange DEF w
<1> HIDE DEF w
<1>12. IsEntry(w)
  BY <1>10, <1>11 DEF IsEntry, IsWritten
<1> QED
  BY <1>10, <1>12 DEF w

-----------------------------------------------------------------------------
(***************************************************************************)
(* What a check of the URL makes of the fields, one update after the       *)
(* other.  The lists stay among those that are made of values in V.        *)
(***************************************************************************)
FieldsOver(V) ==
    {f \in [keyword : Keywords, value : V, number : Int] : ValueFits(f.keyword, f.value)}

\* These are fields.
LEMMA FieldsOverAreFields ==
    ASSUME NEW V
    PROVE  /\ \A f \in FieldsOver(V) : IsField(f) /\ f.value \in V
           /\ \A f : IsField(f) /\ f.value \in V => f \in FieldsOver(V)
BY DEF FieldsOver, IsField

\* A rearranged list of them is one of them.
LEMMA ListOver ==
    ASSUME NEW list, NEW V
    PROVE  /\ list \in Seq(FieldsOver(V)) => IsList(list)
           /\ IsList(list) /\ (\A i \in DOMAIN list : list[i].value \in V) =>
                  list \in Seq(FieldsOver(V))
<1> DEFINE F == FieldsOver(V)
<1>1. ASSUME list \in Seq(F) PROVE IsList(list)
  <2>1. \A i \in 1 .. Len(list) : list[i] \in F
    BY <1>1
  <2>2. \A i \in 1 .. Len(list) : IsField(list[i])
    BY <2>1, FieldsOverAreFields
  <2> HIDE DEF F
  <2> QED
    BY <1>1, <2>2, ListFromSeq
<1>2. ASSUME IsList(list), \A i \in DOMAIN list : list[i].value \in V
      PROVE  list \in Seq(F)
  <2>1. /\ Len(list) \in Nat /\ DOMAIN list = 1 .. Len(list)
        /\ \A i \in 1 .. Len(list) : IsField(list[i])
    BY <1>2, ListIsSeq
  <2>2. \A i \in 1 .. Len(list) : list[i] \in F
    BY <1>2, <2>1, FieldsOverAreFields
  <2>3. list \in Seq(Range(list))
    BY <1>2 DEF IsList
  <2> HIDE DEF F
  <2> DEFINE n == Len(list)
  <2>4. list = [i \in 1 .. n |-> list[i]]
    BY <2>3
  <2>5. [i \in 1 .. n |-> list[i]] \in Seq(F)
    <3>1. n \in Nat /\ \A i \in 1 .. n : list[i] \in F
      BY <2>1, <2>2
    <3> HIDE DEF n
    <3> QED
      BY <3>1
  <2> QED
    BY <2>4, <2>5
<1> QED
  BY <1>1, <1>2

\* addOrUpdateChildNode() gives such a list again.
LEMMA AddOrUpdateStays ==
    ASSUME NEW V, NEW list \in Seq(FieldsOver(V)), NEW k \in Keywords, NEW v \in V,
           ValueFits(k, v), MakePublicationInfoItem(k, v).value \in V
    PROVE  AddOrUpdateChildNode(list, k, v) \subseteq Seq(FieldsOver(V))
<1> DEFINE F == FieldsOver(V)
<1>1. IsList(list)
  BY ListOver
<1>2. Len(list) \in Nat /\ DOMAIN list = 1 .. Len(list) /\ \A i \in 1 .. Len(list) : list[i] \in F
  OBVIOUS
<1>3. \A i \in DOMAIN list : list[i].value \in V
  BY <1>2, FieldsOverAreFields
<1>4. CASE Has(list, k)
  <2> DEFINE new == Replace(list, k, v)
             p == FindChildNode(list, k)
  <2>1. /\ IsList(new) /\ Alike(list, new)
        /\ new[p].value = v
        /\ \A m \in DOMAIN list : m # p => new[m] = list[m]
    BY <1>1, <1>4, ReplaceOne
  <2>2. AddOrUpdateChildNode(list, k, v) = {new}
    BY <1>4 DEF AddOrUpdateChildNode
  <2> HIDE DEF new, p
  <2>3. \A i \in DOMAIN new : new[i].value \in V
    BY <1>3, <2>1 DEF Alike
  <2>4. new \in Seq(FieldsOver(V))
    BY <2>1, <2>3, ListOver
  <2> QED
    BY <2>2, <2>4
<1>5. CASE ~Has(list, k)
  <2> DEFINE item == MakePublicationInfoItem(k, v)
             t == <<item>> \o list
  <2>1. IsField(item) /\ item.value \in V
    BY NewItemIsField
  <2>2. item \in F
    BY <2>1, FieldsOverAreFields
  <2>3. AddOrUpdateChildNode(list, k, v) = SortChildren(t)
    BY <1>5 DEF AddOrUpdateChildNode
  <2> HIDE DEF item, F
  <2>4. t \in Seq(F)
    BY <2>2 DEF F
  <2>5. \A e \in F : IsField(e)
    BY FieldsOverAreFields DEF F
  <2> HIDE DEF t
  <2>6. \A s \in SortChildren(t) : s \in Seq(F)
    BY <2>4, <2>5, SortChildrenSorts
  <2> QED
    BY <2>3, <2>6 DEF F
<1> QED
  BY <1>4, <1>5

\* The results that are there after every check
Sizes == {"url.size", "url.mime", "url.checked"}

Result(k, mime) == IF k = "url.mime" THEN mime ELSE Measured

Given(updates, n, k) == \E j \in 1 .. n : updates[j].keyword = k

\* What is known after n updates
Updated(list, l, updates, n, mime) ==
    /\ IsList(l) /\ InOrder(l)
    /\ \A f : f.keyword \notin FromTheCheck => Count(l, f) = Count(list, f)
    /\ \A k : k # "removeme" =>
           \/ NumberOf(l, k) = NumberOf(list, k)
           \/ NumberOf(list, k) = 0 /\ NumberOf(l, k) = 1
    /\ \A k \in Sizes :
           /\ NumberOf(list, k) <= 1 /\ Given(updates, n, k)
           /\ Result(k, mime) = Measured \/ Has(list, k)
           => Has(l, k) /\ ValueOf(l, k) = Result(k, mime)
    /\ mime = NoText /\ ~Has(list, "url.mime") =>
           /\ ~Has(l, "url.mime")
           /\ Given(updates, n, "url.mime") => Has(l, "removeme")

ComesFromTheCheck(update, mime) ==
    /\ update.keyword \in FromTheCheck \cap Keywords
    /\ ValueFits(update.keyword, update.value)
    /\ update.keyword \in Sizes => update.value = Result(update.keyword, mime)

\* One update of a field.
LEMMA OneUpdate ==
    ASSUME NEW list, IsList(list), NEW updates, NEW n \in Nat \ {0},
           NEW mime \in {Measured, NoText}, ComesFromTheCheck(updates[n], mime),
           NEW l, Updated(list, l, updates, n - 1, mime),
           NEW new \in AfterUpdate(l, updates[n])
    PROVE  Updated(list, new, updates, n, mime)
<1> DEFINE u == updates[n]
           k == u.keyword
           v == u.value
<1>1. IsList(l) /\ InOrder(l)
  BY DEF Updated
<1>2. \A key : Given(updates, n, key) /\ key # k => Given(updates, n - 1, key)
  <2>1. \A j \in 1 .. n : j = n \/ j \in 1 .. n - 1
    OBVIOUS
  <2> QED
    BY <2>1 DEF Given
<1>3. CASE k = "url.keywords" /\ Has(l, "keywords")
  <2>1. new = l
    BY <1>3 DEF AfterUpdate
  <2>2. k \notin Sizes
    BY <1>3 DEF Sizes
  <2> QED
    BY <1>2, <2>1, <2>2 DEF Updated, Sizes
<1>4. CASE ~(k = "url.keywords" /\ Has(l, "keywords"))
  <2>1. new \in AddOrUpdateChildNode(l, k, v)
    BY <1>4 DEF AfterUpdate
  <2>2. /\ k \in FromTheCheck /\ k \in Keywords /\ ValueFits(k, v)
        /\ k \in Sizes => v = Result(k, mime)
    BY DEF ComesFromTheCheck
  <2> HIDE DEF k, v
  <2>3. /\ IsList(new) /\ InOrder(new)
        /\ \A f : f.keyword \notin {k, "removeme"} => Count(new, f) = Count(l, f)
        /\ \A key : key # "removeme" =>
               \/ NumberOf(new, key) = NumberOf(l, key)
               \/ key = k /\ NumberOf(l, k) = 0 /\ NumberOf(new, k) = 1
        /\ \A key : key \notin {k, "removeme"} /\ NumberOf(l, key) = 1 =>
               ValueOf(new, key) = ValueOf(l, key)
        /\ ~IsText(v) => Has(new, k) /\ ValueOf(new, k) = v
    BY <1>1, <2>1, <2>2, AddOrUpdateKeeps
  <2>4. ASSUME NEW f, f.keyword \notin FromTheCheck PROVE Count(new, f) = Count(list, f)
    <3>1. f.keyword \notin {k, "removeme"}
      BY <2>2, <2>4 DEF FromTheCheck
    <3> QED
      BY <2>3, <2>4, <3>1 DEF Updated
  <2>5. ASSUME NEW key, key # "removeme"
        PROVE  \/ NumberOf(new, key) = NumberOf(list, key)
               \/ NumberOf(list, key) = 0 /\ NumberOf(new, key) = 1
    <3>1. \/ NumberOf(l, key) = NumberOf(list, key)
          \/ NumberOf(list, key) = 0 /\ NumberOf(l, key) = 1
      BY <2>5 DEF Updated
    <3> QED
      BY <2>3, <2>5, <3>1
  <2>6. /\ Has(l, k) => Has(new, k) /\ ValueOf(new, k) = v
        /\ k = "url.mime" /\ v = NoText /\ ~Has(l, k) => ~Has(new, k) /\ Has(new, "removeme")
        /\ Has(l, "removeme") => Has(new, "removeme")
    BY <1>1, <2>1, <2>2, UpdateOfField
  <2>7. ASSUME NEW key \in Sizes, NumberOf(list, key) <= 1, Given(updates, n, key),
               Result(key, mime) = Measured \/ Has(list, key)
        PROVE  Has(new, key) /\ ValueOf(new, key) = Result(key, mime)
    <3>1. key # "removeme"
      BY DEF Sizes
    <3>2. \/ NumberOf(l, key) = NumberOf(list, key)
          \/ NumberOf(list, key) = 0 /\ NumberOf(l, key) = 1
      BY <3>1 DEF Updated
    <3>3. /\ NumberOf(l, key) \in Nat /\ NumberOf(list, key) \in Nat
          /\ Has(l, key) <=> NumberOf(l, key) # 0
          /\ Has(list, key) <=> NumberOf(list, key) # 0
      BY <1>1, NumberIsNat
    <3>4. CASE key = k
      <4>1. v = Result(key, mime)
        BY <2>2, <3>4
      <4>2. CASE v = Measured
        <5>1. ~IsText(v)
          BY <4>2 DEF Measured, IsText
        <5> QED
          BY <2>3, <3>4, <4>1, <5>1
      <4>3. CASE v # Measured
        <5>1. Has(l, k)
          BY <2>7, <3>2, <3>3, <3>4, <4>1, <4>3
        <5> QED
          BY <2>6, <3>4, <4>1, <5>1
      <4> QED
        BY <4>2, <4>3
    <3>5. CASE key # k
      <4>1. Given(updates, n - 1, key)
        BY <1>2, <2>7, <3>5 DEF k
      <4>2. Has(l, key) /\ ValueOf(l, key) = Result(key, mime)
        BY <2>7, <4>1 DEF Updated
      <4>3. NumberOf(l, key) = 1
        BY <2>7, <3>2, <3>3, <4>2
      <4>4. ValueOf(new, key) = Result(key, mime)
        BY <2>3, <3>1, <3>5, <4>2, <4>3
      <4>5. NumberOf(new, key) = 1
        BY <2>3, <3>1, <3>5, <4>3
      <4>6. Has(new, key)
        BY <2>3, <4>5, NumberIsNat
      <4> QED
        BY <4>4, <4>6
    <3> QED
      BY <3>4, <3>5
  <2>8. ASSUME mime = NoText, ~Has(list, "url.mime")
        PROVE  /\ ~Has(new, "url.mime")
               /\ Given(updates, n, "url.mime") => Has(new, "removeme")
    <3>1. /\ ~Has(l, "url.mime")
          /\ Given(updates, n - 1, "url.mime") => Has(l, "removeme")
      BY <2>8 DEF Updated
    <3>2. CASE k = "url.mime"
      <4>1. v = NoText
        BY <2>2, <2>8, <3>2 DEF Sizes, Result
      <4> QED
        BY <2>6, <3>1, <3>2, <4>1
    <3>3. CASE k # "url.mime"
      <4>1. NumberOf(l, "url.mime") = 0
        BY <1>1, <3>1, NumberIsNat
      <4>2. NumberOf(new, "url.mime") = NumberOf(l, "url.mime")
        BY <2>3, <3>3
      <4>3. ~Has(new, "url.mime")
        BY <2>3, <4>1, <4>2, NumberIsNat
      <4>4. Given(updates, n, "url.mime") => Given(updates, n - 1, "url.mime")
        BY <1>2, <3>3 DEF k
      <4> QED
        BY <2>6, <3>1, <4>3, <4>4
    <3> QED
      BY <3>2, <3>3
  <2> QED
    BY <2>3, <2>4, <2>5, <2>7, <2>8 DEF Updated
<1> QED
  BY <1>3, <1>4

\* All updates, one after the other.
LEMMA AllUpdates ==
    ASSUME NEW list, IsList(list), InOrder(list), NEW N \in Nat,
           NEW updates, Len(updates) = N, NEW mime \in {Measured, NoText},
           \A n \in 1 .. N : ComesFromTheCheck(updates[n], mime),
           NEW new \in AfterUpdates(list, updates)
    PROVE  Updated(list, new, updates, N, mime)
<1> DEFINE V == {list[i].value : i \in DOMAIN list}
                    \cup {updates[n].value : n \in 1 .. N}
                    \cup {MakePublicationInfoItem(updates[n].keyword, updates[n].value).value
                             : n \in 1 .. N}
           L == Seq(FieldsOver(V))
           D == SUBSET L
           Grown(f) == [n \in 0 .. N |->
                           IF n = 0 THEN {list}
                           ELSE UNION {AfterUpdate(l, updates[n]) : l \in f[n - 1]}]
           from == CHOOSE f : f = Grown(f)
           g == [x \in (1 .. N) \X D |-> UNION {AfterUpdate(l, updates[x[1]]) : l \in x[2]}]
<1>1. list \in L
  <2>1. \A i \in DOMAIN list : list[i].value \in V
    OBVIOUS
  <2> HIDE DEF V
  <2> QED
    BY <2>1, ListOver
<1>2. ASSUME NEW n \in 1 .. N, NEW l \in L
      PROVE  AfterUpdate(l, updates[n]) \subseteq L
  <2> DEFINE k == updates[n].keyword
             v == updates[n].value
  <2>1. v \in V /\ MakePublicationInfoItem(k, v).value \in V
    OBVIOUS
  <2>2. k \in Keywords /\ ValueFits(k, v)
    BY DEF ComesFromTheCheck
  <2> HIDE DEF V
  <2>3. AfterUpdate(l, updates[n]) = {l} \/ AfterUpdate(l, updates[n]) = AddOrUpdateChildNode(l, k, v)
    BY DEF AfterUpdate
  <2> HIDE DEF k, v
  <2>4. AddOrUpdateChildNode(l, k, v) \subseteq Seq(FieldsOver(V))
    BY <2>1, <2>2, AddOrUpdateStays
  <2> QED
    BY <2>3, <2>4
<1> HIDE DEF V, L
<1>3. g \in [(1 .. N) \X D -> D]
  <2>1. ASSUME NEW x \in (1 .. N) \X D
        PROVE  UNION {AfterUpdate(l, updates[x[1]]) : l \in x[2]} \in D
    <3>1. x[1] \in 1 .. N /\ x[2] \in D
      OBVIOUS
    <3> QED
      BY <1>2, <3>1
  <2> QED
    BY <2>1
<1>4. PICK f \in [0 .. N -> D] : Recurs(f, N, {list}, g)
  <2> DEFINE a == {list}
  <2>1. a \in D
    BY <1>1
  <2> HIDE DEF g, D, a
  <2>2. \E f \in [0 .. N -> D] : Recurs(f, N, a, g)
    BY <1>3, <2>1, RecursiveFunctionExists
  <2> QED
    BY <2>2 DEF a
<1>5. f = Grown(f)
  <2>1. ASSUME NEW n \in 0 .. N, n # 0
        PROVE  g[<<n, f[n - 1]>>] = UNION {AfterUpdate(l, updates[n]) : l \in f[n - 1]}
    <3>1. n \in 1 .. N /\ f[n - 1] \in D
      BY <1>4, <2>1
    <3> QED
      BY <3>1
  <2> HIDE DEF g, D
  <2>2. \A n \in 0 .. N : f[n] = IF n = 0 THEN {list}
                                 ELSE UNION {AfterUpdate(l, updates[n]) : l \in f[n - 1]}
    BY <1>4, <2>1 DEF Recurs
  <2> QED
    BY <1>4, <2>2
<1>6. from = Grown(from)
  <2> HIDE DEF Grown
  <2> QED
    BY <1>5
<1>7. new \in from[N]
  BY DEF AfterUpdates
<1> HIDE DEF from, g, D
<1>8. /\ from[0] = {list}
      /\ \A n \in 1 .. N : from[n] = UNION {AfterUpdate(l, updates[n]) : l \in from[n - 1]}
  <2>1. \A n \in 0 .. N : Grown(from)[n] = IF n = 0 THEN {list}
                            ELSE UNION {AfterUpdate(l, updates[n]) : l \in from[n - 1]}
    OBVIOUS
  <2> HIDE DEF Grown
  <2>2. \A n \in 0 .. N : from[n] = IF n = 0 THEN {list}
                            ELSE UNION {AfterUpdate(l, updates[n]) : l \in from[n - 1]}
    BY <1>6, <2>1
  <2>3. 0 \in 0 .. N /\ \A n \in 1 .. N : n \in 0 .. N /\ n # 0
    OBVIOUS
  <2> QED
    BY <2>2, <2>3
<1> HIDE DEF Grown
<1> DEFINE Bad == {n \in 0 .. N : \E l \in from[n] : ~Updated(list, l, updates, n, mime)}
<1>9. Updated(list, list, updates, 0, mime)
  BY DEF Updated, Given
<1>10. Bad = {}
  <2> SUFFICES ASSUME Bad # {} PROVE FALSE
    OBVIOUS
  <2>1. Bad \in SUBSET Nat
    OBVIOUS
  <2>2. PICK n \in Bad : \A k \in Bad : n <= k
    <3> HIDE DEF Bad
    <3> QED
      BY <2>1, LeastOf
  <2>3. n \in 0 .. N
    OBVIOUS
  <2>4. PICK t \in from[n] : ~Updated(list, t, updates, n, mime)
    BY <2>2
  <2>5. n # 0
    BY <1>8, <1>9, <2>4
  <2>6. n \in 1 .. N /\ n - 1 \in 0 .. N /\ n - 1 \notin Bad
    BY <2>2, <2>3, <2>5
  <2>7. PICK l \in from[n - 1] : t \in AfterUpdate(l, updates[n])
    BY <1>8, <2>4, <2>6
  <2>8. Updated(list, l, updates, n - 1, mime)
    BY <2>6, <2>7
  <2>9. n \in Nat \ {0} /\ ComesFromTheCheck(updates[n], mime)
    BY <2>6
  <2> HIDE DEF Bad
  <2> QED
    BY <2>4, <2>7, <2>8, <2>9, OneUpdate
<1> QED
  BY <1>7, <1>10

-----------------------------------------------------------------------------
MeasuredKeywords == {"url.size", "url.mime", "url.md5", "url.checked"}

MeasuredOf(mime) == {[keyword |-> k, value |-> Result(k, mime)] : k \in MeasuredKeywords}

\* Two sequences, one after the other.
LEMMA Joined ==
    ASSUME NEW S, NEW a \in Seq(S), NEW b \in Seq(S)
    PROVE  /\ a \o b \in Seq(S)
           /\ Len(a \o b) = Len(a) + Len(b)
           /\ \A i \in 1 .. Len(a) + Len(b) :
                  (a \o b)[i] = IF i <= Len(a) THEN a[i] ELSE b[i - Len(a)]
OBVIOUS

\* The results of a check are among the fields that it may write.
LEMMA MeasuredComeFromTheCheck ==
    ASSUME NEW list, NEW mime
    PROVE  /\ MeasuredUpdates(list, mime) \in Seq(MeasuredOf(mime))
           /\ \A k \in Sizes :
                  Given(MeasuredUpdates(list, mime), Len(MeasuredUpdates(list, mime)), k)
<1> DEFINE E == MeasuredOf(mime)
           size == [keyword |-> "url.size", value |-> Measured]
           type == [keyword |-> "url.mime", value |-> mime]
           md5 == [keyword |-> "url.md5", value |-> Measured]
           checked == [keyword |-> "url.checked", value |-> Measured]
           m == MeasuredUpdates(list, mime)
<1>1. size \in E /\ type \in E /\ md5 \in E /\ checked \in E
  BY DEF MeasuredOf, Result, MeasuredKeywords
<1>2. \/ m = <<size, type>> \o <<checked>>
      \/ m = <<size, type>> \o <<md5, checked>>
  BY DEF MeasuredUpdates
<1>3. /\ size.keyword = "url.size" /\ type.keyword = "url.mime"
      /\ checked.keyword = "url.checked"
  OBVIOUS
<1> HIDE DEF E, size, type, md5, checked, m
<1>4. /\ m \in Seq(E) /\ m[1] = size /\ m[2] = type /\ m[Len(m)] = checked
      /\ Len(m) \in {3, 4}
  <2> DEFINE a == <<size, type>>
  <2>1. a \in Seq(E) /\ Len(a) = 2 /\ a[1] = size /\ a[2] = type
    BY <1>1
  <2>2. /\ <<checked>> \in Seq(E) /\ Len(<<checked>>) = 1 /\ <<checked>>[1] = checked
        /\ <<md5, checked>> \in Seq(E) /\ Len(<<md5, checked>>) = 2
        /\ <<md5, checked>>[2] = checked
    BY <1>1
  <2>3. PICK b \in Seq(E) : m = a \o b /\ Len(b) \in {1, 2} /\ b[Len(b)] = checked
    <3>1. m = a \o <<checked>> \/ m = a \o <<md5, checked>>
      BY <1>2
    <3> HIDE DEF a
    <3> QED
      BY <2>2, <3>1
  <2> HIDE DEF a
  <2>4. Len(b) \in {1, 2}
    BY <2>3, Zenon
  <2> DEFINE c == a \o b
  <2>5. /\ c \in Seq(E) /\ Len(c) = Len(a) + Len(b)
        /\ \A i \in 1 .. Len(a) + Len(b) : c[i] = IF i <= Len(a) THEN a[i] ELSE b[i - Len(a)]
    <3>1. a \in Seq(E)
      BY <2>1
    <3> QED
      BY <3>1, Joined, Zenon
  <2>6. m = c /\ b[Len(b)] = checked
    BY <2>3
  <2> DEFINE n == Len(b)
  <2> HIDE DEF c, n
  <2>7. /\ 1 \in 1 .. 2 + n /\ 1 <= 2
        /\ 2 \in 1 .. 2 + n /\ 2 <= 2
        /\ 2 + n \in 1 .. 2 + n /\ ~(2 + n <= 2) /\ (2 + n) - 2 = n
        /\ 2 + n \in {3, 4}
    <3>1. n = 1 \/ n = 2
      BY <2>4 DEF n
    <3> QED
      BY <3>1
  <2>8. c[1] = a[1] /\ c[2] = a[2] /\ c[2 + n] = b[n]
    BY <2>1, <2>5, <2>7 DEF n
  <2> QED
    BY <2>1, <2>5, <2>6, <2>7, <2>8 DEF n
<1>5. ASSUME NEW k \in Sizes PROVE Given(m, Len(m), k)
  <2>1. 1 \in 1 .. Len(m) /\ 2 \in 1 .. Len(m) /\ Len(m) \in 1 .. Len(m)
    BY <1>4
  <2>2. k = "url.size" \/ k = "url.mime" \/ k = "url.checked"
    BY DEF Sizes
  <2> QED
    BY <1>3, <1>4, <2>1, <2>2 DEF Given
<1> QED
  BY <1>4, <1>5 DEF E, m

\* A sequence is one over a larger set, too.
LEMMA SequenceOfMore ==
    ASSUME NEW S, NEW T, S \subseteq T, NEW s \in Seq(S)
    PROVE  s \in Seq(T)
<1> DEFINE n == Len(s)
<1>1. n \in Nat /\ s = [i \in 1 .. n |-> s[i]] /\ \A i \in 1 .. n : s[i] \in T
  OBVIOUS
<1> HIDE DEF n
<1>2. [i \in 1 .. n |-> s[i]] \in Seq(T)
  BY <1>1
<1> QED
  BY <1>1, <1>2

\* The same for what pdfinfo has found, and all of it together.
LEMMA UpdatesComeFromTheCheck ==
    ASSUME NEW list, NEW mime, NEW pdf \in PDFInfos \cup {<<>>}
    PROVE  LET updates == pdf \o MeasuredUpdates(list, mime)
           IN  /\ Len(updates) \in Nat
               /\ \A n \in 1 .. Len(updates) : ComesFromTheCheck(updates[n], mime)
               /\ \A k \in Sizes : Given(updates, Len(updates), k)
<1> DEFINE m == MeasuredUpdates(list, mime)
           E == MeasuredOf(mime)
           updates == pdf \o m
<1>1. /\ m \in Seq(E)
      /\ \A k \in Sizes : Given(m, Len(m), k)
  BY MeasuredComeFromTheCheck
<1> HIDE DEF m
<1>2. \A e \in E : ComesFromTheCheck(e, mime)
  <2>1. MeasuredKeywords \subseteq Keywords
    <3>1. /\ KeywordOrder[40] = "url.size" /\ 40 \in DOMAIN KeywordOrder
          /\ KeywordOrder[41] = "url.md5" /\ 41 \in DOMAIN KeywordOrder
          /\ KeywordOrder[42] = "url.mime" /\ 42 \in DOMAIN KeywordOrder
          /\ KeywordOrder[44] = "url.checked" /\ 44 \in DOMAIN KeywordOrder
      BY DEF KeywordOrder
    <3> QED
      BY <3>1 DEF Keywords, Range, MeasuredKeywords
  <2>2. MeasuredKeywords \subseteq FromTheCheck
    BY DEF MeasuredKeywords, FromTheCheck
  <2>3. \A k \in MeasuredKeywords : \A v : ValueFits(k, v)
    BY DEF MeasuredKeywords, ValueFits
  <2>4. \A e \in E : e.keyword \in MeasuredKeywords /\ e.value = Result(e.keyword, mime)
    BY DEF MeasuredOf
  <2> HIDE DEF E
  <2> QED
    BY <2>1, <2>2, <2>3, <2>4 DEF ComesFromTheCheck
<1>3. IsEntry(pdf) /\ \A i \in DOMAIN pdf : pdf[i].keyword \in PDFKeywords
  <2>1. CASE pdf \in PDFInfos
    BY <2>1, PDFInfosAssumption
  <2>2. CASE pdf = <<>>
    BY <2>2 DEF IsEntry
  <2> QED
    BY <2>1, <2>2
<1> DEFINE n == Len(pdf)
           S == Range(pdf) \cup E
<1>4. pdf \in Seq(Range(pdf)) /\ n \in Nat /\ DOMAIN pdf = 1 .. n
  BY <1>3 DEF IsEntry
<1>5. \A i \in 1 .. n : ComesFromTheCheck(pdf[i], mime)
  <2> TAKE i \in 1 .. n
  <2>1. pdf[i].keyword \in Keywords /\ ValueFits(pdf[i].keyword, pdf[i].value)
    BY <1>3, <1>4 DEF IsEntry
  <2>2. pdf[i].keyword \in PDFKeywords
    BY <1>3, <1>4
  <2>3. PDFKeywords \subseteq FromTheCheck /\ PDFKeywords \cap Sizes = {}
    BY DEF PDFKeywords, FromTheCheck, Sizes
  <2> QED
    BY <2>1, <2>2, <2>3 DEF ComesFromTheCheck
<1> HIDE DEF E
<1>6. pdf \in Seq(S) /\ m \in Seq(S)
  <2>1. Range(pdf) \subseteq S /\ E \subseteq S
    OBVIOUS
  <2> HIDE DEF S
  <2> QED
    BY <1>1, <1>4, <2>1, SequenceOfMore
<1>7. Len(m) \in Nat /\ \A i \in 1 .. Len(m) : m[i] \in E
  BY <1>1
<1> HIDE DEF S, n
<1>8. /\ Len(updates) = n + Len(m)
      /\ \A i \in 1 .. n + Len(m) : updates[i] = IF i <= n THEN pdf[i] ELSE m[i - n]
  BY <1>4, <1>6, <1>7 DEF n
<1> HIDE DEF updates
<1>9. \A i \in 1 .. n + Len(m) : ComesFromTheCheck(updates[i], mime)
  <2> TAKE i \in 1 .. n + Len(m)
  <2>1. CASE i <= n
    <3>1. i \in 1 .. n
      BY <1>4, <1>7, <2>1
    <3> QED
      BY <1>5, <1>8, <2>1, <3>1
  <2>2. CASE ~(i <= n)
    <3>1. i - n \in 1 .. Len(m)
      BY <1>4, <1>7, <2>2
    <3> QED
      BY <1>2, <1>7, <1>8, <2>2, <3>1
  <2> QED
    BY <2>1, <2>2
<1>10. ASSUME NEW k \in Sizes PROVE Given(updates, n + Len(m), k)
  <2>1. PICK j \in 1 .. Len(m) : m[j].keyword = k
    BY <1>1 DEF Given
  <2>2. n + j \in 1 .. n + Len(m) /\ ~(n + j <= n) /\ (n + j) - n = j
    BY <1>4, <1>7
  <2>3. updates[n + j] = m[j]
    BY <1>8, <2>2
  <2> QED
    BY <2>1, <2>2, <2>3 DEF Given
<1>11. n + Len(m) \in Nat
  BY <1>4, <1>7
<1> QED
  BY <1>8, <1>9, <1>10, <1>11 DEF updates, m

(***************************************************************************)
(* checkAllURLs() for this publication, as a whole.                        *)
(***************************************************************************)
LEMMA URLIsChecked ==
    ASSUME IsList(fields), InOrder(fields), CheckURL
    PROVE  /\ IsList(fields') /\ InOrder(fields')
           /\ \A f : f.keyword \notin FromTheCheck => Count(fields', f) = Count(fields, f)
           /\ \A k : k # "removeme" =>
                  \/ NumberOf(fields', k) = NumberOf(fields, k)
                  \/ NumberOf(fields, k) = 0 /\ NumberOf(fields', k) = 1
           /\ \A k \in {"url.size", "url.checked"} :
                  NumberOf(fields, k) <= 1 => ValueOf(fields', k) = Measured
           /\ NumberOf(fields, "url.mime") <= 1 => MimeIsFound(fields, fields')
<1>1. PICK mime \in {Measured, NoText}, pdf \in PDFInfos \cup {<<>>} :
          fields' \in AfterUpdates(fields, pdf \o MeasuredUpdates(fields, mime))
  BY DEF CheckURL
<1> DEFINE updates == pdf \o MeasuredUpdates(fields, mime)
           N == Len(updates)
<1>2. /\ N \in Nat
      /\ \A n \in 1 .. N : ComesFromTheCheck(updates[n], mime)
      /\ \A k \in Sizes : Given(updates, N, k)
  BY UpdatesComeFromTheCheck
<1>3. fields' \in AfterUpdates(fields, updates)
  BY <1>1
<1> HIDE DEF updates
<1>4. Updated(fields, fields', updates, N, mime)
  BY <1>2, <1>3, AllUpdates
<1> HIDE DEF N
<1>5. ASSUME NEW k \in {"url.size", "url.checked"}, NumberOf(fields, k) <= 1
      PROVE  ValueOf(fields', k) = Measured
  <2>1. k \in Sizes /\ Result(k, mime) = Measured
    BY DEF Sizes, Result
  <2> QED
    BY <1>2, <1>4, <1>5, <2>1 DEF Updated
<1>6. ASSUME NumberOf(fields, "url.mime") <= 1
      PROVE  MimeIsFound(fields, fields')
  <2>1. "url.mime" \in Sizes /\ Result("url.mime", mime) = mime
    BY DEF Sizes, Result
  <2>2. Given(updates, N, "url.mime")
    BY <1>2, <2>1
  <2>3. CASE mime = Measured \/ Has(fields, "url.mime")
    <3>1. Has(fields', "url.mime") /\ ValueOf(fields', "url.mime") = mime
      BY <1>4, <1>6, <2>1, <2>2, <2>3 DEF Updated
    <3> QED
      BY <2>3, <3>1 DEF MimeIsFound
  <2>4. CASE mime = NoText /\ ~Has(fields, "url.mime")
    <3>1. ~Has(fields', "url.mime") /\ Has(fields', "removeme")
      BY <1>4, <2>2, <2>4 DEF Updated
    <3> QED
      BY <2>4, <3>1 DEF MimeIsFound
  <2> QED
    BY <2>3, <2>4
<1> QED
  BY <1>4, <1>5, <1>6 DEF Updated

-----------------------------------------------------------------------------
(***************************************************************************)
(* The checksums of ISBN and ISSN, and the calendar.                       *)
(***************************************************************************)
(***************************************************************************)
(* The last digit is the right one if the weighted sum of all digits       *)
(* leaves no remainder.                                                    *)
(***************************************************************************)
LEMMA CheckDigit11 ==
    ASSUME NEW s \in Nat, NEW c \in 0 .. 10
    PROVE  c = CheckDigit(s, 11) <=> (s + c) % 11 = 0
BY DEF CheckDigit

\* The same for ISBN-13.
LEMMA CheckDigit10 ==
    ASSUME NEW s \in Nat, NEW c \in 0 .. 9
    PROVE  c = CheckDigit(s, 10) <=> (s + c) % 10 = 0
BY DEF CheckDigit

(***************************************************************************)
(* 11 is a prime: another digit gives another remainder, whatever its      *)
(* weight.  With 10, the weights 1 and 3 do that.                          *)
(***************************************************************************)
LEMMA OtherRemainder11 ==
    ASSUME NEW s \in Int, NEW w \in 1 .. 10, NEW a \in 0 .. 10, NEW b \in 0 .. 10,
           a # b, s % 11 = 0
    PROVE  (s + w * (b - a)) % 11 # 0
<1>1. CASE w = 1 BY <1>1
<1>2. CASE w = 2 BY <1>2
<1>3. CASE w = 3 BY <1>3
<1>4. CASE w = 4 BY <1>4
<1>5. CASE w = 5 BY <1>5
<1>6. CASE w = 6 BY <1>6
<1>7. CASE w = 7 BY <1>7
<1>8. CASE w = 8 BY <1>8
<1>9. CASE w = 9 BY <1>9
<1>10. CASE w = 10 BY <1>10
<1> QED
  BY <1>1, <1>2, <1>3, <1>4, <1>5, <1>6, <1>7, <1>8, <1>9, <1>10

\* The same for ISBN-13 and its two weights.
LEMMA OtherRemainder10 ==
    ASSUME NEW s \in Int, NEW w \in {1, 3}, NEW a \in 0 .. 9, NEW b \in 0 .. 9,
           a # b, s % 10 = 0
    PROVE  (s + w * (b - a)) % 10 # 0
<1>1. CASE w = 1 BY <1>1
<1>2. CASE w = 3 BY <1>2
<1> QED
  BY <1>1, <1>2

-----------------------------------------------------------------------------
(***************************************************************************)
(* What becomes of the sums when one digit is replaced.                    *)
(***************************************************************************)
LEMMA Sum10IsNat ==
    ASSUME NEW n \in [1 .. 10 -> 0 .. 10]
    PROVE  Sum10(n) \in Nat
<1> DEFINE a1 == n[1]
           a2 == n[2]
           a3 == n[3]
           a4 == n[4]
           a5 == n[5]
           a6 == n[6]
           a7 == n[7]
           a8 == n[8]
           a9 == n[9]
<1>1. a1 \in Nat /\ a2 \in Nat /\ a3 \in Nat /\ a4 \in Nat /\ a5 \in Nat
      /\ a6 \in Nat /\ a7 \in Nat /\ a8 \in Nat /\ a9 \in Nat
  OBVIOUS
<1>2. Sum10(n) = 10 * a1 + 9 * a2 + 8 * a3 + 7 * a4 + 6 * a5 + 5 * a6
        + 4 * a7 + 3 * a8 + 2 * a9
  BY DEF Sum10
<1> HIDE DEF a1, a2, a3, a4, a5, a6, a7, a8, a9
<1> QED
  BY <1>1, <1>2

\* Digit i counts 11 - i times in an ISBN-10, the check digit once.
LEMMA Sum10Changes ==
    ASSUME NEW n \in [1 .. 10 -> 0 .. 10], NEW i \in 1 .. 10, NEW d \in 0 .. 10
    PROVE  LET m == [n EXCEPT ![i] = d]
           IN  Sum10(m) + m[10] = Sum10(n) + n[10] + (11 - i) * (d - n[i])
<1> DEFINE a1 == n[1]
           a2 == n[2]
           a3 == n[3]
           a4 == n[4]
           a5 == n[5]
           a6 == n[6]
           a7 == n[7]
           a8 == n[8]
           a9 == n[9]
           a10 == n[10]
           m == [n EXCEPT ![i] = d]
           w == 11 - i
<1> SUFFICES Sum10(m) + m[10] = Sum10(n) + n[10] + w * (d - n[i])
  OBVIOUS
<1>1. a1 \in Int /\ a2 \in Int /\ a3 \in Int /\ a4 \in Int /\ a5 \in Int
      /\ a6 \in Int /\ a7 \in Int /\ a8 \in Int /\ a9 \in Int
      /\ a10 \in Int /\ d \in Int
  OBVIOUS
<1>2. Sum10(n) + n[10] = (10 * a1 + 9 * a2 + 8 * a3 + 7 * a4 + 6 * a5 + 5 * a6
        + 4 * a7 + 3 * a8 + 2 * a9) + a10
  BY DEF Sum10
<1>3. i \in {1, 2, 3, 4, 5, 6, 7, 8, 9, 10}
  OBVIOUS
<1>4. CASE i = 1
  <2>1. Sum10(m) + m[10] = (10 * d + 9 * a2 + 8 * a3 + 7 * a4 + 6 * a5 + 5 * a6
            + 4 * a7 + 3 * a8 + 2 * a9) + a10
    BY <1>1, <1>4 DEF Sum10
  <2>2. w * (d - n[i]) = 10 * d - 10 * a1
    BY <1>1, <1>4
  <2> HIDE DEF m, w, a1, a2, a3, a4, a5, a6, a7, a8, a9, a10
  <2> QED
    BY <1>1, <1>2, <2>1, <2>2
<1>5. CASE i = 2
  <2>1. Sum10(m) + m[10] = (10 * a1 + 9 * d + 8 * a3 + 7 * a4 + 6 * a5 + 5 * a6
            + 4 * a7 + 3 * a8 + 2 * a9) + a10
    BY <1>1, <1>5 DEF Sum10
  <2>2. w * (d - n[i]) = 9 * d - 9 * a2
    BY <1>1, <1>5
  <2> HIDE DEF m, w, a1, a2, a3, a4, a5, a6, a7, a8, a9, a10
  <2> QED
    BY <1>1, <1>2, <2>1, <2>2
<1>6. CASE i = 3
  <2>1. Sum10(m) + m[10] = (10 * a1 + 9 * a2 + 8 * d + 7 * a4 + 6 * a5 + 5 * a6
            + 4 * a7 + 3 * a8 + 2 * a9) + a10
    BY <1>1, <1>6 DEF Sum10
  <2>2. w * (d - n[i]) = 8 * d - 8 * a3
    BY <1>1, <1>6
  <2> HIDE DEF m, w, a1, a2, a3, a4, a5, a6, a7, a8, a9, a10
  <2> QED
    BY <1>1, <1>2, <2>1, <2>2
<1>7. CASE i = 4
  <2>1. Sum10(m) + m[10] = (10 * a1 + 9 * a2 + 8 * a3 + 7 * d + 6 * a5 + 5 * a6
            + 4 * a7 + 3 * a8 + 2 * a9) + a10
    BY <1>1, <1>7 DEF Sum10
  <2>2. w * (d - n[i]) = 7 * d - 7 * a4
    BY <1>1, <1>7
  <2> HIDE DEF m, w, a1, a2, a3, a4, a5, a6, a7, a8, a9, a10
  <2> QED
    BY <1>1, <1>2, <2>1, <2>2
<1>8. CASE i = 5
  <2>1. Sum10(m) + m[10] = (10 * a1 + 9 * a2 + 8 * a3 + 7 * a4 + 6 * d + 5 * a6
            + 4 * a7 + 3 * a8 + 2 * a9) + a10
    BY <1>1, <1>8 DEF Sum10
  <2>2. w * (d - n[i]) = 6 * d - 6 * a5
    BY <1>1, <1>8
  <2> HIDE DEF m, w, a1, a2, a3, a4, a5, a6, a7, a8, a9, a10
  <2> QED
    BY <1>1, <1>2, <2>1, <2>2
<1>9. CASE i = 6
  <2>1. Sum10(m) + m[10] = (10 * a1 + 9 * a2 + 8 * a3 + 7 * a4 + 6 * a5 + 5 * d
            + 4 * a7 + 3 * a8 + 2 * a9) + a10
    BY <1>1, <1>9 DEF Sum10
  <2>2. w * (d - n[i]) = 5 * d - 5 * a6
    BY <1>1, <1>9
  <2> HIDE DEF m, w, a1, a2, a3, a4, a5, a6, a7, a8, a9, a10
  <2> QED
    BY <1>1, <1>2, <2>1, <2>2
<1>10. CASE i = 7
  <2>1. Sum10(m) + m[10] = (10 * a1 + 9 * a2 + 8 * a3 + 7 * a4 + 6 * a5 + 5 * a6
            + 4 * d + 3 * a8 + 2 * a9) + a10
    BY <1>1, <1>10 DEF Sum10
  <2>2. w * (d - n[i]) = 4 * d - 4 * a7
    BY <1>1, <1>10
  <2> HIDE DEF m, w, a1, a2, a3, a4, a5, a6, a7, a8, a9, a10
  <2> QED
    BY <1>1, <1>2, <2>1, <2>2
<1>11. CASE i = 8
  <2>1. Sum10(m) + m[10] = (10 * a1 + 9 * a2 + 8 * a3 + 7 * a4 + 6 * a5 + 5 * a6
            + 4 * a7 + 3 * d + 2 * a9) + a10
    BY <1>1, <1>11 DEF Sum10
  <2>2. w * (d - n[i]) = 3 * d - 3 * a8
    BY <1>1, <1>11
  <2> HIDE DEF m, w, a1, a2, a3, a4, a5, a6, a7, a8, a9, a10
  <2> QED
    BY <1>1, <1>2, <2>1, <2>2
<1>12. CASE i = 9
  <2>1. Sum10(m) + m[10] = (10 * a1 + 9 * a2 + 8 * a3 + 7 * a4 + 6 * a5 + 5 * a6
            + 4 * a7 + 3 * a8 + 2 * d) + a10
    BY <1>1, <1>12 DEF Sum10
  <2>2. w * (d - n[i]) = 2 * d - 2 * a9
    BY <1>1, <1>12
  <2> HIDE DEF m, w, a1, a2, a3, a4, a5, a6, a7, a8, a9, a10
  <2> QED
    BY <1>1, <1>2, <2>1, <2>2
<1>13. CASE i = 10
  <2>1. Sum10(m) + m[10] = (10 * a1 + 9 * a2 + 8 * a3 + 7 * a4 + 6 * a5 + 5 * a6
            + 4 * a7 + 3 * a8 + 2 * a9) + d
    BY <1>1, <1>13 DEF Sum10
  <2>2. w * (d - n[i]) = 1 * d - 1 * a10
    BY <1>1, <1>13
  <2> HIDE DEF m, w, a1, a2, a3, a4, a5, a6, a7, a8, a9, a10
  <2> QED
    BY <1>1, <1>2, <2>1, <2>2
<1> HIDE DEF m, w, a1, a2, a3, a4, a5, a6, a7, a8, a9, a10
<1> QED
  BY <1>3, <1>4, <1>5, <1>6, <1>7, <1>8, <1>9, <1>10, <1>11, <1>12, <1>13

\* The sum of an ISSN is a number.
LEMMA Sum8IsNat ==
    ASSUME NEW n \in [1 .. 8 -> 0 .. 10]
    PROVE  Sum8(n) \in Nat
<1> DEFINE a1 == n[1]
           a2 == n[2]
           a3 == n[3]
           a4 == n[4]
           a5 == n[5]
           a6 == n[6]
           a7 == n[7]
<1>1. a1 \in Nat /\ a2 \in Nat /\ a3 \in Nat /\ a4 \in Nat /\ a5 \in Nat
      /\ a6 \in Nat /\ a7 \in Nat
  OBVIOUS
<1>2. Sum8(n) = 8 * a1 + 7 * a2 + 6 * a3 + 5 * a4 + 4 * a5 + 3 * a6 + 2 * a7
  BY DEF Sum8
<1> HIDE DEF a1, a2, a3, a4, a5, a6, a7
<1> QED
  BY <1>1, <1>2

\* Digit i counts 9 - i times in an ISSN.
LEMMA Sum8Changes ==
    ASSUME NEW n \in [1 .. 8 -> 0 .. 10], NEW i \in 1 .. 8, NEW d \in 0 .. 10
    PROVE  LET m == [n EXCEPT ![i] = d]
           IN  Sum8(m) + m[8] = Sum8(n) + n[8] + (9 - i) * (d - n[i])
<1> DEFINE a1 == n[1]
           a2 == n[2]
           a3 == n[3]
           a4 == n[4]
           a5 == n[5]
           a6 == n[6]
           a7 == n[7]
           a8 == n[8]
           m == [n EXCEPT ![i] = d]
           w == 9 - i
<1> SUFFICES Sum8(m) + m[8] = Sum8(n) + n[8] + w * (d - n[i])
  OBVIOUS
<1>1. a1 \in Int /\ a2 \in Int /\ a3 \in Int /\ a4 \in Int /\ a5 \in Int
      /\ a6 \in Int /\ a7 \in Int /\ a8 \in Int /\ d \in Int
  OBVIOUS
<1>2. Sum8(n) + n[8] = (8 * a1 + 7 * a2 + 6 * a3 + 5 * a4 + 4 * a5 + 3 * a6 + 2 * a7) + a8
  BY DEF Sum8
<1>3. i \in {1, 2, 3, 4, 5, 6, 7, 8}
  OBVIOUS
<1>4. CASE i = 1
  <2>1. Sum8(m) + m[8] = (8 * d + 7 * a2 + 6 * a3 + 5 * a4 + 4 * a5 + 3 * a6
            + 2 * a7) + a8
    BY <1>1, <1>4 DEF Sum8
  <2>2. w * (d - n[i]) = 8 * d - 8 * a1
    BY <1>1, <1>4
  <2> HIDE DEF m, w, a1, a2, a3, a4, a5, a6, a7, a8
  <2> QED
    BY <1>1, <1>2, <2>1, <2>2
<1>5. CASE i = 2
  <2>1. Sum8(m) + m[8] = (8 * a1 + 7 * d + 6 * a3 + 5 * a4 + 4 * a5 + 3 * a6
            + 2 * a7) + a8
    BY <1>1, <1>5 DEF Sum8
  <2>2. w * (d - n[i]) = 7 * d - 7 * a2
    BY <1>1, <1>5
  <2> HIDE DEF m, w, a1, a2, a3, a4, a5, a6, a7, a8
  <2> QED
    BY <1>1, <1>2, <2>1, <2>2
<1>6. CASE i = 3
  <2>1. Sum8(m) + m[8] = (8 * a1 + 7 * a2 + 6 * d + 5 * a4 + 4 * a5 + 3 * a6
            + 2 * a7) + a8
    BY <1>1, <1>6 DEF Sum8
  <2>2. w * (d - n[i]) = 6 * d - 6 * a3
    BY <1>1, <1>6
  <2> HIDE DEF m, w, a1, a2, a3, a4, a5, a6, a7, a8
  <2> QED
    BY <1>1, <1>2, <2>1, <2>2
<1>7. CASE i = 4
  <2>1. Sum8(m) + m[8] = (8 * a1 + 7 * a2 + 6 * a3 + 5 * d + 4 * a5 + 3 * a6
            + 2 * a7) + a8
    BY <1>1, <1>7 DEF Sum8
  <2>2. w * (d - n[i]) = 5 * d - 5 * a4
    BY <1>1, <1>7
  <2> HIDE DEF m, w, a1, a2, a3, a4, a5, a6, a7, a8
  <2> QED
    BY <1>1, <1>2, <2>1, <2>2
<1>8. CASE i = 5
  <2>1. Sum8(m) + m[8] = (8 * a1 + 7 * a2 + 6 * a3 + 5 * a4 + 4 * d + 3 * a6
            + 2 * a7) + a8
    BY <1>1, <1>8 DEF Sum8
  <2>2. w * (d - n[i]) = 4 * d - 4 * a5
    BY <1>1, <1>8
  <2> HIDE DEF m, w, a1, a2, a3, a4, a5, a6, a7, a8
  <2> QED
    BY <1>1, <1>2, <2>1, <2>2
<1>9. CASE i = 6
  <2>1. Sum8(m) + m[8] = (8 * a1 + 7 * a2 + 6 * a3 + 5 * a4 + 4 * a5 + 3 * d
            + 2 * a7) + a8
    BY <1>1, <1>9 DEF Sum8
  <2>2. w * (d - n[i]) = 3 * d - 3 * a6
    BY <1>1, <1>9
  <2> HIDE DEF m, w, a1, a2, a3, a4, a5, a6, a7, a8
  <2> QED
    BY <1>1, <1>2, <2>1, <2>2
<1>10. CASE i = 7
  <2>1. Sum8(m) + m[8] = (8 * a1 + 7 * a2 + 6 * a3 + 5 * a4 + 4 * a5 + 3 * a6
            + 2 * d) + a8
    BY <1>1, <1>10 DEF Sum8
  <2>2. w * (d - n[i]) = 2 * d - 2 * a7
    BY <1>1, <1>10
  <2> HIDE DEF m, w, a1, a2, a3, a4, a5, a6, a7, a8
  <2> QED
    BY <1>1, <1>2, <2>1, <2>2
<1>11. CASE i = 8
  <2>1. Sum8(m) + m[8] = (8 * a1 + 7 * a2 + 6 * a3 + 5 * a4 + 4 * a5 + 3 * a6
            + 2 * a7) + d
    BY <1>1, <1>11 DEF Sum8
  <2>2. w * (d - n[i]) = 1 * d - 1 * a8
    BY <1>1, <1>11
  <2> HIDE DEF m, w, a1, a2, a3, a4, a5, a6, a7, a8
  <2> QED
    BY <1>1, <1>2, <2>1, <2>2
<1> HIDE DEF m, w, a1, a2, a3, a4, a5, a6, a7, a8
<1> QED
  BY <1>3, <1>4, <1>5, <1>6, <1>7, <1>8, <1>9, <1>10, <1>11

\* The sum of an ISBN-13 is a number.
LEMMA Sum13IsNat ==
    ASSUME NEW n \in [1 .. 13 -> 0 .. 9]
    PROVE  Sum13(n) \in Nat
<1> DEFINE a1 == n[1]
           a2 == n[2]
           a3 == n[3]
           a4 == n[4]
           a5 == n[5]
           a6 == n[6]
           a7 == n[7]
           a8 == n[8]
           a9 == n[9]
           a10 == n[10]
           a11 == n[11]
           a12 == n[12]
<1>1. a1 \in Nat /\ a2 \in Nat /\ a3 \in Nat /\ a4 \in Nat /\ a5 \in Nat
      /\ a6 \in Nat /\ a7 \in Nat /\ a8 \in Nat /\ a9 \in Nat
      /\ a10 \in Nat /\ a11 \in Nat /\ a12 \in Nat
  OBVIOUS
<1>2. Sum13(n) = a1 + 3 * a2 + a3 + 3 * a4 + a5 + 3 * a6 + a7 + 3 * a8 + a9
        + 3 * a10 + a11 + 3 * a12
  BY DEF Sum13
<1> HIDE DEF a1, a2, a3, a4, a5, a6, a7, a8, a9, a10, a11, a12
<1> QED
  BY <1>1, <1>2

\* Digits count once and three times by turns in an ISBN-13.
LEMMA Sum13Changes ==
    ASSUME NEW n \in [1 .. 13 -> 0 .. 9], NEW i \in 1 .. 13, NEW d \in 0 .. 9
    PROVE  LET m == [n EXCEPT ![i] = d]
           IN  Sum13(m) + m[13] = Sum13(n) + n[13] + (IF i % 2 = 1 THEN 1 ELSE 3) * (d - n[i])
<1> DEFINE a1 == n[1]
           a2 == n[2]
           a3 == n[3]
           a4 == n[4]
           a5 == n[5]
           a6 == n[6]
           a7 == n[7]
           a8 == n[8]
           a9 == n[9]
           a10 == n[10]
           a11 == n[11]
           a12 == n[12]
           a13 == n[13]
           m == [n EXCEPT ![i] = d]
           w == IF i % 2 = 1 THEN 1 ELSE 3
<1> SUFFICES Sum13(m) + m[13] = Sum13(n) + n[13] + w * (d - n[i])
  OBVIOUS
<1>1. a1 \in Int /\ a2 \in Int /\ a3 \in Int /\ a4 \in Int /\ a5 \in Int
      /\ a6 \in Int /\ a7 \in Int /\ a8 \in Int /\ a9 \in Int
      /\ a10 \in Int /\ a11 \in Int /\ a12 \in Int /\ a13 \in Int
      /\ d \in Int
  OBVIOUS
<1>2. Sum13(n) + n[13] = (a1 + 3 * a2 + a3 + 3 * a4 + a5 + 3 * a6 + a7 + 3 * a8 + a9
        + 3 * a10 + a11 + 3 * a12) + a13
  BY DEF Sum13
<1>3. i \in {1, 2, 3, 4, 5, 6, 7, 8, 9, 10, 11, 12, 13}
  OBVIOUS
<1>4. CASE i = 1
  <2>1. Sum13(m) + m[13] = (d + 3 * a2 + a3 + 3 * a4 + a5 + 3 * a6 + a7 + 3 * a8
            + a9 + 3 * a10 + a11 + 3 * a12) + a13
    BY <1>1, <1>4 DEF Sum13
  <2>2. w * (d - n[i]) = 1 * d - 1 * a1
    BY <1>1, <1>4
  <2> HIDE DEF m, w, a1, a2, a3, a4, a5, a6, a7, a8, a9, a10, a11, a12, a13
  <2> QED
    BY <1>1, <1>2, <2>1, <2>2
<1>5. CASE i = 2
  <2>1. Sum13(m) + m[13] = (a1 + 3 * d + a3 + 3 * a4 + a5 + 3 * a6 + a7 + 3 * a8
            + a9 + 3 * a10 + a11 + 3 * a12) + a13
    BY <1>1, <1>5 DEF Sum13
  <2>2. w * (d - n[i]) = 3 * d - 3 * a2
    BY <1>1, <1>5
  <2> HIDE DEF m, w, a1, a2, a3, a4, a5, a6, a7, a8, a9, a10, a11, a12, a13
  <2> QED
    BY <1>1, <1>2, <2>1, <2>2
<1>6. CASE i = 3
  <2>1. Sum13(m) + m[13] = (a1 + 3 * a2 + d + 3 * a4 + a5 + 3 * a6 + a7 + 3 * a8
            + a9 + 3 * a10 + a11 + 3 * a12) + a13
    BY <1>1, <1>6 DEF Sum13
  <2>2. w * (d - n[i]) = 1 * d - 1 * a3
    BY <1>1, <1>6
  <2> HIDE DEF m, w, a1, a2, a3, a4, a5, a6, a7, a8, a9, a10, a11, a12, a13
  <2> QED
    BY <1>1, <1>2, <2>1, <2>2
<1>7. CASE i = 4
  <2>1. Sum13(m) + m[13] = (a1 + 3 * a2 + a3 + 3 * d + a5 + 3 * a6 + a7 + 3 * a8
            + a9 + 3 * a10 + a11 + 3 * a12) + a13
    BY <1>1, <1>7 DEF Sum13
  <2>2. w * (d - n[i]) = 3 * d - 3 * a4
    BY <1>1, <1>7
  <2> HIDE DEF m, w, a1, a2, a3, a4, a5, a6, a7, a8, a9, a10, a11, a12, a13
  <2> QED
    BY <1>1, <1>2, <2>1, <2>2
<1>8. CASE i = 5
  <2>1. Sum13(m) + m[13] = (a1 + 3 * a2 + a3 + 3 * a4 + d + 3 * a6 + a7 + 3 * a8
            + a9 + 3 * a10 + a11 + 3 * a12) + a13
    BY <1>1, <1>8 DEF Sum13
  <2>2. w * (d - n[i]) = 1 * d - 1 * a5
    BY <1>1, <1>8
  <2> HIDE DEF m, w, a1, a2, a3, a4, a5, a6, a7, a8, a9, a10, a11, a12, a13
  <2> QED
    BY <1>1, <1>2, <2>1, <2>2
<1>9. CASE i = 6
  <2>1. Sum13(m) + m[13] = (a1 + 3 * a2 + a3 + 3 * a4 + a5 + 3 * d + a7 + 3 * a8
            + a9 + 3 * a10 + a11 + 3 * a12) + a13
    BY <1>1, <1>9 DEF Sum13
  <2>2. w * (d - n[i]) = 3 * d - 3 * a6
    BY <1>1, <1>9
  <2> HIDE DEF m, w, a1, a2, a3, a4, a5, a6, a7, a8, a9, a10, a11, a12, a13
  <2> QED
    BY <1>1, <1>2, <2>1, <2>2
<1>10. CASE i = 7
  <2>1. Sum13(m) + m[13] = (a1 + 3 * a2 + a3 + 3 * a4 + a5 + 3 * a6 + d + 3 * a8
            + a9 + 3 * a10 + a11 + 3 * a12) + a13
    BY <1>1, <1>10 DEF Sum13
  <2>2. w * (d - n[i]) = 1 * d - 1 * a7
    BY <1>1, <1>10
  <2> HIDE DEF m, w, a1, a2, a3, a4, a5, a6, a7, a8, a9, a10, a11, a12, a13
  <2> QED
    BY <1>1, <1>2, <2>1, <2>2
<1>11. CASE i = 8
  <2>1. Sum13(m) + m[13] = (a1 + 3 * a2 + a3 + 3 * a4 + a5 + 3 * a6 + a7 + 3 * d
            + a9 + 3 * a10 + a11 + 3 * a12) + a13
    BY <1>1, <1>11 DEF Sum13
  <2>2. w * (d - n[i]) = 3 * d - 3 * a8
    BY <1>1, <1>11
  <2> HIDE DEF m, w, a1, a2, a3, a4, a5, a6, a7, a8, a9, a10, a11, a12, a13
  <2> QED
    BY <1>1, <1>2, <2>1, <2>2
<1>12. CASE i = 9
  <2>1. Sum13(m) + m[13] = (a1 + 3 * a2 + a3 + 3 * a4 + a5 + 3 * a6 + a7 + 3 * a8
            + d + 3 * a10 + a11 + 3 * a12) + a13
    BY <1>1, <1>12 DEF Sum13
  <2>2. w * (d - n[i]) = 1 * d - 1 * a9
    BY <1>1, <1>12
  <2> HIDE DEF m, w, a1, a2, a3, a4, a5, a6, a7, a8, a9, a10, a11, a12, a13
  <2> QED
    BY <1>1, <1>2, <2>1, <2>2
<1>13. CASE i = 10
  <2>1. Sum13(m) + m[13] = (a1 + 3 * a2 + a3 + 3 * a4 + a5 + 3 * a6 + a7 + 3 * a8
            + a9 + 3 * d + a11 + 3 * a12) + a13
    BY <1>1, <1>13 DEF Sum13
  <2>2. w * (d - n[i]) = 3 * d - 3 * a10
    BY <1>1, <1>13
  <2> HIDE DEF m, w, a1, a2, a3, a4, a5, a6, a7, a8, a9, a10, a11, a12, a13
  <2> QED
    BY <1>1, <1>2, <2>1, <2>2
<1>14. CASE i = 11
  <2>1. Sum13(m) + m[13] = (a1 + 3 * a2 + a3 + 3 * a4 + a5 + 3 * a6 + a7 + 3 * a8
            + a9 + 3 * a10 + d + 3 * a12) + a13
    BY <1>1, <1>14 DEF Sum13
  <2>2. w * (d - n[i]) = 1 * d - 1 * a11
    BY <1>1, <1>14
  <2> HIDE DEF m, w, a1, a2, a3, a4, a5, a6, a7, a8, a9, a10, a11, a12, a13
  <2> QED
    BY <1>1, <1>2, <2>1, <2>2
<1>15. CASE i = 12
  <2>1. Sum13(m) + m[13] = (a1 + 3 * a2 + a3 + 3 * a4 + a5 + 3 * a6 + a7 + 3 * a8
            + a9 + 3 * a10 + a11 + 3 * d) + a13
    BY <1>1, <1>15 DEF Sum13
  <2>2. w * (d - n[i]) = 3 * d - 3 * a12
    BY <1>1, <1>15
  <2> HIDE DEF m, w, a1, a2, a3, a4, a5, a6, a7, a8, a9, a10, a11, a12, a13
  <2> QED
    BY <1>1, <1>2, <2>1, <2>2
<1>16. CASE i = 13
  <2>1. Sum13(m) + m[13] = (a1 + 3 * a2 + a3 + 3 * a4 + a5 + 3 * a6 + a7 + 3 * a8
            + a9 + 3 * a10 + a11 + 3 * a12) + d
    BY <1>1, <1>16 DEF Sum13
  <2>2. w * (d - n[i]) = 1 * d - 1 * a13
    BY <1>1, <1>16
  <2> HIDE DEF m, w, a1, a2, a3, a4, a5, a6, a7, a8, a9, a10, a11, a12, a13
  <2> QED
    BY <1>1, <1>2, <2>1, <2>2
<1> HIDE DEF m, w, a1, a2, a3, a4, a5, a6, a7, a8, a9, a10, a11, a12, a13
<1> QED
  BY <1>3, <1>4, <1>5, <1>6, <1>7, <1>8, <1>9, <1>10, <1>11, <1>12, <1>13, <1>14, <1>15, <1>16

-----------------------------------------------------------------------------
(***************************************************************************)
(* A wrong digit never goes unnoticed: of two ISBN-10 that differ in one   *)
(* place, at most one passes the check (unifyISBN()).                      *)
(***************************************************************************)
THEOREM ISBN10FindsWrongDigit ==
    ASSUME NEW n \in [1 .. 10 -> 0 .. 10], NEW i \in 1 .. 10, NEW d \in 0 .. 10,
           d # n[i], n[10] = CheckDigit(Sum10(n), 11)
    PROVE  LET m == [n EXCEPT ![i] = d] IN m[10] # CheckDigit(Sum10(m), 11)
<1> DEFINE m == [n EXCEPT ![i] = d]
           w == 11 - i
           s == Sum10(n) + n[10]
           a == n[i]
<1> SUFFICES m[10] # CheckDigit(Sum10(m), 11)
  OBVIOUS
<1>1. m \in [1 .. 10 -> 0 .. 10] /\ w \in 1 .. 10 /\ a \in 0 .. 10 /\ a # d
  OBVIOUS
<1>2. n[10] \in 0 .. 10 /\ Sum10(n) \in Nat
  BY Sum10IsNat
<1>3. Sum10(m) + m[10] = s + w * (d - a)
  BY Sum10Changes
<1> HIDE DEF m, w, a
<1>4. m[10] \in 0 .. 10 /\ Sum10(m) \in Nat
  BY <1>1, Sum10IsNat
<1>5. s % 11 = 0 /\ s \in Int
  BY <1>2, CheckDigit11
<1> HIDE DEF s
<1>6. (s + w * (d - a)) % 11 # 0
  BY <1>1, <1>5, OtherRemainder11
<1> QED
  BY <1>3, <1>4, <1>6, CheckDigit11

(***************************************************************************)
(* The same for ISSNs (unifyISSN()).                                       *)
(***************************************************************************)
THEOREM ISSNFindsWrongDigit ==
    ASSUME NEW n \in [1 .. 8 -> 0 .. 10], NEW i \in 1 .. 8, NEW d \in 0 .. 10,
           d # n[i], n[8] = CheckDigit(Sum8(n), 11)
    PROVE  LET m == [n EXCEPT ![i] = d] IN m[8] # CheckDigit(Sum8(m), 11)
<1> DEFINE m == [n EXCEPT ![i] = d]
           w == 9 - i
           s == Sum8(n) + n[8]
           a == n[i]
<1> SUFFICES m[8] # CheckDigit(Sum8(m), 11)
  OBVIOUS
<1>1. m \in [1 .. 8 -> 0 .. 10] /\ w \in 1 .. 10 /\ a \in 0 .. 10 /\ a # d
  OBVIOUS
<1>2. n[8] \in 0 .. 10 /\ Sum8(n) \in Nat
  BY Sum8IsNat
<1>3. Sum8(m) + m[8] = s + w * (d - a)
  BY Sum8Changes
<1> HIDE DEF m, w, a
<1>4. m[8] \in 0 .. 10 /\ Sum8(m) \in Nat
  BY <1>1, Sum8IsNat
<1>5. s % 11 = 0 /\ s \in Int
  BY <1>2, CheckDigit11
<1> HIDE DEF s
<1>6. (s + w * (d - a)) % 11 # 0
  BY <1>1, <1>5, OtherRemainder11
<1> QED
  BY <1>3, <1>4, <1>6, CheckDigit11

(***************************************************************************)
(* The same for ISBN-13, whose weights are 1 and 3 (unifyISBN()).          *)
(***************************************************************************)
THEOREM ISBN13FindsWrongDigit ==
    ASSUME NEW n \in [1 .. 13 -> 0 .. 9], NEW i \in 1 .. 13, NEW d \in 0 .. 9,
           d # n[i], n[13] = CheckDigit(Sum13(n), 10)
    PROVE  LET m == [n EXCEPT ![i] = d] IN m[13] # CheckDigit(Sum13(m), 10)
<1> DEFINE m == [n EXCEPT ![i] = d]
           w == IF i % 2 = 1 THEN 1 ELSE 3
           s == Sum13(n) + n[13]
           a == n[i]
<1> SUFFICES m[13] # CheckDigit(Sum13(m), 10)
  OBVIOUS
<1>1. m \in [1 .. 13 -> 0 .. 9] /\ w \in {1, 3} /\ a \in 0 .. 9 /\ a # d
  OBVIOUS
<1>2. n[13] \in 0 .. 9 /\ Sum13(n) \in Nat
  BY Sum13IsNat
<1>3. Sum13(m) + m[13] = s + w * (d - a)
  BY Sum13Changes
<1> HIDE DEF m, w, a
<1>4. m[13] \in 0 .. 9 /\ Sum13(m) \in Nat
  BY <1>1, Sum13IsNat
<1>5. s % 10 = 0 /\ s \in Int
  BY <1>2, CheckDigit10
<1> HIDE DEF s
<1>6. (s + w * (d - a)) % 10 # 0
  BY <1>1, <1>5, OtherRemainder10
<1> QED
  BY <1>3, <1>4, <1>6, CheckDigit10

(***************************************************************************)
(* Two digits that change places never go unnoticed in an ISBN-10.         *)
(***************************************************************************)
THEOREM ISBN10FindsSwap ==
    ASSUME NEW n \in [1 .. 10 -> 0 .. 10], NEW i \in 1 .. 10, NEW j \in 1 .. 10,
           i < j, n[i] # n[j], n[10] = CheckDigit(Sum10(n), 11)
    PROVE  LET m == [n EXCEPT ![i] = n[j], ![j] = n[i]] IN m[10] # CheckDigit(Sum10(m), 11)
<1> DEFINE k == [n EXCEPT ![i] = n[j]]
           m == [k EXCEPT ![j] = n[i]]
           s == Sum10(n) + n[10]
           a == n[i]
           b == n[j]
<1>1. k \in [1 .. 10 -> 0 .. 10] /\ m \in [1 .. 10 -> 0 .. 10]
  OBVIOUS
<1>2. a \in 0 .. 10 /\ b \in 0 .. 10 /\ a # b /\ k[j] = b
  OBVIOUS
<1>3. n[10] \in 0 .. 10 /\ Sum10(n) \in Nat
  BY Sum10IsNat
<1>4. Sum10(k) + k[10] = s + (11 - i) * (b - a)
  BY Sum10Changes
<1>5. Sum10(m) + m[10] = Sum10(k) + k[10] + (11 - j) * (a - b)
  <2> HIDE DEF k
  <2>1. Sum10(m) + m[10] = Sum10(k) + k[10] + (11 - j) * (a - k[j])
    BY <1>1, <1>2, Sum10Changes
  <2> QED
    BY <1>2, <2>1
<1>6. m = [n EXCEPT ![i] = n[j], ![j] = n[i]]
  OBVIOUS
<1> HIDE DEF m, k, a, b
<1>7. m[10] \in 0 .. 10 /\ Sum10(m) \in Nat
  BY <1>1, Sum10IsNat
<1>8. s % 11 = 0 /\ s \in Int
  BY <1>3, CheckDigit11
<1> HIDE DEF s
<1>9. (s + (j - i) * (b - a)) % 11 # 0
  <2>1. j - i \in 1 .. 10
    OBVIOUS
  <2> QED
    BY <1>2, <1>8, <2>1, OtherRemainder11
<1>10. s + (11 - i) * (b - a) + (11 - j) * (a - b) = s + (j - i) * (b - a)
  <2>1. (11 - i) * (b - a) + (11 - j) * (a - b) = (j - i) * (b - a)
    BY <1>2
  <2> QED
    BY <1>2, <1>8, <2>1
<1>11. Sum10(m) + m[10] = s + (j - i) * (b - a)
  BY <1>4, <1>5, <1>10
<1>12. m[10] # CheckDigit(Sum10(m), 11)
  BY <1>7, <1>9, <1>11, CheckDigit11
<1> QED
  BY <1>6, <1>12

(***************************************************************************)
(* The same for ISSNs.                                                     *)
(***************************************************************************)
THEOREM ISSNFindsSwap ==
    ASSUME NEW n \in [1 .. 8 -> 0 .. 10], NEW i \in 1 .. 8, NEW j \in 1 .. 8,
           i < j, n[i] # n[j], n[8] = CheckDigit(Sum8(n), 11)
    PROVE  LET m == [n EXCEPT ![i] = n[j], ![j] = n[i]] IN m[8] # CheckDigit(Sum8(m), 11)
<1> DEFINE k == [n EXCEPT ![i] = n[j]]
           m == [k EXCEPT ![j] = n[i]]
           s == Sum8(n) + n[8]
           a == n[i]
           b == n[j]
<1>1. k \in [1 .. 8 -> 0 .. 10] /\ m \in [1 .. 8 -> 0 .. 10]
  OBVIOUS
<1>2. a \in 0 .. 10 /\ b \in 0 .. 10 /\ a # b /\ k[j] = b
  OBVIOUS
<1>3. n[8] \in 0 .. 10 /\ Sum8(n) \in Nat
  BY Sum8IsNat
<1>4. Sum8(k) + k[8] = s + (9 - i) * (b - a)
  BY Sum8Changes
<1>5. Sum8(m) + m[8] = Sum8(k) + k[8] + (9 - j) * (a - b)
  <2> HIDE DEF k
  <2>1. Sum8(m) + m[8] = Sum8(k) + k[8] + (9 - j) * (a - k[j])
    BY <1>1, <1>2, Sum8Changes
  <2> QED
    BY <1>2, <2>1
<1>6. m = [n EXCEPT ![i] = n[j], ![j] = n[i]]
  OBVIOUS
<1> HIDE DEF m, k, a, b
<1>7. m[8] \in 0 .. 10 /\ Sum8(m) \in Nat
  BY <1>1, Sum8IsNat
<1>8. s % 11 = 0 /\ s \in Int
  BY <1>3, CheckDigit11
<1> HIDE DEF s
<1>9. (s + (j - i) * (b - a)) % 11 # 0
  <2>1. j - i \in 1 .. 10
    OBVIOUS
  <2> QED
    BY <1>2, <1>8, <2>1, OtherRemainder11
<1>10. s + (9 - i) * (b - a) + (9 - j) * (a - b) = s + (j - i) * (b - a)
  <2>1. (9 - i) * (b - a) + (9 - j) * (a - b) = (j - i) * (b - a)
    BY <1>2
  <2> QED
    BY <1>2, <1>8, <2>1
<1>11. Sum8(m) + m[8] = s + (j - i) * (b - a)
  BY <1>4, <1>5, <1>10
<1>12. m[8] # CheckDigit(Sum8(m), 11)
  BY <1>7, <1>9, <1>11, CheckDigit11
<1> QED
  BY <1>6, <1>12

-----------------------------------------------------------------------------
(***************************************************************************)
(* In every year, the code warns of the days that the calendar does not    *)
(* have, and of the 31st of July (unifyDate()).                            *)
(***************************************************************************)
THEOREM DaysJudged ==
    ASSUME NEW y \in Int, NEW m \in 0 .. 12, NEW d \in Int
    PROVE  ~DayIsAccepted(y, m, d)
               <=> (m = 0 \/ d \notin 1 .. DaysOfMonth(y, m) \/ (m = 7 /\ d = 31))
<1>1. LeapYear(y) <=> y % 4 = 0 /\ (y % 25 = 0 => y % 16 = 0)
  BY DEF LeapYear
<1>2. CASE m = 0
  BY <1>1, <1>2 DEF DayIsAccepted, MaxDays, DaysOfMonth
<1>3. CASE m = 1
  BY <1>1, <1>3 DEF DayIsAccepted, MaxDays, DaysOfMonth
<1>4. CASE m = 2
  BY <1>1, <1>4 DEF DayIsAccepted, MaxDays, DaysOfMonth
<1>5. CASE m = 3
  BY <1>1, <1>5 DEF DayIsAccepted, MaxDays, DaysOfMonth
<1>6. CASE m = 4
  BY <1>1, <1>6 DEF DayIsAccepted, MaxDays, DaysOfMonth
<1>7. CASE m = 5
  BY <1>1, <1>7 DEF DayIsAccepted, MaxDays, DaysOfMonth
<1>8. CASE m = 6
  BY <1>1, <1>8 DEF DayIsAccepted, MaxDays, DaysOfMonth
<1>9. CASE m = 7
  BY <1>1, <1>9 DEF DayIsAccepted, MaxDays, DaysOfMonth
<1>10. CASE m = 8
  BY <1>1, <1>10 DEF DayIsAccepted, MaxDays, DaysOfMonth
<1>11. CASE m = 9
  BY <1>1, <1>11 DEF DayIsAccepted, MaxDays, DaysOfMonth
<1>12. CASE m = 10
  BY <1>1, <1>12 DEF DayIsAccepted, MaxDays, DaysOfMonth
<1>13. CASE m = 11
  BY <1>1, <1>13 DEF DayIsAccepted, MaxDays, DaysOfMonth
<1>14. CASE m = 12
  BY <1>1, <1>14 DEF DayIsAccepted, MaxDays, DaysOfMonth
<1> QED
  BY <1>2, <1>3, <1>4, <1>5, <1>6, <1>7, <1>8, <1>9, <1>10, <1>11, <1>12, <1>13, <1>14

-----------------------------------------------------------------------------
(***************************************************************************)
(* How the digits of an ISBN or ISSN are taken from its text.              *)
(***************************************************************************)
Characters == Digits \cup {X, Hyphen, AByte, Other}

(***************************************************************************)
(* The function that PureNumber is defined with, and how it unfolds.       *)
(***************************************************************************)
Pure(text, i, next, over) ==
    IF i > Len(text) THEN <<>>
    ELSE CASE text[i] = AByte /\ i < Len(text) -> over
           [] \/ text[i] \in Digits
              \/ text[i] = X /\ i = Len(text)  -> <<text[i]>> \o next
           [] text[i] = Hyphen                 -> next
           [] OTHER                            -> <<Other>>

Grow(text, f) == [i \in 1 .. Len(text) + 2 |-> Pure(text, i, f[i + 1], f[i + 2])]

From(text) == CHOOSE f : f = Grow(text, f)

\* PureNumber is the first value of that function.
LEMMA PureNumberIsFrom ==
    ASSUME NEW text
    PROVE  PureNumber(text) = From(text)[1]
BY DEF PureNumber, From, Grow, Pure

\* What it gives is a text.
LEMMA PureIsText ==
    ASSUME NEW text \in Seq(Characters), NEW i \in Nat \ {0},
           NEW next \in Seq(Characters), NEW over \in Seq(Characters)
    PROVE  Pure(text, i, next, over) \in Seq(Characters)
<1>1. Len(text) \in Nat
  OBVIOUS
<1>2. CASE i > Len(text)
  BY <1>2 DEF Pure
<1>3. CASE ~(i > Len(text))
  <2>1. text[i] \in Characters /\ Other \in Characters
    <3>1. i \in 1 .. Len(text)
      BY <1>1, <1>3
    <3> QED
      BY <3>1 DEF Characters
  <2>2. <<text[i]>> \o next \in Seq(Characters) /\ <<Other>> \in Seq(Characters)
    BY <2>1
  <2> QED
    BY <1>3, <2>2 DEF Pure
<1> QED
  BY <1>2, <1>3

\* The function exists, and is as it is defined.
LEMMA FromUnfolds ==
    ASSUME NEW text \in Seq(Characters), NEW i \in 1 .. Len(text) + 2
    PROVE  From(text)[i] = Pure(text, i, From(text)[i + 1], From(text)[i + 2])
<1> DEFINE L == Len(text)
           D == Seq(Characters) \X Seq(Characters)
           N == L + 1
           g == [x \in (1 .. N) \X D |->
                    <<Pure(text, L + 2 - x[1], x[2][1], x[2][2]), x[2][1]>>]
           a == <<<<>>, <<>>>>
<1>1. L \in Nat /\ N \in Nat
  OBVIOUS
<1>2. a \in D
  <2>1. <<>> \in Seq(Characters)
    OBVIOUS
  <2> QED
    BY <2>1
<1>3. g \in [(1 .. N) \X D -> D]
  <2>1. ASSUME NEW x \in (1 .. N) \X D
        PROVE  <<Pure(text, L + 2 - x[1], x[2][1], x[2][2]), x[2][1]>> \in D
    <3>1. x[1] \in 1 .. N /\ x[2][1] \in Seq(Characters) /\ x[2][2] \in Seq(Characters)
      OBVIOUS
    <3>2. L + 2 - x[1] \in Nat \ {0}
      BY <1>1, <3>1
    <3> HIDE DEF L, N
    <3>3. Pure(text, L + 2 - x[1], x[2][1], x[2][2]) \in Seq(Characters)
      BY <3>1, <3>2, PureIsText
    <3> QED
      BY <3>1, <3>3
  <2> QED
    BY <2>1
<1>4. PICK h \in [0 .. N -> D] : Recurs(h, N, a, g)
  <2> HIDE DEF g, D, a, N
  <2> QED
    BY <1>1, <1>2, <1>3, RecursiveFunctionExists
<1> DEFINE f == [j \in 1 .. L + 2 |-> h[L + 2 - j][1]]
<1>5. \A k \in 1 .. N : /\ h[k - 1] \in D
                        /\ h[k] = <<Pure(text, L + 2 - k, h[k - 1][1], h[k - 1][2]), h[k - 1][1]>>
  <2> TAKE k \in 1 .. N
  <2>1. k \in 0 .. N /\ k # 0 /\ k - 1 \in 0 .. N
    BY <1>1
  <2>2. h[k - 1] \in D
    BY <1>4, <2>1
  <2>3. h[k] = g[<<k, h[k - 1]>>]
    BY <1>4, <2>1 DEF Recurs
  <2>4. <<k, h[k - 1]>> \in (1 .. N) \X D
    BY <2>2
  <2> HIDE DEF D, N
  <2> QED
    BY <2>2, <2>3, <2>4
<1>6. h[0] = a
  <2>1. 0 \in 0 .. N
    BY <1>1
  <2>2. \A n \in 0 .. N : h[n] = IF n = 0 THEN a ELSE g[<<n, h[n - 1]>>]
    BY <1>4 DEF Recurs
  <2> HIDE DEF N, g, D, a
  <2> QED
    BY <2>1, <2>2
<1> HIDE DEF g, D
<1>7. ASSUME NEW j \in 1 .. L + 2
      PROVE  f[j] = Pure(text, j, f[j + 1], f[j + 2])
  <2>1. CASE j = L + 2
    <3>1. L + 2 - j = 0 /\ j > Len(text)
      BY <1>1, <2>1
    <3>2. f[j] = h[L + 2 - j][1]
      OBVIOUS
    <3>3. h[0][1] = <<>>
      BY <1>6
    <3> HIDE DEF f
    <3>4. f[j] = <<>>
      BY <3>1, <3>2, <3>3
    <3> HIDE DEF L
    <3> QED
      BY <3>1, <3>4 DEF Pure
  <2>2. CASE j = L + 1
    <3>1. L + 2 - j = 1 /\ 1 \in 1 .. N /\ L + 2 - 1 > Len(text) /\ j > Len(text) /\ j \in 1 .. L + 2
      BY <1>1, <2>2
    <3>2. h[1][1] = Pure(text, L + 2 - 1, h[1 - 1][1], h[1 - 1][2])
      BY <1>5, <3>1
    <3>3. h[1][1] = <<>>
      BY <3>1, <3>2 DEF Pure
    <3>4. f[j] = <<>>
      BY <3>1, <3>3
    <3> HIDE DEF f, L, N
    <3> QED
      BY <3>1, <3>4 DEF Pure
  <2>3. CASE j < L + 1
    <3> DEFINE k == L + 2 - j
    <3>1. /\ k \in 1 .. N /\ k - 1 \in 1 .. N
          /\ L + 2 - k = j /\ L + 2 - (j + 1) = k - 1 /\ L + 2 - (j + 2) = (k - 1) - 1
          /\ j \in 1 .. L + 2 /\ j + 1 \in 1 .. L + 2 /\ j + 2 \in 1 .. L + 2
      BY <1>1, <2>3
    <3>2. f[j] = h[k][1] /\ f[j + 1] = h[k - 1][1] /\ f[j + 2] = h[(k - 1) - 1][1]
      BY <3>1
    <3> HIDE DEF f, N, L, k
    <3>3. h[k] = <<Pure(text, j, h[k - 1][1], h[k - 1][2]), h[k - 1][1]>>
      BY <1>5, <3>1
    <3>4. h[k - 1] = <<Pure(text, L + 2 - (k - 1), h[(k - 1) - 1][1], h[(k - 1) - 1][2]), h[(k - 1) - 1][1]>>
      BY <1>5, <3>1
    <3>5. h[k - 1][2] = h[(k - 1) - 1][1]
      BY <3>4
    <3> QED
      BY <3>2, <3>3, <3>5
  <2>4. j = L + 2 \/ j = L + 1 \/ j < L + 1
    BY <1>1
  <2> QED
    BY <2>1, <2>2, <2>3, <2>4
<1>8. f = Grow(text, f)
  <2>1. f = [j \in 1 .. L + 2 |-> f[j]]
    OBVIOUS
  <2> HIDE DEF f
  <2>2. f = [j \in 1 .. L + 2 |-> Pure(text, j, f[j + 1], f[j + 2])]
    BY <1>7, <2>1
  <2> QED
    BY <2>2 DEF Grow
<1>9. From(text) = Grow(text, From(text))
  <2>1. \E x : x = Grow(text, x)
    BY <1>8
  <2> QED
    BY <2>1 DEF From
<1> DEFINE F == From(text)
<1> HIDE DEF F
<1>10. Grow(text, F)[i] = Pure(text, i, F[i + 1], F[i + 2])
  BY DEF Grow
<1> QED
  BY <1>9, <1>10 DEF F

-----------------------------------------------------------------------------
(***************************************************************************)
(* Texts of characters of one byte                                         *)
(***************************************************************************)
Plain == Digits \cup {X, Hyphen, Other}

IsRead(text, i) == text[i] \in Digits \/ (text[i] = X /\ i = Len(text))

\* Character by character.
LEMMA PlainUnfolds ==
    ASSUME NEW text \in Seq(Plain)
    PROVE  /\ From(text)[Len(text) + 1] = <<>>
           /\ \A i \in 1 .. Len(text) :
                 From(text)[i] = IF IsRead(text, i) THEN <<text[i]>> \o From(text)[i + 1]
                                 ELSE IF text[i] = Hyphen THEN From(text)[i + 1]
                                 ELSE <<Other>>
<1>1. text \in Seq(Characters) /\ Len(text) \in Nat /\ \A i \in 1 .. Len(text) : text[i] \in Plain
  <2> DEFINE n == Len(text)
  <2>1. n \in Nat /\ text = [i \in 1 .. n |-> text[i]] /\ \A i \in 1 .. n : text[i] \in Plain
    OBVIOUS
  <2>2. \A i \in 1 .. n : text[i] \in Characters
    BY <2>1 DEF Plain, Characters
  <2> HIDE DEF n
  <2>3. [i \in 1 .. n |-> text[i]] \in Seq(Characters)
    BY <2>1, <2>2
  <2> QED
    BY <2>1, <2>3 DEF n
<1>2. From(text)[Len(text) + 1] = <<>>
  <2>1. Len(text) + 1 \in 1 .. Len(text) + 2 /\ Len(text) + 1 > Len(text)
    BY <1>1
  <2> QED
    BY <1>1, <2>1, FromUnfolds DEF Pure
<1>3. ASSUME NEW i \in 1 .. Len(text)
      PROVE  From(text)[i] = IF IsRead(text, i) THEN <<text[i]>> \o From(text)[i + 1]
                             ELSE IF text[i] = Hyphen THEN From(text)[i + 1]
                             ELSE <<Other>>
  <2>1. i \in 1 .. Len(text) + 2 /\ ~(i > Len(text))
    BY <1>1
  <2>2. From(text)[i] = Pure(text, i, From(text)[i + 1], From(text)[i + 2])
    BY <1>1, <2>1, FromUnfolds
  <2>3. text[i] \in Plain
    BY <1>1
  <2>4. text[i] # AByte
    BY <2>3 DEF Plain, AByte, Digits, X, Hyphen, Other
  <2>5. text[i] = Hyphen => ~IsRead(text, i)
    BY DEF IsRead, Hyphen, Digits, X
  <2> QED
    BY <2>1, <2>2, <2>4, <2>5 DEF Pure, IsRead
<1> QED
  BY <1>2, <1>3

(***************************************************************************)
(* A hyphen that is taken away, but for one at the end, changes nothing.   *)
(***************************************************************************)
LEMMA WithoutHyphen ==
    ASSUME NEW text \in Seq(Plain), NEW h \in 1 .. Len(text) - 1, text[h] = Hyphen
    PROVE  PureNumber(RemoveAt(text, h)) = PureNumber(text)
<1> DEFINE L == Len(text)
           t == RemoveAt(text, h)
           a == SubSeq(text, 1, h - 1)
           b == SubSeq(text, h + 1, L)
<1>1. L \in Nat /\ h \in Nat /\ h < L /\ h > 0 /\ \A i \in 1 .. L : text[i] \in Plain
  OBVIOUS
<1>2. a \in Seq(Plain) /\ Len(a) = h - 1 /\ \A m \in 1 .. h - 1 : a[m] = text[m]
  BY <1>1
<1>3. b \in Seq(Plain) /\ Len(b) = L - h /\ \A m \in 1 .. L - h : b[m] = text[m + h]
  BY <1>1
<1>4. t = a \o b
  BY DEF RemoveAt
<1> HIDE DEF a, b, t, L
<1>5. /\ t \in Seq(Plain) /\ Len(t) = L - 1
      /\ \A m \in 1 .. L - 1 : t[m] = IF m <= h - 1 THEN a[m] ELSE b[m - (h - 1)]
  <2>1. t \in Seq(Plain) /\ Len(t) = (h - 1) + (L - h)
    <3>1. a \in Seq(Plain) /\ b \in Seq(Plain)
      BY <1>2, <1>3
    <3>2. a \o b \in Seq(Plain) /\ Len(a \o b) = Len(a) + Len(b)
      BY <3>1
    <3> QED
      BY <1>2, <1>3, <1>4, <3>2
  <2>2. (h - 1) + (L - h) = L - 1
    BY <1>1
  <2>3. \A m \in 1 .. (h - 1) + (L - h) : t[m] = IF m <= h - 1 THEN a[m] ELSE b[m - (h - 1)]
    BY <1>1, <1>2, <1>3, <1>4
  <2> QED
    BY <2>1, <2>2, <2>3
<1>6. /\ \A m \in 1 .. h - 1 : t[m] = text[m]
      /\ \A m \in h .. L - 1 : t[m] = text[m + 1]
  <2>1. ASSUME NEW m \in 1 .. h - 1 PROVE t[m] = text[m]
    <3>1. m \in 1 .. L - 1 /\ m <= h - 1
      BY <1>1
    <3> QED
      BY <1>2, <1>5, <3>1
  <2>2. ASSUME NEW m \in h .. L - 1 PROVE t[m] = text[m + 1]
    <3>1. /\ m \in 1 .. L - 1 /\ ~(m <= h - 1)
          /\ m - (h - 1) \in 1 .. L - h /\ (m - (h - 1)) + h = m + 1
      BY <1>1
    <3> QED
      BY <1>3, <1>5, <3>1
  <2> QED
    BY <2>1, <2>2
<1> DEFINE F == From(text)
           G == From(t)
<1>7. /\ F[L + 1] = <<>>
      /\ \A i \in 1 .. L :
            F[i] = IF IsRead(text, i) THEN <<text[i]>> \o F[i + 1]
                   ELSE IF text[i] = Hyphen THEN F[i + 1] ELSE <<Other>>
  BY PlainUnfolds DEF L
<1>8. /\ G[(L - 1) + 1] = <<>>
      /\ \A i \in 1 .. L - 1 :
            G[i] = IF IsRead(t, i) THEN <<t[i]>> \o G[i + 1]
                   ELSE IF t[i] = Hyphen THEN G[i + 1] ELSE <<Other>>
  <2>1. /\ G[Len(t) + 1] = <<>>
        /\ \A i \in 1 .. Len(t) :
              G[i] = IF IsRead(t, i) THEN <<t[i]>> \o G[i + 1]
                     ELSE IF t[i] = Hyphen THEN G[i + 1] ELSE <<Other>>
    BY <1>5, PlainUnfolds
  <2> HIDE DEF G
  <2> QED
    BY <1>5, <2>1
<1> HIDE DEF F, G
<1>9. /\ \A m \in 1 .. h - 1 : IsRead(t, m) <=> IsRead(text, m)
      /\ \A m \in h .. L - 1 : IsRead(t, m) <=> IsRead(text, m + 1)
  <2>1. ASSUME NEW m \in 1 .. h - 1 PROVE IsRead(t, m) <=> IsRead(text, m)
    <3>1. m # L /\ m # L - 1
      BY <1>1
    <3> QED
      BY <1>5, <1>6, <3>1 DEF IsRead, L
  <2>2. ASSUME NEW m \in h .. L - 1 PROVE IsRead(t, m) <=> IsRead(text, m + 1)
    <3>1. m = L - 1 <=> m + 1 = L
      BY <1>1
    <3> QED
      BY <1>5, <1>6, <3>1 DEF IsRead, L
  <2> QED
    BY <2>1, <2>2
\* Behind the hyphen
<1> DEFINE Bad == {n \in 0 .. L - h : G[L - n] # F[(L - n) + 1]}
<1>10. Bad = {}
  <2> SUFFICES ASSUME Bad # {} PROVE FALSE
    OBVIOUS
  <2>1. Bad \in SUBSET Nat
    BY <1>1
  <2>2. PICK n \in Bad : \A k \in Bad : n <= k
    <3> HIDE DEF Bad
    <3> QED
      BY <2>1, LeastOf
  <2>3. n \in 0 .. L - h /\ G[L - n] # F[(L - n) + 1]
    BY <2>2
  <2>4. n # 0
    <3> SUFFICES ASSUME n = 0 PROVE FALSE
      OBVIOUS
    <3>1. L - n = (L - 1) + 1 /\ (L - n) + 1 = L + 1
      BY <1>1
    <3> QED
      BY <1>7, <1>8, <2>3, <3>1
  <2>5. /\ n - 1 \in 0 .. L - h /\ ~(n <= n - 1)
        /\ L - (n - 1) = (L - n) + 1
        /\ L - n \in h .. L - 1 /\ L - n \in 1 .. L - 1 /\ (L - n) + 1 \in 1 .. L
    BY <1>1, <2>3, <2>4
  <2> DEFINE i == L - n
  <2>6. G[i + 1] = F[(i + 1) + 1]
    BY <2>2, <2>5
  <2>7. i \in h .. L - 1 /\ i \in 1 .. L - 1 /\ i + 1 \in 1 .. L /\ G[i] # F[i + 1]
    BY <2>3, <2>5
  <2> HIDE DEF i, Bad
  <2>8. t[i] = text[i + 1] /\ (IsRead(t, i) <=> IsRead(text, i + 1))
    BY <1>6, <1>9, <2>7
  <2>9. G[i] = IF IsRead(t, i) THEN <<t[i]>> \o G[i + 1]
               ELSE IF t[i] = Hyphen THEN G[i + 1] ELSE <<Other>>
    BY <1>8, <2>7
  <2>10. F[i + 1] = IF IsRead(text, i + 1) THEN <<text[i + 1]>> \o F[(i + 1) + 1]
                    ELSE IF text[i + 1] = Hyphen THEN F[(i + 1) + 1] ELSE <<Other>>
    BY <1>7, <2>7
  <2> QED
    BY <2>6, <2>7, <2>8, <2>9, <2>10
<1>11. G[h] = F[h]
  <2>1. L - h \in 0 .. L - h /\ L - (L - h) = h
    BY <1>1
  <2>2. G[h] = F[h + 1]
    BY <1>10, <2>1
  <2>3. h \in 1 .. L /\ text[h] = Hyphen /\ ~IsRead(text, h)
    <3>1. ~IsRead(text, h)
      BY DEF IsRead, Hyphen, Digits, X
    <3> QED
      BY <1>1, <3>1
  <2> QED
    BY <1>7, <2>2, <2>3
\* In front of it
<1> DEFINE Worse == {n \in 0 .. h - 1 : G[h - n] # F[h - n]}
<1>12. Worse = {}
  <2> SUFFICES ASSUME Worse # {} PROVE FALSE
    OBVIOUS
  <2>1. Worse \in SUBSET Nat
    BY <1>1
  <2>2. PICK n \in Worse : \A k \in Worse : n <= k
    <3> HIDE DEF Worse
    <3> QED
      BY <2>1, LeastOf
  <2>3. n \in 0 .. h - 1 /\ G[h - n] # F[h - n]
    BY <2>2
  <2>4. n # 0
    <3> SUFFICES ASSUME n = 0 PROVE FALSE
      OBVIOUS
    <3>1. h - n = h
      BY <1>1
    <3> QED
      BY <1>11, <2>3, <3>1
  <2>5. /\ n - 1 \in 0 .. h - 1 /\ ~(n <= n - 1)
        /\ h - (n - 1) = (h - n) + 1
        /\ h - n \in 1 .. h - 1 /\ h - n \in 1 .. L - 1 /\ h - n \in 1 .. L
    BY <1>1, <2>3, <2>4
  <2> DEFINE i == h - n
  <2>6. G[i + 1] = F[i + 1]
    BY <2>2, <2>5
  <2>7. i \in 1 .. h - 1 /\ i \in 1 .. L - 1 /\ i \in 1 .. L /\ G[i] # F[i]
    BY <2>3, <2>5
  <2> HIDE DEF i, Worse
  <2>8. t[i] = text[i] /\ (IsRead(t, i) <=> IsRead(text, i))
    BY <1>6, <1>9, <2>7
  <2>9. G[i] = IF IsRead(t, i) THEN <<t[i]>> \o G[i + 1]
               ELSE IF t[i] = Hyphen THEN G[i + 1] ELSE <<Other>>
    BY <1>8, <2>7
  <2>10. F[i] = IF IsRead(text, i) THEN <<text[i]>> \o F[i + 1]
                ELSE IF text[i] = Hyphen THEN F[i + 1] ELSE <<Other>>
    BY <1>7, <2>7
  <2> QED
    BY <2>6, <2>7, <2>8, <2>9, <2>10
<1>13. G[1] = F[1]
  <2>1. h - 1 \in 0 .. h - 1 /\ h - (h - 1) = 1
    BY <1>1
  <2>2. h - 1 \notin Worse
    BY <1>12
  <2>3. G[h - (h - 1)] = F[h - (h - 1)]
    BY <2>1, <2>2
  <2> QED
    BY <2>1, <2>3
<1> QED
  BY <1>13, PureNumberIsFrom DEF F, G, t

-----------------------------------------------------------------------------
(***************************************************************************)
(* The places from i on without a hyphen, in their order: e[1], ... e[m].  *)
(* All texts with the same hyphens are read at these places.               *)
(***************************************************************************)
Enumerates(text, i, m, e) ==
    /\ e \in [1 .. m -> i .. Len(text)]
    /\ \A x, y \in 1 .. m : x < y => e[x] < e[y]
    /\ \A z \in i .. Len(text) : text[z] # Hyphen <=> \E x \in 1 .. m : e[x] = z

SameShape(text, u) ==
    /\ u \in Seq(Plain) /\ Len(u) = Len(text)
    /\ \A z \in 1 .. Len(text) : u[z] = Hyphen <=> text[z] = Hyphen

Readable(u, i) == \A z \in i .. Len(u) : IsRead(u, z) \/ u[z] = Hyphen

ReadsAs(u, i, m, e) ==
    /\ Readable(u, i) => From(u)[i] = [x \in 1 .. m |-> u[e[x]]]
    /\ ~Readable(u, i) => /\ From(u)[i] \in Seq(Plain) /\ From(u)[i] # <<>>
                          /\ Last(From(u)[i]) = Other

ReadAt(text, i, m, e) ==
    /\ Enumerates(text, i, m, e)
    /\ \A u : SameShape(text, u) => ReadsAs(u, i, m, e)

\* All characters from one on are read if it is, and all behind it are.
LEMMA ReadableFrom ==
    ASSUME NEW u \in Seq(Plain), NEW i \in 1 .. Len(u)
    PROVE  Readable(u, i) <=> (IsRead(u, i) \/ u[i] = Hyphen) /\ Readable(u, i + 1)
<1>1. Len(u) \in Nat /\ i \in i .. Len(u) /\ \A z \in i .. Len(u) : z = i \/ z \in i + 1 .. Len(u)
  OBVIOUS
<1>2. \A z \in i + 1 .. Len(u) : z \in i .. Len(u)
  BY <1>1
<1> QED
  BY <1>1, <1>2 DEF Readable

\* A sequence with one element in front of it.
LEMMA OneInFront ==
    ASSUME NEW S, NEW c \in S, NEW s \in Seq(S), s # <<>>
    PROVE  <<c>> \o s \in Seq(S) /\ <<c>> \o s # <<>> /\ Last(<<c>> \o s) = Last(s)
<1>1. Len(s) \in Nat /\ Len(s) # 0 /\ Len(<<c>> \o s) = Len(s) + 1
  OBVIOUS
<1>2. (<<c>> \o s)[Len(s) + 1] = s[Len(s)]
  <2>1. Len(s) + 1 \in 1 .. Len(s) + 1 /\ ~(Len(s) + 1 <= 1) /\ (Len(s) + 1) - 1 = Len(s)
    BY <1>1
  <2> QED
    BY <1>1, <2>1
<1>3. <<c>> \o s \in Seq(S) /\ <<c>> \o s # <<>>
  BY <1>1
<1> QED
  BY <1>1, <1>2, <1>3 DEF Last

\* A hyphen in front is not read.
LEMMA ReadAtHyphen ==
    ASSUME NEW text \in Seq(Plain), NEW i \in 1 .. Len(text), text[i] = Hyphen,
           NEW m \in Nat, NEW e, ReadAt(text, i + 1, m, e)
    PROVE  ReadAt(text, i, m, e)
<1> DEFINE L == Len(text)
<1>1. L \in Nat /\ i \in Nat
  OBVIOUS
<1>2. Enumerates(text, i, m, e)
  <2>1. /\ e \in [1 .. m -> i + 1 .. L]
        /\ \A x, y \in 1 .. m : x < y => e[x] < e[y]
        /\ \A z \in i + 1 .. L : text[z] # Hyphen <=> \E x \in 1 .. m : e[x] = z
    BY DEF ReadAt, Enumerates
  <2> HIDE DEF L
  <2>2. e \in [1 .. m -> i .. L]
    BY <1>1, <2>1
  <2>3. \A x \in 1 .. m : e[x] # i
    BY <1>1, <2>1
  <2>4. \A z \in i .. L : text[z] # Hyphen <=> \E x \in 1 .. m : e[x] = z
    <3> TAKE z \in i .. L
    <3>1. CASE z = i
      BY <2>3, <3>1
    <3>2. CASE z # i
      <4>1. z \in i + 1 .. L
        BY <1>1, <3>2
      <4> QED
        BY <2>1, <4>1
    <3> QED
      BY <3>1, <3>2
  <2> QED
    BY <2>1, <2>2, <2>4 DEF Enumerates, L
<1>3. ASSUME NEW u, SameShape(text, u) PROVE ReadsAs(u, i, m, e)
  <2>1. ReadsAs(u, i + 1, m, e)
    BY <1>3 DEF ReadAt
  <2>2. u \in Seq(Plain) /\ Len(u) = L /\ u[i] = Hyphen /\ i \in 1 .. Len(u)
    BY <1>3 DEF SameShape
  <2>3. ~IsRead(u, i)
    BY <2>2 DEF IsRead, Hyphen, Digits, X
  <2>4. From(u)[i] = From(u)[i + 1]
    BY <2>2, <2>3, PlainUnfolds
  <2>5. Readable(u, i) <=> Readable(u, i + 1)
    BY <2>2, ReadableFrom
  <2> QED
    BY <2>1, <2>4, <2>5 DEF ReadsAs
<1> QED
  BY <1>2, <1>3 DEF ReadAt

\* Any other character in front is read first.
LEMMA ReadAtCharacter ==
    ASSUME NEW text \in Seq(Plain), NEW i \in 1 .. Len(text), text[i] # Hyphen,
           NEW m \in Nat, NEW e, ReadAt(text, i + 1, m, e)
    PROVE  ReadAt(text, i, m + 1, [x \in 1 .. m + 1 |-> IF x = 1 THEN i ELSE e[x - 1]])
<1> DEFINE L == Len(text)
           f == [x \in 1 .. m + 1 |-> IF x = 1 THEN i ELSE e[x - 1]]
<1>1. L \in Nat /\ i \in Nat /\ i \in 1 .. L
  OBVIOUS
<1>2. /\ e \in [1 .. m -> i + 1 .. L]
      /\ \A x, y \in 1 .. m : x < y => e[x] < e[y]
      /\ \A z \in i + 1 .. L : text[z] # Hyphen <=> \E x \in 1 .. m : e[x] = z
  BY DEF ReadAt, Enumerates
<1> HIDE DEF L
<1>3. /\ f[1] = i
      /\ \A x \in 1 .. m : f[x + 1] = e[x]
  <2>1. 1 \in 1 .. m + 1
    OBVIOUS
  <2>2. \A x \in 1 .. m : x + 1 \in 1 .. m + 1 /\ x + 1 # 1 /\ (x + 1) - 1 = x
    OBVIOUS
  <2> QED
    BY <2>1, <2>2
<1>4. \A x \in 1 .. m + 1 : x = 1 \/ (x - 1 \in 1 .. m /\ (x - 1) + 1 = x)
  OBVIOUS
<1>5. f = [x \in 1 .. m + 1 |-> f[x]]
  OBVIOUS
<1> HIDE DEF f
<1>6. \A x \in 1 .. m : e[x] \in i + 1 .. L
  BY <1>2
<1>7. \A x \in 1 .. m + 1 : f[x] \in i .. L
  <2> TAKE x \in 1 .. m + 1
  <2>1. CASE x = 1
    BY <1>1, <1>3, <2>1
  <2>2. CASE x # 1
    <3>1. f[x] = e[x - 1] /\ e[x - 1] \in i + 1 .. L
      BY <1>3, <1>4, <1>6, <2>2
    <3> QED
      BY <1>1, <3>1
  <2> QED
    BY <2>1, <2>2
<1>8. Enumerates(text, i, m + 1, f)
  <2>1. f \in [1 .. m + 1 -> i .. L]
    BY <1>5, <1>7
  <2>2. ASSUME NEW x \in 1 .. m + 1, NEW y \in 1 .. m + 1, x < y PROVE f[x] < f[y]
    <3>1. y - 1 \in 1 .. m /\ f[y] = e[y - 1] /\ e[y - 1] \in i + 1 .. L
      <4>1. y # 1
        BY <2>2
      <4> QED
        BY <1>3, <1>4, <1>6, <4>1
    <3>2. CASE x = 1
      BY <1>1, <1>3, <3>1, <3>2
    <3>3. CASE x # 1
      <4>1. x - 1 \in 1 .. m /\ f[x] = e[x - 1] /\ x - 1 < y - 1
        BY <1>3, <1>4, <2>2, <3>3
      <4> QED
        BY <1>2, <3>1, <4>1
    <3> QED
      BY <3>2, <3>3
  <2>3. \A z \in i .. L : text[z] # Hyphen <=> \E x \in 1 .. m + 1 : f[x] = z
    <3> TAKE z \in i .. L
    <3>1. CASE z = i
      <4>1. 1 \in 1 .. m + 1
        OBVIOUS
      <4> QED
        BY <1>3, <3>1, <4>1
    <3>2. CASE z # i
      <4>1. z \in i + 1 .. L
        BY <1>1, <3>2
      <4>2. ASSUME text[z] # Hyphen PROVE \E x \in 1 .. m + 1 : f[x] = z
        <5>1. PICK x \in 1 .. m : e[x] = z
          BY <1>2, <4>1, <4>2
        <5>2. x + 1 \in 1 .. m + 1 /\ f[x + 1] = z
          BY <1>3, <5>1
        <5> QED
          BY <5>2
      <4>3. ASSUME NEW x \in 1 .. m + 1, f[x] = z PROVE text[z] # Hyphen
        <5>1. x # 1
          BY <1>3, <3>2, <4>3
        <5>2. x - 1 \in 1 .. m /\ e[x - 1] = z
          BY <1>3, <1>4, <4>3, <5>1
        <5> QED
          BY <1>2, <4>1, <5>2
      <4> QED
        BY <4>2, <4>3
    <3> QED
      BY <3>1, <3>2
  <2> QED
    BY <2>1, <2>2, <2>3 DEF Enumerates, L
<1>9. ASSUME NEW u, SameShape(text, u) PROVE ReadsAs(u, i, m + 1, f)
  <2>1. ReadsAs(u, i + 1, m, e)
    BY <1>9 DEF ReadAt
  <2>2. u \in Seq(Plain) /\ Len(u) = L /\ u[i] # Hyphen /\ i \in 1 .. Len(u)
    BY <1>1, <1>9 DEF SameShape, L
  <2>3. Readable(u, i) <=> IsRead(u, i) /\ Readable(u, i + 1)
    BY <2>2, ReadableFrom
  <2>4. From(u)[i] = IF IsRead(u, i) THEN <<u[i]>> \o From(u)[i + 1] ELSE <<Other>>
    BY <2>2, PlainUnfolds
  <2>5. \A z \in 1 .. L : u[z] \in Plain
    BY <2>2
  <2>6. ASSUME Readable(u, i) PROVE From(u)[i] = [x \in 1 .. m + 1 |-> u[f[x]]]
    <3> DEFINE s == [x \in 1 .. m |-> u[e[x]]]
               t == [x \in 1 .. m + 1 |-> u[f[x]]]
    <3>1. From(u)[i] = <<u[i]>> \o s
      BY <2>1, <2>3, <2>4, <2>6 DEF ReadsAs
    <3>2. \A x \in 1 .. m : u[e[x]] \in Plain
      <4>1. \A x \in 1 .. m : e[x] \in 1 .. L
        BY <1>1, <1>6
      <4> QED
        BY <2>5, <4>1
    <3>3. s \in Seq(Plain) /\ Len(s) = m /\ \A x \in 1 .. m : s[x] = u[e[x]]
      BY <3>2
    <3>4. u[i] \in Plain
      BY <1>1, <2>5
    <3>5. \A x \in 1 .. m + 1 : u[f[x]] \in Plain
      <4>1. \A x \in 1 .. m + 1 : f[x] \in 1 .. L
        BY <1>1, <1>7
      <4> QED
        BY <2>5, <4>1
    <3>6. t \in Seq(Plain) /\ Len(t) = m + 1 /\ \A x \in 1 .. m + 1 : t[x] = u[f[x]]
      BY <3>5
    <3> HIDE DEF s, t
    <3> DEFINE w == <<u[i]>> \o s
    <3>7. w \in Seq(Plain) /\ Len(w) = m + 1
      BY <3>3, <3>4
    <3>8. w[1] = u[i] /\ \A x \in 1 .. m : w[x + 1] = s[x]
      BY <3>3, <3>4
    <3> HIDE DEF w
    <3>9. \A x \in 1 .. m + 1 : w[x] = t[x]
      <4> TAKE x \in 1 .. m + 1
      <4>1. CASE x = 1
        BY <1>3, <3>6, <3>8, <4>1
      <4>2. CASE x # 1
        <5>1. x - 1 \in 1 .. m /\ (x - 1) + 1 = x
          BY <1>4, <4>2
        <5>2. w[x] = s[x - 1] /\ f[x] = e[x - 1]
          BY <1>3, <3>8, <5>1
        <5> QED
          BY <3>3, <3>6, <5>1, <5>2
      <4> QED
        BY <4>1, <4>2
    <3>10. w = t
      <4>1. w = [x \in 1 .. m + 1 |-> w[x]] /\ t = [x \in 1 .. m + 1 |-> t[x]]
        BY <3>6, <3>7
      <4> QED
        BY <3>9, <4>1
    <3> QED
      BY <3>1, <3>10 DEF w, t
  <2>7. ASSUME ~Readable(u, i)
        PROVE  From(u)[i] \in Seq(Plain) /\ From(u)[i] # <<>> /\ Last(From(u)[i]) = Other
    <3>1. CASE ~IsRead(u, i)
      <4>1. Other \in Plain
        BY DEF Plain
      <4>2. From(u)[i] = <<Other>>
        BY <2>4, <3>1
      <4> HIDE DEF Other
      <4> QED
        BY <4>1, <4>2 DEF Last
    <3>2. CASE IsRead(u, i)
      <4>1. /\ From(u)[i + 1] \in Seq(Plain) /\ From(u)[i + 1] # <<>>
            /\ Last(From(u)[i + 1]) = Other
        BY <2>1, <2>3, <2>7, <3>2 DEF ReadsAs
      <4>2. u[i] \in Plain
        BY <1>1, <2>5
      <4> QED
        BY <2>4, <3>2, <4>1, <4>2, OneInFront
    <3> QED
      BY <3>1, <3>2
  <2> QED
    BY <2>6, <2>7 DEF ReadsAs
<1> QED
  BY <1>8, <1>9 DEF ReadAt, f

\* Behind the last character, nothing is read.
LEMMA ReadAtEnd ==
    ASSUME NEW text \in Seq(Plain)
    PROVE  ReadAt(text, Len(text) + 1, 0, [x \in 1 .. 0 |-> x])
<1> DEFINE L == Len(text)
           e == [x \in 1 .. 0 |-> x]
<1>1. L \in Nat /\ L + 1 .. L = {}
  OBVIOUS
<1>2. Enumerates(text, L + 1, 0, e)
  BY <1>1 DEF Enumerates
<1>3. ASSUME NEW u, SameShape(text, u) PROVE ReadsAs(u, L + 1, 0, e)
  <2>1. u \in Seq(Plain) /\ Len(u) = L
    BY <1>3 DEF SameShape
  <2>2. From(u)[L + 1] = <<>>
    BY <2>1, PlainUnfolds
  <2>3. Readable(u, L + 1)
    BY <1>1, <2>1 DEF Readable
  <2>4. [x \in 1 .. 0 |-> u[e[x]]] = <<>>
    OBVIOUS
  <2> HIDE DEF e
  <2> QED
    BY <2>2, <2>3, <2>4 DEF ReadsAs
<1> QED
  BY <1>2, <1>3 DEF ReadAt

\* Every text is read at some places.
LEMMA ReadSomehow ==
    ASSUME NEW text \in Seq(Plain)
    PROVE  \E m \in Nat : \E e : ReadAt(text, 1, m, e)
<1> DEFINE L == Len(text)
           Good(i) == \E m \in Nat : \E e : ReadAt(text, i, m, e)
           Bad == {n \in 0 .. L : ~Good(L + 1 - n)}
<1>1. L \in Nat
  OBVIOUS
<1>2. Bad = {}
  <2> SUFFICES ASSUME Bad # {} PROVE FALSE
    OBVIOUS
  <2>1. Bad \in SUBSET Nat
    BY <1>1
  <2>2. PICK n \in Bad : \A k \in Bad : n <= k
    <3> HIDE DEF Bad
    <3> QED
      BY <2>1, LeastOf
  <2>3. n \in 0 .. L /\ ~Good(L + 1 - n)
    BY <2>2
  <2>4. n # 0
    <3>1. Good(L + 1)
      BY ReadAtEnd
    <3> HIDE DEF Good
    <3>2. L + 1 - 0 = L + 1
      BY <1>1
    <3> QED
      BY <2>3, <3>1, <3>2
  <2> DEFINE i == L + 1 - n
  <2>5. n - 1 \in 0 .. L /\ ~(n <= n - 1) /\ L + 1 - (n - 1) = i + 1 /\ i \in 1 .. L
    BY <1>1, <2>3, <2>4
  <2>6. Good(i + 1)
    <3> HIDE DEF Good, i
    <3> QED
      BY <2>2, <2>5
  <2>7. PICK m \in Nat : \E e : ReadAt(text, i + 1, m, e)
    BY <2>6
  <2>8. PICK e : ReadAt(text, i + 1, m, e)
    BY <2>7
  <2>9. Good(i)
    <3> HIDE DEF i
    <3>1. i \in 1 .. Len(text)
      BY <2>5
    <3>2. CASE text[i] = Hyphen
      <4>1. ReadAt(text, i, m, e)
        BY <2>8, <3>1, <3>2, ReadAtHyphen
      <4> QED
        BY <4>1
    <3>3. CASE text[i] # Hyphen
      <4>1. ReadAt(text, i, m + 1, [x \in 1 .. m + 1 |-> IF x = 1 THEN i ELSE e[x - 1]])
        BY <2>8, <3>1, <3>3, ReadAtCharacter
      <4>2. m + 1 \in Nat
        OBVIOUS
      <4> QED
        BY <4>1, <4>2
    <3> QED
      BY <3>2, <3>3
  <2> QED
    BY <2>3, <2>9
<1>3. L \in 0 .. L /\ L + 1 - L = 1
  BY <1>1
<1> HIDE DEF Good, L
<1>4. Good(L + 1 - L)
  BY <1>2, <1>3
<1> QED
  BY <1>3, <1>4 DEF Good

-----------------------------------------------------------------------------
(***************************************************************************)
(* The inductive invariant: besides what the theorems say, what is read is *)
(* made of fields that can be counted with, whether it comes from a file   *)
(* or has been written by an earlier run.                                  *)
(***************************************************************************)
EntriesInv ==
    /\ IsEntry(unread) /\ IsEntry(file)
    /\ IsList(fields)
    /\ phase = "written" => run < MaxRuns
    /\ phase = "unreadable" => fields = <<>>

\* An ISBN or ISSN is warned of exactly if it is not accepted.
IsAccepted(k, text) == IF k = "isbn" THEN ISBNIsAccepted(text) ELSE ISSNIsAccepted(text)

NumbersAreJudged ==
    phase = "made" =>
        \A k \in {"isbn", "issn"} :
            Has(fields, k) => (k \in warnings <=> ~IsAccepted(k, ValueOf(fields, k).digits))

PagesInv == phase = "made" => PagesCounted(fields)

IInv ==
    /\ TypeOK
    /\ EntriesInv
    /\ ChildrenInOrder
    /\ DaysAreJudged
    /\ NumbersAreJudged
    /\ PagesInv

-----------------------------------------------------------------------------
\* Nothing is a list, and an entry.
LEMMA EmptyIsList == IsList(<<>>) /\ IsEntry(<<>>) /\ InOrder(<<>>)
<1>1. <<>> \in Seq(Range(<<>>))
  OBVIOUS
<1> QED
  BY <1>1 DEF IsList, IsEntry, InOrder

\* It holds when the program starts.
LEMMA InitIInv == Init => IInv
<1> SUFFICES ASSUME Init PROVE IInv
  OBVIOUS
<1>1. 1 \in 1 .. MaxRuns
  BY MaxRunsAssumption
<1>2. TypeOK
  BY <1>1 DEF Init, TypeOK
<1>3. EntriesInv
  BY EmptyIsList, EntriesAssumption DEF Init, EntriesInv
<1> QED
  BY <1>2, <1>3 DEF Init, IInv, ChildrenInOrder, DaysAreJudged, NumbersAreJudged, PagesInv

\* One item more is read.
LEMMA ReadItemStep == IInv /\ ReadItem => IInv'
<1> SUFFICES ASSUME IInv, ReadItem PROVE IInv'
  OBVIOUS
<1> DEFINE k == Head(unread).keyword
           v == Head(unread).value
           item == MakePublicationInfoItem(k, v)
           S == Range(fields) \cup {item}
           T == Range(unread)
<1>1. /\ phase = "reading" /\ phase' = "reading" /\ unread # <<>>
      /\ fields' = Append(fields, item) /\ unread' = Tail(unread)
      /\ run' = run /\ options' = options /\ file' = file
  BY DEF ReadItem
<1>2. unread \in Seq(T) /\ \A i \in DOMAIN unread :
          unread[i].keyword \in Keywords /\ ValueFits(unread[i].keyword, unread[i].value)
  BY DEF IInv, EntriesInv, IsEntry
<1>3. /\ Len(unread) \in Nat /\ DOMAIN unread = 1 .. Len(unread) /\ 1 \in DOMAIN unread
      /\ Head(unread) = unread[1]
      /\ Tail(unread) \in Seq(T) /\ Len(Tail(unread)) = Len(unread) - 1
      /\ \A i \in 1 .. Len(unread) - 1 : Tail(unread)[i] = unread[i + 1] /\ i + 1 \in 1 .. Len(unread)
  <2> HIDE DEF T
  <2> QED
    BY <1>1, <1>2
<1>4. IsField(item)
  <2>1. k \in Keywords /\ ValueFits(k, v)
    BY <1>2, <1>3
  <2> HIDE DEF k, v
  <2> QED
    BY <2>1, NewItemIsField
<1> HIDE DEF item
<1>5. IsList(fields')
  <2>1. fields \in Seq(Range(fields)) /\ \A i \in DOMAIN fields : IsField(fields[i])
    BY DEF IInv, EntriesInv, IsList
  <2>2. fields \in Seq(S) /\ item \in S
    <3>1. Range(fields) \subseteq S /\ item \in S
      OBVIOUS
    <3> HIDE DEF S
    <3> QED
      BY <2>1, <3>1, SequenceOfMore
  <2>3. \A e \in S : IsField(e)
    BY <1>4, <2>1 DEF Range
  <2> HIDE DEF S
  <2>4. fields' \in Seq(S)
    BY <1>1, <2>2
  <2>5. \A i \in 1 .. Len(fields') : IsField(fields'[i])
    BY <2>3, <2>4
  <2> QED
    BY <2>4, <2>5, ListFromSeq
<1>6. IsEntry(unread')
  <2> DEFINE w == Tail(unread)
  <2>1. w \in Seq(Range(w)) /\ DOMAIN w = 1 .. Len(w)
    <3> HIDE DEF w, T
    <3> QED
      BY <1>3, SequenceOfItsRange DEF w
  <2>2. \A i \in DOMAIN w : w[i].keyword \in Keywords /\ ValueFits(w[i].keyword, w[i].value)
    BY <1>2, <1>3, <2>1
  <2> HIDE DEF w
  <2>3. IsEntry(w)
    BY <2>1, <2>2 DEF IsEntry
  <2> QED
    BY <1>1, <2>3 DEF w
<1>7. \A i \in DOMAIN fields' : fields'[i].keyword \in Keywords
  BY <1>5 DEF IsList, IsField
<1>8. TypeOK'
  BY <1>1, <1>7 DEF IInv, TypeOK
<1>9. EntriesInv'
  BY <1>1, <1>5, <1>6 DEF IInv, EntriesInv
<1> QED
  BY <1>1, <1>8, <1>9 DEF IInv, ChildrenInOrder, DaysAreJudged, NumbersAreJudged, PagesInv

\* makePublication() judges what it has unified.
LEMMA MadeIsJudged ==
    ASSUME NEW list, IsList(list), NEW new, KeepsAllBut(list, new, {"url"}),
           NEW all, WarnedOf(list, all)
    PROVE  /\ Has(new, "day") /\ Has(new, "month") =>
                  ("day" \in all <=> ~DayIsAccepted(YearOf(new), MonthOf(new), ValueOf(new, "day").number))
           /\ \A k \in {"isbn", "issn"} :
                  Has(new, k) => (k \in all <=> ~IsAccepted(k, ValueOf(new, k).digits))
<1>1. \A k : Has(new, k) <=> Has(list, k)
  BY AlikeLists DEF KeepsAllBut
<1>2. \A k : k # "url" /\ Has(list, k) => ValueOf(new, k) = ValueOf(list, k)
  BY DEF KeepsAllBut
<1>3. YearOf(new) = YearOf(list) /\ MonthOf(new) = MonthOf(list)
  BY <1>1, <1>2 DEF YearOf, MonthOf
<1>4. "day" \in all <=> "day" \in DateWarnings(list)
  BY DEF WarnedOf, NumberWarnings, WarnIf
<1>5. "day" \in DateWarnings(list) <=>
          Has(list, "day") /\ Has(list, "month")
              /\ ~DayIsAccepted(YearOf(list), MonthOf(list), ValueOf(list, "day").number)
  BY DEF DateWarnings, WarnIf
<1>6. ASSUME NEW k \in {"isbn", "issn"} PROVE k \in all <=> k \in NumberWarnings(list)
  BY DEF WarnedOf, DateWarnings, WarnIf
<1>7. ASSUME NEW k \in {"isbn", "issn"}
      PROVE  k \in NumberWarnings(list) <=> Has(list, k) /\ ~IsAccepted(k, ValueOf(list, k).digits)
  BY DEF NumberWarnings, WarnIf, IsAccepted
<1> QED
  BY <1>1, <1>2, <1>3, <1>4, <1>5, <1>6, <1>7

-----------------------------------------------------------------------------
\* The publication is made: sorted, unified and judged.
LEMMA MakePublicationStep == IInv /\ MakePublication => IInv'
<1> SUFFICES ASSUME IInv, MakePublication PROVE IInv'
  OBVIOUS
<1>1. /\ phase = "reading" /\ phase' = "made"
      /\ unread' = unread /\ unread = <<>>
      /\ run' = run /\ options' = options /\ file' = file
  BY DEF MakePublication
<1>2. IsList(fields)
  BY DEF IInv, EntriesInv
<1>3. /\ IsList(fields') /\ InOrder(fields') /\ PagesCounted(fields')
      /\ \E list : /\ IsList(list)
                   /\ KeepsAllBut(list, fields', {"url"})
                   /\ WarnedOf(list, warnings')
  BY <1>2, PublicationIsMade
<1>4. /\ Has(fields', "day") /\ Has(fields', "month") =>
             ("day" \in warnings' <=> ~DayIsAccepted(YearOf(fields'), MonthOf(fields'),
                                                     ValueOf(fields', "day").number))
      /\ \A k \in {"isbn", "issn"} :
             Has(fields', k) => (k \in warnings' <=> ~IsAccepted(k, ValueOf(fields', k).digits))
  <2> DEFINE new == fields'
             all == warnings'
  <2>1. PICK list : /\ IsList(list) /\ KeepsAllBut(list, new, {"url"})
                    /\ WarnedOf(list, all)
    BY <1>3
  <2> HIDE DEF new, all
  <2>2. /\ Has(new, "day") /\ Has(new, "month") =>
               ("day" \in all <=> ~DayIsAccepted(YearOf(new), MonthOf(new), ValueOf(new, "day").number))
        /\ \A k \in {"isbn", "issn"} :
               Has(new, k) => (k \in all <=> ~IsAccepted(k, ValueOf(new, k).digits))
    BY <2>1, MadeIsJudged
  <2> QED
    BY <2>2 DEF new, all
<1>5. \A i \in DOMAIN fields' : fields'[i].keyword \in Keywords
  BY <1>3 DEF IsList, IsField
<1>6. TypeOK'
  BY <1>1, <1>5 DEF IInv, TypeOK
<1>7. EntriesInv'
  BY <1>1, <1>3 DEF IInv, EntriesInv
<1>8. ChildrenInOrder'
  BY <1>3 DEF ChildrenInOrder, InOrder
<1>9. NumbersAreJudged'
  BY <1>4 DEF NumbersAreJudged
<1>10. PagesInv'
  BY <1>3 DEF PagesInv
<1>11. DaysAreJudged'
  <2> DEFINE y == YearOf(fields')
             m == MonthOf(fields')
             d == ValueOf(fields', "day").number
  <2>1. Has(fields', "day") => y \in Int /\ m \in 0 .. 12 /\ d \in Int
    BY <1>3, DatesAreNumbers
  <2> HIDE DEF y, m, d
  <2>2. Has(fields', "day") =>
            (~DayIsAccepted(y, m, d)
                 <=> (m = 0 \/ d \notin 1 .. DaysOfMonth(y, m) \/ (m = 7 /\ d = 31)))
    BY <2>1, DaysJudged
  <2>3. Has(fields', "day") /\ Has(fields', "month") =>
            ("day" \in warnings' <=> ~DayIsAccepted(y, m, d))
    BY <1>4 DEF y, m, d
  <2>4. Has(fields', "day") /\ Has(fields', "month") =>
            ("day" \in warnings'
                <=> (m = 0 \/ d \notin 1 .. DaysOfMonth(y, m) \/ (m = 7 /\ d = 31)))
    BY <2>2, <2>3
  <2> QED
    BY <2>4 DEF DaysAreJudged, y, m, d
<1> QED
  BY <1>6, <1>7, <1>8, <1>9, <1>10, <1>11 DEF IInv

\* Its URL is checked.
LEMMA CheckURLStep == IInv /\ CheckURL => IInv'
<1> SUFFICES ASSUME IInv, CheckURL PROVE IInv'
  OBVIOUS
<1>1. /\ phase = "made" /\ phase' = "checked"
      /\ unread' = unread
      /\ run' = run /\ options' = options /\ file' = file
  BY DEF CheckURL
<1>2. IsList(fields) /\ InOrder(fields)
  BY <1>1 DEF IInv, EntriesInv, ChildrenInOrder, InOrder
<1>3. IsList(fields') /\ InOrder(fields')
  BY <1>2, URLIsChecked
<1>4. \A i \in DOMAIN fields' : fields'[i].keyword \in Keywords
  BY <1>3 DEF IsList, IsField
<1>5. TypeOK'
  BY <1>1, <1>4 DEF IInv, TypeOK
<1>6. EntriesInv'
  BY <1>1, <1>3 DEF IInv, EntriesInv
<1>7. ChildrenInOrder'
  BY <1>3 DEF ChildrenInOrder, InOrder
<1> QED
  BY <1>1, <1>5, <1>6, <1>7 DEF IInv, DaysAreJudged, NumbersAreJudged, PagesInv

\* It is written.
LEMMA ExportStep == IInv /\ Export => IInv'
<1> SUFFICES ASSUME IInv, Export PROVE IInv'
  OBVIOUS
<1>1. /\ phase \in {"made", "checked"} /\ phase' = "written" /\ run < MaxRuns
      /\ unread' = unread /\ fields' = fields
      /\ run' = run /\ options' = options
      /\ file' = WrittenFields(fields, options)
  BY DEF Export
<1>2. IsList(fields)
  BY DEF IInv, EntriesInv
<1>3. IsEntry(file') /\ \A i \in DOMAIN file' : IsWritten(file'[i])
  BY <1>1, <1>2, EntryIsWritten
<1>4. TypeOK'
  BY <1>1, <1>3 DEF IInv, TypeOK, IsWritten
<1>5. EntriesInv'
  BY <1>1, <1>3 DEF IInv, EntriesInv
<1>6. ChildrenInOrder'
  BY <1>1 DEF IInv, ChildrenInOrder
<1> QED
  BY <1>1, <1>4, <1>5, <1>6 DEF IInv, DaysAreJudged, NumbersAreJudged, PagesInv

\* The next run reads what has been written.
LEMMA NextRunStep == IInv /\ NextRun => IInv'
<1> SUFFICES ASSUME IInv, NextRun PROVE IInv'
  OBVIOUS
<1>1. /\ phase = "written" /\ phase' \in {"reading", "unreadable"}
      /\ run' = run + 1 /\ options' \in Options
      /\ fields' = <<>> /\ file' = <<>>
      /\ unread' = file \/ unread' = <<>>
      /\ phase' # "reading" => unread' = <<>>
  BY DEF NextRun
<1>2. run' \in 1 .. MaxRuns
  BY <1>1, MaxRunsAssumption DEF IInv, TypeOK, EntriesInv
<1>3. TypeOK'
  BY <1>1, <1>2 DEF IInv, TypeOK
<1>4. EntriesInv'
  BY <1>1, EmptyIsList DEF IInv, EntriesInv
<1>5. ChildrenInOrder'
  BY <1>1 DEF ChildrenInOrder
<1> QED
  BY <1>1, <1>3, <1>4, <1>5 DEF IInv, DaysAreJudged, NumbersAreJudged, PagesInv

\* The inductive invariant always holds.
LEMMA AlwaysIInv == Spec => []IInv
<1>1. IInv /\ [Next]_vars => IInv'
  <2> SUFFICES ASSUME IInv, [Next]_vars PROVE IInv'
    OBVIOUS
  <2>1. CASE UNCHANGED vars
    BY <2>1 DEF vars, IInv, TypeOK, EntriesInv, ChildrenInOrder, DaysAreJudged,
                NumbersAreJudged, PagesInv
  <2>2. CASE ReadItem
    BY <2>2, ReadItemStep
  <2>3. CASE MakePublication
    BY <2>3, MakePublicationStep
  <2>4. CASE CheckURL
    BY <2>4, CheckURLStep
  <2>5. CASE Export
    BY <2>5, ExportStep
  <2>6. CASE NextRun
    BY <2>6, NextRunStep
  <2>7. CASE Finished
    BY <2>1, <2>7 DEF Finished
  <2> QED
    BY <2>1, <2>2, <2>3, <2>4, <2>5, <2>6, <2>7 DEF Next
<1> QED
  BY <1>1, InitIInv, PTL DEF Spec

(***************************************************************************)
(* The state has its types; and no month is written whose name would be    *)
(* read outside of the array of names, in whatever run and after whatever  *)
(* was in the file (exportPublicationSetToBibTeX()).                       *)
(***************************************************************************)
THEOREM TypeCorrect == Spec => []TypeOK
<1>1. IInv => TypeOK
  BY DEF IInv
<1> QED
  BY <1>1, AlwaysIInv, PTL

(***************************************************************************)
(* The fields of a publication are in the order of their keywords, from    *)
(* makePublication() on and after every field that unification or a check  *)
(* of the URL adds (sortChildren(), addOrUpdateChildNode()).               *)
(***************************************************************************)
THEOREM AlwaysInOrder == Spec => []ChildrenInOrder
<1>1. IInv => ChildrenInOrder
  BY DEF IInv
<1> QED
  BY <1>1, AlwaysIInv, PTL

(***************************************************************************)
(* The days that are warned of are those that the calendar does not have,  *)
(* and the 31st of July: for the dates of any entry, also of one that an   *)
(* earlier run has written (unifyDate()).                                  *)
(***************************************************************************)
THEOREM DaysAlwaysJudged == Spec => []DaysAreJudged
<1>1. IInv => DaysAreJudged
  BY DEF IInv
<1> QED
  BY <1>1, AlwaysIInv, PTL

(***************************************************************************)
(* The number of pages is the number of the pages, if these can be read,   *)
(* whatever the entry said and whatever pdfinfo has found in an earlier    *)
(* run (unifyPages()).                                                     *)
(***************************************************************************)
THEOREM PagesAlwaysCounted == Spec => []PagesAreCounted
<1>1. IInv => PagesAreCounted
  BY DEF IInv, PagesInv, PagesCounted, PagesAreCounted
<1> QED
  BY <1>1, AlwaysIInv, PTL

(***************************************************************************)
(* A check of the URL leaves all other fields as they are, adds at most    *)
(* one of each keyword, and the size and the time of the check are what    *)
(* the next lookup finds; so is the MIME type, unless "file" has said      *)
(* nothing: then the one that was there is emptied, and of none there is a *)
(* "removeme".  All that whatever pdfinfo says (checkAllURLs(),            *)
(* addOrUpdateChildNode(), makePublicationInfoItem()).                     *)
(***************************************************************************)
THEOREM UpdatesFound == Spec => UpdatesAreFound
<1> DEFINE Found ==
             \A k \in Keywords :
                /\ k \notin FromTheCheck => SameFields(fields, fields', k)
                /\ k # "removeme" =>
                       \/ NumberOf(fields', k) = NumberOf(fields, k)
                       \/ NumberOf(fields, k) = 0 /\ NumberOf(fields', k) = 1
                /\ k \in {"url.size", "url.checked"} /\ NumberOf(fields, k) <= 1 =>
                       ValueOf(fields', k) = Measured
                /\ k = "url.mime" /\ NumberOf(fields, k) <= 1 =>
                       MimeIsFound(fields, fields')
<1>1. IInv /\ [Next]_vars => [CheckURL => Found]_vars
  <2> SUFFICES ASSUME IInv, CheckURL PROVE Found
    OBVIOUS
  <2>1. IsList(fields) /\ InOrder(fields)
    BY DEF CheckURL, IInv, EntriesInv, ChildrenInOrder, InOrder
  <2>2. /\ \A f : f.keyword \notin FromTheCheck => Count(fields', f) = Count(fields, f)
        /\ \A k : k # "removeme" =>
               \/ NumberOf(fields', k) = NumberOf(fields, k)
               \/ NumberOf(fields, k) = 0 /\ NumberOf(fields', k) = 1
        /\ \A k \in {"url.size", "url.checked"} :
               NumberOf(fields, k) <= 1 => ValueOf(fields', k) = Measured
        /\ NumberOf(fields, "url.mime") <= 1 => MimeIsFound(fields, fields')
    BY <2>1, URLIsChecked
  <2> TAKE k \in Keywords
  <2>3. k \notin FromTheCheck => SameFields(fields, fields', k)
    BY <2>2 DEF SameFields
  <2> QED
    BY <2>2, <2>3
<1> QED
  BY <1>1, AlwaysIInv, PTL DEF Spec, UpdatesAreFound

-----------------------------------------------------------------------------
(***************************************************************************)
(* From the numbers to the texts of ISBNs and ISSNs.                       *)
(***************************************************************************)
\* A readable text of that shape is read at these places.
LEMMA ShapeIsRead ==
    ASSUME NEW text \in Seq(Plain), NEW m \in Nat, NEW e, ReadAt(text, 1, m, e),
           NEW u, SameShape(text, u), Readable(u, 1)
    PROVE  PureNumber(u) = [x \in 1 .. m |-> u[e[x]]]
BY PureNumberIsFrom DEF ReadAt, ReadsAs

\* Nothing is known of a number but that its last character may be X.
LEMMA NumberIsRead ==
    ASSUME NEW text \in Seq(Plain), NEW m \in Nat, NEW e, ReadAt(text, 1, m, e),
           ~HasInvalidCharacters(PureNumber(text))
    PROVE  /\ Readable(text, 1)
           /\ PureNumber(text) = [x \in 1 .. m |-> text[e[x]]]
           /\ PureNumber(text) \in [1 .. m -> 0 .. 10]
           /\ Len(PureNumber(text)) = m
           /\ \A x \in 1 .. m : x # m => PureNumber(text)[x] \in Digits
<1>1. SameShape(text, text)
  BY DEF SameShape
<1>2. Readable(text, 1)
  BY <1>1, PureNumberIsFrom DEF ReadAt, ReadsAs, HasInvalidCharacters
<1> DEFINE n == [x \in 1 .. m |-> text[e[x]]]
           L == Len(text)
<1>3. PureNumber(text) = n
  BY <1>1, <1>2, ShapeIsRead
<1>4. L \in Nat /\ e \in [1 .. m -> 1 .. L] /\ \A x, y \in 1 .. m : x < y => e[x] < e[y]
  BY DEF ReadAt, Enumerates
<1>5. \A x \in 1 .. m : text[e[x]] # Hyphen
  BY <1>4 DEF ReadAt, Enumerates
<1>6. \A z \in 1 .. L : text[z] # Hyphen => text[z] \in Digits \/ (text[z] = X /\ z = L)
  BY <1>2 DEF Readable, IsRead
<1> HIDE DEF L
<1>7. ASSUME NEW x \in 1 .. m
      PROVE  /\ text[e[x]] \in 0 .. 10
             /\ x # m => text[e[x]] \in Digits
  <2>1. e[x] \in 1 .. L
    BY <1>4
  <2>2. text[e[x]] \in Digits \/ (text[e[x]] = X /\ e[x] = L)
    BY <1>5, <1>6, <2>1
  <2>3. x # m => e[x] # L
    <3>1. x # m => m \in 1 .. m /\ x < m
      OBVIOUS
    <3>2. x # m => e[x] < e[m] /\ e[m] \in 1 .. L
      BY <1>4, <3>1
    <3> QED
      BY <1>4, <2>1, <3>2
  <2> QED
    BY <2>2, <2>3 DEF Digits, X
<1>8. n \in [1 .. m -> 0 .. 10] /\ \A x \in 1 .. m : x # m => n[x] \in Digits
  BY <1>7
<1>9. Len(n) = m
  OBVIOUS
<1> HIDE DEF n
<1> QED
  BY <1>2, <1>3, <1>8, <1>9 DEF n

\* A digit of the text is a digit of the number.
LEMMA DigitIsRead ==
    ASSUME NEW text \in Seq(Plain), NEW m \in Nat, NEW e, ReadAt(text, 1, m, e),
           NEW i \in DOMAIN text, text[i] \in Digits
    PROVE  \E p \in 1 .. m : e[p] = i
<1>1. i \in 1 .. Len(text) /\ text[i] # Hyphen
  BY DEF Digits, Hyphen
<1> QED
  BY <1>1 DEF ReadAt, Enumerates

\* A digit in place of a digit leaves the shape as it is.
LEMMA DigitsChanged ==
    ASSUME NEW text \in Seq(Plain), Readable(text, 1),
           NEW i \in DOMAIN text, text[i] \in Digits, NEW d \in Digits
    PROVE  LET u == [text EXCEPT ![i] = d]
           IN  SameShape(text, u) /\ Readable(u, 1) /\ u \in Seq(Plain) /\ DOMAIN u = DOMAIN text
<1> DEFINE u == [text EXCEPT ![i] = d]
<1>1. i \in 1 .. Len(text) /\ d \in Plain /\ d # Hyphen /\ text[i] # Hyphen
  BY DEF Plain, Digits, Hyphen
<1>2. u \in Seq(Plain) /\ Len(u) = Len(text) /\ DOMAIN u = DOMAIN text
  BY <1>1
<1>3. \A z \in 1 .. Len(text) : u[z] = IF z = i THEN d ELSE text[z]
  BY <1>1
<1> HIDE DEF u
<1>4. SameShape(text, u)
  BY <1>1, <1>2, <1>3 DEF SameShape
<1>5. Readable(u, 1)
  BY <1>2, <1>3 DEF Readable, IsRead
<1> QED
  BY <1>2, <1>4, <1>5 DEF u

\* A changed digit of the text is a changed digit of the number.
LEMMA ChangeIsRead ==
    ASSUME NEW text \in Seq(Plain), ~HasInvalidCharacters(PureNumber(text)),
           NEW i \in DOMAIN text, text[i] \in Digits, NEW d \in Digits \ {text[i]}
    PROVE  LET n == PureNumber(text)
           IN  \E p \in 1 .. Len(n) :
                   n[p] # d /\ PureNumber([text EXCEPT ![i] = d]) = [n EXCEPT ![p] = d]
<1> DEFINE n == PureNumber(text)
           u == [text EXCEPT ![i] = d]
<1>1. PICK m \in Nat : \E e : ReadAt(text, 1, m, e)
  BY ReadSomehow
<1>2. PICK e : ReadAt(text, 1, m, e)
  BY <1>1
<1>3. Readable(text, 1) /\ n = [x \in 1 .. m |-> text[e[x]]] /\ Len(n) = m
  BY <1>2, NumberIsRead
<1>4. PICK p \in 1 .. m : e[p] = i
  BY <1>2, DigitIsRead
<1>5. SameShape(text, u) /\ Readable(u, 1)
  BY <1>3, DigitsChanged
<1>6. PureNumber(u) = [x \in 1 .. m |-> u[e[x]]]
  <2> HIDE DEF u
  <2> QED
    BY <1>2, <1>5, ShapeIsRead
<1>7. /\ e \in [1 .. m -> 1 .. Len(text)]
      /\ \A x, y \in 1 .. m : x < y => e[x] < e[y]
  BY <1>2 DEF ReadAt, Enumerates
<1>8. \A x \in 1 .. m : x # p => e[x] # i
  <2> TAKE x \in 1 .. m
  <2>1. x < p => e[x] < e[p]
    BY <1>7
  <2>2. p < x => e[p] < e[x]
    BY <1>7
  <2>3. e[x] \in Int /\ e[p] \in Int /\ (x = p \/ x < p \/ p < x)
    BY <1>7
  <2> QED
    BY <1>4, <2>1, <2>2, <2>3
<1>9. \A z \in 1 .. Len(text) : u[z] = IF z = i THEN d ELSE text[z]
  OBVIOUS
<1> HIDE DEF u, n
<1>10. \A x \in 1 .. m : u[e[x]] = IF x = p THEN d ELSE n[x]
  BY <1>3, <1>4, <1>7, <1>8, <1>9
<1>11. [x \in 1 .. m |-> u[e[x]]] = [n EXCEPT ![p] = d]
  <2>1. n = [x \in 1 .. m |-> n[x]]
    BY <1>3
  <2> QED
    BY <1>10, <2>1
<1>12. n[p] # d
  BY <1>3, <1>4
<1>13. p \in 1 .. Len(n)
  BY <1>3
<1> QED
  BY <1>6, <1>11, <1>12, <1>13 DEF u, n

\* Swapped digits of the text are swapped digits of the number.
LEMMA SwapIsRead ==
    ASSUME NEW text \in Seq(Plain), ~HasInvalidCharacters(PureNumber(text)),
           NEW i \in DOMAIN text, NEW j \in DOMAIN text,
           text[i] \in Digits, text[j] \in Digits, text[i] # text[j]
    PROVE  LET n == PureNumber(text)
           IN  \E p, q \in 1 .. Len(n) :
                   /\ n[p] # n[q]
                   /\ PureNumber([text EXCEPT ![i] = text[j], ![j] = text[i]])
                          = [n EXCEPT ![p] = n[q], ![q] = n[p]]
<1> DEFINE n == PureNumber(text)
           c == text[i]
           d == text[j]
           v == [text EXCEPT ![i] = d]
           u == [v EXCEPT ![j] = c]
<1>1. PICK m \in Nat : \E e : ReadAt(text, 1, m, e)
  BY ReadSomehow
<1>2. PICK e : ReadAt(text, 1, m, e)
  BY <1>1
<1>3. Readable(text, 1) /\ n = [x \in 1 .. m |-> text[e[x]]] /\ Len(n) = m
  BY <1>2, NumberIsRead
<1>4. PICK p \in 1 .. m : e[p] = i
  BY <1>2, DigitIsRead
<1>5. PICK q \in 1 .. m : e[q] = j
  BY <1>2, DigitIsRead
<1>6. SameShape(text, v) /\ Readable(v, 1) /\ v \in Seq(Plain) /\ DOMAIN v = DOMAIN text
  BY <1>3, DigitsChanged
<1>7. v[j] \in Digits /\ j \in DOMAIN v
  OBVIOUS
<1>8. u = [text EXCEPT ![i] = text[j], ![j] = text[i]]
  OBVIOUS
<1>9. \A z \in 1 .. Len(text) : u[z] = IF z = j THEN c ELSE IF z = i THEN d ELSE text[z]
  OBVIOUS
<1>10. SameShape(v, u) /\ Readable(u, 1)
  <2> HIDE DEF v
  <2> QED
    BY <1>6, <1>7, DigitsChanged
<1> HIDE DEF u, v, n
<1>11. SameShape(text, u)
  BY <1>6, <1>10 DEF SameShape
<1>12. PureNumber(u) = [x \in 1 .. m |-> u[e[x]]]
  BY <1>2, <1>10, <1>11, ShapeIsRead
<1>13. /\ e \in [1 .. m -> 1 .. Len(text)]
       /\ \A x, y \in 1 .. m : x < y => e[x] < e[y]
  BY <1>2 DEF ReadAt, Enumerates
<1>14. \A x, y \in 1 .. m : x # y => e[x] # e[y]
  <2> TAKE x, y \in 1 .. m
  <2>1. x < y => e[x] < e[y]
    BY <1>13
  <2>2. y < x => e[y] < e[x]
    BY <1>13
  <2>3. e[x] \in Int /\ e[y] \in Int /\ (x = y \/ x < y \/ y < x)
    BY <1>13
  <2> QED
    BY <2>1, <2>2, <2>3
<1>15. n[p] = c /\ n[q] = d
  BY <1>3, <1>4, <1>5
<1>16. \A x \in 1 .. m : u[e[x]] = IF x = q THEN c ELSE IF x = p THEN d ELSE n[x]
  BY <1>3, <1>4, <1>5, <1>13, <1>14, <1>9
<1>17. [x \in 1 .. m |-> u[e[x]]] = [n EXCEPT ![p] = n[q], ![q] = n[p]]
  <2>1. n = [x \in 1 .. m |-> n[x]]
    BY <1>3
  <2> QED
    BY <1>15, <1>16, <2>1
<1>18. p \in 1 .. Len(n) /\ q \in 1 .. Len(n) /\ n[p] # n[q]
  BY <1>3, <1>15
<1>19. PureNumber(u) = [n EXCEPT ![p] = n[q], ![q] = n[p]]
  BY <1>12, <1>17
<1> QED
  BY <1>8, <1>18, <1>19 DEF n

\* Without AByte, all characters are of one byte.
LEMMA PureNumberIsPlain ==
    ASSUME NEW text \in Seq(Characters), AByte \notin Range(text)
    PROVE  text \in Seq(Plain)
<1> DEFINE L == Len(text)
<1>1. L \in Nat /\ text = [i \in 1 .. L |-> text[i]] /\ \A i \in 1 .. L : text[i] \in Characters
  OBVIOUS
<1>2. \A i \in 1 .. L : text[i] # AByte
  BY DEF Range
<1>3. \A i \in 1 .. L : text[i] \in Plain
  BY <1>1, <1>2 DEF Characters, Plain
<1> HIDE DEF L
<1> QED
  BY <1>1, <1>3

\* What makes a number acceptable.
Checks(k, n) ==
    CASE k = "isbn" -> \/ Len(n) = 10 /\ n[10] = CheckDigit(Sum10(n), 11)
                       \/ Len(n) = 13 /\ n[13] = CheckDigit(Sum13(n), 10)
      [] OTHER      -> Len(n) = 8 /\ n[8] = CheckDigit(Sum8(n), 11)

\* A text is accepted if its number can be read and checks.
LEMMA AcceptedChecks ==
    ASSUME NEW k \in {"isbn", "issn"}, NEW text
    PROVE  IsAccepted(k, text) <=> ~HasInvalidCharacters(PureNumber(text)) /\ Checks(k, PureNumber(text))
BY DEF IsAccepted, ISBNIsAccepted, ISSNIsAccepted, Checks

\* The last digit of an ISBN-13 is never X.
LEMMA NumberOf13 ==
    ASSUME NEW n \in [1 .. 13 -> 0 .. 10], \A x \in 1 .. 13 : x # 13 => n[x] \in Digits,
           n[13] = CheckDigit(Sum13(n), 10)
    PROVE  n \in [1 .. 13 -> 0 .. 9]
<1> DEFINE m == [n EXCEPT ![13] = 0]
<1>1. Sum13(n) \in Int
  <2>1. \A x \in 1 .. 13 : n[x] \in 0 .. 10 /\ (x # 13 => n[x] \in 0 .. 9)
    BY DEF Digits
  <2>2. m \in [1 .. 13 -> 0 .. 9]
    BY <2>1
  <2>3. /\ m[1] = n[1] /\ m[2] = n[2] /\ m[3] = n[3] /\ m[4] = n[4] /\ m[5] = n[5] /\ m[6] = n[6]
        /\ m[7] = n[7] /\ m[8] = n[8] /\ m[9] = n[9] /\ m[10] = n[10] /\ m[11] = n[11] /\ m[12] = n[12]
    OBVIOUS
  <2> HIDE DEF m
  <2>4. Sum13(m) \in Nat
    BY <2>2, Sum13IsNat
  <2>5. Sum13(m) = Sum13(n)
    BY <2>3 DEF Sum13
  <2> QED
    BY <2>4, <2>5
<1>2. n[13] \in 0 .. 9
  BY <1>1 DEF CheckDigit
<1>3. \A x \in 1 .. 13 : n[x] \in 0 .. 9
  BY <1>2 DEF Digits
<1> QED
  BY <1>3

\* Digits are numbers.
LEMMA DigitIsNumber == \A d \in Digits : d \in 0 .. 9 /\ d \in 0 .. 10
BY DEF Digits

\* No changed digit passes the check of the number.
LEMMA ChangedNumberFails ==
    ASSUME NEW k \in {"isbn", "issn"}, NEW l \in Nat, NEW n \in [1 .. l -> 0 .. 10],
           \A x \in 1 .. l : x # l => n[x] \in Digits,
           Checks(k, n), NEW p \in 1 .. l, NEW d \in Digits, d # n[p]
    PROVE  ~Checks(k, [n EXCEPT ![p] = d])
<1> DEFINE c == [n EXCEPT ![p] = d]
<1>1. Len(n) = l /\ Len(c) = l
  <2>1. n = [x \in 1 .. l |-> n[x]] /\ c = [x \in 1 .. l |-> IF x = p THEN d ELSE n[x]]
    OBVIOUS
  <2> HIDE DEF c
  <2> QED
    BY <2>1
<1>2. d \in 0 .. 9 /\ d \in 0 .. 10
  BY DigitIsNumber
<1>3. CASE k = "isbn" /\ l = 10
  <2>1. n \in [1 .. 10 -> 0 .. 10] /\ p \in 1 .. 10 /\ n[10] = CheckDigit(Sum10(n), 11)
    BY <1>1, <1>3 DEF Checks
  <2>2. c[10] # CheckDigit(Sum10(c), 11)
    BY <1>2, <2>1, ISBN10FindsWrongDigit
  <2> HIDE DEF c
  <2> QED
    BY <1>1, <1>3, <2>2 DEF Checks, c
<1>4. CASE k = "isbn" /\ l = 13
  <2>1. n \in [1 .. 13 -> 0 .. 10] /\ p \in 1 .. 13 /\ n[13] = CheckDigit(Sum13(n), 10)
    BY <1>1, <1>4 DEF Checks
  <2>2. \A x \in 1 .. 13 : x # 13 => n[x] \in Digits
    BY <1>4
  <2>3. n \in [1 .. 13 -> 0 .. 9]
    BY <2>1, <2>2, NumberOf13
  <2>4. c[13] # CheckDigit(Sum13(c), 10)
    BY <1>2, <2>1, <2>3, ISBN13FindsWrongDigit
  <2> HIDE DEF c
  <2> QED
    BY <1>1, <1>4, <2>4 DEF Checks, c
<1>5. CASE k = "issn"
  <2>1. n \in [1 .. 8 -> 0 .. 10] /\ p \in 1 .. 8 /\ n[8] = CheckDigit(Sum8(n), 11)
    BY <1>1, <1>5 DEF Checks
  <2>2. c[8] # CheckDigit(Sum8(c), 11)
    BY <1>2, <2>1, ISSNFindsWrongDigit
  <2> HIDE DEF c
  <2> QED
    BY <1>1, <1>5, <2>1, <2>2 DEF Checks, c
<1> QED
  BY <1>1, <1>3, <1>4, <1>5 DEF Checks

\* No swapped digits do, in an ISBN-10 or ISSN.
LEMMA SwappedNumberFails ==
    ASSUME NEW k \in {"isbn", "issn"}, NEW l \in Nat, NEW n \in [1 .. l -> 0 .. 10],
           Checks(k, n), l # 13,
           NEW p \in 1 .. l, NEW q \in 1 .. l, n[p] # n[q]
    PROVE  ~Checks(k, [n EXCEPT ![p] = n[q], ![q] = n[p]])
<1> DEFINE c == [n EXCEPT ![p] = n[q], ![q] = n[p]]
           b == [n EXCEPT ![q] = n[p], ![p] = n[q]]
<1>1. Len(n) = l /\ Len(c) = l
  <2>1. /\ n = [x \in 1 .. l |-> n[x]]
        /\ c = [x \in 1 .. l |-> IF x = q THEN n[p] ELSE IF x = p THEN n[q] ELSE n[x]]
    OBVIOUS
  <2> HIDE DEF c
  <2> QED
    BY <2>1
<1>2. c = b
  OBVIOUS
<1>3. p < q \/ q < p
  OBVIOUS
<1>4. CASE k = "isbn"
  <2>1. l = 10 /\ n \in [1 .. 10 -> 0 .. 10] /\ p \in 1 .. 10 /\ q \in 1 .. 10
        /\ n[10] = CheckDigit(Sum10(n), 11)
    BY <1>1, <1>4 DEF Checks
  <2>2. p < q => c[10] # CheckDigit(Sum10(c), 11)
    BY <2>1, ISBN10FindsSwap
  <2>3. q < p => b[10] # CheckDigit(Sum10(b), 11)
    BY <2>1, ISBN10FindsSwap
  <2> HIDE DEF c, b
  <2> QED
    BY <1>1, <1>2, <1>3, <1>4, <2>1, <2>2, <2>3 DEF Checks, c
<1>5. CASE k = "issn"
  <2>1. l = 8 /\ n \in [1 .. 8 -> 0 .. 10] /\ p \in 1 .. 8 /\ q \in 1 .. 8
        /\ n[8] = CheckDigit(Sum8(n), 11)
    BY <1>1, <1>5 DEF Checks
  <2>2. p < q => c[8] # CheckDigit(Sum8(c), 11)
    BY <2>1, ISSNFindsSwap
  <2>3. q < p => b[8] # CheckDigit(Sum8(b), 11)
    BY <2>1, ISSNFindsSwap
  <2> HIDE DEF c, b
  <2> QED
    BY <1>1, <1>2, <1>3, <1>5, <2>1, <2>2, <2>3 DEF Checks, c
<1> QED
  BY <1>4, <1>5

\* The same of the text.
LEMMA ErrorsFound ==
    ASSUME NEW k \in {"isbn", "issn"}, NEW text \in Seq(Plain), IsAccepted(k, text)
    PROVE  /\ \A i \in DOMAIN text, d \in Digits :
                  text[i] \in Digits \ {d} => ~IsAccepted(k, [text EXCEPT ![i] = d])
           /\ Len(PureNumber(text)) # 13 =>
                  \A i, j \in DOMAIN text :
                      text[i] \in Digits /\ text[j] \in Digits /\ text[i] # text[j] =>
                          ~IsAccepted(k, [text EXCEPT ![i] = text[j], ![j] = text[i]])
<1> DEFINE n == PureNumber(text)
<1>1. ~HasInvalidCharacters(n) /\ Checks(k, n)
  BY AcceptedChecks
<1>2. /\ Len(n) \in Nat /\ n \in [1 .. Len(n) -> 0 .. 10]
      /\ \A x \in 1 .. Len(n) : x # Len(n) => n[x] \in Digits
  <2>1. PICK m \in Nat : \E e : ReadAt(text, 1, m, e)
    BY ReadSomehow
  <2>2. PICK e : ReadAt(text, 1, m, e)
    BY <2>1
  <2>3. n \in [1 .. m -> 0 .. 10] /\ Len(n) = m /\ \A x \in 1 .. m : x # m => n[x] \in Digits
    BY <1>1, <2>2, NumberIsRead
  <2> QED
    BY <2>3
<1>3. ASSUME NEW i \in DOMAIN text, NEW d \in Digits, text[i] \in Digits \ {d}
      PROVE  ~IsAccepted(k, [text EXCEPT ![i] = d])
  <2>1. PICK p \in 1 .. Len(n) : n[p] # d /\ PureNumber([text EXCEPT ![i] = d]) = [n EXCEPT ![p] = d]
    BY <1>1, <1>3, ChangeIsRead
  <2> HIDE DEF n
  <2>2. ~Checks(k, [n EXCEPT ![p] = d])
    BY <1>1, <1>2, <2>1, ChangedNumberFails
  <2>3. ~Checks(k, PureNumber([text EXCEPT ![i] = d]))
    BY <2>1, <2>2
  <2> QED
    BY <2>3, AcceptedChecks
<1>4. ASSUME Len(n) # 13, NEW i \in DOMAIN text, NEW j \in DOMAIN text,
             text[i] \in Digits, text[j] \in Digits, text[i] # text[j]
      PROVE  ~IsAccepted(k, [text EXCEPT ![i] = text[j], ![j] = text[i]])
  <2> DEFINE u == [text EXCEPT ![i] = text[j], ![j] = text[i]]
  <2>1. PICK p \in 1 .. Len(n), q \in 1 .. Len(n) :
            n[p] # n[q] /\ PureNumber(u) = [n EXCEPT ![p] = n[q], ![q] = n[p]]
    BY <1>1, <1>4, SwapIsRead
  <2> HIDE DEF n, u
  <2>2. ~Checks(k, [n EXCEPT ![p] = n[q], ![q] = n[p]])
    BY <1>1, <1>2, <1>4, <2>1, SwappedNumberFails
  <2>3. ~IsAccepted(k, u)
    BY <2>1, <2>2, AcceptedChecks
  <2> QED
    BY <2>3 DEF u
<1> QED
  BY <1>3, <1>4

(***************************************************************************)
(* Of ISBNs and ISSNs of any length, with hyphens anywhere: one that       *)
(* passes without a warning would not have passed with a digit changed,    *)
(* nor with two swapped if it is not an ISBN-13, and hyphens make no       *)
(* difference but at the end (unifyISBN(), unifyISSN(), pureNumber()).     *)
(***************************************************************************)
THEOREM NumberErrorsFound == Spec => []NumberErrorsAreFound
<1>1. IInv => NumberErrorsAreFound
  <2> SUFFICES ASSUME IInv, phase = "made",
                      NEW k \in {"isbn", "issn"}, Has(fields, k),
                      AByte \notin Range(ValueOf(fields, k).digits)
               PROVE  LET Accepts(t) == IF k = "isbn" THEN ISBNIsAccepted(t) ELSE ISSNIsAccepted(t)
                          text       == ValueOf(fields, k).digits
                      IN  /\ k \notin warnings =>
                              /\ ~Changed(text, Accepts)
                              /\ Len(PureNumber(text)) # 13 => ~Swapped(text, Accepts)
                          /\ \A i \in 1 .. Len(text) - 1 :
                              text[i] = Hyphen => (Accepts(text) <=> Accepts(RemoveAt(text, i)))
    BY DEF NumberErrorsAreFound
  <2> DEFINE Accepts(t) == IF k = "isbn" THEN ISBNIsAccepted(t) ELSE ISSNIsAccepted(t)
             text == ValueOf(fields, k).digits
  <2>1. text \in Seq(Characters)
    <3> DEFINE v == ValueOf(fields, k)
               f == fields[FindChildNode(fields, k)]
    <3>1. IsList(fields)
      BY DEF IInv, EntriesInv
    <3>2. IsField(f) /\ f.keyword = k /\ v = f.value
      BY <3>1, FoundIsFirst DEF IsList, ValueOf
    <3> HIDE DEF f, v
    <3>3. ValueFits(k, v)
      BY <3>2 DEF IsField
    <3>4. v \in [digits : Seq(Characters)]
      BY <3>3 DEF ValueFits, Characters
    <3> QED
      BY <3>4 DEF v
  <2>2. text \in Seq(Plain)
    BY <2>1, PureNumberIsPlain
  <2>3. k \notin warnings => IsAccepted(k, text)
    BY DEF IInv, NumbersAreJudged
  <2> HIDE DEF text
  <2>4. \A t : Accepts(t) <=> IsAccepted(k, t)
    BY DEF IsAccepted
  <2>5. k \notin warnings => ~Changed(text, Accepts)
    BY <2>2, <2>3, ErrorsFound DEF Changed, IsAccepted
  <2>6. k \notin warnings /\ Len(PureNumber(text)) # 13 => ~Swapped(text, Accepts)
    BY <2>2, <2>3, ErrorsFound DEF Swapped, IsAccepted
  <2>7. ASSUME NEW i \in 1 .. Len(text) - 1, text[i] = Hyphen
        PROVE  Accepts(text) <=> Accepts(RemoveAt(text, i))
    <3>1. PureNumber(RemoveAt(text, i)) = PureNumber(text)
      BY <2>2, <2>7, WithoutHyphen
    <3> QED
      BY <3>1 DEF ISBNIsAccepted, ISSNIsAccepted
  <2> QED
    BY <2>5, <2>6, <2>7 DEF text
<1> QED
  BY <1>1, AlwaysIInv, PTL
=============================================================================
