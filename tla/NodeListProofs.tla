---------------------------- MODULE NodeListProofs ----------------------------
(***************************************************************************)
(* For files of any length: the pointers of the collection make one list,  *)
(* no child list has two owners, and the list implements Collection.       *)
(***************************************************************************)
EXTENDS NodeList, BibNodesProofs

(***************************************************************************)
(* The list from h on, by the pointers nx: its nodes in order.  They get   *)
(* larger, since each one is put in front of those behind it in the file.  *)
(***************************************************************************)
IsWalk(w, h, nx) ==
    /\ w \in Seq(Ids)
    /\ h = IF w = <<>> THEN nullptr ELSE w[1]
    /\ \A k \in 1 .. Len(w) : nx[w[k]] = IF k = Len(w) THEN nullptr ELSE w[k + 1]
    /\ \A j, k \in 1 .. Len(w) : j < k => w[j] < w[k]

LeadsBack(w, pv) ==
    \A k \in 1 .. Len(w) : pv[w[k]] = IF k = 1 THEN nullptr ELSE w[k - 1]

(***************************************************************************)
(* The inductive invariant: w is the list; the nodes that have not been    *)
(* put in front yet are as makePublication() left them.                    *)
(***************************************************************************)
IsList(w) ==
    /\ IsWalk(w, head, next)
    /\ {w[k] : k \in 1 .. Len(w)} = {n \in nodes : n >= first}
    /\ ~freeing => LeadsBack(w, prev)

Untouched ==
    /\ \A m \in 1 .. first - 1 :
          m \in nodes /\ prev[m] = nullptr /\ child[m] = m /\ titleOf[m] = pubs[m].title
    /\ freeing => first = 1

IInv == TypeOK /\ Untouched /\ ChildrenHaveOneOwner /\ \E w : IsList(w)

-----------------------------------------------------------------------------
(***************************************************************************)
(* Walk() meets the nodes of the list.                                     *)
(***************************************************************************)
LEMMA LeastOf ==
    ASSUME NEW S \in SUBSET Nat, S # {}
    PROVE  \E j \in S : \A k \in S : j <= k
<1>1. PICK j \in S : \A k \in S : ~ (<<k, j>> \in OpToRel(<, Nat))
  BY NatLessThanWellFounded, WFMin
<1>2. ASSUME NEW k \in S PROVE j <= k
  <2>1. <<k, j>> \in Nat \X Nat
    OBVIOUS
  <2>2. ~(k < j)
    BY <1>1, <2>1 DEF OpToRel
  <2> QED
    BY <2>2
<1> QED
  BY <1>2

\* The nodes get larger along the walk: it is not longer than the file.
LEMMA WalkIsShort ==
    ASSUME pubs \in Seq(Node), NEW h, NEW w, IsWalk(w, h, next)
    PROVE  Len(w) \in 0 .. Len(pubs)
<1> DEFINE S == {k \in 1 .. Len(w) : w[k] < k}
<1>1. w \in Seq(1 .. Len(pubs)) /\ Len(pubs) \in Nat /\ Len(w) \in Nat
  BY DEF IsWalk, Ids
<1>2. S = {}
  <2> SUFFICES ASSUME S # {} PROVE FALSE
    OBVIOUS
  <2>0. S \in SUBSET Nat
    BY <1>1
  <2>1. PICK j \in S : \A k \in S : j <= k
    <3> HIDE DEF S
    <3> QED
      BY <2>0, LeastOf
  <2>2. j \in 1 .. Len(w) /\ w[j] < j /\ w[j] \in 1 .. Len(pubs)
    BY <1>1, <2>1
  <2>3. CASE j = 1
    BY <2>2, <2>3
  <2>4. CASE j # 1
    <3>1. j - 1 \in 1 .. Len(w) - 1 /\ j - 1 \notin S
      BY <1>1, <2>1, <2>2, <2>4
    <3>2. w[j - 1] >= j - 1 /\ w[j - 1] \in 1 .. Len(pubs)
      BY <1>1, <3>1
    <3>3. w[j - 1] < w[j]
      <4>1. j - 1 \in 1 .. Len(w) /\ j - 1 < j
        BY <1>1, <2>2, <3>1
      <4> QED
        BY <2>2, <4>1 DEF IsWalk
    <3> QED
      BY <1>1, <2>2, <3>2, <3>3
  <2> QED
    BY <2>3, <2>4
<1>3. CASE Len(w) = 0
  BY <1>1, <1>3
<1>4. CASE Len(w) # 0
  <2>1. Len(w) \in 1 .. Len(w) /\ Len(w) \notin S
    BY <1>1, <1>2, <1>4
  <2>2. w[Len(w)] \in 1 .. Len(pubs) /\ w[Len(w)] >= Len(w)
    BY <1>1, <2>1
  <2> QED
    BY <1>1, <2>2
<1> QED
  BY <1>3, <1>4

(***************************************************************************)
(* Walk() finds it.                                                        *)
(***************************************************************************)
LEMMA WalkFinds ==
    ASSUME pubs \in Seq(Node), NEW h, NEW w, IsWalk(w, h, next)
    PROVE  Walk(h) = w
<1> DEFINE n     == Len(pubs)
           after == [m \in Ids \cup {nullptr} |-> IF m = nullptr THEN m ELSE next[m]]
           Steps(f) == [k \in 0 .. n |-> IF k = 0 THEN h ELSE after[f[k - 1]]]
           at    == CHOOSE f : f = Steps(f)
           met   == [k \in 0 .. n |-> IF k < Len(w) THEN w[k + 1] ELSE nullptr]
<1>1. n \in Nat /\ Len(w) \in 0 .. n /\ w \in Seq(1 .. n) /\ Ids = 1 .. n
  <2>1. n \in Nat /\ Ids = 1 .. n
    BY DEF Ids
  <2>2. w \in Seq(Ids)
    BY DEF IsWalk
  <2> QED
    BY <2>1, <2>2, WalkIsShort
<1>2. met = Steps(met)
  <2>1. ASSUME NEW k \in 0 .. n
        PROVE  met[k] = IF k = 0 THEN h ELSE after[met[k - 1]]
    <3>1. CASE k = 0
      BY <1>1, <3>1 DEF IsWalk
    <3>2. CASE k # 0 /\ k - 1 < Len(w)
      <4>1. k \in 1 .. Len(w) /\ k - 1 \in 0 .. n /\ (k - 1) + 1 = k
        BY <1>1, <3>2
      <4>2. met[k - 1] = w[k] /\ w[k] \in 1 .. n
        BY <1>1, <3>2, <4>1
      <4>3. after[met[k - 1]] = next[w[k]]
        BY <1>1, <4>2 DEF nullptr
      <4>4. next[w[k]] = IF k = Len(w) THEN nullptr ELSE w[k + 1]
        BY <4>1 DEF IsWalk
      <4> QED
        BY <1>1, <4>1, <4>3, <4>4
    <3>3. CASE k # 0 /\ ~(k - 1 < Len(w))
      <4>1. k - 1 \in 0 .. n /\ ~(k < Len(w))
        BY <1>1, <3>3
      <4>2. met[k - 1] = nullptr /\ met[k] = nullptr
        BY <3>3, <4>1
      <4> QED
        BY <3>3, <4>2
    <3> QED
      BY <3>1, <3>2, <3>3
  <2> QED
    BY <2>1
<1>3. at = Steps(at)
  BY <1>2
<1>4. \A k \in 0 .. n : at[k] = met[k]
  <2> HIDE DEF at, met, after
  <2> DEFINE S == {k \in 0 .. n : at[k] # met[k]}
  <2> SUFFICES ASSUME S # {} PROVE FALSE
    OBVIOUS
  <2>0. S \in SUBSET Nat
    BY <1>1
  <2>1. PICK j \in S : \A k \in S : j <= k
    <3> HIDE DEF S
    <3> QED
      BY <2>0, LeastOf
  <2>2. j \in 0 .. n /\ at[j] # met[j]
    BY <2>1
  <2>3. at[j] = (IF j = 0 THEN h ELSE after[at[j - 1]])
        /\ met[j] = (IF j = 0 THEN h ELSE after[met[j - 1]])
    BY <1>2, <1>3, <2>2
  <2>4. j # 0 /\ j - 1 \in 0 .. n
    BY <1>1, <2>2, <2>3
  <2>5. j - 1 \notin S
    BY <2>1, <2>2, <2>4
  <2> QED
    BY <2>2, <2>3, <2>4, <2>5
<1>5. Walk(h) = [k \in {i \in 1 .. n + 1 : at[i - 1] # nullptr} |-> at[k - 1]]
  BY DEF Walk
<1> HIDE DEF at, after
<1>6. \A i \in 1 .. n + 1 : at[i - 1] = IF i <= Len(w) THEN w[i] ELSE nullptr
  <2> TAKE i \in 1 .. n + 1
  <2>1. i - 1 \in 0 .. n /\ (i - 1) + 1 = i /\ (i - 1 < Len(w) <=> i <= Len(w))
    BY <1>1
  <2> QED
    BY <1>4, <2>1
<1>7. \A i \in 1 .. Len(w) : w[i] # nullptr
  BY <1>1 DEF nullptr
<1>8. {i \in 1 .. n + 1 : at[i - 1] # nullptr} = 1 .. Len(w)
  <2>1. \A i \in 1 .. n + 1 : at[i - 1] # nullptr <=> i <= Len(w)
    <3> TAKE i \in 1 .. n + 1
    <3>1. CASE i <= Len(w)
      <4>1. i \in 1 .. Len(w)
        BY <1>1, <3>1
      <4> QED
        BY <1>6, <1>7, <3>1, <4>1
    <3>2. CASE ~(i <= Len(w))
      BY <1>6, <3>2
    <3> QED
      BY <3>1, <3>2
  <2>2. \A i : i \in 1 .. Len(w) <=> i \in 1 .. n + 1 /\ i <= Len(w)
    BY <1>1
  <2> QED
    BY <2>1, <2>2
<1>9. w = [k \in 1 .. Len(w) |-> w[k]]
  BY <1>1
<1> QED
  BY <1>1, <1>5, <1>6, <1>8, <1>9

-----------------------------------------------------------------------------
(***************************************************************************)
(* What the pointer operations do to a list.                               *)
(***************************************************************************)
LEMMA InFrontOf ==
    ASSUME pubs \in Seq(Node), NEW w \in Seq(Ids), NEW p \in Ids
    PROVE  LET v == <<p>> \o w
           IN  /\ v \in Seq(Ids) /\ Len(v) = Len(w) + 1 /\ v # <<>> /\ v[1] = p
               /\ Len(w) \in Nat
               /\ \A k \in 1 .. Len(w) : v[k + 1] = w[k]
               /\ \A k \in 2 .. Len(w) + 1 : k - 1 \in 1 .. Len(w) /\ v[k] = w[k - 1]
<1> DEFINE v == <<p>> \o w
<1>1. v \in Seq(Ids) /\ Len(v) = Len(w) + 1 /\ v[1] = p
  OBVIOUS
<1>2. \A k \in 1 .. Len(w) : v[k + 1] = w[k]
  OBVIOUS
<1>3. \A k \in 2 .. Len(w) + 1 : k - 1 \in 1 .. Len(w) /\ v[k] = w[k - 1]
  OBVIOUS
<1>4. v # <<>> /\ Len(w) \in Nat
  BY <1>1
<1> QED
  BY <1>1, <1>2, <1>3, <1>4

LEMMA LinkedInFront ==
    ASSUME pubs \in Seq(Node), NEW w, NEW h, NEW p \in Ids,
           NEW nx \in [Ids -> Pointers], NEW pv \in [Ids -> Pointers],
           IsWalk(w, h, nx), LeadsBack(w, pv),
           \A k \in 1 .. Len(w) : p < w[k], pv[p] = nullptr
    PROVE  /\ IsWalk(<<p>> \o w, p, [nx EXCEPT ![p] = h])
           /\ LeadsBack(<<p>> \o w, SetIf(pv, h, p))
<1> DEFINE v == <<p>> \o w
           n == Len(w)
           mx == [nx EXCEPT ![p] = h]
           qv == SetIf(pv, h, p)
<1>1. w \in Seq(Ids) /\ n \in Nat
  BY DEF IsWalk
<1>2. /\ v \in Seq(Ids) /\ Len(v) = n + 1 /\ v # <<>> /\ v[1] = p
      /\ \A k \in 1 .. n : v[k + 1] = w[k]
      /\ \A k \in 2 .. n + 1 : k - 1 \in 1 .. n /\ v[k] = w[k - 1]
  BY <1>1, InFrontOf
<1>3. Ids \subseteq Nat \ {0}
  BY DEF Ids
<1>4. \A k \in 1 .. n : w[k] \in Ids /\ w[k] # p /\ w[k] # nullptr
  BY <1>1, <1>3 DEF nullptr
<1>5. w = <<>> <=> n = 0
  BY <1>1
<1>6. h = IF n = 0 THEN nullptr ELSE w[1]
  BY <1>5 DEF IsWalk
<1>7. \A k \in 1 .. n : nx[w[k]] = IF k = n THEN nullptr ELSE w[k + 1]
  BY DEF IsWalk
<1>8. \A j, k \in 1 .. n : j < k => w[j] < w[k]
  BY DEF IsWalk
<1>9. \A k \in 1 .. n : pv[w[k]] = IF k = 1 THEN nullptr ELSE w[k - 1]
  BY DEF LeadsBack
<1> HIDE DEF v, n
<1>10. ASSUME NEW k \in 1 .. n + 1
       PROVE  mx[v[k]] = IF k = n + 1 THEN nullptr ELSE v[k + 1]
  <2>1. CASE k = 1
    <3>1. mx[v[k]] = h
      BY <1>2, <2>1
    <3>2. CASE n = 0
      BY <1>6, <2>1, <3>1, <3>2
    <3>3. CASE n # 0
      <4>1. 1 \in 1 .. n
        BY <1>1, <3>3 DEF n
      <4>2. v[1 + 1] = w[1]
        BY <1>2, <4>1
      <4> QED
        BY <1>1, <1>6, <2>1, <3>1, <3>3, <4>2 DEF n
    <3> QED
      BY <3>2, <3>3
  <2>2. CASE k # 1
    <3>1. k \in 2 .. n + 1
      BY <1>1, <2>2 DEF n
    <3>2. k - 1 \in 1 .. n /\ v[k] = w[k - 1] /\ (k - 1) + 1 = k
      BY <1>2, <3>1
    <3>3. mx[v[k]] = nx[w[k - 1]]
      BY <1>4, <3>2
    <3>4. nx[w[k - 1]] = IF k - 1 = n THEN nullptr ELSE w[k]
      BY <1>7, <3>2
    <3>5. CASE k = n + 1
      BY <1>1, <3>3, <3>4, <3>5 DEF n
    <3>6. CASE k # n + 1
      <4>1. k \in 1 .. n /\ k - 1 # n
        BY <1>1, <3>1, <3>6 DEF n
      <4> QED
        BY <1>2, <3>3, <3>4, <3>6, <4>1
    <3> QED
      BY <3>5, <3>6
  <2> QED
    BY <2>1, <2>2
<1>11. ASSUME NEW k \in 1 .. n + 1
       PROVE  qv[v[k]] = IF k = 1 THEN nullptr ELSE v[k - 1]
  <2>1. CASE k = 1
    <3>1. h # p
      <4>1. n # 0 => 1 \in 1 .. n
        BY <1>1 DEF n
      <4> QED
        BY <1>3, <1>4, <1>6, <4>1 DEF nullptr
    <3> QED
      BY <1>2, <2>1, <3>1 DEF SetIf
  <2>2. CASE k = 2
    <3>1. 1 \in 1 .. n /\ v[2] = w[1] /\ n # 0
      <4>1. n # 0 /\ 2 \in 2 .. n + 1
        BY <1>1, <2>2 DEF n
      <4>2. v[2] = w[2 - 1]
        BY <1>2, <4>1
      <4> QED
        BY <1>1, <4>1, <4>2 DEF n
    <3>2. h = w[1] /\ h \in Ids /\ h # nullptr
      BY <1>4, <1>6, <3>1
    <3>3. qv[h] = p
      BY <3>2 DEF SetIf
    <3> QED
      BY <1>2, <2>2, <3>1, <3>2, <3>3
  <2>3. CASE k # 1 /\ k # 2
    <3>1. k \in 2 .. n + 1 /\ k - 1 \in 2 .. n + 1
      BY <1>1, <2>3 DEF n
    <3>2. k - 1 \in 1 .. n /\ v[k] = w[k - 1] /\ v[k - 1] = w[(k - 1) - 1] /\ (k - 1) - 1 \in 1 .. n
      BY <1>2, <3>1
    <3>3. h # w[k - 1]
      <4>1. 1 \in 1 .. n /\ 1 < k - 1 /\ n # 0
        BY <1>1, <3>1, <3>2 DEF n
      <4>2. w[1] < w[k - 1] /\ w[1] \in Nat
        BY <1>3, <1>4, <1>8, <3>2, <4>1
      <4> QED
        BY <1>6, <4>1, <4>2
    <3>4. qv[v[k]] = pv[w[k - 1]]
      BY <1>4, <3>2, <3>3 DEF SetIf
    <3>5. pv[w[k - 1]] = w[(k - 1) - 1]
      <4>1. k - 1 # 1
        BY <2>3, <3>1
      <4> QED
        BY <1>9, <3>2, <4>1
    <3> QED
      BY <2>3, <3>2, <3>4, <3>5
  <2> QED
    BY <2>1, <2>2, <2>3
<1>12. ASSUME NEW j \in 1 .. n + 1, NEW k \in 1 .. n + 1, j < k
       PROVE  v[j] < v[k]
  <2>1. k \in 2 .. n + 1
    BY <1>1, <1>12 DEF n
  <2>2. k - 1 \in 1 .. n /\ v[k] = w[k - 1]
    BY <1>2, <2>1
  <2>3. CASE j = 1
    BY <1>2, <2>2, <2>3 DEF n
  <2>4. CASE j # 1
    <3>1. j \in 2 .. n + 1
      BY <1>1, <2>4 DEF n
    <3>2. j - 1 \in 1 .. n /\ v[j] = w[j - 1] /\ j - 1 < k - 1
      BY <1>2, <1>12, <2>1, <3>1
    <3> QED
      BY <1>8, <2>2, <3>2
  <2> QED
    BY <2>3, <2>4
<1>13. IsWalk(v, p, mx)
  BY <1>2, <1>10, <1>12 DEF IsWalk
<1>14. LeadsBack(v, qv)
  BY <1>2, <1>11 DEF LeadsBack
<1> QED
  BY <1>13, <1>14 DEF v

\* The list without its i-th node.
LEMMA WithoutOne ==
    ASSUME pubs \in Seq(Node), NEW w \in Seq(Ids), NEW i \in 1 .. Len(w)
    PROVE  LET v == Without(w, i)
           IN  /\ v \in Seq(Ids) /\ Len(v) = Len(w) - 1 /\ Len(w) \in Nat \ {0}
               /\ \A k \in 1 .. Len(w) - 1 : v[k] = IF k < i THEN w[k] ELSE w[k + 1]
<1> DEFINE v == Without(w, i)
<1>1. Len(w) \in Nat \ {0}
  OBVIOUS
<1>2. v = [k \in 1 .. Len(w) - 1 |-> IF k < i THEN w[k] ELSE w[k + 1]]
  BY DEF Without
<1>3. \A k \in 1 .. Len(w) - 1 : (IF k < i THEN w[k] ELSE w[k + 1]) \in Ids
  BY <1>1
<1>4. v \in [1 .. Len(w) - 1 -> Ids]
  BY <1>2, <1>3
<1>5. Len(w) - 1 \in Nat
  BY <1>1
<1>6. v \in Seq(Ids) /\ Len(v) = Len(w) - 1
  BY <1>4, <1>5
<1> QED
  BY <1>1, <1>2, <1>6

LEMMA Unlinked ==
    ASSUME pubs \in Seq(Node), NEW w, NEW i \in 1 .. Len(w),
           next \in [Ids -> Pointers], prev \in [Ids -> Pointers],
           IsWalk(w, head, next), LeadsBack(w, prev)
    PROVE  LET v == Without(w, i)
               links == Unlink(w[i])
           IN  /\ links.next \in [Ids -> Pointers] /\ links.prev \in [Ids -> Pointers]
               /\ IsWalk(v, HeadWithout(head, w[i]), links.next)
               /\ LeadsBack(v, links.prev)
               /\ \A m \in Ids : m \notin {w[k] : k \in 1 .. Len(w)} => links.prev[m] = prev[m]
<1> DEFINE n == Len(w)
           v == Without(w, i)
           nx == SetIf(next, prev[w[i]], next[w[i]])
           pv == SetIf(prev, next[w[i]], prev[w[i]])
<1>0. Unlink(w[i]).next = nx /\ Unlink(w[i]).prev = pv
  BY DEF Unlink
<1>1. w \in Seq(Ids) /\ n \in Nat \ {0} /\ i \in 1 .. n
  BY DEF IsWalk
<1>2. /\ v \in Seq(Ids) /\ Len(v) = n - 1
      /\ \A k \in 1 .. n - 1 : v[k] = IF k < i THEN w[k] ELSE w[k + 1]
  BY <1>1, WithoutOne
<1>3. Ids \subseteq Nat \ {0}
  BY DEF Ids
<1>4. \A k \in 1 .. n : w[k] \in Ids /\ w[k] # nullptr /\ w[k] \in Nat
  BY <1>1, <1>3 DEF nullptr
<1>5. \A j, k \in 1 .. n : w[j] = w[k] => j = k
  <2>1. \A j, k \in 1 .. n : j < k => w[j] < w[k]
    BY DEF IsWalk
  <2>2. \A j, k \in 1 .. n : j < k => w[j] # w[k]
    BY <1>4, <2>1
  <2> QED
    BY <1>1, <2>2
<1>6. \A k \in 1 .. n : next[w[k]] = IF k = n THEN nullptr ELSE w[k + 1]
  BY DEF IsWalk
<1>7. \A k \in 1 .. n : prev[w[k]] = IF k = 1 THEN nullptr ELSE w[k - 1]
  BY DEF LeadsBack
<1>8. head = w[1]
  <2>1. w # <<>>
    BY <1>1
  <2> QED
    BY <2>1 DEF IsWalk
<1>9. nx \in [Ids -> Pointers] /\ pv \in [Ids -> Pointers]
  <2>1. next[w[i]] \in Pointers /\ prev[w[i]] \in Pointers
    BY <1>1, <1>4
  <2> QED
    BY <2>1 DEF SetIf
<1> HIDE DEF n, v
\* What follows a node that stays, and what it follows.
<1>10. \A k \in 1 .. n : nx[w[k]] = IF k # n /\ k = i - 1
                                    THEN IF i = n THEN nullptr ELSE w[i + 1]
                                    ELSE next[w[k]]
  <2> TAKE k \in 1 .. n
  <2>1. CASE i = 1
    BY <1>1, <1>7, <2>1 DEF SetIf
  <2>2. CASE i # 1
    <3>1. prev[w[i]] = w[i - 1] /\ i - 1 \in 1 .. n
      BY <1>1, <1>7, <2>2
    <3>2. nx = [next EXCEPT ![w[i - 1]] = next[w[i]]]
      BY <1>4, <3>1 DEF SetIf
    <3>3. k = i - 1 => k # n
      BY <1>1
    <3>4. CASE k = i - 1
      BY <1>1, <1>4, <1>6, <3>2, <3>3, <3>4
    <3>5. CASE k # i - 1
      <4>1. w[k] # w[i - 1]
        BY <1>5, <3>1, <3>5
      <4> QED
        BY <1>4, <3>2, <3>5, <4>1
    <3> QED
      BY <3>4, <3>5
  <2> QED
    BY <2>1, <2>2
<1>11. \A k \in 1 .. n : pv[w[k]] = IF k = i + 1
                                    THEN IF i = 1 THEN nullptr ELSE w[i - 1]
                                    ELSE prev[w[k]]
  <2> TAKE k \in 1 .. n
  <2>1. CASE i = n
    BY <1>1, <1>6, <2>1 DEF SetIf
  <2>2. CASE i # n
    <3>1. next[w[i]] = w[i + 1] /\ i + 1 \in 1 .. n
      BY <1>1, <1>6, <2>2
    <3>2. pv = [prev EXCEPT ![w[i + 1]] = prev[w[i]]]
      BY <1>4, <3>1 DEF SetIf
    <3>3. CASE k = i + 1
      BY <1>1, <1>4, <1>7, <3>2, <3>3
    <3>4. CASE k # i + 1
      <4>1. w[k] # w[i + 1]
        BY <1>5, <3>1, <3>4
      <4> QED
        BY <1>4, <3>2, <3>4, <4>1
    <3> QED
      BY <3>3, <3>4
  <2> QED
    BY <2>1, <2>2
<1> HIDE DEF nx, pv
<1>12. HeadWithout(head, w[i]) = IF v = <<>> THEN nullptr ELSE v[1]
  <2>1. v = <<>> <=> n = 1
    BY <1>1, <1>2
  <2>2. CASE i = 1
    <3>1. HeadWithout(head, w[i]) = next[w[1]]
      BY <1>8, <2>2 DEF HeadWithout
    <3>2. next[w[1]] = IF n = 1 THEN nullptr ELSE w[2]
      BY <1>1, <1>6
    <3>3. n # 1 => v[1] = w[2]
      BY <1>1, <1>2, <2>2
    <3> QED
      BY <2>1, <3>1, <3>2, <3>3
  <2>3. CASE i # 1
    <3>1. HeadWithout(head, w[i]) = w[1]
      BY <1>1, <1>5, <1>8, <2>3 DEF HeadWithout
    <3>2. v[1] = w[1] /\ n # 1
      BY <1>1, <1>2, <2>3
    <3> QED
      BY <2>1, <3>1, <3>2
  <2> QED
    BY <2>2, <2>3
<1>13. ASSUME NEW k \in 1 .. n - 1
       PROVE  nx[v[k]] = IF k = n - 1 THEN nullptr ELSE v[k + 1]
  <2>1. CASE k < i - 1
    <3>1. k \in 1 .. n /\ k + 1 < i /\ k # n - 1 /\ k + 1 \in 1 .. n - 1
      BY <1>1, <2>1
    <3>2. v[k] = w[k] /\ v[k + 1] = w[k + 1]
      BY <1>2, <2>1, <3>1
    <3>3. nx[w[k]] = w[k + 1]
      BY <1>1, <1>6, <1>10, <2>1, <3>1
    <3> QED
      BY <3>1, <3>2, <3>3
  <2>2. CASE k = i - 1
    <3>1. k \in 1 .. n /\ k # n /\ v[k] = w[k]
      BY <1>1, <1>2, <2>2
    <3>2. nx[w[k]] = IF i = n THEN nullptr ELSE w[i + 1]
      BY <1>10, <2>2, <3>1
    <3>3. i # n => v[k + 1] = w[i + 1]
      BY <1>1, <1>2, <2>2
    <3>4. i = n <=> k = n - 1
      BY <1>1, <2>2
    <3> QED
      BY <3>1, <3>2, <3>3, <3>4
  <2>3. CASE k >= i
    <3>1. k + 1 \in 1 .. n /\ k + 1 # i - 1 /\ v[k] = w[k + 1]
      BY <1>1, <1>2, <2>3
    <3>2. nx[w[k + 1]] = IF k + 1 = n THEN nullptr ELSE w[(k + 1) + 1]
      BY <1>6, <1>10, <3>1
    <3>3. k # n - 1 => v[k + 1] = w[(k + 1) + 1]
      BY <1>1, <1>2, <2>3
    <3>4. k + 1 = n <=> k = n - 1
      BY <1>1
    <3> QED
      BY <3>1, <3>2, <3>3, <3>4
  <2> QED
    BY <1>1, <2>1, <2>2, <2>3
<1>14. ASSUME NEW k \in 1 .. n - 1
       PROVE  pv[v[k]] = IF k = 1 THEN nullptr ELSE v[k - 1]
  <2>1. CASE k < i
    <3>1. k \in 1 .. n /\ k # i + 1 /\ v[k] = w[k]
      BY <1>1, <1>2, <2>1
    <3>2. pv[w[k]] = IF k = 1 THEN nullptr ELSE w[k - 1]
      BY <1>7, <1>11, <3>1
    <3>3. k # 1 => v[k - 1] = w[k - 1]
      BY <1>1, <1>2, <2>1
    <3> QED
      BY <3>1, <3>2, <3>3
  <2>2. CASE k = i
    <3>1. k + 1 \in 1 .. n /\ v[k] = w[k + 1]
      BY <1>1, <1>2, <2>2
    <3>2. pv[w[k + 1]] = IF i = 1 THEN nullptr ELSE w[i - 1]
      BY <1>11, <2>2, <3>1
    <3>3. k # 1 => v[k - 1] = w[k - 1]
      BY <1>1, <1>2, <2>2
    <3> QED
      BY <2>2, <3>1, <3>2, <3>3
  <2>3. CASE k > i
    <3>1. k + 1 \in 1 .. n /\ k + 1 # i + 1 /\ k + 1 # 1 /\ v[k] = w[k + 1] /\ k # 1
          /\ (k + 1) - 1 = k
      BY <1>1, <1>2, <2>3
    <3>2. pv[w[k + 1]] = w[k]
      BY <1>7, <1>11, <3>1
    <3>3. v[k - 1] = w[k]
      <4>1. k - 1 \in 1 .. n - 1 /\ ~(k - 1 < i) /\ (k - 1) + 1 = k
        BY <1>1, <2>3
      <4> QED
        BY <1>2, <4>1
    <3> QED
      BY <3>1, <3>2, <3>3
  <2> QED
    BY <1>1, <2>1, <2>2, <2>3
<1>15. ASSUME NEW j \in 1 .. n - 1, NEW k \in 1 .. n - 1, j < k
       PROVE  v[j] < v[k]
  <2>1. PICK a \in 1 .. n : v[j] = w[a] /\ a = IF j < i THEN j ELSE j + 1
    BY <1>1, <1>2
  <2>2. PICK b \in 1 .. n : v[k] = w[b] /\ b = IF k < i THEN k ELSE k + 1
    BY <1>1, <1>2
  <2>3. a < b
    BY <1>1, <1>15, <2>1, <2>2
  <2>4. w[a] < w[b]
    BY <2>3 DEF IsWalk, n
  <2> QED
    BY <2>1, <2>2, <2>4
<1>16. IsWalk(v, HeadWithout(head, w[i]), nx)
  BY <1>2, <1>12, <1>13, <1>15 DEF IsWalk
<1>17. LeadsBack(v, pv)
  BY <1>2, <1>14 DEF LeadsBack
<1>18. ASSUME NEW m \in Ids, m \notin {w[k] : k \in 1 .. n}
       PROVE  pv[m] = prev[m]
  <2>1. next[w[i]] # m
    <3>1. m # nullptr
      BY <1>3 DEF nullptr
    <3>2. i # n => i + 1 \in 1 .. n
      BY <1>1
    <3> QED
      BY <1>1, <1>6, <1>18, <3>1, <3>2
  <2> QED
    BY <2>1 DEF pv, SetIf
<1> QED
  BY <1>0, <1>9, <1>16, <1>17, <1>18 DEF v, n

-----------------------------------------------------------------------------
(***************************************************************************)
(* What Duplicate() finds: the first node of the list with the keyword.    *)
(***************************************************************************)
SameInList(w, node1) == {k \in 1 .. Len(w) : pubs[w[k]].keyword = pubs[node1].keyword}

LEMMA DuplicateFinds ==
    ASSUME pubs \in Seq(Node), NEW w, NEW h, NEW node1, IsWalk(w, h, next)
    PROVE  /\ SameInList(w, node1) = {} => Duplicate(node1, h) = nullptr
           /\ SameInList(w, node1) # {} =>
                \E i \in SameInList(w, node1) :
                    /\ \A j \in SameInList(w, node1) : i <= j
                    /\ Duplicate(node1, h) = w[i]
                    /\ Duplicate(node1, h) # nullptr
<1> DEFINE same == SameInList(w, node1)
<1>1. w \in Seq(Ids) /\ DOMAIN w = 1 .. Len(w)
  BY DEF IsWalk
<1>2. Walk(h) = w
  BY WalkFinds
<1>3. Duplicate(node1, h) = IF same = {} THEN nullptr
                            ELSE w[CHOOSE k \in same : \A j \in same : k <= j]
  BY <1>1, <1>2 DEF Duplicate, SameInList
<1>4. same \in SUBSET (1 .. Len(w)) /\ same \in SUBSET Nat
  BY DEF SameInList
<1> HIDE DEF same
<1>5. ASSUME same # {}
      PROVE  \E i \in same : (\A j \in same : i <= j) /\ Duplicate(node1, h) = w[i]
                             /\ Duplicate(node1, h) # nullptr
  <2> DEFINE i == CHOOSE k \in same : \A j \in same : k <= j
  <2>1. i \in same /\ \A j \in same : i <= j
    BY <1>4, <1>5, LeastOf
  <2>2. Duplicate(node1, h) = w[i]
    BY <1>3, <1>5
  <2>3. w[i] # nullptr
    <3> HIDE DEF i
    <3>1. w[i] \in 1 .. Len(pubs)
      BY <1>1, <1>4, <2>1 DEF Ids
    <3> QED
      BY <3>1 DEF nullptr
  <2> QED
    BY <2>1, <2>2, <2>3
<1> QED
  BY <1>3, <1>5 DEF same

-----------------------------------------------------------------------------
(***************************************************************************)
(* The steps keep the list one list.                                       *)
(***************************************************************************)
LEMMA ListIds ==
    ASSUME TypeOK, NEW w, IsList(w)
    PROVE  /\ w \in Seq(Ids) /\ Len(w) \in Nat /\ Ids = 1 .. Len(pubs) /\ Len(pubs) \in Nat
           /\ pubs \in Seq(Node)
           /\ \A k \in 1 .. Len(w) : w[k] \in Ids /\ w[k] \in nodes /\ w[k] >= first
<1>1. w \in Seq(Ids)
  BY DEF IsList, IsWalk
<1>2. \A k \in 1 .. Len(w) : w[k] \in nodes /\ w[k] >= first
  BY DEF IsList
<1> QED
  BY <1>1, <1>2 DEF TypeOK, Ids

\* The nodes that are met in the new list.
LEMMA MetInFront ==
    ASSUME pubs \in Seq(Node), NEW w \in Seq(Ids), NEW p \in Ids
    PROVE  LET v == <<p>> \o w
           IN  {v[k] : k \in 1 .. Len(v)} = {p} \cup {w[k] : k \in 1 .. Len(w)}
<1> DEFINE v == <<p>> \o w
<1>1. /\ Len(v) = Len(w) + 1 /\ v[1] = p /\ Len(w) \in Nat
      /\ \A k \in 1 .. Len(w) : v[k + 1] = w[k]
      /\ \A k \in 2 .. Len(w) + 1 : k - 1 \in 1 .. Len(w) /\ v[k] = w[k - 1]
  BY InFrontOf
<1> HIDE DEF v
<1>2. ASSUME NEW k \in 1 .. Len(v)
      PROVE  v[k] \in {p} \cup {w[i] : i \in 1 .. Len(w)}
  <2>1. CASE k = 1
    BY <1>1, <2>1
  <2>2. CASE k # 1
    <3>1. k \in 2 .. Len(w) + 1
      BY <1>1, <2>2
    <3> QED
      BY <1>1, <3>1
  <2> QED
    BY <2>1, <2>2
<1>3. 1 \in 1 .. Len(v) /\ \A k \in 1 .. Len(w) : k + 1 \in 1 .. Len(v)
  BY <1>1
<1>4. ASSUME NEW k \in 1 .. Len(w) PROVE \E i \in 1 .. Len(v) : v[i] = w[k]
  BY <1>1, <1>3
<1>5. \E i \in 1 .. Len(v) : v[i] = p
  BY <1>1, <1>3
<1>6. {v[k] : k \in 1 .. Len(v)} \subseteq {p} \cup {w[k] : k \in 1 .. Len(w)}
  BY <1>2
<1>7. p \in {v[k] : k \in 1 .. Len(v)}
  BY <1>5
<1>8. {w[k] : k \in 1 .. Len(w)} \subseteq {v[k] : k \in 1 .. Len(v)}
  BY <1>4
<1>9. {v[k] : k \in 1 .. Len(v)} = {p} \cup {w[k] : k \in 1 .. Len(w)}
  BY <1>6, <1>7, <1>8, Zenon
<1> QED
  BY <1>9 DEF v

\* And in the list without its i-th node.
LEMMA MetWithout ==
    ASSUME pubs \in Seq(Node), NEW w \in Seq(Ids), NEW i \in 1 .. Len(w),
           \A j, k \in 1 .. Len(w) : w[j] = w[k] => j = k
    PROVE  LET v == Without(w, i)
           IN  {v[k] : k \in 1 .. Len(v)} = {w[k] : k \in 1 .. Len(w)} \ {w[i]}
<1> DEFINE v == Without(w, i)
<1>1. /\ Len(v) = Len(w) - 1 /\ Len(w) \in Nat \ {0}
      /\ \A k \in 1 .. Len(w) - 1 : v[k] = IF k < i THEN w[k] ELSE w[k + 1]
  BY WithoutOne
<1> HIDE DEF v
<1>2. ASSUME NEW k \in 1 .. Len(v)
      PROVE  \E j \in 1 .. Len(w) : v[k] = w[j] /\ j # i
  <2>1. CASE k < i
    BY <1>1, <2>1
  <2>2. CASE ~(k < i)
    <3>1. k + 1 \in 1 .. Len(w) /\ k + 1 # i
      BY <1>1, <2>2
    <3> QED
      BY <1>1, <2>2, <3>1
  <2> QED
    BY <2>1, <2>2
<1>3. ASSUME NEW j \in 1 .. Len(w), j # i
      PROVE  \E k \in 1 .. Len(v) : v[k] = w[j]
  <2>1. CASE j < i
    <3>1. j \in 1 .. Len(w) - 1
      BY <1>1, <2>1
    <3> QED
      BY <1>1, <2>1, <3>1
  <2>2. CASE ~(j < i)
    <3>1. j - 1 \in 1 .. Len(w) - 1 /\ ~(j - 1 < i) /\ (j - 1) + 1 = j
      BY <1>1, <1>3, <2>2
    <3> QED
      BY <1>1, <3>1
  <2> QED
    BY <2>1, <2>2
<1>4. {v[k] : k \in 1 .. Len(v)} = {w[k] : k \in 1 .. Len(w)} \ {w[i]}
  <2>1. ASSUME NEW k \in 1 .. Len(v)
        PROVE  v[k] \in {w[j] : j \in 1 .. Len(w)} \ {w[i]}
    <3>1. PICK j \in 1 .. Len(w) : v[k] = w[j] /\ j # i
      BY <1>2
    <3>2. w[j] # w[i]
      BY <3>1
    <3> QED
      BY <3>1, <3>2
  <2>2. ASSUME NEW j \in 1 .. Len(w), w[j] # w[i]
        PROVE  \E k \in 1 .. Len(v) : v[k] = w[j]
    BY <1>3, <2>2
  <2>3. {v[k] : k \in 1 .. Len(v)} \subseteq {w[k] : k \in 1 .. Len(w)} \ {w[i]}
    BY <2>1
  <2>4. {w[k] : k \in 1 .. Len(w)} \ {w[i]} \subseteq {v[k] : k \in 1 .. Len(v)}
    BY <2>2
  <2> QED
    BY <2>3, <2>4
<1> QED
  BY <1>4 DEF v

LEMMA AddNewExtends ==
    ASSUME TypeOK, Untouched, NEW w, IsList(w), AddNew
    PROVE  \E v : v = <<first - 1>> \o w /\ IsList(v)'
<1>a. PICK p : p = first - 1
  OBVIOUS
<1>b. PICK v : v = <<p>> \o w
  OBVIOUS
<1>1. /\ w \in Seq(Ids) /\ Len(w) \in Nat /\ Ids = 1 .. Len(pubs) /\ Len(pubs) \in Nat
      /\ pubs \in Seq(Node)
      /\ \A k \in 1 .. Len(w) : w[k] \in Ids /\ w[k] \in nodes /\ w[k] >= first
  BY ListIds
<1>2. ~freeing /\ ~freeing' /\ first \in 1 .. Len(pubs) /\ first > 1 /\ p \in 1 .. first - 1
      /\ p \in Ids /\ nodes \subseteq Ids
  BY <1>1, <1>a DEF AddNew, TypeOK
<1>3. /\ prev' = SetIf(prev, head, p) /\ next' = [next EXCEPT ![p] = head]
      /\ head' = p /\ first' = p /\ nodes' = nodes /\ pubs' = pubs
  BY <1>a DEF AddNew, PutInFront
<1>4. \A k \in 1 .. Len(w) : p < w[k]
  BY <1>1, <1>2
<1>5. p \in nodes /\ prev[p] = nullptr
  BY <1>2 DEF Untouched
<1>6. IsWalk(v, p, [next EXCEPT ![p] = head]) /\ LeadsBack(v, SetIf(prev, head, p))
  BY <1>1, <1>2, <1>4, <1>5, <1>b, LinkedInFront DEF TypeOK, IsList
<1>7. {v[k] : k \in 1 .. Len(v)} = {n \in nodes : n >= p}
  <2>1. {v[k] : k \in 1 .. Len(v)} = {p} \cup {w[k] : k \in 1 .. Len(w)}
    <3>1. w \in Seq(Ids) /\ p \in Ids /\ pubs \in Seq(Node)
      BY <1>1, <1>2
    <3> QED
      BY <1>b, <3>1, MetInFront, Zenon
  <2>2. \A n \in nodes : n >= p <=> n = p \/ n >= first
    BY <1>1, <1>2, <1>a
  <2>3. {w[k] : k \in 1 .. Len(w)} = {n \in nodes : n >= first}
    BY DEF IsList
  <2> QED
    BY <1>5, <2>1, <2>2, <2>3
<1>8. IsWalk(v, head', next') /\ LeadsBack(v, prev')
  BY <1>3, <1>6
<1>9. IsWalk(v, head, next)'
  BY <1>3, <1>8 DEF IsWalk, Ids
<1>10. LeadsBack(v, prev)'
  BY <1>8 DEF LeadsBack
<1>11. {v[k] : k \in 1 .. Len(v)} = {n \in nodes' : n >= first'}
  BY <1>3, <1>7
<1> QED
  <2>1. IsList(v)'
    BY <1>9, <1>10, <1>11 DEF IsList
  <2> QED
    BY <1>a, <1>b, <2>1

\* No node is in the list twice.
LEMMA ListInjective ==
    ASSUME TypeOK, NEW w, IsList(w)
    PROVE  \A j, k \in 1 .. Len(w) : w[j] = w[k] => j = k
<1>1. Len(w) \in Nat /\ \A k \in 1 .. Len(w) : w[k] \in Nat
  <2>1. /\ Len(w) \in Nat /\ Ids = 1 .. Len(pubs) /\ Len(pubs) \in Nat
        /\ \A k \in 1 .. Len(w) : w[k] \in Ids
    BY ListIds
  <2> QED
    BY <2>1
<1>2. \A j, k \in 1 .. Len(w) : j < k => w[j] < w[k]
  BY DEF IsList, IsWalk
<1>3. \A j, k \in 1 .. Len(w) : j < k => w[j] # w[k]
  BY <1>1, <1>2
<1> QED
  BY <1>1, <1>3

LEMMA AddDuplicateExtends ==
    ASSUME TypeOK, Untouched, NEW w, IsList(w), NEW i \in 1 .. Len(w), AddDuplicate,
           Duplicate(first - 1, head) = w[i]
    PROVE  \E v : v = <<first - 1>> \o Without(w, i) /\ IsList(v)'
<1>a. PICK p : p = first - 1
  OBVIOUS
<1>b. PICK rest : rest = Without(w, i)
  OBVIOUS
<1>c. PICK v : v = <<p>> \o rest
  OBVIOUS
<1>1. /\ w \in Seq(Ids) /\ Len(w) \in Nat /\ Ids = 1 .. Len(pubs) /\ Len(pubs) \in Nat
      /\ pubs \in Seq(Node)
      /\ \A k \in 1 .. Len(w) : w[k] \in Ids /\ w[k] \in nodes /\ w[k] >= first
  BY ListIds
<1>2. ~freeing /\ ~freeing' /\ first \in 1 .. Len(pubs) /\ first > 1 /\ p \in 1 .. first - 1
      /\ p \in Ids /\ nodes \subseteq Ids
  BY <1>1, <1>a DEF AddDuplicate, TypeOK
<1>3. PICK nx, pv : nx = Unlink(w[i]).next /\ pv = Unlink(w[i]).prev
  OBVIOUS
<1>4. PICK h : h = HeadWithout(head, w[i])
  OBVIOUS
<1>5. /\ prev' = SetIf(pv, h, p) /\ next' = [nx EXCEPT ![p] = h]
      /\ head' = p /\ first' = p /\ nodes' = nodes \ {w[i]} /\ pubs' = pubs
  BY <1>a, <1>3, <1>4 DEF AddDuplicate, PutInFront
<1>6. /\ nx \in [Ids -> Pointers] /\ pv \in [Ids -> Pointers]
      /\ IsWalk(rest, h, nx) /\ LeadsBack(rest, pv)
      /\ \A m \in Ids : m \notin {w[k] : k \in 1 .. Len(w)} => pv[m] = prev[m]
  <2>1. /\ next \in [Ids -> Pointers] /\ prev \in [Ids -> Pointers]
        /\ IsWalk(w, head, next) /\ LeadsBack(w, prev) /\ pubs \in Seq(Node)
    BY <1>1, <1>2 DEF TypeOK, IsList
  <2>2. /\ Unlink(w[i]).next \in [Ids -> Pointers] /\ Unlink(w[i]).prev \in [Ids -> Pointers]
        /\ IsWalk(Without(w, i), HeadWithout(head, w[i]), Unlink(w[i]).next)
        /\ LeadsBack(Without(w, i), Unlink(w[i]).prev)
        /\ \A m \in Ids : m \notin {w[k] : k \in 1 .. Len(w)} =>
              Unlink(w[i]).prev[m] = prev[m]
    BY <2>1, Unlinked
  <2> QED
    BY <1>b, <1>3, <1>4, <2>2
<1>7. rest \in Seq(Ids) /\ Len(rest) \in Nat
      /\ {rest[k] : k \in 1 .. Len(rest)} = {w[k] : k \in 1 .. Len(w)} \ {w[i]}
  <2>1. w \in Seq(Ids) /\ pubs \in Seq(Node) /\ \A j, k \in 1 .. Len(w) : w[j] = w[k] => j = k
    BY <1>1, ListInjective
  <2>2. {rest[k] : k \in 1 .. Len(rest)} = {w[k] : k \in 1 .. Len(w)} \ {w[i]}
    <3>1. LET r == Without(w, i)
          IN  {r[k] : k \in 1 .. Len(r)} = {w[k] : k \in 1 .. Len(w)} \ {w[i]}
      BY <2>1, MetWithout
    <3> QED
      BY <1>b, <3>1, Zenon
  <2>3. rest \in Seq(Ids)
    BY <1>6 DEF IsWalk
  <2>4. Len(rest) \in Nat
    BY <2>3
  <2> QED
    BY <2>2, <2>3, <2>4, Zenon
<1>8. \A k \in 1 .. Len(rest) : p < rest[k]
  <2> TAKE k \in 1 .. Len(rest)
  <2>1. PICK j \in 1 .. Len(w) : rest[k] = w[j]
    BY <1>7
  <2>2. w[j] >= first /\ w[j] \in Int /\ first \in Int
    BY <1>1, <1>2
  <2> QED
    BY <1>a, <2>1, <2>2
<1>9. p \in nodes /\ pv[p] = nullptr
  <2>1. p \in nodes /\ prev[p] = nullptr
    BY <1>2 DEF Untouched
  <2>2. p \notin {w[k] : k \in 1 .. Len(w)}
    BY <1>1, <1>2
  <2> QED
    BY <1>2, <1>6, <2>1, <2>2
<1>10. IsWalk(v, p, [nx EXCEPT ![p] = h]) /\ LeadsBack(v, SetIf(pv, h, p))
  BY <1>1, <1>2, <1>6, <1>8, <1>9, <1>c, LinkedInFront
<1>11. {v[k] : k \in 1 .. Len(v)} = {n \in nodes' : n >= p}
  <2>1. {v[k] : k \in 1 .. Len(v)} = {p} \cup {rest[k] : k \in 1 .. Len(rest)}
    <3>1. rest \in Seq(Ids) /\ p \in Ids /\ pubs \in Seq(Node)
      BY <1>1, <1>2, <1>7
    <3> QED
      BY <1>c, <3>1, MetInFront, Zenon
  <2>2. \A n \in nodes : n >= p <=> n = p \/ n >= first
    BY <1>1, <1>2, <1>a
  <2>3. {w[k] : k \in 1 .. Len(w)} = {n \in nodes : n >= first}
    BY DEF IsList
  <2>4. p # w[i]
    BY <1>1, <1>2
  <2> QED
    BY <1>5, <1>7, <1>9, <2>1, <2>2, <2>3, <2>4
<1>12. IsWalk(v, head', next') /\ LeadsBack(v, prev')
  BY <1>5, <1>10
<1>13. IsWalk(v, head, next)'
  BY <1>5, <1>12 DEF IsWalk, Ids
<1>14. LeadsBack(v, prev)'
  BY <1>12 DEF LeadsBack
<1>15. {v[k] : k \in 1 .. Len(v)} = {n \in nodes' : n >= first'}
  BY <1>5, <1>11
<1> QED
  <2>1. IsList(v)'
    BY <1>13, <1>14, <1>15 DEF IsList
  <2> QED
    BY <1>a, <1>b, <1>c, <2>1

LEMMA FreeHeadShortens ==
    ASSUME TypeOK, NEW w, IsList(w), FreeHead
    PROVE  w # <<>> /\ IsList(Without(w, 1))'
<1>1. /\ w \in Seq(Ids) /\ Len(w) \in Nat /\ Ids = 1 .. Len(pubs) /\ Len(pubs) \in Nat
      /\ pubs \in Seq(Node)
      /\ \A k \in 1 .. Len(w) : w[k] \in Ids /\ w[k] \in nodes /\ w[k] >= first
  BY ListIds
<1>2. w # <<>> /\ head = w[1]
  BY DEF FreeHead, IsList, IsWalk
<1>3. 1 \in 1 .. Len(w)
  BY <1>1, <1>2
<1>4. PICK v : v = Without(w, 1)
  OBVIOUS
<1>5. /\ v \in Seq(Ids) /\ Len(v) = Len(w) - 1
      /\ \A k \in 1 .. Len(w) - 1 : v[k] = w[k + 1] /\ k + 1 \in 1 .. Len(w)
  <2>1. /\ v \in Seq(Ids) /\ Len(v) = Len(w) - 1
        /\ \A k \in 1 .. Len(w) - 1 : v[k] = IF k < 1 THEN w[k] ELSE w[k + 1]
    BY <1>1, <1>3, <1>4, WithoutOne
  <2> QED
    BY <1>1, <2>1
<1>6. {v[k] : k \in 1 .. Len(v)} = {w[k] : k \in 1 .. Len(w)} \ {w[1]}
  <2>1. \A j, k \in 1 .. Len(w) : w[j] = w[k] => j = k
    BY ListInjective
  <2>2. LET r == Without(w, 1)
        IN  {r[k] : k \in 1 .. Len(r)} = {w[k] : k \in 1 .. Len(w)} \ {w[1]}
    BY <1>1, <1>3, <2>1, MetWithout
  <2> QED
    BY <1>4, <2>2, Zenon
<1>7. \A k \in 1 .. Len(w) : next[w[k]] = IF k = Len(w) THEN nullptr ELSE w[k + 1]
  BY DEF IsList, IsWalk
<1>8. /\ freeing' /\ next' = next /\ first' = first /\ pubs' = pubs
      /\ head' = next[w[1]] /\ nodes' = nodes \ {w[1]}
  BY <1>2 DEF FreeHead
<1>9. head' = IF v = <<>> THEN nullptr ELSE v[1]
  <2>1. v = <<>> <=> Len(v) = 0
    BY <1>5
  <2>2. next[w[1]] = IF 1 = Len(w) THEN nullptr ELSE w[1 + 1]
    BY <1>3, <1>7
  <2>3. Len(v) # 0 => v[1] = w[1 + 1]
    <3> SUFFICES ASSUME Len(v) # 0 PROVE 1 \in 1 .. Len(w) - 1
      BY <1>5
    <3> QED
      BY <1>1, <1>3, <1>5
  <2>4. Len(v) = 0 <=> 1 = Len(w)
    BY <1>1, <1>3, <1>5
  <2> QED
    BY <1>8, <2>1, <2>2, <2>3, <2>4
<1>10. ASSUME NEW k \in 1 .. Len(v)
       PROVE  next[v[k]] = IF k = Len(v) THEN nullptr ELSE v[k + 1]
  <2>1. v[k] = w[k + 1] /\ k + 1 \in 1 .. Len(w) /\ (k + 1 = Len(w) <=> k = Len(v))
    BY <1>1, <1>5
  <2>2. k # Len(v) => v[k + 1] = w[(k + 1) + 1]
    <3> SUFFICES ASSUME k # Len(v) PROVE k + 1 \in 1 .. Len(w) - 1
      BY <1>5
    <3> QED
      BY <1>1, <1>5
  <2> QED
    BY <1>7, <2>1, <2>2
<1>11. ASSUME NEW j \in 1 .. Len(v), NEW k \in 1 .. Len(v), j < k
       PROVE  v[j] < v[k]
  <2>1. j + 1 \in 1 .. Len(w) /\ k + 1 \in 1 .. Len(w) /\ j + 1 < k + 1
        /\ v[j] = w[j + 1] /\ v[k] = w[k + 1]
    BY <1>1, <1>5, <1>11
  <2> QED
    BY <2>1 DEF IsList, IsWalk
<1>12. IsWalk(v, head', next')
  BY <1>5, <1>8, <1>9, <1>10, <1>11 DEF IsWalk
<1>13. IsWalk(v, head, next)'
  BY <1>8, <1>12 DEF IsWalk, Ids
<1>14. {v[k] : k \in 1 .. Len(v)} = {n \in nodes' : n >= first'}
  <2>1. {w[k] : k \in 1 .. Len(w)} = {n \in nodes : n >= first}
    BY DEF IsList
  <2> QED
    BY <1>6, <1>8, <2>1
<1>15. IsList(v)'
  BY <1>8, <1>13, <1>14 DEF IsList
<1> QED
  BY <1>2, <1>4, <1>15

-----------------------------------------------------------------------------
(***************************************************************************)
(* The inductive invariant.                                                *)
(***************************************************************************)
LEMMA InitIInv == Init => IInv
<1> SUFFICES ASSUME Init PROVE IInv
  OBVIOUS
<1>1. pubs \in Seq(Node) \ {<<>>}
  BY PublishedAssumption DEF Init
<1>2. Ids = 1 .. Len(pubs) /\ Len(pubs) \in Nat \ {0} /\ first = Len(pubs) /\ first \in Ids
  BY <1>1 DEF Init, Ids
<1>3. \A c \in Ids : pubs[c].title \in Titles \cup {NoTitle}
  <2> TAKE c \in Ids
  <2>1. pubs[c] \in Node
    BY <1>1, <1>2
  <2> QED
    BY <2>1 DEF Node
<1>4. TypeOK
  BY <1>1, <1>2, <1>3 DEF Init, TypeOK, Pointers, nullptr
<1>5. Untouched
  BY <1>2 DEF Init, Untouched
<1>6. ChildrenHaveOneOwner
  BY DEF Init, ChildrenHaveOneOwner
<1>7. PICK w : w = <<first>>
  OBVIOUS
<1>8. w \in Seq(Ids) /\ Len(w) = 1 /\ w[1] = first /\ w # <<>>
  BY <1>2, <1>7
<1>9. IsWalk(w, head, next)
  BY <1>2, <1>8 DEF Init, IsWalk
<1>10. LeadsBack(w, prev)
  BY <1>2, <1>8 DEF Init, LeadsBack
<1>11. {w[k] : k \in 1 .. Len(w)} = {n \in nodes : n >= first}
  <2>1. {w[k] : k \in 1 .. Len(w)} = {first}
    BY <1>8
  <2>2. nodes = 1 .. first
    BY <1>2 DEF Init
  <2> QED
    BY <1>2, <2>1, <2>2
<1> QED
  BY <1>4, <1>5, <1>6, <1>9, <1>10, <1>11 DEF IInv, IsList

\* AddDuplicate takes the first node of the list with the keyword.
LEMMA DuplicateOfList ==
    ASSUME TypeOK, NEW w, IsList(w), AddDuplicate
    PROVE  \E i \in SameInList(w, first - 1) :
              /\ i \in 1 .. Len(w)
              /\ \A j \in SameInList(w, first - 1) : i <= j
              /\ Duplicate(first - 1, head) = w[i]
<1>1. pubs \in Seq(Node) /\ IsWalk(w, head, next)
  BY DEF TypeOK, IsList
<1>2. Duplicate(first - 1, head) # nullptr
  BY DEF AddDuplicate
<1>3. SameInList(w, first - 1) # {}
  BY <1>1, <1>2, DuplicateFinds
<1>4. \E i \in SameInList(w, first - 1) :
          (\A j \in SameInList(w, first - 1) : i <= j) /\ Duplicate(first - 1, head) = w[i]
  BY <1>1, <1>3, DuplicateFinds
<1> QED
  BY <1>4 DEF SameInList

LEMMA ListPreserves ==
    ASSUME IInv, [Next]_vars
    PROVE  (\E w : IsList(w))'
<1>1. PICK w : IsList(w)
  BY DEF IInv
<1>2. TypeOK /\ Untouched
  BY DEF IInv
<1>3. CASE AddNew
  <2>1. \E v : IsList(v)'
    BY <1>1, <1>2, <1>3, AddNewExtends
  <2> QED
    BY <2>1
<1>4. CASE AddDuplicate
  <2>1. PICK i \in 1 .. Len(w) : Duplicate(first - 1, head) = w[i]
    BY <1>1, <1>2, <1>4, DuplicateOfList
  <2>2. \E v : IsList(v)'
    BY <1>1, <1>2, <1>4, <2>1, AddDuplicateExtends
  <2> QED
    BY <2>2
<1>5. CASE FreeHead
  <2>1. IsList(Without(w, 1))'
    BY <1>1, <1>2, <1>5, FreeHeadShortens
  <2> QED
    BY <2>1
<1>6. CASE UNCHANGED <<pubs, first, head, next, prev, nodes>> /\ (freeing => freeing')
  <2>1. IsList(w)'
    BY <1>1, <1>6 DEF IsList, IsWalk, LeadsBack, Ids
  <2> QED
    BY <2>1
<1>7. CASE StartFreeing
  BY <1>6, <1>7 DEF StartFreeing
<1>8. CASE Finished \/ UNCHANGED vars
  BY <1>6, <1>8 DEF Finished, vars
<1> QED
  BY <1>3, <1>4, <1>5, <1>7, <1>8 DEF Next

\* What the list says of the nodes that AddDuplicate works on.
LEMMA DuplicateIds ==
    ASSUME IInv, AddDuplicate
    PROVE  LET p == first - 1
               n == Duplicate(p, head)
           IN  /\ p \in Ids /\ p \in nodes /\ child[p] = p /\ prev[p] = nullptr
               /\ titleOf[p] = pubs[p].title
               /\ n \in Ids /\ n \in nodes /\ n >= first /\ n # p
               /\ first \in Ids /\ p \in 1 .. first - 1
               /\ child[n] \in Ids /\ child[n] # p /\ p # nullptr
<1> DEFINE p == first - 1
           n == Duplicate(p, head)
<1>1. PICK w : IsList(w)
  BY DEF IInv
<1>2. TypeOK /\ Untouched /\ ChildrenHaveOneOwner
  BY DEF IInv
<1>3. /\ Ids = 1 .. Len(pubs) /\ Len(pubs) \in Nat
      /\ \A k \in 1 .. Len(w) : w[k] \in Ids /\ w[k] \in nodes /\ w[k] >= first
  BY <1>1, <1>2, ListIds
<1>4. PICK i \in 1 .. Len(w) : n = w[i]
  BY <1>1, <1>2, DuplicateOfList
<1>5. n \in Ids /\ n \in nodes /\ n >= first
  BY <1>3, <1>4
<1> HIDE DEF n
<1>6. first \in Ids /\ p \in 1 .. first - 1 /\ p \in Ids /\ p # nullptr
  BY <1>2, <1>3 DEF TypeOK, AddDuplicate, nullptr
<1>7. p \in nodes /\ child[p] = p /\ prev[p] = nullptr /\ titleOf[p] = pubs[p].title
  BY <1>2, <1>6 DEF Untouched
<1>8. n # p
  BY <1>3, <1>5, <1>6
<1>9. child[n] \in Ids /\ child[n] # p
  <2>1. child[n] \in lists /\ (child[n] = child[p] => n = p)
    BY <1>2, <1>5, <1>7 DEF ChildrenHaveOneOwner
  <2> QED
    BY <1>2, <1>7, <1>8, <2>1 DEF TypeOK
<1> QED
  BY <1>5, <1>6, <1>7, <1>8, <1>9 DEF n

LEMMA TypePreserves ==
    ASSUME IInv, [Next]_vars
    PROVE  TypeOK'
<1>1. TypeOK /\ Untouched /\ pubs \in Seq(Node) \ {<<>>}
  BY DEF IInv, TypeOK
<1>2. PICK w : IsList(w)
  BY DEF IInv
<1>3. Ids = 1 .. Len(pubs) /\ Len(pubs) \in Nat
  BY <1>1, <1>2, ListIds
<1>4. CASE AddNew
  <2>1. first - 1 \in Ids
    BY <1>1, <1>3, <1>4 DEF AddNew, TypeOK
  <2> QED
    BY <1>1, <1>4, <2>1 DEF AddNew, PutInFront, SetIf, TypeOK, Ids, Pointers
<1>5. CASE AddDuplicate
  <2> DEFINE p == first - 1
             n == Duplicate(p, head)
  <2>1. /\ p \in Ids /\ n \in Ids /\ child[n] \in Ids /\ child[p] = p
    BY <1>5, DuplicateIds
  <2>2. /\ KeepTitle(p, n) /\ MoveChildren(p, n) /\ nodes' = nodes \ {n}
        /\ PutInFront(Unlink(n), p, HeadWithout(head, n))
        /\ pubs' = pubs /\ freeing' = freeing
    BY <1>5 DEF AddDuplicate
  <2> HIDE DEF p, n
  <2>3. HeadWithout(head, n) \in Pointers
    BY <1>1, <2>1 DEF HeadWithout, TypeOK
  <2>4. Unlink(n).next \in [Ids -> Pointers] /\ Unlink(n).prev \in [Ids -> Pointers]
    <3>1. next[n] \in Pointers /\ prev[n] \in Pointers
      BY <1>1, <2>1 DEF TypeOK
    <3> QED
      BY <1>1, <3>1 DEF Unlink, SetIf, TypeOK
  <2>5. prev' \in [Ids -> Pointers] /\ next' \in [Ids -> Pointers] /\ head' = p /\ first' = p
    BY <2>1, <2>2, <2>3, <2>4 DEF PutInFront, SetIf, Pointers
  <2>6. titleOf' \in [Ids -> Titles \cup {NoTitle}]
    BY <1>1, <2>1, <2>2 DEF KeepTitle, TypeOK
  <2>7. child' \in [Ids -> Pointers] /\ lists' \subseteq Ids
    BY <1>1, <2>1, <2>2 DEF MoveChildren, TypeOK, Pointers
  <2>8. Ids' = Ids /\ Pointers' = Pointers
    BY <2>2 DEF Ids, Pointers
  <2> QED
    BY <1>1, <2>1, <2>2, <2>5, <2>6, <2>7, <2>8 DEF TypeOK, Pointers
<1>6. CASE StartFreeing
  BY <1>1, <1>6 DEF StartFreeing, TypeOK, Ids, Pointers
<1>7. CASE FreeHead
  <2>1. head \in Ids
    BY <1>1, <1>7 DEF FreeHead, TypeOK, Pointers
  <2>2. next[head] \in Pointers
    BY <1>1, <2>1 DEF TypeOK
  <2> QED
    BY <1>1, <1>7, <2>2 DEF FreeHead, TypeOK, Ids, Pointers
<1>8. CASE Finished \/ UNCHANGED vars
  BY <1>1, <1>8 DEF Finished, vars, TypeOK, Ids, Pointers
<1> QED
  BY <1>4, <1>5, <1>6, <1>7, <1>8 DEF Next

LEMMA UntouchedPreserves ==
    ASSUME IInv, [Next]_vars
    PROVE  Untouched'
<1>1. TypeOK /\ Untouched /\ ChildrenHaveOneOwner
  BY DEF IInv
<1>2. PICK w : IsList(w)
  BY DEF IInv
<1>3. Ids = 1 .. Len(pubs) /\ Len(pubs) \in Nat /\ first \in 1 .. Len(pubs)
      /\ \A k \in 1 .. Len(w) : w[k] \in Ids /\ w[k] \in nodes /\ w[k] >= first
  BY <1>1, <1>2, ListIds DEF TypeOK
<1>4. CASE AddNew
  <2>1. head # nullptr => head >= first
    <3>1. w # <<>> => 1 \in 1 .. Len(w)
      BY <1>1, <1>2, ListIds
    <3> QED
      BY <1>2, <1>3, <3>1 DEF IsList, IsWalk
  <2>2. /\ ~freeing' /\ first' = first - 1 /\ prev' = SetIf(prev, head, first - 1)
        /\ UNCHANGED <<pubs, child, titleOf, nodes>>
    BY <1>4 DEF AddNew, PutInFront
  <2>3. ASSUME NEW m \in 1 .. first' - 1
        PROVE  m \in nodes' /\ prev'[m] = nullptr /\ child'[m] = m /\ titleOf'[m] = pubs'[m].title
    <3>1. m \in 1 .. first - 1 /\ ~(m >= first) /\ m \in Ids
      BY <1>3, <2>2
    <3>2. prev'[m] = prev[m]
      BY <1>1, <2>1, <2>2, <3>1 DEF SetIf, TypeOK
    <3> QED
      BY <1>1, <2>2, <3>1, <3>2 DEF Untouched
  <2> QED
    BY <2>2, <2>3 DEF Untouched
<1>5. CASE AddDuplicate
  <2>1. PICK i \in 1 .. Len(w) : Duplicate(first - 1, head) = w[i]
    BY <1>1, <1>2, <1>5, DuplicateOfList
  <2>2. PICK p, n : p = first - 1 /\ n = w[i]
    OBVIOUS
  <2>3. /\ p \in Ids /\ p \in nodes /\ child[p] = p
        /\ n \in Ids /\ n \in nodes /\ n >= first /\ n # p
        /\ p \in 1 .. first - 1 /\ child[n] \in Ids /\ child[n] # p
    BY <1>5, <2>1, <2>2, DuplicateIds
  <2>4. /\ KeepTitle(p, n) /\ MoveChildren(p, n) /\ nodes' = nodes \ {n}
        /\ PutInFront(Unlink(n), p, HeadWithout(head, n))
        /\ pubs' = pubs /\ freeing' = freeing /\ ~freeing /\ first' = p
    BY <1>5, <2>1, <2>2 DEF AddDuplicate, PutInFront
  <2>5. /\ next \in [Ids -> Pointers] /\ prev \in [Ids -> Pointers]
        /\ IsWalk(w, head, next) /\ LeadsBack(w, prev) /\ pubs \in Seq(Node)
    BY <1>1, <1>2, <2>4 DEF TypeOK, IsList
  <2>6. PICK rest, h : rest = Without(w, i) /\ h = HeadWithout(head, n)
    OBVIOUS
  <2>7. /\ Unlink(n).prev \in [Ids -> Pointers]
        /\ IsWalk(rest, h, Unlink(n).next)
        /\ \A m \in Ids : m \notin {w[k] : k \in 1 .. Len(w)} => Unlink(n).prev[m] = prev[m]
    BY <2>2, <2>5, <2>6, Unlinked
  <2>8. h # nullptr => h >= first
    <3>1. CASE h = head
      <4>1. w # <<>> => 1 \in 1 .. Len(w)
        BY <1>1, <1>2, ListIds
      <4> QED
        BY <1>3, <2>5, <3>1, <4>1 DEF IsWalk
    <3>2. CASE h # head
      <4>1. h = next[w[i]]
        BY <2>2, <2>6, <3>2 DEF HeadWithout
      <4>2. h = IF i = Len(w) THEN nullptr ELSE w[i + 1]
        BY <2>5, <4>1 DEF IsWalk
      <4>3. i # Len(w) => i + 1 \in 1 .. Len(w)
        BY <1>1, <1>2, ListIds
      <4> QED
        BY <1>3, <4>2, <4>3
    <3> QED
      BY <3>1, <3>2
  <2>9. ASSUME NEW m \in 1 .. first' - 1
        PROVE  m \in nodes' /\ prev'[m] = nullptr /\ child'[m] = m /\ titleOf'[m] = pubs'[m].title
    <3>1. m \in 1 .. first - 1 /\ ~(m >= first) /\ m \in Ids /\ m # p
      BY <1>3, <2>2, <2>4
    <3>2. m \in nodes /\ prev[m] = nullptr /\ child[m] = m /\ titleOf[m] = pubs[m].title
      BY <1>1, <3>1 DEF Untouched
    <3>3. m # n
      BY <1>3, <2>3, <3>1
    <3>4. m \notin {w[k] : k \in 1 .. Len(w)}
      BY <1>3, <3>1
    <3>5. prev'[m] = nullptr
      <4>1. Unlink(n).prev[m] = nullptr
        BY <2>7, <3>1, <3>2, <3>4
      <4>2. h # m \/ h = nullptr
        BY <2>8, <3>1
      <4>3. prev' = SetIf(Unlink(n).prev, h, p)
        BY <2>4, <2>6 DEF PutInFront
      <4> QED
        BY <2>7, <3>1, <4>1, <4>2, <4>3 DEF SetIf
    <3>6. child'[m] = m
      BY <1>1, <2>4, <3>1, <3>2, <3>3 DEF MoveChildren, TypeOK
    <3>7. titleOf'[m] = titleOf[m]
      <4>1. child[n] # m
        BY <1>1, <2>3, <3>2, <3>3 DEF ChildrenHaveOneOwner
      <4> QED
        BY <1>1, <2>4, <3>1, <4>1 DEF KeepTitle, TypeOK
    <3> QED
      BY <2>4, <3>2, <3>3, <3>5, <3>6, <3>7
  <2> QED
    BY <2>4, <2>9 DEF Untouched
<1>6. CASE StartFreeing
  BY <1>1, <1>6 DEF StartFreeing, Untouched
<1>7. CASE FreeHead
  <2>1. first = 1 /\ first' = 1
    BY <1>1, <1>7 DEF FreeHead, Untouched
  <2> QED
    BY <2>1 DEF Untouched
<1>8. CASE Finished \/ UNCHANGED vars
  BY <1>1, <1>8 DEF Finished, vars, Untouched
<1> QED
  BY <1>4, <1>5, <1>6, <1>7, <1>8 DEF Next

LEMMA OwnersPreserve ==
    ASSUME IInv, [Next]_vars
    PROVE  ChildrenHaveOneOwner'
<1>1. TypeOK /\ ChildrenHaveOneOwner
  BY DEF IInv
<1>2. CASE AddDuplicate
  <2> DEFINE p == first - 1
             n == Duplicate(p, head)
  <2>1. /\ p \in Ids /\ p \in nodes /\ n \in Ids /\ n \in nodes /\ n # p
    BY <1>2, DuplicateIds
  <2>2. MoveChildren(p, n) /\ nodes' = nodes \ {n}
    BY <1>2 DEF AddDuplicate
  <2> HIDE DEF p, n
  <2>3. nodes \subseteq Ids /\ child \in [Ids -> Pointers]
    BY <1>1 DEF TypeOK
  <2>4. \A m \in nodes' : child'[m] = IF m = p THEN child[n] ELSE child[m]
    BY <2>1, <2>2, <2>3 DEF MoveChildren
  <2>5. lists' = lists \ {child[p]}
    BY <2>2 DEF MoveChildren
  <2>6. /\ \A m \in nodes : child[m] \in lists
        /\ \A m, k \in nodes : child[m] = child[k] => m = k
        /\ lists = {child[m] : m \in nodes}
    BY <1>1 DEF ChildrenHaveOneOwner
  <2>7. \A m \in nodes' : child'[m] \in lists'
    BY <2>1, <2>2, <2>4, <2>5, <2>6
  <2>8. \A m, k \in nodes' : child'[m] = child'[k] => m = k
    BY <2>1, <2>2, <2>4, <2>6
  <2>9. \A c \in lists' : \E m \in nodes' : child'[m] = c
    <3> TAKE c \in lists'
    <3>1. PICK m \in nodes : child[m] = c /\ m # p
      BY <2>5, <2>6
    <3>2. CASE m = n
      BY <2>1, <2>2, <2>4, <3>1, <3>2
    <3>3. CASE m # n
      BY <2>2, <2>4, <3>1, <3>3
    <3> QED
      BY <3>2, <3>3
  <2>10. lists' = {child'[m] : m \in nodes'}
    BY <2>7, <2>9
  <2> QED
    BY <2>7, <2>8, <2>10 DEF ChildrenHaveOneOwner
<1>3. CASE FreeHead
  <2>1. PICK w : IsList(w)
    BY DEF IInv
  <2>2. w # <<>> /\ head = w[1] /\ Len(w) \in Nat
    BY <1>1, <1>3, <2>1, ListIds DEF FreeHead, IsList, IsWalk
  <2>3. 1 \in 1 .. Len(w)
    BY <1>1, <2>1, <2>2, ListIds
  <2>4. head \in nodes
    BY <1>1, <2>1, <2>2, <2>3, ListIds
  <2>5. /\ nodes' = nodes \ {head} /\ lists' = lists \ {child[head]} /\ child' = child
    BY <1>3 DEF FreeHead
  <2> QED
    BY <1>1, <2>4, <2>5 DEF ChildrenHaveOneOwner
<1>4. CASE UNCHANGED <<child, lists, nodes>>
  BY <1>1, <1>4 DEF ChildrenHaveOneOwner
<1> QED
  BY <1>2, <1>3, <1>4 DEF Next, AddNew, StartFreeing, Finished, vars

LEMMA Invariance == Spec => []IInv
<1>1. IInv /\ [Next]_vars => IInv'
  BY TypePreserves, UntouchedPreserves, OwnersPreserve, ListPreserves DEF IInv
<1> QED
  BY <1>1, InitIInv, PTL DEF Spec

(***************************************************************************)
(* Every variable keeps its type, the pointers that of a node or null.     *)
(***************************************************************************)
THEOREM TypeCorrect == Spec => []TypeOK
<1>1. IInv => TypeOK
  BY DEF IInv
<1> QED
  BY <1>1, Invariance, PTL

(***************************************************************************)
(* Nothing is freed twice or leaked: makePublicationCollection() leaves    *)
(* every child list with exactly one node that will free it.               *)
(***************************************************************************)
THEOREM OwnersAreOne == Spec => []ChildrenHaveOneOwner
<1>1. IInv => ChildrenHaveOneOwner
  BY DEF IInv
<1> QED
  BY <1>1, Invariance, PTL

\* What the invariant says of the walk from the head.
LEMMA SoundList == IInv => ListIsSound
<1> SUFFICES ASSUME IInv PROVE ListIsSound
  OBVIOUS
<1>1. PICK w : IsList(w)
  BY DEF IInv
<1>2. TypeOK
  BY DEF IInv
<1>3. w \in Seq(Ids) /\ Len(w) \in Nat /\ DOMAIN w = 1 .. Len(w) /\ pubs \in Seq(Node)
  BY <1>1, <1>2, ListIds
<1>4. Walk(head) = w
  BY <1>1, <1>3, WalkFinds DEF IsList
<1>5. w # <<>> => next[Last(w)] = nullptr
  <2> SUFFICES ASSUME w # <<>> PROVE next[Last(w)] = nullptr
    OBVIOUS
  <2>1. Len(w) \in 1 .. Len(w)
    BY <1>3
  <2> QED
    BY <1>1, <2>1 DEF IsList, IsWalk, Last
<1> QED
  BY <1>1, <1>3, <1>4, <1>5 DEF ListIsSound, IsList, LeadsBack

(***************************************************************************)
(* The walk along the next pointers ends, meets exactly the nodes that     *)
(* were put in front and not deleted, and the prev pointers lead back.     *)
(***************************************************************************)
THEOREM ListAlwaysSound == Spec => []ListIsSound
  BY SoundList, Invariance, PTL

-----------------------------------------------------------------------------
(***************************************************************************)
(* Read along the pointers, the list is the collection of Collection.      *)
(***************************************************************************)
LEMMA ReadsList ==
    \A w : TypeOK /\ IsList(w) => ListOf(head) = [k \in 1 .. Len(w) |-> NodeOf(w[k])]
<1> SUFFICES ASSUME NEW w, TypeOK, IsList(w)
             PROVE  ListOf(head) = [k \in 1 .. Len(w) |-> NodeOf(w[k])]
  OBVIOUS
<1>1. w \in Seq(Ids) /\ DOMAIN w = 1 .. Len(w) /\ pubs \in Seq(Node)
  BY ListIds
<1>2. Walk(head) = w
  BY <1>1, WalkFinds DEF IsList
<1> QED
  BY <1>1, <1>2 DEF ListOf

\* What is read are nodes.
LEMMA ListNodes ==
    ASSUME IInv, NEW w, IsList(w)
    PROVE  [k \in 1 .. Len(w) |-> NodeOf(w[k])] \in Seq(Node)
<1>1. TypeOK /\ ChildrenHaveOneOwner
  BY DEF IInv
<1>2. /\ Len(w) \in Nat /\ Ids = 1 .. Len(pubs) /\ pubs \in Seq(Node)
      /\ \A k \in 1 .. Len(w) : w[k] \in Ids /\ w[k] \in nodes
  BY <1>1, ListIds
<1>3. ASSUME NEW k \in 1 .. Len(w) PROVE NodeOf(w[k]) \in Node
  <2>1. pubs[w[k]] \in Node /\ child[w[k]] \in Ids
    BY <1>1, <1>2 DEF ChildrenHaveOneOwner, TypeOK
  <2>2. pubs[child[w[k]]] \in Node /\ titleOf[child[w[k]]] \in Titles \cup {NoTitle}
    BY <1>1, <1>2, <2>1 DEF TypeOK
  <2> QED
    BY <2>1, <2>2 DEF NodeOf, Node
<1> QED
  BY <1>2, <1>3

LEMMA InitImplements == Init => Sequences!Init
<1> SUFFICES ASSUME Init PROVE Sequences!Init
  OBVIOUS
<1>1. PICK w : IsList(w)
  BY InitIInv DEF IInv
<1>2. IInv /\ TypeOK
  BY InitIInv DEF IInv
<1>3. pubs \in Seq(Node) \ {<<>>} /\ Len(pubs) \in Nat \ {0} /\ first = Len(pubs)
  BY PublishedAssumption DEF Init
<1>4. SubSeq(pubs, 1, first - 1) = Sequences!Front(pubs)
  BY <1>3 DEF Sequences!Front
<1>5. ListOf(head) = <<Sequences!Last(pubs)>>
  <2>1. w = <<first>>
    <3>1. {w[k] : k \in 1 .. Len(w)} = {first}
      <4>1. {n \in nodes : n >= first} = {first}
        BY <1>3 DEF Init, Ids
      <4> QED
        BY <1>1, <4>1 DEF IsList
    <3>2. w \in Seq(Ids) /\ Len(w) \in Nat /\ \A j, k \in 1 .. Len(w) : w[j] = w[k] => j = k
      BY <1>1, <1>2, ListIds, ListInjective
    <3>3. Len(w) = 1
      <4>1. Len(w) # 0
        BY <3>1, <3>2
      <4>2. ~(Len(w) > 1)
        <5> SUFFICES ASSUME Len(w) > 1 PROVE FALSE
          OBVIOUS
        <5>1. 1 \in 1 .. Len(w) /\ 2 \in 1 .. Len(w)
          BY <3>2
        <5>2. w[1] = first /\ w[2] = first
          BY <3>1, <5>1
        <5> QED
          BY <3>2, <5>1, <5>2
      <4>3. Len(w) \in Nat
        BY <3>2
      <4>4. \A n \in Nat : n # 0 /\ ~(n > 1) => n = 1
        OBVIOUS
      <4> QED
        BY <4>1, <4>2, <4>3, <4>4, Zenon
    <3> QED
      BY <3>1, <3>2, <3>3
  <2>2. ListOf(head) = [k \in 1 .. 1 |-> NodeOf(first)]
    <3>1. ListOf(head) = [k \in 1 .. Len(w) |-> NodeOf(w[k])]
      BY <1>1, <1>2, ReadsList
    <3>2. Len(w) = 1 /\ w[1] = first
      BY <2>1
    <3> QED
      BY <3>1, <3>2
  <2>3. NodeOf(first) = pubs[first]
    <3>1. pubs[first] \in Node /\ child[first] = first /\ titleOf[first] = pubs[first].title
      BY <1>3 DEF Init, Ids
    <3> QED
      BY <3>1 DEF NodeOf, Node
  <2> QED
    BY <1>3, <2>2, <2>3 DEF Sequences!Last
<1> QED
  BY <1>3, <1>4, <1>5 DEF Sequences!Init, Sequences!Node, Sequences!Sources, Node, Sources

\* The publications that wait: those before the first one in the list.
LEMMA WaitingOnes ==
    ASSUME TypeOK, first > 1
    PROVE  LET waiting == SubSeq(pubs, 1, first - 1)
           IN  /\ waiting # <<>>
               /\ Sequences!Last(waiting) = pubs[first - 1]
               /\ Sequences!Front(waiting) = SubSeq(pubs, 1, (first - 1) - 1)
<1>1. pubs \in Seq(Node) /\ first \in 1 .. Len(pubs) /\ Len(pubs) \in Nat
  BY DEF TypeOK, Ids
<1> DEFINE waiting == SubSeq(pubs, 1, first - 1)
<1>2. /\ waiting \in Seq(Node) /\ Len(waiting) = first - 1
      /\ \A k \in 1 .. first - 1 : waiting[k] = pubs[k]
  BY <1>1
<1>3. waiting # <<>> /\ Sequences!Last(waiting) = pubs[first - 1]
  BY <1>1, <1>2 DEF Sequences!Last
<1>4. Sequences!Front(waiting) = SubSeq(pubs, 1, (first - 1) - 1)
  BY <1>1, <1>2 DEF Sequences!Front
<1> QED
  BY <1>3, <1>4

\* Collection and NodeList have the same makePublicationCollection().
LEMMA SameOperator ==
    \A node1, node2 :
        Sequences!MakePublicationCollection(node1, node2) = MakePublicationCollection(node1, node2)
  BY DEF Sequences!MakePublicationCollection, Sequences!SameKeyword, Sequences!FirstWithKeyword,
         Sequences!Reuse, Sequences!KeptTitle, Sequences!Without,
         MakePublicationCollection, SameKeyword, FirstWithKeyword, Reuse, KeptTitle, Without

LEMMA ReadsNextList ==
    (\A w : TypeOK /\ IsList(w) => ListOf(head) = [k \in 1 .. Len(w) |-> NodeOf(w[k])])'
  BY ReadsList, PTL

LEMMA AddNewImplements ==
    ASSUME IInv, TypeOK', AddNew
    PROVE  Sequences!Add
<1>1. PICK w : IsList(w)
  BY DEF IInv
<1>2. TypeOK /\ Untouched
  BY DEF IInv
<1>a. PICK p : p = first - 1
  OBVIOUS
<1>b. PICK list : list = [k \in 1 .. Len(w) |-> NodeOf(w[k])]
  OBVIOUS
<1>3. PICK v : v = <<p>> \o w /\ IsList(v)'
  BY <1>1, <1>2, <1>a, AddNewExtends
<1>4. ListOf(head) = list /\ list \in Seq(Node) /\ Len(list) = Len(w)
  <2>1. ListOf(head) = list /\ list \in Seq(Node)
    BY <1>1, <1>2, <1>b, ReadsList, ListNodes
  <2>2. Len(w) \in Nat
    BY <1>1, <1>2, ListIds
  <2> QED
    BY <1>b, <2>1, <2>2
<1>5. /\ w \in Seq(Ids) /\ Len(w) \in Nat /\ Ids = 1 .. Len(pubs) /\ pubs \in Seq(Node)
      /\ \A k \in 1 .. Len(w) : w[k] \in Ids /\ w[k] \in nodes /\ w[k] >= first
  BY <1>1, <1>2, ListIds
<1>6. /\ first > 1 /\ first \in 1 .. Len(pubs) /\ p \in 1 .. first - 1 /\ p \in Ids /\ first' = p
      /\ Duplicate(p, head) = nullptr
      /\ UNCHANGED <<pubs, child, titleOf, nodes, lists, freeing>>
  BY <1>2, <1>5, <1>a DEF AddNew, TypeOK, PutInFront
<1>7. MakePublicationCollection(pubs[p], list) = <<pubs[p]>> \o list
  <2>1. SameInList(w, p) = {}
    BY <1>1, <1>5, <1>6, DuplicateFinds DEF IsList
  <2>2. \A k \in DOMAIN list : k \in 1 .. Len(w) /\ list[k].keyword = pubs[w[k]].keyword
    BY <1>b DEF NodeOf
  <2>3. SameKeyword(list, pubs[p].keyword) = {}
    BY <2>1, <2>2 DEF SameInList, SameKeyword
  <2> QED
    BY <2>3 DEF MakePublicationCollection
<1>8. ListOf(head)' = <<pubs[p]>> \o list
  <2>1. ListOf(head)' = [k \in 1 .. Len(v) |-> NodeOf(v[k])']
    BY ONLY TypeOK', <1>3, ReadsNextList
  <2>2. \A m : NodeOf(m)' = NodeOf(m)
    BY <1>6 DEF NodeOf
  <2>3. NodeOf(p) = pubs[p]
    <3>1. child[p] = p /\ titleOf[p] = pubs[p].title /\ pubs[p] \in Node
      BY <1>2, <1>5, <1>6 DEF Untouched
    <3> QED
      BY <3>1 DEF NodeOf, Node
  <2>4. /\ Len(v) = Len(w) + 1 /\ v[1] = p
        /\ \A k \in 2 .. Len(w) + 1 : k - 1 \in 1 .. Len(w) /\ v[k] = w[k - 1]
    BY <1>3, <1>5, <1>6, InFrontOf
  <2>5. /\ <<pubs[p]>> \o list \in Seq(Node) /\ Len(<<pubs[p]>> \o list) = Len(w) + 1
        /\ (<<pubs[p]>> \o list)[1] = pubs[p]
        /\ \A k \in 1 .. Len(w) + 1 : k # 1 => (<<pubs[p]>> \o list)[k] = list[k - 1]
    <3>1. pubs[p] \in Node
      BY <1>5, <1>6
    <3> QED
      BY <1>4, <3>1, InFront
  <2>6. ASSUME NEW k \in 1 .. Len(w) + 1
        PROVE  NodeOf(v[k])' = (<<pubs[p]>> \o list)[k]
    <3>1. CASE k = 1
      BY <2>2, <2>3, <2>4, <2>5, <3>1
    <3>2. CASE k # 1
      <4>1. k - 1 \in 1 .. Len(w) /\ v[k] = w[k - 1]
        BY <1>5, <2>4, <3>2
      <4>2. NodeOf(v[k])' = NodeOf(w[k - 1])
        BY <2>2, <4>1
      <4>3. list[k - 1] = NodeOf(w[k - 1])
        BY <1>b, <4>1
      <4> QED
        BY <2>5, <3>2, <4>2, <4>3
    <3> QED
      BY <3>1, <3>2
  <2>7. PICK r : r = <<pubs[p]>> \o list
    OBVIOUS
  <2>8. r = [k \in 1 .. Len(w) + 1 |-> r[k]]
    BY <2>5, <2>7
  <2> QED
    BY <2>1, <2>4, <2>6, <2>7, <2>8
<1>9. /\ SubSeq(pubs, 1, first - 1) # <<>>
      /\ Sequences!Last(SubSeq(pubs, 1, first - 1)) = pubs[p]
      /\ SubSeq(pubs, 1, first - 1)' = Sequences!Front(SubSeq(pubs, 1, first - 1))
  BY <1>2, <1>6, <1>a, WaitingOnes
<1> QED
  BY <1>4, <1>6, <1>7, <1>8, <1>9, SameOperator DEF Sequences!Add

LEMMA AddDuplicateImplements ==
    ASSUME IInv, TypeOK', AddDuplicate
    PROVE  Sequences!Add
<1>1. PICK w : IsList(w)
  BY DEF IInv
<1>2. TypeOK /\ Untouched /\ ChildrenHaveOneOwner
  BY DEF IInv
<1>a. PICK p, n, c : p = first - 1 /\ n = Duplicate(first - 1, head) /\ c = child[n]
  OBVIOUS
<1>b. PICK list : list = [k \in 1 .. Len(w) |-> NodeOf(w[k])]
  OBVIOUS
<1>3. PICK i \in SameInList(w, p) :
          /\ i \in 1 .. Len(w)
          /\ \A j \in SameInList(w, p) : i <= j
          /\ n = w[i]
  BY <1>1, <1>2, <1>a, DuplicateOfList
<1>c. PICK rest, others : rest = Without(w, i) /\ others = Without(list, i)
  OBVIOUS
<1>4. PICK v : v = <<p>> \o rest /\ IsList(v)'
  BY <1>1, <1>2, <1>3, <1>a, <1>c, AddDuplicateExtends
<1>5. ListOf(head) = list /\ list \in Seq(Node) /\ Len(list) = Len(w) /\ DOMAIN list = 1 .. Len(w)
  <2>1. ListOf(head) = list /\ list \in Seq(Node)
    BY <1>1, <1>2, <1>b, ReadsList, ListNodes
  <2>2. Len(w) \in Nat
    BY <1>1, <1>2, ListIds
  <2> QED
    BY <1>b, <2>1, <2>2
<1>6. /\ w \in Seq(Ids) /\ Len(w) \in Nat /\ Ids = 1 .. Len(pubs) /\ pubs \in Seq(Node)
      /\ \A k \in 1 .. Len(w) : w[k] \in Ids /\ w[k] \in nodes /\ w[k] >= first
  BY <1>1, <1>2, ListIds
<1>7. /\ p \in Ids /\ p \in nodes /\ child[p] = p /\ titleOf[p] = pubs[p].title
      /\ n \in Ids /\ n \in nodes /\ n # p /\ first > 1
      /\ p \in 1 .. first - 1 /\ c \in Ids /\ c # p
  BY <1>a, DuplicateIds DEF AddDuplicate
<1>8. /\ KeepTitle(p, n) /\ MoveChildren(p, n) /\ pubs' = pubs /\ first' = p
  BY <1>a DEF AddDuplicate, PutInFront
<1>9. MakePublicationCollection(pubs[p], list) = <<Reuse(pubs[p], list[i])>> \o others
  <2>1. \A k \in 1 .. Len(w) : list[k].keyword = pubs[w[k]].keyword
    BY <1>b DEF NodeOf
  <2>2. SameKeyword(list, pubs[p].keyword) = SameInList(w, p)
    BY <1>5, <2>1 DEF SameInList, SameKeyword
  <2>3. \A j \in SameInList(w, p) : j \in Int
    BY DEF SameInList
  <2>4. \A k \in SameInList(w, p) : (\A j \in SameInList(w, p) : k <= j) => k = i
    BY <1>3, <2>3
  <2>5. FirstWithKeyword(list, pubs[p].keyword) = i
    BY <1>3, <2>2, <2>4 DEF FirstWithKeyword
  <2>6. SameKeyword(list, pubs[p].keyword) # {}
    BY <1>3, <2>2
  <2> QED
    BY <1>c, <2>5, <2>6 DEF MakePublicationCollection
\* The new head has the fields of n, and the other nodes of the list theirs.
<1>10. NodeOf(p)' = Reuse(pubs[p], list[i])
  <2>1. child'[p] = c
    BY <1>2, <1>7, <1>8, <1>a DEF MoveChildren, TypeOK
  <2>2. titleOf'[c] = KeptTitle(pubs[p], list[i])
    <3>1. list[i].title = titleOf[c]
      BY <1>3, <1>a, <1>b DEF NodeOf
    <3>2. titleOf' = IF titleOf[p] # NoTitle /\ titleOf[c] # NoTitle
                     THEN [titleOf EXCEPT ![c] = titleOf[p]] ELSE titleOf
      BY <1>7, <1>8, <1>a DEF KeepTitle
    <3>3. titleOf \in [Ids -> Titles \cup {NoTitle}]
      BY <1>2 DEF TypeOK
    <3> QED
      BY <1>7, <3>1, <3>2, <3>3 DEF KeptTitle
  <2>3. list[i].rest = pubs[c].rest
    BY <1>3, <1>a, <1>b DEF NodeOf
  <2>4. NodeOf(p)' = [keyword |-> pubs[p].keyword, value |-> pubs[p].value,
                      title |-> titleOf'[c], rest |-> pubs[c].rest]
    BY <1>8, <2>1 DEF NodeOf
  <2>5. pubs[p] \in Node /\ list[i] \in Node
    BY <1>3, <1>5, <1>6, <1>7
  <2>6. PICK r : r = Reuse(pubs[p], list[i])
    OBVIOUS
  <2>7. /\ r \in Node /\ r.keyword = pubs[p].keyword /\ r.value = pubs[p].value
        /\ r.rest = list[i].rest /\ r.title = KeptTitle(pubs[p], list[i])
    BY <2>5, <2>6, ReuseFields
  <2>8. r = [keyword |-> r.keyword, value |-> r.value, title |-> r.title, rest |-> r.rest]
    BY <2>7 DEF Node
  <2> QED
    BY <2>2, <2>3, <2>4, <2>6, <2>7, <2>8
<1>11. \A m \in nodes : m # p /\ m # n => NodeOf(m)' = NodeOf(m)
  <2> TAKE m \in nodes
  <2> SUFFICES ASSUME m # p, m # n PROVE NodeOf(m)' = NodeOf(m)
    OBVIOUS
  <2>1. m \in Ids /\ child'[m] = child[m]
    BY <1>2, <1>8 DEF MoveChildren, TypeOK
  <2>2. child[m] # c /\ child[m] \in Ids
    BY <1>2, <1>7, <1>a DEF ChildrenHaveOneOwner, TypeOK
  <2>3. titleOf'[child[m]] = titleOf[child[m]]
    BY <1>2, <1>8, <1>a, <2>2 DEF KeepTitle, TypeOK
  <2> QED
    BY <1>8, <2>1, <2>3 DEF NodeOf
<1>12. ListOf(head)' = <<Reuse(pubs[p], list[i])>> \o others
  <2>1. ListOf(head)' = [k \in 1 .. Len(v) |-> NodeOf(v[k])']
    BY ONLY TypeOK', <1>4, ReadsNextList
  <2>2. /\ rest \in Seq(Ids) /\ Len(rest) = Len(w) - 1 /\ Len(w) \in Nat \ {0}
        /\ \A k \in 1 .. Len(w) - 1 : rest[k] = IF k < i THEN w[k] ELSE w[k + 1]
    BY <1>3, <1>6, <1>c, WithoutOne
  <2>3. /\ others \in Seq(Node) /\ Len(others) = Len(w) - 1
        /\ \A k \in 1 .. Len(w) - 1 : others[k] = IF k < i THEN list[k] ELSE list[k + 1]
    <3>1. list \in Seq(Node) /\ i \in DOMAIN list
      BY <1>3, <1>5
    <3>2. /\ Without(list, i) \in Seq(Node)
          /\ Len(Without(list, i)) = Len(list) - 1
          /\ \A j \in 1 .. Len(list) - 1 :
                Without(list, i)[j] = IF j < i THEN list[j] ELSE list[j + 1]
      BY <3>1, WithoutFields
    <3> QED
      BY <1>5, <1>c, <3>2
  <2>4. /\ Len(v) = Len(w) /\ v[1] = p
        /\ \A k \in 2 .. Len(w) : k - 1 \in 1 .. Len(w) - 1 /\ v[k] = rest[k - 1]
    <3>1. /\ Len(v) = Len(rest) + 1 /\ v[1] = p
          /\ \A k \in 2 .. Len(rest) + 1 : k - 1 \in 1 .. Len(rest) /\ v[k] = rest[k - 1]
      BY <1>4, <1>6, <1>7, <2>2, InFrontOf
    <3> QED
      BY <2>2, <3>1
  <2>5. PICK r : r = <<Reuse(pubs[p], list[i])>> \o others
    OBVIOUS
  <2>6. /\ r \in Seq(Node) /\ Len(r) = Len(w)
        /\ r[1] = Reuse(pubs[p], list[i])
        /\ \A k \in 1 .. Len(w) : k # 1 => r[k] = others[k - 1]
    <3>1. Reuse(pubs[p], list[i]) \in Node
      BY <1>3, <1>5, <1>6, <1>7, ReuseFields
    <3>2. /\ r \in Seq(Node) /\ Len(r) = Len(others) + 1 /\ DOMAIN r = 1 .. Len(others) + 1
          /\ r[1] = Reuse(pubs[p], list[i])
          /\ \A k \in DOMAIN r : k # 1 => r[k] = others[k - 1]
      BY <2>3, <2>5, <3>1, InFront
    <3>3. Len(others) + 1 = Len(w)
      BY <2>2, <2>3
    <3> QED
      BY <3>2, <3>3
  <2>7. \A k \in 1 .. Len(w) : k # i => w[k] # n /\ w[k] # p
    <3>1. \A j, k \in 1 .. Len(w) : w[j] = w[k] => j = k
      BY <1>1, <1>2, ListInjective
    <3>2. first \in Int /\ \A k \in 1 .. Len(w) : w[k] \in Int
      BY <1>2, <1>6 DEF TypeOK
    <3> QED
      BY <1>3, <1>6, <1>7, <3>1, <3>2
  <2>8. ASSUME NEW k \in 1 .. Len(w)
        PROVE  NodeOf(v[k])' = r[k]
    <3>1. CASE k = 1
      BY <1>10, <2>4, <2>6, <3>1
    <3>2. CASE k # 1
      <4>1. k \in 2 .. Len(w) /\ k - 1 \in 1 .. Len(w) - 1
        BY <2>2, <3>2
      <4>2. PICK j \in 1 .. Len(w) : j # i /\ rest[k - 1] = w[j] /\ others[k - 1] = list[j]
        <5>1. CASE k - 1 < i
          <6>1. k - 1 \in 1 .. Len(w) /\ k - 1 # i
            BY <1>3, <2>2, <4>1, <5>1
          <6> QED
            BY <2>2, <2>3, <4>1, <5>1, <6>1
        <5>2. CASE ~(k - 1 < i)
          <6>1. (k - 1) + 1 \in 1 .. Len(w) /\ (k - 1) + 1 # i
            BY <1>3, <2>2, <4>1, <5>2
          <6> QED
            BY <2>2, <2>3, <4>1, <5>2, <6>1
        <5> QED
          BY <5>1, <5>2
      <4>3. v[k] = w[j] /\ r[k] = list[j]
        BY <2>4, <2>6, <3>2, <4>1, <4>2
      <4>4. NodeOf(w[j])' = NodeOf(w[j])
        BY <1>6, <1>11, <2>7, <4>2
      <4> QED
        BY <1>b, <4>3, <4>4
    <3> QED
      BY <3>1, <3>2
  <2>9. r = [k \in 1 .. Len(w) |-> r[k]]
    BY <2>6
  <2> QED
    BY <2>1, <2>4, <2>5, <2>8, <2>9
<1>13. /\ SubSeq(pubs, 1, first - 1) # <<>>
       /\ Sequences!Last(SubSeq(pubs, 1, first - 1)) = pubs[p]
       /\ SubSeq(pubs, 1, first - 1)' = Sequences!Front(SubSeq(pubs, 1, first - 1))
  BY <1>2, <1>7, <1>8, <1>a, WaitingOnes
<1> QED
  BY <1>5, <1>8, <1>9, <1>12, <1>13, SameOperator DEF Sequences!Add

LEMMA FreeHeadImplements ==
    ASSUME IInv, TypeOK', FreeHead
    PROVE  Sequences!FreeHead
<1>1. PICK w : IsList(w)
  BY DEF IInv
<1>2. TypeOK /\ Untouched
  BY DEF IInv
<1>a. PICK list, v : list = [k \in 1 .. Len(w) |-> NodeOf(w[k])] /\ v = Without(w, 1)
  OBVIOUS
<1>3. w # <<>> /\ IsList(v)'
  BY <1>1, <1>2, <1>a, FreeHeadShortens
<1>4. w \in Seq(Ids) /\ Len(w) \in Nat /\ pubs \in Seq(Node)
  BY <1>1, <1>2, ListIds
<1>5. ListOf(head) = list /\ list \in Seq(Node) /\ Len(list) = Len(w) /\ list # <<>>
  <2>1. ListOf(head) = list /\ list \in Seq(Node)
    BY <1>1, <1>2, <1>a, ReadsList, ListNodes
  <2>2. Len(list) = Len(w) /\ Len(w) # 0
    BY <1>3, <1>4, <1>a, <2>1
  <2> QED
    BY <2>1, <2>2
<1>6. freeing /\ first = 1 /\ UNCHANGED <<pubs, first, child, titleOf>>
  BY <1>2 DEF FreeHead, Untouched
<1>7. SubSeq(pubs, 1, first - 1) = <<>>
  BY <1>4, <1>6
<1>8. ListOf(head)' = Tail(list)
  <2>1. ListOf(head)' = [k \in 1 .. Len(v) |-> NodeOf(v[k])']
    BY ONLY TypeOK', <1>3, ReadsNextList
  <2>2. \A m : NodeOf(m)' = NodeOf(m)
    BY <1>6 DEF NodeOf
  <2>3. Len(v) = Len(w) - 1 /\ \A k \in 1 .. Len(w) - 1 : v[k] = w[k + 1] /\ k + 1 \in 1 .. Len(w)
    <3>1. 1 \in 1 .. Len(w)
      BY <1>3, <1>4
    <3>2. /\ Len(v) = Len(w) - 1
          /\ \A k \in 1 .. Len(w) - 1 : v[k] = IF k < 1 THEN w[k] ELSE w[k + 1]
      BY <1>4, <1>a, <3>1, WithoutOne
    <3> QED
      BY <1>4, <3>2
  <2>4. Tail(list) = [k \in 1 .. Len(w) - 1 |-> list[k + 1]]
    <3>1. PICK t : t = Tail(list)
      OBVIOUS
    <3>2. t \in Seq(Node) /\ Len(t) = Len(w) - 1
      BY <1>5, <3>1
    <3>3. \A k \in 1 .. Len(w) - 1 : t[k] = list[k + 1]
      BY <1>5, <3>1
    <3>4. t = [k \in 1 .. Len(w) - 1 |-> t[k]]
      BY <3>2
    <3> QED
      BY <3>1, <3>3, <3>4
  <2>5. \A k \in 1 .. Len(w) - 1 : NodeOf(v[k])' = list[k + 1]
    BY <1>a, <2>2, <2>3
  <2> QED
    BY <2>1, <2>3, <2>4, <2>5
<1> QED
  BY <1>5, <1>6, <1>7, <1>8 DEF Sequences!FreeHead

\* The other steps leave what is read as it is.
LEMMA SameList ==
    ASSUME IInv, TypeOK', StartFreeing \/ Finished \/ UNCHANGED vars
    PROVE  UNCHANGED <<pubs, first, ListOf(head)>>
<1>1. PICK w : IsList(w)
  BY DEF IInv
<1>2. TypeOK
  BY DEF IInv
<1>3. UNCHANGED <<pubs, first, head, next, prev, child, titleOf, nodes>>
  BY DEF StartFreeing, Finished, vars
<1>4. freeing => freeing'
  <2>1. StartFreeing => freeing'
    BY DEF StartFreeing
  <2>2. Finished => freeing' = freeing
    BY DEF Finished, vars
  <2>3. UNCHANGED vars => freeing' = freeing
    BY DEF vars
  <2> QED
    BY <2>1, <2>2, <2>3
<1>5. IsList(w)'
  BY <1>1, <1>3, <1>4 DEF IsList, IsWalk, LeadsBack, Ids
<1>6. ListOf(head) = [k \in 1 .. Len(w) |-> NodeOf(w[k])]
  BY <1>1, <1>2, ReadsList
<1>7. ListOf(head)' = [k \in 1 .. Len(w) |-> NodeOf(w[k])']
  BY ONLY TypeOK', <1>5, ReadsNextList
<1>8. \A m : NodeOf(m)' = NodeOf(m)
  BY <1>3 DEF NodeOf
<1> QED
  BY <1>3, <1>6, <1>7, <1>8

LEMMA StepImplements ==
    ASSUME IInv, TypeOK', [Next]_vars
    PROVE  [Sequences!Next]_<<pubs, SubSeq(pubs, 1, first - 1), ListOf(head)>>
<1>3. CASE AddNew
  BY <1>3, AddNewImplements DEF Sequences!Next
<1>4. CASE AddDuplicate
  BY <1>4, AddDuplicateImplements DEF Sequences!Next
<1>5. CASE FreeHead
  BY <1>5, FreeHeadImplements DEF Sequences!Next
<1>6. CASE StartFreeing \/ Finished \/ UNCHANGED vars
  BY <1>6, SameList
<1> QED
  BY <1>3, <1>4, <1>5, <1>6 DEF Next

(***************************************************************************)
(* The list of pointers implements the collection of sequences: every step *)
(* of makePublicationCollection() and of freeNode() does to the nodes that *)
(* are met from the head on what Collection says, and no step does else.   *)
(***************************************************************************)
THEOREM NodeListImplementsCollection == Spec => ImplementsCollection
<1>1. IInv /\ TypeOK' /\ [Next]_vars
      => [Sequences!Next]_<<pubs, SubSeq(pubs, 1, first - 1), ListOf(head)>>
  BY StepImplements
<1> QED
  BY <1>1, InitImplements, Invariance, TypeCorrect, PTL
     DEF Spec, ImplementsCollection, Sequences!Spec

-----------------------------------------------------------------------------
(***************************************************************************)
(* What the list is meant to be: until it is freed, it reads as the merge  *)
(* of the publications that have been put in front.                        *)
(***************************************************************************)
ReadsMerge ==
    ~freeing => IsMergeOf(ListOf(head), SubSeq(pubs, first, Len(pubs)))

LEMMA InitMerges == Init => ReadsMerge
<1> SUFFICES ASSUME Init PROVE ReadsMerge
  OBVIOUS
<1>1. pubs \in Seq(Node) \ {<<>>} /\ Len(pubs) \in Nat \ {0} /\ first = Len(pubs)
  BY PublishedAssumption DEF Init
<1>2. PICK q : q = pubs[first]
  OBVIOUS
<1>3. ListOf(head) = <<q>>
  BY <1>1, <1>2, InitImplements DEF Sequences!Init, Sequences!Last
<1>4. SubSeq(pubs, first, Len(pubs)) = <<q>>
  <2>1. PICK s, n : s = pubs /\ n = Len(pubs)
    OBVIOUS
  <2>2. PICK t : t = SubSeq(s, n, n)
    OBVIOUS
  <2>3. t \in Seq(Node) /\ Len(t) = 1 /\ t[1] = s[n]
    BY <1>1, <2>1, <2>2
  <2>4. t = <<s[n]>>
    BY <2>3
  <2> QED
    BY <1>1, <1>2, <2>1, <2>2, <2>4
<1>5. q \in Node
  BY <1>1, <1>2
<1>6. IsMergeOf(<<q>>, <<q>>)
  BY <1>5, SingleMerge
<1> QED
  BY <1>3, <1>4, <1>6 DEF ReadsMerge

\* One more publication in front of the end of the file.
LEMMA OneMore ==
    ASSUME NEW s \in Seq(Node), NEW f \in 1 .. Len(s), f > 1
    PROVE  /\ s[f - 1] \in Node /\ SubSeq(s, f, Len(s)) \in Seq(Node)
           /\ SubSeq(s, f - 1, Len(s)) = <<s[f - 1]>> \o SubSeq(s, f, Len(s))
<1>1. s[f - 1] \in Node
  OBVIOUS
<1>2. PICK t : t = SubSeq(s, f, Len(s))
  OBVIOUS
<1>3. t \in Seq(Node) /\ Len(t) = Len(s) - f + 1 /\ \A k \in 1 .. Len(t) : t[k] = s[(f + k) - 1]
  BY <1>2
<1>4. PICK u : u = <<s[f - 1]>> \o t
  OBVIOUS
<1>5. /\ u \in Seq(Node) /\ Len(u) = Len(t) + 1 /\ u[1] = s[f - 1] /\ DOMAIN u = 1 .. Len(t) + 1
      /\ \A k \in DOMAIN u : k # 1 => k - 1 \in DOMAIN t /\ u[k] = t[k - 1]
  BY <1>1, <1>3, <1>4, InFront
<1>6. PICK v : v = SubSeq(s, f - 1, Len(s))
  OBVIOUS
<1>7. /\ v \in Seq(Node) /\ Len(v) = Len(s) - f + 2
      /\ \A k \in 1 .. Len(v) : v[k] = s[(f - 1 + k) - 1]
  BY <1>6
<1>8. ASSUME NEW k \in 1 .. Len(v) PROVE v[k] = u[k]
  <2>1. CASE k = 1
    BY <1>5, <1>7, <2>1
  <2>2. CASE k # 1
    <3>1. k \in Nat /\ Len(s) \in Nat /\ k <= Len(s) - f + 2
      BY <1>7
    <3>2. k - 1 \in 1 .. Len(t) /\ k \in 1 .. Len(t) + 1
      BY <1>3, <2>2, <3>1
    <3>3. u[k] = t[k - 1]
      BY <1>5, <2>2, <3>2
    <3>4. t[k - 1] = s[(f + (k - 1)) - 1]
      BY <1>3, <3>2
    <3>5. v[k] = s[(f - 1 + k) - 1]
      BY <1>7
    <3>6. (f + (k - 1)) - 1 = (f - 1 + k) - 1
      BY <3>1
    <3> QED
      BY <3>3, <3>4, <3>5, <3>6
  <2> QED
    BY <2>1, <2>2
<1>9. u = v
  BY <1>3, <1>5, <1>7, <1>8
<1> QED
  BY <1>1, <1>2, <1>3, <1>4, <1>6, <1>9

LEMMA StepMerges ==
    ASSUME IInv, TypeOK', ReadsMerge, [Next]_vars
    PROVE  ReadsMerge'
<1>1. PICK w : IsList(w)
  BY DEF IInv
<1>2. TypeOK
  BY DEF IInv
<1>3. CASE AddNew \/ AddDuplicate
  <2>1. Sequences!Add
    BY <1>3, AddNewImplements, AddDuplicateImplements
  <2>2. ~freeing /\ first > 1 /\ first' = first - 1 /\ pubs' = pubs
    BY <1>3 DEF AddNew, AddDuplicate, PutInFront
  <2>3. PICK list, rest, q : list = ListOf(head) /\ q = pubs[first - 1]
                             /\ rest = SubSeq(pubs, first, Len(pubs))
    OBVIOUS
  <2>4. list \in Seq(Node) /\ pubs \in Seq(Node) /\ first \in 1 .. Len(pubs)
    <3>1. ListOf(head) \in Seq(Node)
      BY <1>1, <1>2, ReadsList, ListNodes
    <3> QED
      BY <1>2, <2>3, <3>1 DEF TypeOK, Ids
  <2>5. q \in Node /\ rest \in Seq(Node) /\ SubSeq(pubs, first, Len(pubs))' = <<q>> \o rest
    BY <2>2, <2>3, <2>4, OneMore
  <2>6. ListOf(head)' = MakePublicationCollection(q, list)
    BY <1>2, <2>1, <2>2, <2>3, WaitingOnes, SameOperator DEF Sequences!Add
  <2>7. IsMergeOf(list, rest)
    BY <2>2, <2>3 DEF ReadsMerge
  <2>8. IsMergeOf(MakePublicationCollection(q, list), <<q>> \o rest)
    BY <2>4, <2>5, <2>7, MakePublicationCollectionMerges
  <2> QED
    BY <2>5, <2>6, <2>8 DEF ReadsMerge
<1>4. CASE FreeHead
  BY <1>4 DEF FreeHead, ReadsMerge
<1>5. CASE StartFreeing \/ Finished
  BY <1>5 DEF StartFreeing, Finished, vars, ReadsMerge
<1>6. CASE UNCHANGED vars
  <2>1. freeing' = freeing
    BY <1>6 DEF vars
  <2>2. ListOf(head)' = ListOf(head) /\ pubs' = pubs /\ first' = first
    BY <1>6, SameList
  <2> QED
    BY <2>1, <2>2 DEF ReadsMerge
<1> QED
  BY <1>3, <1>4, <1>5, <1>6 DEF Next

(***************************************************************************)
(* The list that the pointers of node.cc make is the collection that the   *)
(* file is meant to give: one node per keyword, in the order of the first  *)
(* occurrences, with the fields of the latest one and the kept title.      *)
(***************************************************************************)
THEOREM ListReadsMerge == Spec => []ReadsMerge
<1>1. IInv /\ TypeOK' /\ ReadsMerge /\ [Next]_vars => ReadsMerge'
  BY StepMerges
<1> QED
  BY <1>1, InitMerges, Invariance, TypeCorrect, PTL DEF Spec
=============================================================================
