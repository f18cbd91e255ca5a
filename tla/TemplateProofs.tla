--------------------------- MODULE TemplateProofs ---------------------------
(***************************************************************************)
(* For all templates, well-formed or not, and any number of authors:       *)
(* TypeOK, StackIsSound and AuthorIsThere.                                 *)
(***************************************************************************)
EXTENDS Template, WellFoundedInduction, TLAPS

Entry == [pos : Nat, skip : BOOLEAN]

(***************************************************************************)
(* The type of result depends on StackIsSound: result is cut off at the    *)
(* positions that the stack holds.                                         *)
(***************************************************************************)
IInv == TypeOK /\ StackIsSound /\ AuthorIsThere

-----------------------------------------------------------------------------
(***************************************************************************)
(* The search for the end of a block finds a token, or the end of the      *)
(* template: there is a first one among the ends that are there.           *)
(***************************************************************************)
LEMMA LeastOf ==
    ASSUME NEW S \in SUBSET Nat, S # {}
    PROVE  \E j \in S : \A k \in S : j <= k
<1>1. PICK j \in S : \A k \in S : ~ (<<k, j>> \in OpToRel(<, Nat))
  BY NatLessThanWellFounded, WFMin
<1>2. ASSUME NEW k \in S PROVE j <= k
  <2>1. <<k, j>> \in Nat \X Nat
    OBVIOUS
  <2>2. ~(k < j)
    BY <1>1, <2>1 DEF OpToRel
  <2> QED
    BY <2>2
<1> QED
  BY <1>2

LEMMA EndOfBlockIsPlace ==
    ASSUME TypeOK
    PROVE  EndOfBlock \in Nat
<1> DEFINE ends == {j \in i .. Len(printingTemplate) : EndsBlock(j)}
<1>1. i \in Nat /\ Len(printingTemplate) \in Nat
  BY DEF TypeOK
<1>2. ends \in SUBSET Nat
  BY <1>1
<1>3. CASE ends = {}
  BY <1>1, <1>3 DEF EndOfBlock
<1>4. CASE ends # {}
  <2>1. \E j \in ends : \A k \in ends : j <= k
    BY <1>2, <1>4, LeastOf
  <2>2. EndOfBlock = CHOOSE j \in ends : \A k \in ends : j <= k
    BY <1>4 DEF EndOfBlock
  <2>3. EndOfBlock \in ends
    <3> HIDE DEF ends
    <3> QED
      BY <2>1, <2>2
  <2> QED
    BY <1>2, <2>3
<1> QED
  BY <1>3, <1>4

-----------------------------------------------------------------------------
(***************************************************************************)
(* The innermost block began last, and erasing what it has written leaves  *)
(* the beginnings of all the others in place.                              *)
(***************************************************************************)
LEMMA EntriesHavePlaces ==
    ASSUME TypeOK
    PROVE  \A k \in DOMAIN stack : stack[k].pos \in Nat
<1>1. stack \in Seq(Entry)
  BY DEF TypeOK, Entry
<1>2. \A k \in DOMAIN stack : stack[k] \in Entry
  BY <1>1
<1> QED
  BY <1>2 DEF Entry

LEMMA TopIsThere ==
    ASSUME TypeOK, StackIsSound, stack # <<>>
    PROVE  /\ Top \in Entry
           /\ Top.pos <= Len(result)
           /\ \A k \in DOMAIN stack : stack[k].pos <= Top.pos
<1>1. stack \in Seq(Entry) /\ Len(stack) \in DOMAIN stack
  BY DEF TypeOK, Entry
<1>2. \A k \in DOMAIN stack : k <= Len(stack)
  BY <1>1
<1>3. Top \in Entry
  BY <1>1 DEF Top
<1>4. Top.pos <= Len(result)
  BY <1>1 DEF StackIsSound, Top
<1>5. \A k \in DOMAIN stack : stack[k].pos <= Top.pos
  BY <1>1, <1>2 DEF StackIsSound, Top
<1> QED
  BY <1>3, <1>4, <1>5

LEMMA ErasedIsFront ==
    ASSUME TypeOK, StackIsSound, stack # <<>>
    PROVE  Erased \in Seq(Nat \X Nat) /\ Len(Erased) = Top.pos
<1>1. Top.pos \in Nat /\ Top.pos <= Len(result)
  BY TopIsThere DEF Entry
<1>2. result \in Seq(Nat \X Nat)
  BY DEF TypeOK
<1> DEFINE n == Top.pos
<1> HIDE DEF n
<1>3. SubSeq(result, 1, n) \in Seq(Nat \X Nat) /\ Len(SubSeq(result, 1, n)) = n
  BY <1>1, <1>2 DEF n
<1> QED
  BY <1>3 DEF Erased, n

LEMMA PopIsFront ==
    ASSUME TypeOK, stack # <<>>
    PROVE  /\ Pop \in Seq(Entry)
           /\ \A k \in DOMAIN Pop : k \in DOMAIN stack /\ Pop[k] = stack[k]
<1>1. stack \in Seq(Entry)
  BY DEF TypeOK, Entry
<1> DEFINE n == Len(stack) - 1
<1>2. n \in Nat /\ n <= Len(stack)
  BY <1>1
<1> HIDE DEF n
<1>3. SubSeq(stack, 1, n) \in Seq(Entry) /\ Len(SubSeq(stack, 1, n)) = n
  BY <1>1, <1>2
<1>4. ASSUME NEW k \in DOMAIN SubSeq(stack, 1, n)
      PROVE  k \in DOMAIN stack /\ SubSeq(stack, 1, n)[k] = stack[k]
  BY <1>1, <1>2, <1>3
<1> QED
  BY <1>3, <1>4 DEF Pop, n

(***************************************************************************)
(* A stack is sound as long as result reaches to the innermost block.      *)
(***************************************************************************)
LEMMA SoundAsLongAsReached ==
    ASSUME TypeOK, StackIsSound, stack' = stack,
           \A k \in DOMAIN stack : stack[k].pos <= Len(result')
    PROVE  StackIsSound'
BY DEF StackIsSound

LEMMA SoundAfterPop ==
    ASSUME TypeOK, StackIsSound, stack # <<>>, stack' = Pop,
           \A k \in DOMAIN stack : stack[k].pos <= Len(result')
    PROVE  StackIsSound'
<1>1. \A k \in DOMAIN stack' : k \in DOMAIN stack /\ stack'[k] = stack[k]
  BY PopIsFront
<1> QED
  BY <1>1 DEF StackIsSound

-----------------------------------------------------------------------------
(***************************************************************************)
(* Characters and placeholders.                                            *)
(***************************************************************************)
LEMMA WritePreserves ==
    ASSUME IInv, Write
    PROVE  IInv'
<1> USE DEF IInv
<1>1. Here \in Nat \X Nat
  BY DEF TypeOK, Here
<1>2. result' \in Seq(Nat \X Nat) /\ Len(result') = Len(result) + 1
  BY <1>1 DEF TypeOK, Write
<1>3. TypeOK'
  BY <1>2 DEF TypeOK, Write, GoOn, LoopUnchanged
<1>4. \A k \in DOMAIN stack : stack[k].pos <= Len(result')
  <2>1. \A k \in DOMAIN stack : stack[k].pos \in Nat /\ stack[k].pos <= Len(result)
    BY EntriesHavePlaces DEF StackIsSound
  <2>2. Len(result) \in Nat
    BY DEF TypeOK
  <2> QED
    BY <1>2, <2>1, <2>2
<1>5. StackIsSound'
  BY <1>4, SoundAsLongAsReached DEF Write
<1>6. AuthorIsThere'
  BY DEF AuthorIsThere, Write, GoOn, LoopUnchanged
<1> QED
  BY <1>3, <1>5, <1>6

LEMMA OnlySkipPreserves ==
    ASSUME IInv, NoAuthor \/ Missing \/ TestAuthor
    PROVE  IInv'
<1> USE DEF IInv
<1>1. /\ i' = i + 1
      /\ UNCHANGED <<printingTemplate, authors, phase, result, stack,
                     author, authorIndex, authorBegin>>
  BY DEF NoAuthor, Missing, TestAuthor, GoOn, LoopUnchanged
<1>2. skip' \in BOOLEAN
  <2>1. CASE NoAuthor
    BY <2>1 DEF NoAuthor, TypeOK
  <2>2. CASE Missing
    BY <2>2 DEF Missing
  <2>3. CASE TestAuthor
    BY <2>3 DEF TestAuthor
  <2> QED
    BY <2>1, <2>2, <2>3
<1>3. TypeOK'
  BY <1>1, <1>2 DEF TypeOK
<1>4. StackIsSound' /\ AuthorIsThere'
  BY <1>1 DEF StackIsSound, AuthorIsThere
<1> QED
  BY <1>3, <1>4

(***************************************************************************)
(* What the innermost block has written is erased; it stays open.          *)
(***************************************************************************)
LEMMA ErasingPreserves ==
    ASSUME IInv, Test \/ TryAlternative
    PROVE  IInv'
<1> USE DEF IInv
<1>1. /\ i' = i + 1 /\ stack # <<>> /\ result' = Erased
      /\ UNCHANGED <<printingTemplate, authors, phase, stack,
                     author, authorIndex, authorBegin>>
  BY DEF Test, TryAlternative, GoOn, LoopUnchanged
<1>2. skip' \in BOOLEAN
  <2>1. CASE Test
    BY <2>1 DEF Test
  <2>2. CASE TryAlternative
    BY <1>1, <2>2, TopIsThere DEF TryAlternative, Entry
  <2> QED
    BY <2>1, <2>2
<1>3. result' \in Seq(Nat \X Nat) /\ Len(result') = Top.pos
  BY <1>1, ErasedIsFront
<1>4. TypeOK'
  BY <1>1, <1>2, <1>3 DEF TypeOK
<1>5. StackIsSound'
  BY <1>1, <1>3, TopIsThere, SoundAsLongAsReached
<1>6. AuthorIsThere'
  BY <1>1 DEF AuthorIsThere
<1> QED
  BY <1>4, <1>5, <1>6

LEMMA MapPreserves ==
    ASSUME IInv, MapWritten
    PROVE  IInv'
<1> USE DEF IInv
<1>1. /\ i' = i + 1 /\ stack # <<>> /\ skip' \in BOOLEAN
      /\ UNCHANGED <<printingTemplate, authors, phase, stack,
                     author, authorIndex, authorBegin>>
  BY DEF MapWritten, GoOn, LoopUnchanged
<1>2. result' = result \/ result' = Append(Erased, Here)
  BY DEF MapWritten
<1>3. CASE result' = result
  <2>1. TypeOK'
    BY <1>1, <1>3 DEF TypeOK
  <2> QED
    BY <1>1, <1>3, <2>1 DEF StackIsSound, AuthorIsThere
<1>4. CASE result' = Append(Erased, Here)
  <2>1. Erased \in Seq(Nat \X Nat) /\ Len(Erased) = Top.pos
    BY <1>1, ErasedIsFront
  <2>2. Here \in Nat \X Nat
    BY DEF TypeOK, Here
  <2>3. result' \in Seq(Nat \X Nat) /\ Len(result') = Top.pos + 1
    BY <1>4, <2>1, <2>2
  <2>4. TypeOK'
    BY <1>1, <2>3 DEF TypeOK
  <2>5. Top.pos \in Nat /\ \A k \in DOMAIN stack : stack[k].pos <= Top.pos
    BY <1>1, TopIsThere DEF Entry
  <2>6. \A k \in DOMAIN stack : stack[k].pos \in Nat
    BY <1>1, EntriesHavePlaces
  <2>7. \A k \in DOMAIN stack : stack[k].pos <= Len(result')
    BY <2>3, <2>5, <2>6
  <2>8. StackIsSound'
    BY <1>1, <2>7, SoundAsLongAsReached
  <2> QED
    BY <1>1, <2>4, <2>8 DEF AuthorIsThere
<1> QED
  BY <1>2, <1>3, <1>4

-----------------------------------------------------------------------------
(***************************************************************************)
(* The author loop.                                                        *)
(***************************************************************************)
LEMMA LoopPreserves ==
    ASSUME IInv, BeginAuthorLoop \/ NextAuthor \/ EndAuthorLoop
    PROVE  IInv'
<1> USE DEF IInv
<1>1. UNCHANGED <<printingTemplate, authors, phase, result, stack, skip>>
  BY DEF BeginAuthorLoop, NextAuthor, EndAuthorLoop, GoOn
<1>2. StackIsSound'
  BY <1>1 DEF StackIsSound
<1>3. author' \in BOOLEAN
  <2>1. CASE BeginAuthorLoop
    BY <2>1 DEF BeginAuthorLoop
  <2>2. CASE NextAuthor
    BY <2>2 DEF NextAuthor, TypeOK
  <2>3. CASE EndAuthorLoop
    BY <2>3 DEF EndAuthorLoop
  <2> QED
    BY <2>1, <2>2, <2>3
<1>4. i' \in Nat \ {0} /\ authorIndex' \in Nat /\ authorBegin' \in Nat
  <2>1. i \in Nat \ {0} /\ authorIndex \in Nat /\ authorBegin \in Nat
    BY DEF TypeOK
  <2>2. i' \in {i + 1, authorBegin + 1}
    BY DEF BeginAuthorLoop, NextAuthor, EndAuthorLoop, GoOn
  <2>3. authorIndex' \in {0, authorIndex + 1} /\ authorBegin' \in {i, authorBegin}
    BY DEF BeginAuthorLoop, NextAuthor, EndAuthorLoop
  <2> QED
    BY <2>1, <2>2, <2>3
<1>5. TypeOK'
  BY <1>1, <1>3, <1>4 DEF TypeOK
<1>6. AuthorIsThere'
  <2>1. CASE BeginAuthorLoop
    BY <1>1, <2>1 DEF BeginAuthorLoop, AuthorIsThere, TypeOK
  <2>2. CASE NextAuthor
    <3>1. author' /\ authorIndex' < authors'
      BY <1>1, <2>2 DEF NextAuthor
    <3> QED
      BY <3>1 DEF AuthorIsThere
  <2>3. CASE EndAuthorLoop
    BY <2>3 DEF EndAuthorLoop, AuthorIsThere
  <2> QED
    BY <2>1, <2>2, <2>3
<1> QED
  BY <1>2, <1>5, <1>6

-----------------------------------------------------------------------------
(***************************************************************************)
(* Blocks.                                                                 *)
(***************************************************************************)
LEMMA OpenPreserves ==
    ASSUME IInv, OpenBlock
    PROVE  IInv'
<1> USE DEF IInv
<1>1. skip' \in BOOLEAN
  BY DEF OpenBlock
<1> DEFINE entry == [pos |-> Len(result), skip |-> skip']
<1>2. entry \in Entry /\ entry.pos = Len(result) /\ Len(result) \in Nat
  BY <1>1 DEF Entry, TypeOK
<1>3. /\ i' = i + 1 /\ stack' = Append(stack, entry)
      /\ UNCHANGED <<printingTemplate, authors, phase, result,
                     author, authorIndex, authorBegin>>
  BY DEF OpenBlock, GoOn, LoopUnchanged
<1> HIDE DEF entry
<1>4. stack \in Seq(Entry)
  BY DEF TypeOK, Entry
<1>5. stack' \in Seq(Entry) /\ Len(stack') = Len(stack) + 1
  BY <1>2, <1>3, <1>4
<1>6. TypeOK'
  BY <1>1, <1>3, <1>5 DEF TypeOK, Entry
<1>7. \A k \in DOMAIN stack' :
         IF k = Len(stack) + 1 THEN stack'[k] = entry
                               ELSE k \in DOMAIN stack /\ stack'[k] = stack[k]
  BY <1>2, <1>3, <1>4, <1>5
<1>8. \A k \in DOMAIN stack' : k \in Nat /\ k <= Len(stack) + 1
  BY <1>4, <1>5
<1>9. \A k \in DOMAIN stack' : stack'[k].pos <= Len(result')
  BY <1>2, <1>3, <1>7 DEF StackIsSound
<1>10. \A k, m \in DOMAIN stack' : k <= m => stack'[k].pos <= stack'[m].pos
  <2> SUFFICES ASSUME NEW k \in DOMAIN stack', NEW m \in DOMAIN stack', k <= m
               PROVE  stack'[k].pos <= stack'[m].pos
    OBVIOUS
  <2>1. CASE m = Len(stack) + 1
    <3>1. stack'[m].pos = Len(result)
      BY <1>2, <1>7, <2>1
    <3> QED
      BY <1>3, <1>9, <3>1
  <2>2. CASE m # Len(stack) + 1
    <3>1. Len(stack) \in Nat /\ k # Len(stack) + 1
      BY <1>4, <1>8, <2>2
    <3>2. /\ k \in DOMAIN stack /\ stack'[k] = stack[k]
          /\ m \in DOMAIN stack /\ stack'[m] = stack[m]
      BY <1>7, <2>2, <3>1
    <3> QED
      BY <3>2 DEF StackIsSound
  <2> QED
    BY <2>1, <2>2
<1>11. StackIsSound'
  BY <1>9, <1>10 DEF StackIsSound
<1>12. AuthorIsThere'
  BY <1>3 DEF AuthorIsThere
<1> QED
  BY <1>6, <1>11, <1>12

LEMMA ClosePreserves ==
    ASSUME IInv, CloseBlock
    PROVE  IInv'
<1> USE DEF IInv
<1>1. /\ i' = i + 1 /\ stack # <<>> /\ stack' = Pop
      /\ UNCHANGED <<printingTemplate, authors, phase,
                     author, authorIndex, authorBegin>>
  BY DEF CloseBlock, GoOn, LoopUnchanged
<1>2. skip' \in BOOLEAN
  BY DEF CloseBlock, TypeOK
<1>3. result' = result \/ result' = Erased
  BY DEF CloseBlock
<1>4. result' \in Seq(Nat \X Nat)
  BY <1>1, <1>3, ErasedIsFront DEF TypeOK
<1>5. stack' \in Seq(Entry)
  BY <1>1, PopIsFront
<1>6. TypeOK'
  BY <1>1, <1>2, <1>4, <1>5 DEF TypeOK, Entry
<1>7. \A k \in DOMAIN stack : stack[k].pos <= Len(result')
  <2>1. CASE result' = result
    BY <2>1 DEF StackIsSound
  <2>2. CASE result' = Erased
    BY <1>1, <2>2, ErasedIsFront, TopIsThere
  <2> QED
    BY <1>3, <2>1, <2>2
<1>8. StackIsSound'
  BY <1>1, <1>7, SoundAfterPop
<1>9. AuthorIsThere'
  BY <1>1 DEF AuthorIsThere
<1> QED
  BY <1>6, <1>8, <1>9

LEMMA SkipAlternativesPreserves ==
    ASSUME IInv, SkipAlternatives
    PROVE  IInv'
<1> USE DEF IInv
<1>1. /\ i' = EndOfBlock + 1 /\ stack # <<>> /\ stack' = Pop /\ skip' = Top.skip
      /\ UNCHANGED <<printingTemplate, authors, phase, result,
                     author, authorIndex, authorBegin>>
  BY DEF SkipAlternatives, LoopUnchanged
<1>2. i' \in Nat \ {0}
  BY <1>1, EndOfBlockIsPlace
<1>3. skip' \in BOOLEAN
  BY <1>1, TopIsThere DEF Entry
<1>4. stack' \in Seq(Entry)
  BY <1>1, PopIsFront
<1>5. TypeOK'
  BY <1>1, <1>2, <1>3, <1>4 DEF TypeOK, Entry
<1>6. StackIsSound'
  BY <1>1, SoundAfterPop DEF StackIsSound
<1>7. AuthorIsThere'
  BY <1>1 DEF AuthorIsThere
<1> QED
  BY <1>5, <1>6, <1>7

-----------------------------------------------------------------------------
(***************************************************************************)
(* The ends of a run.                                                      *)
(***************************************************************************)
LEMMA EndingPreserves ==
    ASSUME IInv, \/ NoBlock \/ BadAuthorLoop \/ NoBlockToEnd \/ EndOfTemplate
                 \/ Finished \/ UNCHANGED vars
    PROVE  IInv'
<1> USE DEF IInv
<1>1. /\ phase' \in {"done", "exited", "undefined"} \/ phase' = phase
      /\ UNCHANGED <<printingTemplate, authors, i, result, stack, skip,
                     author, authorIndex, authorBegin>>
  BY DEF NoBlock, BadAuthorLoop, NoBlockToEnd, EndOfTemplate, Finished, Exit,
         LoopUnchanged, vars
<1>2. TypeOK'
  BY <1>1 DEF TypeOK
<1>3. StackIsSound' /\ AuthorIsThere'
  BY <1>1 DEF StackIsSound, AuthorIsThere
<1> QED
  BY <1>2, <1>3

LEMMA InitEstablishes ==
    Init => IInv
<1> SUFFICES ASSUME Init PROVE IInv
  OBVIOUS
<1>1. printingTemplate \in Seq(Token) /\ authors \in Nat
  BY TemplatesAssumption, MaxAuthorsAssumption DEF Init
<1>2. /\ i = 1 /\ result = <<>> /\ stack = <<>> /\ skip = FALSE /\ author = FALSE
      /\ authorIndex = 0 /\ authorBegin = 0 /\ phase = "running"
  BY DEF Init
<1>3. TypeOK
  <2>1. result \in Seq(Nat \X Nat)
    BY <1>2
  <2>2. stack \in Seq([pos : Nat, skip : BOOLEAN])
    BY <1>2
  <2>3. skip \in BOOLEAN /\ author \in BOOLEAN
    BY <1>2
  <2>4. i \in Nat \ {0} /\ authorIndex \in Nat /\ authorBegin \in Nat
    BY <1>2
  <2>5. phase \in {"running", "done", "exited", "undefined"}
    BY <1>2
  <2> QED
    BY <1>1, <2>1, <2>2, <2>3, <2>4, <2>5 DEF TypeOK
<1>4. StackIsSound /\ AuthorIsThere
  BY DEF Init, StackIsSound, AuthorIsThere
<1> QED
  BY <1>3, <1>4 DEF IInv

LEMMA NextPreserves ==
    IInv /\ [Next]_vars => IInv'
BY WritePreserves, OnlySkipPreserves, ErasingPreserves, MapPreserves,
   LoopPreserves, OpenPreserves, ClosePreserves, SkipAlternativesPreserves,
   EndingPreserves DEF Next

LEMMA AlwaysIInv == Spec => []IInv
BY InitEstablishes, NextPreserves, PTL DEF Spec

-----------------------------------------------------------------------------
(***************************************************************************)
(* The variables of applyTemplate() have their types.                      *)
(***************************************************************************)
THEOREM TypeCorrect == Spec => []TypeOK
<1>1. IInv => TypeOK
  BY DEF IInv
<1> QED
  BY <1>1, AlwaysIInv, PTL

(***************************************************************************)
(* Whatever the template, result is never cut off behind its end.          *)
(***************************************************************************)
THEOREM StackSound == Spec => []StackIsSound
<1>1. IInv => StackIsSound
  BY DEF IInv
<1> QED
  BY <1>1, AlwaysIInv, PTL

(***************************************************************************)
(* Whatever the template, names are taken from authors that are there.     *)
(***************************************************************************)
THEOREM AuthorThere == Spec => []AuthorIsThere
<1>1. IInv => AuthorIsThere
  BY DEF IInv
<1> QED
  BY <1>1, AlwaysIInv, PTL
=============================================================================
