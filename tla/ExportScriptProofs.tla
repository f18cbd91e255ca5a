------------------------- MODULE ExportScriptProofs -------------------------
(***************************************************************************)
(* For any number of publications, any sort commands, and files of any     *)
(* length that include each other to any depth: the types, the selection,  *)
(* the assertion, citeAll, the way of an error to main(), and the order    *)
(* that sort asks for.                                                     *)
(***************************************************************************)
EXTENDS ExportScript, FiniteSetTheorems, WellFoundedInduction, TLAPS

Call == [lines : 0 .. MaxLines, result : Nat]

(***************************************************************************)
(* The two halves of the state: what is selected, and the calls of         *)
(* handleInput().  citeAll has been through all publications before the    *)
(* one that it comes to next.                                              *)
(***************************************************************************)
AllBefore == cursor # 0 => \A p \in 1 .. cursor - 1 : p \in Chosen

SelectionInv ==
    /\ entries \in Seq(Publications)
    /\ anchor \in [Publications -> Anchors]
    /\ cursor \in 0 .. N
    /\ SelectionIsSound
    /\ AllBefore

NestingInv ==
    /\ frames \in Seq(Call) \ {<<>>}
    /\ reported \in BOOLEAN
    /\ phase \in {"running", "done", "exited", "aborted"}
    /\ result \in Nat
    /\ ErrorsReachMain

CheckInv == check \in {"off", "on", "waiting"}

IInv == SelectionInv /\ NestingInv /\ CheckInv /\ AbortsOnlyWhenAllSelected

-----------------------------------------------------------------------------
(***************************************************************************)
(* The calls of handleInput().                                             *)
(***************************************************************************)
LEMMA FrameIsCall ==
    ASSUME NestingInv
    PROVE  Len(frames) \in DOMAIN frames /\ Frame \in Call
<1>1. frames \in Seq(Call) /\ frames # <<>>
  BY DEF NestingInv
<1>2. Len(frames) \in DOMAIN frames
  BY <1>1
<1> QED
  BY <1>1, <1>2 DEF Frame

LEMMA GoOnPreserves ==
    ASSUME NestingInv, AtLine, NEW errs \in Nat, GoOn(errs)
    PROVE  NestingInv'
<1>1. frames \in Seq(Call) /\ frames # <<>> /\ reported \in BOOLEAN /\ phase = "running"
  BY DEF NestingInv, AtLine
<1> DEFINE n == Len(frames)
           call == [lines |-> Frame.lines - 1, result |-> Frame.result + errs]
<1>2. n \in DOMAIN frames /\ frames[n] = Frame
  BY FrameIsCall DEF Frame
<1>3. Frame.lines \in 0 .. MaxLines /\ Frame.lines > 0 /\ Frame.result \in Nat
  BY FrameIsCall DEF AtLine, Call
<1>4. call \in Call /\ call.result = Frame.result + errs
  BY <1>3, BoundsAssumption DEF Call
<1>5. frames' = [frames EXCEPT ![n] = call]
  BY <1>2 DEF GoOn
<1> HIDE DEF call, n
<1>6. /\ frames' \in Seq(Call) /\ DOMAIN frames' = DOMAIN frames
      /\ frames'[n] = call
      /\ \A k \in DOMAIN frames : k # n => frames'[k] = frames[k]
  BY <1>1, <1>2, <1>4, <1>5
<1>7. frames' # <<>>
  BY <1>2, <1>6
<1>8. reported' = (reported \/ errs > 0) /\ phase' = phase /\ result' = result
  BY DEF GoOn
<1>9. (\E k \in DOMAIN frames' : frames'[k].result > 0)
      <=> (\E k \in DOMAIN frames : frames[k].result > 0) \/ errs > 0
  <2>1. ASSUME NEW k \in DOMAIN frames', frames'[k].result > 0
        PROVE  (\E m \in DOMAIN frames : frames[m].result > 0) \/ errs > 0
    <3>1. CASE k = n
      BY <1>2, <1>3, <1>4, <1>6, <2>1, <3>1
    <3>2. CASE k # n
      BY <1>6, <2>1, <3>2
    <3> QED
      BY <3>1, <3>2
  <2>2. ASSUME NEW k \in DOMAIN frames, frames[k].result > 0
        PROVE  \E m \in DOMAIN frames' : frames'[m].result > 0
    <3>1. CASE k = n
      <4>1. frames'[n].result > 0
        BY <1>2, <1>3, <1>4, <1>6, <2>2, <3>1
      <4> QED
        BY <1>2, <1>6, <4>1
    <3>2. CASE k # n
      BY <1>6, <2>2, <3>2
    <3> QED
      BY <3>1, <3>2
  <2>3. ASSUME errs > 0
        PROVE  \E m \in DOMAIN frames' : frames'[m].result > 0
    <3>1. frames'[n].result > 0
      BY <1>3, <1>4, <1>6, <2>3
    <3> QED
      BY <1>2, <1>6, <3>1
  <2> QED
    BY <2>1, <2>2, <2>3
<1>10. reported <=> \E k \in DOMAIN frames : frames[k].result > 0
  BY <1>1 DEF NestingInv, ErrorsReachMain
<1>11. reported' <=> reported \/ errs > 0
  BY <1>1, <1>8
<1>12. ErrorsReachMain'
  BY <1>1, <1>8, <1>9, <1>10, <1>11 DEF ErrorsReachMain
<1>13. reported' \in BOOLEAN
  BY <1>1, <1>8
<1> QED
  BY <1>6, <1>7, <1>8, <1>12, <1>13 DEF NestingInv

LEMMA ResultAdded ==
    ASSUME NEW c \in Call, NEW r \in Nat
    PROVE  /\ [c EXCEPT !.result = @ + r] \in Call
           /\ [c EXCEPT !.result = @ + r].result = c.result + r
BY DEF Call

(***************************************************************************)
(* A call returns r, which is positive exactly when an error has been      *)
(* reported that no call around it knows of.                               *)
(***************************************************************************)
LEMMA ReturnPreserves ==
    ASSUME NestingInv, phase = "running", NEW r \in Nat, Return(r),
           reported' \in BOOLEAN,
           reported' <=> \/ r > 0
                             \/ \E k \in 1 .. Level : frames[k].result > 0
    PROVE  NestingInv' /\ phase' # "aborted"
<1>1. frames \in Seq(Call) /\ frames # <<>> /\ result \in Nat
  BY DEF NestingInv
<1>2. Len(frames) \in Nat \ {0} /\ Level \in Nat /\ Level = Len(frames) - 1
  BY <1>1 DEF Level
<1>3. CASE Level = 0
  <2>1. phase' = "done" /\ result' = r /\ frames' = frames
    BY <1>3 DEF Return
  <2>2. reported' <=> r > 0
    BY <1>3
  <2>3. ErrorsReachMain'
    BY <2>1, <2>2 DEF ErrorsReachMain
  <2> QED
    BY <1>1, <2>1, <2>3 DEF NestingInv
<1>4. CASE Level # 0
  <2> DEFINE n == Level
             front == SubSeq(frames, 1, n)
             call == [front[n] EXCEPT !.result = @ + r]
  <2>1. n \in Nat \ {0} /\ n <= Len(frames) /\ n = Len(frames) - 1
    BY <1>2, <1>4
  <2>2. /\ frames' = [front EXCEPT ![n] = call]
        /\ phase' = phase /\ result' = result
    BY <1>4 DEF Return, Front, Level
  <2> HIDE DEF n
  <2>3. front \in Seq(Call) /\ Len(front) = n
    BY <1>1, <2>1
  <2>4. DOMAIN front = 1 .. n /\ \A k \in 1 .. n : front[k] = frames[k] /\ front[k] \in Call
    BY <1>1, <2>1, <2>3
  <2>5. n \in 1 .. n
    BY <2>1
  <2>6. front[n].result \in Nat /\ front[n].lines \in 0 .. MaxLines
    BY <2>4, <2>5 DEF Call
  <2>7. call \in Call /\ call.result = front[n].result + r
    <3>1. front[n] \in Call
      BY <2>4, <2>5
    <3> QED
      BY <3>1, ResultAdded
  <2> HIDE DEF front, call
  <2>8. /\ frames' \in Seq(Call) /\ DOMAIN frames' = 1 .. n
        /\ frames'[n] = call
        /\ \A k \in 1 .. n : k # n => frames'[k] = front[k]
    BY <2>2, <2>3, <2>4, <2>5, <2>7
  <2>9. frames' # <<>>
    BY <2>5, <2>8
  <2>10. (\E k \in 1 .. n : frames'[k].result > 0)
         <=> r > 0 \/ \E k \in 1 .. n : frames[k].result > 0
    <3>1. ASSUME NEW k \in 1 .. n, frames'[k].result > 0
          PROVE  r > 0 \/ \E m \in 1 .. n : frames[m].result > 0
      <4>1. CASE k = n
        BY <2>4, <2>5, <2>6, <2>7, <2>8, <3>1, <4>1
      <4>2. CASE k # n
        BY <2>4, <2>8, <3>1, <4>2
      <4> QED
        BY <4>1, <4>2
    <3>2. ASSUME NEW k \in 1 .. n, frames[k].result > 0
          PROVE  \E m \in 1 .. n : frames'[m].result > 0
      <4>1. CASE k = n
        <5>1. front[n].result > 0
          BY <2>4, <3>2, <4>1
        <5>2. frames'[n].result > 0
          BY <2>6, <2>7, <2>8, <5>1
        <5> QED
          BY <2>5, <5>2
      <4>2. CASE k # n
        BY <2>4, <2>8, <3>2, <4>2
      <4> QED
        BY <4>1, <4>2
    <3>3. ASSUME r > 0
          PROVE  \E m \in 1 .. n : frames'[m].result > 0
      <4>1. frames'[n].result > 0
        BY <2>6, <2>7, <2>8, <3>3
      <4> QED
        BY <2>5, <4>1
    <3> QED
      BY <3>1, <3>2, <3>3
  <2>11. reported' <=> r > 0 \/ \E k \in 1 .. n : frames[k].result > 0
    BY DEF n
  <2>12. ErrorsReachMain'
    BY <2>2, <2>8, <2>10, <2>11 DEF ErrorsReachMain
  <2> QED
    BY <1>1, <2>2, <2>8, <2>9, <2>12 DEF NestingInv
<1> QED
  BY <1>3, <1>4

LEMMA GiveUpPreserves ==
    ASSUME NestingInv, AtLine, NEW errs \in Nat, GiveUp(errs)
    PROVE  NestingInv' /\ phase' # "aborted"
<1>1. reported \in BOOLEAN /\ phase = "running"
  BY DEF NestingInv, AtLine
<1>2. reported' = TRUE /\ 1 \in Nat /\ 1 > 0 /\ Return(1)
  BY <1>1 DEF GiveUp
<1> QED
  BY <1>1, <1>2, ReturnPreserves

LEMMA EndOfFilePreserves ==
    ASSUME NestingInv, EndOfFile
    PROVE  NestingInv' /\ phase' # "aborted"
<1>1. reported \in BOOLEAN /\ reported' = reported /\ phase = "running" /\ Return(Frame.result)
  BY DEF NestingInv, EndOfFile
<1>2. Frame.result \in Nat /\ Len(frames) \in DOMAIN frames
  BY FrameIsCall DEF Call
<1>3. frames \in Seq(Call)
  BY DEF NestingInv
<1>4. /\ Level \in Nat /\ Level + 1 = Len(frames)
      /\ \A k \in DOMAIN frames : k \in 1 .. Level \/ k = Len(frames)
      /\ \A k \in 1 .. Level : k \in DOMAIN frames
  BY <1>2, <1>3 DEF Level
<1>5. reported <=> \E k \in DOMAIN frames : frames[k].result > 0
  BY <1>1 DEF NestingInv, ErrorsReachMain
<1>6. (\E k \in DOMAIN frames : frames[k].result > 0)
      <=> Frame.result > 0 \/ \E k \in 1 .. Level : frames[k].result > 0
  BY <1>2, <1>4 DEF Frame
<1> QED
  BY <1>1, <1>2, <1>5, <1>6, ReturnPreserves

LEMMA IncludePreserves ==
    ASSUME NestingInv, Include
    PROVE  NestingInv' /\ phase' # "aborted"
<1>1. frames \in Seq(Call) /\ frames # <<>> /\ phase = "running"
  BY DEF NestingInv, Include, HasLine, AtLine
<1> DEFINE n == Len(frames)
           call == [Frame EXCEPT !.lines = @ - 1]
           read == [frames EXCEPT ![n] = call]
           new == [lines |-> MaxLines, result |-> 0]
<1>2. n \in DOMAIN frames /\ frames[n] = Frame /\ Frame \in Call
  BY FrameIsCall DEF Frame
<1>3. Frame.lines \in 0 .. MaxLines /\ Frame.lines > 0 /\ Frame.result \in Nat
  BY FrameIsCall DEF Include, HasLine, AtLine, Call
<1>4. call \in Call /\ call.result = Frame.result
  BY <1>2, <1>3, BoundsAssumption DEF Call
<1>5. new \in Call /\ new.result = 0
  BY BoundsAssumption DEF Call
<1>6. frames' = Append(read, new)
  BY <1>2 DEF Include
<1>7. reported' = reported /\ phase' = phase /\ result' = result
  BY DEF Include
<1> HIDE DEF call, new
<1>8. /\ read \in Seq(Call) /\ DOMAIN read = DOMAIN frames
      /\ \A k \in DOMAIN frames : read[k].result = frames[k].result
  BY <1>1, <1>2, <1>4
<1> HIDE DEF read
<1>9. Len(read) = n
  BY <1>1, <1>8
<1>10. /\ frames' \in Seq(Call) /\ DOMAIN frames' = 1 .. n + 1
       /\ frames'[n + 1] = new
       /\ \A k \in 1 .. n : frames'[k] = read[k]
  BY <1>5, <1>6, <1>8, <1>9
<1>11. DOMAIN frames = 1 .. n /\ n \in Nat
  BY <1>1
<1>12. frames' # <<>>
  BY <1>10, <1>11
<1>13. (\E k \in DOMAIN frames' : frames'[k].result > 0)
       <=> \E k \in DOMAIN frames : frames[k].result > 0
  <2>1. ASSUME NEW k \in DOMAIN frames', frames'[k].result > 0
        PROVE  \E m \in DOMAIN frames : frames[m].result > 0
    <3>1. k # n + 1
      BY <1>5, <1>10, <2>1
    <3>2. k \in 1 .. n
      BY <1>10, <1>11, <3>1
    <3> QED
      BY <1>8, <1>10, <1>11, <2>1, <3>2
  <2>2. ASSUME NEW k \in DOMAIN frames, frames[k].result > 0
        PROVE  \E m \in DOMAIN frames' : frames'[m].result > 0
    <3>1. k \in 1 .. n /\ k \in 1 .. n + 1
      BY <1>11
    <3>2. frames'[k].result > 0
      BY <1>8, <1>10, <2>2, <3>1
    <3> QED
      BY <1>10, <3>1, <3>2
  <2> QED
    BY <2>1, <2>2
<1>14. ErrorsReachMain'
  BY <1>1, <1>7, <1>13 DEF ErrorsReachMain, NestingInv
<1> QED
  BY <1>1, <1>7, <1>10, <1>12, <1>14 DEF NestingInv

LEMMA CallsPreserve ==
    ASSUME NestingInv, [Next]_vars
    PROVE  NestingInv'
<1>1. ASSUME AtLine, NEW errs \in {0, 1}, GoOn(errs) PROVE NestingInv'
  BY <1>1, GoOnPreserves
<1>2. ASSUME AtLine, NEW errs \in {0, 1}, GiveUp(errs) PROVE NestingInv'
  BY <1>2, GiveUpPreserves
<1>3. CASE \/ OtherLine \/ CiteAll \/ Cite \/ CiteUnknown \/ Sort \/ SortBadOrder
           \/ Clear \/ Export
  <2>1. AtLine /\ \E errs \in {0, 1} : GoOn(errs)
    BY <1>3 DEF OtherLine, CiteAll, Cite, CiteUnknown, Sort, SortBadOrder, Clear, Export,
                HasLine, CheckIsOver
  <2> QED
    BY <1>1, <2>1
<1>4. CASE BadCommand \/ ExportFails \/ IncludeFails
  <2>1. AtLine /\ \E errs \in {0, 1} : GiveUp(errs)
    BY <1>4 DEF BadCommand, ExportFails, IncludeFails, HasLine, CheckIsOver
  <2> QED
    BY <1>2, <2>1
<1>5. CASE AddAllNext \/ BeginCheck \/ Finished \/ UNCHANGED vars
  <2>1. UNCHANGED <<frames, reported, phase, result>>
    BY <1>5 DEF AddAllNext, BeginCheck, Finished, vars
  <2> QED
    BY <2>1 DEF NestingInv, ErrorsReachMain
<1>6. CASE AddAllAborts \/ CiteAborts
  <2>1. phase' = "aborted" /\ UNCHANGED <<frames, reported, result>>
    BY <1>6 DEF AddAllAborts, CiteAborts, Abort
  <2> QED
    BY <2>1 DEF NestingInv, ErrorsReachMain
<1>7. CASE ExportExits
  <2>1. phase' = "exited" /\ reported' = TRUE /\ UNCHANGED <<frames, result>>
    BY <1>7 DEF ExportExits
  <2> QED
    BY <2>1 DEF NestingInv, ErrorsReachMain
<1> QED
  BY <1>3, <1>4, <1>5, <1>6, <1>7, EndOfFilePreserves, IncludePreserves DEF Next

LEMMA ChecksPreserve == CheckInv /\ [Next]_vars => CheckInv'
BY DEF CheckInv, Next, vars, EndOfFile, OtherLine, BadCommand, CiteAll, AddAllNext,
       AddAllAborts, Abort, Cite, CiteAborts, CiteUnknown, Sort, SortBadOrder, Clear,
       BeginCheck, CheckIsOver, Export, ExportFails, ExportExits, Include, IncludeFails,
       Finished

-----------------------------------------------------------------------------
(***************************************************************************)
(* The selection.                                                          *)
(***************************************************************************)
LEMMA ChosenAreThere ==
    ASSUME SelectionInv
    PROVE  /\ Chosen \subseteq Publications
           /\ \A p : p \in Chosen <=> \E k \in DOMAIN entries : entries[k] = p
BY DEF SelectionInv, Chosen

(***************************************************************************)
(* No two entries are the same: with N of them, everything is selected.    *)
(***************************************************************************)
LEMMA FullIsAll ==
    ASSUME SelectionInv, ~AssertionHolds
    PROVE  Chosen = Publications
<1> DEFINE n == Len(entries)
<1>1. entries \in Seq(Publications) /\ n \in Nat
  BY DEF SelectionInv
<1>2. n = N
  BY <1>1, NAssumption DEF SelectionInv, SelectionIsSound, AssertionHolds
<1>3. entries \in [1 .. N -> Publications]
  BY <1>1, <1>2
<1>4. entries \in Injection(1 .. N, Publications)
  <2>1. \A i, j \in DOMAIN entries : entries[i] = entries[j] => i = j
    BY DEF SelectionInv, SelectionIsSound
  <2> QED
    BY <1>3, <2>1 DEF Injection, IsInjective
<1>5. IsFiniteSet(Publications)
  BY NAssumption, FS_Interval DEF Publications
<1>6. entries \in Surjection(1 .. N, Publications)
  BY <1>4, <1>5, FS_Injection DEF Publications
<1>7. \A p \in Publications : \E k \in 1 .. N : entries[k] = p
  BY <1>6 DEF Surjection
<1>8. DOMAIN entries = 1 .. N
  BY <1>3
<1> QED
  BY <1>7, <1>8, ChosenAreThere

(***************************************************************************)
(* add() of a publication that is new.                                     *)
(***************************************************************************)
LEMMA AddKeepsSound ==
    ASSUME SelectionInv, AssertionHolds, NEW p \in Publications, IsNew(p),
           entries' = Append(entries, p)
    PROVE  /\ entries' \in Seq(Publications)
           /\ SelectionIsSound'
           /\ \A q : q \in Chosen' <=> q \in Chosen \/ q = p
<1> DEFINE n == Len(entries)
<1>1. entries \in Seq(Publications) /\ n \in Nat /\ DOMAIN entries = 1 .. n
  BY DEF SelectionInv
<1>2. /\ entries' \in Seq(Publications) /\ DOMAIN entries' = 1 .. n + 1
      /\ Len(entries') = n + 1 /\ entries'[n + 1] = p
      /\ \A k \in 1 .. n : entries'[k] = entries[k]
  BY <1>1
<1>3. \A i, j \in 1 .. n : entries[i] = entries[j] => i = j
  BY <1>1 DEF SelectionInv, SelectionIsSound
<1>4. \A k \in 1 .. n : entries[k] # p
  BY DEF IsNew
<1>5. n + 1 <= N
  BY DEF AssertionHolds
<1> HIDE DEF n
<1>6. \A k \in 1 .. n + 1 : k \in 1 .. n \/ k = n + 1
  BY <1>1
<1>7. \A i, j \in 1 .. n + 1 : entries'[i] = entries'[j] => i = j
  BY <1>2, <1>3, <1>4, <1>6
<1>8. SelectionIsSound'
  BY <1>2, <1>5, <1>7 DEF SelectionIsSound
<1>9. ASSUME NEW q PROVE q \in Chosen' <=> q \in Chosen \/ q = p
  <2>1. q \in Chosen' <=> \E k \in 1 .. n + 1 : entries'[k] = q
    BY <1>2 DEF Chosen
  <2>2. q \in Chosen <=> \E k \in 1 .. n : entries[k] = q
    BY <1>1 DEF Chosen
  <2>3. n + 1 \in 1 .. n + 1 /\ \A k \in 1 .. n : k \in 1 .. n + 1
    BY <1>1
  <2> QED
    BY <1>2, <1>6, <2>1, <2>2, <2>3
<1> QED
  BY <1>2, <1>8, <1>9

(***************************************************************************)
(* What qsort() leaves is a permutation of what it was given.              *)
(***************************************************************************)
LEMMA SortKeepsSound ==
    ASSUME SelectionInv, NEW levels, SortEntries(levels)
    PROVE  entries' \in Seq(Publications) /\ SelectionIsSound'
<1> DEFINE n == Len(entries)
<1>1. entries \in Seq(Publications) /\ n \in Nat /\ DOMAIN entries = 1 .. n
  BY DEF SelectionInv
<1>2. entries' \in [1 .. n -> Chosen] /\ IsSortOf(entries', levels)
  BY DEF SortEntries
<1>3. entries' \in Seq(Publications) /\ Len(entries') = n /\ DOMAIN entries' = 1 .. n
  BY <1>1, <1>2, ChosenAreThere
<1>4. \A p \in Chosen : \E k \in 1 .. n : entries'[k] = p
  BY <1>2, <1>3 DEF IsSortOf
<1>5. entries' \in Surjection(1 .. n, Chosen)
  BY <1>2, <1>4 DEF Surjection
<1>6. entries \in [1 .. n -> Chosen]
  BY <1>1, ChosenAreThere
<1>7. entries \in Surjection(1 .. n, Chosen)
  BY <1>1, <1>6, ChosenAreThere DEF Surjection
<1>8. \A i, j \in 1 .. n : entries[i] = entries[j] => i = j
  BY <1>1 DEF SelectionInv, SelectionIsSound
<1>9. entries \in Injection(1 .. n, Chosen)
  BY <1>6, <1>8 DEF Injection, IsInjective
<1>10. IsFiniteSet(1 .. n)
  BY <1>1, FS_Interval
<1>11. Cardinality(1 .. n) = Cardinality(Chosen)
  BY <1>7, <1>9, <1>10, FS_Surjection
<1>12. entries' \in Injection(1 .. n, Chosen)
  BY <1>5, <1>10, <1>11, FS_SurjSameCardinalityImpliesInj
<1>13. \A i, j \in 1 .. n : entries'[i] = entries'[j] => i = j
  BY <1>3, <1>12 DEF Injection, IsInjective
<1>14. n <= N
  BY DEF SelectionInv, SelectionIsSound
<1>15. SelectionIsSound'
  BY <1>3, <1>13, <1>14 DEF SelectionIsSound
<1> QED
  BY <1>3, <1>15

LEMMA AddAllNextSelects ==
    ASSUME SelectionInv, AddAllNext
    PROVE  /\ SelectionInv'
           /\ cursor' = 0 => Chosen' = Publications
<1>1. cursor \in 1 .. N /\ cursor \in Publications /\ AssertionHolds
  BY NAssumption DEF SelectionInv, AddAllNext, Publications
<1>2. cursor' = IF cursor < N THEN cursor + 1 ELSE 0
  BY DEF AddAllNext
<1>3. cursor' \in 0 .. N
  BY <1>1, <1>2, NAssumption
<1>4. /\ entries' \in Seq(Publications) /\ SelectionIsSound'
      /\ anchor' \in [Publications -> Anchors]
      /\ \A q : q \in Chosen' <=> q \in Chosen \/ q = cursor
  <2>1. CASE IsNew(cursor)
    <3>1. /\ entries' = Append(entries, cursor)
          /\ anchor' = [anchor EXCEPT ![cursor] = Keyword(cursor)]
      BY <2>1 DEF AddAllNext
    <3>2. Keyword(cursor) \in Anchors
      BY <1>1 DEF Anchors
    <3>3. anchor' \in [Publications -> Anchors]
      BY <3>1, <3>2 DEF SelectionInv
    <3> QED
      BY <1>1, <2>1, <3>1, <3>3, AddKeepsSound
  <2>2. CASE ~IsNew(cursor)
    <3>1. UNCHANGED <<entries, anchor>>
      BY <2>2 DEF AddAllNext
    <3>2. cursor \in Chosen
      BY <2>2, ChosenAreThere DEF IsNew, SelectionInv
    <3> QED
      BY <3>1, <3>2 DEF SelectionInv, SelectionIsSound, Chosen
  <2> QED
    BY <2>1, <2>2
<1>5. \A q \in 1 .. cursor : q \in Chosen'
  <2> SUFFICES ASSUME NEW q \in 1 .. cursor, q # cursor PROVE q \in Chosen
    BY <1>4
  <2>1. q \in 1 .. cursor - 1
    BY <1>1
  <2> QED
    BY <1>1, <2>1 DEF SelectionInv, AllBefore
<1>6. AllBefore'
  <2>1. cursor' # 0 => cursor' - 1 = cursor
    BY <1>1, <1>2
  <2> QED
    BY <1>5, <2>1 DEF AllBefore
<1>7. SelectionInv'
  BY <1>3, <1>4, <1>6 DEF SelectionInv
<1>8. ASSUME cursor' = 0 PROVE Chosen' = Publications
  <2>1. cursor = N
    BY <1>1, <1>2, <1>8, NAssumption
  <2>2. Publications \subseteq Chosen'
    BY <1>5, <2>1 DEF Publications
  <2>3. Chosen' \subseteq Publications
    BY <1>1, <1>4, ChosenAreThere
  <2> QED
    BY <2>2, <2>3
<1> QED
  BY <1>7, <1>8

LEMMA CitePreserves ==
    ASSUME SelectionInv, Cite
    PROVE  SelectionInv'
<1>1. cursor = 0 /\ cursor' = 0 /\ AssertionHolds
  BY DEF Cite, HasLine, AtLine
<1>2. PICK p \in Publications, a \in CiteAnchors :
         /\ anchor' = [anchor EXCEPT ![p] = a]
         /\ IF IsNew(p) THEN entries' = Append(entries, p) ELSE entries' = entries
  BY DEF Cite
<1>3. a \in Anchors
  <2>1. Len(entries) \in 0 .. N
    BY NAssumption DEF SelectionInv, SelectionIsSound
  <2> QED
    BY <2>1 DEF CiteAnchors, Anchors
<1>4. anchor' \in [Publications -> Anchors]
  BY <1>2, <1>3 DEF SelectionInv
<1>5. entries' \in Seq(Publications) /\ SelectionIsSound'
  <2>1. CASE IsNew(p)
    BY <1>1, <1>2, <2>1, AddKeepsSound
  <2>2. CASE ~IsNew(p)
    BY <1>2, <2>2 DEF SelectionInv, SelectionIsSound
  <2> QED
    BY <2>1, <2>2
<1> QED
  BY <1>1, <1>4, <1>5, NAssumption DEF SelectionInv, AllBefore

LEMMA SelectionPreserves ==
    ASSUME SelectionInv, [Next]_vars
    PROVE  SelectionInv'
<1>1. CASE \/ EndOfFile \/ OtherLine \/ BadCommand \/ AddAllAborts \/ CiteUnknown
           \/ BeginCheck \/ Export \/ ExportFails \/ ExportExits
           \/ Include \/ IncludeFails \/ Finished \/ UNCHANGED vars
  <2>1. UNCHANGED <<entries, anchor, cursor>>
    BY <1>1 DEF EndOfFile, OtherLine, BadCommand, AddAllAborts, Abort, CiteUnknown,
                BeginCheck, Export, ExportFails, ExportExits, Include, IncludeFails,
                Finished, vars
  <2> QED
    BY <2>1 DEF SelectionInv, SelectionIsSound, AllBefore, Chosen
<1>2. CASE CiteAll
  <2>1. UNCHANGED <<entries, anchor>> /\ cursor' \in {0, 1} /\ cursor' \in 0 .. N
    BY <1>2, NAssumption DEF CiteAll
  <2>2. AllBefore'
    <3> SUFFICES ASSUME cursor' # 0, NEW p \in 1 .. cursor' - 1 PROVE FALSE
      BY DEF AllBefore
    <3>1. cursor' = 1
      BY <2>1
    <3> QED
      BY <3>1
  <2> QED
    BY <2>1, <2>2 DEF SelectionInv, SelectionIsSound
<1>3. CASE CiteAborts
  <2>1. UNCHANGED <<entries, cursor>>
    BY <1>3 DEF CiteAborts, Abort
  <2>2. PICK p \in Publications, a \in CiteAnchors : anchor' = [anchor EXCEPT ![p] = a]
    BY <1>3 DEF CiteAborts
  <2>3. Len(entries) \in 0 .. N
    BY NAssumption DEF SelectionInv, SelectionIsSound
  <2>4. a \in Anchors
    BY <2>3 DEF CiteAnchors, Anchors
  <2>5. anchor' \in [Publications -> Anchors]
    BY <2>2, <2>4 DEF SelectionInv
  <2> QED
    BY <2>1, <2>5 DEF SelectionInv, SelectionIsSound, AllBefore, Chosen
<1>4. CASE Sort \/ SortBadOrder
  <2>1. /\ cursor = 0 /\ cursor' = 0 /\ anchor' = anchor
        /\ \E levels : SortEntries(levels)
    BY <1>4 DEF Sort, SortBadOrder, HasLine, AtLine
  <2>2. entries' \in Seq(Publications) /\ SelectionIsSound'
    BY <2>1, SortKeepsSound
  <2> QED
    BY <2>1, <2>2, NAssumption DEF SelectionInv, AllBefore
<1>5. CASE Clear
  <2>1. cursor = 0 /\ cursor' = 0 /\ anchor' = anchor /\ entries' = <<>>
    BY <1>5 DEF Clear, HasLine, AtLine
  <2>2. entries' \in Seq(Publications) /\ SelectionIsSound'
    BY <2>1, NAssumption DEF SelectionIsSound
  <2> QED
    BY <2>1, <2>2, NAssumption DEF SelectionInv, AllBefore
<1> QED
  BY <1>1, <1>2, <1>3, <1>4, <1>5, CitePreserves, AddAllNextSelects DEF Next

-----------------------------------------------------------------------------
(***************************************************************************)
(* The assertion.                                                          *)
(***************************************************************************)
LEMMA AbortsPreserve ==
    ASSUME IInv, [Next]_vars
    PROVE  AbortsOnlyWhenAllSelected'
<1> USE DEF IInv
<1>1. CASE AddAllAborts \/ CiteAborts
  <2>1. ~AssertionHolds /\ entries' = entries
    BY <1>1 DEF AddAllAborts, CiteAborts, Abort
  <2> QED
    BY <2>1, FullIsAll DEF AbortsOnlyWhenAllSelected, Chosen
<1>2. CASE Finished \/ UNCHANGED vars
  BY <1>2 DEF Finished, vars, AbortsOnlyWhenAllSelected, Chosen
<1>3. CASE \/ OtherLine \/ CiteAll \/ Cite \/ CiteUnknown \/ Sort \/ SortBadOrder
           \/ Clear \/ BeginCheck \/ Export \/ AddAllNext
  <2>1. phase = "running" /\ phase' = phase
    BY <1>3 DEF OtherLine, CiteAll, Cite, CiteUnknown, Sort, SortBadOrder, Clear,
                BeginCheck, Export, AddAllNext, HasLine, AtLine, CheckIsOver, GoOn
  <2> QED
    BY <2>1 DEF AbortsOnlyWhenAllSelected
<1>4. CASE BadCommand \/ ExportFails \/ IncludeFails
  <2>1. AtLine /\ \E errs \in {0, 1} : GiveUp(errs)
    BY <1>4 DEF BadCommand, ExportFails, IncludeFails, HasLine, CheckIsOver
  <2> QED
    BY <2>1, GiveUpPreserves DEF AbortsOnlyWhenAllSelected
<1>5. CASE EndOfFile \/ Include \/ ExportExits
  BY <1>5, EndOfFilePreserves, IncludePreserves DEF ExportExits, AbortsOnlyWhenAllSelected
<1> QED
  BY <1>1, <1>2, <1>3, <1>4, <1>5 DEF Next

-----------------------------------------------------------------------------
LEMMA InitEstablishes == Init => IInv
<1> SUFFICES ASSUME Init PROVE IInv
  OBVIOUS
<1>1. entries = <<>> /\ cursor = 0 /\ anchor = [p \in Publications |-> NoAnchor]
  BY DEF Init
<1>2. entries \in Seq(Publications) /\ cursor \in 0 .. N
  BY <1>1, NAssumption
<1>3. anchor \in [Publications -> Anchors]
  BY <1>1 DEF Anchors
<1>4. SelectionIsSound /\ AllBefore
  BY <1>1, NAssumption DEF SelectionIsSound, AllBefore
<1>5. SelectionInv
  BY <1>2, <1>3, <1>4 DEF SelectionInv
<1> DEFINE call == [lines |-> MaxLines, result |-> 0]
<1>6. call \in Call /\ call.result = 0
  BY BoundsAssumption DEF Call
<1>7. frames = <<call>> /\ reported = FALSE /\ phase = "running" /\ result = 0
  BY DEF Init
<1> HIDE DEF call
<1>8. frames \in Seq(Call) \ {<<>>}
  BY <1>6, <1>7
<1>9. ErrorsReachMain
  BY <1>6, <1>7 DEF ErrorsReachMain
<1>10. NestingInv
  <2>1. reported \in BOOLEAN /\ result \in Nat
    BY <1>7
  <2>2. phase \in {"running", "done", "exited", "aborted"}
    BY <1>7
  <2> QED
    BY <1>8, <1>9, <2>1, <2>2 DEF NestingInv
<1> QED
  BY <1>5, <1>7, <1>10 DEF IInv, Init, CheckInv, AbortsOnlyWhenAllSelected

LEMMA NextPreserves == IInv /\ [Next]_vars => IInv'
BY CallsPreserve, ChecksPreserve, SelectionPreserves, AbortsPreserve DEF IInv

LEMMA AlwaysIInv == Spec => []IInv
BY InitEstablishes, NextPreserves, PTL DEF Spec

(***************************************************************************)
(* The variables of handleInput() and of the PublicationSet have their     *)
(* types.                                                                  *)
(***************************************************************************)
THEOREM TypeCorrect == Spec => []TypeOK
<1>1. IInv => TypeOK
  BY DEF IInv, SelectionInv, NestingInv, CheckInv, TypeOK, Call
<1> QED
  BY <1>1, AlwaysIInv, PTL

(***************************************************************************)
(* Whatever a script selects, sorts and clears: nothing is selected twice, *)
(* and the array of the PublicationSet never overflows.                    *)
(***************************************************************************)
THEOREM SelectionSound == Spec => []SelectionIsSound
<1>1. IInv => SelectionIsSound
  BY DEF IInv, SelectionInv
<1> QED
  BY <1>1, AlwaysIInv, PTL

(***************************************************************************)
(* The assertion in add() only fails when there is nothing left to select. *)
(***************************************************************************)
THEOREM AbortsSound == Spec => []AbortsOnlyWhenAllSelected
<1>1. IInv => AbortsOnlyWhenAllSelected
  BY DEF IInv
<1> QED
  BY <1>1, AlwaysIInv, PTL

(***************************************************************************)
(* Through files that include each other to any depth: main() is told of   *)
(* an error exactly when one was reported.                                 *)
(***************************************************************************)
THEOREM ErrorsReach == Spec => []ErrorsReachMain
<1>1. IInv => ErrorsReachMain
  BY DEF IInv, NestingInv
<1> QED
  BY <1>1, AlwaysIInv, PTL

-----------------------------------------------------------------------------
(***************************************************************************)
(* The anchors.  AnchorsDiffer needs to know where they come from: numbers *)
(* are below the number of entries, at which cite makes up the next one.   *)
(* When cite aborts, it has already set that one.  Anchors are compared by *)
(* their texts: one that is given, or a keyword, may be a number as well.  *)
(***************************************************************************)
GivenOnes == {Given(a) : a \in GivenAnchors}

OwnAnchors(p, n) == GivenOnes \cup {Keyword(p)} \cup {Number(k) : k \in 0 .. n - 1}

NumbersUsed == IF phase = "aborted" THEN Len(entries) + 1 ELSE Len(entries)

AnchorInv ==
    ~reported =>
        /\ \A p \in Chosen : anchor[p] \in OwnAnchors(p, NumbersUsed)
        /\ AnchorsDiffer

\* The reasons for which two publications may have anchors with the same text
Excused(a, b) ==
    \/ "given" \in {a.by, b.by}
    \/ {a.by, b.by} = {"number", "keyword"}

LEMMA AnchorsAreApart ==
    ASSUME NEW n \in Nat, NEW p \in Publications, NEW q \in Publications, p # q,
           NEW a \in OwnAnchors(p, n),
           NEW b \in GivenOnes \cup {Keyword(q), Number(n)}, a.text = b.text
    PROVE  Excused(a, b)
<1>1. CASE a \in GivenOnes \/ b \in GivenOnes
  BY <1>1 DEF GivenOnes, Given, Excused
<1>2. CASE a = Keyword(p)
  <2>1. b # Keyword(q)
    BY <1>2, KeywordsAssumption DEF Keyword
  <2>2. CASE b = Number(n)
    BY <1>2, <2>2 DEF Keyword, Number, Excused
  <2> QED
    BY <1>1, <2>1, <2>2
<1>3. ASSUME NEW k \in 0 .. n - 1, a = Number(k) PROVE Excused(a, b)
  <2>1. b # Number(n)
    BY <1>3 DEF Number
  <2>2. CASE b = Keyword(q)
    BY <1>3, <2>2 DEF Keyword, Number, Excused
  <2> QED
    BY <1>1, <2>1, <2>2
<1> QED
  BY <1>1, <1>2, <1>3 DEF OwnAnchors

(***************************************************************************)
(* An anchor that a command sets differs from those of the others.         *)
(***************************************************************************)
LEMMA NewAnchorDiffers ==
    ASSUME SelectionInv, AnchorInv, phase # "aborted", ~reported,
           NEW q \in Publications,
           NEW a \in GivenOnes \cup {Keyword(q), Number(Len(entries))},
           anchor' = [anchor EXCEPT ![q] = a],
           \A p \in Chosen' : p \in Chosen \/ p = q,
           NumbersUsed' = Len(entries) + 1
    PROVE  AnchorInv'
<1> DEFINE n == Len(entries)
<1>1. n \in Nat /\ anchor \in [Publications -> Anchors] /\ Chosen \subseteq Publications
  BY ChosenAreThere DEF SelectionInv
<1>2. anchor'[q] = a /\ \A p \in Publications : p # q => anchor'[p] = anchor[p]
  BY <1>1
<1>3. \A p \in Chosen : anchor[p] \in OwnAnchors(p, n)
  BY DEF AnchorInv, NumbersUsed
<1>4. \A p \in Chosen' : p \in Publications
  BY <1>1
<1> HIDE DEF n
<1>5. \A p \in Chosen' : anchor'[p] \in OwnAnchors(p, n + 1)
  <2> SUFFICES ASSUME NEW p \in Chosen' PROVE anchor'[p] \in OwnAnchors(p, n + 1)
    OBVIOUS
  <2>1. CASE p = q
    <3>1. n \in 0 .. (n + 1) - 1
      BY <1>1
    <3> QED
      BY <1>2, <2>1, <3>1 DEF OwnAnchors, n
  <2>2. CASE p # q
    <3>1. p \in Chosen /\ anchor'[p] = anchor[p] /\ anchor[p] \in OwnAnchors(p, n)
      BY <1>2, <1>3, <1>4, <2>2
    <3>2. \A k \in 0 .. n - 1 : k \in 0 .. (n + 1) - 1
      BY <1>1
    <3> QED
      BY <3>1, <3>2 DEF OwnAnchors
  <2> QED
    BY <2>1, <2>2
<1>6. ASSUME NEW p \in Chosen', NEW r \in Chosen', anchor'[p].text = anchor'[r].text, p # r
      PROVE  Excused(anchor'[p], anchor'[r])
  <2>1. CASE p # q /\ r # q
    <3>1. /\ p \in Chosen /\ r \in Chosen
          /\ anchor'[p] = anchor[p] /\ anchor'[r] = anchor[r]
      BY <1>2, <1>4, <2>1
    <3> QED
      BY <1>6, <3>1 DEF AnchorInv, AnchorsDiffer, Excused
  <2>2. CASE p # q /\ r = q
    <3>1. p \in Chosen /\ anchor'[p] = anchor[p] /\ anchor[p] \in OwnAnchors(p, n)
      BY <1>2, <1>3, <1>4, <2>2
    <3>2. anchor[p].text = a.text
      BY <1>2, <1>6, <2>2, <3>1
    <3> QED
      BY <1>1, <1>2, <1>4, <2>2, <3>1, <3>2, AnchorsAreApart DEF n
  <2>3. CASE p = q
    <3>1. r \in Chosen /\ anchor'[r] = anchor[r] /\ anchor[r] \in OwnAnchors(r, n) /\ r # q
      BY <1>2, <1>3, <1>4, <1>6, <2>3
    <3>2. anchor[r].text = a.text
      BY <1>2, <1>6, <2>3, <3>1
    <3>3. Excused(anchor[r], a)
      BY <1>1, <1>4, <3>1, <3>2, AnchorsAreApart DEF n
    <3> QED
      BY <1>2, <2>3, <3>1, <3>3 DEF Excused
  <2> QED
    BY <2>1, <2>2, <2>3
<1>7. \A p \in Chosen' : anchor'[p] \in OwnAnchors(p, NumbersUsed')
  BY <1>5 DEF n
<1> QED
  BY <1>6, <1>7 DEF AnchorInv, AnchorsDiffer, Excused

LEMMA AnchorsPreserve ==
    ASSUME IInv, AnchorInv, [Next]_vars
    PROVE  AnchorInv'
<1> SUFFICES ASSUME ~reported' PROVE AnchorInv'
  BY DEF AnchorInv
<1>0. SelectionInv /\ NestingInv /\ reported \in BOOLEAN
  BY DEF IInv, NestingInv
<1>9. ASSUME NEW errs \in {0, 1}, GoOn(errs)
      PROVE  errs = 0 /\ ~reported /\ phase' = phase
  <2>1. ~(errs > 0) /\ ~reported
    BY <1>0, <1>9 DEF GoOn
  <2> QED
    BY <1>9, <2>1 DEF GoOn
<1> USE DEF HasLine, AtLine, CheckIsOver
<1>1. CASE \/ EndOfFile \/ OtherLine \/ CiteAll \/ BeginCheck \/ Export \/ Include
           \/ Finished \/ UNCHANGED vars
  <2>1. \/ UNCHANGED <<entries, anchor>> /\ ~reported /\ "aborted" \notin {phase, phase'}
        \/ UNCHANGED vars
    <3>1. CASE EndOfFile \/ Include
      BY <1>1, <3>1 DEF EndOfFile, Return, Include
    <3>2. CASE OtherLine \/ CiteAll \/ BeginCheck \/ Export
      BY <1>9, <3>2 DEF OtherLine, CiteAll, BeginCheck, Export
    <3> QED
      BY <1>1, <3>1, <3>2 DEF Finished
  <2>2. CASE UNCHANGED vars
    <3>1. UNCHANGED <<entries, anchor, phase, reported>>
      BY <2>2 DEF vars
    <3>2. UNCHANGED <<Chosen, NumbersUsed>>
      BY <3>1 DEF Chosen, NumbersUsed
    <3> QED
      BY <3>1, <3>2 DEF AnchorInv, AnchorsDiffer
  <2>3. CASE UNCHANGED <<entries, anchor>> /\ ~reported /\ "aborted" \notin {phase, phase'}
    <3>1. UNCHANGED <<Chosen, NumbersUsed>>
      BY <2>3 DEF Chosen, NumbersUsed
    <3> QED
      BY <2>3, <3>1 DEF AnchorInv, AnchorsDiffer
  <2> QED
    BY <2>1, <2>2, <2>3
<1>2. CASE BadCommand \/ ExportFails \/ IncludeFails \/ CiteUnknown \/ ExportExits \/ SortBadOrder
  <2>1. CASE BadCommand \/ ExportFails \/ IncludeFails \/ ExportExits
    BY <2>1 DEF BadCommand, ExportFails, IncludeFails, ExportExits, GiveUp
  <2>2. CASE CiteUnknown \/ SortBadOrder
    <3>1. GoOn(1)
      BY <2>2 DEF CiteUnknown, SortBadOrder
    <3>2. 1 = 0
      BY <1>9, <3>1
    <3> QED
      BY <3>2
  <2> QED
    BY <1>2, <2>1, <2>2
<1>3. CASE AddAllNext
  <2>1. /\ phase = "running" /\ phase' = "running" /\ ~reported
        /\ cursor \in Publications /\ AssertionHolds
    BY <1>0, <1>3, NAssumption DEF AddAllNext, SelectionInv, Publications
  <2>2. CASE IsNew(cursor)
    <3>1. /\ entries' = Append(entries, cursor)
          /\ anchor' = [anchor EXCEPT ![cursor] = Keyword(cursor)]
      BY <1>3, <2>2 DEF AddAllNext
    <3>2. \A q : q \in Chosen' <=> q \in Chosen \/ q = cursor
      BY <1>0, <2>1, <2>2, <3>1, AddKeepsSound
    <3>3. NumbersUsed' = Len(entries) + 1
      BY <1>0, <2>1, <3>1 DEF NumbersUsed, SelectionInv
    <3> QED
      BY <1>0, <2>1, <3>1, <3>2, <3>3, NewAnchorDiffers
  <2>3. CASE ~IsNew(cursor)
    BY <1>3, <2>1, <2>3 DEF AddAllNext, AnchorInv, AnchorsDiffer, NumbersUsed, Chosen
  <2> QED
    BY <2>2, <2>3
<1>4. CASE Cite
  <2>1. PICK p \in Publications, a \in CiteAnchors :
           /\ anchor' = [anchor EXCEPT ![p] = a]
           /\ IF IsNew(p) THEN entries' = Append(entries, p) /\ GoOn(0)
                          ELSE entries' = entries /\ GoOn(1)
    BY <1>4 DEF Cite
  <2>2. IsNew(p) /\ entries' = Append(entries, p) /\ ~reported /\ phase' = phase
    <3>1. ~GoOn(1)
      <4> SUFFICES ASSUME GoOn(1) PROVE 1 = 0
        OBVIOUS
      <4> QED
        BY <1>9
    <3>2. IsNew(p) /\ entries' = Append(entries, p) /\ GoOn(0)
      BY <2>1, <3>1
    <3> QED
      BY <1>9, <3>2
  <2>3. phase = "running" /\ AssertionHolds
    BY <1>4 DEF Cite
  <2>4. \A q : q \in Chosen' <=> q \in Chosen \/ q = p
    BY <1>0, <2>2, <2>3, AddKeepsSound
  <2>5. NumbersUsed' = Len(entries) + 1
    BY <1>0, <2>2, <2>3 DEF NumbersUsed, SelectionInv
  <2>6. a \in GivenOnes \cup {Keyword(p), Number(Len(entries))}
    BY <2>1 DEF CiteAnchors, GivenOnes
  <2> QED
    BY <1>0, <2>1, <2>2, <2>3, <2>4, <2>5, <2>6, NewAnchorDiffers
<1>5. CASE CiteAborts
  <2>1. PICK p \in Publications, a \in CiteAnchors : anchor' = [anchor EXCEPT ![p] = a]
    BY <1>5 DEF CiteAborts
  <2>2. /\ phase = "running" /\ phase' = "aborted" /\ ~reported /\ entries' = entries
    BY <1>5 DEF CiteAborts, Abort
  <2>3. NumbersUsed' = Len(entries) + 1 /\ Chosen' = Chosen
    BY <2>2 DEF NumbersUsed, Chosen
  <2>4. a \in GivenOnes \cup {Keyword(p), Number(Len(entries))}
    BY <2>1 DEF CiteAnchors, GivenOnes
  <2> QED
    BY <1>0, <2>1, <2>2, <2>3, <2>4, NewAnchorDiffers
<1>6. CASE AddAllAborts
  <2>1. UNCHANGED <<entries, anchor, reported>> /\ phase = "running" /\ phase' = "aborted"
    BY <1>6 DEF AddAllAborts, Abort
  <2>2. Len(entries) \in Nat
    BY <1>0 DEF SelectionInv
  <2>3. \A k \in 0 .. Len(entries) - 1 : k \in 0 .. (Len(entries) + 1) - 1
    BY <2>2
  <2>4. \A p : OwnAnchors(p, Len(entries)) \subseteq OwnAnchors(p, Len(entries) + 1)
    BY <2>3 DEF OwnAnchors
  <2>5. Chosen' = Chosen /\ ~reported
    BY <2>1 DEF Chosen
  <2>6. NumbersUsed = Len(entries) /\ NumbersUsed' = Len(entries) + 1
    BY <2>1 DEF NumbersUsed
  <2>7. \A p \in Chosen : anchor[p] \in OwnAnchors(p, Len(entries))
    BY <2>5, <2>6 DEF AnchorInv
  <2>8. \A p \in Chosen' : anchor'[p] \in OwnAnchors(p, NumbersUsed')
    BY <2>1, <2>4, <2>5, <2>6, <2>7
  <2>9. AnchorsDiffer'
    BY <2>1, <2>5 DEF AnchorInv, AnchorsDiffer
  <2> QED
    BY <2>8, <2>9 DEF AnchorInv
<1>7. CASE Sort
  <2>1. /\ phase = "running" /\ phase' = "running" /\ ~reported /\ anchor' = anchor
        /\ \E levels : IsSortOf(entries', levels)
    <3>1. GoOn(0) /\ phase = "running" /\ anchor' = anchor
      BY <1>7 DEF Sort
    <3>2. ~reported /\ phase' = phase
      BY <1>9, <3>1
    <3>3. \E levels : SortEntries(levels)
      BY <1>7 DEF Sort
    <3>4. \E levels : IsSortOf(entries', levels)
      BY <3>3 DEF SortEntries
    <3> QED
      BY <3>1, <3>2, <3>4
  <2>2. PICK levels : IsSortOf(entries', levels)
    BY <2>1
  <2>3. Len(entries') = Len(entries)
    BY <2>2 DEF IsSortOf
  <2>4. {entries'[i] : i \in DOMAIN entries'} = Chosen
    BY <2>2, Zenon DEF IsSortOf
  <2>5. Chosen' = Chosen
    BY <2>4, Zenon DEF Chosen
  <2> QED
    BY <2>1, <2>3, <2>5 DEF AnchorInv, AnchorsDiffer, NumbersUsed
<1>8. CASE Clear
  <2>1. Chosen' = {}
    BY <1>8 DEF Clear, Chosen
  <2> QED
    BY <2>1 DEF AnchorInv, AnchorsDiffer
<1> QED
  BY <1>1, <1>2, <1>3, <1>4, <1>5, <1>6, <1>7, <1>8 DEF Next

(***************************************************************************)
(* As long as no error has been reported, the anchors of two selected      *)
(* publications have different texts, unless the script gave one of them,  *)
(* or one is a number from cite and the other a keyword from citeAll.      *)
(***************************************************************************)
THEOREM AnchorsAreDifferent == Spec => []AnchorsDiffer
<1>1. Init => AnchorInv
  <2>1. Init => Chosen = {}
    BY DEF Init, Chosen
  <2> QED
    BY <2>1 DEF AnchorInv, AnchorsDiffer
<1>2. IInv /\ AnchorInv /\ [Next]_vars => AnchorInv'
  BY AnchorsPreserve
<1>3. AnchorInv => AnchorsDiffer
  BY DEF AnchorInv, AnchorsDiffer
<1> QED
  BY <1>1, <1>2, <1>3, AlwaysIInv, PTL DEF Spec

(***************************************************************************)
(* When citeAll is through, everything is selected.                        *)
(***************************************************************************)
THEOREM CiteAllSelects == Spec => CiteAllSelectsAll
<1>1. IInv /\ [Next]_vars => [cursor # 0 /\ cursor' = 0 => Chosen' = Publications]_vars
  <2> SUFFICES ASSUME IInv, Next, cursor # 0, cursor' = 0
               PROVE  Chosen' = Publications
    OBVIOUS
  <2>1. AddAllNext
    <3>1. ~AtLine
      BY DEF AtLine
    <3>2. ~(EndOfFile \/ AddAllAborts \/ Finished)
      BY DEF EndOfFile, AddAllAborts, Abort, Finished, vars
    <3> QED
      BY <3>1, <3>2 DEF Next, OtherLine, BadCommand, CiteAll, Cite, CiteAborts,
                        CiteUnknown, Sort, SortBadOrder, Clear, BeginCheck, Export,
                        ExportFails, ExportExits, Include, IncludeFails, HasLine,
                        CheckIsOver
  <2> QED
    BY <2>1, AddAllNextSelects DEF IInv
<1> QED
  BY <1>1, AlwaysIInv, PTL DEF Spec, CiteAllSelectsAll

-----------------------------------------------------------------------------
(***************************************************************************)
(* The sort command.                                                       *)
(***************************************************************************)
\* Every set of natural numbers has a least one.
LEMMA FirstOf ==
    ASSUME NEW S \in SUBSET Nat, S # {}
    PROVE  \E j \in S : \A k \in S : j <= k
<1>1. PICK j \in S : \A k \in S : ~ (<<k, j>> \in OpToRel(<, Nat))
  BY NatLessThanWellFounded, WFMin
<1>2. ASSUME NEW k \in S PROVE j <= k
  <2>1. <<k, j>> \in Nat \X Nat
    OBVIOUS
  <2>2. ~(k < j)
    BY <1>1, <2>1 DEF OpToRel
  <2> QED
    BY <2>2
<1> QED
  BY <1>2

\* What one level says of three publications.
LEMMA LevelCompares ==
    ASSUME NEW level \in SortLevel,
           NEW p \in Publications, NEW q \in Publications, NEW r \in Publications
    PROVE  /\ CompareLevel(p, q, level) \in {-1, 0, 1}
           /\ CompareLevel(p, p, level) = 0
           /\ CompareLevel(q, p, level) = -CompareLevel(p, q, level)
           /\ CompareLevel(p, q, level) = 0 => CompareLevel(p, r, level) = CompareLevel(q, r, level)
           /\ CompareLevel(p, q, level) = -1 /\ CompareLevel(q, r, level) \in {-1, 0} =>
                  CompareLevel(p, r, level) = -1
<1> DEFINE k == level.key
           c == CompareField(p, q, k)
<1>1. k \in SortKeys /\ level.ascending \in BOOLEAN
  BY DEF SortLevel
<1>2. \A x \in Publications : Field[x][k] \in Int \/ Field[x][k] = Missing
  BY <1>1, FieldAssumption
<1> DEFINE a == Field[p][k]
           b == Field[q][k]
           d == Field[r][k]
<1>3. /\ a \in Int \/ a = Missing
      /\ b \in Int \/ b = Missing
      /\ d \in Int \/ d = Missing
  BY <1>2
<1>4. /\ CompareField(p, q, k) = IF a # Missing /\ b # Missing
                                 THEN IF a < b THEN -1 ELSE IF a > b THEN 1 ELSE 0
                                 ELSE IF b # Missing THEN 1 ELSE IF a # Missing THEN -1 ELSE 0
      /\ CompareField(q, p, k) = IF b # Missing /\ a # Missing
                                 THEN IF b < a THEN -1 ELSE IF b > a THEN 1 ELSE 0
                                 ELSE IF a # Missing THEN 1 ELSE IF b # Missing THEN -1 ELSE 0
      /\ CompareField(p, r, k) = IF a # Missing /\ d # Missing
                                 THEN IF a < d THEN -1 ELSE IF a > d THEN 1 ELSE 0
                                 ELSE IF d # Missing THEN 1 ELSE IF a # Missing THEN -1 ELSE 0
      /\ CompareField(q, r, k) = IF b # Missing /\ d # Missing
                                 THEN IF b < d THEN -1 ELSE IF b > d THEN 1 ELSE 0
                                 ELSE IF d # Missing THEN 1 ELSE IF b # Missing THEN -1 ELSE 0
      /\ CompareField(p, p, k) = IF a # Missing /\ a # Missing
                                 THEN IF a < a THEN -1 ELSE IF a > a THEN 1 ELSE 0
                                 ELSE IF a # Missing THEN 1 ELSE IF a # Missing THEN -1 ELSE 0
  BY DEF CompareField, Has
<1> HIDE DEF a, b, d, k
<1>5. /\ CompareField(p, q, k) \in {-1, 0, 1} /\ CompareField(p, p, k) = 0
      /\ CompareField(q, r, k) \in {-1, 0, 1} /\ CompareField(p, r, k) \in {-1, 0, 1}
      /\ CompareField(q, p, k) = -CompareField(p, q, k)
  BY <1>3, <1>4, MissingAssumption
<1>6. CompareField(p, q, k) = 0 => CompareField(p, r, k) = CompareField(q, r, k)
  BY <1>3, <1>4, MissingAssumption
<1>7. /\ CompareField(p, q, k) = -1 /\ CompareField(q, r, k) \in {-1, 0} => CompareField(p, r, k) = -1
      /\ CompareField(p, q, k) = 1 /\ CompareField(q, r, k) \in {1, 0} => CompareField(p, r, k) = 1
  BY <1>3, <1>4, MissingAssumption
<1>8. CASE level.ascending
  BY <1>5, <1>6, <1>7, <1>8 DEF CompareLevel, k
<1>9. CASE ~level.ascending
  <2> DEFINE x == CompareField(p, q, k)
             y == CompareField(q, r, k)
             z == CompareField(p, r, k)
  <2>1. /\ CompareLevel(p, q, level) = -x /\ CompareLevel(q, r, level) = -y
        /\ CompareLevel(p, r, level) = -z /\ CompareLevel(q, p, level) = -CompareField(q, p, k)
        /\ CompareLevel(p, p, level) = -CompareField(p, p, k)
    BY <1>9 DEF CompareLevel, k
  <2>2. x \in {-1, 0, 1} /\ y \in {-1, 0, 1} /\ z \in {-1, 0, 1}
    BY <1>5
  <2>3. x = 0 => z = y
    BY <1>6
  <2>4. x = 1 /\ y \in {1, 0} => z = 1
    BY <1>7
  <2>5. CompareField(q, p, k) = -x /\ CompareField(p, p, k) = 0
    BY <1>5
  <2> HIDE DEF x, y, z
  <2>6. -x \in {-1, 0, 1} /\ (-x = 0 => x = 0) /\ (-x = -1 => x = 1)
    BY <2>2
  <2>7. -y \in {-1, 0} => y \in {1, 0}
    BY <2>2
  <2>8. CompareLevel(p, p, level) = 0
    <3> DEFINE z0 == CompareField(p, p, k)
    <3>1. z0 = 0
      BY <2>5
    <3>2. z0 \in Int /\ CompareLevel(p, p, level) = -z0
      BY <2>1, <3>1
    <3> HIDE DEF z0
    <3>3. CompareLevel(p, p, level) = 0 - z0
      BY <3>2
    <3> QED
      BY <3>1, <3>3
  <2>9. CompareLevel(q, p, level) = -CompareLevel(p, q, level)
    BY <2>1, <2>5
  <2>10. CompareLevel(p, q, level) = 0 => CompareLevel(p, r, level) = CompareLevel(q, r, level)
    BY <2>1, <2>3, <2>6
  <2>11. CompareLevel(p, q, level) = -1 /\ CompareLevel(q, r, level) \in {-1, 0} =>
             CompareLevel(p, r, level) = -1
    <3> HAVE CompareLevel(p, q, level) = -1 /\ CompareLevel(q, r, level) \in {-1, 0}
    <3>1. x = 1 /\ y \in {1, 0}
      BY <2>1, <2>6, <2>7
    <3> QED
      BY <2>1, <2>4, <3>1
  <2> QED
    BY <2>1, <2>6, <2>8, <2>9, <2>10, <2>11
<1> QED
  BY <1>8, <1>9

\* Publications of which none comes before the other are equal at every level.
LEMMA EqualAtEveryLevel ==
    ASSUME NEW levels \in Seq(SortLevel), NEW p \in Publications, NEW q \in Publications
    PROVE  ~Before(p, q, levels) /\ ~Before(q, p, levels)
               <=> \A i \in DOMAIN levels : CompareLevel(p, q, levels[i]) = 0
<1> DEFINE c(i) == CompareLevel(p, q, levels[i])
           d(i) == CompareLevel(q, p, levels[i])
           S == {i \in DOMAIN levels : c(i) # 0}
<1>1. \A i \in DOMAIN levels : c(i) \in {-1, 0, 1} /\ d(i) = -c(i)
  BY LevelCompares
<1>2. DOMAIN levels \in SUBSET Nat /\ DOMAIN levels = 1 .. Len(levels) /\ Len(levels) \in Nat
  OBVIOUS
<1>3. ASSUME S # {} PROVE Before(p, q, levels) \/ Before(q, p, levels)
  <2>1. PICK i \in S : \A j \in S : i <= j
    <3>1. S \in SUBSET Nat
      BY <1>2
    <3> HIDE DEF S
    <3> QED
      BY <1>3, <3>1, FirstOf
  <2>2. i \in DOMAIN levels /\ c(i) # 0 /\ d(i) # 0
    BY <1>1
  <2>3. \A j \in 1 .. i - 1 : c(j) = 0 /\ d(j) = 0
    <3> TAKE j \in 1 .. i - 1
    <3>1. j \in DOMAIN levels /\ ~(i <= j)
      BY <1>2, <2>2
    <3>2. c(j) = 0
      BY <2>1, <3>1
    <3> QED
      BY <1>1, <3>1, <3>2
  <2>4. Decides(p, q, levels, i) /\ Decides(q, p, levels, i)
    BY <2>2, <2>3 DEF Decides
  <2>5. c(i) = -1 \/ d(i) = -1
    BY <1>1, <2>2
  <2> QED
    BY <2>2, <2>4, <2>5 DEF Before
<1>4. ASSUME S = {} PROVE ~Before(p, q, levels) /\ ~Before(q, p, levels)
  BY <1>1, <1>4 DEF Before, Decides
<1> QED
  BY <1>3, <1>4

(***************************************************************************)
(* The comparison that PublicationSet::sort() hands to qsort() is a strict *)
(* weak order for any levels, ascending or descending, and with fields     *)
(* missing: without that, qsort() may leave anything in the array          *)
(* (publicationNodeComparisonFunction()).                                  *)
(***************************************************************************)
THEOREM ComparisonIsAnOrder ==
    ASSUME NEW levels \in Seq(SortLevel),
           NEW p \in Publications, NEW q \in Publications, NEW r \in Publications
    PROVE  LET Equal(x, y) == ~Before(x, y, levels) /\ ~Before(y, x, levels)
           IN  /\ ~(Before(p, q, levels) /\ Before(q, p, levels))
               /\ Before(p, q, levels) /\ Before(q, r, levels) => Before(p, r, levels)
               /\ Equal(p, q) /\ Equal(q, r) => Equal(p, r)
               /\ Equal(p, q) /\ Before(q, r, levels) => Before(p, r, levels)
<1> DEFINE c(x, y, i) == CompareLevel(x, y, levels[i])
           D == DOMAIN levels
<1>1. \A i \in D : levels[i] \in SortLevel
  OBVIOUS
<1>2. D = 1 .. Len(levels) /\ Len(levels) \in Nat
  OBVIOUS
<1>3. \A x, y \in Publications : Before(x, y, levels) <=>
          \E i \in D : c(x, y, i) = -1 /\ \A j \in 1 .. i - 1 : c(x, y, j) = 0
  BY DEF Before, Decides
<1>4. \A i \in D :
        /\ c(p, q, i) \in {-1, 0, 1} /\ c(q, p, i) = -c(p, q, i)
        /\ c(p, q, i) = 0 => c(p, r, i) = c(q, r, i)
        /\ c(p, q, i) = -1 /\ c(q, r, i) \in {-1, 0} => c(p, r, i) = -1
  BY <1>1, LevelCompares
<1> HIDE DEF c, D
<1>5. ~(Before(p, q, levels) /\ Before(q, p, levels))
  <2> SUFFICES ASSUME Before(p, q, levels), Before(q, p, levels) PROVE FALSE
    OBVIOUS
  <2>1. PICK i \in D : c(p, q, i) = -1 /\ \A j \in 1 .. i - 1 : c(p, q, j) = 0
    BY <1>3
  <2>2. PICK k \in D : c(q, p, k) = -1 /\ \A j \in 1 .. k - 1 : c(q, p, j) = 0
    BY <1>3
  <2>3. i = k \/ i \in 1 .. k - 1 \/ k \in 1 .. i - 1
    BY <1>2
  <2> QED
    BY <1>4, <2>1, <2>2, <2>3
<1>6. ASSUME Before(p, q, levels), Before(q, r, levels) PROVE Before(p, r, levels)
  <2>1. PICK i \in D : c(p, q, i) = -1 /\ \A j \in 1 .. i - 1 : c(p, q, j) = 0
    BY <1>3, <1>6
  <2>2. PICK k \in D : c(q, r, k) = -1 /\ \A j \in 1 .. k - 1 : c(q, r, j) = 0
    BY <1>3, <1>6
  <2>3. \A j \in 1 .. i - 1 : j \in D
    BY <1>2
  <2>4. CASE i <= k
    <3>1. i = k \/ i \in 1 .. k - 1
      BY <1>2, <2>4
    <3>2. c(p, r, i) = -1
      BY <1>4, <2>1, <2>2, <3>1
    <3>3. \A j \in 1 .. i - 1 : j \in 1 .. k - 1
      BY <1>2, <2>4
    <3>4. \A j \in 1 .. i - 1 : c(p, r, j) = 0
      BY <1>4, <2>1, <2>2, <2>3, <3>3
    <3> QED
      BY <1>3, <3>2, <3>4
  <2>5. CASE k < i
    <3>1. k \in 1 .. i - 1 /\ \A j \in 1 .. k - 1 : j \in 1 .. i - 1
      BY <1>2, <2>5
    <3>2. c(p, r, k) = -1
      BY <1>4, <2>1, <2>2, <3>1
    <3>3. \A j \in 1 .. k - 1 : c(p, r, j) = 0
      BY <1>4, <2>1, <2>2, <2>3, <3>1
    <3> QED
      BY <1>3, <3>2, <3>3
  <2> QED
    BY <1>2, <2>4, <2>5
<1>7. ASSUME ~Before(p, q, levels), ~Before(q, p, levels)
      PROVE  \A i \in D : c(p, r, i) = c(q, r, i)
  <2>1. \A i \in D : c(p, q, i) = 0
    BY <1>7, EqualAtEveryLevel DEF c, D
  <2> QED
    BY <1>4, <2>1
<1>8. ASSUME ~Before(p, q, levels), ~Before(q, p, levels),
             ~Before(q, r, levels), ~Before(r, q, levels)
      PROVE  ~Before(p, r, levels) /\ ~Before(r, p, levels)
  <2>1. \A i \in D : c(q, r, i) = 0
    BY <1>8, EqualAtEveryLevel DEF c, D
  <2>2. \A i \in D : c(p, r, i) = 0
    BY <1>7, <1>8, <2>1
  <2> QED
    BY <2>2, EqualAtEveryLevel DEF c, D
<1>9. ASSUME ~Before(p, q, levels), ~Before(q, p, levels), Before(q, r, levels)
      PROVE  Before(p, r, levels)
  <2>1. PICK k \in D : c(q, r, k) = -1 /\ \A j \in 1 .. k - 1 : c(q, r, j) = 0
    BY <1>3, <1>9
  <2>2. \A j \in 1 .. k - 1 : j \in D
    BY <1>2
  <2>3. c(p, r, k) = -1 /\ \A j \in 1 .. k - 1 : c(p, r, j) = 0
    BY <1>7, <1>9, <2>1, <2>2
  <2> QED
    BY <1>3, <2>3
<1> QED
  BY <1>5, <1>6, <1>7, <1>8, <1>9
=============================================================================
