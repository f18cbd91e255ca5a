-------------------------- MODULE CustomExportProofs --------------------------
(***************************************************************************)
(* For all mappings, any number of exports and any selections: the types,  *)
(* SubdivisionsMatch and EachIsWritten; and, what the second half of this  *)
(* module is about, for all files of mappings: OnlyKnownCrashes and        *)
(* RowsAreMapped.                                                          *)
(***************************************************************************)
EXTENDS CustomExport, FiniteSetTheorems, WellFoundedInduction, TLAPS

(***************************************************************************)
(* SubdivisionsMatch and EachIsWritten are about the end of an export.  On *)
(* the way there, the publications written so far are those of the         *)
(* selection up to index, one after the other, without the comments in     *)
(* between; each one was written with its neighbours.                      *)
(***************************************************************************)
IsSeq(s) == s \in Seq(Range(s))

Records == Last(out)

LoadInv ==
    /\ loading \in {"options", "header", "rows", "done", "failed", "crashed"}
    /\ loading = "rows" => ColumnsToProcess(columnIndex) \in 1 .. MaxColumns

IndexInv ==
    /\ exports \in Seq(Seq(AllPublications)) /\ selection \in Seq(AllPublications)
    /\ phase \in {"start", "loop", "between", "exited"}
    /\ index \in Nat /\ previous \in Nat /\ gNumber \in Nat /\ gTotalNumber \in Nat
    /\ phase = "start" => index = 0 /\ selection = <<>>
    /\ phase # "start" => index \in 1 .. Len(selection) + 1
    /\ previous = 0 \/ previous < index
    /\ gNumber = 0 \/ gNumber < index
    /\ phase = "between" => index = Len(selection) + 1

OutInv ==
    /\ IsSeq(out)
    /\ \A e \in 1 .. Len(out) : IsSeq(out[e])
    /\ phase \in {"loop", "between"} => out # <<>> /\ gNumber = Len(Records)

(***************************************************************************)
(* The numbers of the records, and which total numbers there are.          *)
(***************************************************************************)
Numbered ==
    \A e \in 1 .. Len(out) : \A i \in 1 .. Len(out[e]) :
        out[e][i].number = i /\ out[e][i].total \in 1 .. gTotalNumber

InOrder ==
    \A d, e \in 1 .. Len(out) : \A i \in 1 .. Len(out[d]), j \in 1 .. Len(out[e]) :
        d < e \/ (d = e /\ i < j) => out[d][i].total < out[e][j].total

NoneLeftOut ==
    \A n \in 1 .. gTotalNumber :
        \E e \in 1 .. Len(out) : \E i \in 1 .. Len(out[e]) : out[e][i].total = n

(***************************************************************************)
(* The records of the current export: the publications before index that   *)
(* are no comments, in their order, each written with its neighbours.      *)
(***************************************************************************)
WrittenWith(record, prev, next) ==
    /\ record.begins = {t \in Types : Begins(record.publication, prev, t)}
    /\ record.within = {t \in Types : ~(\/ Begins(record.publication, prev, t)
                                        \/ Ends(record.publication, next, t))}
    /\ record.ends   = {t \in Types : Ends(record.publication, next, t)}

PreviousOf(i) == IF i = 1 THEN 0 ELSE Records[i - 1].publication

PreviousIsLast ==
    /\ previous = IF Records = <<>> THEN 0 ELSE Records[Len(Records)].publication
    /\ \A q \in previous + 1 .. index - 1 : selection[q].comment

RecordsShown ==
    /\ \A i \in 1 .. Len(Records) :
        /\ Records[i].publication \in 1 .. index - 1
        /\ ~selection[Records[i].publication].comment
    /\ \A i, j \in 1 .. Len(Records) :
        i < j => Records[i].publication < Records[j].publication
    /\ \A q \in 1 .. index - 1 :
        selection[q].comment \/ \E i \in 1 .. Len(Records) : Records[i].publication = q

RecordsWritten ==
    \A i \in 1 .. Len(Records) :
        /\ WrittenWith(Records[i], PreviousOf(i), NextPublication(Records[i].publication))
        /\ i < Len(Records) =>
               Records[i + 1].publication = NextPublication(Records[i].publication)

ExportInv ==
    phase \in {"loop", "between"} => PreviousIsLast /\ RecordsShown /\ RecordsWritten

IInv == LoadInv /\ IndexInv /\ OutInv /\ Numbered /\ InOrder /\ NoneLeftOut /\ ExportInv

-----------------------------------------------------------------------------
(***************************************************************************)
(* The operators on sequences that the exports are built with.             *)
(***************************************************************************)
LEMMA AppendSeq ==
    ASSUME NEW s, NEW x, IsSeq(s)
    PROVE  LET t == Append(s, x)
           IN  /\ IsSeq(t) /\ t # <<>>
               /\ Len(t) = Len(s) + 1 /\ Len(s) \in Nat
               /\ Last(t) = x
               /\ \A i \in 1 .. Len(s) : t[i] = s[i]
<1> DEFINE S == Range(s) \cup {x}
           t == Append(s, x)
<1>1. s \in Seq(S) /\ x \in S
  BY DEF IsSeq
<1>2. t \in Seq(S) /\ Len(t) = Len(s) + 1 /\ Len(s) \in Nat /\ t[Len(s) + 1] = x
      /\ \A i \in 1 .. Len(s) : t[i] = s[i]
  BY <1>1
<1> SUFFICES IsSeq(t) /\ t # <<>> /\ Last(t) = x
  BY <1>2
<1> HIDE DEF t
<1>3. t \in [1 .. Len(t) -> Range(t)]
  BY <1>2 DEF Range
<1>4. t \in Seq(Range(t))
  BY <1>2, <1>3
<1> QED
  BY <1>2, <1>4 DEF IsSeq, Last

\* The same for the last element.
LEMMA ReplaceLast ==
    ASSUME NEW s, NEW x, IsSeq(s), s # <<>>
    PROVE  LET t == [s EXCEPT ![Len(s)] = x]
           IN  /\ IsSeq(t) /\ t # <<>>
               /\ Len(t) = Len(s) /\ Len(s) \in Nat \ {0}
               /\ Last(t) = x
               /\ \A i \in 1 .. Len(s) - 1 : t[i] = s[i]
<1> DEFINE S == Range(s) \cup {x}
           t == [s EXCEPT ![Len(s)] = x]
<1>1. s \in Seq(S) /\ x \in S
  BY DEF IsSeq
<1>2. Len(s) \in Nat \ {0}
  BY <1>1
<1>3. t \in Seq(S) /\ Len(t) = Len(s) /\ t[Len(s)] = x
      /\ \A i \in 1 .. Len(s) - 1 : t[i] = s[i]
  BY <1>1, <1>2
<1> SUFFICES IsSeq(t) /\ t # <<>> /\ Last(t) = x
  BY <1>2, <1>3
<1> HIDE DEF t
<1>4. t \in [1 .. Len(t) -> Range(t)]
  BY <1>3 DEF Range
<1>5. t \in Seq(Range(t))
  BY <1>3, <1>4
<1> QED
  BY <1>2, <1>3, <1>5 DEF IsSeq, Last

\* Every nonempty set of natural numbers has a least element.
LEMMA FirstOfIsLeast ==
    ASSUME NEW S \in SUBSET Nat, S # {}
    PROVE  FirstOf(S) \in S /\ \A k \in S : FirstOf(S) <= k
<1>1. PICK j \in S : \A k \in S : ~ (<<k, j>> \in OpToRel(<, Nat))
  BY NatLessThanWellFounded, WFMin
<1>2. ASSUME NEW k \in S PROVE j <= k
  <2>1. <<k, j>> \in Nat \X Nat
    OBVIOUS
  <2>2. ~(k < j)
    BY <1>1, <2>1 DEF OpToRel
  <2> QED
    BY <2>2
<1> QED
  BY <1>2 DEF FirstOf

(***************************************************************************)
(* The next publication is the first one behind p that is no comment.      *)
(***************************************************************************)
LEMMA NextIsNext ==
    ASSUME Len(selection) \in Nat, NEW p \in Nat, NEW q \in p + 1 .. Len(selection),
           ~selection[q].comment, \A k \in p + 1 .. q - 1 : selection[k].comment
    PROVE  NextPublication(p) = q
<1> DEFINE after == {k \in p + 1 .. Len(selection) : ~selection[k].comment}
<1>1. q \in after /\ after \in SUBSET Nat
  OBVIOUS
<1>2. FirstOf(after) \in after /\ FirstOf(after) <= q
  BY <1>1, FirstOfIsLeast
<1>3. FirstOf(after) \notin p + 1 .. q - 1
  BY <1>2
<1>4. FirstOf(after) = q
  <2> HIDE DEF after
  <2>1. FirstOf(after) \in p + 1 .. Len(selection)
    BY <1>2 DEF after
  <2> QED
    BY <1>2, <1>3, <2>1
<1> QED
  BY <1>1, <1>4 DEF NextPublication

\* There is none if there are only comments left.
LEMMA NoNext ==
    ASSUME NEW p, \A k \in p + 1 .. Len(selection) : selection[k].comment
    PROVE  NextPublication(p) = 0
BY DEF NextPublication

-----------------------------------------------------------------------------
(***************************************************************************)
(* What the steps that write do to out.                                    *)
(***************************************************************************)
LEMMA BeginWrites ==
    ASSUME OutInv, BeginExport
    PROVE  /\ IsSeq(out') /\ out' # <<>> /\ Len(out) \in Nat /\ Len(out') = Len(out) + 1
           /\ \A e \in 1 .. Len(out) : out'[e] = out[e]
           /\ out'[Len(out) + 1] = <<>> /\ Records' = <<>>
<1>1. out' = Append(out, <<>>)
  BY DEF BeginExport
<1> QED
  BY <1>1, AppendSeq DEF OutInv, Records, Last

TheRecord == Written(index, previous, NextPublication(index))

LEMMA ApplyWrites ==
    ASSUME IndexInv, OutInv, ApplyTemplate
    PROVE  /\ IsSeq(out') /\ out' # <<>> /\ Len(out) \in Nat \ {0} /\ Len(out') = Len(out)
           /\ \A e \in 1 .. Len(out) - 1 : out'[e] = out[e]
           /\ IsSeq(Records') /\ Len(Records) \in Nat /\ Len(Records') = Len(Records) + 1
           /\ \A i \in 1 .. Len(Records) : Records'[i] = Records[i]
           /\ Records'[Len(Records) + 1] = TheRecord
           /\ out[Len(out)] = Records /\ out'[Len(out)] = Records'
<1>1. out' = [out EXCEPT ![Len(out)] = Append(Records, TheRecord)]
  BY DEF ApplyTemplate, Records, Last, TheRecord
<1>2. IsSeq(out) /\ out # <<>>
  BY DEF ApplyTemplate, OutInv
<1>3. Len(out) \in Nat \ {0}
  BY <1>2, ReplaceLast
<1>4. IsSeq(Records)
  BY <1>3 DEF OutInv, Records, Last
<1>5. /\ IsSeq(out') /\ out' # <<>> /\ Len(out') = Len(out)
      /\ \A e \in 1 .. Len(out) - 1 : out'[e] = out[e]
      /\ Records' = Append(Records, TheRecord)
  BY <1>1, <1>2, ReplaceLast DEF Records
<1>6. /\ IsSeq(Records') /\ Len(Records) \in Nat /\ Len(Records') = Len(Records) + 1
      /\ \A i \in 1 .. Len(Records) : Records'[i] = Records[i]
      /\ Last(Records') = TheRecord
  BY <1>4, <1>5, AppendSeq
<1> QED
  BY <1>3, <1>5, <1>6 DEF Last, Records

LEMMA RecordSays ==
    /\ TheRecord.publication = index
    /\ TheRecord.number = gNumber + 1 /\ TheRecord.total = gTotalNumber + 1
    /\ WrittenWith(TheRecord, previous, NextPublication(index))
BY DEF TheRecord, Written, WrittenWith

-----------------------------------------------------------------------------
(***************************************************************************)
(* The types.                                                              *)
(***************************************************************************)
LEMMA InitIInv == Init => IInv
<1> SUFFICES ASSUME Init PROVE IInv
  OBVIOUS
<1>1. LoadInv
  BY DEF Init, LoadInit, LoadInv
<1>2. IndexInv
  <2>1. PICK input \in Inputs : exports = input.selections
    BY DEF Init
  <2>2. exports \in Seq(Seq(AllPublications))
    BY <2>1, InputsAssumption
  <2>3. selection \in Seq(AllPublications)
    BY DEF Init
  <2> QED
    BY <2>2, <2>3 DEF Init, IndexInv
<1>3. out = <<>> /\ gTotalNumber = 0 /\ phase = "start"
  BY DEF Init
<1>4. IsSeq(out) /\ Len(out) = 0
  BY <1>3 DEF IsSeq
<1> QED
  BY <1>1, <1>2, <1>3, <1>4 DEF IInv, OutInv, Numbered, InOrder, NoneLeftOut, ExportInv

LEMMA LoadPreserves ==
    ASSUME LoadInv, [Next]_vars
    PROVE  LoadInv'
<1>1. CASE ReadHeader
  <2>1. SUFFICES ASSUME loading' = "rows"
                 PROVE  ColumnsToProcess(columnIndex') \in 1 .. MaxColumns
    BY <1>1 DEF ReadHeader, GiveUp, LoadInv
  <2>2. PICK keys, values : /\ keys \in SUBSET (1 .. MaxColumns) /\ values \in SUBSET (1 .. MaxColumns)
                            /\ keys # {} /\ values # {}
                            /\ columnIndex' = [key |-> FirstOf(keys), value |-> FirstOf(values)]
    BY <1>1, <2>1, Zenon DEF ReadHeader, GiveUp
  <2>3. FirstOf(keys) \in 1 .. MaxColumns /\ FirstOf(values) \in 1 .. MaxColumns
    <3>1. keys \in SUBSET Nat /\ values \in SUBSET Nat
      BY <2>2
    <3> QED
      BY <2>2, <3>1, FirstOfIsLeast
  <2> QED
    BY <2>2, <2>3 DEF ColumnsToProcess
<1>2. CASE OpenFile \/ FileFails \/ EndOfOptions \/ EndOfFile
  BY <1>2 DEF OpenFile, FileFails, EndOfOptions, EndOfFile, LoadInv
<1>3. CASE ReadRow
  BY <1>3 DEF ReadRow, GiveUp, LoadInv
<1>4. CASE UNCHANGED loadVars
  BY <1>4 DEF loadVars, LoadInv
<1> QED
  BY <1>1, <1>2, <1>3, <1>4 DEF Next, LoadMappings, Load, BeginExport, SkipComment, ApplyTemplate,
                                NoSuchMapping, EndExport, Finished, vars

LEMMA IndexPreserves ==
    ASSUME IndexInv, [Next]_vars
    PROVE  IndexInv'
<1>1. Len(selection) \in Nat
  BY DEF IndexInv
<1>2. CASE BeginExport
  <2>1. Head(exports) \in Seq(AllPublications) /\ Tail(exports) \in Seq(Seq(AllPublications))
    BY <1>2 DEF BeginExport, IndexInv
  <2>2. Len(Head(exports)) \in Nat
    BY <2>1
  <2>3. 1 \in 1 .. Len(Head(exports)) + 1
    BY <2>2
  <2> QED
    BY <1>2, <2>1, <2>3 DEF BeginExport, IndexInv
<1>3. CASE SkipComment
  BY <1>1, <1>3 DEF SkipComment, IndexInv
<1>4. CASE ApplyTemplate
  BY <1>1, <1>4 DEF ApplyTemplate, IndexInv
<1>5. CASE NoSuchMapping
  BY <1>1, <1>5 DEF NoSuchMapping, IndexInv
<1>6. CASE EndExport
  BY <1>1, <1>6 DEF EndExport, IndexInv
<1>7. CASE UNCHANGED exportVars
  BY <1>7 DEF exportVars, IndexInv
<1> QED
  BY <1>2, <1>3, <1>4, <1>5, <1>6, <1>7 DEF Next, LoadMappings, Finished, vars

LEMMA OutPreserves ==
    ASSUME IndexInv, OutInv, [Next]_vars
    PROVE  OutInv'
<1>1. CASE BeginExport
  <2>1. /\ IsSeq(out') /\ out' # <<>> /\ Len(out) \in Nat /\ Len(out') = Len(out) + 1
        /\ \A e \in 1 .. Len(out) : out'[e] = out[e]
        /\ out'[Len(out) + 1] = <<>> /\ Records' = <<>> /\ gNumber' = 0
    BY <1>1, BeginWrites DEF BeginExport
  <2>2. IsSeq(<<>>)
    BY DEF IsSeq
  <2>3. ASSUME NEW e \in 1 .. Len(out') PROVE IsSeq(out'[e])
    <3>1. CASE e = Len(out) + 1
      BY <2>1, <2>2, <3>1
    <3>2. CASE e \in 1 .. Len(out)
      BY <2>1, <3>2 DEF OutInv
    <3> QED
      BY <2>1, <3>1, <3>2
  <2> QED
    BY <2>1, <2>3 DEF OutInv
<1>2. CASE ApplyTemplate
  <2>1. /\ IsSeq(out') /\ out' # <<>> /\ Len(out) \in Nat \ {0} /\ Len(out') = Len(out)
        /\ \A e \in 1 .. Len(out) - 1 : out'[e] = out[e]
        /\ IsSeq(Records') /\ Len(Records') = Len(Records) + 1
        /\ out'[Len(out)] = Records'
    BY <1>2, ApplyWrites
  <2>2. ASSUME NEW e \in 1 .. Len(out') PROVE IsSeq(out'[e])
    <3>1. CASE e = Len(out)
      BY <2>1, <3>1
    <3>2. CASE e \in 1 .. Len(out) - 1
      BY <2>1, <3>2 DEF OutInv
    <3> QED
      BY <2>1, <3>1, <3>2
  <2>3. gNumber' = Len(Records')
    BY <1>2, <2>1 DEF ApplyTemplate, OutInv
  <2> QED
    BY <2>1, <2>2, <2>3 DEF OutInv
<1>3. CASE UNCHANGED <<out, gNumber>> /\ (phase' = phase \/ phase = "loop" \/ phase' = "exited")
  BY <1>3 DEF OutInv, Records
<1> QED
  BY <1>1, <1>2, <1>3 DEF Next, LoadMappings, SkipComment, NoSuchMapping, EndExport, Finished,
                          exportVars, vars

-----------------------------------------------------------------------------
(***************************************************************************)
(* The numbers.  Only BeginExport and ApplyTemplate change out: the first  *)
(* adds nothing to number, the second numbers one record more.             *)
(***************************************************************************)
NumbersInv == Numbered /\ InOrder /\ NoneLeftOut

LEMMA BeginKeepsNumbers ==
    ASSUME IndexInv, OutInv, NumbersInv, BeginExport
    PROVE  NumbersInv'
<1>1. /\ Len(out) \in Nat /\ Len(out') = Len(out) + 1
      /\ \A e \in 1 .. Len(out) : out'[e] = out[e]
      /\ out'[Len(out) + 1] = <<>> /\ gTotalNumber' = gTotalNumber
  BY BeginWrites DEF BeginExport
<1>2. \A e \in 1 .. Len(out') : \A i \in 1 .. Len(out'[e]) :
          e \in 1 .. Len(out) /\ out'[e] = out[e]
  <2> SUFFICES ASSUME NEW e \in 1 .. Len(out'), e = Len(out) + 1 PROVE Len(out'[e]) = 0
    BY <1>1
  <2> QED
    BY <1>1
<1>3. Numbered'
  BY <1>1, <1>2 DEF NumbersInv, Numbered
<1>4. InOrder'
  BY <1>2 DEF NumbersInv, InOrder
<1>5. NoneLeftOut'
  <2> SUFFICES ASSUME NEW n \in 1 .. gTotalNumber
               PROVE  \E e \in 1 .. Len(out') : \E i \in 1 .. Len(out'[e]) : out'[e][i].total = n
    BY <1>1 DEF NoneLeftOut
  <2>1. PICK e \in 1 .. Len(out) : \E i \in 1 .. Len(out[e]) : out[e][i].total = n
    BY DEF NumbersInv, NoneLeftOut
  <2>2. e \in 1 .. Len(out') /\ out'[e] = out[e]
    BY <1>1
  <2> QED
    BY <2>1, <2>2
<1> QED
  BY <1>3, <1>4, <1>5 DEF NumbersInv

LEMMA ApplyKeepsNumbers ==
    ASSUME IndexInv, OutInv, NumbersInv, ApplyTemplate
    PROVE  NumbersInv'
<1> DEFINE last == Len(out)
           new  == Len(Records) + 1
<1>1. /\ last \in Nat \ {0} /\ Len(out') = last
      /\ \A e \in 1 .. last - 1 : out'[e] = out[e]
      /\ Len(Records) \in Nat /\ Len(Records') = new
      /\ \A i \in 1 .. new - 1 : Records'[i] = Records[i]
      /\ Records'[new] = TheRecord
      /\ out[last] = Records /\ out'[last] = Records'
  BY ApplyWrites
<1>2. gNumber = Len(Records) /\ gTotalNumber \in Nat /\ gTotalNumber' = gTotalNumber + 1
  BY DEF ApplyTemplate, OutInv, IndexInv
<1>3. TheRecord.number = new /\ TheRecord.total = gTotalNumber + 1
  BY <1>1, <1>2, RecordSays
<1>4. Len(out'[last]) = new /\ out'[last][new] = TheRecord
  BY <1>1
<1> HIDE DEF last, new
\* Every record is an old one or the new one.
<1>5. ASSUME NEW e \in 1 .. Len(out'), NEW i \in 1 .. Len(out'[e])
      PROVE  \/ e = last /\ i = new
             \/ /\ e \in 1 .. Len(out) /\ i \in 1 .. Len(out[e]) /\ out'[e][i] = out[e][i]
                /\ (e < last \/ (e = last /\ i < new))
  <2>1. CASE e = last
    <3>1. i \in 1 .. new /\ Len(out[e]) = new - 1
      BY <1>1, <1>4, <2>1 DEF new
    <3> QED
      BY <1>1, <2>1, <3>1 DEF last
  <2>2. CASE e # last
    BY <1>1, <2>2 DEF last
  <2> QED
    BY <2>1, <2>2
<1>6. Numbered'
  <2> SUFFICES ASSUME NEW e \in 1 .. Len(out'), NEW i \in 1 .. Len(out'[e])
               PROVE  out'[e][i].number = i /\ out'[e][i].total \in 1 .. gTotalNumber'
    BY DEF Numbered
  <2>1. CASE e = last /\ i = new
    BY <1>2, <1>3, <1>4, <2>1
  <2>2. CASE e \in 1 .. Len(out) /\ i \in 1 .. Len(out[e]) /\ out'[e][i] = out[e][i]
    <3>1. out[e][i].number = i /\ out[e][i].total \in 1 .. gTotalNumber
      BY <2>2 DEF NumbersInv, Numbered
    <3> QED
      BY <1>2, <2>2, <3>1
  <2> QED
    BY <1>5, <2>1, <2>2
<1>7. InOrder'
  <2> SUFFICES ASSUME NEW d \in 1 .. Len(out'), NEW e \in 1 .. Len(out'),
                      NEW i \in 1 .. Len(out'[d]), NEW j \in 1 .. Len(out'[e]),
                      d < e \/ (d = e /\ i < j)
               PROVE  out'[d][i].total < out'[e][j].total
    BY DEF InOrder
  <2>1. e <= last /\ (e = last => j <= new)
    <3>1. e <= last
      BY <1>1
    <3>2. e = last => j <= new
      BY <1>1, <1>4
    <3> QED
      BY <3>1, <3>2
  <2>2. d \in 1 .. Len(out) /\ i \in 1 .. Len(out[d]) /\ out'[d][i] = out[d][i]
    <3>1. ~(d = last /\ i = new)
      <4> SUFFICES ASSUME d = last, i = new PROVE FALSE
        OBVIOUS
      <4>1. d \in Int /\ e \in Int
        BY <1>1
      <4>2. d = e
        BY <2>1, <4>1
      <4>3. j \in Int /\ new \in Int
        BY <1>1, <1>4, <4>2 DEF new
      <4> QED
        BY <2>1, <4>1, <4>2, <4>3
    <3> QED
      BY <1>5, <3>1
  <2>3. CASE e = last /\ j = new
    <3>1. out[d][i].total \in 1 .. gTotalNumber
      BY <2>2 DEF NumbersInv, Numbered
    <3>2. out'[e][j].total = gTotalNumber + 1
      BY <1>3, <1>4, <2>3
    <3> QED
      BY <1>2, <2>2, <3>1, <3>2
  <2>4. CASE e \in 1 .. Len(out) /\ j \in 1 .. Len(out[e]) /\ out'[e][j] = out[e][j]
    <3>1. out[d][i].total < out[e][j].total
      BY <2>2, <2>4 DEF NumbersInv, InOrder
    <3> QED
      BY <2>2, <2>4, <3>1
  <2> QED
    BY <1>5, <2>3, <2>4
<1>8. NoneLeftOut'
  <2> SUFFICES ASSUME NEW n \in 1 .. gTotalNumber'
               PROVE  \E e \in 1 .. Len(out') : \E i \in 1 .. Len(out'[e]) : out'[e][i].total = n
    BY DEF NoneLeftOut
  <2>1. CASE n = gTotalNumber + 1
    <3>1. last \in 1 .. Len(out') /\ new \in 1 .. Len(out'[last])
      BY <1>1, <1>4 DEF new
    <3>2. out'[last][new].total = n
      BY <1>3, <1>4, <2>1
    <3> QED
      BY <3>1, <3>2
  <2>2. CASE n \in 1 .. gTotalNumber
    <3>1. PICK e \in 1 .. Len(out) : \E i \in 1 .. Len(out[e]) : out[e][i].total = n
      BY <2>2 DEF NumbersInv, NoneLeftOut
    <3>2. PICK i \in 1 .. Len(out[e]) : out[e][i].total = n
      BY <3>1
    <3>3. e \in 1 .. Len(out') /\ i \in 1 .. Len(out'[e]) /\ out'[e][i] = out[e][i]
      <4>1. CASE e = last
        <5>1. i \in 1 .. new - 1
          BY <1>1, <4>1 DEF new
        <5> QED
          BY <1>1, <1>4, <4>1, <5>1
      <4>2. CASE e # last
        BY <1>1, <4>2 DEF last
      <4> QED
        BY <4>1, <4>2
    <3> QED
      BY <3>2, <3>3
  <2> QED
    BY <1>2, <2>1, <2>2
<1> QED
  BY <1>6, <1>7, <1>8 DEF NumbersInv

LEMMA NumbersPreserve ==
    ASSUME IndexInv, OutInv, NumbersInv, [Next]_vars
    PROVE  NumbersInv'
<1>1. CASE UNCHANGED <<out, gTotalNumber>>
  BY <1>1 DEF NumbersInv, Numbered, InOrder, NoneLeftOut
<1> QED
  BY <1>1, BeginKeepsNumbers, ApplyKeepsNumbers
     DEF Next, LoadMappings, SkipComment, NoSuchMapping, EndExport, Finished, exportVars, vars

-----------------------------------------------------------------------------
(***************************************************************************)
(* The records of the current export.                                      *)
(***************************************************************************)
LEMMA SameSelection ==
    ASSUME selection' = selection, NEW record, NEW p, NEW q
    PROVE  /\ WrittenWith(record, p, q)' <=> WrittenWith(record, p, q)
           /\ NextPublication(p)' = NextPublication(p)
<1>1. NextPublication(p)' = NextPublication(p)
  BY DEF NextPublication
<1>2. \A t : (Begins(record.publication, p, t)' <=> Begins(record.publication, p, t))
            /\ (Ends(record.publication, q, t)' <=> Ends(record.publication, q, t))
  BY DEF Begins, Ends, Has, Differ
<1> QED
  BY <1>1, <1>2, Zenon DEF WrittenWith

LEMMA BeginStartsRecords ==
    ASSUME IndexInv, OutInv, BeginExport
    PROVE  ExportInv'
<1>1. Records' = <<>> /\ previous' = 0 /\ index' = 1
  BY BeginWrites DEF BeginExport
<1>2. Len(Records') = 0
  BY <1>1
<1>3. PreviousIsLast'
  BY <1>1 DEF PreviousIsLast
<1>4. RecordsShown' /\ RecordsWritten'
  BY <1>1, <1>2 DEF RecordsShown, RecordsWritten
<1> QED
  BY <1>3, <1>4 DEF ExportInv

LEMMA SkipKeepsRecords ==
    ASSUME IndexInv, OutInv, ExportInv, SkipComment
    PROVE  ExportInv'
<1>1. UNCHANGED <<selection, previous, out, Records>> /\ index' = index + 1
      /\ selection[index].comment /\ index \in Nat /\ previous \in Nat
  BY DEF SkipComment, IndexInv, Records
<1>2. PreviousIsLast /\ RecordsShown /\ RecordsWritten
  BY DEF SkipComment, ExportInv
<1>3. PreviousIsLast'
  BY <1>1, <1>2 DEF PreviousIsLast
<1>4. RecordsShown'
  BY <1>1, <1>2 DEF RecordsShown
<1>5. RecordsWritten'
  <2>1. \A i : PreviousOf(i)' = PreviousOf(i)
    BY <1>1 DEF PreviousOf
  <2> QED
    BY <1>1, <1>2, <2>1, SameSelection DEF RecordsWritten
<1> QED
  BY <1>3, <1>4, <1>5 DEF ExportInv

LEMMA ApplyKeepsRecords ==
    ASSUME IndexInv, OutInv, ExportInv, ApplyTemplate
    PROVE  ExportInv'
<1> DEFINE n == Len(Records)
<1>1. /\ n \in Nat /\ Len(Records') = n + 1 /\ IsSeq(Records')
      /\ \A i \in 1 .. n : Records'[i] = Records[i]
      /\ Records'[n + 1] = TheRecord
  BY ApplyWrites
<1>2. /\ selection' = selection /\ previous' = index /\ index' = index + 1
      /\ ~selection[index].comment
      /\ index \in 1 .. Len(selection) /\ Len(selection) \in Nat
      /\ previous \in Nat /\ previous < index
  BY DEF ApplyTemplate, IndexInv
<1>3. PreviousIsLast /\ RecordsShown /\ RecordsWritten
  BY DEF ApplyTemplate, ExportInv
<1>4. /\ TheRecord.publication = index
      /\ WrittenWith(TheRecord, previous, NextPublication(index))
  BY RecordSays
<1>5. Records = <<>> <=> n = 0
  <2>1. IsSeq(out) /\ out # <<>>
    BY DEF OutInv, ApplyTemplate
  <2>2. Len(out) \in Nat \ {0}
    BY <2>1, ReplaceLast
  <2>3. IsSeq(Records)
    BY <2>2 DEF OutInv, Records, Last
  <2> QED
    BY <2>3 DEF IsSeq
<1> HIDE DEF n
<1>6. PreviousIsLast'
  <2>1. Records' # <<>>
    BY <1>1
  <2> QED
    BY <1>1, <1>2, <1>4, <2>1 DEF PreviousIsLast
<1>7. RecordsShown'
  <2>1. \A i \in 1 .. n : Records[i].publication \in 1 .. index - 1
                          /\ ~selection[Records[i].publication].comment
    BY <1>3 DEF RecordsShown, n
  <2>2. ASSUME NEW i \in 1 .. n + 1
        PROVE  Records'[i].publication \in 1 .. index
               /\ ~selection[Records'[i].publication].comment
    <3>1. CASE i = n + 1
      BY <1>1, <1>2, <1>4, <3>1
    <3>2. CASE i \in 1 .. n
      BY <1>1, <1>2, <2>1, <3>2
    <3> QED
      BY <1>1, <3>1, <3>2
  <2>3. ASSUME NEW i \in 1 .. n + 1, NEW j \in 1 .. n + 1, i < j
        PROVE  Records'[i].publication < Records'[j].publication
    <3>1. i \in 1 .. n
      BY <1>1, <2>3
    <3>2. CASE j = n + 1
      <4>1. Records[i].publication \in 1 .. index - 1
        BY <2>1, <3>1
      <4> QED
        BY <1>1, <1>2, <1>4, <3>1, <3>2, <4>1
    <3>3. CASE j \in 1 .. n
      BY <1>1, <1>3, <2>3, <3>1, <3>3 DEF RecordsShown, n
    <3> QED
      BY <1>1, <3>2, <3>3
  <2>4. ASSUME NEW q \in 1 .. index
        PROVE  selection[q].comment \/ \E i \in 1 .. n + 1 : Records'[i].publication = q
    <3>1. CASE q = index
      BY <1>1, <1>4, <3>1
    <3>2. CASE q \in 1 .. index - 1
      <4>1. selection[q].comment \/ \E i \in 1 .. n : Records[i].publication = q
        BY <1>3, <3>2 DEF RecordsShown, n
      <4> QED
        BY <1>1, <4>1
    <3> QED
      BY <1>2, <3>1, <3>2
  <2>5. index' - 1 = index
    BY <1>2
  <2> QED
    BY <1>1, <1>2, <2>2, <2>3, <2>4, <2>5 DEF RecordsShown
<1>8. RecordsWritten'
  <2> SUFFICES ASSUME NEW i \in 1 .. n + 1
               PROVE  /\ WrittenWith(Records'[i], PreviousOf(i)',
                                     NextPublication(Records'[i].publication))
                      /\ i < n + 1 =>
                            Records'[i + 1].publication
                                = NextPublication(Records'[i].publication)
    BY <1>1, <1>2, SameSelection DEF RecordsWritten
  <2>1. CASE i = n + 1
    <3>1. PreviousOf(i)' = previous
      <4>1. CASE n = 0
        BY <1>3, <1>5, <2>1, <4>1 DEF PreviousOf, PreviousIsLast
      <4>2. CASE n # 0
        <5>1. n \in 1 .. n /\ i - 1 = n /\ i # 1
          BY <1>1, <2>1, <4>2
        <5>2. Records'[n] = Records[n]
          BY <1>1, <5>1
        <5>3. previous = Records[n].publication
          BY <1>3, <1>5, <4>2 DEF PreviousIsLast, n
        <5> QED
          BY <5>1, <5>2, <5>3 DEF PreviousOf
      <4> QED
        BY <4>1, <4>2
    <3> QED
      BY <1>1, <1>4, <2>1, <3>1
  <2>2. CASE i \in 1 .. n
    <3>1. Records'[i] = Records[i]
      BY <1>1, <2>2
    <3>2. PreviousOf(i)' = PreviousOf(i)
      BY <1>1, <2>2 DEF PreviousOf
    <3>3. WrittenWith(Records[i], PreviousOf(i), NextPublication(Records[i].publication))
      BY <1>3, <2>2 DEF RecordsWritten, n
    <3>4. Records'[i + 1].publication = NextPublication(Records[i].publication)
      <4>1. CASE i = n
        <5>1. previous = Records[n].publication
          BY <1>1, <1>3, <1>5, <2>2, <4>1 DEF PreviousIsLast, n
        <5>2. \A q \in previous + 1 .. index - 1 : selection[q].comment
          BY <1>3 DEF PreviousIsLast
        <5>3. index \in previous + 1 .. Len(selection)
          BY <1>2
        <5>4. NextPublication(previous) = index
          BY <1>2, <5>2, <5>3, NextIsNext
        <5> QED
          BY <1>1, <1>4, <4>1, <5>1, <5>4
      <4>2. CASE i < n
        <5>1. Records[i + 1].publication = NextPublication(Records[i].publication)
          BY <1>3, <2>2, <4>2 DEF RecordsWritten, n
        <5>2. i + 1 \in 1 .. n
          BY <1>1, <2>2, <4>2
        <5> QED
          BY <1>1, <5>1, <5>2
      <4> QED
        BY <1>1, <2>2, <4>1, <4>2
    <3> QED
      BY <3>1, <3>2, <3>3, <3>4
  <2> QED
    BY <1>1, <2>1, <2>2
<1> QED
  BY <1>6, <1>7, <1>8 DEF ExportInv

LEMMA ExportPreserves ==
    ASSUME IndexInv, OutInv, ExportInv, [Next]_vars
    PROVE  ExportInv'
<1>1. CASE UNCHANGED <<selection, index, previous, out>>
           /\ (phase' = phase \/ phase = "loop" \/ phase' = "exited")
  <2>1. Records' = Records
    BY <1>1 DEF Records
  <2>2. PreviousIsLast => PreviousIsLast'
    BY <1>1, <2>1 DEF PreviousIsLast
  <2>3. RecordsShown => RecordsShown'
    BY <1>1, <2>1 DEF RecordsShown
  <2>4. RecordsWritten => RecordsWritten'
    <3>1. \A i : PreviousOf(i)' = PreviousOf(i)
      BY <2>1 DEF PreviousOf
    <3> QED
      BY <1>1, <2>1, <3>1, SameSelection DEF RecordsWritten
  <2> QED
    BY <1>1, <2>2, <2>3, <2>4 DEF ExportInv
<1> QED
  BY <1>1, BeginStartsRecords, SkipKeepsRecords, ApplyKeepsRecords
     DEF Next, LoadMappings, NoSuchMapping, EndExport, Finished, exportVars, vars

LEMMA Invariance == Spec => []IInv
<1>1. IInv /\ [Next]_vars => IInv'
  BY LoadPreserves, IndexPreserves, OutPreserves, NumbersPreserve, ExportPreserves
     DEF IInv, NumbersInv
<1> QED
  BY <1>1, InitIInv, PTL DEF Spec

-----------------------------------------------------------------------------
(***************************************************************************)
(* The columns that are looked up are in the array, and the numbers of an  *)
(* export stay within its selection.                                       *)
(***************************************************************************)
THEOREM TypeCorrect == Spec => []TypeOK
<1>1. IInv => TypeOK
  <2> SUFFICES ASSUME IInv PROVE TypeOK
    OBVIOUS
  <2>1. Len(selection) \in Nat
    BY DEF IInv, IndexInv
  <2>2. index \in 0 .. Len(selection) + 1
    <3>1. CASE phase = "start"
      BY <2>1, <3>1 DEF IInv, IndexInv
    <3>2. CASE phase # "start"
      BY <2>1, <3>2 DEF IInv, IndexInv
    <3> QED
      BY <3>1, <3>2
  <2>3. previous \in 0 .. Len(selection) /\ gNumber \in 0 .. Len(selection)
    BY <2>1, <2>2 DEF IInv, IndexInv
  <2> QED
    BY <2>2, <2>3 DEF IInv, IndexInv, LoadInv, TypeOK
<1> QED
  BY <1>1, Invariance, PTL

(***************************************************************************)
(* Whatever is selected, where publications have the field, a subdivision  *)
(* begins exactly after one has ended.                                     *)
(***************************************************************************)
THEOREM SubdivisionsAlwaysMatch == Spec => []SubdivisionsMatch
<1>1. IInv => SubdivisionsMatch
  <2> SUFFICES ASSUME IInv, phase = "between", NEW t \in Types
               PROVE  /\ Records # <<>> => t \in Records[1].begins /\ t \in Last(Records).ends
                      /\ \A i \in 1 .. Len(Records) - 1 :
                           Has(Records[i].publication, t) /\ Has(Records[i + 1].publication, t) =>
                             /\ t \in Records[i].ends <=> t \in Records[i + 1].begins
                             /\ t \notin Records[i].ends =>
                                   selection[Records[i].publication].fields[t]
                                       = selection[Records[i + 1].publication].fields[t]
                      /\ \A i \in DOMAIN Records :
                           t \in Records[i].within
                               <=> t \notin Records[i].begins /\ t \notin Records[i].ends
    BY DEF SubdivisionsMatch, Records
  <2> DEFINE n == Len(Records)
  <2>1. PreviousIsLast /\ RecordsShown /\ RecordsWritten
    BY DEF IInv, ExportInv
  <2>2. IsSeq(Records) /\ n \in Nat /\ DOMAIN Records = 1 .. n
    <3>1. IsSeq(out) /\ out # <<>>
      BY DEF IInv, OutInv
    <3>2. Len(out) \in Nat \ {0}
      BY <3>1, ReplaceLast
    <3>3. IsSeq(Records)
      BY <3>2 DEF IInv, OutInv, Records, Last
    <3> QED
      BY <3>3 DEF IsSeq
  <2>3. ASSUME NEW i \in 1 .. n
        PROVE  /\ WrittenWith(Records[i], PreviousOf(i), NextPublication(Records[i].publication))
               /\ i < n => Records[i + 1].publication = NextPublication(Records[i].publication)
    BY <2>1 DEF RecordsWritten
  <2>4. \A i \in 1 .. n :
          /\ t \in Records[i].begins <=> Begins(Records[i].publication, PreviousOf(i), t)
          /\ t \in Records[i].ends
                 <=> Ends(Records[i].publication, NextPublication(Records[i].publication), t)
          /\ t \in Records[i].within
                 <=> ~(\/ Begins(Records[i].publication, PreviousOf(i), t)
                       \/ Ends(Records[i].publication, NextPublication(Records[i].publication), t))
    BY <2>3 DEF WrittenWith
  <2>5. Records # <<>> => t \in Records[1].begins /\ t \in Last(Records).ends
    <3> SUFFICES ASSUME Records # <<>> PROVE t \in Records[1].begins /\ t \in Last(Records).ends
      OBVIOUS
    <3>1. 1 \in 1 .. n /\ n \in 1 .. n
      BY <2>2 DEF IsSeq
    <3>2. PreviousOf(1) = 0
      BY DEF PreviousOf
    <3>3. NextPublication(Records[n].publication) = 0
      <4>1. Records[n].publication = previous
        BY <2>1 DEF PreviousIsLast
      <4>2. index - 1 = Len(selection)
        BY DEF IInv, IndexInv
      <4>3. \A q \in previous + 1 .. Len(selection) : selection[q].comment
        BY <2>1, <4>2 DEF PreviousIsLast
      <4> QED
        BY <4>1, <4>3, NoNext
    <3> QED
      BY <2>4, <3>1, <3>2, <3>3 DEF Begins, Ends, Last
  <2>6. ASSUME NEW i \in 1 .. n - 1,
               Has(Records[i].publication, t), Has(Records[i + 1].publication, t)
        PROVE  /\ t \in Records[i].ends <=> t \in Records[i + 1].begins
               /\ t \notin Records[i].ends =>
                     selection[Records[i].publication].fields[t]
                         = selection[Records[i + 1].publication].fields[t]
    <3> DEFINE p == Records[i].publication
               q == Records[i + 1].publication
    <3>1. i \in 1 .. n /\ i + 1 \in 1 .. n /\ i < n
      BY <2>2
    <3>2. q = NextPublication(p)
      BY <2>3, <3>1
    <3>3. PreviousOf(i + 1) = p
      BY <2>2 DEF PreviousOf
    <3>4. p # 0 /\ q # 0
      <4>1. p \in 1 .. index - 1 /\ q \in 1 .. index - 1
        BY <2>1, <3>1 DEF RecordsShown
      <4> QED
        BY <4>1
    <3>5. t \in Records[i].ends <=> Ends(p, q, t)
      BY <2>4, <3>1, <3>2
    <3>6. t \in Records[i + 1].begins <=> Begins(q, p, t)
      BY <2>4, <3>1, <3>3
    <3>7. Ends(p, q, t) <=> Differ(p, q, t)
      BY <2>6, <3>4 DEF Ends
    <3>8. Begins(q, p, t) <=> Differ(p, q, t)
      BY <2>6, <3>4 DEF Begins
    <3>9. ~Differ(p, q, t) => selection[p].fields[t] = selection[q].fields[t]
      BY <2>6 DEF Differ
    <3> QED
      BY <3>5, <3>6, <3>7, <3>8, <3>9
  <2>7. \A i \in DOMAIN Records :
          t \in Records[i].within <=> t \notin Records[i].begins /\ t \notin Records[i].ends
    BY <2>2, <2>4
  <2> QED
    BY <2>5, <2>6, <2>7
<1> QED
  BY <1>1, Invariance, PTL

(***************************************************************************)
(* Over any number of exports, every publication is written once, and the  *)
(* numbers are those of the publications.                                  *)
(***************************************************************************)
THEOREM EachIsWrittenOnce == Spec => []EachIsWritten
<1>1. IInv => EachIsWritten
  <2> SUFFICES ASSUME IInv PROVE EachIsWritten
    OBVIOUS
  <2>1. DOMAIN out = 1 .. Len(out) /\ \A e \in DOMAIN out : DOMAIN out[e] = 1 .. Len(out[e])
    <3>1. IsSeq(out) /\ \A e \in 1 .. Len(out) : IsSeq(out[e])
      BY DEF IInv, OutInv
    <3> QED
      BY <3>1 DEF IsSeq
  <2>2. \A e \in DOMAIN out : \A i \in DOMAIN out[e] : out[e][i].number = i
    BY <2>1 DEF IInv, Numbered
  <2>3. \A d, e \in DOMAIN out : \A i \in DOMAIN out[d], j \in DOMAIN out[e] :
          d < e \/ (d = e /\ i < j) => out[d][i].total < out[e][j].total
    BY <2>1 DEF IInv, InOrder
  <2>4. UNION {{r.total : r \in Range(records)} : records \in Range(out)} = 1 .. gTotalNumber
    <3>1. ASSUME NEW n \in 1 .. gTotalNumber
          PROVE  \E e \in DOMAIN out : \E i \in DOMAIN out[e] : out[e][i].total = n
      BY <2>1 DEF IInv, NoneLeftOut
    <3>2. \A e \in DOMAIN out : \A i \in DOMAIN out[e] : out[e][i].total \in 1 .. gTotalNumber
      BY <2>1 DEF IInv, Numbered
    <3> QED
      BY <3>1, <3>2 DEF Range
  <2>5. ASSUME phase = "between"
        PROVE  LET shown == [i \in DOMAIN Records |-> Records[i].publication]
               IN  /\ \A i, j \in DOMAIN shown : i < j => shown[i] < shown[j]
                   /\ Range(shown) = {p \in DOMAIN selection : ~selection[p].comment}
    <3> DEFINE shown == [i \in DOMAIN Records |-> Records[i].publication]
    <3>1. DOMAIN Records = 1 .. Len(Records)
      <4>1. out # <<>> /\ IsSeq(out)
        BY <2>5 DEF IInv, OutInv
      <4>2. Len(out) \in Nat \ {0}
        BY <4>1, ReplaceLast
      <4> QED
        BY <2>1, <4>2 DEF Records, Last
    <3>2. RecordsShown
      BY <2>5 DEF IInv, ExportInv
    <3>3. \A i, j \in DOMAIN shown : i < j => shown[i] < shown[j]
      BY <3>1, <3>2 DEF RecordsShown
    <3>4. DOMAIN selection = 1 .. index - 1
      BY <2>5 DEF IInv, IndexInv
    <3>5. \A i \in DOMAIN Records :
            Records[i].publication \in DOMAIN selection
            /\ ~selection[Records[i].publication].comment
      BY <3>1, <3>2, <3>4 DEF RecordsShown
    <3>6. \A q \in DOMAIN selection :
            selection[q].comment \/ \E i \in DOMAIN Records : Records[i].publication = q
      BY <3>1, <3>2, <3>4 DEF RecordsShown
    <3>7. Range(shown) = {p \in DOMAIN selection : ~selection[p].comment}
      BY <3>5, <3>6 DEF Range
    <3> QED
      BY <3>3, <3>7
  <2> QED
    BY <2>2, <2>3, <2>4, <2>5 DEF EachIsWritten, Records
<1> QED
  BY <1>1, Invariance, PTL

-----------------------------------------------------------------------------
(***************************************************************************)
(* A function that is defined by recursion exists: here, one that begins   *)
(* with a and whose next value g makes of the one before it.               *)
(***************************************************************************)
Recurs(f, N, a, g) == \A n \in 0 .. N : f[n] = IF n = 0 THEN a ELSE g[<<n, f[n - 1]>>]

LEMMA LeastOf ==
    ASSUME NEW S \in SUBSET Nat, S # {}
    PROVE  \E j \in S : \A k \in S : j <= k
BY FirstOfIsLeast

\* There is one for every beginning and every step.
LEMMA RecursiveFunctionExists ==
    ASSUME NEW D, NEW N \in Nat, NEW a \in D, NEW g \in [(1 .. N) \X D -> D]
    PROVE  \E f \in [0 .. N -> D] : Recurs(f, N, a, g)
<1> DEFINE Fits(f, m) ==
              \A n \in 0 .. m : f[n] = IF n = 0 THEN a ELSE g[<<n, f[n - 1]>>]
           S == {m \in 0 .. N : ~\E f \in [0 .. m -> D] : Fits(f, m)}
<1>1. SUFFICES ASSUME S # {} PROVE FALSE
  <2>1. N \in S \/ \E f \in [0 .. N -> D] : Fits(f, N)
    OBVIOUS
  <2> QED
    BY <2>1 DEF Recurs
<1>2. S \in SUBSET Nat
  OBVIOUS
<1>3. PICK j \in S : \A k \in S : j <= k
  <2> HIDE DEF S
  <2> QED
    BY <1>1, <1>2, LeastOf
<1>4. j \in 0 .. N /\ ~\E f \in [0 .. j -> D] : Fits(f, j)
  BY <1>3
<1>5. j # 0
  <2> SUFFICES ASSUME j = 0 PROVE FALSE
    OBVIOUS
  <2>1. [n \in 0 .. 0 |-> a] \in [0 .. j -> D] /\ Fits([n \in 0 .. 0 |-> a], j)
    OBVIOUS
  <2> QED
    BY <1>4, <2>1
<1>6. j - 1 \in 0 .. N /\ j - 1 \notin S
  BY <1>3, <1>4, <1>5
<1>7. PICK f \in [0 .. j - 1 -> D] : Fits(f, j - 1)
  BY <1>6
<1> DEFINE h == [n \in 0 .. j |-> IF n = j THEN g[<<j, f[j - 1]>>] ELSE f[n]]
<1>8. h \in [0 .. j -> D]
  <2>1. f[j - 1] \in D /\ j \in 1 .. N
    BY <1>4, <1>5, <1>6
  <2>2. g[<<j, f[j - 1]>>] \in D
    BY <2>1
  <2>3. ASSUME NEW n \in 0 .. j PROVE h[n] \in D
    <3>1. n # j => n \in 0 .. j - 1
      BY <1>4
    <3> QED
      BY <2>2, <3>1
  <2> QED
    BY <2>3
<1>9. Fits(h, j)
  <2> TAKE n \in 0 .. j
  <2>1. CASE n = j
    <3>1. h[n - 1] = f[j - 1]
      BY <1>4, <1>5, <2>1
    <3> QED
      BY <1>5, <2>1, <3>1
  <2>2. CASE n # j
    <3>1. n \in 0 .. j - 1 /\ h[n] = f[n]
      BY <1>4, <2>2
    <3>2. n # 0 => n - 1 \in 0 .. j /\ n - 1 # j /\ h[n - 1] = f[n - 1]
      BY <1>4, <3>1
    <3> QED
      BY <1>7, <3>1, <3>2
  <2> QED
    BY <2>1, <2>2
<1>10. FALSE
  BY <1>4, <1>8, <1>9
<1> QED
  BY <1>10

-----------------------------------------------------------------------------
(***************************************************************************)
(* Delimiters come to an end, and so do strings.                           *)
(***************************************************************************)
LEMMA AfterDelimitersFound ==
    ASSUME NEW line, Len(line) \in Nat, NEW i \in 1 .. Len(line) + 1
    PROVE  LET j == AfterDelimiters(line, i)
           IN  /\ j \in i .. Len(line) + 1
               /\ j > Len(line) \/ ~IsDelimiter(line[j])
               /\ \A p \in i .. j - 1 : IsDelimiter(line[p])
<1> DEFINE L == Len(line)
           Found(j) == /\ j > L \/ ~IsDelimiter(line[j])
                       /\ \A p \in i .. j - 1 : IsDelimiter(line[p])
           S == {j \in i .. L + 1 : j > L \/ ~IsDelimiter(line[j])}
<1>1. L + 1 \in S /\ S \in SUBSET Nat
  OBVIOUS
<1>2. PICK j \in S : \A k \in S : j <= k
  <2> HIDE DEF S
  <2> QED
    BY <1>1, LeastOf
<1>3. j \in i .. L + 1 /\ Found(j)
  <2>1. j \in i .. L + 1 /\ (j > L \/ ~IsDelimiter(line[j]))
    BY <1>2
  <2>2. ASSUME NEW p \in i .. j - 1 PROVE IsDelimiter(line[p])
    <3>1. p \in i .. L + 1 /\ ~(j <= p) /\ ~(p > L)
      BY <2>1
    <3> QED
      BY <1>2, <3>1
  <2> QED
    BY <2>1, <2>2
<1>4. AfterDelimiters(line, i) = CHOOSE k \in i .. L + 1 : Found(k)
  BY DEF AfterDelimiters
<1> HIDE DEF Found, L
<1>5. LET k == AfterDelimiters(line, i) IN k \in i .. L + 1 /\ Found(k)
  BY <1>3, <1>4
<1> QED
  BY <1>5 DEF Found, L

\* They end at the first character that is none.
LEMMA AfterDelimitersIs ==
    ASSUME NEW line, Len(line) \in Nat, NEW i \in 1 .. Len(line) + 1,
           NEW j \in i .. Len(line) + 1,
           j > Len(line) \/ ~IsDelimiter(line[j]),
           \A p \in i .. j - 1 : IsDelimiter(line[p])
    PROVE  AfterDelimiters(line, i) = j
<1> DEFINE k == AfterDelimiters(line, i)
<1>1. /\ k \in i .. Len(line) + 1
      /\ k > Len(line) \/ ~IsDelimiter(line[k])
      /\ \A p \in i .. k - 1 : IsDelimiter(line[p])
  BY AfterDelimitersFound
<1> HIDE DEF k
<1>2. ~(k < j)
  <2> SUFFICES ASSUME k < j PROVE FALSE
    OBVIOUS
  <2>1. k \in i .. j - 1 /\ ~(k > Len(line))
    BY <1>1
  <2> QED
    BY <1>1, <2>1
<1>3. ~(j < k)
  <2> SUFFICES ASSUME j < k PROVE FALSE
    OBVIOUS
  <2>1. j \in i .. k - 1 /\ ~(j > Len(line))
    BY <1>1
  <2> QED
    BY <1>1, <2>1
<1>4. k = j
  BY <1>1, <1>2, <1>3
<1> QED
  BY <1>4 DEF k

\* A string that begins in the line, or behind it, has an end.
LEMMA StringHasEnd ==
    ASSUME NEW line, Len(line) \in Nat, NEW from \in 1 .. Len(line) + 1, NEW zeroes
    PROVE  \E e \in from - 1 .. Len(line) :
               /\ e = Len(line) \/ e + 1 \in zeroes
               /\ \A p \in from .. e : p \notin zeroes
               /\ StringFrom(from, zeroes, line) = SubSeq(line, from, e)
<1> DEFINE L == Len(line)
           Found(e) == /\ e = L \/ e + 1 \in zeroes
                       /\ \A p \in from .. e : p \notin zeroes
           S == {e \in from - 1 .. L : e = L \/ e + 1 \in zeroes}
<1>1. L \in S /\ S \in SUBSET Nat
  OBVIOUS
<1>2. PICK j \in S : \A k \in S : j <= k
  <2> HIDE DEF S
  <2> QED
    BY <1>1, LeastOf
<1>3. j \in from - 1 .. L /\ Found(j)
  <2>1. j \in from - 1 .. L /\ (j = L \/ j + 1 \in zeroes)
    BY <1>2
  <2>2. ASSUME NEW p \in from .. j PROVE p \notin zeroes
    <3>1. p - 1 \in from - 1 .. L /\ ~(j <= p - 1) /\ (p - 1) + 1 = p
      BY <2>1
    <3> QED
      BY <1>2, <3>1
  <2> QED
    BY <2>1, <2>2
<1> DEFINE e == CHOOSE x \in from - 1 .. L : Found(x)
<1>4. StringFrom(from, zeroes, line) = SubSeq(line, from, e)
  BY DEF StringFrom
<1>5. e \in from - 1 .. L /\ Found(e)
  <2> HIDE DEF Found, L
  <2> QED
    BY <1>3
<1> QED
  BY <1>4, <1>5

\* There is only one.
LEMMA StringIs ==
    ASSUME NEW line, Len(line) \in Nat, NEW from \in 1 .. Len(line) + 1, NEW zeroes,
           NEW e \in from - 1 .. Len(line),
           e = Len(line) \/ e + 1 \in zeroes, \A p \in from .. e : p \notin zeroes
    PROVE  StringFrom(from, zeroes, line) = SubSeq(line, from, e)
<1>1. PICK d \in from - 1 .. Len(line) :
               /\ d = Len(line) \/ d + 1 \in zeroes
               /\ \A p \in from .. d : p \notin zeroes
               /\ StringFrom(from, zeroes, line) = SubSeq(line, from, d)
  BY StringHasEnd
<1>2. ~(d < e)
  <2> SUFFICES ASSUME d < e PROVE FALSE
    OBVIOUS
  <2>1. d + 1 \in from .. e /\ d # Len(line)
    OBVIOUS
  <2> QED
    BY <1>1, <2>1
<1>3. ~(e < d)
  <2> SUFFICES ASSUME e < d PROVE FALSE
    OBVIOUS
  <2>1. e + 1 \in from .. d /\ e # Len(line)
    OBVIOUS
  <2> QED
    BY <1>1, <2>1
<1>4. d = e
  BY <1>2, <1>3
<1> QED
  BY <1>1, <1>4

-----------------------------------------------------------------------------
(***************************************************************************)
(* splitLine(), turn by turn.  States are records of what it keeps.        *)
(***************************************************************************)
LEMMA SeqIs ==
    ASSUME NEW S, NEW s \in Seq(S)
    PROVE  /\ Len(s) \in Nat /\ DOMAIN s = 1 .. Len(s) /\ \A q \in 1 .. Len(s) : s[q] \in S
           /\ s = [q \in 1 .. Len(s) |-> s[q]]
OBVIOUS

LEMMA NotEmpty ==
    ASSUME NEW S, NEW s \in Seq(S), s # <<>>
    PROVE  Len(s) \in Nat \ {0}
<1>1. Len(s) \in Nat /\ s \in [1 .. Len(s) -> S]
  BY SeqIs
<1>2. Len(s) # 0
  OBVIOUS
<1> QED
  BY <1>1, <1>2

LEMMA IsSeqOf ==
    ASSUME NEW S, NEW n \in Nat, NEW s \in [1 .. n -> S]
    PROVE  s \in Seq(S) /\ Len(s) = n
<1>1. s \in Seq(S)
  OBVIOUS
<1>2. DOMAIN s = 1 .. n /\ DOMAIN s = 1 .. Len(s) /\ Len(s) \in Nat
  BY <1>1
<1> QED
  BY <1>1, <1>2

LEMMA SeqOfMore ==
    ASSUME NEW S, NEW T, NEW s \in Seq(S), \A q \in 1 .. Len(s) : s[q] \in T
    PROVE  s \in Seq(T)
<1>1. Len(s) \in Nat /\ s \in [1 .. Len(s) -> T]
  BY SeqIs
<1> QED
  BY <1>1, IsSeqOf

LEMMA ConcatIs ==
    ASSUME NEW S, NEW s \in Seq(S), NEW t \in Seq(S)
    PROVE  /\ s \o t \in Seq(S) /\ Len(s \o t) = Len(s) + Len(t)
           /\ \A q \in 1 .. Len(s) + Len(t) :
                  (s \o t)[q] = IF q <= Len(s) THEN s[q] ELSE t[q - Len(s)]
OBVIOUS

LEMMA SubSeqIs ==
    ASSUME NEW S, NEW s \in Seq(S), NEW m \in 1 .. Len(s) + 1, NEW n \in m - 1 .. Len(s)
    PROVE  /\ SubSeq(s, m, n) \in Seq(S) /\ Len(SubSeq(s, m, n)) = n - m + 1
           /\ \A q \in 1 .. n - m + 1 : SubSeq(s, m, n)[q] = s[m + q - 1]
OBVIOUS

LEMMA QuoteIsNoOther == Quote # Space /\ Quote # "\n" /\ Quote # "\\"
                        /\ Space # "\n" /\ Space # "\\"
BY Zenon DEF Quote, Space

IsLine(line) == line \in Seq(Range(line)) /\ line # <<>>

SplitStates(line) ==
    [next : Nat, char : Range(line) \cup {Space}, escaped : BOOLEAN, quoted : BOOLEAN,
     column : Nat, start : [1 .. Len(line) + MaxColumns -> Nat], zeroes : SUBSET Int]

\* After i turns, the loop is further, with a column that is in the array or done.
Fits(s, i, line) ==
    /\ s \in SplitStates(line)
    /\ i < s.next /\ s.next <= Len(line) + 2
    /\ s.column \in 1 .. MaxColumns + 1
    /\ s.column > MaxColumns => s.next > Len(line)
    /\ \A c \in 1 .. Len(line) + MaxColumns : s.start[c] <= Len(line) + 1

LEMMA LineIs ==
    ASSUME NEW line, IsLine(line)
    PROVE  /\ Len(line) \in Nat \ {0} /\ DOMAIN line = 1 .. Len(line)
           /\ \A i \in 1 .. Len(line) : line[i] \in Range(line)
<1>1. Len(line) \in Nat /\ DOMAIN line = 1 .. Len(line) /\ line # <<>>
  BY DEF IsLine
<1>2. Len(line) # 0
  BY DEF IsLine
<1> QED
  BY <1>1, <1>2 DEF Range

LEMMA BeforeLineFits ==
    ASSUME NEW line, IsLine(line)
    PROVE  Fits(BeforeLine(line), 0, line)
<1> DEFINE L == Len(line)
           M == MaxColumns
           b == BeforeLine(line)
<1>1. L \in Nat \ {0} /\ M \in Nat \ {0}
  BY LineIs, MaxColumnsAssumption
<1>2. b = [next |-> 1, char |-> Space, escaped |-> FALSE, quoted |-> FALSE, column |-> 1,
           start |-> [c \in 1 .. L + M |-> 0], zeroes |-> {}]
  BY DEF BeforeLine
<1>3. b \in SplitStates(line)
  <2>1. [c \in 1 .. L + M |-> 0] \in [1 .. L + M -> Nat]
    OBVIOUS
  <2> HIDE DEF b
  <2> QED
    BY <1>2, <2>1 DEF SplitStates
<1> HIDE DEF b
<1>4. b.next = 1 /\ b.column = 1 /\ \A c \in 1 .. L + M : b.start[c] = 0
  BY <1>2
<1> HIDE DEF L, M
<1>5. Fits(b, 0, line)
  BY <1>1, <1>3, <1>4 DEF Fits, L, M
<1> QED
  BY <1>5 DEF b

(***************************************************************************)
(* What a turn does: there are five cases.                                 *)
(***************************************************************************)
SkipsEscaped(s, r) ==
    /\ s.escaped
    /\ r.next = s.next + 1 /\ r.escaped = FALSE /\ r.quoted = s.quoted /\ r.column = s.column
    /\ r.start = s.start /\ r.zeroes = s.zeroes

Escapes(s, r, line) ==
    /\ ~s.escaped /\ line[s.next] = "\\"
    /\ r.next = s.next + 1 /\ r.escaped = TRUE /\ r.quoted = s.quoted /\ r.column = s.column
    /\ r.start = s.start /\ r.zeroes = s.zeroes

QuotedAfter(s, line) == IF line[s.next] = Quote THEN ~s.quoted ELSE s.quoted

ZeroesAfter(s, line) ==
    IF line[s.next] = "\n" THEN s.zeroes \cup ZeroesAt(line, s.next) ELSE s.zeroes

Starts(s, r, line) ==
    /\ ~s.escaped /\ line[s.next] # "\\"
    /\ s.start[s.column] = 0 /\ line[s.next] # Space
    /\ r.escaped = FALSE /\ r.quoted = QuotedAfter(s, line) /\ r.column = s.column
    /\ r.zeroes = ZeroesAfter(s, line)
    /\ r.next = IF line[s.next] = Quote THEN s.next + 2 ELSE s.next + 1
    /\ r.start = [s.start EXCEPT ![s.column] =
                      IF line[s.next] = Quote THEN s.next + 1 ELSE s.next]

Finishes(s, r, line) ==
    /\ ~s.escaped /\ line[s.next] = Space /\ ~s.quoted
    /\ r.escaped = FALSE /\ r.quoted = FALSE /\ r.column = s.column + 1
    /\ r.zeroes = s.zeroes \cup ZeroesAt(line, s.next)
    /\ r.next = IF s.column = MaxColumns THEN Len(line) + 1
                ELSE AfterDelimiters(line, s.next + 1)
    /\ r.start = s.start

GoesOn(s, r, line) ==
    /\ ~s.escaped /\ line[s.next] # "\\"
    /\ s.start[s.column] # 0 \/ line[s.next] = Space
    /\ s.quoted \/ line[s.next] # Space
    /\ r.escaped = FALSE /\ r.quoted = QuotedAfter(s, line) /\ r.column = s.column
    /\ r.zeroes = ZeroesAfter(s, line)
    /\ r.next = s.next + 1
    /\ r.start = s.start

LEMMA TurnCases ==
    ASSUME NEW line, IsLine(line), NEW i \in 1 .. Len(line), NEW s, Fits(s, i - 1, line),
           s.next <= i
    PROVE  LET r == Turn(s, i, line)
           IN  /\ s.next = i
               /\ \/ SkipsEscaped(s, r)
                  \/ Escapes(s, r, line)
                  \/ Starts(s, r, line)
                  \/ Finishes(s, r, line)
                  \/ GoesOn(s, r, line)
               /\ r \in [next : {r.next}, char : Range(line) \cup {Space}, escaped : {r.escaped},
                         quoted : {r.quoted}, column : {r.column}, start : {r.start},
                         zeroes : {r.zeroes}]
<1> DEFINE c == line[i]
           r == Turn(s, i, line)
           t == [s EXCEPT !.char   = c,
                          !.quoted = IF c = Quote THEN ~@ ELSE @,
                          !.zeroes = IF c = "\n" THEN @ \cup ZeroesAt(line, i) ELSE @]
           Shape(x) == x \in [next : {x.next}, char : Range(line) \cup {Space}, escaped : {x.escaped},
                         quoted : {x.quoted}, column : {x.column}, start : {x.start},
                         zeroes : {x.zeroes}]
<1>1. s \in SplitStates(line) /\ s.next = i /\ c \in Range(line)
  <2>1. s \in SplitStates(line) /\ s.next \in Nat /\ i - 1 < s.next
    BY DEF Fits, SplitStates
  <2>2. i \in Nat /\ c \in Range(line)
    BY LineIs
  <2> QED
    BY <2>1, <2>2
<1>2. s = [next |-> s.next, char |-> s.char, escaped |-> s.escaped, quoted |-> s.quoted,
           column |-> s.column, start |-> s.start, zeroes |-> s.zeroes]
      /\ s.char \in Range(line) \cup {Space} /\ s.escaped \in BOOLEAN /\ s.quoted \in BOOLEAN
  BY <1>1 DEF SplitStates
<1>3. r = CASE s.escaped -> [s EXCEPT !.escaped = FALSE, !.next = i + 1]
            [] ~s.escaped /\ c = "\\" -> [s EXCEPT !.escaped = TRUE, !.next = i + 1]
            [] ~s.escaped /\ c # "\\" /\ t.start[t.column] = 0 /\ c # Space -> Start(t)
            [] ~s.escaped /\ c = Space /\ ~t.quoted -> End(t, line)
            [] OTHER -> [t EXCEPT !.next = i + 1]
  <2>1. ~(i < s.next)
    BY <1>1
  <2> QED
    BY <1>1, <2>1 DEF Turn, SplitStep
<1>4. t = [next |-> i, char |-> c, escaped |-> s.escaped, quoted |-> QuotedAfter(s, line),
           column |-> s.column, start |-> s.start, zeroes |-> ZeroesAfter(s, line)]
  <2>1. /\ QuotedAfter(s, line) = IF c = Quote THEN ~s.quoted ELSE s.quoted
        /\ ZeroesAfter(s, line) = IF c = "\n" THEN s.zeroes \cup ZeroesAt(line, i) ELSE s.zeroes
    BY <1>1 DEF QuotedAfter, ZeroesAfter
  <2>2. t = [s EXCEPT !.char = c, !.quoted = QuotedAfter(s, line), !.zeroes = ZeroesAfter(s, line)]
    BY <2>1
  <2> HIDE DEF t, c
  <2> QED
    BY <1>1, <1>2, <2>2
<1> HIDE DEF t, r, c
<1>5. /\ t.next = i /\ t.char = c /\ t.quoted = QuotedAfter(s, line) /\ t.column = s.column
      /\ t.start = s.start /\ t.zeroes = ZeroesAfter(s, line) /\ t.escaped = s.escaped
  BY <1>4
<1>6. CASE s.escaped
  <2>1. r = [s EXCEPT !.escaped = FALSE, !.next = i + 1]
    BY <1>3, <1>6
  <2>2. r = [next |-> i + 1, char |-> s.char, escaped |-> FALSE, quoted |-> s.quoted,
             column |-> s.column, start |-> s.start, zeroes |-> s.zeroes]
    BY <1>2, <2>1
  <2>3. SkipsEscaped(s, r) /\ Shape(r)
    BY <1>1, <1>2, <1>6, <2>2 DEF SkipsEscaped
  <2> QED
    BY <1>1, <2>3 DEF r
<1>7. CASE ~s.escaped /\ c = "\\"
  <2>1. r = [s EXCEPT !.escaped = TRUE, !.next = i + 1]
    BY <1>3, <1>7, QuoteIsNoOther
  <2>2. r = [next |-> i + 1, char |-> s.char, escaped |-> TRUE, quoted |-> s.quoted,
             column |-> s.column, start |-> s.start, zeroes |-> s.zeroes]
    BY <1>2, <2>1
  <2>3. Escapes(s, r, line) /\ Shape(r)
    BY <1>1, <1>2, <1>7, <2>2 DEF Escapes, c
  <2> QED
    BY <1>1, <2>3 DEF r
<1>8. CASE ~s.escaped /\ c # "\\" /\ t.start[t.column] = 0 /\ c # Space
  <2>1. r = Start(t)
    BY <1>3, <1>8
  <2>2. r = [next |-> IF c = Quote THEN i + 2 ELSE i + 1, char |-> c, escaped |-> FALSE,
             quoted |-> QuotedAfter(s, line), column |-> s.column,
             start |-> [s.start EXCEPT ![s.column] = IF c = Quote THEN i + 1 ELSE i],
             zeroes |-> ZeroesAfter(s, line)]
    <3> DEFINE v == IF c = Quote THEN i + 1 ELSE i
               w == IF c = Quote THEN i + 2 ELSE i + 1
    <3>1. r = [t EXCEPT !.start[t.column] = IF t.char = Quote THEN t.next + 1 ELSE t.next,
                        !.next            = IF t.char = Quote THEN t.next + 2 ELSE t.next + 1]
      BY <2>1 DEF Start
    <3>2. r = [t EXCEPT !.start[s.column] = v, !.next = w]
      BY <1>5, <3>1
    <3>3. t = [next |-> i, char |-> c, escaped |-> FALSE, quoted |-> QuotedAfter(s, line),
               column |-> s.column, start |-> s.start, zeroes |-> ZeroesAfter(s, line)]
      <4>1. s.escaped = FALSE
        BY <1>2, <1>8
      <4> QED
        BY <1>4, <4>1
    <3> HIDE DEF v, w
    <3>4. r = [next |-> w, char |-> c, escaped |-> FALSE, quoted |-> QuotedAfter(s, line),
               column |-> s.column, start |-> [s.start EXCEPT ![s.column] = v],
               zeroes |-> ZeroesAfter(s, line)]
      BY <3>2, <3>3
    <3> QED
      BY <3>4 DEF v, w
  <2>3. Starts(s, r, line) /\ Shape(r)
    <3>1. s.start[s.column] = 0
      BY <1>5, <1>8
    <3>2. Starts(s, r, line)
      BY <1>1, <1>8, <2>2, <3>1 DEF Starts, c
    <3> QED
      BY <1>1, <2>2, <3>2
  <2> QED
    BY <1>1, <2>3 DEF r
<1>9. CASE ~s.escaped /\ c = Space /\ ~s.quoted
  <2>1. QuotedAfter(s, line) = s.quoted /\ ZeroesAfter(s, line) = s.zeroes
    BY <1>1, <1>9, QuoteIsNoOther DEF QuotedAfter, ZeroesAfter, c
  <2>2. r = End(t, line)
    BY <1>3, <1>5, <1>9, <2>1
  <2>3. r = [next |-> IF s.column = MaxColumns THEN Len(line) + 1
                      ELSE AfterDelimiters(line, i + 1),
             char |-> c, escaped |-> FALSE, quoted |-> FALSE, column |-> s.column + 1,
             start |-> s.start, zeroes |-> s.zeroes \cup ZeroesAt(line, i)]
    <3>1. t = [next |-> i, char |-> c, escaped |-> FALSE, quoted |-> FALSE,
               column |-> s.column, start |-> s.start, zeroes |-> s.zeroes]
      BY <1>2, <1>4, <1>9, <2>1
    <3> QED
      BY <2>2, <3>1 DEF End
  <2>4. Finishes(s, r, line) /\ Shape(r)
    BY <1>1, <1>9, <2>3 DEF Finishes, c
  <2> QED
    BY <1>1, <2>4 DEF r
<1>10. CASE ~s.escaped /\ c # "\\" /\ ~(s.start[s.column] = 0 /\ c # Space)
            /\ ~(c = Space /\ ~s.quoted)
  <2>0. c = Space => QuotedAfter(s, line) = s.quoted
    BY <1>1, QuoteIsNoOther DEF QuotedAfter, c
  <2>1. r = [t EXCEPT !.next = i + 1]
    BY <1>3, <1>5, <1>10, <2>0
  <2>2. r = [next |-> i + 1, char |-> c, escaped |-> FALSE, quoted |-> QuotedAfter(s, line),
             column |-> s.column, start |-> s.start, zeroes |-> ZeroesAfter(s, line)]
    BY <1>2, <1>4, <1>10, <2>1
  <2>3. GoesOn(s, r, line) /\ Shape(r)
    BY <1>1, <1>2, <1>10, <2>2 DEF GoesOn, c
  <2> QED
    BY <1>1, <2>3 DEF r
<1> QED
  BY <1>2, <1>5, <1>6, <1>7, <1>8, <1>9, <1>10

LEMMA TurnFits ==
    ASSUME NEW line, IsLine(line), NEW i \in 1 .. Len(line), NEW s, Fits(s, i - 1, line)
    PROVE  Fits(Turn(s, i, line), i, line)
<1> DEFINE L == Len(line)
           M == MaxColumns
           r == Turn(s, i, line)
<1>1. L \in Nat \ {0} /\ M \in Nat \ {0}
  BY LineIs, MaxColumnsAssumption
<1>2. CASE i < s.next
  BY <1>2 DEF Turn, Fits
<1>3. CASE s.next <= i
  <2>0. /\ s.next = i
        /\ \/ SkipsEscaped(s, r) \/ Escapes(s, r, line) \/ Starts(s, r, line)
           \/ Finishes(s, r, line) \/ GoesOn(s, r, line)
        /\ r \in [next : {r.next}, char : Range(line) \cup {Space}, escaped : {r.escaped},
                  quoted : {r.quoted}, column : {r.column}, start : {r.start},
                  zeroes : {r.zeroes}]
    BY <1>3, TurnCases
  <2>1. /\ s.next = i
        /\ \/ SkipsEscaped(s, r) \/ Escapes(s, r, line) \/ Starts(s, r, line)
           \/ Finishes(s, r, line) \/ GoesOn(s, r, line)
    BY <2>0
  <2>2. /\ s \in SplitStates(line) /\ s.column \in 1 .. M
        /\ \A c \in 1 .. L + M : s.start[c] <= L + 1
    <3>1. s.column \in 1 .. M + 1 /\ (s.column > M => s.next > L) /\ ~(s.next > L)
      BY <1>1, <2>1 DEF Fits
    <3>2. s.column \in 1 .. M
      <4> HIDE DEF M, L
      <4> QED
        BY <1>1, <3>1
    <3> QED
      BY <3>2 DEF Fits
  <2>3. /\ s.zeroes \in SUBSET Int /\ s.start \in [1 .. L + M -> Nat] /\ s.quoted \in BOOLEAN
    BY <2>2 DEF SplitStates
  <2> HIDE DEF r
  <2>4. ZeroesAt(line, i) \in SUBSET Int
    BY DEF ZeroesAt
  <2>5. QuotedAfter(s, line) \in BOOLEAN /\ ZeroesAfter(s, line) \in SUBSET Int
    BY <2>1, <2>3, <2>4 DEF QuotedAfter, ZeroesAfter
  <2>6. AfterDelimiters(line, i + 1) \in i + 1 .. L + 1
    BY <1>1, AfterDelimitersFound
  <2> HIDE DEF L, M
  <2>6a. i \in 1 .. L
    BY DEF L
  <2>7. /\ i < r.next /\ r.next <= L + 2 /\ r.next \in Nat
        /\ r.column \in 1 .. M + 1
        /\ r.column > M => r.next > L
    <3>1. CASE SkipsEscaped(s, r) \/ Escapes(s, r, line) \/ GoesOn(s, r, line) \/ Starts(s, r, line)
      <4>1. r.next \in {i + 1, i + 2} /\ r.column = s.column
        BY <2>1, <3>1 DEF SkipsEscaped, Escapes, GoesOn, Starts
      <4>2. s.column \in 1 .. M
        BY <2>2
      <4> QED
        BY <1>1, <2>6a, <4>1, <4>2
    <3>2. CASE Finishes(s, r, line)
      <4>1. /\ r.column = s.column + 1
            /\ r.next = IF s.column = M THEN L + 1 ELSE AfterDelimiters(line, i + 1)
        BY <2>1, <3>2 DEF Finishes, L, M
      <4>2. s.column \in 1 .. M
        BY <2>2
      <4> QED
        BY <1>1, <2>6, <2>6a, <4>1, <4>2, SMTT(20)
    <3> QED
      BY <2>1, <3>1, <3>2
  <2>8. r.start \in [1 .. L + M -> Nat] /\ \A c \in 1 .. L + M : r.start[c] <= L + 1
    <3>1. CASE r.start = s.start
      BY <2>2, <2>3, <3>1
    <3>2. CASE Starts(s, r, line)
      <4>1. PICK v \in {i, i + 1} : r.start = [s.start EXCEPT ![s.column] = v]
        BY <2>1, <3>2 DEF Starts
      <4>2. v \in Nat /\ v <= L + 1
        BY <1>1, <2>6a, <4>1
      <4> QED
        BY <2>2, <2>3, <4>1, <4>2
    <3> QED
      BY <2>1, <3>1, <3>2 DEF SkipsEscaped, Escapes, GoesOn, Finishes
  <2>9. r.escaped \in BOOLEAN /\ r.quoted \in BOOLEAN /\ r.zeroes \in SUBSET Int
    <3>1. CASE SkipsEscaped(s, r) \/ Escapes(s, r, line)
      <4>1. r.quoted = s.quoted /\ r.zeroes = s.zeroes /\ r.escaped \in BOOLEAN
        <5>1. r.escaped \in BOOLEAN
          BY <2>0, <3>1 DEF SkipsEscaped, Escapes
        <5> QED
          BY <3>1, <5>1 DEF SkipsEscaped, Escapes
      <4> QED
        BY <2>3, <4>1
    <3>2. CASE GoesOn(s, r, line) \/ Starts(s, r, line)
      BY <2>5, <3>2 DEF GoesOn, Starts
    <3>3. CASE Finishes(s, r, line)
      BY <2>1, <2>3, <2>4, <3>3 DEF Finishes
    <3> QED
      BY <2>1, <3>1, <3>2, <3>3
  <2>10. r \in SplitStates(line)
    <3>1. r.column \in Nat
      BY <1>1, <2>7
    <3> QED
      BY <2>0, <2>7, <2>8, <2>9, <3>1 DEF SplitStates, L, M
  <2>11. Fits(r, i, line)
    BY <2>7, <2>8, <2>10 DEF Fits, L, M
  <2> QED
    BY <2>11 DEF r
<1> QED
  <2>1. s.next \in Nat
    BY DEF Fits, SplitStates
  <2> QED
    BY <1>2, <1>3, <2>1

(***************************************************************************)
(* The turns of a line, from the first to the last.                        *)
(***************************************************************************)
LEMMA SplitUnfolds ==
    ASSUME NEW line, IsLine(line)
    PROVE  \E turn :
               /\ turn[0] = BeforeLine(line)
               /\ \A i \in 1 .. Len(line) : turn[i] = Turn(turn[i - 1], i, line)
               /\ \A i \in 0 .. Len(line) : Fits(turn[i], i, line)
               /\ SplitLine(line) =
                      [count   |-> ColumnsOf(turn[Len(line)]),
                       columns |-> [c \in 1 .. Len(line) + MaxColumns |->
                                        ColumnIn(turn[Len(line)], c, line)]]
<1> DEFINE L == Len(line)
           D == SplitStates(line)
           a == BeforeLine(line)
           g == [x \in (1 .. L) \X D |->
                    IF Turn(x[2], x[1], line) \in D THEN Turn(x[2], x[1], line) ELSE x[2]]
           Unfolded(f) == [i \in 0 .. L |-> IF i = 0 THEN a ELSE Turn(f[i - 1], i, line)]
           turn == CHOOSE f : f = Unfolded(f)
<1>1. L \in Nat \ {0}
  BY LineIs
<1>2. a \in D /\ Fits(a, 0, line)
  BY BeforeLineFits DEF Fits
<1>3. g \in [(1 .. L) \X D -> D]
  <2> HIDE DEF D, L
  <2>1. ASSUME NEW x \in (1 .. L) \X D
        PROVE  (IF Turn(x[2], x[1], line) \in D THEN Turn(x[2], x[1], line) ELSE x[2]) \in D
    OBVIOUS
  <2> QED
    BY <2>1
<1>4. PICK f \in [0 .. L -> D] : Recurs(f, L, a, g)
  <2> HIDE DEF g, L, D, a
  <2> QED
    BY <1>1, <1>2, <1>3, RecursiveFunctionExists
<1>5. f[0] = a /\ \A i \in 1 .. L : f[i] = g[<<i, f[i - 1]>>]
  <2>1. \A n \in 0 .. L : f[n] = IF n = 0 THEN a ELSE g[<<n, f[n - 1]>>]
    BY <1>4 DEF Recurs
  <2> HIDE DEF g, L, D, a
  <2>2. 0 \in 0 .. L /\ \A i \in 1 .. L : i \in 0 .. L /\ i # 0
    BY <1>1
  <2> QED
    BY <2>1, <2>2
<1>6. ASSUME NEW i \in 1 .. L, Fits(f[i - 1], i - 1, line)
      PROVE  f[i] = Turn(f[i - 1], i, line) /\ Fits(f[i], i, line)
  <2>1. Fits(Turn(f[i - 1], i, line), i, line)
    BY <1>6, TurnFits
  <2>2. Turn(f[i - 1], i, line) \in D
    BY <2>1 DEF Fits
  <2>3. f[i - 1] \in D
    BY <1>6 DEF Fits
  <2>4. g[<<i, f[i - 1]>>] = Turn(f[i - 1], i, line)
    <3> HIDE DEF D, L
    <3> QED
      BY <2>2, <2>3
  <2> QED
    BY <1>5, <2>1, <2>4
<1> HIDE DEF g, D
<1>7. \A i \in 0 .. L : Fits(f[i], i, line)
  <2> DEFINE Bad == {i \in 0 .. L : ~Fits(f[i], i, line)}
  <2> SUFFICES ASSUME Bad # {} PROVE FALSE
    OBVIOUS
  <2>1. Bad \in SUBSET Nat
    OBVIOUS
  <2>2. PICK i \in Bad : \A k \in Bad : i <= k
    <3> HIDE DEF Bad
    <3> QED
      BY <2>1, LeastOf
  <2>3. i \in 0 .. L /\ ~Fits(f[i], i, line)
    BY <2>2
  <2>4. i # 0
    BY <1>2, <1>5, <2>3
  <2>5. i \in 1 .. L /\ i - 1 \in 0 .. L /\ ~(i <= i - 1)
    BY <1>1, <2>3, <2>4
  <2>6. Fits(f[i - 1], i - 1, line)
    BY <2>2, <2>5
  <2> QED
    BY <1>6, <2>3, <2>5, <2>6
<1>8. \A i \in 1 .. L : f[i] = Turn(f[i - 1], i, line)
  <2> TAKE i \in 1 .. L
  <2>1. i - 1 \in 0 .. L
    BY <1>1
  <2> QED
    BY <1>6, <1>7, <2>1
<1>9. f = Unfolded(f)
  <2> HIDE DEF L, a
  <2>1. ASSUME NEW i \in 0 .. L
        PROVE  f[i] = IF i = 0 THEN a ELSE Turn(f[i - 1], i, line)
    <3>1. i # 0 => i \in 1 .. L
      OBVIOUS
    <3> QED
      BY <1>5, <1>8, <3>1
  <2>2. f = [i \in 0 .. L |-> f[i]]
    BY <1>4
  <2> QED
    BY <2>1, <2>2
<1>10. turn = Unfolded(turn)
  <2> HIDE DEF Unfolded
  <2> QED
    BY <1>9
<1>11. SplitLine(line) = [count   |-> ColumnsOf(turn[L]),
                          columns |-> [c \in DOMAIN turn[L].start |->
                                           ColumnIn(turn[L], c, line)]]
  BY DEF SplitLine
<1> HIDE DEF turn
<1>12. turn[0] = a /\ \A i \in 1 .. L : turn[i] = Turn(turn[i - 1], i, line)
  <2> HIDE DEF L, a
  <2>1. \A i \in 0 .. L : Unfolded(turn)[i] = IF i = 0 THEN a ELSE Turn(turn[i - 1], i, line)
    OBVIOUS
  <2>2. 0 \in 0 .. L /\ \A i \in 1 .. L : i \in 0 .. L /\ i # 0
    BY <1>1
  <2> HIDE DEF Unfolded
  <2> QED
    BY <1>10, <2>1, <2>2
<1>13. \A i \in 0 .. L : Fits(turn[i], i, line)
  <2> DEFINE Bad == {i \in 0 .. L : ~Fits(turn[i], i, line)}
  <2> SUFFICES ASSUME Bad # {} PROVE FALSE
    OBVIOUS
  <2>1. Bad \in SUBSET Nat
    OBVIOUS
  <2>2. PICK i \in Bad : \A k \in Bad : i <= k
    <3> HIDE DEF Bad
    <3> QED
      BY <2>1, LeastOf
  <2>3. i \in 0 .. L /\ ~Fits(turn[i], i, line)
    BY <2>2
  <2>4. i # 0
    BY <1>2, <1>12, <2>3
  <2>5. i \in 1 .. L /\ i - 1 \in 0 .. L /\ ~(i <= i - 1)
    BY <1>1, <2>3, <2>4
  <2>6. Fits(turn[i - 1], i - 1, line)
    BY <2>2, <2>5
  <2>7. Fits(Turn(turn[i - 1], i, line), i, line)
    BY <2>5, <2>6, TurnFits
  <2> QED
    BY <1>12, <2>3, <2>5, <2>7
<1>14. DOMAIN turn[L].start = 1 .. L + MaxColumns
  <2>1. L \in 0 .. L
    BY <1>1
  <2>2. Fits(turn[L], L, line)
    BY <1>13, <2>1
  <2> QED
    BY <2>2 DEF Fits, SplitStates
<1> QED
  BY <1>11, <1>12, <1>13, <1>14

-----------------------------------------------------------------------------
(***************************************************************************)
(* Sequences, one behind the other, are put together one by one.           *)
(***************************************************************************)
LEMMA FlattenUnfolds ==
    ASSUME NEW S, NEW N \in Nat, NEW seqs \in [1 .. N -> Seq(S)]
    PROVE  \E f \in [0 .. N -> Seq(S)] :
               /\ f[0] = <<>>
               /\ \A i \in 1 .. N : f[i] = f[i - 1] \o seqs[i]
               /\ FlattenSeq(seqs) = f[N]
<1> DEFINE D == Seq(S)
           Flat(f) == [i \in 1 .. N |-> IF i = 1 THEN seqs[i] ELSE f[i - 1] \o seqs[i]]
           flatten == CHOOSE f : f = Flat(f)
           g == [x \in (1 .. N) \X D |-> x[2] \o seqs[x[1]]]
<1>1. Len(seqs) = N /\ seqs \in Seq(Seq(S))
  <2>1. seqs \in Seq(Seq(S))
    OBVIOUS
  <2>2. DOMAIN seqs = 1 .. N /\ DOMAIN seqs = 1 .. Len(seqs) /\ Len(seqs) \in Nat
    BY <2>1
  <2> QED
    BY <2>1, <2>2
<1>2. g \in [(1 .. N) \X D -> D]
  <2>1. ASSUME NEW x \in (1 .. N) \X D PROVE x[2] \o seqs[x[1]] \in D
    <3>1. x[1] \in 1 .. N /\ x[2] \in Seq(S)
      OBVIOUS
    <3>2. seqs[x[1]] \in Seq(S)
      BY <3>1
    <3> QED
      BY <3>1, <3>2
  <2> QED
    BY <2>1
<1>3. PICK f \in [0 .. N -> D] : Recurs(f, N, <<>>, g)
  <2> DEFINE a == <<>>
  <2>1. a \in D
    OBVIOUS
  <2> HIDE DEF g, D, a
  <2>2. \E f \in [0 .. N -> D] : Recurs(f, N, a, g)
    BY <1>2, <2>1, RecursiveFunctionExists
  <2> QED
    BY <2>2 DEF a
<1>4. ASSUME NEW i \in 1 .. N
      PROVE  f[i] = f[i - 1] \o seqs[i] /\ f[i] \in Seq(S) /\ f[i - 1] \in Seq(S)
  <2>1. i \in 0 .. N /\ i # 0 /\ i - 1 \in 0 .. N
    OBVIOUS
  <2>2. f[i] = g[<<i, f[i - 1]>>]
    BY <1>3, <2>1 DEF Recurs
  <2>3. f[i - 1] \in D /\ f[i] \in D
    BY <1>3, <2>1
  <2>4. g[<<i, f[i - 1]>>] = f[i - 1] \o seqs[i]
    BY <2>3
  <2> QED
    BY <2>2, <2>3, <2>4
<1>5. f[0] = <<>>
  <2>1. 0 \in 0 .. N
    OBVIOUS
  <2>2. \A n \in 0 .. N : f[n] = IF n = 0 THEN <<>> ELSE g[<<n, f[n - 1]>>]
    BY <1>3 DEF Recurs
  <2> HIDE DEF g, D
  <2> QED
    BY <2>1, <2>2
<1>6. CASE N = 0
  <2>1. FlattenSeq(seqs) = <<>>
    BY <1>1, <1>6 DEF FlattenSeq
  <2> QED
    BY <1>3, <1>4, <1>5, <1>6, <2>1
<1>7. CASE N # 0
  <2> DEFINE h == [i \in 1 .. N |-> f[i]]
  <2>1. ASSUME NEW i \in 1 .. N
        PROVE  h[i] = IF i = 1 THEN seqs[i] ELSE h[i - 1] \o seqs[i]
    <3>1. CASE i = 1
      <4>0. i - 1 = 0
        BY <3>1
      <4>1. f[i] = f[i - 1] \o seqs[i] /\ seqs[i] \in Seq(S) /\ f[i - 1] = <<>>
        <5>1. f[i] = f[i - 1] \o seqs[i]
          BY <1>4
        <5> QED
          BY <1>5, <4>0, <5>1
      <4>2. f[i] = seqs[i]
        BY <4>1
      <4> QED
        BY <3>1, <4>2
    <3>2. CASE i # 1
      <4>1. i - 1 \in 1 .. N
        BY <3>2
      <4> QED
        BY <1>4, <3>2, <4>1
    <3> QED
      BY <3>1, <3>2
  <2>2. h = Flat(h)
    <3> HIDE DEF h
    <3>1. h = [i \in 1 .. N |-> h[i]]
      BY DEF h
    <3> QED
      BY <2>1, <3>1
  <2>3. flatten = Flat(flatten)
    <3> HIDE DEF Flat, h
    <3> QED
      BY <2>2
  <2>4. FlattenSeq(seqs) = flatten[N]
    BY <1>1, <1>7 DEF FlattenSeq
  <2> HIDE DEF flatten
  <2>5. \A i \in 1 .. N : flatten[i] = IF i = 1 THEN seqs[i] ELSE flatten[i - 1] \o seqs[i]
    <3>1. \A i \in 1 .. N : Flat(flatten)[i] = IF i = 1 THEN seqs[i] ELSE flatten[i - 1] \o seqs[i]
      OBVIOUS
    <3> HIDE DEF Flat
    <3> QED
      BY <2>3, <3>1
  <2> DEFINE Bad == {i \in 1 .. N : flatten[i] # f[i]}
  <2>6. Bad = {}
    <3> SUFFICES ASSUME Bad # {} PROVE FALSE
      OBVIOUS
    <3>1. Bad \in SUBSET Nat
      OBVIOUS
    <3>2. PICK i \in Bad : \A k \in Bad : i <= k
      <4> HIDE DEF Bad
      <4> QED
        BY <3>1, LeastOf
    <3>3. i \in 1 .. N /\ flatten[i] # f[i]
      BY <3>2
    <3>4. i # 1
      <4>1. 1 \in 1 .. N
        BY <1>7
      <4>2. h[1] = seqs[1] /\ h[1] = f[1]
        BY <2>1, <4>1
      <4>3. flatten[1] = f[1]
        BY <2>5, <4>1, <4>2
      <4> QED
        BY <3>3, <4>3
    <3>5. i - 1 \in 1 .. N /\ ~(i <= i - 1)
      BY <3>3, <3>4
    <3>6. flatten[i - 1] = f[i - 1]
      BY <3>2, <3>5
    <3>7. flatten[i] = flatten[i - 1] \o seqs[i] /\ f[i] = f[i - 1] \o seqs[i]
      BY <1>4, <2>5, <3>3, <3>4
    <3> QED
      BY <3>3, <3>6, <3>7
  <2>7. flatten[N] = f[N]
    <3>1. N \in 1 .. N
      BY <1>7
    <3> QED
      BY <2>6, <3>1
  <2> QED
    BY <1>3, <1>4, <1>5, <2>4, <2>7
<1> QED
  BY <1>6, <1>7

LEMMA FlattenedIsSeq ==
    ASSUME NEW S, NEW N \in Nat, NEW seqs \in [1 .. N -> Seq(S)]
    PROVE  FlattenSeq(seqs) \in Seq(S)
<1>1. PICK f \in [0 .. N -> Seq(S)] :
          /\ f[0] = <<>>
          /\ \A i \in 1 .. N : f[i] = f[i - 1] \o seqs[i]
          /\ FlattenSeq(seqs) = f[N]
  BY FlattenUnfolds
<1>2. N \in 0 .. N
  OBVIOUS
<1> QED
  BY <1>1, <1>2

\* \ is written before quotation marks.
LEMMA EscapedIsSeq ==
    ASSUME NEW S, NEW text, text \in Seq(S), "\\" \in S
    PROVE  Escaped(text) \in Seq(S)
<1> DEFINE n == Len(text)
           seqs == [i \in 1 .. n |-> IF text[i] \in {Quote, "\\"} THEN <<"\\", text[i]>>
                                                               ELSE <<text[i]>>]
<1>1. n \in Nat /\ DOMAIN text = 1 .. n /\ \A i \in 1 .. n : text[i] \in S
  OBVIOUS
<1>2. Escaped(text) = FlattenSeq(seqs)
  BY <1>1 DEF Escaped
<1>3. seqs \in [1 .. n -> Seq(S)]
  <2>1. ASSUME NEW x \in S PROVE <<"\\", x>> \in Seq(S) /\ <<x>> \in Seq(S)
    OBVIOUS
  <2> HIDE DEF n
  <2> QED
    BY <1>1, <2>1
<1> HIDE DEF seqs, n
<1> QED
  BY <1>1, <1>2, <1>3, FlattenedIsSeq

\* In a text without them, there is nothing to escape.
LEMMA NothingToEscape ==
    ASSUME NEW S, NEW text, text \in Seq(S), Quote \notin Range(text), "\\" \notin Range(text)
    PROVE  Escaped(text) = text
<1> DEFINE n == Len(text)
           seqs == [i \in 1 .. n |-> IF text[i] \in {Quote, "\\"} THEN <<"\\", text[i]>>
                                                               ELSE <<text[i]>>]
<1>1. n \in Nat /\ DOMAIN text = 1 .. n /\ \A i \in 1 .. n : text[i] \in S
  OBVIOUS
<1>2. Escaped(text) = FlattenSeq(seqs)
  BY <1>1 DEF Escaped
<1>3. \A i \in 1 .. n : seqs[i] = <<text[i]>>
  <2> TAKE i \in 1 .. n
  <2>1. text[i] \in Range(text)
    BY <1>1 DEF Range
  <2>2. text[i] \notin {Quote, "\\"}
    BY <2>1
  <2> QED
    BY <2>2
<1>4. seqs \in [1 .. n -> Seq(S)]
  <2>1. ASSUME NEW x \in S PROVE <<x>> \in Seq(S)
    OBVIOUS
  <2>2. seqs = [i \in 1 .. n |-> seqs[i]]
    OBVIOUS
  <2> HIDE DEF n, seqs
  <2> QED
    BY <1>1, <1>3, <2>1, <2>2
<1> HIDE DEF seqs
<1>5. PICK f \in [0 .. n -> Seq(S)] :
          /\ f[0] = <<>>
          /\ \A i \in 1 .. n : f[i] = f[i - 1] \o seqs[i]
          /\ FlattenSeq(seqs) = f[n]
  <2> HIDE DEF n
  <2> QED
    BY <1>1, <1>4, FlattenUnfolds
<1> DEFINE Begin(i) == Len(f[i]) = i /\ \A j \in 1 .. i : f[i][j] = text[j]
           Bad == {i \in 0 .. n : ~Begin(i)}
<1>6. Bad = {}
  <2> SUFFICES ASSUME Bad # {} PROVE FALSE
    OBVIOUS
  <2>1. Bad \in SUBSET Nat
    OBVIOUS
  <2>2. PICK i \in Bad : \A k \in Bad : i <= k
    <3> HIDE DEF Bad
    <3> QED
      BY <2>1, LeastOf
  <2>3. i \in 0 .. n /\ ~Begin(i)
    BY <2>2
  <2>4. i # 0
    BY <1>5, <2>3
  <2>5. i \in 1 .. n /\ i - 1 \in 0 .. n /\ ~(i <= i - 1)
    BY <1>1, <2>3, <2>4
  <2>6. Begin(i - 1)
    BY <2>2, <2>5
  <2>7. f[i] = f[i - 1] \o <<text[i]>> /\ f[i - 1] \in Seq(S) /\ text[i] \in S
    BY <1>1, <1>3, <1>5, <2>5
  <2>8. Len(f[i - 1]) = i - 1 /\ \A j \in 1 .. i - 1 : f[i - 1][j] = text[j]
    BY <2>6
  <2>9. /\ Len(f[i]) = Len(f[i - 1]) + 1 /\ f[i][Len(f[i - 1]) + 1] = text[i]
        /\ \A j \in 1 .. Len(f[i - 1]) : f[i][j] = f[i - 1][j]
    BY <2>7
  <2>10. Begin(i)
    <3>1. Len(f[i]) = i /\ f[i][i] = text[i]
      BY <2>5, <2>8, <2>9
    <3>2. ASSUME NEW j \in 1 .. i PROVE f[i][j] = text[j]
      <4>1. CASE j = i
        BY <3>1, <4>1
      <4>2. CASE j # i
        <5>1. j \in 1 .. i - 1
          BY <2>5, <4>2
        <5> QED
          BY <2>8, <2>9, <5>1
      <4> QED
        BY <4>1, <4>2
    <3> QED
      BY <3>1, <3>2
  <2> QED
    BY <2>3, <2>10
<1>7. Begin(n) /\ f[n] \in Seq(S)
  BY <1>1, <1>5, <1>6
<1>8. f[n] = text
  BY <1>1, <1>7
<1> QED
  BY <1>2, <1>5, <1>8

-----------------------------------------------------------------------------
(***************************************************************************)
(* The line of a row.  It has its newline at its end, if at all.           *)
(***************************************************************************)
LEMMA RowIs ==
    ASSUME NEW row, IsRow(row)
    PROVE  /\ Len(row.columns) \in Nat /\ DOMAIN row.columns = 1 .. Len(row.columns)
           /\ \A k \in 1 .. Len(row.columns) : IsColumn(row.columns[k])
           /\ Len(row.lead) \in Nat /\ \A q \in 1 .. Len(row.lead) : row.lead[q] = Space
           /\ Len(row.gap) \in Nat \ {0} /\ \A q \in 1 .. Len(row.gap) : row.gap[q] = Space
           /\ Len(row.ending) \in Nat
           /\ \A q \in 1 .. Len(row.ending) :
                  row.ending[q] = Space \/ (row.ending[q] = "\n" /\ q = Len(row.ending))
<1>0. /\ row.columns \in Seq(Range(row.columns)) /\ \A c \in Range(row.columns) : IsColumn(c)
      /\ row.lead \in Seq({Space}) /\ row.gap \in Seq({Space}) /\ row.gap # <<>>
      /\ row.ending \in Seq({Space, "\n"})
      /\ \A q \in 1 .. Len(row.ending) - 1 : row.ending[q] = Space
  BY Zenon DEF IsRow
<1>1. Len(row.columns) \in Nat /\ DOMAIN row.columns = 1 .. Len(row.columns)
  BY <1>0, SeqIs
<1>2. \A k \in 1 .. Len(row.columns) : IsColumn(row.columns[k])
  BY <1>0, <1>1 DEF Range
<1>3. Len(row.lead) \in Nat /\ \A q \in 1 .. Len(row.lead) : row.lead[q] = Space
  <2>1. Len(row.lead) \in Nat /\ \A q \in 1 .. Len(row.lead) : row.lead[q] \in {Space}
    BY <1>0, SeqIs
  <2> QED
    BY <2>1
<1>4. Len(row.gap) \in Nat \ {0} /\ \A q \in 1 .. Len(row.gap) : row.gap[q] = Space
  <2>1. Len(row.gap) \in Nat /\ \A q \in 1 .. Len(row.gap) : row.gap[q] \in {Space}
    BY <1>0, SeqIs
  <2>2. Len(row.gap) # 0
    <3> HIDE DEF IsColumn
    <3>1. row.gap \in Seq({Space}) /\ row.gap # <<>>
      BY <1>0
    <3> QED
      BY <3>1, NotEmpty
  <2> QED
    BY <2>1, <2>2
<1>5. Len(row.ending) \in Nat
      /\ \A q \in 1 .. Len(row.ending) : row.ending[q] \in {Space, "\n"}
  BY <1>0, SeqIs
<1>6. \A q \in 1 .. Len(row.ending) :
          row.ending[q] = Space \/ (row.ending[q] = "\n" /\ q = Len(row.ending))
  <2> TAKE q \in 1 .. Len(row.ending)
  <2>1. q = Len(row.ending) \/ q \in 1 .. Len(row.ending) - 1
    <3> DEFINE n == Len(row.ending)
    <3>1. n \in Nat /\ q \in 1 .. n
      BY <1>5
    <3> HIDE DEF n
    <3>2. q = n \/ q \in 1 .. n - 1
      BY <3>1
    <3> QED
      BY <3>2 DEF n
  <2>2. q \in 1 .. Len(row.ending) - 1 => row.ending[q] = Space
    BY <1>0
  <2> QED
    BY <1>5, <2>1, <2>2
<1> QED
  BY <1>1, <1>2, <1>3, <1>4, <1>5, <1>6

TextCharacters(row) ==
    UNION {Range(row.columns[k].text) : k \in 1 .. Len(row.columns)}

LineCharacters(row) == TextCharacters(row) \cup {Quote, "\\", Space}

PartsOf(row) == [k \in 1 .. Len(row.columns) |-> PartOf(row, k)]

\* The parts of a line, without what is before and behind the columns
LEMMA RowHasParts ==
    ASSUME NEW row, IsRow(row)
    PROVE  LET S == LineCharacters(row)
           IN  /\ LineOf(row) = row.lead \o FlattenSeq(PartsOf(row)) \o row.ending
               /\ PartsOf(row) \in [1 .. Len(row.columns) -> Seq(S)]
               /\ \A k \in 1 .. Len(row.columns) : InFile(row.columns[k]) \in Seq(S)
               /\ row.lead \in Seq(S) /\ row.gap \in Seq(S)
               /\ "\n" \notin S /\ Space \in S
<1> DEFINE n == Len(row.columns)
           parts == PartsOf(row)
           U == TextCharacters(row)
           S == LineCharacters(row)
<1>1. n \in Nat /\ DOMAIN row.columns = 1 .. n /\ \A k \in 1 .. n : IsColumn(row.columns[k])
  BY RowIs
<1>2. LineOf(row) = row.lead \o FlattenSeq(parts) \o row.ending
  BY <1>1 DEF LineOf, PartsOf
<1>3. "\n" \notin S
  <2>1. \A k \in 1 .. n : "\n" \notin Range(row.columns[k].text)
    BY <1>1 DEF IsColumn
  <2>2. "\n" \notin U
    BY <2>1 DEF TextCharacters
  <2> HIDE DEF U
  <2>3. "\n" \notin {Quote, "\\", Space}
    BY QuoteIsNoOther
  <2> QED
    BY <2>2, <2>3 DEF U, LineCharacters
<1>4. \A k \in 1 .. n : Range(row.columns[k].text) \subseteq S
  BY DEF TextCharacters, LineCharacters
<1>5. Quote \in S /\ "\\" \in S /\ Space \in S
  <2>1. {Quote, "\\", Space} \subseteq S
    BY DEF LineCharacters
  <2> HIDE DEF S
  <2> QED
    BY <2>1
<1> HIDE DEF S, n
<1>6. row.lead \in Seq(S) /\ row.gap \in Seq(S)
  <2>1. {Space} \subseteq S
    BY <1>5
  <2>2. row.lead \in Seq({Space}) /\ row.gap \in Seq({Space})
    BY DEF IsRow
  <2>3. ASSUME NEW s \in Seq({Space}) PROVE s \in Seq(S)
    <3>1. \A q \in 1 .. Len(s) : s[q] \in {Space}
      BY SeqIs
    <3>2. \A q \in 1 .. Len(s) : s[q] \in S
      BY <2>1, <3>1
    <3> QED
      BY <3>2, SeqOfMore
  <2> QED
    BY <2>2, <2>3
<1>7. ASSUME NEW k \in 1 .. n PROVE InFile(row.columns[k]) \in Seq(S)
  <2> DEFINE c == row.columns[k]
  <2>1. c.text \in Seq(Range(c.text)) /\ Range(c.text) \subseteq S
    BY <1>1, <1>4 DEF IsColumn
  <2>2. c.text \in Seq(S)
    <3> DEFINE t == c.text
    <3>1. t \in [1 .. Len(t) -> S] /\ Len(t) \in Nat
      BY <2>1
    <3> HIDE DEF t
    <3>2. t \in Seq(S)
      BY <3>1
    <3> QED
      BY <3>2 DEF t
  <2>3. Escaped(c.text) \in Seq(S)
    BY <1>5, <2>2, EscapedIsSeq
  <2>4. <<Quote>> \in Seq(S)
    <3>1. ASSUME NEW x \in S PROVE <<x>> \in Seq(S)
      OBVIOUS
    <3> QED
      BY <1>5, <3>1
  <2>5. <<Quote>> \o Escaped(c.text) \o <<Quote>> \in Seq(S)
    BY <2>3, <2>4
  <2> QED
    BY <2>2, <2>5 DEF InFile
<1>8. parts \in [1 .. n -> Seq(S)]
  <2>1. ASSUME NEW k \in 1 .. n PROVE PartOf(row, k) \in Seq(S)
    <3>1. <<>> \in Seq(S)
      OBVIOUS
    <3>2. InFile(row.columns[k]) \o <<>> \in Seq(S) /\ InFile(row.columns[k]) \o row.gap \in Seq(S)
      BY <1>6, <1>7, <3>1
    <3> QED
      BY <3>2 DEF PartOf
  <2> QED
    BY <2>1 DEF PartsOf, n
<1> QED
  BY <1>2, <1>3, <1>5, <1>6, <1>7, <1>8 DEF S, n

LEMMA RowIsLine ==
    ASSUME NEW row, IsRow(row)
    PROVE  /\ IsLine(LineOf(row))
           /\ \A q \in 1 .. Len(LineOf(row)) - 1 : LineOf(row)[q] # "\n"
<1> DEFINE n == Len(row.columns)
           parts == PartsOf(row)
           S == LineCharacters(row)
           T == S \cup {"\n"}
           body == row.lead \o FlattenSeq(parts)
           line == LineOf(row)
<1>1. /\ line = body \o row.ending
      /\ parts \in [1 .. n -> Seq(S)] /\ row.lead \in Seq(S) /\ "\n" \notin S
  BY RowHasParts
<1>2. n \in Nat /\ Space \in S
  BY RowIs, RowHasParts
<1> HIDE DEF parts, S, n, line
<1>3. FlattenSeq(parts) \in Seq(S)
  BY <1>1, <1>2, FlattenedIsSeq
<1>4. body \in Seq(S)
  BY <1>1, <1>3
<1> HIDE DEF body
<1>5. Len(body) \in Nat /\ \A q \in 1 .. Len(body) : body[q] \in S
  BY <1>4
<1>6. /\ row.ending \in Seq(T) /\ Len(row.ending) \in Nat
      /\ \A q \in 1 .. Len(row.ending) - 1 : row.ending[q] = Space
  <2>1. row.ending \in Seq({Space, "\n"}) /\ \A q \in 1 .. Len(row.ending) - 1 : row.ending[q] = Space
    BY Zenon DEF IsRow
  <2>2. {Space, "\n"} \subseteq T
    BY <1>2
  <2>3. Len(row.ending) \in Nat /\ \A q \in 1 .. Len(row.ending) : row.ending[q] \in {Space, "\n"}
    BY <2>1, SeqIs
  <2>4. \A q \in 1 .. Len(row.ending) : row.ending[q] \in T
    BY <2>2, <2>3
  <2> HIDE DEF T
  <2>5. row.ending \in Seq(T)
    BY <2>1, <2>4, SeqOfMore
  <2> QED
    BY <2>1, <2>3, <2>5
<1>7. body \in Seq(T)
  <2>1. \A q \in 1 .. Len(body) : body[q] \in T
    BY <1>5
  <2> QED
    BY <1>4, <2>1, SeqOfMore
<1>8. /\ line \in Seq(T) /\ Len(line) = Len(body) + Len(row.ending)
      /\ \A q \in 1 .. Len(line) :
            line[q] = IF q <= Len(body) THEN body[q] ELSE row.ending[q - Len(body)]
  <2> HIDE DEF T
  <2>1. /\ line \in Seq(T) /\ Len(line) = Len(body) + Len(row.ending)
        /\ \A q \in 1 .. Len(body) + Len(row.ending) :
              line[q] = IF q <= Len(body) THEN body[q] ELSE row.ending[q - Len(body)]
    BY <1>1, <1>6, <1>7, ConcatIs
  <2> QED
    BY <2>1
<1>9. line # <<>>
  BY DEF IsRow, line
<1>10. line \in Seq(Range(line))
  <2>1. Len(line) \in Nat /\ line = [q \in 1 .. Len(line) |-> line[q]]
        /\ \A q \in 1 .. Len(line) : line[q] \in Range(line)
    BY <1>8 DEF Range
  <2> DEFINE L == Len(line)
             R == Range(line)
  <2> HIDE DEF L, R
  <2>2. [q \in 1 .. L |-> line[q]] \in Seq(R)
    BY <2>1 DEF L, R
  <2> QED
    BY <2>1, <2>2 DEF L, R
<1>11. ASSUME NEW q \in 1 .. Len(line) - 1 PROVE line[q] # "\n"
  <2> DEFINE a == Len(body)
             b == Len(row.ending)
  <2>1. a \in Nat /\ b \in Nat /\ Len(line) = a + b
    BY <1>5, <1>6, <1>8
  <2> HIDE DEF a, b
  <2>2. q \in 1 .. a + b /\ (q <= a => q \in 1 .. a) /\ (~(q <= a) => q - a \in 1 .. b - 1)
    BY <2>1
  <2>3. line[q] = IF q <= a THEN body[q] ELSE row.ending[q - a]
    BY <1>8, <2>1, <2>2 DEF a, b
  <2>4. CASE q <= a
    <3>1. line[q] = body[q] /\ body[q] \in S
      BY <1>5, <2>2, <2>3, <2>4 DEF a
    <3> QED
      BY <1>1, <3>1
  <2>5. CASE ~(q <= a)
    <3>1. line[q] = row.ending[q - a] /\ row.ending[q - a] = Space
      BY <1>6, <2>2, <2>3, <2>5 DEF b
    <3> QED
      BY <3>1, QuoteIsNoOther
  <2> QED
    BY <2>4, <2>5
<1> QED
  BY <1>9, <1>10, <1>11 DEF IsLine, line

-----------------------------------------------------------------------------
(***************************************************************************)
(* Gaps and columns: in a line that begins with no gap and has no \, every *)
(* column that is finished was started, and finished by a gap of its own.  *)
(***************************************************************************)
GapsBefore(line, i) == {p \in Gaps(line) : p < i}

AtGap(line, i) == i > Len(line) \/ line[i] # Space \/ i \in Gaps(line)

Orderly(s, line) ==
    /\ s.escaped = FALSE
    /\ s.column <= Cardinality(GapsBefore(line, s.next)) + 1
    /\ \A c \in 1 .. s.column - 1 : s.start[c] # 0
    /\ s.start[s.column] = 0 =>
           s.quoted = FALSE /\ (s.next > Len(line) \/ line[s.next] # Space)
    /\ s.quoted = FALSE => AtGap(line, s.next)
    /\ \A c \in s.column + 1 .. Len(line) + MaxColumns : s.start[c] = 0

LEMMA GapsAreCounted ==
    ASSUME NEW line, IsLine(line), NEW i \in Nat, NEW j \in Nat, i <= j
    PROVE  /\ Cardinality(GapsBefore(line, i)) \in Nat
           /\ Cardinality(GapsBefore(line, i)) <= Cardinality(GapsBefore(line, j))
           /\ i \in Gaps(line) /\ i < j =>
                  Cardinality(GapsBefore(line, i)) + 1 <= Cardinality(GapsBefore(line, j))
           /\ Cardinality(GapsBefore(line, i)) <= Cardinality(Gaps(line))
<1> DEFINE A == GapsBefore(line, i)
           B == GapsBefore(line, j)
           L == Len(line)
<1>1. L \in Nat /\ DOMAIN line = 1 .. L
  BY LineIs
<1>2. IsFiniteSet(1 .. L)
  BY <1>1, FS_Interval
<1>3. Gaps(line) \subseteq 1 .. L
  BY <1>1 DEF Gaps
<1>4. IsFiniteSet(Gaps(line))
  BY <1>2, <1>3, FS_Subset
<1>5. A \subseteq Gaps(line) /\ B \subseteq Gaps(line) /\ A \subseteq B
  BY <1>1, <1>3 DEF GapsBefore
<1>6. IsFiniteSet(A) /\ IsFiniteSet(B)
  BY <1>4, <1>5, FS_Subset
<1> HIDE DEF A, B, L
<1>7. /\ Cardinality(A) \in Nat /\ Cardinality(B) \in Nat
      /\ Cardinality(A) <= Cardinality(B) /\ Cardinality(A) <= Cardinality(Gaps(line))
  BY <1>4, <1>5, <1>6, FS_Subset, FS_CardinalityType
<1>8. ASSUME i \in Gaps(line), i < j
      PROVE  Cardinality(A) + 1 <= Cardinality(B)
  <2>1. i \notin A /\ i \in B
    BY <1>8 DEF A, B, GapsBefore
  <2>2. A \cup {i} \subseteq B
    BY <1>5, <2>1
  <2>3. Cardinality(A \cup {i}) = Cardinality(A) + 1 /\ IsFiniteSet(A \cup {i})
    BY <1>6, <2>1, FS_AddElement
  <2>4. Cardinality(A \cup {i}) <= Cardinality(B)
    BY <1>6, <2>2, <2>3, FS_Subset
  <2> QED
    BY <2>3, <2>4
<1> QED
  BY <1>7, <1>8 DEF A, B

LEMMA TurnIsOrderly ==
    ASSUME NEW line, IsLine(line), "\\" \notin Range(line),
           NEW i \in 1 .. Len(line), NEW s, Fits(s, i - 1, line), Orderly(s, line)
    PROVE  Orderly(Turn(s, i, line), line)
<1> DEFINE L == Len(line)
           M == MaxColumns
           r == Turn(s, i, line)
<1>1. L \in Nat \ {0} /\ M \in Nat \ {0} /\ DOMAIN line = 1 .. L
  BY LineIs, MaxColumnsAssumption
<1>2. CASE i < s.next
  BY <1>2 DEF Turn
<1>3. CASE s.next <= i
  <2>1. /\ s.next = i
        /\ \/ SkipsEscaped(s, r) \/ Escapes(s, r, line) \/ Starts(s, r, line)
           \/ Finishes(s, r, line) \/ GoesOn(s, r, line)
    BY <1>3, TurnCases
  <2>2. line[i] # "\\" /\ s.escaped = FALSE
    <3>1. line[i] \in Range(line)
      BY LineIs
    <3> QED
      BY <3>1 DEF Orderly
  <2>3. Starts(s, r, line) \/ Finishes(s, r, line) \/ GoesOn(s, r, line)
    BY <2>1, <2>2 DEF SkipsEscaped, Escapes
  <2>4. Fits(r, i, line)
    BY TurnFits
  <2>5. /\ s.column \in 1 .. M
        /\ s.start \in [1 .. L + M -> Nat] /\ s.quoted \in BOOLEAN
        /\ r.next \in Nat /\ i < r.next
        /\ r.start \in [1 .. L + M -> Nat]
    <3>1. s.column \in 1 .. M + 1 /\ (s.column > M => s.next > L) /\ ~(s.next > L)
      BY <1>1, <2>1 DEF Fits
    <3>2. s.column \in 1 .. M
      <4> HIDE DEF M, L
      <4> QED
        BY <1>1, <3>1
    <3> QED
      BY <2>4, <3>2 DEF Fits, SplitStates
  <2> HIDE DEF r
  <2>6. /\ Cardinality(GapsBefore(line, i)) \in Nat
        /\ Cardinality(GapsBefore(line, r.next)) \in Nat
        /\ Cardinality(GapsBefore(line, i)) <= Cardinality(GapsBefore(line, r.next))
        /\ i \in Gaps(line) =>
               Cardinality(GapsBefore(line, i)) + 1 <= Cardinality(GapsBefore(line, r.next))
    BY <2>5, GapsAreCounted, SMTT(20)
  <2>7. /\ s.column <= Cardinality(GapsBefore(line, i)) + 1
        /\ \A c \in 1 .. s.column - 1 : s.start[c] # 0
        /\ s.start[s.column] = 0 => s.quoted = FALSE /\ line[i] # Space
        /\ s.quoted = FALSE => line[i] # Space \/ i \in Gaps(line)
        /\ \A c \in s.column + 1 .. L + M : s.start[c] = 0
    BY <2>1, <1>1 DEF Orderly, AtGap
  <2>8. ASSUME r.next = i + 1, line[i] # Space PROVE AtGap(line, r.next)
    <3> SUFFICES ASSUME ~(i + 1 > L), line[i + 1] = Space PROVE i + 1 \in Gaps(line)
      BY <2>8 DEF AtGap
    <3>1. i + 1 \in DOMAIN line /\ (i + 1) - 1 = i
      BY <1>1
    <3> QED
      BY <2>8, <3>1 DEF Gaps
  <2>9. ASSUME Starts(s, r, line) PROVE Orderly(r, line)
    <3>1. /\ s.start[s.column] = 0 /\ line[i] # Space /\ r.escaped = FALSE
          /\ r.quoted = IF line[i] = Quote THEN ~s.quoted ELSE s.quoted
          /\ r.column = s.column
          /\ r.next = IF line[i] = Quote THEN i + 2 ELSE i + 1
          /\ \E v \in {i, i + 1} : r.start = [s.start EXCEPT ![s.column] = v]
      BY <2>1, <2>9 DEF Starts, QuotedAfter
    <3>2. PICK v \in {i, i + 1} : r.start = [s.start EXCEPT ![s.column] = v]
      BY <3>1
    <3>3. v # 0 /\ s.column \in 1 .. L + M
      BY <1>1, <2>5
    <3>4. /\ r.start[s.column] = v
          /\ \A c \in 1 .. s.column - 1 : r.start[c] = s.start[c]
          /\ \A c \in s.column + 1 .. L + M : r.start[c] = s.start[c]
      <4> HIDE DEF L, M
      <4>1. \A c \in 1 .. L + M : c # s.column => r.start[c] = s.start[c]
        BY <2>5, <3>2
      <4>2. \A c \in 1 .. s.column - 1 : c \in 1 .. L + M /\ c # s.column
        BY <3>3, <1>1
      <4>3. \A c \in s.column + 1 .. L + M : c \in 1 .. L + M /\ c # s.column
        BY <3>3, <1>1
      <4> QED
        BY <2>5, <3>2, <3>3, <4>1, <4>2, <4>3
    <3>5. s.quoted = FALSE
      BY <2>7, <3>1
    <3>6. r.quoted = FALSE => AtGap(line, r.next)
      <4> SUFFICES ASSUME r.quoted = FALSE PROVE AtGap(line, r.next)
        OBVIOUS
      <4>1. line[i] # Quote
        BY <3>1, <3>5
      <4> QED
        BY <2>8, <3>1, <4>1
    <3>7. s.column <= Cardinality(GapsBefore(line, r.next)) + 1
      BY <2>5, <2>6, <2>7
    <3> QED
      BY <2>7, <3>1, <3>3, <3>4, <3>6, <3>7 DEF Orderly
  <2>10. ASSUME Finishes(s, r, line) PROVE Orderly(r, line)
    <3>1. /\ line[i] = Space /\ ~s.quoted /\ r.escaped = FALSE /\ r.quoted = FALSE
          /\ r.column = s.column + 1 /\ r.start = s.start
          /\ r.next = IF s.column = M THEN L + 1 ELSE AfterDelimiters(line, i + 1)
      BY <2>1, <2>10 DEF Finishes
    <3>2. s.quoted = FALSE
      BY <2>5, <3>1
    <3>3. i \in Gaps(line) /\ s.start[s.column] # 0
      BY <2>7, <3>1, <3>2
    <3>4. r.next > L \/ line[r.next] # Space
      <4>1. i + 1 \in 1 .. L + 1
        BY <1>1
      <4>2. AfterDelimiters(line, i + 1) > L \/ ~IsDelimiter(line[AfterDelimiters(line, i + 1)])
        BY <1>1, <4>1, AfterDelimitersFound
      <4> QED
        BY <1>1, <3>1, <4>2 DEF IsDelimiter
    <3>5. AtGap(line, r.next)
      BY <3>4 DEF AtGap
    <3>6. r.column <= Cardinality(GapsBefore(line, r.next)) + 1
      BY <2>5, <2>6, <2>7, <3>1, <3>3
    <3>7. \A c \in 1 .. r.column - 1 : r.start[c] # 0
      <4> TAKE c \in 1 .. r.column - 1
      <4>1. c = s.column \/ c \in 1 .. s.column - 1
        BY <2>5, <3>1
      <4> QED
        BY <2>7, <3>1, <3>3, <4>1
    <3>8. \A c \in r.column + 1 .. L + M : r.start[c] = 0
      <4> TAKE c \in r.column + 1 .. L + M
      <4>1. c \in s.column + 1 .. L + M
        BY <1>1, <2>5, <3>1
      <4> QED
        BY <2>7, <3>1, <4>1
    <3> QED
      BY <3>1, <3>4, <3>5, <3>6, <3>7, <3>8 DEF Orderly
  <2>11. ASSUME GoesOn(s, r, line) PROVE Orderly(r, line)
    <3>1. /\ s.start[s.column] # 0 \/ line[i] = Space
          /\ s.quoted \/ line[i] # Space
          /\ r.escaped = FALSE
          /\ r.quoted = IF line[i] = Quote THEN ~s.quoted ELSE s.quoted
          /\ r.column = s.column /\ r.next = i + 1 /\ r.start = s.start
      BY <2>1, <2>11 DEF GoesOn, QuotedAfter
    <3>2. s.start[s.column] # 0
      BY <2>7, <3>1
    <3>3. r.quoted = FALSE => AtGap(line, r.next)
      <4> SUFFICES ASSUME r.quoted = FALSE PROVE AtGap(line, r.next)
        OBVIOUS
      <4>1. line[i] # Space
        <5> SUFFICES ASSUME line[i] = Space PROVE FALSE
          OBVIOUS
        <5>1. line[i] # Quote
          BY QuoteIsNoOther
        <5> QED
          BY <3>1, <5>1
      <4> QED
        BY <2>8, <3>1, <4>1
    <3>4. s.column <= Cardinality(GapsBefore(line, r.next)) + 1
      BY <2>5, <2>6, <2>7
    <3> QED
      BY <2>7, <3>1, <3>2, <3>3, <3>4 DEF Orderly
  <2>12. Orderly(r, line)
    BY <2>3, <2>9, <2>10, <2>11
  <2> QED
    BY <2>12 DEF r
<1> QED
  <2>1. s.next \in Nat
    BY DEF Fits, SplitStates
  <2> QED
    BY <1>2, <1>3, <2>1

\* In a line with few enough gaps, all columns that are counted are there.
LEMMA ColumnsAreThere ==
    ASSUME NEW line, IsLine(line), "\\" \notin Range(line), line[1] # Space,
           \A q \in 1 .. Len(line) - 1 : line[q] # "\n",
           ~(Cardinality(Gaps(line)) >= MaxColumns),
           NEW count \in SplitLine(line).count
    PROVE  \A c \in 1 .. count :
               c <= MaxColumns /\ SplitLine(line).columns[c] # NoColumn
<1> DEFINE L == Len(line)
           M == MaxColumns
<1>1. L \in Nat \ {0} /\ M \in Nat \ {0} /\ DOMAIN line = 1 .. L
  BY LineIs, MaxColumnsAssumption
<1>2. PICK turn :
               /\ turn[0] = BeforeLine(line)
               /\ \A i \in 1 .. L : turn[i] = Turn(turn[i - 1], i, line)
               /\ \A i \in 0 .. L : Fits(turn[i], i, line)
               /\ SplitLine(line) =
                      [count   |-> ColumnsOf(turn[L]),
                       columns |-> [c \in 1 .. L + M |-> ColumnIn(turn[L], c, line)]]
  BY SplitUnfolds
<1>3. Orderly(turn[0], line)
  <2> DEFINE b == BeforeLine(line)
  <2>1. b = [next |-> 1, char |-> Space, escaped |-> FALSE, quoted |-> FALSE, column |-> 1,
             start |-> [c \in 1 .. L + M |-> 0], zeroes |-> {}]
    BY DEF BeforeLine
  <2> HIDE DEF b
  <2>2. /\ b.next = 1 /\ b.escaped = FALSE /\ b.quoted = FALSE /\ b.column = 1
        /\ \A c \in 1 .. L + M : b.start[c] = 0
    BY <2>1
  <2>3. Cardinality(GapsBefore(line, 1)) \in Nat
    BY GapsAreCounted
  <2>4. AtGap(line, 1)
    BY DEF AtGap
  <2>5. \A c \in 1 + 1 .. L + M : b.start[c] = 0
    <3> HIDE DEF L, M
    <3>1. \A c \in 1 + 1 .. L + M : c \in 1 .. L + M
      BY <1>1
    <3> QED
      BY <2>2, <3>1
  <2>6. Orderly(b, line)
    BY <2>2, <2>3, <2>4, <2>5 DEF Orderly
  <2> QED
    BY <1>2, <2>6 DEF b
<1>4. \A i \in 0 .. L : Orderly(turn[i], line)
  <2> DEFINE Bad == {i \in 0 .. L : ~Orderly(turn[i], line)}
  <2> SUFFICES ASSUME Bad # {} PROVE FALSE
    OBVIOUS
  <2>1. Bad \in SUBSET Nat
    OBVIOUS
  <2>2. PICK i \in Bad : \A k \in Bad : i <= k
    <3> HIDE DEF Bad
    <3> QED
      BY <2>1, LeastOf
  <2>3. i \in 0 .. L /\ ~Orderly(turn[i], line)
    BY <2>2
  <2>4. i # 0
    BY <1>3, <2>3
  <2>5. i \in 1 .. L /\ i - 1 \in 0 .. L /\ ~(i <= i - 1)
    BY <1>1, <2>3, <2>4
  <2>6. Orderly(turn[i - 1], line) /\ Fits(turn[i - 1], i - 1, line)
    BY <1>2, <2>2, <2>5
  <2>7. Orderly(Turn(turn[i - 1], i, line), line)
    BY <2>5, <2>6, TurnIsOrderly
  <2> QED
    BY <1>2, <2>3, <2>5, <2>7
<1> DEFINE s == turn[L]
<1>5. Orderly(s, line) /\ Fits(s, L, line)
  <2>1. L \in 0 .. L
    BY <1>1
  <2> QED
    BY <1>2, <1>4, <2>1
<1>6. /\ SplitLine(line).count = ColumnsOf(s)
      /\ \A c \in 1 .. L + M : SplitLine(line).columns[c] = ColumnIn(s, c, line)
  BY <1>2
<1> HIDE DEF s
<1>7. /\ s.column \in 1 .. M + 1 /\ s.next \in Nat /\ s.start \in [1 .. L + M -> Nat]
      /\ \A c \in 1 .. L + M : s.start[c] <= L + 1
      /\ s.column <= Cardinality(GapsBefore(line, s.next)) + 1
      /\ \A c \in 1 .. s.column - 1 : s.start[c] # 0
  BY <1>5 DEF Fits, SplitStates, Orderly
<1>8. s.column <= M
  <2>1. Cardinality(GapsBefore(line, s.next)) <= Cardinality(Gaps(line))
    BY <1>7, GapsAreCounted
  <2>2. Cardinality(GapsBefore(line, s.next)) \in Nat
    BY <1>7, GapsAreCounted
  <2>3. Cardinality(Gaps(line)) \in Nat
    <3>1. IsFiniteSet(1 .. L) /\ Gaps(line) \subseteq 1 .. L
      BY <1>1, FS_Interval DEF Gaps
    <3> QED
      BY <3>1, FS_Subset, FS_CardinalityType
  <2> HIDE DEF L, M
  <2>4. Cardinality(Gaps(line)) < M
    BY <1>1, <2>3 DEF M
  <2> QED
    BY <1>1, <1>7, <2>1, <2>2, <2>3, <2>4
<1>9. \A c \in 1 .. count : c \in 1 .. M /\ s.start[c] # 0
  <2>1. ColumnsOf(s) = IF s.start[s.column] # 0 THEN {s.column} ELSE {s.column - 1}
    <3>1. ~(s.column > M)
      BY <1>1, <1>7, <1>8
    <3> QED
      BY <1>8, <3>1 DEF ColumnsOf
  <2> TAKE c \in 1 .. count
  <2>2. CASE s.start[s.column] # 0
    <3>1. c \in 1 .. s.column
      BY <1>6, <2>1, <2>2
    <3>2. c = s.column \/ c \in 1 .. s.column - 1
      BY <1>7, <3>1
    <3>3. s.start[c] # 0
      BY <1>7, <2>2, <3>2
    <3> QED
      BY <1>1, <1>7, <1>8, <3>1, <3>3
  <2>3. CASE s.start[s.column] = 0
    <3>1. c \in 1 .. s.column - 1
      BY <1>6, <2>1, <2>3
    <3> QED
      BY <1>1, <1>7, <1>8, <3>1
  <2> QED
    BY <2>2, <2>3
<1>10. ASSUME NEW c \in 1 .. count PROVE ColumnIn(s, c, line) # NoColumn
  <2> DEFINE from == s.start[c]
  <2>1. c \in 1 .. L + M /\ from # 0
    BY <1>1, <1>9
  <2>2. from \in 1 .. L + 1
    BY <1>1, <1>7, <2>1
  <2>3. ColumnIn(s, c, line) = StringFrom(from, s.zeroes, line)
    BY <2>1 DEF ColumnIn
  <2> HIDE DEF from
  <2>4. PICK e \in from - 1 .. L : StringFrom(from, s.zeroes, line) = SubSeq(line, from, e)
    BY <1>1, <2>2, StringHasEnd
  <2>5. SubSeq(line, from, e) # <<"\n", "\n">>
    <3> SUFFICES ASSUME SubSeq(line, from, e) = <<"\n", "\n">> PROVE FALSE
      OBVIOUS
    <3> DEFINE t == SubSeq(line, from, e)
    <3>1. /\ Len(t) = e - from + 1
          /\ \A q \in 1 .. e - from + 1 : t[q] = line[from + q - 1]
      <4>1. line \in Seq(Range(line)) /\ e \in from - 1 .. Len(line) /\ from \in 1 .. Len(line) + 1
        BY <2>2, <2>4 DEF IsLine
      <4> HIDE DEF L
      <4> QED
        BY <4>1, SubSeqIs
    <3>2. Len(t) = 2 /\ t[1] = "\n"
      OBVIOUS
    <3> HIDE DEF t
    <3>3. e = from + 1
      <4>0. e - from + 1 = 2
        BY Zenon, <3>1, <3>2
      <4>1. e \in Int /\ from \in Int /\ e - from + 1 = 2
        BY <1>1, <2>2, <2>4, <4>0
      <4> QED
        BY <4>1
    <3>4. from \in 1 .. L - 1 /\ from + 1 - 1 = from /\ 1 \in 1 .. e - from + 1
      BY <1>1, <2>2, <2>4, <3>3
    <3>5. line[from] = "\n"
      BY <3>1, <3>2, <3>4
    <3> QED
      BY <3>4, <3>5
  <2> QED
    BY <2>3, <2>4, <2>5 DEF NoColumn
<1>11. \A c \in 1 .. count : c \in 1 .. L + M
  BY <1>1, <1>9
<1> QED
  BY <1>1, <1>6, <1>9, <1>10, <1>11

-----------------------------------------------------------------------------
(***************************************************************************)
(* Loading: what is left of the options and of the rows is their end.      *)
(***************************************************************************)
EndOf(s, t) ==
    /\ IsSeq(s) /\ Len(s) <= Len(t)
    /\ \A i \in 1 .. Len(s) : s[i] = t[Len(t) - Len(s) + i]

ArgumentsInv ==
    /\ IsSeq(given) /\ EndOf(arguments, given)
    /\ \A i \in 1 .. Len(given) : IsFile(given[i].rows)

RowsInv ==
    /\ loading \in {"header", "rows", "crashed"} => arguments # <<>>
    /\ loading \in {"header", "rows"} => EndOf(unread, Head(arguments).rows)
    /\ loading = "header" => unread # <<>> /\ Len(unread) = Len(Head(arguments).rows)
    /\ loading = "rows" =>
           /\ Len(unread) < Len(Head(arguments).rows)
           /\ columnIndex.key \in 1 .. MaxColumns /\ columnIndex.value \in 1 .. MaxColumns

ReadingInv == ArgumentsInv /\ RowsInv /\ OnlyKnownCrashes

LEMMA WholeIsEnd ==
    ASSUME NEW s, IsSeq(s)
    PROVE  EndOf(s, s) /\ Len(s) \in Nat
<1>1. Len(s) \in Nat
  BY SeqIs DEF IsSeq
<1>2. \A i \in 1 .. Len(s) : Len(s) - Len(s) + i = i
  BY <1>1
<1> QED
  BY <1>1, <1>2 DEF EndOf

LEMMA TailIsEnd ==
    ASSUME NEW t, IsSeq(t), NEW s, EndOf(s, t), s # <<>>
    PROVE  /\ EndOf(Tail(s), t)
           /\ Len(s) \in Nat \ {0} /\ Len(t) \in Nat
           /\ Len(Tail(s)) = Len(s) - 1
           /\ Len(t) - Len(s) + 1 \in 1 .. Len(t)
           /\ Head(s) = t[Len(t) - Len(s) + 1]
           /\ Head(s) \in Range(t)
<1> DEFINE n == Len(s)
           m == Len(t)
           r == Tail(s)
<1>1. n \in Nat \ {0} /\ m \in Nat /\ n <= m /\ s \in Seq(Range(s))
  <2>1. s \in Seq(Range(s)) /\ s # <<>>
    BY DEF EndOf, IsSeq
  <2>2. n \in Nat \ {0}
    BY <2>1, NotEmpty
  <2>3. m \in Nat
    BY WholeIsEnd
  <2> QED
    BY <2>1, <2>2, <2>3 DEF EndOf
<1>2. Head(s) = s[1] /\ r \in Seq(Range(s)) /\ Len(r) = n - 1 /\ \A i \in 1 .. n - 1 : r[i] = s[i + 1]
  <2>1. ASSUME NEW S, NEW x \in Seq(S), x # <<>>
        PROVE  Head(x) = x[1] /\ Tail(x) \in Seq(S) /\ Len(Tail(x)) = Len(x) - 1
               /\ \A i \in 1 .. Len(x) - 1 : Tail(x)[i] = x[i + 1]
    BY <2>1
  <2> QED
    BY <1>1, <2>1
<1>3. IsSeq(r)
  <2>1. Len(r) \in Nat /\ r = [i \in 1 .. Len(r) |-> r[i]] /\ DOMAIN r = 1 .. Len(r)
    BY <1>2, SeqIs
  <2>2. r \in [1 .. Len(r) -> Range(r)]
    <3> HIDE DEF r
    <3> QED
      BY <2>1 DEF Range
  <2>3. r \in Seq(Range(r))
    <3> HIDE DEF r
    <3> QED
      BY <2>1, <2>2, IsSeqOf
  <2> QED
    BY <2>3 DEF IsSeq
<1>4. \A i \in 1 .. n : s[i] = t[m - n + i]
  BY DEF EndOf
<1> HIDE DEF n, m, r
<1>5. \A i \in 1 .. n - 1 : r[i] = t[m - (n - 1) + i]
  <2> TAKE i \in 1 .. n - 1
  <2>1. i + 1 \in 1 .. n /\ m - n + (i + 1) = m - (n - 1) + i
    BY <1>1
  <2> QED
    BY <1>2, <1>4, <2>1
<1>6. EndOf(r, t)
  <2>1. Len(r) = n - 1 /\ n - 1 <= m
    BY <1>1, <1>2
  <2> QED
    BY <1>3, <1>5, <2>1 DEF EndOf, m
<1>7. m - n + 1 \in 1 .. m /\ Head(s) = t[m - n + 1]
  BY <1>1, <1>2, <1>4
<1>8. t[m - n + 1] \in Range(t)
  <2>1. DOMAIN t = 1 .. m
    BY SeqIs DEF IsSeq, m
  <2> QED
    BY <1>7, <2>1 DEF Range
<1> QED
  BY <1>1, <1>2, <1>6, <1>7, <1>8 DEF n, m, r

\* A file that is being read is a file.
LEMMA FileIsRead ==
    ASSUME ReadingInv, arguments # <<>>
    PROVE  LET rows == Head(arguments).rows
           IN  /\ IsFile(rows) /\ IsSeq(rows)
               /\ EndOf(unread, rows) /\ unread # <<>> =>
                      Head(unread) \in Range(rows) /\ IsRow(Head(unread))
<1> DEFINE rows == Head(arguments).rows
<1>1. Head(arguments) = given[Len(given) - Len(arguments) + 1]
      /\ Len(given) - Len(arguments) + 1 \in 1 .. Len(given)
  BY TailIsEnd DEF ReadingInv, ArgumentsInv
<1>2. IsFile(rows)
  BY <1>1 DEF ReadingInv, ArgumentsInv
<1> HIDE DEF rows
<1>3. IsSeq(rows)
  BY <1>2 DEF IsFile, IsSeq
<1>4. ASSUME EndOf(unread, rows), unread # <<>>
      PROVE  Head(unread) \in Range(rows) /\ IsRow(Head(unread))
  <2>1. Head(unread) \in Range(rows)
    BY <1>3, <1>4, TailIsEnd
  <2> QED
    BY <1>2, <2>1 DEF IsFile
<1> QED
  BY <1>2, <1>3, <1>4 DEF rows

\* If no row is one of those that end the program, all columns are there.
LEMMA KnownOrThere ==
    ASSUME ReadingInv, arguments # <<>>, EndOf(unread, Head(arguments).rows), unread # <<>>,
           NEW count \in SplitLine(LineOf(Head(unread))).count
    PROVE  \/ \E r \in Range(Head(arguments).rows) :
                  LET line == LineOf(r)
                  IN  line[1] = Space \/ "\\" \in Range(line)
                          \/ Cardinality(Gaps(line)) >= MaxColumns
           \/ \A c \in 1 .. count :
                  /\ c <= MaxColumns
                  /\ SplitLine(LineOf(Head(unread))).columns[c] # NoColumn
<1> DEFINE line == LineOf(Head(unread))
<1>1. Head(unread) \in Range(Head(arguments).rows) /\ IsRow(Head(unread))
  BY FileIsRead
<1>2. IsLine(line) /\ \A q \in 1 .. Len(line) - 1 : line[q] # "\n"
  BY <1>1, RowIsLine
<1>3. CASE line[1] = Space \/ "\\" \in Range(line) \/ Cardinality(Gaps(line)) >= MaxColumns
  BY <1>1, <1>3
<1>4. CASE ~(line[1] = Space \/ "\\" \in Range(line) \/ Cardinality(Gaps(line)) >= MaxColumns)
  <2> HIDE DEF line
  <2>1. count \in SplitLine(line).count
    BY DEF line
  <2>2. \A c \in 1 .. count : c <= MaxColumns /\ SplitLine(line).columns[c] # NoColumn
    BY <1>2, <1>4, <2>1, ColumnsAreThere
  <2> QED
    BY <2>2 DEF line
<1> QED
  BY <1>3, <1>4

-----------------------------------------------------------------------------
LEMMA InitReading == Init => ReadingInv
<1> SUFFICES ASSUME Init PROVE ReadingInv
  OBVIOUS
<1>1. PICK input \in Inputs : LoadInit(input.options)
  BY DEF Init
<1>2. given = input.options /\ arguments = input.options /\ loading = "options"
  BY <1>1 DEF LoadInit
<1>3. given \in Seq(Range(given)) /\ \A option \in Range(given) : IsFile(option.rows)
  BY <1>2, InputsAssumption
<1>4. IsSeq(given) /\ EndOf(arguments, given)
  BY <1>2, <1>3, WholeIsEnd DEF IsSeq
<1>5. \A i \in 1 .. Len(given) : given[i] \in Range(given)
  <2>1. DOMAIN given = 1 .. Len(given)
    BY <1>3, SeqIs
  <2> QED
    BY <2>1 DEF Range
<1>6. \A i \in 1 .. Len(given) : IsFile(given[i].rows)
  BY <1>3, <1>5
<1> QED
  BY <1>2, <1>4, <1>6 DEF ReadingInv, ArgumentsInv, RowsInv, OnlyKnownCrashes

LEMMA OpenFileReads ==
    ASSUME ReadingInv, OpenFile
    PROVE  ReadingInv'
<1>1. /\ loading = "options" /\ arguments # <<>> /\ given' = given
      /\ unread' = Head(arguments).rows
  BY DEF OpenFile
<1>2. CASE unread' = <<>>
  <2>1. arguments' = Tail(arguments) /\ loading' = loading
    BY <1>2 DEF OpenFile
  <2>2. EndOf(arguments', given)
    BY <1>1, <2>1, TailIsEnd DEF ReadingInv, ArgumentsInv
  <2> QED
    BY <1>1, <2>1, <2>2 DEF ReadingInv, ArgumentsInv, RowsInv, OnlyKnownCrashes
<1>3. CASE unread' # <<>>
  <2>1. loading' = "header" /\ arguments' = arguments
    BY <1>3 DEF OpenFile
  <2>2. IsSeq(Head(arguments).rows)
    BY <1>1, FileIsRead
  <2>3. EndOf(Head(arguments).rows, Head(arguments).rows)
    BY <2>2, WholeIsEnd
  <2>4. RowsInv' /\ OnlyKnownCrashes'
    BY <1>1, <1>3, <2>1, <2>3 DEF RowsInv, OnlyKnownCrashes
  <2> QED
    BY <1>1, <2>1, <2>4 DEF ReadingInv, ArgumentsInv
<1> QED
  BY <1>2, <1>3

\* A step that only reads a row, and may end the program
LEMMA RowIsRead ==
    ASSUME ReadingInv, loading \in {"header", "rows"}, unread # <<>>,
           unread' = Tail(unread), given' = given, arguments' = arguments,
           loading' \in {"rows", "failed", "crashed"},
           loading' = "rows" => columnIndex'.key \in 1 .. MaxColumns
                                    /\ columnIndex'.value \in 1 .. MaxColumns,
           loading' = "crashed" =>
               \E count \in SplitLine(LineOf(Head(unread))).count : \E c \in 1 .. count :
                   c > MaxColumns \/ SplitLine(LineOf(Head(unread))).columns[c] = NoColumn
    PROVE  ReadingInv'
<1> DEFINE rows == Head(arguments).rows
<1>1. arguments # <<>> /\ EndOf(unread, rows)
  BY DEF ReadingInv, RowsInv
<1>2. IsSeq(rows)
  BY <1>1, FileIsRead
<1>3. /\ EndOf(Tail(unread), rows) /\ Len(unread) \in Nat \ {0} /\ Len(rows) \in Nat
      /\ Len(Tail(unread)) = Len(unread) - 1 /\ Len(unread) <= Len(rows)
  <2> HIDE DEF rows
  <2>1. Len(unread) <= Len(rows)
    BY <1>1 DEF EndOf
  <2> QED
    BY <1>1, <1>2, <2>1, TailIsEnd
<1>4. Len(Tail(unread)) < Len(rows)
  BY <1>3
<1>5. RowsInv'
  BY <1>1, <1>3, <1>4 DEF RowsInv
<1>6. ArgumentsInv'
  BY DEF ReadingInv, ArgumentsInv
<1>7. OnlyKnownCrashes'
  <2> SUFFICES ASSUME loading' = "crashed"
               PROVE  \E r \in Range(rows) :
                          LET line == LineOf(r)
                          IN  line[1] = Space \/ "\\" \in Range(line)
                                  \/ Cardinality(Gaps(line)) >= MaxColumns
    BY DEF OnlyKnownCrashes
  <2>1. PICK count \in SplitLine(LineOf(Head(unread))).count : \E c \in 1 .. count :
                   c > MaxColumns \/ SplitLine(LineOf(Head(unread))).columns[c] = NoColumn
    OBVIOUS
  <2>2. \/ \E r \in Range(rows) :
                  LET line == LineOf(r)
                  IN  line[1] = Space \/ "\\" \in Range(line)
                          \/ Cardinality(Gaps(line)) >= MaxColumns
        \/ \A c \in 1 .. count :
                  /\ c <= MaxColumns
                  /\ SplitLine(LineOf(Head(unread))).columns[c] # NoColumn
    BY <1>1, KnownOrThere
  <2>3. \A c \in 1 .. count : c <= MaxColumns => ~(c > MaxColumns)
    BY MaxColumnsAssumption
  <2> QED
    BY <2>1, <2>2, <2>3
<1> QED
  BY <1>5, <1>6, <1>7 DEF ReadingInv

LEMMA ReadHeaderReads ==
    ASSUME ReadingInv, ReadHeader
    PROVE  ReadingInv'
<1> DEFINE argument == Head(arguments)
           split == SplitLine(LineOf(Head(unread)))
<1>1. /\ loading = "header" /\ unread # <<>> /\ unread' = Tail(unread)
      /\ given' = given /\ arguments' = arguments
  BY DEF ReadHeader, ReadingInv, RowsInv
<1>2. PICK count \in split.count :
        LET keys     == Named(split, count, argument.key) \cap 1 .. MaxColumns
            values   == Named(split, count, argument.value) \cap 1 .. MaxColumns
            compared == Compared(count, keys, values)
        IN  \/ /\ \E c \in compared : c > MaxColumns \/ split.columns[c] = NoColumn
               /\ loading' = "crashed"
            \/ loading' = "failed"
            \/ /\ keys # {} /\ values # {}
               /\ loading' = "rows"
               /\ columnIndex' = [key |-> FirstOf(keys), value |-> FirstOf(values)]
  BY Zenon DEF ReadHeader, GiveUp
<1> DEFINE keys     == Named(split, count, argument.key) \cap 1 .. MaxColumns
           values   == Named(split, count, argument.value) \cap 1 .. MaxColumns
           compared == Compared(count, keys, values)
<1>3. compared \subseteq 1 .. count
  BY DEF Compared
<1>4. CASE loading' = "rows"
  <2>1. /\ keys # {} /\ values # {}
        /\ columnIndex' = [key |-> FirstOf(keys), value |-> FirstOf(values)]
    BY <1>2, <1>4
  <2>2. keys \in SUBSET (1 .. MaxColumns) /\ values \in SUBSET (1 .. MaxColumns)
    OBVIOUS
  <2> HIDE DEF keys, values
  <2>3. FirstOf(keys) \in keys /\ FirstOf(values) \in values
    <3>1. keys \in SUBSET Nat /\ values \in SUBSET Nat
      BY <2>2, MaxColumnsAssumption
    <3> QED
      BY <2>1, <3>1, FirstOfIsLeast
  <2>4. columnIndex'.key \in 1 .. MaxColumns /\ columnIndex'.value \in 1 .. MaxColumns
    BY <2>1, <2>2, <2>3
  <2> QED
    BY <1>1, <1>4, <2>4, RowIsRead
<1>5. CASE loading' = "failed"
  BY <1>1, <1>5, RowIsRead
<1>6. CASE loading' = "crashed"
  <2>1. PICK c \in compared : c > MaxColumns \/ split.columns[c] = NoColumn
    BY <1>2, <1>6
  <2>2. c \in 1 .. count
    BY <1>3
  <2> QED
    BY <1>1, <1>6, <2>1, <2>2, RowIsRead
<1> QED
  BY <1>2, <1>4, <1>5, <1>6

LEMMA ReadRowReads ==
    ASSUME ReadingInv, ReadRow
    PROVE  ReadingInv'
<1> DEFINE line  == LineOf(Head(unread))
           split == SplitLine(line)
<1>1. /\ loading = "rows" /\ unread # <<>> /\ unread' = Tail(unread)
      /\ given' = given /\ arguments' = arguments /\ columnIndex' = columnIndex
      /\ columnIndex.key \in 1 .. MaxColumns /\ columnIndex.value \in 1 .. MaxColumns
  BY DEF ReadRow, GiveUp, ReadingInv, RowsInv
<1>2. PICK count \in split.count :
          \/ loading' = loading
          \/ /\ IsUsed(line, count)
             /\ NoColumn \in {split.columns[columnIndex.key], split.columns[columnIndex.value]}
             /\ loading' = "crashed"
  BY DEF ReadRow, GiveUp
<1>3. CASE loading' = loading
  BY <1>1, <1>3, RowIsRead
<1>4. CASE loading' = "crashed"
  <2>1. PICK c \in {columnIndex.key, columnIndex.value} : split.columns[c] = NoColumn
    BY <1>1, <1>2, <1>4
  <2>2. c \in 1 .. count
    <3>1. count = ColumnsToProcess(columnIndex)
      BY <1>1, <1>2, <1>4 DEF IsUsed
    <3> QED
      BY <1>1, <3>1, MaxColumnsAssumption DEF ColumnsToProcess
  <2> QED
    BY <1>1, <1>4, <2>1, <2>2, RowIsRead
<1> QED
  BY <1>2, <1>3, <1>4

LEMMA LoadReads ==
    ASSUME ReadingInv, [Next]_vars
    PROVE  ReadingInv'
<1>1. CASE FileFails
  BY <1>1 DEF FileFails, ReadingInv, ArgumentsInv, RowsInv, OnlyKnownCrashes
<1>2. CASE EndOfFile
  <2>1. EndOf(Tail(arguments), given)
    BY <1>2, TailIsEnd DEF EndOfFile, ReadingInv, ArgumentsInv, RowsInv
  <2> QED
    BY <1>2, <2>1 DEF EndOfFile, ReadingInv, ArgumentsInv, RowsInv, OnlyKnownCrashes
<1>3. CASE EndOfOptions
  BY <1>3 DEF EndOfOptions, ReadingInv, ArgumentsInv, RowsInv, OnlyKnownCrashes
<1>4. CASE UNCHANGED loadVars
  BY <1>4 DEF loadVars, ReadingInv, ArgumentsInv, RowsInv, OnlyKnownCrashes
<1> QED
  BY <1>1, <1>2, <1>3, <1>4, OpenFileReads, ReadHeaderReads, ReadRowReads
     DEF Next, LoadMappings, Load, BeginExport, SkipComment, ApplyTemplate,
         NoSuchMapping, EndExport, Finished, vars

(***************************************************************************)
(* The program does not read a null pointer or behind the array while it   *)
(* loads mappings, but for the lines that OnlyKnownCrashes names.          *)
(***************************************************************************)
THEOREM CrashesAreKnown == Spec => []OnlyKnownCrashes
<1>1. Spec => []ReadingInv
  BY InitReading, LoadReads, PTL DEF Spec
<1>2. ReadingInv => OnlyKnownCrashes
  BY DEF ReadingInv
<1> QED
  BY <1>1, <1>2, PTL

-----------------------------------------------------------------------------
(***************************************************************************)
(* A line as its author laid it out: column k begins at w.p[k] and ends    *)
(* in front of w.e[k]; up to the next one, there are gaps.                 *)
(***************************************************************************)
PlainAt(w, line, k) ==
    \A q \in w.p[k] .. w.e[k] - 1 : line[q] \notin {Space, Quote, "\\", "\n"}

QuotedAt(w, line, k) ==
    /\ w.p[k] + 3 <= w.e[k] /\ line[w.p[k]] = Quote /\ line[w.e[k] - 1] = Quote
    /\ \A q \in w.p[k] + 1 .. w.e[k] - 2 : line[q] \notin {Quote, "\\", "\n"}

IsLaid(w, line) ==
    /\ IsLine(line)
    /\ w.n \in Nat \ {0}
    /\ w.p \in [1 .. w.n + 1 -> 1 .. Len(line) + 1] /\ w.e \in [1 .. w.n -> 1 .. Len(line) + 1]
    /\ w.quoted \in [1 .. w.n -> BOOLEAN]
    /\ w.p[1] = 1 /\ w.p[w.n + 1] = Len(line) + 1
    /\ \A k \in 1 .. w.n :
        /\ w.p[k] < w.e[k] /\ w.e[k] <= w.p[k + 1]
        /\ IF w.quoted[k] THEN QuotedAt(w, line, k) ELSE PlainAt(w, line, k)
        /\ k < w.n => w.e[k] < w.p[k + 1] /\ \A q \in w.e[k] .. w.p[k + 1] - 1 : line[q] = Space
    /\ \A q \in w.e[w.n] .. Len(line) : line[q] = Space \/ (line[q] = "\n" /\ q = Len(line))
    /\ w.e[w.n] = Len(line) + 1 => ~w.quoted[w.n]
    /\ \A j, k \in 1 .. w.n : j < k => w.e[j] < w.p[k]

TextFrom(w, k) == IF w.quoted[k] THEN w.p[k] + 1 ELSE w.p[k]
TextTo(w, k)   == IF w.quoted[k] THEN w.e[k] - 2 ELSE w.e[k] - 1

\* The zeroes that end the first k columns
EndsUpTo(w, k) ==
    {w.e[j] : j \in 1 .. k} \cup {w.e[j] - 1 : j \in {i \in 1 .. k : w.quoted[i]}}

(***************************************************************************)
(* Where splitLine() is in such a line: in front of a column, in it, or    *)
(* behind the last one.                                                    *)
(***************************************************************************)
StartedUpTo(s, w, line, k) ==
    /\ s.escaped = FALSE
    /\ \A c \in 1 .. k : s.start[c] = TextFrom(w, c)
    /\ \A c \in k + 1 .. Len(line) + MaxColumns : s.start[c] = 0

InFront(s, w, line, k) ==
    /\ s.column = k /\ s.next = w.p[k] /\ s.quoted = FALSE
    /\ StartedUpTo(s, w, line, k - 1) /\ s.zeroes = EndsUpTo(w, k - 1)

Inside(s, w, line, k) ==
    /\ s.column = k /\ w.p[k] < s.next /\ s.next <= w.e[k]
    /\ s.quoted = (w.quoted[k] /\ s.next < w.e[k])
    /\ StartedUpTo(s, w, line, k) /\ s.zeroes = EndsUpTo(w, k - 1)

Behind(s, w, line) ==
    /\ s.column \in {w.n, w.n + 1} /\ s.next > Len(line)
    /\ StartedUpTo(s, w, line, w.n) /\ s.zeroes = EndsUpTo(w, w.n)

IsWhere(s, w, line) ==
    \/ \E k \in 1 .. w.n : InFront(s, w, line, k) \/ Inside(s, w, line, k)
    \/ Behind(s, w, line)

LEMMA LaidIs ==
    ASSUME NEW line, NEW w, IsLaid(w, line), NEW k \in 1 .. w.n
    PROVE  /\ Len(line) \in Nat \ {0} /\ w.n \in Nat \ {0}
           /\ w.p[k] \in 1 .. Len(line) /\ w.e[k] \in 1 .. Len(line) + 1
           /\ w.p[k] < w.e[k] /\ w.quoted[k] \in BOOLEAN
           /\ w.p[k + 1] \in 1 .. Len(line) + 1 /\ w.e[k] <= w.p[k + 1]
<1>1. Len(line) \in Nat \ {0} /\ w.n \in Nat \ {0}
  BY LineIs DEF IsLaid
<1>2. k \in 1 .. w.n + 1 /\ k + 1 \in 1 .. w.n + 1
  BY <1>1
<1>3. /\ w.p[k] \in 1 .. Len(line) + 1 /\ w.e[k] \in 1 .. Len(line) + 1
      /\ w.p[k + 1] \in 1 .. Len(line) + 1
      /\ w.p[k] < w.e[k] /\ w.quoted[k] \in BOOLEAN /\ w.e[k] <= w.p[k + 1]
  BY <1>2 DEF IsLaid
<1>4. w.p[k] \in 1 .. Len(line)
  BY <1>1, <1>3
<1> QED
  BY <1>1, <1>3, <1>4

\* The zeroes at the end of a column
LEMMA OneMoreEnd ==
    ASSUME NEW line, NEW w, IsLaid(w, line), NEW k \in 1 .. w.n, w.e[k] <= Len(line)
    PROVE  EndsUpTo(w, k - 1) \cup ZeroesAt(line, w.e[k]) = EndsUpTo(w, k)
<1>1. /\ w.p[k] \in 1 .. Len(line) /\ w.e[k] \in 1 .. Len(line) + 1 /\ w.p[k] < w.e[k]
      /\ w.quoted[k] \in BOOLEAN /\ w.n \in Nat
  BY LaidIs
<1>2. w.e[k] > 1 /\ w.e[k] - 1 \in w.p[k] .. w.e[k] - 1
  BY <1>1
<1>3. line[w.e[k] - 1] = Quote <=> w.quoted[k]
  <2>1. CASE w.quoted[k]
    BY <2>1 DEF IsLaid, QuotedAt
  <2>2. CASE ~w.quoted[k]
    <3>1. PlainAt(w, line, k)
      BY <2>2 DEF IsLaid
    <3>2. line[w.e[k] - 1] \notin {Space, Quote, "\\", "\n"}
      BY <1>2, <3>1 DEF PlainAt
    <3> QED
      BY <2>2, <3>2
  <2> QED
    BY <2>1, <2>2
<1>4. ZeroesAt(line, w.e[k]) = {w.e[k]} \cup IF w.quoted[k] THEN {w.e[k] - 1} ELSE {}
  BY <1>2, <1>3 DEF ZeroesAt
<1>5. 1 .. k = (1 .. k - 1) \cup {k}
  BY <1>1
<1>6. {w.e[j] : j \in 1 .. k} = {w.e[j] : j \in 1 .. k - 1} \cup {w.e[k]}
  BY <1>5
<1>7. {w.e[j] - 1 : j \in {i \in 1 .. k : w.quoted[i]}} =
          {w.e[j] - 1 : j \in {i \in 1 .. k - 1 : w.quoted[i]}}
              \cup IF w.quoted[k] THEN {w.e[k] - 1} ELSE {}
  BY <1>5
<1> QED
  BY <1>4, <1>6, <1>7 DEF EndsUpTo

LEMMA FromTheFront ==
    ASSUME NEW line, NEW w, IsLaid(w, line), w.n < MaxColumns, NEW k \in 1 .. w.n,
           NEW i \in 1 .. Len(line), NEW s, Fits(s, i - 1, line), s.next = i,
           InFront(s, w, line, k)
    PROVE  Inside(Turn(s, i, line), w, line, k)
<1> DEFINE r == Turn(s, i, line)
           L == Len(line)
           M == MaxColumns
<1>1. IsLine(line) /\ \/ SkipsEscaped(s, r) \/ Escapes(s, r, line) \/ Starts(s, r, line)
                      \/ Finishes(s, r, line) \/ GoesOn(s, r, line)
  <2>1. IsLine(line)
    BY DEF IsLaid
  <2> QED
    BY <2>1, TurnCases
<1>2. /\ w.p[k] \in 1 .. L /\ w.e[k] \in 1 .. L + 1 /\ w.p[k] < w.e[k]
      /\ w.quoted[k] \in BOOLEAN /\ w.n \in Nat /\ L \in Nat \ {0} /\ M \in Nat \ {0}
  BY LaidIs, MaxColumnsAssumption
<1> HIDE DEF r
<1>3. /\ i = w.p[k] /\ s.column = k /\ s.quoted = FALSE /\ s.escaped = FALSE
      /\ \A c \in 1 .. k - 1 : s.start[c] = TextFrom(w, c)
      /\ \A c \in k .. L + M : s.start[c] = 0
      /\ s.zeroes = EndsUpTo(w, k - 1)
  <2>1. k - 1 + 1 = k
    BY <1>2
  <2> QED
    BY <2>1 DEF InFront, StartedUpTo
<1>4. k \in 1 .. L + M /\ k \in k .. L + M
  BY <1>2
<1>5. line[i] \notin {Space, "\\", "\n"} /\ (line[i] = Quote <=> w.quoted[k])
  <2>1. CASE w.quoted[k]
    <3>1. line[i] = Quote
      BY <1>3, <2>1 DEF IsLaid, QuotedAt
    <3> QED
      BY <2>1, <3>1, QuoteIsNoOther
  <2>2. CASE ~w.quoted[k]
    <3>1. PlainAt(w, line, k)
      BY <2>2 DEF IsLaid
    <3>2. i \in w.p[k] .. w.e[k] - 1
      BY <1>2, <1>3
    <3> QED
      BY <2>2, <3>1, <3>2 DEF PlainAt
  <2> QED
    BY <2>1, <2>2
<1>6. Starts(s, r, line)
  <2>1. ~SkipsEscaped(s, r) /\ ~Escapes(s, r, line) /\ ~Finishes(s, r, line)
    BY <1>3, <1>5 DEF SkipsEscaped, Escapes, Finishes
  <2>2. ~GoesOn(s, r, line)
    <3>1. s.start[s.column] = 0
      BY <1>3, <1>4
    <3> QED
      BY <1>3, <1>5, <3>1 DEF GoesOn
  <2> QED
    BY <1>1, <2>1, <2>2
<1>7. /\ r.escaped = FALSE /\ r.column = k /\ r.zeroes = EndsUpTo(w, k - 1)
      /\ r.quoted = IF line[i] = Quote THEN ~s.quoted ELSE s.quoted
      /\ r.next = IF w.quoted[k] THEN i + 2 ELSE i + 1
      /\ r.start = [s.start EXCEPT ![k] = TextFrom(w, k)]
  <2>1. /\ r.escaped = FALSE /\ r.column = s.column /\ r.zeroes = ZeroesAfter(s, line)
        /\ r.quoted = QuotedAfter(s, line)
        /\ r.next = IF line[s.next] = Quote THEN s.next + 2 ELSE s.next + 1
        /\ r.start = [s.start EXCEPT ![s.column] =
                          IF line[s.next] = Quote THEN s.next + 1 ELSE s.next]
    BY <1>6 DEF Starts
  <2>2. ZeroesAfter(s, line) = s.zeroes
    BY <1>5 DEF ZeroesAfter
  <2>3. (IF line[s.next] = Quote THEN s.next + 1 ELSE s.next) = TextFrom(w, k)
    BY <1>3, <1>5 DEF TextFrom
  <2> QED
    BY <1>3, <1>5, <2>1, <2>2, <2>3 DEF QuotedAfter
<1>8. s.start \in [1 .. L + M -> Nat]
  BY DEF Fits, SplitStates
<1>9. StartedUpTo(r, w, line, k)
  <2> HIDE DEF L, M
  <2>1. \A c \in 1 .. L + M : r.start[c] = IF c = k THEN TextFrom(w, k) ELSE s.start[c]
    BY <1>7, <1>8
  <2>2. ASSUME NEW c \in 1 .. k PROVE r.start[c] = TextFrom(w, c)
    <3>1. c \in 1 .. L + M /\ (c = k \/ c \in 1 .. k - 1)
      BY <1>4, <1>2
    <3> QED
      BY <1>3, <2>1, <3>1
  <2>3. ASSUME NEW c \in k + 1 .. L + M PROVE r.start[c] = 0
    <3>1. c \in 1 .. L + M /\ c # k /\ c \in k .. L + M
      BY <1>4, <1>2
    <3> QED
      BY <1>3, <2>1, <3>1
  <2> QED
    BY <1>7, <2>2, <2>3 DEF StartedUpTo, L, M
<1>10. CASE w.quoted[k]
  <2>1. w.p[k] + 3 <= w.e[k]
    BY <1>10 DEF IsLaid, QuotedAt
  <2>2. r.next = i + 2 /\ r.next < w.e[k] /\ w.p[k] < r.next
    BY <1>2, <1>3, <1>7, <1>10, <2>1, SMTT(20)
  <2>3. r.quoted = TRUE
    BY <1>3, <1>5, <1>7, <1>10
  <2>4. r.next <= w.e[k]
    BY <1>2, <1>3, <2>2
  <2>4a. w.quoted[k] = TRUE
    BY Zenon, <1>2, <1>10
  <2>4b. r.quoted = (w.quoted[k] /\ r.next < w.e[k])
    BY <2>2, <2>3, <2>4a
  <2>5. Inside(r, w, line, k)
    BY <1>7, <1>9, <2>2, <2>4, <2>4b DEF Inside
  <2> QED
    BY <2>5 DEF r
<1>11. CASE ~w.quoted[k]
  <2>1. r.next = i + 1 /\ r.next <= w.e[k] /\ w.p[k] < r.next
    BY <1>2, <1>3, <1>7, <1>11
  <2>2. r.quoted = FALSE
    BY <1>3, <1>5, <1>7, <1>11
  <2>3. r.quoted = (w.quoted[k] /\ r.next < w.e[k])
    BY <1>11, <2>2
  <2>4. Inside(r, w, line, k)
    BY <1>7, <1>9, <2>1, <2>3 DEF Inside
  <2> QED
    BY <2>4 DEF r
<1> QED
  BY <1>10, <1>11

\* Inside of a column, nothing happens.
LEMMA OnInside ==
    ASSUME NEW line, NEW w, IsLaid(w, line), w.n < MaxColumns, NEW k \in 1 .. w.n,
           NEW i \in 1 .. Len(line), NEW s, Fits(s, i - 1, line), s.next = i,
           Inside(s, w, line, k), i < w.e[k]
    PROVE  Inside(Turn(s, i, line), w, line, k)
<1> DEFINE r == Turn(s, i, line)
           L == Len(line)
           M == MaxColumns
<1>1. IsLine(line) /\ \/ SkipsEscaped(s, r) \/ Escapes(s, r, line) \/ Starts(s, r, line)
                      \/ Finishes(s, r, line) \/ GoesOn(s, r, line)
  <2>1. IsLine(line)
    BY DEF IsLaid
  <2> QED
    BY <2>1, TurnCases
<1>2. /\ w.p[k] \in 1 .. L /\ w.e[k] \in 1 .. L + 1 /\ w.p[k] < w.e[k]
      /\ w.quoted[k] \in BOOLEAN /\ w.n \in Nat /\ L \in Nat \ {0} /\ M \in Nat \ {0}
  BY LaidIs, MaxColumnsAssumption
<1> HIDE DEF r
<1>3. /\ w.p[k] < i /\ s.column = k /\ s.escaped = FALSE
      /\ s.quoted = (w.quoted[k] /\ i < w.e[k])
      /\ s.start[k] = TextFrom(w, k)
      /\ StartedUpTo(s, w, line, k) /\ s.zeroes = EndsUpTo(w, k - 1)
  BY <1>2 DEF Inside, StartedUpTo
<1>4. s.quoted = w.quoted[k]
  <2>1. (i < w.e[k]) = TRUE
    OBVIOUS
  <2>2. CASE w.quoted[k]
    BY <1>3, <2>1, <2>2, Zenon
  <2>3. CASE ~w.quoted[k]
    <3>1. w.quoted[k] = FALSE
      BY <1>2, <2>3
    <3> QED
      BY <1>3, <3>1, Zenon
  <2> QED
    BY <2>2, <2>3
<1>5. s.start[k] # 0
  BY <1>2, <1>3 DEF TextFrom
<1>6. /\ line[i] \notin {"\\", "\n"}
      /\ ~w.quoted[k] => line[i] \notin {Space, Quote}
      /\ w.quoted[k] => (line[i] = Quote <=> i = w.e[k] - 1)
  <2>1. CASE w.quoted[k]
    <3>1. QuotedAt(w, line, k)
      BY <2>1 DEF IsLaid
    <3>2. CASE i = w.e[k] - 1
      BY <2>1, <3>1, <3>2, QuoteIsNoOther DEF QuotedAt
    <3>3. CASE i # w.e[k] - 1
      <4>1. i \in w.p[k] + 1 .. w.e[k] - 2
        BY <1>2, <1>3, <3>3, SMTT(20)
      <4> QED
        BY <2>1, <3>1, <3>3, <4>1 DEF QuotedAt
    <3> QED
      BY <3>2, <3>3
  <2>2. CASE ~w.quoted[k]
    <3>1. PlainAt(w, line, k)
      BY <2>2 DEF IsLaid
    <3>2. i \in w.p[k] .. w.e[k] - 1
      BY <1>2, <1>3
    <3> QED
      BY <2>2, <3>1, <3>2 DEF PlainAt
  <2> QED
    BY <2>1, <2>2
<1>7. GoesOn(s, r, line)
  <2>1. ~SkipsEscaped(s, r) /\ ~Escapes(s, r, line)
    BY <1>3, <1>6 DEF SkipsEscaped, Escapes
  <2>2. ~Starts(s, r, line)
    BY <1>3, <1>5 DEF Starts
  <2>3. ~Finishes(s, r, line)
    BY <1>4, <1>6 DEF Finishes
  <2> QED
    BY <1>1, <2>1, <2>2, <2>3
<1>8. /\ r.escaped = FALSE /\ r.quoted = QuotedAfter(s, line) /\ r.column = k
      /\ r.zeroes = s.zeroes /\ r.next = i + 1 /\ r.start = s.start
  <2>1. ZeroesAfter(s, line) = s.zeroes
    BY <1>6 DEF ZeroesAfter
  <2> QED
    BY <1>3, <1>7, <2>1 DEF GoesOn
<1>9. r.quoted = (w.quoted[k] /\ r.next < w.e[k])
  <2>1. CASE ~w.quoted[k]
    <3>1. s.quoted = FALSE /\ QuotedAfter(s, line) = s.quoted
      BY <1>3, <1>6, <2>1 DEF QuotedAfter
    <3> QED
      BY <1>8, <2>1, <3>1
  <2>2. CASE w.quoted[k] /\ i = w.e[k] - 1
    <3>1. QuotedAfter(s, line) = FALSE
      <4>1. s.quoted = TRUE /\ line[i] = Quote
        BY <1>3, <1>4, <1>6, <2>2
      <4> QED
        BY <4>1 DEF QuotedAfter
    <3>2. ~(r.next < w.e[k])
      BY <1>2, <1>8, <2>2
    <3> QED
      BY <1>8, <3>1, <3>2
  <2>3. CASE w.quoted[k] /\ i # w.e[k] - 1
    <3>1. QuotedAfter(s, line) = TRUE
      <4>1. s.quoted = TRUE /\ line[i] # Quote
        BY <1>3, <1>4, <1>6, <2>3
      <4> QED
        BY <4>1 DEF QuotedAfter
    <3>2. r.next < w.e[k]
      BY <1>2, <1>8, <2>3
    <3>3. w.quoted[k] = TRUE
      BY Zenon, <1>2, <2>3
    <3> QED
      BY <1>8, <3>1, <3>2, <3>3
  <2> QED
    BY <2>1, <2>2, <2>3
<1>10. w.p[k] < r.next /\ r.next <= w.e[k]
  BY <1>2, <1>3, <1>8
<1>11. StartedUpTo(r, w, line, k)
  BY <1>3, <1>8 DEF StartedUpTo
<1>12. Inside(r, w, line, k)
  BY <1>3, <1>8, <1>9, <1>10, <1>11 DEF Inside
<1> QED
  BY <1>12 DEF r

\* At its end, splitLine() goes on to the next one.
LEMMA ToTheNext ==
    ASSUME NEW line, NEW w, IsLaid(w, line), w.n < MaxColumns, NEW k \in 1 .. w.n,
           NEW i \in 1 .. Len(line), NEW s, Fits(s, i - 1, line), s.next = i,
           Inside(s, w, line, k), ~(i < w.e[k])
    PROVE  IsWhere(Turn(s, i, line), w, line)
<1> DEFINE r == Turn(s, i, line)
           L == Len(line)
           M == MaxColumns
<1>1. IsLine(line) /\ \/ SkipsEscaped(s, r) \/ Escapes(s, r, line) \/ Starts(s, r, line)
                      \/ Finishes(s, r, line) \/ GoesOn(s, r, line)
  <2>1. IsLine(line)
    BY DEF IsLaid
  <2> QED
    BY <2>1, TurnCases
<1>2. /\ w.p[k] \in 1 .. L /\ w.e[k] \in 1 .. L + 1 /\ w.p[k] < w.e[k]
      /\ w.quoted[k] \in BOOLEAN /\ w.n \in Nat \ {0} /\ L \in Nat \ {0} /\ M \in Nat \ {0}
      /\ w.p[k + 1] \in 1 .. L + 1 /\ w.e[k] <= w.p[k + 1]
  BY LaidIs, MaxColumnsAssumption
<1> HIDE DEF r
<1>3. /\ s.column = k /\ s.escaped = FALSE /\ i = w.e[k] /\ s.quoted = FALSE
      /\ s.start[k] = TextFrom(w, k)
      /\ StartedUpTo(s, w, line, k) /\ s.zeroes = EndsUpTo(w, k - 1)
  <2>1. /\ s.column = k /\ s.escaped = FALSE /\ i <= w.e[k]
        /\ s.quoted = (w.quoted[k] /\ i < w.e[k])
        /\ s.start[k] = TextFrom(w, k)
        /\ StartedUpTo(s, w, line, k) /\ s.zeroes = EndsUpTo(w, k - 1)
    BY <1>2 DEF Inside, StartedUpTo
  <2>2. i = w.e[k]
    BY <1>2, <2>1
  <2> QED
    BY <2>1, <2>2
<1>4. s.start[k] # 0
  BY <1>2, <1>3 DEF TextFrom
<1>5. EndsUpTo(w, k - 1) \cup ZeroesAt(line, i) = EndsUpTo(w, k)
  BY <1>2, <1>3, OneMoreEnd
<1>6. /\ line[i] = Space \/ line[i] = "\n"
      /\ line[i] = "\n" => k = w.n /\ i = L
  <2>1. CASE k < w.n
    <3>1. w.e[k] < w.p[k + 1] /\ \A q \in w.e[k] .. w.p[k + 1] - 1 : line[q] = Space
      BY <2>1 DEF IsLaid
    <3>2. i \in w.e[k] .. w.p[k + 1] - 1
      BY <1>2, <1>3, <3>1
    <3> QED
      BY <3>1, <3>2, QuoteIsNoOther
  <2>2. CASE k = w.n
    <3>1. i \in w.e[w.n] .. L
      BY <1>3, <2>2
    <3> QED
      BY <2>2, <3>1, QuoteIsNoOther DEF IsLaid
  <2> QED
    BY <1>2, <2>1, <2>2
<1>7. line[i] # "\\" /\ line[i] # Quote
  BY <1>6, QuoteIsNoOther
<1>8. CASE line[i] = "\n"
  <2>1. GoesOn(s, r, line)
    <3>1. ~SkipsEscaped(s, r) /\ ~Escapes(s, r, line)
      BY <1>3, <1>7 DEF SkipsEscaped, Escapes
    <3>2. ~Starts(s, r, line)
      BY <1>3, <1>4 DEF Starts
    <3>3. ~Finishes(s, r, line)
      BY <1>8, QuoteIsNoOther DEF Finishes
    <3> QED
      BY <1>1, <3>1, <3>2, <3>3
  <2>2. /\ r.escaped = FALSE /\ r.column = w.n /\ r.next = i + 1 /\ r.start = s.start
        /\ r.zeroes = EndsUpTo(w, w.n)
    <3>1. ZeroesAfter(s, line) = EndsUpTo(w, k)
      BY <1>3, <1>5, <1>8 DEF ZeroesAfter
    <3>2. k = w.n
      BY <1>6, <1>8
    <3> QED
      BY <1>3, <2>1, <3>1, <3>2 DEF GoesOn
  <2>3. r.next > L
    BY <1>2, <1>6, <1>8, <2>2
  <2>4. StartedUpTo(r, w, line, w.n)
    BY <1>3, <1>6, <1>8, <2>2 DEF StartedUpTo
  <2>5. Behind(r, w, line)
    BY <2>2, <2>3, <2>4 DEF Behind
  <2> QED
    BY <2>5 DEF IsWhere, r
<1>9. CASE line[i] = Space
  <2>1. Finishes(s, r, line)
    <3>1. ~SkipsEscaped(s, r) /\ ~Escapes(s, r, line)
      BY <1>3, <1>7 DEF SkipsEscaped, Escapes
    <3>2. ~Starts(s, r, line)
      BY <1>3, <1>4 DEF Starts
    <3>3. ~GoesOn(s, r, line)
      BY <1>3, <1>9 DEF GoesOn
    <3> QED
      BY <1>1, <3>1, <3>2, <3>3
  <2>2. /\ r.escaped = FALSE /\ r.quoted = FALSE /\ r.column = k + 1 /\ r.start = s.start
        /\ r.zeroes = EndsUpTo(w, k) /\ r.next = AfterDelimiters(line, i + 1)
    <3>1. k # M
      BY <1>2
    <3> QED
      BY <1>3, <1>5, <2>1, <3>1 DEF Finishes
  <2>3. StartedUpTo(r, w, line, k)
    BY <1>3, <2>2 DEF StartedUpTo
  <2>4. CASE k < w.n
    <3>1. w.e[k] < w.p[k + 1] /\ \A q \in w.e[k] .. w.p[k + 1] - 1 : line[q] = Space
      BY <2>4 DEF IsLaid
    <3>2. k + 1 \in 1 .. w.n
      BY <1>2, <2>4
    <3>3. w.p[k + 1] \in 1 .. L /\ w.p[k + 1] < w.e[k + 1] /\ w.e[k + 1] \in Nat
      BY <3>2, LaidIs
    <3>4. ~IsDelimiter(line[w.p[k + 1]])
      <4>1. CASE w.quoted[k + 1]
        <5>1. line[w.p[k + 1]] = Quote
          BY <3>2, <4>1 DEF IsLaid, QuotedAt
        <5> QED
          BY <5>1, QuoteIsNoOther DEF IsDelimiter
      <4>2. CASE ~w.quoted[k + 1]
        <5>1. PlainAt(w, line, k + 1)
          BY <3>2, <4>2 DEF IsLaid
        <5>2. w.p[k + 1] \in w.p[k + 1] .. w.e[k + 1] - 1
          BY <3>3
        <5> QED
          BY <5>1, <5>2 DEF PlainAt, IsDelimiter
      <4> QED
        BY <4>1, <4>2
    <3>5. AfterDelimiters(line, i + 1) = w.p[k + 1]
      <4>1. i + 1 \in 1 .. L + 1 /\ w.p[k + 1] \in i + 1 .. L + 1
        <5> DEFINE p == w.p[k + 1]
                   e == w.e[k]
        <5>1. e < p /\ p \in 1 .. L
          BY <3>1, <3>3
        <5>2. i = e /\ e \in 1 .. L + 1 /\ L \in Nat
          BY <1>2, <1>3
        <5> HIDE DEF p, e, L
        <5>3. i + 1 \in 1 .. L + 1 /\ p \in i + 1 .. L + 1
          BY <5>1, <5>2
        <5> QED
          BY <5>3 DEF p
      <4>2. \A q \in i + 1 .. w.p[k + 1] - 1 : IsDelimiter(line[q])
        <5> TAKE q \in i + 1 .. w.p[k + 1] - 1
        <5>1. q \in w.e[k] .. w.p[k + 1] - 1
          BY <1>2, <1>3
        <5> QED
          BY <3>1, <5>1 DEF IsDelimiter
      <4> QED
        BY <1>2, <3>4, <4>1, <4>2, AfterDelimitersIs
    <3>6. k + 1 - 1 = k
      BY <1>2
    <3>7. InFront(r, w, line, k + 1)
      BY <2>2, <2>3, <3>5, <3>6 DEF InFront
    <3> QED
      BY <3>2, <3>7 DEF IsWhere, r
  <2>5. CASE k = w.n
    <3>1. AfterDelimiters(line, i + 1) = L + 1
      <4>1. i + 1 \in 1 .. L + 1 /\ L + 1 \in i + 1 .. L + 1 /\ L + 1 > L
        BY <1>2
      <4>2. \A q \in i + 1 .. L + 1 - 1 : IsDelimiter(line[q])
        <5> TAKE q \in i + 1 .. L + 1 - 1
        <5>1. q \in w.e[w.n] .. L
          BY <1>2, <1>3, <2>5
        <5> QED
          BY <5>1 DEF IsLaid, IsDelimiter
      <4> QED
        BY <1>2, <4>1, <4>2, AfterDelimitersIs, SMTT(20)
    <3>2. r.next > L
      BY <1>2, <2>2, <3>1
    <3>3. Behind(r, w, line)
      BY <2>2, <2>3, <2>5, <3>2 DEF Behind
    <3> QED
      BY <3>3 DEF IsWhere, r
  <2> QED
    BY <1>2, <2>4, <2>5
<1> QED
  BY <1>6, <1>8, <1>9

LEMMA TurnIsWhere ==
    ASSUME NEW line, NEW w, IsLaid(w, line), w.n < MaxColumns,
           NEW i \in 1 .. Len(line), NEW s, Fits(s, i - 1, line), IsWhere(s, w, line)
    PROVE  IsWhere(Turn(s, i, line), w, line)
<1>1. s.next \in Nat /\ i - 1 < s.next /\ Len(line) \in Nat
  <2>1. IsLine(line)
    BY DEF IsLaid
  <2> QED
    BY <2>1, LineIs DEF Fits, SplitStates
<1>2. CASE i < s.next
  BY <1>2 DEF Turn
<1>3. CASE s.next = i
  <2>1. ~Behind(s, w, line)
    BY <1>1, <1>3 DEF Behind
  <2>2. PICK k \in 1 .. w.n : InFront(s, w, line, k) \/ Inside(s, w, line, k)
    BY <2>1 DEF IsWhere
  <2>3. CASE InFront(s, w, line, k)
    <3>1. Inside(Turn(s, i, line), w, line, k)
      BY <1>3, <2>3, FromTheFront
    <3> QED
      BY <3>1 DEF IsWhere
  <2>4. CASE Inside(s, w, line, k) /\ i < w.e[k]
    <3>1. Inside(Turn(s, i, line), w, line, k)
      BY <1>3, <2>4, OnInside
    <3> QED
      BY <3>1 DEF IsWhere
  <2>5. CASE Inside(s, w, line, k) /\ ~(i < w.e[k])
    BY <1>3, <2>5, ToTheNext
  <2> QED
    BY <2>2, <2>3, <2>4, <2>5
<1> QED
  BY <1>1, <1>2, <1>3

-----------------------------------------------------------------------------
\* The zeroes at the ends of columns are not in texts.
LEMMA NoZeroInText ==
    ASSUME NEW line, NEW w, IsLaid(w, line), NEW k \in 1 .. w.n,
           NEW q \in TextFrom(w, k) .. TextTo(w, k)
    PROVE  q \notin EndsUpTo(w, w.n)
<1>1. /\ w.p[k] \in 1 .. Len(line) /\ w.e[k] \in 1 .. Len(line) + 1 /\ w.quoted[k] \in BOOLEAN
      /\ w.n \in Nat /\ Len(line) \in Nat
  BY LaidIs
<1>2. /\ w.p[k] <= q /\ q < w.e[k] /\ q \in Int
      /\ w.quoted[k] => q < w.e[k] - 1
  <2>1. CASE w.quoted[k]
    BY <1>1, <2>1 DEF TextFrom, TextTo
  <2>2. CASE ~w.quoted[k]
    BY <1>1, <2>2 DEF TextFrom, TextTo
  <2> QED
    BY <2>1, <2>2
<1>3. ASSUME NEW j \in 1 .. w.n
      PROVE  q # w.e[j] /\ (w.quoted[j] => q # w.e[j] - 1)
  <2>1. /\ w.p[j] \in 1 .. Len(line) /\ w.e[j] \in 1 .. Len(line) + 1 /\ w.p[j] < w.e[j]
    BY LaidIs
  <2>2. CASE j < k
    <3>1. w.e[j] < w.p[k]
      BY <2>2 DEF IsLaid
    <3> QED
      BY <1>1, <1>2, <2>1, <3>1
  <2>3. CASE k < j
    <3>1. w.e[k] < w.p[j]
      BY <2>3 DEF IsLaid
    <3> QED
      BY <1>1, <1>2, <2>1, <3>1
  <2>4. CASE j = k
    BY <1>1, <1>2, <2>4
  <2> QED
    BY <1>1, <2>2, <2>3, <2>4
<1> QED
  BY <1>3 DEF EndsUpTo

\* Behind a line, all its columns have been started and, but for the last, ended.
LEMMA WhereAtEnd ==
    ASSUME NEW line, NEW w, IsLaid(w, line), NEW s, Fits(s, Len(line), line),
           IsWhere(s, w, line)
    PROVE  /\ s.column \in {w.n, w.n + 1} /\ StartedUpTo(s, w, line, w.n)
           /\ \/ s.zeroes = EndsUpTo(w, w.n)
              \/ s.zeroes = EndsUpTo(w, w.n - 1) /\ w.e[w.n] = Len(line) + 1
<1>1. Len(line) \in Nat /\ w.n \in Nat \ {0} /\ Len(line) < s.next /\ s.next \in Nat
  <2>1. IsLine(line)
    BY DEF IsLaid
  <2> QED
    BY <2>1, LineIs DEF Fits, SplitStates, IsLaid
<1>2. CASE Behind(s, w, line)
  BY <1>2 DEF Behind
<1>3. ASSUME NEW k \in 1 .. w.n PROVE ~InFront(s, w, line, k)
  <2>1. w.p[k] \in 1 .. Len(line)
    BY LaidIs
  <2> QED
    BY <1>1, <2>1 DEF InFront
<1>4. ASSUME NEW k \in 1 .. w.n, Inside(s, w, line, k)
      PROVE  k = w.n /\ w.e[k] = Len(line) + 1
  <2>1. w.e[k] \in 1 .. Len(line) + 1 /\ w.p[k + 1] \in 1 .. Len(line) + 1
    BY LaidIs
  <2>2. w.e[k] = Len(line) + 1
    BY <1>1, <1>4, <2>1 DEF Inside
  <2>3. k < w.n => w.e[k] < w.p[k + 1]
    BY DEF IsLaid
  <2> QED
    BY <1>1, <2>1, <2>2, <2>3
<1>5. CASE \E k \in 1 .. w.n : Inside(s, w, line, k)
  <2>1. Inside(s, w, line, w.n) /\ w.e[w.n] = Len(line) + 1
    BY <1>4, <1>5
  <2> QED
    BY <2>1 DEF Inside
<1> QED
  BY <1>2, <1>3, <1>5 DEF IsWhere

LEMMA StartsInFront ==
    ASSUME NEW line, NEW w, IsLaid(w, line)
    PROVE  IsWhere(BeforeLine(line), w, line)
<1> DEFINE s == BeforeLine(line)
           L == Len(line)
<1>1. L \in Nat /\ w.n \in Nat \ {0} /\ 1 \in 1 .. w.n /\ w.p[1] = 1 /\ MaxColumns \in Nat \ {0}
  <2>1. IsLine(line)
    BY DEF IsLaid
  <2> QED
    BY <2>1, LineIs, MaxColumnsAssumption DEF IsLaid
<1>2. /\ s.column = 1 /\ s.next = 1 /\ s.quoted = FALSE /\ s.escaped = FALSE /\ s.zeroes = {}
      /\ \A c \in 1 .. L + MaxColumns : s.start[c] = 0
  BY DEF BeforeLine
<1> HIDE DEF s, L
<1>3. StartedUpTo(s, w, line, 1 - 1)
  BY <1>1, <1>2 DEF StartedUpTo, L
<1>4. EndsUpTo(w, 1 - 1) = {}
  BY DEF EndsUpTo
<1>5. InFront(s, w, line, 1)
  BY <1>1, <1>2, <1>3, <1>4 DEF InFront
<1> QED
  BY <1>1, <1>5 DEF IsWhere, s

(***************************************************************************)
(* splitLine() finds the columns that the author had in mind.              *)
(***************************************************************************)
LEMMA LaidIsSplit ==
    ASSUME NEW line, NEW w, IsLaid(w, line), w.n < MaxColumns
    PROVE  /\ SplitLine(line).count = {w.n}
           /\ \A k \in 1 .. w.n :
                  SplitLine(line).columns[k] = SubSeq(line, TextFrom(w, k), TextTo(w, k))
<1> DEFINE L == Len(line)
           M == MaxColumns
<1>1. L \in Nat /\ w.n \in Nat \ {0} /\ M \in Nat \ {0} /\ IsLine(line)
  <2>1. IsLine(line)
    BY DEF IsLaid
  <2> QED
    BY <2>1, LineIs, MaxColumnsAssumption DEF IsLaid
<1> HIDE DEF L, M
<1>2. PICK turn :
               /\ turn[0] = BeforeLine(line)
               /\ \A i \in 1 .. L : turn[i] = Turn(turn[i - 1], i, line)
               /\ \A i \in 0 .. L : Fits(turn[i], i, line)
               /\ SplitLine(line) =
                      [count   |-> ColumnsOf(turn[L]),
                       columns |-> [c \in 1 .. L + M |-> ColumnIn(turn[L], c, line)]]
  BY <1>1, SplitUnfolds DEF L, M
<1>3. \A i \in 0 .. L : IsWhere(turn[i], w, line)
  <2> DEFINE Bad == {i \in 0 .. L : ~IsWhere(turn[i], w, line)}
  <2> SUFFICES ASSUME Bad # {} PROVE FALSE
    OBVIOUS
  <2>1. Bad \in SUBSET Nat
    OBVIOUS
  <2>2. PICK i \in Bad : \A k \in Bad : i <= k
    <3> HIDE DEF Bad
    <3> QED
      BY <2>1, LeastOf
  <2>3. i \in 0 .. L /\ ~IsWhere(turn[i], w, line)
    BY <2>2
  <2>4. i # 0
    BY <1>2, <2>3, StartsInFront
  <2>5. i \in 1 .. L /\ i - 1 \in 0 .. L /\ ~(i <= i - 1)
    BY <1>1, <2>3, <2>4
  <2>6. IsWhere(turn[i - 1], w, line) /\ Fits(turn[i - 1], i - 1, line)
    BY <1>2, <2>2, <2>5
  <2>7. IsWhere(Turn(turn[i - 1], i, line), w, line)
    BY <2>5, <2>6, TurnIsWhere DEF L
  <2> QED
    BY <1>2, <2>3, <2>5, <2>7
<1> DEFINE s == turn[L]
<1>4. Fits(s, L, line) /\ IsWhere(s, w, line)
  BY <1>1, <1>2, <1>3
<1> HIDE DEF s
<1>5. /\ s.column \in {w.n, w.n + 1} /\ StartedUpTo(s, w, line, w.n)
      /\ \/ s.zeroes = EndsUpTo(w, w.n)
         \/ s.zeroes = EndsUpTo(w, w.n - 1) /\ w.e[w.n] = L + 1
  BY <1>4, WhereAtEnd DEF L
<1>6. /\ \A c \in 1 .. w.n : s.start[c] = TextFrom(w, c)
      /\ \A c \in w.n + 1 .. L + M : s.start[c] = 0
  BY <1>5 DEF StartedUpTo, L, M
<1>7. \A k \in 1 .. w.n : TextFrom(w, k) \in 1 .. L + 1 /\ TextTo(w, k) \in TextFrom(w, k) - 1 .. L
  <2> TAKE k \in 1 .. w.n
  <2>1. /\ w.p[k] \in 1 .. L /\ w.e[k] \in 1 .. L + 1 /\ w.p[k] < w.e[k] /\ w.quoted[k] \in BOOLEAN
    BY LaidIs DEF L
  <2>2. CASE w.quoted[k]
    <3>1. w.p[k] + 3 <= w.e[k]
      BY <2>2 DEF IsLaid, QuotedAt
    <3> QED
      BY <1>1, <2>1, <2>2, <3>1 DEF TextFrom, TextTo
  <2>3. CASE ~w.quoted[k]
    BY <1>1, <2>1, <2>3 DEF TextFrom, TextTo
  <2> QED
    BY <2>2, <2>3
<1>8. ColumnsOf(s) = {w.n}
  <2>1. CASE s.column = w.n
    <3>1. w.n \in 1 .. w.n
      BY <1>1
    <3>2. s.start[s.column] # 0
      BY <1>1, <1>6, <1>7, <2>1, <3>1
    <3> QED
      BY <1>1, <2>1, <3>2 DEF ColumnsOf, M
  <2>2. CASE s.column = w.n + 1
    <3>1. w.n + 1 \in w.n + 1 .. L + M /\ w.n + 1 <= M
      BY <1>1 DEF M
    <3>2. s.start[s.column] = 0
      BY <1>6, <2>2, <3>1
    <3>3. s.column - 1 = w.n
      BY <1>1, <2>2
    <3> QED
      BY <1>1, <2>2, <3>1, <3>2, <3>3 DEF ColumnsOf, M
  <2> QED
    BY <1>5, <2>1, <2>2
<1>9. ASSUME NEW k \in 1 .. w.n
      PROVE  ColumnIn(s, k, line) = SubSeq(line, TextFrom(w, k), TextTo(w, k))
  <2>1. TextFrom(w, k) \in 1 .. L + 1 /\ TextTo(w, k) \in TextFrom(w, k) - 1 .. L
    BY <1>7
  <2>2. ColumnIn(s, k, line) = StringFrom(TextFrom(w, k), s.zeroes, line)
    BY <1>1, <1>6, <2>1 DEF ColumnIn
  <2>3. /\ w.p[k] \in 1 .. L /\ w.e[k] \in 1 .. L + 1 /\ w.quoted[k] \in BOOLEAN
    BY LaidIs DEF L
  <2>4. s.zeroes \subseteq EndsUpTo(w, w.n)
    <3>1. 1 .. w.n - 1 \subseteq 1 .. w.n
      BY <1>1
    <3>2. EndsUpTo(w, w.n - 1) \subseteq EndsUpTo(w, w.n)
      BY <3>1 DEF EndsUpTo
    <3> QED
      BY <1>5, <3>2
  <2>5. \A q \in TextFrom(w, k) .. TextTo(w, k) : q \notin s.zeroes
    BY <2>4, NoZeroInText
  <2>6. TextTo(w, k) = L \/ TextTo(w, k) + 1 \in s.zeroes
    <3>1. ASSUME NEW m \in Nat, k <= m, s.zeroes = EndsUpTo(w, m)
          PROVE  TextTo(w, k) + 1 \in s.zeroes
      <4>1. k \in 1 .. m
        BY <1>1, <3>1
      <4>2. CASE w.quoted[k]
        <5>1. w.e[k] - 1 \in EndsUpTo(w, m)
          BY <4>1, <4>2 DEF EndsUpTo
        <5> QED
          BY <2>3, <3>1, <4>2, <5>1 DEF TextTo
      <4>3. CASE ~w.quoted[k]
        <5>1. w.e[k] \in EndsUpTo(w, m)
          BY <4>1 DEF EndsUpTo
        <5> QED
          BY <2>3, <3>1, <4>3, <5>1 DEF TextTo
      <4> QED
        BY <4>2, <4>3
    <3>2. CASE s.zeroes = EndsUpTo(w, w.n)
      BY <1>1, <3>1, <3>2
    <3>3. CASE s.zeroes = EndsUpTo(w, w.n - 1) /\ w.e[w.n] = L + 1
      <4>1. CASE k = w.n
        <5>1. ~w.quoted[k]
          BY <3>3, <4>1 DEF IsLaid, L
        <5> QED
          BY <1>1, <3>3, <4>1, <5>1 DEF TextTo
      <4>2. CASE k # w.n
        <5>1. k <= w.n - 1 /\ w.n - 1 \in Nat
          BY <1>1, <4>2
        <5> QED
          BY <3>1, <3>3, <5>1
      <4> QED
        BY <4>1, <4>2
    <3> QED
      BY <1>5, <3>2, <3>3
  <2>7. StringFrom(TextFrom(w, k), s.zeroes, line) = SubSeq(line, TextFrom(w, k), TextTo(w, k))
    BY <1>1, <2>1, <2>5, <2>6, StringIs DEF L
  <2> QED
    BY <2>2, <2>7
<1>10. \A k \in 1 .. w.n : k \in 1 .. L + M
  BY <1>1 DEF M
<1> QED
  BY <1>2, <1>8, <1>9, <1>10 DEF s

-----------------------------------------------------------------------------
(***************************************************************************)
(* Where the sequences are that FlattenSeq() puts together: sequence i is  *)
(* behind at[i - 1].                                                       *)
(***************************************************************************)
AreAt(at, seqs, N, S) ==
    /\ at[0] = 0 /\ Len(FlattenSeq(seqs)) = at[N] /\ FlattenSeq(seqs) \in Seq(S)
    /\ \A i \in 1 .. N : at[i] = at[i - 1] + Len(seqs[i])
    /\ \A i \in 1 .. N : \A q \in 1 .. Len(seqs[i]) :
           FlattenSeq(seqs)[at[i - 1] + q] = seqs[i][q]
    /\ \A j \in 0 .. N : \A i \in 0 .. j : at[i] <= at[j]

LEMMA FlattenedAt ==
    ASSUME NEW S, NEW N \in Nat, NEW seqs \in [1 .. N -> Seq(S)]
    PROVE  \E at \in [0 .. N -> Nat] : AreAt(at, seqs, N, S)
<1>1. PICK f \in [0 .. N -> Seq(S)] :
          /\ f[0] = <<>>
          /\ \A i \in 1 .. N : f[i] = f[i - 1] \o seqs[i]
          /\ FlattenSeq(seqs) = f[N]
  BY FlattenUnfolds
<1>2. \A i \in 0 .. N : Len(f[i]) \in Nat
  BY <1>1, SeqIs
<1>3. \A i \in 1 .. N : Len(seqs[i]) \in Nat /\ seqs[i] \in Seq(S)
  <2> TAKE i \in 1 .. N
  <2>1. seqs[i] \in Seq(S)
    OBVIOUS
  <2> QED
    BY <2>1, SeqIs
<1>4. ASSUME NEW i \in 1 .. N
      PROVE  /\ Len(f[i]) = Len(f[i - 1]) + Len(seqs[i])
             /\ \A q \in 1 .. Len(f[i - 1]) : f[i][q] = f[i - 1][q]
             /\ \A q \in 1 .. Len(seqs[i]) : f[i][Len(f[i - 1]) + q] = seqs[i][q]
  <2>1. f[i - 1] \in Seq(S) /\ f[i] = f[i - 1] \o seqs[i]
    <3>1. i - 1 \in 0 .. N
      OBVIOUS
    <3> QED
      BY <1>1, <3>1
  <2> DEFINE a == Len(f[i - 1])
             b == Len(seqs[i])
  <2>2. a \in Nat /\ b \in Nat
    BY <1>3, <2>1, SeqIs
  <2>3. /\ Len(f[i]) = a + b
        /\ \A q \in 1 .. a + b : f[i][q] = IF q <= a THEN f[i - 1][q] ELSE seqs[i][q - a]
    BY <1>3, <2>1, ConcatIs
  <2> HIDE DEF a, b
  <2>4. \A q \in 1 .. a : f[i][q] = f[i - 1][q]
    <3> TAKE q \in 1 .. a
    <3>1. q \in 1 .. a + b /\ q <= a
      BY <2>2
    <3> QED
      BY <2>3, <3>1
  <2>5. \A q \in 1 .. b : f[i][a + q] = seqs[i][q]
    <3> TAKE q \in 1 .. b
    <3> DEFINE x == a + q
    <3>1. x \in 1 .. a + b /\ ~(x <= a) /\ x - a = q
      BY <2>2
    <3> HIDE DEF x
    <3>2. f[i][x] = seqs[i][q]
      BY <2>3, <3>1
    <3> QED
      BY <3>2 DEF x
  <2> QED
    BY <2>3, <2>4, <2>5 DEF a, b
<1> DEFINE IsFront(i, j) == /\ Len(f[i]) <= Len(f[j])
                            /\ \A q \in 1 .. Len(f[i]) : f[j][q] = f[i][q]
           Bad == {j \in 0 .. N : \E i \in 0 .. j : ~IsFront(i, j)}
<1>5. Bad = {}
  <2> SUFFICES ASSUME Bad # {} PROVE FALSE
    OBVIOUS
  <2>1. Bad \in SUBSET Nat
    OBVIOUS
  <2>2. PICK j \in Bad : \A k \in Bad : j <= k
    <3> HIDE DEF Bad
    <3> QED
      BY <2>1, LeastOf
  <2>3. PICK i \in 0 .. j : ~IsFront(i, j)
    BY <2>2
  <2>4. j \in 0 .. N
    BY <2>2
  <2>5. i # j
    <3>1. IsFront(j, j)
      BY <1>2, <2>4
    <3> QED
      BY <2>3, <3>1
  <2>6. j \in 1 .. N /\ j - 1 \in 0 .. N /\ i \in 0 .. j - 1 /\ i \in 0 .. N /\ ~(j <= j - 1)
    BY <2>4, <2>5
  <2>7. IsFront(i, j - 1)
    BY <2>2, <2>6
  <2>8. /\ Len(f[i]) \in Nat /\ Len(f[j - 1]) \in Nat /\ Len(seqs[j]) \in Nat
    BY <1>2, <1>3, <2>6
  <2>9. /\ Len(f[j]) = Len(f[j - 1]) + Len(seqs[j])
        /\ \A q \in 1 .. Len(f[j - 1]) : f[j][q] = f[j - 1][q]
    BY <1>4, <2>6
  <2>10. IsFront(i, j)
    <3>1. Len(f[i]) <= Len(f[j])
      <4>1. Len(f[i]) <= Len(f[j - 1])
        BY <2>7
      <4>2. ASSUME NEW a \in Nat, NEW b \in Nat, NEW c \in Nat, a <= b PROVE a <= b + c
        BY <4>2
      <4> QED
        BY <2>8, <2>9, <4>1, <4>2
    <3>2. \A q \in 1 .. Len(f[i]) : q \in 1 .. Len(f[j - 1])
      BY <2>7, <2>8
    <3> QED
      BY <2>7, <2>9, <3>1, <3>2
  <2> QED
    BY <2>3, <2>10
<1>6. \A j \in 0 .. N : \A i \in 0 .. j : IsFront(i, j)
  BY <1>5
<1> DEFINE at == [i \in 0 .. N |-> Len(f[i])]
<1>7. at \in [0 .. N -> Nat] /\ \A i \in 0 .. N : at[i] = Len(f[i])
  BY <1>2
<1>8. N \in 0 .. N /\ 0 \in 0 .. N /\ \A i \in 1 .. N : i \in 0 .. N /\ i - 1 \in 0 .. N
  OBVIOUS
<1> HIDE DEF at
<1>9. at[0] = 0 /\ Len(FlattenSeq(seqs)) = at[N] /\ FlattenSeq(seqs) \in Seq(S)
  <2>1. Len(f[0]) = 0
    BY <1>1
  <2> QED
    BY <1>1, <1>7, <1>8, <2>1
<1>10. \A i \in 1 .. N : at[i] = at[i - 1] + Len(seqs[i])
  BY <1>4, <1>7, <1>8
<1>11. ASSUME NEW i \in 1 .. N, NEW q \in 1 .. Len(seqs[i])
       PROVE  FlattenSeq(seqs)[at[i - 1] + q] = seqs[i][q]
  <2>1. at[i - 1] = Len(f[i - 1]) /\ Len(f[i - 1]) \in Nat /\ Len(seqs[i]) \in Nat
    BY <1>2, <1>3, <1>7, <1>8
  <2>2. f[i][at[i - 1] + q] = seqs[i][q] /\ Len(f[i]) = at[i - 1] + Len(seqs[i])
    BY <1>4, <2>1
  <2>3. at[i - 1] + q \in 1 .. Len(f[i])
    <3>1. ASSUME NEW a \in Nat, NEW b \in Nat, NEW x \in 1 .. b PROVE a + x \in 1 .. a + b
      OBVIOUS
    <3>2. at[i - 1] \in Nat /\ Len(seqs[i]) \in Nat
      BY <2>1
    <3>3. at[i - 1] + q \in 1 .. at[i - 1] + Len(seqs[i])
      BY <3>1, <3>2
    <3> QED
      BY <2>2, <3>3
  <2>4. IsFront(i, N)
    BY <1>6, <1>8
  <2>5. f[N][at[i - 1] + q] = f[i][at[i - 1] + q]
    BY <2>3, <2>4
  <2> QED
    BY <1>1, <2>2, <2>5
<1>12. \A j \in 0 .. N : \A i \in 0 .. j : at[i] <= at[j]
  <2> TAKE j \in 0 .. N
  <2> TAKE i \in 0 .. j
  <2>1. i \in 0 .. N
    OBVIOUS
  <2> QED
    BY <1>6, <1>7, <2>1
<1>13. AreAt(at, seqs, N, S)
  BY <1>9, <1>10, <1>11, <1>12 DEF AreAt
<1> QED
  BY <1>7, <1>13

\* What is written for a column that splitLine() understands
LEMMA InFileIs ==
    ASSUME NEW c, IsColumn(c), c.text # <<>>,
           Quote \notin Range(c.text), "\\" \notin Range(c.text)
    PROVE  LET t == c.text
               i == InFile(c)
           IN  /\ Len(t) \in Nat \ {0} /\ c.quoted \in BOOLEAN /\ t \in Seq(Range(t))
               /\ \A q \in 1 .. Len(t) : t[q] \notin {Quote, "\\", "\n"}
               /\ ~c.quoted => \A q \in 1 .. Len(t) : t[q] # Space
               /\ IF c.quoted THEN /\ Len(i) = Len(t) + 2 /\ i[1] = Quote /\ i[Len(t) + 2] = Quote
                                   /\ \A q \in 1 .. Len(t) : i[q + 1] = t[q]
                  ELSE i = t
<1> DEFINE t == c.text
           S == Range(t) \cup {Quote}
<1>1. /\ t \in Seq(Range(t)) /\ t # <<>> /\ "\n" \notin Range(t) /\ c.quoted \in BOOLEAN
      /\ ~c.quoted => Space \notin Range(t)
  BY DEF IsColumn
<1>2. Len(t) \in Nat \ {0} /\ \A q \in 1 .. Len(t) : t[q] \in Range(t)
  <2> HIDE DEF t
  <2> QED
    BY <1>1, NotEmpty, SeqIs
<1>3. Escaped(t) = t
  <2>1. Quote \notin Range(t) /\ "\\" \notin Range(t)
    OBVIOUS
  <2> HIDE DEF t
  <2> QED
    BY <1>1, <2>1, NothingToEscape
<1>4. \A q \in 1 .. Len(t) : t[q] \notin {Quote, "\\", "\n"}
  <2> TAKE q \in 1 .. Len(t)
  <2>1. t[q] \in Range(t)
    BY <1>2
  <2> QED
    BY <1>1, <2>1
<1>5. ~c.quoted => \A q \in 1 .. Len(t) : t[q] # Space
  BY <1>1, <1>2
<1>6. ASSUME c.quoted
      PROVE  LET i == InFile(c)
             IN  /\ Len(i) = Len(t) + 2 /\ i[1] = Quote /\ i[Len(t) + 2] = Quote
                 /\ \A q \in 1 .. Len(t) : i[q + 1] = t[q]
  <2>1. InFile(c) = <<Quote>> \o t \o <<Quote>>
    BY <1>3, <1>6 DEF InFile
  <2> HIDE DEF t, S
  <2>2. t \in Seq(S) /\ <<Quote>> \in Seq(S) /\ Quote \in S
    <3>1. \A q \in 1 .. Len(t) : t[q] \in S
      BY <1>2 DEF S
    <3>2. Quote \in S
      BY DEF S
    <3>3. t \in Seq(S)
      BY <1>1, <3>1, SeqOfMore
    <3> QED
      BY <3>2, <3>3
  <2> DEFINE a == <<Quote>>
             b == a \o t
  <2>3. Len(a) = 1 /\ a[1] = Quote
    OBVIOUS
  <2> HIDE DEF a
  <2>4. /\ b \in Seq(S) /\ Len(b) = Len(t) + 1
        /\ \A q \in 1 .. 1 + Len(t) : b[q] = IF q <= 1 THEN a[q] ELSE t[q - 1]
    <3>1. a \in Seq(S)
      BY <2>2 DEF a
    <3>2. /\ b \in Seq(S) /\ Len(b) = Len(a) + Len(t)
          /\ \A q \in 1 .. Len(a) + Len(t) :
                b[q] = IF q <= Len(a) THEN a[q] ELSE t[q - Len(a)]
      <4> HIDE DEF a
      <4> QED
        BY <2>2, <3>1, ConcatIs DEF b
    <3>3. Len(t) \in Nat
      BY <1>2
    <3> HIDE DEF b
    <3> QED
      BY <2>3, <3>2, <3>3
  <2> HIDE DEF b
  <2>5. /\ Len(InFile(c)) = Len(b) + 1
        /\ \A q \in 1 .. Len(b) + 1 : InFile(c)[q] = IF q <= Len(b) THEN b[q] ELSE a[q - Len(b)]
    <3>1. InFile(c) = b \o a
      BY <2>1 DEF a, b
    <3>2. a \in Seq(S)
      BY <2>2 DEF a
    <3>3. /\ Len(b \o a) = Len(b) + Len(a)
          /\ \A q \in 1 .. Len(b) + Len(a) :
                (b \o a)[q] = IF q <= Len(b) THEN b[q] ELSE a[q - Len(b)]
      BY <2>4, <3>2, ConcatIs
    <3> QED
      BY <2>3, <3>1, <3>3
  <2> DEFINE n == Len(t)
  <2>6. n \in Nat \ {0} /\ Len(b) = n + 1
    BY <1>2, <2>4
  <2>7. \A q \in 1 .. n + 2 : InFile(c)[q] = IF q <= n + 1 THEN b[q] ELSE a[q - (n + 1)]
    BY <2>5, <2>6
  <2> HIDE DEF n
  <2>8. InFile(c)[1] = Quote
    <3>1. 1 \in 1 .. n + 2 /\ 1 <= n + 1 /\ 1 \in 1 .. 1 + n /\ 1 <= 1
      BY <2>6
    <3> QED
      BY <2>3, <2>4, <2>7, <3>1 DEF n
  <2>9. InFile(c)[n + 2] = Quote
    <3> DEFINE x == n + 2
    <3>1. x \in 1 .. n + 2 /\ ~(x <= n + 1) /\ x - (n + 1) = 1
      BY <2>6
    <3> HIDE DEF x
    <3>2. InFile(c)[x] = a[1]
      BY <2>7, <3>1
    <3> QED
      BY <2>3, <3>2 DEF x
  <2>10. \A q \in 1 .. n : InFile(c)[q + 1] = t[q]
    <3> TAKE q \in 1 .. n
    <3>1. /\ q + 1 \in 1 .. n + 2 /\ q + 1 <= n + 1 /\ q + 1 \in 1 .. 1 + n /\ ~(q + 1 <= 1)
          /\ q + 1 - 1 = q
      BY <2>6
    <3> QED
      BY <2>4, <2>7, <3>1 DEF n
  <2> QED
    BY <2>5, <2>6, <2>8, <2>9, <2>10 DEF n
<1>7. ~c.quoted => InFile(c) = t
  BY DEF InFile
<1> HIDE DEF t
<1> QED
  BY <1>1, <1>2, <1>4, <1>5, <1>6, <1>7 DEF t

-----------------------------------------------------------------------------
\* The parts of a row that splitLine() understands
LEMMA PartIs ==
    ASSUME NEW row, IsRow(row), Understood(row), NEW k \in 1 .. Len(row.columns)
    PROVE  LET n == Len(row.columns)
               i == InFile(row.columns[k])
           IN  /\ Len(i) \in Nat \ {0}
               /\ Len(PartsOf(row)[k]) = Len(i) + IF k < n THEN Len(row.gap) ELSE 0
               /\ \A q \in 1 .. Len(i) : PartsOf(row)[k][q] = i[q]
               /\ k < n => \A q \in 1 .. Len(row.gap) : PartsOf(row)[k][Len(i) + q] = Space
<1> DEFINE n == Len(row.columns)
           i == InFile(row.columns[k])
           S == LineCharacters(row)
           c == row.columns[k]
<1>1. n \in Nat /\ IsColumn(c) /\ DOMAIN row.columns = 1 .. n
  BY RowIs
<1>2. c.text # <<>> /\ Quote \notin Range(c.text) /\ "\\" \notin Range(c.text)
  <2>1. c \in Range(row.columns)
    BY <1>1 DEF Range
  <2> QED
    BY <2>1 DEF Understood
<1>3. Len(i) \in Nat \ {0}
  <2>1. /\ Len(c.text) \in Nat \ {0}
        /\ IF c.quoted THEN Len(i) = Len(c.text) + 2 ELSE i = c.text
    BY <1>1, <1>2, InFileIs
  <2> HIDE DEF c, i
  <2> QED
    BY <2>1
<1>4. /\ i \in Seq(S) /\ row.gap \in Seq(S)
      /\ Len(row.gap) \in Nat /\ \A q \in 1 .. Len(row.gap) : row.gap[q] = Space
  BY RowHasParts, RowIs
<1> HIDE DEF i, S, c
<1>5. PartsOf(row)[k] = i \o IF k = n THEN <<>> ELSE row.gap
  BY DEF PartsOf, PartOf, i
<1>6. CASE k = n
  <2>1. PartsOf(row)[k] = i
    <3>1. i \o <<>> = i
      BY <1>4
    <3> QED
      BY <1>5, <1>6, <3>1
  <2>2. ~(k < n)
    BY <1>1, <1>6
  <2>3. Len(i) + 0 = Len(i)
    BY <1>3
  <2> QED
    BY <1>3, <2>1, <2>2, <2>3 DEF i
<1>7. CASE k # n
  <2> DEFINE part == PartsOf(row)[k]
             a == Len(i)
             g == Len(row.gap)
  <2>1. part = i \o row.gap
    BY <1>5, <1>7
  <2>2. Len(part) = a + g /\ \A q \in 1 .. a + g : part[q] = IF q <= a THEN i[q] ELSE row.gap[q - a]
    BY <1>4, <2>1, ConcatIs
  <2>3. a \in Nat \ {0} /\ g \in Nat /\ k < n
    BY <1>1, <1>3, <1>4, <1>7
  <2> HIDE DEF part, a, g
  <2>4. \A q \in 1 .. a : part[q] = i[q]
    <3> TAKE q \in 1 .. a
    <3>1. q \in 1 .. a + g /\ q <= a
      BY <2>3
    <3> QED
      BY <2>2, <3>1
  <2>5. \A q \in 1 .. g : part[a + q] = Space
    <3> TAKE q \in 1 .. g
    <3> DEFINE x == a + q
    <3>1. x \in 1 .. a + g /\ ~(x <= a) /\ x - a = q
      BY <2>3
    <3> HIDE DEF x
    <3>2. part[x] = row.gap[q]
      BY <2>2, <3>1
    <3> QED
      BY <1>4, <3>2 DEF x, g
  <2> QED
    BY <2>2, <2>3, <2>4, <2>5 DEF part, a, g, i, n
<1> QED
  BY <1>6, <1>7

(***************************************************************************)
(* The line of such a row: column k is behind at[k - 1].                   *)
(***************************************************************************)
ColumnsAreAt(at, row) ==
    LET n == Len(row.columns)
        line == LineOf(row)
        I(k) == InFile(row.columns[k])
    IN  /\ at[0] = 0 /\ Len(line) = at[n] + Len(row.ending)
        /\ \A k \in 1 .. n : Len(I(k)) \in Nat \ {0}
        /\ \A k \in 1 .. n :
               at[k] = at[k - 1] + (Len(I(k)) + IF k < n THEN Len(row.gap) ELSE 0)
        /\ \A j \in 0 .. n : \A i \in 0 .. j : at[i] <= at[j]
        /\ \A k \in 1 .. n : \A q \in 1 .. Len(I(k)) : line[at[k - 1] + q] = I(k)[q]
        /\ \A k \in 1 .. n : k < n =>
               \A q \in 1 .. Len(row.gap) : line[at[k - 1] + (Len(I(k)) + q)] = Space
        /\ \A q \in 1 .. Len(row.ending) : line[at[n] + q] = row.ending[q]

LEMMA LineAt ==
    ASSUME NEW row, IsRow(row), Understood(row)
    PROVE  \E at \in [0 .. Len(row.columns) -> Nat] : ColumnsAreAt(at, row)
<1> DEFINE n == Len(row.columns)
           line == LineOf(row)
           I(k) == InFile(row.columns[k])
           S == LineCharacters(row)
           T == S \cup {"\n"}
           parts == PartsOf(row)
           body == FlattenSeq(parts)
           ending == row.ending
<1>1. /\ line = row.lead \o body \o ending /\ parts \in [1 .. n -> Seq(S)]
      /\ row.lead \in Seq(S) /\ Space \in S /\ n \in Nat /\ row.lead = <<>>
  BY RowHasParts, RowIs DEF Understood
<1>2. /\ Len(ending) \in Nat /\ ending \in Seq({Space, "\n"}) /\ Len(row.gap) \in Nat
  BY RowIs DEF IsRow
<1>3. ASSUME NEW k \in 1 .. n
      PROVE  /\ Len(I(k)) \in Nat \ {0}
             /\ Len(parts[k]) = Len(I(k)) + IF k < n THEN Len(row.gap) ELSE 0
             /\ \A q \in 1 .. Len(I(k)) : parts[k][q] = I(k)[q]
             /\ k < n => \A q \in 1 .. Len(row.gap) : parts[k][Len(I(k)) + q] = Space
  BY PartIs
<1> HIDE DEF n, line, I, S, parts
<1>0. PICK at \in [0 .. n -> Nat] : AreAt(at, parts, n, S)
  <2>1. n \in Nat /\ parts \in [1 .. n -> Seq(S)]
    BY <1>1
  <2> QED
    BY <2>1, FlattenedAt
<1>4. /\ at[0] = 0 /\ Len(body) = at[n] /\ body \in Seq(S)
      /\ \A i \in 1 .. n : at[i] = at[i - 1] + Len(parts[i])
      /\ \A i \in 1 .. n : \A q \in 1 .. Len(parts[i]) : body[at[i - 1] + q] = parts[i][q]
      /\ \A j \in 0 .. n : \A i \in 0 .. j : at[i] <= at[j]
  BY <1>0 DEF AreAt
<1> HIDE DEF body, ending
<1>5. line = body \o ending
  <2>1. <<>> \o body = body
    BY <1>4
  <2> QED
    BY <1>1, <2>1
<1>6. /\ Len(line) = Len(body) + Len(ending)
      /\ \A q \in 1 .. Len(body) + Len(ending) :
            line[q] = IF q <= Len(body) THEN body[q] ELSE ending[q - Len(body)]
  <2>1. body \in Seq(T)
    <3>1. \A q \in 1 .. Len(body) : body[q] \in S
      BY <1>4, SeqIs
    <3> QED
      BY <1>4, <3>1, SeqOfMore
  <2>2. ending \in Seq(T)
    <3>1. {Space, "\n"} \subseteq T
      BY <1>1
    <3>2. \A q \in 1 .. Len(ending) : ending[q] \in {Space, "\n"}
      BY <1>2, SeqIs
    <3>3. \A q \in 1 .. Len(ending) : ending[q] \in T
      BY <3>1, <3>2
    <3> HIDE DEF T
    <3> QED
      BY <1>2, <3>3, SeqOfMore
  <2> HIDE DEF T
  <2> QED
    BY <1>5, <2>1, <2>2, ConcatIs
<1> DEFINE b == Len(body)
           z == Len(ending)
<1>7. b \in Nat /\ z \in Nat /\ at[n] = b /\ Len(line) = b + z
  BY <1>1, <1>2, <1>4, <1>6
<1>8. \A q \in 1 .. b + z : line[q] = IF q <= b THEN body[q] ELSE ending[q - b]
  BY <1>6
<1> HIDE DEF b, z
<1>9. ASSUME NEW k \in 1 .. n, NEW q \in 1 .. Len(parts[k])
      PROVE  line[at[k - 1] + q] = parts[k][q]
  <2> DEFINE x == at[k - 1] + q
  <2>1. at[k - 1] \in Nat /\ at[k] \in Nat /\ at[k] <= b
    <3>1. k \in 0 .. n /\ k - 1 \in 0 .. n /\ n \in 0 .. n
      BY <1>1
    <3> QED
      BY <1>4, <1>7, <3>1
  <2>2. Len(parts[k]) \in Nat
    BY <1>2, <1>3
  <2>3. x \in 1 .. at[k]
    <3>1. at[k] = at[k - 1] + Len(parts[k])
      BY <1>4
    <3>2. ASSUME NEW u \in Nat, NEW v \in Nat, NEW y \in 1 .. v PROVE u + y \in 1 .. u + v
      OBVIOUS
    <3> QED
      BY <2>1, <2>2, <3>1, <3>2
  <2>4. body[x] = parts[k][q]
    BY <1>4
  <2> HIDE DEF x
  <2>5. x \in 1 .. b + z /\ x <= b
    BY <1>7, <2>1, <2>3
  <2>6. line[x] = body[x]
    BY <1>8, <2>5
  <2> QED
    BY <2>4, <2>6 DEF x
<1>10. ASSUME NEW q \in 1 .. Len(ending) PROVE line[at[n] + q] = ending[q]
  <2> DEFINE x == b + q
  <2>1. x \in 1 .. b + z /\ ~(x <= b) /\ x - b = q
    BY <1>7 DEF z
  <2> HIDE DEF x
  <2>2. line[x] = ending[q]
    BY <1>8, <2>1
  <2> QED
    BY <1>7, <2>2 DEF x
<1>11. ASSUME NEW k \in 1 .. n, NEW q \in 1 .. Len(I(k))
       PROVE  line[at[k - 1] + q] = I(k)[q]
  <2>1. q \in 1 .. Len(parts[k])
    BY <1>2, <1>3
  <2> QED
    BY <1>3, <1>9, <2>1
<1>12. ASSUME NEW k \in 1 .. n, k < n, NEW q \in 1 .. Len(row.gap)
       PROVE  line[at[k - 1] + (Len(I(k)) + q)] = Space
  <2>1. Len(I(k)) + q \in 1 .. Len(parts[k])
    BY <1>2, <1>3, <1>12
  <2> HIDE DEF I
  <2>2. line[at[k - 1] + (Len(I(k)) + q)] = parts[k][Len(I(k)) + q]
    BY <1>9, <2>1
  <2> QED
    BY <1>3, <1>12, <2>2
<1>13. \A k \in 1 .. n : at[k] = at[k - 1] + (Len(I(k)) + IF k < n THEN Len(row.gap) ELSE 0)
  BY <1>3, <1>4
<1>14. Len(line) = at[n] + Len(ending)
  BY <1>7 DEF z
<1>15. ColumnsAreAt(at, row)
  BY <1>3, <1>4, <1>10, <1>11, <1>12, <1>13, <1>14 DEF ColumnsAreAt, n, line, I, ending
<1>16. at \in [0 .. Len(row.columns) -> Nat]
  BY <1>0 DEF n
<1> QED
  BY <1>15, <1>16

-----------------------------------------------------------------------------
\* Where the author of such a row put its columns
LaidOut(at, row) ==
    LET n == Len(row.columns)
    IN  [n      |-> n,
         p      |-> [k \in 1 .. n + 1 |->
                        IF k = n + 1 THEN Len(LineOf(row)) + 1 ELSE at[k - 1] + 1],
         e      |-> [k \in 1 .. n |-> at[k - 1] + 1 + Len(InFile(row.columns[k]))],
         quoted |-> [k \in 1 .. n |-> row.columns[k].quoted]]

LEMMA LaidOutIs ==
    ASSUME NEW row, IsRow(row), Understood(row),
           NEW at \in [0 .. Len(row.columns) -> Nat], ColumnsAreAt(at, row)
    PROVE  LET n == Len(row.columns)
               L == Len(LineOf(row))
               w == LaidOut(at, row)
           IN  /\ n \in Nat \ {0} /\ L \in Nat /\ at[n] <= L /\ w.n = n
               /\ w.p[1] = 1 /\ w.p[n + 1] = L + 1
               /\ w.p \in [1 .. n + 1 -> 1 .. L + 1] /\ w.e \in [1 .. n -> 1 .. L + 1]
               /\ w.quoted \in [1 .. n -> BOOLEAN]
               /\ \A k \in 1 .. n :
                      /\ at[k - 1] \in Nat /\ at[k] \in Nat
                      /\ w.p[k] = at[k - 1] + 1
                      /\ w.e[k] = at[k - 1] + 1 + Len(InFile(row.columns[k]))
                      /\ w.quoted[k] = row.columns[k].quoted
                      /\ w.e[k] <= at[k] + 1
                      /\ k < n => w.e[k] + Len(row.gap) = w.p[k + 1]
                      /\ k = n => w.e[k] = at[n] + 1
<1> DEFINE n == Len(row.columns)
           L == Len(LineOf(row))
           w == LaidOut(at, row)
           I(k) == InFile(row.columns[k])
           g == Len(row.gap)
           z == Len(row.ending)
<1>1. n \in Nat \ {0} /\ g \in Nat \ {0} /\ z \in Nat
  <2>1. n \in Nat /\ g \in Nat \ {0} /\ z \in Nat
    BY RowIs
  <2>2. n # 0
    <3>1. row.columns \in Seq(Range(row.columns))
      BY Zenon DEF IsRow
    <3>2. row.columns # <<>>
      BY Zenon DEF Understood
    <3> QED
      BY <3>1, <3>2, NotEmpty
  <2> QED
    BY <2>1, <2>2
<1>2. /\ at[0] = 0 /\ L = at[n] + z
      /\ \A k \in 1 .. n : Len(I(k)) \in Nat \ {0}
      /\ \A k \in 1 .. n : at[k] = at[k - 1] + (Len(I(k)) + IF k < n THEN g ELSE 0)
      /\ \A j \in 0 .. n : \A i \in 0 .. j : at[i] <= at[j]
  BY DEF ColumnsAreAt
<1>3. /\ w.n = n
      /\ w.p = [k \in 1 .. n + 1 |-> IF k = n + 1 THEN L + 1 ELSE at[k - 1] + 1]
      /\ w.e = [k \in 1 .. n |-> at[k - 1] + 1 + Len(I(k))]
      /\ w.quoted = [k \in 1 .. n |-> row.columns[k].quoted]
  BY DEF LaidOut
<1>4. \A k \in 1 .. n : row.columns[k].quoted \in BOOLEAN
  BY RowIs DEF IsColumn
<1>5. at \in [0 .. n -> Nat]
  OBVIOUS
<1> HIDE DEF n, L, w, I, g, z
<1>6. at[n] \in Nat /\ L \in Nat /\ at[n] <= L
  <2>1. at[n] \in Nat
    BY <1>1, <1>5
  <2> QED
    BY <1>1, <1>2, <2>1
<1>7. ASSUME NEW k \in 1 .. n
      PROVE  /\ at[k - 1] \in Nat /\ at[k] \in Nat /\ at[k] <= at[n]
             /\ at[k - 1] + 1 + Len(I(k)) <= at[k] + 1
             /\ k < n => at[k - 1] + 1 + Len(I(k)) + g = at[k] + 1
             /\ k = n => at[k - 1] + 1 + Len(I(k)) = at[n] + 1
             /\ at[k - 1] + 1 \in 1 .. L + 1
             /\ at[k - 1] + 1 + Len(I(k)) \in 1 .. L + 1
  <2>1. k \in 0 .. n /\ k - 1 \in 0 .. n /\ n \in 0 .. n
    BY <1>1
  <2>2. at[k - 1] \in Nat /\ at[k] \in Nat
    BY <1>5, <2>1
  <2>3. at[k] <= at[n] /\ Len(I(k)) \in Nat
    BY <1>2, <2>1
  <2>4. at[k] = at[k - 1] + (Len(I(k)) + IF k < n THEN g ELSE 0)
    BY <1>2
  <2> DEFINE a == at[k - 1]
             b == at[k]
             c == Len(I(k))
             d == at[n]
  <2>5. a \in Nat /\ b \in Nat /\ c \in Nat /\ d \in Nat /\ b <= d /\ d <= L
        /\ b = a + (c + IF k < n THEN g ELSE 0) /\ (k = n => b = d)
    BY <1>6, <2>2, <2>3, <2>4
  <2> HIDE DEF a, b, c, d
  <2>6. a \in Nat /\ b \in Nat /\ b <= d /\ a + 1 + c <= b + 1
        /\ (k < n => a + 1 + c + g = b + 1) /\ (k = n => a + 1 + c = d + 1)
        /\ a + 1 \in 1 .. L + 1 /\ a + 1 + c \in 1 .. L + 1
    BY <1>1, <1>6, <2>5
  <2> QED
    BY <2>6 DEF a, b, c, d
<1>8. \A k \in 1 .. n : /\ k \in 1 .. n + 1 /\ k # n + 1
                        /\ w.p[k] = at[k - 1] + 1 /\ w.e[k] = at[k - 1] + 1 + Len(I(k))
                        /\ w.quoted[k] = row.columns[k].quoted
  BY <1>1, <1>3
<1>9. w.p[n + 1] = L + 1 /\ w.p[1] = 1
  <2>1. n + 1 \in 1 .. n + 1 /\ 1 \in 1 .. n /\ 1 - 1 = 0
    BY <1>1
  <2>2. w.p[1] = at[0] + 1
    BY <1>8, <2>1
  <2> QED
    BY <1>2, <1>3, <2>1, <2>2
<1>10. w.p \in [1 .. n + 1 -> 1 .. L + 1]
  <2>1. ASSUME NEW k \in 1 .. n + 1 PROVE w.p[k] \in 1 .. L + 1
    <3>1. CASE k = n + 1
      BY <1>6, <1>9, <3>1
    <3>2. CASE k # n + 1
      <4>1. k \in 1 .. n
        BY <1>1, <3>2
      <4> QED
        BY <1>7, <1>8, <4>1
    <3> QED
      BY <3>1, <3>2
  <2>2. w.p = [k \in 1 .. n + 1 |-> w.p[k]]
    BY <1>3
  <2> QED
    BY <2>1, <2>2
<1>11. w.e \in [1 .. n -> 1 .. L + 1] /\ w.quoted \in [1 .. n -> BOOLEAN]
  BY <1>3, <1>4, <1>7, SMTT(20)
<1>12. ASSUME NEW k \in 1 .. n, k < n PROVE w.e[k] + g = w.p[k + 1]
  <2>1. k + 1 \in 1 .. n /\ k + 1 - 1 = k
    BY <1>1, <1>12
  <2>2. w.p[k + 1] = at[k] + 1
    <3>1. w.p[k + 1] = at[k + 1 - 1] + 1
      BY <1>8, <2>1
    <3> QED
      BY <2>1, <3>1
  <2> QED
    BY <1>7, <1>8, <1>12, <2>2
<1>13. \A k \in 1 .. n : w.e[k] <= at[k] + 1 /\ (k = n => w.e[k] = at[n] + 1)
  BY <1>7, <1>8
<1> QED
  BY <1>1, <1>3, <1>6, <1>7, <1>8, <1>9, <1>10, <1>11, <1>12, <1>13 DEF n, L, w, I, g

-----------------------------------------------------------------------------
\* A text behind the first characters of a line is cut out again.
LEMMA TextIsCutOut ==
    ASSUME NEW S, NEW line \in Seq(S), NEW T, NEW t \in Seq(T), NEW a \in Nat,
           a + Len(t) <= Len(line), \A q \in 1 .. Len(t) : line[a + q] = t[q]
    PROVE  SubSeq(line, a + 1, a + Len(t)) = t
<1> DEFINE l == Len(t)
           from == a + 1
           to == a + l
           s == SubSeq(line, from, to)
<1>1. l \in Nat /\ Len(line) \in Nat /\ a + l <= Len(line)
  BY SeqIs
<1>2. from \in 1 .. Len(line) + 1 /\ to \in from - 1 .. Len(line) /\ to - from + 1 = l
      /\ \A q \in 1 .. l : from + q - 1 = a + q
  <2> HIDE DEF l
  <2> QED
    BY <1>1
<1> HIDE DEF from, to
<1>3. /\ s \in Seq(S) /\ Len(s) = to - from + 1
      /\ \A q \in 1 .. to - from + 1 : s[q] = line[from + q - 1]
  BY <1>2, SubSeqIs
<1> HIDE DEF s, l
<1>4. /\ s \in Seq(S) /\ Len(s) = l
      /\ \A q \in 1 .. l : s[q] = line[a + q]
  BY <1>2, <1>3
<1>5. s = [q \in 1 .. Len(s) |-> s[q]] /\ t = [q \in 1 .. Len(t) |-> t[q]]
  BY <1>4, SeqIs
<1>6. \A q \in 1 .. l : s[q] = t[q]
  BY <1>4 DEF l
<1>7. s = t
  BY <1>4, <1>5, <1>6 DEF l
<1> QED
  BY <1>7 DEF s, from, to, l

\* What a column of such a row is in the line
LEMMA ColumnInLine ==
    ASSUME NEW row, IsRow(row), Understood(row),
           NEW at \in [0 .. Len(row.columns) -> Nat], ColumnsAreAt(at, row),
           NEW k \in 1 .. Len(row.columns)
    PROVE  LET line == LineOf(row)
               t == row.columns[k].text
               w == LaidOut(at, row)
           IN  /\ w.p[k] < w.e[k]
               /\ IF w.quoted[k] THEN QuotedAt(w, line, k) ELSE PlainAt(w, line, k)
               /\ SubSeq(line, TextFrom(w, k), TextTo(w, k)) = t
<1> DEFINE n == Len(row.columns)
           line == LineOf(row)
           L == Len(line)
           w == LaidOut(at, row)
           c == row.columns[k]
           t == c.text
           I == InFile(c)
           m == Len(I)
           l == Len(t)
           a == at[k - 1]
           p == w.p[k]
           e == w.e[k]
<1>1. /\ a \in Nat /\ p = a + 1 /\ e = a + 1 + m /\ w.quoted[k] = c.quoted
      /\ L \in Nat /\ e \in 1 .. L + 1
  <2>1. /\ a \in Nat /\ p = a + 1 /\ e = a + 1 + m /\ w.quoted[k] = c.quoted
        /\ L \in Nat /\ w.e \in [1 .. n -> 1 .. L + 1]
    BY LaidOutIs
  <2> QED
    BY <2>1
<1>2. \A q \in 1 .. m : line[a + q] = I[q]
  BY DEF ColumnsAreAt
<1>3. IsColumn(c) /\ t # <<>> /\ Quote \notin Range(t) /\ "\\" \notin Range(t)
  <2>1. DOMAIN row.columns = 1 .. n /\ IsColumn(c)
    BY RowIs
  <2>2. c \in Range(row.columns)
    BY <2>1 DEF Range
  <2> QED
    BY <2>1, <2>2 DEF Understood
<1>4. /\ l \in Nat \ {0} /\ c.quoted \in BOOLEAN /\ t \in Seq(Range(t))
      /\ \A q \in 1 .. l : t[q] \notin {Quote, "\\", "\n"}
      /\ ~c.quoted => \A q \in 1 .. l : t[q] # Space
      /\ IF c.quoted THEN /\ m = l + 2 /\ I[1] = Quote /\ I[l + 2] = Quote
                          /\ \A q \in 1 .. l : I[q + 1] = t[q]
         ELSE I = t
  BY <1>3, InFileIs
<1>5. IsLine(line)
  BY RowIsLine
<1> HIDE DEF n, line, L, w, c, t, I, m, l, a
<1>6. CASE c.quoted
  <2>1. m = l + 2 /\ I[1] = Quote /\ I[l + 2] = Quote /\ \A q \in 1 .. l : I[q + 1] = t[q]
    BY <1>4, <1>6
  <2>2. line[p] = Quote
    <3>1. 1 \in 1 .. m
      BY <1>4, <2>1
    <3>2. line[a + 1] = I[1]
      BY <1>2, <3>1
    <3> QED
      BY <1>1, <2>1, <3>2
  <2>3. line[e - 1] = Quote
    <3>1. l + 2 \in 1 .. m /\ e - 1 = a + (l + 2)
      BY <1>1, <1>4, <2>1
    <3>2. line[a + (l + 2)] = I[l + 2]
      BY <1>2, <3>1
    <3> QED
      BY <2>1, <3>1, <3>2
  <2>4. \A q \in 1 .. l : line[a + (q + 1)] = t[q]
    <3> TAKE q \in 1 .. l
    <3> DEFINE r == q + 1
    <3>1. r \in 1 .. m
      BY <1>4, <2>1
    <3>2. I[r] = t[q]
      BY <2>1
    <3> HIDE DEF r
    <3>3. line[a + r] = t[q]
      BY <1>2, <3>1, <3>2
    <3> QED
      BY <3>3 DEF r
  <2>5. \A x \in p + 1 .. e - 2 : line[x] \notin {Quote, "\\", "\n"}
    <3> TAKE x \in p + 1 .. e - 2
    <3> DEFINE q == x - a - 1
    <3>1. q \in 1 .. l /\ a + (q + 1) = x
      BY <1>1, <1>4, <2>1
    <3> HIDE DEF q
    <3>2. line[x] = t[q]
      BY <2>4, <3>1
    <3> QED
      BY <1>4, <3>1, <3>2
  <2>6. p + 3 <= e /\ p < e
    BY <1>1, <1>4, <2>1
  <2>7. QuotedAt(w, line, k)
    BY <2>2, <2>3, <2>5, <2>6 DEF QuotedAt
  <2>8. TextFrom(w, k) = a + 2 /\ TextTo(w, k) = a + 1 + l
    <3>1. TextFrom(w, k) = p + 1 /\ TextTo(w, k) = e - 2
      BY <1>1, <1>6 DEF TextFrom, TextTo
    <3> QED
      BY <1>1, <1>4, <2>1, <3>1
  <2>9. SubSeq(line, a + 2, a + 1 + l) = t
    <3> DEFINE b == a + 1
    <3>1. \A q \in 1 .. l : b + q = a + (q + 1)
      BY <1>1, <1>4
    <3>2. b \in Nat /\ b + l <= L /\ b + 1 = a + 2
      BY <1>1, <1>4, <2>1
    <3> HIDE DEF b
    <3>3. \A q \in 1 .. l : line[b + q] = t[q]
      BY <2>4, <3>1
    <3>4. line \in Seq(Range(line))
      BY <1>5 DEF IsLine
    <3>5. SubSeq(line, b + 1, b + l) = t
      <4>1. b + Len(t) <= Len(line) /\ \A q \in 1 .. Len(t) : line[b + q] = t[q]
        BY <3>2, <3>3 DEF l, L
      <4> QED
        BY <1>4, <3>2, <3>4, <4>1, TextIsCutOut DEF l
    <3> QED
      BY <3>2, <3>5 DEF b
  <2> QED
    BY <1>1, <1>6, <2>6, <2>7, <2>8, <2>9 DEF line, t, w, c
<1>7. CASE ~c.quoted
  <2>1. I = t /\ m = l
    BY <1>4, <1>7 DEF m, l
  <2>2. \A x \in p .. e - 1 : line[x] \notin {Space, Quote, "\\", "\n"}
    <3> TAKE x \in p .. e - 1
    <3> DEFINE q == x - a
    <3>1. q \in 1 .. l /\ a + q = x
      BY <1>1, <1>4, <2>1
    <3> HIDE DEF q
    <3>2. line[x] = t[q]
      BY <1>2, <2>1, <3>1
    <3> QED
      BY <1>4, <1>7, <3>1, <3>2
  <2>3. PlainAt(w, line, k) /\ p < e
    BY <1>1, <1>4, <2>1, <2>2 DEF PlainAt
  <2>4. TextFrom(w, k) = a + 1 /\ TextTo(w, k) = a + l
    <3>1. TextFrom(w, k) = p /\ TextTo(w, k) = e - 1
      BY <1>1, <1>7 DEF TextFrom, TextTo
    <3> QED
      BY <1>1, <1>4, <2>1, <3>1
  <2>5. SubSeq(line, a + 1, a + l) = t
    <3>1. a + l <= L
      BY <1>1, <1>4, <2>1
    <3>2. \A q \in 1 .. l : line[a + q] = t[q]
      BY <1>2, <2>1
    <3>3. line \in Seq(Range(line))
      BY <1>5 DEF IsLine
    <3>4. a + Len(t) <= Len(line) /\ \A q \in 1 .. Len(t) : line[a + q] = t[q]
      BY <3>1, <3>2 DEF l, L
    <3> QED
      BY <1>1, <1>4, <3>3, <3>4, TextIsCutOut DEF l
  <2> QED
    BY <1>1, <1>7, <2>3, <2>4, <2>5 DEF line, t, w, c
<1> QED
  BY <1>6, <1>7

LEMMA RowIsLaid ==
    ASSUME NEW row, IsRow(row), Understood(row)
    PROVE  \E w : /\ IsLaid(w, LineOf(row)) /\ w.n = Len(row.columns)
                  /\ \A k \in 1 .. w.n :
                         SubSeq(LineOf(row), TextFrom(w, k), TextTo(w, k)) = row.columns[k].text
<1> DEFINE n == Len(row.columns)
           line == LineOf(row)
           L == Len(line)
           z == Len(row.ending)
<1>1. PICK at \in [0 .. n -> Nat] : ColumnsAreAt(at, row)
  BY LineAt
<1> DEFINE w == LaidOut(at, row)
<1>2. /\ n \in Nat \ {0} /\ L \in Nat /\ at[n] <= L /\ w.n = n
      /\ w.p[1] = 1 /\ w.p[n + 1] = L + 1
      /\ w.p \in [1 .. n + 1 -> 1 .. L + 1] /\ w.e \in [1 .. n -> 1 .. L + 1]
      /\ w.quoted \in [1 .. n -> BOOLEAN]
  BY <1>1, LaidOutIs
<1>3. \A k \in 1 .. n :
          /\ at[k - 1] \in Nat /\ at[k] \in Nat
          /\ w.p[k] = at[k - 1] + 1
          /\ w.e[k] = at[k - 1] + 1 + Len(InFile(row.columns[k]))
          /\ w.quoted[k] = row.columns[k].quoted
          /\ w.e[k] <= at[k] + 1
          /\ k < n => w.e[k] + Len(row.gap) = w.p[k + 1]
          /\ k = n => w.e[k] = at[n] + 1
  BY <1>1, LaidOutIs
<1>4. /\ IsLine(line) /\ Len(row.gap) \in Nat \ {0} /\ z \in Nat
      /\ \A q \in 1 .. z : row.ending[q] = Space \/ (row.ending[q] = "\n" /\ q = z)
  BY RowIs, RowIsLine
<1>5. /\ L = at[n] + z
      /\ \A k \in 1 .. n : Len(InFile(row.columns[k])) \in Nat
      /\ \A j \in 0 .. n : \A i \in 0 .. j : at[i] <= at[j]
      /\ \A k \in 1 .. n : k < n =>
               \A q \in 1 .. Len(row.gap) :
                   line[at[k - 1] + (Len(InFile(row.columns[k])) + q)] = Space
      /\ \A q \in 1 .. z : line[at[n] + q] = row.ending[q]
  BY <1>1 DEF ColumnsAreAt
<1>6. \A k \in 1 .. n :
          /\ w.p[k] < w.e[k]
          /\ IF w.quoted[k] THEN QuotedAt(w, line, k) ELSE PlainAt(w, line, k)
          /\ SubSeq(line, TextFrom(w, k), TextTo(w, k)) = row.columns[k].text
  BY <1>1, ColumnInLine
<1>7. row.ending = <<>> => ~row.columns[n].quoted
  BY Zenon DEF Understood, Last
<1>8. row.ending \in Seq({Space, "\n"})
  BY Zenon DEF IsRow
<1> HIDE DEF n, line, L, z, w
<1>9. \A k \in 1 .. n : /\ w.p[k] \in 1 .. L + 1 /\ w.e[k] \in 1 .. L + 1
                        /\ w.p[k + 1] \in 1 .. L + 1
  <2> TAKE k \in 1 .. n
  <2>1. k \in 1 .. n + 1 /\ k + 1 \in 1 .. n + 1
    BY <1>2
  <2> QED
    BY <1>2, <2>1
<1>10. \A k \in 1 .. n : w.e[k] <= w.p[k + 1] /\ (k < n => w.e[k] < w.p[k + 1])
  <2> TAKE k \in 1 .. n
  <2>1. CASE k < n
    BY <1>3, <1>4, <1>9, <2>1
  <2>2. CASE k = n
    BY <1>2, <1>9, <2>2
  <2> QED
    BY <1>2, <2>1, <2>2
<1>11. ASSUME NEW k \in 1 .. n, k < n, NEW q \in w.e[k] .. w.p[k + 1] - 1
       PROVE  line[q] = Space
  <2> DEFINE m == Len(InFile(row.columns[k]))
             a == at[k - 1]
             g == Len(row.gap)
             r == q - a - m
  <2>1. a \in Nat /\ m \in Nat /\ g \in Nat /\ w.e[k] = a + 1 + m /\ w.e[k] + g = w.p[k + 1]
    BY <1>3, <1>4, <1>5, <1>11
  <2>2. \A x \in 1 .. g : line[a + (m + x)] = Space
    BY <1>5, <1>11
  <2> HIDE DEF m, a, g
  <2>3. r \in 1 .. g /\ a + (m + r) = q
    BY <2>1
  <2> HIDE DEF r
  <2> QED
    BY <2>2, <2>3
<1>12. ASSUME NEW q \in w.e[n] .. L
       PROVE  line[q] = Space \/ (line[q] = "\n" /\ q = L)
  <2> DEFINE b == at[n]
             r == q - b
  <2>1. n \in 1 .. n
    BY <1>2
  <2>2. b \in Nat /\ w.e[n] = b + 1 /\ L = b + z
    BY <1>3, <1>5, <2>1
  <2>3. \A x \in 1 .. z : line[b + x] = row.ending[x]
    BY <1>5
  <2> HIDE DEF b
  <2>4. r \in 1 .. z /\ b + r = q /\ (r = z => q = L)
    BY <1>4, <2>2
  <2> HIDE DEF r
  <2>5. line[q] = row.ending[r]
    BY <2>3, <2>4
  <2> QED
    BY <1>4, <2>4, <2>5
<1>13. ASSUME w.e[n] = L + 1 PROVE ~w.quoted[n]
  <2>1. n \in 1 .. n
    BY <1>2
  <2>2. at[n] \in Nat /\ w.e[n] = at[n] + 1
    BY <1>3, <2>1
  <2>3. z = 0
    BY <1>4, <1>5, <1>13, <2>2
  <2>4. row.ending = <<>>
    <3>1. row.ending # <<>> => Len(row.ending) # 0
      BY <1>8, NotEmpty
    <3> QED
      BY <2>3, <3>1 DEF z
  <2> QED
    BY <1>3, <1>7, <2>1, <2>4
<1>14. ASSUME NEW j \in 1 .. n, NEW k \in 1 .. n, j < k PROVE w.e[j] < w.p[k]
  <2>1. j < n /\ j \in 0 .. k - 1 /\ k - 1 \in 0 .. n
    BY <1>2, <1>14
  <2>2. at[j] <= at[k - 1]
    BY <1>5, <2>1
  <2>3. w.e[j] + Len(row.gap) = w.p[j + 1] /\ w.p[k] = at[k - 1] + 1
        /\ at[k - 1] \in Nat /\ at[j] \in Nat
    BY <1>3, <2>1
  <2>4. w.p[j + 1] = at[j] + 1
    <3> DEFINE i == j + 1
    <3>1. i \in 1 .. n /\ i - 1 = j
      BY <1>2, <2>1
    <3> HIDE DEF i
    <3>2. w.p[i] = at[j] + 1
      BY <1>3, <3>1
    <3> QED
      BY <3>2 DEF i
  <2> QED
    BY <1>4, <1>9, <2>2, <2>3, <2>4
<1>15. IsLaid(w, line)
  <2>1. \A k \in 1 .. n :
            /\ w.p[k] < w.e[k] /\ w.e[k] <= w.p[k + 1]
            /\ IF w.quoted[k] THEN QuotedAt(w, line, k) ELSE PlainAt(w, line, k)
            /\ k < n => w.e[k] < w.p[k + 1] /\ \A q \in w.e[k] .. w.p[k + 1] - 1 : line[q] = Space
    BY <1>6, <1>10, <1>11
  <2> QED
    BY <1>2, <1>4, <1>12, <1>13, <1>14, <2>1 DEF IsLaid, L
<1>16. w.n = n /\ \A k \in 1 .. n :
           SubSeq(line, TextFrom(w, k), TextTo(w, k)) = row.columns[k].text
  BY <1>2, <1>6
<1> QED
  BY <1>15, <1>16 DEF n, line

(***************************************************************************)
(* splitLine() finds the columns of a row that it understands: as many as  *)
(* there are, and the text of each.                                        *)
(***************************************************************************)
LEMMA RowIsSplit ==
    ASSUME NEW row, IsRow(row), Understood(row), Len(row.columns) < MaxColumns
    PROVE  /\ SplitLine(LineOf(row)).count = {Len(row.columns)}
           /\ \A k \in 1 .. Len(row.columns) :
                  SplitLine(LineOf(row)).columns[k] = row.columns[k].text
<1>1. PICK w : /\ IsLaid(w, LineOf(row)) /\ w.n = Len(row.columns)
               /\ \A k \in 1 .. w.n :
                      SubSeq(LineOf(row), TextFrom(w, k), TextTo(w, k)) = row.columns[k].text
  BY RowIsLaid
<1>2. /\ SplitLine(LineOf(row)).count = {w.n}
      /\ \A k \in 1 .. w.n :
             SplitLine(LineOf(row)).columns[k]
                 = SubSeq(LineOf(row), TextFrom(w, k), TextTo(w, k))
  BY <1>1, LaidIsSplit
<1> QED
  BY <1>1, <1>2

-----------------------------------------------------------------------------
(***************************************************************************)
(* What the first rows of a file, m behind its header, say.                *)
(***************************************************************************)
ColumnNamed(argument, name) ==
    FirstOf({c \in DOMAIN TextsOf(Head(argument.rows)) : TextsOf(Head(argument.rows))[c] = name})

KeyAt(argument)   == ColumnNamed(argument, argument.key)
ValueAt(argument) == ColumnNamed(argument, argument.value)

IsUsedRow(row, argument) ==
    /\ Len(row.columns) \in {KeyAt(argument), ValueAt(argument)}
    /\ Len(row.columns) >= KeyAt(argument) /\ Len(row.columns) >= ValueAt(argument)
    /\ LineOf(row)[1] # "#"

KeyOf(i, argument)   == Tail(argument.rows)[i].columns[KeyAt(argument)].text
ValueOf(i, argument) == Tail(argument.rows)[i].columns[ValueAt(argument)].text

UsedUpTo(m, argument) == {i \in 1 .. m : IsUsedRow(Tail(argument.rows)[i], argument)}

FirstWith(k, m, argument) == FirstOf({i \in UsedUpTo(m, argument) : KeyOf(i, argument) = k})

MeaningUpTo(m, argument) ==
    [k \in {KeyOf(i, argument) : i \in UsedUpTo(m, argument)} |->
         ValueOf(FirstWith(k, m, argument), argument)]

LEMMA MeaningIsWhole ==
    ASSUME NEW argument, IsSeq(argument.rows), argument.rows # <<>>
    PROVE  MeaningUpTo(Len(argument.rows) - 1, argument) = Meaning(argument)
<1> DEFINE rows == Tail(argument.rows)
           m == Len(argument.rows) - 1
<1>1. DOMAIN rows = 1 .. m
  <2>1. ASSUME NEW S, NEW s \in Seq(S), s # <<>> PROVE DOMAIN Tail(s) = 1 .. Len(s) - 1
    <3>1. Tail(s) \in Seq(S) /\ Len(Tail(s)) = Len(s) - 1
      BY <2>1
    <3> QED
      BY <3>1, SeqIs
  <2> QED
    BY <2>1 DEF IsSeq
<1>2. UsedUpTo(m, argument) = {i \in DOMAIN rows : IsUsedRow(rows[i], argument)}
  BY <1>1 DEF UsedUpTo
<1>3. Meaning(argument) =
          LET used == {i \in DOMAIN rows : IsUsedRow(rows[i], argument)}
          IN  [k \in {KeyOf(i, argument) : i \in used} |->
                   ValueOf(FirstOf({i \in used : KeyOf(i, argument) = k}), argument)]
  BY DEF Meaning, IsUsedRow, KeyOf, ValueOf, KeyAt, ValueAt, ColumnNamed
<1> HIDE DEF rows, m
<1> QED
  BY <1>2, <1>3 DEF MeaningUpTo, FirstWith, m

LEMMA MeaningIsNothing ==
    ASSUME NEW argument
    PROVE  MeaningUpTo(0, argument) = <<>>
<1>1. UsedUpTo(0, argument) = {}
  BY DEF UsedUpTo
<1>2. DOMAIN MeaningUpTo(0, argument) = {}
  BY <1>1 DEF MeaningUpTo
<1>3. MeaningUpTo(0, argument) = [k \in {} |-> 0]
  BY <1>1 DEF MeaningUpTo
<1>4. <<>> = [k \in {} |-> 0]
  <2>1. [k \in {} |-> 0] \in [1 .. 0 -> {}]
    OBVIOUS
  <2>2. [k \in {} |-> 0] \in Seq({}) /\ Len([k \in {} |-> 0]) = 0
    BY <2>1, IsSeqOf
  <2> QED
    BY <2>2
<1> QED
  BY <1>3, <1>4

LEMMA MeaningStays ==
    ASSUME NEW argument, NEW m \in Nat, ~IsUsedRow(Tail(argument.rows)[m + 1], argument)
    PROVE  MeaningUpTo(m + 1, argument) = MeaningUpTo(m, argument)
<1>1. 1 .. m + 1 = 1 .. m \cup {m + 1}
  OBVIOUS
<1>2. UsedUpTo(m + 1, argument) = UsedUpTo(m, argument)
  BY <1>1 DEF UsedUpTo
<1> QED
  BY <1>2 DEF MeaningUpTo, FirstWith

LEMMA MeaningGrows ==
    ASSUME NEW argument, NEW m \in Nat, IsUsedRow(Tail(argument.rows)[m + 1], argument)
    PROVE  MeaningUpTo(m + 1, argument) =
               WithRow(MeaningUpTo(m, argument), KeyOf(m + 1, argument), ValueOf(m + 1, argument))
<1> DEFINE U == UsedUpTo(m, argument)
           Key(i) == KeyOf(i, argument)
           Value(i) == ValueOf(i, argument)
           F == MeaningUpTo(m, argument)
           G == MeaningUpTo(m + 1, argument)
           R == WithRow(F, Key(m + 1), Value(m + 1))
<1>1. 1 .. m + 1 = 1 .. m \cup {m + 1}
  OBVIOUS
<1>2. UsedUpTo(m + 1, argument) = U \cup {m + 1} /\ U \in SUBSET (1 .. m)
  BY <1>1 DEF UsedUpTo
<1>3. /\ DOMAIN F = {Key(i) : i \in U}
      /\ \A k \in DOMAIN F : F[k] = Value(FirstOf({i \in U : Key(i) = k}))
  BY DEF MeaningUpTo, FirstWith
<1>4. G = [k \in {Key(i) : i \in U \cup {m + 1}} |->
               Value(FirstOf({i \in U \cup {m + 1} : Key(i) = k}))]
  BY <1>2 DEF MeaningUpTo, FirstWith
<1>5. R = [k \in DOMAIN F \cup {Key(m + 1)} |-> IF k \in DOMAIN F THEN F[k] ELSE Value(m + 1)]
  BY DEF WithRow
<1> HIDE DEF U, Key, Value, F, G, R
<1>6. {Key(i) : i \in U \cup {m + 1}} = DOMAIN F \cup {Key(m + 1)}
  BY <1>3
<1>7. ASSUME NEW k \in DOMAIN F \cup {Key(m + 1)}
      PROVE  Value(FirstOf({i \in U \cup {m + 1} : Key(i) = k}))
                 = IF k \in DOMAIN F THEN F[k] ELSE Value(m + 1)
  <2> DEFINE A == {i \in U : Key(i) = k}
             B == {i \in U \cup {m + 1} : Key(i) = k}
  <2>1. CASE k \in DOMAIN F
    <3>1. A # {} /\ A \in SUBSET Nat /\ B \in SUBSET Nat /\ A \subseteq B
          /\ (\A i \in B : i \in A \/ i = m + 1)
          /\ \A i \in A : i <= m
      <4>1. A # {}
        <5>1. PICK i \in U : Key(i) = k
          BY <1>3, <2>1
        <5> QED
          BY <5>1
      <4>2. \A i \in U : i \in Nat /\ i <= m
        BY <1>2
      <4>3. m + 1 \in Nat
        OBVIOUS
      <4> QED
        BY <4>1, <4>2, <4>3
    <3> HIDE DEF A, B
    <3>2. FirstOf(A) \in A /\ \A i \in A : FirstOf(A) <= i
      BY <3>1, FirstOfIsLeast
    <3>3. FirstOf(B) \in B /\ \A i \in B : FirstOf(B) <= i
      BY <3>1, FirstOfIsLeast
    <3>4. FirstOf(B) = FirstOf(A)
      <4>1. FirstOf(B) <= FirstOf(A) /\ FirstOf(A) <= m /\ FirstOf(A) \in Nat /\ FirstOf(B) \in Nat
        BY <3>1, <3>2, <3>3
      <4>2. FirstOf(B) # m + 1
        BY <4>1
      <4>3. FirstOf(B) \in A
        BY <3>1, <3>3, <4>2
      <4>4. FirstOf(A) <= FirstOf(B)
        BY <3>2, <4>3
      <4> QED
        BY <4>1, <4>4
    <3> QED
      BY <1>3, <2>1, <3>4 DEF A, B
  <2>2. CASE k \notin DOMAIN F
    <3>1. k = Key(m + 1) /\ \A i \in U : Key(i) # k
      BY <1>3, <2>2
    <3>2. B = {m + 1}
      BY <3>1
    <3>3. FirstOf(B) \in B
      <4> HIDE DEF B
      <4>1. B # {} /\ B \in SUBSET Nat
        BY <3>2
      <4> QED
        BY <4>1, FirstOfIsLeast
    <3> QED
      BY <2>2, <3>2, <3>3
  <2> QED
    BY <2>1, <2>2
<1>8. G = R
  BY <1>4, <1>5, <1>6, <1>7
<1> QED
  BY <1>8 DEF G, R, F, Key, Value

-----------------------------------------------------------------------------
(***************************************************************************)
(* The options that are done with, and what RowsAreMapped asks of one.     *)
(***************************************************************************)
Opened == Len(given) - Len(arguments)

Good(i) ==
    /\ given[i].rows # <<>>
    /\ \A r \in Range(given[i].rows) : Understood(r) /\ Len(r.columns) < MaxColumns
    /\ \A j \in 1 .. i - 1 : given[j].name = given[i].name => given[j].rows = <<>>

(***************************************************************************)
(* While rows are read: the mapping has a file of its own if and only if   *)
(* it is registered, and it is what the rows read so far say.              *)
(***************************************************************************)
BeingMapped ==
    LET argument == Head(arguments)
    IN  /\ argument.name \in DOMAIN mappingSet
        /\ registered => \A i \in 1 .. Opened :
                             given[i].rows # <<>> => given[i].name # argument.name
        /\ Good(Opened + 1) =>
               /\ registered
               /\ columnIndex = [key |-> KeyAt(argument), value |-> ValueAt(argument)]
               /\ entry = MeaningUpTo(Len(argument.rows) - Len(unread) - 1, argument)
               /\ mappingSet[argument.name] = entry

MappedInv ==
    loading \in {"options", "header", "rows", "done"} =>
        /\ \A i \in 1 .. Opened : given[i].rows # <<>> => given[i].name \in DOMAIN mappingSet
        /\ \A i \in 1 .. Opened : Good(i) => mappingSet[given[i].name] = Meaning(given[i])
        /\ \A name \in DOMAIN mappingSet :
               \E i \in 1 .. Opened + 1 :
                   /\ given[i].rows # <<>> /\ given[i].name = name
                   /\ i = Opened + 1 => loading = "rows"
        /\ loading = "done" => arguments = <<>>
        /\ loading = "rows" => BeingMapped

\* The option whose file is being read
LEMMA ArgumentIs ==
    ASSUME ReadingInv, arguments # <<>>
    PROVE  /\ Opened \in Nat /\ Opened + 1 \in 1 .. Len(given) /\ Len(given) \in Nat
           /\ Head(arguments) = given[Opened + 1]
           /\ Len(given) - Len(Tail(arguments)) = Opened + 1
<1>1. IsSeq(given) /\ EndOf(arguments, given)
  BY DEF ReadingInv, ArgumentsInv
<1>2. /\ Len(arguments) \in Nat \ {0} /\ Len(given) \in Nat
      /\ Len(Tail(arguments)) = Len(arguments) - 1
      /\ Len(given) - Len(arguments) + 1 \in 1 .. Len(given)
      /\ Head(arguments) = given[Len(given) - Len(arguments) + 1]
  BY <1>1, TailIsEnd
<1> DEFINE a == Len(arguments)
           b == Len(given)
           c == Len(Tail(arguments))
<1>3. a \in Nat \ {0} /\ b \in Nat /\ c = a - 1 /\ b - a + 1 \in 1 .. b
  BY <1>2
<1> HIDE DEF a, b, c
<1>4. b - a \in Nat /\ b - c = b - a + 1
  BY <1>3
<1> QED
  BY <1>2, <1>4 DEF Opened, a, b, c

\* The header of such a file names its columns.
LEMMA HeaderNames ==
    ASSUME NEW row, IsRow(row), Understood(row), Len(row.columns) < MaxColumns,
           NEW count \in SplitLine(LineOf(row)).count, NEW name
    PROVE  Named(SplitLine(LineOf(row)), count, name) \cap 1 .. MaxColumns =
               {c \in DOMAIN TextsOf(row) : TextsOf(row)[c] = name}
<1> DEFINE n == Len(row.columns)
           split == SplitLine(LineOf(row))
           texts == TextsOf(row)
<1>1. n \in Nat /\ DOMAIN row.columns = 1 .. n /\ n < MaxColumns /\ MaxColumns \in Nat
  BY RowIs, MaxColumnsAssumption
<1>2. count = n /\ \A k \in 1 .. n : split.columns[k] = row.columns[k].text
  BY RowIsSplit
<1>3. DOMAIN texts = 1 .. n /\ \A k \in 1 .. n : texts[k] = row.columns[k].text
  BY <1>1 DEF TextsOf
<1>4. Named(split, count, name) = {c \in 1 .. n : split.columns[c] = name}
  BY <1>2 DEF Named
<1> HIDE DEF n, split, texts
<1>5. \A c \in 1 .. n : c \in 1 .. MaxColumns
  BY <1>1
<1>6. {c \in 1 .. n : split.columns[c] = name} \cap 1 .. MaxColumns =
          {c \in 1 .. n : texts[c] = name}
  BY <1>2, <1>3, <1>5
<1> QED
  BY <1>3, <1>4, <1>6 DEF split, texts

\* Of such a row, the program uses what its author meant.
LEMMA RowIsUsed ==
    ASSUME NEW row, IsRow(row), Understood(row), Len(row.columns) < MaxColumns,
           NEW count \in SplitLine(LineOf(row)).count,
           NEW argument,
           columnIndex = [key |-> KeyAt(argument), value |-> ValueAt(argument)],
           columnIndex.key \in 1 .. MaxColumns, columnIndex.value \in 1 .. MaxColumns
    PROVE  /\ IsUsed(LineOf(row), count) <=> IsUsedRow(row, argument)
           /\ IsUsedRow(row, argument) =>
                  /\ SplitLine(LineOf(row)).columns[columnIndex.key]
                         = row.columns[KeyAt(argument)].text
                  /\ SplitLine(LineOf(row)).columns[columnIndex.value]
                         = row.columns[ValueAt(argument)].text
<1> DEFINE n == Len(row.columns)
           split == SplitLine(LineOf(row))
           a == KeyAt(argument)
           b == ValueAt(argument)
<1>1. n \in Nat
  BY RowIs
<1>2. count = n /\ \A k \in 1 .. n : split.columns[k] = row.columns[k].text
  BY RowIsSplit
<1>3. columnIndex.key = a /\ columnIndex.value = b /\ a \in Nat \ {0} /\ b \in Nat \ {0}
  <2>1. columnIndex.key = a /\ columnIndex.value = b
    OBVIOUS
  <2>2. a \in 1 .. MaxColumns /\ b \in 1 .. MaxColumns
    BY <2>1
  <2> QED
    BY <2>1, <2>2, MaxColumnsAssumption
<1>4. IsUsedRow(row, argument) <=> n \in {a, b} /\ n >= a /\ n >= b /\ LineOf(row)[1] # "#"
  BY DEF IsUsedRow
<1>5. IsUsed(LineOf(row), count) <=>
          LineOf(row)[1] # "#" /\ count = IF a > b THEN a ELSE b
  BY <1>3 DEF IsUsed, ColumnsToProcess
<1> HIDE DEF n, split, a, b
<1>6. (n \in {a, b} /\ n >= a /\ n >= b) <=> n = IF a > b THEN a ELSE b
  BY <1>1, <1>3
<1>7. n >= a /\ n >= b => a \in 1 .. n /\ b \in 1 .. n
  BY <1>1, <1>3
<1> QED
  BY <1>2, <1>3, <1>4, <1>5, <1>6, <1>7 DEF split, a, b

-----------------------------------------------------------------------------
LEMMA InitMapped == Init => MappedInv
<1> SUFFICES ASSUME Init PROVE MappedInv
  OBVIOUS
<1>1. ReadingInv
  BY InitReading
<1>2. given = arguments /\ mappingSet = <<>> /\ loading = "options"
  BY DEF Init, LoadInit
<1>3. Opened = 0
  <2>1. Len(given) \in Nat
    BY <1>1, WholeIsEnd DEF ReadingInv, ArgumentsInv
  <2> QED
    BY <1>2, <2>1 DEF Opened
<1>4. DOMAIN mappingSet = {}
  BY <1>2
<1> QED
  BY <1>2, <1>3, <1>4 DEF MappedInv

LEMMA OpenFileMaps ==
    ASSUME ReadingInv, MappedInv, OpenFile
    PROVE  MappedInv'
<1>1. /\ loading = "options" /\ arguments # <<>> /\ given' = given
      /\ unread' = Head(arguments).rows /\ mappingSet' = mappingSet
  BY DEF OpenFile
<1>2. /\ \A i \in 1 .. Opened : given[i].rows # <<>> => given[i].name \in DOMAIN mappingSet
      /\ \A i \in 1 .. Opened : Good(i) => mappingSet[given[i].name] = Meaning(given[i])
      /\ \A name \in DOMAIN mappingSet :
             \E i \in 1 .. Opened + 1 :
                 /\ given[i].rows # <<>> /\ given[i].name = name
                 /\ i # Opened + 1
  BY <1>1 DEF MappedInv
<1>3. /\ Opened \in Nat /\ Head(arguments) = given[Opened + 1]
      /\ Len(given) - Len(Tail(arguments)) = Opened + 1
  BY <1>1, ArgumentIs
<1>4. CASE unread' = <<>>
  <2>1. arguments' = Tail(arguments) /\ loading' = "options"
    BY <1>1, <1>4 DEF OpenFile
  <2>2. Opened' = Opened + 1
    BY <1>1, <1>3, <2>1 DEF Opened
  <2>3. given[Opened + 1].rows = <<>>
    BY <1>1, <1>3, <1>4
  <2>4. \A i \in 1 .. Opened + 1 : i \in 1 .. Opened \/ i = Opened + 1
    BY <1>3
  <2>5. \A i : Good(i)' <=> Good(i)
    BY <1>1 DEF Good
  <2>6. \A i \in 1 .. Opened + 1 : i # Opened + 1 => i \in 1 .. Opened + 1 + 1 /\ i # Opened + 1 + 1
    BY <1>3
  <2>7. ~Good(Opened + 1)
    BY <2>3 DEF Good
  <2>8. \A i \in 1 .. Opened' : given'[i].rows # <<>> => given'[i].name \in DOMAIN mappingSet'
    BY <1>1, <1>2, <2>2, <2>3, <2>4
  <2>9. \A i \in 1 .. Opened' : Good(i)' => mappingSet'[given'[i].name] = Meaning(given'[i])
    BY <1>1, <1>2, <2>2, <2>4, <2>5, <2>7
  <2>10. \A name \in DOMAIN mappingSet' :
             \E i \in 1 .. Opened' + 1 :
                 given'[i].rows # <<>> /\ given'[i].name = name /\ i # Opened' + 1
    BY <1>1, <1>2, <2>2, <2>6
  <2> QED
    BY <2>1, <2>8, <2>9, <2>10 DEF MappedInv
<1>5. CASE unread' # <<>>
  <2>1. arguments' = arguments /\ loading' = "header"
    BY <1>5 DEF OpenFile
  <2>2. Opened' = Opened
    BY <1>1, <2>1 DEF Opened
  <2>3. \A i : Good(i)' <=> Good(i)
    BY <1>1 DEF Good
  <2> QED
    BY <1>1, <1>2, <2>1, <2>2, <2>3 DEF MappedInv
<1> QED
  BY <1>4, <1>5

\* The rows of a file that RowsAreMapped is about
LEMMA GoodRow ==
    ASSUME ReadingInv, arguments # <<>>, EndOf(unread, Head(arguments).rows), unread # <<>>,
           Good(Opened + 1)
    PROVE  /\ IsRow(Head(unread)) /\ Understood(Head(unread))
           /\ Len(Head(unread).columns) < MaxColumns
<1>1. Head(unread) \in Range(Head(arguments).rows) /\ IsRow(Head(unread))
  BY FileIsRead
<1>2. Head(arguments) = given[Opened + 1]
  BY ArgumentIs
<1> QED
  BY <1>1, <1>2 DEF Good

LEMMA HeaderMaps ==
    ASSUME ReadingInv, MappedInv, ReadHeader, loading' = "rows"
    PROVE  MappedInv'
<1> DEFINE argument == Head(arguments)
           row      == Head(unread)
           split    == SplitLine(LineOf(row))
           name     == argument.name
<1>1. /\ loading = "header" /\ unread # <<>> /\ arguments # <<>>
      /\ EndOf(unread, argument.rows) /\ Len(unread) = Len(argument.rows)
      /\ unread' = Tail(unread) /\ given' = given /\ arguments' = arguments
  BY DEF ReadHeader, ReadingInv, RowsInv
<1>2. /\ \A i \in 1 .. Opened : given[i].rows # <<>> => given[i].name \in DOMAIN mappingSet
      /\ \A i \in 1 .. Opened : Good(i) => mappingSet[given[i].name] = Meaning(given[i])
      /\ \A n \in DOMAIN mappingSet :
             \E i \in 1 .. Opened + 1 :
                 /\ given[i].rows # <<>> /\ given[i].name = n
                 /\ i # Opened + 1
  BY <1>1 DEF MappedInv
<1>3. Opened \in Nat /\ argument = given[Opened + 1]
  BY <1>1, ArgumentIs
<1>4. PICK count \in split.count :
          LET keys     == Named(split, count, argument.key) \cap 1 .. MaxColumns
              values   == Named(split, count, argument.value) \cap 1 .. MaxColumns
          IN  /\ columnIndex' = [key |-> FirstOf(keys), value |-> FirstOf(values)]
              /\ entry' = <<>>
              /\ registered' = (name \notin DOMAIN mappingSet)
              /\ mappingSet' = WithRow(mappingSet, name, <<>>)
  BY Zenon, <1>1 DEF ReadHeader, GiveUp
<1>5. Opened' = Opened /\ (\A i : Good(i)' <=> Good(i))
  BY <1>1 DEF Opened, Good
<1>6. IsSeq(argument.rows) /\ argument.rows # <<>>
  <2>1. IsSeq(argument.rows)
    BY <1>1, FileIsRead
  <2>2. Len(argument.rows) \in Nat \ {0}
    BY <1>1, <2>1, TailIsEnd
  <2>3. argument.rows # <<>>
    <3>1. Len(<<>>) = 0
      OBVIOUS
    <3> QED
      BY <2>2, <3>1
  <2> QED
    BY <2>1, <2>3
<1>7. /\ DOMAIN mappingSet' = DOMAIN mappingSet \cup {name}
      /\ \A k \in DOMAIN mappingSet : mappingSet'[k] = mappingSet[k]
      /\ name \notin DOMAIN mappingSet => mappingSet'[name] = <<>>
  BY <1>4 DEF WithRow
<1>8. \A i \in 1 .. Opened' : given'[i].rows # <<>> => given'[i].name \in DOMAIN mappingSet'
  BY <1>1, <1>2, <1>5, <1>7
<1>9. \A i \in 1 .. Opened' : Good(i)' => mappingSet'[given'[i].name] = Meaning(given'[i])
  <2> SUFFICES ASSUME NEW i \in 1 .. Opened, Good(i)
               PROVE  mappingSet'[given[i].name] = Meaning(given[i])
    BY <1>1, <1>5
  <2>1. given[i].name \in DOMAIN mappingSet
    BY <1>2 DEF Good
  <2> QED
    BY <1>2, <1>7, <2>1
<1>10. \A n \in DOMAIN mappingSet' :
           \E i \in 1 .. Opened' + 1 :
               /\ given'[i].rows # <<>> /\ given'[i].name = n
               /\ i = Opened' + 1 => loading' = "rows"
  <2> SUFFICES ASSUME NEW n \in DOMAIN mappingSet'
               PROVE  \E i \in 1 .. Opened + 1 : given[i].rows # <<>> /\ given[i].name = n
    BY <1>1, <1>5
  <2>1. CASE n \in DOMAIN mappingSet
    BY <1>2, <2>1
  <2>2. CASE n = name
    <3>1. Opened + 1 \in 1 .. Opened + 1
      BY <1>3
    <3> QED
      BY <1>3, <1>6, <2>2, <3>1
  <2> QED
    BY <1>7, <2>1, <2>2
<1>11. BeingMapped'
  <2>1. name \in DOMAIN mappingSet'
    BY <1>7
  <2>2. registered' => \A i \in 1 .. Opened : given[i].rows # <<>> => given[i].name # name
    <3> SUFFICES ASSUME registered', NEW i \in 1 .. Opened, given[i].rows # <<>>
                 PROVE  given[i].name # name
      OBVIOUS
    <3>1. name \notin DOMAIN mappingSet
      BY <1>4
    <3>2. given[i].name \in DOMAIN mappingSet
      BY <1>2
    <3> QED
      BY <3>1, <3>2
  <2>3. ASSUME Good(Opened + 1)
        PROVE  /\ registered'
               /\ columnIndex' = [key |-> KeyAt(argument), value |-> ValueAt(argument)]
               /\ entry' = MeaningUpTo(Len(argument.rows) - Len(unread') - 1, argument)
               /\ mappingSet'[name] = entry'
    <3>1. name \notin DOMAIN mappingSet
      <4> SUFFICES ASSUME name \in DOMAIN mappingSet PROVE FALSE
        OBVIOUS
      <4>1. PICK i \in 1 .. Opened + 1 :
                given[i].rows # <<>> /\ given[i].name = name /\ i # Opened + 1
        BY <1>2
      <4> DEFINE cur == Opened + 1
      <4>2. Good(cur) /\ i \in 1 .. cur - 1
        BY <1>3, <2>3, <4>1
      <4>3. given[i].name = given[cur].name
        BY <1>3, <4>1
      <4> HIDE DEF cur, argument
      <4>4. given[i].rows = <<>>
        BY <4>2, <4>3 DEF Good
      <4> QED
        BY <4>1, <4>4
    <3>2. registered'
      BY <1>4, <3>1
    <3>3. IsRow(row) /\ Understood(row) /\ Len(row.columns) < MaxColumns
      BY <1>1, <2>3, GoodRow
    <3>4. row = Head(argument.rows)
      <4> DEFINE rows == argument.rows
      <4>1. IsSeq(rows) /\ EndOf(unread, rows) /\ EndOf(rows, rows) /\ Len(unread) = Len(rows)
            /\ unread # <<>> /\ rows # <<>>
        BY <1>1, <1>6, WholeIsEnd
      <4> HIDE DEF rows
      <4>2. Head(unread) = rows[Len(rows) - Len(unread) + 1]
        BY <4>1, TailIsEnd
      <4>3. Head(rows) = rows[Len(rows) - Len(rows) + 1]
        BY <4>1, TailIsEnd
      <4>4. Head(unread) = Head(rows)
        BY <4>1, <4>2, <4>3
      <4> QED
        BY <4>4 DEF rows
    <3>5. /\ Named(split, count, argument.key) \cap 1 .. MaxColumns =
                 {c \in DOMAIN TextsOf(row) : TextsOf(row)[c] = argument.key}
          /\ Named(split, count, argument.value) \cap 1 .. MaxColumns =
                 {c \in DOMAIN TextsOf(row) : TextsOf(row)[c] = argument.value}
      BY <1>4, <3>3, HeaderNames
    <3>6. columnIndex' = [key |-> KeyAt(argument), value |-> ValueAt(argument)]
      BY <1>4, <3>4, <3>5 DEF KeyAt, ValueAt, ColumnNamed
    <3>7. Len(argument.rows) - Len(unread') - 1 = 0
      <4> DEFINE l == Len(argument.rows)
      <4>1. Len(unread') = l - 1 /\ l \in Nat
        BY <1>1, <1>6, TailIsEnd
      <4> HIDE DEF l
      <4>2. l - (l - 1) - 1 = 0
        BY <4>1
      <4> QED
        BY <4>1, <4>2 DEF l
    <3>8. entry' = MeaningUpTo(Len(argument.rows) - Len(unread') - 1, argument)
      BY <1>4, <3>7, MeaningIsNothing
    <3>9. mappingSet'[name] = entry'
      BY <1>4, <1>7, <3>1
    <3> QED
      BY <3>2, <3>6, <3>8, <3>9
  <2>4. Good(Opened + 1)' <=> Good(Opened + 1)
    BY <1>1, <1>5 DEF Good
  <2> QED
    BY <1>1, <1>5, <2>1, <2>2, <2>3, <2>4 DEF BeingMapped
<1> QED
  BY <1>8, <1>9, <1>10, <1>11 DEF MappedInv

-----------------------------------------------------------------------------
\* The row that is read next, counted from behind the header
LEMMA NextRow ==
    ASSUME NEW rows, IsSeq(rows), EndOf(unread, rows), unread # <<>>, Len(unread) < Len(rows)
    PROVE  LET m == Len(rows) - Len(unread) - 1
           IN  /\ m \in Nat /\ Len(rows) - Len(Tail(unread)) - 1 = m + 1
               /\ Head(unread) = Tail(rows)[m + 1]
<1> DEFINE n == Len(rows)
           l == Len(unread)
           m == n - l - 1
<1>1. /\ l \in Nat \ {0} /\ n \in Nat /\ Len(Tail(unread)) = l - 1 /\ l < n
      /\ Head(unread) = rows[n - l + 1]
  BY TailIsEnd
<1>2. \A j \in 1 .. n - 1 : Tail(rows)[j] = rows[j + 1]
  <2>1. ASSUME NEW S, NEW s \in Seq(S), s # <<>>
        PROVE  \A j \in 1 .. Len(s) - 1 : Tail(s)[j] = s[j + 1]
    BY <2>1
  <2>2. rows # <<>>
    <3>1. Len(<<>>) = 0
      OBVIOUS
    <3> QED
      BY <1>1, <3>1
  <2> QED
    BY <2>1, <2>2 DEF IsSeq
<1> HIDE DEF n, l
<1>3. m \in Nat /\ n - (l - 1) - 1 = m + 1 /\ m + 1 \in 1 .. n - 1 /\ m + 1 + 1 = n - l + 1
  BY <1>1
<1>4. Tail(rows)[m + 1] = rows[n - l + 1]
  <2> DEFINE j == m + 1
  <2>1. j \in 1 .. n - 1 /\ j + 1 = n - l + 1
    BY <1>3
  <2> HIDE DEF j
  <2>2. Tail(rows)[j] = rows[n - l + 1]
    BY <1>2, <2>1
  <2> QED
    BY <2>2 DEF j
<1> QED
  BY <1>1, <1>3, <1>4 DEF n, l

LEMMA RowMaps ==
    ASSUME ReadingInv, MappedInv, ReadRow, loading' = "rows"
    PROVE  MappedInv'
<1> DEFINE argument == Head(arguments)
           row      == Head(unread)
           split    == SplitLine(LineOf(row))
           name     == argument.name
           m        == Len(argument.rows) - Len(unread) - 1
           key      == split.columns[columnIndex.key]
           value    == split.columns[columnIndex.value]
<1>1. /\ loading = "rows" /\ unread # <<>> /\ arguments # <<>>
      /\ EndOf(unread, argument.rows) /\ Len(unread) < Len(argument.rows)
      /\ unread' = Tail(unread) /\ given' = given /\ arguments' = arguments
      /\ columnIndex.key \in 1 .. MaxColumns /\ columnIndex.value \in 1 .. MaxColumns
  BY DEF ReadRow, ReadingInv, RowsInv
<1>2. /\ \A i \in 1 .. Opened : given[i].rows # <<>> => given[i].name \in DOMAIN mappingSet
      /\ \A i \in 1 .. Opened : Good(i) => mappingSet[given[i].name] = Meaning(given[i])
      /\ \A n \in DOMAIN mappingSet :
             \E i \in 1 .. Opened + 1 : given[i].rows # <<>> /\ given[i].name = n
      /\ BeingMapped
  BY <1>1 DEF MappedInv
<1>3. PICK count \in split.count :
          \/ /\ ~IsUsed(LineOf(row), count)
             /\ UNCHANGED <<columnIndex, entry, registered, mappingSet>>
          \/ /\ IsUsed(LineOf(row), count)
             /\ entry' = WithRow(entry, key, value)
             /\ mappingSet' = IF registered THEN [mappingSet EXCEPT ![name] = entry']
                                            ELSE mappingSet
             /\ UNCHANGED <<columnIndex, registered>>
  BY <1>1 DEF ReadRow, GiveUp
<1>4. /\ Opened' = Opened /\ (\A i : Good(i)' <=> Good(i))
      /\ columnIndex' = columnIndex /\ registered' = registered
  BY <1>1, <1>3 DEF Opened, Good
<1>5. /\ name \in DOMAIN mappingSet
      /\ registered => \A i \in 1 .. Opened : given[i].rows # <<>> => given[i].name # name
      /\ Good(Opened + 1) =>
             /\ registered
             /\ columnIndex = [key |-> KeyAt(argument), value |-> ValueAt(argument)]
             /\ entry = MeaningUpTo(m, argument) /\ mappingSet[name] = entry
  BY <1>2 DEF BeingMapped
<1>6. /\ DOMAIN mappingSet' = DOMAIN mappingSet
      /\ \A k \in DOMAIN mappingSet :
             k # name \/ ~registered => mappingSet'[k] = mappingSet[k]
      /\ registered /\ IsUsed(LineOf(row), count) => mappingSet'[name] = entry'
      /\ ~IsUsed(LineOf(row), count) => mappingSet' = mappingSet /\ entry' = entry
  BY <1>3, <1>5
<1>7. m \in Nat /\ Len(argument.rows) - Len(unread') - 1 = m + 1
      /\ row = Tail(argument.rows)[m + 1]
  <2>1. IsSeq(argument.rows)
    BY <1>1, FileIsRead
  <2> QED
    BY <1>1, <2>1, NextRow
<1> HIDE DEF m
<1>8. ASSUME Good(Opened + 1)
      PROVE  /\ entry' = MeaningUpTo(m + 1, argument) /\ mappingSet'[name] = entry'
  <2>1. IsRow(row) /\ Understood(row) /\ Len(row.columns) < MaxColumns
    BY <1>1, <1>8, GoodRow
  <2>2. /\ registered /\ entry = MeaningUpTo(m, argument) /\ mappingSet[name] = entry
        /\ columnIndex = [key |-> KeyAt(argument), value |-> ValueAt(argument)]
    BY <1>5, <1>8
  <2>3. /\ IsUsed(LineOf(row), count) <=> IsUsedRow(row, argument)
        /\ IsUsedRow(row, argument) =>
              /\ key = row.columns[KeyAt(argument)].text
              /\ value = row.columns[ValueAt(argument)].text
    BY <1>1, <1>3, <2>1, <2>2, RowIsUsed
  <2>4. CASE IsUsed(LineOf(row), count)
    <3>1. key = KeyOf(m + 1, argument) /\ value = ValueOf(m + 1, argument)
      BY <1>7, <2>3, <2>4 DEF KeyOf, ValueOf
    <3>2. IsUsedRow(Tail(argument.rows)[m + 1], argument)
      BY <1>7, <2>3, <2>4
    <3>3. entry' = WithRow(entry, key, value)
      BY <1>3, <2>4
    <3> HIDE DEF argument, key, value
    <3>4. entry' = MeaningUpTo(m + 1, argument)
      BY <1>7, <2>2, <3>1, <3>2, <3>3, MeaningGrows
    <3> QED
      BY <1>6, <2>2, <2>4, <3>4
  <2>5. CASE ~IsUsed(LineOf(row), count)
    <3>1. ~IsUsedRow(Tail(argument.rows)[m + 1], argument)
      BY <1>7, <2>3, <2>5
    <3>2. MeaningUpTo(m + 1, argument) = MeaningUpTo(m, argument)
      BY <1>7, <3>1, MeaningStays
    <3> QED
      BY <1>6, <2>2, <2>5, <3>2
  <2> QED
    BY <2>4, <2>5
<1>9. \A i \in 1 .. Opened' : given'[i].rows # <<>> => given'[i].name \in DOMAIN mappingSet'
  BY <1>1, <1>2, <1>4, <1>6
<1>10. \A i \in 1 .. Opened' : Good(i)' => mappingSet'[given'[i].name] = Meaning(given'[i])
  <2> SUFFICES ASSUME NEW i \in 1 .. Opened, Good(i)
               PROVE  mappingSet'[given[i].name] = Meaning(given[i])
    BY <1>1, <1>4
  <2>1. given[i].rows # <<>>
    BY DEF Good
  <2>2. given[i].name \in DOMAIN mappingSet /\ (given[i].name # name \/ ~registered)
    BY <1>2, <1>5, <2>1
  <2> QED
    BY <1>2, <1>6, <2>2
<1>11. \A n \in DOMAIN mappingSet' :
           \E i \in 1 .. Opened' + 1 :
               /\ given'[i].rows # <<>> /\ given'[i].name = n
               /\ i = Opened' + 1 => loading' = "rows"
  BY <1>1, <1>2, <1>4, <1>6
<1>12. BeingMapped'
  <2>1. Good(Opened + 1)' <=> Good(Opened + 1)
    BY <1>1, <1>4 DEF Good
  <2> QED
    BY <1>1, <1>4, <1>5, <1>6, <1>7, <1>8, <2>1 DEF BeingMapped
<1> QED
  BY <1>9, <1>10, <1>11, <1>12 DEF MappedInv

LEMMA EndOfFileMaps ==
    ASSUME ReadingInv, MappedInv, EndOfFile
    PROVE  MappedInv'
<1> DEFINE argument == Head(arguments)
<1>1. /\ loading = "rows" /\ unread = <<>> /\ arguments # <<>> /\ arguments' = Tail(arguments)
      /\ loading' = "options" /\ given' = given /\ mappingSet' = mappingSet
  BY DEF EndOfFile, ReadingInv, RowsInv
<1>2. /\ \A i \in 1 .. Opened : given[i].rows # <<>> => given[i].name \in DOMAIN mappingSet
      /\ \A i \in 1 .. Opened : Good(i) => mappingSet[given[i].name] = Meaning(given[i])
      /\ \A n \in DOMAIN mappingSet :
             \E i \in 1 .. Opened + 1 : given[i].rows # <<>> /\ given[i].name = n
      /\ argument.name \in DOMAIN mappingSet
      /\ Good(Opened + 1) =>
             /\ entry = MeaningUpTo(Len(argument.rows) - Len(unread) - 1, argument)
             /\ mappingSet[argument.name] = entry
  BY <1>1 DEF MappedInv, BeingMapped
<1>3. /\ Opened \in Nat /\ argument = given[Opened + 1]
      /\ Len(given) - Len(Tail(arguments)) = Opened + 1
  BY <1>1, ArgumentIs
<1>4. Opened' = Opened + 1 /\ (\A i : Good(i)' <=> Good(i))
  BY <1>1, <1>3 DEF Opened, Good
<1>5. Good(Opened + 1) => mappingSet[argument.name] = Meaning(argument)
  <2> SUFFICES ASSUME Good(Opened + 1) PROVE mappingSet[argument.name] = Meaning(argument)
    OBVIOUS
  <2>1. argument.rows # <<>>
    BY <1>3 DEF Good
  <2>2. IsSeq(argument.rows)
    BY <1>1, FileIsRead
  <2>3. Len(argument.rows) - Len(unread) - 1 = Len(argument.rows) - 1
    <3>1. Len(unread) = 0 /\ Len(argument.rows) \in Nat
      BY <1>1, <2>2, WholeIsEnd
    <3> QED
      BY <3>1
  <2> QED
    BY <1>2, <2>1, <2>2, <2>3, MeaningIsWhole
<1> HIDE DEF argument
<1>6. \A i \in 1 .. Opened + 1 : i \in 1 .. Opened \/ i = Opened + 1
  BY <1>3
<1>7. \A i \in 1 .. Opened + 1 : i \in 1 .. Opened + 1 + 1 /\ i # Opened + 1 + 1
  BY <1>3
<1>8. \A i \in 1 .. Opened' : given'[i].rows # <<>> => given'[i].name \in DOMAIN mappingSet'
  BY <1>1, <1>2, <1>3, <1>4, <1>6
<1>9. \A i \in 1 .. Opened' : Good(i)' => mappingSet'[given'[i].name] = Meaning(given'[i])
  BY <1>1, <1>2, <1>3, <1>4, <1>5, <1>6
<1>10. \A n \in DOMAIN mappingSet' :
           \E i \in 1 .. Opened' + 1 :
               given'[i].rows # <<>> /\ given'[i].name = n /\ i # Opened' + 1
  BY <1>1, <1>2, <1>4, <1>7
<1> QED
  BY <1>1, <1>8, <1>9, <1>10 DEF MappedInv

LEMMA LoadMaps ==
    ASSUME ReadingInv, MappedInv, [Next]_vars
    PROVE  MappedInv'
<1>1. CASE OpenFile
  BY <1>1, OpenFileMaps
<1>2. CASE FileFails
  BY <1>2 DEF FileFails, MappedInv
<1>3. CASE ReadHeader
  <2>1. loading' \in {"rows", "failed", "crashed"}
    BY <1>3 DEF ReadHeader, GiveUp
  <2> QED
    BY <1>3, <2>1, HeaderMaps DEF MappedInv
<1>4. CASE ReadRow
  <2>1. loading' \in {"rows", "crashed"}
    BY <1>4 DEF ReadRow, GiveUp
  <2> QED
    BY <1>4, <2>1, RowMaps DEF MappedInv
<1>5. CASE EndOfFile
  BY <1>5, EndOfFileMaps
<1>6. CASE EndOfOptions
  <2>1. /\ loading = "options" /\ arguments = <<>> /\ loading' = "done"
        /\ UNCHANGED <<given, arguments, mappingSet>>
    BY <1>6 DEF EndOfOptions
  <2>2. Opened' = Opened /\ (\A i : Good(i)' <=> Good(i))
    BY <2>1 DEF Opened, Good
  <2> QED
    BY <2>1, <2>2 DEF MappedInv
<1>7. CASE UNCHANGED loadVars
  <2>1. UNCHANGED <<given, arguments, unread, columnIndex, entry, registered, mappingSet, loading>>
    BY <1>7 DEF loadVars
  <2>2. Opened' = Opened /\ (\A i : Good(i)' <=> Good(i))
    BY <2>1 DEF Opened, Good
  <2>3. Good(Opened + 1)' <=> Good(Opened + 1)
    BY <2>1, <2>2 DEF Good
  <2>4. BeingMapped' <=> BeingMapped
    BY <2>1, <2>2, <2>3 DEF BeingMapped
  <2> QED
    BY <2>1, <2>2, <2>4 DEF MappedInv
<1> QED
  BY <1>1, <1>2, <1>3, <1>4, <1>5, <1>6, <1>7
     DEF Next, LoadMappings, Load, BeginExport, SkipComment, ApplyTemplate,
         NoSuchMapping, EndExport, Finished, vars

(***************************************************************************)
(* When all options are read, each mapping is what the first file of its   *)
(* name that is not empty says (addMapping(), splitLine()).                *)
(***************************************************************************)
THEOREM RowsAreAlwaysMapped == Spec => []RowsAreMapped
<1>1. ReadingInv /\ MappedInv => RowsAreMapped
  <2> SUFFICES ASSUME ReadingInv, MappedInv, loading = "done", NEW i \in DOMAIN given, Good(i)
               PROVE  mappingSet[given[i].name] = Meaning(given[i])
    BY DEF RowsAreMapped, Good
  <2>1. arguments = <<>> /\ \A j \in 1 .. Opened : Good(j) => mappingSet[given[j].name] = Meaning(given[j])
    BY DEF MappedInv
  <2>2. DOMAIN given = 1 .. Len(given) /\ Len(given) \in Nat
    <3>1. given \in Seq(Range(given))
      BY DEF ReadingInv, ArgumentsInv, IsSeq
    <3> QED
      BY <3>1, SeqIs
  <2>3. Opened = Len(given)
    BY <2>1, <2>2 DEF Opened
  <2> QED
    BY <2>1, <2>2, <2>3
<1>2. Spec => [](ReadingInv /\ MappedInv)
  BY InitReading, InitMapped, LoadReads, LoadMaps, PTL DEF Spec
<1> QED
  BY <1>1, <1>2, PTL
=============================================================================
