--------------------------- MODULE UrlCheckProofs ---------------------------
(***************************************************************************)
(* For any number of publications, any documents that the web may have,    *)
(* and any number of runs: the types, the temporary files, what a check    *)
(* without errors has done, and that the entries and the stored documents  *)
(* are about the same.                                                     *)
(***************************************************************************)
EXTENDS UrlCheck, TLAPS

(***************************************************************************)
(* Types.  A check counts at most one error for each publication that it   *)
(* has been through.                                                       *)
(***************************************************************************)
InLoop == pc \in {"loop", "download", "frame", "rename"}
AtDocument == pc \in {"download", "frame", "rename"}

ErrorsCounted ==
    /\ AtDocument => at <= N
    /\ InLoop => errors < at

Found == pc = "rename" => doc \in [document : Docs, mime : Mimes \cup {Unnamed}]

FrameIsDynamic == pc = "frame" => at \in Dynamic

TypeInv == TypeOK /\ ErrorsCounted /\ Found /\ FrameIsDynamic

(***************************************************************************)
(* The publications that the loop has left behind.  A check that is done   *)
(* has been through all of them, unless it could not begin.                *)
(***************************************************************************)
NoError == pc # "idle" /\ errors = 0 /\ "notTruncated" \notin trouble

IsChecked(p) == entry[p].size # None /\ entry[p].checked

IsSettled(p) ==
    opts.store /\ entry[p].mime # None => stored[p][Extension(entry[p].mime)] # None

\* What the loop leaves of a publication, if it is not a frame for another protocol
IsLeftAs(p) ==
    \/ IsChecked(p) /\ IsSettled(p)
    \/ p \in Dynamic /\ "otherFrame" \in trouble

AllThrough == pc = "done" => at = N + 1 \/ errors # 0

CheckedBefore ==
    NoError => \A p \in Http : p < at => IsLeftAs(p)

(***************************************************************************)
(* Between the update of the entry and rename().                           *)
(***************************************************************************)
Renaming ==
    pc = "rename" =>
        /\ IsChecked(at)
        /\ entry[at].mime \in {doc.mime, None}
        /\ entry[at].md5 \in {doc.document, Ignore}

CheckInv == AllThrough /\ CheckedBefore /\ Renaming

(***************************************************************************)
(* Entries and stored documents match: those in the file while nothing     *)
(* runs, those in the memory during a run, but for the publication whose   *)
(* document is about to be renamed.                                        *)
(***************************************************************************)
Untroubled == trouble \cap {"noDirectory", "notStored", "notExported", "crash"} = {}

Matches(e, p) ==
    LET file == stored[p][Extension(e.mime)]
    IN  Known(e) /\ file # None => e.md5 \in {file, Ignore, None}

MatchInv ==
    Untroubled =>
        /\ pc = "idle" => \A p \in Publications : Matches(bib[p], p)
        /\ pc # "idle" =>
            /\ opts.store
            /\ \A p \in Publications :
                   (pc = "rename" /\ p = at) \/ Matches(entry[p], p)

(***************************************************************************)
(* There are temporary files only while there is a document.  The PDF      *)
(* documents, in the memory or in the BibTeX file, have been found by some *)
(* check.                                                                  *)
(***************************************************************************)
TempsInv ==
    /\ ~AtDocument => temps = {}
    /\ trouble \cap {"noTempFile", "crash"} = {} => left \subseteq {PDFInfo}

PDFInv ==
    \A p \in Publications : "pdf" \in {bib[p].mime, entry[p].mime} => PDFInfo \in left

IInv == TypeInv /\ TempsInv /\ PDFInv /\ CheckInv /\ MatchInv

-----------------------------------------------------------------------------
(***************************************************************************)
(* What the entry is after an update, whatever it was before.              *)
(***************************************************************************)
LEMMA UpdatedIsEntry ==
    ASSUME TypeOK, NEW e \in Entry, NEW d \in Docs, NEW mime \in NameOf(d)
    PROVE  /\ Updated(e, d, mime) \in Entry
           /\ Updated(e, d, mime).size # None
           /\ Updated(e, d, mime).checked
           /\ Updated(e, d, mime).mime \in {mime, None}
           /\ Updated(e, d, mime).md5 \in {d, Ignore}
<1>1. SizeOf[d] \in Nat /\ SizeOf[d] # None
  BY DocsAssumption
<1>2. mime \in Mimes \cup {Unnamed}
  BY DocsAssumption DEF NameOf
<1> DEFINE u == Updated(e, d, mime)
<1>4. u.size = SizeOf[d] /\ u.checked = TRUE
  BY DEF Updated
<1>5. u.mime = IF e.mime = None /\ mime = Unnamed THEN None ELSE mime
  BY DEF Updated
<1>6. u.md5 \in {d, Ignore}
  BY DEF Updated
<1>7. u = [size |-> u.size, mime |-> u.mime, md5 |-> u.md5, checked |-> u.checked]
  BY DEF Updated
<1> HIDE DEF u
<1>8. u.mime \in Mimes \cup {Unnamed, None}
  BY <1>2, <1>5
<1> QED
  BY <1>1, <1>4, <1>5, <1>6, <1>7, <1>8 DEF Entry, u

\* What is written to the file and read back again
LEMMA ReadBackIsEntry ==
    ASSUME NEW e \in Entry
    PROVE  /\ ReadBack(e) \in Entry
           /\ ReadBack(e).mime = IF e.mime = Unnamed THEN None ELSE e.mime
           /\ ReadBack(e).size = e.size /\ ReadBack(e).md5 = e.md5
           /\ ReadBack(e).checked = e.checked
BY DEF ReadBack, Entry

\* What the user leaves of an entry
LEMMA RemovedIsEntry ==
    ASSUME NEW e \in Entry
    PROVE  /\ [e EXCEPT !.md5 = None] \in Entry
           /\ [e EXCEPT !.mime = None] \in Entry
           /\ NewEntry \in Entry
BY DEF Entry, NewEntry

\* A document of any type has a name in the directory.
LEMMA ExtensionIsThere == \A mime : Extension(mime) \in Extensions
BY DEF Extension, Extensions

-----------------------------------------------------------------------------
LEMMA InitTypes == Init => TypeInv
<1> SUFFICES ASSUME Init PROVE TypeInv
  OBVIOUS
<1>1. NewEntry \in Entry
  BY DEF NewEntry, Entry
<1>2. bib \in [Publications -> Entry] /\ entry \in [Publications -> Entry]
  BY <1>1 DEF Init
<1>3. stored \in [Publications -> [Extensions -> Docs \cup {None}]]
  BY DEF Init
<1>4. at \in 1 .. N + 1 /\ errors \in (0 .. N) \cup {1} /\ checks \in 0 .. MaxChecks
  BY NAssumption, MaxChecksAssumption DEF Init
<1> QED
  BY <1>2, <1>3, <1>4 DEF Init, TypeInv, TypeOK, ErrorsCounted, Found, FrameIsDynamic, InLoop,
     AtDocument

LEMMA NextTypes == TypeInv /\ [Next]_vars => TypeInv'
<1> SUFFICES ASSUME TypeInv, [Next]_vars PROVE TypeInv'
  OBVIOUS
<1> USE NAssumption, MaxChecksAssumption DEF TypeInv, TypeOK, ErrorsCounted, Found, FrameIsDynamic, InLoop, AtDocument, Uncounted
<1>1. CASE Run
  BY <1>1 DEF Run, BeginCheck
<1>2. CASE CheckAgain
  BY <1>2 DEF CheckAgain, BeginCheck
<1>3. CASE SetUpFails
  BY <1>3 DEF SetUpFails
<1>4. CASE Skip
  BY <1>4 DEF Skip, AtPublication, NextPublication
<1>5. CASE NoTempFile
  BY <1>5 DEF NoTempFile, AtPublication, NextPublication
<1>6. CASE BeginDownload
  BY <1>6 DEF BeginDownload, AtPublication
<1>7. CASE DownloadFails
  BY <1>7 DEF DownloadFails, GiveUpDownload, Downloading, NextPublication
<1>8. CASE OtherProtocol
  BY <1>8 DEF OtherProtocol, GiveUpDownload, Downloading, NextPublication
<1>9. CASE NotTruncated
  BY <1>9 DEF NotTruncated, GiveUpDownload, Downloading, NextPublication
<1>10. CASE Update
  <2>1. PICK d \in Docs, mime \in Mimes \cup {Unnamed} :
            /\ mime \in NameOf(d)
            /\ entry' = [entry EXCEPT ![at] = Updated(@, d, mime)]
            /\ doc' = [document |-> d, mime |-> mime]
    BY <1>10 DEF Update
  <2>0. left' \subseteq TempFiles \cup {PDFInfo}
    BY <1>10 DEF Update
  <2>2. at \in Publications /\ entry[at] \in Entry
    BY <1>10, NAssumption DEF Update, Downloading, Publications
  <2>3. Updated(entry[at], d, mime) \in Entry
    BY <2>1, <2>2, UpdatedIsEntry
  <2>4. entry' \in [Publications -> Entry]
    BY <2>1, <2>2, <2>3
  <2>5. doc' \in [document : Docs, mime : Mimes \cup {Unnamed}]
    BY <2>1
  <2>6. CASE opts.store
    BY <1>10, <2>0, <2>4, <2>5, <2>6 DEF Update, Downloading
  <2>7. CASE ~opts.store
    BY <1>10, <2>0, <2>4, <2>5, <2>7 DEF Update, Downloading, NextPublication
  <2> QED
    BY <2>6, <2>7
<1>11. CASE Rename
  <2>1. at \in Publications
    BY <1>11 DEF Rename, Publications
  <2>2. doc.document \in Docs
    BY <1>11 DEF Rename
  <2> QED
    BY <1>11, <2>1, <2>2, ExtensionIsThere DEF Rename, NextPublication
<1>12. CASE RenameFails
  BY <1>12 DEF RenameFails, NextPublication
<1>13. CASE EndCheck
  BY <1>13 DEF EndCheck
<1>14. CASE Export
  BY <1>14, ReadBackIsEntry DEF Export, ReadBackAll
<1>15. CASE Quit
  BY <1>15 DEF Quit
<1>16. CASE Crash
  BY <1>16 DEF Crash, Downloading
<1>17. CASE RemoveStored
  BY <1>17 DEF RemoveStored
<1>18. CASE RemoveFields
  <2>1. PICK p \in Publications :
            \E e \in {[bib[p] EXCEPT !.md5 = None], [bib[p] EXCEPT !.mime = None], NewEntry} :
                bib' = [bib EXCEPT ![p] = e]
    BY <1>18 DEF RemoveFields
  <2>2. bib[p] \in Entry
    OBVIOUS
  <2>3. \A e \in {[bib[p] EXCEPT !.md5 = None], [bib[p] EXCEPT !.mime = None], NewEntry} :
            e \in Entry
    BY <2>2, RemovedIsEntry
  <2>4. bib' \in [Publications -> Entry]
    BY <2>1, <2>3
  <2> QED
    BY <1>18, <2>4 DEF RemoveFields
<1>19. CASE FollowFrame
  BY <1>19 DEF FollowFrame
<1>20. CASE OtherFrame
  BY <1>20 DEF OtherFrame, GiveUpDownload, Downloading, NextPublication
<1>21. CASE UNCHANGED vars
  BY <1>21 DEF vars
<1> QED
  BY <1>1, <1>2, <1>3, <1>4, <1>5, <1>6, <1>7, <1>8, <1>9, <1>10, <1>11, <1>12, <1>13,
     <1>14, <1>15, <1>16, <1>17, <1>18, <1>19, <1>20, <1>21 DEF Next

-----------------------------------------------------------------------------
(***************************************************************************)
(* The temporary files.                                                    *)
(***************************************************************************)
LEMMA NextTemps == TypeInv /\ TempsInv /\ [Next]_vars => TempsInv'
<1> SUFFICES ASSUME TypeInv, TempsInv, [Next]_vars PROVE TempsInv'
  OBVIOUS
<1> USE DEF TempsInv, AtDocument, Uncounted
<1>1. CASE Run
  BY <1>1 DEF Run, BeginCheck
<1>2. CASE CheckAgain
  BY <1>2 DEF CheckAgain, BeginCheck
<1>3. CASE SetUpFails
  BY <1>3 DEF SetUpFails
<1>4. CASE Skip
  BY <1>4 DEF Skip, AtPublication, NextPublication
<1>5. CASE NoTempFile
  BY <1>5 DEF NoTempFile, AtPublication, NextPublication
<1>6. CASE BeginDownload
  BY <1>6 DEF BeginDownload
<1>7. CASE DownloadFails
  BY <1>7 DEF DownloadFails, GiveUpDownload, Downloading, NextPublication
<1>8. CASE OtherProtocol
  BY <1>8 DEF OtherProtocol, GiveUpDownload, Downloading, NextPublication
<1>9. CASE NotTruncated
  BY <1>9 DEF NotTruncated, GiveUpDownload, Downloading, NextPublication
<1>10. CASE Update
  BY <1>10 DEF Update, NextPublication
<1>11. CASE Rename
  BY <1>11 DEF Rename, NextPublication
<1>12. CASE RenameFails
  BY <1>12 DEF RenameFails, NextPublication
<1>13. CASE EndCheck
  BY <1>13 DEF EndCheck, AtPublication
<1>14. CASE Export
  BY <1>14 DEF Export
<1>15. CASE Quit
  BY <1>15 DEF Quit
<1>16. CASE Crash
  BY <1>16 DEF Crash, Downloading
<1>17. CASE RemoveStored
  BY <1>17 DEF RemoveStored
<1>18. CASE RemoveFields
  BY <1>18 DEF RemoveFields
<1>19. CASE FollowFrame
  BY <1>19 DEF FollowFrame
<1>20. CASE OtherFrame
  BY <1>20 DEF OtherFrame, GiveUpDownload, Downloading, NextPublication
<1>21. CASE UNCHANGED vars
  BY <1>21 DEF vars
<1> QED
  BY <1>1, <1>2, <1>3, <1>4, <1>5, <1>6, <1>7, <1>8, <1>9, <1>10, <1>11, <1>12, <1>13,
     <1>14, <1>15, <1>16, <1>17, <1>18, <1>19, <1>20, <1>21 DEF Next

(***************************************************************************)
(* The PDF documents.  The entries only change to one in Update; the file  *)
(* gets what is in the memory, and the other way round.                    *)
(***************************************************************************)
LEMMA NextPDF == TypeInv /\ PDFInv /\ [Next]_vars => PDFInv'
<1> SUFFICES ASSUME TypeInv, PDFInv, [Next]_vars, NEW p \in Publications,
                    "pdf" \in {bib'[p].mime, entry'[p].mime}
             PROVE  PDFInfo \in left'
  BY DEF PDFInv
<1>1. left \subseteq left'
  BY DEF Next, vars, Run, CheckAgain, SetUpFails, Skip, NoTempFile, BeginDownload,
         FollowFrame, DownloadFails, OtherProtocol, OtherFrame, NotTruncated,
         GiveUpDownload, Update, Rename, RenameFails, EndCheck, Export, Quit, Crash,
         RemoveStored, RemoveFields
<1>2. CASE "pdf" \in {bib[p].mime, entry[p].mime}
  BY <1>1, <1>2 DEF PDFInv
<1>3. CASE "pdf" \notin {bib[p].mime, entry[p].mime}
  <2>1. bib[p] \in Entry /\ entry[p] \in Entry /\ None # "pdf" /\ Unnamed # "pdf"
    BY DocsAssumption DEF TypeInv, TypeOK, Mimes, Unnamed
  <2>2. CASE Update
    <3>1. PICK d \in Docs, mime \in Mimes \cup {Unnamed} :
              /\ mime \in NameOf(d)
              /\ entry' = [entry EXCEPT ![at] = Updated(@, d, mime)]
              /\ left' = IF mime = "pdf" THEN left \cup {PDFInfo} ELSE left
      BY <2>2 DEF Update
    <3>2. bib' = bib /\ entry \in [Publications -> Entry]
      BY <2>2 DEF Update, TypeInv, TypeOK
    <3>3. p = at /\ entry'[p] = Updated(entry[p], d, mime)
      BY <1>3, <3>1, <3>2
    <3>4. Updated(entry[p], d, mime).mime \in {mime, None}
      BY <2>1, <3>1, UpdatedIsEntry DEF TypeInv
    <3> QED
      BY <1>3, <2>1, <3>1, <3>2, <3>3, <3>4
  <2>3. CASE Run \/ CheckAgain
    BY <1>3, <2>3 DEF Run, CheckAgain
  <2>4. CASE Export
    BY <1>3, <2>1, <2>4, ReadBackIsEntry DEF Export, ReadBackAll
  <2>5. CASE RemoveFields
    <3>1. PICK q \in Publications :
              \E e \in {[bib[q] EXCEPT !.md5 = None], [bib[q] EXCEPT !.mime = None], NewEntry} :
                  bib' = [bib EXCEPT ![q] = e]
      BY <2>5 DEF RemoveFields
    <3>2. bib[q] \in Entry /\ bib \in [Publications -> Entry]
      BY DEF TypeInv, TypeOK
    <3>3. \A e \in {[bib[q] EXCEPT !.md5 = None], [bib[q] EXCEPT !.mime = None], NewEntry} :
              e.mime \in {bib[q].mime, None}
      BY <3>2 DEF Entry, NewEntry
    <3>4. bib'[p].mime \in {bib[p].mime, None}
      BY <3>1, <3>2, <3>3
    <3> QED
      BY <1>3, <2>1, <2>5, <3>4 DEF RemoveFields
  <2>6. (bib' = bib /\ entry' = entry) \/ Update \/ Run \/ CheckAgain \/ Export \/ RemoveFields
    BY DEF Next, vars, SetUpFails, Skip, NoTempFile, BeginDownload, FollowFrame,
           DownloadFails, OtherProtocol, OtherFrame, NotTruncated, GiveUpDownload,
           Rename, RenameFails, EndCheck, Quit, Crash, RemoveStored
  <2> QED
    BY <1>3, <2>2, <2>3, <2>4, <2>5, <2>6
<1> QED
  BY <1>2, <1>3

-----------------------------------------------------------------------------
(***************************************************************************)
(* The check itself.  When the loop leaves a publication without an error, *)
(* it is enough that this one is as it should be: the entries and the      *)
(* documents of the others have not changed.                               *)
(***************************************************************************)
LEMMA LeavesPublication ==
    ASSUME TypeInv, CheckInv, pc # "idle", at \in Publications, opts' = opts,
           at' = at + 1, pc' = "loop", trouble \subseteq trouble',
           \A p \in Publications \ {at} : entry'[p] = entry[p] /\ stored'[p] = stored[p],
           errors' = 0 => errors = 0,
           \A p \in Http : p = at /\ NoError' => IsLeftAs(p)'
    PROVE  CheckInv'
<1>1. AllThrough' /\ Renaming'
  BY DEF AllThrough, Renaming
<1>2. ASSUME NoError', NEW p \in Http, p < at'
      PROVE  IsLeftAs(p)'
  <2>1. p \in Publications /\ NoError
    BY <1>2, NAssumption DEF NoError
  <2>2. p \in Nat /\ at \in Nat /\ (p < at \/ p = at)
    BY <1>2, <2>1 DEF Publications
  <2>3. CASE p = at
    BY <1>2, <2>3
  <2>4. CASE p < at
    <3>1. entry'[p] = entry[p] /\ stored'[p] = stored[p]
      BY <2>1, <2>2, <2>4 DEF Publications
    <3>2. IsLeftAs(p)
      BY <2>1, <2>4 DEF CheckInv, CheckedBefore
    <3> QED
      BY <3>1, <3>2 DEF IsLeftAs, IsChecked, IsSettled
  <2> QED
    BY <2>2, <2>3, <2>4
<1> QED
  BY <1>1, <1>2 DEF CheckInv, CheckedBefore

LEMMA UpdateIsChecked ==
    ASSUME TypeInv, Update
    PROVE  /\ at \in Publications
           /\ entry'[at].size # None /\ entry'[at].checked
           /\ entry'[at].mime \in {doc'.mime, None}
           /\ entry'[at].md5 \in {doc'.document, Ignore}
           /\ \A p \in Publications \ {at} : entry'[p] = entry[p]
<1>1. at \in Publications /\ entry[at] \in Entry /\ entry \in [Publications -> Entry]
  BY NAssumption DEF Update, Downloading, TypeInv, TypeOK, Publications
<1>2. PICK d \in Docs, mime \in Mimes \cup {Unnamed} :
          /\ mime \in NameOf(d)
          /\ entry' = [entry EXCEPT ![at] = Updated(@, d, mime)]
          /\ doc' = [document |-> d, mime |-> mime]
  BY DEF Update
<1>3. entry'[at] = Updated(entry[at], d, mime)
  BY <1>1, <1>2
<1>4. doc'.document = d /\ doc'.mime = mime
  BY <1>2
<1>5. /\ Updated(entry[at], d, mime).size # None
      /\ Updated(entry[at], d, mime).checked
      /\ Updated(entry[at], d, mime).mime \in {mime, None}
      /\ Updated(entry[at], d, mime).md5 \in {d, Ignore}
  BY <1>1, <1>2, UpdatedIsEntry DEF TypeInv
<1> QED
  BY <1>1, <1>2, <1>3, <1>4, <1>5
LEMMA NextChecked == TypeInv /\ CheckInv /\ [Next]_vars => CheckInv'
<1> SUFFICES ASSUME TypeInv, CheckInv, [Next]_vars PROVE CheckInv'
  OBVIOUS
<1>0. \A p \in Http : p \in Nat /\ p >= 1
  BY NAssumption DEF Publications
<1>1. CASE Run
  BY <1>0, <1>1 DEF Run, BeginCheck, Uncounted, CheckInv, AllThrough, CheckedBefore, Renaming
<1>2. CASE CheckAgain
  BY <1>0, <1>2 DEF CheckAgain, BeginCheck, Uncounted, CheckInv, AllThrough, CheckedBefore, Renaming
<1>3. CASE SetUpFails
  BY <1>3 DEF SetUpFails, CheckInv, AllThrough, CheckedBefore, Renaming, NoError
<1>4. CASE Skip
  <2>1. IsChecked(at) /\ IsSettled(at)
    BY <1>4 DEF Skip, Skips, Known, IsChecked, IsSettled
  <2>2. \A p \in Http : p = at => IsLeftAs(p)'
    BY <1>4, <2>1 DEF Skip, IsLeftAs, IsChecked, IsSettled
  <2>3. errors' = errors
    BY <1>4 DEF Skip, NextPublication, TypeInv, TypeOK
  <2> QED
    BY <1>4, <2>2, <2>3, LeavesPublication
       DEF Skip, AtPublication, NextPublication, TypeInv, TypeOK, Publications
<1>5. CASE NoTempFile
  <2>1. errors' = errors + 1 /\ errors' # 0
    BY <1>5 DEF NoTempFile, NextPublication, TypeInv, TypeOK
  <2> QED
    BY <1>5, <2>1, LeavesPublication
       DEF NoTempFile, AtPublication, NextPublication, NoError, TypeInv, TypeOK, Publications
<1>6. CASE BeginDownload
  BY <1>6 DEF BeginDownload, AtPublication, CheckInv, AllThrough, CheckedBefore, Renaming,
              NoError, IsLeftAs, IsChecked, IsSettled
<1>7. CASE DownloadFails
  <2>1. errors' = errors + 1 /\ errors' # 0
    BY <1>7 DEF DownloadFails, GiveUpDownload, Downloading, NextPublication, TypeInv, TypeOK
  <2> QED
    BY <1>7, <2>1, NAssumption, LeavesPublication
       DEF DownloadFails, GiveUpDownload, Downloading, NextPublication, NoError, TypeInv, TypeOK,
           ErrorsCounted, AtDocument, Publications
<1>8. CASE OtherProtocol
  <2>1. errors' = errors /\ at \notin Http
    BY <1>8 DEF OtherProtocol, GiveUpDownload, Downloading, NextPublication, TypeInv, TypeOK
  <2> QED
    BY <1>8, <2>1, NAssumption, LeavesPublication
       DEF OtherProtocol, GiveUpDownload, Downloading, NextPublication, TypeInv, TypeOK,
           ErrorsCounted, AtDocument, Publications
<1>9. CASE NotTruncated
  <2>1. errors' = errors /\ ~NoError'
    BY <1>9 DEF NotTruncated, GiveUpDownload, Downloading, NextPublication, TypeInv, TypeOK, NoError
  <2> QED
    BY <1>9, <2>1, NAssumption, LeavesPublication
       DEF NotTruncated, GiveUpDownload, Downloading, NextPublication, TypeInv, TypeOK,
           ErrorsCounted, AtDocument, Publications
<1>10. CASE Update
  <2>1. /\ at \in Publications
        /\ entry'[at].size # None /\ entry'[at].checked
        /\ entry'[at].mime \in {doc'.mime, None}
        /\ entry'[at].md5 \in {doc'.document, Ignore}
        /\ \A p \in Publications \ {at} : entry'[p] = entry[p]
    BY <1>10, UpdateIsChecked
  <2>2. CASE opts.store
    <3>1. at' = at /\ errors' = errors /\ pc' = "rename" /\ pc # "idle"
          /\ opts' = opts /\ stored' = stored /\ trouble' = trouble
      BY <1>10, <2>2 DEF Update, Downloading
    <3>2. AllThrough' /\ Renaming'
      BY <2>1, <3>1 DEF AllThrough, Renaming, IsChecked
    <3>3. CheckedBefore'
      <4>1. NoError' => NoError
        BY <3>1 DEF NoError
      <4>2. \A p \in Http : p < at => entry'[p] = entry[p]
        BY <1>0, <2>1, NAssumption
      <4> QED
        BY <3>1, <4>1, <4>2 DEF CheckInv, CheckedBefore, IsLeftAs, IsChecked, IsSettled
    <3> QED
      BY <3>2, <3>3 DEF CheckInv
  <2>3. CASE ~opts.store
    <3>1. \A p \in Http : p = at => IsLeftAs(p)'
      BY <1>10, <2>1, <2>3 DEF Update, IsLeftAs, IsChecked, IsSettled
    <3>2. errors' = errors
      BY <1>10, <2>3 DEF Update, NextPublication, TypeInv, TypeOK
    <3> QED
      BY <1>10, <2>1, <2>3, <3>1, <3>2, LeavesPublication DEF Update, Downloading, NextPublication
  <2> QED
    BY <2>2, <2>3
<1>11. CASE Rename
  <2>1. at \in Publications /\ doc.document \in Docs /\ Extension(doc.mime) \in Extensions
    BY <1>11, NAssumption, ExtensionIsThere
       DEF Rename, TypeInv, TypeOK, ErrorsCounted, AtDocument, Found, Publications
  <2>2. /\ stored'[at][Extension(doc.mime)] = doc.document
        /\ \A p \in Publications \ {at} : stored'[p] = stored[p]
    BY <1>11, <2>1 DEF Rename, TypeInv, TypeOK
  <2>3. doc.document # None
    BY <2>1, DocsAssumption
  <2>4. \A p \in Http : p = at => IsLeftAs(p)'
    BY <1>11, <2>2, <2>3 DEF Rename, CheckInv, Renaming, IsLeftAs, IsChecked, IsSettled
  <2>5. errors' = errors
    BY <1>11 DEF Rename, NextPublication, TypeInv, TypeOK
  <2> QED
    BY <1>11, <2>1, <2>2, <2>4, <2>5, LeavesPublication DEF Rename, NextPublication
<1>12. CASE RenameFails
  <2>1. errors' = errors + 1 /\ errors' # 0
    BY <1>12 DEF RenameFails, NextPublication, TypeInv, TypeOK
  <2> QED
    BY <1>12, <2>1, NAssumption, LeavesPublication
       DEF RenameFails, NextPublication, NoError, TypeInv, TypeOK, ErrorsCounted, AtDocument,
           Publications
<1>13. CASE EndCheck
  BY <1>13 DEF EndCheck, CheckInv, AllThrough, CheckedBefore, Renaming, NoError,
               IsLeftAs, IsChecked, IsSettled
<1>14. CASE Export
  BY <1>14 DEF Export, CheckInv, AllThrough, CheckedBefore, Renaming, NoError,
               IsLeftAs, IsChecked, IsSettled
<1>15. CASE Quit
  BY <1>15 DEF Quit, CheckInv, AllThrough, CheckedBefore, Renaming, NoError
<1>16. CASE Crash
  BY <1>16 DEF Crash, CheckInv, AllThrough, CheckedBefore, Renaming, NoError
<1>17. CASE RemoveStored
  BY <1>17 DEF RemoveStored, CheckInv, AllThrough, CheckedBefore, Renaming, NoError
<1>18. CASE RemoveFields
  BY <1>18 DEF RemoveFields, CheckInv, AllThrough, CheckedBefore, Renaming, NoError
<1>19. CASE FollowFrame
  BY <1>19 DEF FollowFrame, CheckInv, AllThrough, CheckedBefore, Renaming, NoError,
               IsLeftAs, IsChecked, IsSettled
<1>20. CASE OtherFrame
  <2>1. errors' = errors /\ "otherFrame" \in trouble' /\ at \notin Http \ Dynamic
    BY <1>20 DEF OtherFrame, GiveUpDownload, Downloading, NextPublication, TypeInv, TypeOK, FrameIsDynamic
  <2>2. \A p \in Http : p = at => IsLeftAs(p)'
    BY <2>1 DEF IsLeftAs
  <2> QED
    BY <1>20, <2>1, <2>2, NAssumption, LeavesPublication
       DEF OtherFrame, GiveUpDownload, Downloading, NextPublication, TypeInv, TypeOK,
           ErrorsCounted, AtDocument, Publications
<1>21. CASE UNCHANGED vars
  BY <1>21 DEF vars, CheckInv, AllThrough, CheckedBefore, Renaming, NoError,
               IsLeftAs, IsChecked, IsSettled
<1> QED
  BY <1>1, <1>2, <1>3, <1>4, <1>5, <1>6, <1>7, <1>8, <1>9, <1>10, <1>11, <1>12, <1>13,
     <1>14, <1>15, <1>16, <1>17, <1>18, <1>19, <1>20, <1>21 DEF Next
-----------------------------------------------------------------------------
(***************************************************************************)
(* Entries and stored documents.  A step of the loop that changes nothing  *)
(* for the other publications only has to make its own one match.          *)
(***************************************************************************)
LEMMA StaysMatched ==
    ASSUME TypeInv, MatchInv, pc # "idle", pc' # "idle", opts' = opts,
           trouble \subseteq trouble',
           \A p \in Publications \ {at} : entry'[p] = entry[p] /\ stored'[p] = stored[p],
           pc = "rename" => at' = at + 1,
           \A p \in Publications :
               p = at /\ Untroubled' => (pc' = "rename" /\ at' = at) \/ Matches(entry[p], p)'
    PROVE  MatchInv'
<1> SUFFICES ASSUME Untroubled'
             PROVE  /\ opts'.store
                    /\ \A p \in Publications :
                           (pc' = "rename" /\ p = at') \/ Matches(entry[p], p)'
  BY DEF MatchInv
<1>1. Untroubled
  BY DEF Untroubled
<1>2. /\ opts.store
      /\ \A p \in Publications : (pc = "rename" /\ p = at) \/ Matches(entry[p], p)
  BY <1>1 DEF MatchInv
<1>3. ASSUME NEW p \in Publications
      PROVE  (pc' = "rename" /\ p = at') \/ Matches(entry[p], p)'
  <2>1. CASE p = at
    BY <2>1
  <2>2. CASE p # at
    <3>1. Matches(entry[p], p)
      BY <1>2, <2>2
    <3>2. entry'[p] = entry[p] /\ stored'[p] = stored[p]
      BY <2>2
    <3> QED
      BY <3>1, <3>2 DEF Matches
  <2> QED
    BY <2>1, <2>2
<1> QED
  BY <1>2, <1>3

LEMMA NextMatched == TypeInv /\ CheckInv /\ MatchInv /\ [Next]_vars => MatchInv'
<1> SUFFICES ASSUME TypeInv, CheckInv, MatchInv, [Next]_vars PROVE MatchInv'
  OBVIOUS
<1>0. ASSUME pc # "idle", pc # "rename", Untroubled, NEW p \in Publications
      PROVE  Matches(entry[p], p)
  BY <1>0 DEF MatchInv
<1>1. CASE Run
  <2>1. /\ entry' = bib /\ stored' = stored /\ pc = "idle" /\ pc' = "loop"
        /\ Untroubled' => Untroubled /\ opts'.store
    BY <1>1 DEF Run, BeginCheck, Uncounted, Untroubled
  <2> QED
    BY <2>1 DEF MatchInv, Matches
<1>2. CASE CheckAgain
  <2>1. /\ UNCHANGED <<entry, stored, opts>> /\ pc = "done" /\ pc' = "loop"
        /\ Untroubled' => Untroubled
    BY <1>2 DEF CheckAgain, BeginCheck, Uncounted, Untroubled
  <2> QED
    BY <2>1 DEF MatchInv, Matches
<1>3. CASE SetUpFails
  BY <1>3 DEF SetUpFails, MatchInv, Matches, Untroubled
<1>4. CASE Skip
  BY <1>4 DEF Skip, AtPublication, NextPublication, MatchInv, Matches, Untroubled
<1>5. CASE NoTempFile
  BY <1>5 DEF NoTempFile, AtPublication, NextPublication, MatchInv, Matches, Untroubled
<1>6. CASE BeginDownload
  BY <1>6 DEF BeginDownload, AtPublication, MatchInv, Matches, Untroubled
<1>7. CASE DownloadFails
  BY <1>7 DEF DownloadFails, GiveUpDownload, Downloading, NextPublication, MatchInv, Matches, Untroubled
<1>8. CASE OtherProtocol
  BY <1>8 DEF OtherProtocol, GiveUpDownload, Downloading, NextPublication, MatchInv, Matches, Untroubled
<1>9. CASE NotTruncated
  BY <1>9 DEF NotTruncated, GiveUpDownload, Downloading, NextPublication, MatchInv, Matches, Untroubled
<1>10. CASE Update
  <2>1. \A p \in Publications \ {at} : entry'[p] = entry[p]
    BY <1>10, UpdateIsChecked
  <2>2. CASE opts.store
    <3>1. pc' = "rename" /\ at' = at /\ Downloading
      BY <1>10, <2>2 DEF Update
    <3> QED
      BY <1>10, <2>1, <3>1, StaysMatched DEF Update, Downloading
  <2>3. CASE ~opts.store
    <3>1. ~Untroubled'
      BY <1>10, <2>3 DEF Update, Downloading, MatchInv, Untroubled
    <3> QED
      BY <3>1 DEF MatchInv
  <2> QED
    BY <2>2, <2>3
<1>11. CASE Rename
  <2>1. at \in Publications /\ Extension(doc.mime) \in Extensions
    BY <1>11, NAssumption, ExtensionIsThere
       DEF Rename, TypeInv, TypeOK, ErrorsCounted, AtDocument, Publications
  <2>2. /\ stored'[at][Extension(doc.mime)] = doc.document
        /\ \A p \in Publications \ {at} : stored'[p] = stored[p]
    BY <1>11, <2>1 DEF Rename, TypeInv, TypeOK
  <2>3. entry[at].mime \in {doc.mime, None} /\ entry[at].md5 \in {doc.document, Ignore}
    BY <1>11 DEF Rename, CheckInv, Renaming
  <2>4. \A p \in Publications : p = at => Matches(entry[p], p)'
    BY <1>11, <2>2, <2>3 DEF Rename, Matches, Known
  <2> QED
    BY <1>11, <2>2, <2>4, StaysMatched DEF Rename, NextPublication
<1>12. CASE RenameFails
  BY <1>12 DEF RenameFails, MatchInv, Untroubled
<1>13. CASE EndCheck
  BY <1>13 DEF EndCheck, MatchInv, Matches, Untroubled
<1>14. CASE Export
  BY <1>14 DEF Export, MatchInv, Matches, Untroubled
<1>15. CASE Quit
  <2> SUFFICES ASSUME Untroubled', NEW p \in Publications
               PROVE  Matches(bib[p], p)'
    BY <1>15 DEF Quit, MatchInv
  <2>1. bib = ReadBackAll /\ Untroubled
    BY <1>15 DEF Quit, Untroubled
  <2>2. bib[p] = ReadBack(entry[p]) /\ entry[p] \in Entry
    BY <2>1 DEF ReadBackAll, TypeInv, TypeOK
  <2>3. Matches(entry[p], p)
    BY <1>0, <1>15, <2>1 DEF Quit
  <2>4. Matches(bib[p], p)
    BY <2>2, <2>3, ReadBackIsEntry DEF Matches, Known
  <2> QED
    BY <1>15, <2>4 DEF Quit, Matches
<1>16. CASE Crash
  BY <1>16 DEF Crash, MatchInv, Untroubled
<1>17. CASE RemoveStored
  <2>1. PICK q \in Publications, e \in Extensions : stored' = [stored EXCEPT ![q][e] = None]
    BY <1>17 DEF RemoveStored
  <2>2. \A p \in Publications, f \in Extensions : stored'[p][f] \in {stored[p][f], None}
    BY <2>1 DEF TypeInv, TypeOK
  <2>3. ASSUME Untroubled', NEW p \in Publications PROVE Matches(bib[p], p)'
    <3>1. Untroubled /\ Matches(bib[p], p)
      BY <1>17, <2>3 DEF RemoveStored, MatchInv, Untroubled
    <3> QED
      BY <1>17, <2>2, <3>1, ExtensionIsThere DEF RemoveStored, Matches
  <2> QED
    BY <1>17, <2>3 DEF RemoveStored, MatchInv
<1>18. CASE RemoveFields
  <2>1. PICK q \in Publications :
            \/ bib' = [bib EXCEPT ![q].md5 = None]
            \/ bib' = [bib EXCEPT ![q].mime = None]
            \/ bib' = [bib EXCEPT ![q] = NewEntry]
    BY <1>18 DEF RemoveFields
  <2>2. bib[q] \in Entry /\ bib \in [Publications -> Entry]
    BY DEF TypeInv, TypeOK
  <2>3. \/ /\ bib'[q].md5 = None /\ bib'[q].mime = bib[q].mime
           /\ bib'[q].size = bib[q].size /\ bib'[q].checked = bib[q].checked
        \/ bib'[q].mime = None
    BY <2>1, <2>2 DEF NewEntry, Entry
  <2>4. \A p \in Publications \ {q} : bib'[p] = bib[p]
    BY <2>1, <2>2
  <2>5. ASSUME Untroubled', NEW p \in Publications PROVE Matches(bib[p], p)'
    <3>1. Untroubled /\ Matches(bib[p], p)
      BY <1>18, <2>5 DEF RemoveFields, MatchInv, Untroubled
    <3>2. CASE p = q
      BY <1>18, <2>3, <3>2 DEF RemoveFields, Matches, Known
    <3>3. CASE p # q
      BY <1>18, <2>4, <3>1, <3>3 DEF RemoveFields, Matches
    <3> QED
      BY <3>2, <3>3
  <2> QED
    BY <1>18, <2>5 DEF RemoveFields, MatchInv
<1>19. CASE FollowFrame
  BY <1>19 DEF FollowFrame, MatchInv, Matches, Untroubled
<1>20. CASE OtherFrame
  BY <1>20 DEF OtherFrame, GiveUpDownload, Downloading, NextPublication, MatchInv, Matches,
               Untroubled
<1>21. CASE UNCHANGED vars
  BY <1>21 DEF vars, MatchInv, Matches, Untroubled
<1> QED
  BY <1>1, <1>2, <1>3, <1>4, <1>5, <1>6, <1>7, <1>8, <1>9, <1>10, <1>11, <1>12, <1>13,
     <1>14, <1>15, <1>16, <1>17, <1>18, <1>19, <1>20, <1>21 DEF Next

-----------------------------------------------------------------------------
LEMMA InitIInv == Init => IInv
<1> SUFFICES ASSUME Init PROVE IInv
  OBVIOUS
<1>1. TypeInv
  BY InitTypes
<1>2. TempsInv /\ CheckInv
  BY DEF Init, TempsInv, CheckInv, AllThrough, CheckedBefore, Renaming, NoError
<1>3. NewEntry.mime # "pdf"
  BY DocsAssumption DEF NewEntry, Mimes
<1>4. PDFInv
  BY <1>3 DEF Init, PDFInv
<1>5. \A p \in Publications : ~Known(bib[p])
  BY DEF Init, NewEntry, Known
<1>6. MatchInv
  BY <1>5 DEF Init, MatchInv, Matches
<1> QED
  BY <1>1, <1>2, <1>4, <1>6 DEF IInv

LEMMA Invariance == Spec => []IInv
<1>1. Init => IInv
  BY InitIInv
<1>2. IInv /\ [Next]_vars => IInv'
  BY NextTypes, NextTemps, NextPDF, NextChecked, NextMatched DEF IInv
<1> QED
  BY <1>1, <1>2, PTL DEF Spec

(***************************************************************************)
(* The types of all variables, and that a check never counts more errors   *)
(* than there are publications.                                            *)
(***************************************************************************)
THEOREM TypeCorrect == Spec => []TypeOK
<1>1. IInv => TypeOK
  BY DEF IInv, TypeInv
<1> QED
  BY <1>1, Invariance, PTL

(***************************************************************************)
(* Of the files of checkAllURLs(), only the output of pdfinfo stays behind *)
(* when all temporary files could be created and nothing crashed, and it   *)
(* does stay once there was a PDF document.                                *)
(***************************************************************************)
THEOREM OnlyPDFInfoLeft == Spec => []OnlyPDFInfoIsLeft
<1>1. IInv => OnlyPDFInfoIsLeft
  BY DEF IInv, TempsInv, PDFInv, OnlyPDFInfoIsLeft, AtDocument
<1> QED
  BY <1>1, Invariance, PTL

(***************************************************************************)
(* A check without errors has looked at all publications on the web, but   *)
(* for the frames that it could not follow.                                *)
(***************************************************************************)
THEOREM NoErrorChecked == Spec => []NoErrorMeansChecked
<1>1. IInv => NoErrorMeansChecked
  <2> SUFFICES ASSUME IInv, pc = "done", errors = 0, "notTruncated" \notin trouble,
                      NEW p \in Http
               PROVE  IsChecked(p) \/ (p \in Dynamic /\ "otherFrame" \in trouble)
    BY DEF NoErrorMeansChecked, IsChecked
  <2>1. at = N + 1 /\ p < at
    BY NAssumption DEF IInv, CheckInv, AllThrough, Publications
  <2> QED
    BY <2>1 DEF IInv, CheckInv, CheckedBefore, IsLeftAs, NoError
<1> QED
  BY <1>1, Invariance, PTL

(***************************************************************************)
(* After such a check with --store-downloads, the next one downloads       *)
(* nothing whose type is known.                                            *)
(***************************************************************************)
THEOREM NoErrorSettled == Spec => []NoErrorMeansSettled
<1>1. IInv => NoErrorMeansSettled
  <2> SUFFICES ASSUME IInv, pc = "done", errors = 0, opts.store,
                      "notTruncated" \notin trouble,
                      NEW p \in Http, entry[p].mime # None,
                      ~(p \in Dynamic /\ "otherFrame" \in trouble)
               PROVE  Skips(p)
    BY DEF NoErrorMeansSettled
  <2>1. at = N + 1 /\ p < at
    BY NAssumption DEF IInv, CheckInv, AllThrough, Publications
  <2>2. IsChecked(p) /\ IsSettled(p)
    BY <2>1 DEF IInv, CheckInv, CheckedBefore, IsLeftAs, NoError
  <2> QED
    BY <2>2 DEF IsChecked, IsSettled, Skips, Known
<1> QED
  BY <1>1, Invariance, PTL

(***************************************************************************)
(* Through all runs, whatever documents the web has and whatever the user  *)
(* removes, the entries are about the documents in the directory.          *)
(***************************************************************************)
THEOREM StoredMatches == Spec => []StoredMatchesEntry
<1>1. IInv => StoredMatchesEntry
  BY DEF IInv, MatchInv, Untroubled, Matches, StoredMatchesEntry
<1> QED
  BY <1>1, Invariance, PTL
=============================================================================
