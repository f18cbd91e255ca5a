------------------------------ MODULE UrlCheck ------------------------------
(***************************************************************************)
(* checkAllURLs() of bibtexconv.cc, over the runs of the program that a    *)
(* maintained BibTeX file goes through: each run reads the file, checks    *)
(* the URLs of its publications (--check-urls) and writes the file anew    *)
(* with what it found out (--export-to-bibtex); with --store-downloads it  *)
(* keeps the documents in a directory, which outlives the runs as well.    *)
(*                                                                         *)
(* Publications are those with a "url" field; a document stands for its    *)
(* own MD5 sum.  What pdfinfo says of a PDF document is left out.          *)
(***************************************************************************)
EXTENDS Integers, FiniteSets

CONSTANTS N,         \* the number of publications
          Http,      \* those with an http or https URL
          Dynamic,   \* those at IEEE Xplore, where a page may be a frame
          Docs,      \* the documents that the web may have at any of the URLs
          MimeOf,    \* MimeOf[d]: what "file" says of document d
          SizeOf,    \* SizeOf[d]: its size
          None,      \* a field that the publication does not have
          MaxChecks  \* bound on the checks of all publications

Publications == 1 .. N
Mimes        == {"pdf", "html", "xml", "text", "other"}

Unnamed == ""         \* "file" failed: an empty MIME type
Ignore  == "ignore"   \* the url.md5 of a document that changes all the time

ASSUME NAssumption    ==
    N \in Nat /\ Http \subseteq Publications /\ Dynamic \subseteq Http
ASSUME DocsAssumption ==
    /\ MimeOf \in [Docs -> Mimes] /\ SizeOf \in [Docs -> Nat]
    /\ None \notin Docs \cup Nat \cup Mimes \cup {Unnamed, Ignore}
    /\ Ignore \notin Docs
ASSUME MaxChecksAssumption == MaxChecks \in Nat

(***************************************************************************)
(* The url.* fields of a publication.                                      *)
(***************************************************************************)
Entry == [size    : Nat \cup {None},
          mime    : Mimes \cup {Unnamed, None},
          md5     : Docs \cup {Ignore, None},
          checked : BOOLEAN]

NewEntry == [size |-> None, mime |-> None, md5 |-> None, checked |-> FALSE]

Options == [store        : BOOLEAN,   \* --store-downloads
            onlyNew      : BOOLEAN,   \* --only-check-new-urls
            ignoreUpdates : BOOLEAN]  \* --ignore-updates-for-html

VARIABLES
    bib,      \* the entries in the BibTeX file
    entry,    \* the entries in the memory of the running program
    stored,   \* stored[p][extension]: the download directory
    temps,    \* the temporary files of the publication at hand
    left,     \* the kinds of files in /tmp or in the download directory that
              \* will never be removed
    opts,     \* the options of this run
    at,       \* the publication that the loop is at
    doc,      \* the document that has been downloaded
    errors,   \* the errors of this check
    pc,       \* where the program is
    checks,   \* the number of checks begun
    trouble   \* which kinds of trouble there have been: history only

vars == <<bib, entry, stored, temps, left, opts, at, doc, errors, pc, checks,
          trouble>>

(***************************************************************************)
(* makeDownloadFileName(): a file of another type has no dot in its name.  *)
(***************************************************************************)
Extensions == {"pdf", "html", "xml", "text", "data"}

Extension(mime) == IF mime \in Extensions THEN mime ELSE "data"

Init ==
    /\ bib = [p \in Publications |-> NewEntry]
    /\ entry = bib
    /\ stored = [p \in Publications |-> [e \in Extensions |-> None]]
    /\ temps = {}
    /\ left = {}
    /\ opts \in Options
    /\ at = 1
    /\ doc = None
    /\ errors = 0
    /\ pc = "idle"
    /\ checks = 0
    /\ trouble = {}

-----------------------------------------------------------------------------
(***************************************************************************)
(* The trouble of a check for which it counts no error.                    *)
(***************************************************************************)
Uncounted == {"notTruncated", "otherFrame"}

(***************************************************************************)
(* A run of the program: the file is read, and the check begins.  In the   *)
(* interactive mode each "export" command checks again, with the entries   *)
(* as the check before left them.                                          *)
(***************************************************************************)
\* Mutant of BeginCheck: the errors of the last check are still there.
BeginCheckKeepsErrors ==
    /\ checks < MaxChecks
    /\ checks' = checks + 1
    /\ at' = 1
    /\ errors' = errors
    /\ trouble' = (trouble \ Uncounted) \cup
                     (IF opts'.store THEN {} ELSE {"noDirectory"})

BeginCheck ==
    /\ checks < MaxChecks
    /\ checks' = checks + 1
    /\ at' = 1
    /\ errors' = 0
    /\ trouble' = (trouble \ Uncounted) \cup
                     (IF opts'.store THEN {} ELSE {"noDirectory"})

Run ==
    /\ pc = "idle"
    /\ entry' = bib
    /\ opts' \in Options
    /\ BeginCheck
    /\ pc' = "loop"
    /\ UNCHANGED <<bib, stored, temps, left, doc>>

CheckAgain ==
    /\ pc = "done"
    /\ opts' = opts
    /\ BeginCheck
    /\ pc' = "loop"
    /\ UNCHANGED <<bib, entry, stored, temps, left, doc>>

(***************************************************************************)
(* No download directory, or no libcurl: return 1.                         *)
(***************************************************************************)
SetUpFails ==
    /\ pc = "loop" /\ at = 1
    /\ errors' = 1
    /\ pc' = "done"
    /\ UNCHANGED <<bib, entry, stored, temps, left, opts, at, doc, checks,
                   trouble>>

(***************************************************************************)
(* The checks that are not made.  url.md5 is not looked at, and with a     *)
(* download directory --only-check-new-urls is not.                        *)
(***************************************************************************)
Known(e) == e.size # None /\ e.mime # None /\ e.checked

Skips(p) ==
    /\ Known(entry[p])
    /\ IF opts.store THEN stored[p][Extension(entry[p].mime)] # None
                     ELSE opts.onlyNew

AtPublication == pc = "loop" /\ at <= N

NextPublication(errs) ==
    /\ at' = at + 1
    /\ errors' = errors + errs
    /\ pc' = "loop"

Skip ==
    /\ AtPublication
    /\ Skips(at)
    /\ NextPublication(0)
    /\ UNCHANGED <<bib, entry, stored, temps, left, opts, doc, checks, trouble>>

(***************************************************************************)
(* The files that are made for one publication.  The output of pdfinfo is  *)
(* another one: its name, /tmp/bibtexconv-pXXXXXX, is taken as it is.      *)
(***************************************************************************)
TempFiles == {"download", "mime"}
PDFInfo   == "pdfinfo"

(***************************************************************************)
(* mkstemp() or fopen() fails: what has been created stays.                *)
(***************************************************************************)
NoTempFile ==
    /\ AtPublication
    /\ ~Skips(at)
    /\ \E made \in SUBSET TempFiles : left' = left \cup made
    /\ trouble' = trouble \cup {"noTempFile"}
    /\ NextPublication(1)
    /\ UNCHANGED <<bib, entry, stored, temps, opts, doc, checks>>

BeginDownload ==
    /\ AtPublication
    /\ ~Skips(at)
    /\ temps' = TempFiles
    /\ pc' = "download"
    /\ UNCHANGED <<bib, entry, stored, left, opts, at, doc, errors, checks,
                   trouble>>

-----------------------------------------------------------------------------
(***************************************************************************)
(* handleDynamicURL(): the page of IEEE Xplore that has been downloaded is *)
(* a frame.  The URL in it is downloaded into the same file, and what that *)
(* says is not looked at for another frame.                                *)
(***************************************************************************)
FollowFrame ==
    /\ pc = "download"
    /\ at \in Dynamic
    /\ pc' = "frame"
    /\ UNCHANGED <<bib, entry, stored, temps, left, opts, at, doc, errors, checks,
                   trouble>>

Downloading == pc \in {"download", "frame"}

(***************************************************************************)
(* The two temporary files are unlinked at the end of the loop's body.     *)
(***************************************************************************)
\* Mutant of GiveUpDownload: the files are left when there is nothing to keep.
GiveUpDownloadKeepsTemps(errs) ==
    /\ Downloading
    /\ left' = left \cup temps
    /\ temps' = {}
    /\ NextPublication(errs)
    /\ UNCHANGED <<bib, entry, stored, opts, doc, checks>>

GiveUpDownload(errs) ==
    /\ Downloading
    /\ temps' = {}
    /\ NextPublication(errs)
    /\ UNCHANGED <<bib, entry, stored, left, opts, doc, checks>>

(***************************************************************************)
(* There is no file for the header, the transfer fails, HTTP says anything *)
(* but 200, or the document has a size of zero.                            *)
(***************************************************************************)
\* Mutant of DownloadFails: nobody counts the error.
DownloadFailsSilently == GiveUpDownload(0) /\ UNCHANGED trouble

DownloadFails == GiveUpDownload(1) /\ UNCHANGED trouble

(***************************************************************************)
(* downloadFile() only says TRUE after an HTTP result of 200: what came by *)
(* another protocol is dropped, and no error is counted.                   *)
(***************************************************************************)
OtherProtocol ==
    /\ at \notin Http
    /\ GiveUpDownload(0)
    /\ UNCHANGED trouble

\* The same of the URL in a frame, whatever that of the publication is
OtherFrame ==
    /\ pc = "frame"
    /\ GiveUpDownload(0)
    /\ trouble' = trouble \cup {"otherFrame"}

\* ftruncate() fails: also FALSE without an error counted
NotTruncated ==
    /\ GiveUpDownload(0)
    /\ trouble' = trouble \cup {"notTruncated"}

(***************************************************************************)
(* The entry after document d has been found to be of type mime.  Where a  *)
(* web page has become a PDF document, its size and MD5 sum do not count   *)
(* as updates.  makePublicationInfoItem() makes nothing of an empty MIME   *)
(* type, but the value of an existing field can be set to it.              *)
(***************************************************************************)
\* Mutant of Updated: only the MIME type and the size are new.
UpdatedKeepsMD5(e, d, mime) ==
    [size |-> SizeOf[d],
     mime |-> IF e.mime = None /\ mime = Unnamed THEN None ELSE mime,
     md5  |-> IF e.md5 = None THEN d ELSE e.md5,
     checked |-> TRUE]

Updated(e, d, mime) ==
    LET toPDF   == e.mime = "html" /\ mime = "pdf"
        oldSize == IF toPDF THEN None ELSE e.size
        oldMD5  == IF toPDF THEN None ELSE e.md5
        changes == \/ oldSize \notin {None, SizeOf[d]}
                   \/ oldMD5 \notin {None, Ignore, d}
        newMD5  == IF changes /\ opts.ignoreUpdates /\ e.mime \in {"html", "xml"}
                   THEN Ignore ELSE d
    IN  [size |-> SizeOf[d],
         mime |-> IF e.mime = None /\ mime = Unnamed THEN None ELSE mime,
         md5  |-> IF oldMD5 = Ignore THEN Ignore ELSE newMD5,
         checked |-> TRUE]

NameOf(d) == {MimeOf[d], Unnamed}

(***************************************************************************)
(* The document is there: the entry is updated, and then the document is   *)
(* moved to the download directory or removed.  For a PDF document, the    *)
(* shell creates the output of pdfinfo, or empties the one that is there;  *)
(* it is never unlinked.                                                   *)
(***************************************************************************)
Update ==
    /\ Downloading
    /\ at \in Http
    /\ \E d \in Docs, mime \in Mimes \cup {Unnamed} :
          /\ SizeOf[d] > 0
          /\ mime \in NameOf(d)
          /\ entry' = [entry EXCEPT ![at] = Updated(@, d, mime)]
          /\ doc' = [document |-> d, mime |-> mime]
          /\ left' = IF mime = "pdf" THEN left \cup {PDFInfo} ELSE left
    /\ IF opts.store
       THEN pc' = "rename" /\ UNCHANGED <<temps, at, errors>>
       ELSE NextPublication(0) /\ temps' = {}
    /\ UNCHANGED <<bib, stored, opts, checks, trouble>>

\* Mutant of Rename: the file gets the name of another type.
RenameToData ==
    /\ pc = "rename"
    /\ stored' = [stored EXCEPT ![at]["data"] = doc.document]
    /\ temps' = {}
    /\ NextPublication(0)
    /\ UNCHANGED <<bib, entry, left, opts, doc, checks, trouble>>

(***************************************************************************)
(* rename() replaces a file that is already there.                         *)
(***************************************************************************)
Rename ==
    /\ pc = "rename"
    /\ stored' = [stored EXCEPT ![at][Extension(doc.mime)] = doc.document]
    /\ temps' = {}
    /\ NextPublication(0)
    /\ UNCHANGED <<bib, entry, left, opts, doc, checks, trouble>>

\* The entry has been updated all the same
RenameFails ==
    /\ pc = "rename"
    /\ temps' = {}
    /\ trouble' = trouble \cup {"notStored"}
    /\ NextPublication(1)
    /\ UNCHANGED <<bib, entry, stored, left, opts, doc, checks>>

EndCheck ==
    /\ pc = "loop" /\ at = N + 1
    /\ pc' = "done"
    /\ UNCHANGED <<bib, entry, stored, temps, left, opts, at, doc, errors,
                   checks, trouble>>

-----------------------------------------------------------------------------
(***************************************************************************)
(* exportPublicationSetToBibTeX(), and makePublicationInfoItem() in the    *)
(* next run: an empty field is dropped.                                    *)
(***************************************************************************)
ReadBack(e) == [e EXCEPT !.mime = IF @ = Unnamed THEN None ELSE @]

ReadBackAll == [p \in Publications |-> ReadBack(entry[p])]

Export ==
    /\ pc = "done"
    /\ bib' = ReadBackAll
    /\ UNCHANGED <<entry, stored, temps, left, opts, at, doc, errors, pc,
                   checks, trouble>>

(***************************************************************************)
(* The program ends; without an export, or after one that failed, what it  *)
(* found out is lost.                                                      *)
(***************************************************************************)
Quit ==
    /\ pc = "done"
    /\ pc' = "idle"
    /\ trouble' = IF bib = ReadBackAll THEN trouble
                  ELSE trouble \cup {"notExported"}
    /\ UNCHANGED <<bib, entry, stored, temps, left, opts, at, doc, errors, checks>>

(***************************************************************************)
(* The program is stopped in the middle of a check, perhaps in that of a   *)
(* PDF document.                                                           *)
(***************************************************************************)
Crash ==
    /\ pc \in {"loop", "download", "frame", "rename"}
    /\ pc' = "idle"
    /\ \/ left' = left \cup temps
       \/ Downloading /\ at \in Http /\ left' = left \cup temps \cup {PDFInfo}
    /\ temps' = {}
    /\ trouble' = trouble \cup {"crash"}
    /\ UNCHANGED <<bib, entry, stored, opts, at, doc, errors, checks>>

(***************************************************************************)
(* Between the runs, the user may remove a stored document, or the url.*   *)
(* fields of an entry to have it checked as a new one.                     *)
(***************************************************************************)
RemoveStored ==
    /\ pc = "idle"
    /\ \E p \in Publications, e \in Extensions :
          /\ stored[p][e] # None
          /\ stored' = [stored EXCEPT ![p][e] = None]
    /\ UNCHANGED <<bib, entry, temps, left, opts, at, doc, errors, pc, checks,
                   trouble>>

RemoveFields ==
    /\ pc = "idle"
    /\ \E p \in Publications :
          \/ bib' = [bib EXCEPT ![p].md5 = None]
          \/ bib' = [bib EXCEPT ![p].mime = None]
          \/ bib' = [bib EXCEPT ![p] = NewEntry]
    /\ UNCHANGED <<entry, stored, temps, left, opts, at, doc, errors, pc,
                   checks, trouble>>

Next ==
    \/ Run \/ CheckAgain \/ SetUpFails
    \/ Skip \/ NoTempFile \/ BeginDownload
    \/ FollowFrame \/ DownloadFails \/ OtherProtocol \/ OtherFrame \/ NotTruncated
    \/ Update \/ Rename \/ RenameFails \/ EndCheck
    \/ Export \/ Quit \/ Crash
    \/ RemoveStored \/ RemoveFields

Spec == Init /\ [][Next]_vars

-----------------------------------------------------------------------------
TypeOK ==
    /\ bib \in [Publications -> Entry] /\ entry \in [Publications -> Entry]
    /\ stored \in [Publications -> [Extensions -> Docs \cup {None}]]
    /\ temps \subseteq TempFiles /\ left \subseteq TempFiles \cup {PDFInfo}
    /\ opts \in Options
    /\ at \in 1 .. N + 1
    /\ doc \in [document : Docs, mime : Mimes \cup {Unnamed}] \cup {None}
    /\ errors \in (0 .. N) \cup {1}
    /\ pc \in {"idle", "loop", "download", "frame", "rename", "done"}
    /\ checks \in 0 .. MaxChecks
    /\ trouble \subseteq {"noDirectory", "noTempFile", "notStored",
                          "notExported", "crash"} \cup Uncounted

(***************************************************************************)
(* If every check so far has stored the documents, and nothing went wrong  *)
(* in storing a document or in writing the BibTeX file, then the entry of  *)
(* a publication and the file that the next check takes for its document   *)
(* are about the same document, whatever types the document had over time  *)
(* and whatever the user removed.                                          *)
(***************************************************************************)
StoredMatchesEntry ==
    /\ pc = "idle"
    /\ trouble \cap {"noDirectory", "notStored", "notExported", "crash"} = {}
    => \A p \in Publications :
          LET e    == bib[p]
              file == stored[p][Extension(e.mime)]
          IN  Known(e) /\ file # None => e.md5 \in {file, Ignore, None}

(***************************************************************************)
(* What a check leaves behind.  The download and the output of "file" of   *)
(* each publication are gone when the check is done, on every way out of   *)
(* the loop's body, unless they could not both be created or the program   *)
(* did not come to the end of a check.  The output of pdfinfo, one file    *)
(* for all PDF documents, is the only other one that outlives the check,   *)
(* and it does once some check has found a PDF document.                   *)
(***************************************************************************)
OnlyPDFInfoIsLeft ==
    /\ pc \in {"idle", "done"} => temps = {}
    /\ trouble \cap {"noTempFile", "crash"} = {} => left \subseteq {PDFInfo}
    /\ \A p \in Publications : entry[p].mime = "pdf" => PDFInfo \in left

(***************************************************************************)
(* A check that counts no error leaves no HTTP publication without size    *)
(* and time of the check, but in two cases: a file could not be truncated, *)
(* or a page of IEEE Xplore was a frame for a URL of another protocol.     *)
(***************************************************************************)
NoErrorMeansChecked ==
    pc = "done" /\ errors = 0 /\ "notTruncated" \notin trouble
    => \A p \in Http :
          \/ entry[p].size # None /\ entry[p].checked
          \/ p \in Dynamic /\ "otherFrame" \in trouble

(***************************************************************************)
(* After such a check that stored the documents, a publication whose type  *)
(* is known is not downloaded again: the name under which a document has   *)
(* been stored is the name under which the next check looks for it.  (What *)
(* has been stored under that name before is not replaced while it is      *)
(* there, whatever bibtexconv.1:108 says: see the README.)                 *)
(***************************************************************************)
NoErrorMeansSettled ==
    pc = "done" /\ errors = 0 /\ opts.store /\ "notTruncated" \notin trouble
    => \A p \in Http :
          \/ entry[p].mime # None => Skips(p)
          \/ p \in Dynamic /\ "otherFrame" \in trouble
=============================================================================
