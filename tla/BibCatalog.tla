----------------------------- MODULE BibCatalog -----------------------------
(***************************************************************************)
(* What reading the BibTeX files promises: each file that is read puts     *)
(* the merge of its publications in place, in one step.  BibParser, which  *)
(* builds it one reduction at a time from the end of the file, implements  *)
(* this specification.                                                     *)
(***************************************************************************)
EXTENDS BibFiles

VARIABLES files, loaded, catalog

Init ==
    /\ files \in Seq(File)
    /\ loaded = 0
    /\ catalog = <<>>

Load ==
    /\ loaded < Len(files)
    /\ loaded' = loaded + 1
    /\ IsMergeOf(catalog', Publications(files, loaded'))
    /\ UNCHANGED files

Spec == Init /\ [][Load]_<<files, loaded, catalog>>
=============================================================================
