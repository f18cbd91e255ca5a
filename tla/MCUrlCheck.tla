----------------------------- MODULE MCUrlCheck -----------------------------
(***************************************************************************)
(* Two web pages of different sizes, a PDF document of the size of one of  *)
(* them, one of a type without an extension of its own, and an empty one.  *)
(***************************************************************************)
EXTENDS UrlCheck

CONSTANTS page1, page2, paper, archive, empty

MCMimeOf == [d \in Docs |-> CASE d \in {page1, page2} -> "html"
                              [] d = paper -> "pdf"
                              [] OTHER -> "other"]

MCSizeOf == [d \in Docs |-> CASE d \in {page1, paper} -> 1
                              [] d = empty -> 0
                              [] OTHER -> 2]
=============================================================================
