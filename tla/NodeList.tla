------------------------------ MODULE NodeList ------------------------------
(***************************************************************************)
(* The collection of publications as the doubly linked list that node.cc   *)
(* keeps: makePublicationCollection() unlinks a node and moves its child   *)
(* list to the node that is put in front, and freeNode() takes the list    *)
(* apart when main() is done with it.                                      *)
(*                                                                         *)
(* Node i and its child list i are made by makePublication() from the i-th *)
(* publication of the file.                                                *)
(***************************************************************************)
EXTENDS BibNodes

CONSTANTS Published   \* the publications of a file, in its order

ASSUME PublishedAssumption == Published \subseteq Seq(Node) \ {<<>>}

VARIABLES
    pubs,       \* what makePublication() was called with: never changes
    first,      \* nodes before this one have not been put in front yet
    head,       \* the node that heads the list
    next, prev, \* Node::next, Node::prev
    child,      \* Node::child: the child list that the node owns
    titleOf,    \* the value of the "title" node in a child list
    nodes,      \* the nodes that are not deleted
    lists,      \* the child lists that are not deleted
    freeing     \* main() has called freeNode()

vars == <<pubs, first, head, next, prev, child, titleOf, nodes, lists, freeing>>

nullptr == 0
Ids     == DOMAIN pubs

Init ==
    /\ pubs \in Published
    /\ first = Len(pubs)
    /\ head = first
    /\ next = [n \in Ids |-> nullptr]
    /\ prev = [n \in Ids |-> nullptr]
    /\ child = [n \in Ids |-> n]
    /\ titleOf = [c \in Ids |-> pubs[c].title]
    /\ nodes = Ids
    /\ lists = Ids
    /\ freeing = FALSE

(***************************************************************************)
(* The nodes that a walk along the next pointers from h meets, in order.   *)
(***************************************************************************)
Walk(h) ==
    LET after == [n \in Ids \cup {nullptr} |-> IF n = nullptr THEN n ELSE next[n]]
        at[k \in 0 .. Len(pubs)] == IF k = 0 THEN h ELSE after[at[k - 1]]
    IN  [k \in {i \in 1 .. Len(pubs) + 1 : at[i - 1] # nullptr} |-> at[k - 1]]

(***************************************************************************)
(* The first node from node2 on with the keyword of node1.                 *)
(***************************************************************************)
Duplicate(node1, node2) ==
    LET walk == Walk(node2)
        same == {k \in DOMAIN walk : pubs[walk[k]].keyword = pubs[node1].keyword}
    IN  IF same = {} THEN nullptr
        ELSE walk[CHOOSE k \in same : \A j \in same : k <= j]

\* Mutant of KeepTitle: the newer title stays.
KeepTitleOfNewer(old, new) == titleOf' = titleOf

(***************************************************************************)
(* The two nodes both have a title: the newer one gets the older title.    *)
(***************************************************************************)
KeepTitle(old, new) ==
    titleOf' = IF titleOf[child[old]] # NoTitle /\ titleOf[child[new]] # NoTitle
               THEN [titleOf EXCEPT ![child[new]] = titleOf[child[old]]]
               ELSE titleOf

\* Mutant of MoveChildren: the child list of the new node is freed too.
MoveChildrenFreesBoth(old, new) ==
    /\ lists' = lists \ {child[old], child[new]}
    /\ child' = [child EXCEPT ![old] = child[new], ![new] = nullptr]

(***************************************************************************)
(* freeNode(node1->child), and node1 takes over the child list of n.       *)
(***************************************************************************)
MoveChildren(old, new) ==
    /\ lists' = lists \ {child[old]}
    /\ child' = [child EXCEPT ![old] = child[new], ![new] = nullptr]

SetIf(f, n, v) == IF n = nullptr THEN f ELSE [f EXCEPT ![n] = v]

\* Mutant of Unlink: n->next->prev keeps pointing at the deleted node.
UnlinkForgetsPrev(n) ==
    [next |-> SetIf(next, prev[n], next[n]), prev |-> prev]

(***************************************************************************)
(* The pointers when the neighbours of n have been linked with each other. *)
(***************************************************************************)
Unlink(n) ==
    [next |-> SetIf(next, prev[n], next[n]),
     prev |-> SetIf(prev, next[n], prev[n])]

HeadWithout(node2, n) == IF n = node2 THEN next[n] ELSE node2

\* Mutant of PutInFront: one publication too many is taken as done with.
PutInFrontOfTwo(links, node1, node2) ==
    /\ prev' = SetIf(links.prev, node2, node1)
    /\ next' = [links.next EXCEPT ![node1] = node2]
    /\ head' = node1
    /\ first' = node1 - 1

(***************************************************************************)
(* node2->prev = node1; node1->next = node2; node1 is returned.            *)
(***************************************************************************)
PutInFront(links, node1, node2) ==
    /\ prev' = SetIf(links.prev, node2, node1)
    /\ next' = [links.next EXCEPT ![node1] = node2]
    /\ head' = node1
    /\ first' = node1

(***************************************************************************)
(* makePublicationCollection(node1, head), for node1 = first - 1.          *)
(***************************************************************************)
AddNew ==
    LET node1 == first - 1
    IN  /\ ~freeing /\ first > 1
        /\ Duplicate(node1, head) = nullptr
        /\ PutInFront([next |-> next, prev |-> prev], node1, head)
        /\ UNCHANGED <<pubs, child, titleOf, nodes, lists, freeing>>

AddDuplicate ==
    LET node1 == first - 1
        n     == Duplicate(node1, head)
    IN  /\ ~freeing /\ first > 1
        /\ n # nullptr
        /\ KeepTitle(node1, n)
        /\ MoveChildren(node1, n)
        /\ nodes' = nodes \ {n}
        /\ PutInFront(Unlink(n), node1, HeadWithout(head, n))
        /\ UNCHANGED <<pubs, freeing>>

(***************************************************************************)
(* main() has written everything; freeNode(bibTeXFile), node by node.      *)
(***************************************************************************)
StartFreeing ==
    /\ ~freeing /\ first = 1
    /\ freeing' = TRUE
    /\ UNCHANGED <<pubs, first, head, next, prev, child, titleOf, nodes, lists>>

FreeHead ==
    /\ freeing /\ head # nullptr
    /\ lists' = lists \ {child[head]}
    /\ nodes' = nodes \ {head}
    /\ head' = next[head]
    /\ UNCHANGED <<pubs, first, next, prev, child, titleOf, freeing>>

Finished == freeing /\ head = nullptr /\ UNCHANGED vars

Next == AddNew \/ AddDuplicate \/ StartFreeing \/ FreeHead \/ Finished

Spec == Init /\ [][Next]_vars

-----------------------------------------------------------------------------
Pointers == Ids \cup {nullptr}

TypeOK ==
    /\ pubs \in Seq(Node) \ {<<>>}
    /\ first \in Ids
    /\ head \in Pointers
    /\ next \in [Ids -> Pointers] /\ prev \in [Ids -> Pointers]
    /\ child \in [Ids -> Pointers]
    /\ titleOf \in [Ids -> Titles \cup {NoTitle}]
    /\ nodes \subseteq Ids /\ lists \subseteq Ids
    /\ freeing \in BOOLEAN

(***************************************************************************)
(* The list is one: the walk from its head ends, meets every node that has *)
(* been put in front and not been deleted, and no deleted one, and until   *)
(* the list is freed the prev pointers lead back the same way.             *)
(***************************************************************************)
ListIsSound ==
    LET walk == Walk(head)
    IN  /\ walk # <<>> => next[Last(walk)] = nullptr
        /\ {walk[k] : k \in DOMAIN walk} = {n \in nodes : n >= first}
        /\ ~freeing =>
              \A k \in DOMAIN walk :
                 prev[walk[k]] = IF k = 1 THEN nullptr ELSE walk[k - 1]

(***************************************************************************)
(* Every child list that is not deleted belongs to exactly one node, and   *)
(* every node to be deleted still has its child list: nothing is freed     *)
(* twice, and when the list is gone, so are all child lists.               *)
(***************************************************************************)
ChildrenHaveOneOwner ==
    /\ \A n \in nodes : child[n] \in lists
    /\ \A n, m \in nodes : child[n] = child[m] => n = m
    /\ lists = {child[n] : n \in nodes}

(***************************************************************************)
(* Read along the next pointers, the list is the sequence of Collection.   *)
(***************************************************************************)
NodeOf(n) == [keyword |-> pubs[n].keyword, value |-> pubs[n].value,
              title |-> titleOf[child[n]], rest |-> pubs[child[n]].rest]

ListOf(h) == LET walk == Walk(h) IN [k \in DOMAIN walk |-> NodeOf(walk[k])]

Sequences == INSTANCE Collection
                WITH waiting <- SubSeq(pubs, 1, first - 1),
                     list <- ListOf(head)

ImplementsCollection == Sequences!Spec
=============================================================================
