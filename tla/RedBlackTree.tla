---------------------------- MODULE RedBlackTree ----------------------------
(***************************************************************************)
(* The red-black tree of src/lib (hypertree) that holds every book, seat   *)
(* table, matched-loan queue and index of the program: nodes are blocks of *)
(* one account, links are block indexes, and the best entry is cached in   *)
(* max_index.                                                              *)
(*                                                                         *)
(* A block i always holds a value of key Key[i]; block numbers carry no    *)
(* meaning, so this loses no behaviour with the same multiset of keys.     *)
(* Two values may compare equal and still be different entries (an order   *)
(* book orders by rate and identifies by seat and sequence).  Insert and   *)
(* RemoveByIndex run to completion inside one instruction; each pointer    *)
(* assignment of the code is one write, in the order of the code.          *)
(***************************************************************************)
EXTENDS Integers, FiniteSets, SequencesExt

CONSTANTS N,        \* blocks of the account
          Key       \* the key of the value stored in each block

Index == 1..N

NIL == 0

ASSUME TreeAssumption == N \in Nat \ {0} /\ Key \in [Index -> Int]

VARIABLES tree      \* root_index, max_index and the node of each block

vars == <<tree>>

Red == "Red"
Black == "Black"

\* A block on the free list is zeroed.
Zeroed == [left |-> NIL, right |-> NIL, parent |-> NIL, color |-> Black]

RBNode == [left : Index \cup {NIL}, right : Index \cup {NIL},
           parent : Index \cup {NIL}, color : {Red, Black}]

TypeOK == tree \in [node : [Index -> RBNode], root : Index \cup {NIL},
                    max : Index \cup {NIL}, used : SUBSET Index]

-----------------------------------------------------------------------------
(* Reads: NIL reads as a black node without links *)

Node(t, i) == IF i = NIL THEN Zeroed ELSE t.node[i]

get_left_index(t, i) == Node(t, i).left

get_right_index(t, i) == Node(t, i).right

get_parent_index(t, i) == Node(t, i).parent

get_color(t, i) == Node(t, i).color

is_left_child(t, i) == i # t.root /\ get_left_index(t, get_parent_index(t, i)) = i

is_right_child(t, i) == i # t.root /\ get_right_index(t, get_parent_index(t, i)) = i

\* The only child of a node that has at most one.
get_child_index(t, i) ==
    IF get_left_index(t, i) # NIL THEN get_left_index(t, i) ELSE get_right_index(t, i)

is_internal(t, i) == get_left_index(t, i) # NIL /\ get_right_index(t, i) # NIL

get_sibling_index(t, i, parent) ==
    IF get_left_index(t, parent) = i THEN get_right_index(t, parent)
    ELSE get_left_index(t, parent)

HasRedChild(t, i) ==
    Red \in {get_color(t, get_left_index(t, i)), get_color(t, get_right_index(t, i))}

\* The last node reached from i along the links of one side.
Furthest(t, i, side) ==
    LET from[j \in Index \cup {NIL}] ==
            IF Node(t, j)[side] = NIL THEN j ELSE from[Node(t, j)[side]]
    IN  from[i]

lookup_max_index(t) == Furthest(t, t.root, "right")

ClimbWhileLeft(t, i) ==
    LET from[j \in Index \cup {NIL}] ==
            IF is_left_child(t, j) THEN from[get_parent_index(t, j)]
            ELSE get_parent_index(t, j)
    IN  from[i]

\* The predecessor: below to the left, or the first ancestor we are right of.
get_next_lower_index(t, i) ==
    IF get_left_index(t, i) # NIL THEN Furthest(t, get_left_index(t, i), "right")
    ELSE ClimbWhileLeft(t, i)

get_next_higher_index(t, i) == Furthest(t, get_right_index(t, i), "left")

\* The iterator: from the cached maximum downwards.
iter(t) ==
    LET from[i \in Index \cup {NIL}] ==
            IF i = NIL THEN << >> ELSE <<i>> \o from[get_next_lower_index(t, i)]
    IN  from[IF t.max = NIL THEN lookup_max_index(t) ELSE t.max]

\* Mutant: an equal key with another identity is looked for on the left only.
MUT_lookup_index_left_only(t, i) ==
    LET under[at \in Index \cup {NIL}] ==
            IF at \in {NIL, i} THEN at
            ELSE IF Key[at] >= Key[i] THEN under[get_left_index(t, at)]
            ELSE under[get_right_index(t, at)]
    IN  under[t.root]

\* Depth first: both sides of an equal key are searched, because rotations spread
\* equal keys over both.
lookup_index(t, i) ==
    LET under[at \in Index \cup {NIL}] ==
            LET left  == get_left_index(t, at)
                right == get_right_index(t, at)
            IN  IF at \in {NIL, i} THEN at
                ELSE IF Key[at] > Key[i] THEN under[left]
                ELSE IF Key[at] < Key[i] THEN under[right]
                ELSE IF under[right] = NIL THEN under[left] ELSE under[right]
    IN  under[t.root]

-----------------------------------------------------------------------------
(* Writes: a list of <<index, field, value>>, NIL ignored *)

Write(t, writes) ==
    FoldLeft(LAMBDA a, w : IF w[1] = NIL THEN a ELSE [a EXCEPT !.node[w[1]][w[2]] = w[3]],
             t, writes)

set_color(t, i, color) == Write(t, << <<i, "color", color>> >>)

SetRoot(t, old, new) == IF t.root = old THEN [t EXCEPT !.root = new] ELSE t

\* Rotate g down to the near side; its child p on the far side comes up.
Rotate(t, g, near, far) ==
    LET p  == Node(t, g)[far]
        y  == Node(t, p)[near]
        gg == get_parent_index(t, g)
        turned == Write(t, << <<p, "parent", gg>>, <<p, near, g>>, <<y, "parent", g>>,
                              <<g, "parent", p>>, <<g, far, y>> >>)
        above(side) == IF Node(turned, gg)[side] = g THEN << <<gg, side, p>> >> ELSE << >>
    IN  SetRoot(Write(turned, above("left") \o above("right")), g, p)

rotate_left(t, g) == Rotate(t, g, "left", "right")

rotate_right(t, g) == Rotate(t, g, "right", "left")

SideOf(t, i) == IF is_left_child(t, i) THEN "left" ELSE "right"

\* Mutant: the case that the successor is the node's own right child is missing.
MUT_swap_node_with_successor_not_adjacent(t, i0, i1) ==
    LET n0 == Node(t, i0)
        n1 == Node(t, i1)
    IN  SetRoot(Write(t,
            << <<n0.parent, SideOf(t, i0), i1>>, <<n1.parent, SideOf(t, i1), i0>>,
               <<i0, "left", n1.left>>, <<i0, "right", n1.right>>, <<i0, "parent", n1.parent>>,
               <<i1, "left", n0.left>>, <<i1, "right", n0.right>>, <<i1, "parent", n0.parent>>,
               <<n0.left, "parent", i1>>, <<n1.left, "parent", i0>>,
               <<n0.right, "parent", i1>>, <<n1.right, "parent", i0>>,
               <<i0, "color", n1.color>>, <<i1, "color", n0.color>> >>), i0, i1)

\* Exchange an internal node i0 and its successor i1, which may be its own child.
swap_node_with_successor(t, i0, i1) ==
    LET n0 == Node(t, i0)
        n1 == Node(t, i1)
        adjacent == << <<i0, "parent", i1>>, <<i1, "parent", n0.parent>>, <<i1, "right", i0>> >>
        swapped == Write(t,
            << <<n0.parent, SideOf(t, i0), i1>>, <<n1.parent, SideOf(t, i1), i0>>,
               <<i0, "left", n1.left>>, <<i0, "right", n1.right>>, <<i0, "parent", n1.parent>>,
               <<i1, "left", n0.left>>, <<i1, "right", n0.right>>, <<i1, "parent", n0.parent>>,
               <<n0.left, "parent", i1>>, <<n1.left, "parent", i0>>,
               <<n0.right, "parent", i1>>, <<n1.right, "parent", i0>> >>
            \o IF n1.parent = i0 THEN adjacent ELSE << >>)
    IN  Write(SetRoot(swapped, i0, i1), << <<i0, "color", n1.color>>, <<i1, "color", n0.color>> >>)

\* Take out a node with at most one child.
update_parent_child(t, i) ==
    LET parent == get_parent_index(t, i)
        child  == get_child_index(t, i)
    IN  SetRoot(Write(t, << <<child, "parent", parent>>, <<parent, SideOf(t, i), child>> >>),
                i, child)

-----------------------------------------------------------------------------
(* Insertion *)

\* Mutant: an equal key goes to the right, ahead of the earlier entry.
MUT_SideFor_equal_right(i, at) == IF Key[i] >= Key[at] THEN "right" ELSE "left"

\* Equal keys go left, behind the earlier entry.
SideFor(i, at) == IF Key[i] > Key[at] THEN "right" ELSE "left"

\* Where the new node hangs: the first free place on its way down.
LeafFor(t, i) ==
    LET from[at \in Index] ==
            LET next == Node(t, at)[SideFor(i, at)]
            IN  IF next = NIL THEN at ELSE from[next]
    IN  from[t.root]

insert_node_no_fix(t, i) ==
    LET leaf == LeafFor(t, i)
    IN  [Write(t, << <<leaf, SideFor(i, leaf), i>> >>) EXCEPT
            !.node[i] = [Zeroed EXCEPT !.color = Red, !.parent = leaf]]

\* The four shapes of a red parent under a black uncle.
RotateUp(t, i, parent, grandparent) ==
    LET parent_is_left  == is_left_child(t, parent)
        current_is_left == is_left_child(t, i)
        inner   == IF parent_is_left THEN rotate_left(t, parent) ELSE rotate_right(t, parent)
        outer(u) == IF parent_is_left THEN rotate_right(u, grandparent)
                    ELSE rotate_left(u, grandparent)
        top     == IF parent_is_left = current_is_left THEN parent ELSE i
        turned  == IF parent_is_left = current_is_left THEN outer(t) ELSE outer(inner)
    IN  Write(turned, << <<grandparent, "color", get_color(t, top)>>,
                         <<top, "color", get_color(t, grandparent)>> >>)

\* insert_fix and its loop: a red uncle moves the conflict two levels up.
RECURSIVE InsertFix(_, _)
InsertFix(t, i) ==
    LET parent      == get_parent_index(t, i)
        grandparent == get_parent_index(t, parent)
        uncle       == get_sibling_index(t, parent, grandparent)
    IN  IF t.root = i THEN set_color(t, i, Black)
        ELSE IF get_color(t, parent) = Black THEN t
        ELSE IF get_color(t, uncle) = Red
             THEN InsertFix(Write(t, << <<parent, "color", Black>>, <<uncle, "color", Black>>,
                                        <<grandparent, "color", Red>> >>), grandparent)
        ELSE IF grandparent = NIL THEN set_color(t, parent, Black)
        ELSE RotateUp(t, i, parent, grandparent)

insert(t, i) ==
    IF t.root = NIL
    THEN [t EXCEPT !.root = i, !.max = i, !.node[i] = Zeroed]
    ELSE InsertFix(insert_node_no_fix(
             [t EXCEPT !.max = IF @ # NIL /\ Key[@] < Key[i] THEN i ELSE @], i), i)

\* A block from the free list.
Insert(i) ==
    /\ i \notin tree.used
    /\ tree' = [insert(tree, i) EXCEPT !.used = @ \cup {i}]

-----------------------------------------------------------------------------
(* Removal *)

\* 3a: a black sibling with a red child: one or two rotations end the repair.
BorrowFromSibling(t, sibling, parent) ==
    LET left   == get_left_index(t, sibling)
        right  == get_right_index(t, sibling)
        pc     == get_color(t, parent)
        straight(child) == Write(t, << <<child, "color", Black>>, <<parent, "color", Black>>,
                                       <<sibling, "color", pc>> >>)
        bent(child)     == Write(t, << <<child, "color", pc>>, <<parent, "color", Black>>,
                                       <<sibling, "color", Black>> >>)
    IN  IF is_left_child(t, sibling)
        THEN IF get_color(t, left) = Red THEN rotate_right(straight(left), parent)
             ELSE rotate_right(rotate_left(bent(right), sibling), parent)
        ELSE IF get_color(t, right) = Red THEN rotate_left(straight(right), parent)
             ELSE rotate_left(rotate_right(bent(left), sibling), parent)

\* remove_fix and its loop: current (maybe NIL) is one black short under parent.
RECURSIVE RemoveFix(_, _, _)
RemoveFix(t, current, parent) ==
    LET sibling == get_sibling_index(t, current, parent)
        turned  == IF is_left_child(t, sibling) THEN rotate_right(t, parent)
                   ELSE rotate_left(t, parent)
    IN  IF t.root = current \/ (current = NIL /\ parent = NIL) THEN t
        ELSE IF get_color(t, sibling) = Black /\ HasRedChild(t, sibling)
             THEN BorrowFromSibling(t, sibling, parent)
        ELSE IF get_color(t, sibling) = Black
             THEN LET lighter == set_color(t, sibling, Red)
                  IN  IF get_color(t, parent) = Black
                      THEN RemoveFix(lighter, parent, get_parent_index(t, parent))
                      ELSE set_color(lighter, parent, Black)
        ELSE RemoveFix(Write(turned, << <<parent, "color", Red>>, <<sibling, "color", Black>> >>),
                       current, parent)

\* Mutant: the cached best entry stays the one that is removed.
MUT_AdvanceMax_stale(t, i) == t

AdvanceMax(t, i) ==
    IF i = t.max THEN [t EXCEPT !.max = get_next_lower_index(t, i)] ELSE t

\* Mutant: a black leaf is taken out without repairing the black count.
MUT_RemoveLeaf_no_fix(t, i) ==
    set_color(update_parent_child(t, i), get_child_index(t, i), Black)

\* A red node, or one with a red child, is replaced by the child, made black; a
\* black one leaves its place one black short.
RemoveLeaf(t, i) ==
    LET child == get_child_index(t, i)
    IN  IF get_color(t, i) = Red \/ HasRedChild(t, i)
        THEN set_color(update_parent_child(t, i), child, Black)
        ELSE RemoveFix(update_parent_child(t, i), child, get_parent_index(t, i))

remove_by_index(t, i) ==
    LET u == AdvanceMax(t, i)
    IN  RemoveLeaf(IF is_internal(u, i)
                   THEN swap_node_with_successor(u, i, get_next_higher_index(u, i)) ELSE u, i)

\* Every caller gives the block back to the free list, which zeroes it.
RemoveByIndex(i) ==
    /\ i \in tree.used
    /\ tree' = [remove_by_index(tree, i) EXCEPT !.node[i] = Zeroed, !.used = @ \ {i}]

-----------------------------------------------------------------------------

Init == tree = [ node |-> [i \in Index |-> Zeroed], root |-> NIL, max |-> NIL, used |-> {} ]

Next == \E i \in Index : Insert(i) \/ RemoveByIndex(i)

Spec == Init /\ [][Next]_vars

-----------------------------------------------------------------------------
(* Properties *)

Links(i) == {get_left_index(tree, i), get_right_index(tree, i)} \ {NIL}

\* Parent and child links agree, the root has no parent, and every block in use is
\* in the tree once: no rotation or successor swap loses a subtree or leaves a
\* cycle, whichever of the nodes involved are adjacent, the root or NIL.
LinksAgree ==
    /\ TypeOK
    /\ \A i \in tree.used : \A j \in Links(i) : tree.node[j].parent = i /\ j \in tree.used
    /\ \A i \in tree.used :
         LET p == tree.node[i].parent
         IN  IF i = tree.root THEN p = NIL ELSE p # NIL /\ i \in Links(p)
    /\ (tree.root = NIL) <=> (tree.used = {})

\* The black nodes on each path from i down to a missing child.
BlackHeights ==
    LET below[i \in Index \cup {NIL}] ==
            IF i = NIL THEN {0}
            ELSE {h + (IF get_color(tree, i) = Black THEN 1 ELSE 0) :
                    h \in below[get_left_index(tree, i)] \cup below[get_right_index(tree, i)]}
    IN  below[tree.root]

\* verify_rb_tree after every operation, also the removals it is not called on: a
\* red node has no red child, the root is black, and every path has the same number
\* of black nodes, which is what bounds a lookup by the logarithm of the book.
RedBlackRules ==
    /\ \A i \in tree.used : tree.node[i].color = Red => ~HasRedChild(tree, i)
    /\ get_color(tree, tree.root) = Black
    /\ Cardinality(BlackHeights) = 1

\* A lookup finds exactly the entries in the tree, also when several have an equal
\* key and rotations have moved them to both sides of each other.
LookupFinds ==
    \A i \in Index : lookup_index(tree, i) = IF i \in tree.used THEN i ELSE NIL

\* The cached best entry is the rightmost node of the tree.
MaxIsRightmost == tree.max = lookup_max_index(tree)

Listing == INSTANCE PriorityList WITH Entry <- Index, queue <- iter(tree)

\* Walking the tree from the cached best entry downwards lists exactly the entries
\* in key order, first come first served among equal keys: every operation of the
\* tree, with its rebalancing, is one operation of the list.
ImplementsPriorityList == Listing!Spec

=============================================================================
