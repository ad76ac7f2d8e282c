----------------------------- MODULE TreeSpec -----------------------------
(***************************************************************************)
(* What the edits of a domain's tree promise, on the tree as Session sees  *)
(* it: a window is admitted, removed, taken out and put back elsewhere, or *)
(* the group above it turned.  Everything else keeps its order, its groups *)
(* and their axes.                                                         *)
(***************************************************************************)
EXTENDS TilingTree

VARIABLE tree

SpecInit == tree = Empty

Admits(x) ==
    \E focus \in {{}} \cup {{w} : w \in tree.leaves}, axis \in Axes :
        x \notin tree.leaves /\ tree' = Admitted(tree, x, focus, axis)

Removes(x) == x \in tree.leaves /\ tree' = Removed(tree, x)

Rearranges(x) == HasParent(tree, x) /\ tree' \in Rearranged(tree, x)

Turns(x) == HasParent(tree, x) /\ tree' = Flipped(tree, x)

SpecNext == \E x \in Windows : Admits(x) \/ Removes(x) \/ Rearranges(x) \/ Turns(x)

TreeSpecification == SpecInit /\ [][SpecNext]_tree
=============================================================================
