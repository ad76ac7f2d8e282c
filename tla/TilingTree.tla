----------------------------- MODULE TilingTree -----------------------------
(***************************************************************************)
(* The ordered tiling tree of one domain, and the edits the session makes  *)
(* to it (crates/tiler-core/src/session.rs, insert_tiled, remove_node and  *)
(* the group helpers).                                                     *)
(*                                                                         *)
(* The code's tree is recursive.  Here it is the set of its leaves, their  *)
(* left-to-right order and, for every group, the set of leaves below it:   *)
(* the sets are nested or disjoint, so they determine the tree.  A leaf is *)
(* named by its window, a node by the leaves below it.  Shares, node       *)
(* identifiers and geometry are left out.  TreeEdits checks these          *)
(* edits against a recursive tree.                                         *)
(***************************************************************************)
EXTENDS Naturals, FiniteSets

CONSTANT Windows

Axes == {"horizontal", "vertical"}

Groups == [members : SUBSET Windows, axis : Axes]

Trees == [leaves : SUBSET Windows, before : SUBSET (Windows \X Windows),
          groups : SUBSET Groups]

Empty == [leaves |-> {}, before |-> {}, groups |-> {}]

Lone(w) == [leaves |-> {w}, before |-> {}, groups |-> {}]

\* The nodes of a tree, each as the set of leaves below it.
Nodes(t) == {{w} : w \in t.leaves} \cup {g.members : g \in t.groups}

Precedes(t, a, b) == <<a, b>> \in t.before

\* Leaf x enters next to node s of t, after it or before it.  Either the two
\* are wrapped in a new group with the given axis, or x joins the group s is in.
Place(t, x, s, after, wrap, axis) ==
    LET ahead == {y \in t.leaves :
                    IF after THEN y \in s \/ \E z \in s : Precedes(t, y, z)
                             ELSE y \notin s /\ \A z \in s : Precedes(t, y, z)}
        grown == {IF s \subseteq g.members /\ s # g.members
                  THEN [g EXCEPT !.members = @ \cup {x}] ELSE g : g \in t.groups}
    IN  [leaves |-> t.leaves \cup {x},
         before |-> t.before \cup (ahead \X {x}) \cup ({x} \X (t.leaves \ ahead)),
         groups |-> grown \cup (IF wrap THEN {[members |-> s \cup {x}, axis |-> axis]}
                                        ELSE {})]

\* A joins-the-group placement needs a group above s.
CanPlace(t, s, wrap) ==
    /\ s \in Nodes(t)
    /\ wrap \/ \E g \in t.groups : s \subseteq g.members /\ s # g.members

\* Automatic admission: an empty tree becomes a root leaf, otherwise the new
\* leaf is wrapped behind the focused leaf, or behind the root without one.
Admitted(t, x, focus, axis) ==
    IF t.leaves = {} THEN Lone(x)
    ELSE Place(t, x, IF focus = {} THEN t.leaves ELSE focus, TRUE, TRUE, axis)

\* Of the groups with the same survivors the innermost stays; a group with
\* fewer than two survivors is replaced by what is left of it.
Survives(t, g, gone) ==
    /\ \E a, b \in g.members \ gone : a # b
    /\ \A h \in t.groups :
           h.members \subseteq g.members /\ h # g => h.members \ gone # g.members \ gone

RemovedAll(t, gone) ==
    [leaves |-> t.leaves \ gone,
     before |-> {p \in t.before : p[1] \notin gone /\ p[2] \notin gone},
     groups |-> {[g EXCEPT !.members = @ \ gone] : g \in {g \in t.groups : Survives(t, g, gone)}}]

\* A mutant: in a flat group the last leaf takes the place of the removed one.
SwapRemoved(t, x) ==
    LET rest == RemovedAll(t, {x})
        last == {z \in rest.leaves : \A y \in t.leaves \ {z} : Precedes(t, y, z)}
        kept == {p \in rest.before : p[1] \notin last /\ p[2] \notin last}
    IN  IF Cardinality(t.groups) # 1 THEN rest
        ELSE [rest EXCEPT !.before = kept
                 \cup (last \X {y \in rest.leaves \ last : Precedes(t, x, y)})
                 \cup ({y \in rest.leaves \ last : Precedes(t, y, x)} \X last)]

Removed(t, x) == RemovedAll(t, {x})

Turned(axis) == IF axis = "horizontal" THEN "vertical" ELSE "horizontal"

\* The group directly above leaf x changes its axis.
Flipped(t, x) ==
    [t EXCEPT !.groups =
        {IF x \in g.members /\ \A h \in @ : x \in h.members => g.members \subseteq h.members
         THEN [g EXCEPT !.axis = Turned(@)] ELSE g : g \in @}]

HasParent(t, x) == \E g \in t.groups : x \in g.members

\* Every other tree that taking x out of t and putting it back can give.
Rearranged(t, x) ==
    LET rest == Removed(t, x)
        spots == {p \in Nodes(rest) \X BOOLEAN : CanPlace(rest, p[1], p[2])}
    IN  {Place(rest, x, p[1], after, p[2], axis) :
            p \in spots, after \in BOOLEAN, axis \in Axes} \ {t}

-----------------------------------------------------------------------------
(* What makes such a structure a tree.                                     *)

Ordered(t) ==
    \A a, b \in t.leaves :
        /\ ~Precedes(t, a, a)
        /\ a # b => (Precedes(t, a, b) <=> ~Precedes(t, b, a))
        /\ \A c \in t.leaves : Precedes(t, a, b) /\ Precedes(t, b, c) => Precedes(t, a, c)

Nested(t) ==
    \A g, h \in t.groups :
        \/ g.members \subseteq h.members
        \/ h.members \subseteq g.members
        \/ g.members \cap h.members = {}

Contiguous(t) ==
    \A g \in t.groups : \A a, c \in g.members : \A b \in t.leaves :
        Precedes(t, a, b) /\ Precedes(t, b, c) => b \in g.members

WellFormed(t) ==
    /\ t.before \subseteq t.leaves \X t.leaves
    /\ Ordered(t) /\ Nested(t) /\ Contiguous(t)
    /\ \A g \in t.groups : g.members \subseteq t.leaves /\ Cardinality(g.members) > 1
    /\ \A g, h \in t.groups : g.members = h.members => g = h
    /\ Cardinality(t.leaves) > 1 => \E g \in t.groups : g.members = t.leaves
=============================================================================
