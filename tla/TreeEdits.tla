----------------------------- MODULE TreeEdits -----------------------------
(***************************************************************************)
(* The edits of one domain's tree as a state machine: admission, removal,  *)
(* directional moves, orientation, resizes and drops, each on the tree the *)
(* ones before it left.  Session works on trees without shares and lets a  *)
(* move or a drop end anywhere; here are the trees and the destinations    *)
(* themselves.                                                             *)
(***************************************************************************)
EXTENDS Directional

CONSTANTS Windows,
          Modes,         \* same-axis behaviours of a move: "group", "swap"
          Scales,        \* scales a resize may multiply the shares by
          MaxResizes     \* bound on resizes

\* What every instance assumes of the constants.
Assumption ==
    /\ MaxShare \in Nat
    /\ Modes \subseteq {"group", "swap"}
    /\ Scales \subseteq Nat \ {0}
    /\ MaxResizes \in Nat

VARIABLES tree,      \* {} or the root
          resizes

vars == <<tree, resizes>>

Present == UNION {LeavesOf(n) : n \in tree}

Axes == {"horizontal", "vertical"}

-----------------------------------------------------------------------------
Init == tree = {} /\ resizes = 0

\* validate_topology is the last thing every operation asks of its result.
Becomes(edited) ==
    /\ \A n \in edited : Sound(n)
    /\ tree' = edited
    /\ UNCHANGED resizes

Admit(x) ==
    /\ x \notin Present
    /\ \E focus \in {{}} \cup {{w} : w \in Present}, axis \in Axes :
           Becomes(InsertedTiled(tree, focus, x, axis))

RemoveWindow(x) == x \in Present /\ Becomes(RemovedFrom(tree, x))

\* The tree after a move that is planned and applied.
Moved(n, x, d, mode) ==
    LET p == PlanMove(n, x, d, mode)
    IN  IF p = Noop THEN {} ELSE ApplyMove(n, x, d, mode, p)

Move(x) ==
    \E n \in tree, d \in Directions, mode \in Modes :
        /\ x \in Present
        /\ \E edited \in Moved(n, x, d, mode) : Becomes({edited})

Flip(x) == \E n \in tree : \E edited \in FlippedAbove(n, x) : Becomes({edited})

\* Neighbours in a group redistribute their part, which is never all of it.
Resize ==
    /\ resizes < MaxResizes
    /\ \E n \in tree : \E g \in GroupsOf(n), scale \in Scales :
       \E lo \in 1..(Len(g.shares) - 1) :
       \E left \in 1..((g.shares[lo] + g.shares[lo + 1]) * scale - 1) :
           /\ left # g.shares[lo] * scale
           /\ LET edited == ResizedPair(n, LeavesOf(g), lo, scale, left)
              IN  Sound(edited) /\ tree' = {edited}
    /\ resizes' = resizes + 1

\* Where a drag of x may be released: on a leaf, at the edge of a group, in a
\* gap between the children of a group.
Targets(n, x) ==
    [kind : {"leaf"}, at : {{y} : y \in LeavesOf(n) \ {x}}, side : Directions]
    \cup [kind : {"group"}, at : {LeavesOf(g) : g \in GroupsOf(n)}, side : Directions]
    \cup {[kind |-> "gap", at |-> LeavesOf(g), after |-> i] :
            g \in GroupsOf(n), i \in 1..Cardinality(LeavesOf(n))}

Dropped(n, x, to) ==
    CASE to.kind = "leaf"  -> UNION {DroppedAtLeaf(n, x, y, to.side) : y \in to.at}
      [] to.kind = "group" -> DroppedAtGroup(n, x, to.at, to.side)
      [] to.kind = "gap"   -> IF to.after < Len(PartAt(n, to.at).children)
                              THEN DroppedInside(n, x, to.at, to.after) ELSE {}

Drop(x) ==
    \E n \in tree :
        /\ x \in Present /\ ~IsLeaf(n)
        /\ \E to \in Targets(n, x) : \E edited \in Dropped(n, x, to) :
               edited # n /\ Becomes({edited})

Next ==
    \/ \E x \in Windows : Admit(x) \/ RemoveWindow(x) \/ Move(x) \/ Flip(x) \/ Drop(x)
    \/ Resize

Spec == Init /\ [][Next]_vars

-----------------------------------------------------------------------------
(* Properties.                                                             *)

\* The tree as Session sees it: order, groups and axes.
Laminar(n) ==
    [leaves |-> LeavesOf(n),
     before |-> Order(n),
     groups |-> {[members |-> LeavesOf(g), axis |-> CHOOSE a \in g.axis : TRUE] :
                    g \in GroupsOf(n)}]

Seen == IF tree = {} THEN [leaves |-> {}, before |-> {}, groups |-> {}]
                     ELSE Laminar(CHOOSE n \in tree : TRUE)

Promise == INSTANCE TreeSpec WITH tree <- Seen

\* Every edit of the recursive tree (session.rs, move.rs, drag.rs) is one of
\* the edits Session may make, and loses, repeats or regroups no other window.
ImplementsTreeSpec == Promise!TreeSpecification

\* Its two parts, for an instance among others.
PromiseStarts == Promise!SpecInit
PromiseStep == [Promise!SpecNext]_Seen

\* Shares: every group has one positive share per child and a total that fits
\* (validate_node_shares), for a tree over distinct windows.
TreeIsSound ==
    /\ Cardinality(tree) < 2 /\ resizes \in 0..MaxResizes
    /\ \A n \in tree : Sound(n) /\ \A w \in Windows : <<w, w>> \notin Order(n)

Fits(n) ==
    \A g \in GroupsOf(n) : \A i \in 1..(Len(g.shares) + 1) :
        \E grown \in InsertionShares(g.shares, i) : Total(grown) <= MaxShare

\* Every group could take one more child, now and after x has left.
Roomy(n, x) == Fits(n) /\ \A rest \in RemovedFrom({n}, x) : Fits(rest)

\* No edit of a sound tree fails the validation of its own result
\* (validate_topology) while the shares have room: the refusal is never seen.
EditsValidate ==
    \A n \in tree : \A x \in LeavesOf(n) :
        /\ \A edited \in RemovedFrom(tree, x) \cup FlippedAbove(n, x) : Sound(edited)
        /\ Roomy(n, x) /\ ~IsLeaf(n) =>
              \A to \in Targets(n, x) : \A edited \in Dropped(n, x, to) : Sound(edited)

\* The applier (move.rs apply_move_operation) checks a planned operation again,
\* by rules written separately from the planner's.  It accepts every plan, and
\* the result is never the tree it began with.
PlansApply ==
    \A n \in tree : \A x \in LeavesOf(n), d \in Directions, mode \in Modes :
        Roomy(n, x) /\ PlanMove(n, x, d, mode) # Noop =>
            \E edited \in Moved(n, x, d, mode) : edited # n /\ Sound(edited)

\* The windows before x.
Ahead(n, x) == {w \in LeavesOf(n) : <<w, x>> \in Order(n)}

\* A move never carries a window against its direction: one to the right or
\* down keeps every window before it that was there, to the left or up takes
\* none along.
MovesTravel ==
    \A n \in tree : \A x \in LeavesOf(n), d \in Directions, mode \in Modes :
        \A edited \in Moved(n, x, d, mode) :
            IF Step(d) = 1 THEN Ahead(n, x) \subseteq Ahead(edited, x)
                           ELSE Ahead(edited, x) \subseteq Ahead(n, x)

RECURSIVE Settles(_, _, _, _, _)
Settles(n, x, d, mode, steps) ==
    \/ PlanMove(n, x, d, mode) = Noop
    \/ /\ steps > 0
       /\ \A edited \in Moved(n, x, d, mode) : Settles(edited, x, d, mode, steps - 1)

\* Holding a move key down ends: after at most four steps for each window x
\* is at the edge of the workspace and the plan is no operation.
EdgeIsReached ==
    \A n \in tree : \A x \in LeavesOf(n), d \in Directions, mode \in Modes :
        Settles(n, x, d, mode, 4 * Cardinality(LeavesOf(n)))

Back(d) == CASE d = "left" -> "right" [] d = "right" -> "left"
                [] d = "up" -> "down"    [] d = "down" -> "up"

\* Focus (plan_focus) goes to another window on the side asked for, and going
\* back from there leads into the branch it came from.
FocusReturns ==
    \A n \in tree : \A x \in LeavesOf(n), d \in Directions : \A y \in PlanFocus(n, x, d) :
        /\ IF Step(d) = 1 THEN x \in Ahead(n, y) ELSE y \in Ahead(n, x)
        /\ \E z \in PlanFocus(n, y, Back(d)) :
               \A g \in Parts(n) : {z, y} \subseteq LeavesOf(g) <=> {x, y} \subseteq LeavesOf(g)

\* A window that cannot move within the workspace has no neighbour to focus
\* there: movement and focus agree on where the edge is, where both look at
\* the neighbouring output instead.
EdgesAgree ==
    \A n \in tree : \A x \in LeavesOf(n), d \in Directions, mode \in Modes :
        PlanMove(n, x, d, mode) = Noop => PlanFocus(n, x, d) = {}

\* A drop lands where it was released: beside the leaf on the side chosen, at
\* that end of the group.
DropsLand ==
    \A n \in tree : \A x \in LeavesOf(n) : ~IsLeaf(n) =>
        \A to \in {to \in Targets(n, x) : to.kind # "gap"} : \A edited \in Dropped(n, x, to) :
            LET others == to.at \ {x}
                order  == Order(edited)
                before == {w \in LeavesOf(edited) : <<w, x>> \in order}
                after  == {w \in LeavesOf(edited) : <<x, w>> \in order}
            IN  IF Step(to.side) = -1
                THEN /\ others \subseteq after
                     /\ \E y \in others : \A w \in after \ {y} : <<y, w>> \in order
                ELSE /\ others \subseteq before
                     /\ \E y \in others : \A w \in before \ {y} : <<w, y>> \in order

\* The shares of two siblings, as the product that compares their ratio.
Siblings(n) ==
    UNION {{[a |-> LeavesOf(g.children[i]), b |-> LeavesOf(g.children[j]),
             sa |-> g.shares[i], sb |-> g.shares[j]] :
                i \in DOMAIN g.children, j \in DOMAIN g.children} : g \in GroupsOf(n)}

SameRatio(p, q) == p.a = q.a /\ p.b = q.b => p.sa * q.sb = p.sb * q.sa

\* Only the shares of the window an edit is about, and of what holds it, change
\* against the rest.
KeepsRatios ==
    resizes' = resizes =>
        \E x \in Windows : \A n \in tree, m \in tree' :
            \A p \in Siblings(n), q \in Siblings(m) : x \notin p.a \cup p.b => SameRatio(p, q)

\* What a user gave two neighbours by resizing them survives everything that
\* happens to other windows.
RatiosKept == [][KeepsRatios]_vars
=============================================================================
