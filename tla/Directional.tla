---------------------------- MODULE Directional ----------------------------
(***************************************************************************)
(* Directional movement and focus, and the placements of a drop            *)
(* (crates/tiler-core/src/directional.rs, session/ops/move.rs, drag.rs).   *)
(*                                                                         *)
(* A move is planned on the tree as one operation and then applied by code *)
(* that checks the operation against the tree again and refuses whatever   *)
(* the planner would not have said.                                        *)
(***************************************************************************)
EXTENDS NaryTree, Integers

Directions == {"left", "right", "up", "down"}

Along(d) == IF d \in {"left", "right"} THEN "horizontal" ELSE "vertical"

Step(d) == IF d \in {"right", "down"} THEN 1 ELSE -1

\* The groups above leaf x, outermost first, each with the slot x is in.
RECURSIVE PathTo(_, _)
PathTo(n, x) ==
    IF IsLeaf(n) THEN <<>>
    ELSE LET i == CHOOSE i \in DOMAIN n.children : x \in LeavesOf(n.children[i])
         IN  <<[group |-> n, slot |-> i]>> \o PathTo(n.children[i], x)

-----------------------------------------------------------------------------
(* Planning a move.  Groups and neighbours are named by their leaves.      *)

\* R2: the leaf has a neighbour in its own group.
PlanBeside(here, next, d, mode) ==
    LET g    == here.group
        beside == g.children[next]
        mid  == Len(beside.children) \div 2
    IN  CASE Len(g.children) = 2 /\ IsLeaf(beside) ->
                [rule |-> "R2a", container |-> LeavesOf(g), neighbor |-> LeavesOf(beside)]
          [] Len(g.children) = 2 /\ ~IsLeaf(beside) /\ beside.axis = g.axis ->
                [rule |-> "R2b insert", container |-> LeavesOf(g), target |-> LeavesOf(beside),
                 index |-> IF here.slot < next THEN 1 ELSE Len(beside.children) + 1]
          [] Len(g.children) = 2 /\ ~IsLeaf(beside) /\ beside.axis # g.axis
                                 /\ Len(beside.children) % 2 = 0 ->
                [rule |-> "R2b insert", container |-> LeavesOf(g), target |-> LeavesOf(beside),
                 index |-> mid + 1]
          [] Len(g.children) = 2 /\ ~IsLeaf(beside) /\ beside.axis # g.axis
                                 /\ Len(beside.children) % 2 = 1 ->
                [rule |-> "R2b split", container |-> LeavesOf(g), target |-> LeavesOf(beside),
                 index |-> mid + 1]
          [] Len(g.children) > 2 /\ mode = "swap" /\ IsLeaf(beside) ->
                [rule |-> "R2c swap", container |-> LeavesOf(g), neighbor |-> LeavesOf(beside)]
          [] OTHER ->
                [rule |-> "R2c wrap", container |-> LeavesOf(g), neighbor |-> LeavesOf(beside)]

\* A mutant: always behind the group, whichever way the leaf goes.
EscapeBehind(here, parent, d) ==
    [rule |-> "R3", container |-> LeavesOf(here.group), parent |-> LeavesOf(parent.group),
     index |-> IF parent.group.axis = here.group.axis THEN {parent.slot + 1} ELSE {}]

\* R3: the leaf is at the end of its group, which has a parent.
PlanEscape(here, parent, d) ==
    [rule |-> "R3", container |-> LeavesOf(here.group), parent |-> LeavesOf(parent.group),
     index |-> IF parent.group.axis = here.group.axis
               THEN {IF Step(d) = 1 THEN parent.slot + 1 ELSE parent.slot} ELSE {}]

Noop == [rule |-> "none"]

PlanMove(n, x, d, mode) ==
    LET path == PathTo(n, x)
        here == path[Len(path)]
        next == here.slot + Step(d)
    IN  IF path = <<>> THEN Noop
        ELSE IF here.group.axis # {Along(d)}
             THEN [rule |-> "R1", container |-> LeavesOf(here.group)]
        ELSE IF next \in DOMAIN here.group.children THEN PlanBeside(here, next, d, mode)
        ELSE IF Len(path) = 1 THEN Noop
        ELSE PlanEscape(here, path[Len(path) - 1], d)

-----------------------------------------------------------------------------
(* Applying the planned move.                                              *)

\* A mutant: the new group runs across the move.
EndsAcross(d, x, rest) ==
    IF Step(d) = -1 THEN Pair(Opposite(Along(d)), Leaf(x), rest)
                    ELSE Pair(Opposite(Along(d)), rest, Leaf(x))

Ends(d, x, rest) ==
    IF Step(d) = -1 THEN Pair(Along(d), Leaf(x), rest) ELSE Pair(Along(d), rest, Leaf(x))

\* What every rule but R1 checks of the container: it runs along the move and
\* x is its direct child.
HoldsDirectly(g, x, d) ==
    /\ g.axis = {Along(d)}
    /\ \E i \in DOMAIN g.children : LeavesOf(g.children[i]) = {x}

\* The container is split across: x at its end, what is left of it beside.
ApplyR1(n, x, d, p) ==
    LET g    == PartAt(n, p.container)
        i    == IndexOf(g, {x})
        rest == RemoveAt(g.children, i)
        left == IF Len(rest) = 1 THEN rest[1]
                ELSE [g EXCEPT !.children = rest, !.shares = RemoveAt(@, i)]
    IN  IF g.axis # {Along(d)} /\ g \in ParentOf(n, {x})
        THEN {Replaced(n, p.container, Ends(d, x, left))} ELSE {}

\* Neighbouring leaves change places and take their shares along.
ApplySwap(n, x, d, mode, p) ==
    LET g == PartAt(n, p.container)
        i == IndexOf(g, {x})
        j == IndexOf(g, p.neighbor)
        exchanged(s) == [s EXCEPT ![i] = s[j], ![j] = s[i]]
    IN  IF /\ HoldsDirectly(g, x, d)
           /\ j = i + Step(d) /\ IsLeaf(g.children[j])
           /\ IF p.rule = "R2a" THEN Len(g.children) = 2
                                ELSE Len(g.children) > 2 /\ mode = "swap"
        THEN {Replaced(n, p.container,
                 [g EXCEPT !.children = exchanged(@), !.shares = exchanged(@)])}
        ELSE {}

\* The neighbouring group takes x in, at its near end or in its middle.
ApplyInsert(n, x, d, p) ==
    LET g      == PartAt(n, p.container)
        target == PartAt(n, p.target)
        i      == IndexOf(g, {x})
        near   == IF Step(d) = 1 THEN 1 ELSE Len(target.children) + 1
    IN  IF /\ HoldsDirectly(g, x, d) /\ Len(g.children) = 2
           /\ LeavesOf(g.children[i + Step(d)]) = p.target
           /\ IF target.axis = g.axis THEN p.index = near
              ELSE Len(target.children) % 2 = 0 /\ p.index = Len(target.children) \div 2 + 1
        THEN InsertedInto(WithoutLeaf(n, x), p.target, p.index, x) ELSE {}

\* x splits the middle child of the neighbouring group.
ApplySplit(n, x, d, p) ==
    LET g      == PartAt(n, p.container)
        target == PartAt(n, p.target)
        victim == target.children[p.index]
    IN  IF /\ HoldsDirectly(g, x, d) /\ Len(g.children) = 2
           /\ LeavesOf(g.children[IndexOf(g, {x}) + Step(d)]) = p.target
           /\ target.axis # g.axis
           /\ Len(target.children) % 2 = 1 /\ p.index = Len(target.children) \div 2 + 1
        THEN {Replaced(WithoutLeaf(n, x), LeavesOf(victim), Ends(d, x, victim))} ELSE {}

\* x and its neighbour share a new group in the place of both.
ApplyWrap(n, x, d, mode, p) ==
    LET g  == PartAt(n, p.container)
        i  == IndexOf(g, {x})
        j  == IndexOf(g, p.neighbor)
        lo == IF i < j THEN i ELSE j
        wrapper == Pair(Along(d), g.children[lo], g.children[lo + 1])
    IN  IF /\ HoldsDirectly(g, x, d) /\ Len(g.children) > 2
           /\ j = i + Step(d)
           /\ ~(mode = "swap" /\ IsLeaf(g.children[j]))
        THEN {Replaced(n, p.container,
                 [g EXCEPT !.children = ReplaceAt(RemoveAt(@, lo + 1), lo, wrapper),
                           !.shares = ReplaceAt(RemoveAt(@, lo + 1), lo, g.shares[i] + g.shares[j])])}
        ELSE {}

\* x leaves its group: into the parent beside the group, or across the parent.
ApplyEscape(n, x, d, p) ==
    LET g      == PartAt(n, p.container)
        parent == PartAt(n, p.parent)
        slot   == IndexOf(parent, p.container)
        beside == IF parent.axis = g.axis THEN {IF Step(d) = 1 THEN slot + 1 ELSE slot} ELSE {}
        rest   == WithoutLeaf(n, x)
        around == p.parent \ {x}
    IN  IF /\ HoldsDirectly(g, x, d)
           /\ IndexOf(g, {x}) + Step(d) \notin DOMAIN g.children
           /\ parent \in ParentOf(n, p.container)
           /\ p.index = beside
        THEN IF beside = {} THEN {Replaced(rest, around, Ends(d, x, PartAt(rest, around)))}
             ELSE UNION {InsertedInto(rest, around, i, x) : i \in beside}
        ELSE {}

ApplyMove(n, x, d, mode, p) ==
    CASE p.rule = "R1" -> ApplyR1(n, x, d, p)
      [] p.rule \in {"R2a", "R2c swap"} -> ApplySwap(n, x, d, mode, p)
      [] p.rule = "R2b insert" -> ApplyInsert(n, x, d, p)
      [] p.rule = "R2b split" -> ApplySplit(n, x, d, p)
      [] p.rule = "R2c wrap" -> ApplyWrap(n, x, d, mode, p)
      [] p.rule = "R3" -> ApplyEscape(n, x, d, p)

-----------------------------------------------------------------------------
(* Focus: climb to the nearest group along the direction with a sibling    *)
(* there, then down its near side; first child where the axis is across.   *)

\* A mutant: the first leaf, whichever side is near.
RECURSIVE FirstLeaf(_, _)
FirstLeaf(n, d) == IF IsLeaf(n) THEN n.window ELSE FirstLeaf(n.children[1], d)

RECURSIVE NearLeaf(_, _)
NearLeaf(n, d) ==
    IF IsLeaf(n) THEN n.window
    ELSE NearLeaf(n.children[IF n.axis = {Along(d)} /\ Step(d) = -1 THEN Len(n.children) ELSE 1], d)

PlanFocus(n, x, d) ==
    LET path == PathTo(n, x)
        ways == {k \in DOMAIN path :
                    /\ path[k].group.axis = {Along(d)}
                    /\ path[k].slot + Step(d) \in DOMAIN path[k].group.children}
    IN  UNION {NearLeaf(path[k].group.children[path[k].slot + Step(d)], d) :
                  k \in {k \in ways : \A l \in ways : l <= k}}

-----------------------------------------------------------------------------
(* Drops.  The source leaves the tree first.  A group s is named by its     *)
(* leaves before that, and is no target when it goes with the source.      *)

Stays(n, x, s) == \A g \in ParentOf(n, {x}) : LeavesOf(g) = s => Len(g.children) > 2

\* Across the axis x splits the target, whichever it is.
SplitAt(rest, s, x, d) == {Nested(rest, s, x, Step(d) = -1, Along(d))}

\* A mutant: the slot of y counted with the source in its group.
DroppedAtStaleSlot(n, x, y, d) ==
    LET rest   == WithoutLeaf(n, x)
        joined == {g \in ParentOf(rest, {y}) : g.axis = {Along(d)}}
        old    == CHOOSE i \in {IndexOf(g, {y}) : g \in ParentOf(n, {y})} : TRUE
        slot(g) == IF Step(d) = -1 \/ old > Len(g.children) THEN old ELSE old + 1
    IN  IF joined = {} THEN SplitAt(rest, {y}, x, d)
        ELSE UNION {InsertedInto(rest, LeavesOf(g), slot(g), x) : g \in joined}

\* apply_drag_placement: a drop on side d of leaf y.
DroppedAtLeaf(n, x, y, d) ==
    LET rest   == WithoutLeaf(n, x)
        joined == {g \in ParentOf(rest, {y}) : g.axis = {Along(d)}}
        slot(g) == IF Step(d) = -1 THEN IndexOf(g, {y}) ELSE IndexOf(g, {y}) + 1
    IN  IF joined = {} THEN SplitAt(rest, {y}, x, d)
        ELSE UNION {InsertedInto(rest, LeavesOf(g), slot(g), x) : g \in joined}

\* apply_group_edge_placement: a drop on side d of group s.
DroppedAtGroup(n, x, s, d) ==
    LET rest == WithoutLeaf(n, x)
        g    == PartAt(rest, s \ {x})
    IN  IF ~Stays(n, x, s) THEN {}
        ELSE IF g.axis # {Along(d)} THEN SplitAt(rest, s \ {x}, x, d)
        ELSE InsertedInto(rest, s \ {x}, IF Step(d) = -1 THEN 1 ELSE Len(g.children) + 1, x)

\* apply_group_interior_placement: a drop in the gap after child i of group s,
\* the source still counted.
DroppedInside(n, x, s, i) ==
    LET rest == WithoutLeaf(n, x)
        size == Len(PartAt(rest, s \ {x}).children)
    IN  IF ~Stays(n, x, s) THEN {}
        ELSE InsertedInto(rest, s \ {x}, IF i < size THEN i + 1 ELSE size + 1, x)
=============================================================================
