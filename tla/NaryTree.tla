------------------------------ MODULE NaryTree ------------------------------
(***************************************************************************)
(* The ordered N-ary tree of one domain as the code keeps it (directional  *)
(* Node), with the shares of its groups and the edits of session.rs and    *)
(* cosmic_v1.rs.  A node is named by the set of windows below it, which no *)
(* two nodes of a tree have in common.  An edit that the code refuses      *)
(* gives the empty set, one that succeeds the set of its result.           *)
(***************************************************************************)
EXTENDS Naturals, Sequences, FiniteSets, SequencesExt

CONSTANT MaxShare      \* the largest share total, u64::MAX in the code

Leaf(w) == [window |-> {w}, axis |-> {}, children |-> <<>>, shares |-> <<>>]

Group(axis, children, shares) ==
    [window |-> {}, axis |-> {axis}, children |-> children, shares |-> shares]

IsLeaf(n) == n.window # {}

RECURSIVE LeavesOf(_)
LeavesOf(n) == n.window \cup UNION {LeavesOf(n.children[i]) : i \in DOMAIN n.children}

RECURSIVE Parts(_)
Parts(n) == {n} \cup UNION {Parts(n.children[i]) : i \in DOMAIN n.children}

GroupsOf(n) == {g \in Parts(n) : ~IsLeaf(g)}

\* The pairs of leaves in left-to-right order.
Order(n) ==
    UNION {LeavesOf(g.children[i]) \X UNION {LeavesOf(g.children[j]) : j \in (i + 1)..Len(g.children)} :
              <<g, i>> \in UNION {{g} \X DOMAIN g.children : g \in GroupsOf(n)}}

PartAt(n, s) == CHOOSE p \in Parts(n) : LeavesOf(p) = s

IndexOf(g, s) == CHOOSE i \in DOMAIN g.children : LeavesOf(g.children[i]) = s

\* The group that has node s as a direct child.
ParentOf(n, s) ==
    {g \in GroupsOf(n) : \E i \in DOMAIN g.children : LeavesOf(g.children[i]) = s}

Total(shares) == FoldSeq(+, 0, shares)

\* validate_node_shares.
Sound(n) ==
    \A g \in GroupsOf(n) :
        /\ Len(g.children) > 1
        /\ Len(g.shares) = Len(g.children)
        /\ \A i \in DOMAIN g.shares : g.shares[i] > 0
        /\ Total(g.shares) <= MaxShare

\* n with its part s replaced; the slot of s keeps its share.
RECURSIVE Replaced(_, _, _)
Replaced(n, s, new) ==
    IF LeavesOf(n) = s THEN new
    ELSE [n EXCEPT !.children =
            [i \in DOMAIN @ |-> IF s \subseteq LeavesOf(@[i]) THEN Replaced(@[i], s, new) ELSE @[i]]]

-----------------------------------------------------------------------------
(* Shares.                                                                 *)

Divides(d, shares) == \A i \in DOMAIN shares : shares[i] % d = 0

\* Every share divided by the greatest common divisor.
Normal(shares) ==
    LET divisor == CHOOSE d \in 1..shares[1] :
                      /\ Divides(d, shares)
                      /\ \A e \in (d + 1)..shares[1] : ~Divides(e, shares)
    IN  [i \in DOMAIN shares |-> shares[i] \div divisor]

\* The old shares s become s * n, the entrant gets their sum: 1 part in n + 1.
InsertionShares(shares, i) ==
    LET n      == Len(shares)
        scaled == [j \in DOMAIN shares |-> shares[j] * n]
    IN  IF Total(shares) > MaxShare \/ \E j \in DOMAIN scaled : scaled[j] > MaxShare THEN {}
        ELSE {Normal(InsertAt(scaled, i, Total(shares)))}

\* A mutant: the neighbour takes the share of the one that leaves.
RemovalToNeighbor(shares, i) ==
    LET j == IF i = 1 THEN 2 ELSE i - 1
    IN  Normal(RemoveAt([shares EXCEPT ![j] = @ + shares[i]], i))

RemovalShares(shares, i) == Normal(RemoveAt(shares, i))

HalfSplit == <<1, 1>>

-----------------------------------------------------------------------------
(* Edits.  A domain's tree is {} or the set of its root.                   *)

Pair(axis, first, second) == Group(axis, <<first, second>>, HalfSplit)

\* Leaf x comes next to part s of n, before or after it, in a new group.
Nested(n, s, x, before, axis) ==
    Replaced(n, s, IF before THEN Pair(axis, Leaf(x), PartAt(n, s))
                             ELSE Pair(axis, PartAt(n, s), Leaf(x)))

\* insert_leaf_into_group: x becomes child i of group s.
InsertedInto(n, s, i, x) ==
    LET g == PartAt(n, s)
    IN  {Replaced(n, s, [g EXCEPT !.children = InsertAt(@, i, Leaf(x)), !.shares = shares]) :
            shares \in InsertionShares(g.shares, i)}

\* insert_tiled: a root leaf, or a split of the focused leaf or of the root.
InsertedTiled(tree, focus, x, axis) ==
    IF tree = {} THEN {Leaf(x)}
    ELSE {Nested(n, IF focus = {} THEN LeavesOf(n) ELSE focus, x, FALSE, axis) : n \in tree}

\* A mutant: a group left with one child stays.
RECURSIVE KeepingSingles(_, _)
KeepingSingles(n, x) ==
    LET i == CHOOSE i \in DOMAIN n.children : x \in LeavesOf(n.children[i])
    IN  IF IsLeaf(n.children[i])
        THEN [n EXCEPT !.children = RemoveAt(@, i), !.shares = RemovalShares(@, i)]
        ELSE [n EXCEPT !.children[i] = KeepingSingles(@, x)]

\* A mutant: the last child takes the place of the one that leaves.
RECURSIVE SwappingLast(_, _)
SwappingLast(n, x) ==
    LET i == CHOOSE i \in DOMAIN n.children : x \in LeavesOf(n.children[i])
        last == Len(n.children)
        moved(s) == IF i = last THEN RemoveAt(s, i) ELSE ReplaceAt(RemoveAt(s, last), i, s[last])
    IN  IF ~IsLeaf(n.children[i]) THEN [n EXCEPT !.children[i] = SwappingLast(@, x)]
        ELSE IF last = 2 THEN n.children[3 - i]
        ELSE [n EXCEPT !.children = moved(@), !.shares = moved(@)]

\* remove_node below the root: a slot that loses its leaf goes with its share,
\* a group left with one child is that child.
RECURSIVE WithoutLeaf(_, _)
WithoutLeaf(n, x) ==
    LET i == CHOOSE i \in DOMAIN n.children : x \in LeavesOf(n.children[i])
        rest == RemoveAt(n.children, i)
    IN  IF ~IsLeaf(n.children[i]) THEN [n EXCEPT !.children[i] = WithoutLeaf(@, x)]
        ELSE IF Len(rest) = 1 THEN rest[1]
        ELSE [n EXCEPT !.children = rest, !.shares = RemovalShares(@, i)]

RemovedFrom(tree, x) ==
    {WithoutLeaf(n, x) : n \in {n \in tree : LeavesOf(n) # {x}}}

Opposite(axis) == IF axis = "horizontal" THEN "vertical" ELSE "horizontal"

\* flip_group_axis of the group directly above leaf x.
FlippedAbove(n, x) ==
    {Replaced(n, LeavesOf(g), [g EXCEPT !.axis = {Opposite(a) : a \in @}]) : g \in ParentOf(n, {x})}

\* apply_resize_shares on one pair of neighbours, lo and lo + 1: everything is
\* scaled, the pair's part redistributed.
PairShares(shares, lo, scale, left) ==
    [i \in DOMAIN shares |->
        IF i = lo THEN left
        ELSE IF i = lo + 1 THEN (shares[lo] + shares[i]) * scale - left
        ELSE shares[i] * scale]

ResizedPair(n, s, lo, scale, left) ==
    Replaced(n, s, [PartAt(n, s) EXCEPT !.shares = PairShares(@, lo, scale, left)])
=============================================================================
