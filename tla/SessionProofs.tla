---------------------------- MODULE SessionProofs ----------------------------
(***************************************************************************)
(* Proofs about the planning session (module Session), for every number of *)
(* windows, every set of outputs and workspaces, and every policy.  First  *)
(* its data: the tree edits keep trees trees, the operators keep worlds    *)
(* and focus stacks sound, and each operation makes of a sound world       *)
(* another one, with the tiles, floats and marks it is meant to have.      *)
(* Then its steps, and last that no operation disturbs the windows it is   *)
(* not about: what the tiles of a domain have left in common keeps its     *)
(* order and grouping.                                                     *)
(***************************************************************************)
EXTENDS Session, TLAPS, FiniteSetTheorems, WellFoundedInduction

-----------------------------------------------------------------------------
(* Sizes.                                                                  *)

\* The windows of an instance are finitely many, and so are the parts of a tree.
LEMMA WindowsFinite ==
    ASSUME Assumption
    PROVE  IsFiniteSet(Windows) /\ \A S \in SUBSET Windows : IsFiniteSet(S)
<1>1. IsFiniteSet(Windows)
    BY FS_Interval DEF Assumption, Windows
<1> QED BY <1>1, FS_Subset

\* A finite set has more than one element when two of its elements differ.
LEMMA TwoElements ==
    ASSUME NEW S, IsFiniteSet(S)
    PROVE  Cardinality(S) > 1 <=> \E a, b \in S : a # b
<1>1. Cardinality(S) \in Nat
    BY FS_CardinalityType
<1>2. ASSUME NEW a \in S, NEW b \in S, a # b
      PROVE  Cardinality(S) > 1
    <2>1. Cardinality(S) # 0
        BY FS_EmptySet
    <2>2. Cardinality(S) # 1
        <3> SUFFICES ASSUME Cardinality(S) = 1
                     PROVE  FALSE
            OBVIOUS
        <3>1. \E x : S = {x}
            BY FS_Singleton
        <3> QED BY <3>1, <1>2
    <2> QED BY <1>1, <2>1, <2>2
<1>3. ASSUME \A a, b \in S : a = b
      PROVE  Cardinality(S) < 2
    <2>1. CASE S = {}
        BY <2>1, FS_EmptySet
    <2>2. CASE S # {}
        <3>1. \E x : S = {x}
            BY <2>2, <1>3
        <3>2. Cardinality(S) = 1
            BY <3>1, FS_Singleton
        <3> QED BY <3>2
    <2> QED BY <2>1, <2>2
<1> QED BY <1>1, <1>2, <1>3

Several(S) == \E a, b \in S : a # b

\* The parts of WellFormed without cardinalities.
Sturdy(t) ==
    /\ t.before \subseteq t.leaves \X t.leaves
    /\ Ordered(t) /\ Nested(t) /\ Contiguous(t)
    /\ \A g \in t.groups : g.members \subseteq t.leaves /\ Several(g.members)
    /\ \A g, h \in t.groups : g.members = h.members => g = h
    /\ Several(t.leaves) => \E g \in t.groups : g.members = t.leaves

\* It says the same as the module's own.
LEMMA SturdyIsWellFormed ==
    ASSUME Assumption, NEW t \in Trees
    PROVE  Sturdy(t) <=> WellFormed(t)
<1>1. \A S \in SUBSET Windows : Cardinality(S) > 1 <=> Several(S)
    BY WindowsFinite, TwoElements DEF Several
<1>2. t.leaves \in SUBSET Windows /\ \A g \in t.groups : g.members \in SUBSET Windows
    BY DEF Trees, Groups
<1>3. Cardinality(t.leaves) > 1 <=> Several(t.leaves)
    BY <1>1, <1>2
<1>4. \A g \in t.groups : Cardinality(g.members) > 1 <=> Several(g.members)
    BY <1>1, <1>2
<1> HIDE DEF Several
<1> QED BY <1>3, <1>4 DEF Sturdy, WellFormed

-----------------------------------------------------------------------------
(* Placing a leaf.                                                         *)

\* A node of a tree: some of its leaves, next to one another, and inside,
\* around or apart from every group.
LEMMA NodesAreParts ==
    ASSUME NEW t \in Trees, Sturdy(t), NEW s \in Nodes(t)
    PROVE  /\ s \subseteq t.leaves /\ s # {}
           /\ \A a, c \in s : \A b \in t.leaves :
                  Precedes(t, a, b) /\ Precedes(t, b, c) => b \in s
           /\ \A g \in t.groups :
                  s \subseteq g.members \/ g.members \subseteq s \/ g.members \cap s = {}
<1>1. CASE \E w \in t.leaves : s = {w}
    <2>1. PICK w \in t.leaves : s = {w}
        BY <1>1
    <2>2. \A b \in t.leaves : ~(Precedes(t, w, b) /\ Precedes(t, b, w)) \/ b = w
        BY <2>1 DEF Sturdy, Ordered
    <2> QED BY <2>1, <2>2
<1>2. CASE \E g \in t.groups : s = g.members
    <2>1. PICK g \in t.groups : s = g.members
        BY <1>2
    <2>2. s \subseteq t.leaves /\ s # {}
        BY <2>1 DEF Sturdy, Several
    <2>3. \A a, c \in s : \A b \in t.leaves :
              Precedes(t, a, b) /\ Precedes(t, b, c) => b \in s
        BY <2>1 DEF Sturdy, Contiguous
    <2>4. \A h \in t.groups :
              s \subseteq h.members \/ h.members \subseteq s \/ h.members \cap s = {}
        BY <2>1 DEF Sturdy, Nested
    <2> QED BY <2>2, <2>3, <2>4
<1> QED BY <1>1, <1>2 DEF Nodes

\* The leaves that come before a leaf placed next to node s.
Ahead(t, s, after) ==
    {y \in t.leaves :
        IF after THEN y \in s \/ \E z \in s : Precedes(t, y, z)
                 ELSE y \notin s /\ \A z \in s : Precedes(t, y, z)}

\* They are a beginning of the order that does not end inside s's surroundings.
LEMMA AheadIsBeginning ==
    ASSUME NEW t \in Trees, Sturdy(t), NEW s \in Nodes(t), NEW after \in BOOLEAN
    PROVE  \A y \in Ahead(t, s, after) : \A z \in t.leaves :
               Precedes(t, z, y) => z \in Ahead(t, s, after)
<1> USE NodesAreParts
<1>1. CASE after
    <2> SUFFICES ASSUME NEW y \in Ahead(t, s, after), NEW z \in t.leaves, Precedes(t, z, y)
                 PROVE  z \in Ahead(t, s, after)
        OBVIOUS
    <2>1. PICK x \in s : y = x \/ Precedes(t, y, x)
        BY <1>1 DEF Ahead
    <2>2. Precedes(t, z, x)
        BY <2>1, <1>1 DEF Sturdy, Ordered, Ahead
    <2> QED BY <2>1, <2>2, <1>1 DEF Ahead
<1>2. CASE ~after
    <2> SUFFICES ASSUME NEW y \in Ahead(t, s, after), NEW z \in t.leaves, Precedes(t, z, y)
                 PROVE  z \in Ahead(t, s, after)
        OBVIOUS
    <2>1. y \in t.leaves /\ \A x \in s : x \in t.leaves /\ Precedes(t, y, x)
        BY <1>2 DEF Ahead
    <2>2. \A x \in s : Precedes(t, z, x)
        BY <2>1 DEF Sturdy, Ordered
    <2>3. z \notin s
        BY <2>1, <2>2 DEF Sturdy, Ordered
    <2> QED BY <2>2, <2>3, <1>2 DEF Ahead
<1> QED BY <1>1, <1>2

Convex(t, G) ==
    \A a, c \in G : \A b \in t.leaves : Precedes(t, a, b) /\ Precedes(t, b, c) => b \in G

\* Where the cut falls around s: whatever lies between it and s is around s too.
LEMMA CutAround ==
    ASSUME NEW t \in Trees, Sturdy(t), NEW s \in Nodes(t), NEW after \in BOOLEAN,
           NEW G \in SUBSET t.leaves, Convex(t, G), s \subseteq G
    PROVE  /\ \A b \in t.leaves \ Ahead(t, s, after) : \A c \in G :
                  Precedes(t, b, c) => b \in G
           /\ \A b \in Ahead(t, s, after) : \A a \in G : Precedes(t, a, b) => b \in G
<1>1. s \subseteq t.leaves /\ s # {}
    BY NodesAreParts
<1>2. ASSUME NEW b \in t.leaves \ Ahead(t, s, after), NEW c \in G, Precedes(t, b, c)
      PROVE  b \in G
    <2>1. b \in s \/ \E z \in s : ~Precedes(t, b, z)
        BY <1>1 DEF Ahead
    <2>2. CASE b \in s
        BY <2>2
    <2>3. ASSUME b \notin s, NEW z \in s, ~Precedes(t, b, z)
          PROVE  b \in G
        <3>1. Precedes(t, z, b)
            BY <2>3, <1>1 DEF Sturdy, Ordered
        <3> QED BY <3>1, <1>2 DEF Convex
    <2> QED BY <2>1, <2>2, <2>3
<1>3. ASSUME NEW b \in Ahead(t, s, after), NEW a \in G, Precedes(t, a, b)
      PROVE  b \in G
    <2>1. b \in t.leaves /\ (b \in s \/ \E z \in s : Precedes(t, b, z))
        BY <1>1 DEF Ahead
    <2> QED BY <2>1, <1>3 DEF Convex
<1> QED BY <1>2, <1>3

\* The cut does not fall inside a part that is within s or apart from it.
LEMMA CutApart ==
    ASSUME NEW t \in Trees, Sturdy(t), NEW s \in Nodes(t), NEW after \in BOOLEAN,
           NEW G \in SUBSET t.leaves, Convex(t, G), G \subseteq s \/ G \cap s = {}
    PROVE  \A a, c \in G : ~(a \in Ahead(t, s, after) /\ c \notin Ahead(t, s, after))
<1>1. s \subseteq t.leaves /\ s # {}
    BY NodesAreParts
<1> SUFFICES ASSUME NEW a \in G, NEW c \in G,
                    a \in Ahead(t, s, after), c \notin Ahead(t, s, after)
             PROVE  FALSE
    OBVIOUS
<1>2. CASE G \subseteq s
    BY <1>2 DEF Ahead
<1>3. CASE G \cap s = {}
    <2>1. a \notin s /\ c \notin s
        BY <1>3
    <2>2. PICK z \in s : Precedes(t, a, z) /\ ~Precedes(t, c, z)
        BY <1>1, <2>1 DEF Ahead
    <2>3. Precedes(t, z, c)
        BY <2>1, <2>2, <1>1 DEF Sturdy, Ordered
    <2>4. z \in G
        BY <2>2, <2>3, <1>1 DEF Convex
    <2> QED BY <2>4, <1>3
<1> QED BY <1>2, <1>3

\* A group after the placement.
Grown(g, x, s) ==
    IF s \subseteq g.members /\ s # g.members
    THEN [g EXCEPT !.members = @ \cup {x}] ELSE g

\* What a placement makes of a tree, one component at a time.
LEMMA PlaceParts ==
    ASSUME NEW t \in Trees, Sturdy(t), NEW x \in Windows, x \notin t.leaves,
           NEW s \in Nodes(t), NEW after \in BOOLEAN, NEW wrap \in BOOLEAN,
           NEW axis \in Axes
    PROVE  LET T == Place(t, x, s, after, wrap, axis)
               A == Ahead(t, s, after)
           IN  /\ T \in Trees
               /\ T.leaves = t.leaves \cup {x}
               /\ T.groups = {Grown(g, x, s) : g \in t.groups}
                             \cup (IF wrap THEN {[members |-> s \cup {x}, axis |-> axis]}
                                           ELSE {})
               /\ T.before \subseteq T.leaves \X T.leaves
               /\ \A a, b \in t.leaves : Precedes(T, a, b) <=> Precedes(t, a, b)
               /\ \A a \in t.leaves : Precedes(T, a, x) <=> a \in A
               /\ \A b \in t.leaves : Precedes(T, x, b) <=> b \notin A
               /\ ~Precedes(T, x, x)
<1> DEFINE T == Place(t, x, s, after, wrap, axis)
           A == Ahead(t, s, after)
           W == IF wrap THEN {[members |-> s \cup {x}, axis |-> axis]} ELSE {}
<1>0. s \subseteq t.leaves /\ A \subseteq t.leaves
    BY NodesAreParts DEF Ahead
<1>1. T = [leaves |-> t.leaves \cup {x},
           before |-> t.before \cup (A \X {x}) \cup ({x} \X (t.leaves \ A)),
           groups |-> {Grown(g, x, s) : g \in t.groups} \cup W]
    BY DEF Place, Ahead, Grown
<1> HIDE DEF T, W, A
<1>2. t.before \subseteq t.leaves \X t.leaves
    BY DEF Sturdy
<1>3. /\ \A a, b \in t.leaves : Precedes(T, a, b) <=> Precedes(t, a, b)
      /\ \A a \in t.leaves : Precedes(T, a, x) <=> a \in A
      /\ \A b \in t.leaves : Precedes(T, x, b) <=> b \notin A
      /\ ~Precedes(T, x, x)
    BY <1>0, <1>1, <1>2 DEF Precedes
<1>4. T.leaves \in SUBSET Windows /\ t.leaves \in SUBSET Windows
    BY <1>1 DEF Trees
<1>5. T.before \subseteq T.leaves \X T.leaves
    BY <1>0, <1>1, <1>2
<1>6. T.groups \subseteq Groups
    <2>1. \A g \in t.groups : g \in Groups
        BY DEF Trees
    <2>2. ASSUME NEW g \in t.groups
          PROVE  Grown(g, x, s) \in Groups
        BY <2>1 DEF Grown, Groups
    <2>3. W \subseteq Groups
        BY <1>0, <1>4 DEF W, Groups
    <2> QED BY <1>1, <2>2, <2>3
<1>7. T \in Trees
    <2>1. T.before \in SUBSET (Windows \X Windows)
        BY <1>4, <1>5
    <2> QED BY <1>1, <1>4, <1>6, <2>1 DEF Trees
<1> QED BY <1>1, <1>3, <1>5, <1>7 DEF T, A, W

\* The placed leaf gets a place in the order.
LEMMA PlaceKeepsOrder ==
    ASSUME NEW t \in Trees, Sturdy(t), NEW x \in Windows, x \notin t.leaves,
           NEW s \in Nodes(t), NEW after \in BOOLEAN, NEW wrap \in BOOLEAN,
           NEW axis \in Axes
    PROVE  Ordered(Place(t, x, s, after, wrap, axis))
<1> DEFINE T == Place(t, x, s, after, wrap, axis)
           A == Ahead(t, s, after)
<1>1. /\ T.leaves = t.leaves \cup {x}
      /\ \A a, b \in t.leaves : Precedes(T, a, b) <=> Precedes(t, a, b)
      /\ \A a \in t.leaves : Precedes(T, a, x) <=> a \in A
      /\ \A b \in t.leaves : Precedes(T, x, b) <=> b \notin A
      /\ ~Precedes(T, x, x)
    BY PlaceParts
<1>2. \A y \in A : \A z \in t.leaves : Precedes(t, z, y) => z \in A
    BY AheadIsBeginning
<1> HIDE DEF T, A
<1>3. ASSUME NEW a \in T.leaves
      PROVE  ~Precedes(T, a, a)
    BY <1>1 DEF Sturdy, Ordered
<1>4. ASSUME NEW a \in T.leaves, NEW b \in T.leaves, a # b
      PROVE  Precedes(T, a, b) <=> ~Precedes(T, b, a)
    BY <1>1, <1>4 DEF Sturdy, Ordered
<1>5. ASSUME NEW a \in T.leaves, NEW b \in T.leaves, NEW c \in T.leaves,
             Precedes(T, a, b), Precedes(T, b, c)
      PROVE  Precedes(T, a, c)
    <2>1. CASE a = x
        <3>1. b \in t.leaves /\ b \notin A
            BY <1>1, <1>5, <2>1
        <3>2. c \in t.leaves
            BY <1>1, <1>5, <3>1
        <3> QED BY <1>1, <1>2, <1>5, <2>1, <3>1, <3>2
    <2>2. CASE b = x
        <3>1. a \in A /\ a \in t.leaves /\ c \in t.leaves /\ c \notin A
            BY <1>1, <1>5, <2>2
        <3>2. a # c /\ ~Precedes(t, c, a)
            BY <1>2, <3>1
        <3> QED BY <1>1, <3>1, <3>2 DEF Sturdy, Ordered
    <2>3. CASE a # x /\ b # x
        BY <1>1, <1>2, <1>5, <2>3 DEF Sturdy, Ordered
    <2> QED BY <2>1, <2>2, <2>3
<1> QED BY <1>3, <1>4, <1>5 DEF Ordered, T

\* The groups above and beside the placed leaf: nested, contiguous, of several
\* leaves and distinct.
LEMMA PlaceKeepsGroups ==
    ASSUME NEW t \in Trees, Sturdy(t), NEW x \in Windows, x \notin t.leaves,
           NEW s \in Nodes(t), NEW after \in BOOLEAN, NEW wrap \in BOOLEAN,
           NEW axis \in Axes
    PROVE  LET T == Place(t, x, s, after, wrap, axis)
           IN  /\ Nested(T) /\ Contiguous(T)
               /\ \A g \in T.groups : g.members \subseteq T.leaves /\ Several(g.members)
               /\ \A g, h \in T.groups : g.members = h.members => g = h
<1> DEFINE T == Place(t, x, s, after, wrap, axis)
           A == Ahead(t, s, after)
           W == [members |-> s \cup {x}, axis |-> axis]
           Above(g) == s \subseteq g.members /\ s # g.members
<1>1. /\ T.leaves = t.leaves \cup {x}
      /\ T.groups = {Grown(g, x, s) : g \in t.groups} \cup (IF wrap THEN {W} ELSE {})
      /\ \A a, b \in t.leaves : Precedes(T, a, b) <=> Precedes(t, a, b)
      /\ \A a \in t.leaves : Precedes(T, a, x) <=> a \in A
      /\ \A b \in t.leaves : Precedes(T, x, b) <=> b \notin A
      /\ ~Precedes(T, x, x)
    BY PlaceParts
<1>2. s \subseteq t.leaves /\ s # {} /\ Convex(t, s)
    BY NodesAreParts DEF Convex
<1>3. \A g \in t.groups : g.members \subseteq t.leaves /\ Several(g.members)
                           /\ Convex(t, g.members)
    BY DEF Sturdy, Contiguous, Convex
<1>4. \A g \in t.groups : ~Above(g) => g.members \subseteq s \/ g.members \cap s = {}
    BY NodesAreParts
<1>5. \A g \in t.groups : Above(g) => Grown(g, x, s).members = g.members \cup {x}
    BY DEF Grown, Trees, Groups
<1>6. \A g \in t.groups : ~Above(g) => Grown(g, x, s) = g
    BY DEF Grown
<1>7. W.members = s \cup {x}
    OBVIOUS
<1>8. ASSUME NEW g \in T.groups
      PROVE  \/ \E h \in t.groups : Above(h) /\ g = Grown(h, x, s)
                                      /\ g.members = h.members \cup {x}
             \/ g \in t.groups /\ ~Above(g)
             \/ wrap /\ g = W
    BY <1>1, <1>5, <1>6
<1> HIDE DEF T, A, W
<1>9. ASSUME NEW g \in T.groups, NEW h \in T.groups
      PROVE  \/ g.members \subseteq h.members
             \/ h.members \subseteq g.members
             \/ g.members \cap h.members = {}
    <2>1. ASSUME NEW k \in t.groups, Above(k), g.members = k.members \cup {x}
          PROVE  \/ g.members \subseteq h.members
                 \/ h.members \subseteq g.members
                 \/ g.members \cap h.members = {}
        <3>1. ASSUME NEW l \in t.groups, Above(l), h.members = l.members \cup {x}
              PROVE  \/ g.members \subseteq h.members
                     \/ h.members \subseteq g.members
            <4>1. \/ k.members \subseteq l.members
                  \/ l.members \subseteq k.members
                BY <1>2, <2>1, <3>1 DEF Sturdy, Nested
            <4> QED BY <2>1, <3>1, <4>1
        <3>2. ASSUME h \in t.groups, ~Above(h)
              PROVE  h.members \subseteq g.members \/ g.members \cap h.members = {}
            <4>1. \/ h.members \subseteq k.members
                  \/ k.members \subseteq h.members
                  \/ k.members \cap h.members = {}
                BY <3>2, <2>1 DEF Sturdy, Nested
            <4>2. x \notin h.members
                BY <3>2, <1>3
            <4>3. ~(k.members \subseteq h.members) \/ h.members = k.members
                BY <2>1, <3>2
            <4> QED BY <2>1, <4>1, <4>2, <4>3
        <3>3. CASE h = W
            BY <1>7, <2>1, <3>3
        <3> QED BY <1>8, <3>1, <3>2, <3>3
    <2>2. ASSUME g \in t.groups, ~Above(g)
          PROVE  \/ g.members \subseteq h.members
                 \/ h.members \subseteq g.members
                 \/ g.members \cap h.members = {}
        <3>0. x \notin g.members
            BY <2>2, <1>3
        <3>1. ASSUME NEW l \in t.groups, Above(l), h.members = l.members \cup {x}
              PROVE  g.members \subseteq h.members \/ g.members \cap h.members = {}
            <4>1. \/ g.members \subseteq l.members
                  \/ l.members \subseteq g.members
                  \/ l.members \cap g.members = {}
                BY <2>2, <3>1 DEF Sturdy, Nested
            <4>2. ~(l.members \subseteq g.members) \/ g.members = l.members
                BY <2>2, <3>1
            <4> QED BY <3>0, <3>1, <4>1, <4>2
        <3>2. CASE h \in t.groups
            BY <2>2, <3>2 DEF Sturdy, Nested
        <3>3. CASE h = W
            BY <1>4, <1>7, <2>2, <3>0, <3>3
        <3> QED BY <1>8, <3>1, <3>2, <3>3
    <2>3. CASE g = W
        <3>1. ASSUME NEW l \in t.groups, Above(l), h.members = l.members \cup {x}
              PROVE  g.members \subseteq h.members
            BY <1>7, <2>3, <3>1
        <3>2. ASSUME h \in t.groups, ~Above(h)
              PROVE  h.members \subseteq g.members \/ g.members \cap h.members = {}
            <4>1. x \notin h.members
                BY <3>2, <1>3
            <4> QED BY <1>4, <1>7, <2>3, <3>2, <4>1
        <3> QED BY <1>8, <2>3, <3>1, <3>2
    <2> QED BY <1>8, <2>1, <2>2, <2>3
<1>10. ASSUME NEW g \in T.groups, NEW a \in g.members, NEW c \in g.members,
              NEW b \in T.leaves, Precedes(T, a, b), Precedes(T, b, c)
       PROVE  b \in g.members
    <2>1. ASSUME NEW G \in SUBSET t.leaves, Convex(t, G), s \subseteq G,
                 g.members = G \cup {x}
          PROVE  b \in g.members
        <3>1. /\ \A d \in t.leaves \ A : \A e \in G : Precedes(t, d, e) => d \in G
              /\ \A d \in A : \A e \in G : Precedes(t, e, d) => d \in G
            BY <2>1, CutAround DEF A
        <3>2. CASE b = x
            BY <2>1, <3>2
        <3>3. CASE b \in t.leaves /\ a = x
            <4>1. b \notin A
                BY <1>1, <1>10, <3>3
            <4>2. c \in G
                BY <1>1, <1>10, <2>1, <3>3, <4>1
            <4> QED BY <1>1, <1>10, <2>1, <3>1, <3>3, <4>1, <4>2
        <3>4. CASE b \in t.leaves /\ a \in G /\ c = x
            <4>1. b \in A
                BY <1>1, <1>10, <3>4
            <4>2. Precedes(t, a, b)
                BY <1>1, <1>10, <3>4
            <4> QED BY <2>1, <3>1, <3>4, <4>1, <4>2
        <3>5. CASE b \in t.leaves /\ a \in G /\ c \in G
            <4>1. Precedes(t, a, b) /\ Precedes(t, b, c)
                BY <1>1, <1>10, <3>5
            <4> QED BY <2>1, <3>5, <4>1 DEF Convex
        <3> QED BY <1>1, <1>10, <2>1, <3>2, <3>3, <3>4, <3>5
    <2>2. ASSUME g \in t.groups, ~Above(g)
          PROVE  b \in g.members
        <3>1. g.members \subseteq t.leaves /\ Convex(t, g.members)
            BY <2>2, <1>3
        <3>2. ~(a \in A /\ c \notin A)
            BY <1>4, <2>2, <3>1, CutApart DEF A
        <3>3. b # x
            BY <1>1, <1>10, <3>1, <3>2
        <3> QED BY <1>1, <1>10, <3>1, <3>3 DEF Convex
    <2>3. CASE g = W
        BY <1>2, <1>7, <2>1, <2>3
    <2>4. ASSUME NEW k \in t.groups, Above(k), g.members = k.members \cup {x}
          PROVE  b \in g.members
        BY <1>3, <2>1, <2>4
    <2> QED BY <1>8, <2>2, <2>3, <2>4
<1>11. ASSUME NEW g \in T.groups
       PROVE  g.members \subseteq T.leaves /\ Several(g.members)
    <2>1. ASSUME NEW k \in t.groups, g.members = k.members \cup {x}
          PROVE  g.members \subseteq T.leaves /\ Several(g.members)
        BY <1>1, <1>3, <2>1 DEF Several
    <2>2. CASE g \in t.groups
        BY <1>1, <1>3, <2>2
    <2>3. CASE g = W
        BY <1>1, <1>2, <1>7, <2>3 DEF Several
    <2> QED BY <1>8, <2>1, <2>2, <2>3
<1>12. ASSUME NEW g \in T.groups, NEW h \in T.groups, g.members = h.members
       PROVE  g = h
    <2>1. ASSUME NEW k \in t.groups, Above(k), g = Grown(k, x, s),
                 g.members = k.members \cup {x}
          PROVE  g = h
        <3>1. ASSUME NEW l \in t.groups, Above(l), h = Grown(l, x, s),
                     h.members = l.members \cup {x}
              PROVE  g = h
            <4>1. k.members = l.members
                BY <1>3, <1>12, <2>1, <3>1
            <4> QED BY <2>1, <3>1, <4>1 DEF Sturdy
        <3>2. CASE h \in t.groups
            BY <1>3, <1>12, <2>1, <3>2
        <3>3. CASE h = W
            <4>1. k.members = s
                BY <1>2, <1>3, <1>7, <1>12, <2>1, <3>3
            <4> QED BY <2>1, <4>1
        <3> QED BY <1>8, <3>1, <3>2, <3>3
    <2>2. ASSUME g \in t.groups, ~Above(g)
          PROVE  g = h
        <3>1. x \notin h.members
            BY <1>3, <1>12, <2>2
        <3>2. h \in t.groups
            BY <1>7, <1>8, <3>1
        <3> QED BY <1>12, <2>2, <3>2 DEF Sturdy
    <2>3. CASE g = W
        <3>1. ASSUME NEW l \in t.groups, Above(l), h.members = l.members \cup {x}
              PROVE  FALSE
            <4>1. l.members = s
                BY <1>2, <1>3, <1>7, <1>12, <2>3, <3>1
            <4> QED BY <3>1, <4>1
        <3>2. ASSUME h \in t.groups
              PROVE  FALSE
            BY <1>3, <1>7, <1>12, <2>3, <3>2
        <3> QED BY <1>8, <2>3, <3>1, <3>2
    <2> QED BY <1>8, <2>1, <2>2, <2>3
<1> QED BY <1>9, <1>10, <1>11, <1>12 DEF Nested, Contiguous, T

\* A leaf placed beside a node of a tree makes a tree.
LEMMA PlaceKeeps ==
    ASSUME NEW t \in Trees, Sturdy(t), NEW x \in Windows, x \notin t.leaves,
           NEW s, NEW after \in BOOLEAN, NEW wrap \in BOOLEAN, NEW axis \in Axes,
           CanPlace(t, s, wrap)
    PROVE  LET T == Place(t, x, s, after, wrap, axis)
           IN  T \in Trees /\ Sturdy(T) /\ T.leaves = t.leaves \cup {x}
<1> DEFINE T == Place(t, x, s, after, wrap, axis)
           W == [members |-> s \cup {x}, axis |-> axis]
<1>0. s \in Nodes(t)
    BY DEF CanPlace
<1>1. s \subseteq t.leaves /\ s # {}
    BY <1>0, NodesAreParts
<1>2. /\ T \in Trees
      /\ T.leaves = t.leaves \cup {x}
      /\ T.groups = {Grown(g, x, s) : g \in t.groups} \cup (IF wrap THEN {W} ELSE {})
      /\ T.before \subseteq T.leaves \X T.leaves
    BY <1>0, PlaceParts
<1>3. /\ Nested(T) /\ Contiguous(T)
      /\ \A g \in T.groups : g.members \subseteq T.leaves /\ Several(g.members)
      /\ \A g, h \in T.groups : g.members = h.members => g = h
    BY <1>0, PlaceKeepsGroups
<1>4. Ordered(T)
    BY <1>0, PlaceKeepsOrder
<1> HIDE DEF T
<1>5. \E g \in T.groups : g.members = T.leaves
    <2>1. CASE s = t.leaves
        <3>1. wrap
            BY <2>1 DEF CanPlace, Sturdy
        <3>2. W \in T.groups /\ W.members = T.leaves
            BY <1>2, <2>1, <3>1
        <3> QED BY <3>2
    <2>2. CASE s # t.leaves
        <3>1. Several(t.leaves)
            BY <1>1, <2>2 DEF Several
        <3>2. PICK g \in t.groups : g.members = t.leaves
            BY <3>1 DEF Sturdy
        <3>3. Grown(g, x, s).members = T.leaves
            BY <1>1, <1>2, <2>2, <3>2 DEF Grown, Trees, Groups
        <3> QED BY <1>2, <3>3
    <2> QED BY <2>1, <2>2
<1> QED BY <1>2, <1>3, <1>4, <1>5 DEF Sturdy, T

\* The empty tree and the one-leaf tree.
LEMMA SmallTrees ==
    /\ Empty \in Trees /\ Sturdy(Empty)
    /\ \A x \in Windows : Lone(x) \in Trees /\ Sturdy(Lone(x)) /\ Lone(x).leaves = {x}
<1>1. Empty \in Trees /\ Sturdy(Empty)
    BY DEF Empty, Trees, Sturdy, Ordered, Nested, Contiguous, Several
<1>2. ASSUME NEW x \in Windows
      PROVE  Lone(x) \in Trees /\ Sturdy(Lone(x)) /\ Lone(x).leaves = {x}
    BY DEF Lone, Trees, Sturdy, Ordered, Nested, Contiguous, Several, Precedes
<1> QED BY <1>1, <1>2

\* The whole tree is one of its nodes.
LEMMA RootIsNode ==
    ASSUME NEW t \in Trees, Sturdy(t), t.leaves # {}
    PROVE  t.leaves \in Nodes(t)
<1>1. CASE Several(t.leaves)
    BY <1>1 DEF Sturdy, Nodes
<1>2. CASE ~Several(t.leaves)
    <2>1. PICK w \in t.leaves : TRUE
        OBVIOUS
    <2>2. t.leaves = {w}
        BY <1>2 DEF Several
    <2> QED BY <2>2 DEF Nodes
<1> QED BY <1>1, <1>2

\* Automatic admission, at the focused leaf or at the root.
LEMMA AdmittedKeeps ==
    ASSUME NEW t \in Trees, Sturdy(t), NEW x \in Windows, x \notin t.leaves,
           NEW axis \in Axes, NEW focus,
           focus = {} \/ \E w \in t.leaves : focus = {w}
    PROVE  LET T == Admitted(t, x, focus, axis)
           IN  T \in Trees /\ Sturdy(T) /\ T.leaves = t.leaves \cup {x}
<1>1. CASE t.leaves = {}
    BY <1>1, SmallTrees DEF Admitted
<1>2. CASE t.leaves # {}
    <2> DEFINE s == IF focus = {} THEN t.leaves ELSE focus
    <2>1. s \in Nodes(t)
        BY <1>2, RootIsNode DEF Nodes
    <2>2. CanPlace(t, s, TRUE)
        BY <2>1 DEF CanPlace
    <2>3. Admitted(t, x, focus, axis) = Place(t, x, s, TRUE, TRUE, axis)
        BY <1>2 DEF Admitted
    <2> HIDE DEF s
    <2>4. \A after, wrap \in BOOLEAN : CanPlace(t, s, wrap) =>
              LET T == Place(t, x, s, after, wrap, axis)
              IN  T \in Trees /\ Sturdy(T) /\ T.leaves = t.leaves \cup {x}
        BY PlaceKeeps
    <2> QED BY <2>2, <2>3, <2>4
<1> QED BY <1>1, <1>2

-----------------------------------------------------------------------------
(* Removing leaves.                                                        *)

\* Among the groups with the survivors of g there is an innermost one.
LEMMA SomeGroupSurvives ==
    ASSUME Assumption, NEW t \in Trees, Sturdy(t), NEW gone,
           NEW g \in t.groups, Several(g.members \ gone)
    PROVE  \E h \in t.groups : Survives(t, h, gone) /\ h.members \ gone = g.members \ gone
<1> DEFINE Alike == {h \in t.groups : h.members \ gone = g.members \ gone}
           Parts == {h.members : h \in Alike}
<1>1. Parts \subseteq FiniteSubsetsOf(Windows) /\ Parts # {}
    BY WindowsFinite DEF FiniteSubsetsOf, Trees, Groups
<1>2. PICK M \in Parts : \A N \in Parts : ~(<<N, M>> \in StrictSubsetOrdering(Windows))
    <2> HIDE DEF Parts
    <2> QED BY <1>1, WFMin, FS_StrictSubsetOrderingWellFounded
<1>3. PICK h \in Alike : h.members = M
    OBVIOUS
<1>4. ASSUME NEW k \in t.groups, k.members \subseteq h.members, k # h
      PROVE  k.members \ gone # h.members \ gone
    <2> SUFFICES ASSUME k.members \ gone = h.members \ gone
                 PROVE  FALSE
        OBVIOUS
    <2>1. k.members \in Parts
        OBVIOUS
    <2>2. k.members # h.members
        BY <1>4 DEF Sturdy
    <2>3. k.members \in SUBSET Windows /\ h.members \in SUBSET Windows
        BY DEF Trees, Groups
    <2>4. <<k.members, M>> \in StrictSubsetOrdering(Windows)
        BY <1>3, <1>4, <2>2, <2>3 DEF StrictSubsetOrdering
    <2> QED BY <1>2, <2>1, <2>4
<1>5. Survives(t, h, gone)
    BY <1>3, <1>4 DEF Survives, Several
<1> QED BY <1>3, <1>5

\* Whatever leaves, a tree is left, without them.
LEMMA RemovedAllKeeps ==
    ASSUME Assumption, NEW t \in Trees, Sturdy(t), NEW gone
    PROVE  LET T == RemovedAll(t, gone)
           IN  T \in Trees /\ Sturdy(T) /\ T.leaves = t.leaves \ gone
<1> DEFINE T == RemovedAll(t, gone)
           Left(g) == [g EXCEPT !.members = @ \ gone]
           Kin == {g \in t.groups : Survives(t, g, gone)}
<1>1. /\ T.leaves = t.leaves \ gone
      /\ T.before = {p \in t.before : p[1] \notin gone /\ p[2] \notin gone}
      /\ T.groups = {Left(g) : g \in Kin}
      /\ T = [leaves |-> T.leaves, before |-> T.before, groups |-> T.groups]
    BY DEF RemovedAll
<1>2. \A g \in t.groups : /\ g \in Groups
                           /\ Left(g) \in Groups
                           /\ Left(g).members = g.members \ gone
    BY DEF Trees, Groups
<1>3. t.before \subseteq t.leaves \X t.leaves
    BY DEF Sturdy
<1> HIDE DEF T
<1>4. \A a, b \in T.leaves : Precedes(T, a, b) <=> Precedes(t, a, b)
    BY <1>1, <1>3 DEF Precedes
<1>5. T.before \subseteq T.leaves \X T.leaves
    BY <1>1, <1>3
<1>6. T \in Trees
    <2>1. T.leaves \in SUBSET Windows
        BY <1>1 DEF Trees
    <2>2. T.before \in SUBSET (Windows \X Windows)
        BY <1>5, <2>1
    <2>3. T.groups \in SUBSET Groups
        BY <1>1, <1>2
    <2> QED BY <1>1, <2>1, <2>2, <2>3 DEF Trees
<1>7. Ordered(T)
    BY <1>1, <1>4 DEF Sturdy, Ordered
<1>8. Nested(T)
    <2> SUFFICES ASSUME NEW g \in Kin, NEW h \in Kin
                 PROVE  \/ Left(g).members \subseteq Left(h).members
                        \/ Left(h).members \subseteq Left(g).members
                        \/ Left(g).members \cap Left(h).members = {}
        BY <1>1 DEF Nested
    <2>1. \/ g.members \subseteq h.members
          \/ h.members \subseteq g.members
          \/ g.members \cap h.members = {}
        BY DEF Sturdy, Nested
    <2>2. Left(g).members = g.members \ gone /\ Left(h).members = h.members \ gone
        BY <1>2
    <2> QED BY <2>1, <2>2
<1>9. Contiguous(T)
    <2> SUFFICES ASSUME NEW g \in Kin, NEW a \in Left(g).members, NEW c \in Left(g).members,
                        NEW b \in T.leaves, Precedes(T, a, b), Precedes(T, b, c)
                 PROVE  b \in Left(g).members
        BY <1>1 DEF Contiguous
    <2>1. Left(g).members = g.members \ gone /\ g.members \subseteq t.leaves
        BY <1>2 DEF Sturdy
    <2>2. Precedes(t, a, b) /\ Precedes(t, b, c) /\ b \in t.leaves /\ b \notin gone
        BY <1>1, <1>4, <2>1
    <2> QED BY <2>1, <2>2 DEF Sturdy, Contiguous
<1>10. ASSUME NEW g \in T.groups
       PROVE  g.members \subseteq T.leaves /\ Several(g.members)
    <2>1. PICK k \in Kin : g = Left(k)
        BY <1>1
    <2>2. g.members = k.members \ gone /\ k.members \subseteq t.leaves
        BY <1>2, <2>1 DEF Sturdy
    <2> QED BY <1>1, <2>2 DEF Survives, Several
<1>11. ASSUME NEW g \in Kin, NEW h \in Kin, Left(g).members = Left(h).members
       PROVE  g = h
    <2>1. g.members \ gone = h.members \ gone
        BY <1>2, <1>11
    <2>2. g.members \ gone # {}
        BY DEF Survives
    <2>3. g.members \subseteq h.members \/ h.members \subseteq g.members
        BY <2>1, <2>2 DEF Sturdy, Nested
    <2> QED BY <2>1, <2>3 DEF Survives
<1>12. \A g, h \in T.groups : g.members = h.members => g = h
    BY <1>1, <1>11
<1>13. ASSUME Several(T.leaves)
       PROVE  \E g \in T.groups : g.members = T.leaves
    <2>1. Several(t.leaves)
        BY <1>1, <1>13 DEF Several
    <2>2. PICK g \in t.groups : g.members = t.leaves
        BY <2>1 DEF Sturdy
    <2>3. Several(g.members \ gone)
        BY <1>1, <1>13, <2>2
    <2>4. PICK h \in t.groups : Survives(t, h, gone) /\ h.members \ gone = g.members \ gone
        BY <2>3, SomeGroupSurvives
    <2>5. Left(h) \in T.groups /\ Left(h).members = T.leaves
        BY <1>1, <1>2, <2>2, <2>4
    <2> QED BY <2>5
<1> QED BY <1>1, <1>5, <1>6, <1>7, <1>8, <1>9, <1>10, <1>12, <1>13 DEF Sturdy, T

-----------------------------------------------------------------------------
(* Turning a group, and moving a leaf.                                     *)

\* A turned group keeps its place.
LEMMA FlippedKeeps ==
    ASSUME NEW t \in Trees, Sturdy(t), NEW x
    PROVE  LET T == Flipped(t, x)
           IN  T \in Trees /\ Sturdy(T) /\ T.leaves = t.leaves
<1> DEFINE T == Flipped(t, x)
           Inner(g) == x \in g.members
                       /\ \A h \in t.groups : x \in h.members => g.members \subseteq h.members
           Turn(g) == IF Inner(g) THEN [g EXCEPT !.axis = Turned(@)] ELSE g
<1>1. /\ T.leaves = t.leaves /\ T.before = t.before
      /\ T.groups = {Turn(g) : g \in t.groups}
      /\ T = [leaves |-> T.leaves, before |-> T.before, groups |-> T.groups]
    <2>1. T = [t EXCEPT !.groups = {Turn(g) : g \in t.groups}]
        BY DEF Flipped
    <2> HIDE DEF T, Turn
    <2> QED BY <2>1 DEF Trees
<1>2. \A g \in t.groups : Turn(g) \in Groups /\ Turn(g).members = g.members
    <2>1. \A axis \in Axes : Turned(axis) \in Axes
        BY DEF Turned, Axes
    <2>2. \A g \in t.groups : g \in Groups
        BY DEF Trees
    <2> SUFFICES ASSUME NEW g \in t.groups
                 PROVE  Turn(g) \in Groups /\ Turn(g).members = g.members
        OBVIOUS
    <2>3. CASE Inner(g)
        BY <2>1, <2>2, <2>3 DEF Groups
    <2>4. CASE ~Inner(g)
        BY <2>2, <2>4
    <2> QED BY <2>3, <2>4
<1> HIDE DEF T, Turn
<1>3. T \in Trees
    BY <1>1, <1>2 DEF Trees
<1>4. \A a, b : Precedes(T, a, b) <=> Precedes(t, a, b)
    BY <1>1 DEF Precedes
<1>5. Ordered(T)
    BY <1>1, <1>4 DEF Ordered, Sturdy
<1>6. Nested(T)
    BY <1>1, <1>2 DEF Nested, Sturdy
<1>7. Contiguous(T)
    BY <1>1, <1>2, <1>4 DEF Contiguous, Sturdy
<1>8. \A g \in T.groups : g.members \subseteq T.leaves /\ Several(g.members)
    BY <1>1, <1>2 DEF Sturdy
<1>9. \A g, h \in T.groups : g.members = h.members => g = h
    BY <1>1, <1>2 DEF Sturdy
<1>10. Several(T.leaves) => \E g \in T.groups : g.members = T.leaves
    BY <1>1, <1>2 DEF Sturdy
<1> QED BY <1>1, <1>3, <1>5, <1>6, <1>7, <1>8, <1>9, <1>10 DEF Sturdy, T

\* A leaf that is taken out and put back anywhere else leaves a tree.
LEMMA RearrangedKeeps ==
    ASSUME Assumption, NEW t \in Trees, Sturdy(t), NEW x \in t.leaves,
           NEW T \in Rearranged(t, x)
    PROVE  T \in Trees /\ Sturdy(T) /\ T.leaves = t.leaves
<1> DEFINE rest == Removed(t, x)
<1>1. rest \in Trees /\ Sturdy(rest) /\ rest.leaves = t.leaves \ {x}
    BY RemovedAllKeeps DEF Removed
<1>2. x \in Windows
    BY DEF Trees
<1>3. PICK p \in Nodes(rest) \X BOOLEAN, after \in BOOLEAN, axis \in Axes :
          CanPlace(rest, p[1], p[2]) /\ T = Place(rest, x, p[1], after, p[2], axis)
    BY DEF Rearranged
<1> HIDE DEF rest
<1>4. T \in Trees /\ Sturdy(T) /\ T.leaves = rest.leaves \cup {x}
    BY <1>1, <1>2, <1>3, PlaceKeeps
<1> QED BY <1>1, <1>4

-----------------------------------------------------------------------------
(* Recursion over an interval.  The library's induction theorems are about *)
(* operators, which the provers cannot instantiate; this one is about sets.*)

\* A set of numbers that has a member has a least one.
LEMMA LeastNumber ==
    ASSUME NEW S \in SUBSET Nat, S # {}
    PROVE  \E n \in S : \A m \in S : n <= m
<1> DEFINE T == {1..n : n \in S}
<1>1. T \subseteq FiniteSubsetsOf(Nat)
    <2> SUFFICES ASSUME NEW n \in S
                 PROVE  1..n \in FiniteSubsetsOf(Nat)
        OBVIOUS
    <2>1. IsFiniteSet(1..n)
        BY FS_Interval
    <2> QED BY <2>1 DEF FiniteSubsetsOf
<1>2. PICK X \in T : \A Y \in T : ~(<<Y, X>> \in StrictSubsetOrdering(Nat))
    <2>1. T # {}
        OBVIOUS
    <2> HIDE DEF T
    <2> QED BY <1>1, <2>1, WFMin, FS_StrictSubsetOrderingWellFounded
<1>3. PICK n \in S : X = 1..n
    OBVIOUS
<1>4. ASSUME NEW m \in S, ~(n <= m)
      PROVE  FALSE
    <2>1. n \in 1..n /\ n \notin 1..m
        BY <1>4
    <2>2. 1..m \subseteq 1..n /\ 1..m # 1..n
        BY <1>4, <2>1
    <2>3. <<1..m, X>> \in StrictSubsetOrdering(Nat)
        BY <1>3, <2>2 DEF StrictSubsetOrdering
    <2> QED BY <1>2, <2>3
<1> QED BY <1>4

\* Induction: a set with 0 that is closed under successor, up to n.
LEMMA UpTo ==
    ASSUME NEW n \in Nat, NEW S, 0 \in S, \A i \in 1..n : i - 1 \in S => i \in S
    PROVE  \A i \in 0..n : i \in S
<1> DEFINE Bad == {i \in 0..n : i \notin S}
<1> SUFFICES ASSUME Bad # {}
             PROVE  FALSE
    OBVIOUS
<1>1. PICK i \in Bad : \A j \in Bad : i <= j
    <2>1. Bad \in SUBSET Nat
        OBVIOUS
    <2> QED BY <2>1, LeastNumber
<1>2. i \in 1..n
    OBVIOUS
<1>3. i - 1 \notin Bad
    BY <1>1, <1>2
<1> QED BY <1>2, <1>3

-----------------------------------------------------------------------------
(* Filtered stacks.                                                        *)

KeptUpTo(s, S, f) ==
    f = [n \in 0..Len(s) |->
            IF n = 0 THEN <<>>
            ELSE IF s[n] \in S THEN Append(f[n - 1], s[n]) ELSE f[n - 1]]

\* The function that Kept speaks of exists.
LEMMA KeptIsDefined ==
    ASSUME NEW A, NEW s \in Seq(A), NEW S
    PROVE  \E f : KeptUpTo(s, S, f) /\ Kept(s, S) = f[Len(s)]
<1> DEFINE Step(f, n) == IF n = 0 THEN <<>>
                         ELSE IF s[n] \in S THEN Append(f[n - 1], s[n]) ELSE f[n - 1]
           Good == {n \in Nat : \E f : f = [i \in 0..n |-> Step(f, i)]}
<1>1. 0 \in Good
    <2> DEFINE f == [i \in 0..0 |-> <<>>]
    <2>1. f = [i \in 0..0 |-> Step(f, i)]
        OBVIOUS
    <2> QED BY <2>1
<1>2. ASSUME NEW n \in 1..Len(s), n - 1 \in Good
      PROVE  n \in Good
    <2>1. PICK f : f = [i \in 0..(n - 1) |-> Step(f, i)]
        BY <1>2
    <2> DEFINE g == [i \in 0..n |-> IF i = n THEN Step(f, n) ELSE f[i]]
    <2>2. ASSUME NEW i \in 0..n
          PROVE  g[i] = Step(g, i)
        <3>1. CASE i = n
            <4>1. g[n - 1] = f[n - 1]
                OBVIOUS
            <4>2. g[i] = Step(f, n)
                BY <3>1
            <4> QED BY <3>1, <4>1, <4>2
        <3>2. CASE i # n /\ i # 0
            <4>1. i - 1 \in 0..(n - 1) /\ i - 1 # n
                BY <3>2
            <4>2. g[i - 1] = f[i - 1]
                BY <4>1
            <4>3. i \in 0..(n - 1) /\ g[i] = f[i]
                BY <3>2
            <4>4. f[i] = Step(f, i)
                <5> HIDE DEF Step
                <5> QED BY <2>1, <4>3
            <4> QED BY <3>2, <4>2, <4>3, <4>4
        <3>3. CASE i = 0
            <4>1. 0 # n /\ 0 \in 0..(n - 1)
                OBVIOUS
            <4>2. g[0] = f[0]
                BY <4>1
            <4>3. f[0] = Step(f, 0)
                BY <2>1, <4>1
            <4> QED BY <3>3, <4>2, <4>3
        <3> QED BY <3>1, <3>2, <3>3
    <2>3. g = [i \in 0..n |-> g[i]]
        OBVIOUS
    <2> HIDE DEF Step, g
    <2>4. g = [i \in 0..n |-> Step(g, i)]
        BY <2>2, <2>3
    <2> QED BY <2>4
<1> HIDE DEF Good
<1>3. Len(s) \in Nat /\ Len(s) \in 0..Len(s)
    OBVIOUS
<1>4. Len(s) \in Good
    BY <1>1, <1>2, <1>3, UpTo
<1>5. \E f : KeptUpTo(s, S, f)
    BY <1>4 DEF Good, KeptUpTo
<1> DEFINE kept == CHOOSE f : KeptUpTo(s, S, f)
<1>6. KeptUpTo(s, S, kept)
    BY <1>5
<1>7. Kept(s, S) = kept[Len(s)]
    BY DEF Kept, KeptUpTo
<1> QED BY <1>6, <1>7

Distinct(s) == \A i, j \in DOMAIN s : s[i] = s[j] => i = j

\* An entry appended to a filtered prefix.
LEMMA AppendKept ==
    ASSUME NEW A, NEW S, NEW q \in Seq(A), NEW e \in A, e \in S,
           \A i \in DOMAIN q : q[i] \in S
    PROVE  /\ Append(q, e) \in Seq(A)
           /\ \A i \in DOMAIN Append(q, e) : Append(q, e)[i] \in S
           /\ \A i \in DOMAIN Append(q, e) :
                  \/ i \in DOMAIN q /\ Append(q, e)[i] = q[i]
                  \/ i = Len(q) + 1 /\ Append(q, e)[i] = e
           /\ Append(q, e)[Len(Append(q, e))] = e /\ Append(q, e) # <<>>
           /\ Distinct(q) /\ (\A i \in DOMAIN q : q[i] # e) => Distinct(Append(q, e))
<1>1. DOMAIN q = 1..Len(q) /\ DOMAIN Append(q, e) = 1..(Len(q) + 1)
      /\ Len(q) \in Nat /\ Len(Append(q, e)) = Len(q) + 1
    OBVIOUS
<1>2. \A i \in DOMAIN Append(q, e) :
          \/ i \in DOMAIN q /\ Append(q, e)[i] = q[i]
          \/ i = Len(q) + 1 /\ Append(q, e)[i] = e
    OBVIOUS
<1>3. Append(q, e) \in Seq(A) /\ Append(q, e)[Len(Append(q, e))] = e /\ Append(q, e) # <<>>
    OBVIOUS
<1>4. \A i \in DOMAIN Append(q, e) : Append(q, e)[i] \in S
    BY <1>2
<1>5. ASSUME Distinct(q), \A i \in DOMAIN q : q[i] # e
      PROVE  Distinct(Append(q, e))
    BY <1>2, <1>5 DEF Distinct
<1> QED BY <1>2, <1>3, <1>4, <1>5

\* What Kept returns: entries of the sequence that are in S, each as often at most.
LEMMA KeptFacts ==
    ASSUME NEW A, NEW s \in Seq(A), NEW S
    PROVE  /\ Kept(s, S) \in Seq(A)
           /\ \A i \in DOMAIN Kept(s, S) :
                  Kept(s, S)[i] \in S /\ \E j \in DOMAIN s : Kept(s, S)[i] = s[j]
           /\ Distinct(s) => Distinct(Kept(s, S))
<1>1. PICK f : KeptUpTo(s, S, f) /\ Kept(s, S) = f[Len(s)]
    BY KeptIsDefined
<1> DEFINE Fine(q, n) == /\ q \in Seq(A)
                         /\ \A i \in DOMAIN q : q[i] \in S
                         /\ \A i \in DOMAIN q : \E j \in 1..n : q[i] = s[j]
                         /\ Distinct(s) => Distinct(q)
           Good == {n \in 0..Len(s) : Fine(f[n], n)}
<1>2. f[0] = <<>>
    BY <1>1 DEF KeptUpTo
<1>3. ASSUME NEW n \in 1..Len(s)
      PROVE  f[n] = IF s[n] \in S THEN Append(f[n - 1], s[n]) ELSE f[n - 1]
    <2>1. n \in 0..Len(s) /\ n # 0
        OBVIOUS
    <2>2. f[n] = IF n = 0 THEN <<>>
                 ELSE IF s[n] \in S THEN Append(f[n - 1], s[n]) ELSE f[n - 1]
        BY <1>1, <2>1, Zenon DEF KeptUpTo
    <2> QED BY <2>1, <2>2
<1>4. 0 \in Good
    <2>1. DOMAIN <<>> = {} /\ <<>> \in Seq(A)
        OBVIOUS
    <2>2. Distinct(<<>>)
        BY <2>1 DEF Distinct
    <2>3. Fine(<<>>, 0)
        BY <2>1, <2>2
    <2>4. Fine(f[0], 0)
        BY <1>2, <2>3
    <2>5. 0 \in 0..Len(s)
        OBVIOUS
    <2> HIDE DEF Fine
    <2> QED BY <2>4, <2>5
<1>5. ASSUME NEW n \in 1..Len(s), n - 1 \in Good
      PROVE  n \in Good
    <2>1. Fine(f[n - 1], n - 1)
        BY <1>5
    <2>2. \A i \in DOMAIN f[n - 1] : \E j \in 1..n : j # n /\ f[n - 1][i] = s[j]
        BY <2>1
    <2>3. CASE s[n] \in S
        <3> DEFINE q == f[n - 1]
                   e == s[n]
        <3>0. q \in Seq(A) /\ e \in A /\ e \in S /\ \A i \in DOMAIN q : q[i] \in S
            BY <2>1, <2>3
        <3>1. f[n] = Append(q, e)
            BY <1>3, <2>3
        <3>2. Distinct(s) => \A i \in DOMAIN q : q[i] # e
            <4> SUFFICES ASSUME Distinct(s), NEW i \in DOMAIN q
                         PROVE  q[i] # e
                OBVIOUS
            <4>1. PICK j \in 1..n : j # n /\ q[i] = s[j]
                BY <2>2
            <4>2. j \in DOMAIN s /\ n \in DOMAIN s
                OBVIOUS
            <4> QED BY <4>1, <4>2 DEF Distinct
        <3>3. Distinct(s) => Distinct(q)
            BY <2>1
        <3> HIDE DEF q, e, Fine
        <3>4. /\ Append(q, e) \in Seq(A)
              /\ \A i \in DOMAIN Append(q, e) : Append(q, e)[i] \in S
              /\ \A i \in DOMAIN Append(q, e) :
                     \/ i \in DOMAIN q /\ Append(q, e)[i] = q[i]
                     \/ i = Len(q) + 1 /\ Append(q, e)[i] = e
              /\ Distinct(s) => Distinct(Append(q, e))
            BY <3>0, <3>2, <3>3, AppendKept
        <3>5. \A i \in DOMAIN Append(q, e) : \E j \in 1..n : Append(q, e)[i] = s[j]
            BY SMTT(30), <2>2, <3>4 DEF q, e
        <3>6. Fine(Append(q, e), n)
            BY <3>4, <3>5, Zenon DEF Fine
        <3>7. Fine(f[n], n)
            BY <3>1, <3>6, Zenon
        <3>8. n \in 0..Len(s)
            OBVIOUS
        <3> QED BY <3>7, <3>8
    <2>4. CASE s[n] \notin S
        <3>1. f[n] = f[n - 1]
            BY <1>3, <2>4
        <3>2. Fine(f[n - 1], n)
            BY <2>1, <2>2
        <3> QED BY <3>1, <3>2
    <2> QED BY <2>3, <2>4
<1>6. Len(s) \in Nat /\ Len(s) \in 0..Len(s)
    OBVIOUS
<1> HIDE DEF Good
<1>7. Len(s) \in Good
    BY <1>4, <1>5, <1>6, UpTo
<1>8. Fine(Kept(s, S), Len(s))
    BY <1>1, <1>7 DEF Good
<1> QED BY <1>8

-----------------------------------------------------------------------------
(* Sound worlds: Topology and types, with the shape of the record.         *)

AtMostOne(S) == \A a, b \in S : a = b

Shaped(v) ==
    v = [trees |-> v.trees, windows |-> v.windows, exceptions |-> v.exceptions,
         automatic |-> v.automatic, override |-> v.override,
         focus |-> v.focus, last |-> v.last]

\* Trees and links name each other.
Planted(trees, windows) ==
    /\ trees \in [Key -> Trees] /\ \A k \in Key : Sturdy(trees[k])
    /\ \A k \in Key : trees[k].leaves # {} => k \in Known
    /\ DOMAIN windows \subseteq Windows /\ windows \in [DOMAIN windows -> Known]
    /\ \A w \in DOMAIN windows : w \in trees[windows[w]].leaves
    /\ \A k \in Key : \A w \in trees[k].leaves : w \in DOMAIN windows /\ windows[w] = k

\* Exceptions are homed.
Homed(exceptions) ==
    /\ DOMAIN exceptions \subseteq Windows
    /\ exceptions \in [DOMAIN exceptions -> Exceptions]
    /\ \A w \in DOMAIN exceptions : exceptions[w].home \in Known

Remembering(last) == last \in [Key -> SUBSET Windows] /\ \A k \in Key : AtMostOne(last[k])

Focal(focus) == focus \subseteq Focus /\ AtMostOne(focus)

\* All but where the focus is.
Solid(v) ==
    /\ Shaped(v)
    /\ Planted(v.trees, v.windows)
    /\ Homed(v.exceptions)
    /\ DOMAIN v.windows \cap DOMAIN v.exceptions = {}
    /\ v.automatic \subseteq Windows /\ v.override \subseteq Windows
    /\ Focal(v.focus)
    /\ Remembering(v.last)

Sound(v) == Solid(v) /\ Resolves(v, v.focus)

\* Typed domains and focus stacks.
Framed == domains \in Seq(Key) /\ stack \in [Key -> Seq(Windows)]

\* The keys in use are keys.
LEMMA KnownAreKeys ==
    ASSUME Framed
    PROVE  Known \subseteq Key
BY DEF Framed, Known

\* An update of a function at one point.
LEMMA UpdatedAt ==
    ASSUME NEW A, NEW f, f = [a \in A |-> f[a]], NEW k \in A, NEW e
    PROVE  LET g == [f EXCEPT ![k] = e]
           IN  /\ g = [a \in A |-> g[a]]
               /\ g[k] = e
               /\ \A a \in A : a # k => g[a] = f[a]
OBVIOUS

\* A link more, a link less.
LEMMA Links ==
    ASSUME NEW f, NEW w, NEW e
    PROVE  /\ DOMAIN With(f, w, e) = DOMAIN f \cup {w}
           /\ With(f, w, e)[w] = e
           /\ \A x \in DOMAIN f : x # w => With(f, w, e)[x] = f[x]
           /\ \A S : e \in S /\ f \in [DOMAIN f -> S] =>
                  With(f, w, e) \in [DOMAIN f \cup {w} -> S]
           /\ DOMAIN Without(f, w) = DOMAIN f \ {w}
           /\ \A x \in DOMAIN f : x # w => Without(f, w)[x] = f[x]
           /\ \A S : f \in [DOMAIN f -> S] => Without(f, w) \in [DOMAIN f \ {w} -> S]
BY DEF With, Without

\* A tree replaced by one with the same leaves.
LEMMA Replanted ==
    ASSUME NEW trees, NEW windows, Planted(trees, windows), NEW k \in Key,
           NEW t \in Trees, Sturdy(t), t.leaves = trees[k].leaves
    PROVE  Planted([trees EXCEPT ![k] = t], windows)
<1> DEFINE new == [trees EXCEPT ![k] = t]
<1>1. new \in [Key -> Trees] /\ new[k] = t /\ \A a \in Key : a # k => new[a] = trees[a]
    BY DEF Planted
<1>2. \A a \in Key : new[a].leaves = trees[a].leaves /\ Sturdy(new[a])
    BY <1>1 DEF Planted
<1> HIDE DEF new
<1>3. \A w \in DOMAIN windows : w \in new[windows[w]].leaves
    <2> SUFFICES ASSUME NEW w \in DOMAIN windows
                 PROVE  w \in new[windows[w]].leaves
        OBVIOUS
    <2>1. w \in trees[windows[w]].leaves
        BY DEF Planted
    <2>2. CASE windows[w] \in Key
        BY <1>2, <2>1, <2>2
    <2>3. CASE windows[w] \notin Key
        <3>1. new[windows[w]] = trees[windows[w]]
            BY <2>3 DEF new, Planted
        <3> QED BY <2>1, <3>1
    <2> QED BY <2>2, <2>3
<1> QED BY <1>1, <1>2, <1>3 DEF Planted, new

\* A tile more.
LEMMA PlantedWith ==
    ASSUME Framed, NEW trees, NEW windows, Planted(trees, windows), NEW k \in Known,
           NEW w \in Windows, w \notin DOMAIN windows,
           NEW t \in Trees, Sturdy(t), t.leaves = trees[k].leaves \cup {w}
    PROVE  Planted([trees EXCEPT ![k] = t], With(windows, w, k))
<1> DEFINE new == [trees EXCEPT ![k] = t]
           linked == With(windows, w, k)
<1>0. k \in Key /\ Known \subseteq Key
    BY KnownAreKeys
<1>1. new \in [Key -> Trees] /\ new[k] = t /\ \A a \in Key : a # k => new[a] = trees[a]
    BY <1>0 DEF Planted
<1>2. /\ DOMAIN linked = DOMAIN windows \cup {w} /\ linked[w] = k
      /\ \A x \in DOMAIN windows : x # w => linked[x] = windows[x]
      /\ linked \in [DOMAIN windows \cup {w} -> Known]
    <2>1. windows \in [DOMAIN windows -> Known]
        BY DEF Planted
    <2>2. linked \in [DOMAIN windows \cup {w} -> Known]
        BY <2>1, Links
    <2>3. DOMAIN linked = DOMAIN windows \cup {w} /\ linked[w] = k
        BY DEF With
    <2>4. \A x \in DOMAIN windows : x # w => linked[x] = windows[x]
        BY DEF With
    <2> QED BY <2>2, <2>3, <2>4
<1> HIDE DEF new, linked
<1>3. linked \in [DOMAIN linked -> Known] /\ DOMAIN linked \subseteq Windows
    BY <1>2 DEF Planted
<1>4. \A a \in Key : Sturdy(new[a]) /\ (new[a].leaves # {} => a \in Known)
    BY <1>1 DEF Planted
<1>5. \A x \in DOMAIN linked : x \in new[linked[x]].leaves
    BY <1>0, <1>1, <1>2 DEF Planted
<1>6. \A a \in Key : \A x \in new[a].leaves : x \in DOMAIN linked /\ linked[x] = a
    BY <1>1, <1>2 DEF Planted
<1> QED BY <1>1, <1>3, <1>4, <1>5, <1>6 DEF Planted, new, linked

\* A tile less.
LEMMA PlantedWithout ==
    ASSUME Assumption, Framed, NEW trees, NEW windows, Planted(trees, windows),
           NEW w \in DOMAIN windows
    PROVE  Planted([trees EXCEPT ![windows[w]] = Removed(@, w)], Without(windows, w))
<1> DEFINE k == windows[w]
           t == Removed(trees[k], w)
           new == [trees EXCEPT ![k] = t]
           linked == Without(windows, w)
<1>0. k \in Known /\ k \in Key
    BY KnownAreKeys DEF Planted
<1>1. t \in Trees /\ Sturdy(t) /\ t.leaves = trees[k].leaves \ {w}
    <2>1. trees[k] \in Trees /\ Sturdy(trees[k])
        BY <1>0 DEF Planted
    <2> QED BY <2>1, RemovedAllKeeps DEF Removed
<1> HIDE DEF t
<1>2. new \in [Key -> Trees] /\ new[k] = t /\ \A a \in Key : a # k => new[a] = trees[a]
    BY <1>0, <1>1 DEF Planted
<1>3. /\ DOMAIN linked = DOMAIN windows \ {w}
      /\ \A x \in DOMAIN windows : x # w => linked[x] = windows[x]
      /\ linked \in [DOMAIN windows \ {w} -> Known]
    BY ZenonT(40), Links DEF Planted
<1> HIDE DEF linked
<1>4. linked \in [DOMAIN linked -> Known] /\ DOMAIN linked \subseteq Windows
    BY <1>3 DEF Planted
<1> HIDE DEF new
<1>5. \A a \in Key : Sturdy(new[a]) /\ (new[a].leaves # {} => a \in Known)
    BY <1>0, <1>1, <1>2 DEF Planted
<1>6. ASSUME NEW x \in DOMAIN linked
      PROVE  x \in new[linked[x]].leaves
    <2>1. x \in DOMAIN windows /\ x # w /\ linked[x] = windows[x]
        BY <1>3
    <2>2. windows[x] \in Key /\ x \in trees[windows[x]].leaves
        BY <2>1, KnownAreKeys DEF Planted
    <2> QED BY <1>1, <1>2, <2>1, <2>2
<1>7. ASSUME NEW a \in Key, NEW x \in new[a].leaves
      PROVE  x \in DOMAIN linked /\ linked[x] = a
    <2>1. x \in trees[a].leaves
        BY <1>1, <1>2
    <2>2. x \in DOMAIN windows /\ windows[x] = a
        BY <2>1 DEF Planted
    <2>3. x # w
        BY <1>1, <1>2, <2>2
    <2> QED BY <1>3, <2>2, <2>3
<1>8. Planted(new, linked)
    BY <1>2, <1>4, <1>5, <1>6, <1>7 DEF Planted
<1> QED BY <1>8 DEF new, linked, t

-----------------------------------------------------------------------------
(* What each operator on worlds makes of a sound one.                      *)

\* A world with some of its parts replaced.
FocusedOn(v, focus) == [v EXCEPT !.focus = focus]

MarkedAs(v, automatic, override) == [v EXCEPT !.automatic = automatic, !.override = override]

WithExceptions(v, exceptions) == [v EXCEPT !.exceptions = exceptions]

WithTiles(v, trees, windows, focus) ==
    [v EXCEPT !.trees = trees, !.windows = windows, !.focus = focus]

SameTiles(u, v) == u.trees = v.trees /\ u.windows = v.windows

\* Worlds that differ in neither trees nor links hold the same leaves.
LEMMA SameTilesHold ==
    ASSUME NEW u, NEW v, SameTiles(u, v)
    PROVE  /\ \A k, w : Holds(u, k, w) <=> Holds(v, k, w)
           /\ \A focus : Resolves(u, focus) <=> Resolves(v, focus)
           /\ Tiled(u) = Tiled(v)
BY DEF SameTiles, Holds, Resolves, Tiled

\* What a held leaf is.
LEMMA HeldLeaf ==
    ASSUME Framed, NEW v, Solid(v), NEW k, NEW w, Holds(v, k, w)
    PROVE  /\ w \in Windows /\ w \in Tiled(v) /\ v.windows[w] = k
           /\ k \in Known /\ k \in Key /\ w \in v.trees[k].leaves
BY KnownAreKeys DEF Solid, Planted, Holds, Tiled

\* Every tile is held where its link points.
LEMMA TileIsHeld ==
    ASSUME Framed, NEW v, Solid(v), NEW w \in Tiled(v)
    PROVE  /\ Holds(v, v.windows[w], w) /\ v.windows[w] \in Known /\ v.windows[w] \in Key
           /\ w \in Windows /\ w \notin DOMAIN v.exceptions
BY KnownAreKeys DEF Solid, Planted, Holds, Tiled

\* A leaf of a known tree is held there.
LEMMA LeafIsHeld ==
    ASSUME NEW v, Solid(v), NEW k \in Key, NEW w \in v.trees[k].leaves
    PROVE  Holds(v, k, w)
BY DEF Solid, Planted, Holds, Tiled

\* The tree of a key.
LEMMA TreeOf ==
    ASSUME NEW v, Solid(v), NEW k \in Key
    PROVE  v.trees[k] \in Trees /\ Sturdy(v.trees[k])
BY DEF Solid, Planted

\* Remembering the focus.
LEMMA MarkedKeeps ==
    ASSUME NEW v, Solid(v)
    PROVE  LET u == Marked(v)
           IN  /\ Solid(u) /\ (Sound(v) => Sound(u)) /\ SameTiles(u, v)
               /\ u.exceptions = v.exceptions /\ u.focus = v.focus
               /\ u.automatic = v.automatic /\ u.override = v.override
<1> DEFINE Here(k) == {f \in v.focus : f.domain = k /\ Holds(v, k, f.leaf)}
           last == [k \in Key |-> IF Here(k) = {} THEN v.last[k] ELSE {f.leaf : f \in Here(k)}]
           u == [v EXCEPT !.last = last]
<1>1. Marked(v) = u
    BY DEF Marked
<1>2. Remembering(last)
    <2>1. \A k \in Key : /\ v.last[k] \in SUBSET Windows /\ AtMostOne(v.last[k])
                          /\ {f.leaf : f \in Here(k)} \in SUBSET Windows
                          /\ AtMostOne({f.leaf : f \in Here(k)})
        BY DEF Solid, Remembering, Focal, Focus, AtMostOne
    <2> HIDE DEF Here
    <2> QED BY <2>1 DEF Remembering
<1> HIDE DEF last
<1>3. Shaped(v)
    BY DEF Solid
<1>4. /\ Shaped(u) /\ u.last = last /\ u.trees = v.trees /\ u.windows = v.windows
      /\ u.exceptions = v.exceptions /\ u.focus = v.focus
      /\ u.automatic = v.automatic /\ u.override = v.override
    BY <1>3 DEF Shaped
<1> HIDE DEF u
<1>5. Solid(u)
    BY <1>2, <1>4 DEF Solid
<1>6. SameTiles(u, v)
    BY <1>4 DEF SameTiles
<1>7. Sound(v) => Sound(u)
    BY <1>4, <1>5, <1>6, SameTilesHold DEF Sound
<1> QED BY <1>1, <1>4, <1>5, <1>6, <1>7

\* Choosing a focus.
LEMMA FocusedKeeps ==
    ASSUME NEW v, Solid(v), NEW focus, Focal(focus)
    PROVE  LET u == FocusedOn(v, focus)
           IN  /\ Solid(u) /\ (Resolves(v, focus) => Sound(u)) /\ SameTiles(u, v)
               /\ u.exceptions = v.exceptions /\ u.focus = focus
               /\ u.automatic = v.automatic /\ u.override = v.override
<1> DEFINE u == FocusedOn(v, focus)
<1>1. Shaped(v)
    BY DEF Solid
<1>2. /\ Shaped(u) /\ u.last = v.last /\ u.trees = v.trees /\ u.windows = v.windows
      /\ u.exceptions = v.exceptions /\ u.focus = focus
      /\ u.automatic = v.automatic /\ u.override = v.override
    BY <1>1 DEF Shaped, FocusedOn
<1> HIDE DEF u
<1>3. Solid(u)
    BY <1>2 DEF Solid
<1>4. SameTiles(u, v)
    BY <1>2 DEF SameTiles
<1>5. Resolves(v, focus) => Sound(u)
    BY <1>2, <1>3, <1>4, SameTilesHold DEF Sound
<1> QED BY <1>2, <1>3, <1>4, <1>5 DEF u

\* Marks put on and taken off.
LEMMA MarksKeep ==
    ASSUME NEW v, Solid(v), NEW A \in SUBSET Windows, NEW O \in SUBSET Windows
    PROVE  LET u == MarkedAs(v, A, O)
           IN  /\ Solid(u) /\ (Sound(v) => Sound(u)) /\ SameTiles(u, v)
               /\ u.exceptions = v.exceptions /\ u.focus = v.focus
               /\ u.automatic = A /\ u.override = O /\ u.last = v.last
<1> DEFINE u == MarkedAs(v, A, O)
<1>1. Shaped(v)
    BY DEF Solid
<1>2. Shaped(u)
    <2>1. ASSUME NEW y, y = [v EXCEPT !.automatic = A, !.override = O]
          PROVE  Shaped(y)
        BY <1>1, <2>1 DEF Shaped
    <2>2. u = [v EXCEPT !.automatic = A, !.override = O]
        BY DEF MarkedAs
    <2> HIDE DEF u
    <2> QED BY <2>1, <2>2
<1>3. /\ u.last = v.last /\ u.trees = v.trees /\ u.windows = v.windows
      /\ u.exceptions = v.exceptions /\ u.focus = v.focus
      /\ u.automatic = A /\ u.override = O
    BY <1>1 DEF Shaped, MarkedAs
<1> HIDE DEF u
<1>4. Solid(u)
    BY <1>2, <1>3 DEF Solid
<1>5. SameTiles(u, v)
    BY <1>3 DEF SameTiles
<1>6. Sound(v) => Sound(u)
    BY <1>3, <1>4, <1>5, SameTilesHold DEF Sound
<1> QED BY <1>3, <1>4, <1>5, <1>6 DEF u

\* Exceptions put on and taken off, where no tile is.
LEMMA ExceptionsKeep ==
    ASSUME NEW v, Solid(v), NEW E, Homed(E), DOMAIN v.windows \cap DOMAIN E = {}
    PROVE  LET u == WithExceptions(v, E)
           IN  /\ Solid(u) /\ (Sound(v) => Sound(u)) /\ SameTiles(u, v)
               /\ u.exceptions = E /\ u.focus = v.focus
               /\ u.automatic = v.automatic /\ u.override = v.override
<1> DEFINE u == WithExceptions(v, E)
<1>1. Shaped(v)
    BY DEF Solid
<1>2. /\ Shaped(u) /\ u.last = v.last /\ u.trees = v.trees /\ u.windows = v.windows
      /\ u.exceptions = E /\ u.focus = v.focus
      /\ u.automatic = v.automatic /\ u.override = v.override
    BY <1>1 DEF Shaped, WithExceptions
<1> HIDE DEF u
<1>3. Solid(u)
    BY <1>2 DEF Solid
<1>4. SameTiles(u, v)
    BY <1>2 DEF SameTiles
<1>5. Sound(v) => Sound(u)
    BY <1>2, <1>3, <1>4, SameTilesHold DEF Sound
<1> QED BY <1>2, <1>3, <1>4, <1>5 DEF u

\* Other trees, links and focus that fit one another.
LEMMA TilesKeep ==
    ASSUME NEW v, Solid(v), NEW T, NEW W, Planted(T, W), DOMAIN W \cap DOMAIN v.exceptions = {},
           NEW focus, Focal(focus)
    PROVE  LET u == WithTiles(v, T, W, focus)
           IN  /\ Solid(u) /\ u.trees = T /\ u.windows = W /\ u.focus = focus
               /\ u.exceptions = v.exceptions /\ u.last = v.last
               /\ u.automatic = v.automatic /\ u.override = v.override
<1> DEFINE u == WithTiles(v, T, W, focus)
<1>1. Shaped(v)
    BY DEF Solid
<1>2. Shaped(u)
    <2>1. ASSUME NEW y, y = [v EXCEPT !.trees = T, !.windows = W, !.focus = focus]
          PROVE  Shaped(y)
        BY <1>1, <2>1 DEF Shaped
    <2>2. u = [v EXCEPT !.trees = T, !.windows = W, !.focus = focus]
        BY DEF WithTiles
    <2> HIDE DEF u
    <2> QED BY <2>1, <2>2
<1>3. /\ u.last = v.last /\ u.trees = T /\ u.windows = W
      /\ u.exceptions = v.exceptions /\ u.focus = focus
      /\ u.automatic = v.automatic /\ u.override = v.override
    BY <1>1 DEF Shaped, WithTiles
<1> HIDE DEF u
<1>4. Solid(u)
    BY <1>2, <1>3 DEF Solid
<1> QED BY <1>3, <1>4 DEF u

\* A focus in one domain, on at most one leaf held there.
LEMMA FocusInHolds ==
    ASSUME Framed, NEW v, Solid(v), NEW k \in Key, NEW S, AtMostOne(S),
           \A w \in S : Holds(v, k, w)
    PROVE  Focal(FocusIn(k, S)) /\ Resolves(v, FocusIn(k, S))
<1>1. S \subseteq Windows
    BY HeldLeaf
<1>2. FocusIn(k, S) = {[domain |-> k, leaf |-> w] : w \in S}
    BY DEF FocusIn, At
<1>3. FocusIn(k, S) \subseteq Focus
    BY <1>1, <1>2 DEF Focus
<1>4. AtMostOne(FocusIn(k, S))
    BY <1>2 DEF AtMostOne
<1>5. Resolves(v, FocusIn(k, S))
    BY <1>2 DEF Resolves
<1> QED BY <1>3, <1>4, <1>5 DEF Focal

\* A focus on one leaf.
LEMMA FocusAt ==
    ASSUME Framed, NEW v, Solid(v), NEW k \in Key, NEW w, Holds(v, k, w)
    PROVE  Focal({At(k, w)}) /\ Resolves(v, {At(k, w)})
<1>1. w \in Windows
    BY HeldLeaf
<1>2. {At(k, w)} \subseteq Focus /\ AtMostOne({At(k, w)})
    BY <1>1 DEF At, Focus, AtMostOne
<1>3. Resolves(v, {At(k, w)})
    BY DEF Resolves, At
<1> QED BY <1>2, <1>3 DEF Focal

\* The stack offers at most one leaf, and that one is there.
LEMMA RecentIsHeld ==
    ASSUME Framed, NEW v, NEW k \in Key
    PROVE  AtMostOne(Recent(v, k)) /\ \A w \in Recent(v, k) : Holds(v, k, w)
<1> DEFINE live == Kept(stack[k], Held(v, k))
<1>1. stack[k] \in Seq(Windows)
    BY DEF Framed
<1>2. live \in Seq(Windows) /\ \A i \in DOMAIN live : live[i] \in Held(v, k)
    BY <1>1, KeptFacts
<1> HIDE DEF live
<1>3. Recent(v, k) = IF live = <<>> THEN {} ELSE {live[Len(live)]}
    BY DEF Recent, live
<1>4. CASE live = <<>>
    BY <1>3, <1>4 DEF AtMostOne
<1>5. CASE live # <<>>
    <2>1. Len(live) \in DOMAIN live
        BY <1>2, <1>5
    <2>2. live[Len(live)] \in Held(v, k)
        BY <1>2, <2>1
    <2> QED BY <1>3, <1>5, <2>2 DEF AtMostOne, Held
<1> QED BY <1>4, <1>5

\* So does the memory of a domain.
LEMMA RememberedIsHeld ==
    ASSUME NEW v, Solid(v), NEW k \in Key
    PROVE  AtMostOne(Remembered(v, k)) /\ \A w \in Remembered(v, k) : Holds(v, k, w)
BY DEF Remembered, Solid, Remembering, AtMostOne

\* So does the focus, seen from a domain.
LEMMA EligibleIsHeld ==
    ASSUME NEW v, Solid(v), NEW k \in Key
    PROVE  /\ AtMostOne(EligibleFocus(v, k)) /\ \A w \in EligibleFocus(v, k) : Holds(v, k, w)
BY DEF EligibleFocus, Solid, Focal, AtMostOne

\* At most one leaf is none or one.
LEMMA NoneOrOne ==
    ASSUME NEW S, AtMostOne(S)
    PROVE  S = {} \/ \E w : S = {w}
BY DEF AtMostOne

\* A tile taken out: the focus may be left on it.
LEMMA UntiledKeeps ==
    ASSUME Assumption, Framed, NEW v, Solid(v), NEW w \in Tiled(v)
    PROVE  LET u == Untiled(v, w)
           IN  /\ Solid(u) /\ Tiled(u) = Tiled(v) \ {w}
               /\ u.focus = v.focus /\ u.exceptions = v.exceptions /\ u.last = v.last
               /\ u.automatic = v.automatic /\ u.override = v.override
               /\ \A k, x : Holds(u, k, x) <=> Holds(v, k, x) /\ x # w
               /\ u.trees = [v.trees EXCEPT ![v.windows[w]] = Removed(@, w)]
               /\ u.windows = Without(v.windows, w)
<1> DEFINE T == [v.trees EXCEPT ![v.windows[w]] = Removed(@, w)]
           W == Without(v.windows, w)
           u == WithTiles(v, T, W, v.focus)
<1>1. Untiled(v, w) = u
    <2>1. Untiled(v, w) = [v EXCEPT !.trees = T, !.windows = W]
        BY DEF Untiled
    <2>2. Shaped(v)
        BY DEF Solid
    <2> HIDE DEF T, W
    <2> QED BY <2>1, <2>2 DEF Shaped, WithTiles
<1>2. Planted(T, W)
    BY PlantedWithout DEF Solid, Tiled
<1>3. DOMAIN W = DOMAIN v.windows \ {w} /\ \A x \in DOMAIN W : W[x] = v.windows[x]
    BY DEF Without
<1>4. DOMAIN W \cap DOMAIN v.exceptions = {} /\ Focal(v.focus)
    BY <1>3 DEF Solid
<1> HIDE DEF T, W
<1>5. /\ Solid(u) /\ u.trees = T /\ u.windows = W /\ u.focus = v.focus
      /\ u.exceptions = v.exceptions /\ u.last = v.last
      /\ u.automatic = v.automatic /\ u.override = v.override
    BY <1>2, <1>4, TilesKeep
<1> HIDE DEF u
<1>6. ASSUME NEW k, NEW x
      PROVE  Holds(u, k, x) <=> Holds(v, k, x) /\ x # w
    <2>1. ASSUME Holds(u, k, x)
          PROVE  Holds(v, k, x) /\ x # w
        <3>1. x \in DOMAIN W /\ W[x] = k
            BY <1>5, <2>1 DEF Holds, Tiled
        <3>2. x \in Tiled(v) /\ v.windows[x] = k /\ x # w
            BY <1>3, <3>1 DEF Tiled
        <3> QED BY <3>2, TileIsHeld
    <2>2. ASSUME Holds(v, k, x), x # w
          PROVE  Holds(u, k, x)
        <3>1. x \in DOMAIN W /\ W[x] = k
            BY <1>3, <2>2 DEF Holds, Tiled
        <3>2. x \in Tiled(u) /\ u.windows[x] = k
            BY <1>5, <3>1 DEF Tiled
        <3> QED BY <1>5, <3>2, TileIsHeld
    <2> QED BY <2>1, <2>2
<1> QED BY <1>1, <1>3, <1>5, <1>6 DEF Tiled, T, W, u

\* A window without a tile put in a tree.
LEMMA TilePlaced ==
    ASSUME Assumption, Framed, NEW v, Solid(v), NEW w \in Windows,
           w \notin Tiled(v), w \notin DOMAIN v.exceptions, NEW k \in Known,
           NEW t \in Trees, Sturdy(t), t.leaves = v.trees[k].leaves \cup {w},
           NEW focus, Focal(focus)
    PROVE  LET u == WithTiles(v, [v.trees EXCEPT ![k] = t], With(v.windows, w, k), focus)
           IN  /\ Solid(u) /\ Tiled(u) = Tiled(v) \cup {w} /\ u.focus = focus
               /\ u.exceptions = v.exceptions /\ u.last = v.last
               /\ u.automatic = v.automatic /\ u.override = v.override
               /\ Holds(u, k, w) /\ \A a, x : Holds(v, a, x) => Holds(u, a, x)
               /\ u.trees = [v.trees EXCEPT ![k] = t] /\ u.windows = With(v.windows, w, k)
<1> DEFINE T == [v.trees EXCEPT ![k] = t]
           W == With(v.windows, w, k)
           u == WithTiles(v, T, W, focus)
<1>2. Planted(T, W)
    BY PlantedWith DEF Solid, Tiled
<1>3. /\ DOMAIN W = DOMAIN v.windows \cup {w} /\ W[w] = k
      /\ \A x \in DOMAIN v.windows : x # w => W[x] = v.windows[x]
    BY DEF With
<1>4. DOMAIN W \cap DOMAIN v.exceptions = {}
    BY <1>3 DEF Solid
<1> HIDE DEF T, W
<1>5. /\ Solid(u) /\ u.trees = T /\ u.windows = W /\ u.focus = focus
      /\ u.exceptions = v.exceptions /\ u.last = v.last
      /\ u.automatic = v.automatic /\ u.override = v.override
    BY <1>2, <1>4, TilesKeep
<1> HIDE DEF u
<1>6. Holds(u, k, w)
    <2>1. w \in Tiled(u) /\ u.windows[w] = k
        BY <1>3, <1>5 DEF Tiled
    <2> QED BY <1>5, <2>1, TileIsHeld
<1>7. ASSUME NEW a, NEW x, Holds(v, a, x)
      PROVE  Holds(u, a, x)
    <2>1. x \in Tiled(v) /\ v.windows[x] = a
        BY <1>7 DEF Holds
    <2>2. x \in Tiled(u) /\ u.windows[x] = a
        BY <1>3, <1>5, <2>1 DEF Tiled
    <2> QED BY <1>5, <2>2, TileIsHeld
<1>8. Tiled(u) = Tiled(v) \cup {w}
    BY <1>3, <1>5 DEF Tiled
<1> QED BY <1>5, <1>6, <1>7, <1>8 DEF T, W, u

\* A sound world with these tiles, floats and marks.
Becomes(u, tiles, floats, automatic, override) ==
    /\ Sound(u)
    /\ Tiled(u) = tiles /\ DOMAIN u.exceptions = floats
    /\ u.automatic = automatic /\ u.override = override

\* A sound world is what it is, and remembers its focus when it is marked.
LEMMA MarkedBecomes ==
    ASSUME NEW v, NEW tiles, NEW floats, NEW automatic, NEW override,
           Becomes(v, tiles, floats, automatic, override)
    PROVE  Becomes(Marked(v), tiles, floats, automatic, override)
<1>1. Solid(v) /\ Sound(v)
    BY DEF Becomes, Sound
<1>2. /\ Sound(Marked(v)) /\ SameTiles(Marked(v), v)
      /\ Marked(v).exceptions = v.exceptions
      /\ Marked(v).automatic = v.automatic /\ Marked(v).override = v.override
    BY <1>1, MarkedKeeps
<1> QED BY <1>2, SameTilesHold DEF Becomes

\* A window is tiled at the focused leaf of a domain or at its root.
LEMMA TiledAtBecomes ==
    ASSUME Assumption, Framed, NEW v, Solid(v), NEW w \in Windows,
           w \notin Tiled(v), w \notin DOMAIN v.exceptions, NEW k \in Known, NEW axis \in Axes
    PROVE  Becomes(TiledAt(v, w, k, axis), Tiled(v) \cup {w}, DOMAIN v.exceptions,
                   v.automatic, v.override)
<1> DEFINE t == Admitted(v.trees[k], w, EligibleFocus(v, k), axis)
           T == [v.trees EXCEPT ![k] = t]
           W == With(v.windows, w, k)
           F == {At(k, w)}
           u == WithTiles(v, T, W, F)
<1>1. k \in Key /\ v.trees[k] \in Trees /\ Sturdy(v.trees[k])
    BY KnownAreKeys, TreeOf
<1>2. w \notin v.trees[k].leaves
    BY <1>1, LeafIsHeld DEF Holds
<1>3. EligibleFocus(v, k) = {} \/ \E x \in v.trees[k].leaves : EligibleFocus(v, k) = {x}
    <2>1. EligibleFocus(v, k) = {} \/ \E x : EligibleFocus(v, k) = {x}
        BY <1>1, EligibleIsHeld, NoneOrOne
    <2>2. \A x \in EligibleFocus(v, k) : x \in v.trees[k].leaves
        BY <1>1, EligibleIsHeld DEF Holds
    <2> QED BY <2>1, <2>2
<1>4. t \in Trees /\ Sturdy(t) /\ t.leaves = v.trees[k].leaves \cup {w}
    BY <1>1, <1>2, <1>3, AdmittedKeeps
<1>5. Focal(F)
    BY <1>1 DEF Focal, Focus, At, AtMostOne
<1>6. TiledAt(v, w, k, axis) = u
    <2>1. TiledAt(v, w, k, axis) = [v EXCEPT !.trees = T, !.windows = W, !.focus = F]
        BY DEF TiledAt
    <2> HIDE DEF T, W, F
    <2> QED BY <2>1 DEF WithTiles
<1> HIDE DEF t
<1>7. /\ Solid(u) /\ Tiled(u) = Tiled(v) \cup {w} /\ u.focus = F
      /\ u.exceptions = v.exceptions
      /\ u.automatic = v.automatic /\ u.override = v.override
      /\ Holds(u, k, w)
    <2> HIDE DEF F
    <2> QED BY <1>4, <1>5, TilePlaced
<1> HIDE DEF u
<1>8. Resolves(u, u.focus)
    BY <1>7 DEF Resolves, At
<1> QED BY <1>6, <1>7, <1>8 DEF Becomes, Sound

\* A tile leaves, and a lost focus falls back in its domain.
LEMMA DepartedBecomes ==
    ASSUME Assumption, Framed, NEW v, Sound(v), NEW w \in Tiled(v)
    PROVE  Becomes(Departed(v, w), Tiled(v) \ {w}, DOMAIN v.exceptions, v.automatic, v.override)
<1> DEFINE k == v.windows[w]
           rest == Untiled(v, w)
           F == FocusIn(k, Recent(rest, k))
<1>0. Solid(v) /\ k \in Key
    BY TileIsHeld DEF Sound
<1>1. /\ Solid(rest) /\ Tiled(rest) = Tiled(v) \ {w}
      /\ rest.exceptions = v.exceptions
      /\ rest.automatic = v.automatic /\ rest.override = v.override
    BY <1>0, UntiledKeeps
<1>2. Focal(F) /\ Resolves(rest, F)
    BY <1>0, <1>1, RecentIsHeld, FocusInHolds
<1>3. Focal({}) /\ Resolves(rest, {})
    BY DEF Focal, AtMostOne, Resolves
<1>4. \/ Departed(v, w) = FocusedOn(rest, F)
      \/ Departed(v, w) = FocusedOn(rest, {})
      \/ Departed(v, w) = rest /\ Resolves(rest, v.focus)
    BY DEF Departed, FocusedOn
<1>5. rest.focus = v.focus
    BY <1>0, UntiledKeeps
<1> HIDE DEF rest, F
<1>6. ASSUME NEW G, Focal(G), Resolves(rest, G)
      PROVE  Becomes(FocusedOn(rest, G), Tiled(v) \ {w}, DOMAIN v.exceptions,
                     v.automatic, v.override)
    BY <1>1, <1>6, FocusedKeeps, SameTilesHold DEF Becomes
<1>7. ASSUME Resolves(rest, v.focus)
      PROVE  Becomes(rest, Tiled(v) \ {w}, DOMAIN v.exceptions, v.automatic, v.override)
    BY <1>1, <1>5, <1>7 DEF Becomes, Sound
<1> QED BY <1>2, <1>3, <1>4, <1>6, <1>7

\* A window without a tile becomes a floating exception.
LEMMA ExceptedBecomes ==
    ASSUME NEW v, NEW tiles, NEW floats, NEW automatic, NEW override,
           Becomes(v, tiles, floats, automatic, override),
           NEW w \in Windows, w \notin tiles, NEW k \in Key, k \in Known,
           NEW flags \in SUBSET Flags
    PROVE  Becomes(Excepted(v, w, k, flags), tiles, floats \cup {w}, automatic, override)
<1> DEFINE E == With(v.exceptions, w, [home |-> k, flags |-> flags])
<1>1. Sound(v) /\ Solid(v) /\ Tiled(v) = tiles /\ DOMAIN v.exceptions = floats
    BY DEF Becomes, Sound
<1>2. Homed(v.exceptions) /\ DOMAIN v.windows \cap DOMAIN v.exceptions = {}
    BY <1>1 DEF Solid
<1>3. [home |-> k, flags |-> flags] \in Exceptions
    BY DEF Exceptions
<1>4. DOMAIN E = floats \cup {w} /\ E[w] = [home |-> k, flags |-> flags]
      /\ \A x \in DOMAIN v.exceptions : x # w => E[x] = v.exceptions[x]
    BY <1>1 DEF With
<1>5. E \in [DOMAIN E -> Exceptions]
    BY <1>1, <1>2, <1>3 DEF Homed, With
<1>6. Homed(E)
    BY <1>1, <1>2, <1>4, <1>5 DEF Homed
<1>7. DOMAIN v.windows \cap DOMAIN E = {}
    BY <1>1, <1>2, <1>4 DEF Tiled
<1>8. Excepted(v, w, k, flags) = WithExceptions(v, E)
    BY DEF Excepted, WithExceptions
<1> HIDE DEF E
<1>9. LET u == WithExceptions(v, E)
      IN  /\ Sound(u) /\ SameTiles(u, v) /\ u.exceptions = E
          /\ u.automatic = v.automatic /\ u.override = v.override
    BY <1>1, <1>6, <1>7, ExceptionsKeep
<1> QED BY <1>1, <1>4, <1>8, <1>9, SameTilesHold DEF Becomes

\* An exception record is taken away.
LEMMA UnexceptedBecomes ==
    ASSUME NEW v, Solid(v), NEW w
    PROVE  LET u == WithExceptions(v, Without(v.exceptions, w))
           IN  /\ Solid(u) /\ (Sound(v) => Sound(u)) /\ SameTiles(u, v)
               /\ DOMAIN u.exceptions = DOMAIN v.exceptions \ {w} /\ u.focus = v.focus
               /\ u.automatic = v.automatic /\ u.override = v.override
<1> DEFINE E == Without(v.exceptions, w)
<1>1. Homed(v.exceptions) /\ DOMAIN v.windows \cap DOMAIN v.exceptions = {}
    BY DEF Solid
<1>2. DOMAIN E = DOMAIN v.exceptions \ {w} /\ \A x \in DOMAIN E : E[x] = v.exceptions[x]
    BY DEF Without
<1>3. E \in [DOMAIN E -> Exceptions]
    BY <1>1 DEF Homed, Without
<1>4. Homed(E) /\ DOMAIN v.windows \cap DOMAIN E = {}
    BY <1>1, <1>2, <1>3 DEF Homed
<1> HIDE DEF E
<1>5. LET u == WithExceptions(v, E)
      IN  /\ Solid(u) /\ (Sound(v) => Sound(u)) /\ SameTiles(u, v)
          /\ u.exceptions = E /\ u.focus = v.focus
          /\ u.automatic = v.automatic /\ u.override = v.override
    BY <1>4, ExceptionsKeep
<1> QED BY <1>2, <1>5 DEF E

\* Marks are put on windows and taken off.
LEMMA MarkedAsBecomes ==
    ASSUME NEW v, NEW tiles, NEW floats, NEW automatic, NEW override,
           Becomes(v, tiles, floats, automatic, override),
           NEW A \in SUBSET Windows, NEW O \in SUBSET Windows
    PROVE  Becomes(MarkedAs(v, A, O), tiles, floats, A, O)
<1>1. Solid(v) /\ Sound(v)
    BY DEF Becomes, Sound
<1> QED BY <1>1, MarksKeep, SameTilesHold DEF Becomes

\* The marks of a sound world are on windows.
LEMMA MarksOnWindows ==
    ASSUME NEW v, NEW tiles, NEW floats, NEW automatic, NEW override,
           Becomes(v, tiles, floats, automatic, override)
    PROVE  automatic \in SUBSET Windows /\ override \in SUBSET Windows
BY DEF Becomes, Sound, Solid

\* The user's tile wins over the classifier.
LEMMA TileWinsBecomes ==
    ASSUME NEW v, NEW tiles, NEW floats, NEW automatic, NEW override,
           Becomes(v, tiles, floats, automatic, override), NEW w \in Windows
    PROVE  Becomes(TileWins(v, w), tiles, floats, automatic \ {w}, override \cup {w})
<1>1. TileWins(v, w) = MarkedAs(v, v.automatic \ {w}, v.override \cup {w})
    BY DEF TileWins, MarkedAs, Becomes, Sound, Solid, Shaped
<1>2. automatic \in SUBSET Windows /\ override \in SUBSET Windows
    BY MarksOnWindows
<1>3. v.automatic = automatic /\ v.override = override
    BY DEF Becomes
<1> QED BY <1>1, <1>2, <1>3, MarkedAsBecomes

-----------------------------------------------------------------------------
(* Lifecycle operations.                                                   *)

\* A world with one tree replaced.
WithTree(v, k, t) == [v EXCEPT !.trees[k] = t]

\* A tree that keeps its leaves takes another form.
LEMMA WithTreeBecomes ==
    ASSUME NEW v, Sound(v), NEW k \in Key, NEW t \in Trees, Sturdy(t),
           t.leaves = v.trees[k].leaves
    PROVE  Becomes(WithTree(v, k, t), Tiled(v), DOMAIN v.exceptions, v.automatic, v.override)
<1> DEFINE T == [v.trees EXCEPT ![k] = t]
           u == WithTiles(v, T, v.windows, v.focus)
<1>1. Solid(v) /\ Shaped(v) /\ Planted(v.trees, v.windows) /\ Focal(v.focus)
      /\ DOMAIN v.windows \cap DOMAIN v.exceptions = {}
    BY DEF Sound, Solid
<1>2. Planted(T, v.windows)
    BY <1>1, Replanted
<1>3. WithTree(v, k, t) = u
    <2>1. WithTree(v, k, t) = [v EXCEPT !.trees = T]
        BY DEF WithTree
    <2> HIDE DEF T
    <2> QED BY <1>1, <2>1 DEF WithTiles, Shaped
<1>4. T \in [Key -> Trees] /\ \A a \in Key : T[a].leaves = v.trees[a].leaves
    BY <1>1 DEF Planted
<1> HIDE DEF T
<1>5. /\ Solid(u) /\ u.trees = T /\ u.windows = v.windows /\ u.focus = v.focus
      /\ u.exceptions = v.exceptions
      /\ u.automatic = v.automatic /\ u.override = v.override
    BY <1>1, <1>2, TilesKeep
<1> HIDE DEF u
<1>6. \A f \in v.focus : f.domain \in Key
    BY <1>1 DEF Focal, Focus
<1>7. Resolves(u, u.focus)
    BY <1>4, <1>5, <1>6 DEF Sound, Resolves, Holds, Tiled
<1> QED BY <1>3, <1>5, <1>7 DEF Becomes, Sound, Tiled

\* What Admit plans.
LEMMA AdmitIntoBecomes ==
    ASSUME Assumption, Framed, NEW v, Sound(v), NEW w \in Windows, w \notin Members(v),
           NEW k \in Known, NEW sight \in Sights, NEW suppress \in BOOLEAN,
           NEW axis \in AdmissionAxes
    PROVE  \/ Becomes(AdmitInto(v, w, k, sight, suppress, axis),
                      Tiled(v), DOMAIN v.exceptions \cup {w}, v.automatic, v.override)
           \/ /\ w \notin v.override
              /\ Becomes(AdmitInto(v, w, k, sight, suppress, axis),
                         Tiled(v), DOMAIN v.exceptions \cup {w},
                         v.automatic \cup {w}, v.override)
           \/ Becomes(AdmitInto(v, w, k, sight, suppress, axis),
                      Tiled(v) \cup {w}, DOMAIN v.exceptions, v.automatic, v.override)
           \/ Becomes(AdmitInto(v, w, k, sight, suppress, axis),
                      Tiled(v) \cup {w}, DOMAIN v.exceptions,
                      v.automatic \ {w}, v.override \cup {w})
<1>1. /\ Becomes(v, Tiled(v), DOMAIN v.exceptions, v.automatic, v.override) /\ Solid(v)
      /\ w \notin Tiled(v) /\ w \notin DOMAIN v.exceptions
    BY DEF Becomes, Members, Tiled, Sound
<1>2. k \in Key /\ axis \in Axes /\ sight.flags \in SUBSET Flags
    BY KnownAreKeys DEF Assumption, Sight
<1>3. \A flags \in SUBSET Flags :
          Becomes(Excepted(v, w, k, flags), Tiled(v), DOMAIN v.exceptions \cup {w},
                  v.automatic, v.override)
    BY <1>1, <1>2, ExceptedBecomes
<1>4. CASE sight.flags # {}
    BY <1>2, <1>3, <1>4 DEF AdmitInto
<1>5. CASE sight.flags = {} /\ ClassifiedFixed(v, w, sight, suppress)
    <2> DEFINE x == Excepted(v, w, k, {"floating"})
    <2>1. Becomes(x, Tiled(v), DOMAIN v.exceptions \cup {w}, v.automatic, v.override)
        BY <1>3 DEF Flags
    <2>2. AdmitInto(v, w, k, sight, suppress, axis) = [x EXCEPT !.automatic = @ \cup {w}]
        BY <1>5 DEF AdmitInto
    <2> HIDE DEF x
    <2>3. [x EXCEPT !.automatic = @ \cup {w}] = MarkedAs(x, v.automatic \cup {w}, v.override)
        BY <2>1 DEF MarkedAs, Becomes, Sound, Solid, Shaped
    <2>4. v.automatic \cup {w} \in SUBSET Windows /\ v.override \in SUBSET Windows
        BY <1>1 DEF Solid
    <2>5. Becomes(MarkedAs(x, v.automatic \cup {w}, v.override),
                  Tiled(v), DOMAIN v.exceptions \cup {w}, v.automatic \cup {w}, v.override)
        BY <2>1, <2>4, MarkedAsBecomes
    <2>6. w \notin v.override
        BY <1>5 DEF ClassifiedFixed
    <2> QED BY <2>2, <2>3, <2>5, <2>6
<1>6. CASE sight.flags = {} /\ ~ClassifiedFixed(v, w, sight, suppress)
    <2> DEFINE tiled == Marked(TiledAt(v, w, k, axis))
    <2>1. Becomes(tiled, Tiled(v) \cup {w}, DOMAIN v.exceptions, v.automatic, v.override)
        BY <1>1, <1>2, TiledAtBecomes, MarkedBecomes
    <2>2. \/ AdmitInto(v, w, k, sight, suppress, axis) = tiled
          \/ AdmitInto(v, w, k, sight, suppress, axis) = TileWins(tiled, w)
        BY <1>6 DEF AdmitInto
    <2> HIDE DEF tiled
    <2>3. Becomes(TileWins(tiled, w), Tiled(v) \cup {w}, DOMAIN v.exceptions,
                  v.automatic \ {w}, v.override \cup {w})
        BY <2>1, TileWinsBecomes
    <2> QED BY <2>1, <2>2, <2>3
<1> QED BY <1>4, <1>5, <1>6

\* The first leaf of a tree, and of all of them, is one at most.
LEMMA FirstLeafIsHeld ==
    ASSUME Framed, Solid(world)
    PROVE  Focal(FirstLeafGlobal) /\ Resolves(world, FirstLeafGlobal)
<1>1. ASSUME NEW k \in Key
      PROVE  Focal(FocusIn(k, FirstLeaf(k))) /\ Resolves(world, FocusIn(k, FirstLeaf(k)))
    <2>1. world.trees[k] \in Trees /\ Ordered(world.trees[k])
        BY TreeOf DEF Sturdy
    <2>2. AtMostOne(FirstLeaf(k))
        BY <2>1 DEF AtMostOne, FirstLeaf, Ordered
    <2>3. \A w \in FirstLeaf(k) : Holds(world, k, w)
        BY LeafIsHeld DEF FirstLeaf
    <2> QED BY <2>2, <2>3, FocusInHolds
<1> DEFINE I == {i \in DOMAIN domains : \A j \in 1..(i - 1) : FirstLeaf(domains[j]) = {}}
           P(i) == FocusIn(domains[i], FirstLeaf(domains[i]))
<1>2. FirstLeafGlobal = UNION {P(i) : i \in I}
    BY DEF FirstLeafGlobal
<1>3. \A i \in DOMAIN domains : domains[i] \in Key
    BY DEF Framed
<1>4. \A i \in I : Focal(P(i)) /\ Resolves(world, P(i))
    BY <1>1, <1>3
<1>5. ASSUME NEW i \in I, NEW j \in I, i # j, P(i) # {}
      PROVE  P(j) = {}
    <2>1. i \in 1..Len(domains) /\ j \in 1..Len(domains) /\ Len(domains) \in Nat
        BY DEF Framed
    <2>2. CASE i < j
        <3>1. i \in 1..(j - 1)
            BY <2>1, <2>2
        <3>2. FirstLeaf(domains[i]) = {}
            BY <3>1
        <3> QED BY <1>5, <3>2 DEF FocusIn
    <2>3. CASE j < i
        <3>1. j \in 1..(i - 1)
            BY <2>1, <2>3
        <3>2. FirstLeaf(domains[j]) = {}
            BY <3>1
        <3> QED BY <3>2 DEF FocusIn
    <2> QED BY <1>5, <2>1, <2>2, <2>3
<1> HIDE DEF P, I
<1>6. \A f, g \in FirstLeafGlobal : f = g
    BY <1>2, <1>4, <1>5 DEF Focal, AtMostOne
<1>7. FirstLeafGlobal \subseteq Focus /\ Resolves(world, FirstLeafGlobal)
    BY <1>2, <1>4 DEF Focal, Resolves
<1> QED BY <1>6, <1>7 DEF Focal, AtMostOne

\* What Remove plans for a floating window.
LEMMA RemoveExceptionBecomes ==
    ASSUME Assumption, Framed, Sound(world), NEW w
    PROVE  Becomes(RemoveException(w), Tiled(world), DOMAIN world.exceptions \ {w},
                   world.automatic, world.override)
<1> DEFINE rest == WithExceptions(world, Without(world.exceptions, w))
           tiles == Tiled(world)
           floats == DOMAIN world.exceptions \ {w}
<1>1. Solid(world)
    BY DEF Sound
<1>2. /\ Solid(rest) /\ Sound(rest) /\ SameTiles(rest, world)
      /\ DOMAIN rest.exceptions = floats
      /\ rest.automatic = world.automatic /\ rest.override = world.override
    BY <1>1, UnexceptedBecomes
<1>3. \/ RemoveException(w) = Marked(rest)
      \/ RemoveException(w) = Marked(FocusedOn(rest, FirstLeafGlobal))
    BY DEF RemoveException, WithExceptions, FocusedOn
<1> HIDE DEF rest
<1>4. Focal(FirstLeafGlobal) /\ Resolves(rest, FirstLeafGlobal)
    BY <1>1, <1>2, FirstLeafIsHeld, SameTilesHold
<1>5. Becomes(rest, tiles, floats, world.automatic, world.override)
    BY <1>2, SameTilesHold DEF Becomes
<1>6. Becomes(FocusedOn(rest, FirstLeafGlobal), tiles, floats, world.automatic, world.override)
    BY <1>2, <1>4, FocusedKeeps, SameTilesHold DEF Becomes
<1> QED BY <1>3, <1>5, <1>6, MarkedBecomes

\* What Float plans.
LEMMA FloatBecomes ==
    ASSUME Assumption, Framed, Sound(world), NEW w \in Tiled(world)
    PROVE  LET left == Marked(Departed(world, w))
           IN  Becomes([Excepted(left, w, world.windows[w], {"floating"}) EXCEPT
                            !.automatic = @ \ {w}, !.override = @ \ {w}],
                       Tiled(world) \ {w}, DOMAIN world.exceptions \cup {w},
                       world.automatic \ {w}, world.override \ {w})
<1> DEFINE left == Marked(Departed(world, w))
           x == Excepted(left, w, world.windows[w], {"floating"})
           A == world.automatic \ {w}
           O == world.override \ {w}
           tiles == Tiled(world) \ {w}
           floats == DOMAIN world.exceptions \cup {w}
<1>1. Becomes(left, tiles, DOMAIN world.exceptions, world.automatic, world.override)
    BY DepartedBecomes, MarkedBecomes
<1>2. w \in Windows /\ world.windows[w] \in Key /\ world.windows[w] \in Known
    BY TileIsHeld DEF Sound
<1> HIDE DEF left
<1>3. Becomes(x, tiles, floats, world.automatic, world.override)
    BY <1>1, <1>2, ExceptedBecomes DEF Flags
<1>4. A \in SUBSET Windows /\ O \in SUBSET Windows
    BY <1>3, MarksOnWindows
<1> HIDE DEF x
<1>5. x.automatic \ {w} = A /\ x.override \ {w} = O
    BY <1>3 DEF Becomes
<1>6. [x EXCEPT !.automatic = @ \ {w}, !.override = @ \ {w}] = MarkedAs(x, A, O)
    <2>1. [x EXCEPT !.automatic = @ \ {w}, !.override = @ \ {w}]
          = [x EXCEPT !.automatic = x.automatic \ {w}, !.override = x.override \ {w}]
        OBVIOUS
    <2> HIDE DEF A, O
    <2> QED BY <1>5, <2>1 DEF MarkedAs
<1> HIDE DEF A, O, tiles, floats
<1>7. Becomes(MarkedAs(x, A, O), tiles, floats, A, O)
    BY <1>3, <1>4, MarkedAsBecomes
<1> QED BY <1>6, <1>7 DEF A, O, tiles, floats, x, left

\* What Unfloated commits at once and what it plans.
LEMMA UnfloatedBecomes ==
    ASSUME Assumption, Framed, Sound(world), NEW w \in DOMAIN world.exceptions,
           NEW axis \in AdmissionAxes
    PROVE  LET base == [world EXCEPT !.exceptions = Without(@, w)]
               home == world.exceptions[w].home
           IN  /\ Becomes(base, Tiled(world), DOMAIN world.exceptions \ {w},
                          world.automatic, world.override)
               /\ SameTiles(base, world) /\ base.focus = world.focus
               /\ Becomes(TileWins(Marked(TiledAt(base, w, home, axis)), w),
                          Tiled(world) \cup {w}, DOMAIN world.exceptions \ {w},
                          world.automatic \ {w}, world.override \cup {w})
<1> DEFINE base == WithExceptions(world, Without(world.exceptions, w))
           home == world.exceptions[w].home
<1>1. [world EXCEPT !.exceptions = Without(@, w)] = base
    BY DEF WithExceptions
<1>2. Solid(world) /\ w \in Windows /\ w \notin Tiled(world) /\ home \in Known /\ axis \in Axes
    BY DEF Sound, Solid, Homed, Assumption, Tiled
<1>3. /\ Solid(base) /\ Sound(base) /\ SameTiles(base, world)
      /\ DOMAIN base.exceptions = DOMAIN world.exceptions \ {w} /\ base.focus = world.focus
      /\ base.automatic = world.automatic /\ base.override = world.override
    BY <1>2, UnexceptedBecomes
<1> HIDE DEF base, home
<1>4. Tiled(base) = Tiled(world)
    BY <1>3, SameTilesHold
<1>5. Becomes(base, Tiled(world), DOMAIN world.exceptions \ {w},
              world.automatic, world.override)
    BY <1>3, <1>4 DEF Becomes
<1>6. Becomes(TiledAt(base, w, home, axis), Tiled(world) \cup {w},
              DOMAIN world.exceptions \ {w}, world.automatic, world.override)
    BY ZenonT(40), <1>2, <1>3, <1>4, TiledAtBecomes
<1>7. Becomes(TileWins(Marked(TiledAt(base, w, home, axis)), w),
              Tiled(world) \cup {w}, DOMAIN world.exceptions \ {w},
              world.automatic \ {w}, world.override \cup {w})
    BY <1>2, <1>6, MarkedBecomes, TileWinsBecomes
<1> QED BY <1>1, <1>3, <1>5, <1>7 DEF home

\* The focused window is a tile.
LEMMA FocusedIsTiled ==
    ASSUME Framed, Sound(world), NEW w, Focused(w)
    PROVE  /\ w \in Tiled(world) /\ w \in Windows /\ world.windows[w] \in Key
           /\ world.trees[world.windows[w]] \in Trees
           /\ Sturdy(world.trees[world.windows[w]])
           /\ w \in world.trees[world.windows[w]].leaves
<1>1. w \in Tiled(world)
    BY DEF Focused, Holds
<1>2. Holds(world, world.windows[w], w) /\ world.windows[w] \in Key /\ w \in Windows
    BY <1>1, TileIsHeld DEF Sound
<1> QED BY <1>1, <1>2, TreeOf DEF Sound, Holds

\* A tree of the world, given another form: Flipped, Rearranged, dropped.
LEMMA RetreedBecomes ==
    ASSUME Framed, Sound(world), NEW k \in Key, NEW t \in Trees, Sturdy(t),
           t.leaves = world.trees[k].leaves
    PROVE  Becomes([world EXCEPT !.trees[k] = t], Tiled(world), DOMAIN world.exceptions,
                   world.automatic, world.override)
BY WithTreeBecomes DEF WithTree

\* A tile carried into another domain, as a tree there with one more leaf.
LEMMA CarriedBecomes ==
    ASSUME Assumption, Framed, Sound(world), NEW w \in Tiled(world), NEW k \in Known,
           k # world.windows[w],
           NEW t \in Trees, Sturdy(t), t.leaves = world.trees[k].leaves \cup {w},
           NEW focus, Focal(focus)
    PROVE  LET rest == Untiled(world, w)
               u == WithTiles(rest, [rest.trees EXCEPT ![k] = t],
                              With(rest.windows, w, k), focus)
           IN  /\ Solid(u) /\ u.focus = focus /\ Tiled(u) = Tiled(world)
               /\ u.exceptions = world.exceptions
               /\ u.automatic = world.automatic /\ u.override = world.override
               /\ Holds(u, k, w)
<1> DEFINE rest == Untiled(world, w)
           u == WithTiles(rest, [rest.trees EXCEPT ![k] = t], With(rest.windows, w, k), focus)
<1>1. Solid(world) /\ w \in Windows /\ w \notin DOMAIN world.exceptions
    BY TileIsHeld DEF Sound
<1>2. /\ Solid(rest) /\ Tiled(rest) = Tiled(world) \ {w}
      /\ rest.exceptions = world.exceptions
      /\ rest.automatic = world.automatic /\ rest.override = world.override
      /\ rest.trees = [world.trees EXCEPT ![world.windows[w]] = Removed(@, w)]
    BY <1>1, UntiledKeeps
<1>3. rest.trees[k] = world.trees[k]
    BY <1>1, <1>2, KnownAreKeys DEF Solid, Planted
<1> HIDE DEF rest
<1>4. /\ Solid(rest) /\ w \in Windows /\ w \notin Tiled(rest)
      /\ w \notin DOMAIN rest.exceptions /\ t.leaves = rest.trees[k].leaves \cup {w}
    BY <1>1, <1>2, <1>3
<1>5. /\ Solid(u) /\ Tiled(u) = Tiled(rest) \cup {w} /\ u.focus = focus
      /\ u.exceptions = rest.exceptions
      /\ u.automatic = rest.automatic /\ u.override = rest.override
      /\ Holds(u, k, w)
    BY <1>4, TilePlaced
<1> HIDE DEF u
<1>6. Tiled(u) = Tiled(world)
    BY <1>2, <1>5
<1> QED BY <1>2, <1>5, <1>6 DEF u, rest

\* What Send plans.
LEMMA SendBecomes ==
    ASSUME Assumption, Framed, Sound(world), NEW w \in Windows, NEW k \in Key,
           NEW follow \in BOOLEAN, NEW axis \in AdmissionAxes, Focused(w),
           k \in Known, k # world.windows[w]
    PROVE  LET source == world.windows[w]
               anchor == IF Remembered(world, k) # {} THEN Remembered(world, k)
                         ELSE Recent(world, k)
               moved  == [Untiled(world, w) EXCEPT
                             !.trees[k] = Admitted(@, w, anchor, axis),
                             !.windows = With(@, w, k)]
           IN  Becomes(Marked([moved EXCEPT !.focus =
                           IF follow THEN {At(k, w)}
                           ELSE FocusIn(source, Recent(moved, source))]),
                       Tiled(world), DOMAIN world.exceptions,
                       world.automatic, world.override)
<1> DEFINE source == world.windows[w]
           anchor == IF Remembered(world, k) # {} THEN Remembered(world, k)
                     ELSE Recent(world, k)
           rest   == Untiled(world, w)
           moved  == [rest EXCEPT !.trees[k] = Admitted(@, w, anchor, axis),
                                  !.windows = With(@, w, k)]
           t == Admitted(world.trees[k], w, anchor, axis)
           u == WithTiles(rest, [rest.trees EXCEPT ![k] = t], With(rest.windows, w, k),
                          rest.focus)
           focus == IF follow THEN {At(k, w)} ELSE FocusIn(source, Recent(moved, source))
<1>1. /\ Solid(world) /\ w \in Tiled(world) /\ source \in Key
      /\ world.trees[k] \in Trees /\ Sturdy(world.trees[k]) /\ axis \in Axes
    BY FocusedIsTiled, TreeOf DEF Sound, Assumption
<1>2. /\ Solid(rest) /\ rest.focus = world.focus
      /\ rest.trees = [world.trees EXCEPT ![world.windows[w]] = Removed(@, w)]
    BY <1>1, UntiledKeeps
<1>3. rest.trees[k] = world.trees[k]
    BY <1>1, <1>2 DEF Solid, Planted
<1>4. w \notin world.trees[k].leaves
    BY <1>1, LeafIsHeld DEF Holds
<1>5. anchor = {} \/ \E x \in world.trees[k].leaves : anchor = {x}
    <2>1. AtMostOne(anchor) /\ \A x \in anchor : Holds(world, k, x)
        BY <1>1, RememberedIsHeld, RecentIsHeld
    <2>2. anchor = {} \/ \E x : anchor = {x}
        BY <2>1, NoneOrOne
    <2>3. \A x \in anchor : x \in world.trees[k].leaves
        BY <2>1 DEF Holds
    <2> HIDE DEF anchor
    <2> QED BY <2>2, <2>3
<1>6. t \in Trees /\ Sturdy(t) /\ t.leaves = world.trees[k].leaves \cup {w}
    <2> HIDE DEF anchor
    <2> QED BY <1>1, <1>4, <1>5, AdmittedKeeps
<1>7. moved = u
    <2> DEFINE T == [rest.trees EXCEPT ![k] = t]
               W == With(rest.windows, w, k)
    <2>1. moved = [rest EXCEPT !.trees = T, !.windows = W]
        BY <1>3
    <2>2. Shaped(rest)
        BY <1>2 DEF Solid
    <2> HIDE DEF T, W, rest, moved
    <2>3. moved = WithTiles(rest, T, W, rest.focus)
        BY <2>1, <2>2 DEF WithTiles, Shaped
    <2> QED BY <2>3 DEF T, W
<1>8. Focal(rest.focus)
    BY <1>2 DEF Solid
<1> HIDE DEF t
<1>9. /\ Solid(u) /\ Tiled(u) = Tiled(world)
      /\ u.exceptions = world.exceptions
      /\ u.automatic = world.automatic /\ u.override = world.override
      /\ Holds(u, k, w)
    BY <1>1, <1>6, <1>8, CarriedBecomes
<1> HIDE DEF moved, u
<1>10. Focal(focus) /\ Resolves(moved, focus)
    <2>1. Focal({At(k, w)}) /\ Resolves(moved, {At(k, w)})
        BY <1>7, <1>9, FocusAt
    <2>2. /\ Focal(FocusIn(source, Recent(moved, source)))
          /\ Resolves(moved, FocusIn(source, Recent(moved, source)))
        BY <1>1, <1>7, <1>9, RecentIsHeld, FocusInHolds
    <2> QED BY <2>1, <2>2
<1> HIDE DEF focus
<1>11. Becomes(FocusedOn(moved, focus), Tiled(world), DOMAIN world.exceptions,
               world.automatic, world.override)
    BY <1>7, <1>9, <1>10, FocusedKeeps, SameTilesHold DEF Becomes
<1>12. Becomes(Marked(FocusedOn(moved, focus)), Tiled(world), DOMAIN world.exceptions,
               world.automatic, world.override)
    BY <1>11, MarkedBecomes
<1> QED BY <1>12 DEF FocusedOn, focus, moved, rest, source, anchor

-----------------------------------------------------------------------------
(* Movement and focus.                                                     *)

\* What MoveAcross plans.
LEMMA MoveAcrossBecomes ==
    ASSUME Assumption, Framed, Sound(world), NEW w \in Windows, NEW k \in Key,
           NEW first \in BOOLEAN, NEW axis \in Axes, Focused(w),
           k \in Known, k # world.windows[w]
    PROVE  LET anchor == Remembered(world, k)
               there  == world.trees[k]
               beside == IF anchor = {} THEN there.leaves ELSE anchor
           IN  Becomes(Marked([Untiled(world, w) EXCEPT
                           !.trees[k] = IF there.leaves = {} THEN Lone(w)
                                        ELSE Place(there, w, beside, first, TRUE, axis),
                           !.windows = With(@, w, k),
                           !.focus = {At(k, w)}]),
                       Tiled(world), DOMAIN world.exceptions,
                       world.automatic, world.override)
<1> DEFINE anchor == Remembered(world, k)
           there  == world.trees[k]
           beside == IF anchor = {} THEN there.leaves ELSE anchor
           t == IF there.leaves = {} THEN Lone(w)
                ELSE Place(there, w, beside, first, TRUE, axis)
           rest == Untiled(world, w)
           F == {At(k, w)}
           u == WithTiles(rest, [rest.trees EXCEPT ![k] = t], With(rest.windows, w, k), F)
<1>1. /\ Solid(world) /\ w \in Tiled(world) /\ there \in Trees /\ Sturdy(there)
    BY FocusedIsTiled, TreeOf DEF Sound
<1>2. w \notin there.leaves
    BY <1>1, LeafIsHeld DEF Holds
<1>3. t \in Trees /\ Sturdy(t) /\ t.leaves = there.leaves \cup {w}
    <2>1. CASE there.leaves = {}
        BY <2>1, SmallTrees
    <2>2. CASE there.leaves # {}
        <3>1. AtMostOne(anchor) /\ \A x \in anchor : Holds(world, k, x)
            BY <1>1, RememberedIsHeld
        <3>2. anchor = {} \/ \E x \in there.leaves : anchor = {x}
            <4>1. anchor = {} \/ \E x : anchor = {x}
                BY <3>1, NoneOrOne
            <4>2. \A x \in anchor : x \in there.leaves
                BY <3>1 DEF Holds
            <4> HIDE DEF anchor
            <4> QED BY <4>1, <4>2
        <3> HIDE DEF anchor, there
        <3>3. beside \in Nodes(there)
            <4>1. there.leaves \in Nodes(there)
                BY <1>1, <2>2, RootIsNode
            <4>2. \A x \in there.leaves : {x} \in Nodes(there)
                BY DEF Nodes
            <4> QED BY <3>2, <4>1, <4>2
        <3> HIDE DEF beside
        <3>4. CanPlace(there, beside, TRUE)
            BY <3>3 DEF CanPlace
        <3>5. LET p == Place(there, w, beside, first, TRUE, axis)
              IN  p \in Trees /\ Sturdy(p) /\ p.leaves = there.leaves \cup {w}
            <4>1. \A wrap \in BOOLEAN : CanPlace(there, beside, wrap) =>
                      LET p == Place(there, w, beside, first, wrap, axis)
                      IN  p \in Trees /\ Sturdy(p) /\ p.leaves = there.leaves \cup {w}
                BY <1>1, <1>2, PlaceKeeps
            <4> QED BY <3>4, <4>1
        <3> QED BY <2>2, <3>5
    <2> QED BY <2>1, <2>2
<1>4. Focal(F)
    BY DEF Focal, Focus, At, AtMostOne
<1>5. [rest EXCEPT !.trees[k] = t, !.windows = With(@, w, k), !.focus = F] = u
    <2> HIDE DEF t, F
    <2>1. [rest EXCEPT !.trees[k] = t, !.windows = With(@, w, k), !.focus = F]
          = [rest EXCEPT !.trees = [rest.trees EXCEPT ![k] = t],
                         !.windows = With(rest.windows, w, k), !.focus = F]
        OBVIOUS
    <2> QED BY <2>1 DEF WithTiles
<1>6. /\ Solid(u) /\ u.focus = F /\ Tiled(u) = Tiled(world)
      /\ u.exceptions = world.exceptions
      /\ u.automatic = world.automatic /\ u.override = world.override
      /\ Holds(u, k, w)
    <2> HIDE DEF t, F
    <2> QED BY <1>1, <1>3, <1>4, CarriedBecomes
<1> HIDE DEF u
<1>7. Resolves(u, u.focus)
    BY <1>6 DEF Resolves, At
<1>8. Becomes(u, Tiled(world), DOMAIN world.exceptions, world.automatic, world.override)
    BY <1>6, <1>7 DEF Becomes, Sound
<1>9. Becomes(Marked(u), Tiled(world), DOMAIN world.exceptions,
              world.automatic, world.override)
    BY <1>8, MarkedBecomes
<1> QED BY <1>5, <1>9

\* The world with its focus elsewhere.
LEMMA RefocusBecomes ==
    ASSUME NEW v, NEW tiles, NEW floats, NEW automatic, NEW override,
           Becomes(v, tiles, floats, automatic, override),
           NEW focus, Focal(focus), Resolves(v, focus)
    PROVE  Becomes(FocusedOn(v, focus), tiles, floats, automatic, override)
<1>1. Solid(v)
    BY DEF Becomes, Sound
<1> QED BY <1>1, FocusedKeeps, SameTilesHold DEF Becomes

\* The world as it is.
LEMMA AsItIs ==
    ASSUME Sound(world)
    PROVE  /\ Solid(world)
           /\ Becomes(world, Tiled(world), DOMAIN world.exceptions,
                      world.automatic, world.override)
BY DEF Becomes, Sound

-----------------------------------------------------------------------------
(* Settling and synchronising.                                             *)

\* What a verified plan commits keeps the tiles and the focus it was staged with.
LEMMA CommittedBecomes ==
    ASSUME Sound(world), NEW v, Sound(v), NEW kind
    PROVE  /\ Becomes(Committed(kind, v), Tiled(v), DOMAIN v.exceptions,
                      v.automatic \cap Members(v), v.override \cap Members(v))
           /\ SameTiles(Committed(kind, v), v) /\ Committed(kind, v).focus = v.focus
<1> DEFINE y == [v EXCEPT !.last = world.last]
<1>1. Solid(v) /\ Shaped(v) /\ Remembering(world.last)
    BY DEF Sound, Solid
<1>2. Shaped(y) /\ y.trees = v.trees /\ y.windows = v.windows /\ y.exceptions = v.exceptions
      /\ y.automatic = v.automatic /\ y.override = v.override /\ y.focus = v.focus
      /\ y.last = world.last
    BY <1>1 DEF Shaped
<1> HIDE DEF y
<1>3. Sound(y) /\ SameTiles(y, v)
    BY <1>1, <1>2 DEF Sound, Solid, SameTiles, Resolves, Holds, Tiled
<1>4. ASSUME NEW x, Sound(x), SameTiles(x, v), x.exceptions = v.exceptions,
             x.automatic = v.automatic, x.override = v.override, x.focus = v.focus
      PROVE  /\ Becomes(Pruned(x), Tiled(v), DOMAIN v.exceptions,
                        v.automatic \cap Members(v), v.override \cap Members(v))
             /\ SameTiles(Pruned(x), v) /\ Pruned(x).focus = v.focus
    <2> DEFINE A == v.automatic \cap Members(v)
               O == v.override \cap Members(v)
    <2>1. Tiled(x) = Tiled(v) /\ Members(x) = Members(v)
        BY <1>4 DEF SameTiles, Tiled, Members
    <2>2. Pruned(x) = MarkedAs(x, A, O)
        <3>1. Pruned(x) = [x EXCEPT !.automatic = x.automatic \cap Members(x),
                                    !.override = x.override \cap Members(x)]
            BY DEF Pruned
        <3> QED BY <1>4, <2>1, <3>1 DEF MarkedAs
    <2>3. A \in SUBSET Windows /\ O \in SUBSET Windows
        BY <1>1 DEF Solid
    <2> HIDE DEF A, O
    <2>4. LET u == MarkedAs(x, A, O)
          IN  /\ Sound(u) /\ SameTiles(u, x) /\ u.exceptions = x.exceptions
              /\ u.focus = x.focus /\ u.automatic = A /\ u.override = O
        BY <1>4, <2>3, MarksKeep DEF Sound
    <2>5. Tiled(MarkedAs(x, A, O)) = Tiled(v) /\ SameTiles(MarkedAs(x, A, O), v)
        BY <1>4, <2>4 DEF SameTiles, Tiled
    <2> QED BY <1>4, <2>2, <2>4, <2>5 DEF Becomes, A, O
<1>5. Committed(kind, v) = Pruned(y) \/ Committed(kind, v) = Pruned(v)
    BY DEF Committed, y
<1>6. SameTiles(v, v)
    BY DEF SameTiles
<1> QED BY <1>2, <1>3, <1>4, <1>5, <1>6

\* The focus follows the compositor.
LEMMA SyncedBecomes ==
    ASSUME Framed, Sound(world), NEW w \in Tiled(world)
    PROVE  LET v == [world EXCEPT !.focus = {At(world.windows[w], w)}]
           IN  Becomes(v, Tiled(world), DOMAIN world.exceptions,
                       world.automatic, world.override)
<1>1. Holds(world, world.windows[w], w) /\ world.windows[w] \in Key
    BY AsItIs, TileIsHeld
<1>2. Focal({At(world.windows[w], w)}) /\ Resolves(world, {At(world.windows[w], w)})
    BY <1>1, AsItIs, FocusAt
<1>3. Becomes(FocusedOn(world, {At(world.windows[w], w)}), Tiled(world),
              DOMAIN world.exceptions, world.automatic, world.override)
    BY <1>2, AsItIs, RefocusBecomes
<1> QED BY <1>3 DEF FocusedOn

\* Every stack of a set is of this world and names a tile once.
Live(v, st) ==
    /\ st \in [Key -> Seq(Windows)]
    /\ \A k \in Key : \A i \in DOMAIN st[k] : Holds(v, k, st[k][i])
    /\ \A k \in Key : Distinct(st[k])
    /\ \A f \in v.focus : st[f.domain] # <<>> /\ st[f.domain][Len(st[f.domain])] = f.leaf

\* The updated stack.
LEMMA UpdatedStackIsLive ==
    ASSUME Framed, \A k \in Key : Distinct(stack[k]), NEW v, Sound(v)
    PROVE  Live(v, UpdatedStack(v))
<1> DEFINE Top(k) == {f.leaf : f \in {f \in v.focus : f.domain = k}}
           live(k) == Kept(stack[k], Held(v, k) \ Top(k))
           st(k) == IF Top(k) = {} THEN live(k) ELSE Append(live(k), CHOOSE w \in Top(k) : TRUE)
<1>1. UpdatedStack(v) = [k \in Key |-> st(k)]
    BY DEF UpdatedStack
<1>2. Solid(v) /\ Resolves(v, v.focus) /\ Focal(v.focus)
    BY DEF Sound, Solid
<1>3. ASSUME NEW k \in Key
      PROVE  /\ st(k) \in Seq(Windows) /\ Distinct(st(k))
             /\ \A i \in DOMAIN st(k) : Holds(v, k, st(k)[i])
             /\ \A f \in v.focus : f.domain = k => st(k) # <<>> /\ st(k)[Len(st(k))] = f.leaf
    <2>1. stack[k] \in Seq(Windows) /\ Distinct(stack[k])
        BY DEF Framed
    <2>2. /\ live(k) \in Seq(Windows) /\ Distinct(live(k))
          /\ \A i \in DOMAIN live(k) : live(k)[i] \in Held(v, k) \ Top(k)
        <3> HIDE DEF Top
        <3> QED BY <2>1, KeptFacts
    <2>3. AtMostOne(Top(k)) /\ \A w \in Top(k) : Holds(v, k, w)
        BY <1>2 DEF Focal, AtMostOne, Resolves
    <2>4. CASE Top(k) = {}
        <3>1. st(k) = live(k)
            BY <2>4
        <3>2. \A f \in v.focus : f.domain # k
            BY <2>4
        <3> HIDE DEF st, live
        <3> QED BY <2>2, <3>1, <3>2 DEF Held
    <2>5. CASE Top(k) # {}
        <3>1. PICK e : Top(k) = {e}
            <4> HIDE DEF Top
            <4> QED BY <2>3, <2>5, NoneOrOne
        <3>2. st(k) = Append(live(k), e)
            <4>1. (CHOOSE w \in Top(k) : TRUE) = e
                BY <3>1
            <4> QED BY <2>5, <4>1
        <3>3. Holds(v, k, e) /\ e \in Windows /\ e \in Held(v, k)
            BY <1>2, <2>3, <3>1, HeldLeaf DEF Held
        <3>4. \A f \in v.focus : f.domain = k => f.leaf = e
            BY <3>1
        <3>5. \A i \in DOMAIN live(k) : live(k)[i] \in Held(v, k) /\ live(k)[i] # e
            BY <2>2, <3>1
        <3> DEFINE q == live(k)
        <3>6. /\ q \in Seq(Windows) /\ Distinct(q) /\ st(k) = Append(q, e)
              /\ \A i \in DOMAIN q : q[i] \in Held(v, k) /\ q[i] # e
            BY <2>2, <3>2, <3>5
        <3> HIDE DEF q, st, live, Top
        <3>7. /\ Append(q, e) \in Seq(Windows)
              /\ \A i \in DOMAIN Append(q, e) : Append(q, e)[i] \in Held(v, k)
              /\ Append(q, e)[Len(Append(q, e))] = e /\ Append(q, e) # <<>>
              /\ Distinct(Append(q, e))
            BY ZenonT(40), <3>3, <3>6, AppendKept
        <3> QED BY <3>4, <3>6, <3>7 DEF Held
    <2> QED BY <2>4, <2>5
<1>4. \A f \in v.focus : f.domain \in Key
    BY <1>2 DEF Focal, Focus
<1> HIDE DEF st
<1> QED BY <1>1, <1>3, <1>4 DEF Live

-----------------------------------------------------------------------------
(* Convergence on an observation.                                          *)

\* A window the classifier floated is no tile win and no tile.
Exclusive(v) == v.automatic \cap v.override = {} /\ v.automatic \cap Tiled(v) = {}

\* What marks look like while no plan is out.
Tidy(v) == Exclusive(v) /\ v.automatic \cup v.override \subseteq Members(v)

Floats(seen) ==
    ((DOMAIN world.exceptions \cap DOMAIN seen) \ Retiled(seen))
        \cup (DepartedTiles(seen) \cap DOMAIN seen) \cup FreshFloating(seen)

\* Whom the parts of an observation are about.
LEMMA ObservedParts ==
    ASSUME Sound(world), NEW seen, DOMAIN seen \in SUBSET Windows
    PROVE  /\ DepartedTiles(seen) \subseteq Tiled(world)
           /\ Retiling(seen) \subseteq DOMAIN world.exceptions \cap DOMAIN seen
           /\ Reclassified(seen) \subseteq Retiling(seen)
           /\ Retiled(seen) = Retiling(seen) \ Reclassified(seen)
           /\ Fresh(seen) = DOMAIN seen \ Members(world)
           /\ FreshFloating(seen) \subseteq Fresh(seen)
           /\ FreshFixed(seen) \subseteq FreshFloating(seen)
           /\ Tiled(world) \cap DOMAIN world.exceptions = {}
           /\ Floats(seen) \subseteq DOMAIN world.exceptions \cup DOMAIN seen
           /\ Floats(seen) \cap (Tiled(world) \ DepartedTiles(seen)) = {}
<1>1. DepartedTiles(seen) \subseteq Tiled(world)
    BY DEF DepartedTiles
<1>2. Retiling(seen) \subseteq DOMAIN world.exceptions \cap DOMAIN seen
    BY DEF Retiling
<1>3. /\ Reclassified(seen) \subseteq Retiling(seen)
      /\ Retiled(seen) = Retiling(seen) \ Reclassified(seen)
    BY DEF Reclassified, Retiled
<1>4. Fresh(seen) = DOMAIN seen \ Members(world)
    BY DEF Fresh
<1>5. FreshFloating(seen) \subseteq Fresh(seen) /\ FreshFixed(seen) \subseteq FreshFloating(seen)
    BY DEF FreshFloating, FreshHeld, FreshFixed
<1>6. Tiled(world) \cap DOMAIN world.exceptions = {}
    BY DEF Sound, Solid, Tiled
<1>7. Members(world) = Tiled(world) \cup DOMAIN world.exceptions
    BY DEF Members, Tiled
<1>8. /\ Floats(seen) \subseteq DOMAIN world.exceptions \cup DOMAIN seen
      /\ Floats(seen) \cap (Tiled(world) \ DepartedTiles(seen)) = {}
    BY <1>1, <1>2, <1>3, <1>4, <1>5, <1>6, <1>7 DEF Floats
<1> QED BY <1>1, <1>2, <1>3, <1>4, <1>5, <1>6, <1>8

\* Windows an automatic mark is put on float, and the user did not tile them.
LEMMA NewlyAutomaticFloats ==
    ASSUME Sound(world), Exclusive(world), NEW seen, DOMAIN seen \in SUBSET Windows
    PROVE  /\ NewlyAutomatic(seen) \subseteq Floats(seen)
           /\ NewlyAutomatic(seen) \cap world.override = {}
           /\ NewlyAutomatic(seen) \cap Retiled(seen) = {}
<1> SUFFICES ASSUME NEW w \in NewlyAutomatic(seen)
             PROVE  w \in Floats(seen) /\ w \notin world.override /\ w \notin Retiled(seen)
    OBVIOUS
<1> USE ObservedParts
<1>0. Members(world) = Tiled(world) \cup DOMAIN world.exceptions
    BY DEF Members, Tiled
<1>1. CASE w \in Reclassified(seen)
    <2>1. w \notin world.override
        BY <1>1 DEF Reclassified, Exclusive
    <2> QED BY <1>1, <2>1 DEF Floats
<1>2. CASE w \in FreshFixed(seen)
    <2>1. w \notin world.override
        BY <1>2 DEF FreshFixed
    <2>2. w \in FreshFloating(seen) /\ w \notin DOMAIN world.exceptions
        BY <1>0, <1>2
    <2> QED BY <2>1, <2>2 DEF Floats
<1>3. CASE w \in DOMAIN seen /\ w \in Shows(seen, "floating") /\ w \notin world.override
    <2>1. w \notin Retiling(seen) /\ w \notin Retiled(seen)
        BY <1>3 DEF Retiling
    <2>2. CASE w \in DOMAIN world.exceptions
        BY <1>3, <2>1, <2>2 DEF Floats
    <2>3. CASE w \in Tiled(world)
        <3>1. w \in DepartedTiles(seen)
            BY <1>3, <2>3 DEF DepartedTiles
        <3> QED BY <1>3, <2>1, <3>1 DEF Floats
    <2>4. CASE w \notin Members(world)
        <3>1. w \in Fresh(seen)
            BY <1>3, <2>4
        <3>2. w \in FreshFloating(seen)
            BY <1>3, <3>1 DEF FreshFloating
        <3> QED BY <1>3, <2>1, <3>2 DEF Floats
    <2> QED BY <1>0, <2>2, <2>3, <2>4
<1> QED BY <1>1, <1>2, <1>3 DEF NewlyAutomatic, Asserted

\* Trees and links without what left.
LEMMA PlantedAfter ==
    ASSUME Assumption, Framed, NEW trees, NEW windows, Planted(trees, windows), NEW gone
    PROVE  Planted([k \in Key |-> RemovedAll(trees[k], gone)],
                   [w \in DOMAIN windows \ gone |-> windows[w]])
<1> DEFINE T == [k \in Key |-> RemovedAll(trees[k], gone)]
           W == [w \in DOMAIN windows \ gone |-> windows[w]]
<1>1. ASSUME NEW k \in Key
      PROVE  T[k] \in Trees /\ Sturdy(T[k]) /\ T[k].leaves = trees[k].leaves \ gone
    <2>1. trees[k] \in Trees /\ Sturdy(trees[k])
        BY DEF Planted
    <2>2. T[k] = RemovedAll(trees[k], gone)
        OBVIOUS
    <2> QED BY <2>1, <2>2, RemovedAllKeeps
<1>2. T \in [Key -> Trees]
    BY <1>1
<1>3. /\ DOMAIN W = DOMAIN windows \ gone /\ \A w \in DOMAIN W : W[w] = windows[w]
      /\ W \in [DOMAIN W -> Known] /\ DOMAIN W \subseteq Windows
    BY DEF Planted
<1> HIDE DEF T, W
<1>4. \A w \in DOMAIN W : w \in T[W[w]].leaves
    <2> SUFFICES ASSUME NEW w \in DOMAIN W
                 PROVE  w \in T[W[w]].leaves
        OBVIOUS
    <2>1. windows[w] \in Key /\ w \in trees[windows[w]].leaves /\ w \notin gone
        BY <1>3, KnownAreKeys DEF Planted
    <2> QED BY <1>1, <1>3, <2>1
<1>5. \A k \in Key : \A w \in T[k].leaves : w \in DOMAIN W /\ W[w] = k
    BY <1>1, <1>3 DEF Planted
<1>6. \A k \in Key : Sturdy(T[k]) /\ (T[k].leaves # {} => k \in Known)
    BY <1>1 DEF Planted
<1>7. Planted(T, W)
    BY <1>2, <1>3, <1>4, <1>5, <1>6 DEF Planted
<1> QED BY <1>7 DEF T, W

\* The world before its admissions.
LEMMA AdoptedIsSolid ==
    ASSUME Assumption, Framed, Sound(world), NEW S \in SUBSET Windows,
           NEW seen \in [S -> [home : Known, sight : Sights]]
    PROVE  LET u == Adopted(seen)
           IN  /\ Solid(u) /\ u.focus = world.focus
               /\ Tiled(u) = Tiled(world) \ DepartedTiles(seen)
               /\ DOMAIN u.exceptions = Floats(seen)
               /\ Tidy(world) => Exclusive(u) /\ u.automatic \cap DOMAIN seen \subseteq Floats(seen)
<1> DEFINE gone == DepartedTiles(seen)
           floats == Floats(seen)
           T == [k \in Key |-> RemovedAll(world.trees[k], gone)]
           W == [w \in Tiled(world) \ gone |-> world.windows[w]]
           E == [w \in floats |->
                    IF w \in DOMAIN world.exceptions THEN world.exceptions[w]
                    ELSE [home |-> seen[w].home, flags |-> {"floating"}]]
           A == ((world.automatic \ Retiled(seen)) \cup NewlyAutomatic(seen))
                \ Shows(seen, "sticky")
           O == world.override \cup {w \in Retiled(seen) \cap Suppressed(seen) : FixedAdmission}
           u == [world EXCEPT !.trees = T, !.windows = W, !.exceptions = E,
                              !.automatic = A, !.override = O]
<1>1. Adopted(seen) = u
    BY DEF Adopted, Floats
<1>2. /\ Shaped(world) /\ Planted(world.trees, world.windows) /\ Homed(world.exceptions)
      /\ world.automatic \subseteq Windows /\ world.override \subseteq Windows
      /\ Focal(world.focus) /\ Remembering(world.last)
    BY DEF Sound, Solid
<1>3. DOMAIN seen \in SUBSET Windows /\ \A w \in DOMAIN seen : seen[w].home \in Known
    OBVIOUS
<1>4. Planted(T, W)
    BY <1>2, PlantedAfter DEF Tiled
<1>5. Homed(E)
    <2>1. floats \subseteq DOMAIN world.exceptions \cup DOMAIN seen /\ floats \subseteq Windows
        BY <1>2, <1>3, ObservedParts DEF Homed
    <2>2. \A w \in floats : E[w] \in Exceptions /\ E[w].home \in Known
        <3> SUFFICES ASSUME NEW w \in floats
                     PROVE  E[w] \in Exceptions /\ E[w].home \in Known
            OBVIOUS
        <3>1. CASE w \in DOMAIN world.exceptions
            <4>1. E[w] = world.exceptions[w]
                BY <3>1
            <4> QED BY <1>2, <3>1, <4>1 DEF Homed
        <3>2. CASE w \notin DOMAIN world.exceptions
            <4>1. E[w] = [home |-> seen[w].home, flags |-> {"floating"}]
                BY <3>2
            <4>2. seen[w].home \in Known /\ seen[w].home \in Key
                BY <1>3, <2>1, <3>2, KnownAreKeys
            <4> QED BY <4>1, <4>2 DEF Exceptions, Flags
        <3> QED BY <3>1, <3>2
    <2>3. DOMAIN E = floats
        OBVIOUS
    <2>4. E \in [floats -> Exceptions]
        BY <2>2
    <2> HIDE DEF E, floats
    <2> QED BY <2>1, <2>2, <2>3, <2>4 DEF Homed
<1>6. DOMAIN W = Tiled(world) \ gone /\ DOMAIN E = floats /\ DOMAIN W \cap DOMAIN E = {}
    BY <1>3, ObservedParts
<1>7. A \subseteq Windows /\ O \subseteq Windows
    <2>1. NewlyAutomatic(seen) \subseteq DOMAIN seen
        BY <1>3, ObservedParts DEF NewlyAutomatic, Asserted, Fresh
    <2>2. Retiled(seen) \subseteq DOMAIN seen
        BY <1>3, ObservedParts
    <2> QED BY <1>2, <1>3, <2>1, <2>2
<1>8. ASSUME Tidy(world)
      PROVE  A \cap O = {} /\ A \cap DOMAIN W = {} /\ A \cap DOMAIN seen \subseteq floats
    <2>1. /\ NewlyAutomatic(seen) \subseteq floats
          /\ NewlyAutomatic(seen) \cap world.override = {}
          /\ NewlyAutomatic(seen) \cap Retiled(seen) = {}
        BY <1>3, <1>8, NewlyAutomaticFloats DEF Tidy
    <2>2. world.automatic \cap world.override = {} /\ world.automatic \cap Tiled(world) = {}
        BY <1>8 DEF Tidy, Exclusive
    <2>3. world.automatic \subseteq Tiled(world) \cup DOMAIN world.exceptions
        BY <1>8 DEF Tidy, Members, Tiled
    <2>4. (world.automatic \ Retiled(seen)) \cap DOMAIN seen \subseteq floats
        BY <2>2, <2>3 DEF Floats
    <2> HIDE DEF floats, W, E
    <2> QED BY <1>6, <2>1, <2>2, <2>4
<1> HIDE DEF T, W, E, A, O, gone, floats
<1>9. /\ u.trees = T /\ u.windows = W /\ u.exceptions = E /\ u.automatic = A
      /\ u.override = O /\ u.focus = world.focus /\ u.last = world.last
    BY <1>2 DEF Shaped
<1>10. Shaped(u)
    <2>1. ASSUME NEW y, y = [world EXCEPT !.trees = T, !.windows = W, !.exceptions = E,
                                          !.automatic = A, !.override = O]
          PROVE  Shaped(y)
        BY <1>2, <2>1 DEF Shaped
    <2> HIDE DEF u
    <2> QED BY <2>1 DEF u
<1> HIDE DEF u
<1>11. Solid(u)
    BY <1>2, <1>4, <1>5, <1>6, <1>7, <1>9, <1>10 DEF Solid
<1>12. Tidy(world) => Exclusive(u) /\ u.automatic \cap DOMAIN seen \subseteq floats
    BY <1>8, <1>9 DEF Exclusive, Tiled
<1> QED BY <1>1, <1>6, <1>9, <1>11, <1>12 DEF Tiled, floats, gone

\* One admission of an observation.
AdmittedNext(v, i, seen, axis) ==
    IF i \in DOMAIN seen \ Members(v)
    THEN IF FixedAdmission /\ seen[i].sight.suppress
         THEN TileWins(TiledAt(v, i, seen[i].home, axis[i]), i)
         ELSE TiledAt(v, i, seen[i].home, axis[i])
    ELSE v

ConvergedUpTo(seen, axis, n, f) ==
    f = [i \in 0..n |-> IF i = 0 THEN Adopted(seen) ELSE AdmittedNext(f[i - 1], i, seen, axis)]

\* The function that Converged speaks of exists.
LEMMA ConvergedIsDefined ==
    ASSUME Assumption, NEW seen, NEW axis
    PROVE  \E f : ConvergedUpTo(seen, axis, LastWindow, f)
                  /\ Converged(seen, axis) = f[LastWindow]
<1> DEFINE Step(f, i) == IF i = 0 THEN Adopted(seen) ELSE AdmittedNext(f[i - 1], i, seen, axis)
           Good == {n \in Nat : \E f : f = [i \in 0..n |-> Step(f, i)]}
<1>1. 0 \in Good
    <2> DEFINE f == [i \in 0..0 |-> Adopted(seen)]
    <2>1. f = [i \in 0..0 |-> Step(f, i)]
        OBVIOUS
    <2> QED BY <2>1
<1>2. ASSUME NEW n \in 1..LastWindow, n - 1 \in Good
      PROVE  n \in Good
    <2>0. n \in Nat /\ n - 1 \in Nat /\ n # 0
        BY DEF Assumption
    <2>1. PICK f : f = [i \in 0..(n - 1) |-> Step(f, i)]
        BY <1>2
    <2> DEFINE g == [i \in 0..n |-> IF i = n THEN Step(f, n) ELSE f[i]]
    <2>2. ASSUME NEW i \in 0..n
          PROVE  g[i] = Step(g, i)
        <3>1. CASE i = n
            <4>1. n - 1 \in 0..n /\ n - 1 # n
                BY <2>0
            <4>2. g[n - 1] = f[n - 1]
                BY <4>1
            <4>3. g[i] = Step(f, n)
                BY <3>1
            <4> QED BY <3>1, <4>2, <4>3
        <3>2. CASE i # n /\ i # 0
            <4>1. i - 1 \in 0..(n - 1) /\ i - 1 # n /\ i \in 0..(n - 1) /\ i - 1 \in 0..n
                BY <2>0, <3>2
            <4>2. g[i - 1] = f[i - 1]
                BY <4>1
            <4>3. g[i] = f[i]
                BY <3>2
            <4>4. f[i] = Step(f, i)
                <5> HIDE DEF Step
                <5> QED BY <2>1, <4>1
            <4> QED BY <3>2, <4>2, <4>3, <4>4
        <3>3. CASE i = 0
            <4>1. 0 # n /\ 0 \in 0..(n - 1) /\ 0 \in 0..n
                BY <2>0
            <4>2. g[0] = f[0]
                BY <4>1
            <4>3. f[0] = Step(f, 0)
                BY <2>1, <4>1
            <4> QED BY <3>3, <4>2, <4>3
        <3> QED BY <3>1, <3>2, <3>3
    <2>3. g = [i \in 0..n |-> g[i]]
        OBVIOUS
    <2> HIDE DEF Step, g
    <2>4. g = [i \in 0..n |-> Step(g, i)]
        BY <2>2, <2>3
    <2> QED BY <2>0, <2>4
<1> HIDE DEF Good
<1>3. LastWindow \in Nat /\ LastWindow \in 0..LastWindow
    BY DEF Assumption
<1>4. LastWindow \in Good
    BY <1>1, <1>2, <1>3, UpTo
<1>5. \E f : ConvergedUpTo(seen, axis, LastWindow, f)
    BY <1>4 DEF Good, ConvergedUpTo
<1> DEFINE settled == CHOOSE f : ConvergedUpTo(seen, axis, LastWindow, f)
<1>6. ConvergedUpTo(seen, axis, LastWindow, settled)
    BY <1>5
<1>7. Converged(seen, axis) = settled[LastWindow]
    BY DEF Converged, ConvergedUpTo, AdmittedNext
<1> QED BY <1>6, <1>7

\* A world on its way from Adopted to Converged.
Settling(v, seen) ==
    /\ Solid(v)
    /\ DOMAIN v.exceptions = Floats(seen)
    /\ Tidy(world) => Exclusive(v) /\ v.automatic \cap DOMAIN seen \subseteq Floats(seen)

\* One admission keeps it on its way.
LEMMA AdmittedNextSettles ==
    ASSUME Assumption, Framed, Sound(world), NEW S \in SUBSET Windows,
           NEW seen \in [S -> [home : Known, sight : Sights]],
           NEW axis \in [S -> AdmissionAxes],
           NEW v, Settling(v, seen), NEW i
    PROVE  Settling(AdmittedNext(v, i, seen, axis), seen)
<1> DEFINE tiled == TiledAt(v, i, seen[i].home, axis[i])
           A == v.automatic
           O == v.override
<1>1. CASE i \notin DOMAIN seen \ Members(v)
    BY <1>1 DEF AdmittedNext
<1>2. CASE i \in DOMAIN seen \ Members(v)
    <2>1. /\ Solid(v) /\ i \in Windows /\ i \in DOMAIN seen /\ seen[i].home \in Known
          /\ axis[i] \in Axes /\ i \notin Tiled(v) /\ i \notin DOMAIN v.exceptions
        BY <1>2 DEF Settling, Members, Tiled, Assumption
    <2>2. Becomes(tiled, Tiled(v) \cup {i}, Floats(seen), A, O)
        BY <2>1, TiledAtBecomes DEF Settling
    <2> HIDE DEF tiled
    <2>3. Becomes(TileWins(tiled, i), Tiled(v) \cup {i}, Floats(seen), A \ {i}, O \cup {i})
        BY <2>1, <2>2, TileWinsBecomes
    <2>4. ASSUME Tidy(world)
          PROVE  /\ A \cap O = {} /\ A \cap (Tiled(v) \cup {i}) = {}
                 /\ A \cap DOMAIN seen \subseteq Floats(seen)
        BY <2>1, <2>4 DEF Settling, Exclusive
    <2>5. Settling(tiled, seen)
        BY <2>2, <2>4 DEF Settling, Becomes, Exclusive, Sound
    <2>6. Settling(TileWins(tiled, i), seen)
        BY <2>3, <2>4 DEF Settling, Becomes, Exclusive, Sound
    <2> QED BY <1>2, <2>5, <2>6 DEF AdmittedNext, tiled
<1> QED BY <1>1, <1>2

\* The world all the admissions make.
LEMMA ConvergedSettles ==
    ASSUME Assumption, Framed, Sound(world), NEW S \in SUBSET Windows,
           NEW seen \in [S -> [home : Known, sight : Sights]],
           NEW axis \in [S -> AdmissionAxes]
    PROVE  Settling(Converged(seen, axis), seen)
<1>1. PICK f : /\ ConvergedUpTo(seen, axis, LastWindow, f)
               /\ Converged(seen, axis) = f[LastWindow]
    BY ConvergedIsDefined
<1> DEFINE Good == {n \in 0..LastWindow : Settling(f[n], seen)}
<1>2. LastWindow \in Nat /\ LastWindow \in 0..LastWindow /\ 0 \in 0..LastWindow
    BY DEF Assumption
<1>3. \A n \in 0..LastWindow :
          f[n] = IF n = 0 THEN Adopted(seen) ELSE AdmittedNext(f[n - 1], n, seen, axis)
    BY <1>1, Zenon DEF ConvergedUpTo
<1>4. 0 \in Good
    <2>1. Settling(Adopted(seen), seen)
        BY AdoptedIsSolid DEF Settling
    <2> QED BY <1>2, <1>3, <2>1
<1>5. ASSUME NEW n \in 1..LastWindow, n - 1 \in Good
      PROVE  n \in Good
    <2>1. n \in 0..LastWindow /\ n # 0
        BY <1>2
    <2>2. f[n] = AdmittedNext(f[n - 1], n, seen, axis)
        BY <1>3, <2>1
    <2>3. Settling(f[n - 1], seen)
        BY <1>5
    <2> QED BY <2>1, <2>2, <2>3, AdmittedNextSettles
<1> HIDE DEF Good
<1>6. LastWindow \in Good
    BY <1>2, <1>4, <1>5, UpTo
<1> QED BY <1>1, <1>6 DEF Good

\* Where the focus is after an observation.
LEMMA RefocusedIsSound ==
    ASSUME Framed, Sound(world), NEW v, Solid(v), NEW focus, AtMostOne(focus)
    PROVE  /\ Sound(Refocused(v, focus)) /\ SameTiles(Refocused(v, focus), v)
           /\ Refocused(v, focus).exceptions = v.exceptions
           /\ Refocused(v, focus).automatic = v.automatic
           /\ Refocused(v, focus).override = v.override
<1> DEFINE F == IF focus \cap Tiled(v) # {} THEN {At(v.windows[w], w) : w \in focus}
                ELSE IF Resolves(v, world.focus) THEN world.focus
                ELSE UNION {FocusIn(f.domain, Recent(v, f.domain)) : f \in world.focus}
<1>1. Focal(F) /\ Resolves(v, F)
    <2>1. CASE focus \cap Tiled(v) # {}
        <3>1. PICK w : focus = {w} /\ w \in Tiled(v)
            BY <2>1 DEF AtMostOne
        <3>2. F = {At(v.windows[w], w)}
            BY <2>1, <3>1
        <3> QED BY <3>1, <3>2, TileIsHeld, FocusAt
    <2>2. CASE focus \cap Tiled(v) = {} /\ Resolves(v, world.focus)
        BY <2>2 DEF Sound, Solid
    <2>3. CASE focus \cap Tiled(v) = {} /\ ~Resolves(v, world.focus)
        <3>1. PICK f : world.focus = {f} /\ f.domain \in Key
            BY <2>3 DEF Resolves, Sound, Solid, Focal, Focus, AtMostOne
        <3>2. F = FocusIn(f.domain, Recent(v, f.domain))
            BY <2>3, <3>1
        <3> QED BY <3>1, <3>2, RecentIsHeld, FocusInHolds
    <2> QED BY <2>1, <2>2, <2>3
<1>2. Refocused(v, focus) = FocusedOn(v, F)
    BY DEF Refocused, FocusedOn
<1> HIDE DEF F
<1> QED BY <1>1, <1>2, FocusedKeeps

\* The next world of Converge.
LEMMA ConvergeIsSound ==
    ASSUME Assumption, Framed, Sound(world), NEW S \in SUBSET Windows,
           NEW seen \in [S -> [home : Known, sight : Sights]],
           NEW focus, AtMostOne(focus), NEW axis \in [S -> AdmissionAxes]
    PROVE  LET next == Pruned(Refocused(Converged(seen, axis), focus))
           IN  /\ Sound(next)
               /\ next.automatic \cup next.override \subseteq Members(next)
               /\ Tidy(world) => Exclusive(next)
<1> DEFINE v == Converged(seen, axis)
           x == Refocused(v, focus)
<1>1. Solid(v) /\ (Tidy(world) => Exclusive(v))
    BY ConvergedSettles DEF Settling
<1> HIDE DEF v
<1>2. /\ Sound(x) /\ SameTiles(x, v) /\ x.exceptions = v.exceptions
      /\ x.automatic = v.automatic /\ x.override = v.override
    BY <1>1, RefocusedIsSound
<1> HIDE DEF x
<1> DEFINE A == x.automatic \cap Members(x)
           O == x.override \cap Members(x)
<1>3. Pruned(x) = MarkedAs(x, A, O)
    BY DEF Pruned, MarkedAs
<1>4. A \in SUBSET Windows /\ O \in SUBSET Windows /\ Solid(x)
    BY <1>2 DEF Sound, Solid
<1>5. LET u == MarkedAs(x, A, O)
      IN  /\ Sound(u) /\ SameTiles(u, x) /\ u.exceptions = x.exceptions
          /\ u.automatic = A /\ u.override = O
    <2> HIDE DEF A, O
    <2> QED BY <1>2, <1>4, MarksKeep
<1> DEFINE u == MarkedAs(x, A, O)
<1>6. Members(u) = Members(x) /\ Tiled(u) = Tiled(v)
    BY <1>2, <1>5 DEF SameTiles, Tiled, Members
<1>7. Tidy(world) => Exclusive(u)
    BY <1>1, <1>2, <1>5, <1>6 DEF Exclusive
<1>8. u.automatic \cup u.override \subseteq Members(u)
    BY <1>5, <1>6
<1> QED BY <1>3, <1>5, <1>7, <1>8 DEF x, v


-----------------------------------------------------------------------------
(* Plans and drags.                                                        *)

\* At most one plan, one staged world and one capture, the first two together,
\* a drag only without them; a captured drag is of the focused window now.
DragInv ==
    /\ desired = {} <=> pending = {}
    /\ pending = {} \/ \E p : pending = {p}
    /\ desired = {} \/ \E v : desired = {v}
    /\ drag = {} \/ \E w : Focused(w) /\ drag = {CaptureOf(w)}
    /\ halted => pending = {} /\ drag = {}
    /\ drag # {} => pending = {}

\* The actions that need an idle session and end with a plan or a divergence.
LEMMA OfferKeepsDragInv ==
    ASSUME DragInv, Idle, NEW kind, NEW next, Offer(kind, next)
    PROVE  DragInv'
<1>1. drag' = {}
    BY DEF Idle, Offer, Diverge
<1>2. CASE StageAs(kind, next) /\ UNCHANGED <<drag, halted>>
    BY <1>1, <1>2 DEF StageAs, DragInv, Idle
<1>3. CASE Diverge
    BY <1>1, <1>3 DEF Diverge, DragInv
<1> QED BY <1>2, <1>3 DEF Offer

\* What every action does to the plan, the staged world and the drag.
LEMMA DragInvStep == DragInv /\ [Next]_vars => DragInv'
<1> SUFFICES ASSUME DragInv, [Next]_vars
             PROVE  DragInv'
    OBVIOUS
<1>1. CASE UNCHANGED vars
    BY <1>1 DEF vars, DragInv, Focused, CaptureOf, Holds, Tiled
<1>2. ASSUME NEW w \in Windows, NEW k \in Key, NEW sight \in Sights,
             NEW suppress \in BOOLEAN, NEW axis \in AdmissionAxes,
             Admit(w, k, sight, suppress, axis)
      PROVE  DragInv'
    BY <1>2, OfferKeepsDragInv DEF Admit
<1>3. ASSUME NEW w \in Windows, Remove(w)
      PROVE  DragInv'
    BY <1>3, OfferKeepsDragInv DEF Remove
<1>4. ASSUME NEW w \in Windows, Float(w)
      PROVE  DragInv'
    BY <1>4, OfferKeepsDragInv DEF Float
<1>5. ASSUME NEW w \in Windows, NEW axis \in AdmissionAxes, Unfloated(w, axis)
      PROVE  DragInv'
    BY <1>5 DEF Unfloated, DragInv, Idle, StageAs
<1>6. ASSUME NEW w \in Windows, ToggleOrientation(w)
      PROVE  DragInv'
    BY <1>6, OfferKeepsDragInv DEF ToggleOrientation
<1>7. ASSUME NEW w \in Windows, NEW k \in Key, NEW follow \in BOOLEAN,
             NEW axis \in AdmissionAxes, Send(w, k, follow, axis)
      PROVE  DragInv'
    BY <1>7, OfferKeepsDragInv DEF Send
<1>8. ASSUME NEW w \in Windows, Move(w)
      PROVE  DragInv'
    BY <1>8, OfferKeepsDragInv DEF Move
<1>9. ASSUME NEW w \in Windows, NEW k \in Key, NEW first \in BOOLEAN, NEW axis \in Axes,
             MoveAcross(w, k, first, axis)
      PROVE  DragInv'
    BY <1>9, OfferKeepsDragInv DEF MoveAcross
<1>10. ASSUME NEW w \in Windows, FocusOther(w) \/ Resize(w) \/ PointerResize(w)
       PROVE  DragInv'
    BY <1>10, OfferKeepsDragInv DEF FocusOther, Resize, PointerResize
<1>11. ASSUME NEW k \in Key, NEW target \in Key, FocusAcross(k, target)
       PROVE  DragInv'
    BY <1>11, OfferKeepsDragInv DEF FocusAcross
<1>12. ASSUME NEW w \in Windows, BeginDrag(w)
       PROVE  DragInv'
    <2>1. Focused(w)' /\ CaptureOf(w)' = CaptureOf(w)
        BY <1>12 DEF BeginDrag, Focused, Holds, Tiled, CaptureOf
    <2> QED BY <1>12, <2>1 DEF BeginDrag, DragInv, Idle
<1>13. CASE DropDrag
    <2>1. drag' = {}
        BY <1>13 DEF DropDrag, Diverge
    <2>2. CASE UNCHANGED <<pending, desired, halted>>
        BY <2>1, <2>2 DEF DragInv
    <2>3. ASSUME NEW next, StageAs("drag", next), UNCHANGED halted
          PROVE  DragInv'
        BY <1>13, <2>1, <2>3 DEF DragInv, StageAs, DropDrag
    <2>4. CASE Diverge
        BY <2>4 DEF Diverge, DragInv
    <2> QED BY <1>13, <2>2, <2>3, <2>4 DEF DropDrag
<1>14. CASE CancelDrag
    BY <1>14 DEF CancelDrag, DragInv
<1>15. CASE Acknowledge
    <2>1. CASE Diverge
        BY <2>1 DEF Diverge, DragInv
    <2>2. ASSUME NEW p \in pending, pending' = {[p EXCEPT !.acked = TRUE]},
                 UNCHANGED <<desired, drag, halted>>
          PROVE  DragInv'
        <3>1. pending # {} /\ pending' # {} /\ drag = {} /\ ~halted
            BY <2>2 DEF DragInv
        <3> QED BY <2>2, <3>1 DEF DragInv
    <2> QED BY <1>15, <2>1, <2>2 DEF Acknowledge
<1>16. CASE CancelUnacked
    BY <1>16 DEF CancelUnacked, DragInv
<1>17. CASE Verify
    BY <1>17 DEF Verify, Commit, Diverge, DragInv
<1>18. CASE NoteLoss \/ ConvergeDiverges
    BY <1>18 DEF NoteLoss, ConvergeDiverges, Diverge, DragInv
<1>19. ASSUME NEW w \in Windows, SyncFocus(w)
       PROVE  DragInv'
    BY <1>19 DEF SyncFocus, Idle, DragInv
<1>20. ASSUME NEW source \in Key, NEW target \in Key, Relocate(source, target)
       PROVE  DragInv'
    BY <1>20 DEF Relocate, Idle, DragInv
<1>21. ASSUME NEW seen, NEW focus, NEW axis, Converge(seen, focus, axis)
       PROVE  DragInv'
    BY <1>21 DEF Converge, Idle, DragInv
<1>22. ASSUME Observation
       PROVE  DragInv'
    BY <1>18, <1>21, <1>22 DEF Observation
<1>23. CASE Lifecycle
    BY <1>2, <1>3, <1>4, <1>5, <1>6, <1>7, <1>23 DEF Lifecycle
<1>24. CASE Directional
    BY <1>8, <1>9, <1>10, <1>11, <1>24 DEF Directional
<1>25. CASE Dragging
    BY <1>12, <1>13, <1>14, <1>25 DEF Dragging
<1>26. CASE Delivery
    BY <1>15, <1>16, <1>17, <1>18, <1>26 DEF Delivery
<1>27. CASE Unplanned
    BY <1>19, <1>20, <1>27 DEF Unplanned
<1> QED BY <1>1, <1>22, <1>23, <1>24, <1>25, <1>26, <1>27 DEF Next

\* What the invariant says in the words of the property.
LEMMA DragInvImplies == DragInv => DragStaysCurrent
<1> SUFFICES ASSUME DragInv
             PROVE  DragStaysCurrent
    OBVIOUS
<1>1. \A S : S = {} \/ (\E x : S = {x}) => Cardinality(S) < 2
    <2> SUFFICES ASSUME NEW S, S = {} \/ \E x : S = {x}
                 PROVE  Cardinality(S) < 2
        OBVIOUS
    <2>1. Cardinality(S) \in {0, 1}
        BY FS_EmptySet, FS_Singleton
    <2> QED BY <2>1
<1>2. StagedExactlyWithPlan
    BY <1>1 DEF DragInv, StagedExactlyWithPlan
<1>3. ASSUME NEW c \in drag
      PROVE  ~StaleCapture(c) /\ Focused(c.source)
    <2>1. PICK w : Focused(w) /\ c = CaptureOf(w)
        BY <1>3 DEF DragInv
    <2>2. c.source = w
        BY <2>1 DEF CaptureOf
    <2> QED BY <2>1, <2>2 DEF StaleCapture
<1> QED BY <1>2, <1>3 DEF DragStaysCurrent

\* Plans and drags exclude each other in every reachable state, and a held
\* drag is about the session as it is.
THEOREM Dragged == Spec => []DragStaysCurrent
<1>1. Init => DragInv
    BY DEF Init, DragInv
<1> QED BY <1>1, DragInvStep, DragInvImplies, PTL DEF Spec

-----------------------------------------------------------------------------
(* Topology.                                                               *)

\* The worlds are sound, the stack is of the committed one, and a plan is out
\* only where its revision is left.
SessionInv ==
    /\ Framed
    /\ Sound(world) /\ Live(world, stack)
    /\ \A v \in desired : Sound(v)
    /\ revision \in 0..MaxRevision
    /\ pending # {} => revision < MaxRevision
    /\ \A p \in pending : p \in [kind : Kinds, acked : BOOLEAN]
    /\ halted \in BOOLEAN /\ orphaned \in BOOLEAN

\* An operation offers a plan for a sound world; a session whose marks are tidy
\* plans one where the classified windows are neither tiles nor tile wins.
Planning ==
    \E kind \in {"lifecycle", "move", "focus", "resize"} : \E next :
        /\ Idle /\ Offer(kind, next)
        /\ Sound(next)
        /\ Tidy(world) => Exclusive(next)

\* What a sound world with these parts is good for.
LEMMA BecomesExclusive ==
    ASSUME NEW v, NEW tiles, NEW floats, NEW automatic, NEW override,
           Becomes(v, tiles, floats, automatic, override)
    PROVE  /\ Sound(v)
           /\ automatic \cap override = {} /\ automatic \cap tiles = {} => Exclusive(v)
BY DEF Becomes, Exclusive

\* The planning operations that keep the marks and add no tile.
LEMMA PlanningWithMarks ==
    ASSUME Idle, NEW kind \in {"lifecycle", "move", "focus", "resize"}, NEW next,
           NEW tiles \in SUBSET Tiled(world), NEW floats, Offer(kind, next),
           NEW automatic \in SUBSET world.automatic, NEW override \in SUBSET world.override,
           Becomes(next, tiles, floats, automatic, override)
    PROVE  Planning
<1>1. Sound(next)
    BY DEF Becomes
<1>2. Tidy(world) => Exclusive(next)
    BY BecomesExclusive DEF Tidy, Exclusive
<1> QED BY <1>1, <1>2 DEF Planning

\* Every operation that asks for a plan is one of these, or unfloats a window.
LEMMA LifecyclePlans ==
    ASSUME Assumption, SessionInv, Lifecycle
    PROVE  Planning \/ \E w \in Windows, axis \in AdmissionAxes : Unfloated(w, axis)
<1>0. Framed /\ Sound(world) /\ Solid(world)
    BY DEF SessionInv, Sound
<1>1. ASSUME NEW w \in Windows, NEW k \in Key, NEW sight \in Sights,
             NEW suppress \in BOOLEAN, NEW axis \in AdmissionAxes,
             Admit(w, k, sight, suppress, axis)
      PROVE  Planning
    <2> DEFINE next == AdmitInto(world, w, k, sight, suppress, axis)
               tiles == Tiled(world)
               floats == DOMAIN world.exceptions
               A == world.automatic
               O == world.override
    <2>1. Idle /\ Offer("lifecycle", next) /\ w \notin Members(world) /\ k \in Known
        BY <1>1 DEF Admit
    <2>2. \/ Becomes(next, tiles, floats \cup {w}, A, O)
          \/ w \notin O /\ Becomes(next, tiles, floats \cup {w}, A \cup {w}, O)
          \/ Becomes(next, tiles \cup {w}, floats, A, O)
          \/ Becomes(next, tiles \cup {w}, floats, A \ {w}, O \cup {w})
        BY <1>0, <2>1, AdmitIntoBecomes
    <2>3. w \notin tiles
        BY <2>1 DEF Members, Tiled
    <2>4. Tidy(world) => A \cap O = {} /\ A \cap tiles = {} /\ w \notin A
        BY <2>1 DEF Tidy, Exclusive
    <2> HIDE DEF next, tiles, floats, A, O
    <2>5. Sound(next)
        BY <2>2, BecomesExclusive
    <2>6. Tidy(world) => Exclusive(next)
        BY <2>2, <2>3, <2>4, BecomesExclusive
    <2> QED BY <2>1, <2>5, <2>6 DEF Planning
<1>2. ASSUME NEW w \in Windows, Remove(w)
      PROVE  Planning
    <2> DEFINE A == world.automatic
               O == world.override
    <2>1. CASE w \in DOMAIN world.exceptions
        <3>1. Idle /\ Offer("lifecycle", RemoveException(w))
            BY <1>2, <2>1 DEF Remove
        <3>2. Becomes(RemoveException(w), Tiled(world), DOMAIN world.exceptions \ {w}, A, O)
            BY <1>0, RemoveExceptionBecomes
        <3> QED BY <3>1, <3>2, PlanningWithMarks
    <2>2. CASE w \notin DOMAIN world.exceptions
        <3>1. Idle /\ Offer("lifecycle", Marked(Departed(world, w))) /\ w \in Tiled(world)
            BY <1>2, <2>2 DEF Remove, Members, Tiled
        <3>2. Becomes(Marked(Departed(world, w)), Tiled(world) \ {w},
                      DOMAIN world.exceptions, A, O)
            BY <1>0, <3>1, DepartedBecomes, MarkedBecomes
        <3>3. Tiled(world) \ {w} \in SUBSET Tiled(world)
            OBVIOUS
        <3> QED BY <3>1, <3>2, <3>3, PlanningWithMarks
    <2> QED BY <2>1, <2>2
<1>3. ASSUME NEW w \in Windows, Float(w)
      PROVE  Planning
    <2> DEFINE left == Marked(Departed(world, w))
               next == [Excepted(left, w, world.windows[w], {"floating"}) EXCEPT
                            !.automatic = @ \ {w}, !.override = @ \ {w}]
               A == world.automatic \ {w}
               O == world.override \ {w}
    <2>1. Idle /\ Offer("lifecycle", next) /\ w \in Tiled(world)
        BY <1>3 DEF Float
    <2>2. Becomes(next, Tiled(world) \ {w}, DOMAIN world.exceptions \cup {w}, A, O)
        BY <1>0, <2>1, FloatBecomes
    <2>3. /\ Tiled(world) \ {w} \in SUBSET Tiled(world)
          /\ A \in SUBSET world.automatic /\ O \in SUBSET world.override
        OBVIOUS
    <2> HIDE DEF next, A, O
    <2> QED BY <2>1, <2>2, <2>3, PlanningWithMarks
<1>4. ASSUME NEW w \in Windows, ToggleOrientation(w)
      PROVE  Planning
    <2> DEFINE k == world.windows[w]
               t == Flipped(world.trees[k], w)
               next == [world EXCEPT !.trees[k] = t]
    <2>1. Idle /\ Focused(w) /\ Offer("lifecycle", Marked(next))
        BY <1>4 DEF ToggleOrientation
    <2>2. k \in Key /\ t \in Trees /\ Sturdy(t) /\ t.leaves = world.trees[k].leaves
        BY <1>0, <2>1, FocusedIsTiled, FlippedKeeps
    <2>3. Becomes(Marked(next), Tiled(world), DOMAIN world.exceptions,
                  world.automatic, world.override)
        <3> HIDE DEF k, t
        <3> QED BY <1>0, <2>2, RetreedBecomes, MarkedBecomes
    <2> HIDE DEF next
    <2> QED BY <2>1, <2>3, PlanningWithMarks
<1>5. ASSUME NEW w \in Windows, NEW k \in Key, NEW follow \in BOOLEAN,
             NEW axis \in AdmissionAxes, Send(w, k, follow, axis)
      PROVE  Planning
    <2> DEFINE source == world.windows[w]
               anchor == IF Remembered(world, k) # {} THEN Remembered(world, k)
                         ELSE Recent(world, k)
               moved  == [Untiled(world, w) EXCEPT
                             !.trees[k] = Admitted(@, w, anchor, axis),
                             !.windows = With(@, w, k)]
               next == Marked([moved EXCEPT !.focus =
                            IF follow THEN {At(k, w)}
                            ELSE FocusIn(source, Recent(moved, source))])
    <2>1. Idle /\ Focused(w) /\ k \in Known /\ k # source /\ Offer("lifecycle", next)
        BY <1>5 DEF Send
    <2>2. Becomes(next, Tiled(world), DOMAIN world.exceptions, world.automatic, world.override)
        BY <1>0, <2>1, SendBecomes
    <2> HIDE DEF next
    <2> QED BY <2>1, <2>2, PlanningWithMarks
<1> QED BY <1>1, <1>2, <1>3, <1>4, <1>5 DEF Lifecycle

\* So is every directional one.
LEMMA DirectionalPlans ==
    ASSUME Assumption, SessionInv, Directional
    PROVE  Planning
<1>0. Framed /\ Sound(world) /\ Solid(world)
    BY DEF SessionInv, Sound
<1> DEFINE AsBefore(next) == Becomes(next, Tiled(world), DOMAIN world.exceptions,
                                     world.automatic, world.override)
<1>1. ASSUME NEW kind \in {"move", "focus", "resize"}, NEW next,
             Idle, Offer(kind, next), AsBefore(next)
      PROVE  Planning
    BY <1>1, PlanningWithMarks
<1>2. ASSUME NEW w \in Windows, Move(w)
      PROVE  Planning
    <2> DEFINE k == world.windows[w]
    <2>1. PICK t \in Rearranged(world.trees[k], w) :
              Offer("move", Marked([world EXCEPT !.trees[k] = t]))
        BY <1>2 DEF Move
    <2>2. Idle /\ Focused(w)
        BY <1>2 DEF Move
    <2>3. k \in Key /\ t \in Trees /\ Sturdy(t) /\ t.leaves = world.trees[k].leaves
        BY <1>0, <2>2, FocusedIsTiled, RearrangedKeeps
    <2> HIDE DEF k
    <2>4. AsBefore(Marked([world EXCEPT !.trees[k] = t]))
        BY <1>0, <2>3, RetreedBecomes, MarkedBecomes
    <2> HIDE DEF AsBefore
    <2> QED BY <1>1, <2>1, <2>2, <2>4
<1>3. ASSUME NEW w \in Windows, NEW k \in Key, NEW first \in BOOLEAN, NEW axis \in Axes,
             MoveAcross(w, k, first, axis)
      PROVE  Planning
    <2> DEFINE anchor == Remembered(world, k)
               there  == world.trees[k]
               beside == IF anchor = {} THEN there.leaves ELSE anchor
               next == Marked([Untiled(world, w) EXCEPT
                           !.trees[k] = IF there.leaves = {} THEN Lone(w)
                                        ELSE Place(there, w, beside, first, TRUE, axis),
                           !.windows = With(@, w, k),
                           !.focus = {At(k, w)}])
    <2>1. /\ Idle /\ Focused(w) /\ k \in Known /\ k # world.windows[w]
          /\ Offer("move", next)
        BY <1>3 DEF MoveAcross
    <2>2. AsBefore(next)
        BY <1>0, <2>1, MoveAcrossBecomes
    <2> HIDE DEF next, AsBefore
    <2> QED BY <1>1, <2>1, <2>2
<1>4. ASSUME NEW focus, Focal(focus), Resolves(world, focus)
      PROVE  AsBefore(Marked([world EXCEPT !.focus = focus]))
    <2>1. AsBefore(FocusedOn(world, focus))
        BY <1>0, <1>4, AsItIs, RefocusBecomes
    <2>2. AsBefore(Marked(FocusedOn(world, focus)))
        BY <2>1, MarkedBecomes
    <2> QED BY <2>2 DEF FocusedOn
<1>5. ASSUME NEW w \in Windows, FocusOther(w)
      PROVE  Planning
    <2>1. PICK f \in world.focus :
              /\ Holds(world, f.domain, w)
              /\ Offer("focus", Marked([world EXCEPT !.focus = {At(f.domain, w)}]))
        BY <1>5 DEF FocusOther
    <2>2. f.domain \in Key
        BY <1>0 DEF Solid, Focal, Focus
    <2>3. Focal({At(f.domain, w)}) /\ Resolves(world, {At(f.domain, w)})
        BY <1>0, <2>1, <2>2, FocusAt
    <2>4. Idle
        BY <1>5 DEF FocusOther
    <2> HIDE DEF AsBefore
    <2> QED BY <1>1, <1>4, <2>1, <2>3, <2>4
<1>6. ASSUME NEW k \in Key, NEW target \in Key, FocusAcross(k, target)
      PROVE  Planning
    <2> DEFINE F == FocusIn(target, Remembered(world, target))
    <2>1. Idle /\ Offer("focus", Marked([world EXCEPT !.focus = F]))
        BY <1>6 DEF FocusAcross
    <2>2. Focal(F) /\ Resolves(world, F)
        BY <1>0, RememberedIsHeld, FocusInHolds
    <2> HIDE DEF AsBefore, F
    <2> QED BY <1>1, <1>4, <2>1, <2>2
<1>7. ASSUME NEW w \in Windows, Resize(w) \/ PointerResize(w)
      PROVE  Planning
    <2>1. Idle /\ Offer("resize", world)
        BY <1>7 DEF Resize, PointerResize
    <2>2. AsBefore(world)
        BY <1>0, AsItIs
    <2> HIDE DEF AsBefore
    <2> QED BY <1>1, <2>1, <2>2
<1> QED BY <1>2, <1>3, <1>5, <1>6, <1>7 DEF Directional

\* Soundness speaks of the world and of the domain keys alone.
LEMMA SoundAfter ==
    ASSUME NEW v, UNCHANGED domains, Sound(v)
    PROVE  Sound(v)'
BY DEF Sound, Solid, Shaped, Planted, Homed, Resolves, Holds, Tiled, Known, Focal, Remembering

\* A sound next world makes the world sound next.
LEMMA WorldSoundAfter ==
    ASSUME UNCHANGED domains, Sound(world')
    PROVE  Sound(world)'
BY DEF Sound, Solid, Shaped, Planted, Homed, Resolves, Holds, Tiled, Known, Focal, Remembering

\* What is left to show where the committed world and the stack stay.
LEMMA SameWorld ==
    ASSUME SessionInv, UNCHANGED <<domains, world, stack, revision>>,
           halted' \in BOOLEAN, orphaned' \in BOOLEAN,
           \A v \in desired' : Sound(v),
           pending' # {} => revision < MaxRevision,
           \A p \in pending' : p \in [kind : Kinds, acked : BOOLEAN]
    PROVE  SessionInv'
<1>1. Sound(world)' /\ \A v \in desired' : Sound(v)'
    BY SoundAfter, WorldSoundAfter DEF SessionInv
<1>2. Framed' /\ Live(world, stack)'
    BY DEF SessionInv, Framed, Live, Holds, Tiled
<1> QED BY <1>1, <1>2 DEF SessionInv

\* What is left to show where they change.
LEMMA NewWorld ==
    ASSUME SessionInv, UNCHANGED domains, Sound(world'), Live(world', stack'),
           \A v \in desired' : Sound(v), revision' \in 0..MaxRevision,
           halted' \in BOOLEAN, orphaned' \in BOOLEAN,
           pending' # {} => revision' < MaxRevision,
           \A p \in pending' : p \in [kind : Kinds, acked : BOOLEAN]
    PROVE  SessionInv'
<1>1. Sound(world)' /\ \A v \in desired' : Sound(v)'
    BY SoundAfter, WorldSoundAfter
<1>2. Framed' /\ Live(world, stack)'
    BY DEF SessionInv, Framed, Live, Holds, Tiled
<1> QED BY <1>1, <1>2 DEF SessionInv

\* Worlds with the same tiles and focus share their stacks.
LEMMA LiveForBoth ==
    ASSUME NEW u, NEW v, SameTiles(u, v), u.focus = v.focus, NEW st, Live(v, st)
    PROVE  Live(u, st)
BY SameTilesHold DEF Live

\* What is staged for a sound world.
LEMMA StagedIsSound ==
    ASSUME NEW kind \in Kinds, NEW next, Sound(next), StageAs(kind, next)
    PROVE  /\ \A v \in desired' : Sound(v)
           /\ \A p \in pending' : p \in [kind : Kinds, acked : BOOLEAN]
<1>1. [kind |-> kind, acked |-> FALSE] \in [kind : Kinds, acked : BOOLEAN]
    OBVIOUS
<1>2. \A p \in pending' : p = [kind |-> kind, acked |-> FALSE]
    BY DEF StageAs
<1>3. \A v \in desired' : v = next
    BY DEF StageAs
<1> QED BY <1>1, <1>2, <1>3, Zenon

\* A plan that goes out, or a divergence.
LEMMA PlansKeepSessionInv ==
    ASSUME SessionInv, Planning
    PROVE  SessionInv'
<1>0. PICK kind \in {"lifecycle", "move", "focus", "resize"} : \E next :
          Offer(kind, next) /\ Sound(next)
    BY DEF Planning
<1>1. PICK next :
          Offer(kind, next) /\ Sound(next)
    BY <1>0
<1>2. UNCHANGED <<domains, world, stack, revision, orphaned>> /\ orphaned \in BOOLEAN
    BY <1>1 DEF Offer, SessionInv
<1>3. CASE revision < MaxRevision /\ StageAs(kind, next) /\ UNCHANGED <<drag, halted>>
    <2>1. kind \in Kinds
        BY DEF Kinds
    <2>2. /\ \A v \in desired' : Sound(v)
          /\ \A p \in pending' : p \in [kind : Kinds, acked : BOOLEAN]
        BY <1>1, <1>3, <2>1, StagedIsSound
    <2> QED BY <1>2, <1>3, <2>2, SameWorld DEF SessionInv
<1>4. CASE Diverge
    BY <1>2, <1>4, SameWorld DEF Diverge
<1> QED BY <1>1, <1>3, <1>4 DEF Offer

\* A plan to unfloat, with the record of the float gone at once.
LEMMA UnfloatKeepsSessionInv ==
    ASSUME Assumption, SessionInv, NEW w \in Windows, NEW axis \in AdmissionAxes,
           Unfloated(w, axis)
    PROVE  SessionInv'
<1> DEFINE base == [world EXCEPT !.exceptions = Without(@, w)]
           home == world.exceptions[w].home
           next == TileWins(Marked(TiledAt(base, w, home, axis)), w)
<1>1. /\ StageAs("unfloat", next) /\ world' = base /\ revision < MaxRevision
      /\ UNCHANGED <<domains, stack, revision, drag, halted, orphaned>>
      /\ w \in DOMAIN world.exceptions
    BY DEF Unfloated
<1>2. Framed /\ Sound(world)
    BY DEF SessionInv
<1>3. /\ Becomes(base, Tiled(world), DOMAIN world.exceptions \ {w},
                 world.automatic, world.override)
      /\ SameTiles(base, world) /\ base.focus = world.focus
      /\ Becomes(next, Tiled(world) \cup {w}, DOMAIN world.exceptions \ {w},
                 world.automatic \ {w}, world.override \cup {w})
    BY <1>1, <1>2, UnfloatedBecomes
<1> HIDE DEF base, next
<1>4. Sound(world') /\ Live(world', stack')
    BY <1>1, <1>3, LiveForBoth DEF Becomes, SessionInv
<1>5. /\ \A v \in desired' : Sound(v)
      /\ \A p \in pending' : p \in [kind : Kinds, acked : BOOLEAN]
    <2>1. Sound(next)
        BY <1>3 DEF Becomes
    <2> QED BY <1>1, <2>1, StagedIsSound DEF Kinds
<1> QED BY <1>1, <1>4, <1>5, NewWorld DEF SessionInv

\* Where a dropped tile may go, the tree keeps its leaves.
LEMMA DropPlacesKeep ==
    ASSUME Assumption, NEW t \in Trees, Sturdy(t), NEW x \in t.leaves, NEW T \in DropPlaces(t, x)
    PROVE  T \in Trees /\ Sturdy(T) /\ T.leaves = t.leaves
BY RearrangedKeeps DEF DropPlaces

\* What a drop stages.
LEMMA DroppedBecomes ==
    ASSUME Assumption, SessionInv, DragInv, NEW c \in drag,
           NEW tree \in DropPlaces(world.trees[world.windows[c.source]], c.source)
    PROVE  Becomes([world EXCEPT !.trees[world.windows[c.source]] = tree],
                   Tiled(world), DOMAIN world.exceptions, world.automatic, world.override)
<1>1. Focused(c.source)
    BY DEF DragInv, CaptureOf
<1>2. Framed /\ Sound(world)
    BY DEF SessionInv
<1> DEFINE k == world.windows[c.source]
<1>3. k \in Key /\ tree \in Trees /\ Sturdy(tree) /\ tree.leaves = world.trees[k].leaves
    BY <1>1, <1>2, FocusedIsTiled, DropPlacesKeep
<1> HIDE DEF k
<1>4. Becomes([world EXCEPT !.trees[k] = tree], Tiled(world), DOMAIN world.exceptions,
              world.automatic, world.override)
    BY <1>2, <1>3, RetreedBecomes
<1> QED BY <1>4 DEF k

\* Dragging.
LEMMA DraggingKeepsSessionInv ==
    ASSUME Assumption, SessionInv, DragInv, Dragging
    PROVE  SessionInv'
<1>1. CASE CancelDrag \/ \E w \in Windows : BeginDrag(w)
    BY <1>1, SameWorld DEF CancelDrag, BeginDrag, SessionInv
<1>2. CASE DropDrag
    <2>1. UNCHANGED <<domains, world, stack, revision, orphaned>> /\ orphaned \in BOOLEAN
        BY <1>2 DEF DropDrag, SessionInv
    <2>2. CASE UNCHANGED <<pending, desired, halted>>
        BY <2>1, <2>2, SameWorld DEF SessionInv
    <2>3. CASE Diverge
        BY <2>1, <2>3, SameWorld DEF Diverge
    <2>4. ASSUME NEW c \in drag,
                 NEW tree \in DropPlaces(world.trees[world.windows[c.source]], c.source),
                 revision < MaxRevision,
                 StageAs("drag", [world EXCEPT !.trees[world.windows[c.source]] = tree]),
                 UNCHANGED halted
          PROVE  SessionInv'
        <3> DEFINE next == [world EXCEPT !.trees[world.windows[c.source]] = tree]
        <3>1. Sound(next)
            BY <2>4, DroppedBecomes DEF Becomes
        <3> HIDE DEF next
        <3>2. StageAs("drag", next)
            BY <2>4 DEF next
        <3>3. /\ \A v \in desired' : Sound(v)
              /\ \A p \in pending' : p \in [kind : Kinds, acked : BOOLEAN]
            BY <3>1, <3>2, StagedIsSound DEF Kinds
        <3> QED BY <2>1, <2>4, <3>3, SameWorld DEF SessionInv
    <2> QED BY <1>2, <2>2, <2>3, <2>4 DEF DropDrag
<1> QED BY <1>1, <1>2 DEF Dragging

\* Acknowledgement, cancellation, verification and loss.
LEMMA DeliveryKeepsSessionInv ==
    ASSUME Assumption, SessionInv, DragInv, Delivery
    PROVE  SessionInv'
<1>1. ASSUME Diverge, UNCHANGED <<domains, world, stack, revision, orphaned>>
      PROVE  SessionInv'
    BY <1>1, SameWorld DEF Diverge, SessionInv
<1>2. CASE Acknowledge
    <2>1. UNCHANGED <<domains, world, stack, revision, orphaned>> /\ orphaned \in BOOLEAN
        BY <1>2 DEF Acknowledge, SessionInv
    <2>2. ASSUME NEW p \in pending, pending' = {[p EXCEPT !.acked = TRUE]},
                 UNCHANGED <<desired, drag, halted>>
          PROVE  SessionInv'
        <3>1. [p EXCEPT !.acked = TRUE] \in [kind : Kinds, acked : BOOLEAN]
            BY DEF SessionInv
        <3> QED BY <2>1, <2>2, <3>1, SameWorld DEF SessionInv
    <2> QED BY <1>1, <1>2, <2>1, <2>2 DEF Acknowledge
<1>3. CASE CancelUnacked
    <2>1. orphaned' \in BOOLEAN
        BY <1>3 DEF CancelUnacked, SessionInv
    <2> QED BY <1>3, <2>1, SameWorld DEF CancelUnacked, SessionInv
<1>4. CASE Verify
    <2>1. ASSUME NEW p \in pending, Commit(p.kind), UNCHANGED <<drag, halted, domains, orphaned>>
          PROVE  SessionInv'
        <3>1. PICK v \in desired : /\ world' = Committed(p.kind, v)
                                   /\ stack' = UpdatedStack(v)
            BY <2>1 DEF Commit
        <3>2. Framed /\ Sound(world) /\ Sound(v) /\ \A k \in Key : Distinct(stack[k])
            BY DEF SessionInv, Live
        <3>3. /\ Sound(world') /\ SameTiles(world', v) /\ world'.focus = v.focus
            BY <3>1, <3>2, CommittedBecomes DEF Becomes
        <3>4. Live(v, stack')
            BY <3>1, <3>2, UpdatedStackIsLive
        <3>5. Live(world', stack')
            BY <3>3, <3>4, LiveForBoth
        <3>6. desired' = {} /\ pending' = {} /\ revision' = revision + 1
              /\ revision < MaxRevision /\ revision \in 0..MaxRevision /\ MaxRevision \in Nat
            BY <2>1 DEF Commit, SessionInv, Assumption
        <3> QED BY <2>1, <3>3, <3>5, <3>6, NewWorld DEF SessionInv
    <2> QED BY <1>1, <1>4, <2>1 DEF Verify
<1>5. CASE NoteLoss
    BY <1>1, <1>5 DEF NoteLoss
<1> QED BY <1>2, <1>3, <1>4, <1>5 DEF Delivery

\* An observation.
LEMMA ObservationKeepsSessionInv ==
    ASSUME Assumption, SessionInv, DragInv, Observation
    PROVE  SessionInv'
<1>1. CASE ConvergeDiverges
    BY <1>1, SameWorld DEF ConvergeDiverges, Diverge, SessionInv
<1>2. ASSUME NEW S \in SUBSET Windows, NEW seen \in [S -> [home : Known, sight : Sights]],
             NEW focus \in {{}} \cup {{w} : w \in S}, NEW axis \in [S -> AdmissionAxes],
             Converge(seen, focus, axis)
      PROVE  SessionInv'
    <2> DEFINE next == Pruned(Refocused(Converged(seen, axis), focus))
    <2>1. Framed /\ Sound(world) /\ (\A k \in Key : Distinct(stack[k])) /\ AtMostOne(focus)
        BY DEF SessionInv, Live, AtMostOne
    <2>2. Sound(next)
        BY <2>1, ConvergeIsSound
    <2>3. /\ SameContent(next, world) \/ revision < MaxRevision
          /\ world' = Marked(next) /\ stack' = UpdatedStack(next)
          /\ revision' = IF SameContent(next, world) THEN revision ELSE revision + 1
          /\ UNCHANGED <<domains, pending, desired, drag, halted, orphaned>>
          /\ pending = {}
        BY <1>2 DEF Converge, Idle
    <2> HIDE DEF next
    <2>4. Sound(world') /\ SameTiles(world', next) /\ world'.focus = next.focus
        BY <2>2, <2>3, MarkedKeeps DEF Sound
    <2>5. Live(world', stack')
        BY <2>1, <2>2, <2>3, <2>4, UpdatedStackIsLive, LiveForBoth
    <2>6. revision' \in 0..MaxRevision
        BY <2>3 DEF SessionInv, Assumption
    <2> QED BY <2>3, <2>4, <2>5, <2>6, NewWorld DEF SessionInv
<1> QED BY <1>1, <1>2 DEF Observation

\* The focus follows the compositor.
LEMMA SyncKeepsSessionInv ==
    ASSUME Assumption, SessionInv, NEW w \in Windows, SyncFocus(w)
    PROVE  SessionInv'
<1> DEFINE v == [world EXCEPT !.focus = {At(world.windows[w], w)}]
<1>1. /\ world' = v /\ stack' = UpdatedStack(v) /\ w \in Tiled(world) /\ pending = {}
      /\ UNCHANGED <<domains, revision, pending, desired, drag, halted, orphaned>>
    BY DEF SyncFocus, Idle
<1>2. Framed /\ Sound(world) /\ \A k \in Key : Distinct(stack[k])
    BY DEF SessionInv, Live
<1>3. Sound(v)
    BY <1>1, <1>2, SyncedBecomes DEF Becomes
<1> HIDE DEF v
<1>4. Live(v, UpdatedStack(v))
    BY <1>2, <1>3, UpdatedStackIsLive
<1> QED BY <1>1, <1>3, <1>4, NewWorld DEF SessionInv

\* The parts of a relocated world.
LEMMA RelocatedParts ==
    ASSUME Sound(world), NEW source \in Key, NEW target \in Key, Relocate(source, target)
    PROVE  /\ DOMAIN world'.windows = DOMAIN world.windows
           /\ DOMAIN world'.exceptions = DOMAIN world.exceptions
           /\ world'.automatic = world.automatic /\ world'.override = world.override
<1> DEFINE m(k) == IF k = source THEN target ELSE k
           T == Swapped(world.trees, source, target)
           W == [w \in DOMAIN world.windows |-> m(world.windows[w])]
           E == [w \in DOMAIN world.exceptions |->
                    [home |-> m(world.exceptions[w].home), flags |-> world.exceptions[w].flags]]
           F == {At(m(f.domain), f.leaf) : f \in world.focus}
           L == Swapped(world.last, source, target)
<1>1. world' = [world EXCEPT !.trees = T, !.windows = W, !.exceptions = E,
                             !.focus = F, !.last = L]
    BY DEF Relocate
<1>2. DOMAIN W = DOMAIN world.windows /\ DOMAIN E = DOMAIN world.exceptions
    OBVIOUS
<1> HIDE DEF T, W, E, F, L
<1>3. Shaped(world)
    BY DEF Sound, Solid
<1> QED BY <1>1, <1>2, <1>3 DEF Shaped

\* A domain moves to another output with all it has.
LEMMA RelocateKeepsSessionInv ==
    ASSUME Assumption, SessionInv, NEW source \in Key, NEW target \in Key,
           Relocate(source, target)
    PROVE  SessionInv'
<1> DEFINE m(k) == IF k = source THEN target ELSE k
           T == Swapped(world.trees, source, target)
           W == [w \in DOMAIN world.windows |-> m(world.windows[w])]
           E == [w \in DOMAIN world.exceptions |->
                    [home |-> m(world.exceptions[w].home), flags |-> world.exceptions[w].flags]]
           F == {At(m(f.domain), f.leaf) : f \in world.focus}
           L == Swapped(world.last, source, target)
<1>1. world' = [world EXCEPT !.trees = T, !.windows = W, !.exceptions = E,
                             !.focus = F, !.last = L]
    BY DEF Relocate
<1>2. /\ source \in Known /\ target \notin Known /\ source # target
      /\ domains' = [i \in DOMAIN domains |-> m(domains[i])]
      /\ stack' = Swapped(stack, source, target) /\ pending = {} /\ desired = {}
      /\ UNCHANGED <<revision, pending, desired, drag, halted, orphaned>>
    BY DEF Relocate, Idle
<1>3. /\ Framed /\ Sound(world) /\ Solid(world) /\ Shaped(world)
      /\ Planted(world.trees, world.windows) /\ Homed(world.exceptions)
      /\ DOMAIN world.windows \cap DOMAIN world.exceptions = {}
      /\ Focal(world.focus) /\ Remembering(world.last) /\ Live(world, stack)
    BY DEF SessionInv, Sound, Solid
<1>4. domains' \in Seq(Key) /\ Known' = {m(k) : k \in Known}
    <2>1. DOMAIN domains' = DOMAIN domains /\ domains' \in Seq(Key)
        <3>1. /\ Len(domains) \in Nat /\ DOMAIN domains = 1..Len(domains)
              /\ \A i \in DOMAIN domains : domains[i] \in Key
            BY <1>3 DEF Framed
        <3>2. \A i \in DOMAIN domains : m(domains[i]) \in Key
            BY <3>1
        <3> HIDE DEF m
        <3>3. domains' \in [1..Len(domains) -> Key]
            BY <1>2, <3>1, <3>2
        <3> QED BY <3>1, <3>3
    <2>2. \A i \in DOMAIN domains : domains'[i] = m(domains[i])
        BY <1>2
    <2> HIDE DEF m
    <2> QED BY <2>1, <2>2 DEF Known
<1>5. /\ \A k \in Known : m(k) \in Known' /\ m(k) \in Key /\ k \in Key
      /\ \A k \in Known : k # target
      /\ \A k \in Known' : k # source
    BY <1>2, <1>3, <1>4, KnownAreKeys
<1>6. world.trees[target].leaves = {}
    BY <1>2, <1>3 DEF Planted
<1>7. /\ T \in [Key -> Trees] /\ T[target] = world.trees[source]
      /\ T[source] = world.trees[target]
      /\ \A k \in Key : k # source /\ k # target => T[k] = world.trees[k]
    BY <1>2, <1>3 DEF Swapped, Planted
<1>8. /\ DOMAIN W = DOMAIN world.windows /\ \A w \in DOMAIN W : W[w] = m(world.windows[w])
      /\ \A w \in DOMAIN W : world.windows[w] \in Known /\ W[w] \in Known'
      /\ W \in [DOMAIN W -> Known']
    BY <1>3, <1>5 DEF Planted
<1>9. \A k \in Known : T[m(k)] = world.trees[k]
    BY <1>2, <1>5, <1>7
<1>10. (\A k \in Key : T[k].leaves # {} => k \in Known') /\ \A k \in Key : Sturdy(T[k])
    <2> SUFFICES ASSUME NEW k \in Key
                 PROVE  (T[k].leaves # {} => k \in Known') /\ Sturdy(T[k])
        OBVIOUS
    <2>1. CASE k = source
        BY <1>3, <1>6, <1>7, <2>1 DEF Planted
    <2>2. CASE k = target
        <3>1. m(source) = target
            OBVIOUS
        <3>2. target \in Known'
            BY <1>2, <1>5, <3>1
        <3> QED BY <1>3, <1>7, <2>2, <3>2 DEF Planted
    <2>3. CASE k # source /\ k # target
        <3>1. m(k) = k
            BY <2>3
        <3>2. k \in Known => k \in Known'
            BY <1>5, <3>1
        <3> QED BY <1>3, <1>7, <2>3, <3>2 DEF Planted
    <2> QED BY <2>1, <2>2, <2>3
<1>11. ASSUME NEW w \in DOMAIN W
       PROVE  w \in T[W[w]].leaves
    <2>1. T[W[w]] = world.trees[world.windows[w]]
        BY <1>8, <1>9, <1>11
    <2> QED BY <1>3, <1>8, <1>11, <2>1 DEF Planted
<1>12. ASSUME NEW k \in Key, NEW w \in T[k].leaves
       PROVE  w \in DOMAIN W /\ W[w] = k
    <2>1. PICK j \in Key : w \in world.trees[j].leaves /\ m(j) = k
        <3>1. CASE k = source
            BY <1>6, <1>7, <1>12, <3>1
        <3>2. CASE k = target
            BY <1>7, <1>12, <3>2
        <3>3. CASE k # source /\ k # target
            BY <1>7, <1>12, <3>3
        <3> QED BY <3>1, <3>2, <3>3
    <2>2. w \in DOMAIN world.windows /\ world.windows[w] = j
        BY <1>3, <2>1 DEF Planted
    <2> QED BY <1>8, <2>1, <2>2
<1>13. /\ DOMAIN E = DOMAIN world.exceptions /\ E \in [DOMAIN E -> Exceptions]
       /\ \A w \in DOMAIN E : E[w].home \in Known'
    <2> SUFFICES ASSUME NEW w \in DOMAIN E
                 PROVE  E[w] \in Exceptions /\ E[w].home \in Known'
        OBVIOUS
    <2>1. world.exceptions[w] \in Exceptions /\ world.exceptions[w].home \in Known
        BY <1>3 DEF Homed
    <2>2. E[w] = [home |-> m(world.exceptions[w].home), flags |-> world.exceptions[w].flags]
        OBVIOUS
    <2>3. m(world.exceptions[w].home) \in Key /\ m(world.exceptions[w].home) \in Known'
        BY <1>5, <2>1
    <2> HIDE DEF m, E
    <2> QED BY <2>1, <2>2, <2>3 DEF Exceptions
<1>14. F \subseteq Focus /\ AtMostOne(F)
    <2>1. \A f \in world.focus : f.domain \in Key /\ f.leaf \in Windows
        BY <1>3 DEF Focal, Focus
    <2>2. \A f \in world.focus : At(m(f.domain), f.leaf) \in Focus
        BY <2>1 DEF At, Focus
    <2>3. \A f, g \in world.focus : f = g
        BY <1>3 DEF Focal, AtMostOne
    <2> HIDE DEF m
    <2> QED BY <2>2, <2>3 DEF AtMostOne
<1>15. L \in [Key -> SUBSET Windows] /\ \A k \in Key : AtMostOne(L[k])
    BY <1>3 DEF Remembering, Swapped
<1>16. /\ stack' \in [Key -> Seq(Windows)] /\ stack'[target] = stack[source]
       /\ stack'[source] = stack[target]
       /\ \A k \in Key : k # source /\ k # target => stack'[k] = stack[k]
    BY <1>2, <1>3 DEF Framed, Swapped
<1> HIDE DEF T, W, E, F, L
<1>17. /\ world'.trees = T /\ world'.windows = W /\ world'.exceptions = E
       /\ world'.focus = F /\ world'.last = L
       /\ world'.automatic = world.automatic /\ world'.override = world.override
    BY <1>1, <1>3 DEF Shaped
<1>18. Shaped(world')
    <2>1. ASSUME NEW y, y = [world EXCEPT !.trees = T, !.windows = W, !.exceptions = E,
                                          !.focus = F, !.last = L]
          PROVE  Shaped(y)
        BY <1>3, <2>1 DEF Shaped
    <2> QED BY <1>1, <2>1
<1>19. ASSUME NEW k \in Known, NEW w, Holds(world, k, w)
       PROVE  Holds(world', m(k), w)
    <2>1. w \in T[m(k)].leaves
        BY <1>9, <1>19 DEF Holds
    <2>2. w \in DOMAIN W /\ W[w] = m(k)
        BY <1>8, <1>19 DEF Holds, Tiled
    <2> HIDE DEF m
    <2> QED BY <1>17, <2>1, <2>2 DEF Holds, Tiled
<1>20. \A f \in world'.focus : Holds(world', f.domain, f.leaf)
    <2> SUFFICES ASSUME NEW f \in world.focus
                 PROVE  Holds(world', m(f.domain), f.leaf)
        BY <1>17 DEF F, At
    <2>1. Holds(world, f.domain, f.leaf)
        BY <1>3 DEF Sound, Resolves
    <2>2. f.domain \in Known
        BY <1>3, <2>1, HeldLeaf
    <2> QED BY <1>19, <2>1, <2>2
<1>21. Planted(world.trees, world.windows)'
    <2>1. DOMAIN W \subseteq Windows
        BY <1>3, <1>8 DEF Planted
    <2> HIDE DEF m
    <2> QED BY <1>7, <1>8, <1>10, <1>11, <1>12, <1>17, <2>1 DEF Planted
<1>22. Homed(world.exceptions)'
    <2>1. DOMAIN E \subseteq Windows
        BY <1>3, <1>13 DEF Homed
    <2> QED BY <1>13, <1>17, <2>1 DEF Homed
<1>23. Sound(world)'
    <2>1. world'.automatic \subseteq Windows /\ world'.override \subseteq Windows
        BY <1>3, <1>17 DEF Solid
    <2>2. DOMAIN world'.windows \cap DOMAIN world'.exceptions = {}
        BY <1>3, <1>8, <1>13, <1>17
    <2>3. Focal(world'.focus) /\ Remembering(world'.last)
        BY <1>14, <1>15, <1>17 DEF Focal, Remembering
    <2>4. Shaped(world)'
        BY <1>18 DEF Shaped
    <2>5. Focal(world.focus)' /\ Remembering(world.last)'
        BY <2>3 DEF Focal, Remembering
    <2>6. Solid(world)'
        BY <1>21, <1>22, <2>1, <2>2, <2>4, <2>5 DEF Solid
    <2>7. Resolves(world, world.focus)'
        BY <1>20 DEF Resolves, Holds, Tiled
    <2> QED BY <2>6, <2>7 DEF Sound
<1>24. Live(world', stack')
    <2>1. ASSUME NEW k \in Key
          PROVE  /\ \A i \in DOMAIN stack'[k] : Holds(world', k, stack'[k][i])
                 /\ Distinct(stack'[k])
        <3>1. PICK j \in Key : stack'[k] = stack[j] /\ (m(j) = k \/ j = target)
            <4>1. CASE k = source
                BY <1>16, <4>1
            <4>2. CASE k = target
                BY <1>16, <4>2
            <4>3. CASE k # source /\ k # target
                BY <1>16, <4>3
            <4> QED BY <4>1, <4>2, <4>3
        <3>2. Distinct(stack[j]) /\ \A i \in DOMAIN stack[j] : Holds(world, j, stack[j][i])
            BY <1>3 DEF Live
        <3>3. \A i \in DOMAIN stack[j] : j \in Known
            BY <1>3, <3>2, HeldLeaf
        <3>4. \A i \in DOMAIN stack[j] : m(j) = k /\ Holds(world', m(j), stack[j][i])
            BY <1>2, <1>19, <3>1, <3>2, <3>3
        <3> HIDE DEF m
        <3> QED BY <3>1, <3>2, <3>4
    <2>2. ASSUME NEW f \in world'.focus
          PROVE  stack'[f.domain] # <<>> /\ stack'[f.domain][Len(stack'[f.domain])] = f.leaf
        <3>1. PICK g \in world.focus : f.domain = m(g.domain) /\ f.leaf = g.leaf
            BY <1>17, <2>2 DEF F, At
        <3>2. stack[g.domain] # <<>> /\ stack[g.domain][Len(stack[g.domain])] = g.leaf
            BY <1>3 DEF Live
        <3>3. g.domain \in Known
            BY <1>3, HeldLeaf DEF Sound, Resolves
        <3>4. stack'[m(g.domain)] = stack[g.domain]
            BY <1>2, <1>5, <1>16, <3>3
        <3> QED BY <3>1, <3>2, <3>4
    <2> QED BY <1>16, <2>1, <2>2 DEF Live
<1>25. Live(world, stack)'
    BY <1>24 DEF Live, Holds, Tiled
<1>26. Framed'
    BY <1>4, <1>16 DEF Framed
<1> QED BY <1>2, <1>23, <1>25, <1>26 DEF SessionInv

\* A session starts empty.
LEMMA SessionInvInit == Assumption /\ Init => SessionInv
<1> SUFFICES ASSUME Assumption, Init
             PROVE  SessionInv
    OBVIOUS
<1>1. Framed
    BY DEF Init, Assumption, Framed
<1>2. /\ world.trees = [k \in Key |-> Empty] /\ world.windows = <<>>
      /\ world.exceptions = <<>> /\ world.automatic = {} /\ world.override = {}
      /\ world.focus = {} /\ world.last = [k \in Key |-> {}] /\ Shaped(world)
    BY DEF Init, EmptyWorld, Shaped
<1>3. DOMAIN <<>> = {}
    OBVIOUS
<1>4. Planted(world.trees, world.windows)
    <2>1. \A k \in Key : world.trees[k] = Empty /\ Empty \in Trees /\ Sturdy(Empty)
        BY <1>2, SmallTrees
    <2>2. Empty.leaves = {}
        BY DEF Empty
    <2> QED BY <1>2, <1>3, <2>1, <2>2 DEF Planted
<1>5. Homed(world.exceptions)
    BY <1>2, <1>3 DEF Homed
<1>6. Solid(world) /\ Resolves(world, world.focus)
    BY <1>2, <1>3, <1>4, <1>5 DEF Solid, Focal, AtMostOne, Remembering, Resolves
<1>7. Live(world, stack)
    <2>1. stack = [k \in Key |-> <<>>]
        BY DEF Init
    <2>2. \A k \in Key : stack[k] = <<>> /\ DOMAIN stack[k] = {}
        BY <2>1, <1>3
    <2> QED BY <1>2, <2>1, <2>2 DEF Live, Distinct
<1>8. Sound(world)
    BY <1>6 DEF Sound
<1>9. /\ revision \in 0..MaxRevision /\ pending = {} /\ desired = {}
      /\ halted \in BOOLEAN /\ orphaned \in BOOLEAN
    <2>1. MaxRevision \in Nat /\ revision = 0 /\ pending = {} /\ desired = {}
        BY DEF Init, Assumption
    <2>2. halted = FALSE /\ orphaned = FALSE
        BY DEF Init
    <2>3. revision \in 0..MaxRevision
        BY <2>1
    <2>4. halted \in BOOLEAN /\ orphaned \in BOOLEAN
        BY <2>2, Zenon
    <2> QED BY <2>1, <2>3, <2>4
<1> QED BY <1>1, <1>7, <1>8, <1>9 DEF SessionInv

\* Every step keeps it.
LEMMA SessionInvStep == Assumption /\ SessionInv /\ DragInv /\ [Next]_vars => SessionInv'
<1> SUFFICES ASSUME Assumption, SessionInv, DragInv, [Next]_vars
             PROVE  SessionInv'
    OBVIOUS
<1>1. CASE UNCHANGED vars
    BY <1>1, SameWorld DEF vars, SessionInv
<1>2. CASE Lifecycle
    BY <1>2, LifecyclePlans, PlansKeepSessionInv, UnfloatKeepsSessionInv
<1>3. CASE Directional
    BY <1>3, DirectionalPlans, PlansKeepSessionInv
<1>4. CASE Dragging
    BY <1>4, DraggingKeepsSessionInv
<1>5. CASE Delivery
    BY <1>5, DeliveryKeepsSessionInv
<1>6. CASE Observation
    BY <1>6, ObservationKeepsSessionInv
<1>7. CASE Unplanned
    BY <1>7, SyncKeepsSessionInv, RelocateKeepsSessionInv DEF Unplanned
<1> QED BY <1>1, <1>2, <1>3, <1>4, <1>5, <1>6, <1>7 DEF Next

\* A sound world in the words of the property.
LEMMA SoundWorlds ==
    ASSUME Assumption, Framed, NEW v, Sound(v)
    PROVE  TypedWorld(v) /\ Topology(v)
<1>1. \A T : AtMostOne(T) => Cardinality(T) < 2
    <2> SUFFICES ASSUME NEW T, AtMostOne(T)
                 PROVE  Cardinality(T) < 2
        OBVIOUS
    <2>1. T = {} \/ \E x : T = {x}
        BY NoneOrOne
    <2>2. Cardinality(T) \in {0, 1}
        BY <2>1, FS_EmptySet, FS_Singleton
    <2> QED BY <2>2
<1>2. /\ Planted(v.trees, v.windows) /\ Homed(v.exceptions)
      /\ Focal(v.focus) /\ Remembering(v.last)
      /\ v.automatic \subseteq Windows /\ v.override \subseteq Windows
      /\ DOMAIN v.windows \cap DOMAIN v.exceptions = {}
    BY DEF Sound, Solid
<1>3. DOMAIN v.trees = Key /\ DOMAIN v.last = Key
    BY <1>2 DEF Planted, Remembering
<1>4. TypedWorld(v)
    BY <1>1, <1>2, <1>3 DEF TypedWorld, Planted, Homed, Focal, Remembering, Tiled
<1>5. ASSUME NEW k \in Key
      PROVE  WellFormed(v.trees[k]) /\ (v.trees[k] # Empty => k \in Known)
    <2>1. v.trees[k] \in Trees /\ Sturdy(v.trees[k]) /\ (v.trees[k].leaves # {} => k \in Known)
        BY <1>2 DEF Planted
    <2>2. WellFormed(v.trees[k])
        BY <2>1, SturdyIsWellFormed
    <2>3. ASSUME v.trees[k].leaves = {}
          PROVE  v.trees[k] = Empty
        BY <2>1, <2>3 DEF Sturdy, Several, Trees, Empty
    <2> QED BY <2>1, <2>2, <2>3
<1>6. Topology(v)
    BY <1>2, <1>3, <1>5 DEF Topology, Planted, Homed, Tiled, Sound
<1> QED BY <1>4, <1>6

\* The invariants give the property.
LEMMA SessionInvImplies == Assumption /\ SessionInv => TopologyHolds
<1> SUFFICES ASSUME Assumption, SessionInv
             PROVE  TopologyHolds
    OBVIOUS
<1>1. Framed /\ Sound(world) /\ Live(world, stack) /\ \A v \in desired : Sound(v)
    BY DEF SessionInv
<1>2. /\ TypedWorld(world) /\ Topology(world)
      /\ \A v \in desired : TypedWorld(v) /\ Topology(v)
    BY <1>1, SoundWorlds
<1>3. DOMAIN world.trees = Key /\ DOMAIN stack = Key
    BY <1>1 DEF Sound, Solid, Planted, Framed
<1>4. TypeOK
    BY <1>1, <1>2, <1>3 DEF TypeOK, SessionInv, Framed
<1>5. StackIsLive
    BY <1>1, <1>3 DEF StackIsLive, Live, Distinct
<1> QED BY <1>2, <1>4, <1>5 DEF TopologyHolds

\* The committed and the staged world are well-formed trees linked both ways to
\* their windows, with a focus that resolves and a focus history of live tiles, in
\* every reachable state.
THEOREM Sane ==
    ASSUME Assumption
    PROVE  Spec => []TopologyHolds
<1>1. Init => SessionInv /\ DragInv
    BY SessionInvInit DEF Init, DragInv
<1>2. SessionInv /\ DragInv /\ [Next]_vars => SessionInv' /\ DragInv'
    BY SessionInvStep, DragInvStep
<1>3. SessionInv => TopologyHolds
    BY SessionInvImplies
<1> QED BY <1>1, <1>2, <1>3, PTL DEF Spec

-----------------------------------------------------------------------------
(* The marks of the fixed-size classifier.                                 *)

\* While an unfloat plan is out, the committed world has neither tile nor float
\* for its window, whose marks stay: apart from then, and from a session that
\* halted then, the marks are on members.
MarksInv ==
    ~orphaned =>
        /\ Exclusive(world) /\ \A v \in desired : Exclusive(v)
        /\ ~halted /\ (\A p \in pending : p.kind # "unfloat") =>
               world.automatic \cup world.override \subseteq Members(world)

\* A session that may plan has tidy marks.
LEMMA IdleIsTidy ==
    ASSUME MarksInv, Idle, ~orphaned
    PROVE  Tidy(world)
BY DEF MarksInv, Idle, Tidy

\* Where the committed world stays, what is staged decides.
LEMMA SameWorldMarks ==
    ASSUME MarksInv, UNCHANGED world, orphaned' = FALSE => orphaned = FALSE,
           ~orphaned => \A v \in desired' : Exclusive(v),
           \/ halted' = TRUE
           \/ /\ ~halted /\ \A p \in pending : p.kind # "unfloat"
           \/ ~halted /\ \E p \in pending' : p.kind = "unfloat"
    PROVE  MarksInv'
BY DEF MarksInv, Exclusive, Tiled, Members

\* Where it changes and nothing is staged.
LEMMA NewWorldMarks ==
    ASSUME MarksInv, desired' = {}, ~orphaned => Tidy(world'), UNCHANGED orphaned
    PROVE  MarksInv'
BY DEF MarksInv, Tidy, Exclusive, Tiled, Members

\* A plan that goes out, or a divergence.
LEMMA PlansKeepMarks ==
    ASSUME MarksInv, Planning
    PROVE  MarksInv'
<1>0. PICK kind \in {"lifecycle", "move", "focus", "resize"} : \E next :
          Idle /\ Offer(kind, next) /\ (Tidy(world) => Exclusive(next))
    BY DEF Planning
<1>1. PICK next :
          Idle /\ Offer(kind, next) /\ (Tidy(world) => Exclusive(next))
    BY <1>0
<1>2. UNCHANGED <<world, orphaned>> /\ ~halted /\ pending = {}
    BY <1>1 DEF Offer, Idle
<1>3. ~orphaned => Exclusive(next)
    BY <1>1, IdleIsTidy
<1>4. ~orphaned => \A v \in desired' : Exclusive(v)
    BY <1>1, <1>3 DEF Offer, StageAs, Diverge
<1> QED BY <1>2, <1>4, SameWorldMarks

\* A plan to unfloat: its window leaves the floats at once and keeps its marks.
LEMMA UnfloatKeepsMarks ==
    ASSUME Assumption, SessionInv, MarksInv, NEW w \in Windows, NEW axis \in AdmissionAxes,
           Unfloated(w, axis)
    PROVE  MarksInv'
<1> DEFINE base == [world EXCEPT !.exceptions = Without(@, w)]
           next == TileWins(Marked(TiledAt(base, w, world.exceptions[w].home, axis)), w)
<1>1. /\ StageAs("unfloat", next) /\ world' = base /\ UNCHANGED orphaned
      /\ w \in DOMAIN world.exceptions /\ Idle
    BY DEF Unfloated
<1>2. Framed /\ Sound(world)
    BY DEF SessionInv
<1>3. /\ Becomes(base, Tiled(world), DOMAIN world.exceptions \ {w},
                 world.automatic, world.override)
      /\ Becomes(next, Tiled(world) \cup {w}, DOMAIN world.exceptions \ {w},
                 world.automatic \ {w}, world.override \cup {w})
    BY <1>1, <1>2, UnfloatedBecomes
<1> HIDE DEF base, next
<1>4. ~orphaned => Exclusive(base) /\ Exclusive(next)
    BY <1>1, <1>3, IdleIsTidy DEF Becomes, Exclusive, Tidy
<1>5. /\ \E p \in pending' : p.kind = "unfloat"
      /\ \A v \in desired' : v = next
    BY <1>1 DEF StageAs
<1> QED BY <1>1, <1>4, <1>5 DEF MarksInv, Exclusive, Tiled

\* Dragging.
LEMMA DraggingKeepsMarks ==
    ASSUME Assumption, SessionInv, DragInv, MarksInv, Dragging
    PROVE  MarksInv'
<1>1. CASE CancelDrag \/ \E w \in Windows : BeginDrag(w)
    BY <1>1 DEF CancelDrag, BeginDrag, MarksInv, Exclusive, Tiled, Members
<1>2. CASE DropDrag
    <2>1. UNCHANGED <<world, orphaned>> /\ ~halted /\ pending = {} /\ desired = {}
        BY <1>2 DEF DropDrag, DragInv
    <2>2. CASE desired' = {}
        BY <2>1, <2>2, SameWorldMarks
    <2>3. ASSUME NEW c \in drag,
                 NEW tree \in DropPlaces(world.trees[world.windows[c.source]], c.source),
                 StageAs("drag", [world EXCEPT !.trees[world.windows[c.source]] = tree])
          PROVE  MarksInv'
        <3> DEFINE next == [world EXCEPT !.trees[world.windows[c.source]] = tree]
        <3>1. Becomes(next, Tiled(world), DOMAIN world.exceptions,
                      world.automatic, world.override)
            BY DroppedBecomes
        <3> HIDE DEF next
        <3>2. \A v \in desired' : v = next
            BY <2>3 DEF StageAs, next
        <3>3. ~orphaned => Exclusive(next)
            BY <3>1 DEF Becomes, Exclusive, MarksInv
        <3> QED BY <2>1, <3>2, <3>3, SameWorldMarks
    <2> QED BY <1>2, <2>1, <2>2, <2>3 DEF DropDrag, Diverge
<1> QED BY <1>1, <1>2 DEF Dragging

\* Acknowledgement, cancellation, verification and loss: what is verified drops
\* the marks of windows that left.
LEMMA DeliveryKeepsMarks ==
    ASSUME Assumption, SessionInv, DragInv, MarksInv, Delivery
    PROVE  MarksInv'
<1>1. ASSUME Diverge, UNCHANGED <<world, orphaned>>
      PROVE  MarksInv'
    BY <1>1, SameWorldMarks DEF Diverge
<1>2. CASE Acknowledge
    <2>1. UNCHANGED <<world, orphaned>>
        BY <1>2 DEF Acknowledge
    <2>2. ASSUME NEW p \in pending, pending' = {[p EXCEPT !.acked = TRUE]},
                 UNCHANGED <<desired, halted>>
          PROVE  MarksInv'
        <3>1. [p EXCEPT !.acked = TRUE].kind = p.kind
            BY DEF SessionInv
        <3>2. pending = {p} /\ ~halted
            BY <2>2 DEF DragInv
        <3> QED BY <2>1, <2>2, <3>1, <3>2 DEF MarksInv, Exclusive, Tiled, Members
    <2> QED BY <1>1, <1>2, <2>1, <2>2 DEF Acknowledge
<1>3. CASE CancelUnacked
    <2>1. /\ UNCHANGED <<world, halted>> /\ pending' = {} /\ desired' = {}
          /\ \E p \in pending : orphaned' = (orphaned \/ p.kind = "unfloat")
        BY <1>3 DEF CancelUnacked
    <2>2. ~halted /\ \A p, q \in pending : p = q
        BY <2>1 DEF DragInv
    <2> QED BY <2>1, <2>2 DEF MarksInv, Exclusive, Tiled, Members
<1>4. CASE Verify
    <2>1. ASSUME NEW p \in pending, Commit(p.kind), UNCHANGED orphaned
          PROVE  MarksInv'
        <3>1. PICK v \in desired : world' = Committed(p.kind, v) /\ desired' = {}
            BY <2>1 DEF Commit
        <3>2. Becomes(world', Tiled(v), DOMAIN v.exceptions,
                      v.automatic \cap Members(v), v.override \cap Members(v))
            BY <3>1, CommittedBecomes DEF SessionInv
        <3>3. Members(world') = Members(v) /\ Members(v) = Tiled(v) \cup DOMAIN v.exceptions
            BY <3>2 DEF Members, Becomes, Tiled
        <3>4. ~orphaned => Exclusive(v)
            BY DEF MarksInv
        <3>5. ~orphaned => Tidy(world')
            BY <3>2, <3>3, <3>4 DEF Tidy, Exclusive, Becomes
        <3> QED BY <2>1, <3>1, <3>5, NewWorldMarks
    <2> QED BY <1>1, <1>4, <2>1 DEF Verify
<1>5. CASE NoteLoss
    BY <1>1, <1>5 DEF NoteLoss
<1> QED BY <1>2, <1>3, <1>4, <1>5 DEF Delivery

\* An observation.
LEMMA ObservationKeepsMarks ==
    ASSUME Assumption, SessionInv, DragInv, MarksInv, Observation
    PROVE  MarksInv'
<1>1. CASE ConvergeDiverges
    BY <1>1, SameWorldMarks DEF ConvergeDiverges, Diverge
<1>2. ASSUME NEW S \in SUBSET Windows, NEW seen \in [S -> [home : Known, sight : Sights]],
             NEW focus \in {{}} \cup {{w} : w \in S}, NEW axis \in [S -> AdmissionAxes],
             Converge(seen, focus, axis)
      PROVE  MarksInv'
    <2> DEFINE next == Pruned(Refocused(Converged(seen, axis), focus))
    <2>1. Framed /\ Sound(world) /\ AtMostOne(focus)
        BY DEF SessionInv, AtMostOne
    <2>2. /\ Sound(next) /\ next.automatic \cup next.override \subseteq Members(next)
          /\ Tidy(world) => Exclusive(next)
        BY <2>1, ConvergeIsSound
    <2>3. world' = Marked(next) /\ UNCHANGED <<desired, orphaned>> /\ desired = {} /\ Idle
        BY <1>2 DEF Converge
    <2> HIDE DEF next
    <2>4. Becomes(next, Tiled(next), DOMAIN next.exceptions, next.automatic, next.override)
        BY <2>2 DEF Becomes
    <2>5. Becomes(world', Tiled(next), DOMAIN next.exceptions, next.automatic, next.override)
        BY <2>3, <2>4, MarkedBecomes
    <2>6. ~orphaned => Tidy(world')
        BY <2>2, <2>3, <2>5, IdleIsTidy DEF Becomes, Tidy, Exclusive, Members, Tiled
    <2> QED BY <2>3, <2>6, NewWorldMarks
<1> QED BY <1>1, <1>2 DEF Observation

\* The changes that need no plan move no window in or out.
LEMMA UnplannedKeepsMarks ==
    ASSUME Assumption, SessionInv, MarksInv, Unplanned
    PROVE  MarksInv'
<1>1. ASSUME NEW w \in Windows, SyncFocus(w)
      PROVE  MarksInv'
    <2>1. world' = [world EXCEPT !.focus = {At(world.windows[w], w)}] /\ w \in Tiled(world)
        BY <1>1 DEF SyncFocus
    <2>2. Becomes(world', Tiled(world), DOMAIN world.exceptions, world.automatic, world.override)
        BY <2>1, SyncedBecomes DEF SessionInv
    <2>3. UNCHANGED <<pending, desired, halted, orphaned>>
        BY <1>1 DEF SyncFocus
    <2> QED BY <2>2, <2>3 DEF MarksInv, Becomes, Exclusive, Tiled, Members
<1>2. ASSUME NEW source \in Key, NEW target \in Key, Relocate(source, target)
      PROVE  MarksInv'
    <2>1. /\ DOMAIN world'.windows = DOMAIN world.windows
          /\ DOMAIN world'.exceptions = DOMAIN world.exceptions
          /\ world'.automatic = world.automatic /\ world'.override = world.override
        BY <1>2, RelocatedParts DEF SessionInv
    <2>2. UNCHANGED <<pending, desired, halted, orphaned>>
        BY <1>2 DEF Relocate
    <2> QED BY <2>1, <2>2 DEF MarksInv, Exclusive, Tiled, Members
<1> QED BY <1>1, <1>2 DEF Unplanned

\* Every step keeps it.
LEMMA MarksInvStep ==
    Assumption /\ SessionInv /\ DragInv /\ MarksInv /\ [Next]_vars => MarksInv'
<1> SUFFICES ASSUME Assumption, SessionInv, DragInv, MarksInv, [Next]_vars
             PROVE  MarksInv'
    OBVIOUS
<1>1. CASE UNCHANGED vars
    BY <1>1 DEF vars, MarksInv, Exclusive, Tiled, Members
<1>2. CASE Lifecycle
    BY <1>2, LifecyclePlans, PlansKeepMarks, UnfloatKeepsMarks
<1>3. CASE Directional
    BY <1>3, DirectionalPlans, PlansKeepMarks
<1>4. CASE Dragging
    BY <1>4, DraggingKeepsMarks
<1>5. CASE Delivery
    BY <1>5, DeliveryKeepsMarks
<1>6. CASE Observation
    BY <1>6, ObservationKeepsMarks
<1>7. CASE Unplanned
    BY <1>7, UnplannedKeepsMarks
<1> QED BY <1>1, <1>2, <1>3, <1>4, <1>5, <1>6, <1>7 DEF Next

\* Until an unfloat plan is withdrawn, the fixed-size marks follow membership
\* and a window the classifier floated is neither a tile nor a tile win, in the
\* committed and in the staged world.
THEOREM Marking ==
    ASSUME Assumption
    PROVE  Spec => []MarksHold
<1>1. Init => SessionInv /\ DragInv /\ MarksInv
    <2> SUFFICES ASSUME Init
                 PROVE  SessionInv /\ DragInv /\ MarksInv
        OBVIOUS
    <2>1. SessionInv /\ DragInv
        BY SessionInvInit DEF Init, DragInv
    <2>2. world.automatic = {} /\ world.override = {} /\ desired = {}
        BY DEF Init, EmptyWorld
    <2> QED BY <2>1, <2>2 DEF MarksInv, Exclusive
<1>2. SessionInv /\ DragInv /\ MarksInv /\ [Next]_vars => SessionInv' /\ DragInv' /\ MarksInv'
    BY SessionInvStep, DragInvStep, MarksInvStep
<1>3. MarksInv => MarksHold
    BY DEF MarksInv, MarksHold, MarksFollowMembership, Exclusive
<1> QED BY <1>1, <1>2, <1>3, PTL DEF Spec

-----------------------------------------------------------------------------
(* The session implements the staged store: what a step commits, stages,   *)
(* withdraws or adopts is what the store's steps do.                       *)

\* What the store's variables are, of the plan and of the staged world.
Accepted == \E p \in pending : p.acked

Offered == {Content(Pruned(v)) : v \in desired}

-----------------------------------------------------------------------------
(* Contents.                                                               *)

\* Contents depend on the domain keys and on the world alone.
LEMMA ContentAfter ==
    ASSUME NEW v, UNCHANGED domains
    PROVE  Content(v)' = Content(v)
BY DEF Content, SlotOf, Tiled

\* The next content is that of the next world.
LEMMA WorldContentAfter ==
    ASSUME UNCHANGED domains
    PROVE  Content(world)' = Content(world')
BY DEF Content, SlotOf, Tiled

\* What is offered next are the contents of the worlds staged next.
LEMMA OfferedAfter ==
    ASSUME UNCHANGED domains
    PROVE  Offered' = {Content(Pruned(v)) : v \in desired'}
<1>1. \A v : Content(Pruned(v))' = Content(Pruned(v))
    BY DEF Content, SlotOf, Tiled, Pruned, Members
<1> QED BY <1>1 DEF Offered

\* Nothing in a content is about focus or its memory.
LEMMA SameContentSame ==
    ASSUME NEW u, NEW v, SameContent(u, v)
    PROVE  Content(u) = Content(v)
BY DEF SameContent, Content, Tiled

\* What a verified plan commits is what it offered.
LEMMA CommittedContent ==
    ASSUME NEW v, Sound(v), NEW kind
    PROVE  Content(Committed(kind, v)) = Content(Pruned(v))
<1>1. Shaped(v)
    BY DEF Sound, Solid
<1>2. SameContent(Committed(kind, v), Pruned(v))
    BY <1>1 DEF Shaped, Committed, Pruned, SameContent, Members
<1> QED BY <1>2, SameContentSame

-----------------------------------------------------------------------------
(* Steps.                                                                  *)

\* A step the store does not see.
LEMMA Unseen ==
    ASSUME UNCHANGED <<domains, revision, desired, halted>>,
           Content(world') = Content(world), Accepted' <=> Accepted
    PROVE  UNCHANGED Store!storeVars
<1>1. UNCHANGED <<revision, halted>> /\ Content(world)' = Content(world) /\ Offered' = Offered
    BY WorldContentAfter, OfferedAfter DEF Offered
<1> QED BY <1>1 DEF Store!storeVars, Offered, Accepted

\* A divergence closes the store, or finds it closed.
LEMMA DivergeCloses ==
    ASSUME DragInv, Diverge, UNCHANGED <<domains, world, revision>>
    PROVE  [Store!StoreNext]_(Store!storeVars)
<1>1. /\ UNCHANGED <<revision>> /\ Content(world)' = Content(world)
      /\ Offered' = {} /\ ~Accepted' /\ halted' = TRUE
    BY WorldContentAfter, OfferedAfter DEF Diverge, Accepted
<1>2. CASE ~halted
    <2>1. Store!Close
        BY <1>1, <1>2 DEF Store!Close, Offered, Accepted
    <2> QED BY <2>1 DEF Store!StoreNext
<1>3. CASE halted
    <2>1. Offered = {} /\ ~Accepted
        BY <1>3 DEF DragInv, Offered, Accepted
    <2>2. UNCHANGED Store!storeVars
        BY <1>1, <1>3, <2>1 DEF Store!storeVars, Offered, Accepted
    <2> QED BY <2>2
<1> QED BY <1>2, <1>3

\* A plan that goes out stages what it offers.
LEMMA PlanStages ==
    ASSUME DragInv, NEW kind, NEW next, StageAs(kind, next), ~halted, pending = {},
           revision < MaxRevision, UNCHANGED <<domains, world, revision, halted>>
    PROVE  [Store!StoreNext]_(Store!storeVars)
<1>1. /\ UNCHANGED <<revision, halted>> /\ Content(world)' = Content(world)
      /\ Offered' = {Content(Pruned(next))} /\ Offered = {}
      /\ ~Accepted /\ ~Accepted'
    BY WorldContentAfter, OfferedAfter DEF StageAs, Accepted, DragInv, Offered
<1>2. Store!Stage
    BY <1>1 DEF Store!Stage, Offered, Accepted
<1> QED BY <1>2 DEF Store!StoreNext

\* A plan that goes out, or a divergence.
LEMMA PlanningImplements ==
    ASSUME DragInv, Planning
    PROVE  [Store!StoreNext]_(Store!storeVars)
<1>0. PICK kind \in {"lifecycle", "move", "focus", "resize"} : \E next : Idle /\ Offer(kind, next)
    BY DEF Planning
<1>1. PICK next : Idle /\ Offer(kind, next)
    BY <1>0
<1>2. CASE revision < MaxRevision /\ StageAs(kind, next) /\ UNCHANGED <<drag, halted>>
    BY <1>1, <1>2, PlanStages DEF Offer, Idle
<1>3. CASE Diverge
    BY <1>1, <1>3, DivergeCloses DEF Offer
<1> QED BY <1>1, <1>2, <1>3 DEF Offer

\* A drag is not visible before its drop is planned.
LEMMA DraggingImplements ==
    ASSUME DragInv, Dragging
    PROVE  [Store!StoreNext]_(Store!storeVars)
<1>1. CASE CancelDrag \/ \E w \in Windows : BeginDrag(w)
    BY <1>1, Unseen DEF CancelDrag, BeginDrag, Accepted
<1>2. CASE DropDrag
    <2>1. UNCHANGED <<domains, world, stack, revision, orphaned>> /\ ~halted /\ pending = {}
        BY <1>2 DEF DropDrag
    <2>2. CASE UNCHANGED <<pending, desired, halted>>
        BY <2>1, <2>2, Unseen DEF Accepted
    <2>3. CASE Diverge
        BY <2>1, <2>3, DivergeCloses
    <2>4. ASSUME NEW next, StageAs("drag", next), revision < MaxRevision, UNCHANGED halted
          PROVE  [Store!StoreNext]_(Store!storeVars)
        BY <2>1, <2>4, PlanStages
    <2> QED BY <1>2, <2>2, <2>3, <2>4 DEF DropDrag
<1> QED BY <1>1, <1>2 DEF Dragging

\* The second half of a plan is the store's.
LEMMA DeliveryImplements ==
    ASSUME SessionInv, DragInv, Delivery
    PROVE  [Store!StoreNext]_(Store!storeVars)
<1>1. ASSUME Diverge, UNCHANGED <<domains, world, stack, revision, orphaned>>
      PROVE  [Store!StoreNext]_(Store!storeVars)
    BY <1>1, DivergeCloses
<1>2. CASE Acknowledge
    <2>1. UNCHANGED <<domains, world, stack, revision, orphaned>>
        BY <1>2 DEF Acknowledge
    <2>2. ASSUME NEW p \in pending, pending' = {[p EXCEPT !.acked = TRUE]},
                 UNCHANGED <<desired, drag, halted>>
          PROVE  [Store!StoreNext]_(Store!storeVars)
        <3>1. [p EXCEPT !.acked = TRUE].acked
            BY DEF SessionInv
        <3>2. ~halted /\ Offered # {}
            BY <2>2 DEF DragInv, Offered
        <3>3. /\ UNCHANGED <<revision, halted>> /\ Content(world)' = Content(world)
              /\ Offered' = Offered /\ Accepted'
            BY <2>1, <2>2, <3>1, WorldContentAfter, OfferedAfter DEF Accepted, Offered
        <3>4. Store!Accept
            BY <3>2, <3>3 DEF Store!Accept, Offered, Accepted
        <3> QED BY <3>4 DEF Store!StoreNext
    <2> QED BY <1>1, <1>2, <2>1, <2>2 DEF Acknowledge
<1>3. CASE CancelUnacked
    <2>1. /\ UNCHANGED <<domains, world, stack, revision, drag, halted>>
          /\ pending' = {} /\ desired' = {} /\ \E p \in pending : ~p.acked
        BY <1>3 DEF CancelUnacked
    <2>2. ~halted /\ Offered # {} /\ ~Accepted
        BY <2>1 DEF DragInv, Offered, Accepted
    <2>3. /\ UNCHANGED <<revision, halted>> /\ Content(world)' = Content(world)
          /\ Offered' = {} /\ ~Accepted'
        BY <2>1, WorldContentAfter, OfferedAfter DEF Accepted
    <2>4. Store!Withdraw
        BY <2>2, <2>3 DEF Store!Withdraw, Offered, Accepted
    <2> QED BY <2>4 DEF Store!StoreNext
<1>4. CASE Verify
    <2>1. ASSUME NEW p \in pending, p.acked, Commit(p.kind),
                 UNCHANGED <<drag, halted, domains, orphaned>>
          PROVE  [Store!StoreNext]_(Store!storeVars)
        <3>1. PICK v \in desired : world' = Committed(p.kind, v)
            BY <2>1 DEF Commit
        <3>2. desired = {v} /\ ~halted /\ Accepted
            BY <2>1 DEF DragInv, Accepted
        <3>3. Content(world)' = Content(Pruned(v))
            BY <2>1, <3>1, WorldContentAfter, CommittedContent DEF SessionInv
        <3>4. Offered' = {} /\ ~Accepted' /\ revision' = revision + 1 /\ UNCHANGED halted
            BY <2>1, OfferedAfter DEF Commit, Accepted
        <3>5. Offered = {Content(world)'}
            BY <3>2, <3>3 DEF Offered
        <3>6. Store!Settle
            BY <3>2, <3>4, <3>5 DEF Store!Settle, Offered, Accepted
        <3> QED BY <3>6 DEF Store!StoreNext
    <2> QED BY <1>1, <1>4, <2>1 DEF Verify
<1>5. CASE NoteLoss
    BY <1>1, <1>5 DEF NoteLoss
<1> QED BY <1>2, <1>3, <1>4, <1>5 DEF Delivery

-----------------------------------------------------------------------------
(* A content determines the session it is of, up to focus.                 *)

\* A domain's slot is its place.
LEMMA SlotHolds ==
    ASSUME NEW k \in Known
    PROVE  SlotOf(k) \in DOMAIN domains /\ domains[SlotOf(k)] = k
BY DEF SlotOf, Known

\* The trees of the domains are all the trees there are.
LEMMA ContentTrees ==
    ASSUME Framed, NEW u, NEW v, Sound(u), Sound(v), Content(u) = Content(v)
    PROVE  u.trees = v.trees
<1>1. \A x \in {u, v} : /\ x.trees \in [Key -> Trees]
                        /\ \A k \in Key \ Known : x.trees[k] = Empty
    <2> SUFFICES ASSUME NEW x, Sound(x)
                 PROVE  /\ x.trees \in [Key -> Trees]
                        /\ \A k \in Key \ Known : x.trees[k] = Empty
        OBVIOUS
    <2>1. Planted(x.trees, x.windows)
        BY DEF Sound, Solid
    <2>2. ASSUME NEW k \in Key \ Known
          PROVE  x.trees[k] = Empty
        <3>1. x.trees[k] \in Trees /\ Sturdy(x.trees[k]) /\ x.trees[k].leaves = {}
            BY <2>1 DEF Planted
        <3> QED BY <3>1 DEF Sturdy, Several, Trees, Empty
    <2> QED BY <2>1, <2>2 DEF Planted
<1>2. \A i \in DOMAIN domains : u.trees[domains[i]] = v.trees[domains[i]]
    <2>1. Content(u).trees = Content(v).trees
        OBVIOUS
    <2>2. [i \in DOMAIN domains |-> u.trees[domains[i]]]
              = [i \in DOMAIN domains |-> v.trees[domains[i]]]
        BY <2>1 DEF Content
    <2> QED BY <2>2
<1>3. \A k \in Known : u.trees[k] = v.trees[k]
    BY <1>2 DEF Known
<1>4. \A k \in Key : u.trees[k] = v.trees[k]
    BY <1>1, <1>3
<1> QED BY <1>1, <1>4

\* The slots of the tiles give their links.
LEMMA ContentWindows ==
    ASSUME Framed, NEW u, NEW v, Sound(u), Sound(v), Content(u) = Content(v)
    PROVE  u.windows = v.windows
<1>1. \A x \in {u, v} : x.windows \in [Tiled(x) -> Known]
    BY DEF Sound, Solid, Planted, Tiled
<1>2. Content(u).tiled = Content(v).tiled
    OBVIOUS
<1>3. [w \in Tiled(u) |-> SlotOf(u.windows[w])] = [w \in Tiled(v) |-> SlotOf(v.windows[w])]
    BY <1>2 DEF Content
<1>4. Tiled(u) = Tiled(v)
    BY <1>3
<1>5. \A w \in Tiled(u) : SlotOf(u.windows[w]) = SlotOf(v.windows[w])
    BY <1>3, <1>4
<1>6. \A w \in Tiled(u) : u.windows[w] = v.windows[w]
    BY <1>1, <1>4, <1>5, SlotHolds
<1> QED BY <1>1, <1>4, <1>6

\* The slots of the floats and their flags give their records.
LEMMA ContentExceptions ==
    ASSUME Framed, NEW u, NEW v, Sound(u), Sound(v), Content(u) = Content(v)
    PROVE  u.exceptions = v.exceptions
<1> DEFINE S(x, w) == SlotOf(x.exceptions[w].home)
           G(x, w) == x.exceptions[w].flags
<1>1. \A x \in {u, v} :
          x.exceptions \in [DOMAIN x.exceptions -> [home : Known, flags : SUBSET Flags]]
    <2> SUFFICES ASSUME NEW x, Sound(x)
                 PROVE  x.exceptions \in
                            [DOMAIN x.exceptions -> [home : Known, flags : SUBSET Flags]]
        OBVIOUS
    <2>1. Homed(x.exceptions)
        BY DEF Sound, Solid
    <2>2. /\ x.exceptions \in [DOMAIN x.exceptions -> Exceptions]
          /\ \A w \in DOMAIN x.exceptions : x.exceptions[w].home \in Known
        BY <2>1 DEF Homed
    <2> QED BY <2>2 DEF Exceptions
<1>2. Content(u).floating = Content(v).floating
    OBVIOUS
<1>3. [w \in DOMAIN u.exceptions |-> <<S(u, w), G(u, w)>>]
          = [w \in DOMAIN v.exceptions |-> <<S(v, w), G(v, w)>>]
    BY <1>2 DEF Content
<1> HIDE DEF S, G
<1>4. DOMAIN u.exceptions = DOMAIN v.exceptions
    BY <1>3
<1>5. \A w \in DOMAIN u.exceptions : S(u, w) = S(v, w) /\ G(u, w) = G(v, w)
    <2> SUFFICES ASSUME NEW w \in DOMAIN u.exceptions
                 PROVE  S(u, w) = S(v, w) /\ G(u, w) = G(v, w)
        OBVIOUS
    <2>1. <<S(u, w), G(u, w)>> = <<S(v, w), G(v, w)>>
        BY <1>3, <1>4
    <2> QED BY <2>1
<1>6. \A w \in DOMAIN u.exceptions :
          /\ u.exceptions[w].home = v.exceptions[w].home
          /\ u.exceptions[w].flags = v.exceptions[w].flags
    BY <1>1, <1>4, <1>5, SlotHolds DEF S, G
<1>7. \A w \in DOMAIN u.exceptions : u.exceptions[w] = v.exceptions[w]
    BY <1>1, <1>4, <1>6
<1> QED BY <1>1, <1>4, <1>7

\* A content determines its world, but for focus and its memory.
LEMMA ContentDetermines ==
    ASSUME Framed, NEW u, NEW v, Sound(u), Sound(v), Content(u) = Content(v)
    PROVE  SameContent(u, v)
<1>1. Content(u).automatic = Content(v).automatic /\ Content(u).override = Content(v).override
    OBVIOUS
<1>2. u.automatic = v.automatic /\ u.override = v.override
    BY <1>1 DEF Content
<1> QED BY <1>2, ContentTrees, ContentWindows, ContentExceptions DEF SameContent

-----------------------------------------------------------------------------
(* Steps without a plan, and the whole.                                    *)

\* An observation adopts a changed world, or leaves the content as it is.
LEMMA ObservationImplements ==
    ASSUME Assumption, SessionInv, SessionInv', DragInv, Observation
    PROVE  [Store!StoreNext]_(Store!storeVars)
<1>1. CASE ConvergeDiverges
    BY <1>1, DivergeCloses DEF ConvergeDiverges
<1>2. ASSUME NEW S \in SUBSET Windows, NEW seen \in [S -> [home : Known, sight : Sights]],
             NEW focus \in {{}} \cup {{w} : w \in S}, NEW axis \in [S -> AdmissionAxes],
             Converge(seen, focus, axis)
      PROVE  [Store!StoreNext]_(Store!storeVars)
    <2> DEFINE next == Pruned(Refocused(Converged(seen, axis), focus))
    <2>1. Framed /\ Sound(world) /\ AtMostOne(focus)
        BY DEF SessionInv, AtMostOne
    <2>2. Sound(next)
        BY <2>1, ConvergeIsSound
    <2>3. /\ SameContent(next, world) \/ revision < MaxRevision
          /\ world' = Marked(next)
          /\ revision' = IF SameContent(next, world) THEN revision ELSE revision + 1
          /\ UNCHANGED <<domains, pending, desired, drag, halted, orphaned>>
          /\ pending = {} /\ desired = {} /\ ~halted
        BY <1>2 DEF Converge, Idle
    <2> HIDE DEF next
    <2>4. SameContent(Marked(next), next)
        BY <2>2 DEF Sound, Solid, Shaped, Marked, SameContent
    <2>5. Content(world') = Content(next)
        BY <2>3, <2>4, SameContentSame
    <2>6. CASE SameContent(next, world)
        <3>1. Content(world') = Content(world) /\ UNCHANGED revision
            BY <2>3, <2>5, <2>6, SameContentSame
        <3>2. Accepted' <=> Accepted
            BY <2>3 DEF Accepted
        <3> QED BY <2>3, <3>1, <3>2, Unseen
    <2>7. CASE ~SameContent(next, world)
        <3>1. Content(next) # Content(world)
            BY <2>1, <2>2, <2>7, ContentDetermines
        <3>2. Content(world)' # Content(world)
            BY <2>3, <2>5, <3>1, WorldContentAfter
        <3>3. Offered = {} /\ Offered' = Offered /\ (Accepted' <=> Accepted)
            BY <2>3, OfferedAfter DEF Offered, Accepted
        <3>4. Store!Adopt
            BY <2>3, <2>7, <3>2, <3>3 DEF Store!Adopt, Offered, Accepted
        <3> QED BY <3>4 DEF Store!StoreNext
    <2> QED BY <2>6, <2>7
<1> QED BY <1>1, <1>2 DEF Observation

\* The focus is not part of the content.
LEMMA SyncImplements ==
    ASSUME SessionInv, NEW w \in Windows, SyncFocus(w)
    PROVE  UNCHANGED Store!storeVars
<1> DEFINE v == [world EXCEPT !.focus = {At(world.windows[w], w)}]
<1>1. world' = v /\ UNCHANGED <<domains, revision, pending, desired, drag, halted, orphaned>>
    BY DEF SyncFocus
<1>2. Shaped(world)
    BY DEF SessionInv, Sound, Solid
<1>3. SameContent(v, world)
    BY <1>2 DEF Shaped, SameContent
<1> HIDE DEF v
<1>4. Content(world') = Content(world) /\ (Accepted' <=> Accepted)
    BY <1>1, <1>3, SameContentSame DEF Accepted
<1> QED BY <1>1, <1>4, Unseen

\* Places that hold j in one sequence and k in the other have the same first choice.
LEMMA SamePlace ==
    ASSUME NEW d, NEW e, NEW j, NEW k, DOMAIN d = DOMAIN e,
           \A i \in DOMAIN d : d[i] = j <=> e[i] = k
    PROVE  (CHOOSE i \in DOMAIN d : d[i] = j) = (CHOOSE i \in DOMAIN e : e[i] = k)
OBVIOUS

\* A domain keeps its slot when it moves to another output, and its trees, tiles
\* and floats keep theirs.
LEMMA RelocateImplements ==
    ASSUME SessionInv, NEW source \in Key, NEW target \in Key, Relocate(source, target)
    PROVE  UNCHANGED Store!storeVars
<1> DEFINE m(k) == IF k = source THEN target ELSE k
           T == Swapped(world.trees, source, target)
           W == [w \in DOMAIN world.windows |-> m(world.windows[w])]
           E == [w \in DOMAIN world.exceptions |->
                    [home |-> m(world.exceptions[w].home), flags |-> world.exceptions[w].flags]]
           F == {At(m(f.domain), f.leaf) : f \in world.focus}
           L == Swapped(world.last, source, target)
<1>1. world' = [world EXCEPT !.trees = T, !.windows = W, !.exceptions = E,
                             !.focus = F, !.last = L]
    BY DEF Relocate
<1>2. /\ source \in Known /\ target \notin Known /\ source # target
      /\ domains' = [i \in DOMAIN domains |-> m(domains[i])]
      /\ pending = {} /\ desired = {}
      /\ UNCHANGED <<revision, pending, desired, drag, halted, orphaned>>
    BY DEF Relocate, Idle
<1>3. /\ Framed /\ Sound(world) /\ Shaped(world)
      /\ Planted(world.trees, world.windows) /\ Homed(world.exceptions)
    BY DEF SessionInv, Sound, Solid
<1>4. /\ DOMAIN domains' = DOMAIN domains
      /\ \A i \in DOMAIN domains : domains[i] \in Known /\ domains'[i] = m(domains[i])
    BY <1>2 DEF Known
<1>5. ASSUME NEW k \in Known
      PROVE  (CHOOSE i \in DOMAIN domains' : domains'[i] = m(k)) = SlotOf(k)
    <2>1. \A i \in DOMAIN domains : domains'[i] = m(k) <=> domains[i] = k
        BY <1>2, <1>4
    <2> HIDE DEF m
    <2> QED BY <1>4, <2>1, SamePlace DEF SlotOf
<1>6. \A i \in DOMAIN domains : T[domains'[i]] = world.trees[domains[i]]
    <2>1. /\ T[target] = world.trees[source]
          /\ \A k \in Key : k # source /\ k # target => T[k] = world.trees[k]
        BY <1>2, <1>3 DEF Swapped, Planted
    <2>2. Known \subseteq Key
        BY <1>3, KnownAreKeys
    <2> HIDE DEF T
    <2> QED BY <1>2, <1>4, <2>1, <2>2
<1>7. /\ DOMAIN W = DOMAIN world.windows
      /\ \A w \in DOMAIN W : world.windows[w] \in Known /\ W[w] = m(world.windows[w])
    BY <1>3 DEF Planted
<1>8. /\ DOMAIN E = DOMAIN world.exceptions
      /\ \A w \in DOMAIN E : /\ world.exceptions[w].home \in Known
                             /\ E[w].home = m(world.exceptions[w].home)
                             /\ E[w].flags = world.exceptions[w].flags
    BY <1>3 DEF Homed
<1> HIDE DEF m, T, W, E, F, L
<1>9. /\ world'.trees = T /\ world'.windows = W /\ world'.exceptions = E
      /\ world'.automatic = world.automatic /\ world'.override = world.override
    BY <1>1, <1>3 DEF Shaped
<1>10. [i \in DOMAIN domains' |-> world'.trees[domains'[i]]]
           = [i \in DOMAIN domains |-> world.trees[domains[i]]]
    BY <1>4, <1>6, <1>9
<1>11. [w \in DOMAIN world'.windows |->
            CHOOSE i \in DOMAIN domains' : domains'[i] = world'.windows[w]]
           = [w \in DOMAIN world.windows |-> SlotOf(world.windows[w])]
    BY <1>5, <1>7, <1>9
<1>12. [w \in DOMAIN world'.exceptions |->
            <<CHOOSE i \in DOMAIN domains' : domains'[i] = world'.exceptions[w].home,
              world'.exceptions[w].flags>>]
           = [w \in DOMAIN world.exceptions |->
                 <<SlotOf(world.exceptions[w].home), world.exceptions[w].flags>>]
    BY <1>5, <1>8, <1>9
<1>13. Content(world)' = Content(world)
    BY <1>9, <1>10, <1>11, <1>12 DEF Content, Tiled, SlotOf
<1>14. Offered = {} /\ Offered' = {} /\ (Accepted' <=> Accepted)
    BY <1>2 DEF Offered, Accepted
<1> QED BY <1>2, <1>13, <1>14 DEF Store!storeVars, Offered, Accepted

\* An unfloat plan is staged.
LEMMA UnfloatStages ==
    ASSUME SessionInv, NEW w \in Windows, NEW axis \in AdmissionAxes, Unfloated(w, axis)
    PROVE  StagesUnfloat
<1> DEFINE E == Without(world.exceptions, w)
<1>1. /\ w \in DOMAIN world.exceptions /\ world' = [world EXCEPT !.exceptions = E]
      /\ pending = {} /\ (\E p \in pending' : p.kind = "unfloat")
      /\ UNCHANGED <<domains, revision, halted>>
    BY DEF Unfloated, Idle, StageAs
<1>2. DOMAIN E = DOMAIN world.exceptions \ {w}
      /\ \A x \in DOMAIN E : E[x] = world.exceptions[x]
    BY DEF Without
<1> HIDE DEF E
<1>3. /\ world'.trees = world.trees /\ world'.windows = world.windows
      /\ world'.exceptions = E
      /\ world'.automatic = world.automatic /\ world'.override = world.override
    BY <1>1 DEF SessionInv, Sound, Solid, Shaped
<1> DEFINE Entry(x) == <<SlotOf(world.exceptions[x].home), world.exceptions[x].flags>>
           Floating == [x \in DOMAIN world.exceptions |-> Entry(x)]
           Left == [x \in DOMAIN E |-> <<SlotOf(E[x].home), E[x].flags>>]
<1>4. Left = Without(Floating, w)
    <2>1. \A x \in DOMAIN E : <<SlotOf(E[x].home), E[x].flags>> = Entry(x)
        BY <1>2
    <2>2. \A x \in DOMAIN E : x \in DOMAIN world.exceptions
        BY <1>2
    <2> HIDE DEF Entry
    <2> QED BY <1>2, <2>1, <2>2 DEF Without
<1>5. Content(world)' = [Content(world) EXCEPT !.floating = Left]
    <2>1. Content(world') = [Content(world) EXCEPT !.floating = Left]
        <3>1. Tiled(world') = Tiled(world)
            BY <1>3 DEF Tiled
        <3> DEFINE T == [i \in DOMAIN domains |-> world.trees[domains[i]]]
                   W == [x \in Tiled(world) |-> SlotOf(world.windows[x])]
        <3>2. /\ [i \in DOMAIN domains |-> world'.trees[domains[i]]] = T
              /\ [x \in Tiled(world') |-> SlotOf(world'.windows[x])] = W
              /\ [x \in DOMAIN world'.exceptions |->
                     <<SlotOf(world'.exceptions[x].home), world'.exceptions[x].flags>>] = Left
            BY <1>3, <3>1
        <3>3. Content(world) = [trees |-> T, tiled |-> W, floating |-> Floating,
                                automatic |-> world.automatic, override |-> world.override]
            BY DEF Content
        <3> HIDE DEF T, W, Left, Floating
        <3>4. Content(world') = [trees |-> T, tiled |-> W, floating |-> Left,
                                 automatic |-> world.automatic, override |-> world.override]
            BY <1>3, <3>2 DEF Content
        <3> QED BY <3>3, <3>4
    <2> HIDE DEF Left
    <2> QED BY <1>1, <2>1, WorldContentAfter
<1>6. Content(world).floating = Floating
    BY DEF Content
<1> HIDE DEF Left, Floating
<1>7. Content(world)' = [Content(world) EXCEPT !.floating = Without(@, w)]
    BY <1>4, <1>5, <1>6
<1> QED BY <1>1, <1>7 DEF StagesUnfloat

\* Every step is a step of the store, stutters there, or stages an unfloat plan.
LEMMA StepImplements ==
    Assumption /\ SessionInv /\ SessionInv' /\ DragInv /\ [Next]_vars =>
        [StagesUnfloat \/ [Store!StoreNext]_(Store!storeVars)]_vars
<1> SUFFICES ASSUME Assumption, SessionInv, SessionInv', DragInv, Next
             PROVE  StagesUnfloat \/ [Store!StoreNext]_(Store!storeVars)
    OBVIOUS
<1>1. CASE Lifecycle
    <2>1. CASE Planning
        BY <2>1, PlanningImplements
    <2> QED BY <1>1, <2>1, LifecyclePlans, UnfloatStages
<1>2. CASE Directional
    BY <1>2, DirectionalPlans, PlanningImplements
<1>3. CASE Dragging
    BY <1>3, DraggingImplements
<1>4. CASE Delivery
    BY <1>4, DeliveryImplements
<1>5. CASE Observation
    BY <1>5, ObservationImplements
<1>6. CASE Unplanned
    BY <1>6, SyncImplements, RelocateImplements DEF Unplanned
<1> QED BY <1>1, <1>2, <1>3, <1>4, <1>5, <1>6 DEF Next

\* The session implements the staged store: a world becomes visible when its plan
\* is verified or never, each change takes one revision, and only the float that
\* an unfloat plan gives up is gone before.
THEOREM Implementation ==
    ASSUME Assumption
    PROVE  Spec => ImplementsStagedStore
<1>1. Init => Store!StoreInit
    BY DEF Init, Store!StoreInit
<1>2. Init => SessionInv /\ DragInv
    BY SessionInvInit DEF Init, DragInv
<1>3. SessionInv /\ DragInv /\ [Next]_vars => SessionInv' /\ DragInv'
    BY SessionInvStep, DragInvStep
<1>4. SessionInv /\ SessionInv' /\ DragInv /\ [Next]_vars =>
          [StagesUnfloat \/ [Store!StoreNext]_(Store!storeVars)]_vars
    BY StepImplements
<1> QED BY <1>1, <1>2, <1>3, <1>4, PTL DEF Spec, ImplementsStagedStore

-----------------------------------------------------------------------------
(* Shapes.                                                                 *)

\* The groups of t that tell leaves of S apart, as S sees them.
Grouping(t, S) == {N \in {g.members \cap S : g \in t.groups} : Several(N)}

\* Two trees order and group the leaves of S alike.
Alike(t, u, S) ==
    /\ \A a, b \in S : Precedes(t, a, b) <=> Precedes(u, a, b)
    /\ Grouping(t, S) = Grouping(u, S)

\* What the two trees share, apart from what is gone, is where it was.
Keeps(t, u, gone) == \A S \in SUBSET ((t.leaves \cap u.leaves) \ gone) : Alike(t, u, S)

\* A tree is like itself, what is alike twice is alike, and nothing is at stake
\* without leaves.
LEMMA AlikeRules ==
    /\ \A t, S : Alike(t, t, S)
    /\ \A t, u, T, S : Alike(t, u, S) /\ Alike(u, T, S) => Alike(t, T, S)
    /\ \A t, u : Alike(t, u, {})
<1>1. \A t : Grouping(t, {}) = {}
    BY DEF Grouping, Several
<1> QED BY <1>1 DEF Alike

\* The leaves that stay are where they were.
LEMMA RemovedAlike ==
    ASSUME Assumption, NEW t \in Trees, Sturdy(t), NEW gone,
           NEW S \in SUBSET (t.leaves \ gone)
    PROVE  Alike(t, RemovedAll(t, gone), S)
<1> DEFINE T == RemovedAll(t, gone)
           Left(g) == [g EXCEPT !.members = @ \ gone]
           Kin == {g \in t.groups : Survives(t, g, gone)}
<1>1. /\ T.before = {p \in t.before : p[1] \notin gone /\ p[2] \notin gone}
      /\ T.groups = {Left(g) : g \in Kin}
    BY DEF RemovedAll
<1>2. \A g \in t.groups : Left(g).members = g.members \ gone
    BY DEF Trees, Groups
<1> HIDE DEF T, Left
<1>3. \A a, b \in S : Precedes(t, a, b) <=> Precedes(T, a, b)
    BY <1>1 DEF Precedes
<1>4. \A g \in Kin : Left(g).members \cap S = g.members \cap S
    BY <1>2
<1>5. Grouping(T, S) \subseteq Grouping(t, S)
    BY <1>1, <1>4 DEF Grouping
<1>6. ASSUME NEW g \in t.groups, Several(g.members \cap S)
      PROVE  g.members \cap S \in Grouping(T, S)
    <2>1. Several(g.members \ gone)
        BY <1>6 DEF Several
    <2>2. PICK h \in t.groups : Survives(t, h, gone) /\ h.members \ gone = g.members \ gone
        BY <2>1, SomeGroupSurvives
    <2>3. h \in Kin /\ Left(h) \in T.groups
        BY <1>1, <2>2
    <2>4. Left(h).members \cap S = g.members \cap S
        BY <1>4, <2>2, <2>3
    <2> QED BY <1>6, <2>3, <2>4 DEF Grouping
<1>7. Grouping(t, S) \subseteq Grouping(T, S)
    BY <1>6 DEF Grouping
<1> QED BY <1>3, <1>5, <1>7 DEF Alike, T

\* A leaf that enters next to a node leaves the others where they were.
LEMMA PlacedAlike ==
    ASSUME NEW t \in Trees, Sturdy(t), NEW x \in Windows, x \notin t.leaves,
           NEW s \in Nodes(t), NEW after \in BOOLEAN, NEW wrap \in BOOLEAN,
           NEW axis \in Axes, NEW S \in SUBSET t.leaves
    PROVE  Alike(t, Place(t, x, s, after, wrap, axis), S)
<1> DEFINE T == Place(t, x, s, after, wrap, axis)
           W == IF wrap THEN {[members |-> s \cup {x}, axis |-> axis]} ELSE {}
<1>1. /\ T.groups = {Grown(g, x, s) : g \in t.groups} \cup W
      /\ \A a, b \in t.leaves : Precedes(T, a, b) <=> Precedes(t, a, b)
    BY PlaceParts
<1>2. \A g \in t.groups : Grown(g, x, s).members \cap S = g.members \cap S
    BY DEF Grown, Trees, Groups
<1>3. \A g \in W : g.members \cap S = s \cap S
    OBVIOUS
<1> HIDE DEF T, W
<1>4. ASSUME Several(s \cap S)
      PROVE  s \cap S \in Grouping(t, S)
    <2>1. PICK g \in t.groups : s = g.members
        BY <1>4 DEF Nodes, Several
    <2> QED BY <1>4, <2>1 DEF Grouping
<1>5. Grouping(T, S) \subseteq Grouping(t, S)
    <2> SUFFICES ASSUME NEW g \in T.groups, Several(g.members \cap S)
                 PROVE  g.members \cap S \in Grouping(t, S)
        BY DEF Grouping
    <2>1. CASE g \in W
        BY <1>3, <1>4, <2>1
    <2>2. CASE g \notin W
        BY <1>1, <1>2, <2>2 DEF Grouping
    <2> QED BY <2>1, <2>2
<1>6. Grouping(t, S) \subseteq Grouping(T, S)
    <2> SUFFICES ASSUME NEW g \in t.groups, Several(g.members \cap S)
                 PROVE  g.members \cap S \in Grouping(T, S)
        BY DEF Grouping
    <2>1. Grown(g, x, s) \in T.groups
        BY <1>1
    <2> QED BY <1>2, <2>1 DEF Grouping
<1> QED BY <1>1, <1>5, <1>6 DEF Alike, T

\* An admission puts its window at the focused leaf or at the root.
LEMMA AdmittedAlike ==
    ASSUME NEW t \in Trees, Sturdy(t), NEW x \in Windows, x \notin t.leaves,
           NEW focus, focus = {} \/ \E w \in t.leaves : focus = {w},
           NEW axis \in Axes, NEW S \in SUBSET t.leaves
    PROVE  Alike(t, Admitted(t, x, focus, axis), S)
<1>1. CASE t.leaves = {}
    <2>1. S = {}
        BY <1>1
    <2> QED BY <2>1, AlikeRules
<1>2. CASE t.leaves # {}
    <2> DEFINE s == IF focus = {} THEN t.leaves ELSE focus
    <2>1. s \in Nodes(t)
        <3>1. t.leaves \in Nodes(t)
            BY <1>2, RootIsNode
        <3> QED BY <3>1 DEF Nodes
    <2>2. Admitted(t, x, focus, axis) = Place(t, x, s, TRUE, TRUE, axis)
        BY <1>2 DEF Admitted
    <2> HIDE DEF s
    <2>3. \A after, wrap \in BOOLEAN : Alike(t, Place(t, x, s, after, wrap, axis), S)
        BY <2>1, PlacedAlike
    <2> QED BY <2>2, <2>3
<1> QED BY <1>1, <1>2

\* A group is turned.
LEMMA FlippedAlike ==
    ASSUME NEW t \in Trees, NEW x, NEW S
    PROVE  Alike(t, Flipped(t, x), S)
<1> DEFINE T == Flipped(t, x)
           Inner(g) == x \in g.members
                       /\ \A h \in t.groups : x \in h.members => g.members \subseteq h.members
           Turn(g) == IF Inner(g) THEN [g EXCEPT !.axis = Turned(@)] ELSE g
<1>1. T.before = t.before /\ T.groups = {Turn(g) : g \in t.groups}
    BY DEF Flipped, Trees
<1>2. \A g \in t.groups : Turn(g).members = g.members
    BY DEF Trees, Groups
<1> HIDE DEF T, Turn
<1>3. Grouping(T, S) = Grouping(t, S)
    BY <1>1, <1>2 DEF Grouping
<1> QED BY <1>1, <1>3 DEF Alike, Precedes, T

\* A leaf that is taken out and put back leaves the others where they were.
LEMMA RearrangedAlike ==
    ASSUME Assumption, NEW t \in Trees, Sturdy(t), NEW x \in t.leaves,
           NEW T \in Rearranged(t, x), NEW S \in SUBSET (t.leaves \ {x})
    PROVE  Alike(t, T, S)
<1> DEFINE rest == Removed(t, x)
<1>1. rest \in Trees /\ Sturdy(rest) /\ rest.leaves = t.leaves \ {x}
    BY RemovedAllKeeps DEF Removed
<1>2. x \in Windows
    BY DEF Trees
<1>3. Alike(t, rest, S)
    BY RemovedAlike DEF Removed
<1>4. PICK p \in Nodes(rest) \X BOOLEAN, after \in BOOLEAN, axis \in Axes :
          T = Place(rest, x, p[1], after, p[2], axis)
    BY DEF Rearranged
<1> HIDE DEF rest
<1>5. p[1] \in Nodes(rest) /\ p[2] \in BOOLEAN /\ x \notin rest.leaves /\ S \in SUBSET rest.leaves
    BY <1>1
<1>6. Alike(rest, T, S)
    BY <1>1, <1>2, <1>4, <1>5, PlacedAlike
<1> QED BY <1>3, <1>6, AlikeRules

\* What the property compares is likeness.
LEMMA AlikeShapes ==
    ASSUME Assumption, NEW t \in Trees, Sturdy(t), NEW u \in Trees, Sturdy(u),
           NEW S \in SUBSET (t.leaves \cap u.leaves), Alike(t, u, S)
    PROVE  Shape(t, S) = Shape(u, S)
<1>1. ASSUME NEW x \in Trees, Sturdy(x), S \subseteq x.leaves
      PROVE  Shape(x, S) = <<{p \in S \X S : Precedes(x, p[1], p[2])}, Grouping(x, S)>>
    <2> DEFINE gone == x.leaves \ S
               rest == RemovedAll(x, gone)
    <2>1. rest \in Trees /\ Sturdy(rest) /\ rest.leaves = S
        <3>1. x.leaves \ gone = S
            BY <1>1
        <3> HIDE DEF gone
        <3> QED BY <1>1, <3>1, RemovedAllKeeps
    <2>2. Alike(x, rest, S)
        <3>1. S \in SUBSET (x.leaves \ gone)
            BY <1>1
        <3> HIDE DEF gone
        <3> QED BY <1>1, <3>1, RemovedAlike
    <2>3. Shape(x, S) = <<rest.before, {g.members : g \in rest.groups}>>
        BY DEF Shape
    <2> HIDE DEF rest
    <2>4. rest.before = {p \in S \X S : Precedes(x, p[1], p[2])}
        <3>1. rest.before \subseteq S \X S
            BY <2>1 DEF Sturdy
        <3>2. \A p \in S \X S : p = <<p[1], p[2]>> /\ p[1] \in S /\ p[2] \in S
            OBVIOUS
        <3>3. \A p \in S \X S : p \in rest.before <=> Precedes(x, p[1], p[2])
            BY <2>2, <3>2 DEF Alike, Precedes
        <3> QED BY <3>1, <3>3
    <2>5. {g.members : g \in rest.groups} = Grouping(rest, S)
        <3>1. \A g \in rest.groups : g.members \cap S = g.members /\ Several(g.members)
            BY <2>1 DEF Sturdy
        <3> QED BY <3>1 DEF Grouping
    <2> QED BY <2>2, <2>3, <2>4, <2>5 DEF Alike
<1>2. S \subseteq t.leaves /\ S \subseteq u.leaves
    OBVIOUS
<1>3. /\ Shape(t, S) = <<{p \in S \X S : Precedes(t, p[1], p[2])}, Grouping(t, S)>>
      /\ Shape(u, S) = <<{p \in S \X S : Precedes(u, p[1], p[2])}, Grouping(u, S)>>
    BY <1>1, <1>2
<1>4. {p \in S \X S : Precedes(t, p[1], p[2])} = {p \in S \X S : Precedes(u, p[1], p[2])}
    BY DEF Alike
<1> QED BY <1>3, <1>4 DEF Alike

-----------------------------------------------------------------------------
(* Worlds.                                                                 *)

\* No domain's tiles are disturbed, apart from those that are gone.
Undisturbed(v, u, gone) == \A k \in Key : Keeps(v.trees[k], u.trees[k], gone)

\* Worlds that share their trees.
LEMMA SameTrees ==
    ASSUME NEW v, NEW u, u.trees = v.trees, NEW gone
    PROVE  Undisturbed(v, u, gone)
BY AlikeRules DEF Undisturbed, Keeps

\* Only the trees count.
LEMMA SameTreesKeep ==
    ASSUME NEW v, NEW u, NEW y, y.trees = u.trees, NEW gone, Undisturbed(v, u, gone)
    PROVE  Undisturbed(v, y, gone)
BY DEF Undisturbed

\* One more leaf may be given up.
LEMMA GivesUpMore ==
    ASSUME NEW v, NEW u, NEW gone, NEW more, gone \subseteq more, Undisturbed(v, u, gone)
    PROVE  Undisturbed(v, u, more)
BY DEF Undisturbed, Keeps

\* A tree replaced by one that keeps its tiles.
LEMMA OneTree ==
    ASSUME NEW v, Solid(v), NEW u, NEW k \in Key, NEW t, u.trees = [v.trees EXCEPT ![k] = t],
           NEW gone, Keeps(v.trees[k], t, gone)
    PROVE  Undisturbed(v, u, gone)
<1>1. v.trees \in [Key -> Trees]
    BY DEF Solid, Planted
<1>2. u.trees[k] = t /\ \A a \in Key : a # k => u.trees[a] = v.trees[a]
    BY <1>1
<1> QED BY <1>2, AlikeRules DEF Undisturbed, Keeps

\* A window enters a tree it was not in.
LEMMA AdmittedKeepsPlaces ==
    ASSUME NEW t \in Trees, Sturdy(t), NEW x \in Windows, x \notin t.leaves,
           NEW focus, focus = {} \/ \E w \in t.leaves : focus = {w}, NEW axis \in Axes
    PROVE  Keeps(t, Admitted(t, x, focus, axis), {})
<1>1. \A S \in SUBSET t.leaves : Alike(t, Admitted(t, x, focus, axis), S)
    BY AdmittedAlike
<1> QED BY <1>1 DEF Keeps

\* The focused leaf is a leaf of its tree.
LEMMA EligibleIsLeaf ==
    ASSUME NEW v, Solid(v), NEW k \in Key
    PROVE  \/ EligibleFocus(v, k) = {}
           \/ \E x \in v.trees[k].leaves : EligibleFocus(v, k) = {x}
<1>1. EligibleFocus(v, k) = {} \/ \E x : EligibleFocus(v, k) = {x}
    BY EligibleIsHeld, NoneOrOne
<1>2. \A x \in EligibleFocus(v, k) : x \in v.trees[k].leaves
    BY EligibleIsHeld DEF Holds
<1> QED BY <1>1, <1>2

\* A window is tiled.
LEMMA TiledAtTrees ==
    ASSUME Framed, NEW v, Solid(v), NEW w \in Windows, w \notin Tiled(v),
           NEW k \in Known, NEW axis \in Axes
    PROVE  LET u == TiledAt(v, w, k, axis)
               t == Admitted(v.trees[k], w, EligibleFocus(v, k), axis)
           IN  /\ u.trees[k] = t /\ \A a \in Key : a # k => u.trees[a] = v.trees[a]
               /\ t.leaves = v.trees[k].leaves \cup {w}
               /\ \A S \in SUBSET v.trees[k].leaves : Alike(v.trees[k], t, S)
               /\ Undisturbed(v, u, {})
<1> DEFINE t == Admitted(v.trees[k], w, EligibleFocus(v, k), axis)
           T == [v.trees EXCEPT ![k] = t]
           W == With(v.windows, w, k)
           F == {At(k, w)}
           u == TiledAt(v, w, k, axis)
<1>1. k \in Key /\ v.trees[k] \in Trees /\ Sturdy(v.trees[k])
    BY KnownAreKeys, TreeOf
<1>2. w \notin v.trees[k].leaves
    BY <1>1, LeafIsHeld DEF Holds
<1>3. /\ t.leaves = v.trees[k].leaves \cup {w}
      /\ \A S \in SUBSET v.trees[k].leaves : Alike(v.trees[k], t, S)
      /\ Keeps(v.trees[k], t, {})
    BY <1>1, <1>2, EligibleIsLeaf, AdmittedKeeps, AdmittedAlike, AdmittedKeepsPlaces
<1>4. u.trees = T
    <2>1. u = [v EXCEPT !.trees = T, !.windows = W, !.focus = F]
        BY DEF TiledAt
    <2>2. Shaped(v)
        BY DEF Solid
    <2> HIDE DEF u, T, W, F
    <2> QED BY <2>1, <2>2 DEF Shaped
<1> HIDE DEF t, u
<1>5. Undisturbed(v, u, {})
    BY <1>1, <1>3, <1>4, OneTree
<1>6. u.trees[k] = t /\ \A a \in Key : a # k => u.trees[a] = v.trees[a]
    BY <1>1, <1>4 DEF Solid, Planted
<1> QED BY <1>3, <1>5, <1>6 DEF t, u

\* A tile leaves.
LEMMA UntiledUndisturbed ==
    ASSUME Assumption, Framed, NEW v, Solid(v), NEW w \in Tiled(v)
    PROVE  Undisturbed(v, Untiled(v, w), {})
<1> DEFINE k == v.windows[w]
           t == Removed(v.trees[k], w)
<1>1. k \in Key /\ v.trees[k] \in Trees /\ Sturdy(v.trees[k])
    BY TileIsHeld, TreeOf
<1>2. Untiled(v, w).trees = [v.trees EXCEPT ![k] = t]
    BY UntiledKeeps
<1>3. t.leaves = v.trees[k].leaves \ {w}
    BY <1>1, RemovedAllKeeps DEF Removed
<1>4. Keeps(v.trees[k], t, {})
    <2>1. \A S \in SUBSET (v.trees[k].leaves \ {w}) : Alike(v.trees[k], t, S)
        BY <1>1, RemovedAlike DEF Removed
    <2> HIDE DEF t
    <2> QED BY <1>3, <2>1 DEF Keeps
<1> HIDE DEF k, t
<1> QED BY <1>1, <1>2, <1>4, OneTree

\* A tile leaves, and a focus it had goes elsewhere.
LEMMA DepartedUndisturbed ==
    ASSUME Assumption, Framed, NEW v, Solid(v), NEW w \in Tiled(v)
    PROVE  Undisturbed(v, Departed(v, w), {})
<1> DEFINE rest == Untiled(v, w)
<1>1. Undisturbed(v, rest, {}) /\ Shaped(rest)
    BY UntiledUndisturbed, UntiledKeeps DEF Solid
<1>2. Departed(v, w) = rest \/ \E F : Departed(v, w) = [rest EXCEPT !.focus = F]
    BY DEF Departed
<1> HIDE DEF rest
<1>3. Departed(v, w).trees = rest.trees
    BY <1>1, <1>2 DEF Shaped
<1> QED BY <1>1, <1>3, SameTreesKeep

\* A tile is carried into another domain.
LEMMA CarriedUndisturbed ==
    ASSUME Assumption, Framed, Solid(world), NEW w \in Tiled(world), NEW k \in Known,
           k # world.windows[w], NEW t,
           t.leaves = world.trees[k].leaves \cup {w}, Keeps(world.trees[k], t, {}),
           NEW v, v.trees = [Untiled(world, w).trees EXCEPT ![k] = t]
    PROVE  Undisturbed(world, v, {})
<1> DEFINE rest == Untiled(world, w)
<1>1. Undisturbed(world, rest, {}) /\ k \in Key /\ world.windows[w] \in Key
    BY UntiledUndisturbed, KnownAreKeys, TileIsHeld
<1>2. rest.trees = [world.trees EXCEPT ![world.windows[w]] = Removed(@, w)] /\ Solid(rest)
    BY UntiledKeeps
<1> HIDE DEF rest
<1>3. v.trees[k] = t /\ \A a \in Key : a # k => v.trees[a] = rest.trees[a]
    BY <1>1, <1>2 DEF Solid, Planted, rest
<1> QED BY <1>1, <1>3 DEF Undisturbed

\* A tree of the world, given another form.
LEMMA RetreedUndisturbed ==
    ASSUME Solid(world), NEW k \in Key, NEW t, NEW gone, Keeps(world.trees[k], t, gone)
    PROVE  Undisturbed(world, WithTree(world, k, t), gone)
<1> DEFINE T == [world.trees EXCEPT ![k] = t]
<1>1. WithTree(world, k, t).trees = T
    <2>1. WithTree(world, k, t) = [world EXCEPT !.trees = T]
        BY DEF WithTree
    <2>2. Shaped(world)
        BY DEF Solid
    <2> HIDE DEF T
    <2> QED BY <2>1, <2>2 DEF Shaped
<1> QED BY <1>1, OneTree

\* The remembered or the recent leaf of a domain is one of its leaves.
LEMMA AnchorIsLeaf ==
    ASSUME Framed, Solid(world), NEW k \in Key, NEW anchor,
           anchor = Remembered(world, k) \/ anchor = Recent(world, k)
    PROVE  anchor = {} \/ \E x \in world.trees[k].leaves : anchor = {x}
<1>1. AtMostOne(anchor) /\ \A x \in anchor : Holds(world, k, x)
    BY RememberedIsHeld, RecentIsHeld
<1>2. anchor = {} \/ \E x : anchor = {x}
    BY <1>1, NoneOrOne
<1>3. \A x \in anchor : x \in world.trees[k].leaves
    BY <1>1 DEF Holds
<1> QED BY <1>2, <1>3

\* What Send plans.
LEMMA SendUndisturbed ==
    ASSUME Assumption, Framed, Sound(world), NEW w \in Windows, NEW k \in Key,
           NEW follow \in BOOLEAN, NEW axis \in AdmissionAxes, Focused(w),
           k \in Known, k # world.windows[w]
    PROVE  LET source == world.windows[w]
               anchor == IF Remembered(world, k) # {} THEN Remembered(world, k)
                         ELSE Recent(world, k)
               moved  == [Untiled(world, w) EXCEPT
                             !.trees[k] = Admitted(@, w, anchor, axis),
                             !.windows = With(@, w, k)]
               focus  == IF follow THEN {At(k, w)} ELSE FocusIn(source, Recent(moved, source))
           IN  Undisturbed(world, Marked([moved EXCEPT !.focus = focus]), {})
<1> DEFINE source == world.windows[w]
           anchor == IF Remembered(world, k) # {} THEN Remembered(world, k)
                     ELSE Recent(world, k)
           rest   == Untiled(world, w)
           moved  == [rest EXCEPT !.trees[k] = Admitted(@, w, anchor, axis),
                                  !.windows = With(@, w, k)]
           t == Admitted(world.trees[k], w, anchor, axis)
           focus == IF follow THEN {At(k, w)} ELSE FocusIn(source, Recent(moved, source))
           next == [moved EXCEPT !.focus = focus]
<1>1. /\ Solid(world) /\ w \in Tiled(world) /\ source \in Key
      /\ world.trees[k] \in Trees /\ Sturdy(world.trees[k]) /\ axis \in Axes
    BY FocusedIsTiled, TreeOf DEF Sound, Assumption
<1>2. /\ Solid(rest) /\ Shaped(rest)
      /\ rest.trees = [world.trees EXCEPT ![world.windows[w]] = Removed(@, w)]
    BY <1>1, UntiledKeeps DEF Solid
<1>3. rest.trees[k] = world.trees[k]
    BY <1>1, <1>2 DEF Solid, Planted
<1>4. w \notin world.trees[k].leaves
    BY <1>1, LeafIsHeld DEF Holds
<1>5. anchor = {} \/ \E x \in world.trees[k].leaves : anchor = {x}
    BY <1>1, AnchorIsLeaf
<1>6. t.leaves = world.trees[k].leaves \cup {w} /\ Keeps(world.trees[k], t, {})
    <2> HIDE DEF anchor
    <2> QED BY <1>1, <1>4, <1>5, AdmittedKeeps, AdmittedKeepsPlaces
<1>7. moved.trees = [rest.trees EXCEPT ![k] = t] /\ Shaped(moved)
    <2> DEFINE T == [rest.trees EXCEPT ![k] = t]
               W == With(rest.windows, w, k)
    <2>1. moved = [rest EXCEPT !.trees = T, !.windows = W]
        BY <1>3
    <2> HIDE DEF T, W, rest, moved
    <2>2. moved.trees = T
        BY <1>2, <2>1 DEF Shaped
    <2>3. ASSUME NEW y, y = [rest EXCEPT !.trees = T, !.windows = W]
          PROVE  Shaped(y)
        BY <1>2, <2>3 DEF Shaped
    <2> QED BY <2>1, <2>2, <2>3 DEF T
<1> HIDE DEF moved, t, focus
<1>8. next.trees = moved.trees
    BY <1>7 DEF Shaped
<1>9. Marked(next).trees = next.trees
    <2>1. ASSUME NEW y, y = [moved EXCEPT !.focus = focus]
          PROVE  Shaped(y)
        BY <1>7, <2>1 DEF Shaped
    <2>2. Shaped(next)
        BY <2>1
    <2> HIDE DEF next
    <2> QED BY <2>2 DEF Marked, Shaped
<1> HIDE DEF next
<1>10. Undisturbed(world, Marked(next), {})
    BY <1>1, <1>6, <1>7, <1>8, <1>9, CarriedUndisturbed
<1> QED BY <1>10 DEF next, focus, moved

\* The windows a plan of this kind is about: the focus of a move or of a drop.
MoverIn(kind, v) == {f.leaf : f \in {f \in v.focus : kind \in {"move", "drag"}}}

\* An operation that plans offers a world that leaves the others alone.
Placing ==
    \E kind \in Kinds : \E next :
        Idle /\ Offer(kind, next) /\ Undisturbed(world, next, MoverIn(kind, next))

\* What has no mover leaves all windows alone.
LEMMA PlacingAll ==
    ASSUME Idle, NEW kind \in {"lifecycle", "move", "focus", "resize"}, NEW next,
           Offer(kind, next), Undisturbed(world, next, {})
    PROVE  Placing
<1>1. Undisturbed(world, next, MoverIn(kind, next))
    BY GivesUpMore
<1> QED BY <1>1 DEF Placing, Kinds

\* The lifecycle operations.
LEMMA LifecyclePlaces ==
    ASSUME Assumption, SessionInv, Lifecycle
    PROVE  Placing \/ \E w \in Windows, axis \in AdmissionAxes : Unfloated(w, axis)
<1>0. Framed /\ Sound(world) /\ Solid(world) /\ Shaped(world)
    BY DEF SessionInv, Sound, Solid
<1>1. ASSUME NEW w \in Windows, NEW k \in Key, NEW sight \in Sights,
             NEW suppress \in BOOLEAN, NEW axis \in AdmissionAxes,
             Admit(w, k, sight, suppress, axis)
      PROVE  Placing
    <2> DEFINE next == AdmitInto(world, w, k, sight, suppress, axis)
               tiled == TiledAt(world, w, k, axis)
    <2>1. Idle /\ Offer("lifecycle", next) /\ w \notin Members(world) /\ k \in Known
        BY <1>1 DEF Admit
    <2>2. axis \in Axes /\ w \notin Tiled(world) /\ w \notin DOMAIN world.exceptions
        BY <2>1 DEF Assumption, Members, Tiled
    <2>3. Undisturbed(world, tiled, {})
        BY <1>0, <2>1, <2>2, TiledAtTrees
    <2>4. Sound(tiled)
        BY <1>0, <2>1, <2>2, TiledAtBecomes DEF Becomes
    <2> HIDE DEF tiled
    <2>5. Marked(tiled).trees = tiled.trees /\ Shaped(Marked(tiled))
        BY <2>4, MarkedKeeps DEF SameTiles, Sound, Solid
    <2>6. TileWins(Marked(tiled), w).trees = Marked(tiled).trees
        BY <2>5 DEF TileWins, Shaped
    <2>7. \A flags : /\ Excepted(world, w, k, flags).trees = world.trees
                     /\ [Excepted(world, w, k, flags) EXCEPT !.automatic = @ \cup {w}].trees
                            = world.trees
        BY <1>0 DEF Excepted, Shaped
    <2>8. next.trees = world.trees \/ next.trees = tiled.trees
        BY <2>5, <2>6, <2>7 DEF AdmitInto, tiled
    <2> HIDE DEF next
    <2>9. Undisturbed(world, next, {})
        BY <2>3, <2>8, SameTrees, SameTreesKeep
    <2> QED BY <2>1, <2>9, PlacingAll
<1>2. ASSUME NEW w \in Windows, Remove(w)
      PROVE  Placing
    <2>1. CASE w \in DOMAIN world.exceptions
        <3> DEFINE rest == WithExceptions(world, Without(world.exceptions, w))
        <3>1. Idle /\ Offer("lifecycle", RemoveException(w))
            BY <1>2, <2>1 DEF Remove
        <3>2. Solid(rest) /\ rest.trees = world.trees
            BY <1>0, UnexceptedBecomes DEF SameTiles
        <3>3. \/ RemoveException(w) = Marked(rest)
              \/ RemoveException(w) = Marked(FocusedOn(rest, FirstLeafGlobal))
            BY DEF RemoveException, WithExceptions, FocusedOn
        <3> HIDE DEF rest
        <3>4. Focal(FirstLeafGlobal)
            BY <1>0, FirstLeafIsHeld
        <3>5. RemoveException(w).trees = world.trees
            BY <3>2, <3>3, <3>4, MarkedKeeps, FocusedKeeps DEF SameTiles
        <3> QED BY <3>1, <3>5, SameTrees, PlacingAll
    <2>2. CASE w \notin DOMAIN world.exceptions
        <3>1. Idle /\ Offer("lifecycle", Marked(Departed(world, w))) /\ w \in Tiled(world)
            BY <1>2, <2>2 DEF Remove, Members, Tiled
        <3>2. Undisturbed(world, Departed(world, w), {}) /\ Solid(Departed(world, w))
            BY <1>0, <3>1, DepartedUndisturbed, DepartedBecomes DEF Becomes, Sound
        <3>3. Undisturbed(world, Marked(Departed(world, w)), {})
            BY <3>2, MarkedKeeps, SameTreesKeep DEF SameTiles
        <3> QED BY <3>1, <3>3, PlacingAll
    <2> QED BY <2>1, <2>2
<1>3. ASSUME NEW w \in Windows, Float(w)
      PROVE  Placing
    <2> DEFINE left == Marked(Departed(world, w))
               next == [Excepted(left, w, world.windows[w], {"floating"}) EXCEPT
                            !.automatic = @ \ {w}, !.override = @ \ {w}]
    <2>1. Idle /\ Offer("lifecycle", next) /\ w \in Tiled(world)
        BY <1>3 DEF Float
    <2>2. Undisturbed(world, Departed(world, w), {}) /\ Solid(Departed(world, w))
        BY <1>0, <2>1, DepartedUndisturbed, DepartedBecomes DEF Becomes, Sound
    <2>3. Undisturbed(world, left, {}) /\ Shaped(left)
        BY <2>2, MarkedKeeps, SameTreesKeep DEF SameTiles, Solid
    <2> HIDE DEF left
    <2>4. next.trees = left.trees
        BY <2>3 DEF Excepted, Shaped
    <2> HIDE DEF next
    <2>5. Undisturbed(world, next, {})
        BY <2>3, <2>4, SameTreesKeep
    <2> QED BY <2>1, <2>5, PlacingAll
<1>4. ASSUME NEW w \in Windows, ToggleOrientation(w)
      PROVE  Placing
    <2> DEFINE k == world.windows[w]
               t == Flipped(world.trees[k], w)
               next == WithTree(world, k, t)
    <2>1. Idle /\ Focused(w) /\ Offer("lifecycle", Marked(next))
        BY <1>4 DEF ToggleOrientation, WithTree
    <2>2. /\ k \in Key /\ world.trees[k] \in Trees
          /\ t \in Trees /\ Sturdy(t) /\ t.leaves = world.trees[k].leaves
        BY <1>0, <2>1, FocusedIsTiled, FlippedKeeps
    <2>3. Keeps(world.trees[k], t, {})
        BY <2>2, FlippedAlike DEF Keeps
    <2> HIDE DEF k, t
    <2>4. Undisturbed(world, next, {})
        BY <1>0, <2>2, <2>3, RetreedUndisturbed
    <2>5. Solid(next)
        BY <1>0, <2>2, WithTreeBecomes DEF Becomes, Sound
    <2> HIDE DEF next
    <2>6. Undisturbed(world, Marked(next), {})
        BY <2>4, <2>5, MarkedKeeps, SameTreesKeep DEF SameTiles
    <2> QED BY <2>1, <2>6, PlacingAll
<1>5. ASSUME NEW w \in Windows, NEW k \in Key, NEW follow \in BOOLEAN,
             NEW axis \in AdmissionAxes, Send(w, k, follow, axis)
      PROVE  Placing
    <2> DEFINE source == world.windows[w]
               anchor == IF Remembered(world, k) # {} THEN Remembered(world, k)
                         ELSE Recent(world, k)
               moved  == [Untiled(world, w) EXCEPT
                             !.trees[k] = Admitted(@, w, anchor, axis),
                             !.windows = With(@, w, k)]
               focus == IF follow THEN {At(k, w)} ELSE FocusIn(source, Recent(moved, source))
               next == Marked([moved EXCEPT !.focus = focus])
    <2>1. Idle /\ Focused(w) /\ k \in Known /\ k # source /\ Offer("lifecycle", next)
        BY <1>5 DEF Send
    <2>2. Undisturbed(world, next, {})
        BY <1>0, <2>1, SendUndisturbed
    <2> HIDE DEF next
    <2> QED BY <2>1, <2>2, PlacingAll
<1> QED BY <1>1, <1>2, <1>3, <1>4, <1>5 DEF Lifecycle

\* A tree whose window x alone moved.
LEMMA RearrangedKeepsPlaces ==
    ASSUME Assumption, NEW t \in Trees, Sturdy(t), NEW x \in t.leaves,
           NEW T \in Rearranged(t, x)
    PROVE  Keeps(t, T, {x})
<1>1. T.leaves = t.leaves
    BY RearrangedKeeps
<1>2. \A S \in SUBSET (t.leaves \ {x}) : Alike(t, T, S)
    BY RearrangedAlike
<1> QED BY <1>1, <1>2 DEF Keeps

\* The focused window is the mover of a plan that keeps the focus.
LEMMA FocusMoves ==
    ASSUME Sound(world), NEW w, Focused(w), NEW v, v.focus = world.focus,
           NEW kind \in {"move", "drag"}
    PROVE  MoverIn(kind, v) = {w}
<1>1. PICK f \in world.focus : f.leaf = w
    BY DEF Focused
<1>2. world.focus = {f}
    BY DEF Sound, Solid, Focal, AtMostOne
<1> QED BY <1>1, <1>2 DEF MoverIn

\* What MoveAcross plans.
LEMMA MoveAcrossUndisturbed ==
    ASSUME Assumption, Framed, Sound(world), NEW w \in Windows, NEW k \in Key,
           NEW first \in BOOLEAN, NEW axis \in Axes, Focused(w),
           k \in Known, k # world.windows[w]
    PROVE  LET anchor == Remembered(world, k)
               there  == world.trees[k]
               beside == IF anchor = {} THEN there.leaves ELSE anchor
           IN  Undisturbed(world, Marked([Untiled(world, w) EXCEPT
                   !.trees[k] = IF there.leaves = {} THEN Lone(w)
                                ELSE Place(there, w, beside, first, TRUE, axis),
                   !.windows = With(@, w, k),
                   !.focus = {At(k, w)}]), {})
<1> DEFINE anchor == Remembered(world, k)
           there  == world.trees[k]
           beside == IF anchor = {} THEN there.leaves ELSE anchor
           t == IF there.leaves = {} THEN Lone(w)
                ELSE Place(there, w, beside, first, TRUE, axis)
           rest == Untiled(world, w)
           next == [rest EXCEPT !.trees[k] = t, !.windows = With(@, w, k), !.focus = {At(k, w)}]
<1>1. /\ Solid(world) /\ w \in Tiled(world) /\ there \in Trees /\ Sturdy(there)
    BY FocusedIsTiled, TreeOf DEF Sound
<1>2. w \notin there.leaves
    BY <1>1, LeafIsHeld DEF Holds
<1>3. t.leaves = there.leaves \cup {w} /\ Keeps(there, t, {})
    <2>1. CASE there.leaves = {}
        <3>1. t.leaves = {w}
            BY <2>1 DEF Lone
        <3>2. \A S \in SUBSET there.leaves : S = {}
            BY <2>1
        <3> HIDE DEF t, there
        <3> QED BY <2>1, <3>1, <3>2, AlikeRules DEF Keeps
    <2>2. CASE there.leaves # {}
        <3>1. anchor = {} \/ \E x \in there.leaves : anchor = {x}
            BY <1>1, AnchorIsLeaf
        <3>2. beside \in Nodes(there)
            <4>1. there.leaves \in Nodes(there)
                BY <1>1, <2>2, RootIsNode
            <4>2. \A x \in there.leaves : {x} \in Nodes(there)
                BY DEF Nodes
            <4> HIDE DEF anchor, there
            <4> QED BY <3>1, <4>1, <4>2
        <3> HIDE DEF anchor, there, beside
        <3>3. \A wrap \in BOOLEAN :
                  /\ Place(there, w, beside, first, wrap, axis).leaves = there.leaves \cup {w}
                  /\ \A S \in SUBSET there.leaves :
                         Alike(there, Place(there, w, beside, first, wrap, axis), S)
            BY <1>1, <1>2, <3>2, PlacedAlike, PlaceParts
        <3>4. t = Place(there, w, beside, first, TRUE, axis)
            BY <2>2
        <3> HIDE DEF t
        <3> QED BY <3>3, <3>4 DEF Keeps
    <2> QED BY <2>1, <2>2
<1>4. Shaped(rest)
    BY <1>1, UntiledKeeps DEF Solid
<1>5. next.trees = [rest.trees EXCEPT ![k] = t] /\ Shaped(next)
    <2> DEFINE T == [rest.trees EXCEPT ![k] = t]
               W == With(rest.windows, w, k)
    <2>1. next = [rest EXCEPT !.trees = T, !.windows = W, !.focus = {At(k, w)}]
        OBVIOUS
    <2> HIDE DEF T, W, rest, next
    <2>2. next.trees = T
        BY <1>4, <2>1 DEF Shaped
    <2>3. ASSUME NEW y, y = [rest EXCEPT !.trees = T, !.windows = W, !.focus = {At(k, w)}]
          PROVE  Shaped(y)
        BY <1>4, <2>3 DEF Shaped
    <2> QED BY <2>1, <2>2, <2>3 DEF T
<1> HIDE DEF next, t
<1>6. Marked(next).trees = next.trees
    BY <1>5 DEF Marked, Shaped
<1>7. Undisturbed(world, Marked(next), {})
    BY <1>1, <1>3, <1>5, <1>6, CarriedUndisturbed
<1> QED BY <1>7 DEF next, t

\* The directional operations.
LEMMA DirectionalPlaces ==
    ASSUME Assumption, SessionInv, Directional
    PROVE  Placing
<1>0. Framed /\ Sound(world) /\ Solid(world) /\ Shaped(world)
    BY DEF SessionInv, Sound, Solid
<1>1. ASSUME NEW w \in Windows, Move(w)
      PROVE  Placing
    <2> DEFINE k == world.windows[w]
    <2>1. PICK t \in Rearranged(world.trees[k], w) :
              Offer("move", Marked([world EXCEPT !.trees[k] = t]))
        BY <1>1 DEF Move
    <2> DEFINE next == WithTree(world, k, t)
    <2>2. Idle /\ Focused(w) /\ Offer("move", Marked(next))
        BY <1>1, <2>1 DEF Move, WithTree
    <2>3. /\ k \in Key /\ t \in Trees /\ Sturdy(t) /\ t.leaves = world.trees[k].leaves
          /\ Keeps(world.trees[k], t, {w})
        BY <1>0, <2>2, FocusedIsTiled, RearrangedKeeps, RearrangedKeepsPlaces
    <2> HIDE DEF k
    <2>4. Undisturbed(world, next, {w}) /\ Solid(next)
        BY <1>0, <2>3, RetreedUndisturbed, WithTreeBecomes DEF Becomes, Sound
    <2>5. next.focus = world.focus
        BY <1>0 DEF WithTree, Shaped
    <2> HIDE DEF next
    <2>6. Undisturbed(world, Marked(next), {w}) /\ Marked(next).focus = world.focus
        BY <2>4, <2>5, MarkedKeeps, SameTreesKeep DEF SameTiles
    <2>7. MoverIn("move", Marked(next)) = {w}
        BY <1>0, <2>2, <2>6, FocusMoves
    <2> QED BY <2>2, <2>6, <2>7 DEF Placing, Kinds
<1>2. ASSUME NEW w \in Windows, NEW k \in Key, NEW first \in BOOLEAN, NEW axis \in Axes,
             MoveAcross(w, k, first, axis)
      PROVE  Placing
    <2> DEFINE anchor == Remembered(world, k)
               there  == world.trees[k]
               beside == IF anchor = {} THEN there.leaves ELSE anchor
               next == Marked([Untiled(world, w) EXCEPT
                           !.trees[k] = IF there.leaves = {} THEN Lone(w)
                                        ELSE Place(there, w, beside, first, TRUE, axis),
                           !.windows = With(@, w, k),
                           !.focus = {At(k, w)}])
    <2>1. /\ Idle /\ Focused(w) /\ k \in Known /\ k # world.windows[w]
          /\ Offer("move", next)
        BY <1>2 DEF MoveAcross
    <2>2. Undisturbed(world, next, {})
        BY <1>0, <2>1, MoveAcrossUndisturbed
    <2> HIDE DEF next
    <2> QED BY <2>1, <2>2, PlacingAll
<1>3. ASSUME NEW kind \in {"focus", "resize"}, NEW next, Idle, Offer(kind, next),
             next.trees = world.trees
      PROVE  Placing
    BY <1>3, SameTrees, PlacingAll
<1>4. \A F : Marked([world EXCEPT !.focus = F]).trees = world.trees
    <2> SUFFICES ASSUME NEW F
                 PROVE  Marked([world EXCEPT !.focus = F]).trees = world.trees
        OBVIOUS
    <2>1. ASSUME NEW y, y = [world EXCEPT !.focus = F]
          PROVE  Marked(y).trees = world.trees
        <3>1. Shaped(y) /\ y.trees = world.trees
            BY <1>0, <2>1 DEF Shaped
        <3> QED BY <3>1 DEF Marked, Shaped
    <2> QED BY <2>1
<1>5. ASSUME NEW w \in Windows, FocusOther(w)
      PROVE  Placing
    <2>1. PICK f \in world.focus :
              Offer("focus", Marked([world EXCEPT !.focus = {At(f.domain, w)}]))
        BY <1>5 DEF FocusOther
    <2>2. Idle
        BY <1>5 DEF FocusOther
    <2> QED BY <1>3, <1>4, <2>1, <2>2
<1>6. ASSUME NEW k \in Key, NEW target \in Key, FocusAcross(k, target)
      PROVE  Placing
    <2>1. Idle /\ Offer("focus", Marked([world EXCEPT !.focus =
                                     FocusIn(target, Remembered(world, target))]))
        BY <1>6 DEF FocusAcross
    <2> QED BY <1>3, <1>4, <2>1
<1>7. ASSUME NEW w \in Windows, Resize(w) \/ PointerResize(w)
      PROVE  Placing
    BY <1>3, <1>7 DEF Resize, PointerResize
<1> QED BY <1>1, <1>2, <1>5, <1>6, <1>7 DEF Directional
-----------------------------------------------------------------------------
(* The staged world.                                                       *)

\* The staged world leaves the windows its plan is not about where they are.
PlacesInv ==
    \A v \in desired : \A p \in pending : Undisturbed(world, v, MoverIn(p.kind, v))

\* What is staged for a world that leaves the others alone.
LEMMA StagedInPlace ==
    ASSUME NEW kind, NEW next, StageAs(kind, next),
           Undisturbed(world', next, MoverIn(kind, next))
    PROVE  PlacesInv'
<1>1. \A v \in desired' : v = next
    BY DEF StageAs
<1>2. \A p \in pending' : p.kind = kind
    BY DEF StageAs
<1> QED BY <1>1, <1>2 DEF PlacesInv

\* Nothing is staged, or what was staged still is.
LEMMA StillInPlace ==
    ASSUME \/ desired' = {} \/ pending' = {}
           \/ /\ PlacesInv /\ UNCHANGED <<world, desired>>
              /\ \A p \in pending' : \E q \in pending : p.kind = q.kind
    PROVE  PlacesInv'
BY DEF PlacesInv

\* The plans that go out.
LEMMA PlansInPlace ==
    ASSUME Placing
    PROVE  PlacesInv'
<1>0. PICK kind \in Kinds : \E next :
          Offer(kind, next) /\ Undisturbed(world, next, MoverIn(kind, next))
    BY DEF Placing
<1>1. PICK next :
          Offer(kind, next) /\ Undisturbed(world, next, MoverIn(kind, next))
    BY <1>0
<1>2. CASE Diverge
    BY <1>2, StillInPlace DEF Diverge
<1>3. CASE StageAs(kind, next) /\ UNCHANGED world
    BY <1>1, <1>3, StagedInPlace
<1> QED BY <1>1, <1>2, <1>3 DEF Offer

\* An unfloated window is tiled.
LEMMA UnfloatInPlace ==
    ASSUME Assumption, SessionInv, NEW w \in Windows, NEW axis \in AdmissionAxes,
           Unfloated(w, axis)
    PROVE  PlacesInv'
<1> DEFINE base == [world EXCEPT !.exceptions = Without(@, w)]
           home == world.exceptions[w].home
           tiled == TiledAt(base, w, home, axis)
           next == TileWins(Marked(tiled), w)
<1>1. StageAs("unfloat", next) /\ world' = base /\ w \in DOMAIN world.exceptions
    BY DEF Unfloated
<1>2. /\ Framed /\ Sound(world) /\ axis \in Axes /\ home \in Known /\ w \notin Tiled(world)
    BY <1>1 DEF SessionInv, Assumption, Sound, Solid, Homed, Tiled
<1>3. Sound(base) /\ SameTiles(base, world) /\ w \notin DOMAIN base.exceptions
    BY <1>1, <1>2, UnfloatedBecomes DEF Becomes
<1> HIDE DEF base, home
<1>4. Solid(base) /\ w \notin Tiled(base)
    BY <1>2, <1>3, SameTilesHold DEF Sound
<1>5. Undisturbed(base, tiled, {}) /\ Solid(tiled)
    BY <1>2, <1>3, <1>4, TiledAtTrees, TiledAtBecomes DEF Becomes, Sound
<1> HIDE DEF tiled
<1>6. Marked(tiled).trees = tiled.trees /\ Shaped(Marked(tiled))
    BY <1>5, MarkedKeeps DEF SameTiles, Solid
<1>7. next.trees = tiled.trees
    BY <1>6 DEF TileWins, Shaped
<1> HIDE DEF next
<1>8. Undisturbed(base, next, MoverIn("unfloat", next))
    BY <1>5, <1>7, SameTreesKeep, GivesUpMore
<1> QED BY <1>1, <1>8, StagedInPlace

\* A dropped tile moves alone.
LEMMA DroppedInPlace ==
    ASSUME Assumption, SessionInv, DragInv, NEW c \in drag,
           NEW tree \in DropPlaces(world.trees[world.windows[c.source]], c.source)
    PROVE  LET next == [world EXCEPT !.trees[world.windows[c.source]] = tree]
           IN  Undisturbed(world, next, MoverIn("drag", next))
<1> DEFINE k == world.windows[c.source]
           t == world.trees[k]
<1>1. Focused(c.source) /\ Framed /\ Sound(world) /\ Shaped(world) /\ Solid(world)
    BY DEF DragInv, CaptureOf, SessionInv, Sound, Solid
<1>2. k \in Key /\ t \in Trees /\ Sturdy(t) /\ c.source \in t.leaves
    BY <1>1, FocusedIsTiled
<1>3. Keeps(t, tree, {c.source})
    <2>1. CASE tree \in Rearranged(t, c.source)
        BY <1>2, <2>1, RearrangedKeepsPlaces
    <2>2. CASE tree = t
        BY <2>2, AlikeRules DEF Keeps
    <2> QED BY <2>1, <2>2 DEF DropPlaces
<1> HIDE DEF k
<1> DEFINE next == WithTree(world, k, tree)
<1>4. Undisturbed(world, next, {c.source})
    BY <1>1, <1>2, <1>3, RetreedUndisturbed
<1>5. next.focus = world.focus
    BY <1>1 DEF WithTree, Shaped
<1>6. MoverIn("drag", next) = {c.source}
    <2> HIDE DEF next
    <2> QED BY <1>1, <1>5, FocusMoves
<1>7. [world EXCEPT !.trees[k] = tree] = next
    BY DEF WithTree
<1> HIDE DEF next
<1> QED BY <1>4, <1>6, <1>7 DEF k

\* Dragging.
LEMMA DraggingInPlace ==
    ASSUME Assumption, SessionInv, DragInv, PlacesInv, Dragging
    PROVE  PlacesInv' /\ UNCHANGED world
<1>1. CASE CancelDrag \/ \E w \in Windows : BeginDrag(w)
    BY <1>1, StillInPlace DEF CancelDrag, BeginDrag
<1>2. CASE DropDrag
    <2>1. UNCHANGED world
        BY <1>2 DEF DropDrag
    <2>2. CASE UNCHANGED <<pending, desired, halted>>
        BY <2>1, <2>2, StillInPlace
    <2>3. CASE Diverge
        BY <2>1, <2>3, StillInPlace DEF Diverge
    <2>4. ASSUME NEW c \in drag,
                 NEW tree \in DropPlaces(world.trees[world.windows[c.source]], c.source),
                 StageAs("drag", [world EXCEPT !.trees[world.windows[c.source]] = tree])
          PROVE  PlacesInv'
        <3> DEFINE next == [world EXCEPT !.trees[world.windows[c.source]] = tree]
        <3>1. Undisturbed(world, next, MoverIn("drag", next))
            BY DroppedInPlace
        <3> HIDE DEF next
        <3>2. StageAs("drag", next)
            BY <2>4 DEF next
        <3> QED BY <2>1, <3>1, <3>2, StagedInPlace
    <2> QED BY <1>2, <2>1, <2>2, <2>3, <2>4 DEF DropDrag
<1> QED BY <1>1, <1>2 DEF Dragging

\* Acknowledgement, cancellation, verification and loss: what a verified plan
\* commits leaves all but its mover where they were.
LEMMA DeliveryInPlace ==
    ASSUME Assumption, SessionInv, DragInv, PlacesInv, Delivery
    PROVE  PlacesInv' /\ Undisturbed(world, world', Mover)
<1>1. ASSUME Diverge, UNCHANGED world
      PROVE  PlacesInv' /\ Undisturbed(world, world', Mover)
    BY <1>1, StillInPlace, SameTrees DEF Diverge
<1>2. CASE Acknowledge
    <2>1. ASSUME NEW p \in pending, pending' = {[p EXCEPT !.acked = TRUE]},
                 UNCHANGED <<world, desired>>
          PROVE  PlacesInv' /\ Undisturbed(world, world', Mover)
        <3>1. [p EXCEPT !.acked = TRUE].kind = p.kind
            BY DEF SessionInv
        <3> QED BY <2>1, <3>1, StillInPlace, SameTrees
    <2> QED BY <1>1, <1>2, <2>1 DEF Acknowledge
<1>3. CASE CancelUnacked
    BY <1>3, StillInPlace, SameTrees DEF CancelUnacked
<1>4. CASE Verify
    <2>1. ASSUME NEW p \in pending, Commit(p.kind)
          PROVE  PlacesInv' /\ Undisturbed(world, world', Mover)
        <3>1. PICK v \in desired : world' = Committed(p.kind, v)
            BY <2>1 DEF Commit
        <3>2. Sound(world) /\ Sound(v) /\ pending = {p}
            BY DEF SessionInv, DragInv
        <3>3. world'.trees = v.trees /\ world'.focus = v.focus
            BY <3>1, <3>2, CommittedBecomes DEF SameTiles
        <3>4. Undisturbed(world, v, MoverIn(p.kind, v))
            BY DEF PlacesInv
        <3>5. MoverIn(p.kind, v) = Mover
            BY <3>2, <3>3 DEF MoverIn, Mover
        <3>6. Undisturbed(world, world', Mover)
            BY <3>3, <3>4, <3>5, SameTreesKeep
        <3> QED BY <2>1, <3>6, StillInPlace DEF Commit
    <2> QED BY <1>1, <1>4, <2>1 DEF Verify
<1>5. CASE NoteLoss
    BY <1>1, <1>5 DEF NoteLoss
<1> QED BY <1>2, <1>3, <1>4, <1>5 DEF Delivery

\* An observation takes the windows that left out of their trees.
LEMMA AdoptedInPlace ==
    ASSUME Assumption, Framed, Sound(world), NEW S \in SUBSET Windows,
           NEW seen \in [S -> [home : Known, sight : Sights]]
    PROVE  Undisturbed(world, Adopted(seen), {})
<1> DEFINE gone == DepartedTiles(seen)
           T == [k \in Key |-> RemovedAll(world.trees[k], gone)]
<1>1. Shaped(world) /\ Solid(world) /\ world.trees \in [Key -> Trees]
    BY DEF Sound, Solid, Planted
<1>2. Adopted(seen).trees = T
    <2>1. \E W, E, A, O : Adopted(seen) =
              [world EXCEPT !.trees = T, !.windows = W, !.exceptions = E,
                            !.automatic = A, !.override = O]
        BY <1>1 DEF Adopted
    <2> HIDE DEF T
    <2> QED BY <1>1, <2>1 DEF Shaped
<1>3. ASSUME NEW k \in Key
      PROVE  Keeps(world.trees[k], T[k], {})
    <2>1. world.trees[k] \in Trees /\ Sturdy(world.trees[k])
        BY <1>1, TreeOf
    <2>2. T[k] = RemovedAll(world.trees[k], gone)
        OBVIOUS
    <2> HIDE DEF T, gone
    <2>3. T[k].leaves = world.trees[k].leaves \ gone
        BY <2>1, <2>2, RemovedAllKeeps
    <2>4. \A R \in SUBSET (world.trees[k].leaves \ gone) : Alike(world.trees[k], T[k], R)
        BY <2>1, <2>2, RemovedAlike
    <2> QED BY <2>3, <2>4 DEF Keeps
<1> HIDE DEF T
<1> QED BY <1>2, <1>3 DEF Undisturbed

\* A world on its way through the admissions: the tiles that stay are where they
\* were, and every observed tile of the committed world has its place.
InPlace(v, seen) ==
    /\ Settling(v, seen)
    /\ Undisturbed(world, v, {})
    /\ Tiled(world) \cap DOMAIN seen \subseteq Members(v)

\* One admission keeps it so.
LEMMA AdmittedNextInPlace ==
    ASSUME Assumption, Framed, Sound(world), NEW S \in SUBSET Windows,
           NEW seen \in [S -> [home : Known, sight : Sights]],
           NEW axis \in [S -> AdmissionAxes],
           NEW v, InPlace(v, seen), NEW i
    PROVE  InPlace(AdmittedNext(v, i, seen, axis), seen)
<1> DEFINE k == seen[i].home
           tiled == TiledAt(v, i, k, axis[i])
           next == AdmittedNext(v, i, seen, axis)
<1>1. CASE i \notin DOMAIN seen \ Members(v)
    BY <1>1 DEF AdmittedNext
<1>2. CASE i \in DOMAIN seen \ Members(v)
    <2>1. /\ Solid(v) /\ i \in Windows /\ i \in DOMAIN seen /\ k \in Known
          /\ axis[i] \in Axes /\ i \notin Tiled(v) /\ i \notin DOMAIN v.exceptions
          /\ i \notin Tiled(world)
        BY <1>2 DEF InPlace, Settling, Members, Tiled, Assumption
    <2> DEFINE t == Admitted(v.trees[k], i, EligibleFocus(v, k), axis[i])
    <2>2. /\ tiled.trees[k] = t /\ \A a \in Key : a # k => tiled.trees[a] = v.trees[a]
          /\ t.leaves = v.trees[k].leaves \cup {i}
          /\ \A R \in SUBSET v.trees[k].leaves : Alike(v.trees[k], t, R)
        <3>1. t.leaves = v.trees[k].leaves \cup {i}
            BY <2>1, TiledAtTrees
        <3>2. tiled.trees[k] = t
            BY <2>1, TiledAtTrees
        <3>3. \A a \in Key : a # k => tiled.trees[a] = v.trees[a]
            BY <2>1, TiledAtTrees
        <3>4. \A R \in SUBSET v.trees[k].leaves : Alike(v.trees[k], t, R)
            BY <2>1, TiledAtTrees
        <3> HIDE DEF t, tiled
        <3> QED BY <3>1, <3>2, <3>3, <3>4
    <2>3. k \in Key /\ v.trees \in [Key -> Trees]
        BY <2>1, KnownAreKeys DEF Solid, Planted
    <2>4. i \notin world.trees[k].leaves
        BY <2>1, <2>3, LeafIsHeld DEF Holds, Sound
    <2>5. Becomes(tiled, Tiled(v) \cup {i}, DOMAIN v.exceptions, v.automatic, v.override)
        BY <2>1, TiledAtBecomes
    <2>6. Becomes(TileWins(tiled, i), Tiled(v) \cup {i}, DOMAIN v.exceptions,
                  v.automatic \ {i}, v.override \cup {i})
        BY <2>1, <2>5, TileWinsBecomes
    <2> HIDE DEF k, t, tiled
    <2>7. Undisturbed(world, tiled, {})
        <3>1. ASSUME NEW R \in SUBSET (world.trees[k].leaves \cap t.leaves)
              PROVE  Alike(world.trees[k], t, R)
            <4>1. R \in SUBSET (world.trees[k].leaves \cap v.trees[k].leaves)
                BY <2>2, <2>4
            <4>2. Alike(world.trees[k], v.trees[k], R)
                BY <2>3, <4>1 DEF InPlace, Undisturbed, Keeps
            <4> QED BY <2>2, <4>1, <4>2, AlikeRules
        <3>2. Keeps(world.trees[k], t, {})
            BY <3>1 DEF Keeps
        <3> QED BY <2>2, <3>2 DEF InPlace, Undisturbed
    <2>8. TileWins(tiled, i).trees = tiled.trees
        BY <2>5 DEF TileWins, Becomes, Sound, Solid, Shaped
    <2>9. next = tiled \/ next = TileWins(tiled, i)
        BY <1>2 DEF AdmittedNext, tiled, k
    <2>10. Settling(next, seen)
        BY AdmittedNextSettles DEF InPlace
    <2>11. Members(v) \subseteq Members(tiled) /\ Members(v) \subseteq Members(TileWins(tiled, i))
        BY <2>5, <2>6 DEF Becomes, Members, Tiled
    <2> HIDE DEF next
    <2>12. Undisturbed(world, next, {})
        BY <2>7, <2>8, <2>9, SameTreesKeep
    <2>13. Tiled(world) \cap DOMAIN seen \subseteq Members(next)
        BY <2>9, <2>11 DEF InPlace
    <2> QED BY <2>10, <2>12, <2>13 DEF InPlace, next
<1> QED BY <1>1, <1>2

\* All of them do.
LEMMA ConvergedInPlace ==
    ASSUME Assumption, Framed, Sound(world), NEW S \in SUBSET Windows,
           NEW seen \in [S -> [home : Known, sight : Sights]],
           NEW axis \in [S -> AdmissionAxes]
    PROVE  Undisturbed(world, Converged(seen, axis), {})
<1>1. PICK f : /\ ConvergedUpTo(seen, axis, LastWindow, f)
               /\ Converged(seen, axis) = f[LastWindow]
    BY ConvergedIsDefined
<1> DEFINE Good == {n \in 0..LastWindow : InPlace(f[n], seen)}
<1>2. LastWindow \in Nat /\ LastWindow \in 0..LastWindow /\ 0 \in 0..LastWindow
    BY DEF Assumption
<1>3. \A n \in 0..LastWindow :
          f[n] = IF n = 0 THEN Adopted(seen) ELSE AdmittedNext(f[n - 1], n, seen, axis)
    BY <1>1, Zenon DEF ConvergedUpTo
<1>4. 0 \in Good
    <2>1. Settling(Adopted(seen), seen)
        BY AdoptedIsSolid DEF Settling
    <2>2. Tiled(world) \cap DOMAIN seen \subseteq Members(Adopted(seen))
        <3>1. /\ Tiled(Adopted(seen)) = Tiled(world) \ DepartedTiles(seen)
              /\ DOMAIN Adopted(seen).exceptions = Floats(seen)
            BY AdoptedIsSolid
        <3> QED BY <3>1 DEF Members, Tiled, Floats
    <2> QED BY <1>2, <1>3, <2>1, <2>2, AdoptedInPlace DEF InPlace
<1>5. ASSUME NEW n \in 1..LastWindow, n - 1 \in Good
      PROVE  n \in Good
    <2>1. n \in 0..LastWindow /\ n # 0
        BY <1>2
    <2>2. f[n] = AdmittedNext(f[n - 1], n, seen, axis)
        BY <1>3, <2>1
    <2>3. InPlace(f[n - 1], seen)
        BY <1>5
    <2> QED BY <2>1, <2>2, <2>3, AdmittedNextInPlace
<1> HIDE DEF Good
<1>6. LastWindow \in Good
    BY <1>2, <1>4, <1>5, UpTo
<1> QED BY <1>1, <1>6 DEF Good, InPlace

\* An observation.
LEMMA ObservationInPlace ==
    ASSUME Assumption, SessionInv, DragInv, PlacesInv, Observation
    PROVE  PlacesInv' /\ Undisturbed(world, world', {})
<1>1. CASE ConvergeDiverges
    BY <1>1, StillInPlace, SameTrees DEF ConvergeDiverges, Diverge
<1>2. ASSUME NEW S \in SUBSET Windows, NEW seen \in [S -> [home : Known, sight : Sights]],
             NEW focus \in {{}} \cup {{w} : w \in S}, NEW axis \in [S -> AdmissionAxes],
             Converge(seen, focus, axis)
      PROVE  PlacesInv' /\ Undisturbed(world, world', {})
    <2> DEFINE v == Converged(seen, axis)
               x == Refocused(v, focus)
               next == Pruned(x)
    <2>1. Framed /\ Sound(world) /\ AtMostOne(focus)
        BY DEF SessionInv, AtMostOne
    <2>2. Solid(v) /\ Undisturbed(world, v, {})
        BY <2>1, ConvergedSettles, ConvergedInPlace DEF Settling
    <2>3. Sound(next) /\ world' = Marked(next) /\ pending' = {}
        BY <1>2, <2>1, ConvergeIsSound DEF Converge, Idle
    <2> HIDE DEF v
    <2>4. Sound(x) /\ x.trees = v.trees
        BY <2>1, <2>2, RefocusedIsSound DEF SameTiles
    <2> HIDE DEF x
    <2>5. next.trees = x.trees
        BY <2>4 DEF Pruned, Sound, Solid, Shaped
    <2> HIDE DEF next
    <2>6. world'.trees = v.trees
        BY <2>3, <2>4, <2>5, MarkedKeeps DEF SameTiles, Sound
    <2> QED BY <2>2, <2>3, <2>6, SameTreesKeep, StillInPlace
<1> QED BY <1>1, <1>2 DEF Observation

\* A domain that moves to another output takes its tree along.
LEMMA RelocatedInPlace ==
    ASSUME Sound(world), NEW source \in Key, NEW target \in Key, Relocate(source, target)
    PROVE  Undisturbed(world, world', {}) /\ pending' = {}
<1> DEFINE m(k) == IF k = source THEN target ELSE k
           T == Swapped(world.trees, source, target)
           W == [w \in DOMAIN world.windows |-> m(world.windows[w])]
           E == [w \in DOMAIN world.exceptions |->
                    [home |-> m(world.exceptions[w].home), flags |-> world.exceptions[w].flags]]
           F == {At(m(f.domain), f.leaf) : f \in world.focus}
           L == Swapped(world.last, source, target)
<1>1. world' = [world EXCEPT !.trees = T, !.windows = W, !.exceptions = E,
                             !.focus = F, !.last = L]
    BY DEF Relocate
<1>2. pending' = {} /\ target \notin Known
    BY DEF Relocate, Idle
<1>3. /\ Shaped(world) /\ world.trees \in [Key -> Trees]
      /\ world.trees[target].leaves = {}
    BY <1>2 DEF Sound, Solid, Planted
<1>4. \A k \in Key : T[k] = IF k = source THEN world.trees[target]
                            ELSE IF k = target THEN world.trees[source] ELSE world.trees[k]
    BY <1>3 DEF Swapped
<1> HIDE DEF m, T, W, E, F, L
<1>5. world'.trees = T
    BY <1>1, <1>3 DEF Shaped
<1>6. ASSUME NEW k \in Key
      PROVE  Keeps(world.trees[k], T[k], {})
    <2>1. CASE k = source \/ k = target
        <3>1. world.trees[k].leaves \cap T[k].leaves = {}
            BY <1>3, <1>4, <2>1
        <3>2. \A S \in SUBSET ((world.trees[k].leaves \cap T[k].leaves) \ {}) : S = {}
            BY <3>1
        <3> QED BY <3>2, AlikeRules DEF Keeps
    <2>2. CASE k # source /\ k # target
        BY <1>4, <2>2, AlikeRules DEF Keeps
    <2> QED BY <2>1, <2>2
<1> QED BY <1>2, <1>5, <1>6 DEF Undisturbed

\* Changes that need no plan.
LEMMA UnplannedInPlace ==
    ASSUME SessionInv, Unplanned
    PROVE  PlacesInv' /\ Undisturbed(world, world', {})
<1>1. Sound(world) /\ Shaped(world)
    BY DEF SessionInv, Sound, Solid
<1>2. ASSUME NEW w \in Windows, SyncFocus(w)
      PROVE  PlacesInv' /\ Undisturbed(world, world', {})
    <2>1. world' = [world EXCEPT !.focus = {At(world.windows[w], w)}] /\ pending' = {}
        BY <1>2 DEF SyncFocus, Idle
    <2>2. world'.trees = world.trees
        BY <1>1, <2>1 DEF Shaped
    <2> QED BY <2>1, <2>2, StillInPlace, SameTrees
<1>3. ASSUME NEW source \in Key, NEW target \in Key, Relocate(source, target)
      PROVE  PlacesInv' /\ Undisturbed(world, world', {})
    BY <1>1, <1>3, RelocatedInPlace, StillInPlace
<1> QED BY <1>2, <1>3 DEF Unplanned

\* Every step keeps what is staged in place, and changes no more than it says.
LEMMA PlacesInvStep ==
    Assumption /\ SessionInv /\ DragInv /\ PlacesInv /\ [Next]_vars =>
        PlacesInv' /\ Undisturbed(world, world', Mover)
<1> SUFFICES ASSUME Assumption, SessionInv, DragInv, PlacesInv, [Next]_vars
             PROVE  PlacesInv' /\ Undisturbed(world, world', Mover)
    OBVIOUS
<1>1. ASSUME Undisturbed(world, world', {})
      PROVE  Undisturbed(world, world', Mover)
    BY <1>1, GivesUpMore
<1>2. ASSUME UNCHANGED world
      PROVE  Undisturbed(world, world', Mover)
    BY <1>2, SameTrees
<1>3. CASE UNCHANGED vars
    <2>1. UNCHANGED <<world, desired, pending>>
        BY <1>3 DEF vars
    <2> QED BY <1>2, <2>1, StillInPlace
<1>4. CASE Placing
    <2>1. UNCHANGED world
        BY <1>4 DEF Placing, Offer
    <2> QED BY <1>2, <1>4, <2>1, PlansInPlace
<1>5. CASE Lifecycle
    <2>1. ASSUME NEW w \in Windows, NEW axis \in AdmissionAxes, Unfloated(w, axis)
          PROVE  PlacesInv' /\ Undisturbed(world, world', Mover)
        <3>1. world' = [world EXCEPT !.exceptions = Without(@, w)] /\ Shaped(world)
            BY <2>1 DEF Unfloated, SessionInv, Sound, Solid
        <3>2. world'.trees = world.trees
            BY <3>1 DEF Shaped
        <3> QED BY <2>1, <3>2, SameTrees, UnfloatInPlace
    <2> QED BY <1>4, <1>5, <2>1, LifecyclePlaces
<1>6. CASE Directional
    BY <1>4, <1>6, DirectionalPlaces
<1>7. CASE Dragging
    BY <1>2, <1>7, DraggingInPlace
<1>8. CASE Delivery
    BY <1>8, DeliveryInPlace
<1>9. CASE Observation
    BY <1>1, <1>9, ObservationInPlace
<1>10. CASE Unplanned
    BY <1>1, <1>10, UnplannedInPlace
<1> QED BY <1>3, <1>5, <1>6, <1>7, <1>8, <1>9, <1>10 DEF Next

\* Leaving the others alone is what the property asks of a step.
LEMMA PlacesShow ==
    ASSUME Assumption, SessionInv, SessionInv', Undisturbed(world, world', Mover)
    PROVE  SurvivorsStay
<1>1. /\ DOMAIN world.trees = Key
      /\ \A k \in Key : /\ world.trees[k] \in Trees /\ Sturdy(world.trees[k])
                        /\ world'.trees[k] \in Trees /\ Sturdy(world'.trees[k])
    BY DEF SessionInv, Sound, Solid, Planted
<1>2. ASSUME NEW k \in Key
      PROVE  LET common == (world.trees[k].leaves \cap world'.trees[k].leaves) \ Mover
             IN  Shape(world.trees[k], common) = Shape(world'.trees[k], common)
    <2> DEFINE t == world.trees[k]
               u == world'.trees[k]
               common == (t.leaves \cap u.leaves) \ Mover
    <2>1. Alike(t, u, common)
        BY DEF Undisturbed, Keeps
    <2>2. common \in SUBSET (t.leaves \cap u.leaves)
        OBVIOUS
    <2>3. t \in Trees /\ Sturdy(t) /\ u \in Trees /\ Sturdy(u)
        BY <1>1
    <2> HIDE DEF common, t, u
    <2>4. Shape(t, common) = Shape(u, common)
        BY <2>1, <2>2, <2>3, AlikeShapes
    <2> QED BY <2>4 DEF common, t, u
<1> QED BY <1>1, <1>2 DEF SurvivorsStay

\* Whatever the operation, the tiles of a domain that stay keep their order and
\* their grouping, but for the one that a verified move or drop was about.
THEOREM Placed ==
    ASSUME Assumption
    PROVE  Spec => SurvivorsKeepTheirPlaces
<1>1. Init => SessionInv /\ DragInv /\ PlacesInv
    BY SessionInvInit DEF Init, DragInv, PlacesInv
<1>2. SessionInv /\ DragInv /\ PlacesInv /\ [Next]_vars => SessionInv' /\ DragInv' /\ PlacesInv'
    BY SessionInvStep, DragInvStep, PlacesInvStep
<1>3. SessionInv /\ SessionInv' /\ DragInv /\ PlacesInv /\ [Next]_vars => [SurvivorsStay]_vars
    BY PlacesInvStep, PlacesShow
<1> QED BY <1>1, <1>2, <1>3, PTL DEF Spec, SurvivorsKeepTheirPlaces
=============================================================================
