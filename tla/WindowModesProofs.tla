-------------------------- MODULE WindowModesProofs --------------------------
(* What holds of the modes of windows (WindowModes) for every set of windows, *)
(* every number of workspaces and every failure of a native call or a request. *)
(* The invariant IInv says of every open window how its marks, the tables of   *)
(* the loop and the sessions agree with the last choice of the user (Choice),  *)
(* and, while the process runs, that every band it raised is known to be put   *)
(* back (Bands).  A handler that makes no choice keeps Good; a choice leaves   *)
(* Good behind at its first step and reaches it again at its last, and the     *)
(* hosts in between are described by OnTheWay.                                  *)
EXTENDS WindowModes, TLAPS, FiniteSetTheorems, WellFoundedInduction

\* What a host consists of (tiling_sys.rs, TilingLoop, and what Windows keeps).
Fields == {"open", "overlay", "top", "floatMark", "stickyMark", "up", "tiled", "active", "home",
           "hidden", "floated", "sticky", "prior", "pending", "session", "want", "raised",
           "arranged"}
\* The parts of a host that point at each other: workspaces exist, marks are on open
\* windows, and every open window has a mode the user last gave it.
Shape(x) ==
    /\ DOMAIN x = Fields
    /\ x.active \in Spaces /\ x.tiled \subseteq Spaces
    /\ \A w \in DOMAIN x.home : x.home[w] \in Spaces
    /\ \A w \in DOMAIN x.prior : x.prior[w] \in BOOLEAN
    /\ x.floatMark \cup DOMAIN x.stickyMark \subseteq x.open
    /\ x.open \subseteq DOMAIN x.want
\* A session holds members of its workspace, on one side, and is of the present run of
\* that workspace.
Sessions(x) ==
    \A k \in DOMAIN x.session :
          /\ x.session[k].tiles \cup x.session[k].floats \subseteq Members(x, k)
          /\ x.session[k].tiles \cap x.session[k].floats = {}
          /\ k \in x.tiled => ~x.session[k].old
\* A window the tables of the loop speak of is a member of a workspace.
Tables(x) == DOMAIN x.sticky \cup x.floated \cup DOMAIN x.prior \subseteq DOMAIN x.home
\* A window this process raised is still up, and the loop knows to lower it.
Bands(x) == \A w \in x.raised : w \in x.top \cap x.open \cap DOMAIN x.prior /\ ~x.prior[w]
\* Nothing anywhere says of w that it floats.
Tiled(x, w) ==
    /\ w \notin x.floatMark \cup DOMAIN x.stickyMark \cup x.floated \cup DOMAIN x.sticky
    /\ \A k \in DOMAIN x.session : w \notin x.session[k].floats
\* The marks, the tables and the sessions agree with the last choice about w.
Choice(x, w) ==
    /\ x.want[w] \in {"tiled", "float", "sticky", "any", "lost"}
    /\ x.want[w] = "tiled" => Tiled(x, w)
    /\ x.want[w] = "float" => w \in x.floatMark \ (DOMAIN x.stickyMark \cup DOMAIN x.sticky)
    /\ x.want[w] = "sticky" => w \in DOMAIN x.stickyMark
    /\ x.want[w] # "lost" /\ w \in x.floated \cap DOMAIN x.stickyMark => w \in DOMAIN x.sticky
\* All but the choices.
Base(x) == Shape(x) /\ Sessions(x) /\ Tables(x) /\ Bands(x) /\ x.up
\* A host whose process is up, between two handlers.
Good(x) == Base(x) /\ \A w \in x.open : Choice(x, w)

\* y is x but for the fields F.
Only(y, x, F) == DOMAIN y = Fields /\ \A f \in Fields \ F : y[f] = x[f]

\* The ledger of retries and the record of written frames are not part of what is right.
LEMMA AsideKeeps ==
    ASSUME NEW x, NEW y, Good(x), Only(y, x, {"arranged", "pending"})
    PROVE  Good(y)
<1>1. Shape(y)
    BY DEF Good, Base, Shape, Only, Fields
<1>2. Sessions(y)
    BY DEF Good, Base, Sessions, Members, Only, Fields
<1>3. Tables(y) /\ Bands(y) /\ y.up
    BY DEF Good, Base, Tables, Bands, Only, Fields
<1>4. ASSUME NEW w \in y.open
      PROVE  Choice(y, w)
    BY DEF Good, Choice, Tiled, Only, Fields
<1> QED BY <1>1, <1>2, <1>3, <1>4 DEF Good, Base

\* ensure_workspace_assignments admits open windows and forgets none.
LEMMA AdmittedKeeps ==
    ASSUME NEW x, Good(x)
    PROVE  /\ Good(Admitted(x)) /\ Only(Admitted(x), x, {"home"})
           /\ DOMAIN x.home \subseteq DOMAIN Admitted(x).home
           /\ DOMAIN Admitted(x).home \subseteq DOMAIN x.home \cup x.open
<1> DEFINE y == Admitted(x)
<1> DEFINE new == Observed(x) \ (DOMAIN x.home \cup x.top)
<1>1. /\ Only(y, x, {"home"})
      /\ y.home = [w \in DOMAIN x.home \cup new |-> IF w \in new THEN x.active ELSE x.home[w]]
    BY DEF Good, Base, Shape, Fields, Admitted, Only
<1>2. new \cap DOMAIN x.home = {} /\ new \subseteq x.open
    BY DEF Observed
<1> HIDE DEF y, new
<1>3. Shape(y)
    BY <1>1 DEF Good, Base, Shape, Only, Fields
<1>4. \A k : Members(x, k) \subseteq Members(y, k)
    BY <1>1, <1>2 DEF Members
<1>5. Sessions(y)
    BY <1>1, <1>4 DEF Good, Base, Sessions, Only, Fields
<1>6. Tables(y) /\ Bands(y) /\ y.up
    BY <1>1 DEF Good, Base, Tables, Bands, Only, Fields
<1>7. ASSUME NEW w \in y.open
      PROVE  Choice(y, w)
    BY <1>1 DEF Good, Choice, Tiled, Only, Fields
<1>8. Good(y)
    BY <1>3, <1>5, <1>6, <1>7 DEF Good, Base
<1>9. DOMAIN x.home \subseteq DOMAIN y.home /\ DOMAIN y.home \subseteq DOMAIN x.home \cup x.open
    BY <1>1, <1>2
<1> QED BY <1>1, <1>8, <1>9 DEF y

\* New sessions are right when they hold members and float no window chosen tiled.
LEMMA SessionsKeep ==
    ASSUME NEW x, NEW y, Good(x), Only(y, x, {"session"}), Sessions(y),
           \A w \in x.open : x.want[w] = "tiled" =>
               \A k \in DOMAIN y.session : w \notin y.session[k].floats
    PROVE  Good(y)
<1>1. Shape(y)
    BY DEF Good, Base, Shape, Only, Fields
<1>2. Tables(y) /\ Bands(y) /\ y.up
    BY DEF Good, Base, Tables, Bands, Only, Fields
<1>3. ASSUME NEW w \in y.open
      PROVE  Choice(y, w)
    <2>1. w \in x.open /\ Choice(x, w)
        BY DEF Good, Only, Fields
    <2> QED BY <2>1 DEF Choice, Tiled, Only, Fields
<1> QED BY <1>1, <1>2, <1>3 DEF Good, Base

\* An arrangement of members in which no window chosen tiled floats is right.
LEMMA ArrangementKeeps ==
    ASSUME NEW x, Good(x), NEW k, NEW rows, NEW floating,
           rows \subseteq Members(x, k),
           \A w \in x.open : x.want[w] = "tiled" => w \notin floating
    PROVE  /\ Good(Arrangement(x, k, rows, floating))
           /\ Only(Arrangement(x, k, rows, floating), x, {"session"})
<1> DEFINE y == Arrangement(x, k, rows, floating)
           new == [tiles |-> rows \ floating, floats |-> rows \cap floating,
                   old |-> SessionOf(x, k).old]
<1>1. /\ Only(y, x, {"session"})
      /\ y.session = With(x.session, k, new)
    BY DEF Good, Base, Shape, Fields, Arrangement, Only
<1>2. new.tiles = rows \ floating /\ new.floats = rows \cap floating /\ new.old = SessionOf(x, k).old
    OBVIOUS
<1> HIDE DEF y, new
<1>3. k \in x.tiled => ~new.old
    BY <1>2 DEF SessionOf, NoSession, Good, Base, Sessions
<1>4. /\ DOMAIN y.session = DOMAIN x.session \cup {k}
      /\ \A j \in DOMAIN y.session : y.session[j] = IF j = k THEN new ELSE x.session[j]
    BY <1>1 DEF With
<1>5. \A j : Members(y, j) = Members(x, j)
    BY <1>1 DEF Members, Only, Fields
<1>6. y.tiled = x.tiled
    BY <1>1 DEF Only, Fields
<1>7. Sessions(y)
    BY <1>2, <1>3, <1>4, <1>5, <1>6 DEF Sessions, Good, Base
<1>8. ASSUME NEW w \in x.open, x.want[w] = "tiled", NEW j \in DOMAIN y.session
      PROVE  w \notin y.session[j].floats
    BY <1>2, <1>4, <1>8 DEF Good, Choice, Tiled
<1>9. Good(y)
    BY <1>1, <1>7, <1>8, SessionsKeep
<1> QED BY <1>1, <1>9 DEF y

\* The rows a request is sent call no window floating that was chosen tiled.
LEMMA TiledDoNotFloat ==
    ASSUME NEW x, Good(x), NEW k, NEW w \in x.open, x.want[w] = "tiled"
    PROVE  w \notin FloatingRows(x, k)
<1>1. Tiled(x, w)
    BY DEF Good, Choice
<1> QED BY <1>1 DEF FloatingRows, Tiled, engine_is_float, SessionOf, NoSession

\* A session made to agree with its rows is right.
LEMMA ConvergedKeeps ==
    ASSUME NEW x, Good(x), NEW k
    PROVE  Good(Converged(x, k)) /\ Only(Converged(x, k), x, {"session"})
BY ArrangementKeeps, TiledDoNotFloat DEF Converged

\* A request about a workspace changes sessions and frames only, refused or not.
LEMMA ReconciledKeeps ==
    ASSUME NEW x, Good(x), NEW k, NEW y \in Reconciled(x, k)
    PROVE  Good(y) /\ Only(y, x, {"session", "arranged"})
<1> DEFINE z == Converged(x, k)
<1>1. Good(z) /\ Only(z, x, {"session"})
    BY ConvergedKeeps
<1> HIDE DEF z
<1>2. DOMAIN x = Fields /\ DOMAIN z = Fields
    BY <1>1 DEF Good, Base, Shape
<1>3. Only(Written(z, k), z, {"arranged", "pending"}) /\ Only(Written(z, k), x, {"session", "arranged"})
    BY <1>1, <1>2 DEF Written, Only, Fields
<1>4. Good(Written(z, k))
    BY <1>1, <1>3, AsideKeeps
<1>5. y = Written(z, k) \/ y = x
    BY DEF Reconciled, z
<1>6. Only(x, x, {"session", "arranged"})
    BY <1>2 DEF Only
<1> QED BY <1>3, <1>4, <1>5, <1>6

\* Marks entered into the tables are those no table had, and they are what was chosen.
LEMMA EnteredKeeps ==
    ASSUME NEW x, Good(x), NEW W \in SUBSET Marked(x)
    PROVE  /\ Good(Entered(x, W)) /\ Only(Entered(x, W), x, {"sticky", "floated"})
           /\ Marked(Entered(x, W)) = Marked(x) \ W
<1> DEFINE y == Entered(x, W)
           stuck == W \cap DOMAIN x.stickyMark
<1>1. /\ Only(y, x, {"sticky", "floated"})
      /\ y.sticky = [w \in DOMAIN x.sticky \cup stuck |->
                        IF w \in stuck THEN x.stickyMark[w] ELSE x.sticky[w]]
      /\ y.floated = x.floated \cup (W \ stuck)
    BY DEF Good, Base, Shape, Fields, Entered, Only
<1>2. /\ stuck = W \cap DOMAIN x.stickyMark
      /\ W \subseteq Observed(x) \cap DOMAIN x.home
      /\ W \cap (DOMAIN x.sticky \cup x.floated) = {}
      /\ W \subseteq DOMAIN x.stickyMark \cup x.floatMark
    BY DEF Marked
<1> HIDE DEF y, stuck
<1>3. DOMAIN y.sticky = DOMAIN x.sticky \cup stuck
    BY <1>1
<1>4. Shape(y)
    BY <1>1 DEF Good, Base, Shape, Only, Fields
<1>5. Sessions(y)
    BY <1>1 DEF Good, Base, Sessions, Only, Fields, Members
<1>6. Tables(y) /\ Bands(y) /\ y.up
    BY <1>1, <1>2, <1>3 DEF Good, Base, Tables, Bands, Only, Fields
<1>7. ASSUME NEW w \in y.open
      PROVE  Choice(y, w)
    <2>1. w \in x.open /\ Choice(x, w)
        BY <1>1 DEF Good, Only, Fields
    <2>2. /\ y.want = x.want /\ y.floatMark = x.floatMark /\ y.stickyMark = x.stickyMark
          /\ y.session = x.session
        BY <1>1 DEF Only, Fields
    <2> QED BY <1>1, <1>2, <1>3, <2>1, <2>2 DEF Choice, Tiled
<1>8. Good(y)
    BY <1>4, <1>5, <1>6, <1>7 DEF Good, Base
<1>9. Observed(y) = Observed(x) /\ y.home = x.home
      /\ y.stickyMark = x.stickyMark /\ y.floatMark = x.floatMark
    BY <1>1 DEF Observed, Only, Fields
<1>10. Marked(y) = Marked(x) \ W
    BY <1>1, <1>2, <1>3, <1>9 DEF Marked
<1> QED BY <1>1, <1>8, <1>10 DEF y

-----------------------------------------------------------------------------

\* A set of numbers that has a member has a least one.
LEMMA LeastNumber ==
    ASSUME NEW S \in SUBSET Nat, S # {}
    PROVE  \E n \in S : \A m \in S : n <= m
<1> DEFINE T == {1..n : n \in S}
<1>1. T \subseteq FiniteSubsetsOf(Nat)
    <2> SUFFICES ASSUME NEW n \in S
                 PROVE  1..n \in FiniteSubsetsOf(Nat)
        OBVIOUS
    <2>1. IsFiniteSet(1..n)
        BY FS_Interval
    <2> QED BY <2>1 DEF FiniteSubsetsOf
<1>2. PICK X \in T : \A Y \in T : ~(<<Y, X>> \in StrictSubsetOrdering(Nat))
    <2>1. T # {}
        OBVIOUS
    <2> HIDE DEF T
    <2> QED BY <1>1, <2>1, WFMin, FS_StrictSubsetOrderingWellFounded
<1>3. PICK n \in S : X = 1..n
    OBVIOUS
<1>4. ASSUME NEW m \in S, ~(n <= m)
      PROVE  FALSE
    <2>1. n \in 1..n /\ n \notin 1..m
        BY <1>4
    <2>2. 1..m \subseteq 1..n /\ 1..m # 1..n
        BY <1>4, <2>1
    <2>3. <<1..m, X>> \in StrictSubsetOrdering(Nat)
        BY <1>3, <2>2 DEF StrictSubsetOrdering
    <2> QED BY <1>2, <2>3
<1> QED BY <1>4

\* Induction over the workspaces: a set with 0 that is closed under successor, up to n.
LEMMA UpTo ==
    ASSUME NEW n \in Nat, NEW S, 0 \in S, \A i \in 1..n : i - 1 \in S => i \in S
    PROVE  \A i \in 0..n : i \in S
<1> DEFINE Bad == {i \in 0..n : i \notin S}
<1> SUFFICES ASSUME Bad # {}
             PROVE  FALSE
    OBVIOUS
<1>1. PICK i \in Bad : \A j \in Bad : i <= j
    <2>1. Bad \in SUBSET Nat
        OBVIOUS
    <2> QED BY <2>1, LeastNumber
<1>2. i \in 1..n
    OBVIOUS
<1>3. i - 1 \notin Bad
    BY <1>1, <1>2
<1> QED BY <1>2, <1>3

\* f is the recursive function that adopt_restart_markers is defined by.
AdoptedUpTo(x, f) ==
    f = [n \in 0..LastSpace |-> IF n = 0 THEN {FoundByEngine(x)} ELSE UNION {AdoptIn(y, n) : y \in f[n - 1]}]

\* That function exists: what the model calls adoption is made workspace by workspace.
LEMMA AdoptedIsDefined ==
    ASSUME LastSpace \in Nat, NEW x
    PROVE  \E f : AdoptedUpTo(x, f)
                  /\ adopt_restart_markers(x) = f[LastSpace]
<1> DEFINE Step(f, i) == IF i = 0 THEN {FoundByEngine(x)} ELSE UNION {AdoptIn(y, i) : y \in f[i - 1]}
           Counts == {n \in Nat : \E f : f = [i \in 0..n |-> Step(f, i)]}
<1>1. 0 \in Counts
    <2> DEFINE f == [i \in 0..0 |-> {FoundByEngine(x)}]
    <2>1. f = [i \in 0..0 |-> Step(f, i)]
        OBVIOUS
    <2> QED BY <2>1
<1>2. ASSUME NEW n \in 1..LastSpace, n - 1 \in Counts
      PROVE  n \in Counts
    <2>0. n \in Nat /\ n - 1 \in Nat /\ n # 0
        OBVIOUS
    <2>1. PICK f : f = [i \in 0..(n - 1) |-> Step(f, i)]
        BY <1>2
    <2> DEFINE g == [i \in 0..n |-> IF i = n THEN Step(f, n) ELSE f[i]]
    <2>2. ASSUME NEW i \in 0..n
          PROVE  g[i] = Step(g, i)
        <3>1. CASE i = n
            <4>1. n - 1 \in 0..n /\ n - 1 # n
                BY <2>0
            <4>2. g[n - 1] = f[n - 1]
                BY <4>1
            <4>3. g[i] = Step(f, n)
                BY <3>1
            <4> QED BY <3>1, <4>2, <4>3
        <3>2. CASE i # n /\ i # 0
            <4>1. i - 1 \in 0..(n - 1) /\ i - 1 # n /\ i \in 0..(n - 1) /\ i - 1 \in 0..n
                BY <2>0, <3>2
            <4>2. g[i - 1] = f[i - 1]
                BY <4>1
            <4>3. g[i] = f[i]
                BY <3>2
            <4>4. f[i] = Step(f, i)
                <5> HIDE DEF Step
                <5> QED BY <2>1, <4>1
            <4> QED BY <3>2, <4>2, <4>3, <4>4
        <3>3. CASE i = 0
            <4>1. 0 # n /\ 0 \in 0..(n - 1) /\ 0 \in 0..n
                BY <2>0
            <4>2. g[0] = f[0]
                BY <4>1
            <4>3. f[0] = Step(f, 0)
                BY <2>1, <4>1
            <4> QED BY <3>3, <4>2, <4>3
        <3> QED BY <3>1, <3>2, <3>3
    <2>3. g = [i \in 0..n |-> g[i]]
        OBVIOUS
    <2> HIDE DEF Step, g
    <2>4. g = [i \in 0..n |-> Step(g, i)]
        BY <2>2, <2>3
    <2> QED BY <2>0, <2>4
<1> HIDE DEF Counts
<1>3. LastSpace \in 0..LastSpace
    OBVIOUS
<1>4. LastSpace \in Counts
    BY <1>1, <1>2, <1>3, UpTo
<1>5. \E f : AdoptedUpTo(x, f)
    BY <1>4 DEF Counts, AdoptedUpTo
<1> DEFINE adopted == CHOOSE f : AdoptedUpTo(x, f)
<1>6. AdoptedUpTo(x, adopted)
    BY <1>5
<1>7. adopt_restart_markers(x) = adopted[LastSpace]
    BY DEF adopt_restart_markers, AdoptedUpTo
<1> QED BY <1>6, <1>7

\* Its values are made one from the other.
LEMMA AdoptedSteps ==
    ASSUME LastSpace \in Nat, NEW x, NEW f,
           AdoptedUpTo(x, f)
    PROVE  /\ f[0] = {FoundByEngine(x)}
           /\ \A n \in 1..LastSpace : f[n] = UNION {AdoptIn(y, n) : y \in f[n - 1]}
<1>1. f[0] = {FoundByEngine(x)}
    BY DEF AdoptedUpTo
<1>2. ASSUME NEW n \in 1..LastSpace
      PROVE  f[n] = UNION {AdoptIn(y, n) : y \in f[n - 1]}
    <2>1. n \in 0..LastSpace /\ n # 0
        OBVIOUS
    <2>2. f[n] = IF n = 0 THEN {FoundByEngine(x)} ELSE UNION {AdoptIn(y, n) : y \in f[n - 1]}
        BY <2>1, Zenon DEF AdoptedUpTo
    <2> QED BY <2>1, <2>2
<1> QED BY <1>1, <1>2

\* The marks that wait for adoption are not a matter of sessions, frames or retries.
LEMMA MarkedStays ==
    ASSUME NEW x, NEW y, Only(y, x, {"session", "arranged", "pending", "tiled", "want"})
    PROVE  /\ Marked(y) = Marked(x) /\ Observed(y) = Observed(x)
           /\ \A k : Members(y, k) = Members(x, k)
           /\ \A k : RowsComplete(y, k) <=> RowsComplete(x, k)
<1>1. /\ y.open = x.open /\ y.overlay = x.overlay /\ y.hidden = x.hidden /\ y.home = x.home
      /\ y.sticky = x.sticky /\ y.floated = x.floated /\ y.stickyMark = x.stickyMark
      /\ y.floatMark = x.floatMark
    BY DEF Only, Fields
<1>2. Observed(y) = Observed(x)
    BY <1>1 DEF Observed
<1>3. Marked(y) = Marked(x)
    BY <1>1, <1>2 DEF Marked
<1>4. \A k : Members(y, k) = Members(x, k)
    BY <1>1 DEF Members
<1>5. \A k : RowsComplete(y, k) <=> RowsComplete(x, k)
    BY <1>1, <1>4 DEF RowsComplete
<1> QED BY <1>2, <1>3, <1>4, <1>5

\* y is x with marks adopted, in the workspaces K all of them unless one was refused.
Adopting(y, x, K) ==
    /\ Good(y) /\ Only(y, x, {"sticky", "floated", "session"})
    /\ Marked(y) \subseteq Marked(x)
    /\ ~Fallible => \A k \in K : RowsComplete(x, k) => Marked(y) \cap Members(x, k) = {}

\* The adoption in one workspace leaves no mark there, unless it may be refused.
LEMMA AdoptInKeeps ==
    ASSUME NEW x, Good(x), NEW k, NEW y \in AdoptIn(x, k)
    PROVE  Adopting(y, x, {k})
<1> DEFINE staged == Marked(x) \cap Members(x, k)
           z == Entered(x, staged)
           c == Converged(z, k)
<1>0. staged \in SUBSET Marked(x)
    OBVIOUS
<1>1. /\ Good(z) /\ Only(z, x, {"sticky", "floated"})
      /\ Marked(z) = Marked(x) \ staged
    BY <1>0, EnteredKeeps
<1>2. staged = Marked(x) \cap Members(x, k)
    OBVIOUS
<1> HIDE DEF z, staged
<1>3. Good(c) /\ Only(c, z, {"session"})
    BY <1>1, ConvergedKeeps
<1>4. y = x \/ y = c
    BY DEF AdoptIn, c, z, staged
<1>5. ~Fallible => y = c \/ staged = {} \/ ~RowsComplete(x, k)
    BY DEF AdoptIn, c, z, staged
<1> HIDE DEF c
<1>6. Only(c, x, {"sticky", "floated", "session"})
    BY <1>1, <1>3 DEF Only, Fields
<1>7. Only(c, z, {"session", "arranged", "pending", "tiled", "want"})
    BY <1>3 DEF Only
<1>8. Marked(c) = Marked(x) \ staged
    BY <1>1, <1>7, MarkedStays
<1>9. DOMAIN x = Fields /\ Only(x, x, {"sticky", "floated", "session"})
    BY DEF Good, Base, Shape, Only
<1> QED BY <1>2, <1>3, <1>4, <1>5, <1>6, <1>8, <1>9 DEF Adopting

\* The windows the engine floats already are adopted without a request.
LEMMA FoundByEngineKeeps ==
    ASSUME NEW x, Good(x)
    PROVE  Adopting(FoundByEngine(x), x, {})
<1>1. PICK W : W = {w \in Marked(x) : engine_is_float(x, w)}
    OBVIOUS
<1>2. W \in SUBSET Marked(x)
    BY <1>1
<1>3. FoundByEngine(x) = Entered(x, W)
    BY <1>1 DEF FoundByEngine
<1>4. /\ Good(Entered(x, W)) /\ Only(Entered(x, W), x, {"sticky", "floated"})
      /\ Marked(Entered(x, W)) = Marked(x) \ W
    BY <1>2, EnteredKeeps
<1>5. Only(Entered(x, W), x, {"sticky", "floated", "session"})
    BY <1>4 DEF Only
<1> QED BY <1>3, <1>4, <1>5 DEF Adopting

\* The adoption in one more workspace keeps what those before it left.
LEMMA AdoptingOn ==
    ASSUME NEW x, NEW y, NEW z, NEW K, NEW k, Adopting(y, x, K), Adopting(z, y, {k})
    PROVE  Adopting(z, x, K \cup {k})
<1>1. Only(z, x, {"sticky", "floated", "session"})
    BY DEF Adopting, Only
<1>2. y.home = x.home /\ y.hidden = x.hidden /\ y.open = x.open
    BY DEF Adopting, Only, Fields
<1>3. \A j : Members(y, j) = Members(x, j) /\ (RowsComplete(y, j) <=> RowsComplete(x, j))
    BY <1>2 DEF Members, RowsComplete
<1> QED BY <1>1, <1>3 DEF Adopting

\* adopt_restart_markers leaves no mark in a workspace whose rows are complete,
\* unless a request may be refused.
LEMMA AdoptedKeeps ==
    ASSUME Assumption, NEW x, Good(x), NEW y \in adopt_restart_markers(x)
    PROVE  Adopting(y, x, Spaces)
<1>0. LastSpace \in Nat
    BY DEF Assumption
<1>1. PICK f : AdoptedUpTo(x, f) /\ adopt_restart_markers(x) = f[LastSpace]
    BY <1>0, AdoptedIsDefined
<1>2. f[0] = {FoundByEngine(x)}
      /\ \A n \in 1..LastSpace : f[n] = UNION {AdoptIn(z, n) : z \in f[n - 1]}
    BY <1>0, <1>1, AdoptedSteps
<1> DEFINE Done == {n \in Nat : \A z \in f[n] : Adopting(z, x, 1..n)}
<1>3. 0 \in Done
    <2>1. 1..0 = {}
        OBVIOUS
    <2> QED BY <1>2, <2>1, FoundByEngineKeeps
<1>4. ASSUME NEW n \in 1..LastSpace, n - 1 \in Done
      PROVE  n \in Done
    <2>1. ASSUME NEW z \in f[n]
          PROVE  Adopting(z, x, 1..n)
        <3>1. PICK u \in f[n - 1] : z \in AdoptIn(u, n)
            BY <1>2, <2>1
        <3>2. Adopting(u, x, 1..(n - 1))
            BY <1>4, <3>1
        <3>3. Adopting(z, u, {n})
            BY <3>1, <3>2, AdoptInKeeps DEF Adopting
        <3>4. PICK K : K = 1..(n - 1)
            OBVIOUS
        <3>5. 1..n = K \cup {n}
            BY <1>0, <3>4
        <3>6. Adopting(z, x, K \cup {n})
            BY <3>2, <3>3, <3>4, AdoptingOn
        <3> QED BY <3>5, <3>6
    <2>2. n \in Nat
        BY <1>0
    <2> QED BY <2>1, <2>2
<1> HIDE DEF Done
<1>5. LastSpace \in Done
    BY <1>0, <1>3, <1>4, UpTo
<1> QED BY <1>1, <1>5 DEF Done, Spaces

\* What every handler does first: windows are admitted, marks adopted.
LEMMA ObserveKeeps ==
    ASSUME Assumption, NEW x, Good(x), NEW y \in Observe(x)
    PROVE  /\ Good(y) /\ Only(y, x, {"home", "sticky", "floated", "session"})
           /\ DOMAIN x.home \subseteq DOMAIN y.home
           /\ DOMAIN y.home \subseteq DOMAIN x.home \cup x.open
           /\ ~Fallible => \A k \in Spaces : RowsComplete(y, k) => Marked(y) \cap Members(y, k) = {}
<1> DEFINE a == Admitted(x)
<1>1. /\ Good(a) /\ Only(a, x, {"home"})
      /\ DOMAIN x.home \subseteq DOMAIN a.home
      /\ DOMAIN a.home \subseteq DOMAIN x.home \cup x.open
    BY AdmittedKeeps
<1>2. y \in adopt_restart_markers(a)
    BY DEF Observe
<1> HIDE DEF a
<1>3. Adopting(y, a, Spaces)
    BY <1>1, <1>2, AdoptedKeeps
<1>4. y.home = a.home /\ y.open = a.open /\ y.hidden = a.hidden
    BY <1>3 DEF Adopting, Only, Fields
<1>5. \A k : Members(y, k) = Members(a, k) /\ (RowsComplete(y, k) <=> RowsComplete(a, k))
    BY <1>4 DEF Members, RowsComplete
<1>6. Only(y, x, {"home", "sticky", "floated", "session"})
    BY <1>1, <1>3 DEF Adopting, Only
<1> QED BY <1>1, <1>3, <1>4, <1>5, <1>6 DEF Adopting

\* drop_member_state forgets closed windows everywhere and nothing of the others.
LEMMA DroppedKeeps ==
    ASSUME NEW x, Good(x), NEW W, W \cap x.open = {}
    PROVE  /\ Good(drop_member_state(x, W))
           /\ Only(drop_member_state(x, W), x,
                   {"home", "hidden", "floated", "sticky", "prior", "session"})
           /\ DOMAIN drop_member_state(x, W).home = DOMAIN x.home \ W
<1> DEFINE y == drop_member_state(x, W)
<1>1. /\ Only(y, x, {"home", "hidden", "floated", "sticky", "prior", "session"})
      /\ y.home = Without(x.home, W) /\ y.floated = x.floated \ W
      /\ y.sticky = Without(x.sticky, W) /\ y.prior = Without(x.prior, W)
      /\ y.session = [k \in DOMAIN x.session |-> Survivors(x.session[k], W)]
    BY DEF Good, Base, Shape, Fields, drop_member_state, Only
<1>2. /\ y.open = x.open /\ y.top = x.top /\ y.raised = x.raised /\ y.want = x.want
      /\ y.floatMark = x.floatMark /\ y.stickyMark = x.stickyMark
      /\ y.tiled = x.tiled /\ y.active = x.active /\ y.up = x.up
    BY <1>1 DEF Only, Fields
<1>3. /\ DOMAIN y.home = DOMAIN x.home \ W
      /\ \A w \in DOMAIN y.home : y.home[w] = x.home[w]
      /\ DOMAIN y.sticky = DOMAIN x.sticky \ W /\ DOMAIN y.prior = DOMAIN x.prior \ W
      /\ \A w \in DOMAIN y.prior : y.prior[w] = x.prior[w]
    BY <1>1 DEF Without
<1> HIDE DEF y
<1>4. Shape(y)
    BY <1>1, <1>2, <1>3 DEF Good, Base, Shape, Only
<1>5. \A k : Members(y, k) = Members(x, k) \ W
    BY <1>3 DEF Members
<1>6. DOMAIN y.session = DOMAIN x.session
      /\ \A k \in DOMAIN x.session :
             /\ y.session[k].tiles = x.session[k].tiles \ W
             /\ y.session[k].floats = x.session[k].floats \ W
             /\ y.session[k].old = x.session[k].old
    BY <1>1 DEF Survivors
<1>7. Sessions(y)
    <2> SUFFICES ASSUME NEW k \in DOMAIN y.session
                 PROVE  /\ y.session[k].tiles \cup y.session[k].floats \subseteq Members(y, k)
                        /\ y.session[k].tiles \cap y.session[k].floats = {}
                        /\ k \in y.tiled => ~y.session[k].old
        BY DEF Sessions
    <2>1. /\ x.session[k].tiles \cup x.session[k].floats \subseteq Members(x, k)
          /\ x.session[k].tiles \cap x.session[k].floats = {}
          /\ k \in x.tiled => ~x.session[k].old
        BY <1>6 DEF Good, Base, Sessions
    <2> QED BY <1>2, <1>5, <1>6, <2>1
<1>8. Tables(y)
    BY <1>1, <1>3 DEF Good, Base, Tables
<1>9. Bands(y) /\ y.up
    BY <1>2, <1>3 DEF Good, Base, Bands
<1>10. ASSUME NEW w \in y.open
       PROVE  Choice(y, w)
    <2>1. w \in x.open /\ Choice(x, w) /\ w \notin W
        BY <1>2 DEF Good
    <2> QED BY <1>1, <1>2, <1>3, <1>6, <2>1 DEF Choice, Tiled
<1>11. Good(y)
    BY <1>4, <1>7, <1>8, <1>9, <1>10 DEF Good, Base
<1> QED BY <1>1, <1>3, <1>11 DEF y

\* workspace_close_cleanup keeps a host right, and does nothing to marks and members
\* when no window is gone.
LEMMA CleanedKeeps ==
    ASSUME NEW x, Good(x), NEW y, y = workspace_close_cleanup(x)
    PROVE  /\ Good(y)
           /\ DOMAIN x.home \subseteq x.open \cup x.hidden =>
                  Marked(y) = Marked(x) /\ \A k : Members(y, k) = Members(x, k)
<1>1. PICK W : W = DOMAIN x.home \ (x.open \cup x.hidden)
    OBVIOUS
<1>2. y = drop_member_state(x, W)
    BY <1>1 DEF workspace_close_cleanup
<1>3. W \cap x.open = {}
    BY <1>1
<1>4. Good(y) /\ Only(y, x, {"home", "hidden", "floated", "sticky", "prior", "session"})
    BY <1>2, <1>3, DroppedKeeps
<1>5. /\ y.home = Without(x.home, W) /\ y.floated = x.floated \ W
      /\ y.sticky = Without(x.sticky, W) /\ y.hidden = x.hidden \ W
    BY <1>2 DEF Good, Base, Shape, Fields, drop_member_state
<1>6. /\ y.open = x.open /\ y.overlay = x.overlay
      /\ y.floatMark = x.floatMark /\ y.stickyMark = x.stickyMark
    BY <1>4 DEF Only, Fields
<1>7. ASSUME W = {}
      PROVE  Marked(y) = Marked(x) /\ \A k : Members(y, k) = Members(x, k)
    <2>1. /\ DOMAIN y.home = DOMAIN x.home /\ \A w \in DOMAIN x.home : y.home[w] = x.home[w]
          /\ DOMAIN y.sticky = DOMAIN x.sticky
          /\ y.floated = x.floated /\ y.hidden = x.hidden
        BY <1>5, <1>7 DEF Without
    <2>2. Observed(y) = Observed(x)
        BY <1>6, <2>1 DEF Observed
    <2> QED BY <1>6, <2>1, <2>2 DEF Marked, Members
<1> QED BY <1>1, <1>4, <1>7

\* The request of a tick is one about the workspace in view, if it tiles.
LEMMA ReconcileKeeps ==
    ASSUME NEW x, Good(x), NEW y \in Reconcile(x)
    PROVE  Good(y) /\ Only(y, x, {"session", "arranged"})
<1>1. Only(x, x, {"session", "arranged"})
    BY DEF Good, Base, Shape, Only
<1> QED BY <1>1, ReconciledKeeps DEF Reconcile

\* reconcile_tick keeps a host right.
LEMMA TickKeeps ==
    ASSUME Assumption, NEW x, Good(x), NEW y \in reconcile_tick(x)
    PROVE  Good(y)
BY ObserveKeeps, CleanedKeeps, ReconcileKeeps DEF reconcile_tick

\* Where the clean-up finds nothing to do, the members are open or hidden.
LEMMA NothingGone ==
    ASSUME NEW x, Good(x), workspace_close_cleanup(x) = x
    PROVE  DOMAIN x.home \subseteq x.open \cup x.hidden
<1>1. PICK W : W = DOMAIN x.home \ (x.open \cup x.hidden)
    OBVIOUS
<1>2. x = drop_member_state(x, W)
    BY <1>1 DEF workspace_close_cleanup
<1>3. DOMAIN x.home = DOMAIN x.home \ W
    BY <1>1, <1>2, DroppedKeeps
<1> QED BY <1>1, <1>3

\* Without failures and closed windows, a tick leaves no mark unadopted.
LEMMA TickAdopts ==
    ASSUME Assumption, NEW x, Good(x), workspace_close_cleanup(x) = x, ~Fallible,
           NEW z \in reconcile_tick(x)
    PROVE  Marked(z) = {}
<1>1. PICK y \in Observe(x) : z \in Reconcile(workspace_close_cleanup(y))
    BY DEF reconcile_tick
<1>2. /\ Good(y) /\ Only(y, x, {"home", "sticky", "floated", "session"})
      /\ DOMAIN y.home \subseteq DOMAIN x.home \cup x.open
      /\ \A k \in Spaces : RowsComplete(y, k) => Marked(y) \cap Members(y, k) = {}
    BY <1>1, ObserveKeeps
<1>3. DOMAIN y.home \subseteq y.open \cup y.hidden
    <2>1. y.open = x.open /\ y.hidden = x.hidden
        BY <1>2 DEF Only, Fields
    <2> QED BY <1>2, <2>1, NothingGone
<1>4. PICK c : c = workspace_close_cleanup(y)
    OBVIOUS
<1>5. Good(c) /\ Marked(c) = Marked(y)
    BY <1>2, <1>3, <1>4, CleanedKeeps
<1>6. Only(z, c, {"session", "arranged"})
    BY <1>1, <1>4, <1>5, ReconcileKeeps
<1>7. Marked(z) = Marked(y)
    <2>1. Only(z, c, {"session", "arranged", "pending", "tiled", "want"})
        BY <1>6 DEF Only
    <2> QED BY <1>5, <2>1, MarkedStays
<1>8. ASSUME NEW w \in Marked(y)
      PROVE  FALSE
    <2>1. w \in DOMAIN y.home /\ y.home[w] \in Spaces
        BY <1>2 DEF Marked, Good, Base, Shape
    <2>2. w \in Members(y, y.home[w])
        BY <2>1 DEF Members
    <2>3. RowsComplete(y, y.home[w])
        BY <1>3 DEF RowsComplete, Members
    <2> QED BY <1>2, <2>1, <2>2, <2>3
<1> QED BY <1>7, <1>8

\* In a right host, a window that is seen is in the mode last chosen.
LEMMA GoodModes ==
    ASSUME NEW x, Good(x), NEW w \in Observed(x) \cap DOMAIN x.home, w \notin Marked(x)
    PROVE  x.want[w] \in {"any", "lost", ModeOf(x, w)}
<1>1. w \in x.open /\ Choice(x, w)
    BY DEF Observed, Good
<1>2. ASSUME Tiled(x, w)
      PROVE  ~engine_is_float(x, w)
    BY <1>2 DEF Tiled, engine_is_float, SessionOf, NoSession
<1> QED BY <1>1, <1>2 DEF Choice, Tiled, ModeOf, Marked

-----------------------------------------------------------------------------
(* The toggles.                                                               *)

\* Nothing changed for the windows other than w.
Elsewhere(y, x, w) ==
    \A v \in x.open \ {w} :
        /\ v \in y.floatMark <=> v \in x.floatMark
        /\ v \in DOMAIN y.stickyMark <=> v \in DOMAIN x.stickyMark
        /\ v \in y.floated <=> v \in x.floated
        /\ v \in DOMAIN y.sticky <=> v \in DOMAIN x.sticky
        /\ y.want[v] = x.want[v]
        /\ x.want[v] = "tiled" => \A k \in DOMAIN y.session : v \notin y.session[k].floats

\* A host on the way of a choice about w, begun at x: all but that choice is right.
OnTheWay(y, x, w) ==
    /\ Base(y) /\ Elsewhere(y, x, w)
    /\ y.open = x.open /\ w \in y.open /\ w \in DOMAIN y.home

\* A choice begins on its way.
LEMMA WayBegins ==
    ASSUME NEW x, Good(x), NEW w \in x.open, w \in DOMAIN x.home
    PROVE  OnTheWay(x, x, w)
BY DEF OnTheWay, Good, Elsewhere, Choice, Tiled

\* A choice that ends with w in the chosen mode ends right.
LEMMA WayEnds ==
    ASSUME NEW x, Good(x), NEW w, NEW y, OnTheWay(y, x, w), Choice(y, w)
    PROVE  Good(y)
<1> SUFFICES ASSUME NEW v \in y.open, v # w
             PROVE  Choice(y, v)
    BY DEF Good, OnTheWay
<1>1. v \in x.open /\ Choice(x, v)
    BY DEF Good, OnTheWay
<1> QED BY <1>1 DEF Choice, Tiled, OnTheWay, Elsewhere

\* What a result says of the host it carries.
LEMMA OkFailed ==
    ASSUME NEW x
    PROVE  /\ Ok(x).host = x /\ Ok(x).ok = TRUE
           /\ Failed(x).host = x /\ Failed(x).ok = FALSE
BY DEF Ok, Failed

\* A native call succeeds, or leaves the host as it was.
LEMMA Tries ==
    ASSUME NEW x, NEW y, NEW r \in Try(x, y)
    PROVE  r = Ok(x) \/ r = Failed(y)
BY DEF Try

\* The float mark of w is a matter of the choice about w alone.
LEMMA FloatMarkOnTheWay ==
    ASSUME NEW x, NEW w, NEW y, OnTheWay(y, x, w), NEW z,
           z = [y EXCEPT !.floatMark = @ \cup {w}] \/ z = [y EXCEPT !.floatMark = @ \ {w}]
    PROVE  OnTheWay(z, x, w) /\ Only(z, y, {"floatMark"})
<1>1. Only(z, y, {"floatMark"})
      /\ (z.floatMark = y.floatMark \cup {w} \/ z.floatMark = y.floatMark \ {w})
    BY DEF OnTheWay, Base, Shape, Fields, Only
<1>2. Shape(z)
    BY <1>1 DEF OnTheWay, Base, Shape, Only, Fields
<1>3. Sessions(z) /\ Tables(z) /\ Bands(z) /\ z.up
    BY <1>1 DEF OnTheWay, Base, Sessions, Tables, Bands, Members, Only, Fields
<1>4. Elsewhere(z, x, w)
    BY <1>1 DEF OnTheWay, Elsewhere, Only, Fields
<1>5. z.open = x.open /\ w \in z.open /\ w \in DOMAIN z.home
    BY <1>1 DEF OnTheWay, Only, Fields
<1> QED BY <1>1, <1>2, <1>3, <1>4, <1>5 DEF OnTheWay, Base

\* So is its sticky mark.
LEMMA StickyMarkOnTheWay ==
    ASSUME NEW x, NEW w, NEW y, OnTheWay(y, x, w), NEW z, NEW prior,
           z = [y EXCEPT !.stickyMark = With(@, w, prior)]
           \/ z = [y EXCEPT !.stickyMark = Without(@, {w})]
    PROVE  OnTheWay(z, x, w) /\ Only(z, y, {"stickyMark"})
<1>1. Only(z, y, {"stickyMark"})
      /\ (z.stickyMark = With(y.stickyMark, w, prior) \/ z.stickyMark = Without(y.stickyMark, {w}))
    BY DEF OnTheWay, Base, Shape, Fields, Only
<1>2. DOMAIN z.stickyMark = DOMAIN y.stickyMark \cup {w}
      \/ DOMAIN z.stickyMark = DOMAIN y.stickyMark \ {w}
    BY <1>1 DEF With, Without
<1>3. Shape(z)
    BY <1>1, <1>2 DEF OnTheWay, Base, Shape, Only, Fields
<1>4. Sessions(z) /\ Tables(z) /\ Bands(z) /\ z.up
    BY <1>1 DEF OnTheWay, Base, Sessions, Tables, Bands, Members, Only, Fields
<1>5. Elsewhere(z, x, w)
    BY <1>1, <1>2 DEF OnTheWay, Elsewhere, Only, Fields
<1>6. z.open = x.open /\ w \in z.open /\ w \in DOMAIN z.home
    BY <1>1 DEF OnTheWay, Only, Fields
<1> QED BY <1>1, <1>3, <1>4, <1>5, <1>6 DEF OnTheWay, Base

\* z is y with the choice written down.
Chosen(z, y, x, w, mode) ==
    /\ OnTheWay(z, x, w) /\ Only(z, y, {"want"})
    /\ z.want[w] = IF y.want[w] = "lost" THEN "lost" ELSE mode

\* To write the choice down does not disturb the other windows.
LEMMA ChoseOnTheWay ==
    ASSUME NEW x, NEW w, NEW y, OnTheWay(y, x, w), NEW mode \in {"tiled", "float", "sticky", "any"}
    PROVE  Chosen(Chose(y, w, mode), y, x, w, mode)
<1>0. PICK z : z = Chose(y, w, mode)
    OBVIOUS
<1>1. Only(z, y, {"want"})
      /\ z.want = With(y.want, w, IF y.want[w] = "lost" THEN "lost" ELSE mode)
    BY <1>0 DEF OnTheWay, Base, Shape, Fields, Only, Chose
<1>2. /\ DOMAIN y.want \subseteq DOMAIN z.want
      /\ z.want[w] = IF y.want[w] = "lost" THEN "lost" ELSE mode
      /\ \A v \in DOMAIN y.want \ {w} : z.want[v] = y.want[v]
    BY <1>1 DEF With
<1>3. Shape(z)
    BY <1>1, <1>2 DEF OnTheWay, Base, Shape, Only, Fields
<1>4. Sessions(z) /\ Tables(z) /\ Bands(z) /\ z.up
    BY <1>1 DEF OnTheWay, Base, Sessions, Tables, Bands, Members, Only, Fields
<1>5. Elsewhere(z, x, w)
    BY <1>1, <1>2 DEF OnTheWay, Elsewhere, Only, Fields, Base, Shape
<1>6. z.open = x.open /\ w \in z.open /\ w \in DOMAIN z.home
    BY <1>1 DEF OnTheWay, Only, Fields
<1> QED BY <1>0, <1>1, <1>2, <1>3, <1>4, <1>5, <1>6 DEF Chosen, OnTheWay, Base

\* Nor does what the tables floated and sticky say of w.
LEMMA TablesOnTheWay ==
    ASSUME NEW x, NEW w, NEW y, OnTheWay(y, x, w), NEW z, Only(z, y, {"floated", "sticky"}),
           z.floated \ {w} = y.floated \ {w}, DOMAIN z.sticky \ {w} = DOMAIN y.sticky \ {w}
    PROVE  OnTheWay(z, x, w)
<1>1. Shape(z)
    BY DEF OnTheWay, Base, Shape, Only, Fields
<1>2. Sessions(z) /\ Bands(z) /\ z.up
    BY DEF OnTheWay, Base, Sessions, Bands, Members, Only, Fields
<1>3. Tables(z)
    BY DEF OnTheWay, Base, Tables, Only, Fields
<1>4. Elsewhere(z, x, w)
    BY DEF OnTheWay, Elsewhere, Only, Fields
<1>5. z.open = x.open /\ w \in z.open /\ w \in DOMAIN z.home
    BY DEF OnTheWay, Only, Fields
<1> QED BY <1>1, <1>2, <1>3, <1>4, <1>5 DEF OnTheWay, Base

\* The bands may change as long as what was raised can be lowered.
LEMMA BandOnTheWay ==
    ASSUME NEW x, NEW w, NEW y, OnTheWay(y, x, w), NEW z, Only(z, y, {"top", "prior", "raised"}),
           Bands(z), DOMAIN z.prior \subseteq DOMAIN y.prior \cup {w},
           \A v \in DOMAIN z.prior : z.prior[v] \in BOOLEAN
    PROVE  OnTheWay(z, x, w)
<1>1. Shape(z)
    BY DEF OnTheWay, Base, Shape, Only, Fields
<1>2. Sessions(z) /\ z.up
    BY DEF OnTheWay, Base, Sessions, Members, Only, Fields
<1>3. Tables(z)
    BY DEF OnTheWay, Base, Tables, Only, Fields
<1>4. Elsewhere(z, x, w)
    BY DEF OnTheWay, Elsewhere, Only, Fields
<1>5. z.open = x.open /\ w \in z.open /\ w \in DOMAIN z.home
    BY DEF OnTheWay, Only, Fields
<1> QED BY <1>1, <1>2, <1>3, <1>4, <1>5 DEF OnTheWay, Base

\* A session may be committed that is right for the windows other than w.
LEMMA CommitOnTheWay ==
    ASSUME NEW x, NEW w, NEW y, OnTheWay(y, x, w), NEW k, NEW s, NEW z, z = Commit(y, k, s),
           s.tiles \cup s.floats \subseteq Members(y, k), s.tiles \cap s.floats = {},
           k \in y.tiled => ~s.old,
           \A v \in x.open \ {w} : x.want[v] = "tiled" => v \notin s.floats
    PROVE  OnTheWay(z, x, w) /\ Only(z, y, {"session"}) /\ z.session = With(y.session, k, s)
<1>1. Only(z, y, {"session"}) /\ z.session = With(y.session, k, s)
    BY DEF OnTheWay, Base, Shape, Fields, Only, Commit
<1>2. /\ DOMAIN z.session = DOMAIN y.session \cup {k}
      /\ \A j \in DOMAIN z.session : z.session[j] = IF j = k THEN s ELSE y.session[j]
    BY <1>1 DEF With
<1>3. Shape(z)
    BY <1>1 DEF OnTheWay, Base, Shape, Only, Fields
<1>4. Tables(z) /\ Bands(z) /\ z.up
    BY <1>1 DEF OnTheWay, Base, Tables, Bands, Only, Fields
<1>5. \A j : Members(z, j) = Members(y, j)
    BY <1>1 DEF Members, Only, Fields
<1>6. z.tiled = y.tiled
    BY <1>1 DEF Only, Fields
<1>7. Sessions(z)
    BY <1>2, <1>5, <1>6 DEF OnTheWay, Base, Sessions
<1>8. Elsewhere(z, x, w)
    BY <1>1, <1>2 DEF OnTheWay, Elsewhere, Only, Fields
<1>9. z.open = x.open /\ w \in z.open /\ w \in DOMAIN z.home
    BY <1>1 DEF OnTheWay, Only, Fields
<1> QED BY <1>1, <1>3, <1>4, <1>7, <1>8, <1>9 DEF OnTheWay, Base

\* prepare_toggle_float changes nothing, whether it is refused or not.
LEMMA PreparedSame ==
    ASSUME NEW x, NEW w, NEW r \in prepare_toggle_float(x, w)
    PROVE  r.host = x
BY OkFailed, Tries DEF prepare_toggle_float

\* What a step of a choice leaves: it went well, or the host is as it was.
Left(r, y, x, w, F, done) ==
    /\ OnTheWay(r.host, x, w) /\ Only(r.host, y, F)
    /\ IF r.ok THEN done ELSE r.host = y

\* install_float_mark_held marks the window or changes nothing.
LEMMA FloatMarkInstalled ==
    ASSUME NEW x, NEW w, NEW y, OnTheWay(y, x, w), NEW r \in install_float_mark_held(y, w)
    PROVE  Left(r, y, x, w, {"floatMark"}, w \in r.host.floatMark)
<1> DEFINE z == [y EXCEPT !.floatMark = @ \cup {w}]
<1>1. OnTheWay(z, x, w) /\ Only(z, y, {"floatMark"})
    BY FloatMarkOnTheWay
<1>2. w \in z.floatMark
    BY DEF OnTheWay, Base, Shape, Fields
<1>3. r = Ok(z) \/ r = Failed(y)
    BY Tries DEF install_float_mark_held
<1> HIDE DEF z
<1>4. Only(y, y, {"floatMark"})
    BY DEF OnTheWay, Base, Shape, Only
<1> QED BY <1>1, <1>2, <1>3, <1>4, OkFailed DEF Left

\* clear_float_mark takes the mark off or changes nothing.
LEMMA FloatMarkCleared ==
    ASSUME NEW x, NEW w, NEW y, OnTheWay(y, x, w), NEW r \in clear_float_mark(y, w)
    PROVE  Left(r, y, x, w, {"floatMark"}, w \notin r.host.floatMark)
<1> DEFINE z == [y EXCEPT !.floatMark = @ \ {w}]
<1>1. OnTheWay(z, x, w) /\ Only(z, y, {"floatMark"})
    BY FloatMarkOnTheWay
<1>2. w \notin z.floatMark
    BY DEF OnTheWay, Base, Shape, Fields
<1>3. r = Ok(z) \/ r = Failed(y) \/ (w \notin y.floatMark /\ r = Ok(y))
    BY Tries DEF clear_float_mark
<1> HIDE DEF z
<1>4. Only(y, y, {"floatMark"})
    BY DEF OnTheWay, Base, Shape, Only
<1> QED BY <1>1, <1>2, <1>3, <1>4, OkFailed DEF Left

\* install_sticky_mark_held marks the window or changes nothing.
LEMMA StickyMarkInstalled ==
    ASSUME NEW x, NEW w, NEW y, OnTheWay(y, x, w), NEW r,
           \/ r \in install_sticky_mark_held(y, w, FALSE)
           \/ r \in install_sticky_mark_held(y, w, TRUE)
    PROVE  Left(r, y, x, w, {"stickyMark"}, w \in DOMAIN r.host.stickyMark)
<1>0. PICK prior : r \in install_sticky_mark_held(y, w, prior)
    OBVIOUS
<1> DEFINE z == [y EXCEPT !.stickyMark = With(@, w, prior)]
<1>1. OnTheWay(z, x, w) /\ Only(z, y, {"stickyMark"})
    BY StickyMarkOnTheWay
<1>2. w \in DOMAIN z.stickyMark
    BY DEF OnTheWay, Base, Shape, Fields, With
<1>3. r = Ok(z) \/ r = Failed(y)
    BY <1>0, Tries DEF install_sticky_mark_held
<1> HIDE DEF z
<1>4. Only(y, y, {"stickyMark"})
    BY DEF OnTheWay, Base, Shape, Only
<1> QED BY <1>1, <1>2, <1>3, <1>4, OkFailed DEF Left

\* clear_sticky_mark takes the expected mark off or changes nothing.
LEMMA StickyMarkCleared ==
    ASSUME NEW x, NEW w, NEW y, OnTheWay(y, x, w), NEW r \in clear_sticky_mark(y, w)
    PROVE  Left(r, y, x, w, {"stickyMark"}, w \notin DOMAIN r.host.stickyMark)
<1> DEFINE z == [y EXCEPT !.stickyMark = Without(@, {w})]
<1>1. OnTheWay(z, x, w) /\ Only(z, y, {"stickyMark"})
    BY StickyMarkOnTheWay
<1>2. w \notin DOMAIN z.stickyMark
    BY DEF OnTheWay, Base, Shape, Fields, Without
<1>3. r = Ok(z) \/ r = Failed(y) \/ (w \notin DOMAIN y.stickyMark /\ r = Ok(y))
    BY Tries DEF clear_sticky_mark
<1> HIDE DEF z
<1>4. Only(y, y, {"stickyMark"})
    BY DEF OnTheWay, Base, Shape, Only
<1> QED BY <1>1, <1>2, <1>3, <1>4, OkFailed DEF Left

\* What the band of a window is kept in.
BandFields == {"top", "prior", "raised"}

\* restore_raised_band lowers what this process raised, or keeps knowing that it must.
LEMMA BandRestored ==
    ASSUME NEW x, NEW w, NEW y, OnTheWay(y, x, w), NEW r \in restore_raised_band(y, w)
    PROVE  /\ OnTheWay(r.host, x, w) /\ Only(r.host, y, BandFields)
           /\ r.ok => w \notin r.host.raised
<1> DEFINE forgotten == [y EXCEPT !.prior = Without(@, {w})]
           lowered == [forgotten EXCEPT !.top = @ \ {w}, !.raised = @ \ {w}]
<1>0. /\ DOMAIN y = Fields /\ Bands(y) /\ \A v \in DOMAIN y.prior : y.prior[v] \in BOOLEAN
    BY DEF OnTheWay, Base, Shape
<1>1. /\ Only(forgotten, y, BandFields) /\ forgotten.top = y.top
      /\ forgotten.raised = y.raised /\ forgotten.prior = Without(y.prior, {w})
    BY <1>0 DEF Only, Fields, BandFields
<1>2. /\ Only(lowered, y, BandFields) /\ lowered.top = y.top \ {w}
      /\ lowered.raised = y.raised \ {w} /\ lowered.prior = Without(y.prior, {w})
    BY <1>0 DEF Only, Fields, BandFields
<1>3. /\ w \notin DOMAIN y.prior /\ r = Ok(y)
      \/ /\ w \in DOMAIN y.prior /\ (y.prior[w] \/ w \notin y.top) /\ r = Ok(forgotten)
      \/ r = Ok(lowered)
      \/ r = Failed(y)
    BY Tries DEF restore_raised_band
<1> HIDE DEF forgotten, lowered
<1>4. ASSUME NEW z, z.prior = Without(y.prior, {w})
      PROVE  /\ DOMAIN z.prior = DOMAIN y.prior \ {w}
             /\ \A v \in DOMAIN z.prior : z.prior[v] = y.prior[v]
    BY <1>4 DEF Without
<1>5. Only(y, y, BandFields)
    BY <1>0 DEF Only
<1>6. CASE w \notin DOMAIN y.prior /\ r = Ok(y)
    BY <1>0, <1>5, <1>6, OkFailed DEF Bands
<1>7. CASE r = Failed(y)
    BY <1>5, <1>7, OkFailed
<1>8. CASE r = Ok(lowered)
    <2>1. lowered.open = y.open
        BY <1>2 DEF Only, Fields, BandFields
    <2>2. Bands(lowered)
        BY <1>0, <1>2, <1>4, <2>1 DEF Bands
    <2>3. OnTheWay(lowered, x, w)
        BY <1>0, <1>2, <1>4, <2>2, BandOnTheWay DEF BandFields
    <2> QED BY <1>2, <1>8, <2>3, OkFailed
<1>9. CASE w \in DOMAIN y.prior /\ (y.prior[w] \/ w \notin y.top) /\ r = Ok(forgotten)
    <2>1. forgotten.open = y.open
        BY <1>1 DEF Only, Fields, BandFields
    <2>2. w \notin y.raised
        BY <1>0, <1>9 DEF Bands
    <2>3. Bands(forgotten)
        BY <1>0, <1>1, <1>4, <2>1, <2>2 DEF Bands
    <2>4. OnTheWay(forgotten, x, w)
        BY <1>0, <1>1, <1>4, <2>3, BandOnTheWay DEF BandFields
    <2> QED BY <1>1, <1>9, <2>2, <2>4, OkFailed
<1> QED BY <1>3, <1>6, <1>7, <1>8, <1>9

\* A raised window is known to have been raised, also when its band is soon lost again.
LEMMA RaisedOnTheWay ==
    ASSUME NEW x, NEW w, NEW y, OnTheWay(y, x, w), NEW z,
           z = Raise(y, w) \/ z = [Raise(y, w) EXCEPT !.top = y.top, !.raised = y.raised]
    PROVE  OnTheWay(z, x, w) /\ Only(z, y, BandFields)
<1>0. /\ DOMAIN y = Fields /\ Bands(y) /\ \A v \in DOMAIN y.prior : y.prior[v] \in BOOLEAN
      /\ w \in y.open
    BY DEF OnTheWay, Base, Shape
<1>1. PICK was : was = IF w \in DOMAIN y.prior THEN y.prior[w] ELSE w \in y.top
    OBVIOUS
<1>2. /\ was \in BOOLEAN
      /\ w \in DOMAIN y.prior => was = y.prior[w]
      /\ w \notin DOMAIN y.prior => (was <=> w \in y.top)
    <2>1. CASE w \in DOMAIN y.prior
        <3>1. was = y.prior[w]
            BY <1>1, <2>1, Zenon
        <3> QED BY <1>0, <2>1, <3>1
    <2>2. CASE w \notin DOMAIN y.prior
        <3>1. was = (w \in y.top)
            BY <1>1, <2>2, Zenon
        <3>2. was \in BOOLEAN
            BY <3>1
        <3>3. was <=> w \in y.top
            BY <3>1
        <3> QED BY <2>2, <3>2, <3>3
    <2> QED BY <2>1, <2>2
<1>3. /\ Only(z, y, BandFields) /\ z.prior = With(y.prior, w, was)
      /\ \/ /\ z.top = y.top \cup {w}
            /\ z.raised = IF w \in y.top \/ (w \in DOMAIN y.prior /\ y.prior[w]) THEN y.raised
                          ELSE y.raised \cup {w}
         \/ z.top = y.top /\ z.raised = y.raised
    BY <1>0, <1>1 DEF Raise, Only, Fields, BandFields
<1>4. /\ DOMAIN z.prior = DOMAIN y.prior \cup {w} /\ z.prior[w] = was
      /\ \A v \in DOMAIN y.prior : z.prior[v] = y.prior[v]
    BY <1>2, <1>3 DEF With
<1>5. z.open = y.open
    BY <1>3 DEF Only, Fields, BandFields
<1>6. Bands(z)
    BY <1>0, <1>2, <1>3, <1>4, <1>5 DEF Bands
<1>7. \A v \in DOMAIN z.prior : z.prior[v] \in BOOLEAN
    BY <1>0, <1>2, <1>4
<1> QED BY <1>3, <1>4, <1>6, <1>7, BandOnTheWay DEF BandFields

\* The session prepare_toggle_float proposes holds the members of the workspace, on
\* one side each, and a window that floated is tiled in it.
LEMMA ToggledRight ==
    ASSUME NEW x, Good(x), NEW w \in x.open, w \in DOMAIN x.home, NEW s, s = Toggled(x, w)
    PROVE  /\ s.tiles \cup s.floats \subseteq Members(x, x.home[w])
           /\ s.tiles \cap s.floats = {}
           /\ x.home[w] \in x.tiled => ~s.old
           /\ \A v \in x.open \ {w} : x.want[v] = "tiled" => v \notin s.floats
           /\ w \in FloatingRows(x, x.home[w]) => w \notin s.floats
<1>1. PICK k : k = x.home[w]
    OBVIOUS
<1>2. PICK F : F = FloatingRows(x, k)
    OBVIOUS
<1>3. PICK c : c = [tiles |-> Members(x, k) \ F, floats |-> Members(x, k) \cap F,
                    old |-> SessionOf(x, k).old]
    OBVIOUS
<1>4. /\ c.tiles = Members(x, k) \ F /\ c.floats = Members(x, k) \cap F
      /\ c.old = SessionOf(x, k).old /\ DOMAIN c = {"tiles", "floats", "old"}
    BY <1>3
<1>5. SessionOf(Converged(x, k), k) = c
    <2>1. Converged(x, k).session = With(x.session, k, c)
        BY <1>2, <1>3 DEF Converged, Arrangement, Good, Base, Shape, Fields
    <2> QED BY <2>1 DEF SessionOf, With
<1>6. s = [c EXCEPT !.tiles = IF w \in c.floats THEN @ \cup {w} ELSE @ \ {w},
                    !.floats = IF w \in c.floats THEN @ \ {w} ELSE @ \cup {w}]
    BY <1>1, <1>5 DEF Toggled
<1>7. /\ s.tiles = IF w \in c.floats THEN c.tiles \cup {w} ELSE c.tiles \ {w}
      /\ s.floats = IF w \in c.floats THEN c.floats \ {w} ELSE c.floats \cup {w}
      /\ s.old = c.old
    BY <1>4, <1>6
<1>8. w \in Members(x, k)
    BY <1>1 DEF Members
<1>9. k \in x.tiled => ~c.old
    BY <1>4 DEF SessionOf, NoSession, Good, Base, Sessions
<1>10. \A v \in x.open : x.want[v] = "tiled" => v \notin F
    BY <1>2, TiledDoNotFloat
<1> QED BY <1>1, <1>2, <1>4, <1>7, <1>8, <1>9, <1>10

\* What a choice about w begins with: no sticky mark on it that is not adopted, or the
\* choice is lost already.
Begins(x, w) ==
    /\ Good(x) /\ w \in x.open /\ w \in DOMAIN x.home
    /\ x.want[w] # "lost" /\ w \notin DOMAIN x.sticky => w \notin DOMAIN x.stickyMark

\* apply_geometry only writes frames.
LEMMA WrittenKeeps ==
    ASSUME NEW x, Good(x), NEW k
    PROVE  Good(Written(x, k))
<1>1. Only(Written(x, k), x, {"arranged", "pending"})
    BY DEF Written, Only, Fields, Good, Base, Shape
<1> QED BY <1>1, AsideKeeps

\* Only bands changed since the choice began.
BandsOnly(y, x, w) == OnTheWay(y, x, w) /\ Only(y, x, BandFields)

\* A choice given up when only a band had changed leaves a right host.
LEMMA BandsOnlyKeeps ==
    ASSUME NEW x, NEW w, NEW y, Good(x), BandsOnly(y, x, w)
    PROVE  Good(y)
<1>1. w \in x.open
    BY DEF BandsOnly, OnTheWay
<1>2. Choice(x, w)
    BY <1>1 DEF Good
<1>3. Choice(y, w)
    BY <1>2 DEF BandsOnly, Choice, Tiled, Only, Fields, BandFields
<1> QED BY <1>3, WayEnds DEF BandsOnly

\* A choice has changed no band when it begins.
LEMMA FloatBegins ==
    ASSUME NEW x, NEW w, Begins(x, w)
    PROVE  BandsOnly(x, x, w)
<1>1. Only(x, x, BandFields)
    BY DEF Begins, Good, Base, Shape, Only
<1> QED BY <1>1, WayBegins DEF Begins, BandsOnly

\* The session a choice commits.
LEMMA ToggledOnTheWay ==
    ASSUME NEW x, NEW w, Begins(x, w), NEW y, OnTheWay(y, x, w), NEW z,
           y.home = x.home, y.tiled = x.tiled, z = Commit(y, x.home[w], Toggled(x, w))
    PROVE  /\ OnTheWay(z, x, w) /\ Only(z, y, {"session"})
           /\ w \in FloatingRows(x, x.home[w]) /\ y.session = x.session =>
                  \A k \in DOMAIN z.session : w \notin z.session[k].floats
<1>1. PICK k, s : k = x.home[w] /\ s = Toggled(x, w)
    OBVIOUS
<1>2. /\ s.tiles \cup s.floats \subseteq Members(x, k) /\ s.tiles \cap s.floats = {}
      /\ k \in x.tiled => ~s.old
      /\ \A v \in x.open \ {w} : x.want[v] = "tiled" => v \notin s.floats
      /\ w \in FloatingRows(x, k) => w \notin s.floats
    BY <1>1, ToggledRight DEF Begins
<1>3. Members(y, k) = Members(x, k)
    BY DEF Members
<1>4. OnTheWay(z, x, w) /\ Only(z, y, {"session"}) /\ z.session = With(y.session, k, s)
    BY <1>1, <1>2, <1>3, CommitOnTheWay
<1>5. ASSUME w \in FloatingRows(x, k), y.session = x.session, NEW j \in DOMAIN z.session
      PROVE  w \notin z.session[j].floats
    <2>1. CASE j = k
        BY <1>2, <1>4, <1>5, <2>1 DEF With
    <2>2. CASE j # k
        <3>1. j \in DOMAIN x.session /\ z.session[j] = x.session[j]
            BY <1>4, <1>5, <2>2 DEF With
        <3>2. x.session[j].floats \subseteq Members(x, j)
            BY <3>1 DEF Begins, Good, Base, Sessions
        <3> QED BY <1>1, <2>2, <3>1, <3>2 DEF Members
    <2> QED BY <2>1, <2>2
<1> QED BY <1>1, <1>4, <1>5

\* The choice is not made yet: its marks and its tables are as they were.
Unchosen(v, x, w) == OnTheWay(v, x, w) /\ Only(v, x, BandFields \cup {"session"})

\* What apply_float_from_tiled leaves once the mark was tried.
StuckHost(r, w) ==
    IF r.ok THEN Chose([r.host EXCEPT !.sticky = With(@, w, FALSE)], w, "sticky")
    ELSE Chose(r.host, w, "any")
\* The window is among those that float,
FloatsHost(v, w) == [v EXCEPT !.floated = @ \cup {w}]
\* and its mark was tried.
FloatHost(r, w) == Chose(r.host, w, IF r.ok THEN "float" ELSE "any")

\* A tiled window made sticky has its mark and its entry, or nobody's word is left.
LEMMA StuckKeeps ==
    ASSUME NEW x, NEW w, Begins(x, w), w \notin DOMAIN x.sticky,
           NEW v, Unchosen(v, x, w),
           NEW r, r \in install_sticky_mark_held(v, w, FALSE), NEW b, b = StuckHost(r, w)
    PROVE  Good(b)
<1>1. OnTheWay(v, x, w)
    BY DEF Unchosen
<1>2. /\ OnTheWay(r.host, x, w) /\ Only(r.host, v, {"stickyMark"})
      /\ IF r.ok THEN w \in DOMAIN r.host.stickyMark ELSE r.host = v
    <2>1. Left(r, v, x, w, {"stickyMark"}, w \in DOMAIN r.host.stickyMark)
        BY <1>1, StickyMarkInstalled
    <2> QED BY <2>1 DEF Left
<1>3. CASE r.ok
    <2>1. PICK s : s = [r.host EXCEPT !.sticky = With(@, w, FALSE)]
        OBVIOUS
    <2>2. Only(s, r.host, {"floated", "sticky"}) /\ s.floated = r.host.floated
          /\ s.sticky = With(r.host.sticky, w, FALSE)
        BY <1>2, <2>1 DEF OnTheWay, Base, Shape, Only, Fields
    <2>3. DOMAIN s.sticky = DOMAIN r.host.sticky \cup {w}
        BY <2>2 DEF With
    <2>4. OnTheWay(s, x, w)
        BY <1>2, <2>2, <2>3, TablesOnTheWay
    <2>5. PICK c : c = Chose(s, w, "sticky")
        OBVIOUS
    <2>6. /\ OnTheWay(c, x, w) /\ Only(c, s, {"want"})
          /\ c.want[w] \in {"lost", "sticky"}
        <3>1. Chosen(c, s, x, w, "sticky")
            BY <2>4, <2>5, ChoseOnTheWay
        <3> QED BY <3>1 DEF Chosen
    <2>7. w \in DOMAIN c.stickyMark /\ w \in DOMAIN c.sticky
        BY <1>2, <1>3, <2>2, <2>3, <2>6 DEF Only, Fields
    <2>8. Choice(c, w)
        BY <2>6, <2>7 DEF Choice
    <2>9. b = c
        BY <1>3, <2>1, <2>5 DEF StuckHost
    <2> QED BY <2>6, <2>8, <2>9, WayEnds DEF Begins
<1>4. CASE ~r.ok
    <2>1. PICK c : c = Chose(v, w, "any")
        OBVIOUS
    <2>2. /\ OnTheWay(c, x, w) /\ Only(c, v, {"want"})
          /\ v.want[w] = "lost" => c.want[w] = "lost"
          /\ v.want[w] # "lost" => c.want[w] = "any"
        <3>1. Chosen(c, v, x, w, "any")
            BY <1>1, <2>1, ChoseOnTheWay
        <3> QED BY <3>1 DEF Chosen
    <2>3. c.stickyMark = x.stickyMark
        BY <2>2 DEF Unchosen, BandFields, Only, Fields
    <2>6. v.want = x.want
        BY DEF Unchosen, BandFields, Only, Fields
    <2>4. Choice(c, w)
        BY <2>2, <2>3, <2>6 DEF Choice, Begins
    <2>5. b = c
        BY <1>2, <1>4, <2>1 DEF StuckHost
    <2> QED BY <2>2, <2>4, <2>5, WayEnds DEF Begins
<1> QED BY <1>3, <1>4

\* A tiled window made floating has its mark, or nobody's word is left.
LEMMA FloatingKeeps ==
    ASSUME NEW x, NEW w, Begins(x, w), w \notin DOMAIN x.sticky, NEW v, Unchosen(v, x, w), NEW s,
           s = FloatsHost(v, w), NEW r, r \in install_float_mark_held(s, w), NEW b,
           b = FloatHost(r, w)
    PROVE  Good(b)
<1>3. Only(s, v, {"floated", "sticky"}) /\ s.floated = v.floated \cup {w}
      /\ s.sticky = v.sticky
    BY DEF FloatsHost, Unchosen, OnTheWay, Base, Shape, Only, Fields
<1>4. OnTheWay(s, x, w)
    BY <1>3, TablesOnTheWay DEF Unchosen
<1>5. /\ OnTheWay(r.host, x, w) /\ Only(r.host, s, {"floatMark"})
      /\ r.ok => w \in r.host.floatMark
    <2>1. Left(r, s, x, w, {"floatMark"}, w \in r.host.floatMark)
        BY <1>4, FloatMarkInstalled
    <2> QED BY <2>1 DEF Left
<1>6. PICK mode, c :
          /\ mode \in {"float", "any"} /\ mode = (IF r.ok THEN "float" ELSE "any")
          /\ c = Chose(r.host, w, mode)
    OBVIOUS
<1>7. /\ OnTheWay(c, x, w) /\ Only(c, r.host, {"want"})
      /\ r.host.want[w] = "lost" => c.want[w] = "lost"
      /\ r.host.want[w] # "lost" => c.want[w] = mode
    <2>1. Chosen(c, r.host, x, w, mode)
        BY <1>5, <1>6, ChoseOnTheWay
    <2> QED BY <2>1 DEF Chosen
<1>8. /\ r.host.want = x.want /\ c.stickyMark = x.stickyMark /\ c.sticky = x.sticky
      /\ c.floatMark = r.host.floatMark
    BY <1>3, <1>5, <1>7 DEF Unchosen, BandFields, Only, Fields
<1>9. Choice(c, w)
    BY <1>5, <1>6, <1>7, <1>8 DEF Choice, Begins
<1>10. b = c
    BY <1>6 DEF FloatHost
<1> QED BY <1>7, <1>9, <1>10, WayEnds DEF Begins

\* apply_float_from_tiled ends right wherever it stops.
LEMMA FloatedKeeps ==
    ASSUME NEW x, NEW w, Begins(x, w), w \notin DOMAIN x.sticky, NEW mark_sticky \in BOOLEAN,
           NEW y \in apply_float_from_tiled(x, w, mark_sticky)
    PROVE  Good(y)
<1> DEFINE k == x.home[w]
           Floating(u) == Commit(u, k, Toggled(x, w))
           Marking(u) ==
               IF mark_sticky
               THEN {Ok(IF r.ok THEN Chose([r.host EXCEPT !.sticky = With(@, w, FALSE)], w, "sticky")
                        ELSE Chose(r.host, w, "any")) :
                        r \in install_sticky_mark_held(Floating(u), w, FALSE)}
               ELSE {Ok(Chose(r.host, w, IF r.ok THEN "float" ELSE "any")) :
                        r \in install_float_mark_held(
                                  [Floating(u) EXCEPT !.floated = @ \cup {w}], w)}
           Raised(u) == UNION {IF r.ok THEN Try(Raise(r.host, w), Raise(r.host, w)) ELSE {r} :
                                   r \in Try(u, u)}
           Lost(u) == IF Fallible THEN {Failed([Raise(u, w) EXCEPT !.top = u.top, !.raised = u.raised])}
                      ELSE {}
           A == UNION {IF r.ok THEN Raised(r.host) \cup Lost(r.host) ELSE {r} :
                           r \in prepare_toggle_float(x, w)}
           B == UNION {IF r.ok THEN Marking(r.host) ELSE {r} : r \in A}
<1>1. PICK b \in B : y = Written(b.host, k)
    BY DEF apply_float_from_tiled, Then
<1>2. PICK a \in A : IF a.ok THEN b \in Marking(a.host) ELSE b = a
    OBVIOUS
<1>3. BandsOnly(a.host, x, w)
    <2>1. PICK q \in prepare_toggle_float(x, w) :
               IF q.ok THEN a \in Raised(q.host) \cup Lost(q.host) ELSE a = q
        OBVIOUS
    <2>2. q.host = x
        BY PreparedSame
    <2>3. \/ a.host = x
          \/ a.host = Raise(x, w)
          \/ a.host = [Raise(x, w) EXCEPT !.top = x.top, !.raised = x.raised]
        <3>1. CASE q.ok /\ a \in Raised(x)
            <4>1. PICK t \in Try(x, x) :
                       IF t.ok THEN a \in Try(Raise(t.host, w), Raise(t.host, w)) ELSE a = t
                BY <3>1
            <4>2. t.host = x
                BY OkFailed, Tries
            <4>3. a.host = Raise(x, w) \/ a.host = x
                BY <4>1, <4>2, OkFailed, Tries
            <4> QED BY <4>3
        <3>2. CASE q.ok /\ a \in Lost(x)
            BY <3>2, OkFailed
        <3> QED BY <2>1, <2>2, <3>1, <3>2
    <2>4. OnTheWay(x, x, w)
        BY WayBegins DEF Begins
    <2> QED BY <2>3, <2>4, RaisedOnTheWay, FloatBegins DEF BandsOnly
<1> HIDE DEF Floating, Marking, Raised, Lost, A, B
<1>4. PICK u : u = a.host
    OBVIOUS
<1>5. OnTheWay(u, x, w) /\ Only(u, x, BandFields)
    BY <1>3, <1>4 DEF BandsOnly
<1>6. PICK v : v = Floating(u)
    OBVIOUS
<1>7. Unchosen(v, x, w)
    <2>1. u.home = x.home /\ u.tiled = x.tiled
        BY <1>5 DEF Only, Fields, BandFields
    <2>2. OnTheWay(v, x, w) /\ Only(v, u, {"session"})
        BY <1>5, <1>6, <2>1, ToggledOnTheWay DEF Floating
    <2> QED BY <1>5, <2>2 DEF Unchosen, Only, Fields, BandFields
<1>8. ASSUME a.ok, mark_sticky
      PROVE  Good(b.host)
    <2>1. PICK r \in install_sticky_mark_held(v, w, FALSE) :
              b = Ok(StuckHost(r, w))
        BY <1>2, <1>4, <1>6, <1>8 DEF Marking, StuckHost
    <2>2. PICK g : g = StuckHost(r, w)
        OBVIOUS
    <2>3. Good(g)
        BY <1>7, <2>2, StuckKeeps
    <2> QED BY <2>1, <2>2, <2>3, OkFailed
<1>9. ASSUME a.ok, ~mark_sticky
      PROVE  Good(b.host)
    <2>1. PICK s : s = FloatsHost(v, w)
        OBVIOUS
    <2>2. PICK r \in install_float_mark_held(s, w) :
              b = Ok(FloatHost(r, w))
        BY <1>2, <1>4, <1>6, <1>9, <2>1 DEF Marking, FloatHost, FloatsHost
    <2>3. PICK g : g = FloatHost(r, w)
        OBVIOUS
    <2>4. Good(g)
        BY <1>7, <2>1, <2>3, FloatingKeeps
    <2> QED BY <2>2, <2>3, <2>4, OkFailed
<1>10. Good(b.host)
    <2>1. CASE a.ok
        BY <1>8, <1>9, <2>1
    <2>2. CASE ~a.ok
        BY <1>2, <1>3, <2>2, BandsOnlyKeeps DEF Begins
    <2> QED BY <2>1, <2>2
<1> QED BY <1>1, <1>10, WrittenKeeps

\* What a choice is undone by, step by step: the sticky mark is off, then the float mark.
Unstuck(y, x, w) ==
    /\ OnTheWay(y, x, w) /\ Only(y, x, BandFields \cup {"stickyMark"})
    /\ \/ w \notin DOMAIN y.stickyMark
       \/ y.stickyMark = x.stickyMark /\ x.want[w] = "lost"
\* Both marks are off.
Unmarked(y, x, w) ==
    /\ OnTheWay(y, x, w) /\ Only(y, x, BandFields \cup {"stickyMark", "floatMark"})
    /\ w \notin y.floatMark
    /\ w \notin DOMAIN y.stickyMark \/ x.want[w] = "lost"

\* A window that is not sticky has no sticky mark to lose.
LEMMA NothingToUnstick ==
    ASSUME NEW x, NEW w, Begins(x, w), w \notin DOMAIN x.sticky, NEW y, BandsOnly(y, x, w)
    PROVE  Unstuck(y, x, w)
BY DEF Begins, BandsOnly, Unstuck, Only, Fields, BandFields

\* The sticky mark went, or the choice is given up and the host is right.
UnstickLeft(c, y, x, w) ==
    IF c.ok THEN Unstuck(c.host, x, w) /\ Only(c.host, y, {"stickyMark"}) ELSE Good(c.host)

\* What clear_sticky_mark leaves of a choice.
LEMMA UnstickStep ==
    ASSUME NEW x, NEW w, Begins(x, w), NEW y, BandsOnly(y, x, w), NEW c \in clear_sticky_mark(y, w)
    PROVE  UnstickLeft(c, y, x, w)
<1>1. Left(c, y, x, w, {"stickyMark"}, w \notin DOMAIN c.host.stickyMark)
    BY StickyMarkCleared DEF BandsOnly
<1>2. CASE c.ok
    BY <1>1, <1>2 DEF Left, BandsOnly, Unstuck, UnstickLeft, Only, Fields, BandFields
<1>3. CASE ~c.ok
    <2>1. c.host = y
        BY <1>1, <1>3 DEF Left
    <2> QED BY <1>3, <2>1, BandsOnlyKeeps DEF Begins, UnstickLeft
<1> QED BY <1>2, <1>3

\* When the float mark stays after the sticky one went, nobody's word is left.
UnmarkOutcome(d, y, x, w) ==
    IF d.ok \/ y.stickyMark = x.stickyMark THEN d ELSE Failed(Chose(d.host, w, "any"))

\* The float mark went too, or the choice is given up and the host is right.
UnmarkLeft(e, y, x, w) ==
    IF e.ok THEN Unmarked(e.host, x, w) /\ Only(e.host, y, {"floatMark"}) ELSE Good(e.host)

\* What clear_float_mark leaves of a choice.
LEMMA UnmarkStep ==
    ASSUME NEW x, NEW w, Begins(x, w), NEW y, Unstuck(y, x, w),
           NEW d, d \in clear_float_mark(y, w), NEW e, e = UnmarkOutcome(d, y, x, w)
    PROVE  UnmarkLeft(e, y, x, w)
<1> SUFFICES
           /\ e.ok => Unmarked(e.host, x, w) /\ Only(e.host, y, {"floatMark"})
           /\ ~e.ok => Good(e.host)
    BY DEF UnmarkLeft
<1>1. Left(d, y, x, w, {"floatMark"}, w \notin d.host.floatMark)
    BY FloatMarkCleared DEF Unstuck
<1>2. CASE d.ok
    <2>1. e = d
        BY <1>2 DEF UnmarkOutcome
    <2>2. OnTheWay(d.host, x, w) /\ Only(d.host, y, {"floatMark"}) /\ w \notin d.host.floatMark
        BY <1>1, <1>2 DEF Left
    <2>3. Unmarked(d.host, x, w)
        BY <2>2 DEF Unstuck, Unmarked, Only, Fields, BandFields
    <2> QED BY <1>2, <2>1, <2>2, <2>3
<1>3. CASE ~d.ok /\ y.stickyMark = x.stickyMark
    <2>1. e = d /\ d.host = y
        BY <1>1, <1>3 DEF UnmarkOutcome, Left
    <2>2. BandsOnly(y, x, w)
        BY <1>3 DEF Unstuck, BandsOnly, Only, Fields, BandFields
    <2>3. Good(y)
        BY <2>2, BandsOnlyKeeps DEF Begins
    <2> QED BY <1>3, <2>1, <2>3
<1>4. CASE ~d.ok /\ y.stickyMark # x.stickyMark
    <2>1. PICK z : z = Chose(y, w, "any")
        OBVIOUS
    <2>2. e = Failed(z)
        BY <1>1, <1>4, <2>1 DEF UnmarkOutcome, Left
    <2>3. Chosen(z, y, x, w, "any")
        BY <2>1, ChoseOnTheWay DEF Unstuck
    <2>4. w \notin DOMAIN z.stickyMark
        BY <1>4, <2>3 DEF Chosen, Unstuck, Only, Fields
    <2>5. OnTheWay(z, x, w) /\ Choice(z, w)
        BY <2>3, <2>4 DEF Chosen, Choice
    <2>6. Good(z)
        BY <2>5, WayEnds DEF Begins
    <2>7. e.host = z /\ e.ok = FALSE
        BY <2>2, OkFailed
    <2> QED BY <2>6, <2>7
<1> QED BY <1>2, <1>3, <1>4

\* The window is tiled again.
UnfloatSettled(y, x, w) ==
    Chose([Commit(y, x.home[w], Toggled(x, w)) EXCEPT
               !.sticky = Without(@, {w}), !.floated = @ \ {w}], w, "tiled")

\* The last step of apply_unfloat_to_tiled ends right: both marks are off by then.
LEMMA SettleStep ==
    ASSUME NEW x, NEW w, Begins(x, w), w \in FloatingRows(x, x.home[w]),
           NEW y, Unmarked(y, x, w), NEW z, z = UnfloatSettled(y, x, w)
    PROVE  Good(z)
<1>1. PICK c : c = Commit(y, x.home[w], Toggled(x, w))
    OBVIOUS
<1>2. OnTheWay(y, x, w) /\ y.home = x.home /\ y.tiled = x.tiled /\ y.session = x.session
    BY DEF Unmarked, Only, Fields, BandFields
<1>3. OnTheWay(c, x, w) /\ Only(c, y, {"session"})
    BY <1>1, <1>2, ToggledOnTheWay
<1>4. \A k \in DOMAIN c.session : w \notin c.session[k].floats
    BY <1>1, <1>2, ToggledOnTheWay
<1>5. PICK s : s = [c EXCEPT !.sticky = Without(@, {w}), !.floated = @ \ {w}]
    OBVIOUS
<1>6. /\ Only(s, c, {"floated", "sticky"})
      /\ s.sticky = Without(c.sticky, {w}) /\ s.floated = c.floated \ {w}
    BY <1>3, <1>5 DEF OnTheWay, Base, Shape, Only, Fields
<1>7. DOMAIN s.sticky = DOMAIN c.sticky \ {w}
    BY <1>6 DEF Without
<1>8. OnTheWay(s, x, w)
    BY <1>3, <1>6, <1>7, TablesOnTheWay
<1>9. z = Chose(s, w, "tiled")
    BY <1>1, <1>5 DEF UnfloatSettled
<1>10. Chosen(z, s, x, w, "tiled")
    BY <1>8, <1>9, ChoseOnTheWay
<1>11. OnTheWay(z, x, w) /\ Only(z, s, {"want"})
       /\ z.want[w] = IF s.want[w] = "lost" THEN "lost" ELSE "tiled"
    BY <1>10 DEF Chosen
<1>12. s.want = x.want /\ z.floatMark = y.floatMark /\ z.stickyMark = y.stickyMark
       /\ z.session = c.session /\ z.floated = s.floated /\ z.sticky = s.sticky
    BY <1>3, <1>6, <1>11 DEF Unmarked, Only, Fields, BandFields
<1>13. x.want[w] # "lost" => Tiled(z, w)
    BY <1>4, <1>6, <1>7, <1>12 DEF Unmarked, Tiled
<1>14. Choice(z, w)
    BY <1>11, <1>12, <1>13 DEF Choice, Tiled
<1> QED BY <1>11, <1>14, WayEnds DEF Begins

\* apply_unfloat_to_tiled ends right wherever it stops.
LEMMA UnfloatedKeeps ==
    ASSUME NEW x, NEW w, Begins(x, w), NEW unmark_sticky \in BOOLEAN,
           unmark_sticky \/ w \notin DOMAIN x.sticky, w \in FloatingRows(x, x.home[w]),
           NEW y \in apply_unfloat_to_tiled(x, w, unmark_sticky)
    PROVE  Good(y)
<1> DEFINE k == x.home[w]
           Unstick(u) == IF unmark_sticky THEN clear_sticky_mark(u, w) ELSE {Ok(u)}
           Unmark(u) == {IF r.ok \/ u.stickyMark = x.stickyMark THEN r
                         ELSE Failed(Chose(r.host, w, "any")) : r \in clear_float_mark(u, w)}
           Settle(u) ==
               {Ok(Written(Chose([Commit(u, k, Toggled(x, w)) EXCEPT
                                      !.sticky = Without(@, {w}), !.floated = @ \ {w}],
                                 w, "tiled"), k))}
           A == UNION {IF r.ok THEN restore_raised_band(r.host, w) ELSE {r} :
                           r \in prepare_toggle_float(x, w)}
           B == UNION {IF r.ok THEN Unstick(r.host) ELSE {r} : r \in A}
           C == UNION {IF r.ok THEN Unmark(r.host) ELSE {r} : r \in B}
           D == UNION {IF r.ok THEN Settle(r.host) ELSE {r} : r \in C}
<1>1. PICK d \in D : y = d.host
    BY DEF apply_unfloat_to_tiled, Then, Hosts
<1>2. PICK c \in C : IF c.ok THEN d \in Settle(c.host) ELSE d = c
    OBVIOUS
<1>3. PICK b \in B : IF b.ok THEN c \in Unmark(b.host) ELSE c = b
    OBVIOUS
<1>4. PICK a \in A : IF a.ok THEN b \in Unstick(a.host) ELSE b = a
    OBVIOUS
<1>5. PICK p \in prepare_toggle_float(x, w) :
           IF p.ok THEN a \in restore_raised_band(p.host, w) ELSE a = p
    OBVIOUS
<1> HIDE DEF A, B, C, D, Settle, Unmark, Unstick
<1>6. BandsOnly(a.host, x, w)
    <2>1. p.host = x /\ BandsOnly(x, x, w)
        BY PreparedSame, FloatBegins
    <2>2. CASE p.ok
        BY <1>5, <2>1, <2>2, BandRestored DEF BandsOnly
    <2> QED BY <1>5, <2>1, <2>2
<1>7. IF b.ok THEN Unstuck(b.host, x, w) ELSE Good(b.host)
    <2>1. CASE ~a.ok
        BY <1>4, <1>6, <2>1, BandsOnlyKeeps DEF Begins
    <2>2. CASE a.ok /\ unmark_sticky
        <3>1. b \in clear_sticky_mark(a.host, w)
            BY <1>4, <2>2 DEF Unstick
        <3>2. UnstickLeft(b, a.host, x, w)
            BY <1>6, <3>1, UnstickStep
        <3> QED BY <3>2 DEF UnstickLeft
    <2>3. CASE a.ok /\ ~unmark_sticky
        <3>1. b.host = a.host /\ b.ok
            BY <1>4, <2>3, OkFailed DEF Unstick
        <3> QED BY <1>6, <2>3, <3>1, NothingToUnstick
    <2> QED BY <2>1, <2>2, <2>3
<1>8. IF c.ok THEN Unmarked(c.host, x, w) ELSE Good(c.host)
    <2>1. CASE ~b.ok
        BY <1>3, <1>7, <2>1
    <2>2. CASE b.ok
        <3>1. PICK u : u = b.host
            OBVIOUS
        <3>2. PICK r \in clear_float_mark(u, w) : c = UnmarkOutcome(r, u, x, w)
            BY <1>3, <2>2, <3>1 DEF Unmark, UnmarkOutcome
        <3>3. Unstuck(u, x, w)
            BY <1>7, <2>2, <3>1
        <3>4. UnmarkLeft(c, u, x, w)
            BY <3>2, <3>3, UnmarkStep
        <3> QED BY <3>4 DEF UnmarkLeft
    <2> QED BY <2>1, <2>2
<1>9. Good(d.host)
    <2>1. CASE ~c.ok
        BY <1>2, <1>8, <2>1
    <2>2. CASE c.ok
        <3>1. PICK u, z : u = c.host /\ z = UnfloatSettled(u, x, w)
            OBVIOUS
        <3>2. d = Ok(Written(z, k))
            BY <1>2, <2>2, <3>1 DEF Settle, UnfloatSettled
        <3>3. Good(z)
            BY <1>8, <2>2, <3>1, SettleStep
        <3>4. PICK v : v = Written(z, k)
            OBVIOUS
        <3>5. Good(v)
            BY <3>3, <3>4, WrittenKeeps
        <3> QED BY <3>2, <3>4, <3>5, OkFailed
    <2> QED BY <2>1, <2>2
<1> QED BY <1>1, <1>9

\* The sessions once w has left its home for the workspace in view.
BothSessions(x, w, floating) ==
    LET old == x.home[w]
        cur == x.active
        rows == Members(x, cur) \cup {w}
        left == Arrangement(x, old, Members(x, old) \ {w}, FloatingRows(x, old))
        both == Arrangement(left, cur, rows,
                            FloatingRows(x, cur) \cup (IF floating THEN {w} ELSE {}))
    IN  both.session
\* A session that is right once w is a member of the workspace in view only.
RightSession(s, x, k, w) ==
    /\ s.tiles \cup s.floats \subseteq (IF k = x.active THEN Members(x, k) \cup {w} ELSE Members(x, k) \ {w})
    /\ s.tiles \cap s.floats = {}
    /\ k \in x.tiled => ~s.old
    /\ \A v \in x.open \ {w} : x.want[v] = "tiled" => v \notin s.floats

\* The candidate of sticky_rehome_to_current is right in both workspaces, and w is tiled
\* in it unless it was to float.
LEMMA BothRight ==
    ASSUME NEW x, Good(x), NEW w \in DOMAIN x.home, x.home[w] # x.active, NEW floating \in BOOLEAN,
           NEW S, S = BothSessions(x, w, floating)
    PROVE  \A k \in DOMAIN S :
               RightSession(S[k], x, k, w) /\ (floating \/ w \notin S[k].floats)
<1>1. PICK old, cur : old = x.home[w] /\ cur = x.active
    OBVIOUS
<1>2. PICK F, G : F = FloatingRows(x, old)
                  /\ G = FloatingRows(x, cur) \cup (IF floating THEN {w} ELSE {})
    OBVIOUS
<1>3. PICK left : left = Arrangement(x, old, Members(x, old) \ {w}, F)
    OBVIOUS
<1>4. PICK c : c = [tiles |-> (Members(x, old) \ {w}) \ F, floats |-> (Members(x, old) \ {w}) \cap F,
                    old |-> SessionOf(x, old).old]
    OBVIOUS
<1>5. Only(left, x, {"session"}) /\ left.session = With(x.session, old, c)
    BY <1>3, <1>4 DEF Arrangement, Good, Base, Shape, Only, Fields
<1>6. SessionOf(left, cur).old = SessionOf(x, cur).old
    <2>1. cur # old
        BY <1>1
    <2>2. cur \in DOMAIN left.session <=> cur \in DOMAIN x.session
        BY <1>5, <2>1 DEF With
    <2>3. cur \in DOMAIN x.session => left.session[cur] = x.session[cur]
        BY <1>5, <2>1 DEF With
    <2> QED BY <2>2, <2>3 DEF SessionOf
<1>7. PICK d : d = [tiles |-> (Members(x, cur) \cup {w}) \ G, floats |-> (Members(x, cur) \cup {w}) \cap G,
                    old |-> SessionOf(x, cur).old]
    OBVIOUS
<1>8. S = With(left.session, cur, d)
    BY <1>1, <1>2, <1>3, <1>5, <1>6, <1>7 DEF BothSessions, Arrangement, Only, Fields
<1>9. ASSUME NEW k \in DOMAIN S
      PROVE  \/ k = cur /\ S[k] = d
             \/ k = old /\ S[k] = c
             \/ k \notin {old, cur} /\ k \in DOMAIN x.session /\ S[k] = x.session[k]
    BY <1>1, <1>5, <1>8 DEF With
<1>10. ASSUME NEW k
       PROVE  /\ \A v \in x.open : x.want[v] = "tiled" => v \notin FloatingRows(x, k)
              /\ k \in x.tiled => ~SessionOf(x, k).old
    BY TiledDoNotFloat DEF SessionOf, NoSession, Good, Base, Sessions
<1>11. RightSession(d, x, cur, w) /\ (floating \/ w \notin d.floats)
    <2>1. d.tiles = (Members(x, cur) \cup {w}) \ G /\ d.floats = (Members(x, cur) \cup {w}) \cap G
          /\ d.old = SessionOf(x, cur).old
        BY <1>7
    <2>2. w \notin FloatingRows(x, cur)
        BY <1>1 DEF FloatingRows, Members
    <2> QED BY <1>1, <1>2, <1>10, <2>1, <2>2 DEF RightSession
<1>12. RightSession(c, x, old, w) /\ w \notin c.floats
    <2>1. c.tiles = (Members(x, old) \ {w}) \ F /\ c.floats = (Members(x, old) \ {w}) \cap F
          /\ c.old = SessionOf(x, old).old
        BY <1>4
    <2> QED BY <1>1, <1>2, <1>10, <2>1 DEF RightSession
<1>13. ASSUME NEW k \in DOMAIN x.session, k \notin {old, cur}
       PROVE  RightSession(x.session[k], x, k, w) /\ w \notin x.session[k].floats
    <2>1. w \notin Members(x, k)
        BY <1>1, <1>13 DEF Members
    <2>2. \A v \in x.open : x.want[v] = "tiled" => v \notin x.session[k].floats
        BY DEF Good, Choice, Tiled
    <2> QED BY <1>1, <1>13, <2>1, <2>2 DEF RightSession, Good, Base, Sessions
<1> QED BY <1>9, <1>11, <1>12, <1>13

\* The host once that candidate is committed.
RehomedTo(y, x, w, floating) ==
    [y EXCEPT !.session = BothSessions(x, w, floating), !.home = With(@, w, x.active),
              !.sticky = Without(@, {w})]

\* The move of w to the workspace in view leaves the other windows where they were.
LEMMA RehomedOnTheWay ==
    ASSUME NEW x, NEW w, Begins(x, w), x.home[w] # x.active, NEW floating \in BOOLEAN,
           NEW y, OnTheWay(y, x, w), y.home = x.home, y.tiled = x.tiled, y.active = x.active,
           NEW z, z = RehomedTo(y, x, w, floating)
    PROVE  /\ OnTheWay(z, x, w) /\ Only(z, y, {"session", "home", "sticky"})
           /\ w \notin DOMAIN z.sticky
           /\ floating \/ \A k \in DOMAIN z.session : w \notin z.session[k].floats
<1>1. PICK S : S = BothSessions(x, w, floating)
    OBVIOUS
<1>2. \A k \in DOMAIN S : RightSession(S[k], x, k, w) /\ (floating \/ w \notin S[k].floats)
    BY <1>1, BothRight DEF Begins
<1>3. /\ Only(z, y, {"session", "home", "sticky"})
      /\ z.session = S /\ z.home = With(y.home, w, x.active) /\ z.sticky = Without(y.sticky, {w})
    BY <1>1 DEF RehomedTo, OnTheWay, Base, Shape, Only, Fields
<1>4. DOMAIN z.sticky = DOMAIN y.sticky \ {w}
    BY <1>3 DEF Without
<1>5. /\ DOMAIN z.home = DOMAIN y.home /\ z.home[w] = x.active
      /\ \A v \in DOMAIN y.home \ {w} : z.home[v] = y.home[v]
    BY <1>3 DEF With, OnTheWay
<1>6. Shape(z)
    BY <1>3, <1>5 DEF OnTheWay, Base, Shape, Only, Fields
<1>7. Tables(z) /\ Bands(z) /\ z.up
    BY <1>3, <1>4, <1>5 DEF OnTheWay, Base, Tables, Bands, Only, Fields
<1>8. \A k : Members(z, k) = IF k = x.active THEN Members(x, k) \cup {w} ELSE Members(x, k) \ {w}
    <2>1. w \in DOMAIN x.home
        BY DEF Begins
    <2> QED BY <1>5, <2>1 DEF Members
<1>9. z.tiled = x.tiled
    BY <1>3 DEF Only, Fields
<1>10. Sessions(z)
    BY <1>2, <1>3, <1>8, <1>9 DEF Sessions, RightSession
<1>11. Elsewhere(z, x, w)
    BY <1>2, <1>3, <1>4 DEF OnTheWay, Elsewhere, Only, Fields, RightSession
<1>12. z.open = x.open /\ w \in z.open /\ w \in DOMAIN z.home
    BY <1>3, <1>5 DEF OnTheWay, Only, Fields
<1> QED BY <1>2, <1>3, <1>4, <1>6, <1>7, <1>10, <1>11, <1>12 DEF OnTheWay, Base

\* Where a window was sent home to: floating there, or tiled.
HomeFloating(r, x, w) ==
    Chose([RehomedTo(r.host, x, w, TRUE) EXCEPT !.floated = @ \cup {w}], w,
          IF r.ok THEN "float" ELSE "any")
\* Tiled, its band no longer of interest.
HomeTiled(y, x, w) ==
    Chose([RehomedTo(y, x, w, FALSE) EXCEPT !.floated = @ \ {w}, !.prior = Without(@, {w})],
          w, "tiled")
\* The float mark, put on again where it is missing.
Remarks(y, w) == IF w \in y.floatMark THEN {Ok(y)} ELSE install_float_mark_held(y, w)

\* A window that is to float again has its mark, or nothing changed.
LEMMA RemarkStep ==
    ASSUME NEW x, NEW w, NEW y, OnTheWay(y, x, w), NEW r, r \in Remarks(y, w)
    PROVE  Left(r, y, x, w, {"floatMark"}, w \in r.host.floatMark)
<1>1. CASE w \in y.floatMark
    <2>1. r = Ok(y)
        BY <1>1 DEF Remarks
    <2>2. Only(y, y, {"floatMark"})
        BY DEF OnTheWay, Base, Shape, Only
    <2> QED BY <1>1, <2>1, <2>2, OkFailed DEF Left
<1>2. CASE w \notin y.floatMark
    BY <1>2, FloatMarkInstalled DEF Remarks
<1> QED BY <1>1, <1>2

\* A window that leaves its home and floats again ends right.
LEMMA HomeFloatingKeeps ==
    ASSUME NEW x, NEW w, Begins(x, w), x.home[w] # x.active, NEW y, Unstuck(y, x, w),
           NEW r, r \in Remarks(y, w), NEW z, z = HomeFloating(r, x, w)
    PROVE  Good(z)
<1>1. Left(r, y, x, w, {"floatMark"}, w \in r.host.floatMark)
    BY RemarkStep DEF Unstuck
<1>2. PICK u : u = r.host
    OBVIOUS
<1>3. OnTheWay(u, x, w) /\ Only(u, y, {"floatMark"}) /\ (r.ok => w \in u.floatMark)
    <2>1. OnTheWay(y, x, w) /\ Only(y, y, {"floatMark"})
        BY DEF Unstuck, OnTheWay, Base, Shape, Only
    <2> QED BY <1>1, <1>2, <2>1 DEF Left
<1>4. /\ u.home = x.home /\ u.tiled = x.tiled /\ u.active = x.active /\ u.want = x.want
      /\ u.stickyMark = y.stickyMark
    BY <1>3 DEF Unstuck, Only, Fields, BandFields
<1>5. PICK h : h = RehomedTo(u, x, w, TRUE)
    OBVIOUS
<1>6. OnTheWay(h, x, w) /\ Only(h, u, {"session", "home", "sticky"}) /\ w \notin DOMAIN h.sticky
    BY <1>3, <1>4, <1>5, RehomedOnTheWay
<1>7. PICK s : s = [h EXCEPT !.floated = @ \cup {w}]
    OBVIOUS
<1>8. Only(s, h, {"floated", "sticky"}) /\ s.sticky = h.sticky /\ s.floated = h.floated \cup {w}
    BY <1>6, <1>7 DEF OnTheWay, Base, Shape, Only, Fields
<1>9. OnTheWay(s, x, w)
    BY <1>6, <1>8, TablesOnTheWay
<1>10. PICK mode \in {"float", "any"} : mode = IF r.ok THEN "float" ELSE "any"
    OBVIOUS
<1>11. z = Chose(s, w, mode)
    BY <1>2, <1>5, <1>7, <1>10 DEF HomeFloating
<1>12. Chosen(z, s, x, w, mode)
    BY <1>9, <1>10, <1>11, ChoseOnTheWay
<1>13. OnTheWay(z, x, w) /\ Only(z, s, {"want"})
       /\ z.want[w] = IF s.want[w] = "lost" THEN "lost" ELSE mode
    BY <1>12 DEF Chosen
<1>14. s.want = x.want /\ z.floatMark = u.floatMark /\ z.stickyMark = y.stickyMark
       /\ z.sticky = h.sticky
    BY <1>4, <1>6, <1>8, <1>13 DEF Only, Fields
<1>15. w \notin DOMAIN y.stickyMark \/ x.want[w] = "lost"
    BY DEF Unstuck
<1>16. Choice(z, w)
    BY <1>3, <1>6, <1>10, <1>13, <1>14, <1>15 DEF Choice
<1> QED BY <1>13, <1>16, WayEnds DEF Begins

\* A window that leaves its home and is tiled ends right.
LEMMA HomeTiledKeeps ==
    ASSUME NEW x, NEW w, Begins(x, w), x.home[w] # x.active, NEW y, Unmarked(y, x, w),
           w \notin y.raised, NEW z, z = HomeTiled(y, x, w)
    PROVE  Good(z)
<1>1. /\ OnTheWay(y, x, w) /\ y.home = x.home /\ y.tiled = x.tiled /\ y.active = x.active
      /\ y.want = x.want
    BY DEF Unmarked, Only, Fields, BandFields
<1>2. PICK h : h = RehomedTo(y, x, w, FALSE)
    OBVIOUS
<1>3. /\ OnTheWay(h, x, w) /\ Only(h, y, {"session", "home", "sticky"}) /\ w \notin DOMAIN h.sticky
      /\ \A k \in DOMAIN h.session : w \notin h.session[k].floats
    BY <1>1, <1>2, RehomedOnTheWay
<1>4. PICK s : s = [h EXCEPT !.floated = @ \ {w}]
    OBVIOUS
<1>5. Only(s, h, {"floated", "sticky"}) /\ s.sticky = h.sticky /\ s.floated = h.floated \ {w}
    BY <1>3, <1>4 DEF OnTheWay, Base, Shape, Only, Fields
<1>6. OnTheWay(s, x, w)
    BY <1>3, <1>5, TablesOnTheWay
<1>7. PICK t : t = [s EXCEPT !.prior = Without(@, {w})]
    OBVIOUS
<1>8. Only(t, s, {"top", "prior", "raised"}) /\ t.prior = Without(s.prior, {w})
      /\ t.top = s.top /\ t.raised = s.raised
    BY <1>6, <1>7 DEF OnTheWay, Base, Shape, Only, Fields
<1>9. /\ DOMAIN t.prior = DOMAIN s.prior \ {w}
      /\ \A v \in DOMAIN t.prior : t.prior[v] = s.prior[v]
    BY <1>8 DEF Without
<1>10. w \notin s.raised /\ t.open = s.open
    BY <1>3, <1>5, <1>8 DEF Only, Fields
<1>11. Bands(t) /\ \A v \in DOMAIN t.prior : t.prior[v] \in BOOLEAN
    BY <1>6, <1>8, <1>9, <1>10 DEF OnTheWay, Base, Shape, Bands
<1>12. OnTheWay(t, x, w)
    BY <1>6, <1>8, <1>9, <1>11, BandOnTheWay
<1>13. z = Chose(t, w, "tiled")
    BY <1>1, <1>2, <1>3, <1>4, <1>7 DEF HomeTiled
<1>14. Chosen(z, t, x, w, "tiled")
    BY <1>12, <1>13, ChoseOnTheWay
<1>15. OnTheWay(z, x, w) /\ Only(z, t, {"want"})
       /\ z.want[w] = IF t.want[w] = "lost" THEN "lost" ELSE "tiled"
    BY <1>14 DEF Chosen
<1>16. t.want = x.want /\ z.floatMark = y.floatMark /\ z.stickyMark = y.stickyMark
       /\ z.session = h.session /\ z.floated = s.floated /\ z.sticky = h.sticky
    BY <1>1, <1>3, <1>5, <1>8, <1>15 DEF Only, Fields
<1>17. x.want[w] # "lost" => Tiled(z, w)
    BY <1>3, <1>5, <1>16 DEF Unmarked, Tiled
<1>18. Choice(z, w)
    BY <1>15, <1>16, <1>17 DEF Choice, Tiled
<1> QED BY <1>15, <1>18, WayEnds DEF Begins

\* sticky_rehome_to_current ends right wherever it stops.
LEMMA RehomedKeeps ==
    ASSUME NEW x, NEW w, Begins(x, w), x.home[w] # x.active, NEW floating \in BOOLEAN,
           NEW y \in sticky_rehome_to_current(x, w, floating)
    PROVE  Good(y)
<1> DEFINE old == x.home[w]
           cur == x.active
           rows == Members(x, cur) \cup {w}
           left == Arrangement(x, old, Members(x, old) \ {w}, FloatingRows(x, old))
           both == Arrangement(left, cur, rows,
                               FloatingRows(x, cur) \cup (IF floating THEN {w} ELSE {}))
           Prepared == IF RowsComplete(x, old) /\ RowsComplete(x, cur) THEN Try(x, x) ELSE {Failed(x)}
           Lower(u) == IF floating THEN {Ok(u)} ELSE restore_raised_band(u, w)
           Unstick(u) == clear_sticky_mark(u, w)
           Unmark(u) == IF floating THEN {Ok(u)}
                        ELSE {IF r.ok \/ u.stickyMark = x.stickyMark THEN r
                              ELSE Failed(Chose(r.host, w, "any")) : r \in clear_float_mark(u, w)}
           Moved(u) == [u EXCEPT !.session = both.session, !.home = With(@, w, cur),
                                 !.sticky = Without(@, {w})]
           Settle(u) ==
               IF floating
               THEN {Ok(Chose([Moved(r.host) EXCEPT !.floated = @ \cup {w}], w,
                              IF r.ok THEN "float" ELSE "any")) :
                        r \in IF w \in u.floatMark THEN {Ok(u)} ELSE install_float_mark_held(u, w)}
               ELSE {Ok(Written(Chose([Moved(u) EXCEPT !.floated = @ \ {w},
                                                       !.prior = Without(@, {w})],
                                      w, "tiled"), cur))}
           A == UNION {IF r.ok THEN Lower(r.host) ELSE {r} : r \in Prepared}
           B == UNION {IF r.ok THEN Unstick(r.host) ELSE {r} : r \in A}
           C == UNION {IF r.ok THEN Unmark(r.host) ELSE {r} : r \in B}
           D == UNION {IF r.ok THEN Settle(r.host) ELSE {r} : r \in C}
<1>1. PICK d \in D : y = d.host
    BY DEF sticky_rehome_to_current, Then, Hosts
<1> HIDE DEF Prepared, Lower, Unstick, Unmark, Settle
<1>2. PICK c \in C : IF c.ok THEN d \in Settle(c.host) ELSE d = c
    OBVIOUS
<1>3. PICK b \in B : IF b.ok THEN c \in Unmark(b.host) ELSE c = b
    OBVIOUS
<1>4. PICK a \in A : IF a.ok THEN b \in Unstick(a.host) ELSE b = a
    OBVIOUS
<1>5. PICK p \in Prepared : IF p.ok THEN a \in Lower(p.host) ELSE a = p
    OBVIOUS
<1> HIDE DEF A, B, C, D, both, left, rows, old
<1>6. BandsOnly(a.host, x, w) /\ (a.ok /\ ~floating => w \notin a.host.raised)
    <2>1. p.host = x /\ BandsOnly(x, x, w)
        BY OkFailed, Tries, FloatBegins DEF Prepared
    <2>2. CASE p.ok /\ ~floating
        BY <1>5, <2>1, <2>2, BandRestored DEF BandsOnly, Lower
    <2>3. CASE p.ok /\ floating
        <3>1. a = Ok(x)
            BY <1>5, <2>1, <2>3 DEF Lower
        <3> QED BY <2>1, <2>3, <3>1, OkFailed
    <2>4. CASE ~p.ok
        BY <1>5, <2>1, <2>4
    <2> QED BY <2>2, <2>3, <2>4
<1>7. IF b.ok THEN Unstuck(b.host, x, w) /\ (~floating => w \notin b.host.raised)
      ELSE Good(b.host)
    <2>1. CASE ~a.ok
        BY <1>4, <1>6, <2>1, BandsOnlyKeeps DEF Begins
    <2>2. CASE a.ok
        <3>1. PICK u : u = a.host
            OBVIOUS
        <3>2. b \in clear_sticky_mark(u, w)
            BY <1>4, <2>2, <3>1 DEF Unstick
        <3>3. UnstickLeft(b, u, x, w)
            BY <1>6, <3>1, <3>2, UnstickStep
        <3>4. CASE b.ok
            <4>1. Only(b.host, u, {"stickyMark"})
                BY <3>3, <3>4 DEF UnstickLeft
            <4>2. b.host.raised = u.raised
                BY <4>1 DEF Only, Fields
            <4> QED BY <1>6, <2>2, <3>1, <3>3, <3>4, <4>2 DEF UnstickLeft
        <3> QED BY <3>3, <3>4 DEF UnstickLeft
    <2> QED BY <2>1, <2>2
<1>8. ASSUME ~floating
      PROVE  Good(d.host)
    <2>1. IF c.ok THEN Unmarked(c.host, x, w) /\ w \notin c.host.raised ELSE Good(c.host)
        <3>1. CASE ~b.ok
            BY <1>3, <1>7, <3>1
        <3>2. CASE b.ok
            <4>1. PICK u : u = b.host
                OBVIOUS
            <4>2. PICK r \in clear_float_mark(u, w) : c = UnmarkOutcome(r, u, x, w)
                BY <1>3, <1>8, <3>2, <4>1 DEF Unmark, UnmarkOutcome
            <4>3. Unstuck(u, x, w) /\ w \notin u.raised
                BY <1>7, <1>8, <3>2, <4>1
            <4>4. UnmarkLeft(c, u, x, w)
                BY <4>2, <4>3, UnmarkStep
            <4>5. Only(c.host, u, {"floatMark"}) => c.host.raised = u.raised
                BY DEF Only, Fields
            <4> QED BY <4>3, <4>4, <4>5 DEF UnmarkLeft
        <3> QED BY <3>1, <3>2
    <2>2. CASE ~c.ok
        BY <1>2, <2>1, <2>2
    <2>3. CASE c.ok
        <3>1. PICK u, z, v : u = c.host /\ z = HomeTiled(u, x, w) /\ v = Written(z, cur)
            OBVIOUS
        <3>2. d = Ok(v)
            BY <1>2, <1>8, <2>3, <3>1
               DEF Settle, HomeTiled, RehomedTo, BothSessions, both, left, rows, old
        <3>3. Good(z)
            BY <2>1, <2>3, <3>1, HomeTiledKeeps
        <3>4. Good(v)
            BY <3>1, <3>3, WrittenKeeps
        <3> QED BY <3>2, <3>4, OkFailed
    <2> QED BY <2>2, <2>3
<1>9. ASSUME floating
      PROVE  Good(d.host)
    <2>1. IF b.ok THEN c = Ok(b.host) ELSE c = b
        BY <1>3, <1>9 DEF Unmark
    <2>2. CASE ~b.ok
        BY <1>2, <1>7, <2>1, <2>2
    <2>3. CASE b.ok
        <3>1. PICK u : u = b.host
            OBVIOUS
        <3>2. c.ok /\ c.host = u
            BY <2>1, <2>3, <3>1, OkFailed
        <3>3. PICK r \in Remarks(u, w) : d = Ok(HomeFloating(r, x, w))
            BY <1>2, <1>9, <3>2
               DEF Settle, Remarks, HomeFloating, RehomedTo, BothSessions, both, left, rows, old
        <3>4. PICK z : z = HomeFloating(r, x, w)
            OBVIOUS
        <3>5. Good(z)
            BY <1>7, <2>3, <3>1, <3>4, HomeFloatingKeeps
        <3> QED BY <3>3, <3>4, <3>5, OkFailed
    <2> QED BY <2>2, <2>3
<1> QED BY <1>1, <1>8, <1>9

\* A window that floats again where it is.
OffHost(y, w) == Chose([y EXCEPT !.sticky = Without(@, {w})], w, "float")

\* It ends right once its float mark is on and the sticky one off.
LEMMA OffStep ==
    ASSUME NEW x, NEW w, Begins(x, w), NEW y, OnTheWay(y, x, w), y.want = x.want,
           w \in y.floatMark, w \notin DOMAIN y.stickyMark, NEW z, z = OffHost(y, w)
    PROVE  Good(z)
<1>1. PICK s : s = [y EXCEPT !.sticky = Without(@, {w})]
    OBVIOUS
<1>2. Only(s, y, {"floated", "sticky"}) /\ s.sticky = Without(y.sticky, {w}) /\ s.floated = y.floated
    BY <1>1 DEF OnTheWay, Base, Shape, Only, Fields
<1>3. DOMAIN s.sticky = DOMAIN y.sticky \ {w}
    BY <1>2 DEF Without
<1>4. OnTheWay(s, x, w)
    BY <1>2, <1>3, TablesOnTheWay
<1>5. Chosen(z, s, x, w, "float")
    BY <1>1, <1>4, ChoseOnTheWay DEF OffHost
<1>6. OnTheWay(z, x, w) /\ Only(z, s, {"want"})
      /\ z.want[w] = IF s.want[w] = "lost" THEN "lost" ELSE "float"
    BY <1>5 DEF Chosen
<1>7. z.floatMark = y.floatMark /\ z.stickyMark = y.stickyMark /\ z.sticky = s.sticky
    BY <1>2, <1>6 DEF Only, Fields
<1>8. Choice(z, w)
    BY <1>3, <1>6, <1>7 DEF Choice
<1> QED BY <1>6, <1>8, WayEnds DEF Begins

\* sticky_off_to_current ends right on each of its three ways.
LEMMA OffKeeps ==
    ASSUME NEW x, NEW w, Begins(x, w), w \in DOMAIN x.sticky, w \in Observed(x),
           NEW preserve \in BOOLEAN, NEW y \in sticky_off_to_current(x, w, preserve)
    PROVE  Good(y)
<1>1. PICK to_float : to_float = (preserve /\ x.sticky[w])
    OBVIOUS
<1>2. to_float \in BOOLEAN
    BY <1>1
<1>3. CASE x.home[w] # x.active
    <2>1. y \in sticky_rehome_to_current(x, w, to_float)
        BY <1>1, <1>3 DEF sticky_off_to_current
    <2> QED BY <1>2, <1>3, <2>1, RehomedKeeps
<1>4. CASE x.home[w] = x.active /\ ~to_float
    <2>1. y \in apply_unfloat_to_tiled(x, w, TRUE)
        BY <1>1, <1>4 DEF sticky_off_to_current
    <2>2. w \in FloatingRows(x, x.home[w])
        BY DEF Begins, FloatingRows, Members
    <2> QED BY <2>1, <2>2, UnfloatedKeeps
<1>5. CASE x.home[w] = x.active /\ to_float
    <2> DEFINE Forget(u) == {Ok(Chose([u EXCEPT !.sticky = Without(@, {w})], w, "float"))}
               A == UNION {IF r.ok THEN clear_sticky_mark(r.host, w) ELSE {r} : r \in Remarks(x, w)}
               B == UNION {IF r.ok THEN Forget(r.host) ELSE {r} : r \in A}
    <2>1. PICK b \in B : y = b.host
        BY <1>1, <1>5 DEF sticky_off_to_current, Then, Hosts, Remarks
    <2>2. PICK a \in A : IF a.ok THEN b \in Forget(a.host) ELSE b = a
        OBVIOUS
    <2>3. PICK r \in Remarks(x, w) : IF r.ok THEN a \in clear_sticky_mark(r.host, w) ELSE a = r
        OBVIOUS
    <2> HIDE DEF A, B, Forget
    <2>4. OnTheWay(x, x, w)
        BY WayBegins DEF Begins
    <2>5. Left(r, x, x, w, {"floatMark"}, w \in r.host.floatMark)
        BY <2>4, RemarkStep
    <2>6. PICK u : u = r.host
        OBVIOUS
    <2>7. OnTheWay(u, x, w) /\ Only(u, x, {"floatMark"}) /\ (r.ok => w \in u.floatMark)
          /\ (r.ok \/ u = x)
        BY <2>5, <2>6 DEF Left
    <2>8. Good(u)
        <3>1. Choice(x, w)
            BY DEF Begins, Good
        <3>2. Choice(u, w)
            BY <2>7, <3>1 DEF Choice, Tiled, Only, Fields
        <3> QED BY <2>7, <3>2, WayEnds DEF Begins
    <2>9. CASE ~r.ok
        <3>1. CASE ~a.ok
            BY <2>1, <2>2, <2>3, <2>6, <2>8, <2>9, <3>1
        <3>2. CASE a.ok
            BY <2>3, <2>9, <3>2
        <3> QED BY <3>1, <3>2
    <2>10. CASE r.ok
        <3>1. Left(a, u, x, w, {"stickyMark"}, w \notin DOMAIN a.host.stickyMark)
            BY <2>3, <2>6, <2>7, <2>10, StickyMarkCleared
        <3>2. CASE ~a.ok
            BY <2>1, <2>2, <2>8, <3>1, <3>2 DEF Left
        <3>3. CASE a.ok
            <4>1. PICK v, z : v = a.host /\ z = OffHost(v, w)
                OBVIOUS
            <4>2. OnTheWay(v, x, w) /\ Only(v, u, {"stickyMark"}) /\ w \notin DOMAIN v.stickyMark
                BY <3>1, <3>3, <4>1 DEF Left
            <4>3. v.want = x.want /\ w \in v.floatMark
                BY <2>7, <2>10, <4>2 DEF Only, Fields
            <4>4. Good(z)
                BY <4>1, <4>2, <4>3, OffStep
            <4>5. b = Ok(z)
                BY <2>2, <3>3, <4>1 DEF Forget, OffHost
            <4> QED BY <2>1, <4>4, <4>5, OkFailed
        <3> QED BY <3>2, <3>3
    <2> QED BY <2>9, <2>10
<1> QED BY <1>2, <1>3, <1>4, <1>5

\* dispatch_float_intent ends right.
LEMMA FloatIntentKeeps ==
    ASSUME NEW x, NEW w, Begins(x, w), w \in Observed(x), NEW y \in dispatch_float_intent(x, w)
    PROVE  Good(y)
<1>1. CASE w \in DOMAIN x.sticky
    BY <1>1, OffKeeps DEF dispatch_float_intent
<1>2. CASE w \notin DOMAIN x.sticky /\ engine_is_float(x, w)
    <2>1. w \in FloatingRows(x, x.home[w])
        BY <1>2 DEF Begins, FloatingRows, Members
    <2>2. y \in apply_unfloat_to_tiled(x, w, FALSE)
        BY <1>2 DEF dispatch_float_intent
    <2> QED BY <1>2, <2>1, <2>2, UnfloatedKeeps
<1>3. CASE w \notin DOMAIN x.sticky /\ ~engine_is_float(x, w)
    <2>1. y \in apply_float_from_tiled(x, w, FALSE)
        BY <1>3 DEF dispatch_float_intent
    <2> QED BY <1>3, <2>1, FloatedKeeps
<1> QED BY <1>1, <1>2, <1>3

\* A floating window that is made sticky.
SticksHost(y, w) == Chose([y EXCEPT !.sticky = With(@, w, TRUE)], w, "sticky")

\* It ends right once its sticky mark is on.
LEMMA SticksStep ==
    ASSUME NEW x, NEW w, Begins(x, w), NEW y, OnTheWay(y, x, w),
           w \in DOMAIN y.stickyMark, NEW z, z = SticksHost(y, w)
    PROVE  Good(z)
<1>1. PICK s : s = [y EXCEPT !.sticky = With(@, w, TRUE)]
    OBVIOUS
<1>2. Only(s, y, {"floated", "sticky"}) /\ s.sticky = With(y.sticky, w, TRUE) /\ s.floated = y.floated
    BY <1>1 DEF OnTheWay, Base, Shape, Only, Fields
<1>3. DOMAIN s.sticky = DOMAIN y.sticky \cup {w}
    BY <1>2 DEF With
<1>4. OnTheWay(s, x, w)
    BY <1>2, <1>3, TablesOnTheWay
<1>5. Chosen(z, s, x, w, "sticky")
    BY <1>1, <1>4, ChoseOnTheWay DEF SticksHost
<1>6. OnTheWay(z, x, w) /\ Only(z, s, {"want"})
      /\ z.want[w] = IF s.want[w] = "lost" THEN "lost" ELSE "sticky"
    BY <1>5 DEF Chosen
<1>7. z.stickyMark = y.stickyMark /\ z.sticky = s.sticky
    BY <1>2, <1>6 DEF Only, Fields
<1>8. Choice(z, w)
    BY <1>3, <1>6, <1>7 DEF Choice
<1> QED BY <1>6, <1>8, WayEnds DEF Begins

\* dispatch_sticky_intent ends right.
LEMMA StickyIntentKeeps ==
    ASSUME NEW x, NEW w, Begins(x, w), w \in Observed(x), NEW y \in dispatch_sticky_intent(x, w)
    PROVE  Good(y)
<1>1. CASE w \in DOMAIN x.sticky
    BY <1>1, OffKeeps DEF dispatch_sticky_intent
<1>2. CASE w \notin DOMAIN x.sticky /\ ~engine_is_float(x, w)
    <2>1. y \in apply_float_from_tiled(x, w, TRUE)
        BY <1>2 DEF dispatch_sticky_intent
    <2> QED BY <1>2, <2>1, FloatedKeeps
<1>3. CASE w \notin DOMAIN x.sticky /\ engine_is_float(x, w)
    <2> DEFINE Sticks(u) == {Ok(Chose([u EXCEPT !.sticky = With(@, w, TRUE)], w, "sticky"))}
               A == UNION {IF r.ok THEN Sticks(r.host) ELSE {r} :
                               r \in install_sticky_mark_held(x, w, TRUE)}
    <2>1. PICK a \in A : y = a.host
        BY <1>3 DEF dispatch_sticky_intent, Then, Hosts
    <2>2. PICK r \in install_sticky_mark_held(x, w, TRUE) : IF r.ok THEN a \in Sticks(r.host) ELSE a = r
        OBVIOUS
    <2> HIDE DEF A, Sticks
    <2>3. OnTheWay(x, x, w)
        BY WayBegins DEF Begins
    <2>4. Left(r, x, x, w, {"stickyMark"}, w \in DOMAIN r.host.stickyMark)
        BY <2>2, <2>3, StickyMarkInstalled
    <2>5. CASE ~r.ok
        BY <2>1, <2>2, <2>4, <2>5 DEF Left, Begins
    <2>6. CASE r.ok
        <3>1. PICK v, z : v = r.host /\ z = SticksHost(v, w)
            OBVIOUS
        <3>2. OnTheWay(v, x, w) /\ w \in DOMAIN v.stickyMark
            BY <2>4, <2>6, <3>1 DEF Left
        <3>3. Good(z)
            BY <3>1, <3>2, SticksStep
        <3>4. a = Ok(z)
            BY <2>2, <2>6, <3>1 DEF Sticks, SticksHost
        <3> QED BY <2>1, <3>3, <3>4, OkFailed
    <2> QED BY <2>5, <2>6
<1> QED BY <1>1, <1>2, <1>3

\* The hosts a chord starts from are right, and a mark that was refused is accounted for.
LEMMA ChoiceBegins ==
    ASSUME Assumption, NEW w, Good(host), NEW x \in Chooses(w)
    PROVE  Begins(x, w) /\ w \in Observed(x)
<1>1. PICK y \in Observe(host) : Choosable(y, w) /\ x = IF w \in Marked(y) THEN Lose(y, w) ELSE y
    BY DEF Chooses
<1>2. Good(y)
    BY <1>1, ObserveKeeps
<1>3. w \in Observed(y) /\ w \in DOMAIN y.home /\ w \in y.open
    BY <1>1 DEF Choosable, InFront, Observed
<1>4. CASE w \notin Marked(y)
    <2>1. Choice(y, w)
        BY <1>2, <1>3 DEF Good
    <2>2. y.want[w] # "lost" /\ w \notin DOMAIN y.sticky => w \notin DOMAIN y.stickyMark
        BY <1>3, <1>4, <2>1 DEF Marked, Choice
    <2> QED BY <1>1, <1>2, <1>3, <1>4, <2>2 DEF Begins
<1>5. CASE w \in Marked(y)
    <2>1. x = [y EXCEPT !.want = With(@, w, "lost")]
        BY <1>1, <1>5 DEF Lose
    <2>2. Only(x, y, {"want"}) /\ x.want = With(y.want, w, "lost")
        BY <1>2, <2>1 DEF Good, Base, Shape, Only, Fields
    <2>3. /\ DOMAIN x.want = DOMAIN y.want \cup {w} /\ x.want[w] = "lost"
          /\ \A v \in DOMAIN y.want \ {w} : x.want[v] = y.want[v]
        BY <2>2 DEF With
    <2>4. Shape(x)
        BY <1>2, <2>2, <2>3 DEF Good, Base, Shape, Only, Fields
    <2>5. Sessions(x) /\ Tables(x) /\ Bands(x) /\ x.up
        BY <1>2, <2>2 DEF Good, Base, Sessions, Tables, Bands, Members, Only, Fields
    <2>6. ASSUME NEW v \in x.open
          PROVE  Choice(x, v)
        <3>1. v \in y.open /\ Choice(y, v) /\ v \in DOMAIN y.want
            BY <1>2, <2>2 DEF Good, Base, Shape, Only, Fields
        <3>2. CASE v = w
            BY <2>3, <3>2 DEF Choice
        <3>3. CASE v # w
            BY <2>2, <2>3, <3>1, <3>3 DEF Choice, Tiled, Only, Fields
        <3> QED BY <3>2, <3>3
    <2>7. x.open = y.open /\ x.home = y.home /\ Observed(x) = Observed(y)
        BY <2>2 DEF Observed, Only, Fields
    <2> QED BY <1>3, <2>3, <2>4, <2>5, <2>6, <2>7 DEF Good, Base, Begins
<1> QED BY <1>4, <1>5

\* A handler that yields right hosts leaves one.
LEMMA BecomesKeeps ==
    ASSUME NEW S, Becomes(S), \A x \in S : Good(x)
    PROVE  Good(host')
<1>1. PICK x \in S : host' = [x EXCEPT !.arranged = {}]
    BY DEF Becomes
<1>2. Good(x)
    OBVIOUS
<1>3. Only(host', x, {"arranged", "pending"})
    BY <1>1, <1>2 DEF Good, Base, Shape, Only
<1> QED BY <1>2, <1>3, AsideKeeps

\* The two chords leave right hosts.
LEMMA ChordKeeps ==
    ASSUME Assumption, Good(host), NEW w, FloatChord(w) \/ StickyChord(w)
    PROVE  Good(host')
<1>1. \A y \in FloatOutcomes(w) : Good(y)
    BY ChoiceBegins, FloatIntentKeeps DEF FloatOutcomes
<1>2. \A y \in StickyOutcomes(w) : Good(y)
    BY ChoiceBegins, StickyIntentKeeps DEF StickyOutcomes
<1> QED BY <1>1, <1>2, BecomesKeeps DEF FloatChord, StickyChord

-----------------------------------------------------------------------------
(* Workspaces that stop tiling, and workspaces that come into view.           *)

\* dispatch_workspace_release drops the session of its workspace or changes nothing.
LEMMA ReleasedKeeps ==
    ASSUME NEW x, Good(x), NEW k, NEW r, r \in dispatch_workspace_release(x, k)
    PROVE  /\ Good(r.host) /\ Only(r.host, x, {"session"})
           /\ r.ok => k \notin DOMAIN r.host.session
<1>1. PICK y : y = [x EXCEPT !.session = Without(@, {k})]
    OBVIOUS
<1>2. Only(y, x, {"session"}) /\ y.session = Without(x.session, {k})
    BY <1>1 DEF Good, Base, Shape, Only, Fields
<1>3. /\ DOMAIN y.session = DOMAIN x.session \ {k}
      /\ \A j \in DOMAIN y.session : y.session[j] = x.session[j]
    BY <1>2 DEF Without
<1>4. \A j : Members(y, j) = Members(x, j)
    BY <1>2 DEF Members, Only, Fields
<1>5. y.tiled = x.tiled
    BY <1>2 DEF Only, Fields
<1>6. Sessions(y)
    BY <1>3, <1>4, <1>5 DEF Good, Base, Sessions
<1>7. ASSUME NEW w \in x.open, x.want[w] = "tiled", NEW j \in DOMAIN y.session
      PROVE  w \notin y.session[j].floats
    BY <1>3, <1>7 DEF Good, Choice, Tiled
<1>8. Good(y)
    BY <1>2, <1>6, <1>7, SessionsKeep
<1>9. r = Ok(y) \/ r = Failed(x)
    BY <1>1, Tries DEF dispatch_workspace_release
<1>10. Only(x, x, {"session"})
    BY DEF Good, Base, Shape, Only
<1>11. CASE r = Ok(y)
    <2>1. r.host = y
        BY <1>11, OkFailed
    <2> QED BY <1>2, <1>3, <1>8, <2>1
<1>12. CASE r = Failed(x)
    <2>1. r.host = x /\ r.ok = FALSE
        BY <1>12, OkFailed
    <2> QED BY <1>10, <2>1
<1> QED BY <1>9, <1>11, <1>12

\* The ledger of releases to retry is not part of what is right.
LEMMA QueuedKeeps ==
    ASSUME NEW x, Good(x), NEW k, NEW retile
    PROVE  /\ Good(Queued(x, k, retile)) /\ Good(Confirmed(x, k))
           /\ Only(Confirmed(x, k), x, {"arranged", "pending"})
<1>1. /\ Only(Queued(x, k, retile), x, {"arranged", "pending"})
      /\ Only(Confirmed(x, k), x, {"arranged", "pending"})
    BY DEF Queued, Confirmed, Good, Base, Shape, Only
<1> QED BY <1>1, AsideKeeps

\* A workspace stops tiling: its session may be an old one from now on.
LEMMA UntiledKeeps ==
    ASSUME NEW x, Good(x), NEW k, NEW y, y = Untiled(x, k)
    PROVE  Good(y)
<1>1. /\ Only(y, x, {"tiled", "session"}) /\ y.tiled = x.tiled \ {k}
      /\ y.session = [j \in DOMAIN x.session |-> IF j = k THEN Aged(x.session[j]) ELSE x.session[j]]
    BY DEF Untiled, Good, Base, Shape, Only, Fields
<1>2. DOMAIN y.session = DOMAIN x.session
      /\ \A j \in DOMAIN x.session :
             /\ y.session[j].tiles = x.session[j].tiles
             /\ y.session[j].floats = x.session[j].floats
             /\ j # k => y.session[j].old = x.session[j].old
    <2> SUFFICES ASSUME NEW j \in DOMAIN x.session
                 PROVE  /\ y.session[j].tiles = x.session[j].tiles
                        /\ y.session[j].floats = x.session[j].floats
                        /\ j # k => y.session[j].old = x.session[j].old
        BY <1>1
    <2>1. CASE j = k
        <3>1. y.session[j] = Aged(x.session[j])
            BY <1>1, <2>1
        <3> QED BY <2>1, <3>1 DEF Aged
    <2>2. CASE j # k
        BY <1>1, <2>2
    <2> QED BY <2>1, <2>2
<1>3. Shape(y)
    BY <1>1 DEF Good, Base, Shape, Only, Fields
<1>4. \A j : Members(y, j) = Members(x, j)
    BY <1>1 DEF Members, Only, Fields
<1>5. Sessions(y)
    BY <1>1, <1>2, <1>4 DEF Good, Base, Sessions
<1>6. Tables(y) /\ Bands(y) /\ y.up
    BY <1>1 DEF Good, Base, Tables, Bands, Only, Fields
<1>7. ASSUME NEW w \in y.open
      PROVE  Choice(y, w)
    <2>1. w \in x.open /\ Choice(x, w)
        BY <1>1 DEF Good, Only, Fields
    <2> QED BY <1>1, <1>2, <2>1 DEF Choice, Tiled, Only, Fields
<1> QED BY <1>3, <1>5, <1>6, <1>7 DEF Good, Base

\* A workspace tiles again when it has no session from before.
LEMMA RetiledKeeps ==
    ASSUME NEW x, Good(x), NEW k \in Spaces, k \notin DOMAIN x.session, NEW y, y = Retiled(x, k)
    PROVE  Good(y)
<1>1. PICK z : z = Confirmed(x, k)
    OBVIOUS
<1>2. Good(z) /\ Only(z, x, {"arranged", "pending"})
    BY <1>1, QueuedKeeps
<1>3. Only(y, z, {"tiled"}) /\ y.tiled = z.tiled \cup {k}
    BY <1>1, <1>2 DEF Retiled, Good, Base, Shape, Only, Fields
<1>4. k \notin DOMAIN y.session
    BY <1>2, <1>3 DEF Only, Fields
<1>5. Shape(y)
    BY <1>2, <1>3 DEF Good, Base, Shape, Only, Fields
<1>6. Sessions(y)
    BY <1>2, <1>3, <1>4 DEF Good, Base, Sessions, Members, Only, Fields
<1>7. Tables(y) /\ Bands(y) /\ y.up
    BY <1>2, <1>3 DEF Good, Base, Tables, Bands, Only, Fields
<1>8. ASSUME NEW w \in y.open
      PROVE  Choice(y, w)
    BY <1>2, <1>3 DEF Good, Choice, Tiled, Only, Fields
<1> QED BY <1>5, <1>6, <1>7, <1>8 DEF Good, Base

\* TileAgain tiles only when the session it had is released.
LEMMA TileAgainKeeps ==
    ASSUME Assumption, NEW x, Good(x), NEW k \in Spaces, NEW y \in TileAgain(x, k)
    PROVE  Good(y)
<1>1. PICK r \in dispatch_workspace_release(x, k) :
           IF r.ok THEN y \in reconcile_tick(Retiled(r.host, k)) ELSE y = Queued(r.host, k, TRUE)
    BY DEF TileAgain
<1>2. PICK u : u = r.host
    OBVIOUS
<1>3. Good(u) /\ (r.ok => k \notin DOMAIN u.session)
    BY <1>1, <1>2, ReleasedKeeps
<1>4. CASE r.ok
    <2>1. PICK z : z = Retiled(u, k)
        OBVIOUS
    <2>2. Good(z)
        BY <1>3, <1>4, <2>1, RetiledKeeps
    <2>3. y \in reconcile_tick(z)
        BY <1>1, <1>2, <1>4, <2>1
    <2> QED BY <2>2, <2>3, TickKeeps
<1>5. CASE ~r.ok
    <2>1. y = Queued(u, k, TRUE)
        BY <1>1, <1>2, <1>5
    <2> QED BY <1>3, <2>1, QueuedKeeps
<1> QED BY <1>4, <1>5

\* toggle_workspace_tiling leaves a right host.
LEMMA ModeToggleKeeps ==
    ASSUME Assumption, Good(host), ModeToggle
    PROVE  Good(host')
<1> SUFFICES ASSUME NEW x \in Observe(host), NEW y \in toggle_workspace_tiling(x, x.active)
             PROVE  Good(y)
    BY BecomesKeeps DEF ModeToggle
<1>1. Good(x)
    BY ObserveKeeps
<1>2. PICK k : k = x.active
    OBVIOUS
<1>3. k \in Spaces
    BY <1>1, <1>2 DEF Good, Base, Shape
<1>4. CASE k \notin x.tiled
    <2>1. y \in TileAgain(x, k)
        BY <1>2, <1>4 DEF toggle_workspace_tiling
    <2> QED BY <1>1, <1>3, <2>1, TileAgainKeeps
<1>5. CASE k \in x.tiled
    <2>1. PICK r \in dispatch_workspace_release(Untiled(x, k), k) :
               y = IF r.ok THEN Confirmed(r.host, k) ELSE Queued(r.host, k, FALSE)
        BY <1>2, <1>5 DEF toggle_workspace_tiling
    <2>2. PICK z : z = Untiled(x, k)
        OBVIOUS
    <2>3. Good(z)
        BY <1>1, <2>2, UntiledKeeps
    <2>4. PICK u : u = r.host
        OBVIOUS
    <2>5. Good(u)
        BY <2>1, <2>2, <2>3, <2>4, ReleasedKeeps
    <2>6. y = Confirmed(u, k) \/ y = Queued(u, k, FALSE)
        BY <2>1, <2>4
    <2> QED BY <2>5, <2>6, QueuedKeeps
<1> QED BY <1>4, <1>5

\* retry_pending_releases leaves a right host.
LEMMA RetryKeeps ==
    ASSUME Assumption, Good(host), NEW k \in Spaces, Retry(k)
    PROVE  Good(host')
<1> SUFFICES ASSUME NEW v \in Observe(host), NEW x, x = workspace_close_cleanup(v),
                    NEW y \in retry_pending_release(x, k)
             PROVE  Good(y)
    BY BecomesKeeps DEF Retry
<1>1. Good(x)
    BY ObserveKeeps, CleanedKeeps
<1>2. CASE k \in x.tiled
    BY <1>1, <1>2, QueuedKeeps DEF retry_pending_release
<1>3. CASE k \notin x.tiled
    <2>1. PICK r \in dispatch_workspace_release(x, k) :
               \/ y = r.host
               \/ r.ok /\ y \in reconcile_tick(Retiled(r.host, k))
               \/ y = Confirmed(r.host, k)
        BY <1>3 DEF retry_pending_release
    <2>2. PICK u : u = r.host
        OBVIOUS
    <2>3. Good(u) /\ (r.ok => k \notin DOMAIN u.session)
        BY <1>1, <2>1, <2>2, ReleasedKeeps
    <2>4. CASE r.ok /\ y \in reconcile_tick(Retiled(u, k))
        <3>1. PICK z : z = Retiled(u, k)
            OBVIOUS
        <3>2. Good(z)
            BY <2>3, <2>4, <3>1, RetiledKeeps
        <3> QED BY <2>4, <3>1, <3>2, TickKeeps
    <2>5. CASE y = u \/ y = Confirmed(u, k)
        BY <2>3, <2>5, QueuedKeeps
    <2> QED BY <2>1, <2>2, <2>4, <2>5
<1> QED BY <1>2, <1>3

\* workspace_do_select leaves a right host, whether it stays or goes.
LEMMA SelectKeeps ==
    ASSUME Assumption, Good(host), NEW k \in Spaces, Select(k)
    PROVE  Good(host')
<1> SUFFICES ASSUME NEW x \in Observe(host), NEW y \in workspace_do_select(x, k)
             PROVE  Good(y)
    BY BecomesKeeps DEF Select
<1>1. Good(x)
    BY ObserveKeeps
<1>2. PICK kept : kept = drop_member_state(x, (Members(x, x.active) \ x.hidden) \ x.open)
    OBVIOUS
<1>3. PICK leaving : leaving = (Members(x, x.active) \cap x.open) \ (x.hidden \cup DOMAIN x.sticky)
    OBVIOUS
<1>4. PICK opened : opened = [kept EXCEPT !.active = k, !.hidden = (@ \cup leaving) \ Members(x, k)]
    OBVIOUS
<1>5. \/ y = kept
      \/ \E z \in Observe(opened) : y \in Reconcile(workspace_close_cleanup(z))
    BY <1>2, <1>3, <1>4 DEF workspace_do_select
<1>6. Good(kept)
    BY <1>1, <1>2, DroppedKeeps
<1>7. Only(opened, kept, {"active", "hidden"}) /\ opened.active = k
    BY <1>4, <1>6 DEF Good, Base, Shape, Only, Fields
<1>8. Shape(opened)
    BY <1>6, <1>7 DEF Good, Base, Shape, Only, Fields
<1>9. Sessions(opened) /\ Tables(opened) /\ Bands(opened) /\ opened.up
    BY <1>6, <1>7 DEF Good, Base, Sessions, Tables, Bands, Members, Only, Fields
<1>10. ASSUME NEW w \in opened.open
       PROVE  Choice(opened, w)
    BY <1>6, <1>7 DEF Good, Choice, Tiled, Only, Fields
<1>11. Good(opened)
    BY <1>8, <1>9, <1>10 DEF Good, Base
<1> QED BY <1>5, <1>6, <1>11, ObserveKeeps, CleanedKeeps, ReconcileKeeps

-----------------------------------------------------------------------------
(* The process and the desktop.                                               *)

\* What is right of the desktop and the loop whether the process is up or not.
Sane(x) == Shape(x) /\ Sessions(x) /\ Tables(x) /\ \A w \in x.open : Choice(x, w)
\* The inductive invariant.
IInv == Sane(host) /\ (host.up => Bands(host))

\* While the process is up the invariant is Good.
LEMMA SaneIsGood ==
    ASSUME NEW x
    PROVE  Good(x) <=> Sane(x) /\ Bands(x) /\ x.up
BY DEF Good, Base, Sane

\* The first host is right.
LEMMA InitIsSane ==
    ASSUME Assumption, Init
    PROVE  IInv
<1>1. /\ host.open = {} /\ host.home = Empty /\ host.sticky = Empty
      /\ host.prior = Empty /\ host.session = Empty
      /\ host.stickyMark = Empty /\ host.floatMark = {} /\ host.floated = {}
      /\ host.raised = {} /\ host.tiled = Spaces /\ host.active = First /\ DOMAIN host = Fields
    BY DEF Init, Fields
<1>2. DOMAIN Empty = {}
    BY DEF Empty
<1>3. First \in Spaces
    BY DEF Assumption
<1>4. Shape(host)
    BY <1>1, <1>2, <1>3 DEF Shape
<1> QED BY <1>1, <1>2, <1>4 DEF IInv, Sane, Sessions, Tables, Bands

\* A loop that starts from nothing is right: what was chosen is in the marks.
LEMMA NewLoopIsSane ==
    ASSUME Assumption, NEW x, Good(x), NEW y,
           Only(y, NewLoop(x), {"top", "raised", "arranged"})
    PROVE  Sane(y) /\ ~y.up
<1>1. PICK z : z = NewLoop(x)
    OBVIOUS
<1>2. /\ Only(z, x, {"up", "tiled", "active", "home", "hidden", "floated", "sticky", "prior",
                     "pending", "session"})
      /\ z.up = FALSE /\ z.tiled = Spaces /\ z.active = First /\ z.floated = {}
      /\ z.home = Empty /\ z.sticky = Empty /\ z.prior = Empty /\ z.session = Empty
    BY <1>1 DEF NewLoop, Good, Base, Shape, Only, Fields
<1>3. DOMAIN Empty = {}
    BY DEF Empty
<1>4. /\ y.up = FALSE /\ y.tiled = Spaces /\ y.active = First /\ y.floated = {}
      /\ DOMAIN y.home = {} /\ DOMAIN y.sticky = {} /\ DOMAIN y.prior = {} /\ DOMAIN y.session = {}
      /\ y.open = x.open /\ y.want = x.want /\ y.floatMark = x.floatMark
      /\ y.stickyMark = x.stickyMark /\ DOMAIN y = Fields
    BY <1>1, <1>2, <1>3 DEF Only, Fields
<1>5. First \in Spaces
    BY DEF Assumption
<1>6. Shape(y)
    BY <1>4, <1>5 DEF Good, Base, Shape
<1>7. Sessions(y) /\ Tables(y)
    BY <1>4 DEF Sessions, Tables
<1>8. ASSUME NEW w \in y.open
      PROVE  Choice(y, w)
    BY <1>4 DEF Good, Choice, Tiled
<1> QED BY <1>4, <1>6, <1>7, <1>8 DEF Sane

\* The end of the process leaves the marks and whatever bands it could not put back.
LEMMA StopKeeps ==
    ASSUME Assumption, Good(host), Stop \/ Crash
    PROVE  Sane(host') /\ ~host'.up
<1>1. PICK z : z = NewLoop(host)
    OBVIOUS
<1>2. DOMAIN z = Fields
    BY <1>1 DEF NewLoop, Good, Base, Shape
<1>3. Only(host', z, {"top", "raised", "arranged"})
    <2>1. CASE Crash
        <3>1. host' = [z EXCEPT !.arranged = {}]
            BY <1>1, <2>1 DEF Crash, Becomes
        <3> QED BY <1>2, <3>1 DEF Only, Fields
    <2>2. CASE Stop
        <3>1. PICK kept, lowered, x : /\ x = [z EXCEPT !.top = @ \ lowered, !.raised = @ \cap kept]
                                      /\ host' = [x EXCEPT !.arranged = {}]
            BY <1>1, <2>2 DEF Stop, Becomes
        <3>2. Only(x, z, {"top", "raised", "arranged"})
            BY <1>2, <3>1 DEF Only, Fields
        <3> QED BY <1>2, <3>1, <3>2 DEF Only, Fields
    <2> QED BY <2>1, <2>2
<1> QED BY <1>1, <1>3, NewLoopIsSane

\* The process starts having raised nothing.
LEMMA StartKeeps ==
    ASSUME Sane(host), Start
    PROVE  Good(host')
<1>1. /\ Only(host', host, {"up", "raised"}) /\ host'.up /\ host'.raised = {}
    BY DEF Start, Sane, Shape, Only, Fields
<1>2. Shape(host')
    BY <1>1 DEF Sane, Shape, Only, Fields
<1>3. Sessions(host') /\ Tables(host') /\ Bands(host')
    BY <1>1 DEF Sane, Sessions, Tables, Bands, Members, Only, Fields
<1>4. ASSUME NEW w \in host'.open
      PROVE  Choice(host', w)
    BY <1>1 DEF Sane, Choice, Tiled, Only, Fields
<1> QED BY <1>1, <1>2, <1>3, <1>4 DEF Good, Base

\* A new window has no marks and is tiled until chosen otherwise.
LEMMA OpenKeeps ==
    ASSUME IInv, NEW w, Open(w)
    PROVE  IInv'
<1>1. PICK x, y : x = host /\ y = host'
    OBVIOUS
<1>2. Sane(x) /\ (x.up => Bands(x)) /\ w \notin x.open \cup DOMAIN x.home
    BY <1>1 DEF IInv, Open
<1>3. /\ Only(y, x, {"open", "want"}) /\ y.open = x.open \cup {w}
      /\ y.want = With(x.want, w, "tiled")
    BY <1>1, <1>2 DEF Open, Sane, Shape, Only, Fields
<1>4. /\ DOMAIN y.want = DOMAIN x.want \cup {w} /\ y.want[w] = "tiled"
      /\ \A v \in DOMAIN x.want \ {w} : y.want[v] = x.want[v]
    BY <1>3 DEF With
<1>5. Shape(y)
    BY <1>2, <1>3, <1>4 DEF Sane, Shape, Only, Fields
<1>6. Sessions(y) /\ Tables(y)
    BY <1>2, <1>3 DEF Sane, Sessions, Tables, Members, Only, Fields
<1>7. y.up => Bands(y)
    BY <1>2, <1>3 DEF Bands, Only, Fields
<1>8. ASSUME NEW v \in y.open
      PROVE  Choice(y, v)
    <2>1. CASE v = w
        <3>1. w \notin x.floatMark \cup DOMAIN x.stickyMark \cup x.floated \cup DOMAIN x.sticky
            BY <1>2 DEF Sane, Shape, Tables
        <3>2. \A k \in DOMAIN x.session : w \notin x.session[k].floats
            BY <1>2 DEF Sane, Sessions, Members
        <3> QED BY <1>3, <1>4, <2>1, <3>1, <3>2 DEF Choice, Tiled, Only, Fields
    <2>2. CASE v # w
        <3>1. v \in x.open /\ Choice(x, v) /\ v \in DOMAIN x.want
            BY <1>2, <1>3, <2>2 DEF Sane, Shape
        <3> QED BY <1>3, <1>4, <2>2, <3>1 DEF Choice, Tiled, Only, Fields
    <2> QED BY <2>1, <2>2
<1> QED BY <1>1, <1>5, <1>6, <1>7, <1>8 DEF IInv, Sane

\* Windows forgets a closed window; what the loop keeps of it harms nobody.
LEMMA CloseKeeps ==
    ASSUME IInv, NEW w, Close(w)
    PROVE  IInv'
<1>1. PICK x, y : x = host /\ y = host'
    OBVIOUS
<1>2. Sane(x) /\ (x.up => Bands(x))
    BY <1>1 DEF IInv
<1>3. /\ Only(y, x, {"open", "top", "overlay", "floatMark", "stickyMark", "raised"})
      /\ y.open = x.open \ {w} /\ y.top = x.top \ {w} /\ y.floatMark = x.floatMark \ {w}
      /\ y.stickyMark = Without(x.stickyMark, {w}) /\ y.raised = x.raised \ {w}
    BY <1>1, <1>2 DEF Close, Sane, Shape, Only, Fields
<1>4. DOMAIN y.stickyMark = DOMAIN x.stickyMark \ {w}
    BY <1>3 DEF Without
<1>5. Shape(y)
    BY <1>2, <1>3, <1>4 DEF Sane, Shape, Only, Fields
<1>6. Sessions(y) /\ Tables(y)
    BY <1>2, <1>3 DEF Sane, Sessions, Tables, Members, Only, Fields
<1>7. y.up => Bands(y)
    BY <1>2, <1>3 DEF Bands, Only, Fields
<1>8. ASSUME NEW v \in y.open
      PROVE  Choice(y, v)
    <2>1. v \in x.open /\ Choice(x, v) /\ v # w
        BY <1>2, <1>3 DEF Sane
    <2> QED BY <1>3, <1>4, <2>1 DEF Choice, Tiled, Only, Fields
<1> QED BY <1>1, <1>5, <1>6, <1>7, <1>8 DEF IInv, Sane

\* What the user maximizes and applications raise is no choice.
LEMMA OverlayKeeps ==
    ASSUME IInv, NEW w, Overlay(w) \/ Band(w)
    PROVE  IInv'
<1>1. PICK x, y : x = host /\ y = host'
    OBVIOUS
<1>2. Sane(x) /\ (x.up => Bands(x))
    BY <1>1 DEF IInv
<1>3. /\ Only(y, x, {"overlay", "top", "raised"})
      /\ \/ y.top = x.top /\ y.raised = x.raised
         \/ x.top \ {w} \subseteq y.top /\ y.raised = x.raised \ {w}
    <2>1. CASE Overlay(w)
        BY <1>1, <1>2, <2>1 DEF Overlay, Sane, Shape, Only, Fields
    <2>2. CASE Band(w)
        <3>1. PICK top : y = [x EXCEPT !.top = top, !.raised = @ \ {w}] /\ x.top \ {w} \subseteq top
            BY <1>1, <2>2 DEF Band
        <3> QED BY <1>2, <3>1 DEF Sane, Shape, Only, Fields
    <2> QED BY <2>1, <2>2
<1>4. Shape(y)
    BY <1>2, <1>3 DEF Sane, Shape, Only, Fields
<1>5. Sessions(y) /\ Tables(y)
    BY <1>2, <1>3 DEF Sane, Sessions, Tables, Members, Only, Fields
<1>6. y.up => Bands(y)
    BY <1>2, <1>3 DEF Bands, Only, Fields
<1>7. ASSUME NEW v \in y.open
      PROVE  Choice(y, v)
    BY <1>2, <1>3 DEF Sane, Choice, Tiled, Only, Fields
<1> QED BY <1>1, <1>4, <1>5, <1>6, <1>7 DEF IInv, Sane

\* Every step keeps the invariant.
LEMMA StepKeeps ==
    ASSUME Assumption, IInv, Next
    PROVE  IInv'
<1>1. ASSUME Good(host')
      PROVE  IInv'
    BY <1>1, SaneIsGood DEF IInv
<1>2. ASSUME host.up
      PROVE  Good(host)
    BY <1>2, SaneIsGood DEF IInv
<1>3. CASE Tick
    <2>1. \A y \in reconcile_tick(host) : Good(y)
        BY <1>2, <1>3, TickKeeps DEF Tick, Becomes
    <2> QED BY <1>1, <1>3, <2>1, BecomesKeeps DEF Tick
<1>4. CASE ModeToggle
    BY <1>1, <1>2, <1>4, ModeToggleKeeps DEF ModeToggle, Becomes
<1>5. CASE Stop \/ Crash
    <2>1. host.up
        BY <1>5 DEF Stop, Crash, Becomes
    <2> QED BY <1>2, <1>5, <2>1, StopKeeps DEF IInv
<1>6. CASE Start
    BY <1>1, <1>6, StartKeeps DEF IInv
<1>7. ASSUME NEW k \in Spaces, Retry(k) \/ Select(k)
      PROVE  IInv'
    <2>1. host.up
        BY <1>7 DEF Retry, Select, Becomes
    <2> QED BY <1>1, <1>2, <1>7, <2>1, RetryKeeps, SelectKeeps
<1>8. ASSUME NEW w \in Windows, FloatChord(w) \/ StickyChord(w)
      PROVE  IInv'
    <2>1. host.up
        BY <1>8 DEF FloatChord, StickyChord, Becomes
    <2> QED BY <1>1, <1>2, <1>8, <2>1, ChordKeeps
<1> QED BY <1>3, <1>4, <1>5, <1>6, <1>7, <1>8, OpenKeeps, CloseKeeps, OverlayKeeps DEF Next

\* The inductive invariant holds throughout: marks, tables and sessions agree with the
\* last choice about every open window, and every raised band can be put back.
THEOREM HostIsSane ==
    ASSUME Assumption
    PROVE  Spec => []IInv
<1>1. IInv /\ UNCHANGED host => IInv'
    BY DEF IInv
<1> QED BY <1>1, InitIsSane, StepKeeps, PTL DEF Spec

\* A window is tiled, floats or is sticky as the user last chose, through restarts,
\* refused requests, failed marks and workspaces that stop tiling
\* (apply_float_from_tiled, apply_unfloat_to_tiled, sticky_rehome_to_current,
\* adopt_restart_markers).
THEOREM ModesFollowUserAlways ==
    ASSUME Assumption
    PROVE  Spec => []ModesFollowUser
<1>1. IInv => ModesFollowUser
    <2> SUFFICES ASSUME IInv, host.up, workspace_close_cleanup(host) = host,
                        NEW x \in reconcile_tick(host), NEW w \in Observed(x) \cap DOMAIN x.home
                 PROVE  \/ x.want[w] \in {"any", "lost", ModeOf(x, w)}
                        \/ Fallible /\ w \in Marked(x)
        BY DEF ModesFollowUser
    <2>1. Good(host)
        BY SaneIsGood DEF IInv
    <2>2. Good(x)
        BY <2>1, TickKeeps
    <2>3. ~Fallible => Marked(x) = {}
        BY <2>1, TickAdopts
    <2>4. CASE w \notin Marked(x)
        BY <2>2, <2>4, GoodModes
    <2>5. CASE w \in Marked(x)
        BY <2>3, <2>5
    <2> QED BY <2>4, <2>5
<1> QED BY <1>1, HostIsSane, PTL

\* What this process raised it can lower: a band that was not topmost is known as such
\* until it is put back or the window closes (restore_raised_band).
THEOREM BandsComeBackAlways ==
    ASSUME Assumption
    PROVE  Spec => []BandsComeBack
<1>1. IInv => BandsComeBack
    BY DEF IInv, Bands, BandsComeBack
<1> QED BY <1>1, HostIsSane, PTL

\* A session holds members of its workspace and is never one from before its workspace
\* stopped tiling (dispatch_workspace_release, retry_pending_releases).
THEOREM SessionsAreTheirsAlways ==
    ASSUME Assumption
    PROVE  Spec => []SessionsAreTheirs
<1>1. IInv => SessionsAreTheirs
    BY DEF IInv, Sane, Sessions, Tables, SessionsAreTheirs
<1> QED BY <1>1, HostIsSane, PTL
=============================================================================
