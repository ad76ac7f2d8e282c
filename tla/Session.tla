------------------------------- MODULE Session -------------------------------
(***************************************************************************)
(* The planning session (crates/tiler-core/src/session.rs, session/world.rs*)
(* and session/ops): tiling trees per domain, links from windows to        *)
(* leaves, floating exceptions, focus with its memory, and the staged      *)
(* world a pending plan will commit.                                       *)
(*                                                                         *)
(* Every operation that plans computes a whole desired world and puts it   *)
(* beside the committed one; the reconciler (module Reconciler) decides    *)
(* whether the plan goes out.  Its verdicts appear here as choices: a      *)
(* proposal that passes the session's own checks is either staged or       *)
(* diverges, an acknowledgement or a verification succeeds or diverges.    *)
(* Refused calls change nothing and are not actions.  Leaves are named by  *)
(* their windows; geometry, shares and retained float rectangles are left  *)
(* out, so a resize stages the committed world.                            *)
(***************************************************************************)
EXTENDS Naturals, Sequences, FiniteSets

CONSTANTS
    LastWindow,        \* windows are 1..LastWindow, ordered like their ids
    Outputs, Workspaces,
    InitialDomains,    \* the domain sequences a session may start with
    AdmissionAxes,     \* axes the placement rectangle may select
    Sights,            \* how an observation may show a window
    FixedAdmission,    \* the fixed-size opt-in of this session
    Unfloat,           \* what callers do with unfloat plans: "never" made,
                       \* always "settled", or "any"
    MaxRevision        \* contract::MAX_REVISION

Windows == 1..LastWindow

Key == [output : Outputs, workspace : Workspaces]

Flags == {"floating", "fullscreen", "maximized", "sticky"}

\* An observed window: its flags, the adapter's fixed_auto and fixed_suppress
\* signals, and whether its size hints are fixed.
Sight == [flags : SUBSET Flags, auto : BOOLEAN, suppress : BOOLEAN, fixed : BOOLEAN]

INSTANCE TilingTree

\* What every instance assumes of the constants.
Assumption ==
    /\ LastWindow \in Nat /\ MaxRevision \in Nat
    /\ InitialDomains \subseteq Seq(Key)
    /\ AdmissionAxes \subseteq Axes /\ Sights \subseteq Sight

VARIABLES
    domains,     \* the domain keys, in construction order
    world,       \* the committed world
    stack,       \* focus_stack: per domain, most recent leaf last
    revision,    \* the reconciler's verified revision
    pending,     \* {} or the dispatched plan
    desired,     \* pending_desired: {} or the staged world
    drag,        \* {} or the capture of the drag in progress
    halted,      \* the reconciler recorded a divergence
    orphaned     \* history: a staged unfloat plan was cancelled

vars == <<domains, world, stack, revision, pending, desired, drag, halted, orphaned>>

-----------------------------------------------------------------------------
(* Worlds.                                                                 *)

\* What a plan is for.
Kinds == {"lifecycle", "unfloat", "move", "focus", "resize", "drag"}

Focus == [domain : Key, leaf : Windows]

Exceptions == [home : Key, flags : SUBSET Flags]

At(k, w) == [domain |-> k, leaf |-> w]

Known == {domains[i] : i \in DOMAIN domains}

Tiled(v) == DOMAIN v.windows

Members(v) == DOMAIN v.windows \cup DOMAIN v.exceptions

Without(f, w) == [x \in DOMAIN f \ {w} |-> f[x]]

With(f, w, e) == [x \in DOMAIN f \cup {w} |-> IF x = w THEN e ELSE f[x]]

\* A leaf that is in its domain's tree and linked to a window there.
Holds(v, k, w) == w \in v.trees[k].leaves /\ w \in Tiled(v) /\ v.windows[w] = k

Resolves(v, focus) == \A f \in focus : Holds(v, f.domain, f.leaf)

Remembered(v, k) == {w \in v.last[k] : Holds(v, k, w)}

\* The entries of s that are in S, in their order.
Kept(s, S) ==
    LET kept[n \in 0..Len(s)] ==
            IF n = 0 THEN <<>>
            ELSE IF s[n] \in S THEN Append(kept[n - 1], s[n]) ELSE kept[n - 1]
    IN  kept[Len(s)]

Held(v, k) == {w \in Tiled(v) : Holds(v, k, w)}

\* The most recent leaf of the domain's stack that is still there.
Recent(v, k) ==
    LET live == Kept(stack[k], Held(v, k))
    IN  IF live = <<>> THEN {} ELSE {live[Len(live)]}

FocusIn(k, leaf) == {At(k, w) : w \in leaf}

\* A mutant: the focused leaf is appended without leaving its old place.
StackWithRepeats(v) ==
    [k \in Key |->
        LET top  == {f.leaf : f \in {f \in v.focus : f.domain = k}}
            live == Kept(stack[k], Held(v, k))
        IN  IF top = {} \/ (live # <<>> /\ live[Len(live)] \in top) THEN live
            ELSE Append(live, CHOOSE w \in top : TRUE)]

UpdatedStack(v) ==
    [k \in Key |->
        LET top  == {f.leaf : f \in {f \in v.focus : f.domain = k}}
            live == Kept(stack[k], Held(v, k) \ top)
        IN  IF top = {} THEN live ELSE Append(live, CHOOSE w \in top : TRUE)]

\* The same world, remembering its focus as the domain's last active leaf.
Marked(v) ==
    [v EXCEPT !.last = [k \in Key |->
        LET here == {f \in v.focus : f.domain = k /\ Holds(v, k, f.leaf)}
        IN  IF here = {} THEN @[k] ELSE {f.leaf : f \in here}]]

Pruned(v) == [v EXCEPT !.automatic = @ \cap Members(v), !.override = @ \cap Members(v)]

EligibleFocus(v, k) == {f.leaf : f \in {f \in v.focus : f.domain = k /\ Holds(v, k, f.leaf)}}

\* The world with w tiled in k at the focused leaf or at the root, and focused.
TiledAt(v, w, k, axis) ==
    [v EXCEPT !.trees[k] = Admitted(@, w, EligibleFocus(v, k), axis),
              !.windows = With(@, w, k),
              !.focus = {At(k, w)}]

\* The world without the tiled window w, focus untouched.
Untiled(v, w) ==
    [v EXCEPT !.trees[v.windows[w]] = Removed(@, w), !.windows = Without(@, w)]

\* A tiled window leaves: a lost focus falls back within its domain.
Departed(v, w) ==
    LET k == v.windows[w]
        rest == Untiled(v, w)
    IN  IF v.focus = {At(k, w)}
        THEN [rest EXCEPT !.focus = FocusIn(k, Recent(rest, k))]
        ELSE IF Resolves(rest, v.focus) THEN rest ELSE [rest EXCEPT !.focus = {}]

Excepted(v, w, k, flags) ==
    [v EXCEPT !.exceptions = With(@, w, [home |-> k, flags |-> flags])]

\* The user chose tile: the fixed-size classifier keeps its hands off.
TileWins(v, w) == [v EXCEPT !.override = @ \cup {w}, !.automatic = @ \ {w}]

-----------------------------------------------------------------------------
(* The transaction shared by every planning operation.                     *)

Idle == ~halted /\ pending = {} /\ drag = {}

Diverge ==
    /\ halted' = TRUE
    /\ pending' = {} /\ desired' = {} /\ drag' = {}

StageAs(kind, next) ==
    /\ pending' = {[kind |-> kind, acked |-> FALSE]}
    /\ desired' = {next}

\* The reconciler accepts the plan or diverges; at the last revision it must.
Offer(kind, next) ==
    /\ \/ /\ revision < MaxRevision
          /\ StageAs(kind, next)
          /\ UNCHANGED <<drag, halted>>
       \/ Diverge
    /\ UNCHANGED <<domains, world, stack, revision, orphaned>>

-----------------------------------------------------------------------------
(* Lifecycle operations.                                                   *)

ClassifiedFixed(v, w, sight, suppress) ==
    /\ FixedAdmission /\ sight.fixed /\ sight.flags = {}
    /\ w \notin v.override /\ ~suppress /\ ~sight.suppress

AdmitInto(v, w, k, sight, suppress, axis) ==
    IF sight.flags # {} THEN Excepted(v, w, k, sight.flags)
    ELSE IF ClassifiedFixed(v, w, sight, suppress)
         THEN [Excepted(v, w, k, {"floating"}) EXCEPT !.automatic = @ \cup {w}]
    ELSE LET tiled == Marked(TiledAt(v, w, k, axis))
         IN  IF suppress \/ (FixedAdmission /\ sight.suppress)
             THEN TileWins(tiled, w) ELSE tiled

Admit(w, k, sight, suppress, axis) ==
    /\ Idle
    /\ w \notin Members(world) /\ k \in Known
    /\ Offer("lifecycle", AdmitInto(world, w, k, sight, suppress, axis))

FirstLeaf(k) ==
    {w \in world.trees[k].leaves :
        \A x \in world.trees[k].leaves \ {w} : Precedes(world.trees[k], w, x)}

FirstLeafGlobal ==
    UNION {FocusIn(domains[i], FirstLeaf(domains[i])) :
              i \in {i \in DOMAIN domains : \A j \in 1..(i - 1) : FirstLeaf(domains[j]) = {}}}

RemoveException(w) ==
    LET rest == [world EXCEPT !.exceptions = Without(@, w)]
    IN  Marked(IF Resolves(rest, rest.focus) THEN rest
               ELSE [rest EXCEPT !.focus = FirstLeafGlobal])

Remove(w) ==
    /\ Idle
    /\ w \in Members(world)
    /\ Offer("lifecycle", IF w \in DOMAIN world.exceptions THEN RemoveException(w)
                          ELSE Marked(Departed(world, w)))

\* An intentional float withdraws the fixed-size marks of the window.
Float(w) ==
    /\ Idle
    /\ w \in Tiled(world)
    /\ LET left == Marked(Departed(world, w))
       IN  Offer("lifecycle",
                 [Excepted(left, w, world.windows[w], {"floating"}) EXCEPT
                    !.automatic = @ \ {w}, !.override = @ \ {w}])

\* The admission is proposed on a copy without the exception record, and the
\* copy replaces the session when the plan is staged: the record is gone from
\* the committed world at once.  When the proposal diverges the copy is
\* dropped, and with it the recorded divergence: nothing changes.
Unfloated(w, axis) ==
    /\ Idle
    /\ Unfloat # "never"
    /\ w \in DOMAIN world.exceptions
    /\ world.exceptions[w].flags = {"floating"}
    /\ revision < MaxRevision
    /\ LET base == [world EXCEPT !.exceptions = Without(@, w)]
           home == world.exceptions[w].home
       IN  /\ StageAs("unfloat", TileWins(Marked(TiledAt(base, w, home, axis)), w))
           /\ world' = base
    /\ UNCHANGED <<domains, stack, revision, drag, halted, orphaned>>

\* The window the keyboard operations act on.
Focused(w) == \E f \in world.focus : f.leaf = w /\ Holds(world, f.domain, w)

ToggleOrientation(w) ==
    /\ Idle
    /\ Focused(w)
    /\ HasParent(world.trees[world.windows[w]], w)
    /\ Offer("lifecycle",
             Marked([world EXCEPT !.trees[world.windows[w]] = Flipped(@, w)]))

\* Workspace send stays on the output, output send leaves it.
Send(w, k, follow, axis) ==
    LET source == world.windows[w]
        anchor == IF Remembered(world, k) # {} THEN Remembered(world, k)
                  ELSE Recent(world, k)
        moved  == [Untiled(world, w) EXCEPT
                      !.trees[k] = Admitted(@, w, anchor, axis),
                      !.windows = With(@, w, k)]
    IN  /\ Idle
        /\ Focused(w)
        /\ k \in Known /\ k # source
        /\ Offer("lifecycle",
                 Marked([moved EXCEPT !.focus =
                            IF follow THEN {At(k, w)}
                            ELSE FocusIn(source, Recent(moved, source))]))

-----------------------------------------------------------------------------
(* Movement, focus and resize.                                             *)

\* Where the directional policy puts the leaf is its choice; here it may be
\* any other place in the domain.
Move(w) ==
    /\ Idle
    /\ Focused(w)
    /\ \E tree \in Rearranged(world.trees[world.windows[w]], w) :
           Offer("move", Marked([world EXCEPT !.trees[world.windows[w]] = tree]))

\* The leaf is an outermost child of its tree's root, or the whole tree.
OnRootEdge(t, w, first) ==
    /\ \A g \in t.groups : w \in g.members => g.members = t.leaves
    /\ \A x \in t.leaves \ {w} : IF first THEN Precedes(t, w, x) ELSE Precedes(t, x, w)

\* Leaving over the left or top edge puts the leaf after its new neighbour.
MoveAcross(w, k, first, axis) ==
    LET source == world.windows[w]
        anchor == Remembered(world, k)
        there  == world.trees[k]
        beside == IF anchor = {} THEN there.leaves ELSE anchor
        moved  == [Untiled(world, w) EXCEPT
                      !.trees[k] = IF there.leaves = {} THEN Lone(w)
                                   ELSE Place(there, w, beside, first, TRUE, axis),
                      !.windows = With(@, w, k),
                      !.focus = {At(k, w)}]
    IN  /\ Idle
        /\ Focused(w)
        /\ k \in Known /\ k.output # source.output
        /\ OnRootEdge(world.trees[source], w, first)
        /\ Offer("move", Marked(moved))

FocusOther(w) ==
    /\ Idle
    /\ \E f \in world.focus :
        /\ Holds(world, f.domain, f.leaf) /\ Holds(world, f.domain, w) /\ w # f.leaf
        /\ Offer("focus", Marked([world EXCEPT !.focus = {At(f.domain, w)}]))

\* From the focused tile or from a floating window of k to the remembered leaf
\* of the one domain on another output.
FocusAcross(k, target) ==
    /\ Idle
    /\ \/ \E f \in world.focus : f.domain = k /\ Holds(world, k, f.leaf)
       \/ \E w \in DOMAIN world.exceptions :
            /\ world.exceptions[w].home = k
            /\ FixedAdmission \/ world.exceptions[w].flags \cap {"floating", "sticky"} # {}
    /\ {d \in Known : d.output = target.output} = {target} /\ target.output # k.output
    /\ Remembered(world, target) # {}
    /\ Offer("focus",
             Marked([world EXCEPT !.focus = FocusIn(target, Remembered(world, target))]))

\* A resize changes shares alone.
Resize(w) ==
    /\ Idle
    /\ Focused(w)
    /\ HasParent(world.trees[world.windows[w]], w)
    /\ Offer("resize", world)

\* A pointer, on an edge or a corner, may resize a tile that is not focused
\* in the focused domain.
PointerResize(w) ==
    /\ Idle
    /\ \E f \in world.focus : Holds(world, f.domain, f.leaf) /\ Holds(world, f.domain, w)
    /\ HasParent(world.trees[world.windows[w]], w)
    /\ Offer("resize", world)

-----------------------------------------------------------------------------
(* Dragging.  The capture is what begin_drag copies; nothing but the drop, *)
(* the cancellation and terminal divergence may follow it.                 *)

CaptureOf(w) ==
    [source |-> w, trees |-> world.trees, windows |-> world.windows,
     exceptions |-> world.exceptions, focus |-> world.focus, revision |-> revision]

BeginDrag(w) ==
    /\ Idle
    /\ Focused(w)
    /\ drag' = {CaptureOf(w)}
    /\ UNCHANGED <<domains, world, stack, revision, pending, desired, halted, orphaned>>

StaleCapture(c) == c # CaptureOf(c.source)

\* Where a drop may put x.  Shares can change where the places stay.
DropPlaces(t, x) == IF HasParent(t, x) THEN Rearranged(t, x) \cup {t} ELSE {}

\* A drop that does not plan snaps back; one that plans stages the new tree.
DropDrag ==
    /\ ~halted /\ pending = {}
    /\ \E c \in drag :
        \/ /\ drag' = {}
           /\ UNCHANGED <<pending, desired, halted>>
        \/ /\ ~StaleCapture(c)
           /\ \E tree \in DropPlaces(world.trees[world.windows[c.source]], c.source) :
                \/ /\ revision < MaxRevision
                   /\ StageAs("drag",
                        [world EXCEPT !.trees[world.windows[c.source]] = tree])
                   /\ drag' = {}
                   /\ UNCHANGED halted
                \/ Diverge
    /\ UNCHANGED <<domains, world, stack, revision, orphaned>>

CancelDrag ==
    /\ drag # {}
    /\ drag' = {}
    /\ UNCHANGED <<domains, world, stack, revision, pending, desired, halted, orphaned>>

-----------------------------------------------------------------------------
(* The second half of a plan.                                              *)

Acknowledge ==
    /\ \E p \in pending :
        \/ /\ pending' = {[p EXCEPT !.acked = TRUE]}
           /\ UNCHANGED <<desired, drag, halted>>
        \/ Diverge
    /\ UNCHANGED <<domains, world, stack, revision, orphaned>>

\* A mutant: an acknowledged plan can be cancelled.
CancelAnyPending ==
    /\ drag = {} /\ pending # {}
    /\ pending' = {} /\ desired' = {}
    /\ UNCHANGED <<domains, world, stack, revision, drag, halted, orphaned>>

CancelUnacked ==
    /\ drag = {}
    /\ \E p \in pending :
        /\ ~p.acked
        /\ p.kind = "unfloat" => Unfloat = "any"
        /\ orphaned' = (orphaned \/ p.kind = "unfloat")
    /\ pending' = {} /\ desired' = {}
    /\ UNCHANGED <<domains, world, stack, revision, drag, halted>>

\* A mutant: the marks of windows that left are not pruned.
CommittedUnpruned(kind, v) == IF kind = "drag" THEN [v EXCEPT !.last = world.last] ELSE v

\* What a verified plan commits.  A drag leaves the last active leaves alone.
Committed(kind, v) == Pruned(IF kind = "drag" THEN [v EXCEPT !.last = world.last] ELSE v)

Commit(kind) ==
    /\ \E v \in desired :
        /\ world' = Committed(kind, v)
        /\ stack' = UpdatedStack(v)
    /\ desired' = {} /\ pending' = {}
    /\ revision' = revision + 1

Verify ==
    /\ \E p \in pending :
        \/ /\ p.acked
           /\ Commit(p.kind)
           /\ UNCHANGED <<drag, halted>>
        \/ /\ Diverge
           /\ UNCHANGED <<world, stack, revision>>
    /\ UNCHANGED <<domains, orphaned>>

\* note_adapter_loss and note_postcondition_mismatch.
NoteLoss ==
    /\ Diverge
    /\ UNCHANGED <<domains, world, stack, revision, orphaned>>

-----------------------------------------------------------------------------
(* Changes that need no plan.                                              *)

\* A mutant: the focus may follow the compositor during a drag.
SyncFocusDuringDrag(w) ==
    /\ ~halted /\ pending = {}
    /\ w \in Tiled(world)
    /\ LET v == [world EXCEPT !.focus = {At(world.windows[w], w)}]
       IN  world' = v /\ stack' = UpdatedStack(v)
    /\ UNCHANGED <<domains, revision, pending, desired, drag, halted, orphaned>>

SyncFocus(w) ==
    /\ Idle
    /\ w \in Tiled(world)
    /\ LET v == [world EXCEPT !.focus = {At(world.windows[w], w)}]
       IN  world' = v /\ stack' = UpdatedStack(v)
    /\ UNCHANGED <<domains, revision, pending, desired, drag, halted, orphaned>>

\* A mutant: the old key keeps what moved.
CopiedOnly(f, a, b) == [f EXCEPT ![b] = f[a]]

Swapped(f, a, b) == [f EXCEPT ![b] = f[a], ![a] = f[b]]

\* The domain moves to another output with everything homed on it.
Relocate(source, target) ==
    LET moved(k) == IF k = source THEN target ELSE k
    IN  /\ Idle /\ desired = {}
        /\ source \in Known /\ target \notin Known
        /\ target.workspace = source.workspace /\ target.output # source.output
        /\ domains' = [i \in DOMAIN domains |-> moved(domains[i])]
        /\ world' = [world EXCEPT
                !.trees = Swapped(@, source, target),
                !.windows = [w \in DOMAIN @ |-> moved(@[w])],
                !.exceptions = [w \in DOMAIN @ |->
                    [home |-> moved(@[w].home), flags |-> @[w].flags]],
                !.focus = {At(moved(f.domain), f.leaf) : f \in @},
                !.last = Swapped(@, source, target)]
        /\ stack' = Swapped(stack, source, target)
        /\ UNCHANGED <<revision, pending, desired, drag, halted, orphaned>>

-----------------------------------------------------------------------------
(* Convergence on one complete observation.  "seen" gives every observed   *)
(* window its home and how it looks; a known window keeps its home.        *)

Shows(seen, flag) == {w \in DOMAIN seen : flag \in seen[w].sight.flags}

Suppressed(seen) == {w \in DOMAIN seen : seen[w].sight.suppress}

Fixed(seen) == {w \in DOMAIN seen : seen[w].sight.fixed}

Asserted(seen) == {w \in DOMAIN seen : seen[w].sight.auto}

\* Tiles that are gone or now float leave their trees.
DepartedTiles(seen) ==
    {w \in Tiled(world) : w \notin DOMAIN seen \/ w \in Shows(seen, "floating")}

\* Exceptions that no longer float; a fullscreen one is held with the opt-in.
Retiling(seen) ==
    {w \in DOMAIN world.exceptions \cap DOMAIN seen :
        /\ w \notin Shows(seen, "floating")
        /\ ~FixedAdmission \/ w \notin Shows(seen, "fullscreen")}

\* Of those, the fixed-size ones stay floating as automatic exceptions.
Reclassified(seen) ==
    {w \in Retiling(seen) :
        /\ FixedAdmission /\ w \in Fixed(seen) /\ w \notin Suppressed(seen)
        /\ \/ w \in world.automatic
           \/ w \notin world.override /\ w \notin Shows(seen, "sticky")}

Retiled(seen) == Retiling(seen) \ Reclassified(seen)

Fresh(seen) == DOMAIN seen \ Members(world)

FreshHeld(seen) ==
    {w \in Fresh(seen) : FixedAdmission /\ w \in Shows(seen, "fullscreen")
                         /\ w \notin Shows(seen, "sticky")}

FreshFixed(seen) ==
    {w \in Fresh(seen) :
        /\ FixedAdmission /\ w \in Fixed(seen) /\ w \notin Suppressed(seen)
        /\ seen[w].sight.flags \cap {"floating", "fullscreen", "sticky"} = {}
        /\ w \notin world.override}

FreshFloating(seen) ==
    (Fresh(seen) \cap Shows(seen, "floating")) \cup FreshHeld(seen) \cup FreshFixed(seen)

\* The windows an automatic mark is put on: reclassified, classified on
\* arrival, or asserted by the adapter without a tile win against it.
NewlyAutomatic(seen) ==
    Reclassified(seen) \cup FreshFixed(seen)
    \cup {w \in Asserted(seen) \cap Shows(seen, "floating") :
            /\ FixedAdmission
            /\ w \notin Suppressed(seen) /\ w \notin Shows(seen, "sticky")
            /\ w \notin world.override
            /\ w \in Fresh(seen) => w \notin Shows(seen, "fullscreen")}

\* The world before its admissions.
Adopted(seen) ==
    LET gone   == DepartedTiles(seen)
        tiles  == Tiled(world) \ gone
        floats == ((DOMAIN world.exceptions \cap DOMAIN seen) \ Retiled(seen))
                  \cup (gone \cap DOMAIN seen) \cup FreshFloating(seen)
        wins   == {w \in Retiled(seen) \cap Suppressed(seen) : FixedAdmission}
    IN  [world EXCEPT
            !.trees = [k \in Key |-> RemovedAll(@[k], gone)],
            !.windows = [w \in tiles |-> @[w]],
            !.exceptions = [w \in floats |->
                IF w \in DOMAIN @ THEN @[w]
                ELSE [home |-> seen[w].home, flags |-> {"floating"}]],
            !.automatic = ((@ \ Retiled(seen)) \cup NewlyAutomatic(seen))
                          \ Shows(seen, "sticky"),
            !.override = @ \cup wins]

\* Whoever has no place yet is tiled, in the order of the window ids; each
\* admission takes the focus the next one splits.
Converged(seen, axis) ==
    LET settled[i \in 0..LastWindow] ==
            IF i = 0 THEN Adopted(seen)
            ELSE LET v == settled[i - 1]
                 IN  IF i \in DOMAIN seen \ Members(v)
                     THEN LET tiled == TiledAt(v, i, seen[i].home, axis[i])
                          IN  IF FixedAdmission /\ seen[i].sight.suppress
                              THEN TileWins(tiled, i) ELSE tiled
                     ELSE v
    IN  settled[LastWindow]

Refocused(v, focus) ==
    [v EXCEPT !.focus =
        IF focus \cap Tiled(v) # {} THEN {At(v.windows[w], w) : w \in focus}
        ELSE IF Resolves(v, world.focus) THEN world.focus
        ELSE UNION {FocusIn(f.domain, Recent(v, f.domain)) : f \in world.focus}]

\* What a revision stands for: everything but focus and its memory.
SameContent(v, u) ==
    /\ v.trees = u.trees /\ v.windows = u.windows /\ v.exceptions = u.exceptions
    /\ v.automatic = u.automatic /\ v.override = u.override

HomesOf(w) == IF w \in Tiled(world) THEN {world.windows[w]}
              ELSE IF w \in DOMAIN world.exceptions THEN {world.exceptions[w].home}
              ELSE Known

\* A change takes the next revision, or is refused at the last one.
Converge(seen, focus, axis) ==
    /\ Idle /\ desired = {}
    /\ \A w \in DOMAIN seen : seen[w].home \in HomesOf(w)
    /\ LET next == Pruned(Refocused(Converged(seen, axis), focus))
       IN  /\ SameContent(next, world) \/ revision < MaxRevision
           /\ world' = Marked(next)
           /\ stack' = UpdatedStack(next)
           /\ revision' = IF SameContent(next, world) THEN revision ELSE revision + 1
    /\ UNCHANGED <<domains, pending, desired, drag, halted, orphaned>>

\* An observation bound to another owner, generation or revision.
ConvergeDiverges ==
    /\ Idle
    /\ Diverge
    /\ UNCHANGED <<domains, world, stack, revision, orphaned>>

-----------------------------------------------------------------------------
EmptyWorld ==
    [trees |-> [k \in Key |-> Empty], windows |-> <<>>, exceptions |-> <<>>,
     automatic |-> {}, override |-> {}, focus |-> {}, last |-> [k \in Key |-> {}]]

Init ==
    /\ domains \in InitialDomains
    /\ world = EmptyWorld
    /\ stack = [k \in Key |-> <<>>]
    /\ revision = 0
    /\ pending = {} /\ desired = {} /\ drag = {}
    /\ halted = FALSE /\ orphaned = FALSE

Lifecycle ==
    \E w \in Windows :
        \/ \E k \in Key, sight \in Sights, suppress \in BOOLEAN, axis \in AdmissionAxes :
               Admit(w, k, sight, suppress, axis)
        \/ Remove(w)
        \/ Float(w)
        \/ \E axis \in AdmissionAxes : Unfloated(w, axis)
        \/ ToggleOrientation(w)
        \/ \E k \in Key, follow \in BOOLEAN, axis \in AdmissionAxes : Send(w, k, follow, axis)

Directional ==
    \/ \E w \in Windows :
        \/ Move(w)
        \/ \E k \in Key, first \in BOOLEAN, axis \in Axes : MoveAcross(w, k, first, axis)
        \/ FocusOther(w) \/ Resize(w) \/ PointerResize(w)
    \/ \E k, target \in Key : FocusAcross(k, target)

Dragging == (\E w \in Windows : BeginDrag(w)) \/ DropDrag \/ CancelDrag

Delivery == Acknowledge \/ CancelUnacked \/ Verify \/ NoteLoss

Observation ==
    \/ \E S \in SUBSET Windows :
        \E seen \in [S -> [home : Known, sight : Sights]] :
        \E focus \in {{}} \cup {{w} : w \in S}, axis \in [S -> AdmissionAxes] :
            Converge(seen, focus, axis)
    \/ ConvergeDiverges

Unplanned ==
    \/ \E w \in Windows : SyncFocus(w)
    \/ \E source, target \in Key : Relocate(source, target)

Next == Lifecycle \/ Directional \/ Dragging \/ Delivery \/ Observation \/ Unplanned

Spec == Init /\ [][Next]_vars

-----------------------------------------------------------------------------
(* Properties.                                                             *)

TypedWorld(v) ==
    /\ DOMAIN v.trees \subseteq Key /\ v.trees \in [DOMAIN v.trees -> Trees]
    /\ Tiled(v) \subseteq Windows /\ v.windows \in [Tiled(v) -> Known]
    /\ DOMAIN v.exceptions \subseteq Windows
    /\ v.exceptions \in [DOMAIN v.exceptions -> Exceptions]
    /\ v.automatic \subseteq Windows /\ v.override \subseteq Windows
    /\ v.focus \subseteq Focus /\ Cardinality(v.focus) < 2
    /\ v.last \in [DOMAIN v.trees -> SUBSET Windows]
    /\ \A k \in DOMAIN v.last : Cardinality(v.last[k]) < 2

\* Type correctness of the whole session (session.rs, struct Session).
TypeOK ==
    /\ domains \in Seq(Key)
    /\ TypedWorld(world) /\ \A v \in desired : TypedWorld(v)
    /\ stack \in [DOMAIN world.trees -> Seq(Windows)]
    /\ revision \in 0..MaxRevision
    /\ \A p \in pending : p \in [kind : Kinds, acked : BOOLEAN]
    /\ halted \in BOOLEAN /\ orphaned \in BOOLEAN

\* validate_topology, which every operation relies on and re-checks: every
\* tree is well formed, leaves and links name each other, exceptions are
\* homed in known domains and disjoint from tiles, and focus resolves.
Topology(v) ==
    /\ \A k \in DOMAIN v.trees :
           WellFormed(v.trees[k]) /\ (v.trees[k] # Empty => k \in Known)
    /\ Tiled(v) \cap DOMAIN v.exceptions = {}
    /\ \A w \in DOMAIN v.exceptions : v.exceptions[w].home \in Known
    /\ \A w \in Tiled(v) : w \in v.trees[v.windows[w]].leaves
    /\ \A k \in DOMAIN v.trees :
           \A w \in v.trees[k].leaves : w \in Tiled(v) /\ v.windows[w] = k
    /\ Resolves(v, v.focus)

\* The focus history of a domain names each of its tiles at most once, only
\* tiles still there, and ends with the focused one: the fallback after the
\* focused window closes is the tile focused before it.
StackIsLive ==
    \A k \in DOMAIN stack :
        /\ \A i \in DOMAIN stack[k] : Holds(world, k, stack[k][i])
        /\ \A i, j \in DOMAIN stack[k] : stack[k][i] = stack[k][j] => i = j
        /\ \A f \in world.focus : f.domain = k =>
               stack[k] # <<>> /\ stack[k][Len(stack[k])] = f.leaf

\* The committed and the staged world both have a valid topology, after any
\* sequence of plans, observations, drags and relocations: the refusals as
\* MalformedTopology on the committed world can never happen.  The focus history
\* follows it.
TopologyHolds ==
    /\ TypeOK
    /\ Topology(world) /\ \A v \in desired : Topology(v)
    /\ StackIsLive

\* A world is staged exactly while a plan is out; divergence leaves neither a
\* plan nor a drag behind; a drag and a plan never coexist, so the DragActive
\* refusal of cancel_unacked_pending is unreachable as its comment says.
StagedExactlyWithPlan ==
    /\ desired = {} <=> pending = {}
    /\ Cardinality(pending) < 2 /\ Cardinality(desired) < 2 /\ Cardinality(drag) < 2
    /\ halted => pending = {} /\ drag = {}
    /\ drag # {} => pending = {}

\* Plans and drags exclude each other, and while a drag is held its capture is
\* the live session and its source keeps the focus, so the drop never meets a
\* stale capture (drag_capture_stale).
DragStaysCurrent ==
    /\ StagedExactlyWithPlan
    /\ \A c \in drag : ~StaleCapture(c) /\ Focused(c.source)

\* The fixed-size bookkeeping names live members only when no plan is out
\* ("Cleared when the window leaves membership"), so a reused window id
\* classifies again.
MarksFollowMembership ==
    pending = {} /\ ~halted => world.automatic \cup world.override \subseteq Members(world)

\* Until an unfloat plan is cancelled, marks follow membership, and a window the
\* classifier floated is no tile and no tile win, in the world and in what is
\* staged.
MarksHold ==
    ~orphaned =>
        /\ MarksFollowMembership
        /\ \A v \in {world} \cup desired :
            /\ v.automatic \cap v.override = {}
            /\ v.automatic \cap Tiled(v) = {}

Shape(t, leaves) ==
    LET rest == RemovedAll(t, t.leaves \ leaves)
    IN  <<rest.before, {g.members : g \in rest.groups}>>

\* The window a settling move or drag was about: it keeps the focus.
Mover == {f.leaf : f \in {f \in world'.focus :
              \E p \in pending : p.kind \in {"move", "drag"}}}

\* What the tiles of a domain have left in common before and after a step, apart
\* from a moved one, has the same order and the same grouping.
SurvivorsStay ==
    \A k \in DOMAIN world.trees :
        LET common == (world.trees[k].leaves \cap world'.trees[k].leaves) \ Mover
        IN  Shape(world.trees[k], common) = Shape(world'.trees[k], common)

\* No step, of whichever operation, disturbs the arrangement of the windows it is
\* not about.
SurvivorsKeepTheirPlaces == [][SurvivorsStay]_vars

-----------------------------------------------------------------------------
(* Refinement of the abstract store.  A domain is known by its place in    *)
(* the sequence, so that moving it to another output changes nothing.      *)

SlotOf(k) == CHOOSE i \in DOMAIN domains : domains[i] = k

Content(v) ==
    [trees |-> [i \in DOMAIN domains |-> v.trees[domains[i]]],
     tiled |-> [w \in Tiled(v) |-> SlotOf(v.windows[w])],
     floating |-> [w \in DOMAIN v.exceptions |->
                      <<SlotOf(v.exceptions[w].home), v.exceptions[w].flags>>],
     automatic |-> v.automatic, override |-> v.override]

Store == INSTANCE StagedStore WITH
    LastVersion <- MaxRevision,
    version <- revision,
    state <- Content(world),
    staged <- {Content(Pruned(v)) : v \in desired},
    accepted <- \E p \in pending : p.acked,
    closed <- halted

\* The step that stages an unfloat plan gives up the record of the float at once:
\* the one step that changes what is committed before its plan is verified.
StagesUnfloat ==
    /\ pending = {} /\ \E p \in pending' : p.kind = "unfloat"
    /\ revision' = revision /\ halted' = halted
    /\ \E w \in DOMAIN world.exceptions :
           Content(world)' = [Content(world) EXCEPT !.floating = Without(@, w)]

\* The session is a staged store: whatever the operation, its world becomes
\* visible at verification or never, and every change takes one revision.
ImplementsStagedStore ==
    Store!StoreInit /\ [][StagesUnfloat \/ [Store!StoreNext]_(Store!storeVars)]_vars
=============================================================================
