------------------------------- MODULE Engine -------------------------------
(***************************************************************************)
(* The engine (crates/tiler-core/src/engine.rs): one committed session per *)
(* (output, workspace) domain, and the requests that create, converge,     *)
(* relocate, pair, split and retire them.                                  *)
(*                                                                         *)
(* A session appears by what the engine looks at: its domain's rectangle   *)
(* and gap, the windows it tiles and floats, its focus with the windows    *)
(* remembered for a lost focus.  Requests are handled one at a time and a  *)
(* plan is acknowledged in the request that proposed it, so a stored       *)
(* session is at rest: nothing pending, no drag, not diverged.  How a plan *)
(* arranges a tree is module Session's business: here a proposal is the    *)
(* membership and focus it leads to, and it may always be refused.  The    *)
(* opt-in for fixed-size windows is on and no window has a fixed size, so  *)
(* convergence adopts the observed membership as it is.                    *)
(*                                                                         *)
(* Requests carry snapshots of the desktop, which changes between them; a  *)
(* request may come from a restarted client (another owner or generation). *)
(***************************************************************************)
EXTENDS Naturals, FiniteSets

CONSTANTS
    Windows,
    Domains,     \* the domain keys in use
    Clients,     \* owner and generation bindings of the requests
    Areas,       \* the rectangle and inner gap a request may carry
    OuterGaps,   \* the outer gap a request may carry
    Looks,       \* how a window may be seen: [floating, sticky]
    Ops,         \* the request kinds that are sent
    Fallible     \* whether proposals, projections and commits may fail for
                 \* reasons this module leaves out

Key == [output : STRING, workspace : STRING]
Area == [bounds : Nat, gap : Nat]
Look == [floating : BOOLEAN, sticky : BOOLEAN]

\* What every instance assumes of the constants.
Assumption == Domains \subseteq Key /\ Areas \subseteq Area /\ Looks \subseteq Look

VARIABLES
    sessions,    \* the retained sessions, by domain
    outer_gaps,  \* the outer gap each of them was planned with
    binding,     \* the owner and generation they belong to
    desk,        \* the desktop: where each open window is and how it looks
    reply        \* history: the last answer

engineVars == <<sessions, outer_gaps, binding, desk, reply>>

-----------------------------------------------------------------------------
(* Worlds: the members of one session, or of two while they are paired.    *)

Only(f, S) == [x \in DOMAIN f \cap S |-> f[x]]
Union(f, g) == [x \in DOMAIN f \cup DOMAIN g |-> IF x \in DOMAIN f THEN f[x] ELSE g[x]]
Homed(f, k) == {x \in DOMAIN f : f[x] = k}

Members(v) == DOMAIN v.tiles \cup DOMAIN v.floats
EmptyWorld == [tiles |-> <<>>, floats |-> <<>>, recent |-> {}, focus |-> {}]

OneOf(S) == IF S = {} THEN {{}} ELSE {{w} : w \in S}

Focusing(v, w) == [v EXCEPT !.focus = {w}, !.recent = @ \cup {w}]

\* sync_focus_from_window: the observed focus, when it is a tile of k.
Synced(v, k, focus) ==
    IF focus \cap Homed(v.tiles, k) = {} THEN v
    ELSE [v EXCEPT !.focus = focus, !.recent = @ \cup focus]

\* The possible focuses after convergence: the observed one, the retained one,
\* or the window of its domain focused before it.
FocusAfter(v, tiles, focus) ==
    IF focus \cap DOMAIN tiles # {} THEN {focus}
    ELSE IF v.focus \subseteq DOMAIN tiles THEN {v.focus}
    ELSE OneOf({w \in v.recent \cap DOMAIN tiles : \A f \in v.focus : tiles[w] = v.tiles[f]})

\* converge_observation: the membership becomes the observed one.  It refuses
\* a member seen in another domain.
Convergences(v, seen, focus) ==
    LET tiles  == [w \in {w \in DOMAIN seen : ~seen[w].floating} |-> seen[w].home]
        floats == [w \in DOMAIN seen \ DOMAIN tiles |-> seen[w].home]
        home   == Union(v.tiles, v.floats)
    IN  IF \E w \in Members(v) \cap DOMAIN seen : home[w] # seen[w].home THEN {}
        ELSE {[tiles |-> tiles, floats |-> floats, focus |-> f,
               recent |-> (v.recent \cap DOMAIN tiles) \cup f] :
                  f \in FocusAfter(v, tiles, focus)}

\* observed_known_match: every member is seen where and as it is retained.
Covers(v, seen) ==
    /\ \A w \in DOMAIN v.tiles :
           w \in DOMAIN seen /\ seen[w].home = v.tiles[w] /\ ~seen[w].floating
    /\ \A w \in DOMAIN v.floats :
           w \in DOMAIN seen /\ seen[w].home = v.floats[w] /\ seen[w].floating

Pair(source, target) ==
    [tiles |-> Union(source.tiles, target.tiles),
     floats |-> Union(source.floats, target.floats),
     recent |-> source.recent \cup target.recent,
     focus |-> IF source.focus # {} THEN source.focus ELSE target.focus]

\* split_canonical_pair: the half of the pair in k; a half without the focus
\* takes the window it remembers.
Halves(v, k) ==
    LET tiles  == Only(v.tiles, Homed(v.tiles, k))
        recent == v.recent \cap DOMAIN tiles
    IN  {[tiles |-> tiles, floats |-> Only(v.floats, Homed(v.floats, k)),
          recent |-> recent, focus |-> f] :
            f \in IF v.focus \cap DOMAIN tiles # {} THEN {v.focus} ELSE OneOf(recent)}

\* relocate_domain: everything homed in one domain is homed in another.
Rehomed(v, target) ==
    [v EXCEPT !.tiles = [w \in DOMAIN @ |-> target],
              !.floats = [w \in DOMAIN @ |-> target]]

-----------------------------------------------------------------------------
(* The map of sessions.  An engine is a record, so that a request can work *)
(* on a copy and give it up.                                               *)

Slot(ev, area, world) == [client |-> ev.client, area |-> area, world |-> world]

Without(f, k) == [x \in DOMAIN f \ {k} |-> f[x]]
With(f, k, e) == [x \in DOMAIN f \cup {k} |-> IF x = k THEN e ELSE f[x]]

Dropped(e, k) == [e EXCEPT !.slots = Without(@, k), !.gaps = Without(@, k)]

\* store_committed: an empty session is not retained.
Stored(e, k, slot, outer) ==
    IF Members(slot.world) = {} THEN Dropped(e, k)
    ELSE [e EXCEPT !.slots = With(@, k, slot), !.gaps = With(@, k, outer)]

Has(e, k) == k \in DOMAIN e.slots

\* session_usable, session_domain_matches and not empty.
Serves(e, k, area) ==
    /\ Has(e, k) /\ e.slots[k].area = area
    /\ Members(e.slots[k].world) # {}

\* find_unique_source_for_target: the session displaced from another output.
Displaced(e, k) ==
    LET others == {s \in DOMAIN e.slots : s.workspace = k.workspace /\ s.output # k.output}
    IN  IF Cardinality(others) = 1 THEN others ELSE {}

\* try_relocate_for_target, when it succeeds.
Relocatable(e, k) ==
    {s \in Displaced(e, k) :
        ~Has(e, k) /\ Members(e.slots[s].world) # {}}

Relocated(e, s, ev) ==
    LET moved == [e.slots[s] EXCEPT !.area = ev.area, !.world = Rehomed(@, ev.key)]
    IN  [slots |-> With(Without(e.slots, s), ev.key, moved),
         gaps |-> With(Without(e.gaps, s), ev.key, ev.outer)]

\* An answer: what it leaves of the engine, and a plan's geometry: the tiles it
\* places in each domain, and the area it places them in.
Answer(e, kind, plan) == [engine |-> e, reply |-> [kind |-> kind, plan |-> plan]]
Refused(e) == Answer(e, "refused", <<>>)
Planned(e, plan) == Answer(e, "plan", plan)
Placing(k, area, v) == [x \in {k} |-> [tiles |-> Homed(v.tiles, k), area |-> area]]
Nothing == <<>>

\* A proposal that leads somewhere may still be refused.
Refusals(e, next) == IF Fallible \/ next = {} THEN {Refused(e)} ELSE {}

-----------------------------------------------------------------------------
(* One session, one request.  A request names its domain, its area and     *)
(* outer gap, the windows seen there (and in the other domain of a pair),  *)
(* the focused window and the window the command is about.                 *)

\* A tile leaves or turns into a float: a lost focus falls back.
Unfocused(v, w) == {[v EXCEPT !.focus = f, !.recent = @ \ {w}] :
                       f \in IF v.focus = {w} THEN OneOf(v.recent \ {w}) ELSE {v.focus}}

\* A tile of k turns into a float; a window is tiled in k, be it new or a float.
Floated(v, w, k) ==
    Unfocused([v EXCEPT !.tiles = Without(@, w), !.floats = With(@, w, k)], w)
Tiled(v, w, k) ==
    Focusing([v EXCEPT !.tiles = With(@, w, k), !.floats = Without(@, w)], w)

\* The windows a session must know before it plans: all in sight, but for the
\* one that is being admitted.
Known(ev) == DOMAIN ev.seen \ (IF ev.op = "reconcile" THEN {ev.subject} ELSE {})

Exact(ev, v) == Covers(v, ev.seen) /\ Members(v) = Known(ev)

\* A mutant: a session that does not fit the observation is kept.
NeverRebuilt(ev, v) == FALSE

\* engine_needs_rebuild: the refusal is that the observation is not exact.
NeedsRebuild(ev, v) ==
    /\ ~Exact(ev, v)
    /\ ev.op = "reconcile" => ev.subject \notin Members(v)
    /\ ev.op = "float" => \/ ev.subject \in DOMAIN v.floats
                          \/ ev.subject \in DOMAIN v.tiles /\ ~ev.seen[ev.subject].floating

\* What a session can propose for a command within one domain, by where it
\* leads.
Proposals(ev, v) ==
    LET w == ev.subject
        u == Synced(v, ev.key, ev.focus)
    IN  IF ~Exact(ev, v) THEN {}
        ELSE CASE ev.op = "reconcile" -> {Tiled(v, w, ev.key)}
               [] ev.op = "float" /\ w \in DOMAIN v.tiles -> Floated(v, w, ev.key)
               [] ev.op = "float" /\ w \in DOMAIN v.floats -> {Tiled(v, w, ev.key)}
               [] ev.op \in {"move", "resize", "orient"} -> IF u.focus = {w} THEN {u} ELSE {}
               [] ev.op = "focus" ->
                    {Focusing(u, x) : x \in IF u.focus = {w} THEN DOMAIN v.tiles \ {w} ELSE {}}
               [] OTHER -> {}

\* converge_for_single_domain on the stored session; it may be refused.
ConvergedEngines(e, ev) ==
    IF ~Has(e, ev.key) THEN {e}
    ELSE IF e.slots[ev.key].client # ev.client THEN {}
    ELSE {[e EXCEPT !.slots[ev.key].world = v] :
             v \in Convergences(e.slots[ev.key].world, ev.seen, ev.focus)}

\* converge_fresh_floating: a session adopted from the observation alone.
Fresh(e, ev) == {Stored(e, ev.key, Slot(ev, ev.area, v), ev.outer) :
                    v \in Convergences(EmptyWorld, ev.seen, ev.focus)}

\* seed_session: everything observed is tiled, the focused window last.
Seeded(ev, S) ==
    {[tiles |-> [w \in S |-> ev.key], floats |-> <<>>, recent |-> S, focus |-> f] :
        f \in IF ev.focus \cap S # {} THEN {ev.focus} ELSE OneOf(S)}

\* The session is rebuilt from the observation, unless it was converged: then
\* it is kept and the command refused.
Reseed(e, ev, converged) ==
    LET next == IF converged THEN {} ELSE UNION {Proposals(ev, u) : u \in Seeded(ev, Known(ev))}
    IN  Refusals(e, next) \cup
        {Planned(Stored(e, ev.key, Slot(ev, ev.area, v), ev.outer),
                 Placing(ev.key, ev.area, v)) : v \in next}

\* Propose on the retained session and commit.  A commit that fails retires
\* the session when it was there, and is undone when it was relocated.
Proposed(e, ev, backup, converged) ==
    LET slot == e.slots[ev.key]
        next == Proposals(ev, slot.world)
    IN  IF NeedsRebuild(ev, slot.world) /\ ~converged
        THEN Reseed(IF backup = e THEN Dropped(e, ev.key) ELSE backup, ev, FALSE)
        ELSE Refusals(backup, next)
             \cup {Planned(Stored(e, ev.key, [slot EXCEPT !.world = v], ev.outer),
                           Placing(ev.key, ev.area, v)) : v \in next}
             \cup (IF next # {} /\ Fallible /\ backup = e
                   THEN {Refused(Dropped(e, ev.key))} ELSE {})

\* run_retained.  A converged session that cannot serve is left alone.
RunRetained(e, ev, converged) ==
    IF Serves(e, ev.key, ev.area) THEN Proposed(e, ev, e, converged)
    ELSE IF Has(e, ev.key)
         THEN Reseed(IF converged THEN e ELSE Dropped(e, ev.key), ev, converged)
    ELSE IF Relocatable(e, ev.key) = {} THEN Reseed(e, ev, converged)
    ELSE UNION {Proposed(Relocated(e, s, ev), ev, e, converged) : s \in Relocatable(e, ev.key)}

-----------------------------------------------------------------------------
(* Requests.                                                               *)

\* fresh_admit_shared, for the first tile to admit.  The observed rectangles are
\* fitted when nothing floats, if they can be cut;
Fitted(ev) ==
    IF /\ ev.focus = {ev.subject} /\ Cardinality(DOMAIN ev.seen) > 1
       /\ \A w \in DOMAIN ev.seen : ~ev.seen[w].floating
    THEN {[tiles |-> [w \in DOMAIN ev.seen |-> ev.key], floats |-> <<>>,
           recent |-> {ev.subject}, focus |-> {ev.subject}]}
    ELSE {}

\* floats found in a domain nobody was displaced from are adopted first;
Adopted(e, ev) ==
    IF Displaced(e, ev.key) = {} /\ \E w \in DOMAIN ev.seen : ev.seen[w].floating
    THEN Fresh(e, ev) ELSE {}

\* else one admission after another.
FreshAdmit(e, ev) ==
    LET focused(a) == Synced(a.slots[ev.key].world, ev.key, {ev.subject})
    IN  {Planned(Stored(e, ev.key, Slot(ev, ev.area, v), ev.outer), Placing(ev.key, ev.area, v)) :
            v \in Fitted(ev)}
        \cup {Planned([a EXCEPT !.slots[ev.key].world = focused(a)],
                      Placing(ev.key, ev.area, focused(a))) : a \in Adopted(e, ev)}
        \cup (IF Adopted(e, ev) = {} THEN RunRetained(e, ev, FALSE)
              ELSE IF Fallible THEN UNION {RunRetained(a, ev, TRUE) : a \in Adopted(e, ev)}
              ELSE {})

\* fresh_reconcile_request: nothing to adopt, floats only, or a first tile,
\* the focused one if there is one.
FreshReconcile(e, ev) ==
    LET tiled   == {w \in DOMAIN ev.seen : ~ev.seen[w].floating}
        anchors == IF ev.focus \cap tiled # {} THEN ev.focus ELSE tiled
    IN  IF DOMAIN ev.seen = {} THEN {Planned(e, Nothing)}
        ELSE IF tiled = {} THEN {Planned(a, Nothing) : a \in Fresh(e, ev)}
        ELSE UNION {FreshAdmit(e, [ev EXCEPT !.subject = w]) : w \in anchors}

\* A mutant: relocation does not ask for the whole membership.
CompleteAnyway(slot, ev) == TRUE

\* The displaced session is taken only when all its members are observed here.
Complete(slot, ev) == Members(slot.world) = DOMAIN ev.seen

\* A mutant: a changed rectangle is planned in but not kept.
ReprojectedNot(e, ev) == e

\* reproject_retained: the session keeps the rectangle it was planned in.
Reprojected(e, ev) == [e EXCEPT !.slots[ev.key].area = ev.area]

\* reconcile_request on a domain with a session, relocated here or not; every
\* refusal gives back what was there before.
Projected(e, ev, backup) ==
    LET slot == e.slots[ev.key]
        v    == slot.world
    IN  IF \/ slot.area.gap # ev.area.gap
           \/ e.gaps[ev.key] # ev.outer
           \/ e # backup /\ ~Complete(slot, ev)
        THEN {Refused(backup)}
        ELSE IF DOMAIN v.tiles = {}
        THEN {Planned(IF Members(v) = {} THEN Dropped(e, ev.key) ELSE Reprojected(e, ev), Nothing)}
        ELSE IF v.focus = {} THEN {Refused(backup)}
        ELSE {Planned(Reprojected(e, ev), Placing(ev.key, ev.area, v))}
             \cup Refusals(backup, {e})

Reconciled(e, ev) ==
    LET sources == {s \in Relocatable(e, ev.key) :
                       /\ e.gaps[s] = ev.outer
                       /\ Members(e.slots[s].world) \cap DOMAIN ev.seen # {}}
    IN  IF Has(e, ev.key) THEN Projected(e, ev, e)
        ELSE IF sources = {} THEN FreshReconcile(e, ev)
        ELSE UNION {Projected(Relocated(e, s, ev), ev, e) : s \in sources}

\* handle: a session none of whose members is observed is given up first.
Reconcile(e, ev) ==
    LET k        == ev.key
        disjoint == /\ Has(e, k) /\ e.slots[k].client = ev.client /\ DOMAIN ev.seen # {}
                    /\ Members(e.slots[k].world) \cap DOMAIN ev.seen = {}
        start    == IF disjoint THEN Dropped(e, k) ELSE e
    IN  Refusals(start, ConvergedEngines(start, ev))
        \cup UNION {Reconciled(c, ev) : c \in ConvergedEngines(start, ev)}

\* update_gaps_request: the session takes the new gaps and rectangle.
GapsUpdated(e, ev) ==
    LET slot == e.slots[ev.key]
        next == Stored(e, ev.key, [slot EXCEPT !.area = ev.area], ev.outer)
    IN  IF ~Has(e, ev.key) THEN {Refused(e)}
        ELSE IF DOMAIN slot.world.tiles = {}
        THEN {Planned(next, Nothing)}
        ELSE IF slot.world.focus = {} THEN {Refused(e)}
        ELSE {Planned(next, Placing(ev.key, ev.area, slot.world))} \cup Refusals(e, {next})

UpdateGaps(e, ev) ==
    Refusals(e, ConvergedEngines(e, ev))
    \cup UNION {GapsUpdated(c, ev) : c \in ConvergedEngines(e, ev)}

\* Commands within one domain: converge, then run on the retained session.
Converging(e, ev) ==
    Refusals(e, ConvergedEngines(e, ev))
    \cup UNION {RunRetained(c, ev, Has(e, ev.key)) : c \in ConvergedEngines(e, ev)}

\* A float toggled in a domain without a session adopts the floats first.
ToggleFloat(e, ev) ==
    IF ~Has(e, ev.key) /\ Adopted(e, ev) # {}
    THEN Refusals(e, {e})
         \cup UNION {RunRetained(a, ev, Has(a, ev.key)) : a \in Adopted(e, ev)}
    ELSE Converging(e, ev)

ToggleOrientation(e, ev) == Converging(e, ev)
LocalMove(e, ev) == Converging(e, ev)
LocalFocus(e, ev) == Converging(e, ev)
Resize(e, ev) == Converging(e, ev)
PointerResize(e, ev) == Converging(e, ev)

\* active_group_request: only the focus of a session planned in this area.
ActiveGroup(e, ev) ==
    {Answer(IF Has(e, ev.key) /\ e.slots[ev.key].area = ev.area
            THEN [e EXCEPT !.slots[ev.key].world = Synced(@, ev.key, ev.focus)]
            ELSE e, "group", Nothing)}

Release(e, ev) == {Answer(Dropped(e, ev.key), "released", Nothing)}

\* drag_working: the retained session planned in this very scope, or a fresh
\* one for a domain without.
Working(e, ev) ==
    IF ~Has(e, ev.key)
    THEN {Synced(v, ev.key, {ev.subject}) : v \in Convergences(EmptyWorld, ev.seen, ev.focus)}
    ELSE IF /\ e.slots[ev.key].area = ev.area /\ e.gaps[ev.key] = ev.outer
         THEN {Synced(e.slots[ev.key].world, ev.key, ev.focus)}
    ELSE {}

\* The drop commits where the pointer left it, or snaps back: a window alone
\* in a domain it was carried to from another output stays.
Drop(e, ev) ==
    LET held == {v \in Working(e, ev) : v.focus = {ev.subject} /\ Exact(ev, v)}
    IN  {Planned(Stored(e, ev.key, Slot(ev, ev.area, v), ev.outer),
                 Placing(ev.key, ev.area, v)) :
            v \in {v \in held : ~Has(e, ev.key) \/ Cardinality(DOMAIN v.tiles) > 1}}
        \cup {Planned(e, Placing(ev.key, ev.area, v)) :
                v \in {v \in held : Has(e, ev.key) /\ DOMAIN v.tiles = {ev.subject}}}
        \cup (IF Fallible /\ held # {} THEN {Refused(Dropped(e, ev.key))} ELSE {})
        \cup {Refused(e)}

DragDrop(e, ev) ==
    Refusals(e, ConvergedEngines(e, ev)) \cup UNION {Drop(c, ev) : c \in ConvergedEngines(e, ev)}

\* A preview works on a copy.
DragPreview(e, ev) == {Answer(e, "preview", Nothing), Refused(e)}

-----------------------------------------------------------------------------
(* Requests over two domains: the sessions are joined, converged, stored,  *)
(* planned on, and stored again.  The other domain is ev.other.            *)

\* assemble_directional_pair: both sessions as the domains are now, with no
\* window known to both.
Assembled(e, ev, joins) ==
    LET source == e.slots[ev.key]
        target == IF joins /\ Has(e, ev.other) THEN e.slots[ev.other].world ELSE EmptyWorld
    IN  IF /\ Serves(e, ev.key, ev.area)
           /\ joins /\ Has(e, ev.other) =>
                  /\ Serves(e, ev.other, ev.area)
                  /\ e.slots[ev.other].client = source.client
           /\ Members(source.world) \cap Members(target) = {}
           /\ source.client = ev.client
        THEN {Pair(source.world, target)} ELSE {}

\* A mutant: the other half is not stored with the first.
StoredSourceOnly(e, ev, v, outer) ==
    {Stored(e, ev.key, Slot(ev, ev.area, source), ev.outer) : source \in Halves(v, ev.key)}

StoredHalves(e, ev, v, outer) ==
    {Stored(Stored(e, ev.key, Slot(ev, ev.area, source), ev.outer),
            ev.other, Slot(ev, ev.area, target), outer) :
        source \in Halves(v, ev.key), target \in Halves(v, ev.other)}

\* store_canonical_pair: the other half keeps its retained gap.
StoredPair(e, ev, v) ==
    StoredHalves(e, ev, v, IF ev.other \in DOMAIN e.gaps THEN e.gaps[ev.other] ELSE ev.outer)

\* A crossing move gives the target the gap it was requested with.
StoredPlan(e, ev, v) ==
    IF ev.op = "move" /\ ev.subject \in Homed(v.tiles, ev.other)
    THEN StoredHalves(e, ev, v, ev.outer) ELSE StoredPair(e, ev, v)

\* What a pair can propose: a move within the source or over the edge,
MovesOver(ev, v) ==
    IF v.focus # {ev.subject} THEN {}
    ELSE {v, Focusing([v EXCEPT !.tiles[ev.subject] = ev.other], ev.subject)}

\* a focus within it or over the edge,
FocusesOver(ev, v) == {Focusing(v, x) : x \in DOMAIN v.tiles \ {ev.subject}}

\* a window sent there, followed or not.
Sends(ev, v) ==
    LET over == [v EXCEPT !.tiles[ev.subject] = ev.other]
    IN  IF v.focus # {ev.subject} THEN {}
        ELSE {Focusing(over, ev.subject)}
             \cup Unfocused([over EXCEPT !.recent = @ \ Homed(v.tiles, ev.other)], ev.subject)

Crossings(ev, v) ==
    CASE ev.op = "move" -> MovesOver(ev, v)
      [] ev.op = "focus" -> FocusesOver(ev, v)
      [] OTHER -> Sends(ev, v)

PlacingPair(ev, v) ==
    [k \in {ev.key, ev.other} |-> [tiles |-> Homed(v.tiles, k), area |-> ev.area]]

RefusedCrossing(e, ev) == {Refused(e)}

\* After convergence the pair is stored whatever becomes of the proposal.
Crossed(e, ev, v) ==
    LET synced == Synced(v, ev.key, ev.focus)
        plans  == IF \/ ev.subject \in Homed(synced.tiles, ev.key)
                     \/ ev.op = "focus" /\ ev.subject \in Homed(synced.floats, ev.key)
                  THEN Crossings(ev, synced) ELSE {}
    IN  (UNION {RefusedCrossing(c, ev) : c \in StoredPair(e, ev, v)})
        \cup UNION {UNION {{Planned(d, PlacingPair(ev, p)) : d \in StoredPlan(c, ev, p)} :
                               p \in plans} : c \in StoredPair(e, ev, v)}

OverPair(e, ev, joins) ==
    {Refused(e)} \cup
    UNION {UNION {Crossed(e, ev, v) : v \in Convergences(pair, ev.seen, ev.focus)} :
              pair \in Assembled(e, ev, joins)}

\* transfer_request: a domain without a session is adopted first; the target's
\* session takes part when windows are seen there.
Sourced(e, ev, here) ==
    IF Has(e, ev.key) THEN {e} ELSE Fresh(e, [ev EXCEPT !.seen = Only(@, here)])

Transfer(e, ev) ==
    LET here  == {w \in DOMAIN ev.seen : ev.seen[w].home = ev.key}
        there == DOMAIN ev.seen \ here
    IN  IF ev.focus # {ev.subject} THEN {Refused(e)}
        ELSE UNION {OverPair(c, ev, there # {}) : c \in Sourced(e, ev, here)}

\* What shows on every workspace stays behind.
Staying(slot, ev, sticky) ==
    IF sticky = {} THEN {EmptyWorld}
    ELSE Convergences(slot.world, Only(ev.seen, sticky), ev.focus \cap sticky)

Moving(slot, ev, sticky) ==
    {Rehomed(v, ev.other) :
        v \in Convergences(slot.world, Only(ev.seen, DOMAIN ev.seen \ sticky), ev.focus \ sticky)}

\* The whole of the session is observed here, in the scope it was planned in.
Migratable(e, ev) ==
    /\ \A w \in DOMAIN ev.seen : ev.seen[w].home = ev.key
    /\ ~Has(e, ev.other)
    /\ Has(e, ev.key) =>
          /\ e.slots[ev.key].client = ev.client
          /\ e.slots[ev.key].area = ev.area /\ e.gaps[ev.key] = ev.outer
          /\ Members(e.slots[ev.key].world) \subseteq DOMAIN ev.seen
    /\ ~Has(e, ev.key) => DOMAIN ev.seen = {}

\* Both halves are stored under the request's outer gap.
Migrated(e, ev, moved, stay) ==
    LET slot == e.slots[ev.key]
    IN  Stored(Stored(e, ev.key, [slot EXCEPT !.world = stay], ev.outer),
               ev.other, [slot EXCEPT !.world = moved, !.area = ev.area], ev.outer)

\* migrate_workspace_request: the workspace changes output.
Migrate(e, ev) ==
    LET slot   == e.slots[ev.key]
        sticky == {w \in DOMAIN ev.seen : ev.seen[w].sticky}
    IN  IF ~Migratable(e, ev) THEN {Refused(e)}
        ELSE IF ~Has(e, ev.key) THEN {Planned(e, Nothing)}
        ELSE {Planned(Migrated(e, ev, moved, stay), Placing(ev.other, ev.area, moved)) :
                 moved \in Moving(slot, ev, sticky), stay \in Staying(slot, ev, sticky)}
             \cup Refusals(e, Moving(slot, ev, sticky))

-----------------------------------------------------------------------------
(* Requests reach the engine one at a time.                                *)

Here(k) == {w \in DOMAIN desk : desk[w].home = k}

Current == [slots |-> sessions, gaps |-> outer_gaps]

\* sync_binding: another owner or generation starts from nothing.
Bound(client) ==
    IF client = binding THEN Current ELSE [slots |-> <<>>, gaps |-> <<>>]

\* A request of a client: a snapshot of the named domains, the focus in the
\* first of them, and the window the command is about.
Event(op, client, k, o, area, outer, focus, w) ==
    [op |-> op, client |-> client, key |-> k, other |-> o, area |-> area,
     outer |-> outer, focus |-> focus, subject |-> w,
     seen |-> Only(desk, Here(k) \cup Here(o))]

Handle(ev, answers, client) ==
    /\ ev.op \in Ops
    /\ \E a \in answers :
          /\ sessions' = a.engine.slots
          /\ outer_gaps' = a.engine.gaps
          /\ reply' = [op |-> ev.op, key |-> ev.key, other |-> ev.other,
                       kind |-> a.reply.kind, plan |-> a.reply.plan]
    /\ binding' = client
    /\ UNCHANGED desk

Focuses(k) == {{}} \cup {{w} : w \in Here(k)}

ReconcileRequest(c, k, a, g) ==
    \E f \in Focuses(k) :
        LET ev == Event("reconcile", c, k, k, a, g, f, "none")
        IN  Handle(ev, Reconcile(Bound(c), ev), c)

UpdateGapsRequest(c, k, a, g) ==
    \E f \in Focuses(k) :
        LET ev == Event("gaps", c, k, k, a, g, f, "none")
        IN  Handle(ev, UpdateGaps(Bound(c), ev), c)

WithinRequest(op, handler(_, _), c, k, a, g) ==
    \E f \in Focuses(k), w \in Here(k) :
        LET ev == Event(op, c, k, k, a, g, f, w)
        IN  Handle(ev, handler(Bound(c), ev), c)

FloatRequest(c, k, a, g) == WithinRequest("float", ToggleFloat, c, k, a, g)
OrientationRequest(c, k, a, g) == WithinRequest("orient", ToggleOrientation, c, k, a, g)
LocalMoveRequest(c, k, a, g) == WithinRequest("move", LocalMove, c, k, a, g)
LocalFocusRequest(c, k, a, g) == WithinRequest("focus", LocalFocus, c, k, a, g)
ResizeRequest(c, k, a, g) == WithinRequest("resize", Resize, c, k, a, g)
PointerResizeRequest(c, k, a, g) == WithinRequest("resize", PointerResize, c, k, a, g)

DragRequest(c, k, a, g) ==
    \E f \in Focuses(k), w \in Here(k) :
        LET ev == Event("drag", c, k, k, a, g, f, w)
        IN  \/ Handle(ev, DragDrop(Bound(c), ev), c)
            \/ Handle(ev, DragPreview(Bound(c), ev), c)

ActiveGroupRequest(c, k, a, g) ==
    \E f \in Focuses(k) :
        LET ev == Event("group", c, k, k, a, g, f, "none")
        IN  Handle(ev, ActiveGroup(Bound(c), ev), c)

ReleaseRequest(c, k, a, g) ==
    LET ev == Event("release", c, k, k, a, g, {}, "none")
    IN  Handle(ev, Release(Bound(c), ev), c)

\* Over an edge to another output.
OverRequest(op, c, k, a, g) ==
    \E o \in Domains, f \in Focuses(k), w \in Here(k) :
        LET ev == Event(op, c, k, o, a, g, f, w)
        IN  /\ o.output # k.output
            /\ Handle(ev, OverPair(Bound(c), ev, TRUE), c)

MoveOverRequest(c, k, a, g) == OverRequest("move", c, k, a, g)
FocusOverRequest(c, k, a, g) == OverRequest("focus", c, k, a, g)

\* To a workspace or an output.  These requests are not bound first: a new
\* client's transfer meets the sessions of the one before.
TransferRequest(c, k, a, g) ==
    \E o \in Domains, f \in Focuses(k), w \in Here(k) :
        LET ev == Event("send", c, k, o, a, g, f, w)
        IN  /\ o # k
            /\ Handle(ev, Transfer(Current, ev), binding)

MigrateRequest(c, k, a, g) ==
    \E o \in Domains, f \in Focuses(k) :
        LET ev == Event("migrate", c, k, o, a, g, f, "none")
        IN  /\ o.workspace = k.workspace /\ o.output # k.output
            /\ Handle(ev, Migrate(Current, ev), binding)

Request(c, k, a, g) ==
    \/ ReconcileRequest(c, k, a, g) \/ UpdateGapsRequest(c, k, a, g)
    \/ FloatRequest(c, k, a, g) \/ OrientationRequest(c, k, a, g)
    \/ LocalMoveRequest(c, k, a, g) \/ LocalFocusRequest(c, k, a, g)
    \/ ResizeRequest(c, k, a, g) \/ PointerResizeRequest(c, k, a, g)
    \/ DragRequest(c, k, a, g)
    \/ ActiveGroupRequest(c, k, a, g) \/ ReleaseRequest(c, k, a, g)
    \/ MoveOverRequest(c, k, a, g) \/ FocusOverRequest(c, k, a, g)
    \/ TransferRequest(c, k, a, g)
    \/ MigrateRequest(c, k, a, g)

NoReply == [op |-> "none", kind |-> "none", plan |-> Nothing]

\* The desktop: windows open, close, are carried to another domain, change.
Change(w) ==
    /\ \/ w \in DOMAIN desk /\ desk' = Without(desk, w)
       \/ \E k \in Domains, look \in Looks :
             desk' = With(desk, w, [home |-> k, floating |-> look.floating,
                                    sticky |-> look.sticky])
    /\ reply' = NoReply
    /\ UNCHANGED <<sessions, outer_gaps, binding>>

-----------------------------------------------------------------------------
EngineInit ==
    /\ sessions = <<>> /\ outer_gaps = <<>>
    /\ binding \in Clients
    /\ desk = <<>>
    /\ reply = NoReply

EngineNext ==
    \/ \E c \in Clients, k \in Domains, a \in Areas, g \in OuterGaps : Request(c, k, a, g)
    \/ \E w \in Windows : Change(w)

EngineSpec == EngineInit /\ [][EngineNext]_engineVars

\* The adapters observe every domain again and again.
Reconciling ==
    \E c \in Clients, k \in Domains, a \in Areas, g \in OuterGaps : ReconcileRequest(c, k, a, g)

Fairness ==
    \A c \in Clients, k \in Domains, a \in Areas, g \in OuterGaps :
        WF_engineVars(ReconcileRequest(c, k, a, g))

FairSpec == EngineSpec /\ Fairness

-----------------------------------------------------------------------------
(* Properties.                                                             *)

\* Type correctness of what the engine retains (struct Engine): a session is
\* stored under its own domain, its tiles and floats are apart, its focus and
\* what it remembers are its tiles.
EngineTypeOK ==
    /\ DOMAIN sessions \subseteq Domains
    /\ \A k \in DOMAIN sessions :
          /\ sessions[k].client \in Clients /\ sessions[k].area \in Areas
          /\ LET v == sessions[k].world
             IN  /\ v.tiles \in [DOMAIN v.tiles -> {k}] /\ v.floats \in [DOMAIN v.floats -> {k}]
                 /\ Members(v) \subseteq Windows /\ DOMAIN v.tiles \cap DOMAIN v.floats = {}
                 /\ v.focus \subseteq v.recent /\ v.recent \subseteq DOMAIN v.tiles
                 /\ Cardinality(v.focus) < 2
    /\ DOMAIN desk \subseteq Windows
    /\ binding \in Clients

\* The map of outer gaps has an entry for each retained session and for nothing
\* else, whatever was relocated, paired, migrated or given up on the way; a
\* reconcile compares with it before it looks at the tree.
GapsFollowSessions == DOMAIN outer_gaps = DOMAIN sessions

Named == {reply'.key, reply'.other}

DisplacesWhole ==
    reply'.kind # "none" /\ binding' = binding =>
        \A k \in DOMAIN sessions \ Named :
            \/ k \in DOMAIN sessions' /\ sessions'[k] = sessions[k]
                                     /\ outer_gaps'[k] = outer_gaps[k]
            \/ /\ k \notin DOMAIN sessions' /\ k.workspace = reply'.key.workspace
               /\ Members(sessions[k].world) \subseteq Here(reply'.key)

Held(k) == IF k \in DOMAIN sessions THEN Members(sessions[k].world) ELSE {}

RefusalKeeps ==
    reply'.kind = "refused" /\ binding' = binding =>
        \A k, o \in Domains :
            reply'.key = k /\ reply'.other = o /\ k # o =>
                (Held(k) \cup Held(o)) \cap (Here(k) \cup Here(o))
                    \subseteq Held(k)' \cup Held(o)'

\* A session disappears from a domain the request does not name only as a
\* displaced one: on the same workspace, with every member of it observed in
\* the request's domain; no other session outside the request changes, and a
\* relocation that is not carried through leaves no trace (engine.rs 4362-4411).
\* A crossing that is refused, whether before the two sessions were joined, when
\* the pair was converged or when its plan was given up, loses no window: what
\* was held and is still in sight is held by one of the two afterwards.
NothingGoesUnasked == [][DisplacesWhole /\ RefusalKeeps]_engineVars

\* A plan is about what the engine retains after it: the tiles placed in a
\* domain are the session's tiles, and the rectangle and gap they were placed
\* in are those it retains, so the next projection starts where this one ended.
PlansMatchStore ==
    reply.kind = "plan" =>
        \A k \in DOMAIN reply.plan :
            /\ reply.plan[k].tiles # {} => k \in DOMAIN sessions
            /\ k \in DOMAIN sessions =>
                  /\ DOMAIN sessions[k].world.tiles = reply.plan[k].tiles
                  /\ sessions[k].area = reply.plan[k].area

HoldsWhatIsSeen ==
    reply.kind = "plan" =>
        /\ Held(reply.key) \cup Held(reply.other) = Here(reply.key) \cup Here(reply.other)
        /\ reply.key # reply.other => Held(reply.key) \cap Held(reply.other) = {}

\* A plan accounts for everything in sight: the sessions of the domains it was
\* asked about hold exactly the windows observed there, each in one of them,
\* though its session may have been relocated, rebuilt, paired or split.  A
\* crossing stored by halves, or a migration that forgets the windows that
\* stay, loses some.  And what is retained is well-formed, with an outer gap for
\* each session and for nothing else, whatever was given up on the way.
PlansAccountForWindows == EngineTypeOK /\ GapsFollowSessions /\ HoldsWhatIsSeen

\* decisions.md 1524: "a mismatched owner or generation still rejects rather
\* than replacing the retained session".
MismatchRejects ==
    [][binding' # binding /\ DOMAIN sessions # {} =>
          reply'.kind = "refused" /\ sessions' = sessions]_engineVars

\* Once the desktop stops changing, observing every domain again and again
\* brings each session to what is there, though an observation may be refused
\* and sessions are relocated, dropped and rebuilt on the way.
Settles ==
    <>[][desk' = desk]_engineVars => <>[](\A k \in Domains : Held(k) = Here(k))
=============================================================================
