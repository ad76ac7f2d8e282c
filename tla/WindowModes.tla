---------------------------- MODULE WindowModes ----------------------------
(* Tiled, floating and sticky windows of the Windows host, and workspaces      *)
(* that stop tiling (tiling_sys.rs).  What the user chose for a window is kept *)
(* three times: in the tables of the loop, in the session of its workspace,    *)
(* which floats it, and in properties set on the window itself, which outlive  *)
(* the process and are adopted by the next one.  A floated window is raised to *)
(* the topmost band; the band it had is kept to be put back.                   *)
(*                                                                             *)
(* One output; its workspaces are fixed (Workspaces has monitors, tidying and  *)
(* sends), frames are left out, and so is how a window is hidden (HideLedger). *)
(* A session is what it tiles and what it floats (Engine): every request first *)
(* makes it agree with the rows it is sent.  A handler is an operator from a   *)
(* host to the set of hosts it may leave.                                      *)
EXTENDS Naturals

CONSTANTS
    Windows,
    LastSpace,    \* the workspaces of the output are numbered up to here
    First,        \* the one in view at the start
    Fallible,     \* whether native calls and engine requests may fail
    Restless      \* whether the user maximizes windows and applications raise theirs

Spaces == 1..LastSpace
Assumption ==
    /\ LastSpace \in Nat /\ First \in Spaces
    /\ Fallible \in BOOLEAN /\ Restless \in BOOLEAN

VARIABLE host
(* What Windows keeps: open, overlay (maximized, minimized or fullscreen), top *)
(* (in the topmost band), floatMark, stickyMark (with the prior mode).         *)
(* What the loop keeps: up, tiled, active, home, hidden, floated, sticky (TRUE *)
(* for a window that floated before), prior (the band before the raise),       *)
(* pending (releases to try again; TRUE: then tile), session.                  *)
(* History: want (what the user chose, "any" when its mark failed, "lost" once *)
(* a choice was made over a mark not adopted),                                 *)
(* raised (windows this process raised).  arranged is where a handler has      *)
(* written frames so far; it is empty between handlers.                        *)

-----------------------------------------------------------------------------
With(f, k, v) == [x \in DOMAIN f \cup {k} |-> IF x = k THEN v ELSE f[x]]
Without(f, K) == [x \in DOMAIN f \ K |-> f[x]]
Empty == [x \in {} |-> TRUE]

\* The results of a step that may stop a handler: Op goes on from those that went well.
Ok(x) == [host |-> x, ok |-> TRUE]
Failed(x) == [host |-> x, ok |-> FALSE]
Try(good, bad) == IF Fallible THEN {Ok(good), Failed(bad)} ELSE {Ok(good)}
Then(results, Op(_)) == UNION {IF r.ok THEN Op(r.host) ELSE {r} : r \in results}
Hosts(results) == {r.host : r \in results}

NoSession == [tiles |-> {}, floats |-> {}, old |-> FALSE]
SessionOf(x, k) == IF k \in DOMAIN x.session THEN x.session[k] ELSE NoSession
Members(x, k) == {w \in DOMAIN x.home : x.home[w] = k}
Observed(x) == x.open \ (x.overlay \cup x.hidden)

engine_is_float(x, w) == w \in SessionOf(x, x.home[w]).floats

\* assemble_domain_rows: the members of a workspace, and those that float.  A
\* window not seen (hidden, or under an overlay) floats only if it did before.
RowsComplete(x, k) == Members(x, k) \ x.hidden \subseteq x.open
FloatingRows(x, k) ==
    {w \in Members(x, k) :
        engine_is_float(x, w) \/ w \in x.floated \/ w \in Observed(x) \cap DOMAIN x.sticky}

Arrangement(x, k, rows, floating) ==
    [x EXCEPT !.session = With(@, k, [tiles |-> rows \ floating, floats |-> rows \cap floating,
                                      old |-> SessionOf(x, k).old])]
Converged(x, k) == Arrangement(x, k, Members(x, k), FloatingRows(x, k))

\* apply_geometry: frames are written of the tiles that are seen (writable_tokens).
Written(x, k) ==
    IF Members(x, k) \cap Observed(x) \subseteq SessionOf(x, k).floats THEN x
    ELSE [x EXCEPT !.arranged = @ \cup {k}]

\* A request about workspace k; a refused one leaves the sessions.
Reconciled(x, k) ==
    IF RowsComplete(x, k)
    THEN {Written(Converged(x, k), k)} \cup (IF Fallible THEN {x} ELSE {}) ELSE {x}

Survivors(s, W) == [tiles |-> s.tiles \ W, floats |-> s.floats \ W, old |-> s.old]
drop_member_state(x, W) ==
    [x EXCEPT !.home = Without(@, W), !.hidden = @ \ W, !.floated = @ \ W,
              !.sticky = Without(@, W), !.prior = Without(@, W),
              !.session = [k \in DOMAIN @ |-> Survivors(@[k], W)]]

-----------------------------------------------------------------------------
(* What every handler does first.                                              *)

\* ensure_workspace_assignments; a window in the topmost band is refused.
Admitted(x) ==
    LET new == Observed(x) \ (DOMAIN x.home \cup x.top)
    IN  [x EXCEPT !.home = [w \in DOMAIN @ \cup new |-> IF w \in new THEN x.active ELSE @[w]]]

\* adopt_restart_markers: windows with a mark that no table knows.  Sticky wins.
Marked(x) ==
    {w \in (Observed(x) \cap DOMAIN x.home) \ (DOMAIN x.sticky \cup x.floated) :
        w \in DOMAIN x.stickyMark \cup x.floatMark}
Entered(x, W) ==
    LET stuck == W \cap DOMAIN x.stickyMark
    IN  [x EXCEPT !.sticky = [w \in DOMAIN @ \cup stuck |->
                      IF w \in stuck THEN x.stickyMark[w] ELSE @[w]],
                  !.floated = @ \cup (W \ stuck)]

\* In the workspace they are members of, whether it tiles or not; together or not at all.
AdoptIn(x, k) ==
    LET staged == Marked(x) \cap Members(x, k)
    IN  IF staged = {} \/ ~RowsComplete(x, k) THEN {x}
        ELSE {Converged(Entered(x, staged), k)} \cup (IF Fallible THEN {x} ELSE {})

\* First those the engine floats already, then workspace by workspace.
FoundByEngine(x) == Entered(x, {w \in Marked(x) : engine_is_float(x, w)})

adopt_restart_markers(x) ==
    LET adopted[k \in 0..LastSpace] ==
            IF k = 0 THEN {FoundByEngine(x)} ELSE UNION {AdoptIn(y, k) : y \in adopted[k - 1]}
    IN  adopted[LastSpace]

Observe(x) == adopt_restart_markers(Admitted(x))

workspace_close_cleanup(x) == drop_member_state(x, DOMAIN x.home \ (x.open \cup x.hidden))

-----------------------------------------------------------------------------
(* Steps of the toggles.                                                       *)

\* prepare_toggle_float: the session in which the window has changed sides.
Toggled(x, w) ==
    LET k == x.home[w]
        s == SessionOf(Converged(x, k), k)
    IN  [s EXCEPT !.tiles = IF w \in s.floats THEN @ \cup {w} ELSE @ \ {w},
                  !.floats = IF w \in s.floats THEN @ \ {w} ELSE @ \cup {w}]

prepare_toggle_float(x, w) ==
    IF RowsComplete(x, x.home[w]) THEN Try(x, x) ELSE {Failed(x)}

Commit(x, k, s) == [x EXCEPT !.session = With(@, k, s)]
Chose(x, w, mode) == [x EXCEPT !.want = With(@, w, IF @[w] = "lost" THEN "lost" ELSE mode)]
Lose(x, w) == [x EXCEPT !.want = With(@, w, "lost")]

install_float_mark_held(x, w) == Try([x EXCEPT !.floatMark = @ \cup {w}], x)
install_sticky_mark_held(x, w, prior) ==
    Try([x EXCEPT !.stickyMark = With(@, w, prior)], x)

\* A mutant: the mark of a window that is tiled again stays on it.
KeepFloatMark(x, w) == {Ok(x)}

clear_float_mark(x, w) ==
    IF w \in x.floatMark THEN Try([x EXCEPT !.floatMark = @ \ {w}], x) ELSE {Ok(x)}

\* Only the mark the loop expects is taken off.
clear_sticky_mark(x, w) ==
    IF w \notin DOMAIN x.stickyMark THEN {Ok(x)}
    ELSE IF x.stickyMark[w] # x.sticky[w] THEN {Failed(x)}
    ELSE Try([x EXCEPT !.stickyMark = Without(@, {w})], x)

\* A mutant: the band that was is forgotten even when it could not be put back.
ForgetBand(x, w) == {Ok([x EXCEPT !.prior = Without(@, {w})])}

\* Only a band this process raised is lowered.
restore_raised_band(x, w) ==
    LET forgotten == [x EXCEPT !.prior = Without(@, {w})]
    IN  IF w \notin DOMAIN x.prior THEN {Ok(x)}
        ELSE IF x.prior[w] \/ w \notin x.top THEN {Ok(forgotten)}
        ELSE Try([forgotten EXCEPT !.top = @ \ {w}, !.raised = @ \ {w}], x)

\* The window is raised before anything is committed; what it had is kept from
\* the first time.
Raise(x, w) ==
    [x EXCEPT !.top = @ \cup {w},
              !.prior = With(@, w, IF w \in DOMAIN @ THEN @[w] ELSE w \in x.top),
              !.raised = IF w \in x.top \/ (w \in DOMAIN x.prior /\ x.prior[w]) THEN @
                         ELSE @ \cup {w}]

\* apply_float_from_tiled: refused, the window gone, or not raised; raised but not
\* verified; floating, with its mark or (a failure) without.
apply_float_from_tiled(x, w, mark_sticky) ==
    LET k == x.home[w]
        Floating(y) == Commit(y, k, Toggled(x, w))
        Marking(y) ==
            IF mark_sticky
            THEN {Ok(IF r.ok THEN Chose([r.host EXCEPT !.sticky = With(@, w, FALSE)], w, "sticky")
                     ELSE Chose(r.host, w, "any")) :
                     r \in install_sticky_mark_held(Floating(y), w, FALSE)}
            ELSE {Ok(Chose(r.host, w, IF r.ok THEN "float" ELSE "any")) :
                     r \in install_float_mark_held(
                               [Floating(y) EXCEPT !.floated = @ \cup {w}], w)}
        Raised(y) == Then(Try(y, y), LAMBDA z : Try(Raise(z, w), Raise(z, w)))
        Lost(y) == IF Fallible THEN {Failed([Raise(y, w) EXCEPT !.top = y.top, !.raised = y.raised])}
                   ELSE {}
    IN  {Written(r.host, k) : r \in Then(Then(prepare_toggle_float(x, w),
                                             LAMBDA y : Raised(y) \cup Lost(y)), Marking)}

\* apply_unfloat_to_tiled: the band, then the marks, then the tables; when the
\* second mark stays the first is gone.
apply_unfloat_to_tiled(x, w, unmark_sticky) ==
    LET k == x.home[w]
        Unstick(y) == IF unmark_sticky THEN clear_sticky_mark(y, w) ELSE {Ok(y)}
        Unmark(y) == {IF r.ok \/ y.stickyMark = x.stickyMark THEN r
                      ELSE Failed(Chose(r.host, w, "any")) : r \in clear_float_mark(y, w)}
        Settle(y) ==
            {Ok(Written(Chose([Commit(y, k, Toggled(x, w)) EXCEPT
                                   !.sticky = Without(@, {w}), !.floated = @ \ {w}],
                              w, "tiled"), k))}
        Lower(y) == restore_raised_band(y, w)
    IN  Hosts(Then(Then(Then(Then(prepare_toggle_float(x, w), Lower), Unstick), Unmark), Settle))

\* sticky_rehome_to_current: the window leaves the session of its home for the one
\* of the workspace in view, in one candidate.
sticky_rehome_to_current(x, w, floating) ==
    LET old == x.home[w]
        cur == x.active
        rows == Members(x, cur) \cup {w}
        left == Arrangement(x, old, Members(x, old) \ {w}, FloatingRows(x, old))
        both == Arrangement(left, cur, rows,
                            FloatingRows(x, cur) \cup (IF floating THEN {w} ELSE {}))
        Prepared == IF RowsComplete(x, old) /\ RowsComplete(x, cur) THEN Try(x, x) ELSE {Failed(x)}
        Lower(y) == IF floating THEN {Ok(y)} ELSE restore_raised_band(y, w)
        Unstick(y) == clear_sticky_mark(y, w)
        Unmark(y) == IF floating THEN {Ok(y)}
                     ELSE {IF r.ok \/ y.stickyMark = x.stickyMark THEN r
                           ELSE Failed(Chose(r.host, w, "any")) : r \in clear_float_mark(y, w)}
        Moved(y) == [y EXCEPT !.session = both.session, !.home = With(@, w, cur),
                              !.sticky = Without(@, {w})]
        Settle(y) ==
            IF floating
            THEN {Ok(Chose([Moved(r.host) EXCEPT !.floated = @ \cup {w}], w,
                           IF r.ok THEN "float" ELSE "any")) :
                     r \in IF w \in y.floatMark THEN {Ok(y)} ELSE install_float_mark_held(y, w)}
            ELSE {Ok(Written(Chose([Moved(y) EXCEPT !.floated = @ \ {w},
                                                    !.prior = Without(@, {w})],
                                   w, "tiled"), cur))}
    IN  Hosts(Then(Then(Then(Then(Prepared, Lower), Unstick), Unmark), Settle))

\* preserve: a window that floated before it was sticky floats again.
sticky_off_to_current(x, w, preserve) ==
    LET to_float == preserve /\ x.sticky[w]
        Remark(y) == IF w \in y.floatMark THEN {Ok(y)} ELSE install_float_mark_held(y, w)
        Unstick(y) == clear_sticky_mark(y, w)
        Forget(y) == {Ok(Chose([y EXCEPT !.sticky = Without(@, {w})], w, "float"))}
    IN  IF x.home[w] # x.active THEN sticky_rehome_to_current(x, w, to_float)
        ELSE IF to_float THEN Hosts(Then(Then(Remark(x), Unstick), Forget))
        ELSE apply_unfloat_to_tiled(x, w, TRUE)

-----------------------------------------------------------------------------
(* The handlers.                                                               *)

\* A window in front: it shows, and nothing covers the screen with it.
InFront(x, w) ==
    /\ w \in Observed(x) \cap DOMAIN x.home
    /\ x.home[w] = x.active \/ w \in DOMAIN x.sticky

\* Both toggles are refused while the home of the window does not tile.
Choosable(x, w) == InFront(x, w) /\ x.home[w] \in x.tiled

Becomes(S) == host.up /\ \E x \in S : host' = [x EXCEPT !.arranged = {}]

dispatch_float_intent(x, w) ==
    IF w \in DOMAIN x.sticky THEN sticky_off_to_current(x, w, FALSE)
    ELSE IF engine_is_float(x, w) THEN apply_unfloat_to_tiled(x, w, FALSE)
    ELSE apply_float_from_tiled(x, w, FALSE)

dispatch_sticky_intent(x, w) ==
    IF w \in DOMAIN x.sticky THEN sticky_off_to_current(x, w, TRUE)
    ELSE IF engine_is_float(x, w)
    THEN Hosts(Then(install_sticky_mark_held(x, w, TRUE),
                    LAMBDA y : {Ok(Chose([y EXCEPT !.sticky = With(@, w, TRUE)], w, "sticky"))}))
    ELSE apply_float_from_tiled(x, w, TRUE)

\* The hosts a choice starts from.  Where the adoption of a mark has just been
\* refused the mark may survive the choice.
Chooses(w) ==
    {IF w \in Marked(x) THEN Lose(x, w) ELSE x : x \in {y \in Observe(host) : Choosable(y, w)}}

FloatOutcomes(w) == UNION {dispatch_float_intent(x, w) : x \in Chooses(w)}
StickyOutcomes(w) == UNION {dispatch_sticky_intent(x, w) : x \in Chooses(w)}

FloatChord(w) == Becomes(FloatOutcomes(w))
StickyChord(w) == Becomes(StickyOutcomes(w))

\* reconcile_tick: only the workspace in view, and only when it tiles.
Reconcile(x) == IF x.active \in x.tiled THEN Reconciled(x, x.active) ELSE {x}
reconcile_tick(x) == UNION {Reconcile(workspace_close_cleanup(y)) : y \in Observe(x)}
Tick == Becomes(reconcile_tick(host))

\* dispatch_workspace_release: the session goes, no frame is written.
dispatch_workspace_release(x, k) ==
    IF RowsComplete(x, k) THEN Try([x EXCEPT !.session = Without(@, {k})], x) ELSE {Failed(x)}

Queued(x, k, retile) == [x EXCEPT !.pending = With(@, k, retile)]
Confirmed(x, k) == [x EXCEPT !.pending = Without(@, {k})]

\* A workspace stops tiling; its session is old from now on.
Aged(s) == [tiles |-> s.tiles, floats |-> s.floats, old |-> TRUE]
Untiled(x, k) ==
    [x EXCEPT !.tiled = @ \ {k},
              !.session = [j \in DOMAIN @ |-> IF j = k THEN Aged(@[j]) ELSE @[j]]]
Retiled(x, k) == [Confirmed(x, k) EXCEPT !.tiled = @ \cup {k}]

\* A mutant: a workspace tiles again whether its session went or not.
RetileAnyway(x, k) ==
    UNION {reconcile_tick(Retiled(r.host, k)) : r \in dispatch_workspace_release(x, k)}

\* It tiles again only after the session it had is released.
TileAgain(x, k) ==
    UNION {IF r.ok THEN reconcile_tick(Retiled(r.host, k)) ELSE {Queued(r.host, k, TRUE)} :
               r \in dispatch_workspace_release(x, k)}

toggle_workspace_tiling(x, k) ==
    IF k \in x.tiled
    THEN {IF r.ok THEN Confirmed(r.host, k) ELSE Queued(r.host, k, FALSE) :
              r \in dispatch_workspace_release(Untiled(x, k), k)}
    ELSE TileAgain(x, k)

ModeToggle == Becomes(UNION {toggle_workspace_tiling(x, x.active) : x \in Observe(host)})

\* retry_pending_releases, for one entry; one for a workspace that tiles is dropped.
retry_pending_release(x, k) ==
    IF k \in x.tiled THEN {Confirmed(x, k)}
    ELSE UNION {IF ~r.ok THEN {r.host}
                ELSE IF x.pending[k] THEN reconcile_tick(Retiled(r.host, k))
                ELSE {Confirmed(r.host, k)} : r \in dispatch_workspace_release(x, k)}

Retry(k) ==
    /\ k \in DOMAIN host.pending
    /\ Becomes(UNION {retry_pending_release(workspace_close_cleanup(x), k) : x \in Observe(host)})

\* A raised window may be hidden when this process raised it.
project_topmost_hide_allowed(x, w) == w \in DOMAIN x.prior /\ ~x.prior[w]

\* Another workspace comes into view; a window that cannot be hidden keeps the one
\* there is.  What opens is observed and arranged, if it tiles.
workspace_do_select(x, k) ==
    LET leaving == (Members(x, x.active) \cap x.open) \ (x.hidden \cup DOMAIN x.sticky)
        stuck == {w \in leaving \cap x.top : ~project_topmost_hide_allowed(x, w)}
        kept == drop_member_state(x, (Members(x, x.active) \ x.hidden) \ x.open)
        opened == [kept EXCEPT !.active = k,
                               !.hidden = (@ \cup leaving) \ Members(x, k)]
    IN  (IF stuck = {} THEN UNION {Reconcile(workspace_close_cleanup(y)) : y \in Observe(opened)}
         ELSE {})
        \cup (IF Fallible \/ stuck # {} THEN {kept} ELSE {})

Select(k) ==
    k # host.active /\ Becomes(UNION {workspace_do_select(x, k) : x \in Observe(host)})

-----------------------------------------------------------------------------
(* The process and the desktop.                                                *)

NewLoop(x) ==
    [x EXCEPT !.up = FALSE, !.tiled = Spaces, !.active = First, !.home = Empty,
              !.hidden = {}, !.floated = {}, !.sticky = Empty, !.prior = Empty,
              !.pending = Empty, !.session = Empty]

\* The bands are put back at the end of the loop, as far as that succeeds; hidden
\* windows are shown again by the host or its watcher; the marks stay.
Stop ==
    \E kept \in IF Fallible THEN SUBSET host.raised ELSE {{}} :
        LET lowered == {w \in DOMAIN host.prior : ~host.prior[w]} \ kept
        IN  Becomes({[NewLoop(host) EXCEPT !.top = @ \ lowered, !.raised = @ \cap kept]})

\* The process dies: what it raised stays raised.
Crash == Becomes({NewLoop(host)})

Start == ~host.up /\ host' = [host EXCEPT !.up = TRUE, !.raised = {}]

Open(w) ==
    /\ w \notin host.open \cup DOMAIN host.home
    /\ host' = [host EXCEPT !.open = @ \cup {w}, !.want = With(@, w, "tiled")]

Close(w) ==
    /\ w \in host.open
    /\ host' = [host EXCEPT !.open = @ \ {w}, !.top = @ \ {w}, !.overlay = @ \ {w},
                             !.floatMark = @ \ {w}, !.stickyMark = Without(@, {w}),
                             !.raised = @ \ {w}]

\* The user maximizes, minimizes or restores a window.
Overlay(w) ==
    /\ Restless /\ w \in host.open \ host.hidden
    /\ host' = [host EXCEPT !.overlay = IF w \in @ THEN @ \ {w} ELSE @ \cup {w}]

\* An application changes the band of its window.
Band(w) ==
    /\ Restless /\ w \in host.open \ host.hidden
    /\ host' = [host EXCEPT !.top = IF w \in @ THEN @ \ {w} ELSE @ \cup {w},
                             !.raised = @ \ {w}]

-----------------------------------------------------------------------------
Init ==
    host = [open |-> {}, overlay |-> {}, top |-> {}, floatMark |-> {},
            stickyMark |-> Empty, up |-> TRUE, tiled |-> Spaces, active |-> First,
            home |-> Empty, hidden |-> {}, floated |-> {}, sticky |-> Empty, prior |-> Empty,
            pending |-> Empty, session |-> Empty, want |-> Empty, raised |-> {}, arranged |-> {}]

Next ==
    \/ Tick \/ ModeToggle \/ Stop \/ Crash \/ Start
    \/ \E k \in Spaces : Retry(k) \/ Select(k)
    \/ \E w \in Windows : FloatChord(w) \/ StickyChord(w) \/ Open(w) \/ Close(w)
                            \/ Overlay(w) \/ Band(w)

Spec == Init /\ [][Next]_host

-----------------------------------------------------------------------------
(* What must hold.                                                             *)

\* How the loop treats a member.
ModeOf(x, w) ==
    IF w \in DOMAIN x.sticky THEN "sticky"
    ELSE IF w \in x.floated \/ engine_is_float(x, w) THEN "float"
    ELSE "tiled"

\* When no window has gone, the next tick leaves every window it sees as the user
\* last made it, whatever came before: workspaces that stopped tiling and tile
\* again, a sticky window sent home to another workspace, a stop, a crash, an
\* adoption (tiling_sys.rs:9778-10084, 10686-10857).  Choices whose mark could not
\* be written are nobody's word, and an adoption the engine refused is tried again.
ModesFollowUser ==
    host.up /\ workspace_close_cleanup(host) = host =>
        \A x \in reconcile_tick(host) : \A w \in Observed(x) \cap DOMAIN x.home :
            \/ x.want[w] \in {"any", "lost", ModeOf(x, w)}
            \/ Fallible /\ w \in Marked(x)

\* The band of a window this process raised can be put back: what it had is known,
\* so that it can be hidden with its workspace and lowered at the end
\* (tiling_sys.rs:7799-7860, 8013-8099, 10411-10416, 18497-18545).
BandsComeBack ==
    host.up => \A w \in host.raised : w \in DOMAIN host.prior /\ ~host.prior[w]

\* A session tiles and floats members of its own workspace and no window is in two;
\* one from before its workspace stopped tiling is never planned with again
\* (tiling_sys.rs:8914-9042, 10686-10857).
SessionsAreTheirs ==
    /\ \A k \in DOMAIN host.session :
          /\ host.session[k].tiles \cup host.session[k].floats \subseteq Members(host, k)
          /\ host.session[k].tiles \cap host.session[k].floats = {}
          /\ k \in host.tiled => ~host.session[k].old
    /\ DOMAIN host.sticky \cup host.floated \cup DOMAIN host.prior \subseteq DOMAIN host.home

\* tiling_sys.rs:4098 of a workspace that does not tile: floating workspaces leave
\* frames untouched and stop all tiled geometry.
FloatingWorkspacesLeftAlone ==
    host.up => \A w \in Windows : \A x \in FloatOutcomes(w) \cup StickyOutcomes(w) :
                   x.arranged \subseteq x.tiled
=============================================================================
