----------------------------- MODULE Workspaces -----------------------------
(* The workspaces of the Windows host: the registry of workspace.rs and the    *)
(* handlers of tiling_sys.rs that work on it.  Every monitor has its own order *)
(* of workspaces; windows outside the active one are hidden under a claim; the *)
(* workspaces of a monitor that goes away live on another until it returns.    *)
(*                                                                             *)
(* One record, TileLoop, holds the registry and the tables next to it, and     *)
(* every operation is an operator from record to record, so that a handler is  *)
(* the composition of the calls it makes.  Left out: the remembered focus of a *)
(* workspace, its tiled mode and the plans drawn for it (Session, Engine), and *)
(* how a window is hidden and shown (HideLedger): here a hide is "hidden",     *)
(* "kept" (refused or uncertain), "gone" (the window is not the member it was) *)
(* or "excluded" (out of scope), and a reveal "shown", "retired" or "failed".  *)
EXTENDS Naturals, Sequences, FiniteSets, SequencesExt

CONSTANTS
    OutputOrder,    \* the monitors, in the order they are enumerated
    Windows,
    MaxIds,         \* bound: workspaces made in a behaviour
    None

Outputs == ToSet(OutputOrder)
MinWorkspaces == 2
HideOutcomes == {"hidden", "kept", "gone", "excluded"}
RevealOutcomes == {"shown", "retired", "failed"}

Assumption ==
    /\ OutputOrder \in Seq(Outputs) /\ IsInjective(OutputOrder)
    /\ None \notin Outputs \cup Windows
    /\ MaxIds \in Nat

VARIABLES
    state,      \* TileLoop: the registry, the claims held, the sticky windows
    alive       \* the windows that exist

vars == <<state, alive>>

-----------------------------------------------------------------------------
(* The registry.  An entry of an order is a workspace: its id and its members. *)

With(f, k, v) == [x \in DOMAIN f \cup {k} |-> IF x = k THEN v ELSE f[x]]
Without(f, K) == [x \in DOMAIN f \ K |-> f[x]]
Empty == [x \in {} |-> 0]

\* The entries of an order whose ids are in ids, in their order.
Picked(order, ids) ==
    LET picked[i \in 0 .. Len(order)] ==
            IF i = 0 THEN <<>>
            ELSE IF order[i].id \in ids THEN Append(picked[i - 1], order[i])
            ELSE picked[i - 1]
    IN  picked[Len(order)]

Ids(order) == {order[i].id : i \in DOMAIN order}
Position(order, id) == CHOOSE i \in DOMAIN order : order[i].id = id
IdsOf(s, o) == IF o \in DOMAIN s.outputs THEN Ids(s.outputs[o].order) ELSE {}
Live(s) == UNION {IdsOf(s, o) : o \in DOMAIN s.outputs}
Displaced(s) == UNION {s.displaced[o].ids : o \in DOMAIN s.displaced}

ActiveId(s, o) ==
    IF o \in DOMAIN s.outputs /\ s.outputs[o].order # <<>>
    THEN s.outputs[o].order[s.outputs[o].active].id ELSE 0

Members(s, o, id) ==
    IF id \in IdsOf(s, o)
    THEN s.outputs[o].order[Position(s.outputs[o].order, id)].members ELSE {}

Hidden(s, w) == w \in DOMAIN s.membership /\ s.membership[w].hidden
SetHidden(s, W, b) ==
    LET old == s.membership
    IN  [s EXCEPT !.membership = [w \in DOMAIN old |->
            IF w \in W THEN [old[w] EXCEPT !.hidden = b] ELSE old[w]]]

WithOutput(s, o, order, active) ==
    [s EXCEPT !.outputs = With(@, o, [order |-> order, active |-> active])]
Active(s, o) == s.outputs[o].active

\* n workspaces more for the order of an output.
Appended(s, o, n) ==
    LET more == [i \in 1 .. n |-> [id |-> s.minted + i, members |-> {}]]
    IN  [WithOutput(s, o, s.outputs[o].order \o more, Active(s, o)) EXCEPT !.minted = @ + n]

ensure_output(s, o) ==
    LET made == Appended(WithOutput(s, o, <<>>, 1), o, MinWorkspaces)
    IN  IF o \in DOMAIN s.outputs THEN s
        ELSE [made EXCEPT !.baseline = With(@, o, ActiveId(made, o))]

\* A mutant: the members stay on record at the output their workspaces were on.
RehomedNowhere(s, o, ids, p) == s

\* The members of the workspaces ids of output o are at output p from now on.
Rehomed(s, o, ids, p) ==
    LET old == s.membership
    IN  [s EXCEPT !.membership = [w \in DOMAIN old |->
            IF old[w].output = o /\ old[w].ws \in ids
            THEN [old[w] EXCEPT !.output = p] ELSE old[w]]]

\* What history says of workspaces that are gone is forgotten; the baseline
\* starts again from the view there is.
validate_history(s, o) ==
    LET live == IdsOf(s, o)
        stale == {p \in {o} \cap DOMAIN s.previous : s.previous[p] \notin live}
        lost == {p \in {o} \cap DOMAIN s.baseline : s.baseline[p] \notin live}
    IN  [s EXCEPT !.previous = Without(@, stale),
                  !.baseline = IF lost = {} THEN @
                               ELSE IF ActiveId(s, o) = 0 THEN Without(@, lost)
                               ELSE With(@, o, ActiveId(s, o))]

observe_workspace_change(s, o, current) ==
    IF o \notin DOMAIN s.outputs THEN s
    ELSE IF current \notin IdsOf(s, o) \/ (o \in DOMAIN s.baseline /\ s.baseline[o] = current)
    THEN validate_history(s, o)
    ELSE validate_history(
            [s EXCEPT !.previous = IF o \notin DOMAIN s.baseline THEN @
                                   ELSE IF s.baseline[o] \in IdsOf(s, o)
                                   THEN With(@, o, s.baseline[o]) ELSE Without(@, {o}),
                      !.baseline = With(@, o, current)], o)

Observed(s, o) == observe_workspace_change(s, o, ActiveId(s, o))

discard_output_history(s, o) ==
    [s EXCEPT !.previous = Without(@, {o}), !.baseline = Without(@, {o})]

activate(s, o, id) ==
    IF id \in IdsOf(s, o)
    THEN WithOutput(s, o, s.outputs[o].order, Position(s.outputs[o].order, id)) ELSE s

\* The windows W are members where at says and nowhere else; at is a function from
\* those of them that are members to records of membership.
Moved(s, W, at) ==
    LET Seated(o, e) ==
            [id |-> e.id,
             members |-> (e.members \ W)
                         \cup {w \in DOMAIN at : at[w].output = o /\ at[w].ws = e.id}]
    IN  [s EXCEPT !.outputs =
                      [o \in DOMAIN @ |->
                          [order |-> [i \in DOMAIN @[o].order |-> Seated(o, @[o].order[i])],
                           active |-> @[o].active]],
                  !.membership =
                      [w \in (DOMAIN @ \ W) \cup DOMAIN at |-> IF w \in W THEN at[w] ELSE @[w]]]

remove_window(s, W) == Moved(s, W, Empty)

assign(s, w, o, id, hidden) ==
    IF id \notin IdsOf(s, o) THEN s
    ELSE Moved(s, {w}, [v \in {w} |-> [output |-> o, ws |-> id, hidden |-> hidden]])

\* All the tables forget the windows; a claim on one is not among them.
drop_member_state(s, W) == [remove_window(s, W) EXCEPT !.sticky = @ \ W]

\* The last workspace if it is empty, a new one otherwise.
resolve_send_trailing(s, o) ==
    IF o \notin DOMAIN s.outputs \/ s.outputs[o].order = <<>> THEN [state |-> s, id |-> 0]
    ELSE IF Last(s.outputs[o].order).members = {}
    THEN [state |-> s, id |-> Last(s.outputs[o].order).id]
    ELSE [state |-> Appended(s, o, 1), id |-> s.minted + 1]

-----------------------------------------------------------------------------
(* Trailing maintenance: empty workspaces go, one empty one stays at the end.  *)

\* facts of each place of the order; the first ones stay when fewer than two are left.
plan_trailing(facts) ==
    LET n == Len(facts)
        spare(i) == facts[i].empty /\ ~facts[i].occupied
        candidates == {i \in 1 .. n : /\ facts[i].empty /\ ~facts[i].visible
                                      /\ ~facts[i].occupied /\ ~facts[i].retained
                                      /\ ~(i = n /\ spare(i))}
        remove == {i \in candidates :
                      Cardinality({j \in candidates : j < i}) + n
                          >= MinWorkspaces + Cardinality(candidates)}
        remaining == (1 .. n) \ remove
    IN  [remove |-> remove,
         append |-> \/ Cardinality(remaining) < MinWorkspaces
                    \/ ~spare(CHOOSE i \in remaining : \A j \in remaining : j <= i)]

\* Sticky windows occupy no workspace; displaced workspaces are retained.
CleanupFacts(s, o) ==
    LET order == s.outputs[o].order
    IN  [i \in DOMAIN order |->
            LET bare == order[i].members \subseteq s.sticky
                occupied == \/ ~bare
                            \/ \E w \in DOMAIN s.membership \ s.sticky :
                                  s.membership[w].output = o /\ s.membership[w].ws = order[i].id
            IN  [empty |-> bare /\ ~occupied, occupied |-> occupied,
                 visible |-> order[i].id = ActiveId(s, o),
                 retained |-> order[i].id \in Displaced(s)]]

apply_cleanup(s, o, removed, append) ==
    LET before == s.outputs[o].order
        kept == Picked(before, Ids(before) \ removed)
        more == IF Len(kept) + (IF append THEN 1 ELSE 0) >= MinWorkspaces
                THEN (IF append THEN 1 ELSE 0) ELSE MinWorkspaces - Len(kept)
        grown == Appended(WithOutput(s, o, kept, Active(s, o)), o, more)
        order == grown.outputs[o].order
        view == ActiveId(s, o)
        placed == WithOutput(grown, o, order,
                             IF view \in Ids(order) THEN Position(order, view) ELSE 1)
        kept_for(p) == s.displaced[p].ids \cap Live(placed)
    IN  validate_history(
            [placed EXCEPT !.displaced =
                [p \in {q \in DOMAIN s.displaced : kept_for(q) # {}} |->
                    [ids |-> kept_for(p), dest |-> s.displaced[p].dest]]], o)

Cleanup(s, o) ==
    IF o \notin DOMAIN s.outputs THEN s
    ELSE LET order == s.outputs[o].order
             plan == IF order = <<>> THEN [remove |-> {}, append |-> TRUE]
                     ELSE plan_trailing(CleanupFacts(s, o))
         IN  apply_cleanup(s, o, {order[i].id : i \in plan.remove}, plan.append)

-----------------------------------------------------------------------------
(* Monitors that go and return.                                                *)

displace_output_to(s, origin, dest) ==
    IF origin = dest \/ {origin, dest} \cap DOMAIN s.outputs # {origin, dest} THEN s
    ELSE LET moving == s.outputs[origin].order
             gone == [s EXCEPT !.outputs = Without(@, {origin})]
             joined == WithOutput(gone, dest, s.outputs[dest].order \o moving, Active(s, dest))
             moved == [Rehomed(joined, origin, Ids(moving), dest) EXCEPT
                          !.displaced = With(@, origin, [ids |-> Ids(moving), dest |-> dest])]
         IN  validate_history(
                discard_output_history(IF moving = <<>> THEN gone ELSE moved, origin), dest)

\* The order that held them keeps its active index as far as it goes.
reconnect_output(s, origin) ==
    LET dest == s.displaced[origin].dest
        ids == s.displaced[origin].ids
    IN  IF dest \notin DOMAIN s.outputs THEN s
        ELSE LET order == s.outputs[dest].order
                 left == Picked(order, Ids(order) \ ids)
                 returning == Picked(order, ids)
                 own == IF origin \in DOMAIN s.outputs THEN s.outputs[origin]
                        ELSE [order |-> <<>>, active |-> 1]
                 active == s.outputs[dest].active
                 shrunk == [order |-> left,
                            active |-> IF active <= Len(left) THEN active
                                       ELSE IF left = <<>> THEN 1 ELSE Len(left)]
                 grown == [order |-> own.order \o returning, active |-> own.active]
                 back == [Rehomed(s, dest, ids, origin) EXCEPT
                             !.outputs = With(With(@, dest, shrunk), origin, grown),
                             !.displaced = Without(@, {origin})]
                 view == ActiveId(back, origin)
                 primed == [discard_output_history(back, origin) EXCEPT
                               !.baseline = IF view = 0 THEN @ ELSE With(@, origin, view)]
             IN  validate_history(validate_history(primed, dest), origin)

\* One monitor is gone: its workspaces go to dest, which shows the one the
\* foreground window fg is in.  Nobody looks whether the move was refused.
Relocated(s, origin, dest, fg) ==
    LET shown == IF fg \in DOMAIN s.membership /\ s.membership[fg].output = origin
                 THEN s.membership[fg].ws ELSE 0
    IN  Observed(activate(displace_output_to(s, origin, dest), dest, shown), dest)

Returned(s, origin) ==
    IF origin \notin DOMAIN s.displaced THEN s
    ELSE Observed(reconnect_output(s, origin), s.displaced[origin].dest)

\* What is done at an output in a pass over several of them.
Visit(work, s, o, arg) ==
    CASE work = "ensure" -> ensure_output(s, o)
      [] work = "relocate" -> Relocated(s, o, arg[o].dest, arg[o].fg)
      [] work = "return" -> Returned(s, o)
      [] work = "clean" -> IF ActiveId(s, o) = 0 THEN s ELSE Cleanup(s, o)

\* A pass over the outputs S, in the order they are enumerated.
Each(work, s, S, arg) ==
    LET done[i \in 0 .. Len(OutputOrder)] ==
            IF i = 0 THEN s
            ELSE IF OutputOrder[i] \in S THEN Visit(work, done[i - 1], OutputOrder[i], arg)
            ELSE done[i - 1]
    IN  done[Len(OutputOrder)]

\* The monitors that are gone hand over their workspaces.  dest: where each of them
\* goes (the nearest one that is left).
Leave(s, current, dest, fg) ==
    LET held(o) == fg \in DOMAIN s.membership /\ s.membership[fg].output = o
    IN  Each("relocate", s, s.known \ current,
             [o \in s.known \ current |->
                 [dest |-> dest[o], fg |-> IF held(o) THEN fg ELSE None]])

sync_monitor_outputs(s, current, dest, fg) ==
    [Each("return",
          Leave(Each("ensure", s, current \ DOMAIN s.displaced, Empty), current, dest, fg),
          current, Empty)
        EXCEPT !.known = current]

-----------------------------------------------------------------------------
(* What every handler does first with what it sees.  under says which monitor  *)
(* each window is on.                                                          *)

\* A new window joins the workspace in view on its monitor, if there is one.
Join(s, new, under) ==
    Moved(s, new,
          [w \in {v \in new : ActiveId(s, under[v]) # 0} |->
              [output |-> under[w], ws |-> ActiveId(s, under[w]), hidden |-> FALSE]])

ensure_workspace_assignments(s, under) ==
    LET new == alive \ (DOMAIN s.membership \cup s.claims)
    IN  Join(Each("ensure", s, {under[w] : w \in new}, Empty), new, under)

workspace_close_cleanup(s) ==
    drop_member_state(s, DOMAIN s.membership \ (alive \cup s.claims))

Refreshed(s, under) == workspace_close_cleanup(ensure_workspace_assignments(s, under))

\* Claims on windows that are dead; every output is tidied after one is found.
audit_hidden_claims(s, dead) ==
    IF dead = {} THEN s
    ELSE Each("clean", drop_member_state([s EXCEPT !.claims = @ \ dead], dead), Outputs, Empty)

-----------------------------------------------------------------------------
(* Opening another workspace: what is in the old one is hidden, what is in the *)
(* new one shown; when one of them fails, what was hidden is shown again.      *)

\* A reveal of claimed windows W: shown ones are visible members, retired ones
\* are forgotten, failed ones keep their claim.
RevealAll(s, W, reveal) ==
    LET of(r) == {w \in W : reveal[w] = r}
    IN  drop_member_state(
            SetHidden([s EXCEPT !.claims = @ \ (of("shown") \cup of("retired"))],
                      of("shown"), FALSE),
            of("retired"))

HideLeaving(s, o, hide) ==
    LET leaving == {w \in Members(s, o, ActiveId(s, o)) : ~Hidden(s, w)}
        gone == {w \in leaving : hide[w] = "gone"}
        tried == leaving \ (s.sticky \cup gone)
        fresh == {w \in tried : hide[w] = "hidden"}
    IN  [state |-> drop_member_state(
                       SetHidden([s EXCEPT !.claims = @ \cup fresh], fresh, TRUE), gone),
         fresh |-> fresh,
         failed |-> \E w \in tried : hide[w] = "kept"]

\* A mutant: a reveal that fails does not stop the select.
ShowWhatShows(s, o, target, reveal) ==
    LET entering == Members(s, o, target)
    IN  [state |-> RevealAll(SetHidden(s, entering \ s.claims, FALSE),
                             entering \cap s.claims, reveal),
         failed |-> FALSE]

ShowEntering(s, o, target, reveal) ==
    LET entering == Members(s, o, target)
        held == entering \cap s.claims
    IN  [state |-> RevealAll(SetHidden(s, entering \ held, FALSE), held, reveal),
         failed |-> \E w \in held : reveal[w] = "failed"]

\* Nothing is put back of what entered.
Partial(s, fresh, reveal) == [state |-> RevealAll(s, fresh, reveal), outcome |-> "partial"]

\* The observation after it succeeds, or what it finds is seen on the next tick.
Opened(s, o, target, under) ==
    Refreshed(Cleanup(observe_workspace_change(activate(s, o, target), o, target), o), under)

workspace_do_select(s, o, target, hide, reveal, under) ==
    IF ActiveId(s, o) = 0 THEN [state |-> s, outcome |-> "unknown-output"]
    ELSE IF ActiveId(s, o) = target
    THEN [state |-> s, outcome |-> "already-active"]
    ELSE LET left == HideLeaving(s, o, hide)
             came == ShowEntering(left.state, o, target, reveal)
         IN  IF left.failed THEN Partial(left.state, left.fresh, reveal)
             ELSE IF came.failed THEN Partial(came.state, left.fresh, reveal)
             ELSE [state |-> Opened(came.state, o, target, under), outcome |-> "ok"]

-----------------------------------------------------------------------------
(* Sending a window.  The membership changes first, hidden flag set; a fence   *)
(* that fails afterwards and a hide that fails leave it so.                    *)

MaySend(s, o, w) ==
    /\ w \in alive \cap DOMAIN s.membership /\ w \notin s.sticky
    /\ s.membership[w].output = o /\ ~s.membership[w].hidden

\* fate: how it went with the window; a fence that fails after the membership
\* changed counts as "gone" when it is the identity, as "kept" otherwise, and so
\* does a hide that does not find the window.
workspace_do_send(s, o, w, target, fate) ==
    LET sent == assign(s, w, o, target, TRUE)
    IN  CASE fate = "gone" -> drop_member_state(sent, {w})
          [] fate = "hidden" -> [sent EXCEPT !.claims = @ \cup {w}]
          [] OTHER -> sent

workspace_send_stay(s, o, w, target) ==
    Cleanup(workspace_do_send(s, o, w, target, "hidden"), o)

-----------------------------------------------------------------------------
(* The handlers.                                                               *)

\* The output last worked on, or the one in front or under the pointer: any the
\* registry knows.
chord_output(s) == DOMAIN s.outputs

\* How hiding and revealing go in one handler, for the windows it may touch.
Hides(s, o) ==
    [{w \in Members(s, o, ActiveId(s, o)) : ~Hidden(s, w)} -> HideOutcomes]

Reveals(s, o, id, hide) ==
    LET left == HideLeaving(s, o, hide)
        held == Members(s, o, id) \cap s.claims
    IN  [IF left.failed THEN left.fresh ELSE IF held = {} THEN {} ELSE held \cup left.fresh
            -> RevealOutcomes]

\* A member's window is on the monitor of its workspace, a new one on any.
Unders(s, current) ==
    {u \in [alive -> current] :
        \A w \in alive \cap DOMAIN s.membership :
            s.membership[w].output \in current => u[w] = s.membership[w].output}

Bounded == state'.minted <= MaxIds

SelectIn(s, o, id, under) ==
    \E hide \in Hides(s, o) : \E reveal \in Reveals(s, o, id, hide) :
        state' = workspace_do_select(s, o, id, hide, reveal, under).state

\* Numbered, relative and previous targets are the workspaces of the order; digit 0
\* is the one at its end, made when there is none empty.
Targets(s, o) ==
    {resolve_send_trailing(s, o)} \cup {[state |-> s, id |-> id] : id \in IdsOf(s, o)}

SelectSeen(seen, o, under) ==
    \E target \in Targets(seen, o) :
        target.id # 0 /\ SelectIn(target.state, o, target.id, under)

SelectChord ==
    /\ \E o \in chord_output(state), under \in Unders(state, state.known) :
          SelectSeen(Refreshed(ensure_output(state, o), under), o, under)
    /\ Bounded /\ UNCHANGED alive

\* The send is refused; it fails half way, or nobody can tell; the window stays
\* where it went; the user follows it.
SendIn(s, o, w, id, under) ==
    /\ id \in IdsOf(s, o) \ {s.membership[w].ws}
    /\ \/ state' = s
       \/ \E fate \in HideOutcomes : state' = workspace_do_send(s, o, w, id, fate)
       \/ state' = workspace_send_stay(s, o, w, id)
       \/ SelectIn(workspace_do_send(s, o, w, id, "hidden"), o, id, under)

SendSeen(seen, o, w, under) ==
    /\ MaySend(seen, o, w)
    /\ \E target \in Targets(seen, o) : SendIn(target.state, o, w, target.id, under)

SendChord ==
    /\ \E o \in chord_output(state), under \in Unders(state, state.known), w \in alive :
          SendSeen(Refreshed(ensure_output(state, o), under), o, w, under)
    /\ Bounded /\ UNCHANGED alive

StickyOn(w) ==
    /\ w \in alive \cap DOMAIN state.membership /\ ~Hidden(state, w) /\ w \notin state.sticky
    /\ state.membership[w].output \in state.known
    /\ state' = [state EXCEPT !.sticky = @ \cup {w}]
    /\ UNCHANGED alive

\* The window moves to the workspace in view, if it has one; it may have stayed
\* behind in one that is gone.
StickyOff(w) ==
    /\ w \in alive \cap state.sticky
    /\ LET loc == state.membership[w]
           view == ActiveId(state, loc.output)
       IN  /\ loc.output \in state.known /\ view # 0
           /\ state' = IF view = loc.ws THEN [state EXCEPT !.sticky = @ \ {w}]
                       ELSE assign(ensure_output(drop_member_state(state, {w}), loc.output),
                                   w, loc.output, view, FALSE)
    /\ Bounded /\ UNCHANGED alive

\* The workspace of a hidden window in front is opened; else claims are looked over.
SettleIn(audited, fg, under) ==
    \/ /\ fg \in audited.claims /\ audited.membership[fg].hidden
       /\ SelectIn(audited, audited.membership[fg].output, audited.membership[fg].ws, under)
    \/ \E lost \in SUBSET (audited.claims \ {fg}) :
          state' = [audited EXCEPT !.claims = @ \ lost]

\* Claims on windows that are dead are found first.
AuditIn(seen, fg, under) ==
    \E dead \in SUBSET (seen.claims \ alive) :
        SettleIn(audit_hidden_claims(seen, dead), fg, under)

MaintainIn(synced, fg, under) ==
    state' = synced \/ AuditIn(Refreshed(synced, under), fg, under)

\* workspace_maintenance on a quiet tick, with the monitors there are now (there
\* is always one).  dead, lost: claims found to be on windows that are gone, or
\* nobody's; fg: the window in front, whose workspace is opened when it is hidden.
Maintenance ==
    \E current \in SUBSET Outputs \ {{}}, fg \in alive \cup {None} :
    \E dest \in [state.known \ current -> current], under \in Unders(state, current) :
        /\ MaintainIn(sync_monitor_outputs(state, current, dest, fg), fg, under)
        /\ Bounded /\ UNCHANGED alive

\* Windows open and close.
Open(w) ==
    /\ w \notin alive \cup DOMAIN state.membership \cup state.claims
    /\ alive' = alive \cup {w} /\ UNCHANGED state

Close(w) == w \in alive /\ alive' = alive \ {w} /\ UNCHANGED state

-----------------------------------------------------------------------------
NewLoop ==
    [outputs |-> Empty, displaced |-> Empty, membership |-> Empty, previous |-> Empty,
     baseline |-> Empty, minted |-> 0, claims |-> {}, sticky |-> {}, known |-> {}]

Init ==
    /\ \E screens \in SUBSET Outputs \ {{}} :
          state = sync_monitor_outputs(NewLoop, screens, Empty, None)
    /\ state.minted <= MaxIds /\ alive = {}

Next ==
    \/ SelectChord \/ SendChord \/ Maintenance
    \/ \E w \in Windows : StickyOn(w) \/ StickyOff(w) \/ Open(w) \/ Close(w)

Spec == Init /\ [][Next]_vars

-----------------------------------------------------------------------------
(* What must hold.                                                             *)

\* Type of the record: every table is about outputs, windows and ids there are.
TypeOK ==
    /\ alive \subseteq Windows
    /\ DOMAIN state.outputs \subseteq Outputs /\ state.known \subseteq Outputs
    /\ \A o \in DOMAIN state.outputs :
          LET out == state.outputs[o]
          IN  /\ \A i \in DOMAIN out.order :
                    /\ out.order[i].id \in 1 .. MaxIds
                    /\ out.order[i].members \subseteq Windows
              /\ out.active \in 1 .. Len(out.order) \/ (out.order = <<>> /\ out.active = 1)
    /\ state.claims \subseteq Windows /\ state.sticky \subseteq DOMAIN state.membership

\* The two-view toggle goes where the user was: the baseline of an output is its
\* view, the view to go back to is one of its workspaces, and an output that is gone
\* has no history (workspace.rs:290-419, 845-925).
HistoryFollowsView ==
    /\ \A o \in DOMAIN state.outputs :
          /\ ActiveId(state, o) # 0 =>
                o \in DOMAIN state.baseline /\ state.baseline[o] = ActiveId(state, o)
          /\ o \in DOMAIN state.previous => state.previous[o] \in IdsOf(state, o)
    /\ DOMAIN state.baseline \cup DOMAIN state.previous \subseteq DOMAIN state.outputs

\* A window is in one workspace of one output and the map of members says which,
\* whatever monitors went and returned in between; only a sticky window may be on
\* record for a workspace that was tidied away (workspace.rs:712-804).  Whatever is
\* held hidden is on record as hidden in a workspace that can still be opened, so
\* that a select brings it back; the workspaces kept for a monitor exist; and the
\* history is of workspaces there are.
RegistryIsSound ==
    LET places == {<<o, i>> : o \in DOMAIN state.outputs, i \in 1 .. MaxIds}
        At(o, i) == state.outputs[o].order[i]
        used == {p \in places : p[2] \in DOMAIN state.outputs[p[1]].order}
    IN  /\ TypeOK /\ HistoryFollowsView
        /\ \A p, q \in used : At(p[1], p[2]).id = At(q[1], q[2]).id => p = q
        /\ \A p \in used : \A w \in At(p[1], p[2]).members :
              /\ w \in DOMAIN state.membership
              /\ state.membership[w].output = p[1]
              /\ state.membership[w].ws = At(p[1], p[2]).id
        /\ \A w \in DOMAIN state.membership \ state.sticky :
              w \in Members(state, state.membership[w].output, state.membership[w].ws)
        /\ \A w \in state.claims :
              /\ Hidden(state, w)
              /\ w \in Members(state, state.membership[w].output, state.membership[w].ws)
        /\ Displaced(state) \subseteq Live(state)

\* While the monitors stay and none takes its workspaces back, an output never turns to a
\* workspace with a window in it still held hidden: a reveal that fails leaves the view
\* (tiling_sys.rs:11154-11262).  What a monitor takes back may be what another shows,
\* which then shows a neighbour as it is (workspace.rs:868-882).
Step ==
    (state'.known = state.known /\ DOMAIN state'.displaced = DOMAIN state.displaced) =>
        \A o \in Outputs :
            ActiveId(state', o) # ActiveId(state, o) =>
                Members(state', o, ActiveId(state', o)) \cap state'.claims = {}

ViewsOpenRevealed == [][Step]_vars

\* tiling_sys.rs:11245 keeps at least two workspaces on an output, one of them empty;
\* a monitor that takes its workspaces back may leave the one that held them none.
EveryOutputHasAView ==
    \A o \in state.known \cap DOMAIN state.outputs : state.outputs[o].order # <<>>

=============================================================================
