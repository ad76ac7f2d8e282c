# OmniTiler: a TLA+ verification project

OmniTiler (repository `plasma-auto-tiler`) is a tiling window manager: a portable
planning core in Rust, a Linux session service that answers a KWin script over
D-Bus, and a native Windows host built on the same core. This directory holds
TLA+ models of the parts whose correctness depends on order, failure and limits,
TLC configurations that check them on small instances, and proofs that TLAPS
checks for every value of the constants.

## 1. Inventory

| Component | Where | State it keeps | Operations | Model |
|---|---|---|---|---|
| Reconciler | `crates/tiler-core/src/reconcile.rs` | pinned owner and generation, verified revision and fingerprint, one pending plan, a recorded divergence | seven propose routes, acknowledge, five verify operations, cancel, loss and mismatch signals, observation convergence | `Reconciler` |
| Session | `crates/tiler-core/src/session.rs`, `session/world.rs`, `session/ops/*.rs` | per-domain trees, window to leaf map, focus, exceptions and retained float geometry, the staged `pending_desired` state, an active drag | admit, remove, move, toggle float, toggle orientation, focus, resize, drag begin, preview, drop and cancel, acknowledge, verify, converge on an observation | `Session` |
| Tree operations | `cosmic_v1.rs`, `directional.rs`, `session/ops/*.rs`, `session/fit.rs`, `geometry.rs`, `size_hints.rs` | none (they compute the staged state) | tree edits, share arithmetic, geometry fitting | `TreeEdits`; geometry is not modelled |
| Engine | `crates/tiler-core/src/engine.rs`, `seed.rs`, `boundary.rs` | one session per output and workspace, bound owner and generation, the outer gap of each session | handle a request on a clone, acknowledge and verify it itself, store, rebuild or retire the slot, relocate, pair, split and migrate sessions | `Engine` |
| Protocol codec | `crates/tiler-protocol/src/planner_protocol.rs` | the binding of the engine to a client | parse and format JSON requests and replies | the binding, in `Engine` |
| Planner service | `crates/omnitiler/src/planner_service.rs`, `main.rs`, `lib.rs` | the engine behind a plan lock, the intent store behind an intent lock, the D-Bus name | DescribePlan, ReadFloatIntent, WriteFloatIntent, name ownership | `PlannerService` |
| Float intent store | `crates/omnitiler/src/float_intent_store.rs` | a durable file and a cached namespace with disjoint float and tile membership | load, read against the live windows, apply a delta, save atomically | `PlannerService` |
| Windows hide ledger and watcher | `crates/tiler-windows/src/product_hide.rs`, `lifecycle.rs`, `storage.rs` | the ledger file and its lease, tags on windows, runs and their watcher processes | hide, reveal, rehide, tear down, restore after a crash | `HideLedger` |
| Windows workspaces | `workspace.rs`, `workspace_owner.rs`, parts of `tiling_sys.rs` | per-monitor orders of workspaces, members, displaced workspaces, history, claims | select, send, sticky, tidy, monitors that go and return, audits | `Workspaces` |
| Windows window modes | `tiling_sys.rs` | tiled, floating and sticky tables, their marks on windows, the band a window had | toggle float and sticky, adopt after a restart, release a workspace | `WindowModes` |
| Windows keyboard hook | `snapkey.rs`, `settings.rs` | holds, pins, collisions, the Start menu mask, live settings | route, swallow or pass a key, mask, apply settings | `Keyboard` |
| Windows gestures | `win_mouse.rs`, `tiling_sys.rs` | the hold of the mouse hook, its queue, the gesture maps of the loop | take up edges and events, pause, cancel, settle | `Gestures` |
| Tray, KWin adapters, native effect, settings windows, packaging | `omnitiler/src/tray*.rs`, `kwin/`, `tiler-windows/src/settings_ui.rs`, `scripts/` | see section 6 | | not modelled |

How they interact. The KWin adapter observes windows and calls `DescribePlan` on
the session bus; the service takes the plan lock, decodes the request and hands it
to the engine, which finds (or seeds) the session of the domain, lets it propose on
a clone, acknowledges and verifies the plan itself, and stores the clone. The reply
carries frames and the adapter applies them. The user's choice to float or tile a
window is durable: the adapter reads it and writes deltas through the service into
the intent store, under a lock of its own. A reply may arrive after the adapter
timed out, after the service restarted, or after KWin itself did.

On Windows one process does all of it: hooks and window events queue what the user
does, one loop takes the queues up, asks the same engine for plans, and hides what is
not in view. Hiding is the dangerous part, because a hidden window whose tiler died is
lost to the user; a ledger on disk and a watcher process guard it.

Hard behaviours: late, repeated or foreign acknowledgements and verifications at
the reconciler; a staged state that must vanish or be committed exactly with its
plan; a plan and an intent call in parallel on two locks that both refuse to queue; a
crash between writing the temporary file and renaming it; a store whose namespace has
changed under its caller; the engine's rollback when a relocation or a crossing is
refused half way; a crash at any step of a hide, and a hide that lands after nobody
waits for it; a window handle that is given to another window; monitors that leave and
return between tidies; releases of keys whose press was routed under other settings;
Escapes, presses and ends of gestures that reach the loop by three queues.

## 2. Plan

| Step | Modules | State |
|---|---|---|
| 1 | `Reconciler`, `CommitProtocol`, `ReconcilerProofs` | modelled, checked, all properties proved |
| 2 | `PlannerService`, `PlannerServiceProofs` | modelled, checked, all safety properties proved |
| 3 | `Session`, `TilingTree`, `StagedStore`, `SessionProofs` | modelled, checked, all properties proved |
| 4 | `NaryTree`, `Directional`, `TreeSpec`, `TreeEdits` | modelled, checked |
| 5 | `Engine`, `EngineProofs` | modelled, checked, all safety properties proved |
| 6 | `HideLedger`, `HideLedgerProofs` | modelled, checked, all safety properties proved |
| 7 | `Workspaces`, `WorkspacesProofs`, `WindowModes`, `WindowModesProofs` | modelled, checked, their safety properties proved |
| 8 | `Keyboard`, `InputProofs` | modelled, checked, all properties proved |
| 9 | `Gestures`, `InputProofs` | modelled, checked, `HoldsAreKept` proved |
| 10 | `PlanAdapter` (KWin): one flight, debounce, timeout and retries | not started |

Each abstract specification (`CommitProtocol`, `StagedStore`, `TreeSpec`) is a
property of the detailed one; the first two are proved to be implemented.

## 3. Modules

### Reconciler, CommitProtocol

`Reconciler` is `reconcile.rs`. The variables are the fields of the struct:
`revision` and `fingerprint` (the verified pair), `pending` (the one slot, a record
or `None`), `diverged`; the pinned owner and generation are constants because no
operation assigns them. `log` is a history variable: the transitions committed so
far. Every public operation is an action. The order of the checks inside an
operation matters, because the first failing one names the divergence, so a list of
checks is a sequence of *gates* and `DivergeAtFirst` takes the first that fails. The
payloads of plans are abstracted to the set of faults a plan may have, one per
validation the code makes on its route (`RouteFaults`). Observations,
acknowledgements and postconditions are free: any owner, generation, correlation,
revision and outcome may arrive in any state, which covers messages lost, repeated,
late and foreign.

`CommitProtocol` is what a caller may rely on: one offer at a time, withdrawn before
acceptance or settled after it, and nothing after a halt.

### PlannerService

One module for `planner_service.rs` and `float_intent_store.rs`, because the hazards
are between them. A call goes through the stages `sent`, `admitted` (it holds the
guard), `verified` (the bus vouched for the uid), `authorized` (namespace and
sender), and, for a write, `temporary` and `renamed`; every `await` and every system
call of the code ends a stage, so another call, a crash (`EndPlanner`), a bus
disconnect (`DropConnection`) or a restart of KWin may fall there. `process` says
whether a planner owns a connection; `planner` whether its retained sessions are
fresh, retained or torn by a panic; `directory`, `file` and `temps` are what is on
disk and outlive the processes. `renames` is a history variable. Process ids may be
reused. The constant `Lingering` names the planners whose executor may finish a call
after the bus dropped them. Left out: the exit of a read whose reply exceeds the size
bound (`planner_service.rs:586`); it has the effects of any refused read.

### Session, TilingTree, StagedStore

`Session` is `session.rs`, `session/world.rs` and the operations under
`session/ops`. `world` is everything `pending_desired` replaces at once (trees,
links, exceptions, marks, focus, last active leaves); `desired` is `{}` or the staged
world; `stack` is the focus history, which is not staged; `drag` is `{}` or the
capture of `begin_drag`. The reconciler is its verdict: a proposal that passes the
session's own checks is staged or diverges, an acknowledgement or verification
succeeds or diverges. Refused calls change nothing and are no actions.

`TilingTree` is the tree without shares: which windows, which is before which, and
the groups as sets of members with an axis. A leaf is named by its window. Where a
directional move or a drop puts the window is left to `Rearranged`, every place the
tree has, so `Session` allows more destinations than the code; the exact
destinations are in `TreeEdits`, and its refinement of `TreeSpec`, which is built
from the same operators of `TilingTree`, is what links the two. A drop or a resize
may also leave every place as it was and change shares alone.

The constant `Unfloat` says what callers do with the plans of
`propose_toggle_float` on a floating window: `"any"` is the API as it stands;
`"settled"` means they always deliver the plan, which is what the engine does on the
clone it throws away otherwise; `"never"` leaves it out. See *Findings*.

`StagedStore` is the promise: a versioned store in which one change is staged,
accepted and committed as the next version or dropped without a trace. One step is an
exception the code makes: staging an unfloat already takes the record of the float out
of what is committed (`StagesUnfloat`), and nothing else.

### NaryTree, Directional, TreeSpec, TreeEdits

`NaryTree` is the tree the code has: ordered children and one integer share for
each. Insertion, removal with collapse of single-child groups, the flip and the
rescaling of shares are those of `session.rs` and `cosmic_v1.rs`; an edit is an
operator that returns the set of its results, empty when the code refuses.
`Directional` is the planner of moves and focus (`directional.rs`), the applier that
checks a planned move again (`session/ops/move.rs`), and the three kinds of drop
(`session/ops/drag.rs`). `TreeEdits` makes a machine of them: each edit works on the
tree the ones before left. A resize is any redistribution between two neighbours of
a group after scaling the group, which is what both resizes do; the pixel arithmetic
that chooses the scale is not modelled.

One behaviour of the code that a reader may take for a mistake of the model: a drop
into a gap counts the gap in the group as it was, with the dragged window still in
it.

### Engine

`Engine` is the map of sessions of `engine.rs` with the binding of the codec.
`sessions` and `outer_gaps` are the two maps of the struct, `binding` the owner and
generation they belong to, `desk` the desktop the requests are snapshots of, and
`reply` the last answer. A session appears by what the engine looks at: its client,
its area (rectangle and inner gap), the domains its windows tile or float in, its
focus and the windows it remembers for a lost one. Arrangements are `Session`'s
business: a proposal is the membership and focus it leads to, and it may always be
refused (`Fallible`). A handler maps an engine and a request to the set of answers it
may give, each with the engine it leaves, so that work on a copy that is given up is
an answer with the engine there was before. The engine acknowledges and verifies its
plans in the request, hence a stored session is at rest.

Transfers and migrations are handled before the binding is synchronised, as in
`planner_protocol.rs`: they work on `Current`, all other requests on `Bound`.

### HideLedger

The life of a run (`owner`), its watcher (`watcher`, `ready`), the lease, the ledger
file, and the windows with the tags on them and the requests in their queues.
`held`, `todo`, `job` and `doubt` are what an agent, a run or a watcher, holds in
memory: the claims of a run, what is left to reveal, the step it is at, and whether
some claim stayed uncertain. A hide is tag, note, post, wait and a look at the window;
a reveal is show, wait, untag and strike; every one of those ends a step, because the
run, the watcher or the program that owns the window may die or stall there, or the
handle may go to another window. `stray` is a history variable: the windows hidden by
a request that landed when nobody waited for it any more.

### Workspaces

One record, `state`, holds the registry of `workspace.rs` and the tables next to it;
every operation is an operator from record to record, so that a handler is the
composition of the calls it makes. The actions are the select chord, the send chord,
sticky on and off, a maintenance tick with the monitors there are at that moment, and
windows that open and close. How a hide or a reveal goes is an outcome chosen per
window (`HideOutcomes`, `RevealOutcomes`); `HideLedger` is where the outcomes come
from.

### WindowModes

What the user chose for a window is kept three times: in the tables of the loop, in
the session of its workspace, and in properties set on the window, which outlive the
process. The module has the choices, the failures in between, restarts, workspaces
that stop tiling with the release of their sessions, and the topmost band a floated
window is raised to. Two behaviours that are the code's: a float that failed records
that the window was topmost, and if its application lowers it afterwards it stays
topmost after an unfloat; and a choice made over a mark whose adoption was refused
leaves the older mark on the window (`want = "lost"`).

### Keyboard, Gestures

`Keyboard` is the keyboard hook: the routing of a press (`fresh_route`), the slot of
each arm it opens (`hold`), the pin that makes the release go where the press went,
collisions of two keys over one slot, the guard, live settings, and the mask that
keeps the Start menu closed while the takeover is on at the release of Win. Which
operation a chord names is left out. `odd`, `ate`
and `seen` are history.

`Gestures` is the mouse hook (`hook`), the window events (`events`) and the pass of
the tile loop that takes both up, pauses tiling while a managed window is held,
latches Escapes and settles what ended. The last three fields of a gesture are
history: the Escapes counted at its own start and end, and the window it took hold of.

### Proof and instance modules

Each proof module extends its component and bears its name, but for `InputProofs`,
which has a part about `Keyboard` and one about `Gestures`. The `MC` modules instantiate
components for TLC; a behaviour of such a module is of one instance or scene, chosen
in its first state.

## 4. Runs

| Run | Question | Instances and bounds |
|---|---|---|
| `core` (`MCEngine`) | does any interleaving of calls and messages break the single-slot discipline of the reconciler? do the engine's sessions account for every window, gap and domain? | `reconciler`: two owners, generations, correlations and fingerprints, revisions to 2, plans with up to two faults. `pairs`: two windows, two outputs, every request kind. `outputs`: three outputs, observations. `resized`: two rectangles, observations, gaps and floats. `migrating`: windows that float or show everywhere; observations, sends, migrations. `rebound`: two clients |
| `planner` (`MCPlannerService`) | is durable intent ordered, whole and owned, is every answer true, and does a guard leak? | two planners, one of which may linger, two KWin incarnations, one member per side. `order`: three writes or reads, the planner or KWin restarted. `refusals`: two calls, what is refused among them, reused process ids, any disk. `routes`: two calls of one planner, plans beside intents |
| `session` (`MCSession`) | trees, links, focus, marks, bystanders, and the promise of `StagedStore` | `pairs`: two windows, two workspaces or two outputs, revisions to 3. `shapes`: three windows in one domain, no unfloat. `fixed_size`: the opt-in for fixed sizes, two windows, fourteen ways to be seen, callers that settle an unfloat. `withdrawn`: one window, unfloat plans that may be withdrawn |
| `trees` (`MCTreeEdits`) | are the recursive edits those `Session` assumes, do planned moves apply, travel and end, are ratios kept? | `moves`: four windows, every tree with share totals to 5. `shares`: three windows, one resize, totals to 12 |
| `hide` (`MCHideLedger`) | can a hidden window be lost, whatever crashes? is the band of a window forgotten? | `reuse`: one handle that changes hands, two runs, two tags. `two`: two windows, queues of one, so that a teardown or restore stops half way. `heirs`: three runs after one window. `troubled`: `WindowModes` with every failure, one window, two workspaces |
| `workspaces` (`MCWorkspaces`) | is the registry one consistent map? do windows stay as the user chose? | `workspaces`: two monitors with one window, or one monitor with two, the first monitor there from the start, five workspaces made. `together`: `WindowModes` without failures, two windows, two workspaces |
| `progress` (`MCProgress`) | what must eventually happen; do presses and gestures keep their word? | one planner and two calls; two windows on two outputs; one window and two runs; two keyboards of two keys; one window whose handle is given away once, a queue of two edges |
| `session_withdrawn`, `engine_rebound`, `hide_late`, `workspaces_emptied`, `workspaces_rehomed` | the findings | the instance of the run it belongs to |

Why these bounds are enough. *Reconciler*: a message binds or does not bind, so one
foreign value beside the right one covers all; two revisions give a commit, a second
one on top of it and the refusal at the maximum. *Planner*: two calls meet on a lock
and three put a call before and after a pair that races; a second KWin makes the
namespace of the first stale. *Session*: two windows are enough for every rule about
a window and another one; three are the least for a group within a group and for a
focus history with a middle. The module's own constants are the envelope of the
instances', so that the properties are those of the module. The revision bound makes
the last revision reachable, where a convergence that changes something is refused and
every proposal diverges. *Trees*: four windows give every shape in which a move looks
at a grandparent and at a neighbour that is a group. Uneven groups come up in both
runs, some of them too large to grow: there insertion is refused, as the code's checked
arithmetic refuses it, and `EditsValidate` and `PlansApply` say what holds while the
groups have room (`Roomy`). *Engine*: a session is displaced by one other output, a
third is the least that a request may leave unnamed; of two windows one is the subject
and one a bystander. *Hide*: a successor and the successor of a successor meet the
ledger; two tags tell a hide from the one before it at the same handle.
*Workspaces*: two monitors give displacement and return, five workspaces a tidy
in between; the constraint `Small` keeps two windows to one monitor, because what the
monitors do to a window they do to each. *Keyboard* and *Gestures*: two keys share a
slot or an arm; one handle with two lives is the window that is not the one it was.
Symmetry is used where no rule compares names; `progress` checks liveness and uses
none.

Deadlock is checked except where the system may stop: after a divergence, when bounded
calls, runs or handles are used up, or when one scene has nothing more to do.

Fairness is assumed in `progress` only, and each assumption is the scheduling of the
code. `Serve(c)`: the planner's locks are taken with `try_lock`, the queries go to the
bus daemon, which answers or fails, and file operations return, so nothing outside its
process holds up a call that has arrived. `ReconcileRequest`: the adapters observe
every domain again after every change. `Watch(r)` and `Reveal` of a watcher: it is a
loop of its own process with timeouts on everything it waits for. `ServeQueue`: a
program serves its windows' queues; needed because `MaxQueue` makes a post wait for
room, which the code's posts do not. Nothing is assumed of callers, of KWin, of
restarts or of crashes.

### What the properties say

- *Reconciler.* A waiting plan is bound to the revision that is still the verified
  one and has room to commit (`PendingIsCurrent`); the history has neither gaps nor
  repeats, whatever mix of plans and observations made it (`HistoryIsGapless`);
  nothing commits unaccepted and an observation swallows no plan
  (`OnlyAcceptedPlansCommit`); an accepted plan is committed as dispatched or ends in
  a recorded divergence (`AcceptedPlanIsSettled`); `ImplementsCommitProtocol`.
- *Engine.* After a plan, the sessions of the domains it was about hold exactly the
  windows observed there, each in one of them, and the outer gaps have an entry for
  each retained session and no other (`PlansAccountForWindows`); a refused crossing
  loses no window, and a session that no request named goes whole, as a displaced one,
  or stays as it was (`NothingGoesUnasked`); a plan is made in the area and of the
  tiles that are retained after it (`PlansMatchStore`); once the desktop stops
  changing every session comes to agree with it (`Settles`).
- *Planner.* Writes reach the file in the order of the calls, but for a planner that
  lingers, and a read returns the last completed write (`SnapshotsInOrder`); a snapshot
  on disk is one a KWin wrote under its own namespace and temporary files belong to the
  call that made them (`FilesAccounted`); `stored` and refusals are true
  (`AnswersTellTheTruth`); locks are held exactly by the calls in service and sessions
  torn by a panic are never used (`GuardsReleased`); each call ends (`CallsEnd`). The
  exception for lingering planners is the code's: neither lock nor file orders a
  process the bus has dropped and its successor.
- *Session.* The committed and the staged world keep a valid topology and the focus
  history is live (`TopologyHolds`); a world is staged exactly with a plan and a drag's
  capture is the live session (`DragStaysCurrent`); while no unfloat plan was withdrawn
  the classifier's marks name members and do not compete (`MarksHold`); no step
  disturbs the windows it is not about (`SurvivorsKeepTheirPlaces`);
  `ImplementsStagedStore`.
- *Trees.* The planner and the applier agree (`PlansApply`), a move travels its way
  and repeated moves end at the edge (`MovesTravel`), focus comes back to the branch it
  left and agrees with moves on where the edge is (`EdgesAgree`), drops land where they
  were released (`DropsLand`), no edit fails its own validation while the shares have
  room (`EditsValidate`), a user's ratio between two neighbours survives what happens
  to others (`RatiosKept`); `ImplementsTreeSpec`.
- *Hide.* A window the tiler hid is named by the ledger under its process and its tag,
  unless the hide strayed (`WindowsRecoverable`); nobody but its owner changes the
  ledger of a living run, and one run's ledger never turns into another's
  (`LedgersStayWithTheirOwner`); a run that ends stops its watcher only when nothing is
  left to recover (`WatcherOutlivesNotes`); the watcher of a dead run ends
  (`WatchersFinish`).
- *Workspaces and modes.* Members, claims, displaced workspaces and histories are of
  workspaces there are, each window in one (`RegistryIsSound`); while the
  monitors stay and none takes its workspaces back, no output turns to a workspace with a
  window still held hidden in it (`ViewsOpenRevealed`); a window is
  tiled, floats or sticks as the user last chose (`ModesFollowUser`); a session is of
  its workspace and not from before it stopped tiling (`SessionsAreTheirs`); what a
  window had before it was raised is known while it is raised, and the other two hold
  under every failure (`BandsComeBack`).
- *Keyboard and mouse.* Presses and releases stay paired for the system
  (`PairsClose`), but for two presses the code does not pair: one the system
  saw before a repeat of it was taken for a chord, and one that shares G with another
  key (comments at `snapkey.rs:1041` and `1047` say otherwise). A swallowed chord or drag
  never opens the Start menu (`StartStaysClosed`), but for one release the code does not
  mask: that of Win while the takeover is off. Whether a mask is sent goes by the takeover
  of that moment (`snapkey.rs:4815`, `1578`), so that settings which turn it off between a
  swallowed chord and the release open Start, where the comments at `snapkey.rs:4487-4492`
  and `1155-1157` say that the mask obligation survives the change (`TakeoverOff`); turned
  off and on again before the release, it does. A gesture is cancelled exactly by the
  Escapes between its own start and end, unless it met the entries of another gesture
  (`EscapeDecides`, with `DrainLimit` no less than the queue and no Escape injected); a
  release goes where its press went, whatever pauses tiling is still held or its end is
  on the way, and a gesture drops the window it took hold of (`HoldsAreKept`).

### Findings

- `session_withdrawn`: `propose_toggle_float` on a floating window replaces the
  session by a copy without the exception when the plan is staged, before it is
  acknowledged. Cancelling that plan does not put the exception back: the window is in
  no membership and its automatic mark stays, where the comments say that marks are
  cleared with membership and that cancellation preserves exceptions. The engine
  proposes on a clone, which masks it.
- `engine_rebound`: a request of another owner or generation discards every retained
  session and is answered, where `docs/decisions.md:1524` says it is rejected and
  leaves the retained session.
- `hide_late`: a hide that outlives its wait stays queued; a reveal in between finds
  the window visible, takes its tag and strikes its note, and then the hide lands with
  nothing naming the window, where `product_hide.rs:9` says the note leaves only after
  a verified reveal.
- `workspaces_emptied`: a monitor that gives back the workspaces of another, after a
  tidy removed its own empty ones, is left without a workspace, where
  `tiling_sys.rs:11245` keeps at least two.
- `workspaces_rehomed`: unsticking a window re-homes it to the workspace in view and
  writes that workspace's frames even when it does not tile, where `tiling_sys.rs:4099`
  says floating workspaces leave frames untouched.

Seen while modelling, and left out of the properties: with `Injected = TRUE` and two
Escapes, an injected Escape counts for one of the two counters of `Gestures` only and
the next tap just before a Win-drag cancels it, against `snapkey.rs:4443`; a backlog
of more edges than one pass takes up (`DrainLimit` below the queue) lets a tap overtake
them; a window that becomes managed in mid-drag posts an END without a START.

## 5. Proofs

Every theorem is for all values of the constants under the assumption its module
declares (`Assumption`): sets are sets of the right kind, bounds are natural numbers,
the workspaces of `WindowModes` are numbered, and `None` is none of the values it stands
beside. TLC evaluates the assumptions on
every instance.

| Module | Theorem | Property |
|---|---|---|
| `ReconcilerProofs` | `TypeCorrectness`, `PlansStayCurrent`, `GaplessHistory`, `AcceptedHistory`, `SettledAcceptance`, `Implementation` | all six of the reconciler |
| `PlannerServiceProofs` | `Invariance`, `Guards`, `Accounting`, `Truthfulness`, `Ordering`, `PlansWaitForPlans` | `GuardsReleased`, `FilesAccounted`, `AnswersTellTheTruth`, `SnapshotsInOrder`, and that a plan is busy because of a plan only |
| `HideLedgerProofs` | `Invariance`, `Recoverable`, `LedgersStay`, `WatcherOutlives` | `WindowsRecoverable`, `LedgersStayWithTheirOwner`, `WatcherOutlivesNotes` |
| `SessionProofs` | `Dragged`, `Sane`, `Marking`, `Implementation`, `Placed` | `DragStaysCurrent`, `TopologyHolds`, `MarksHold`, `ImplementsStagedStore`, `SurvivorsKeepTheirPlaces` |
| `EngineProofs` | `EngineInductive`, `PlansAccountForWindowsAlways`, `PlansMatchStoreAlways`, `NothingGoesUnaskedEver` | `PlansAccountForWindows`, `PlansMatchStore`, `NothingGoesUnasked` |
| `InputProofs` | `PairsCloseAlways`, `StartStaysClosedAlways`, `HoldsAreKeptAlways` | `PairsClose`, `StartStaysClosed`, `HoldsAreKept` |
| `WorkspacesProofs` | `RegistryIsSoundAlways`, `ViewsOpenRevealedAlways` | `RegistryIsSound`, `ViewsOpenRevealed` |
| `WindowModesProofs` | `HostIsSane`, `ModesFollowUserAlways`, `SessionsAreTheirsAlways`, `BandsComeBackAlways` | `ModesFollowUser`, `SessionsAreTheirs`, `BandsComeBack` |

*Reconciler.* A lemma per operation reduces it to one of a few *effects* (`Stages`,
`Accepts`, `Diverges`, `CommitsPlan`, `CommitsObservation`, `Withdraws`), which is
where the gates are looked at, and `StepEffect` collects them. `Inv` is the
conjunction of `TypeOK`, `PendingIsCurrent`, `HistoryIsGapless` and
`OnlyAcceptedPlansCommit`: none is inductive alone, since a commit extends the history
with the *plan's* base revision, which closes the gap only because the plan is
current, and a plan is current only because observations do not commit beside it. The
refinement maps each effect to one step of the protocol or to a stutter.

*PlannerService.* `Inv` adds to the properties what the stage of a call says of it
(`StageTells`: which lock it holds, at a planner that is up, with which namespace and
temporary file), that every planner with a connection owns its process
(`ProcessesNamed`), that a rename leaves a file, and `PastIsDone`: a call sent after
another was answered can no longer be overtaken by it. That last part is what orders
the snapshots: the lock orders two calls of one planner, the loss of the name those of
two, and `Lingering` is where neither does.

*HideLedger.* `Inv` says that one agent works at a time and holds the lease
(`LeaseHeld`, `WorkUnderLease`), that what an agent has claimed or is about to reveal
is noted, and, in a teardown or a restore, that what is noted is still to be revealed
unless something was in doubt (`NotesKept`); that a queued or landed hide is of a
window whose tag is noted, or strays (`HidesNamed`); and that a window found shown
stays shown until somebody hides it (`SeenIsShown`). Steps are reduced to three
effects: a program serves or changes a window (`Settles`), the working agent takes one
step (`Work`), or the lease passes (`Passes`).

*Session.* `DragInv` (plans and drags exclude each other, the capture is the live
session) is inductive alone. `SessionInv` is that the known domains are framed by the
constants, every world, committed or staged, is *sound* (its trees are trees, its
links go both ways, its exceptions are homed, its focus resolves), the focus histories
are live, and a revision is left while a plan is out. Its proof climbs in three
layers: each edit of `TilingTree` keeps a tree; each operation *becomes* a sound world
with given tiles, floats and marks; each action plans, settles, converges or drags with
such worlds. Operators that fold over a sequence or a set of windows are recursive
functions in the model; the lemmas about them are by a least counterexample, found
with the well-foundedness of the natural numbers and of finite sets, because the
induction theorems cannot be instantiated. `MarksInv` adds that while no unfloat plan
was withdrawn the marks exclude each other, and name members unless an unfloat plan is
out or the session has halted. For the refinement, the *content* of a world determines
it up to focus, and each action is `Stage`, `Accept`, `Withdraw`, `Settle`, `Adopt`,
`Close` or a stutter of `StagedStore`. `PlacesInv` says the staged world leaves
undisturbed the windows its plan is not about: the leaves two trees have in common are
in the same order and grouping (`Alike`), which composes along a sequence of edits; a
convergence, which makes many, is an induction of its own (`InPlace`).

*Engine.* No assumption on the constants is needed. A retained session is a *world*
(`WorldOK`: tiles and floats apart and homed in the session's domains, the focus
remembered and tiled), and an engine is `Sound` when it has a world of its own domain
for each key and a gap for the same keys. The proof climbs in three layers. Each
operation on a world, converging, pairing, halving, re-homing, proposing, keeps worlds
and says which windows it leaves (`Holds`). Each operation on the maps keeps engines
sound and says what it leaves as it was (`Alike`). Each request handler then gives only
answers that are `Answered`: the engine they leave is sound; sessions outside the request
are as they were or went whole to it (`Keeps`); a plan holds what is in sight
(`InSight`) and is of what is retained (`Matches`); a refused crossing lost nothing
(`NothingLost`). Where a relocated session is worked on before it is known to be whole,
the handler carries the promise that it will be (`Carried`), which a plan has to redeem
and a refusal escapes by giving the copy up. `HandleOK` turns an answer into the
invariant and the action property, one request at a time; `IInv` is soundness with the
two properties of the last plan, which each request establishes afresh.

*Keyboard.* `PairsClose` follows the routes of the present moment and is not inductive:
a route changes with the modifiers and the tables while a key is down. `KeyInv` speaks
of the holds instead. A slot that is held and pinned has one key pinned to it, but for
the two slots that share G, whose keys are all `odd` when they are several
(`SlotInv`); a key that collided has no pin; and a key that is down and not `odd` was
taken down by the system exactly if neither its own slot nor a collision holds a
swallowed verdict for it (`Paired`). For a key that is not `odd` that is the verdict
its release will get (`OwnRelease`). `MaskInv` says that a Win key held after something
was swallowed is masked, or the mask is pending with its trigger, whatever the settings
do: that is what the last Win-up finds. The invariant needs no takeover; the step that
sends the mask does, and `StartStaysClosedAlways` is of releases with the takeover on.

*Gestures.* None of the three parts of `HoldsAreKept` is inductive: a pause of the loop
begins with an edge queued long before, in a pass that takes up only some of the queue.
`GesturesInv` speaks of the queues instead. Every press queued is of a window whose hold
is still there, or has its end queued behind it (`HookOK`; `EventsOK` says it of the
moves of Windows), so that taking up any number of edges leaves whoever is active waiting
for something that comes (`Waits`): the user, an event or edge still queued, or a loss
noted. The hook has the button exactly if it will consume its release. And the window
a gesture took hold of lies between the window its entry was keyed with and the one the
handle has now (`LoopOK`): a settlement that finds key and handle agree has therefore the
same window. A pass takes up its queues one entry after the other; what they leave is
proved by induction over the entries, as a least counterexample again (`UpTo`).

*WindowModes.* `ModesFollowUser` is about the host a tick would leave, so it is proved
of an invariant about the present one. `IInv` says of every open window what its marks,
the tables and the sessions may be given the last choice of the user (`Choice`: nothing
says of a tiled window that it floats; a floating one has its mark and no sticky one; a
sticky one has its sticky mark), that sessions and tables hold members, and, while the
process runs, that every band it raised is known (`Bands`). The tables of a choice are
left open, because after a restart they are empty and the marks carry the choice until
they are adopted. Handlers that make no choice keep `Good`, which is `IInv` of a running
process. A choice gives it up at its first call and may stop at any later one: the
hosts in between are `OnTheWay` (all is right but for the window chosen about), with
what is known of its marks by then (`Unstuck`, `Unmarked`), and each way out, done or
failed, ends in `Good`. Where the first mark went and the second stayed nobody's word is
left (`want = "any"`), and the proof needs the model to say so. The adoption of marks is
a recursive function over the workspaces and handled by induction; that it leaves no mark
in a complete workspace unless a request is refused is what `ModesFollowUser` adds to
`IInv` (`TickAdopts`).

*Workspaces.* A handler composes operators on one record, so there is a lemma for each
of them, and the actions follow by composition. What a handler keeps is `Good`: the
registry is `Sound` (orders without repeats and of one output each, a view in range;
members exactly those on record, for ids that were minted; a window on record for a
workspace there is, or sticky; claims on members on record as hidden that are not
sticky; what is kept for a monitor that is gone is alive and elsewhere), and the
`History` follows the views. `RegistryIsSound` alone is not inductive: that a claimed
window is never sticky is what lets sticky windows lose their workspace, and that ids are
minted once is what keeps a new workspace from being an old one. In the middle of a
handler the history of an output may be out of step, so it is stated for all outputs but
some. Filters and passes over outputs are recursive functions in the model (`Picked`,
`Each`) rather than folds of an operator, which the prover does not see into; what they
compute is proved by induction over their length, as a least counterexample (`UpTo`).

`ViewsOpenRevealed` compares the end of a handler with its beginning, so the lemmas also
say how far an operator goes: a `Steady` one turns no view and holds nothing hidden that
was not, in the same place; a `Mild` one may hide at one output; `Calm` compares with the
registry the handler began with, and both keep it. The one operator that turns a view on
purpose is a select: what it has just hidden is in the workspace it leaves, and what was
hidden in the one it enters has been revealed, or it does not turn (`SelectTurns`). A pass
over monitors is steady when none comes, goes or takes its workspaces back, which is the
premise of the property.

Only model-checked. Liveness under fairness (`CallsEnd`, `Settles`, `WatchersFinish`)
and `ENABLED` are outside this prover. So are the modules with recursive operators,
`NaryTree`, `Directional` and `TreeEdits`, where TLC checks every tree of four windows
instead. Not proved: `EscapeDecides`, which is no theorem for all constants (a
queue longer than a pass takes up, or injected Escapes, break it, see the end of
section 4).

## 6. Not modelled

- *Geometry, size hints, fitted admission*: pure functions over pixels.
- *Tray*: a projection of groups that decides nothing.
- *KWin adapters*: the plan adapter (one flight, correlation and epoch, debounce,
  timeout, three attempts), the workspace send adapter with its two timers, the
  highlight and the drag pull. What they may do to the planner, late, repeated,
  withdrawn and foreign requests, is the free input of the reconciler, the service and
  the engine; their own state is not modelled.
- *KWin native effect*, *settings windows*, *borders*, *packaging*.
- *Codec*: JSON keeps no state; that a transfer or migration of a restarted client is
  handled before its binding is (`planner_protocol.rs:2497`) is in `Engine`, but no
  document says what should come of it.
- In `Session`: geometry, shares, retained float rectangles, the canonical pair and its
  split (those are in `Engine`), fitted admission.
- In `Engine`: arrangements, fixed-size admission, placement traces, the active group's
  content, output selection.
- In `Workspaces`: the focus a workspace remembers, the default mode, the adoption of
  hidden windows after a restart, and the relocation of a departed output with no
  survivor (`tiling_sys.rs:15432`), which needs an observation without any output.
- In `WindowModes`: windows born fullscreen or maximized, tile overrides, monitors,
  sends, the fingerprint of retries, tags lost with their window. A closed window is
  struck from every session at once (`drop_member_state`); in the code its token, which
  no observation names any more, stays with the engine until the session's next request.
  A handle given to another process between the two calls of one raise
  (`tiling_sys.rs:7848`) is left out.
- In `Keyboard`: which operation a chord names, diagnostics, the parsing of settings.
- In `Gestures`: the drop preview, borders, keyboard batches, failing probes; a process
  killed in the middle of a move is assumed to have its END delivered; releases lost on
  the lock screen.
- In `TreeEdits`: rectangles; share totals are 64-bit numbers with checked arithmetic in
  the code and refuse at a small bound in the same places here.
