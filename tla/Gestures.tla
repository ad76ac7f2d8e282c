------------------------------- MODULE Gestures -------------------------------
(* Pointer gestures of the Windows host                                       *)
(* (src/crates/tiler-windows/src/win_mouse.rs: the mouse hook; tiling_sys.rs: *)
(* the window events, the tile loop and gesture_tick).                        *)
(*                                                                            *)
(* The user moves a window by its title bar (a modal loop of Windows, told by *)
(* two window events) or with Win held (the hook swallows the button and      *)
(* queues its edges).  Hook and events only queue; the loop takes both up in  *)
(* one pass, which pauses tiling while a managed window is held and settles   *)
(* the gestures that ended.  Callbacks run on the loop's thread while it      *)
(* waits for messages, so a pass is one step.                                 *)
(*                                                                            *)
(* The drop preview, the border and the keyboard batches of a pass are left   *)
(* out, and so are windows that float; the takeover gate is on.               *)
EXTENDS Integers, Sequences

CONSTANTS
  Hwnds,      \* window handles
  Lives,      \* bound: windows that have a handle one after the other
  Escapes,    \* bound: presses of Escape
  Events,     \* bound: window events waiting for the loop
  WindragQueueCap, \* WINDRAG_QUEUE_CAP
  DrainLimit, \* WINDRAG_MAX_DISPATCH_PER_TICK
  Injected    \* whether programs inject Escape as well

Nil == "none"
NoRelease == <<Nil, Nil>>
Absent == -1

\* A handle is not the null of the code.
GesturesAssumption ==
  /\ Nil \notin Hwnds
  /\ Lives \in Nat \ {0} /\ Escapes \in Nat /\ Events \in Nat \ {0}
  /\ WindragQueueCap \in Nat \ {0} /\ DrainLimit \in Nat \ {0} /\ Injected \in BOOLEAN

VARIABLES
  life,     \* [Hwnds -> the window that has the handle now]
  shown,    \* windows in a state the loop manages
  veto,     \* the foreground forbids tiling
  button,   \* the left button: "up", or who got its press: "app" or "hook"
  released, \* history: of whose press the step was the release, and who got it
  moving,   \* the window in a modal move loop of Windows, or Nil
  esc,      \* physical Escapes: the edge not yet taken, and their number
  windrag_esc, \* the same of all Escapes
  events,   \* the window events queued (hook_queue)
  hook,     \* the mouse hook: its arm, edges, losses, published windows
  loop,     \* the tile loop
  settled   \* history: what the step made of the gestures that ended

env == <<life, shown, veto>>
gestureVars == <<env, button, released, moving, esc, windrag_esc, events, hook, loop, settled>>

(* The entries of the gesture maps under one handle.  The last three are      *)
(* history: the Escapes counted at the gesture's own start and end, the       *)
(* window it took hold of, and whether entries of another gesture were there. *)
Blank == [before |-> FALSE, start |-> Absent, end |-> Absent, key |-> Absent,
          windrag |-> FALSE, bound |-> FALSE, latched |-> FALSE,
          from |-> Absent, to |-> Absent, who |-> Absent, odd |-> FALSE]

GesturesInit ==
  /\ life = [h \in Hwnds |-> 1] /\ shown \in SUBSET Hwnds /\ veto = FALSE
  /\ button = "up" /\ released = NoRelease /\ moving = Nil
  /\ esc = [edge |-> FALSE, seq |-> 0] /\ windrag_esc = esc
  /\ events = <<>>
  /\ hook = [bound |-> Nil, swallow_up |-> FALSE, edges |-> <<>>, lost |-> FALSE,
             origins |-> [h \in Hwnds |-> Absent]]
  /\ loop = [managed |-> {}, active |-> {}, known |-> [h \in Hwnds |-> Absent],
             origins |-> [h \in Hwnds |-> Absent], of |-> [h \in Hwnds |-> Blank]]
  /\ settled = {}

-----------------------------------------------------------------------------
(* The mouse hook                                                             *)

\* push_terminal: the end of a gesture displaces the oldest edge of a full queue.
PushTerminal(k, edge) ==
  IF Len(k.edges) < WindragQueueCap THEN [k EXCEPT !.edges = Append(@, edge)]
  ELSE [k EXCEPT !.edges = Append(Tail(@), edge), !.lost = TRUE]

Edge(kind, h, snapshot) ==
  [kind |-> kind, hwnd |-> h, seq |-> windrag_esc.seq, snapshot |-> snapshot,
   who |-> life[h]]

\* A mutant: the hold goes and its release with it.
Dropped(k) ==
  IF k.bound = Nil THEN k
  ELSE PushTerminal([k EXCEPT !.bound = Nil], Edge("cancel", k.bound, Absent))
\* WinHookArm::clear and invalidate: the release of the swallowed press stays ours.
Disarmed(k) ==
  IF k.bound = Nil THEN k
  ELSE PushTerminal([k EXCEPT !.bound = Nil, !.swallow_up = TRUE],
                    Edge("cancel", k.bound, Absent))
Invalidated(k, gone) == IF k.bound \in gone THEN Disarmed(k) ELSE k

\* The hook takes a press on a published window with Win held, if it can queue it.
Taken(h) == hook.origins[h] # Absent /\ hook.bound = Nil
Press(h) ==
  /\ button = "up" /\ moving = Nil
  /\ \E win_held \in BOOLEAN :
       LET full == Len(hook.edges) >= WindragQueueCap
           candidate == win_held /\ hook.origins[h] # Absent
       IN  IF win_held /\ Taken(h) /\ ~full
           THEN /\ button' = "hook"
                /\ hook' = [hook EXCEPT !.bound = h,
                                        !.edges = Append(@, Edge("down", h, hook.origins[h]))]
           ELSE /\ button' = "app"
                /\ hook' = [hook EXCEPT !.lost = @ \/ (candidate /\ full)]
  /\ released' = NoRelease /\ settled' = {}
  /\ UNCHANGED <<env, moving, esc, windrag_esc, events, loop>>

\* WinHookArm::on_up, and what the callback makes of it.
Consumed == hook.bound # Nil \/ hook.swallow_up
Release ==
  /\ button # "up" /\ moving = Nil
  /\ button' = "up"
  /\ released' = <<button, IF Consumed THEN "hook" ELSE "app">>
  /\ hook' = IF hook.bound # Nil
             THEN PushTerminal([hook EXCEPT !.bound = Nil], Edge("up", hook.bound, Absent))
             ELSE [hook EXCEPT !.swallow_up = FALSE]
  /\ settled' = {}
  /\ UNCHANGED <<env, moving, esc, windrag_esc, events, loop>>

-----------------------------------------------------------------------------
(* Window events, and what else the user and other programs do                *)

Event(kind, h) == [kind |-> kind, hwnd |-> h, seq |-> esc.seq]

\* winevent_proc for EVENT_SYSTEM_MOVESIZESTART and END, by mouse or keyboard.
NativeStart(h) ==
  /\ moving = Nil /\ button # "hook" /\ Len(events) < Events
  /\ moving' = h /\ events' = Append(events, Event("start", h))
  /\ released' = NoRelease /\ settled' = {}
  /\ UNCHANGED <<env, button, esc, windrag_esc, hook, loop>>
NativeEnd ==
  /\ moving # Nil
  /\ moving' = Nil /\ events' = Append(events, Event("end", moving))
  /\ released' = NoRelease /\ settled' = {}
  /\ UNCHANGED <<env, button, esc, windrag_esc, hook, loop>>

\* A physical Escape counts for both kinds of gesture, an injected one for ours.
Escape(physical) ==
  /\ windrag_esc.seq < Escapes /\ (physical \/ Injected)
  /\ windrag_esc' = [edge |-> TRUE, seq |-> windrag_esc.seq + 1]
  /\ esc' = IF physical THEN [edge |-> TRUE, seq |-> esc.seq + 1] ELSE esc
  /\ released' = NoRelease /\ settled' = {}
  /\ UNCHANGED <<env, button, moving, events, hook, loop>>

\* A window is minimised, maximised, restored or shown.
Reshow(h) ==
  /\ shown' = IF h \in shown THEN shown \ {h} ELSE shown \cup {h}
  /\ released' = NoRelease /\ settled' = {}
  /\ UNCHANGED <<life, veto, button, moving, esc, windrag_esc, events, hook, loop>>

\* A window closes and its handle is given to another.
Recycle(h) ==
  /\ h # moving /\ life[h] < Lives
  /\ life' = [life EXCEPT ![h] = @ + 1]
  /\ \E s \in BOOLEAN : shown' = IF s THEN shown \cup {h} ELSE shown \ {h}
  /\ released' = NoRelease /\ settled' = {}
  /\ UNCHANGED <<veto, button, moving, esc, windrag_esc, events, hook, loop>>

\* suspend_read: another application goes full screen, or stops being it.
Foreground ==
  /\ veto' = ~veto
  /\ released' = NoRelease /\ settled' = {}
  /\ UNCHANGED <<life, shown, button, moving, esc, windrag_esc, events, hook, loop>>

-----------------------------------------------------------------------------
(* The parts of a pass.  s is the loop with the hook: [loop, hook].           *)

\* capture_gesture_start: the first start wins in every map.
Captured(g, h, seq, who) ==
  [g EXCEPT !.before = TRUE,
            !.start = IF @ = Absent THEN seq ELSE @,
            !.key = IF @ = Absent THEN life[h] ELSE @,
            !.from = seq, !.to = Absent, !.who = who,
            !.odd = g.odd \/ g.before \/ g.end # Absent]

\* A mutant: the count of Escapes when the end is taken up.
EndBoundNow(g, seq, windrag) ==
  [g EXCEPT !.end = IF @ = Absent THEN windrag_esc.seq ELSE @, !.to = seq,
            !.odd = @ \/ g.end # Absent \/ (g.before /\ g.windrag # windrag)]
\* The end's count of Escapes; the first end wins.
EndBound(g, seq, windrag) ==
  [g EXCEPT !.end = IF @ = Absent THEN seq ELSE @, !.to = seq,
            !.odd = @ \/ g.end # Absent \/ (g.before /\ g.windrag # windrag)]

\* The window events.
HandleStart(l, e) ==
  [l EXCEPT !.of[e.hwnd] = Captured(@, e.hwnd, e.seq, life[e.hwnd]),
            !.active = @ \cup {e.hwnd}]
HandleEnd(l, e) ==
  [l EXCEPT !.of[e.hwnd] = EndBound(@, e.seq, FALSE), !.active = @ \ {e.hwnd}]

\* clear_windrag_gesture.
Cleared(l, h) ==
  IF l.of[h].windrag \/ l.of[h].bound
  THEN [l EXCEPT !.of[h] = Blank, !.active = @ \ {h}]
  ELSE l

\* A mutant: the window published then is not compared with the one there now.
DownStandsUnread(l, e) ==
  /\ e.hwnd \in l.managed /\ l.origins[e.hwnd] # Absent
  /\ e.hwnd \notin l.active /\ ~l.of[e.hwnd].before /\ ~l.of[e.hwnd].bound
  /\ e.snapshot = l.origins[e.hwnd] /\ l.known[e.hwnd] = e.snapshot
\* windrag_down: the press must be of the window published then and there now.
DownStands(l, e) ==
  /\ e.hwnd \in l.managed /\ l.origins[e.hwnd] # Absent
  /\ e.hwnd \notin l.active /\ ~l.of[e.hwnd].before /\ ~l.of[e.hwnd].bound
  /\ e.snapshot = l.origins[e.hwnd] /\ e.snapshot = life[e.hwnd]
  /\ l.known[e.hwnd] = e.snapshot
HandleDown(l, e, willing) ==
  IF ~DownStands(l, e) THEN l
  ELSE LET armed == [l EXCEPT
             !.of[e.hwnd] = [Captured(@, e.hwnd, e.seq, e.who) EXCEPT
                                !.windrag = TRUE, !.bound = TRUE],
             !.active = @ \cup {e.hwnd}]
       IN  IF veto \/ e.hwnd \notin willing THEN Cleared(armed, e.hwnd) ELSE armed

\* windrag_up: it needs the hold its press made.
HandleUp(l, e) ==
  IF l.of[e.hwnd].bound /\ l.of[e.hwnd].windrag /\ e.hwnd \in l.active
  THEN [l EXCEPT !.of[e.hwnd] = EndBound(@, e.seq, TRUE), !.active = @ \ {e.hwnd}]
  ELSE l

\* What is queued, in its order: window events, and edges of the hook.
Handle(l, e, willing) ==
  CASE e.kind = "start"  -> HandleStart(l, e)
    [] e.kind = "end"    -> HandleEnd(l, e)
    [] e.kind = "down"   -> HandleDown(l, e, willing)
    [] e.kind = "up"     -> HandleUp(l, e)
    [] e.kind = "cancel" -> Cleared(l, e.hwnd)
Handled(l, queue, count, willing) ==
  LET handled[n \in 0..count] ==
        IF n = 0 THEN l ELSE Handle(handled[n - 1], queue[n], willing)
  IN  handled[count]

\* publish_managed, then ensure_workspace_assignments: what leaves the managed
\* windows leaves the maps, and the hook lets go of it.
Kept(of, managed) == [h \in Hwnds |-> IF h \in managed THEN of[h] ELSE Blank]
Published(s) ==
  LET l == s.loop
      producers == {h \in Hwnds : l.of[h].windrag}
  IN  [loop |-> [l EXCEPT
         !.managed = shown,
         !.of = Kept(@, shown),
         !.origins = [h \in Hwnds |->
            IF h \in shown /\ l.known[h] = life[h] THEN life[h] ELSE Absent],
         !.known = [h \in Hwnds |-> IF h \in shown THEN life[h] ELSE @[h]]],
       hook |-> Invalidated(s.hook, producers \ shown)]

\* A mutant: the holds are given up, but not the pause they made.
LossForgotten(s, seen) ==
  LET open == {h \in Hwnds : s.loop.of[h].bound}
  IN  IF ~s.hook.lost THEN s
      ELSE [s EXCEPT !.hook.lost = FALSE,
                     !.loop.of = [h \in Hwnds |-> IF h \in open THEN Blank ELSE @[h]]]
\* Edges were lost: every hold of ours is given up, and the desktop reconciled.
LossHandled(s, seen) ==
  LET open == {h \in Hwnds : s.loop.of[h].bound}
      given == [loop |-> [s.loop EXCEPT !.of = [h \in Hwnds |-> IF h \in open THEN Blank ELSE @[h]],
                                        !.active = @ \ open],
                hook |-> Invalidated([s.hook EXCEPT !.lost = FALSE], open)]
  IN  IF ~s.hook.lost THEN s
      ELSE IF open = {} THEN [s EXCEPT !.hook.lost = FALSE]
      ELSE IF seen THEN Published(given) ELSE given

\* Events and edges of one pass, in the loop's order.
Batch == IF Len(hook.edges) < DrainLimit THEN Len(hook.edges) ELSE DrainLimit
TakenUp(willing, seen) ==
  LET heard == Handled(loop, events, Len(events), willing)
      drained == [hook EXCEPT !.origins = loop.origins,
                              !.edges = SubSeq(@, Batch + 1, Len(@))]
      s == LossHandled([loop |-> heard, hook |-> drained], seen)
  IN  [loop |-> Handled(s.loop, hook.edges, Batch, willing), hook |-> s.hook]

\* The gestures that ended, and what is dropped with windows not managed.
Ended(l) == {h \in l.managed : l.of[h].before} \ l.active
Retained(l) == [l EXCEPT !.of = Kept(@, l.managed), !.active = @ \cap l.managed]

\* esc_edge_cancels, of what is held by the count now, of what ended by its end's.
Cancels(g, count) == IF g.start = Absent THEN count # 0 ELSE g.start # count
LatchedBy(l, counter, all) ==
  IF ~counter.edge THEN {}
  ELSE {h \in Hwnds :
          /\ all \/ l.of[h].windrag
          /\ \/ h \in l.active /\ Cancels(l.of[h], counter.seq)
             \/ /\ h \in Ended(l) /\ l.of[h].start # Absent /\ l.of[h].end # Absent
                /\ Cancels(l.of[h], l.of[h].end)}
Latched(l) ==
  LET hit == LatchedBy(l, esc, TRUE) \cup LatchedBy(l, windrag_esc, FALSE)
  IN  [l EXCEPT !.of = [h \in Hwnds |->
          IF h \in hit THEN [@[h] EXCEPT !.latched = TRUE] ELSE @[h]]]

\* gesture_tick: what becomes of one gesture.
Outcome(g, h, moved, willing) ==
  CASE g.latched -> "cancelled"
    [] ~g.latched /\ h \notin shown -> "gone"
    [] ~g.latched /\ h \in shown /\ g.key # Absent /\ g.key # life[h] -> "identity"
    [] OTHER -> IF h \notin moved THEN "no-change"
                ELSE IF g.windrag /\ h \notin willing THEN "focus" ELSE "applied"
Settlement(l, h, moved, willing) ==
  LET g == l.of[h]
  IN  [hwnd |-> h, outcome |-> Outcome(g, h, moved, willing), odd |-> g.odd,
       wanted |-> g.from # g.to, same |-> g.who = life[h]]

-----------------------------------------------------------------------------
(* The pass of run_tile_loop                                                  *)

Nobody == [h \in Hwnds |-> Blank]

\* A full-screen foreground: every gesture is forgotten and the hook disarmed.
PassSuspended(s) ==
  /\ veto
  /\ loop' = [s.loop EXCEPT !.active = {}, !.of = Nobody]
  /\ hook' = Disarmed(s.hook)
  /\ esc' = [esc EXCEPT !.edge = FALSE] /\ settled' = {}
  /\ UNCHANGED windrag_esc

EscapesTaken == /\ esc' = [esc EXCEPT !.edge = FALSE]
                /\ windrag_esc' = [windrag_esc EXCEPT !.edge = FALSE]

\* A managed window is held: nothing is tiled.
PassPaused(l, k) ==
  /\ ~veto /\ l.active # {}
  /\ loop' = l /\ hook' = k /\ settled' = {}
  /\ EscapesTaken

\* reconcile_tick, which a failed observation leaves without effect.
PassReconcile(l, k, seen) ==
  /\ ~veto /\ l.active = {} /\ Ended(l) = {}
  /\ LET s == IF seen THEN Published([loop |-> l, hook |-> k]) ELSE [loop |-> l, hook |-> k]
     IN  loop' = s.loop /\ hook' = s.hook
  /\ settled' = {} /\ EscapesTaken

\* gesture_tick: settles all that ended and clears every map.
PassSettle(l, k, seen, moved, willing) ==
  /\ ~veto /\ l.active = {} /\ Ended(l) # {}
  /\ IF ~seen THEN loop' = l /\ hook' = k /\ settled' = {}
     ELSE LET s == Published([loop |-> l, hook |-> k])
          IN  /\ settled' = {Settlement(l, h, moved, willing) : h \in Ended(l)}
              /\ loop' = [s.loop EXCEPT !.of = Nobody]
              /\ hook' = s.hook
  /\ EscapesTaken

\* The focus of windows may be refused, an observation fail, a window be put down
\* where it was.
Asked == {h \in Hwnds : loop.of[h].windrag \/ \E i \in 1..Batch : hook.edges[i].hwnd = h}
Pass ==
  /\ \E willing \in SUBSET Asked, seen \in BOOLEAN :
       LET s == TakenUp(willing, seen)
           l == Latched(Retained(s.loop))
       IN  \/ PassSuspended(s)
           \/ PassPaused(l, s.hook)
           \/ PassReconcile(l, s.hook, seen)
           \/ \E moved \in SUBSET Ended(l) : PassSettle(l, s.hook, seen, moved, willing)
  /\ events' = <<>> /\ released' = NoRelease
  /\ UNCHANGED <<env, button, moving>>

GesturesNext ==
  \/ \E h \in Hwnds : Press(h) \/ NativeStart(h) \/ Reshow(h) \/ Recycle(h)
  \/ Release \/ NativeEnd \/ Foreground
  \/ \E physical \in BOOLEAN : Escape(physical)
  \/ Pass

GesturesSpec == GesturesInit /\ [][GesturesNext]_gestureVars

-----------------------------------------------------------------------------
(* A gesture is cancelled if Escape fell between its own start and end, and   *)
(* only then (tiling_sys.rs 18174-18186), whatever was lost or suspended      *)
(* before and whatever is queued that one pass takes up.  Excepted: a gesture *)
(* whose start or end met the entries of another under its handle.  It holds  *)
(* with DrainLimit = WindragQueueCap and Injected = FALSE only: a backlog of  *)
(* more edges than a pass takes up lets the Escapes overtake them, and an     *)
(* injected Escape counts for one of the two counters (against                *)
(* snapkey.rs:4443), so that the next tap cancels a drag it came before.      *)
EscapeDecides ==
  \A r \in settled : ~r.odd => (r.outcome = "cancelled" <=> r.wanted)

(* What is dropped or resized is the window the gesture took hold of, though  *)
(* handles change hands and press, release and pass are apart.                *)
DropsHitTheirWindow == \A r \in settled : r.outcome = "applied" => r.same

(* The application and the hook each get the release of the presses they got  *)
(* (win_mouse.rs 262-300: an invalidated or cleared hold keeps its release).  *)
ReleasesFollowPresses == released[1] = released[2]

(* A pause of tiling is owed an end: what the loop holds is still held by the *)
(* user, or its end is queued, or the loss of it is noted; whichever edges    *)
(* were lost, and however windows changed meanwhile.                          *)
Owed(h) ==
  \/ moving = h \/ hook.bound = h \/ hook.lost
  \/ \E i \in DOMAIN events : events[i].kind = "end" /\ events[i].hwnd = h
  \/ \E i \in DOMAIN hook.edges :
       hook.edges[i].kind \in {"up", "cancel"} /\ hook.edges[i].hwnd = h
PausesEnd == \A h \in loop.active : Owed(h)

(* What a hold of a window begins has its end: its release, its pause, its    *)
(* window.                                                                    *)
HoldsAreKept == ReleasesFollowPresses /\ PausesEnd /\ DropsHitTheirWindow
=============================================================================
