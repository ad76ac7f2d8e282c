----------------------------- MODULE MCProgress -----------------------------
(* Keyboard and mouse, and what must eventually happen, of the components that *)
(* owe it under the fairness their scheduling gives.  A behaviour is of one    *)
(* component, chosen in its first state; the variables of the others rest, at  *)
(* their first values or at 0.                                                 *)
EXTENDS Keyboard, Gestures

CONSTANTS w1, w2, None

VARIABLES part,
    process, pid, planner, tempCounter, nameOwner, kwin, kwinUp, planLock, intentLock,
    call, directory, file, temps, renames,
    sessions, outer_gaps, binding, desk, reply,
    window, ledger, lease, owner, watcher, ready, held, job, todo, doubt, drawn, made,
    shows, stray

plannerVars == <<process, pid, planner, tempCounter, nameOwner, kwin, kwinUp, planLock,
                 intentLock, call, directory, file, temps, renames>>
engineVars == <<sessions, outer_gaps, binding, desk, reply>>
hideVars == <<window, ledger, lease, owner, watcher, ready, held, job, todo, doubt,
              drawn, made, shows, stray>>
vars == <<part, plannerVars, engineVars, hideVars, keyboardVars, gestureVars>>

PlannerRests ==
    /\ process = 0 /\ pid = 0 /\ planner = 0 /\ tempCounter = 0 /\ nameOwner = 0
    /\ kwin = 0 /\ kwinUp = 0 /\ planLock = 0 /\ intentLock = 0 /\ call = 0
    /\ directory = 0 /\ file = 0 /\ temps = 0 /\ renames = 0
EngineRests ==
    sessions = 0 /\ outer_gaps = 0 /\ binding = 0 /\ desk = 0 /\ reply = 0
HideRests ==
    /\ window = 0 /\ ledger = 0 /\ lease = 0 /\ owner = 0 /\ watcher = 0 /\ ready = 0
    /\ held = 0 /\ job = 0 /\ todo = 0 /\ doubt = 0 /\ drawn = 0 /\ made = 0
    /\ shows = 0 /\ stray = 0
KeysRest == KeyboardInit /\ config.remap = {}
MouseRests == GesturesInit /\ shown = {}

-----------------------------------------------------------------------------
MCRequest(method, caller, shape, float) ==
    [method |-> method, caller |-> caller, shape |-> shape, float |-> float, tile |-> {}]

\* One planner process, two calls of every kind and caller.
Service == INSTANCE PlannerService WITH
    Planners <- {"p1"}, Pids <- {1}, Calls <- {"a1", "a2"}, Windows <- {w1},
    MaxMembers <- 1, MaxKWin <- 2, Lingering <- {"p1"},
    Requests <- { MCRequest("plan", "kwin",    "valid",     {}),
                  MCRequest("plan", "foreign", "oversize",  {}),
                  MCRequest("read", "kwin",    "malformed", {}),
                  MCRequest("read", "peer",    "valid",     {w1}),
                  MCRequest("write", "kwin",   "valid",     {w1}) }

ServiceInit ==
    /\ part = "service" /\ Service!Init /\ directory = "open" /\ file.kind = "absent"
    /\ EngineRests /\ HideRests /\ KeysRest /\ MouseRests

\* Two windows that come, go and close on two outputs, and their observations.
Observed == INSTANCE Engine WITH
    Windows <- {w1, w2}, Clients <- {"c1"}, Areas <- {[bounds |-> 1, gap |-> 1]},
    Domains <- {[output |-> o, workspace |-> "w1"] : o \in {"o1", "o2"}},
    OuterGaps <- {0}, Looks <- {[floating |-> FALSE, sticky |-> FALSE]},
    Ops <- {"reconcile"}, Fallible <- FALSE

EngineInit ==
    part = "engine" /\ Observed!EngineInit /\ PlannerRests /\ HideRests /\ KeysRest /\ MouseRests

\* One window, two runs after one another.
Hiding == INSTANCE HideLedger WITH
    Hwnds <- {"h1"}, Programs <- {"p1"}, Lives <- 2,
    MaxTags <- 1, MaxWindows <- 0, MaxShows <- 0, MaxQueue <- 1

HideInit ==
    part = "hide" /\ Hiding!Init /\ PlannerRests /\ EngineRests /\ KeysRest /\ MouseRests

\* A direction key and a key rebound to it, and settings that disable the one and turn
\* the hook off (the constants of Keyboard).
Settings == [takeover |-> TRUE, allow_win_l |-> FALSE, remap |-> {}, disabled |-> {}]
Rebound(modifiers, slot) == [from |-> "X", mods |-> modifiers, slot |-> slot]
MCConfigs == { [Settings EXCEPT !.remap = {Rebound({}, <<"snap", "H">>)}],
               [Settings EXCEPT !.takeover = FALSE, !.disabled = {<<"H", {}>>}] }

\* The key two arms share, and a key rebound to one of them.
Shared == INSTANCE Keyboard WITH
    Keys <- {"G", "X"}, Modifiers <- {"shift"}, IntentQueueCap <- 1,
    Configs <- { [Settings EXCEPT !.remap = {Rebound({"shift"}, <<"sticky", "G">>)}] }

KeysInit ==
    /\ \/ part = "directions" /\ KeyboardInit
       \/ part = "shared" /\ Shared!KeyboardInit
    /\ PlannerRests /\ EngineRests /\ HideRests /\ MouseRests

\* One window whose handle is given away once, edges queued in twos (the constants of
\* Gestures).
MouseInit ==
    /\ part = "mouse" /\ GesturesInit
    /\ PlannerRests /\ EngineRests /\ HideRests /\ KeysRest

-----------------------------------------------------------------------------
ASSUME ConstantsAssumption ==
    /\ Service!Assumption /\ Observed!Assumption /\ Hiding!Assumption
    /\ KeyboardAssumption /\ Shared!KeyboardAssumption
    /\ GesturesAssumption

Init == ServiceInit \/ EngineInit \/ HideInit \/ KeysInit \/ MouseInit

ServiceStep(A) ==
    part = "service" /\ A /\ UNCHANGED <<part, engineVars, hideVars, keyboardVars, gestureVars>>
EngineStep(A) ==
    part = "engine" /\ A /\ UNCHANGED <<part, plannerVars, hideVars, keyboardVars, gestureVars>>
HideStep(A) ==
    part = "hide" /\ A /\ UNCHANGED <<part, plannerVars, engineVars, keyboardVars, gestureVars>>
KeyStep(p, A) ==
    part = p /\ A /\ UNCHANGED <<part, plannerVars, engineVars, hideVars, gestureVars>>
MouseStep(A) ==
    part = "mouse" /\ A /\ UNCHANGED <<part, plannerVars, engineVars, hideVars, keyboardVars>>

Next ==
    \/ ServiceStep(Service!Next)
    \/ EngineStep(Observed!EngineNext)
    \/ HideStep(Hiding!Next)
    \/ KeyStep("directions", KeyboardNext)
    \/ KeyStep("shared", Shared!KeyboardNext)
    \/ MouseStep(GesturesNext)

\* Once a call has arrived nothing outside its process holds it up; the adapters
\* observe every domain again and again; a watcher goes on while it lives, and a
\* program serves its windows (the bound on a queue makes a post wait for that).
Fairness ==
    /\ \A c \in {"a1", "a2"} : WF_vars(ServiceStep(Service!Serve(c)))
    /\ \A o \in {"o1", "o2"} :
           WF_vars(EngineStep(Observed!ReconcileRequest(
               "c1", [output |-> o, workspace |-> "w1"], [bounds |-> 1, gap |-> 1], 0)))
    /\ WF_vars(HideStep(Hiding!ServeQueue("h1")))
    /\ \A r \in {1, 2} : /\ WF_vars(HideStep(Hiding!Watch(r)))
                         /\ WF_vars(HideStep(Hiding!Reveal(<<"watcher", r>>)))

Spec == Init /\ [][Next]_vars /\ Fairness

-----------------------------------------------------------------------------
\* PlannerService's CallsEnd: every call that reaches a planner comes to an end,
\* whatever KWin and the bus do meanwhile.
CallsEnd ==
    \A c \in {"a1", "a2"} :
        part = "service" /\ call[c].stage # "idle"
            ~> part = "service" /\ call[c].stage \in Service!Over

\* Engine's Settles: once the desktop stops changing, repeated observation brings
\* each session to what is there.
Settles ==
    <>[][desk' = desk]_vars =>
        <>[](part = "engine" =>
                \A o \in {"o1", "o2"} :
                    LET k == [output |-> o, workspace |-> "w1"]
                    IN  Observed!Held(k) = Observed!Here(k))

\* HideLedger's WatchersFinish: the watcher of a dead run restores what it can and
\* ends, also when a window does not answer in time.
WatchersFinish ==
    \A r \in {1, 2} :
        part = "hide" /\ ~Hiding!Alive(r) /\ watcher[r] \in {"watching", "restoring"}
            ~> part = "hide" /\ watcher[r] = "dead"
=============================================================================
