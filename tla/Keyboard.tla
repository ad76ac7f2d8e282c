------------------------------- MODULE Keyboard -------------------------------
(* The keyboard hook of the Windows host                                      *)
(* (src/crates/tiler-windows/src/snapkey.rs: SnapClassify, SnapQueue and the  *)
(* hook's callback; settings.rs for the tables it is given).                  *)
(*                                                                            *)
(* Every key event passes through the hook, which swallows it or passes it on *)
(* to the system.  A key pressed with Win held that makes a chord opens the   *)
(* hold of the chord's arm and canonical key; the verdict of that press is    *)
(* kept with the hold and answers the repeats and the release too, whatever   *)
(* modifiers, settings and gate do meanwhile.  A swallowed chord leaves the   *)
(* system with a Win key that went down and up alone, which opens the Start   *)
(* menu: so the hook injects a meaningless key before the Win-up.             *)
(*                                                                            *)
(* Which operation a chord names, and whether its repeats are acted upon, is  *)
(* left out: no verdict depends on it.  Shift is read from the system at a    *)
(* fresh press (sync_shift_from_async), so one Shift is all there is.         *)
EXTENDS Naturals

CONSTANTS
  Keys,      \* the keys looked at, of the model's keyboard
  Modifiers, \* those of "shift", "ctrl" and "alt" that are used
  Configs,   \* the settings that may be applied: records of Config
  IntentQueueCap \* INTENT_QUEUE_CAP: events waiting for the owner

WinKeys == {"LWin", "RWin"}
Catalog == {"H", "L"}          \* two of the eight direction keys, L the lock chord
Digits == {"1"}
NoRoute == <<"none", "none">>

(* The arms with their native keys and modifiers (direct_action, and the      *)
(* first guard of every push of an arm).                                      *)
Arms == {"snap", "resize", "send", "history", "digit", "maximize", "fullscreen",
         "orientation", "float", "sticky"}
ArmKeys == [a \in Arms |->
  CASE a \in {"snap", "resize", "send"} -> Catalog
    [] a = "history" -> Catalog \cup {"Tab"}
    [] a = "digit" -> Digits
    [] a = "maximize" -> {"M"}
    [] a = "fullscreen" -> {"F"}
    [] a = "orientation" -> {"O"}
    [] OTHER -> {"G"}]
ArmModifiers == [a \in Arms |->
  CASE a = "send" -> {{"ctrl", "shift"}}
    [] a = "history" -> {{"ctrl"}}
    [] a = "resize" -> {{"alt"}, {"alt", "shift"}}
    [] a \in {"snap", "digit"} -> {{}, {"shift"}}
    [] a = "sticky" -> {{"shift"}}
    [] OTHER -> {{}}]
Slots == UNION {{a} \X ArmKeys[a] : a \in Arms}
ChordKeys == UNION {ArmKeys[a] : a \in Arms}

(* build_remap and binding_modifiers_ok: a rebound chord keeps the modifiers  *)
(* of its arm (numbered stay, the unbound digit arm, may add Ctrl) and is not *)
(* the canonical key itself.                                                  *)
RemapEntries ==
  {e \in [from: Keys, mods: SUBSET {"shift", "ctrl", "alt"}, slot: Slots] :
     /\ e.from # e.slot[2]
     /\ \/ e.mods \in ArmModifiers[e.slot[1]]
        \/ e.slot[1] = "digit" /\ e.mods = {"ctrl", "shift"}}
KeyboardAssumption ==
  /\ IntentQueueCap \in Nat \ {0}
  /\ Configs \subseteq [takeover: BOOLEAN, allow_win_l: BOOLEAN, remap: SUBSET RemapEntries,
                        disabled: SUBSET (Keys \X SUBSET {"shift", "ctrl", "alt"})]

VARIABLES
  win,          \* the Win keys the hook has seen go down
  mods,         \* the modifiers it has seen go down
  hold,         \* [Slots -> "up", or the verdict of the press that opened it]
                \*   (the fields down and origin of each arm)
  pin,          \* [Keys -> the slot its press was routed to, or NoRoute] (phys_pin)
  collide,      \* keys pressed for a slot another key held, and swallowed
  config,       \* the settings in force
  gate,         \* the owner's gate: shortcuts are handled now
  mask_pending, mask_trigger, hold_masked,
  queued,       \* events in the queue
  pressed,      \* keys that are physically down
  osDown,       \* keys the system takes to be down
  ate,          \* history: a chord or a drag was swallowed in this hold of Win
  seen,         \* history: the system saw another key in this hold of Win
  odd           \* history: keys whose press was routed twice (see PairsClose)

maskVars == <<mask_pending, mask_trigger, hold_masked>>
tables == <<config, gate>>
keyboardVars == <<win, mods, hold, pin, collide, tables, maskVars, queued, pressed, osDown,
                  ate, seen, odd>>

KeyboardInit ==
  /\ win = {} /\ mods = {} /\ hold = [s \in Slots |-> "up"]
  /\ pin = [k \in Keys |-> NoRoute] /\ collide = {}
  /\ config \in Configs /\ gate = TRUE
  /\ mask_pending = FALSE /\ mask_trigger = "none" /\ hold_masked = FALSE
  /\ queued = 0 /\ pressed = {} /\ osDown = {}
  /\ ate = FALSE /\ seen = FALSE /\ odd = {}

-----------------------------------------------------------------------------
(* Routing                                                                    *)

(* fresh_route and direct_action: a rebound chord before a disabled one before *)
(* the native one; physical Win+L stays the lock chord unless allowed.        *)
Remaps(k) == {e.slot : e \in {r \in config.remap : r.from = k /\ r.mods = mods}}
Natives(k) == {s \in Slots : s[2] = k /\ mods \in ArmModifiers[s[1]]}
Routes(k) == IF Remaps(k) # {} THEN Remaps(k)
             ELSE IF <<k, mods>> \in config.disabled THEN {} ELSE Natives(k)
Locked(k, s) == k = "L" /\ s = <<"snap", "L">> /\ "shift" \notin mods /\ ~config.allow_win_l
fresh_route(k) ==
  LET open == {s \in Routes(k) : ~Locked(k, s)}
  IN  IF win = {} \/ open = {} THEN NoRoute ELSE CHOOSE s \in open : TRUE

(* push_g: float and sticky share the key G, and whichever is held answers.   *)
GArms == {"float", "sticky"}
Answering(s) ==
  LET held == {g \in Slots : g[1] \in GArms /\ hold[g] # "up"}
      shifted == {g \in Slots : g[1] = IF "shift" \in mods THEN "sticky" ELSE "float"}
  IN  IF s[1] \notin GArms THEN s
      ELSE IF held # {} THEN CHOOSE g \in held : g[1] = "float" \/ held = {g}
      ELSE CHOOSE g \in shifted : TRUE

(* key_is_down: the key's own press is still open. *)
key_is_down(k) == k \in collide \/ (pin[k] # NoRoute /\ hold[pin[k]] # "up")

Verdict == IF config.takeover /\ gate THEN "swallowed" ELSE "passed"

(* A slot that a pinned key opens again consumes only while the live tables   *)
(* still route the key where it is pinned.                                    *)
route_matches(k) == pin[k] \in Routes(k)
Reopened(k) == IF route_matches(k) THEN Verdict ELSE "passed"

-----------------------------------------------------------------------------
(* What an event leaves behind                                                *)

(* classify_and_queue: a full queue loses the event and keeps the verdict. *)
Queue == queued' = IF queued < IntentQueueCap THEN queued + 1 ELSE queued

(* A swallowed press or repeat under Win has to be masked. *)
ArmMask == /\ mask_pending' = TRUE /\ mask_trigger' = "chord" /\ UNCHANGED hold_masked
           /\ ate' = TRUE

Swallow(k) ==
  /\ IF win # {} THEN ArmMask ELSE UNCHANGED <<maskVars, ate>>
  /\ odd' = IF k \in osDown THEN odd \cup {k} ELSE odd
  /\ UNCHANGED <<osDown, seen>>
PassOn(k) ==
  /\ osDown' = osDown \cup {k} /\ seen' = TRUE
  /\ UNCHANGED <<maskVars, ate, odd>>
Answer(k, verdict) == IF verdict = "swallowed" THEN Swallow(k) ELSE PassOn(k)

-----------------------------------------------------------------------------
(* Keys (push, push_owned and the push of each arm)                           *)

(* A key with a collision entry: swallowed until it is released. *)
DownCollided(k) ==
  /\ k \in collide
  /\ Swallow(k) /\ Queue /\ UNCHANGED <<hold, pin, collide>>

(* A key with a pin: a repeat of the hold it opened. *)
DownPinned(k) ==
  LET s == Answering(pin[k])
      fits == win # {} /\ mods \in ArmModifiers[s[1]]
  IN /\ k \notin collide /\ pin[k] # NoRoute
     /\ \/ /\ hold[s] # "up"
           /\ Answer(k, hold[s]) /\ Queue /\ UNCHANGED hold
        \/ /\ hold[s] = "up" /\ fits
           /\ hold' = [hold EXCEPT ![s] = Reopened(k)]
           /\ Answer(k, Reopened(k)) /\ Queue
        \/ /\ hold[s] = "up" /\ ~fits
           /\ PassOn(k) /\ UNCHANGED <<hold, queued>>
     /\ UNCHANGED <<pin, collide>>

(* No chord: bare, with other modifiers, disabled, or the lock chord. *)
DownForeign(k) ==
  /\ k \notin collide /\ pin[k] = NoRoute /\ fresh_route(k) = NoRoute
  /\ PassOn(k) /\ UNCHANGED <<hold, pin, collide, queued>>

(* A mutant: a second key for a held slot is taken for the first one's repeat. *)
DownSharing(k) ==
  LET s == fresh_route(k)
  IN /\ k \notin collide /\ pin[k] = NoRoute
     /\ s # NoRoute /\ hold[s] # "up"
     /\ pin' = [pin EXCEPT ![k] = s] /\ Answer(k, hold[s]) /\ Queue
     /\ UNCHANGED <<hold, collide>>

(* Another key holds the slot: swallowed with an entry of its own, or passed  *)
(* when the hook is off.                                                      *)
DownColliding(k) ==
  /\ k \notin collide /\ pin[k] = NoRoute
  /\ fresh_route(k) # NoRoute /\ hold[fresh_route(k)] # "up"
  /\ IF Verdict = "swallowed"
     THEN collide' = collide \cup {k} /\ Swallow(k) /\ Queue
     ELSE PassOn(k) /\ UNCHANGED <<collide, queued>>
  /\ UNCHANGED <<hold, pin>>

(* A chord: its slot opens with the verdict of this press. *)
DownChord(k) ==
  LET s == fresh_route(k)
      a == Answering(s)
      sharers == {j \in Keys \ {k} : s[1] \in GArms /\ pin[j] # NoRoute /\ pin[j][1] \in GArms}
      v == IF hold[a] = "up" THEN Verdict ELSE hold[a]
  IN /\ k \notin collide /\ pin[k] = NoRoute
     /\ s # NoRoute /\ hold[s] = "up"
     /\ pin' = [pin EXCEPT ![k] = s]
     /\ hold' = [hold EXCEPT ![a] = v]
     /\ Queue /\ UNCHANGED collide
     /\ IF v = "swallowed" /\ win # {} THEN ArmMask ELSE UNCHANGED <<maskVars, ate>>
     /\ IF v = "swallowed" THEN UNCHANGED <<osDown, seen>>
                           ELSE osDown' = osDown \cup {k} /\ seen' = TRUE
     /\ odd' = odd \cup (IF v = "swallowed" THEN osDown \cap {k} ELSE {})
                   \cup (IF sharers = {} THEN {} ELSE sharers \cup {k})

(* The hook's guard: Ctrl or Alt is down for the system and not for the hook  *)
(* (held before it was installed, or the other of two keys released): the     *)
(* press is not looked at.                                                    *)
DownGuarded(k) ==
  /\ k \in ChordKeys /\ ~key_is_down(k) /\ ({"ctrl", "alt"} \cap Modifiers) \ mods # {}
  /\ PassOn(k) /\ UNCHANGED <<hold, pin, collide, queued>>

(* A key goes down, or repeats.  The history of its last press is over. *)
KeyDown(k) ==
  /\ \/ DownCollided(k) \/ DownPinned(k) \/ DownForeign(k) \/ DownColliding(k)
     \/ DownChord(k) \/ DownGuarded(k)
  /\ pressed' = pressed \cup {k}
  /\ UNCHANGED <<win, mods, tables>>

(* A release is answered by the key's own entry or pin, never by a route. *)
UpSlot(k) == IF pin[k] = NoRoute THEN NoRoute ELSE Answering(pin[k])
WillSwallow(k) ==
  k \in collide \/ (UpSlot(k) # NoRoute /\ hold[UpSlot(k)] = "swallowed")

KeyUp(k) ==
  LET s == UpSlot(k)
  IN /\ k \in pressed
     /\ pressed' = pressed \ {k}
     /\ osDown' = IF WillSwallow(k) THEN osDown ELSE osDown \ {k}
     /\ collide' = collide \ {k}
     /\ IF k \in collide THEN UNCHANGED <<hold, pin>>
        ELSE /\ pin' = [pin EXCEPT ![k] = NoRoute]
             /\ hold' = IF s = NoRoute THEN hold ELSE [hold EXCEPT ![s] = "up"]
     /\ IF k \in collide \/ (s # NoRoute /\ hold[s] # "up") THEN Queue ELSE UNCHANGED queued
     /\ odd' = odd \ ({k} \ osDown')
     /\ UNCHANGED <<win, mods, tables, maskVars, ate, seen>>

-----------------------------------------------------------------------------
(* Win, the modifiers and the mask                                            *)

keyVars == <<hold, pin, collide, pressed, osDown, odd>>

Modifier(m) ==
  /\ mods' = IF m \in mods THEN mods \ {m} ELSE mods \cup {m}
  /\ UNCHANGED <<win, keyVars, tables, maskVars, queued, ate, seen>>

(* note_win_down; a new hold of Win begins when none was down. *)
WinDown(w) ==
  /\ win' = win \cup {w}
  /\ IF w \in win /\ hold_masked
     THEN hold_masked' = FALSE /\ mask_pending' = TRUE
     ELSE UNCHANGED <<hold_masked, mask_pending>>
  /\ IF win = {} THEN ate' = FALSE /\ seen' = FALSE ELSE UNCHANGED <<ate, seen>>
  /\ UNCHANGED <<mods, keyVars, tables, mask_trigger, queued>>

(* A mutant: a full queue has no room for the mask. *)
NeedsMaskAndRoom(w) ==
  /\ config.takeover /\ mask_pending /\ ~hold_masked /\ queued < IntentQueueCap
  /\ mask_trigger # "none"
  /\ mask_trigger = "drag" => win = {w}

(* win_up_needs_mask: once in a hold of Win, before the first release after a *)
(* chord, or before the last one when only a drag asks for it.                *)
NeedsMask(w) ==
  /\ config.takeover /\ mask_pending /\ ~hold_masked
  /\ mask_trigger # "none"
  /\ mask_trigger = "drag" => win = {w}

(* win_up_mask_reserve: the oldest event gives way to the mask. *)
WinUp(w) ==
  /\ w \in win
  /\ win' = win \ {w}
  /\ IF NeedsMask(w) THEN Queue ELSE UNCHANGED queued
  /\ IF win' = {}
     THEN mask_pending' = FALSE /\ hold_masked' = FALSE /\ mask_trigger' = "none"
     ELSE /\ mask_pending' = (mask_pending /\ ~NeedsMask(w))
          /\ hold_masked' = (hold_masked \/ NeedsMask(w)) /\ UNCHANGED mask_trigger
  /\ seen' = (seen \/ NeedsMask(w)) /\ UNCHANGED ate
  /\ UNCHANGED <<mods, keyVars, tables>>

(* note_windrag_consumed: the mouse hook swallowed a drag under Win. *)
DragConsumed ==
  /\ win # {}
  /\ mask_trigger' = IF mask_trigger = "none" THEN "drag" ELSE mask_trigger
  /\ mask_pending' = TRUE /\ ate' = TRUE
  /\ UNCHANGED <<win, mods, keyVars, tables, hold_masked, queued, seen>>

-----------------------------------------------------------------------------
(* The owner's calls                                                          *)

(* apply_live_config: the tables change under open holds; what is queued is   *)
(* dropped.                                                                   *)
ApplyConfig(c) ==
  /\ config' = c /\ queued' = 0
  /\ UNCHANGED <<win, mods, keyVars, gate, maskVars, ate, seen>>

(* publish_gate *)
PublishGate ==
  /\ gate' = ~gate
  /\ UNCHANGED <<win, mods, keyVars, config, maskVars, queued, ate, seen>>

(* drain_up_to *)
Drain ==
  /\ queued' \in 0..(queued - 1)
  /\ UNCHANGED <<win, mods, keyVars, tables, maskVars, ate, seen>>

KeyboardNext ==
  \/ \E k \in Keys : KeyDown(k) \/ KeyUp(k)
  \/ \E m \in Modifiers : Modifier(m)
  \/ \E w \in WinKeys : WinDown(w) \/ WinUp(w)
  \/ \E c \in Configs : ApplyConfig(c)
  \/ DragConsumed \/ PublishGate \/ Drain

KeyboardSpec == KeyboardInit /\ [][KeyboardNext]_keyboardVars

-----------------------------------------------------------------------------
(* Properties                                                                 *)

(* Presses and releases stay paired for the system, across collisions, table  *)
(* changes, the gate and every order of releases: a key down for the system   *)
(* is physically down, its release will be passed, and the release of a       *)
(* swallowed press will be swallowed.  Two presses are excepted, which the    *)
(* code does not keep paired: one the system saw before a repeat of it was    *)
(* taken for a chord, and one that shares G with another key.                 *)
PairsClose ==
  /\ \A k \in osDown \ odd : k \in pressed
  /\ \A k \in pressed \ odd : k \in osDown <=> ~WillSwallow(k)

(* When the last Win key goes up after a chord or a drag was swallowed under  *)
(* it, the system has seen another key in between, so the Start menu stays    *)
(* closed: across full queues, two Win keys, repeats of a hold that outlived  *)
(* its Win and settings that change in between.  One release is excepted,     *)
(* which the code does not mask: one that comes while the takeover is off     *)
(* (snapkey.rs:4815 asks for the takeover of that moment and 1578 arms no     *)
(* mask without it).  Settings that turn it off between a swallowed chord and *)
(* the release open the Start menu, though the comments at snapkey.rs:4487    *)
(* and 1155 have the obligation survive the change, and so does the repeat,   *)
(* under a later hold of Win, of a chord swallowed before they did.  Off and  *)
(* on again before the release masks it.                                      *)
TakeoverOff == ~config.takeover
MenuStep ==
  \A w \in WinKeys :
    win = {w} /\ win' = {} /\ ate => seen' \/ TakeoverOff
StartStaysClosed == [][MenuStep]_keyboardVars
=============================================================================
