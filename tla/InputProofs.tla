------------------------------ MODULE InputProofs ------------------------------
(* What holds of the input of the Windows host.                                *)
(*   - The keyboard hook (Keyboard), for every set of keys and modifiers, all  *)
(*     settings that may be applied and every queue bound: PairsClose and      *)
(*     StartStaysClosed.                                                       *)
(*   - Pointer gestures (Gestures), for every set of windows and every         *)
(*     capacity of the queues: HoldsAreKept, what a hold of a window begins    *)
(*     has its end.                                                            *)
(* The two share no state; each part has an inductive invariant of its own.    *)
EXTENDS Keyboard, Gestures, TLAPS, FiniteSetTheorems, WellFoundedInduction

-----------------------------------------------------------------------------
(* The keyboard hook: the inductive invariant.                             *)

\* The slots of the two arms that share the key G, and those of them held open.
GSlots == {g \in Slots : g[1] \in GArms}
Open(s) == hold[s] # "up"
Pinned(k) == pin[k] # NoRoute

Types ==
    /\ win \subseteq WinKeys
    /\ hold \in [Slots -> {"up", "swallowed", "passed"}]
    /\ pin \in [Keys -> Slots \cup {NoRoute}]
    /\ collide \subseteq Keys /\ pressed \subseteq Keys
    /\ osDown \subseteq Keys /\ odd \subseteq Keys
    /\ config \in Configs

\* A swallowed chord or drag leaves its mask pending until the system has seen a
\* key in the same hold of Win; a mask given in it counts.
MaskInv ==
    /\ hold_masked => seen /\ win # {}
    /\ win # {} /\ ate => seen \/ (mask_pending /\ mask_trigger # "none")

\* A key has a collision entry or a pin; a pin keeps its slot open, unless the key
\* shares G with another one.
PinInv ==
    \A k \in Keys : Pinned(k) =>
        /\ k \notin collide
        /\ Open(pin[k]) \/ (pin[k] \in GSlots /\ k \in odd)

\* Two keys share G or no slot at all; those that share it are known for it.
ShareInv ==
    \A j, k \in Keys : j # k /\ Pinned(j) /\ Pinned(k) =>
        /\ pin[j] \in GSlots /\ pin[k] \in GSlots => j \in odd /\ k \in odd
        /\ pin[j] = pin[k] => pin[j] \in GSlots

\* One of the two arms of G is open at most, and then a key is pinned to one.
GInv ==
    /\ \A g, h \in GSlots : Open(g) /\ Open(h) => g = h
    /\ \A g \in GSlots : Open(g) => \E k \in Keys : Pinned(k) /\ pin[k] \in GSlots

\* PairsClose in terms of the key's own slot, which answers unless G is shared.
Swallows(k) == k \in collide \/ (Pinned(k) /\ hold[pin[k]] = "swallowed")
Paired ==
    /\ \A k \in osDown \ odd : k \in pressed
    /\ \A k \in pressed \ odd : k \in osDown <=> ~Swallows(k)

SlotInv == PinInv /\ ShareInv /\ GInv
KeyInv == Types /\ MaskInv /\ SlotInv /\ Paired

-----------------------------------------------------------------------------
(* Slots and routes.                                                       *)

\* The slots of G are those of its two arms, and no route is not a slot.
LEMMA SlotFacts ==
    /\ NoRoute \notin Slots
    /\ GSlots = {<<"float", "G">>, <<"sticky", "G">>}
    /\ \A s \in Slots : s \in GSlots <=> s[1] \in GArms
<1>1. NoRoute \notin Slots
    BY DEF NoRoute, Slots, Arms
<1>2. ArmKeys["float"] = {"G"} /\ ArmKeys["sticky"] = {"G"}
    BY DEF ArmKeys, Arms
<1>3. \A s \in GSlots : s = <<s[1], s[2]>> /\ s[2] = "G" /\ s[1] \in {"float", "sticky"}
    BY <1>2 DEF GSlots, Slots, GArms
<1>4. <<"float", "G">> \in Slots /\ <<"sticky", "G">> \in Slots
    BY <1>2 DEF Slots, Arms
<1>5. GSlots = {<<"float", "G">>, <<"sticky", "G">>}
    BY <1>3, <1>4 DEF GSlots, GArms
<1> QED BY <1>1, <1>5 DEF GSlots

\* A fresh press is routed to a slot, under Win; to an arm of G only with the
\* modifiers of that arm (fresh_route, build_remap).
LEMMA RouteFacts ==
    ASSUME KeyboardAssumption, Types, NEW k \in Keys, fresh_route(k) # NoRoute
    PROVE  /\ fresh_route(k) \in Slots /\ win # {}
           /\ fresh_route(k) = <<"float", "G">> => "shift" \notin mods
           /\ fresh_route(k) = <<"sticky", "G">> => "shift" \in mods
<1> DEFINE open == {s \in Routes(k) : ~Locked(k, s)}
<1>1. win # {} /\ open # {} /\ fresh_route(k) = CHOOSE s \in open : TRUE
    BY DEF fresh_route
<1>2. fresh_route(k) \in Remaps(k) \cup Natives(k)
    BY <1>1 DEF Routes
<1>3. \A s \in Natives(k) : s \in Slots /\ mods \in ArmModifiers[s[1]]
    BY DEF Natives
<1>4. \A s \in Remaps(k) : s \in Slots /\ (s[1] # "digit" => mods \in ArmModifiers[s[1]])
    <2> SUFFICES ASSUME NEW e \in config.remap, e.mods = mods
                 PROVE  e.slot \in Slots /\ (e.slot[1] # "digit" => mods \in ArmModifiers[e.slot[1]])
        BY DEF Remaps
    <2>1. e \in RemapEntries
        BY DEF KeyboardAssumption, Types
    <2> QED BY <2>1 DEF RemapEntries
<1>5. fresh_route(k) \in Slots
    BY <1>2, <1>3, <1>4
<1>6. fresh_route(k)[1] # "digit" => mods \in ArmModifiers[fresh_route(k)[1]]
    BY <1>2, <1>3, <1>4
<1>7. ArmModifiers["float"] = {{}} /\ ArmModifiers["sticky"] = {{"shift"}}
    BY DEF ArmModifiers, Arms
<1>8. ASSUME fresh_route(k) = <<"float", "G">>
      PROVE  "shift" \notin mods
    BY <1>6, <1>7, <1>8
<1>9. ASSUME fresh_route(k) = <<"sticky", "G">>
      PROVE  "shift" \in mods
    BY <1>6, <1>7, <1>9
<1> HIDE DEF open
<1> QED BY <1>1, <1>5, <1>8, <1>9

\* Another arm than those of G answers for itself; of G answers the one that is
\* open, or the one the modifiers ask for (push_g).
LEMMA AnsweringFacts ==
    ASSUME GInv, NEW s \in Slots
    PROVE  /\ s \notin GSlots => Answering(s) = s
           /\ s \in GSlots => Answering(s) \in GSlots
           /\ \A g \in GSlots : s \in GSlots /\ Open(g) => Answering(s) = g
           /\ s \in GSlots /\ (\A g \in GSlots : ~Open(g)) =>
                 Answering(s) = IF "shift" \in mods THEN <<"sticky", "G">> ELSE <<"float", "G">>
<1> DEFINE held == {g \in Slots : g[1] \in GArms /\ hold[g] # "up"}
           shifted == {g \in Slots : g[1] = IF "shift" \in mods THEN "sticky" ELSE "float"}
<1>1. held = {g \in GSlots : Open(g)}
    BY SlotFacts DEF GSlots, Open
<1>2. shifted = {IF "shift" \in mods THEN <<"sticky", "G">> ELSE <<"float", "G">>}
    <2>1. \A g \in shifted : g \in GSlots
        BY DEF GSlots, GArms
    <2>2. <<"sticky", "G">> \in Slots /\ <<"float", "G">> \in Slots
        BY SlotFacts DEF GSlots
    <2>3. CASE "shift" \in mods
        BY <2>1, <2>2, <2>3, SlotFacts
    <2>4. CASE "shift" \notin mods
        BY <2>1, <2>2, <2>4, SlotFacts
    <2> QED BY <2>3, <2>4
<1>3. s \notin GSlots => Answering(s) = s
    BY SlotFacts DEF Answering
<1>4. ASSUME NEW g \in GSlots, s \in GSlots, Open(g)
      PROVE  Answering(s) = g
    <2>1. held = {g}
        BY <1>1, <1>4 DEF GInv
    <2>2. Answering(s) = CHOOSE h \in held : h[1] = "float" \/ held = {h}
        BY <1>4, <2>1, SlotFacts DEF Answering
    <2> QED BY <2>1, <2>2
<1>5. ASSUME s \in GSlots, \A g \in GSlots : ~Open(g)
      PROVE  Answering(s) = IF "shift" \in mods THEN <<"sticky", "G">> ELSE <<"float", "G">>
    <2>1. held = {}
        BY <1>1, <1>5
    <2>2. Answering(s) = CHOOSE g \in shifted : TRUE
        BY <1>5, <2>1, SlotFacts DEF Answering
    <2> QED BY <1>2, <2>2
<1>6. s \in GSlots => Answering(s) \in GSlots
    BY <1>4, <1>5, SlotFacts
<1> QED BY <1>3, <1>4, <1>5, <1>6

\* The slot of a key that shares G with nobody answers its release.
LEMMA OwnSlotAnswers ==
    ASSUME Types, SlotInv, NEW k \in Keys, Pinned(k), pin[k] \notin GSlots \/ k \notin odd
    PROVE  /\ pin[k] \in Slots /\ Open(pin[k]) /\ k \notin collide
           /\ Answering(pin[k]) = pin[k] /\ UpSlot(k) = pin[k]
<1>1. pin[k] \in Slots /\ pin[k] # NoRoute
    BY DEF Types, Pinned
<1>2. Open(pin[k]) /\ k \notin collide
    BY DEF SlotInv, PinInv
<1>3. Answering(pin[k]) = pin[k]
    BY <1>1, <1>2, AnsweringFacts DEF SlotInv
<1> QED BY <1>1, <1>2, <1>3 DEF UpSlot

\* What becomes of the release of a key that shares G with nobody.
LEMMA OwnRelease ==
    ASSUME Types, SlotInv, NEW k \in Keys, k \notin odd
    PROVE  WillSwallow(k) <=> Swallows(k)
<1>1. CASE Pinned(k)
    <2>1. UpSlot(k) = pin[k] /\ pin[k] # NoRoute
        BY <1>1, OwnSlotAnswers DEF Pinned
    <2> QED BY <1>1, <2>1 DEF WillSwallow, Swallows
<1>2. CASE ~Pinned(k)
    BY <1>2 DEF WillSwallow, Swallows, UpSlot, Pinned
<1> QED BY <1>1, <1>2

-----------------------------------------------------------------------------
(* What a press and a release make of the pairs.                           *)

\* A press given to the hook or passed on is accounted for, when its own release
\* will go the same way (Swallow, PassOn).
LEMMA AnsweredPairs ==
    ASSUME Types, SlotInv, Paired, NEW k \in Keys, NEW verdict,
           pressed' = pressed \cup {k}, odd \subseteq odd',
           verdict = "swallowed" => osDown' = osDown /\ (k \in osDown => k \in odd'),
           verdict # "swallowed" => osDown' = osDown \cup {k},
           k \notin odd' => (Swallows(k)' <=> verdict = "swallowed"),
           \A j \in Keys \ {k} : j \notin odd' => (Swallows(j)' <=> Swallows(j))
    PROVE  Paired'
<1>1. \A j \in osDown' \ odd' : j \in pressed'
    BY DEF Paired
<1>2. ASSUME NEW j \in pressed' \ odd'
      PROVE  j \in osDown' <=> ~Swallows(j)'
    <2>1. CASE j = k
        <3>1. CASE verdict = "swallowed"
            BY <1>2, <2>1, <3>1
        <3>2. CASE verdict # "swallowed"
            BY <1>2, <2>1, <3>2
        <3> QED BY <3>1, <3>2
    <2>2. CASE j # k
        <3>1. j \in pressed \ odd /\ j \in Keys
            BY <1>2, <2>2 DEF Types
        <3>2. j \in osDown <=> ~Swallows(j)
            BY <3>1 DEF Paired
        <3>3. Swallows(j)' <=> Swallows(j)
            BY <1>2, <2>2, <3>1
        <3>4. j \in osDown' <=> j \in osDown
            BY <2>2
        <3> QED BY <3>2, <3>3, <3>4
    <2> QED BY <2>1, <2>2
<1> QED BY <1>1, <1>2 DEF Paired

\* Slots stay what they are while pins, holds and collisions do.
LEMMA SlotsKept ==
    ASSUME SlotInv, UNCHANGED <<hold, pin, collide>>, odd \subseteq odd'
    PROVE  SlotInv' /\ \A j : Swallows(j)' <=> Swallows(j)
<1>1. PinInv'
    BY DEF SlotInv, PinInv, Pinned, Open
<1>2. ShareInv'
    BY DEF SlotInv, ShareInv, Pinned
<1>3. GInv'
    BY DEF SlotInv, GInv, Pinned, Open
<1>4. \A j : Swallows(j)' <=> Swallows(j)
    BY DEF Swallows, Pinned
<1> QED BY <1>1, <1>2, <1>3, <1>4 DEF SlotInv

\* What Swallow, PassOn and Answer leave behind for the pairs.
LEMMA AnswerEffects ==
    ASSUME NEW k, NEW verdict, Answer(k, verdict)
    PROVE  /\ odd \subseteq odd'
           /\ verdict = "swallowed" => osDown' = osDown /\ (k \in osDown => k \in odd')
           /\ verdict # "swallowed" => osDown' = osDown \cup {k}
<1>1. CASE verdict = "swallowed"
    BY <1>1 DEF Answer, Swallow
<1>2. CASE verdict # "swallowed"
    BY <1>2 DEF Answer, PassOn
<1> QED BY <1>1, <1>2

\* A repeat of a key with a collision entry (DownCollided).
LEMMA CollidedPairs ==
    ASSUME Types, SlotInv, Paired, NEW k \in Keys, DownCollided(k), pressed' = pressed \cup {k}
    PROVE  SlotInv' /\ Paired'
<1>1. Answer(k, "swallowed") /\ k \in collide /\ UNCHANGED <<hold, pin, collide>>
    BY DEF DownCollided, Answer
<1>2. SlotInv' /\ \A j : Swallows(j)' <=> Swallows(j)
    BY <1>1, AnswerEffects, SlotsKept
<1>3. Swallows(k)'
    BY <1>1 DEF Swallows
<1>4. /\ odd \subseteq odd'
      /\ "swallowed" = "swallowed" => osDown' = osDown /\ (k \in osDown => k \in odd')
      /\ "swallowed" # "swallowed" => osDown' = osDown \cup {k}
    BY <1>1, AnswerEffects
<1> QED BY <1>2, <1>3, <1>4, AnsweredPairs

\* A press that is passed on and opens nothing (PassOn): its key has no entry and no
\* open slot.
LEMMA PassedPairs ==
    ASSUME Types, SlotInv, Paired, NEW k \in Keys, PassOn(k), pressed' = pressed \cup {k},
           UNCHANGED <<hold, pin, collide>>, k \notin odd => ~Swallows(k)
    PROVE  SlotInv' /\ Paired'
<1>1. Answer(k, "passed")
    BY DEF Answer
<1>2. SlotInv' /\ \A j : Swallows(j)' <=> Swallows(j)
    BY <1>1, AnswerEffects, SlotsKept
<1>3. odd' = odd /\ osDown' = osDown \cup {k}
    BY DEF PassOn
<1> QED BY <1>2, <1>3, AnsweredPairs

\* A repeat of a chord whose hold is open or opens again, and of one whose hold is
\* closed (DownPinned).
LEMMA PinnedPairs ==
    ASSUME Types, SlotInv, Paired, NEW k \in Keys, DownPinned(k), pressed' = pressed \cup {k}
    PROVE  SlotInv' /\ Paired'
<1> DEFINE s == Answering(pin[k])
<1>1. Pinned(k) /\ k \notin collide /\ pin[k] \in Slots /\ UNCHANGED <<pin, collide>>
    BY DEF DownPinned, Pinned, Types
<1>2. k \notin odd => s = pin[k] /\ Open(s) /\ (Swallows(k) <=> hold[s] = "swallowed")
    BY <1>1, OwnSlotAnswers DEF Swallows
<1>3. CASE hold[s] # "up" /\ Answer(k, hold[s]) /\ UNCHANGED hold
    <2>1. SlotInv' /\ \A j : Swallows(j)' <=> Swallows(j)
        BY <1>1, <1>3, AnswerEffects, SlotsKept
    <2>2. /\ odd \subseteq odd'
          /\ hold[s] = "swallowed" => osDown' = osDown /\ (k \in osDown => k \in odd')
          /\ hold[s] # "swallowed" => osDown' = osDown \cup {k}
        BY <1>3, AnswerEffects
    <2> HIDE DEF s
    <2> QED BY <1>2, <2>1, <2>2, AnsweredPairs
<1>4. CASE hold[s] = "up" /\ hold' = [hold EXCEPT ![s] = Reopened(k)] /\ Answer(k, Reopened(k))
    <2>1. k \in odd /\ pin[k] \in GSlots /\ s \in GSlots
        BY <1>1, <1>2, <1>4, OwnSlotAnswers, AnsweringFacts DEF SlotInv, Open
    <2>2. \A g \in GSlots : ~Open(g)
        BY <1>1, <1>4, <2>1, AnsweringFacts DEF SlotInv, Open
    <2>3. s \in Slots /\ \A t \in Slots : hold'[t] = IF t = s THEN Reopened(k) ELSE hold[t]
        BY <1>4, <2>1 DEF Types, GSlots
    <2>4. /\ odd \subseteq odd'
          /\ Reopened(k) = "swallowed" => osDown' = osDown /\ (k \in osDown => k \in odd')
          /\ Reopened(k) # "swallowed" => osDown' = osDown \cup {k}
        BY <1>4, AnswerEffects
    <2>5. Reopened(k) \in {"swallowed", "passed"}
        BY DEF Reopened, Verdict
    <2> HIDE DEF s
    <2>6. PinInv'
        <3> SUFFICES ASSUME NEW j \in Keys, Pinned(j)'
                     PROVE  /\ j \notin collide'
                            /\ Open(pin[j])' \/ (pin'[j] \in GSlots /\ j \in odd')
            BY DEF PinInv
        <3>1. Pinned(j) /\ pin'[j] = pin[j] /\ pin[j] \in Slots
            BY <1>1 DEF Pinned, Types
        <3>2. Open(pin[j]) => Open(pin[j])'
            BY <2>3, <2>5, <3>1 DEF Open
        <3> QED BY <1>1, <2>4, <3>1, <3>2 DEF SlotInv, PinInv
    <2>7. ShareInv'
        BY <1>1, <2>4 DEF SlotInv, ShareInv, Pinned
    <2>8. \A g \in GSlots : Open(g)' => g = s
        BY <2>2, <2>3 DEF Open, GSlots
    <2>9. GInv'
        BY <1>1, <2>1, <2>8 DEF GInv, Pinned
    <2>10. ASSUME NEW j \in Keys \ {k}, j \notin odd'
           PROVE  Swallows(j)' <=> Swallows(j)
        <3>1. CASE Pinned(j)
            <4>1. pin[j] \in Slots /\ pin[j] \notin GSlots
                BY <1>1, <2>1, <2>4, <2>10, <3>1 DEF SlotInv, ShareInv, Types, Pinned
            <4>2. hold'[pin[j]] = hold[pin[j]]
                BY <2>1, <2>3, <4>1
            <4> QED BY <1>1, <4>2 DEF Swallows, Pinned
        <3>2. CASE ~Pinned(j)
            BY <1>1, <3>2 DEF Swallows, Pinned
        <3> QED BY <3>1, <3>2
    <2>11. Paired'
        BY <2>1, <2>4, <2>10, AnsweredPairs
    <2> QED BY <2>6, <2>7, <2>9, <2>11 DEF SlotInv
<1>5. CASE hold[s] = "up" /\ PassOn(k) /\ UNCHANGED hold
    <2>1. k \in odd
        BY <1>2, <1>5 DEF Open
    <2> QED BY <1>1, <1>5, <2>1, PassedPairs
<1> QED BY <1>3, <1>4, <1>5 DEF DownPinned

\* A press of another key for a slot that is held (DownColliding).
LEMMA CollidingPairs ==
    ASSUME Types, SlotInv, Paired, NEW k \in Keys, DownColliding(k), pressed' = pressed \cup {k}
    PROVE  SlotInv' /\ Paired'
<1>1. ~Pinned(k) /\ k \notin collide /\ UNCHANGED <<hold, pin>>
    BY DEF DownColliding, Pinned
<1>2. CASE Verdict = "swallowed"
    <2>1. collide' = collide \cup {k} /\ Answer(k, "swallowed")
        BY <1>2 DEF DownColliding, Answer
    <2>2. /\ odd \subseteq odd'
          /\ "swallowed" = "swallowed" => osDown' = osDown /\ (k \in osDown => k \in odd')
          /\ "swallowed" # "swallowed" => osDown' = osDown \cup {k}
        BY <2>1, AnswerEffects
    <2>3. PinInv'
        BY <1>1, <2>1, <2>2 DEF SlotInv, PinInv, Pinned, Open
    <2>4. ShareInv'
        BY <1>1, <2>2 DEF SlotInv, ShareInv, Pinned
    <2>5. GInv'
        BY <1>1 DEF SlotInv, GInv, Pinned, Open
    <2>6. Swallows(k)'
        BY <2>1 DEF Swallows
    <2>7. \A j \in Keys \ {k} : Swallows(j)' <=> Swallows(j)
        BY <1>1, <2>1 DEF Swallows, Pinned
    <2>8. Paired'
        BY <2>2, <2>6, <2>7, AnsweredPairs
    <2> QED BY <2>3, <2>4, <2>5, <2>8 DEF SlotInv
<1>3. CASE Verdict # "swallowed"
    <2>1. PassOn(k) /\ UNCHANGED <<hold, pin, collide>>
        BY <1>3 DEF DownColliding
    <2>2. ~Swallows(k)
        BY <1>1 DEF Swallows
    <2> QED BY <2>1, <2>2, PassedPairs
<1> QED BY <1>2, <1>3

\* A chord opens its slot, or the other arm of G, already open, answers (DownChord).
LEMMA ChordPairs ==
    ASSUME KeyboardAssumption, Types, SlotInv, Paired, NEW k \in Keys, DownChord(k),
           pressed' = pressed \cup {k}
    PROVE  SlotInv' /\ Paired'
<1> DEFINE s == fresh_route(k)
           a == Answering(s)
           sharers == {j \in Keys \ {k} : s[1] \in GArms /\ pin[j] # NoRoute /\ pin[j][1] \in GArms}
           v == IF hold[a] = "up" THEN Verdict ELSE hold[a]
<1>1. /\ k \notin collide /\ ~Pinned(k) /\ ~Open(s) /\ UNCHANGED collide
      /\ pin' = [pin EXCEPT ![k] = s] /\ hold' = [hold EXCEPT ![a] = v]
    BY DEF DownChord, Pinned, Open
<1>2. odd' = odd \cup (IF v = "swallowed" THEN osDown \cap {k} ELSE {})
                 \cup (IF sharers = {} THEN {} ELSE sharers \cup {k})
    BY DEF DownChord
<1>3. IF v = "swallowed" THEN osDown' = osDown ELSE osDown' = osDown \cup {k}
    BY DEF DownChord
<1>4. /\ s \in Slots /\ s # NoRoute
      /\ s = <<"float", "G">> => "shift" \notin mods
      /\ s = <<"sticky", "G">> => "shift" \in mods
    BY RouteFacts DEF DownChord
<1>5. sharers = {j \in Keys \ {k} : s \in GSlots /\ Pinned(j) /\ pin[j] \in GSlots}
    BY <1>4, SlotFacts DEF Types, Pinned
<1>6. /\ s \notin GSlots => a = s
      /\ s \in GSlots => a \in GSlots
      /\ \A g \in GSlots : s \in GSlots /\ Open(g) => a = g
      /\ s \in GSlots /\ (\A g \in GSlots : ~Open(g)) => a = s
    <2>1. s \in GSlots => s = IF "shift" \in mods THEN <<"sticky", "G">> ELSE <<"float", "G">>
        BY <1>4, SlotFacts
    <2> HIDE DEF s
    <2> QED BY <1>4, <2>1, AnsweringFacts DEF SlotInv
<1>7. a \in Slots
    BY <1>4, <1>6 DEF GSlots
<1>8. Verdict \in {"swallowed", "passed"} /\ v \in {"swallowed", "passed"}
    BY <1>7 DEF Verdict, Types
<1>9. /\ \A t \in Slots : hold'[t] = IF t = a THEN v ELSE hold[t]
      /\ \A j \in Keys : pin'[j] = IF j = k THEN s ELSE pin[j]
    BY <1>1, <1>7 DEF Types
<1>10. /\ odd \subseteq odd'
       /\ v = "swallowed" => osDown' = osDown /\ (k \in osDown => k \in odd')
       /\ v # "swallowed" => osDown' = osDown \cup {k}
    BY <1>2, <1>3
<1>11. \A j \in Keys \ {k} : s \in GSlots /\ Pinned(j) /\ pin[j] \in GSlots => j \in odd' /\ k \in odd'
    BY <1>2, <1>5
<1>12. \A j \in Keys \ {k} : Pinned(j) /\ pin[j] = s => s \in GSlots
    BY <1>1 DEF SlotInv, PinInv
<1> HIDE DEF s, a, sharers, v
<1>13. \A j \in Keys : Pinned(j)' <=> Pinned(j) \/ j = k
    BY <1>4, <1>9 DEF Pinned
<1>14. \A t \in Slots : Open(t)' <=> Open(t) \/ t = a
    BY <1>8, <1>9 DEF Open
<1>15. a = s \/ (Open(a) /\ hold'[a] = hold[a] /\ k \in odd')
    <2> SUFFICES ASSUME a # s
                 PROVE  Open(a) /\ hold'[a] = hold[a] /\ k \in odd'
        OBVIOUS
    <2>1. PICK g \in GSlots : Open(g)
        BY <1>6
    <2>2. s \in GSlots /\ a = g
        BY <1>6, <2>1
    <2>3. PICK j \in Keys : Pinned(j) /\ pin[j] \in GSlots
        BY <2>1 DEF SlotInv, GInv
    <2>4. k \in odd'
        BY <1>1, <1>11, <2>2, <2>3
    <2>5. hold'[a] = hold[a]
        BY <1>7, <1>9, <2>1, <2>2 DEF Open, v
    <2> QED BY <2>1, <2>2, <2>4, <2>5
<1>16. PinInv'
    <2> SUFFICES ASSUME NEW j \in Keys, Pinned(j)'
                 PROVE  /\ j \notin collide'
                        /\ Open(pin[j])' \/ (pin'[j] \in GSlots /\ j \in odd')
        BY DEF PinInv
    <2>1. CASE j = k
        <3>1. pin'[k] = s /\ k \notin collide'
            BY <1>1, <1>9
        <3>2. CASE a = s
            <4>1. hold'[s] \in {"swallowed", "passed"}
                BY <1>4, <1>8, <1>9, <3>2
            <4> QED BY <2>1, <3>1, <4>1 DEF Open
        <3>3. CASE a # s
            BY <1>6, <1>15, <2>1, <3>1, <3>3
        <3> QED BY <3>2, <3>3
    <2>2. CASE j # k
        <3>1. pin'[j] = pin[j] /\ Pinned(j) /\ pin[j] \in Slots
            BY <1>9, <1>13, <2>2 DEF Types, Pinned
        <3>2. Open(pin[j]) => Open(pin[j])'
            BY <1>8, <1>9, <3>1 DEF Open
        <3> QED BY <1>1, <1>10, <3>1, <3>2 DEF SlotInv, PinInv
    <2> QED BY <2>1, <2>2
<1>17. ShareInv'
    <2> SUFFICES ASSUME NEW j \in Keys, NEW l \in Keys, j # l, Pinned(j)', Pinned(l)'
                 PROVE  /\ pin'[j] \in GSlots /\ pin'[l] \in GSlots => j \in odd' /\ l \in odd'
                        /\ pin'[j] = pin'[l] => pin'[j] \in GSlots
        BY DEF ShareInv
    <2>1. CASE j # k /\ l # k
        BY <1>9, <1>10, <1>13, <2>1 DEF SlotInv, ShareInv
    <2>2. CASE j = k
        BY <1>9, <1>11, <1>12, <1>13, <2>2
    <2>3. CASE l = k
        BY <1>9, <1>11, <1>12, <1>13, <2>3
    <2> QED BY <2>1, <2>2, <2>3
<1>18. GInv'
    <2>1. \A g \in GSlots : Open(g)' <=> Open(g) \/ g = a
        BY <1>14 DEF GSlots
    <2>2. \A g, h \in GSlots : Open(g)' /\ Open(h)' => g = h
        <3>1. CASE s \in GSlots
            BY <1>6, <2>1, <3>1 DEF SlotInv, GInv
        <3>2. CASE s \notin GSlots
            BY <1>6, <2>1, <3>2 DEF SlotInv, GInv
        <3> QED BY <3>1, <3>2
    <2>3. ASSUME NEW g \in GSlots, Open(g)'
          PROVE  \E j \in Keys : Pinned(j)' /\ pin'[j] \in GSlots
        <3>1. CASE Open(g)
            BY <1>1, <1>9, <1>13, <3>1 DEF SlotInv, GInv
        <3>2. CASE g = a
            <4>1. s \in GSlots
                BY <1>6, <3>2
            <4> QED BY <1>9, <1>13, <4>1
        <3> QED BY <2>1, <2>3, <3>1, <3>2
    <2> QED BY <2>2, <2>3 DEF GInv
<1>19. k \notin odd' => (Swallows(k)' <=> v = "swallowed")
    <2> SUFFICES ASSUME k \notin odd'
                 PROVE  Swallows(k)' <=> v = "swallowed"
        OBVIOUS
    <2>1. a = s /\ pin'[k] = s /\ Pinned(k)' /\ k \notin collide'
        BY <1>1, <1>9, <1>13, <1>15
    <2>2. hold'[pin'[k]] = v
        BY <1>4, <1>9, <2>1
    <2> QED BY <2>1, <2>2 DEF Swallows
<1>20. ASSUME NEW j \in Keys \ {k}, j \notin odd'
       PROVE  Swallows(j)' <=> Swallows(j)
    <2>1. (Pinned(j)' <=> Pinned(j)) /\ pin'[j] = pin[j]
        BY <1>9, <1>13
    <2>2. CASE Pinned(j)
        <3>1. pin[j] \in Slots
            BY <2>2 DEF Types, Pinned
        <3>2. pin[j] = a => a # s
            BY <1>11, <1>12, <1>20, <2>2
        <3>3. hold'[pin[j]] = hold[pin[j]]
            BY <1>9, <1>15, <3>1, <3>2
        <3> QED BY <1>1, <2>1, <3>3 DEF Swallows
    <2>3. CASE ~Pinned(j)
        BY <1>1, <2>1, <2>3 DEF Swallows
    <2> QED BY <2>2, <2>3
<1>21. Paired'
    BY <1>10, <1>19, <1>20, AnsweredPairs
<1> QED BY <1>16, <1>17, <1>18, <1>21 DEF SlotInv

\* A press that is no chord or is not looked at (DownForeign, DownGuarded).
LEMMA ForeignPairs ==
    ASSUME Types, SlotInv, Paired, NEW k \in Keys, DownForeign(k) \/ DownGuarded(k),
           pressed' = pressed \cup {k}
    PROVE  SlotInv' /\ Paired'
<1>1. PassOn(k) /\ UNCHANGED <<hold, pin, collide>>
    BY DEF DownForeign, DownGuarded
<1>2. k \notin odd => ~Swallows(k)
    BY OwnSlotAnswers DEF DownForeign, DownGuarded, key_is_down, Swallows, Pinned, Open
<1> QED BY <1>1, <1>2, PassedPairs

\* A release closes the key's own entry, or the slot that answers for its pin (KeyUp).
LEMMA ReleasePairs ==
    ASSUME Types, SlotInv, Paired, NEW k \in Keys, KeyUp(k)
    PROVE  SlotInv' /\ Paired'
<1> DEFINE s == UpSlot(k)
<1>1. /\ k \in pressed /\ pressed' = pressed \ {k} /\ collide' = collide \ {k}
      /\ osDown' = IF WillSwallow(k) THEN osDown ELSE osDown \ {k}
      /\ odd' = odd \ ({k} \ osDown')
    BY DEF KeyUp
<1>2. /\ \A j \in Keys \ {k} : j \in odd' <=> j \in odd
      /\ \A j \in Keys \ {k} : (j \in osDown' <=> j \in osDown) /\ (j \in pressed' <=> j \in pressed)
      /\ \A j \in Keys \ {k} : j \in collide' <=> j \in collide
    BY <1>1
<1>3. k \notin osDown' \ odd'
    <2> SUFFICES ASSUME k \in osDown', k \notin odd'
                 PROVE  FALSE
        OBVIOUS
    <2>1. k \in osDown /\ k \notin odd /\ WillSwallow(k)
        BY <1>1
    <2> QED BY <1>1, <2>1, OwnRelease DEF Paired
<1>4. ASSUME \A j \in Keys \ {k} : j \notin odd => (Swallows(j)' <=> Swallows(j))
      PROVE  Paired'
    <2>1. \A j \in osDown' \ odd' : j \in Keys \ {k} /\ j \in osDown \ odd
        BY <1>1, <1>2, <1>3 DEF Types
    <2>2. \A j \in pressed' \ odd' : j \in Keys \ {k} /\ j \in pressed \ odd
        BY <1>1, <1>2 DEF Types
    <2>3. \A j \in osDown' \ odd' : j \in pressed'
        BY <1>2, <2>1 DEF Paired
    <2>4. \A j \in pressed' \ odd' : j \in osDown' <=> ~Swallows(j)'
        BY <1>2, <1>4, <2>2 DEF Paired
    <2> QED BY <2>3, <2>4 DEF Paired
<1>5. CASE k \in collide
    <2>1. UNCHANGED <<hold, pin>> /\ ~Pinned(k)
        BY <1>5 DEF KeyUp, SlotInv, PinInv
    <2>2. PinInv'
        BY <1>2, <2>1 DEF SlotInv, PinInv, Pinned, Open
    <2>3. ShareInv'
        BY <1>2, <2>1 DEF SlotInv, ShareInv, Pinned
    <2>4. GInv'
        BY <2>1 DEF SlotInv, GInv, Pinned, Open
    <2>5. \A j \in Keys \ {k} : Swallows(j)' <=> Swallows(j)
        BY <1>2, <2>1 DEF Swallows, Pinned
    <2> QED BY <1>4, <2>2, <2>3, <2>4, <2>5 DEF SlotInv
<1>6. CASE k \notin collide
    <2>1. /\ pin' = [pin EXCEPT ![k] = NoRoute]
          /\ hold' = IF s = NoRoute THEN hold ELSE [hold EXCEPT ![s] = "up"]
        BY <1>6 DEF KeyUp
    <2>2. \A j \in Keys : pin'[j] = IF j = k THEN NoRoute ELSE pin[j]
        BY <2>1 DEF Types
    <2>3. \A j \in Keys : Pinned(j)' <=> Pinned(j) /\ j # k
        BY <2>2 DEF Pinned
    <2>4. /\ ~Pinned(k) => s = NoRoute
          /\ Pinned(k) => pin[k] \in Slots /\ s \in Slots /\ s # NoRoute
          /\ Pinned(k) /\ pin[k] \notin GSlots => s = pin[k]
          /\ Pinned(k) /\ pin[k] \in GSlots => s \in GSlots
          /\ \A g \in GSlots : Pinned(k) /\ pin[k] \in GSlots /\ Open(g) => s = g
        <3>1. CASE Pinned(k)
            <4>1. s = Answering(pin[k]) /\ pin[k] \in Slots
                BY <3>1 DEF UpSlot, Pinned, Types
            <4>2. /\ pin[k] \notin GSlots => Answering(pin[k]) = pin[k]
                  /\ pin[k] \in GSlots => Answering(pin[k]) \in GSlots
                  /\ \A g \in GSlots : pin[k] \in GSlots /\ Open(g) => Answering(pin[k]) = g
                BY <4>1, AnsweringFacts DEF SlotInv
            <4>3. s \in Slots /\ s # NoRoute
                BY <4>1, <4>2, SlotFacts DEF GSlots
            <4> QED BY <3>1, <4>1, <4>2, <4>3
        <3>2. CASE ~Pinned(k)
            BY <3>2 DEF UpSlot, Pinned
        <3> QED BY <3>1, <3>2
    <2>5. \A t \in Slots : hold'[t] = IF t = s THEN "up" ELSE hold[t]
        BY <2>1, <2>4, SlotFacts DEF Types
    <2> HIDE DEF s
    <2>6. ASSUME NEW j \in Keys \ {k}, Pinned(j), j \notin odd \/ pin[j] \notin GSlots
          PROVE  pin[j] \in Slots /\ pin[j] # s
        <3>1. pin[j] \in Slots
            BY <2>6 DEF Types, Pinned
        <3>2. CASE Pinned(k)
            <4>1. /\ pin[j] \in GSlots /\ pin[k] \in GSlots => j \in odd
                  /\ pin[j] = pin[k] => pin[j] \in GSlots
                BY <2>6, <3>2 DEF SlotInv, ShareInv
            <4>2. CASE pin[k] \in GSlots
                BY <2>4, <2>6, <3>1, <3>2, <4>1, <4>2
            <4>3. CASE pin[k] \notin GSlots
                BY <2>4, <3>1, <3>2, <4>1, <4>3
            <4> QED BY <4>2, <4>3
        <3>3. CASE ~Pinned(k)
            BY <2>4, <3>1, <3>3, SlotFacts
        <3> QED BY <3>1, <3>2, <3>3
    <2>7. PinInv'
        <3> SUFFICES ASSUME NEW j \in Keys, Pinned(j)'
                     PROVE  /\ j \notin collide'
                            /\ Open(pin[j])' \/ (pin'[j] \in GSlots /\ j \in odd')
            BY DEF PinInv
        <3>1. j # k /\ Pinned(j) /\ pin'[j] = pin[j]
            BY <2>2, <2>3
        <3>2. CASE j \notin odd \/ pin[j] \notin GSlots
            <4>1. hold'[pin[j]] = hold[pin[j]]
                BY <2>5, <2>6, <3>1, <3>2
            <4> QED BY <1>2, <3>1, <3>2, <4>1 DEF SlotInv, PinInv, Open
        <3>3. CASE j \in odd /\ pin[j] \in GSlots
            BY <1>2, <3>1, <3>3 DEF SlotInv, PinInv
        <3> QED BY <3>2, <3>3
    <2>8. ShareInv'
        BY <1>2, <2>2, <2>3 DEF SlotInv, ShareInv
    <2>9. GInv'
        <3>1. \A g \in GSlots : Open(g)' => Open(g) /\ g # s
            BY <2>5 DEF Open, GSlots
        <3>2. \A g, h \in GSlots : Open(g)' /\ Open(h)' => g = h
            BY <3>1 DEF SlotInv, GInv
        <3>3. ASSUME NEW g \in GSlots, Open(g)'
              PROVE  \E j \in Keys : Pinned(j)' /\ pin'[j] \in GSlots
            <4>1. PICK j \in Keys : Pinned(j) /\ pin[j] \in GSlots
                BY <3>1, <3>3 DEF SlotInv, GInv
            <4>2. j # k
                BY <2>4, <3>1, <3>3, <4>1
            <4> QED BY <2>2, <2>3, <4>1, <4>2
        <3> QED BY <3>2, <3>3 DEF GInv
    <2>10. ASSUME NEW j \in Keys \ {k}, j \notin odd
           PROVE  Swallows(j)' <=> Swallows(j)
        <3>1. (Pinned(j)' <=> Pinned(j)) /\ pin'[j] = pin[j]
            BY <2>2, <2>3
        <3>2. Pinned(j) => hold'[pin[j]] = hold[pin[j]]
            BY <2>5, <2>6, <2>10
        <3> QED BY <1>2, <3>1, <3>2 DEF Swallows
    <2> QED BY <1>4, <2>7, <2>8, <2>9, <2>10 DEF SlotInv
<1> QED BY <1>5, <1>6

-----------------------------------------------------------------------------
(* The mask.                                                               *)

\* A press of a key leaves the mask pending if it is swallowed under Win, and is seen
\* by the system if it is passed on.
LEMMA KeyMask ==
    ASSUME KeyboardAssumption, Types, MaskInv, NEW k \in Keys, KeyDown(k) \/ KeyUp(k)
    PROVE  MaskInv'
<1>1. win' = win
    BY DEF KeyDown, KeyUp
<1>2. \/ seen' = TRUE /\ UNCHANGED maskVars
      \/ ArmMask /\ seen' = seen
      \/ UNCHANGED <<mask_pending, mask_trigger, hold_masked, ate, seen>>
    <2>1. ASSUME NEW verdict, Answer(k, verdict)
          PROVE  \/ seen' = TRUE /\ UNCHANGED maskVars
                 \/ ArmMask /\ seen' = seen
                 \/ UNCHANGED <<mask_pending, mask_trigger, hold_masked, ate, seen>>
        BY <2>1 DEF Answer, Swallow, PassOn, maskVars
    <2>2. CASE DownCollided(k)
        <3>1. Answer(k, "swallowed")
            BY <2>2 DEF DownCollided, Answer
        <3> QED BY <2>1, <3>1
    <2>3. CASE DownPinned(k)
        <3>1. (\E verdict : Answer(k, verdict)) \/ PassOn(k)
            BY <2>3 DEF DownPinned
        <3> QED BY <2>1, <3>1 DEF PassOn
    <2>4. CASE DownForeign(k) \/ DownGuarded(k)
        BY <2>4 DEF DownForeign, DownGuarded, PassOn
    <2>5. CASE DownColliding(k)
        <3>1. Swallow(k) \/ PassOn(k)
            BY <2>5 DEF DownColliding
        <3> QED BY <3>1 DEF Swallow, PassOn, maskVars
    <2>6. CASE DownChord(k)
        BY <2>6 DEF DownChord, maskVars, ArmMask, fresh_route
    <2>7. CASE KeyUp(k)
        BY <2>7 DEF KeyUp, maskVars
    <2> QED BY <2>2, <2>3, <2>4, <2>5, <2>6, <2>7 DEF KeyDown
<1>3. hold_masked' = hold_masked
    BY <1>2 DEF ArmMask, maskVars
<1> QED BY <1>1, <1>2, <1>3 DEF MaskInv, ArmMask, maskVars

\* Win goes down or up, a drag is swallowed, and what else there is (WinDown, WinUp,
\* DragConsumed, Modifier, ApplyConfig, PublishGate, Drain).
LEMMA OtherMask ==
    ASSUME Types, MaskInv,
           \/ \E m \in Modifiers : Modifier(m)
           \/ \E w \in WinKeys : WinDown(w) \/ WinUp(w)
           \/ \E c \in Configs : ApplyConfig(c)
           \/ DragConsumed \/ PublishGate \/ Drain \/ UNCHANGED keyboardVars
    PROVE  MaskInv'
<1>1. ASSUME NEW w \in WinKeys, WinDown(w)
      PROVE  MaskInv'
    <2>1. w \in win' /\ mask_trigger' = mask_trigger
        BY <1>1 DEF WinDown, tables
    <2>2. CASE win = {}
        <3>1. ~hold_masked /\ UNCHANGED <<hold_masked, mask_pending>> /\ ate' = FALSE
            BY <1>1, <2>2 DEF WinDown, MaskInv
        <3> QED BY <3>1 DEF MaskInv
    <2>3. CASE win # {}
        <3>1. UNCHANGED <<ate, seen>>
            BY <1>1, <2>3 DEF WinDown
        <3>2. CASE w \in win /\ hold_masked
            BY <1>1, <2>1, <2>3, <3>1, <3>2 DEF WinDown, MaskInv
        <3>3. CASE ~(w \in win /\ hold_masked)
            BY <1>1, <2>1, <2>3, <3>1, <3>3 DEF WinDown, MaskInv
        <3> QED BY <3>2, <3>3
    <2> QED BY <2>2, <2>3
<1>2. ASSUME NEW w \in WinKeys, WinUp(w)
      PROVE  MaskInv'
    <2>1. CASE win' = {}
        BY <1>2, <2>1 DEF WinUp, MaskInv
    <2>2. CASE win' # {}
        <3>1. /\ win # {} /\ (seen' <=> seen \/ NeedsMask(w)) /\ ate' = ate
              /\ mask_pending' = (mask_pending /\ ~NeedsMask(w))
              /\ hold_masked' = (hold_masked \/ NeedsMask(w)) /\ mask_trigger' = mask_trigger
            BY <1>2, <2>2 DEF WinUp
        <3>2. CASE NeedsMask(w)
            BY <2>2, <3>1, <3>2 DEF MaskInv
        <3>3. CASE ~NeedsMask(w)
            BY <2>2, <3>1, <3>3 DEF MaskInv
        <3> QED BY <3>2, <3>3
    <2> QED BY <2>1, <2>2
<1>3. ASSUME DragConsumed
      PROVE  MaskInv'
    BY <1>3 DEF DragConsumed, MaskInv
<1>4. ASSUME UNCHANGED <<win, maskVars, ate, seen>>
      PROVE  MaskInv'
    BY <1>4 DEF MaskInv, maskVars
<1>5. ASSUME NEW m, Modifier(m)
      PROVE  MaskInv'
    BY <1>4, <1>5 DEF Modifier
<1>6. ASSUME NEW c, ApplyConfig(c)
      PROVE  MaskInv'
    BY <1>4, <1>6 DEF ApplyConfig
<1>7. CASE PublishGate \/ Drain \/ UNCHANGED keyboardVars
    BY <1>4, <1>7 DEF PublishGate, Drain, keyboardVars
<1> QED BY <1>1, <1>2, <1>3, <1>5, <1>6, <1>7

-----------------------------------------------------------------------------
(* Types.                                                                  *)

\* The tables keep their types.
LEMMA TypesStep ==
    ASSUME KeyboardAssumption, Types, SlotInv, [KeyboardNext]_keyboardVars
    PROVE  Types'
<1>1. CASE UNCHANGED keyboardVars
    BY <1>1 DEF Types, keyboardVars, tables
<1>2. ASSUME NEW k \in Keys, KeyDown(k)
      PROVE  Types'
    <2>1. UNCHANGED <<win, config>> /\ pressed' \subseteq Keys
        BY <1>2 DEF KeyDown, Types, tables
    <2>2. Verdict \in {"swallowed", "passed"}
        BY DEF Verdict
    <2>3. ASSUME NEW verdict, Answer(k, verdict)
          PROVE  osDown' \subseteq Keys /\ odd' \subseteq Keys
        BY <2>3 DEF Answer, Swallow, PassOn, Types
    <2>4. ASSUME PassOn(k)
          PROVE  osDown' \subseteq Keys /\ odd' \subseteq Keys
        BY <2>4 DEF PassOn, Types
    <2>5. ASSUME NEW s \in Slots
          PROVE  Answering(s) \in Slots
        BY AnsweringFacts DEF SlotInv, GSlots
    <2>6. CASE DownCollided(k)
        <3>1. Answer(k, "swallowed") /\ UNCHANGED <<hold, pin, collide>>
            BY <2>6 DEF DownCollided, Answer
        <3> QED BY <2>1, <2>3, <3>1 DEF Types
    <2>7. CASE DownPinned(k)
        <3>1. (\E verdict : Answer(k, verdict)) \/ PassOn(k)
            BY <2>7 DEF DownPinned
        <3>2. osDown' \subseteq Keys /\ odd' \subseteq Keys
            BY <2>3, <2>4, <3>1
        <3>3. UNCHANGED <<pin, collide>>
            BY <2>7 DEF DownPinned
        <3>4. hold' = hold \/ hold' = [hold EXCEPT ![Answering(pin[k])] = Reopened(k)]
            BY <2>7 DEF DownPinned
        <3>5. hold' \in [Slots -> {"up", "swallowed", "passed"}]
            BY <2>2, <3>4 DEF Types, Reopened
        <3> QED BY <2>1, <3>2, <3>3, <3>5 DEF Types
    <2>8. CASE DownForeign(k) \/ DownGuarded(k)
        <3>1. PassOn(k) /\ UNCHANGED <<hold, pin, collide>>
            BY <2>8 DEF DownForeign, DownGuarded
        <3> QED BY <2>1, <2>4, <3>1 DEF Types
    <2>9. CASE DownColliding(k)
        <3>1. UNCHANGED <<hold, pin>> /\ collide' \subseteq Keys
            BY <2>9 DEF DownColliding, Types
        <3>2. Answer(k, "swallowed") \/ PassOn(k)
            BY <2>9 DEF DownColliding, Answer
        <3> QED BY <2>1, <2>3, <2>4, <3>1, <3>2 DEF Types
    <2>10. CASE DownChord(k)
        <3> DEFINE s == fresh_route(k)
                   a == Answering(s)
                   sharers == {j \in Keys \ {k} : s[1] \in GArms /\ pin[j] # NoRoute /\ pin[j][1] \in GArms}
                   v == IF hold[a] = "up" THEN Verdict ELSE hold[a]
        <3>1. /\ pin' = [pin EXCEPT ![k] = s] /\ hold' = [hold EXCEPT ![a] = v]
              /\ UNCHANGED collide
              /\ odd' = odd \cup (IF v = "swallowed" THEN osDown \cap {k} ELSE {})
                            \cup (IF sharers = {} THEN {} ELSE sharers \cup {k})
              /\ osDown' = osDown \/ osDown' = osDown \cup {k}
            BY <2>10 DEF DownChord
        <3>2. s \in Slots
            BY <2>10, RouteFacts DEF DownChord
        <3>3. a \in Slots /\ sharers \subseteq Keys
            BY <2>5, <3>2
        <3>4. v \in {"up", "swallowed", "passed"}
            BY <2>2, <3>3 DEF Types
        <3> HIDE DEF s, a, v, sharers
        <3>5. pin' \in [Keys -> Slots \cup {NoRoute}]
            BY <3>1, <3>2 DEF Types
        <3>6. hold' \in [Slots -> {"up", "swallowed", "passed"}]
            BY <3>1, <3>4 DEF Types
        <3>7. osDown' \subseteq Keys /\ odd' \subseteq Keys
            BY <3>1, <3>3 DEF Types
        <3> QED BY <2>1, <3>1, <3>5, <3>6, <3>7 DEF Types
    <2> QED BY <1>2, <2>6, <2>7, <2>8, <2>9, <2>10 DEF KeyDown
<1>3. ASSUME NEW k \in Keys, KeyUp(k)
      PROVE  Types'
    <2>1. /\ UNCHANGED <<win, config>> /\ pressed' \subseteq Keys /\ osDown' \subseteq Keys
          /\ collide' \subseteq Keys /\ odd' \subseteq Keys
        BY <1>3 DEF KeyUp, Types, tables
    <2>2. pin' = pin \/ pin' = [pin EXCEPT ![k] = NoRoute]
        BY <1>3 DEF KeyUp
    <2>3. hold' = hold \/ hold' = [hold EXCEPT ![UpSlot(k)] = "up"]
        BY <1>3 DEF KeyUp
    <2> QED BY <2>1, <2>2, <2>3 DEF Types
<1>4. ASSUME UNCHANGED keyVars, win' \subseteq WinKeys, config' \in Configs
      PROVE  Types'
    BY <1>4 DEF Types, keyVars
<1>5. ASSUME NEW m, Modifier(m)
      PROVE  Types'
    BY <1>4, <1>5 DEF Modifier, tables, Types
<1>6. ASSUME NEW w \in WinKeys, WinDown(w) \/ WinUp(w)
      PROVE  Types'
    BY <1>4, <1>6 DEF WinDown, WinUp, tables, Types
<1>7. ASSUME NEW c \in Configs, ApplyConfig(c)
      PROVE  Types'
    BY <1>4, <1>7 DEF ApplyConfig, Types
<1>8. CASE DragConsumed \/ PublishGate \/ Drain
    BY <1>4, <1>8 DEF DragConsumed, PublishGate, Drain, tables, Types
<1> QED BY <1>1, <1>2, <1>3, <1>5, <1>6, <1>7, <1>8 DEF KeyboardNext

-----------------------------------------------------------------------------
(* The theorems.                                                           *)

\* The invariant holds at first (SnapClassify::new).
LEMMA InitKeyInv == KeyboardInit => KeyInv
<1> SUFFICES ASSUME KeyboardInit
             PROVE  KeyInv
    OBVIOUS
<1>1. \A k \in Keys : ~Pinned(k)
    BY DEF KeyboardInit, Pinned
<1>2. \A g \in Slots : ~Open(g)
    BY DEF KeyboardInit, Open
<1>3. Types /\ MaskInv /\ Paired
    BY DEF KeyboardInit, Types, MaskInv, Paired
<1>4. SlotInv
    BY <1>1, <1>2 DEF SlotInv, PinInv, ShareInv, GInv, GSlots
<1> QED BY <1>3, <1>4 DEF KeyInv

\* Every event and every call of the owner keeps it.
LEMMA KeyInvStep ==
    ASSUME KeyboardAssumption, KeyInv, [KeyboardNext]_keyboardVars
    PROVE  KeyInv'
<1>1. Types /\ MaskInv /\ SlotInv /\ Paired
    BY DEF KeyInv
<1>2. Types'
    BY <1>1, TypesStep
<1>3. ASSUME NEW k \in Keys, KeyDown(k)
      PROVE  SlotInv' /\ Paired' /\ MaskInv'
    <2>1. pressed' = pressed \cup {k}
        BY <1>3 DEF KeyDown
    <2>2. CASE DownCollided(k)
        BY <1>1, <2>1, <2>2, CollidedPairs, <1>3, KeyMask
    <2>3. CASE DownPinned(k)
        BY <1>1, <2>1, <2>3, PinnedPairs, <1>3, KeyMask
    <2>4. CASE DownForeign(k) \/ DownGuarded(k)
        BY <1>1, <2>1, <2>4, ForeignPairs, <1>3, KeyMask
    <2>5. CASE DownColliding(k)
        BY <1>1, <2>1, <2>5, CollidingPairs, <1>3, KeyMask
    <2>6. CASE DownChord(k)
        BY <1>1, <2>1, <2>6, ChordPairs, <1>3, KeyMask
    <2> QED BY <1>3, <2>2, <2>3, <2>4, <2>5, <2>6 DEF KeyDown
<1>4. ASSUME NEW k \in Keys, KeyUp(k)
      PROVE  SlotInv' /\ Paired' /\ MaskInv'
    BY <1>1, <1>4, ReleasePairs, KeyMask
<1>5. ASSUME UNCHANGED keyVars
      PROVE  SlotInv' /\ Paired'
    <2>1. SlotInv' /\ \A j : Swallows(j)' <=> Swallows(j)
        BY <1>1, <1>5, SlotsKept DEF keyVars
    <2>2. UNCHANGED <<osDown, pressed, odd>>
        BY <1>5 DEF keyVars
    <2> QED BY <1>1, <2>1, <2>2 DEF Paired
<1>6. ASSUME \/ \E m \in Modifiers : Modifier(m)
             \/ \E w \in WinKeys : WinDown(w) \/ WinUp(w)
             \/ \E c \in Configs : ApplyConfig(c)
             \/ DragConsumed \/ PublishGate \/ Drain \/ UNCHANGED keyboardVars
      PROVE  SlotInv' /\ Paired' /\ MaskInv'
    <2>1. MaskInv'
        BY <1>1, <1>6, OtherMask
    <2>2. UNCHANGED keyVars
        BY <1>6 DEF Modifier, WinDown, WinUp, ApplyConfig, DragConsumed, PublishGate, Drain,
                    keyboardVars, keyVars
    <2> QED BY <1>5, <2>1, <2>2
<1>7. SlotInv' /\ Paired' /\ MaskInv'
    BY <1>3, <1>4, <1>6 DEF KeyboardNext
<1> QED BY <1>2, <1>7 DEF KeyInv

\* Swallowed and passed presses have releases of their kind (snapkey.rs: phys_pin,
\* the verdict kept with the hold, the collision entries).
THEOREM PairsCloseAlways ==
    ASSUME KeyboardAssumption
    PROVE  KeyboardSpec => []PairsClose
<1>1. KeyInv => PairsClose
    <2> SUFFICES ASSUME KeyInv
                 PROVE  PairsClose
        OBVIOUS
    <2>1. \A k \in Keys : k \notin odd => (WillSwallow(k) <=> Swallows(k))
        BY OwnRelease DEF KeyInv
    <2> QED BY <2>1 DEF KeyInv, Paired, PairsClose, Types
<1>2. KeyInv /\ [KeyboardNext]_keyboardVars => KeyInv'
    BY KeyInvStep
<1> QED BY <1>1, <1>2, InitKeyInv, PTL DEF KeyboardSpec

\* The last Win key never goes up after a swallowed chord or drag without the system
\* having seen another key, unless the takeover is off at that release, which the code
\* then leaves unmasked (win_up_needs_mask, hold_masked, note_win_down; installed at
\* snapkey.rs:4815 against the comments at 4487 and 1155).
THEOREM StartStaysClosedAlways ==
    ASSUME KeyboardAssumption
    PROVE  KeyboardSpec => StartStaysClosed
<1>1. KeyInv /\ [KeyboardNext]_keyboardVars => MenuStep
    <2> SUFFICES ASSUME KeyInv, [KeyboardNext]_keyboardVars, NEW w \in WinKeys,
                        win = {w}, win' = {}, ate, ~TakeoverOff
                 PROVE  seen'
        BY DEF MenuStep
    <2>1. win' # win
        OBVIOUS
    <2>2. PICK u \in WinKeys : WinUp(u)
        <3>1. ASSUME NEW k, KeyDown(k) \/ KeyUp(k)
              PROVE  FALSE
            BY <2>1, <3>1 DEF KeyDown, KeyUp
        <3>2. ASSUME NEW m, Modifier(m)
              PROVE  FALSE
            BY <2>1, <3>2 DEF Modifier
        <3>3. ASSUME NEW c, ApplyConfig(c)
              PROVE  FALSE
            BY <2>1, <3>3 DEF ApplyConfig
        <3>4. ~(DragConsumed \/ PublishGate \/ Drain \/ UNCHANGED keyboardVars)
            BY <2>1 DEF DragConsumed, PublishGate, Drain, keyboardVars
        <3>5. ASSUME NEW v, WinDown(v)
              PROVE  FALSE
            BY <3>5 DEF WinDown
        <3> QED BY <3>1, <3>2, <3>3, <3>4, <3>5 DEF KeyboardNext
    <2>3. u = w /\ seen' = (seen \/ NeedsMask(w))
        BY <2>2 DEF WinUp
    <2>4. ~seen => NeedsMask(w)
        BY DEF KeyInv, MaskInv, NeedsMask, TakeoverOff
    <2> QED BY <2>3, <2>4
<1>2. KeyInv /\ [KeyboardNext]_keyboardVars => KeyInv'
    BY KeyInvStep
<1>3. KeyInv /\ [KeyboardNext]_keyboardVars => [MenuStep]_keyboardVars
    BY <1>1
<1> QED BY <1>2, <1>3, InitKeyInv, PTL DEF KeyboardSpec, StartStaysClosed

-----------------------------------------------------------------------------
(* Pointer gestures: the inductive invariant.                              *)

EventKinds == {"start", "end"}
Terminal == {"up", "cancel"}
WinEvents == [kind: EventKinds, hwnd: Hwnds, seq: Nat]
Entries == [before: BOOLEAN, start: Int, end: Int, key: Int, windrag: BOOLEAN,
            bound: BOOLEAN, latched: BOOLEAN, from: Int, to: Int, who: Int, odd: BOOLEAN]
Loops == [managed: SUBSET Hwnds, active: SUBSET Hwnds, known: [Hwnds -> Int],
          origins: [Hwnds -> Int], of: [Hwnds -> Entries]]
Edges == [kind: {"down"} \cup Terminal, hwnd: Hwnds, seq: Nat, snapshot: Int, who: Int]
Hooks == [bound: Hwnds \cup {Nil}, swallow_up: BOOLEAN, edges: Seq(Edges), lost: BOOLEAN,
          origins: [Hwnds -> Int]]

\* An entry with the n-th window of its handle: a gesture that began knows its window
\* by the key, and the key is none older than the window it took hold of.
EntryOK(g, n) ==
    /\ g.windrag <=> g.bound
    /\ g.before <=> g.key # Absent
    /\ g.before => g.key <= g.who /\ g.who <= n

LoopOK(l, age) ==
    /\ l \in Loops
    /\ \A h \in Hwnds : EntryOK(l.of[h], age[h]) /\ l.origins[h] <= age[h]

\* The hold of h is still there, or its end is queued behind the first n edges, or the
\* loss of it is noted.
EndsAfter(edges, n, h) ==
    \E j \in 1..Len(edges) : j > n /\ edges[j].kind \in Terminal /\ edges[j].hwnd = h
Answers(k, h) == k.bound = h \/ k.lost \/ EndsAfter(k.edges, 0, h)

\* A press is of a window published before, and its end follows it.
EdgeOK(e, age) == e.kind = "down" => e.snapshot <= e.who /\ e.who <= age[e.hwnd]
HookOK(k, age) ==
    /\ k \in Hooks
    /\ k.bound # Nil => ~k.swallow_up
    /\ \A h \in Hwnds : k.origins[h] <= age[h]
    /\ \A i \in 1..Len(k.edges) :
          /\ EdgeOK(k.edges[i], age)
          /\ k.edges[i].kind = "down" =>
                k.bound = k.edges[i].hwnd \/ EndsAfter(k.edges, i, k.edges[i].hwnd)

\* The end of a move of Windows is queued behind the first n events.
MoveEndsAfter(queue, n, h) ==
    \E j \in 1..Len(queue) : j > n /\ queue[j].kind = "end" /\ queue[j].hwnd = h
EventsOK(queue, held) ==
    \A i \in 1..Len(queue) :
        queue[i].kind = "start" =>
            held = queue[i].hwnd \/ MoveEndsAfter(queue, i, queue[i].hwnd)

\* Whom a pause of the loop waits for.
Waits(l, k, held, queue) ==
    \A h \in l.active :
        held = h \/ MoveEndsAfter(queue, 0, h) \/ (l.of[h].bound /\ Answers(k, h))

GesturesTypes ==
    /\ life \in [Hwnds -> Nat] /\ shown \in SUBSET Hwnds
    /\ button \in {"up", "app", "hook"} /\ moving \in Hwnds \cup {Nil}
    /\ esc \in [edge: BOOLEAN, seq: Nat] /\ windrag_esc \in [edge: BOOLEAN, seq: Nat]
    /\ events \in Seq(WinEvents)

GesturesInv ==
    /\ GesturesTypes /\ HookOK(hook, life) /\ LoopOK(loop, life)
    /\ button = "hook" <=> Consumed
    /\ EventsOK(events, moving)
    /\ Waits(loop, hook, moving, events)
    /\ ReleasesFollowPresses /\ DropsHitTheirWindow

-----------------------------------------------------------------------------
(* The queue of the hook.                                                    *)

\* What a queue holds is of its kind.
LEMMA Elements ==
    ASSUME NEW S, NEW s \in Seq(S), NEW i \in 1..Len(s)
    PROVE  s[i] \in S
OBVIOUS

\* push_terminal appends the edge; the oldest may go, which is noted.
LEMMA Pushed ==
    ASSUME GesturesAssumption, NEW k \in Hooks, NEW e \in Edges
    PROVE  /\ PushTerminal(k, e) \in Hooks
           /\ PushTerminal(k, e).bound = k.bound
           /\ PushTerminal(k, e).swallow_up <=> k.swallow_up
           /\ PushTerminal(k, e).origins = k.origins
           /\ k.lost => PushTerminal(k, e).lost
           /\ \E d \in {0, 1} :
                 /\ d = 1 => PushTerminal(k, e).lost
                 /\ d <= Len(k.edges)
                 /\ Len(PushTerminal(k, e).edges) = Len(k.edges) + 1 - d
                 /\ \A i \in 1..(Len(k.edges) - d) :
                       PushTerminal(k, e).edges[i] = k.edges[i + d]
                 /\ PushTerminal(k, e).edges[Len(k.edges) + 1 - d] = e
<1>1. k.edges \in Seq(Edges) /\ Len(k.edges) \in Nat
    BY DEF Hooks
<1>2. CASE Len(k.edges) < WindragQueueCap
    <2>1. PushTerminal(k, e) = [k EXCEPT !.edges = Append(@, e)]
        BY <1>2 DEF PushTerminal
    <2>2. Append(k.edges, e) \in Seq(Edges)
        BY <1>1
    <2>3. /\ PushTerminal(k, e) \in Hooks
          /\ PushTerminal(k, e).bound = k.bound
          /\ PushTerminal(k, e).swallow_up <=> k.swallow_up
          /\ PushTerminal(k, e).origins = k.origins
          /\ PushTerminal(k, e).lost <=> k.lost
          /\ PushTerminal(k, e).edges = Append(k.edges, e)
        BY <2>1, <2>2 DEF Hooks
    <2>4. /\ Len(Append(k.edges, e)) = Len(k.edges) + 1 - 0
          /\ \A i \in 1..(Len(k.edges) - 0) : Append(k.edges, e)[i] = k.edges[i + 0]
          /\ Append(k.edges, e)[Len(k.edges) + 1 - 0] = e
        BY <1>1
    <2> QED BY <1>1, <2>3, <2>4
<1>3. CASE ~(Len(k.edges) < WindragQueueCap)
    <2>0. Len(k.edges) >= 1
        BY <1>1, <1>3 DEF GesturesAssumption
    <2>1. PushTerminal(k, e) = [k EXCEPT !.edges = Append(Tail(@), e), !.lost = TRUE]
        BY <1>3 DEF PushTerminal
    <2>2. /\ Tail(k.edges) \in Seq(Edges) /\ Len(Tail(k.edges)) = Len(k.edges) - 1
          /\ \A i \in 1..(Len(k.edges) - 1) : Tail(k.edges)[i] = k.edges[i + 1]
        BY <1>1, <2>0
    <2>3. Append(Tail(k.edges), e) \in Seq(Edges)
        BY <2>2
    <2>4. /\ PushTerminal(k, e) \in Hooks
          /\ PushTerminal(k, e).bound = k.bound
          /\ PushTerminal(k, e).swallow_up <=> k.swallow_up
          /\ PushTerminal(k, e).origins = k.origins
          /\ PushTerminal(k, e).lost
          /\ PushTerminal(k, e).edges = Append(Tail(k.edges), e)
        BY <2>1, <2>3 DEF Hooks
    <2>5. /\ Len(Append(Tail(k.edges), e)) = Len(k.edges) + 1 - 1
          /\ \A i \in 1..(Len(k.edges) - 1) : Append(Tail(k.edges), e)[i] = k.edges[i + 1]
          /\ Append(Tail(k.edges), e)[Len(k.edges) + 1 - 1] = e
        BY <1>1, <2>0, <2>2
    <2> QED BY <2>0, <2>4, <2>5
<1> QED BY <1>2, <1>3

\* A hold is given up with the edge that ends it, which the loop will read unless an
\* older edge was lost for it (WinHookArm::on_up, clear, invalidate).
LEMMA GivenUp ==
    ASSUME GesturesAssumption, NEW age, NEW k, HookOK(k, age), k.bound # Nil,
           NEW f \in Hooks, f.bound = Nil, f.edges = k.edges, f.origins = k.origins,
           f.lost <=> k.lost,
           NEW e \in Edges, e.kind \in Terminal, e.hwnd = k.bound,
           NEW q, q = PushTerminal(f, e)
    PROVE  /\ HookOK(q, age) /\ q.bound = Nil /\ (q.swallow_up <=> f.swallow_up)
           /\ \A h : Answers(k, h) => Answers(q, h)
<1> DEFINE n == Len(k.edges)
<1>1. n \in Nat /\ k.edges \in Seq(Edges)
    BY DEF HookOK, Hooks
<1>2. /\ q \in Hooks /\ q.bound = Nil /\ (q.swallow_up <=> f.swallow_up)
      /\ q.origins = k.origins /\ (k.lost => q.lost)
    BY Pushed
<1>3. PICK d \in {0, 1} :
          /\ d = 1 => q.lost
          /\ d <= n /\ Len(q.edges) = n + 1 - d
          /\ \A i \in 1..(n - d) : q.edges[i] = k.edges[i + d]
          /\ q.edges[n + 1 - d] = e
    <2>1. \E d \in {0, 1} :
             /\ d = 1 => PushTerminal(f, e).lost
             /\ d <= Len(f.edges)
             /\ Len(PushTerminal(f, e).edges) = Len(f.edges) + 1 - d
             /\ \A i \in 1..(Len(f.edges) - d) :
                   PushTerminal(f, e).edges[i] = f.edges[i + d]
             /\ PushTerminal(f, e).edges[Len(f.edges) + 1 - d] = e
        BY Pushed, Zenon
    <2>2. PICK edges : edges = f.edges
        OBVIOUS
    <2>3. edges = k.edges
        BY <2>2
    <2> QED BY <2>1, <2>2, <2>3, Zenon
<1>4. n + 1 - d \in 1..Len(q.edges) /\ n + 1 - d \in Nat
    BY <1>1, <1>3
<1>5. ASSUME NEW i \in 0..(n - d)
      PROVE  EndsAfter(q.edges, i, k.bound)
    <2>1. n + 1 - d > i
        BY <1>1, <1>3
    <2> QED BY <1>3, <1>4, <2>1 DEF EndsAfter
<1>6. ASSUME NEW i \in 0..(n - d), NEW h, EndsAfter(k.edges, i + d, h)
      PROVE  EndsAfter(q.edges, i, h)
    <2>1. PICK j \in 1..n : j > i + d /\ k.edges[j].kind \in Terminal /\ k.edges[j].hwnd = h
        BY <1>6 DEF EndsAfter
    <2>2. j - d \in 1..(n - d) /\ j - d > i /\ (j - d) + d = j /\ j - d \in 1..Len(q.edges)
        BY <1>1, <1>3, <2>1
    <2>3. q.edges[j - d] = k.edges[j]
        BY <1>3, <2>2
    <2> QED BY <2>1, <2>2, <2>3 DEF EndsAfter
<1>7. ASSUME NEW i \in 1..Len(q.edges)
      PROVE  /\ EdgeOK(q.edges[i], age)
             /\ q.edges[i].kind = "down" => EndsAfter(q.edges, i, q.edges[i].hwnd)
    <2>1. CASE i = n + 1 - d
        BY <1>3, <2>1 DEF EdgeOK, Terminal
    <2>2. CASE i # n + 1 - d
        <3>1. i \in 1..(n - d) /\ i \in 0..(n - d) /\ i + d \in 1..n
            BY <1>1, <1>3, <2>2
        <3>2. q.edges[i] = k.edges[i + d]
            BY <1>3, <3>1
        <3>3. EdgeOK(k.edges[i + d], age)
              /\ (k.edges[i + d].kind = "down" =>
                    k.bound = k.edges[i + d].hwnd
                    \/ EndsAfter(k.edges, i + d, k.edges[i + d].hwnd))
            BY <3>1 DEF HookOK
        <3> QED BY <1>5, <1>6, <3>1, <3>2, <3>3
    <2> QED BY <2>1, <2>2
<1>8. HookOK(q, age)
    <2>1. \A h \in Hwnds : q.origins[h] <= age[h]
        BY <1>2 DEF HookOK
    <2> QED BY <1>2, <1>7, <2>1 DEF HookOK
<1>9. ASSUME NEW h, Answers(k, h)
      PROVE  Answers(q, h)
    <2>1. CASE k.bound = h
        <3>1. 0 \in 0..(n - d)
            BY <1>1, <1>3
        <3> QED BY <1>5, <2>1, <3>1 DEF Answers
    <2>2. CASE k.lost
        BY <1>2, <2>2 DEF Answers
    <2>3. CASE EndsAfter(k.edges, 0, h) /\ d = 0
        <3>1. 0 \in 0..(n - d) /\ 0 + d = 0
            BY <1>1, <2>3
        <3> QED BY <1>6, <2>3, <3>1 DEF Answers
    <2>4. CASE d = 1
        BY <1>3, <2>4 DEF Answers
    <2> QED BY <1>9, <2>1, <2>2, <2>3, <2>4 DEF Answers
<1> QED BY <1>2, <1>8, <1>9

\* WinHookArm::on_up: whose release the hook keeps.
Consuming(k) == k.bound # Nil \/ k.swallow_up

\* k became q with at most its hold given up.
LetGo(k, q, age) ==
    /\ HookOK(q, age)
    /\ Consuming(k) <=> Consuming(q)
    /\ \A h : Answers(k, h) => Answers(q, h)

\* WinHookArm::clear keeps the hook in order and its release.
LEMMA DisarmedLetsGo ==
    ASSUME GesturesAssumption, GesturesTypes, NEW k, HookOK(k, life)
    PROVE  LetGo(k, Disarmed(k), life)
<1>1. CASE k.bound = Nil
    BY <1>1 DEF Disarmed, LetGo
<1>2. CASE k.bound # Nil
    <2> DEFINE f == [k EXCEPT !.bound = Nil, !.swallow_up = TRUE]
               e == Edge("cancel", k.bound, Absent)
    <2>1. /\ f \in Hooks /\ f.bound = Nil /\ f.edges = k.edges /\ f.origins = k.origins
          /\ (f.lost <=> k.lost) /\ f.swallow_up
        BY DEF HookOK, Hooks
    <2>2. e \in Edges /\ e.kind \in Terminal /\ e.hwnd = k.bound
        <3>1. k.bound \in Hwnds
            BY <1>2 DEF HookOK, Hooks
        <3>2. life[k.bound] \in Nat /\ Absent \in Int
            BY <3>1 DEF GesturesTypes, Absent
        <3> QED BY <3>1, <3>2 DEF Edge, Edges, Terminal, GesturesTypes
    <2>3. Disarmed(k) = PushTerminal(f, e)
        BY <1>2 DEF Disarmed
    <2> HIDE DEF f, e
    <2>4. /\ HookOK(Disarmed(k), life) /\ Disarmed(k).bound = Nil
          /\ (Disarmed(k).swallow_up <=> f.swallow_up)
          /\ \A h : Answers(k, h) => Answers(Disarmed(k), h)
        BY <1>2, <2>1, <2>2, <2>3, GivenUp
    <2> QED BY <1>2, <2>1, <2>4 DEF LetGo, Consuming
<1> QED BY <1>1, <1>2

\* WinHookArm::invalidate, of windows that are gone.
LEMMA InvalidatedLetsGo ==
    ASSUME GesturesAssumption, GesturesTypes, NEW k, HookOK(k, life), NEW gone
    PROVE  LetGo(k, Invalidated(k, gone), life)
<1>1. LetGo(k, k, life)
    BY DEF LetGo
<1> QED BY <1>1, DisarmedLetsGo DEF Invalidated

-----------------------------------------------------------------------------
(* What is taken up.                                                         *)

\* No entry at all.
LEMMA BlankOK ==
    ASSUME NEW n
    PROVE  Blank \in Entries /\ EntryOK(Blank, n) /\ ~Blank.bound /\ ~Blank.before
    BY DEF Blank, Entries, EntryOK, Absent

\* The first start wins, and what it took hold of is the window there is
\* (capture_gesture_start).
LEMMA CapturedOK ==
    ASSUME GesturesTypes, NEW h \in Hwnds, NEW g \in Entries, EntryOK(g, life[h]), NEW seq \in Nat
    PROVE  /\ Captured(g, h, seq, life[h]) \in Entries
           /\ EntryOK(Captured(g, h, seq, life[h]), life[h])
<1> DEFINE c == Captured(g, h, seq, life[h])
<1>1. life[h] \in Nat
    BY DEF GesturesTypes
<1>2. /\ c.before /\ (c.bound <=> g.bound) /\ (c.windrag <=> g.windrag)
      /\ c.key = (IF g.key = Absent THEN life[h] ELSE g.key) /\ c.who = life[h]
    BY DEF Captured, Entries
<1>3. c \in Entries
    <2>1. PICK start \in Int : start = (IF g.start = Absent THEN seq ELSE g.start)
        BY DEF Entries
    <2>2. PICK key \in Int : key = (IF g.key = Absent THEN life[h] ELSE g.key)
        BY <1>1 DEF Entries
    <2>3. PICK stray \in BOOLEAN : stray = (g.odd \/ g.before \/ g.end # Absent)
        OBVIOUS
    <2>4. PICK who \in Int : who = life[h]
        BY <1>1
    <2>5. c = [g EXCEPT !.before = TRUE, !.start = start, !.key = key, !.from = seq,
                        !.to = Absent, !.who = who, !.odd = stray]
        BY <2>1, <2>2, <2>3, <2>4, Zenon DEF Captured
    <2> HIDE DEF c
    <2>6. seq \in Int /\ Absent \in Int
        BY DEF Absent
    <2> QED BY <2>5, <2>6 DEF Entries
<1>4. EntryOK(c, life[h])
    BY <1>1, <1>2 DEF EntryOK, Entries, Absent
<1> QED BY <1>3, <1>4

\* The first end wins, and it leaves the hold (gesture end capture).
LEMMA EndBoundOK ==
    ASSUME NEW g \in Entries, NEW n, EntryOK(g, n), NEW seq \in Nat, NEW windrag \in BOOLEAN
    PROVE  EndBound(g, seq, windrag) \in Entries /\ EntryOK(EndBound(g, seq, windrag), n)
<1> DEFINE c == EndBound(g, seq, windrag)
<1>1. /\ (c.before <=> g.before) /\ (c.bound <=> g.bound) /\ (c.windrag <=> g.windrag)
      /\ c.key = g.key /\ c.who = g.who
    BY DEF EndBound, Entries
<1>2. c \in Entries
    <2>1. PICK end \in Int : end = (IF g.end = Absent THEN seq ELSE g.end)
        BY DEF Entries
    <2>2. PICK stray \in BOOLEAN :
              stray = (g.odd \/ g.end # Absent \/ (g.before /\ g.windrag # windrag))
        OBVIOUS
    <2>3. c = [g EXCEPT !.end = end, !.to = seq, !.odd = stray]
        BY <2>1, <2>2, Zenon DEF EndBound
    <2> HIDE DEF c
    <2>4. seq \in Int
        OBVIOUS
    <2> QED BY <2>3, <2>4 DEF Entries
<1> QED BY <1>1, <1>2 DEF EntryOK

\* m is l with other maps and pauses, or with another entry for h; as an update and part
\* by part.
Remap(m, l, of, A) == m = [l EXCEPT !.of = of, !.active = A]
Remapped(m, l, of, A) ==
    m.active = A /\ m.of = of /\ m.managed = l.managed /\ m.origins = l.origins
Enter(m, l, h, g, A) == m = [l EXCEPT !.of[h] = g, !.active = A]
Entered(m, l, h, g, A) ==
    m.active = A /\ m.of[h] = g /\ \A x \in Hwnds : x # h => m.of[x] = l.of[x]
MapsOK(of, age) == of \in [Hwnds -> Entries] /\ \A h \in Hwnds : EntryOK(of[h], age[h])

\* Maps in order keep the loop in order.
LEMMA RemapOK ==
    ASSUME NEW age, NEW l, LoopOK(l, age), NEW A, A \subseteq Hwnds,
           NEW of, MapsOK(of, age), NEW m, Remap(m, l, of, A)
    PROVE  LoopOK(m, age) /\ Remapped(m, l, of, A)
<1>1. /\ l.managed \in SUBSET Hwnds /\ l.known \in [Hwnds -> Int]
      /\ l.origins \in [Hwnds -> Int] /\ of \in [Hwnds -> Entries]
    BY DEF LoopOK, Loops, MapsOK
<1>2. l = [managed |-> l.managed, active |-> l.active, known |-> l.known,
           origins |-> l.origins, of |-> l.of]
    BY DEF LoopOK, Loops
<1>3. m = [managed |-> l.managed, active |-> A, known |-> l.known, origins |-> l.origins,
           of |-> of]
    BY <1>2 DEF Remap
<1>4. m \in Loops
    BY <1>1, <1>3 DEF Loops
<1>5. m.active = A
    BY <1>3
<1>6. m.of = of
    BY <1>3
<1>7. m.managed = l.managed /\ m.origins = l.origins
    BY <1>3
<1>8. \A h \in Hwnds : EntryOK(m.of[h], age[h]) /\ m.origins[h] <= age[h]
    BY <1>6, <1>7 DEF LoopOK, MapsOK
<1>9. LoopOK(m, age)
    BY <1>4, <1>8 DEF LoopOK
<1> QED BY <1>5, <1>6, <1>7, <1>9 DEF Remapped

\* And so does one entry in order.
LEMMA EnterOK ==
    ASSUME NEW age, NEW l, LoopOK(l, age), NEW h \in Hwnds,
           NEW g, g \in Entries, EntryOK(g, age[h]), NEW A, A \subseteq Hwnds,
           NEW m, Enter(m, l, h, g, A)
    PROVE  LoopOK(m, age) /\ Entered(m, l, h, g, A)
<1>1. l.of \in [Hwnds -> Entries] /\ \A x \in Hwnds : EntryOK(l.of[x], age[x])
    BY DEF LoopOK, Loops
<1>2. PICK of : of = [l.of EXCEPT ![h] = g]
    OBVIOUS
<1>3. of \in [Hwnds -> Entries] /\ of[h] = g /\ \A x \in Hwnds : x # h => of[x] = l.of[x]
    BY <1>1, <1>2
<1>4. MapsOK(of, age)
    BY <1>1, <1>3 DEF MapsOK
<1>5. Remap(m, l, of, A)
    BY <1>2 DEF Enter, Remap
<1>6. LoopOK(m, age) /\ Remapped(m, l, of, A)
    BY <1>4, <1>5, RemapOK
<1> QED BY <1>3, <1>6 DEF Remapped, Entered

\* What one event or edge does to the pauses of the loop.
HandleEffect(l, m, e) ==
    /\ LoopOK(m, life)
    /\ \A x \in m.active :
          \/ /\ x \in l.active /\ m.of[x] = l.of[x]
             /\ x = e.hwnd => e.kind # "end"
             /\ x = e.hwnd /\ e.kind \in Terminal => ~l.of[x].bound
          \/ x = e.hwnd /\ e.kind = "start"
          \/ x = e.hwnd /\ e.kind = "down" /\ m.of[x].bound

\* clear_windrag_gesture ends the hold of h, if there is one.
LEMMA ClearedOK ==
    ASSUME NEW l, LoopOK(l, life), NEW h \in Hwnds
    PROVE  /\ LoopOK(Cleared(l, h), life)
           /\ \A x \in Cleared(l, h).active : x \in l.active /\ Cleared(l, h).of[x] = l.of[x]
           /\ l.of[h].bound => h \notin Cleared(l, h).active
<1>1. l.of[h] \in Entries /\ EntryOK(l.of[h], life[h]) /\ l.active \in SUBSET Hwnds
    BY DEF LoopOK, Loops
<1>2. CASE l.of[h].bound
    <2> DEFINE A == l.active \ {h}
    <2>1. Enter(Cleared(l, h), l, h, Blank, A)
        BY <1>2 DEF Cleared, Enter
    <2>2. A \subseteq Hwnds
        BY <1>1
    <2>3. Blank \in Entries /\ EntryOK(Blank, life[h])
        BY BlankOK
    <2> HIDE DEF A
    <2>4. LoopOK(Cleared(l, h), life) /\ Entered(Cleared(l, h), l, h, Blank, A)
        BY <2>1, <2>2, <2>3, EnterOK
    <2> QED BY <1>1, <2>4 DEF A, Entered
<1>3. CASE ~l.of[h].bound
    <2>1. Cleared(l, h) = l
        BY <1>1, <1>3 DEF Cleared, EntryOK
    <2> QED BY <1>3, <2>1
<1> QED BY <1>2, <1>3

\* windrag_down: a press becomes a hold of the window that is there, or nothing.
LEMMA DownOK ==
    ASSUME GesturesTypes, NEW l, LoopOK(l, life), NEW e \in Edges, e.kind = "down", EdgeOK(e, life),
           NEW willing
    PROVE  HandleEffect(l, HandleDown(l, e, willing), e)
<1> DEFINE h == e.hwnd
           m == HandleDown(l, e, willing)
<1>1. h \in Hwnds /\ e.seq \in Nat /\ e.snapshot \in Int /\ e.who \in Int /\ life[h] \in Nat
    BY DEF Edges, GesturesTypes
<1>2. l.of[h] \in Entries /\ EntryOK(l.of[h], life[h]) /\ l.active \in SUBSET Hwnds
    BY <1>1 DEF LoopOK, Loops
<1>3. CASE ~DownStands(l, e)
    <2>1. m = l
        BY <1>3 DEF HandleDown
    <2> QED BY <2>1 DEF HandleEffect, Terminal
<1>4. CASE DownStands(l, e)
    <2>1. e.who = life[h]
        BY <1>1, <1>4 DEF DownStands, EdgeOK
    <2> DEFINE c == Captured(l.of[h], h, e.seq, life[h])
               g == [c EXCEPT !.windrag = TRUE, !.bound = TRUE]
               armed == [l EXCEPT !.of[h] = g, !.active = l.active \cup {h}]
    <2>2. c \in Entries /\ EntryOK(c, life[h])
        BY <1>1, <1>2, CapturedOK
    <2>3. g \in Entries /\ EntryOK(g, life[h]) /\ g.bound
        <3> HIDE DEF c
        <3>1. /\ g \in Entries /\ g.bound /\ g.windrag /\ (g.before <=> c.before)
              /\ g.key = c.key /\ g.who = c.who
            BY <2>2 DEF Entries
        <3> HIDE DEF g
        <3> QED BY <2>2, <3>1 DEF EntryOK
    <2>4. m = IF veto \/ h \notin willing THEN Cleared(armed, h) ELSE armed
        BY <1>4, <2>1 DEF HandleDown
    <2>5. /\ LoopOK(armed, life) /\ armed.active = l.active \cup {h} /\ armed.of[h] = g
          /\ \A x \in Hwnds : x # h => armed.of[x] = l.of[x]
        <3> DEFINE A == l.active \cup {h}
        <3>1. A \subseteq Hwnds
            BY <1>1, <1>2
        <3>2. Enter(armed, l, h, g, A)
            BY DEF Enter
        <3> HIDE DEF g, A, armed
        <3>3. LoopOK(armed, life) /\ Entered(armed, l, h, g, A)
            BY <1>1, <2>3, <3>1, <3>2, EnterOK
        <3> QED BY <3>3 DEF Entered, A
    <2> HIDE DEF armed, g, m
    <2>6. ASSUME m = armed
          PROVE  HandleEffect(l, m, e)
        <3>1. ASSUME NEW x \in m.active, x # h
              PROVE  x \in l.active /\ m.of[x] = l.of[x]
            BY <1>2, <2>5, <2>6, <3>1
        <3>2. m.of[h].bound
            BY <2>3, <2>5, <2>6
        <3>3. LoopOK(m, life)
            BY <2>5, <2>6
        <3>4. HandleEffect(l, m, e)
            BY <3>1, <3>2, <3>3 DEF HandleEffect, Terminal
        <3> QED BY <3>4
    <2>7. ASSUME m = Cleared(armed, h)
          PROVE  HandleEffect(l, m, e)
        <3>1. /\ LoopOK(m, life)
              /\ \A x \in m.active : x \in armed.active /\ m.of[x] = armed.of[x]
              /\ h \notin m.active
            BY <1>1, <2>3, <2>5, <2>7, ClearedOK
        <3>2. ASSUME NEW x \in m.active
              PROVE  x # h /\ x \in l.active /\ m.of[x] = l.of[x]
            BY <1>2, <2>5, <3>1
        <3>3. HandleEffect(l, m, e)
            BY <3>1, <3>2 DEF HandleEffect
        <3> QED BY <3>3
    <2>8. HandleEffect(l, m, e)
        BY <2>4, <2>6, <2>7
    <2> QED BY <2>8 DEF m
<1> QED BY <1>3, <1>4

\* What is queued keeps the maps in order, and only a start or a press pauses.
LEMMA HandleOK ==
    ASSUME GesturesTypes, NEW l, LoopOK(l, life), NEW willing, NEW e,
           \/ e \in WinEvents
           \/ e \in Edges /\ EdgeOK(e, life)
    PROVE  HandleEffect(l, Handle(l, e, willing), e)
<1> DEFINE h == e.hwnd
<1>1. h \in Hwnds /\ e.seq \in Nat /\ e.kind \in {"start", "end", "down", "up", "cancel"}
    BY DEF Edges, WinEvents, EventKinds, Terminal
<1>2. l.of[h] \in Entries /\ EntryOK(l.of[h], life[h]) /\ l.active \in SUBSET Hwnds
    BY <1>1 DEF LoopOK, Loops
<1>3. CASE e.kind = "start"
    <2> DEFINE g == Captured(l.of[h], h, e.seq, life[h])
               A == l.active \cup {h}
               m == HandleStart(l, e)
    <2>1. Handle(l, e, willing) = m
        BY <1>3 DEF Handle
    <2>2. Enter(m, l, h, g, A)
        BY DEF HandleStart, Enter
    <2>3. g \in Entries /\ EntryOK(g, life[h]) /\ A \subseteq Hwnds
        BY <1>1, <1>2, CapturedOK
    <2> HIDE DEF g, A, m
    <2>4. /\ LoopOK(m, life) /\ m.active = A
          /\ \A x \in Hwnds : x # h => m.of[x] = l.of[x]
        <3>1. LoopOK(m, life) /\ Entered(m, l, h, g, A)
            BY <1>1, <2>2, <2>3, EnterOK
        <3> QED BY <3>1 DEF Entered
    <2>5. ASSUME NEW x \in m.active, x # h
          PROVE  x \in l.active /\ m.of[x] = l.of[x]
        BY <1>2, <2>4, <2>5 DEF A
    <2>6. HandleEffect(l, m, e)
        BY <1>3, <2>4, <2>5 DEF HandleEffect
    <2> QED BY <2>1, <2>6
<1>4. CASE e.kind = "end"
    <2> DEFINE g == EndBound(l.of[h], e.seq, FALSE)
               A == l.active \ {h}
               m == HandleEnd(l, e)
    <2>1. Handle(l, e, willing) = m
        BY <1>4 DEF Handle
    <2>2. Enter(m, l, h, g, A)
        BY DEF HandleEnd, Enter
    <2>3. g \in Entries /\ EntryOK(g, life[h]) /\ A \subseteq Hwnds
        BY <1>1, <1>2, EndBoundOK
    <2> HIDE DEF g, A, m
    <2>4. /\ LoopOK(m, life) /\ m.active = A
          /\ \A x \in Hwnds : x # h => m.of[x] = l.of[x]
        <3>1. LoopOK(m, life) /\ Entered(m, l, h, g, A)
            BY <1>1, <2>2, <2>3, EnterOK
        <3> QED BY <3>1 DEF Entered
    <2>5. ASSUME NEW x \in m.active
          PROVE  x # h /\ x \in l.active /\ m.of[x] = l.of[x]
        BY <1>2, <2>4 DEF A
    <2>6. HandleEffect(l, m, e)
        BY <2>4, <2>5 DEF HandleEffect
    <2> QED BY <2>1, <2>6
<1>5. CASE e.kind = "down"
    <2>1. e \in Edges /\ EdgeOK(e, life)
        BY <1>5 DEF WinEvents, EventKinds
    <2>2. Handle(l, e, willing) = HandleDown(l, e, willing)
        BY <1>5 DEF Handle
    <2> QED BY <1>5, <2>1, <2>2, DownOK
<1>6. CASE e.kind = "up"
    <2> DEFINE m == HandleUp(l, e)
    <2>1. Handle(l, e, willing) = m
        BY <1>6 DEF Handle
    <2>2. CASE l.of[h].bound /\ l.of[h].windrag /\ h \in l.active
        <3> DEFINE g == EndBound(l.of[h], e.seq, TRUE)
                   A == l.active \ {h}
        <3>1. Enter(m, l, h, g, A)
            BY <2>2 DEF HandleUp, Enter
        <3>2. g \in Entries /\ EntryOK(g, life[h]) /\ A \subseteq Hwnds
            BY <1>1, <1>2, EndBoundOK
        <3> HIDE DEF g, A, m
        <3>3. /\ LoopOK(m, life) /\ m.active = A
              /\ \A x \in Hwnds : x # h => m.of[x] = l.of[x]
            <4>1. LoopOK(m, life) /\ Entered(m, l, h, g, A)
                BY <1>1, <3>1, <3>2, EnterOK
            <4> QED BY <4>1 DEF Entered
        <3>4. ASSUME NEW x \in m.active
              PROVE  x # h /\ x \in l.active /\ m.of[x] = l.of[x]
            BY <1>2, <3>3 DEF A
        <3>5. HandleEffect(l, m, e)
            BY <3>3, <3>4 DEF HandleEffect
        <3> QED BY <2>1, <3>5
    <2>3. CASE ~(l.of[h].bound /\ l.of[h].windrag /\ h \in l.active)
        <3>1. m = l
            BY <2>3 DEF HandleUp
        <3>2. h \in l.active => ~l.of[h].bound
            BY <1>2, <2>3 DEF EntryOK
        <3> HIDE DEF m
        <3>3. HandleEffect(l, m, e)
            BY <1>6, <3>1, <3>2 DEF HandleEffect
        <3> QED BY <2>1, <3>3
    <2> QED BY <2>2, <2>3
<1>7. CASE e.kind = "cancel"
    <2> DEFINE m == Cleared(l, h)
    <2>1. Handle(l, e, willing) = m
        BY <1>7 DEF Handle
    <2>2. /\ LoopOK(m, life)
          /\ \A x \in m.active : x \in l.active /\ m.of[x] = l.of[x]
          /\ l.of[h].bound => h \notin m.active
        BY <1>1, ClearedOK
    <2> HIDE DEF m
    <2>3. HandleEffect(l, m, e)
        BY <1>7, <2>2 DEF HandleEffect
    <2> QED BY <2>1, <2>3
<1> QED BY <1>1, <1>3, <1>4, <1>5, <1>6, <1>7

-----------------------------------------------------------------------------
(* Queues are taken up one by one.  The library's induction theorems are about *)
(* operators, which the provers cannot instantiate; UpTo is about sets.        *)

\* What a count of handled entries rests on: a set of numbers that has a member has a least one.
LEMMA LeastNumber ==
    ASSUME NEW S \in SUBSET Nat, S # {}
    PROVE  \E n \in S : \A m \in S : n <= m
<1> DEFINE T == {1..n : n \in S}
<1>1. T \subseteq FiniteSubsetsOf(Nat)
    <2> SUFFICES ASSUME NEW n \in S
                 PROVE  1..n \in FiniteSubsetsOf(Nat)
        OBVIOUS
    <2>1. IsFiniteSet(1..n)
        BY FS_Interval
    <2> QED BY <2>1 DEF FiniteSubsetsOf
<1>2. PICK X \in T : \A Y \in T : ~(<<Y, X>> \in StrictSubsetOrdering(Nat))
    <2>1. T # {}
        OBVIOUS
    <2> HIDE DEF T
    <2> QED BY <1>1, <2>1, WFMin, FS_StrictSubsetOrderingWellFounded
<1>3. PICK n \in S : X = 1..n
    OBVIOUS
<1>4. ASSUME NEW m \in S, ~(n <= m)
      PROVE  FALSE
    <2>1. n \in 1..n /\ n \notin 1..m
        BY <1>4
    <2>2. 1..m \subseteq 1..n /\ 1..m # 1..n
        BY <1>4, <2>1
    <2>3. <<1..m, X>> \in StrictSubsetOrdering(Nat)
        BY <1>3, <2>2 DEF StrictSubsetOrdering
    <2> QED BY <1>2, <2>3
<1> QED BY <1>4

\* Induction over the entries of a queue: a set with 0 that is closed under successor, up to n.
LEMMA UpTo ==
    ASSUME NEW n \in Nat, NEW S, 0 \in S, \A i \in 1..n : i - 1 \in S => i \in S
    PROVE  \A i \in 0..n : i \in S
<1> DEFINE Bad == {i \in 0..n : i \notin S}
<1> SUFFICES ASSUME Bad # {}
             PROVE  FALSE
    OBVIOUS
<1>1. PICK i \in Bad : \A j \in Bad : i <= j
    <2>1. Bad \in SUBSET Nat
        OBVIOUS
    <2> QED BY <2>1, LeastNumber
<1>2. i \in 1..n
    OBVIOUS
<1>3. i - 1 \notin Bad
    BY <1>1, <1>2
<1> QED BY <1>2, <1>3

HandledUpTo(l, queue, count, willing, f) ==
    f = [n \in 0..count |-> IF n = 0 THEN l ELSE Handle(f[n - 1], queue[n], willing)]

\* The function that Handled speaks of exists.
LEMMA HandledIsDefined ==
    ASSUME NEW l, NEW queue, NEW count \in Nat, NEW willing
    PROVE  \E f : HandledUpTo(l, queue, count, willing, f)
                  /\ Handled(l, queue, count, willing) = f[count]
<1> DEFINE Step(f, i) == IF i = 0 THEN l ELSE Handle(f[i - 1], queue[i], willing)
           Good == {n \in Nat : \E f : f = [i \in 0..n |-> Step(f, i)]}
<1>1. 0 \in Good
    <2> DEFINE f == [i \in 0..0 |-> l]
    <2>1. f = [i \in 0..0 |-> Step(f, i)]
        OBVIOUS
    <2> QED BY <2>1
<1>2. ASSUME NEW n \in 1..count, n - 1 \in Good
      PROVE  n \in Good
    <2>0. n \in Nat /\ n - 1 \in Nat /\ n # 0
        OBVIOUS
    <2>1. PICK f : f = [i \in 0..(n - 1) |-> Step(f, i)]
        BY <1>2
    <2> DEFINE g == [i \in 0..n |-> IF i = n THEN Step(f, n) ELSE f[i]]
    <2>2. ASSUME NEW i \in 0..n
          PROVE  g[i] = Step(g, i)
        <3>1. CASE i = n
            <4>1. n - 1 \in 0..n /\ n - 1 # n
                BY <2>0
            <4>2. g[n - 1] = f[n - 1]
                BY <4>1
            <4>3. g[i] = Step(f, n)
                BY <3>1
            <4> QED BY <3>1, <4>2, <4>3
        <3>2. CASE i # n /\ i # 0
            <4>1. i - 1 \in 0..(n - 1) /\ i - 1 # n /\ i \in 0..(n - 1) /\ i - 1 \in 0..n
                BY <2>0, <3>2
            <4>2. g[i - 1] = f[i - 1]
                BY <4>1
            <4>3. g[i] = f[i]
                BY <3>2
            <4>4. f[i] = Step(f, i)
                <5> HIDE DEF Step
                <5> QED BY <2>1, <4>1
            <4> QED BY <3>2, <4>2, <4>3, <4>4
        <3>3. CASE i = 0
            <4>1. 0 # n /\ 0 \in 0..(n - 1) /\ 0 \in 0..n
                BY <2>0
            <4>2. g[0] = f[0]
                BY <4>1
            <4>3. f[0] = Step(f, 0)
                BY <2>1, <4>1
            <4> QED BY <3>3, <4>2, <4>3
        <3> QED BY <3>1, <3>2, <3>3
    <2>3. g = [i \in 0..n |-> g[i]]
        OBVIOUS
    <2> HIDE DEF Step, g
    <2>4. g = [i \in 0..n |-> Step(g, i)]
        BY <2>2, <2>3
    <2> QED BY <2>0, <2>4
<1> HIDE DEF Good
<1>3. count \in 0..count
    OBVIOUS
<1>4. count \in Good
    BY <1>1, <1>2, <1>3, UpTo
<1>5. \E f : HandledUpTo(l, queue, count, willing, f)
    BY <1>4 DEF Good, HandledUpTo
<1> DEFINE handled == CHOOSE f : HandledUpTo(l, queue, count, willing, f)
<1>6. HandledUpTo(l, queue, count, willing, handled)
    BY <1>5
<1>7. Handled(l, queue, count, willing) = handled[count]
    BY DEF Handled, HandledUpTo
<1> QED BY <1>6, <1>7

\* Its values are made one from the other.
LEMMA HandledSteps ==
    ASSUME NEW l, NEW queue, NEW count \in Nat, NEW willing, NEW f,
           HandledUpTo(l, queue, count, willing, f)
    PROVE  /\ f[0] = l
           /\ \A n \in 1..count : f[n] = Handle(f[n - 1], queue[n], willing)
<1>1. f[0] = l
    BY DEF HandledUpTo
<1>2. ASSUME NEW n \in 1..count
      PROVE  f[n] = Handle(f[n - 1], queue[n], willing)
    <2>1. n \in 0..count /\ n # 0
        OBVIOUS
    <2>2. f[n] = IF n = 0 THEN l ELSE Handle(f[n - 1], queue[n], willing)
        BY <2>1, Zenon DEF HandledUpTo
    <2> QED BY <2>1, <2>2
<1> QED BY <1>1, <1>2

\* After the window events a pause is of a window in the user's hand, or of a hold of
\* ours (winevent_proc, the loop's first queue).
LEMMA EventsHandled ==
    ASSUME GesturesAssumption, GesturesInv, NEW willing,
           NEW m, m = Handled(loop, events, Len(events), willing)
    PROVE  /\ LoopOK(m, life)
           /\ \A h \in m.active : moving = h \/ (m.of[h].bound /\ Answers(hook, h))
<1>0. PICK count : count = Len(events)
    OBVIOUS
<1>1. count \in Nat /\ GesturesTypes /\ LoopOK(loop, life)
      /\ events \in Seq(WinEvents)
    BY <1>0 DEF GesturesInv, GesturesTypes
<1>2. PICK f : HandledUpTo(loop, events, count, willing, f) /\ m = f[count]
    BY <1>0, <1>1, HandledIsDefined
<1>3. f[0] = loop /\ \A n \in 1..count : f[n] = Handle(f[n - 1], events[n], willing)
    BY <1>1, <1>2, HandledSteps
<1> DEFINE Pauses(l, n) == \A h \in l.active :
               moving = h \/ MoveEndsAfter(events, n, h) \/ (l.of[h].bound /\ Answers(hook, h))
           Good == {n \in 0..count : LoopOK(f[n], life) /\ Pauses(f[n], n)}
<1>4. 0 \in Good
    BY <1>1, <1>3 DEF GesturesInv, Waits
<1>5. ASSUME NEW n \in 1..count, n - 1 \in Good
      PROVE  n \in Good
    <2> DEFINE e == events[n]
    <2>1. LoopOK(f[n - 1], life) /\ Pauses(f[n - 1], n - 1) /\ n \in 0..count /\ n \in Nat
        BY <1>5
    <2>2. e \in WinEvents
        BY <1>0, <1>1, Elements
    <2>3. HandleEffect(f[n - 1], f[n], e)
        BY <1>1, <1>3, <2>1, <2>2, HandleOK
    <2>4. EventsOK(events, moving)
        BY DEF GesturesInv
    <2>5. ASSUME NEW h \in f[n].active
          PROVE  \/ moving = h \/ MoveEndsAfter(events, n, h)
                 \/ (f[n].of[h].bound /\ Answers(hook, h))
        <3>1. CASE h = e.hwnd /\ e.kind = "start"
            BY <1>0, <1>1, <2>4, <3>1 DEF EventsOK
        <3>2. CASE /\ h \in f[n - 1].active /\ f[n].of[h] = f[n - 1].of[h]
                   /\ h = e.hwnd => e.kind # "end"
            <4>1. ASSUME MoveEndsAfter(events, n - 1, h)
                  PROVE  MoveEndsAfter(events, n, h)
                <5>1. PICK j \in 1..count : j > n - 1 /\ events[j].kind = "end"
                                            /\ events[j].hwnd = h
                    BY <1>0, <4>1 DEF MoveEndsAfter
                <5>2. j # n
                    BY <3>2, <5>1
                <5>3. j > n
                    BY <5>1, <5>2, <2>1
                <5> QED BY <1>0, <5>1, <5>3 DEF MoveEndsAfter
            <4> QED BY <2>1, <3>2, <4>1
        <3>3. e.kind # "down"
            BY <2>2 DEF WinEvents, EventKinds
        <3> QED BY <2>3, <3>1, <3>2, <3>3 DEF HandleEffect
    <2>6. LoopOK(f[n], life)
        BY <2>3 DEF HandleEffect
    <2> QED BY <2>1, <2>5, <2>6
<1> HIDE DEF Good
<1>6. count \in Good
    <2>1. count \in 0..count
        BY <1>1
    <2> QED BY <1>1, <1>4, <1>5, <2>1, UpTo
<1>7. LoopOK(m, life) /\ Pauses(m, count)
    BY <1>2, <1>6 DEF Good
<1>8. \A h : ~MoveEndsAfter(events, count, h)
    BY <1>0, <1>1 DEF MoveEndsAfter
<1> QED BY <1>7, <1>8

\* After the edges of the pass a hold of ours is one of the hook, or its end is queued
\* behind them (windrag_down, windrag_up).
LEMMA EdgesHandled ==
    ASSUME GesturesAssumption, GesturesInv, NEW willing, NEW l, LoopOK(l, life),
           \A h \in l.active :
               moving = h \/ (l.of[h].bound /\ (hook.bound = h \/ EndsAfter(hook.edges, 0, h))),
           NEW m, m = Handled(l, hook.edges, Batch, willing)
    PROVE  /\ LoopOK(m, life)
           /\ \A h \in m.active :
                 \/ moving = h
                 \/ m.of[h].bound /\ (hook.bound = h \/ EndsAfter(hook.edges, Batch, h))
<1>1. GesturesTypes /\ HookOK(hook, life) /\ hook.edges \in Seq(Edges) /\ Len(hook.edges) \in Nat
    BY DEF GesturesInv, HookOK, Hooks
<1>2. Batch \in Nat /\ Batch <= Len(hook.edges)
    BY <1>1 DEF Batch, GesturesAssumption
<1>3. PICK f : HandledUpTo(l, hook.edges, Batch, willing, f) /\ m = f[Batch]
    BY <1>2, HandledIsDefined
<1>4. f[0] = l /\ \A n \in 1..Batch : f[n] = Handle(f[n - 1], hook.edges[n], willing)
    BY <1>2, <1>3, HandledSteps
<1> DEFINE Pauses(x, n) == \A h \in x.active :
               \/ moving = h
               \/ x.of[h].bound /\ (hook.bound = h \/ EndsAfter(hook.edges, n, h))
           Good == {n \in 0..Batch : LoopOK(f[n], life) /\ Pauses(f[n], n)}
<1>5. 0 \in Good
    BY <1>2, <1>4
<1>6. ASSUME NEW n \in 1..Batch, n - 1 \in Good
      PROVE  n \in Good
    <2> DEFINE e == hook.edges[n]
    <2>1. /\ LoopOK(f[n - 1], life) /\ Pauses(f[n - 1], n - 1) /\ n \in 0..Batch /\ n \in Nat
          /\ n \in 1..Len(hook.edges)
        BY <1>2, <1>6
    <2>2. e \in Edges /\ EdgeOK(e, life)
          /\ (e.kind = "down" => hook.bound = e.hwnd \/ EndsAfter(hook.edges, n, e.hwnd))
        BY <1>1, <2>1 DEF HookOK
    <2>3. HandleEffect(f[n - 1], f[n], e)
        BY <1>1, <1>4, <2>1, <2>2, HandleOK
    <2>4. ASSUME NEW h \in f[n].active
          PROVE  \/ moving = h
                 \/ f[n].of[h].bound /\ (hook.bound = h \/ EndsAfter(hook.edges, n, h))
        <3>1. CASE h = e.hwnd /\ e.kind = "down" /\ f[n].of[h].bound
            BY <2>2, <3>1
        <3>2. CASE /\ h \in f[n - 1].active /\ f[n].of[h] = f[n - 1].of[h]
                   /\ h = e.hwnd /\ e.kind \in Terminal => ~f[n - 1].of[h].bound
            <4>1. ASSUME EndsAfter(hook.edges, n - 1, h), f[n - 1].of[h].bound
                  PROVE  EndsAfter(hook.edges, n, h)
                <5>1. PICK j \in 1..Len(hook.edges) :
                          j > n - 1 /\ hook.edges[j].kind \in Terminal /\ hook.edges[j].hwnd = h
                    BY <4>1 DEF EndsAfter
                <5>2. j # n
                    BY <3>2, <4>1, <5>1
                <5>3. j > n
                    BY <5>1, <5>2, <2>1
                <5> QED BY <5>1, <5>3 DEF EndsAfter
            <4> QED BY <2>1, <3>2, <4>1
        <3>3. e.kind # "start"
            BY <2>2 DEF Edges, Terminal
        <3> QED BY <2>3, <3>1, <3>2, <3>3 DEF HandleEffect
    <2>5. LoopOK(f[n], life)
        BY <2>3 DEF HandleEffect
    <2> QED BY <2>1, <2>4, <2>5
<1> HIDE DEF Good
<1>7. Batch \in Good
    <2>1. Batch \in 0..Batch
        BY <1>2
    <2> QED BY <1>2, <1>5, <1>6, <2>1, UpTo
<1> QED BY <1>3, <1>7 DEF Good

\* The loop takes the first edges of the queue and publishes its windows (the loop's
\* second queue).
LEMMA DrainedOK ==
    ASSUME GesturesAssumption, GesturesInv, NEW q,
           q = [hook EXCEPT !.origins = loop.origins, !.edges = SubSeq(@, Batch + 1, Len(@))]
    PROVE  /\ HookOK(q, life) /\ (Consuming(hook) <=> Consuming(q)) /\ (hook.lost <=> q.lost)
           /\ \A h : hook.bound = h \/ EndsAfter(hook.edges, Batch, h)
                      => q.bound = h \/ EndsAfter(q.edges, 0, h)
<1> DEFINE n == Len(hook.edges)
           rest == SubSeq(hook.edges, Batch + 1, n)
<1>1. /\ GesturesTypes /\ HookOK(hook, life) /\ hook.edges \in Seq(Edges) /\ n \in Nat
      /\ hook \in Hooks
    BY DEF GesturesInv, HookOK, Hooks
<1>2. Batch \in Nat /\ Batch <= n
    BY <1>1 DEF Batch, GesturesAssumption
<1>3. loop.origins \in [Hwnds -> Int] /\ \A h \in Hwnds : loop.origins[h] <= life[h]
    BY DEF GesturesInv, LoopOK, Loops
<1>4. /\ rest \in Seq(Edges) /\ Len(rest) = n - Batch
      /\ \A i \in 1..(n - Batch) : rest[i] = hook.edges[i + Batch]
    BY <1>1, <1>2
<1>5. q = [hook EXCEPT !.origins = loop.origins, !.edges = rest]
    OBVIOUS
<1> HIDE DEF rest
<1>6. /\ q \in Hooks /\ q.bound = hook.bound /\ (q.swallow_up <=> hook.swallow_up)
      /\ q.edges = rest /\ q.origins = loop.origins /\ (q.lost <=> hook.lost)
    BY <1>1, <1>3, <1>4, <1>5 DEF Hooks
<1>7. ASSUME NEW i \in 0..(n - Batch), NEW h, EndsAfter(hook.edges, i + Batch, h)
      PROVE  EndsAfter(q.edges, i, h)
    <2>1. PICK j \in 1..n :
              j > i + Batch /\ hook.edges[j].kind \in Terminal /\ hook.edges[j].hwnd = h
        BY <1>7 DEF EndsAfter
    <2>2. j - Batch \in 1..(n - Batch) /\ j - Batch > i /\ (j - Batch) + Batch = j
        BY <1>1, <1>2, <2>1
    <2>3. rest[j - Batch] = hook.edges[j] /\ j - Batch \in 1..Len(rest)
        BY <1>4, <2>2
    <2>4. j - Batch \in 1..Len(q.edges) /\ q.edges[j - Batch] = hook.edges[j]
        BY <1>6, <2>3
    <2> QED BY <2>1, <2>2, <2>4 DEF EndsAfter
<1>8. ASSUME NEW i \in 1..Len(q.edges)
      PROVE  /\ EdgeOK(q.edges[i], life)
             /\ q.edges[i].kind = "down" =>
                   q.bound = q.edges[i].hwnd \/ EndsAfter(q.edges, i, q.edges[i].hwnd)
    <2>1. i \in 1..(n - Batch) /\ i \in 0..(n - Batch) /\ i + Batch \in 1..n
        <3>1. Len(q.edges) = n - Batch
            BY <1>4, <1>6
        <3>2. i \in 1..(n - Batch)
            BY <3>1
        <3> QED BY <1>1, <1>2, <3>2
    <2>2. q.edges[i] = hook.edges[i + Batch]
        BY <1>4, <1>6, <2>1
    <2>3. EdgeOK(hook.edges[i + Batch], life)
          /\ (hook.edges[i + Batch].kind = "down" =>
                hook.bound = hook.edges[i + Batch].hwnd
                \/ EndsAfter(hook.edges, i + Batch, hook.edges[i + Batch].hwnd))
        BY <1>1, <2>1 DEF HookOK
    <2> QED BY <1>6, <1>7, <2>1, <2>2, <2>3
<1>9. HookOK(q, life)
    <2>1. q.bound # Nil => ~q.swallow_up
        BY <1>1, <1>6 DEF HookOK
    <2>2. \A h \in Hwnds : q.origins[h] <= life[h]
        BY <1>3, <1>6
    <2> QED BY <1>6, <1>8, <2>1, <2>2 DEF HookOK
<1>10. ASSUME NEW h, EndsAfter(hook.edges, Batch, h)
       PROVE  EndsAfter(q.edges, 0, h)
    <2>1. 0 \in 0..(n - Batch) /\ 0 + Batch = Batch
        BY <1>1, <1>2
    <2> QED BY <1>7, <1>10, <2>1
<1>11. Consuming(hook) <=> Consuming(q)
    BY <1>6 DEF Consuming
<1> QED BY <1>6, <1>9, <1>10, <1>11

-----------------------------------------------------------------------------
(* The maps of the loop in the rest of a pass.                               *)

\* The maps without what is not managed, or held by us (publish_managed, the loss).
LEMMA KeptOK ==
    ASSUME NEW age, NEW l, LoopOK(l, age), NEW of,
           of \in [Hwnds -> {Blank} \cup Entries],
           \A h \in Hwnds : of[h] = l.of[h] \/ of[h] = Blank
    PROVE  MapsOK(of, age)
<1>1. ASSUME NEW h \in Hwnds
      PROVE  of[h] \in Entries /\ EntryOK(of[h], age[h])
    <2>1. l.of[h] \in Entries /\ EntryOK(l.of[h], age[h])
        BY DEF LoopOK, Loops
    <2> QED BY <2>1, BlankOK
<1> QED BY <1>1 DEF MapsOK

\* publish_managed leaves no pause it did not find, and lets the hook go of what left.
LEMMA PublishedOK ==
    ASSUME GesturesAssumption, GesturesTypes, NEW l, LoopOK(l, life), NEW k, HookOK(k, life),
           NEW p, p = Published([loop |-> l, hook |-> k])
    PROVE  /\ LoopOK(p.loop, life) /\ p.loop.active = l.active
           /\ LetGo(k, p.hook, life)
<1> DEFINE o == [h \in Hwnds |->
                   IF h \in shown /\ l.known[h] = life[h] THEN life[h] ELSE Absent]
           kn == [h \in Hwnds |-> IF h \in shown THEN life[h] ELSE l.known[h]]
           of == Kept(l.of, shown)
           gone == {h \in Hwnds : l.of[h].windrag} \ shown
           m == [l EXCEPT !.managed = shown, !.of = of, !.origins = o, !.known = kn]
<1>1. p.hook = Invalidated(k, gone) /\ p.loop = m
    BY DEF Published
<1>2. LetGo(k, p.hook, life)
    BY <1>1, InvalidatedLetsGo
<1>3. /\ l.known \in [Hwnds -> Int] /\ l.of \in [Hwnds -> Entries]
      /\ l.active \in SUBSET Hwnds /\ shown \in SUBSET Hwnds /\ life \in [Hwnds -> Nat]
    BY DEF LoopOK, Loops, GesturesTypes
<1>4. o \in [Hwnds -> Int] /\ \A h \in Hwnds : o[h] <= life[h]
    BY <1>3 DEF Absent
<1>5. kn \in [Hwnds -> Int]
    BY <1>3
<1>6. of \in [Hwnds -> Entries] /\ \A h \in Hwnds : EntryOK(of[h], life[h])
    <2>1. of \in [Hwnds -> {Blank} \cup Entries]
        BY <1>3 DEF Kept
    <2>2. \A h \in Hwnds : of[h] = l.of[h] \/ of[h] = Blank
        BY DEF Kept
    <2> QED BY <2>1, <2>2, KeptOK DEF MapsOK
<1>7. l \in Loops
    BY DEF LoopOK
<1> HIDE DEF o, kn, of
<1>8. m \in Loops
    BY <1>3, <1>4, <1>5, <1>6, <1>7 DEF Loops
<1>9. m.active = l.active /\ m.origins = o /\ m.of = of
    BY <1>7 DEF Loops
<1>10. LoopOK(m, life)
    BY <1>4, <1>6, <1>8, <1>9 DEF LoopOK
<1> QED BY <1>1, <1>2, <1>9, <1>10

\* What the loss of edges leaves of the loop l and the hook k.
LossEffect(l, k, p) ==
    /\ LoopOK(p.loop, life) /\ HookOK(p.hook, life)
    /\ Consuming(k) <=> Consuming(p.hook)
    /\ \A h \in p.loop.active :
          /\ h \in l.active
          /\ k.lost => ~l.of[h].bound
          /\ ~k.lost => p.loop.of[h] = l.of[h]
    /\ \A h : k.bound = h \/ EndsAfter(k.edges, 0, h) => Answers(p.hook, h)

\* Lost edges end every hold of ours, and what the hook holds still answers for itself.
LEMMA LossOK ==
    ASSUME GesturesAssumption, GesturesTypes, NEW l, LoopOK(l, life), NEW k, HookOK(k, life),
           NEW saw
    PROVE  LossEffect(l, k, LossHandled([loop |-> l, hook |-> k], saw))
<1>0. PICK p : p = LossHandled([loop |-> l, hook |-> k], saw)
    OBVIOUS
<1> SUFFICES LossEffect(l, k, p)
    BY <1>0
<1>1. /\ l.of \in [Hwnds -> Entries] /\ l.active \in SUBSET Hwnds /\ k \in Hooks
    BY DEF LoopOK, Loops, HookOK
<1>2. CASE ~k.lost
    <2>1. p.loop = l /\ p.hook = k
        BY <1>0, <1>2 DEF LossHandled
    <2> QED BY <1>2, <2>1 DEF Answers, LossEffect
<1>3. CASE k.lost
    <2> DEFINE open == {h \in Hwnds : l.of[h].bound}
               q == [k EXCEPT !.lost = FALSE]
               of == [h \in Hwnds |-> IF h \in open THEN Blank ELSE l.of[h]]
               A == l.active \ open
               m == [l EXCEPT !.of = of, !.active = A]
               r == Invalidated(q, open)
    <2>1. /\ q \in Hooks /\ q.bound = k.bound /\ (q.swallow_up <=> k.swallow_up)
          /\ q.edges = k.edges /\ q.origins = k.origins
        BY <1>1 DEF Hooks
    <2>2. HookOK(q, life)
        BY <2>1 DEF HookOK
    <2>3. /\ Consuming(k) <=> Consuming(q)
          /\ \A h : k.bound = h \/ EndsAfter(k.edges, 0, h) => Answers(q, h)
        BY <2>1 DEF Consuming, Answers
    <2>4. LetGo(q, r, life)
        BY <2>2, InvalidatedLetsGo
    <2>5. /\ LoopOK(m, life) /\ m.active = A
        <3>1. of \in [Hwnds -> {Blank} \cup Entries]
              /\ \A h \in Hwnds : of[h] = l.of[h] \/ of[h] = Blank
            BY <1>1
        <3>2. A \subseteq Hwnds
            BY <1>1
        <3>3. Remap(m, l, of, A)
            BY DEF Remap
        <3> HIDE DEF of, A, m
        <3>4. MapsOK(of, life)
            BY <3>1, KeptOK
        <3>5. LoopOK(m, life) /\ Remapped(m, l, of, A)
            BY <3>2, <3>3, <3>4, RemapOK
        <3> QED BY <3>5 DEF Remapped
    <2>6. \A h \in A : h \in l.active /\ ~l.of[h].bound
        BY <1>1
    <2>7. CASE open = {}
        <3>1. p.loop = l /\ p.hook = q
            BY <1>0, <1>3, <2>7 DEF LossHandled
        <3>2. \A h \in l.active : ~l.of[h].bound
            BY <1>1, <2>7
        <3> QED BY <1>3, <2>2, <2>3, <3>1, <3>2 DEF LossEffect
    <2>8. CASE open # {} /\ ~saw
        <3>1. p.loop = m /\ p.hook = r
            BY <1>0, <1>3, <2>8 DEF LossHandled
        <3> QED BY <1>3, <2>3, <2>4, <2>5, <2>6, <3>1 DEF LetGo, LossEffect
    <2>9. CASE open # {} /\ saw
        <3>1. p = Published([loop |-> m, hook |-> r])
            BY <1>0, <1>3, <2>9 DEF LossHandled
        <3>2. HookOK(r, life)
            BY <2>4 DEF LetGo
        <3> HIDE DEF m, r, A
        <3>3. LoopOK(p.loop, life) /\ p.loop.active = m.active /\ LetGo(r, p.hook, life)
            BY <2>5, <3>1, <3>2, PublishedOK
        <3> QED BY <1>3, <2>3, <2>4, <2>5, <2>6, <3>3 DEF LetGo, LossEffect
    <2> QED BY <2>7, <2>8, <2>9
<1> QED BY <1>2, <1>3

\* A pass takes up what is queued; a pause it leaves is of a window in the user's hand,
\* or of a hold the hook still answers for.
LEMMA TakenUpOK ==
    ASSUME GesturesAssumption, GesturesInv, NEW willing, NEW saw,
           NEW s, s = TakenUp(willing, saw)
    PROVE  /\ LoopOK(s.loop, life) /\ HookOK(s.hook, life)
           /\ Consuming(hook) <=> Consuming(s.hook)
           /\ \A h \in s.loop.active :
                 moving = h \/ (s.loop.of[h].bound /\ Answers(s.hook, h))
<1>1. PICK heard : heard = Handled(loop, events, Len(events), willing)
    OBVIOUS
<1>2. PICK drained : drained = [hook EXCEPT !.origins = loop.origins,
                                            !.edges = SubSeq(@, Batch + 1, Len(@))]
    OBVIOUS
<1>3. PICK p : p = LossHandled([loop |-> heard, hook |-> drained], saw)
    OBVIOUS
<1>4. PICK l : l = Handled(p.loop, hook.edges, Batch, willing)
    OBVIOUS
<1>5. s.loop = l /\ s.hook = p.hook
    BY <1>1, <1>2, <1>3, <1>4 DEF TakenUp
<1>6. GesturesTypes
    BY DEF GesturesInv
<1>7. /\ LoopOK(heard, life)
      /\ \A h \in heard.active : moving = h \/ (heard.of[h].bound /\ Answers(hook, h))
    BY <1>1, EventsHandled
<1>8. /\ HookOK(drained, life) /\ (Consuming(hook) <=> Consuming(drained))
      /\ (hook.lost <=> drained.lost)
      /\ \A h : hook.bound = h \/ EndsAfter(hook.edges, Batch, h)
                 => drained.bound = h \/ EndsAfter(drained.edges, 0, h)
    BY <1>2, DrainedOK
<1>9. /\ LoopOK(p.loop, life) /\ HookOK(p.hook, life)
      /\ (Consuming(drained) <=> Consuming(p.hook))
      /\ \A h \in p.loop.active :
            /\ h \in heard.active
            /\ drained.lost => ~heard.of[h].bound
            /\ ~drained.lost => p.loop.of[h] = heard.of[h]
      /\ \A h : drained.bound = h \/ EndsAfter(drained.edges, 0, h) => Answers(p.hook, h)
    <2>1. LossEffect(heard, drained, p)
        BY <1>3, <1>6, <1>7, <1>8, LossOK
    <2> QED BY <2>1, Zenon DEF LossEffect
<1>10. \A h \in p.loop.active :
          moving = h \/ (p.loop.of[h].bound /\ (hook.bound = h \/ EndsAfter(hook.edges, 0, h)))
    BY <1>7, <1>8, <1>9 DEF Answers
<1>11. /\ LoopOK(l, life)
       /\ \A h \in l.active :
             \/ moving = h
             \/ l.of[h].bound /\ (hook.bound = h \/ EndsAfter(hook.edges, Batch, h))
    BY <1>4, <1>9, <1>10, EdgesHandled
<1> QED BY <1>5, <1>8, <1>9, <1>11

\* Retaining what is managed and latching Escape keep the holds there are.
LEMMA LatchedOK ==
    ASSUME NEW l, LoopOK(l, life), NEW m, m = Latched(Retained(l))
    PROVE  /\ LoopOK(m, life)
           /\ \A h \in m.active : h \in l.active /\ (m.of[h].bound <=> l.of[h].bound)
<1>1. /\ l.of \in [Hwnds -> Entries] /\ l.active \in SUBSET Hwnds
      /\ l.managed \in SUBSET Hwnds
    BY DEF LoopOK, Loops
<1> DEFINE of == Kept(l.of, l.managed)
           A == l.active \cap l.managed
           r == Retained(l)
<1>2. Remap(r, l, of, A)
    BY DEF Retained, Remap
<1>3. of \in [Hwnds -> {Blank} \cup Entries]
      /\ \A h \in Hwnds : of[h] = l.of[h] \/ of[h] = Blank
    BY <1>1 DEF Kept
<1>4. \A h \in A : h \in Hwnds /\ h \in l.active /\ of[h] = l.of[h]
    BY <1>1 DEF Kept
<1>5. A \subseteq Hwnds
    BY <1>1
<1> HIDE DEF of, A, r
<1>6. MapsOK(of, life)
    BY <1>3, KeptOK
<1>7. LoopOK(r, life) /\ r.active = A /\ r.of = of
    <2>1. LoopOK(r, life) /\ Remapped(r, l, of, A)
        BY <1>2, <1>5, <1>6, RemapOK
    <2> QED BY <2>1 DEF Remapped
<1>8. PICK hit : hit = LatchedBy(r, esc, TRUE) \cup LatchedBy(r, windrag_esc, FALSE)
    OBVIOUS
<1> DEFINE with == [h \in Hwnds |->
                      IF h \in hit THEN [r.of[h] EXCEPT !.latched = TRUE] ELSE r.of[h]]
<1>9. m = [r EXCEPT !.of = with]
    BY <1>8 DEF Latched, r
<1>10. ASSUME NEW h \in Hwnds
       PROVE  /\ with[h] \in Entries /\ EntryOK(with[h], life[h])
              /\ with[h].bound <=> of[h].bound
    <2>1. of[h] \in Entries /\ EntryOK(of[h], life[h])
        BY <1>6 DEF MapsOK
    <2>2. with[h] = of[h] \/ with[h] = [of[h] EXCEPT !.latched = TRUE]
        BY <1>7
    <2>3. PICK g : g = [of[h] EXCEPT !.latched = TRUE]
        OBVIOUS
    <2>4. /\ g \in Entries /\ (g.bound <=> of[h].bound) /\ (g.before <=> of[h].before)
          /\ (g.windrag <=> of[h].windrag) /\ g.key = of[h].key /\ g.who = of[h].who
        BY <2>1, <2>3 DEF Entries
    <2>5. EntryOK(g, life[h])
        BY <2>1, <2>4 DEF EntryOK
    <2> QED BY <2>1, <2>2, <2>3, <2>4, <2>5
<1> HIDE DEF with
<1>11. MapsOK(with, life)
    <2>1. with = [h \in Hwnds |-> with[h]]
        BY DEF with
    <2> QED BY <1>10, <2>1 DEF MapsOK
<1>12. Remap(m, r, with, A)
    <2>1. r = [managed |-> r.managed, active |-> A, known |-> r.known,
               origins |-> r.origins, of |-> r.of]
        BY <1>7 DEF LoopOK, Loops
    <2>2. m = [managed |-> r.managed, active |-> A, known |-> r.known,
               origins |-> r.origins, of |-> with]
        BY <1>9, <2>1
    <2>3. PICK n : n = [r EXCEPT !.of = with, !.active = A]
        OBVIOUS
    <2>4. n = [managed |-> r.managed, active |-> A, known |-> r.known,
               origins |-> r.origins, of |-> with]
        BY <2>1, <2>3
    <2> QED BY <2>2, <2>3, <2>4 DEF Remap
<1>13. LoopOK(m, life) /\ m.active = A /\ m.of = with
    <2>1. LoopOK(m, life) /\ Remapped(m, r, with, A)
        BY <1>5, <1>7, <1>11, <1>12, RemapOK
    <2> QED BY <2>1 DEF Remapped
<1> QED BY <1>4, <1>10, <1>13

-----------------------------------------------------------------------------
(* The steps.  Each action by itself keeps the invariant.                    *)

\* Windows that have a handle one after the other get no younger.
LEMMA Aging ==
    ASSUME NEW age, NEW later, \A h \in Hwnds : age[h] \in Int /\ later[h] \in Int,
           \A h \in Hwnds : age[h] <= later[h], NEW l, LoopOK(l, age), NEW k, HookOK(k, age)
    PROVE  LoopOK(l, later) /\ HookOK(k, later)
<1>1. ASSUME NEW h \in Hwnds
      PROVE  EntryOK(l.of[h], later[h]) /\ l.origins[h] <= later[h]
    <2>1. /\ l.of[h] \in Entries /\ EntryOK(l.of[h], age[h]) /\ l.origins[h] \in Int
          /\ l.origins[h] <= age[h] /\ age[h] <= later[h]
        BY DEF LoopOK, Loops
    <2>2. l.of[h].who \in Int
        BY <2>1 DEF Entries
    <2> QED BY <2>1, <2>2 DEF EntryOK
<1>2. ASSUME NEW h \in Hwnds
      PROVE  k.origins[h] <= later[h]
    <2>1. k.origins[h] \in Int /\ k.origins[h] <= age[h]
        BY DEF HookOK, Hooks
    <2>2. age[h] \in Int /\ later[h] \in Int /\ age[h] <= later[h]
        OBVIOUS
    <2> QED BY <2>1, <2>2
<1>3. ASSUME NEW i \in 1..Len(k.edges)
      PROVE  EdgeOK(k.edges[i], later)
    <2>1. k.edges \in Seq(Edges) /\ EdgeOK(k.edges[i], age)
        BY DEF HookOK, Hooks
    <2>2. k.edges[i].hwnd \in Hwnds /\ k.edges[i].who \in Int
        <3>1. k.edges[i] \in Edges
            BY <2>1, Elements
        <3> QED BY <3>1 DEF Edges
    <2>3. /\ age[k.edges[i].hwnd] \in Int /\ later[k.edges[i].hwnd] \in Int
          /\ age[k.edges[i].hwnd] <= later[k.edges[i].hwnd]
        BY <2>2
    <2> QED BY <2>1, <2>2, <2>3 DEF EdgeOK
<1> QED BY <1>1, <1>2, <1>3 DEF LoopOK, HookOK

\* Nothing is settled but by a pass, and nothing released but by Release.
LEMMA QuietStep ==
    ASSUME released' = NoRelease, settled' = {}
    PROVE  ReleasesFollowPresses' /\ DropsHitTheirWindow'
BY DEF NoRelease, ReleasesFollowPresses, DropsHitTheirWindow

\* A press, taken by the hook or not (the mouse hook's button-down).
LEMMA PressKeeps ==
    ASSUME GesturesAssumption, GesturesInv, NEW h \in Hwnds, Press(h)
    PROVE  GesturesInv'
<1>1. /\ GesturesTypes /\ HookOK(hook, life) /\ LoopOK(loop, life) /\ EventsOK(events, moving)
      /\ Waits(loop, hook, moving, events) /\ (button = "hook" <=> Consumed)
    BY DEF GesturesInv
<1>2. /\ button = "up" /\ moving = Nil /\ released' = NoRelease /\ settled' = {}
      /\ life' = life /\ shown' = shown /\ moving' = moving /\ esc' = esc
      /\ windrag_esc' = windrag_esc /\ events' = events /\ loop' = loop
    BY DEF Press, env
<1>3. hook.bound = Nil /\ ~hook.swallow_up
    BY <1>1, <1>2 DEF Consumed
<1>4. /\ button' \in {"app", "hook"} /\ HookOK(hook', life)
      /\ (button' = "hook" <=> Consuming(hook'))
      /\ \A x \in Hwnds : Answers(hook, x) => Answers(hook', x)
    <2> DEFINE e == Edge("down", h, hook.origins[h])
    <2>0. hook \in Hooks /\ hook.edges \in Seq(Edges) /\ Len(hook.edges) \in Nat
        BY <1>1 DEF HookOK, Hooks
    <2>1. CASE button' = "hook"
               /\ hook' = [hook EXCEPT !.bound = h, !.edges = Append(@, e)]
        <3>1. /\ life[h] \in Nat /\ windrag_esc.seq \in Nat /\ hook.origins[h] \in Int
              /\ hook.origins[h] <= life[h]
            BY <1>1, <2>0 DEF GesturesTypes, HookOK, Hooks
        <3>2. e \in Edges /\ EdgeOK(e, life) /\ e.hwnd = h
            BY <3>1 DEF Edge, Edges, EdgeOK
        <3> HIDE DEF e
        <3>3. /\ Append(hook.edges, e) \in Seq(Edges)
              /\ Len(Append(hook.edges, e)) = Len(hook.edges) + 1
              /\ \A i \in 1..Len(hook.edges) : Append(hook.edges, e)[i] = hook.edges[i]
              /\ Append(hook.edges, e)[Len(hook.edges) + 1] = e
            BY <2>0, <3>2
        <3>4. /\ hook' \in Hooks /\ hook'.bound = h /\ hook'.edges = Append(hook.edges, e)
              /\ hook'.origins = hook.origins /\ (hook'.swallow_up <=> hook.swallow_up)
              /\ (hook'.lost <=> hook.lost)
            BY <2>0, <2>1, <3>3 DEF Hooks
        <3>5. ASSUME NEW i \in 0..Len(hook.edges), NEW x, EndsAfter(hook.edges, i, x)
              PROVE  EndsAfter(hook'.edges, i, x)
            BY <2>0, <3>3, <3>4, <3>5 DEF EndsAfter
        <3>6. ASSUME NEW i \in 1..Len(hook'.edges)
              PROVE  /\ EdgeOK(hook'.edges[i], life)
                     /\ hook'.edges[i].kind = "down" =>
                           \/ hook'.bound = hook'.edges[i].hwnd
                           \/ EndsAfter(hook'.edges, i, hook'.edges[i].hwnd)
            <4>1. CASE i = Len(hook.edges) + 1
                BY <3>2, <3>3, <3>4, <4>1
            <4>2. CASE i # Len(hook.edges) + 1
                <5>1. i \in 1..Len(hook.edges) /\ i \in 0..Len(hook.edges)
                    BY <2>0, <3>3, <3>4, <4>2
                <5>2. hook'.edges[i] = hook.edges[i] /\ hook.edges[i].hwnd # Nil
                    <6>1. hook.edges[i] \in Edges
                        BY <2>0, <5>1, Elements
                    <6> QED BY <3>3, <3>4, <5>1, <6>1 DEF Edges, GesturesAssumption
                <5>3. /\ EdgeOK(hook.edges[i], life)
                      /\ hook.edges[i].kind = "down" =>
                            EndsAfter(hook.edges, i, hook.edges[i].hwnd)
                    BY <1>1, <1>3, <5>1, <5>2 DEF HookOK
                <5> QED BY <3>5, <5>1, <5>2, <5>3
            <4> QED BY <4>1, <4>2
        <3>7. \A x \in Hwnds : hook'.origins[x] <= life[x]
            BY <1>1, <3>4 DEF HookOK
        <3>8. HookOK(hook', life)
            BY <1>3, <3>4, <3>6, <3>7 DEF HookOK
        <3>9. h # Nil
            BY DEF GesturesAssumption
        <3>10. ASSUME NEW x \in Hwnds, Answers(hook, x)
               PROVE  Answers(hook', x)
            <4>1. x # Nil /\ 0 \in 0..Len(hook.edges)
                BY <2>0 DEF GesturesAssumption
            <4> QED BY <1>3, <3>4, <3>5, <3>10, <4>1 DEF Answers
        <3> QED BY <2>1, <3>4, <3>8, <3>9, <3>10 DEF Consuming
    <2>2. CASE button' = "app" /\ \E b \in BOOLEAN : hook' = [hook EXCEPT !.lost = @ \/ b]
        <3>1. PICK b \in BOOLEAN : hook' = [hook EXCEPT !.lost = @ \/ b]
            BY <2>2
        <3>2. /\ hook' \in Hooks /\ hook'.bound = hook.bound /\ hook'.edges = hook.edges
              /\ hook'.origins = hook.origins /\ (hook'.swallow_up <=> hook.swallow_up)
              /\ (hook.lost => hook'.lost)
            BY <2>0, <3>1 DEF Hooks
        <3>3. HookOK(hook', life)
            BY <1>1, <3>2 DEF HookOK
        <3> QED BY <1>3, <2>2, <3>2, <3>3 DEF Answers, Consuming
    <2>3. \/ button' = "hook" /\ hook' = [hook EXCEPT !.bound = h, !.edges = Append(@, e)]
          \/ button' = "app" /\ \E b \in BOOLEAN : hook' = [hook EXCEPT !.lost = @ \/ b]
        BY DEF Press
    <2> QED BY <2>1, <2>2, <2>3
<1>5. Waits(loop, hook', moving, events)
    <2>1. loop.active \in SUBSET Hwnds
        BY <1>1 DEF LoopOK, Loops
    <2> QED BY <1>1, <1>4, <2>1 DEF Waits
<1>6. GesturesTypes' /\ HookOK(hook', life') /\ LoopOK(loop', life')
      /\ EventsOK(events', moving') /\ Waits(loop', hook', moving', events')
    BY <1>1, <1>2, <1>4, <1>5 DEF GesturesTypes
<1>7. (button = "hook" <=> Consumed)'
    BY <1>4 DEF Consumed, Consuming
<1> QED BY <1>2, <1>6, <1>7, QuietStep DEF GesturesInv

\* The release of the button goes to whom its press went (WinHookArm::on_up).
LEMMA ReleaseKeeps ==
    ASSUME GesturesAssumption, GesturesInv, Release
    PROVE  GesturesInv'
<1>1. /\ GesturesTypes /\ HookOK(hook, life) /\ LoopOK(loop, life) /\ EventsOK(events, moving)
      /\ Waits(loop, hook, moving, events) /\ (button = "hook" <=> Consumed)
    BY DEF GesturesInv
<1>2. /\ button # "up" /\ button' = "up" /\ settled' = {}
      /\ released' = <<button, IF Consumed THEN "hook" ELSE "app">>
      /\ life' = life /\ shown' = shown /\ moving' = moving /\ esc' = esc
      /\ windrag_esc' = windrag_esc /\ events' = events /\ loop' = loop
    BY DEF Release, env
<1>3. hook \in Hooks
    BY <1>1 DEF HookOK
<1>4. /\ HookOK(hook', life) /\ ~Consuming(hook')
      /\ \A x \in Hwnds : Answers(hook, x) => Answers(hook', x)
    <2>1. CASE hook.bound # Nil
        <3> DEFINE f == [hook EXCEPT !.bound = Nil]
                   e == Edge("up", hook.bound, Absent)
        <3>1. /\ f \in Hooks /\ f.bound = Nil /\ f.edges = hook.edges
              /\ f.origins = hook.origins /\ (f.lost <=> hook.lost)
              /\ (f.swallow_up <=> hook.swallow_up)
            BY <1>3 DEF Hooks
        <3>2. e \in Edges /\ e.kind \in Terminal /\ e.hwnd = hook.bound
            <4>1. hook.bound \in Hwnds
                BY <1>3, <2>1 DEF Hooks
            <4>2. life[hook.bound] \in Nat /\ windrag_esc.seq \in Nat /\ Absent \in Int
                BY <1>1, <4>1 DEF GesturesTypes, Absent
            <4> QED BY <4>1, <4>2 DEF Edge, Edges, Terminal
        <3>3. hook' = PushTerminal(f, e)
            BY <2>1 DEF Release
        <3>4. ~hook.swallow_up
            BY <1>1, <2>1 DEF HookOK
        <3> HIDE DEF f, e
        <3>5. /\ HookOK(hook', life) /\ hook'.bound = Nil
              /\ (hook'.swallow_up <=> f.swallow_up)
              /\ \A x : Answers(hook, x) => Answers(hook', x)
            BY <1>1, <2>1, <3>1, <3>2, <3>3, GivenUp
        <3> QED BY <3>1, <3>4, <3>5 DEF Consuming
    <2>2. CASE hook.bound = Nil
        <3>1. hook' = [hook EXCEPT !.swallow_up = FALSE]
            BY <2>2 DEF Release
        <3>2. /\ hook' \in Hooks /\ hook'.bound = Nil /\ hook'.edges = hook.edges
              /\ hook'.origins = hook.origins /\ ~hook'.swallow_up
              /\ (hook'.lost <=> hook.lost)
            BY <1>3, <2>2, <3>1 DEF Hooks
        <3>3. HookOK(hook', life)
            BY <1>1, <2>2, <3>2 DEF HookOK
        <3> QED BY <2>2, <3>2, <3>3 DEF Answers, Consuming
    <2> QED BY <2>1, <2>2
<1>5. Waits(loop, hook', moving, events)
    <2>1. loop.active \in SUBSET Hwnds
        BY <1>1 DEF LoopOK, Loops
    <2> QED BY <1>1, <1>4, <2>1 DEF Waits
<1>6. GesturesTypes' /\ HookOK(hook', life') /\ LoopOK(loop', life')
      /\ EventsOK(events', moving') /\ Waits(loop', hook', moving', events')
    BY <1>1, <1>2, <1>4, <1>5 DEF GesturesTypes
<1>7. (button = "hook" <=> Consumed)'
    BY <1>2, <1>4 DEF Consumed, Consuming
<1>8. ReleasesFollowPresses'
    <2>1. CASE Consumed
        BY <1>1, <1>2, <2>1 DEF ReleasesFollowPresses
    <2>2. CASE ~Consumed
        BY <1>1, <1>2, <2>2 DEF ReleasesFollowPresses, GesturesTypes
    <2> QED BY <2>1, <2>2
<1>9. DropsHitTheirWindow'
    BY <1>2 DEF DropsHitTheirWindow
<1> QED BY <1>6, <1>7, <1>8, <1>9 DEF GesturesInv

\* An event is queued behind the others: what they wait for is still there.
QueuedEvent(q, e) ==
    /\ q \in Seq(WinEvents)
    /\ Len(events) \in Nat /\ Len(q) = Len(events) + 1
    /\ q[Len(events) + 1] = e
    /\ \A i \in 1..Len(events) : q[i] = events[i] /\ events[i].hwnd \in Hwnds
    /\ \A i, h : MoveEndsAfter(events, i, h) => MoveEndsAfter(q, i, h)

\* winevent_proc appends to the queue of the events.
LEMMA EventQueued ==
    ASSUME GesturesTypes, NEW e, e \in WinEvents, NEW q, q = Append(events, e)
    PROVE  QueuedEvent(q, e)
<1>1. events \in Seq(WinEvents) /\ Len(events) \in Nat
    BY DEF GesturesTypes
<1>2. /\ q \in Seq(WinEvents)
      /\ Len(q) = Len(events) + 1 /\ q[Len(events) + 1] = e
      /\ \A i \in 1..Len(events) : q[i] = events[i] /\ events[i].hwnd \in Hwnds
    <2>1. /\ q \in Seq(WinEvents) /\ Len(q) = Len(events) + 1 /\ q[Len(events) + 1] = e
          /\ \A i \in 1..Len(events) : q[i] = events[i]
        BY <1>1
    <2>2. \A i \in 1..Len(events) : events[i] \in WinEvents
        BY <1>1, Elements
    <2> QED BY <2>1, <2>2 DEF WinEvents
<1>3. ASSUME NEW i, NEW h, MoveEndsAfter(events, i, h)
      PROVE  MoveEndsAfter(q, i, h)
    <2>1. PICK j \in 1..Len(events) :
              j > i /\ events[j].kind = "end" /\ events[j].hwnd = h
        BY <1>3 DEF MoveEndsAfter
    <2>2. j \in 1..Len(q)
        BY <1>1, <1>2
    <2> QED BY <1>2, <2>1, <2>2 DEF MoveEndsAfter
<1> QED BY <1>1, <1>2, <1>3 DEF QueuedEvent

\* A move of Windows begins (winevent_proc).
LEMMA NativeStartKeeps ==
    ASSUME GesturesAssumption, GesturesInv, NEW h \in Hwnds, NativeStart(h)
    PROVE  GesturesInv'
<1>1. /\ GesturesTypes /\ HookOK(hook, life) /\ LoopOK(loop, life) /\ EventsOK(events, moving)
      /\ Waits(loop, hook, moving, events) /\ (button = "hook" <=> Consumed)
    BY DEF GesturesInv
<1>2. /\ moving = Nil /\ moving' = h /\ events' = Append(events, Event("start", h))
      /\ released' = NoRelease /\ settled' = {} /\ hook' = hook
      /\ life' = life /\ shown' = shown /\ button' = button /\ esc' = esc
      /\ windrag_esc' = windrag_esc /\ loop' = loop
    BY DEF NativeStart, env
<1>3. PICK e : e = Event("start", h)
    OBVIOUS
<1>4. e \in WinEvents /\ e.kind = "start" /\ e.hwnd = h
    BY <1>1, <1>3 DEF Event, WinEvents, EventKinds, GesturesTypes
<1>5. /\ events' \in Seq(WinEvents)
      /\ Len(events) \in Nat /\ Len(events') = Len(events) + 1
      /\ events'[Len(events) + 1] = e
      /\ \A i \in 1..Len(events) : events'[i] = events[i] /\ events[i].hwnd \in Hwnds
      /\ \A i, x : MoveEndsAfter(events, i, x) => MoveEndsAfter(events', i, x)
    <2>1. QueuedEvent(Append(events, e), e)
        BY <1>1, <1>4, EventQueued
    <2>2. events' = Append(events, e)
        BY <1>2, <1>3
    <2>3. QueuedEvent(events', e)
        BY <2>1, <2>2
    <2> QED BY <2>3, Zenon DEF QueuedEvent
<1>6. EventsOK(events', h)
    <2> SUFFICES ASSUME NEW i \in 1..Len(events'), events'[i].kind = "start"
                 PROVE  h = events'[i].hwnd \/ MoveEndsAfter(events', i, events'[i].hwnd)
        BY DEF EventsOK
    <2>1. CASE i = Len(events) + 1
        BY <1>4, <1>5, <2>1
    <2>2. CASE i # Len(events) + 1
        <3>1. i \in 1..Len(events)
            BY <1>5, <2>2
        <3>2. events'[i] = events[i] /\ events[i].hwnd # Nil
            BY <1>5, <3>1 DEF GesturesAssumption
        <3>3. MoveEndsAfter(events, i, events[i].hwnd)
            BY <1>1, <1>2, <3>1, <3>2 DEF EventsOK
        <3> QED BY <1>5, <3>2, <3>3
    <2> QED BY <2>1, <2>2
<1>7. Waits(loop, hook, h, events')
    <2> SUFFICES ASSUME NEW x \in loop.active
                 PROVE  h = x \/ MoveEndsAfter(events', 0, x)
                        \/ (loop.of[x].bound /\ Answers(hook, x))
        BY DEF Waits
    <2>1. x # Nil
        BY <1>1 DEF LoopOK, Loops, GesturesAssumption
    <2> QED BY <1>1, <1>2, <1>5, <2>1 DEF Waits
<1>8. GesturesTypes' /\ HookOK(hook', life') /\ LoopOK(loop', life')
      /\ EventsOK(events', moving') /\ Waits(loop', hook', moving', events')
    BY <1>1, <1>2, <1>5, <1>6, <1>7 DEF GesturesTypes
<1>9. (button = "hook" <=> Consumed)'
    BY <1>1, <1>2 DEF Consumed
<1> QED BY <1>2, <1>8, <1>9, QuietStep DEF GesturesInv

\* A move of Windows ends, and its end is queued (winevent_proc).
LEMMA NativeEndKeeps ==
    ASSUME GesturesAssumption, GesturesInv, NativeEnd
    PROVE  GesturesInv'
<1>1. /\ GesturesTypes /\ HookOK(hook, life) /\ LoopOK(loop, life) /\ EventsOK(events, moving)
      /\ Waits(loop, hook, moving, events) /\ (button = "hook" <=> Consumed)
    BY DEF GesturesInv
<1>2. /\ moving # Nil /\ moving' = Nil /\ events' = Append(events, Event("end", moving))
      /\ released' = NoRelease /\ settled' = {} /\ hook' = hook
      /\ life' = life /\ shown' = shown /\ button' = button /\ esc' = esc
      /\ windrag_esc' = windrag_esc /\ loop' = loop
    BY DEF NativeEnd, env
<1>3. PICK e : e = Event("end", moving)
    OBVIOUS
<1>4. e \in WinEvents /\ e.kind = "end" /\ e.hwnd = moving
    BY <1>1, <1>2, <1>3 DEF Event, WinEvents, EventKinds, GesturesTypes
<1>5. /\ events' \in Seq(WinEvents)
      /\ Len(events) \in Nat /\ Len(events') = Len(events) + 1
      /\ events'[Len(events) + 1] = e
      /\ \A i \in 1..Len(events) : events'[i] = events[i] /\ events[i].hwnd \in Hwnds
      /\ \A i, x : MoveEndsAfter(events, i, x) => MoveEndsAfter(events', i, x)
    <2>1. QueuedEvent(Append(events, e), e)
        BY <1>1, <1>4, EventQueued
    <2>2. events' = Append(events, e)
        BY <1>2, <1>3
    <2>3. QueuedEvent(events', e)
        BY <2>1, <2>2
    <2> QED BY <2>3, Zenon DEF QueuedEvent
<1>6. \A i \in 0..Len(events) : MoveEndsAfter(events', i, moving)
    <2> SUFFICES ASSUME NEW i \in 0..Len(events)
                 PROVE  MoveEndsAfter(events', i, moving)
        OBVIOUS
    <2>1. Len(events) + 1 > i /\ Len(events) + 1 \in 1..Len(events')
        BY <1>5
    <2> QED BY <1>4, <1>5, <2>1 DEF MoveEndsAfter
<1>7. EventsOK(events', Nil)
    <2> SUFFICES ASSUME NEW i \in 1..Len(events'), events'[i].kind = "start"
                 PROVE  MoveEndsAfter(events', i, events'[i].hwnd)
        BY DEF EventsOK
    <2>1. i \in 1..Len(events) /\ i \in 0..Len(events)
        BY <1>4, <1>5
    <2>2. events'[i] = events[i]
        BY <1>5, <2>1
    <2>3. moving = events[i].hwnd \/ MoveEndsAfter(events, i, events[i].hwnd)
        BY <1>1, <2>1, <2>2 DEF EventsOK
    <2> QED BY <1>5, <1>6, <2>1, <2>2, <2>3
<1>8. Waits(loop, hook, Nil, events')
    <2>1. 0 \in 0..Len(events)
        BY <1>5
    <2> QED BY <1>1, <1>5, <1>6, <2>1 DEF Waits
<1>9. GesturesTypes' /\ HookOK(hook', life') /\ LoopOK(loop', life')
      /\ EventsOK(events', moving') /\ Waits(loop', hook', moving', events')
    BY <1>1, <1>2, <1>5, <1>7, <1>8 DEF GesturesTypes
<1>10. (button = "hook" <=> Consumed)'
    BY <1>1, <1>2 DEF Consumed
<1> QED BY <1>2, <1>9, <1>10, QuietStep DEF GesturesInv

\* Escape is counted, windows change their states, another application goes full screen:
\* nothing of a gesture is taken up.
LEMMA AsideKeeps ==
    ASSUME GesturesAssumption, GesturesInv,
           \/ \E physical \in BOOLEAN : Escape(physical)
           \/ \E h \in Hwnds : Reshow(h)
           \/ Foreground
    PROVE  GesturesInv'
<1>1. /\ GesturesTypes /\ HookOK(hook, life) /\ LoopOK(loop, life) /\ EventsOK(events, moving)
      /\ Waits(loop, hook, moving, events) /\ (button = "hook" <=> Consumed)
    BY DEF GesturesInv
<1>2. /\ released' = NoRelease /\ settled' = {} /\ hook' = hook /\ loop' = loop
      /\ life' = life /\ button' = button /\ moving' = moving /\ events' = events
    BY DEF Escape, Reshow, Foreground, env
<1>3. shown' \in SUBSET Hwnds
    BY <1>1 DEF Escape, Reshow, Foreground, env, GesturesTypes
<1>4. esc' \in [edge: BOOLEAN, seq: Nat] /\ windrag_esc' \in [edge: BOOLEAN, seq: Nat]
    <2>1. esc \in [edge: BOOLEAN, seq: Nat] /\ windrag_esc \in [edge: BOOLEAN, seq: Nat]
        BY <1>1 DEF GesturesTypes
    <2>2. /\ [edge |-> TRUE, seq |-> windrag_esc.seq + 1] \in [edge: BOOLEAN, seq: Nat]
          /\ [edge |-> TRUE, seq |-> esc.seq + 1] \in [edge: BOOLEAN, seq: Nat]
        BY <2>1
    <2> QED BY <2>1, <2>2 DEF Escape, Reshow, Foreground, env
<1>5. GesturesTypes' /\ HookOK(hook', life') /\ LoopOK(loop', life')
      /\ EventsOK(events', moving') /\ Waits(loop', hook', moving', events')
    BY <1>1, <1>2, <1>3, <1>4 DEF GesturesTypes
<1>6. (button = "hook" <=> Consumed)'
    BY <1>1, <1>2 DEF Consumed
<1> QED BY <1>2, <1>5, <1>6, QuietStep DEF GesturesInv

\* A handle passes to another window; what was known of the one before is only older.
LEMMA RecycleKeeps ==
    ASSUME GesturesAssumption, GesturesInv, NEW h \in Hwnds, Recycle(h)
    PROVE  GesturesInv'
<1>1. /\ GesturesTypes /\ HookOK(hook, life) /\ LoopOK(loop, life) /\ EventsOK(events, moving)
      /\ Waits(loop, hook, moving, events) /\ (button = "hook" <=> Consumed)
    BY DEF GesturesInv
<1>2. /\ released' = NoRelease /\ settled' = {} /\ hook' = hook /\ loop' = loop
      /\ button' = button /\ moving' = moving /\ events' = events /\ esc' = esc
      /\ windrag_esc' = windrag_esc /\ life' = [life EXCEPT ![h] = @ + 1]
    BY DEF Recycle
<1>3. shown' \in SUBSET Hwnds
    BY <1>1 DEF Recycle, GesturesTypes
<1>4. life \in [Hwnds -> Nat] /\ life' \in [Hwnds -> Nat]
      /\ \A x \in Hwnds : life[x] <= life'[x]
    BY <1>1, <1>2 DEF GesturesTypes
<1>5. LoopOK(loop, life') /\ HookOK(hook, life')
    <2>1. \A x \in Hwnds : life[x] \in Int /\ life'[x] \in Int
        BY <1>4
    <2> QED BY <1>1, <1>4, <2>1, Aging
<1>6. GesturesTypes' /\ HookOK(hook', life') /\ LoopOK(loop', life')
      /\ EventsOK(events', moving') /\ Waits(loop', hook', moving', events')
    BY <1>1, <1>2, <1>3, <1>4, <1>5 DEF GesturesTypes
<1>7. (button = "hook" <=> Consumed)'
    BY <1>1, <1>2 DEF Consumed
<1> QED BY <1>2, <1>6, <1>7, QuietStep DEF GesturesInv

\* What gesture_tick applies is of the window the gesture took hold of.
LEMMA SettledRight ==
    ASSUME GesturesTypes, NEW l, LoopOK(l, life), NEW h \in Ended(l), NEW moved, NEW willing,
           Settlement(l, h, moved, willing).outcome = "applied"
    PROVE  Settlement(l, h, moved, willing).same
<1>1. h \in Hwnds /\ l.of[h].before
    BY DEF Ended, LoopOK, Loops
<1>2. PICK g : g = l.of[h]
    OBVIOUS
<1>3. g \in Entries /\ EntryOK(g, life[h]) /\ g.before /\ life[h] \in Nat
    BY <1>1, <1>2 DEF LoopOK, Loops, GesturesTypes
<1>4. Outcome(g, h, moved, willing) = "applied"
    BY <1>2 DEF Settlement
<1>5. ~(~g.latched /\ h \in shown /\ g.key # Absent /\ g.key # life[h])
    <2> SUFFICES ASSUME ~g.latched, h \in shown, g.key # Absent, g.key # life[h]
                 PROVE  Outcome(g, h, moved, willing) = "identity"
        BY <1>4
    <2> QED BY DEF Outcome
<1>6. ~g.latched /\ h \in shown
    <2>1. ASSUME g.latched
          PROVE  FALSE
        BY <1>4, <2>1 DEF Outcome
    <2>2. ASSUME ~g.latched, h \notin shown
          PROVE  FALSE
        BY <1>4, <2>2 DEF Outcome
    <2> QED BY <2>1, <2>2
<1>7. g.key # Absent /\ g.key <= g.who /\ g.who <= life[h] /\ g.who \in Int
    BY <1>3 DEF EntryOK, Entries
<1>8. g.who = life[h]
    BY <1>3, <1>5, <1>6, <1>7
<1> QED BY <1>2, <1>8 DEF Settlement

\* One pass of run_tile_loop.
LEMMA PassKeeps ==
    ASSUME GesturesAssumption, GesturesInv, Pass
    PROVE  GesturesInv'
<1>1. /\ GesturesTypes /\ (button = "hook" <=> Consumed)
      /\ esc \in [edge: BOOLEAN, seq: Nat] /\ windrag_esc \in [edge: BOOLEAN, seq: Nat]
    BY DEF GesturesInv, GesturesTypes
<1>2. /\ released' = NoRelease /\ events' = <<>> /\ life' = life /\ shown' = shown
      /\ button' = button /\ moving' = moving
    BY DEF Pass, env
<1>3. PICK willing \in SUBSET Asked, saw \in BOOLEAN :
          LET s == TakenUp(willing, saw)
              l == Latched(Retained(s.loop))
          IN  \/ PassSuspended(s)
              \/ PassPaused(l, s.hook)
              \/ PassReconcile(l, s.hook, saw)
              \/ \E moved \in SUBSET Ended(l) : PassSettle(l, s.hook, saw, moved, willing)
    BY DEF Pass
<1>4. PICK s : s = TakenUp(willing, saw)
    OBVIOUS
<1>5. PICK l : l = Latched(Retained(s.loop))
    OBVIOUS
<1>6. \/ PassSuspended(s)
      \/ PassPaused(l, s.hook)
      \/ PassReconcile(l, s.hook, saw)
      \/ \E moved \in SUBSET Ended(l) : PassSettle(l, s.hook, saw, moved, willing)
    BY <1>3, <1>4, <1>5
<1>7. /\ LoopOK(s.loop, life) /\ HookOK(s.hook, life)
      /\ (Consuming(hook) <=> Consuming(s.hook))
      /\ \A h \in s.loop.active :
            moving = h \/ (s.loop.of[h].bound /\ Answers(s.hook, h))
    BY <1>4, TakenUpOK
<1>8. /\ LoopOK(l, life)
      /\ \A h \in l.active : h \in s.loop.active /\ (l.of[h].bound <=> s.loop.of[h].bound)
    BY <1>5, <1>7, LatchedOK
<1>9. /\ esc' \in [edge: BOOLEAN, seq: Nat] /\ windrag_esc' \in [edge: BOOLEAN, seq: Nat]
    BY <1>1, <1>6 DEF PassSuspended, PassPaused, PassReconcile, PassSettle, EscapesTaken
<1>10. /\ LoopOK(loop', life) /\ HookOK(hook', life) /\ (Consuming(hook) <=> Consuming(hook'))
       /\ \A h \in loop'.active : moving = h \/ (loop'.of[h].bound /\ Answers(hook', h))
       /\ DropsHitTheirWindow'
    <2>1. CASE PassSuspended(s)
        <3>1. /\ loop' = [s.loop EXCEPT !.active = {}, !.of = Nobody]
              /\ hook' = Disarmed(s.hook) /\ settled' = {}
            BY <2>1 DEF PassSuspended
        <3>2. MapsOK(Nobody, life)
            BY BlankOK DEF Nobody, MapsOK
        <3>3. {} \subseteq Hwnds /\ Remap(loop', s.loop, Nobody, {})
            BY <1>7, <3>1 DEF LoopOK, Loops, Remap
        <3>4. LoopOK(loop', life) /\ loop'.active = {}
            <4>1. LoopOK(loop', life) /\ Remapped(loop', s.loop, Nobody, {})
                BY <1>7, <3>2, <3>3, RemapOK
            <4> QED BY <4>1 DEF Remapped
        <3>5. LetGo(s.hook, hook', life)
            BY <1>1, <1>7, <3>1, DisarmedLetsGo
        <3> QED BY <1>7, <3>1, <3>4, <3>5 DEF LetGo, DropsHitTheirWindow
    <2>2. CASE PassPaused(l, s.hook)
        <3>1. loop' = l /\ hook' = s.hook /\ settled' = {}
            BY <2>2 DEF PassPaused
        <3> QED BY <1>7, <1>8, <3>1 DEF DropsHitTheirWindow
    <2>3. CASE PassReconcile(l, s.hook, saw)
        <3>1. settled' = {} /\ ~(\E h \in l.active : TRUE)
            BY <2>3 DEF PassReconcile
        <3>2. CASE ~saw
            <4>1. loop' = l /\ hook' = s.hook
                BY <2>3, <3>2 DEF PassReconcile
            <4> QED BY <1>7, <1>8, <3>1, <4>1 DEF DropsHitTheirWindow
        <3>3. CASE saw
            <4>1. PICK p : p = Published([loop |-> l, hook |-> s.hook])
                OBVIOUS
            <4>2. loop' = p.loop /\ hook' = p.hook
                BY <2>3, <3>3, <4>1 DEF PassReconcile
            <4>3. LoopOK(p.loop, life) /\ p.loop.active = l.active
                  /\ LetGo(s.hook, p.hook, life)
                BY <1>1, <1>7, <1>8, <4>1, PublishedOK
            <4> QED BY <1>7, <3>1, <4>2, <4>3 DEF LetGo, DropsHitTheirWindow
        <3> QED BY <3>2, <3>3
    <2>4. CASE \E moved \in SUBSET Ended(l) : PassSettle(l, s.hook, saw, moved, willing)
        <3>1. PICK moved \in SUBSET Ended(l) : PassSettle(l, s.hook, saw, moved, willing)
            BY <2>4
        <3>2. ~(\E h \in l.active : TRUE)
            BY <3>1 DEF PassSettle
        <3>3. CASE ~saw
            <4>1. loop' = l /\ hook' = s.hook /\ settled' = {}
                BY <3>1, <3>3 DEF PassSettle
            <4> QED BY <1>7, <1>8, <3>2, <4>1 DEF DropsHitTheirWindow
        <3>4. CASE saw
            <4>1. PICK p : p = Published([loop |-> l, hook |-> s.hook])
                OBVIOUS
            <4>2. /\ loop' = [p.loop EXCEPT !.of = Nobody] /\ hook' = p.hook
                  /\ settled' = {Settlement(l, h, moved, willing) : h \in Ended(l)}
                BY <3>1, <3>4, <4>1 DEF PassSettle
            <4>3. LoopOK(p.loop, life) /\ p.loop.active = l.active
                  /\ LetGo(s.hook, p.hook, life)
                BY <1>1, <1>7, <1>8, <4>1, PublishedOK
            <4>4. MapsOK(Nobody, life)
                BY BlankOK DEF Nobody, MapsOK
            <4>5. p.loop.active \subseteq Hwnds /\ Remap(loop', p.loop, Nobody, p.loop.active)
                BY <4>2, <4>3 DEF LoopOK, Loops, Remap
            <4>6. LoopOK(loop', life) /\ loop'.active = p.loop.active
                <5>1. LoopOK(loop', life) /\ Remapped(loop', p.loop, Nobody, p.loop.active)
                    BY <4>3, <4>4, <4>5, RemapOK
                <5> QED BY <5>1 DEF Remapped
            <4>7. DropsHitTheirWindow'
                <5>1. ASSUME NEW h \in Ended(l),
                             Settlement(l, h, moved, willing).outcome = "applied"
                      PROVE  Settlement(l, h, moved, willing).same
                    BY <1>1, <1>8, <5>1, SettledRight
                <5> QED BY <4>2, <5>1 DEF DropsHitTheirWindow
            <4> QED BY <1>7, <3>2, <4>2, <4>3, <4>6, <4>7 DEF LetGo
        <3> QED BY <3>3, <3>4
    <2> QED BY <1>6, <2>1, <2>2, <2>3, <2>4
<1>11. GesturesTypes' /\ HookOK(hook', life') /\ LoopOK(loop', life')
    BY <1>1, <1>2, <1>9, <1>10 DEF GesturesTypes
<1>12. EventsOK(events', moving') /\ Waits(loop', hook', moving', events')
    BY <1>2, <1>10 DEF EventsOK, Waits
<1>13. (button = "hook" <=> Consumed)'
    BY <1>1, <1>2, <1>10 DEF Consumed, Consuming
<1>14. ReleasesFollowPresses'
    BY <1>2 DEF NoRelease, ReleasesFollowPresses
<1> QED BY <1>10, <1>11, <1>12, <1>13, <1>14 DEF GesturesInv

-----------------------------------------------------------------------------
\* The tile loop starts with nothing held, published or queued.
LEMMA GesturesBegin ==
    ASSUME GesturesAssumption, GesturesInit
    PROVE  GesturesInv
<1>1. GesturesTypes
    BY DEF GesturesInit, GesturesTypes
<1>2. HookOK(hook, life)
    <2>1. hook \in Hooks /\ hook.bound = Nil /\ hook.edges = <<>>
          /\ hook.origins = [h \in Hwnds |-> Absent]
        BY DEF GesturesInit, Hooks, Absent
    <2>2. ASSUME NEW h \in Hwnds
          PROVE  hook.origins[h] <= life[h]
        <3>1. life[h] = 1
            BY DEF GesturesInit
        <3>2. hook.origins[h] = Absent
            BY <2>1
        <3> QED BY <3>1, <3>2 DEF Absent
    <2> QED BY <2>1, <2>2 DEF HookOK
<1>3. LoopOK(loop, life)
    <2>1. /\ loop.of = [h \in Hwnds |-> Blank] /\ loop.origins = [h \in Hwnds |-> Absent]
          /\ life = [h \in Hwnds |-> 1]
        BY DEF GesturesInit
    <2>2. loop.of \in [Hwnds -> Entries] /\ \A h \in Hwnds : EntryOK(loop.of[h], life[h])
        BY <2>1, BlankOK
    <2>3. loop \in Loops
        BY <2>2 DEF GesturesInit, Loops, Absent
    <2>4. ASSUME NEW h \in Hwnds
          PROVE  loop.origins[h] <= life[h]
        <3>1. loop.origins[h] = Absent /\ life[h] = 1
            BY <2>1
        <3> QED BY <3>1 DEF Absent
    <2> QED BY <2>2, <2>3, <2>4 DEF LoopOK
<1>4. EventsOK(events, moving) /\ Waits(loop, hook, moving, events)
    BY DEF GesturesInit, EventsOK, Waits
<1>5. button = "hook" <=> Consumed
    BY DEF GesturesInit, Consumed
<1>6. ReleasesFollowPresses /\ DropsHitTheirWindow
    BY DEF GesturesInit, NoRelease, ReleasesFollowPresses, DropsHitTheirWindow
<1> QED BY <1>1, <1>2, <1>3, <1>4, <1>5, <1>6 DEF GesturesInv

\* A step that changes nothing.
LEMMA StutterKeeps ==
    ASSUME GesturesInv, UNCHANGED gestureVars
    PROVE  GesturesInv'
BY DEF GesturesInv, gestureVars, env, GesturesTypes, Consumed, ReleasesFollowPresses,
       DropsHitTheirWindow

\* Whoever a pause waits for owes its end (the invariant in the property's terms).
LEMMA PausesAreOwed ==
    ASSUME GesturesInv
    PROVE  PausesEnd
<1> SUFFICES ASSUME NEW h \in loop.active
             PROVE  Owed(h)
    BY DEF PausesEnd
<1>1. /\ events \in Seq(WinEvents)
      /\ hook.edges \in Seq(Edges)
    BY DEF GesturesInv, GesturesTypes, HookOK, Hooks
<1>2. DOMAIN events = 1..Len(events) /\ DOMAIN hook.edges = 1..Len(hook.edges)
    BY <1>1
<1>3. moving = h \/ MoveEndsAfter(events, 0, h) \/ Answers(hook, h)
    BY DEF GesturesInv, Waits
<1> QED BY <1>2, <1>3 DEF Owed, MoveEndsAfter, Answers, EndsAfter, Terminal

\* What a hold of a window begins has its end, in every order of presses, releases, moves
\* of Windows, lost edges, recycled handles and passes: the release of a press goes where
\* the press went (WinHookArm), a pause of tiling is owed an end by the user, by an edge
\* or event queued or by a loss noted, and what is dropped is the window taken hold of
\* (windrag_down, gesture_tick).
THEOREM HoldsAreKeptAlways ==
    ASSUME GesturesAssumption
    PROVE  GesturesSpec => []HoldsAreKept
<1>1. GesturesInit => GesturesInv
    BY GesturesBegin
<1>2. GesturesInv /\ [GesturesNext]_gestureVars => GesturesInv'
    <2> SUFFICES ASSUME GesturesInv, [GesturesNext]_gestureVars
                 PROVE  GesturesInv'
        OBVIOUS
    <2>1. CASE UNCHANGED gestureVars
        BY <2>1, StutterKeeps
    <2>2. ASSUME NEW h \in Hwnds, Press(h)
          PROVE  GesturesInv'
        BY <2>2, PressKeeps
    <2>3. ASSUME NEW h \in Hwnds, NativeStart(h)
          PROVE  GesturesInv'
        BY <2>3, NativeStartKeeps
    <2>4. ASSUME NEW h \in Hwnds, Recycle(h)
          PROVE  GesturesInv'
        BY <2>4, RecycleKeeps
    <2>5. CASE Release
        BY <2>5, ReleaseKeeps
    <2>6. CASE NativeEnd
        BY <2>6, NativeEndKeeps
    <2>7. CASE Pass
        BY <2>7, PassKeeps
    <2>8. CASE \/ \E physical \in BOOLEAN : Escape(physical)
               \/ \E h \in Hwnds : Reshow(h)
               \/ Foreground
        BY <2>8, AsideKeeps
    <2> QED BY <2>1, <2>2, <2>3, <2>4, <2>5, <2>6, <2>7, <2>8 DEF GesturesNext
<1>3. GesturesInv => HoldsAreKept
    BY PausesAreOwed DEF GesturesInv, HoldsAreKept
<1> QED BY <1>1, <1>2, <1>3, PTL DEF GesturesSpec
=============================================================================
