---------------------------- MODULE EngineProofs ----------------------------
(***************************************************************************)
(* Proofs about the engine (module Engine), for every set of windows,      *)
(* domains, clients, areas and gaps: whatever is requested, a plan         *)
(* accounts for the windows in sight and is about what is retained, and    *)
(* nothing goes that was not asked for.                                    *)
(*                                                                         *)
(* Worlds come first: what each operation on one session's membership      *)
(* makes of it.  Then engines: what each operation on the map of sessions  *)
(* leaves alone.  Then answers: each request's handler, on a sound engine, *)
(* gives an answer that keeps it sound and is true of it.  The theorems    *)
(* follow from the last, one request at a time.                            *)
(***************************************************************************)
EXTENDS Engine, TLAPS, FiniteSetTheorems

-----------------------------------------------------------------------------
(* Worlds.                                                                 *)

\* The functions from some of K to V.
Maps(K, V) == UNION {[S -> V] : S \in SUBSET K}

\* What a session may be: typed, tiles and floats apart, its focus remembered and a
\* tile, if there is one.
Worlds == [tiles : Maps(Windows, Domains), floats : Maps(Windows, Domains),
           recent : SUBSET Windows, focus : SUBSET Windows]

\* A focus is one window or none.
AtMostOne(S) == S = {} \/ \E x \in S : S = {x}

\* Tiles and floats are apart, and what is focused is remembered and tiled.
Sane(v) ==
    /\ DOMAIN v.tiles \cap DOMAIN v.floats = {}
    /\ v.focus \subseteq v.recent
    /\ v.recent \subseteq DOMAIN v.tiles
    /\ AtMostOne(v.focus)

\* Every member is homed in one of the domains K.
HomedIn(v, K) ==
    /\ \A w \in DOMAIN v.tiles : v.tiles[w] \in K
    /\ \A w \in DOMAIN v.floats : v.floats[w] \in K

\* A well-formed world of the domains K.
WorldOK(v, K) == v \in Worlds /\ Sane(v) /\ HomedIn(v, K)

\* Exactly the windows of a set are members.
Holds(v, S) == Members(v) = S

\* A map is a function on its domain.
LEMMA MapsAre ==
    ASSUME NEW K, NEW V, NEW f \in Maps(K, V)
    PROVE  /\ DOMAIN f \subseteq K /\ f \in [DOMAIN f -> V]
           /\ f = [x \in DOMAIN f |-> f[x]]
BY DEF Maps

\* A function on some of the keys is a map.
LEMMA AreMaps ==
    ASSUME NEW K, NEW V, NEW S \in SUBSET K, NEW f \in [S -> V]
    PROVE  f \in Maps(K, V) /\ DOMAIN f = S
BY DEF Maps

\* The map of an engine or a world that retains nothing.
LEMMA EmptyIsMap ==
    ASSUME NEW K, NEW V
    PROVE  <<>> \in Maps(K, V) /\ DOMAIN <<>> = {}
<1>1. <<>> \in [{} -> V] /\ DOMAIN <<>> = {}
  OBVIOUS
<1> QED
  BY <1>1, AreMaps

\* One entry put into a map (a window tiled or floated, a session stored).
LEMMA WithIsMap ==
    ASSUME NEW K, NEW V, NEW f \in Maps(K, V), NEW k \in K, NEW y \in V
    PROVE  /\ With(f, k, y) \in Maps(K, V)
           /\ DOMAIN With(f, k, y) = DOMAIN f \cup {k}
           /\ With(f, k, y)[k] = y
           /\ \A x \in DOMAIN f \ {k} : With(f, k, y)[x] = f[x]
<1>1. DOMAIN f \cup {k} \in SUBSET K
  BY MapsAre
<1>2. With(f, k, y) \in [DOMAIN f \cup {k} -> V]
  BY MapsAre DEF With
<1>3. /\ With(f, k, y)[k] = y
      /\ \A x \in DOMAIN f \ {k} : With(f, k, y)[x] = f[x]
  BY DEF With
<1> QED
  BY <1>1, <1>2, <1>3, AreMaps

\* One entry taken out of a map (a window that leaves, a session dropped).
LEMMA WithoutIsMap ==
    ASSUME NEW K, NEW V, NEW f \in Maps(K, V), NEW k
    PROVE  /\ Without(f, k) \in Maps(K, V)
           /\ DOMAIN Without(f, k) = DOMAIN f \ {k}
           /\ \A x \in DOMAIN f \ {k} : Without(f, k)[x] = f[x]
<1>1. DOMAIN f \ {k} \in SUBSET K
  BY MapsAre
<1>2. Without(f, k) \in [DOMAIN f \ {k} -> V]
  BY MapsAre DEF Without
<1> QED
  BY <1>1, <1>2, AreMaps DEF Without

\* A map cut down to some keys (the half of a pair, the windows that stay).
LEMMA OnlyIsMap ==
    ASSUME NEW K, NEW V, NEW f \in Maps(K, V), NEW S
    PROVE  /\ Only(f, S) \in Maps(K, V)
           /\ DOMAIN Only(f, S) = DOMAIN f \cap S
<1>1. DOMAIN f \cap S \in SUBSET K
  BY MapsAre
<1>2. Only(f, S) \in [DOMAIN f \cap S -> V]
  BY MapsAre DEF Only
<1> QED
  BY <1>1, <1>2, AreMaps DEF Only

\* Two maps joined (the members of a pair).
LEMMA UnionIsMap ==
    ASSUME NEW K, NEW V, NEW f \in Maps(K, V), NEW g \in Maps(K, V)
    PROVE  /\ Union(f, g) \in Maps(K, V)
           /\ DOMAIN Union(f, g) = DOMAIN f \cup DOMAIN g
<1>1. DOMAIN f \cup DOMAIN g \in SUBSET K
  BY MapsAre
<1>2. Union(f, g) \in [DOMAIN f \cup DOMAIN g -> V]
  BY MapsAre DEF Union
<1> QED
  BY <1>1, <1>2, AreMaps DEF Union

\* The four parts of a well-formed world.
LEMMA WorldParts ==
    ASSUME NEW K, NEW v, WorldOK(v, K)
    PROVE  /\ v.tiles \in Maps(Windows, Domains) /\ v.floats \in Maps(Windows, Domains)
           /\ v.recent \subseteq Windows /\ v.focus \subseteq Windows
           /\ v = [tiles |-> v.tiles, floats |-> v.floats, recent |-> v.recent, focus |-> v.focus]
           /\ DOMAIN v.tiles \subseteq Windows /\ DOMAIN v.floats \subseteq Windows
           /\ Sane(v) /\ HomedIn(v, K) /\ Members(v) \subseteq Windows
<1>1. v \in Worlds /\ Sane(v) /\ HomedIn(v, K)
  BY DEF WorldOK
<1>2. /\ v.tiles \in Maps(Windows, Domains) /\ v.floats \in Maps(Windows, Domains)
      /\ v.recent \subseteq Windows /\ v.focus \subseteq Windows
      /\ v = [tiles |-> v.tiles, floats |-> v.floats, recent |-> v.recent, focus |-> v.focus]
  BY <1>1 DEF Worlds
<1> QED
  BY <1>1, <1>2, MapsAre DEF Members

\* A world is made of its four parts.
LEMMA WorldMade ==
    ASSUME NEW K, NEW T \in Maps(Windows, Domains), NEW F \in Maps(Windows, Domains),
           NEW R, NEW C,
           DOMAIN T \cap DOMAIN F = {}, C \subseteq R, R \subseteq DOMAIN T, AtMostOne(C),
           \A w \in DOMAIN T : T[w] \in K, \A w \in DOMAIN F : F[w] \in K
    PROVE  WorldOK([tiles |-> T, floats |-> F, recent |-> R, focus |-> C], K)
<1> DEFINE v == [tiles |-> T, floats |-> F, recent |-> R, focus |-> C]
<1>1. R \subseteq Windows /\ C \subseteq Windows
  BY MapsAre
<1>2. v \in Worlds
  BY <1>1 DEF Worlds
<1>3. Sane(v) /\ HomedIn(v, K)
  BY DEF Sane, HomedIn
<1> QED
  BY <1>2, <1>3 DEF WorldOK

\* The world of a domain without a session.
LEMMA EmptyWorldOK ==
    ASSUME NEW K
    PROVE  WorldOK(EmptyWorld, K) /\ Members(EmptyWorld) = {}
<1>1. <<>> \in Maps(Windows, Domains) /\ DOMAIN <<>> = {}
  BY EmptyIsMap
<1>2. AtMostOne({})
  BY DEF AtMostOne
<1>3. WorldOK([tiles |-> <<>>, floats |-> <<>>, recent |-> {}, focus |-> {}], K)
  BY <1>1, <1>2, WorldMade
<1> QED
  BY <1>1, <1>3 DEF EmptyWorld, Members

\* Focusing on a tile changes neither tiles nor floats.
LEMMA FocusingOK ==
    ASSUME NEW K, NEW v, WorldOK(v, K), NEW w \in DOMAIN v.tiles
    PROVE  /\ WorldOK(Focusing(v, w), K)
           /\ Focusing(v, w).tiles = v.tiles /\ Focusing(v, w).floats = v.floats
           /\ Focusing(v, w).focus = {w}
<1>1. Focusing(v, w) = [tiles |-> v.tiles, floats |-> v.floats,
                        recent |-> v.recent \cup {w}, focus |-> {w}]
  <2>1. v = [tiles |-> v.tiles, floats |-> v.floats, recent |-> v.recent, focus |-> v.focus]
    BY WorldParts
  <2>2. Focusing(v, w) = [v EXCEPT !.focus = {w}, !.recent = @ \cup {w}]
    BY DEF Focusing
  <2> QED
    BY <2>1, <2>2
<1>2. AtMostOne({w})
  BY DEF AtMostOne
<1>3. WorldOK([tiles |-> v.tiles, floats |-> v.floats,
               recent |-> v.recent \cup {w}, focus |-> {w}], K)
  BY SMTT(30), <1>2, WorldParts, WorldMade DEF Sane, HomedIn
<1> QED
  BY <1>1, <1>3

\* The observed focus changes neither tiles nor floats (sync_focus_from_window).
LEMMA SyncedOK ==
    ASSUME NEW K, NEW v, WorldOK(v, K), NEW k, NEW f, AtMostOne(f)
    PROVE  /\ WorldOK(Synced(v, k, f), K)
           /\ Synced(v, k, f).tiles = v.tiles /\ Synced(v, k, f).floats = v.floats
<1>1. CASE f \cap Homed(v.tiles, k) = {}
  BY <1>1 DEF Synced
<1>2. CASE f \cap Homed(v.tiles, k) # {}
  <2>1. f \subseteq DOMAIN v.tiles
    BY <1>2 DEF AtMostOne, Homed
  <2>2. Synced(v, k, f) = [v EXCEPT !.focus = f, !.recent = @ \cup f]
    BY <1>2 DEF Synced
  <2>3. v = [tiles |-> v.tiles, floats |-> v.floats, recent |-> v.recent, focus |-> v.focus]
    BY WorldParts
  <2>4. Synced(v, k, f) = [tiles |-> v.tiles, floats |-> v.floats,
                           recent |-> v.recent \cup f, focus |-> f]
    BY <2>2, <2>3
  <2>5. WorldOK([tiles |-> v.tiles, floats |-> v.floats,
                 recent |-> v.recent \cup f, focus |-> f], K)
    BY <2>1, WorldParts, WorldMade DEF Sane, HomedIn
  <2> QED
    BY <2>4, <2>5
<1> QED
  BY <1>1, <1>2

\* A focus chosen among the windows remembered.
LEMMA OneOfOK ==
    ASSUME NEW S, NEW F \in OneOf(S)
    PROVE  F \subseteq S /\ AtMostOne(F)
BY DEF OneOf, AtMostOne

\* Convergence leaves just the windows observed, each where it was seen.
LEMMA ConvergencesOK ==
    ASSUME NEW K \in SUBSET Domains, NEW L, NEW v, WorldOK(v, L), NEW f, AtMostOne(f),
           NEW seen, DOMAIN seen \subseteq Windows,
           \A w \in DOMAIN seen : seen[w].home \in K,
           NEW u \in Convergences(v, seen, f)
    PROVE  /\ WorldOK(u, K) /\ Holds(u, DOMAIN seen)
           /\ DOMAIN u.tiles = {w \in DOMAIN seen : ~seen[w].floating}
           /\ DOMAIN u.floats = DOMAIN seen \ DOMAIN u.tiles
<1> DEFINE S == {w \in DOMAIN seen : ~seen[w].floating}
           tiles  == [w \in S |-> seen[w].home]
           floats == [w \in DOMAIN seen \ S |-> seen[w].home]
<1>1. DOMAIN tiles = S /\ DOMAIN floats = DOMAIN seen \ S
  OBVIOUS
<1>2. PICK F \in FocusAfter(v, tiles, f) :
          u = [tiles |-> tiles, floats |-> floats, focus |-> F,
               recent |-> (v.recent \cap S) \cup F]
  BY DEF Convergences
<1>3. F \subseteq S /\ AtMostOne(F)
  <2>1. CASE f \cap DOMAIN tiles # {}
    BY <1>1, <1>2, <2>1 DEF FocusAfter, AtMostOne
  <2>2. CASE f \cap DOMAIN tiles = {} /\ v.focus \subseteq DOMAIN tiles
    BY <1>1, <1>2, <2>2, WorldParts DEF FocusAfter, Sane
  <2>3. CASE f \cap DOMAIN tiles = {} /\ ~(v.focus \subseteq DOMAIN tiles)
    <3>1. F \in OneOf({w \in v.recent \cap DOMAIN tiles :
                          \A x \in v.focus : tiles[w] = v.tiles[x]})
      BY <1>2, <2>3 DEF FocusAfter
    <3> QED
      BY <3>1, <1>1, OneOfOK
  <2> QED
    BY <2>1, <2>2, <2>3
<1>4. tiles \in Maps(Windows, Domains) /\ floats \in Maps(Windows, Domains)
  <2>1. tiles \in [S -> Domains] /\ S \in SUBSET Windows
    OBVIOUS
  <2>2. floats \in [DOMAIN seen \ S -> Domains] /\ DOMAIN seen \ S \in SUBSET Windows
    OBVIOUS
  <2> QED
    BY ZenonT(40), <2>1, <2>2, AreMaps
<1>5. /\ \A w \in DOMAIN tiles : tiles[w] \in K
      /\ \A w \in DOMAIN floats : floats[w] \in K
  OBVIOUS
<1> HIDE DEF tiles, floats
<1>6. WorldOK([tiles |-> tiles, floats |-> floats,
               recent |-> (v.recent \cap S) \cup F, focus |-> F], K)
  BY <1>1, <1>3, <1>4, <1>5, WorldMade
<1>7. u = [tiles |-> tiles, floats |-> floats,
           recent |-> (v.recent \cap S) \cup F, focus |-> F]
  BY <1>2
<1>8. DOMAIN u.tiles = S /\ DOMAIN u.floats = DOMAIN seen \ S
  BY <1>1, <1>7
<1> QED
  BY <1>6, <1>7, <1>8 DEF Members, Holds

\* Two sessions joined.
LEMMA PairOK ==
    ASSUME NEW k, NEW o, NEW v, WorldOK(v, {k}), NEW u, WorldOK(u, {o}),
           Members(v) \cap Members(u) = {}
    PROVE  WorldOK(Pair(v, u), {k, o})
<1> DEFINE T == Union(v.tiles, u.tiles)
           G == Union(v.floats, u.floats)
           C == IF v.focus # {} THEN v.focus ELSE u.focus
<1>1. /\ T \in Maps(Windows, Domains) /\ DOMAIN T = DOMAIN v.tiles \cup DOMAIN u.tiles
      /\ G \in Maps(Windows, Domains) /\ DOMAIN G = DOMAIN v.floats \cup DOMAIN u.floats
  <2>1. /\ v.tiles \in Maps(Windows, Domains) /\ v.floats \in Maps(Windows, Domains)
        /\ u.tiles \in Maps(Windows, Domains) /\ u.floats \in Maps(Windows, Domains)
    BY WorldParts
  <2>2. T \in Maps(Windows, Domains)
    BY <2>1, UnionIsMap
  <2>4. DOMAIN T = DOMAIN v.tiles \cup DOMAIN u.tiles
    BY DEF Union
  <2>3. G \in Maps(Windows, Domains)
    BY <2>1, UnionIsMap
  <2>5. DOMAIN G = DOMAIN v.floats \cup DOMAIN u.floats
    BY DEF Union
  <2> QED
    BY <2>2, <2>3, <2>4, <2>5
<1>2. /\ \A w \in DOMAIN T : T[w] \in {k, o}
      /\ \A w \in DOMAIN G : G[w] \in {k, o}
  BY <1>1, WorldParts DEF HomedIn, Union
<1>3. DOMAIN T \cap DOMAIN G = {}
  BY <1>1, WorldParts DEF Sane, Members
<1>4. AtMostOne(C) /\ C \subseteq v.recent \cup u.recent
      /\ v.recent \cup u.recent \subseteq DOMAIN T
  BY <1>1, WorldParts DEF Sane
<1>5. Pair(v, u) = [tiles |-> T, floats |-> G, recent |-> v.recent \cup u.recent, focus |-> C]
  BY DEF Pair
<1> HIDE DEF T, G, C
<1>6. WorldOK([tiles |-> T, floats |-> G, recent |-> v.recent \cup u.recent, focus |-> C], {k, o})
  BY <1>1, <1>2, <1>3, <1>4, WorldMade
<1> QED
  BY <1>5, <1>6

\* The members of v homed in k.
HalfOf(u, v, k) ==
    /\ DOMAIN u.tiles = Homed(v.tiles, k)
    /\ Members(u) = Homed(v.tiles, k) \cup Homed(v.floats, k)

\* Each half of a pair has the members homed in its domain.
LEMMA HalvesOK ==
    ASSUME NEW K, NEW v, WorldOK(v, K), NEW k, NEW u \in Halves(v, k)
    PROVE  WorldOK(u, {k}) /\ HalfOf(u, v, k)
<1> DEFINE T == Only(v.tiles, Homed(v.tiles, k))
           G == Only(v.floats, Homed(v.floats, k))
           R == v.recent \cap DOMAIN T
<1>1. /\ T \in Maps(Windows, Domains) /\ DOMAIN T = Homed(v.tiles, k)
      /\ G \in Maps(Windows, Domains) /\ DOMAIN G = Homed(v.floats, k)
  <2>1. v.tiles \in Maps(Windows, Domains) /\ v.floats \in Maps(Windows, Domains)
    BY WorldParts
  <2>2. T \in Maps(Windows, Domains)
    BY <2>1, OnlyIsMap
  <2>4. DOMAIN T = Homed(v.tiles, k)
    BY DEF Homed, Only
  <2>3. G \in Maps(Windows, Domains)
    BY <2>1, OnlyIsMap
  <2>5. DOMAIN G = Homed(v.floats, k)
    BY DEF Homed, Only
  <2> QED
    BY <2>2, <2>3, <2>4, <2>5
<1>2. /\ \A w \in DOMAIN T : T[w] \in {k}
      /\ \A w \in DOMAIN G : G[w] \in {k}
  BY <1>1 DEF Homed, Only
<1>3. DOMAIN T \cap DOMAIN G = {}
  BY <1>1, WorldParts DEF Sane, Homed
<1>4. PICK F \in IF v.focus \cap DOMAIN T # {} THEN {v.focus} ELSE OneOf(R) :
          u = [tiles |-> T, floats |-> G, recent |-> R, focus |-> F]
  BY DEF Halves
<1>5. AtMostOne(F) /\ F \subseteq R
  <2>1. CASE v.focus \cap DOMAIN T # {}
    BY <1>4, <2>1, WorldParts DEF Sane, AtMostOne
  <2>2. CASE v.focus \cap DOMAIN T = {}
    BY <1>4, <2>2, OneOfOK
  <2> QED
    BY <2>1, <2>2
<1> HIDE DEF T, G
<1>6. WorldOK([tiles |-> T, floats |-> G, recent |-> R, focus |-> F], {k})
  BY <1>1, <1>2, <1>3, <1>5, WorldMade
<1> QED
  BY <1>1, <1>4, <1>6 DEF Members, HalfOf

\* A relocated session keeps its members.
LEMMA RehomedOK ==
    ASSUME NEW K, NEW v, WorldOK(v, K), NEW k \in Domains
    PROVE  /\ WorldOK(Rehomed(v, k), {k})
           /\ DOMAIN Rehomed(v, k).tiles = DOMAIN v.tiles
           /\ Members(Rehomed(v, k)) = Members(v)
<1> DEFINE T == [w \in DOMAIN v.tiles |-> k]
           G == [w \in DOMAIN v.floats |-> k]
<1>1. /\ T \in Maps(Windows, Domains) /\ DOMAIN T = DOMAIN v.tiles
      /\ G \in Maps(Windows, Domains) /\ DOMAIN G = DOMAIN v.floats
  <2>1. T \in [DOMAIN v.tiles -> Domains] /\ G \in [DOMAIN v.floats -> Domains]
    OBVIOUS
  <2>2. DOMAIN v.tiles \in SUBSET Windows /\ DOMAIN v.floats \in SUBSET Windows
    BY WorldParts
  <2> QED
    BY <2>1, <2>2, AreMaps
<1>2. /\ \A w \in DOMAIN T : T[w] \in {k}
      /\ \A w \in DOMAIN G : G[w] \in {k}
  OBVIOUS
<1>3. v = [tiles |-> v.tiles, floats |-> v.floats, recent |-> v.recent, focus |-> v.focus]
  BY WorldParts
<1>4. Rehomed(v, k) = [v EXCEPT !.tiles = T, !.floats = G]
  BY DEF Rehomed
<1> HIDE DEF T, G
<1>5. Rehomed(v, k) = [tiles |-> T, floats |-> G, recent |-> v.recent, focus |-> v.focus]
  BY <1>3, <1>4
<1>6. WorldOK([tiles |-> T, floats |-> G, recent |-> v.recent, focus |-> v.focus], {k})
  BY <1>1, <1>2, WorldMade, WorldParts DEF Sane
<1> QED
  BY <1>1, <1>5, <1>6 DEF Members

\* A world changed in its tiles and floats, with the lost focus falling back.
LEMMA UnfocusedOK ==
    ASSUME NEW K, NEW T \in Maps(Windows, Domains), NEW F \in Maps(Windows, Domains),
           NEW R, NEW C, NEW w,
           DOMAIN T \cap DOMAIN F = {},
           \A x \in DOMAIN T : T[x] \in K, \A x \in DOMAIN F : F[x] \in K,
           R \ {w} \subseteq DOMAIN T, AtMostOne(C), C # {w} => C \subseteq R \ {w},
           NEW y, y = [tiles |-> T, floats |-> F, recent |-> R, focus |-> C],
           NEW u \in Unfocused(y, w)
    PROVE  WorldOK(u, K) /\ u.tiles = T /\ u.floats = F
<1>1. PICK f \in IF C = {w} THEN OneOf(R \ {w}) ELSE {C} :
          u = [y EXCEPT !.focus = f, !.recent = R \ {w}]
  BY DEF Unfocused
<1>2. u = [tiles |-> T, floats |-> F, recent |-> R \ {w}, focus |-> f]
  BY <1>1
<1>3. AtMostOne(f) /\ f \subseteq R \ {w}
  BY <1>1, OneOfOK
<1>4. WorldOK([tiles |-> T, floats |-> F, recent |-> R \ {w}, focus |-> f], K)
  BY <1>3, WorldMade
<1> QED
  BY <1>2, <1>4

\* A request that names its domains and carries windows seen in them.
EventOK(ev) ==
    /\ ev.key \in Domains /\ ev.other \in Domains
    /\ ev.client \in Clients /\ ev.area \in Areas /\ ev.outer \in OuterGaps
    /\ DOMAIN ev.seen \subseteq Windows
    /\ \A w \in DOMAIN ev.seen : ev.seen[w].home \in {ev.key, ev.other}
    /\ AtMostOne(ev.focus)

\* A window tiled, be it new or a float, and focused.
LEMMA TiledOK ==
    ASSUME NEW k \in Domains, NEW v, WorldOK(v, {k}), NEW w \in Windows
    PROVE  WorldOK(Tiled(v, w, k), {k}) /\ Members(Tiled(v, w, k)) = Members(v) \cup {w}
<1> DEFINE T == With(v.tiles, w, k)
           G == Without(v.floats, w)
<1>1. T \in Maps(Windows, Domains) /\ G \in Maps(Windows, Domains)
  BY WorldParts, WithIsMap, WithoutIsMap
<1>2. DOMAIN T = DOMAIN v.tiles \cup {w} /\ DOMAIN G = DOMAIN v.floats \ {w}
  BY DEF With, Without
<1>3. (\A x \in DOMAIN T : T[x] \in {k}) /\ (\A x \in DOMAIN G : G[x] \in {k})
  BY WorldParts DEF With, Without, HomedIn
<1>4. PICK y : y = [v EXCEPT !.tiles = T, !.floats = G]
  OBVIOUS
<1>5. Tiled(v, w, k) = Focusing(y, w)
  BY <1>4 DEF Tiled
<1> HIDE DEF T, G
<1>6. y = [tiles |-> T, floats |-> G, recent |-> v.recent, focus |-> v.focus]
  <2>1. v = [tiles |-> v.tiles, floats |-> v.floats, recent |-> v.recent, focus |-> v.focus]
    BY WorldParts
  <2> QED
    BY <1>4, <2>1
<1>7. WorldOK([tiles |-> T, floats |-> G, recent |-> v.recent, focus |-> v.focus], {k})
  BY <1>1, <1>2, <1>3, WorldMade, WorldParts DEF Sane
<1>8. WorldOK(y, {k}) /\ y.tiles = T /\ y.floats = G
  BY <1>6, <1>7
<1>9. /\ WorldOK(Focusing(y, w), {k})
      /\ Focusing(y, w).tiles = y.tiles /\ Focusing(y, w).floats = y.floats
  BY <1>2, <1>8, FocusingOK
<1> QED
  BY <1>2, <1>5, <1>8, <1>9 DEF Members

\* A tile turned into a float.
LEMMA FloatedOK ==
    ASSUME NEW k \in Domains, NEW v, WorldOK(v, {k}), NEW w \in DOMAIN v.tiles,
           NEW u \in Floated(v, w, k)
    PROVE  WorldOK(u, {k}) /\ Members(u) = Members(v)
<1> DEFINE T == Without(v.tiles, w)
           G == With(v.floats, w, k)
<1>1. T \in Maps(Windows, Domains) /\ G \in Maps(Windows, Domains)
  BY WorldParts, WithIsMap, WithoutIsMap
<1>2. DOMAIN T = DOMAIN v.tiles \ {w} /\ DOMAIN G = DOMAIN v.floats \cup {w}
  BY DEF With, Without
<1>3. (\A x \in DOMAIN T : T[x] \in {k}) /\ (\A x \in DOMAIN G : G[x] \in {k})
  BY WorldParts DEF With, Without, HomedIn
<1>4. PICK y : y = [v EXCEPT !.tiles = T, !.floats = G]
  OBVIOUS
<1>5. u \in Unfocused(y, w)
  BY <1>4 DEF Floated
<1> HIDE DEF T, G
<1>6. y = [tiles |-> T, floats |-> G, recent |-> v.recent, focus |-> v.focus]
  <2>1. v = [tiles |-> v.tiles, floats |-> v.floats, recent |-> v.recent, focus |-> v.focus]
    BY WorldParts
  <2> QED
    BY <1>4, <2>1
<1>7. /\ DOMAIN T \cap DOMAIN G = {} /\ v.recent \ {w} \subseteq DOMAIN T
      /\ AtMostOne(v.focus) /\ (v.focus # {w} => v.focus \subseteq v.recent \ {w})
  BY <1>2, WorldParts DEF Sane, AtMostOne
<1>8. WorldOK(u, {k}) /\ u.tiles = T /\ u.floats = G
  BY <1>1, <1>3, <1>5, <1>6, <1>7, UnfocusedOK
<1> QED
  BY <1>2, <1>8 DEF Members

\* A command's proposal holds just what is seen, and is made only by a session that
\* has all of it but for a window that is being admitted.
LEMMA ProposalsOK ==
    ASSUME NEW ev, EventOK(ev), ev.subject \in DOMAIN ev.seen,
           NEW v, WorldOK(v, {ev.key}), NEW p \in Proposals(ev, v)
    PROVE  /\ WorldOK(p, {ev.key}) /\ Holds(p, DOMAIN ev.seen)
           /\ Members(v) \subseteq DOMAIN ev.seen
<1> DEFINE w == ev.subject
           k == ev.key
           u == Synced(v, k, ev.focus)
<1>1. Exact(ev, v)
  BY DEF Proposals
<1>2. Members(v) = Known(ev) /\ w \in Windows /\ k \in Domains
  BY <1>1 DEF Exact, EventOK
<1>5. /\ WorldOK(u, {k}) /\ u.tiles = v.tiles /\ u.floats = v.floats
  BY SyncedOK DEF EventOK
<1>6. Members(v) \subseteq DOMAIN ev.seen
  BY <1>2 DEF Known
<1>7. CASE ev.op = "reconcile"
  <2>1. p = Tiled(v, w, k)
    BY <1>1, <1>7 DEF Proposals
  <2>2. Members(v) = DOMAIN ev.seen \ {w}
    BY <1>2, <1>7 DEF Known
  <2>3. WorldOK(p, {k}) /\ Members(p) = Members(v) \cup {w}
    BY <1>2, <2>1, TiledOK
  <2> QED
    BY <1>6, <2>2, <2>3 DEF Holds
<1>8. CASE ev.op = "float" /\ w \in DOMAIN v.tiles
  <2> w \notin DOMAIN v.floats
    BY <1>8, WorldParts DEF Sane
  <2>1. Proposals(ev, v) = Floated(v, w, k)
    BY <1>1, <1>8 DEF Proposals
  <2>2. Members(v) = DOMAIN ev.seen
    BY <1>2, <1>8 DEF Known
  <2>3. WorldOK(p, {k}) /\ Members(p) = Members(v)
    BY <1>2, <1>8, <2>1, FloatedOK
  <2> QED
    BY <1>6, <2>2, <2>3 DEF Holds
<1>9. CASE ev.op = "float" /\ w \notin DOMAIN v.tiles
  <2>1. p = Tiled(v, w, k)
    BY <1>1, <1>9 DEF Proposals
  <2>2. Members(v) = DOMAIN ev.seen
    BY <1>2, <1>9 DEF Known
  <2>3. WorldOK(p, {k}) /\ Members(p) = Members(v) \cup {w}
    BY <1>2, <2>1, TiledOK
  <2> QED
    BY <1>6, <2>2, <2>3 DEF Holds
<1>10. CASE ev.op \in {"move", "resize", "orient"}
  <2>1. p = u
    BY <1>1, <1>10 DEF Proposals
  <2> QED
    BY <1>2, <1>5, <1>10, <2>1 DEF Members, Known, Holds
<1>11. CASE ev.op = "focus"
  <2>1. PICK x \in DOMAIN v.tiles : p = Focusing(u, x)
    BY <1>1, <1>11 DEF Proposals
  <2>2. WorldOK(p, {k}) /\ p.tiles = v.tiles /\ p.floats = v.floats
    BY <1>5, <2>1, FocusingOK
  <2> QED
    BY <1>2, <1>11, <2>2 DEF Members, Known, Holds
<1> QED
  BY <1>1, <1>7, <1>8, <1>9, <1>10, <1>11 DEF Proposals

\* A session seeded from the observation.
LEMMA SeededOK ==
    ASSUME NEW ev, EventOK(ev), NEW S \in SUBSET Windows, NEW v \in Seeded(ev, S)
    PROVE  WorldOK(v, {ev.key})
<1> DEFINE T == [w \in S |-> ev.key]
<1>1. PICK f \in IF ev.focus \cap S # {} THEN {ev.focus} ELSE OneOf(S) :
          v = [tiles |-> T, floats |-> <<>>, recent |-> S, focus |-> f]
  BY DEF Seeded
<1>2. AtMostOne(f) /\ f \subseteq S
  <2>1. CASE ev.focus \cap S # {}
    BY <1>1, <2>1 DEF EventOK, AtMostOne
  <2>2. CASE ev.focus \cap S = {}
    BY <1>1, <2>2, OneOfOK
  <2> QED
    BY <2>1, <2>2
<1>3. T \in Maps(Windows, Domains) /\ <<>> \in Maps(Windows, Domains) /\ DOMAIN <<>> = {}
  <2>1. T \in [S -> Domains]
    BY DEF EventOK
  <2> QED
    BY <2>1, AreMaps, EmptyIsMap
<1>4. DOMAIN T = S /\ \A w \in DOMAIN T : T[w] \in {ev.key}
  OBVIOUS
<1> HIDE DEF T
<1> QED
  BY <1>1, <1>2, <1>3, <1>4, WorldMade

\* The observed rectangles as a tree.
LEMMA FittedOK ==
    ASSUME NEW ev, EventOK(ev), ev.subject \in DOMAIN ev.seen, NEW v \in Fitted(ev)
    PROVE  WorldOK(v, {ev.key}) /\ Holds(v, DOMAIN ev.seen)
<1> DEFINE T == [w \in DOMAIN ev.seen |-> ev.key]
<1>1. v = [tiles |-> T, floats |-> <<>>, recent |-> {ev.subject}, focus |-> {ev.subject}]
  BY DEF Fitted
<1>2. AtMostOne({ev.subject}) /\ {ev.subject} \subseteq DOMAIN ev.seen
  BY DEF AtMostOne
<1>3. T \in Maps(Windows, Domains) /\ <<>> \in Maps(Windows, Domains) /\ DOMAIN <<>> = {}
  <2>1. T \in [DOMAIN ev.seen -> Domains] /\ DOMAIN ev.seen \in SUBSET Windows
    BY DEF EventOK
  <2> QED
    BY <2>1, AreMaps, EmptyIsMap
<1>4. DOMAIN T = DOMAIN ev.seen /\ \A w \in DOMAIN T : T[w] \in {ev.key}
  OBVIOUS
<1> HIDE DEF T
<1>5. WorldOK(v, {ev.key})
  BY <1>1, <1>2, <1>3, <1>4, WorldMade
<1> QED
  BY <1>1, <1>3, <1>4, <1>5 DEF Members, Holds

-----------------------------------------------------------------------------
(* Engines.                                                                *)

\* What the maps of an engine are made of.
Slots == [client : Clients, area : Areas, world : Worlds]
Engines == [slots : Maps(Domains, Slots), gaps : Maps(Domains, OuterGaps)]

\* What an engine retains between requests.
Sound(e) ==
    /\ e \in Engines
    /\ DOMAIN e.gaps = DOMAIN e.slots
    /\ \A k \in DOMAIN e.slots : WorldOK(e.slots[k].world, {k})

\* The windows an engine holds for a domain.
HeldBy(e, k) == IF k \in DOMAIN e.slots THEN Members(e.slots[k].world) ELSE {}

\* Nothing happened outside K.
Alike(e, d, K) ==
    \A x \in Domains \ K :
        /\ x \in DOMAIN d.slots <=> x \in DOMAIN e.slots
        /\ x \in DOMAIN e.slots => d.slots[x] = e.slots[x] /\ d.gaps[x] = e.gaps[x]

\* The two maps of a sound engine.
LEMMA EngineParts ==
    ASSUME NEW e, Sound(e)
    PROVE  /\ e = [slots |-> e.slots, gaps |-> e.gaps]
           /\ e.slots \in Maps(Domains, Slots) /\ e.gaps \in Maps(Domains, OuterGaps)
           /\ DOMAIN e.slots \subseteq Domains /\ DOMAIN e.gaps = DOMAIN e.slots
<1>1. e \in Engines
  BY DEF Sound
<1>2. /\ e = [slots |-> e.slots, gaps |-> e.gaps]
      /\ e.slots \in Maps(Domains, Slots) /\ e.gaps \in Maps(Domains, OuterGaps)
  BY <1>1 DEF Engines
<1> QED
  BY <1>2, MapsAre DEF Sound

\* What a sound engine retains for a domain.
LEMMA SlotParts ==
    ASSUME NEW e, Sound(e), NEW k \in DOMAIN e.slots
    PROVE  /\ e.slots[k] \in Slots /\ WorldOK(e.slots[k].world, {k})
           /\ e.slots[k] = [client |-> e.slots[k].client, area |-> e.slots[k].area,
                            world |-> e.slots[k].world]
           /\ e.slots[k].client \in Clients /\ e.slots[k].area \in Areas
           /\ k \in Domains
<1>1. e.slots \in Maps(Domains, Slots)
  BY EngineParts
<1>2. e.slots \in [DOMAIN e.slots -> Slots] /\ DOMAIN e.slots \subseteq Domains
  BY <1>1, MapsAre
<1>3. e.slots[k] \in Slots
  BY <1>2
<1> QED
  BY <1>2, <1>3 DEF Sound, Slots

\* An engine is made of its two maps.
LEMMA EngineMade ==
    ASSUME NEW f \in Maps(Domains, Slots), NEW g \in Maps(Domains, OuterGaps),
           DOMAIN g = DOMAIN f, \A k \in DOMAIN f : WorldOK(f[k].world, {k}),
           NEW d, d = [slots |-> f, gaps |-> g]
    PROVE  Sound(d)
<1>1. d \in Engines
  BY DEF Engines
<1> QED
  BY <1>1 DEF Sound

\* A session dropped, and its gap with it.
LEMMA DroppedOK ==
    ASSUME NEW e, Sound(e), NEW k
    PROVE  /\ Sound(Dropped(e, k)) /\ Alike(e, Dropped(e, k), {k})
           /\ k \notin DOMAIN Dropped(e, k).slots
<1> DEFINE f == Without(e.slots, k)
           g == Without(e.gaps, k)
<1>1. f \in Maps(Domains, Slots) /\ g \in Maps(Domains, OuterGaps)
  BY EngineParts, WithoutIsMap
<1>2. DOMAIN f = DOMAIN e.slots \ {k} /\ DOMAIN g = DOMAIN e.slots \ {k}
  BY EngineParts DEF Without
<1>3. \A x \in DOMAIN e.slots \ {k} : f[x] = e.slots[x] /\ g[x] = e.gaps[x]
  BY EngineParts DEF Without
<1>4. PICK d : d = Dropped(e, k)
  OBVIOUS
<1>5. d = [e EXCEPT !.slots = f, !.gaps = g]
  BY <1>4 DEF Dropped
<1> HIDE DEF f, g
<1>6. d = [slots |-> f, gaps |-> g]
  <2>1. e = [slots |-> e.slots, gaps |-> e.gaps]
    BY EngineParts
  <2> QED
    BY <1>5, <2>1
<1>7. \A x \in DOMAIN f : WorldOK(f[x].world, {x})
  BY <1>2, <1>3 DEF Sound
<1>8. Sound(d)
  BY <1>1, <1>2, <1>6, <1>7, EngineMade
<1>9. Alike(e, d, {k}) /\ k \notin DOMAIN d.slots
  BY <1>2, <1>3, <1>6 DEF Alike
<1> QED
  BY <1>4, <1>8, <1>9

\* A slot put into the map.
Put(e, k, slot, outer) ==
    [slots |-> With(e.slots, k, slot), gaps |-> With(e.gaps, k, outer)]

\* A session put into the map keeps the engine sound.
LEMMA PutOK ==
    ASSUME NEW e, Sound(e), NEW k \in Domains, NEW slot \in Slots,
           WorldOK(slot.world, {k}), NEW outer \in OuterGaps, NEW d, d = Put(e, k, slot, outer)
    PROVE  /\ Sound(d) /\ Alike(e, d, {k})
           /\ DOMAIN d.slots = DOMAIN e.slots \cup {k}
           /\ d.slots[k] = slot /\ d.gaps[k] = outer
<1> DEFINE f == With(e.slots, k, slot)
           g == With(e.gaps, k, outer)
<1>1. f \in Maps(Domains, Slots) /\ g \in Maps(Domains, OuterGaps)
  BY EngineParts, WithIsMap
<1>2. DOMAIN f = DOMAIN e.slots \cup {k} /\ DOMAIN g = DOMAIN e.slots \cup {k}
  BY EngineParts DEF With
<1>3. /\ \A x \in DOMAIN e.slots \ {k} : f[x] = e.slots[x] /\ g[x] = e.gaps[x]
      /\ f[k] = slot /\ g[k] = outer
  BY EngineParts DEF With
<1>4. d = [slots |-> f, gaps |-> g]
  BY DEF Put
<1> HIDE DEF f, g
<1>5. \A x \in DOMAIN f : WorldOK(f[x].world, {x})
  BY <1>2, <1>3 DEF Sound
<1>6. Sound(d)
  BY <1>1, <1>2, <1>4, <1>5, EngineMade
<1>7. d.slots = f /\ d.gaps = g
  BY <1>4
<1>8. Alike(e, d, {k})
  BY <1>2, <1>3, <1>7 DEF Alike
<1> QED
  BY <1>2, <1>3, <1>6, <1>7, <1>8

\* A session stored, or dropped when it has become empty (store_committed).
LEMMA StoredOK ==
    ASSUME NEW e, Sound(e), NEW k \in Domains, NEW slot \in Slots,
           WorldOK(slot.world, {k}), NEW outer \in OuterGaps,
           NEW d, d = Stored(e, k, slot, outer)
    PROVE  /\ Sound(d) /\ Alike(e, d, {k})
           /\ ~Holds(slot.world, {}) => k \in DOMAIN d.slots /\ d.slots[k] = slot
           /\ Holds(slot.world, {}) => k \notin DOMAIN d.slots
<1>1. CASE Holds(slot.world, {})
  <2>1. d = Dropped(e, k)
    BY <1>1 DEF Stored, Holds
  <2> QED
    BY <1>1, <2>1, DroppedOK
<1>2. CASE ~Holds(slot.world, {})
  <2>1. d = [e EXCEPT !.slots = With(e.slots, k, slot), !.gaps = With(e.gaps, k, outer)]
    BY <1>2 DEF Stored, Holds
  <2>2. e = [slots |-> e.slots, gaps |-> e.gaps]
    BY EngineParts
  <2>3. d = [slots |-> With(e.slots, k, slot), gaps |-> With(e.gaps, k, outer)]
    BY <2>1, <2>2
  <2>4. d = Put(e, k, slot, outer)
    BY <2>3 DEF Put
  <2>5. /\ Sound(d) /\ Alike(e, d, {k})
        /\ DOMAIN d.slots = DOMAIN e.slots \cup {k} /\ d.slots[k] = slot
    BY <2>4, PutOK
  <2> QED
    BY <1>2, <2>5
<1> QED
  BY <1>1, <1>2

\* What a slot stored for a request is.
LEMMA SlotOK ==
    ASSUME NEW ev, EventOK(ev), NEW K, NEW v, WorldOK(v, K)
    PROVE  /\ Slot(ev, ev.area, v) \in Slots
           /\ Slot(ev, ev.area, v).world = v /\ Slot(ev, ev.area, v).area = ev.area
BY DEF Slot, Slots, EventOK, WorldOK

\* A retained slot with another world or another area.
LEMMA SlotChanged ==
    ASSUME NEW s \in Slots, NEW v \in Worlds, NEW a \in Areas
    PROVE  /\ [s EXCEPT !.world = v] \in Slots /\ [s EXCEPT !.world = v].world = v
           /\ [s EXCEPT !.world = v].area = s.area
           /\ [s EXCEPT !.area = a] \in Slots /\ [s EXCEPT !.area = a].world = s.world
           /\ [s EXCEPT !.area = a].area = a
BY DEF Slots

\* A session whose world is replaced.
LEMMA WorldReplaced ==
    ASSUME NEW e, Sound(e), NEW k \in DOMAIN e.slots, NEW v, WorldOK(v, {k}),
           NEW d, d = [e EXCEPT !.slots[k].world = v]
    PROVE  /\ Sound(d) /\ Alike(e, d, {k})
           /\ DOMAIN d.slots = DOMAIN e.slots
           /\ d.slots[k] = [e.slots[k] EXCEPT !.world = v]
           /\ d.slots[k].world = v /\ d.slots[k].area = e.slots[k].area
<1> DEFINE s == [e.slots[k] EXCEPT !.world = v]
           f == [e.slots EXCEPT ![k] = s]
<1>1. e = [slots |-> e.slots, gaps |-> e.gaps] /\ DOMAIN e.gaps = DOMAIN e.slots
  BY EngineParts
<1>2. s \in Slots /\ s.world = v /\ s.area = e.slots[k].area
  BY ZenonT(40), SlotParts, SlotChanged DEF WorldOK
<1>3. d = [e EXCEPT !.slots = f]
  BY <1>1
<1>4. DOMAIN f = DOMAIN e.slots /\ f[k] = s /\ \A x \in DOMAIN e.slots \ {k} : f[x] = e.slots[x]
  OBVIOUS
<1>5. f \in Maps(Domains, Slots)
  <2>1. e.slots \in [DOMAIN e.slots -> Slots] /\ DOMAIN e.slots \in SUBSET Domains
    BY EngineParts, MapsAre
  <2>2. f \in [DOMAIN e.slots -> Slots]
    BY <1>2, <2>1
  <2> QED
    BY <2>1, <2>2, AreMaps
<1> HIDE DEF f
<1>6. d = [slots |-> f, gaps |-> e.gaps]
  BY <1>1, <1>3
<1> HIDE DEF s
<1>7. \A x \in DOMAIN f : WorldOK(f[x].world, {x})
  BY <1>2, <1>4 DEF Sound
<1>8. Sound(d)
  BY <1>1, <1>4, <1>5, <1>6, <1>7, EngineMade, EngineParts
<1>9. d.slots = f /\ d.gaps = e.gaps
  BY <1>6
<1>10. Alike(e, d, {k})
  BY <1>4, <1>9 DEF Alike
<1>11. d.slots[k] = [e.slots[k] EXCEPT !.world = v]
  BY <1>4, <1>9 DEF s
<1> QED
  BY <1>2, <1>4, <1>8, <1>9, <1>10, <1>11

\* A session placed in another area.
LEMMA ReprojectedOK ==
    ASSUME NEW ev, EventOK(ev), NEW e, Sound(e), ev.key \in DOMAIN e.slots,
           NEW d, d = Reprojected(e, ev)
    PROVE  /\ Sound(d) /\ Alike(e, d, {ev.key})
           /\ DOMAIN d.slots = DOMAIN e.slots
           /\ d.slots[ev.key].world = e.slots[ev.key].world
           /\ d.slots[ev.key].area = ev.area
<1> DEFINE k == ev.key
           s == [e.slots[k] EXCEPT !.area = ev.area]
           f == [e.slots EXCEPT ![k] = s]
<1>1. e = [slots |-> e.slots, gaps |-> e.gaps] /\ DOMAIN e.gaps = DOMAIN e.slots
  BY EngineParts
<1>2. s \in Slots /\ s.world = e.slots[k].world /\ s.area = ev.area
  <2>1. e.slots[k] \in Slots /\ e.slots[k].world \in Worlds
    BY SlotParts DEF WorldOK
  <2>2. ev.area \in Areas
    BY DEF EventOK
  <2>3. s \in Slots
    BY <2>1, <2>2, SlotChanged
  <2>4. s.world = e.slots[k].world
    BY <2>1, <2>2, SlotChanged
  <2>5. s.area = ev.area
    BY <2>1, <2>2, SlotChanged
  <2> QED
    BY <2>3, <2>4, <2>5
<1>3. d = [e EXCEPT !.slots = f]
  BY <1>1 DEF Reprojected
<1>4. DOMAIN f = DOMAIN e.slots /\ f[k] = s /\ \A x \in DOMAIN e.slots \ {k} : f[x] = e.slots[x]
  OBVIOUS
<1>5. f \in Maps(Domains, Slots)
  <2>1. e.slots \in [DOMAIN e.slots -> Slots] /\ DOMAIN e.slots \in SUBSET Domains
    BY EngineParts, MapsAre
  <2>2. f \in [DOMAIN e.slots -> Slots]
    BY <1>2, <2>1
  <2> QED
    BY <2>1, <2>2, AreMaps
<1> HIDE DEF f
<1>6. d = [slots |-> f, gaps |-> e.gaps]
  BY <1>1, <1>3
<1> HIDE DEF s
<1>7. \A x \in DOMAIN f : WorldOK(f[x].world, {x})
  BY <1>2, <1>4 DEF Sound
<1>8. Sound(d)
  BY <1>1, <1>4, <1>5, <1>6, <1>7, EngineMade, EngineParts
<1>9. d.slots = f /\ d.gaps = e.gaps
  BY <1>6
<1>10. Alike(e, d, {k})
  BY <1>4, <1>9 DEF Alike
<1> QED
  BY <1>2, <1>4, <1>8, <1>9, <1>10

\* A displaced session moves whole to the request's domain.
LEMMA RelocatedOK ==
    ASSUME NEW ev, EventOK(ev), NEW e, Sound(e), NEW s \in Relocatable(e, ev.key),
           NEW d, d = Relocated(e, s, ev)
    PROVE  /\ Sound(d) /\ Alike(e, d, {ev.key, s})
           /\ ev.key \in DOMAIN d.slots /\ ev.key \notin DOMAIN e.slots
           /\ s \notin DOMAIN d.slots /\ s \in DOMAIN e.slots
           /\ s.workspace = ev.key.workspace /\ d.slots[ev.key].area = ev.area
           /\ Holds(d.slots[ev.key].world, Members(e.slots[s].world))
<1> DEFINE k == ev.key
           v == Rehomed(e.slots[s].world, k)
           slot == [e.slots[s] EXCEPT !.area = ev.area, !.world = v]
           base == Dropped(e, s)
<1>1. /\ s \in DOMAIN e.slots /\ s.workspace = k.workspace /\ s.output # k.output
      /\ k \notin DOMAIN e.slots /\ k \in Domains /\ ev.area \in Areas /\ ev.outer \in OuterGaps
  BY DEF Relocatable, Displaced, Has, EventOK
<1>2. WorldOK(v, {k}) /\ Members(v) = Members(e.slots[s].world)
  BY <1>1, SlotParts, RehomedOK
<1>3. slot \in Slots /\ slot.world = v /\ slot.area = ev.area
  <2>1. PICK x : x = e.slots[s]
    OBVIOUS
  <2>2. x = [client |-> x.client, area |-> x.area, world |-> x.world] /\ x.client \in Clients
    BY <1>1, <2>1, SlotParts
  <2>3. v \in Worlds
    BY <1>2 DEF WorldOK
  <2> HIDE DEF v
  <2>4. PICK y : y = [x EXCEPT !.area = ev.area, !.world = v]
    OBVIOUS
  <2>5. y = [client |-> x.client, area |-> ev.area, world |-> v]
    BY <2>2, <2>4
  <2>6. y \in Slots /\ y.world = v /\ y.area = ev.area
    BY <1>1, <2>2, <2>3, <2>5 DEF Slots
  <2> QED
    BY <2>1, <2>4, <2>6
<1>4. Sound(base) /\ Alike(e, base, {s}) /\ s \notin DOMAIN base.slots
  BY DroppedOK
<1>5. base.slots = Without(e.slots, s) /\ base.gaps = Without(e.gaps, s)
  <2>1. e = [slots |-> e.slots, gaps |-> e.gaps]
    BY EngineParts
  <2> QED
    BY <2>1 DEF Dropped
<1>6. d = [slots |-> With(Without(e.slots, s), k, slot), gaps |-> With(Without(e.gaps, s), k, ev.outer)]
  BY DEF Relocated
<1> HIDE DEF slot, base, v
<1>7. d = Put(base, k, slot, ev.outer)
  BY <1>5, <1>6 DEF Put
<1>8. /\ Sound(d) /\ Alike(base, d, {k}) /\ DOMAIN d.slots = DOMAIN base.slots \cup {k}
      /\ d.slots[k] = slot
  BY SMTT(30), <1>1, <1>2, <1>3, <1>4, <1>7, PutOK
<1>9. Alike(e, d, {k, s})
  BY <1>4, <1>8 DEF Alike
<1>10. s \notin DOMAIN d.slots
  BY <1>1, <1>4, <1>8
<1>11. Holds(d.slots[k].world, Members(e.slots[s].world)) /\ d.slots[k].area = ev.area
  BY <1>2, <1>3, <1>8 DEF Holds
<1> QED
  BY <1>1, <1>8, <1>9, <1>10, <1>11

\* A session converged on the observation.
LEMMA ConvergedOK ==
    ASSUME NEW ev, EventOK(ev), ev.other = ev.key, NEW e, Sound(e), NEW d \in ConvergedEngines(e, ev)
    PROVE  /\ Sound(d) /\ Alike(e, d, {ev.key})
           /\ DOMAIN d.slots = DOMAIN e.slots
           /\ ev.key \in DOMAIN e.slots => Holds(d.slots[ev.key].world, DOMAIN ev.seen)
<1>1. CASE ev.key \notin DOMAIN e.slots
  BY <1>1 DEF ConvergedEngines, Has, Alike
<1>2. CASE ev.key \in DOMAIN e.slots
  <2>1. PICK v \in Convergences(e.slots[ev.key].world, ev.seen, ev.focus) :
            d = [e EXCEPT !.slots[ev.key].world = v]
    BY <1>2 DEF ConvergedEngines, Has
  <2>2. WorldOK(v, {ev.key}) /\ Holds(v, DOMAIN ev.seen)
    <3>1. WorldOK(e.slots[ev.key].world, {ev.key}) /\ {ev.key} \in SUBSET Domains
      BY <1>2, SlotParts
    <3>2. /\ AtMostOne(ev.focus) /\ DOMAIN ev.seen \subseteq Windows
          /\ \A w \in DOMAIN ev.seen : ev.seen[w].home \in {ev.key}
      BY DEF EventOK
    <3>3. WorldOK(v, {ev.key})
      BY <2>1, <3>1, <3>2, ConvergencesOK
    <3>4. Holds(v, DOMAIN ev.seen)
      BY <2>1, <3>1, <3>2, ConvergencesOK
    <3> QED
      BY <3>3, <3>4
  <2> QED
    BY <1>2, <2>1, <2>2, WorldReplaced
<1> QED
  BY <1>1, <1>2

\* A session adopted from what is seen in its domain.
LEMMA FreshOK ==
    ASSUME NEW ev, EventOK(ev), \A w \in DOMAIN ev.seen : ev.seen[w].home = ev.key,
           NEW e, Sound(e), NEW d \in Fresh(e, ev)
    PROVE  /\ Sound(d) /\ Alike(e, d, {ev.key})
           /\ \/ /\ ev.key \in DOMAIN d.slots /\ d.slots[ev.key].area = ev.area
                 /\ Holds(d.slots[ev.key].world, DOMAIN ev.seen)
              \/ ev.key \notin DOMAIN d.slots /\ DOMAIN ev.seen = {}
<1>1. PICK v \in Convergences(EmptyWorld, ev.seen, ev.focus) :
          d = Stored(e, ev.key, Slot(ev, ev.area, v), ev.outer)
  BY DEF Fresh
<1>2. WorldOK(EmptyWorld, {ev.key}) /\ {ev.key} \in SUBSET Domains
  BY EmptyWorldOK DEF EventOK
<1>3. WorldOK(v, {ev.key}) /\ Holds(v, DOMAIN ev.seen)
  BY <1>1, <1>2, ConvergencesOK DEF EventOK
<1>4. PICK s : s = Slot(ev, ev.area, v)
  OBVIOUS
<1>5. s \in Slots /\ s.world = v /\ s.area = ev.area
  BY <1>3, <1>4, SlotOK
<1>6. ev.key \in Domains /\ ev.outer \in OuterGaps
  BY DEF EventOK
<1>7. d = Stored(e, ev.key, s, ev.outer) /\ WorldOK(s.world, {ev.key})
  BY <1>1, <1>3, <1>4, <1>5
<1>8. /\ Sound(d) /\ Alike(e, d, {ev.key})
      /\ ~Holds(v, {}) => ev.key \in DOMAIN d.slots /\ d.slots[ev.key] = s
      /\ Holds(v, {}) => ev.key \notin DOMAIN d.slots
  BY <1>5, <1>6, <1>7, StoredOK
<1> QED
  BY <1>3, <1>5, <1>8 DEF HeldBy, Holds

-----------------------------------------------------------------------------
(* Answers.                                                                *)

\* A session of a domain the request does not name is as it was, or was displaced
\* whole.
Keeps(e, d, ev) ==
    \A x \in DOMAIN e.slots \ {ev.key, ev.other} :
        \/ x \in DOMAIN d.slots /\ d.slots[x] = e.slots[x] /\ d.gaps[x] = e.gaps[x]
        \/ /\ x \notin DOMAIN d.slots
           /\ ev.other = ev.key /\ x.workspace = ev.key.workspace
           /\ Members(e.slots[x].world) \subseteq DOMAIN ev.seen

\* The sessions of the request's domains hold what is seen, each window once.
InSight(d, ev) ==
    /\ HeldBy(d, ev.key) \cup HeldBy(d, ev.other) = DOMAIN ev.seen
    /\ ev.key # ev.other => HeldBy(d, ev.key) \cap HeldBy(d, ev.other) = {}

\* The plan is about what is retained.
Matches(d, plan) ==
    \A k \in DOMAIN plan :
        /\ plan[k].tiles # {} => k \in DOMAIN d.slots
        /\ k \in DOMAIN d.slots =>
              DOMAIN d.slots[k].world.tiles = plan[k].tiles /\ d.slots[k].area = plan[k].area

\* What was held and is in sight is still held by one of the two domains.
NothingLost(e, d, ev) ==
    (HeldBy(e, ev.key) \cup HeldBy(e, ev.other)) \cap DOMAIN ev.seen
        \subseteq HeldBy(d, ev.key) \cup HeldBy(d, ev.other)

\* What an answer to ev may make of the engine e.
Answered(e, ev, a) ==
    /\ Sound(a.engine)
    /\ Keeps(e, a.engine, ev)
    /\ a.reply.kind = "plan" => InSight(a.engine, ev) /\ Matches(a.engine, a.reply.plan)
    /\ a.reply.kind = "refused" /\ ev.key # ev.other => NothingLost(e, a.engine, ev)

\* A request about one domain.
Within(ev) == EventOK(ev) /\ ev.other = ev.key

\* The relocated session is known to be whole.
Carried(e, c, ev) ==
    Members(c.slots[ev.key].world) \subseteq DOMAIN ev.seen => Keeps(e, c, ev)

\* A refusal that keeps to its domains and loses nothing is a good answer.
LEMMA RefusedIs ==
    ASSUME NEW e, NEW d, NEW ev, Sound(d), Keeps(e, d, ev),
           ev.key # ev.other => NothingLost(e, d, ev)
    PROVE  Answered(e, ev, Refused(d))
BY DEF Answered, Refused, Answer

\* A plan that is true of the engine it leaves is a good answer.
LEMMA PlannedIs ==
    ASSUME NEW e, NEW d, NEW ev, Sound(d), Keeps(e, d, ev), NEW plan,
           InSight(d, ev), Matches(d, plan)
    PROVE  Answered(e, ev, Planned(d, plan))
BY DEF Answered, Planned, Answer

\* A proposal that fails leaves the engine it was made on.
LEMMA RefusalsAre ==
    ASSUME NEW e, NEW S, NEW a \in Refusals(e, S)
    PROVE  a = Refused(e)
BY DEF Refusals

\* An engine left as it was.
LEMMA KeepsItself ==
    ASSUME NEW e, NEW ev
    PROVE  Keeps(e, e, ev) /\ Carried(e, e, ev) /\ NothingLost(e, e, ev)
BY DEF Keeps, Carried, NothingLost

\* What happens within the request's domains is its own business,
LEMMA KeepsOn ==
    ASSUME NEW e, Sound(e), NEW c, NEW d, NEW ev, NEW K,
           K \subseteq {ev.key, ev.other}, Keeps(e, c, ev), Alike(c, d, K)
    PROVE  Keeps(e, d, ev)
BY EngineParts DEF Keeps, Alike

\* before and after.
LEMMA KeepsSince ==
    ASSUME NEW e, Sound(e), NEW c, NEW d, NEW ev, NEW K,
           K \subseteq {ev.key, ev.other}, Alike(e, c, K), Keeps(c, d, ev)
    PROVE  Keeps(e, d, ev)
BY EngineParts DEF Keeps, Alike

\* An answer given after the request's own session was changed.
LEMMA AnsweredSince ==
    ASSUME NEW e, Sound(e), NEW c, NEW ev, ev.other = ev.key,
           Alike(e, c, {ev.key}), NEW a, Answered(c, ev, a)
    PROVE  Answered(e, ev, a)
<1>1. Keeps(c, a.engine, ev)
  BY DEF Answered
<1>2. Keeps(e, a.engine, ev)
  BY <1>1, KeepsSince
<1> QED
  BY <1>2 DEF Answered

\* A plan that leads to a world which holds what is seen.
LEMMA PlannedHere ==
    ASSUME NEW ev, Within(ev), NEW e, Sound(e), NEW d, Sound(d), Keeps(e, d, ev),
           NEW v, WorldOK(v, {ev.key}), Holds(v, DOMAIN ev.seen),
           \/ ev.key \in DOMAIN d.slots /\ d.slots[ev.key].world.tiles = v.tiles
                 /\ Holds(d.slots[ev.key].world, DOMAIN ev.seen)
                 /\ d.slots[ev.key].area = ev.area
           \/ ev.key \notin DOMAIN d.slots /\ DOMAIN ev.seen = {}
    PROVE  Answered(e, ev, Planned(d, Placing(ev.key, ev.area, v)))
<1> DEFINE plan == Placing(ev.key, ev.area, v)
<1>1. InSight(d, ev)
  BY DEF Within, InSight, HeldBy, Holds
<1>2. Homed(v.tiles, ev.key) = DOMAIN v.tiles
  BY WorldParts DEF Homed, HomedIn
<1>3. DOMAIN plan = {ev.key} /\ plan[ev.key].tiles = DOMAIN v.tiles /\ plan[ev.key].area = ev.area
  BY <1>2 DEF Placing
<1>4. DOMAIN v.tiles \subseteq DOMAIN ev.seen
  BY DEF Holds, Members
<1> HIDE DEF plan
<1>5. Matches(d, plan)
  BY <1>3, <1>4 DEF Matches
<1> QED
  BY <1>1, <1>5, PlannedIs DEF plan

\* A plan that moves nothing.
LEMMA PlannedNothing ==
    ASSUME NEW ev, Within(ev), NEW e, NEW d, Sound(d), Keeps(e, d, ev),
           \/ ev.key \in DOMAIN d.slots /\ Holds(d.slots[ev.key].world, DOMAIN ev.seen)
           \/ ev.key \notin DOMAIN d.slots /\ DOMAIN ev.seen = {}
    PROVE  Answered(e, ev, Planned(d, Nothing))
<1>1. InSight(d, ev)
  BY DEF Within, InSight, HeldBy, Holds
<1>2. Matches(d, Nothing)
  BY DEF Matches, Nothing
<1> QED
  BY <1>1, <1>2, PlannedIs

\* A refusal of a request about one domain.
LEMMA RefusedHere ==
    ASSUME NEW ev, Within(ev), NEW e, NEW d, Sound(d), Keeps(e, d, ev)
    PROVE  Answered(e, ev, Refused(d))
BY RefusedIs DEF Within

\* The plan of a world that is stored.
LEMMA PlannedStored ==
    ASSUME NEW ev, Within(ev), NEW e, Sound(e), NEW c, Sound(c), Keeps(e, c, ev),
           NEW v, WorldOK(v, {ev.key}), Holds(v, DOMAIN ev.seen),
           NEW s \in Slots, s.world = v, s.area = ev.area
    PROVE  Answered(e, ev, Planned(Stored(c, ev.key, s, ev.outer), Placing(ev.key, ev.area, v)))
<1>1. PICK d : d = Stored(c, ev.key, s, ev.outer)
  OBVIOUS
<1>2. ev.key \in Domains /\ ev.outer \in OuterGaps /\ WorldOK(s.world, {ev.key})
  BY DEF Within, EventOK
<1>3. /\ Sound(d) /\ Alike(c, d, {ev.key})
      /\ ~Holds(v, {}) => ev.key \in DOMAIN d.slots /\ d.slots[ev.key] = s
      /\ Holds(v, {}) => ev.key \notin DOMAIN d.slots
  BY <1>1, <1>2, StoredOK
<1>4. Keeps(e, d, ev)
  BY <1>3, KeepsOn
<1>5. CASE Holds(v, {})
  BY <1>3, <1>4, <1>5, <1>1, PlannedHere DEF Holds
<1>6. CASE ~Holds(v, {})
  BY <1>3, <1>4, <1>6, <1>1, PlannedHere
<1> QED
  BY <1>5, <1>6

\* A rebuilt session.
LEMMA ReseedOK ==
    ASSUME NEW ev, Within(ev), ev.subject \in DOMAIN ev.seen,
           NEW e, Sound(e), NEW c, Sound(c), Keeps(e, c, ev),
           NEW converged, NEW a \in Reseed(c, ev, converged)
    PROVE  Answered(e, ev, a)
<1> DEFINE next == IF converged THEN {}
                   ELSE UNION {Proposals(ev, u) : u \in Seeded(ev, Known(ev))}
<1>1. \/ a \in Refusals(c, next)
      \/ \E v \in next : a = Planned(Stored(c, ev.key, Slot(ev, ev.area, v), ev.outer),
                                     Placing(ev.key, ev.area, v))
  BY DEF Reseed
<1>2. CASE a \in Refusals(c, next)
  BY <1>2, RefusalsAre, RefusedHere
<1>3. ASSUME NEW v \in next,
             a = Planned(Stored(c, ev.key, Slot(ev, ev.area, v), ev.outer),
                         Placing(ev.key, ev.area, v))
      PROVE  Answered(e, ev, a)
  <2>1. PICK u \in Seeded(ev, Known(ev)) : v \in Proposals(ev, u)
    BY <1>3
  <2>2. EventOK(ev) /\ Known(ev) \in SUBSET Windows
    BY DEF Known, Within, EventOK
  <2>3. WorldOK(u, {ev.key})
    BY <2>1, <2>2, SeededOK
  <2>4. WorldOK(v, {ev.key}) /\ Holds(v, DOMAIN ev.seen)
    BY <2>1, <2>2, <2>3, ProposalsOK
  <2>5. PICK s : s = Slot(ev, ev.area, v)
    OBVIOUS
  <2>6. s \in Slots /\ s.world = v /\ s.area = ev.area
    BY <2>2, <2>4, <2>5, SlotOK
  <2> QED
    BY <1>3, <2>4, <2>5, <2>6, PlannedStored
<1> QED
  BY <1>1, <1>2, <1>3

\* A command on the retained session, or on the one that was relocated to it.
LEMMA ProposedOK ==
    ASSUME NEW ev, Within(ev), ev.subject \in DOMAIN ev.seen,
           NEW e, Sound(e), NEW c, Sound(c), NEW b, Sound(b),
           ev.key \in DOMAIN c.slots, c.slots[ev.key].area = ev.area,
           Keeps(e, b, ev), Carried(e, c, ev),
           NEW converged, NEW a \in Proposed(c, ev, b, converged)
    PROVE  Answered(e, ev, a)
<1> DEFINE slot == c.slots[ev.key]
           next == Proposals(ev, slot.world)
<1>1. Sound(Dropped(c, ev.key)) /\ Alike(c, Dropped(c, ev.key), {ev.key})
  BY DroppedOK
<1>2. b = c => Keeps(e, Dropped(c, ev.key), ev)
  BY <1>1, KeepsOn
<1>3. CASE a \in Reseed(IF b = c THEN Dropped(c, ev.key) ELSE b, ev, FALSE)
  <2>1. CASE b = c
    BY <1>1, <1>2, <1>3, <2>1, ReseedOK
  <2>2. CASE b # c
    BY <1>3, <2>2, ReseedOK
  <2> QED
    BY <2>1, <2>2
<1>4. CASE a \in Refusals(b, next)
  BY <1>4, RefusalsAre, RefusedHere
<1>5. ASSUME NEW v \in next,
             a = Planned(Stored(c, ev.key, [slot EXCEPT !.world = v], ev.outer),
                         Placing(ev.key, ev.area, v))
      PROVE  Answered(e, ev, a)
  <2>1. WorldOK(slot.world, {ev.key}) /\ slot \in Slots /\ EventOK(ev)
    BY SlotParts DEF Within
  <2>2. /\ WorldOK(v, {ev.key}) /\ Holds(v, DOMAIN ev.seen)
        /\ Members(slot.world) \subseteq DOMAIN ev.seen
    BY <1>5, <2>1, ProposalsOK
  <2>3. Keeps(e, c, ev)
    BY <2>2 DEF Carried
  <2>4. PICK s : s = [slot EXCEPT !.world = v]
    OBVIOUS
  <2>5. v \in Worlds
    BY <2>2 DEF WorldOK
  <2>6. s \in Slots /\ s.world = v /\ s.area = ev.area
    BY <2>1, <2>4, <2>5 DEF Slots
  <2> QED
    BY <1>5, <2>2, <2>3, <2>4, <2>6, PlannedStored
<1>6. CASE b = c /\ a = Refused(Dropped(c, ev.key))
  BY <1>1, <1>2, <1>6, RefusedHere
<1> QED
  <2>1. CASE NeedsRebuild(ev, slot.world) /\ ~converged
    BY <1>3, <2>1 DEF Proposed
  <2>2. CASE ~(NeedsRebuild(ev, slot.world) /\ ~converged)
    <3>1. \/ a \in Refusals(b, next)
          \/ \E v \in next :
                a = Planned(Stored(c, ev.key, [slot EXCEPT !.world = v], ev.outer),
                            Placing(ev.key, ev.area, v))
          \/ b = c /\ a = Refused(Dropped(c, ev.key))
      BY <2>2 DEF Proposed
    <3> QED
      BY <3>1, <1>4, <1>5, <1>6
  <2> QED
    BY <2>1, <2>2

\* A displaced session is carried along whole or not at all.
LEMMA RelocatedCarried ==
    ASSUME NEW ev, Within(ev), NEW e, Sound(e), NEW s \in Relocatable(e, ev.key)
    PROVE  /\ Sound(Relocated(e, s, ev)) /\ Carried(e, Relocated(e, s, ev), ev)
           /\ ev.key \in DOMAIN Relocated(e, s, ev).slots
           /\ Relocated(e, s, ev).slots[ev.key].area = ev.area
           /\ Relocated(e, s, ev) # e
<1>1. PICK d : d = Relocated(e, s, ev)
  OBVIOUS
<1>2. EventOK(ev) /\ ev.other = ev.key
  BY DEF Within
<1>3. /\ Sound(d) /\ Alike(e, d, {ev.key, s})
      /\ ev.key \in DOMAIN d.slots /\ ev.key \notin DOMAIN e.slots
      /\ s \notin DOMAIN d.slots /\ s \in DOMAIN e.slots
      /\ s.workspace = ev.key.workspace /\ d.slots[ev.key].area = ev.area
      /\ Holds(d.slots[ev.key].world, Members(e.slots[s].world))
  BY <1>1, <1>2, RelocatedOK
<1>4. Carried(e, d, ev)
  BY <1>2, <1>3, EngineParts DEF Carried, Keeps, Alike, Holds
<1> QED
  BY <1>1, <1>3, <1>4

\* A command on the retained session, a relocated one or a rebuilt one (run_retained).
LEMMA RunRetainedOK ==
    ASSUME NEW ev, Within(ev), ev.subject \in DOMAIN ev.seen,
           NEW e, Sound(e), NEW converged, NEW a \in RunRetained(e, ev, converged)
    PROVE  Answered(e, ev, a)
<1>1. CASE Serves(e, ev.key, ev.area)
  <2>1. a \in Proposed(e, ev, e, converged) /\ ev.key \in DOMAIN e.slots
        /\ e.slots[ev.key].area = ev.area
    BY <1>1 DEF RunRetained, Serves, Has
  <2> QED
    BY <2>1, KeepsItself, ProposedOK
<1>2. CASE ~Serves(e, ev.key, ev.area) /\ Has(e, ev.key)
  <2>1. a \in Reseed(IF converged THEN e ELSE Dropped(e, ev.key), ev, converged)
    BY <1>2 DEF RunRetained
  <2>2. CASE converged
    BY <2>1, <2>2, KeepsItself, ReseedOK
  <2>3. CASE ~converged
    <3>1. Sound(Dropped(e, ev.key)) /\ Alike(e, Dropped(e, ev.key), {ev.key})
      BY DroppedOK
    <3>2. Keeps(e, Dropped(e, ev.key), ev)
      BY <3>1, KeepsItself, KeepsOn
    <3> QED
      BY <2>1, <2>3, <3>1, <3>2, ReseedOK
  <2> QED
    BY <2>2, <2>3
<1>3. CASE ~Serves(e, ev.key, ev.area) /\ ~Has(e, ev.key)
  <2>1. \/ a \in Reseed(e, ev, converged)
        \/ \E s \in Relocatable(e, ev.key) : a \in Proposed(Relocated(e, s, ev), ev, e, converged)
    BY <1>3 DEF RunRetained
  <2>2. CASE a \in Reseed(e, ev, converged)
    BY <2>2, KeepsItself, ReseedOK
  <2>3. ASSUME NEW s \in Relocatable(e, ev.key), a \in Proposed(Relocated(e, s, ev), ev, e, converged)
        PROVE  Answered(e, ev, a)
    BY <2>3, RelocatedCarried, KeepsItself, ProposedOK
  <2> QED
    BY <2>1, <2>2, <2>3
<1> QED
  BY <1>1, <1>2, <1>3

\* An answer to a request with another subject.
LEMMA AboutAnother ==
    ASSUME NEW ev, Within(ev), NEW n, n.key = ev.key, n.other = ev.other, n.seen = ev.seen,
           NEW e, NEW a, Answered(e, n, a)
    PROVE  Answered(e, ev, a)
BY DEF Answered, Keeps, InSight, NothingLost

\* What is seen in the domain of a request about one.
LEMMA SeenHere ==
    ASSUME NEW ev, Within(ev)
    PROVE  EventOK(ev) /\ \A w \in DOMAIN ev.seen : ev.seen[w].home = ev.key
BY DEF Within, EventOK

\* A session adopted before the command.
LEMMA AdoptedOK ==
    ASSUME NEW ev, Within(ev), NEW e, Sound(e), NEW c \in Adopted(e, ev)
    PROVE  /\ Sound(c) /\ Alike(e, c, {ev.key})
           /\ ev.key \in DOMAIN c.slots /\ c.slots[ev.key].area = ev.area
           /\ Holds(c.slots[ev.key].world, DOMAIN ev.seen)
<1>1. c \in Fresh(e, ev) /\ DOMAIN ev.seen # {}
  BY DEF Adopted
<1> QED
  BY <1>1, SeenHere, FreshOK

\* A first tile admitted where nothing is retained (fresh_admit_shared).
LEMMA FreshAdmitOK ==
    ASSUME NEW ev, Within(ev), ev.subject \in DOMAIN ev.seen,
           NEW e, Sound(e), NEW a \in FreshAdmit(e, ev)
    PROVE  Answered(e, ev, a)
<1> DEFINE focused(c) == Synced(c.slots[ev.key].world, ev.key, {ev.subject})
<1>1. \/ \E v \in Fitted(ev) :
             a = Planned(Stored(e, ev.key, Slot(ev, ev.area, v), ev.outer),
                         Placing(ev.key, ev.area, v))
      \/ \E c \in Adopted(e, ev) :
             a = Planned([c EXCEPT !.slots[ev.key].world = focused(c)],
                         Placing(ev.key, ev.area, focused(c)))
      \/ a \in RunRetained(e, ev, FALSE)
      \/ \E c \in Adopted(e, ev) : a \in RunRetained(c, ev, TRUE)
  BY DEF FreshAdmit
<1>2. ASSUME NEW v \in Fitted(ev),
             a = Planned(Stored(e, ev.key, Slot(ev, ev.area, v), ev.outer),
                         Placing(ev.key, ev.area, v))
      PROVE  Answered(e, ev, a)
  <2>1. EventOK(ev)
    BY DEF Within
  <2>2. WorldOK(v, {ev.key}) /\ Holds(v, DOMAIN ev.seen)
    BY <2>1, FittedOK
  <2>3. PICK s : s = Slot(ev, ev.area, v)
    OBVIOUS
  <2>4. s \in Slots /\ s.world = v /\ s.area = ev.area
    BY <2>1, <2>2, <2>3, SlotOK
  <2> QED
    BY <1>2, <2>2, <2>3, <2>4, KeepsItself, PlannedStored
<1>3. ASSUME NEW c \in Adopted(e, ev),
             a = Planned([c EXCEPT !.slots[ev.key].world = focused(c)],
                         Placing(ev.key, ev.area, focused(c)))
      PROVE  Answered(e, ev, a)
  <2>1. /\ Sound(c) /\ Alike(e, c, {ev.key})
        /\ ev.key \in DOMAIN c.slots /\ c.slots[ev.key].area = ev.area
        /\ Holds(c.slots[ev.key].world, DOMAIN ev.seen)
    BY AdoptedOK
  <2>2. PICK u : u = c.slots[ev.key].world
    OBVIOUS
  <2>3. WorldOK(u, {ev.key}) /\ Holds(u, DOMAIN ev.seen)
    BY <2>1, <2>2, SlotParts
  <2>4. PICK v : v = focused(c)
    OBVIOUS
  <2>5. AtMostOne({ev.subject})
    BY DEF AtMostOne
  <2>6. WorldOK(v, {ev.key}) /\ v.tiles = u.tiles /\ v.floats = u.floats
    BY <2>2, <2>3, <2>4, <2>5, SyncedOK
  <2>7. Holds(v, DOMAIN ev.seen)
    BY <2>3, <2>6 DEF Holds, Members
  <2>8. PICK d : d = [c EXCEPT !.slots[ev.key].world = v]
    OBVIOUS
  <2>9. /\ Sound(d) /\ Alike(c, d, {ev.key}) /\ ev.key \in DOMAIN d.slots
        /\ d.slots[ev.key].world = v /\ d.slots[ev.key].area = ev.area
    BY <2>1, <2>6, <2>8, WorldReplaced
  <2>10. Keeps(e, d, ev)
    BY <2>1, <2>9, KeepsItself, KeepsOn
  <2>11. Answered(e, ev, Planned(d, Placing(ev.key, ev.area, v)))
    BY <2>6, <2>7, <2>9, <2>10, PlannedHere
  <2> QED
    BY <1>3, <2>4, <2>8, <2>11
<1>4. CASE a \in RunRetained(e, ev, FALSE)
  BY <1>4, RunRetainedOK
<1>5. ASSUME NEW c \in Adopted(e, ev), a \in RunRetained(c, ev, TRUE)
      PROVE  Answered(e, ev, a)
  <2>1. Sound(c) /\ Alike(e, c, {ev.key})
    BY AdoptedOK
  <2>2. Answered(c, ev, a)
    BY <1>5, <2>1, RunRetainedOK
  <2> QED
    BY <2>1, <2>2, AnsweredSince DEF Within
<1> QED
  BY <1>1, <1>2, <1>3, <1>4, <1>5

\* A domain without a session, reconciled (fresh_reconcile_request).
LEMMA FreshReconcileOK ==
    ASSUME NEW ev, Within(ev), "subject" \in DOMAIN ev,
           NEW e, Sound(e), ~Has(e, ev.key), NEW a \in FreshReconcile(e, ev)
    PROVE  Answered(e, ev, a)
<1> DEFINE tiled == {w \in DOMAIN ev.seen : ~ev.seen[w].floating}
           anchors == IF ev.focus \cap tiled # {} THEN ev.focus ELSE tiled
<1>1. CASE DOMAIN ev.seen = {}
  <2>1. a = Planned(e, Nothing)
    BY <1>1 DEF FreshReconcile
  <2> QED
    BY <1>1, <2>1, KeepsItself, PlannedNothing DEF Has
<1>2. CASE DOMAIN ev.seen # {} /\ tiled = {}
  <2>1. PICK c \in Fresh(e, ev) : a = Planned(c, Nothing)
    BY <1>2 DEF FreshReconcile
  <2>2. /\ Sound(c) /\ Alike(e, c, {ev.key}) /\ ev.key \in DOMAIN c.slots
        /\ Holds(c.slots[ev.key].world, DOMAIN ev.seen)
    BY <1>2, <2>1, SeenHere, FreshOK
  <2>3. Keeps(e, c, ev)
    BY <2>2, KeepsItself, KeepsOn
  <2> QED
    BY <2>1, <2>2, <2>3, PlannedNothing
<1>3. CASE DOMAIN ev.seen # {} /\ tiled # {}
  <2>1. PICK w \in anchors : a \in FreshAdmit(e, [ev EXCEPT !.subject = w])
    BY <1>3 DEF FreshReconcile
  <2>2. w \in DOMAIN ev.seen
    BY <2>1 DEF Within, EventOK, AtMostOne
  <2>3. PICK n : n = [ev EXCEPT !.subject = w]
    OBVIOUS
  <2>4. /\ n.key = ev.key /\ n.other = ev.other /\ n.client = ev.client /\ n.area = ev.area
        /\ n.outer = ev.outer /\ n.seen = ev.seen /\ n.focus = ev.focus /\ n.subject = w
    BY <2>3
  <2>5. Within(n)
    BY <2>4 DEF Within, EventOK
  <2>6. Answered(e, n, a)
    BY <2>1, <2>2, <2>3, <2>4, <2>5, FreshAdmitOK
  <2> QED
    BY <2>4, <2>6, AboutAnother
<1> QED
  BY <1>1, <1>2, <1>3

\* A reconcile on the domain's session, relocated there or not.
LEMMA ProjectedOK ==
    ASSUME NEW ev, Within(ev), NEW e, Sound(e), NEW c, Sound(c), NEW b, Sound(b),
           ev.key \in DOMAIN c.slots, Keeps(e, b, ev), Carried(e, c, ev),
           c = b => Holds(c.slots[ev.key].world, DOMAIN ev.seen),
           NEW a \in Projected(c, ev, b)
    PROVE  Answered(e, ev, a)
<1> DEFINE v == c.slots[ev.key].world
<1>1. CASE a = Refused(b)
  BY <1>1, RefusedHere
<1>2. CASE a # Refused(b)
  <2>1. c = b \/ Complete(c.slots[ev.key], ev)
    BY <1>2 DEF Projected
  <2>2. Holds(v, DOMAIN ev.seen)
    BY <2>1 DEF Complete, Holds
  <2>3. Keeps(e, c, ev)
    BY <2>2 DEF Carried, Holds
  <2>4. /\ Sound(Reprojected(c, ev)) /\ Alike(c, Reprojected(c, ev), {ev.key})
        /\ ev.key \in DOMAIN Reprojected(c, ev).slots
        /\ Reprojected(c, ev).slots[ev.key].world = v
        /\ Reprojected(c, ev).slots[ev.key].area = ev.area
    BY SeenHere, ReprojectedOK
  <2>5. Keeps(e, Reprojected(c, ev), ev)
    BY <2>3, <2>4, KeepsOn
  <2>6. CASE DOMAIN v.tiles = {} /\ Members(v) = {}
    <3>1. a = Planned(Dropped(c, ev.key), Nothing)
      BY <1>2, <2>6 DEF Projected
    <3>2. /\ Sound(Dropped(c, ev.key)) /\ Alike(c, Dropped(c, ev.key), {ev.key})
          /\ ev.key \notin DOMAIN Dropped(c, ev.key).slots
      BY DroppedOK
    <3>3. Keeps(e, Dropped(c, ev.key), ev)
      BY <2>3, <3>2, KeepsOn
    <3>4. DOMAIN ev.seen = {}
      BY <2>2, <2>6 DEF Holds
    <3> QED
      BY <3>1, <3>2, <3>3, <3>4, PlannedNothing
  <2>7. CASE DOMAIN v.tiles = {} /\ Members(v) # {}
    <3>1. a = Planned(Reprojected(c, ev), Nothing)
      BY <1>2, <2>7 DEF Projected
    <3> QED
      BY <2>2, <2>4, <2>5, <3>1, PlannedNothing
  <2>8. CASE DOMAIN v.tiles # {}
    <3>1. a = Planned(Reprojected(c, ev), Placing(ev.key, ev.area, v))
      BY <1>2, <2>8, RefusalsAre DEF Projected
    <3>2. WorldOK(v, {ev.key})
      BY SlotParts
    <3> QED
      BY <2>2, <2>4, <2>5, <3>1, <3>2, PlannedHere
  <2> QED
    BY <2>6, <2>7, <2>8
<1> QED
  BY <1>1, <1>2

\* A converged session, reconciled.
LEMMA ReconciledOK ==
    ASSUME NEW ev, Within(ev), "subject" \in DOMAIN ev, NEW e, Sound(e),
           ev.key \in DOMAIN e.slots => Holds(e.slots[ev.key].world, DOMAIN ev.seen),
           NEW a \in Reconciled(e, ev)
    PROVE  Answered(e, ev, a)
<1>1. CASE Has(e, ev.key)
  BY <1>1, KeepsItself, ProjectedOK DEF Reconciled, Has
<1>2. CASE ~Has(e, ev.key)
  <2>1. \/ a \in FreshReconcile(e, ev)
        \/ \E s \in Relocatable(e, ev.key) : a \in Projected(Relocated(e, s, ev), ev, e)
    BY <1>2 DEF Reconciled
  <2>2. ASSUME NEW s \in Relocatable(e, ev.key), a \in Projected(Relocated(e, s, ev), ev, e)
        PROVE  Answered(e, ev, a)
    <3>1. PICK c : c = Relocated(e, s, ev)
      OBVIOUS
    <3>2. Sound(c) /\ Carried(e, c, ev) /\ ev.key \in DOMAIN c.slots /\ c # e
      BY <3>1, RelocatedCarried
    <3> QED
      BY <2>2, <3>1, <3>2, KeepsItself, ProjectedOK
  <2> QED
    BY <1>2, <2>1, <2>2, FreshReconcileOK
<1> QED
  BY <1>1, <1>2

\* A reconcile request, its session dropped first if it shares no window with the scene.
LEMMA ReconcileOK ==
    ASSUME NEW ev, Within(ev), "subject" \in DOMAIN ev, NEW e, Sound(e),
           NEW a \in Reconcile(e, ev)
    PROVE  Answered(e, ev, a)
<1>1. PICK start \in {e, Dropped(e, ev.key)} :
          \/ a \in Refusals(start, ConvergedEngines(start, ev))
          \/ \E c \in ConvergedEngines(start, ev) : a \in Reconciled(c, ev)
  BY DEF Reconcile
<1>2. Sound(start) /\ Alike(e, start, {ev.key})
  BY <1>1, DroppedOK DEF Alike
<1>3. Keeps(e, start, ev) /\ EventOK(ev) /\ ev.other = ev.key
  BY <1>2, KeepsItself, KeepsOn DEF Within
<1>4. CASE a \in Refusals(start, ConvergedEngines(start, ev))
  BY <1>2, <1>3, <1>4, RefusalsAre, RefusedHere
<1>5. ASSUME NEW c \in ConvergedEngines(start, ev), a \in Reconciled(c, ev)
      PROVE  Answered(e, ev, a)
  <2>1. /\ Sound(c) /\ Alike(start, c, {ev.key}) /\ DOMAIN c.slots = DOMAIN start.slots
        /\ ev.key \in DOMAIN start.slots => Holds(c.slots[ev.key].world, DOMAIN ev.seen)
    BY <1>2, <1>3, ConvergedOK
  <2>2. Answered(c, ev, a)
    BY <1>5, <2>1, ReconciledOK
  <2>3. Answered(start, ev, a)
    BY <1>2, <1>3, <2>1, <2>2, AnsweredSince
  <2> QED
    BY <1>2, <1>3, <2>3, AnsweredSince
<1> QED
  BY <1>1, <1>4, <1>5

\* A request for other gaps (update_gaps_request).
LEMMA UpdateGapsOK ==
    ASSUME NEW ev, Within(ev), NEW e, Sound(e), NEW a \in UpdateGaps(e, ev)
    PROVE  Answered(e, ev, a)
<1>1. CASE a \in Refusals(e, ConvergedEngines(e, ev))
  BY <1>1, KeepsItself, RefusalsAre, RefusedHere
<1>2. ASSUME NEW c \in ConvergedEngines(e, ev), a \in GapsUpdated(c, ev)
      PROVE  Answered(e, ev, a)
  <2> DEFINE slot == c.slots[ev.key]
  <2>1. EventOK(ev) /\ ev.other = ev.key
    BY DEF Within
  <2>2. /\ Sound(c) /\ Alike(e, c, {ev.key}) /\ DOMAIN c.slots = DOMAIN e.slots
        /\ ev.key \in DOMAIN e.slots => Holds(slot.world, DOMAIN ev.seen)
    BY <2>1, ConvergedOK
  <2>3. CASE a = Refused(c)
    BY <2>2, <2>3, KeepsItself, KeepsOn, RefusedHere
  <2>4. CASE a # Refused(c)
    <3>1. Has(c, ev.key)
      BY <1>2, <2>4 DEF GapsUpdated
    <3>2. PICK s : s = [slot EXCEPT !.area = ev.area]
      OBVIOUS
    <3>3. slot \in Slots /\ slot.world \in Worlds /\ WorldOK(slot.world, {ev.key})
          /\ ev.area \in Areas
      BY <2>1, <2>2, <3>1, SlotParts DEF Has, WorldOK, EventOK
    <3>4. s \in Slots /\ s.world = slot.world /\ s.area = ev.area
      BY <3>2, <3>3 DEF Slots
    <3>5. Holds(slot.world, DOMAIN ev.seen)
      BY <2>2, <3>1 DEF Has
    <3>6. Keeps(e, c, ev)
      BY <2>2, KeepsItself, KeepsOn
    <3>7. PICK d : d = Stored(c, ev.key, s, ev.outer)
      OBVIOUS
    <3>8. \/ a = Planned(d, Nothing)
          \/ a = Planned(d, Placing(ev.key, ev.area, slot.world))
      BY <1>2, <2>4, <3>1, <3>2, <3>7, RefusalsAre DEF GapsUpdated
    <3>9. CASE a = Planned(d, Placing(ev.key, ev.area, slot.world))
      BY <2>2, <3>3, <3>4, <3>5, <3>6, <3>7, <3>9, PlannedStored
    <3>10. CASE a = Planned(d, Nothing)
      <4>1. ev.key \in Domains /\ ev.outer \in OuterGaps /\ WorldOK(s.world, {ev.key})
        BY <2>1, <3>3, <3>4 DEF EventOK
      <4>2. /\ Sound(d) /\ Alike(c, d, {ev.key})
            /\ ~Holds(s.world, {}) => ev.key \in DOMAIN d.slots /\ d.slots[ev.key] = s
            /\ Holds(s.world, {}) => ev.key \notin DOMAIN d.slots
        <5>1. Sound(c) /\ s \in Slots
          BY <2>2, <3>4
        <5> HIDE DEF slot
        <5> QED
          BY <3>7, <4>1, <5>1, StoredOK
      <4>3. Keeps(e, d, ev)
        BY <3>6, <4>2, KeepsOn
      <4>4. CASE Holds(s.world, {})
        BY <3>4, <3>5, <3>10, <4>2, <4>3, <4>4, PlannedNothing DEF Holds
      <4>5. CASE ~Holds(s.world, {})
        BY <3>4, <3>5, <3>10, <4>2, <4>3, <4>5, PlannedNothing
      <4> QED
        BY <4>4, <4>5
    <3> QED
      BY <3>8, <3>9, <3>10
  <2> QED
    BY <2>3, <2>4
<1> QED
  BY <1>1, <1>2 DEF UpdateGaps

\* The commands within one domain.
LEMMA ConvergingOK ==
    ASSUME NEW ev, Within(ev), ev.subject \in DOMAIN ev.seen, NEW e, Sound(e),
           NEW a \in Converging(e, ev)
    PROVE  Answered(e, ev, a)
<1>1. CASE a \in Refusals(e, ConvergedEngines(e, ev))
  BY <1>1, KeepsItself, RefusalsAre, RefusedHere
<1>2. ASSUME NEW c \in ConvergedEngines(e, ev), a \in RunRetained(c, ev, Has(e, ev.key))
      PROVE  Answered(e, ev, a)
  <2>1. EventOK(ev) /\ ev.other = ev.key
    BY DEF Within
  <2>2. Sound(c) /\ Alike(e, c, {ev.key})
    BY <2>1, ConvergedOK
  <2>3. Answered(c, ev, a)
    BY <1>2, <2>2, RunRetainedOK
  <2> QED
    BY <2>1, <2>2, <2>3, AnsweredSince
<1> QED
  BY <1>1, <1>2 DEF Converging

\* A float toggled, the floats of an unknown domain adopted first.
LEMMA ToggleFloatOK ==
    ASSUME NEW ev, Within(ev), ev.subject \in DOMAIN ev.seen, NEW e, Sound(e),
           NEW a \in ToggleFloat(e, ev)
    PROVE  Answered(e, ev, a)
<1>1. \/ \E c \in Adopted(e, ev) : a \in RunRetained(c, ev, Has(c, ev.key))
      \/ a \in Refusals(e, {e})
      \/ a \in Converging(e, ev)
  BY DEF ToggleFloat
<1>2. ASSUME NEW c \in Adopted(e, ev), a \in RunRetained(c, ev, Has(c, ev.key))
      PROVE  Answered(e, ev, a)
  <2>1. Sound(c) /\ Alike(e, c, {ev.key})
    BY AdoptedOK
  <2>2. Answered(c, ev, a)
    BY <1>2, <2>1, RunRetainedOK
  <2> QED
    BY <2>1, <2>2, AnsweredSince DEF Within
<1>3. CASE a \in Refusals(e, {e})
  BY <1>3, KeepsItself, RefusalsAre, RefusedHere
<1> QED
  BY <1>1, <1>2, <1>3, ConvergingOK

\* A request that only follows the focus (active_group_request).
LEMMA ActiveGroupOK ==
    ASSUME NEW ev, Within(ev), NEW e, Sound(e), NEW a \in ActiveGroup(e, ev)
    PROVE  Answered(e, ev, a)
<1>1. PICK d : /\ a = Answer(d, "group", Nothing)
               /\ \/ d = e
                  \/ /\ ev.key \in DOMAIN e.slots
                     /\ d = [e EXCEPT !.slots[ev.key].world = Synced(@, ev.key, ev.focus)]
  BY DEF ActiveGroup, Has
<1>2. Sound(d) /\ Keeps(e, d, ev)
  <2>1. CASE d = e
    BY <2>1, KeepsItself
  <2>2. CASE /\ ev.key \in DOMAIN e.slots
             /\ d = [e EXCEPT !.slots[ev.key].world = Synced(@, ev.key, ev.focus)]
    <3>1. PICK v : v = Synced(e.slots[ev.key].world, ev.key, ev.focus)
      OBVIOUS
    <3>2. WorldOK(v, {ev.key})
      BY <2>2, <3>1, SlotParts, SyncedOK DEF Within, EventOK
    <3>3. d = [e EXCEPT !.slots[ev.key].world = v]
      BY <2>2, <3>1
    <3>4. Sound(d) /\ Alike(e, d, {ev.key})
      BY <2>2, <3>2, <3>3, WorldReplaced
    <3> QED
      BY <3>4, KeepsItself, KeepsOn
  <2> QED
    BY <1>1, <2>1, <2>2
<1> QED
  BY <1>1, <1>2 DEF Answered, Answer

\* A domain released.
LEMMA ReleaseOK ==
    ASSUME NEW ev, Within(ev), NEW e, Sound(e), NEW a \in Release(e, ev)
    PROVE  Answered(e, ev, a)
<1>1. a = Answer(Dropped(e, ev.key), "released", Nothing)
  BY DEF Release
<1>2. Sound(Dropped(e, ev.key)) /\ Alike(e, Dropped(e, ev.key), {ev.key})
  BY DroppedOK
<1>3. Keeps(e, Dropped(e, ev.key), ev)
  BY <1>2, KeepsItself, KeepsOn
<1> QED
  BY <1>1, <1>2, <1>3 DEF Answered, Answer

\* A drop on the retained session, or on a fresh one.
LEMMA DropOK ==
    ASSUME NEW ev, Within(ev), ev.op = "drag", NEW e, Sound(e), NEW c, Sound(c),
           Keeps(e, c, ev), NEW a \in Drop(c, ev)
    PROVE  Answered(e, ev, a)
<1>1. ASSUME NEW v \in Working(c, ev), Exact(ev, v)
      PROVE  /\ WorldOK(v, {ev.key}) /\ Holds(v, DOMAIN ev.seen)
             /\ Has(c, ev.key) => /\ c.slots[ev.key].area = ev.area
                                  /\ c.slots[ev.key].world.tiles = v.tiles
                                  /\ Holds(c.slots[ev.key].world, DOMAIN ev.seen)
  <2>1. Holds(v, DOMAIN ev.seen)
    BY <1>1 DEF Exact, Known, Holds
  <2>2. CASE ~Has(c, ev.key)
    <3>1. PICK u \in Convergences(EmptyWorld, ev.seen, ev.focus) :
              v = Synced(u, ev.key, {ev.subject})
      BY <1>1, <2>2 DEF Working
    <3>2. WorldOK(EmptyWorld, {ev.key}) /\ {ev.key} \in SUBSET Domains
      BY EmptyWorldOK DEF Within, EventOK
    <3>3. /\ AtMostOne(ev.focus) /\ DOMAIN ev.seen \subseteq Windows
          /\ \A w \in DOMAIN ev.seen : ev.seen[w].home \in {ev.key}
      BY SeenHere DEF EventOK
    <3>4. WorldOK(u, {ev.key})
      BY <3>1, <3>2, <3>3, ConvergencesOK
    <3>5. AtMostOne({ev.subject})
      BY DEF AtMostOne
    <3>6. WorldOK(v, {ev.key})
      BY <3>1, <3>4, <3>5, SyncedOK
    <3> QED
      BY <2>1, <2>2, <3>6
  <2>3. CASE Has(c, ev.key)
    <3>1. PICK u : u = c.slots[ev.key].world
      OBVIOUS
    <3>2. c.slots[ev.key].area = ev.area /\ v = Synced(u, ev.key, ev.focus)
      BY <1>1, <2>3, <3>1 DEF Working
    <3>3. WorldOK(u, {ev.key})
      BY <2>3, <3>1, SlotParts DEF Has
    <3>4. AtMostOne(ev.focus)
      BY DEF Within, EventOK
    <3>5. WorldOK(v, {ev.key}) /\ v.tiles = u.tiles /\ v.floats = u.floats
      BY <3>2, <3>3, <3>4, SyncedOK
    <3>6. Holds(u, DOMAIN ev.seen)
      BY <2>1, <3>5 DEF Holds, Members
    <3> QED
      BY <2>1, <3>1, <3>2, <3>5, <3>6
  <2> QED
    BY <2>2, <2>3
<1>2. \/ \E v \in Working(c, ev) :
             /\ Exact(ev, v)
             /\ a = Planned(Stored(c, ev.key, Slot(ev, ev.area, v), ev.outer),
                            Placing(ev.key, ev.area, v))
      \/ \E v \in Working(c, ev) :
             Exact(ev, v) /\ Has(c, ev.key) /\ a = Planned(c, Placing(ev.key, ev.area, v))
      \/ a = Refused(Dropped(c, ev.key))
      \/ a = Refused(c)
  BY DEF Drop
<1>3. ASSUME NEW v \in Working(c, ev), Exact(ev, v),
             a = Planned(Stored(c, ev.key, Slot(ev, ev.area, v), ev.outer),
                         Placing(ev.key, ev.area, v))
      PROVE  Answered(e, ev, a)
  <2>1. WorldOK(v, {ev.key}) /\ Holds(v, DOMAIN ev.seen) /\ EventOK(ev)
    BY <1>1, <1>3 DEF Within
  <2>2. PICK s : s = Slot(ev, ev.area, v)
    OBVIOUS
  <2>3. s \in Slots /\ s.world = v /\ s.area = ev.area
    BY <2>1, <2>2, SlotOK
  <2> QED
    BY <1>3, <2>1, <2>2, <2>3, PlannedStored
<1>4. ASSUME NEW v \in Working(c, ev), Exact(ev, v), Has(c, ev.key),
             a = Planned(c, Placing(ev.key, ev.area, v))
      PROVE  Answered(e, ev, a)
  BY <1>1, <1>4, PlannedHere DEF Has
<1>5. CASE a = Refused(Dropped(c, ev.key))
  <2>1. Sound(Dropped(c, ev.key)) /\ Alike(c, Dropped(c, ev.key), {ev.key})
    BY DroppedOK
  <2>2. Keeps(e, Dropped(c, ev.key), ev)
    BY <2>1, KeepsOn
  <2> QED
    BY <1>5, <2>1, <2>2, RefusedHere
<1>6. CASE a = Refused(c)
  BY <1>6, RefusedHere
<1> QED
  BY <1>2, <1>3, <1>4, <1>5, <1>6

\* A drop, on the converged session.
LEMMA DragDropOK ==
    ASSUME NEW ev, Within(ev), ev.op = "drag", NEW e, Sound(e), NEW a \in DragDrop(e, ev)
    PROVE  Answered(e, ev, a)
<1>1. CASE a \in Refusals(e, ConvergedEngines(e, ev))
  BY <1>1, KeepsItself, RefusalsAre, RefusedHere
<1>2. ASSUME NEW c \in ConvergedEngines(e, ev), a \in Drop(c, ev)
      PROVE  Answered(e, ev, a)
  <2>1. EventOK(ev) /\ ev.other = ev.key
    BY DEF Within
  <2>2. Sound(c) /\ Alike(e, c, {ev.key})
    BY <2>1, ConvergedOK
  <2>3. Keeps(e, c, ev)
    BY <2>2, KeepsItself, KeepsOn
  <2> QED
    BY <1>2, <2>2, <2>3, DropOK
<1> QED
  BY <1>1, <1>2 DEF DragDrop

\* A preview, on a copy.
LEMMA DragPreviewOK ==
    ASSUME NEW ev, Within(ev), NEW e, Sound(e), NEW a \in DragPreview(e, ev)
    PROVE  Answered(e, ev, a)
<1>1. CASE a = Refused(e)
  BY <1>1, KeepsItself, RefusedHere
<1>2. CASE a = Answer(e, "preview", Nothing)
  BY <1>2, KeepsItself DEF Answered, Answer
<1> QED
  BY <1>1, <1>2 DEF DragPreview

-----------------------------------------------------------------------------
(* Requests over two domains.                                              *)

\* A request about two domains.
Between(ev) == EventOK(ev) /\ ev.key # ev.other

\* A world of the two domains that holds what is seen in them.
Joined(ev, v) == WorldOK(v, {ev.key, ev.other}) /\ Holds(v, DOMAIN ev.seen)

\* The two sessions after a pair is stored by halves.
LEMMA StoredHalvesOK ==
    ASSUME NEW ev, Between(ev), NEW c, Sound(c), NEW v, Joined(ev, v),
           NEW outer \in OuterGaps, NEW d \in StoredHalves(c, ev, v, outer)
    PROVE  /\ Sound(d) /\ Alike(c, d, {ev.key, ev.other})
           /\ InSight(d, ev) /\ Matches(d, PlacingPair(ev, v))
<1>1. PICK source \in Halves(v, ev.key), target \in Halves(v, ev.other) :
          d = Stored(Stored(c, ev.key, Slot(ev, ev.area, source), ev.outer),
                     ev.other, Slot(ev, ev.area, target), outer)
  BY DEF StoredHalves
<1>2. /\ EventOK(ev) /\ ev.key \in Domains /\ ev.other \in Domains /\ ev.outer \in OuterGaps
      /\ ev.key # ev.other
      /\ WorldOK(v, {ev.key, ev.other}) /\ Holds(v, DOMAIN ev.seen)
  BY DEF Between, EventOK, Joined
<1>3. PICK s, t, b : /\ s = Slot(ev, ev.area, source) /\ t = Slot(ev, ev.area, target)
                     /\ b = Stored(c, ev.key, s, ev.outer)
  OBVIOUS
<1>4. /\ WorldOK(source, {ev.key}) /\ HalfOf(source, v, ev.key)
      /\ WorldOK(target, {ev.other}) /\ HalfOf(target, v, ev.other)
  BY <1>1, <1>2, HalvesOK
<1>5. /\ s \in Slots /\ s.world = source /\ s.area = ev.area
      /\ t \in Slots /\ t.world = target /\ t.area = ev.area
  BY <1>2, <1>3, <1>4, SlotOK
<1>6. /\ Sound(b) /\ Alike(c, b, {ev.key})
      /\ ~Holds(source, {}) => ev.key \in DOMAIN b.slots /\ b.slots[ev.key] = s
      /\ Holds(source, {}) => ev.key \notin DOMAIN b.slots
  <2>1. WorldOK(s.world, {ev.key})
    BY <1>4, <1>5
  <2>2. b = Stored(c, ev.key, s, ev.outer) /\ s \in Slots
    BY <1>3, <1>5
  <2>3. ev.key \in Domains /\ ev.outer \in OuterGaps
    BY <1>2
  <2>4. PICK k, g : k = ev.key /\ g = ev.outer
    OBVIOUS
  <2>5. b = Stored(c, k, s, g) /\ k \in Domains /\ g \in OuterGaps /\ WorldOK(s.world, {k})
    BY <2>1, <2>2, <2>3, <2>4
  <2>6. /\ Sound(b) /\ Alike(c, b, {k})
        /\ ~Holds(s.world, {}) => k \in DOMAIN b.slots /\ b.slots[k] = s
        /\ Holds(s.world, {}) => k \notin DOMAIN b.slots
    BY <2>2, <2>5, StoredOK
  <2> QED
    BY <1>5, <2>4, <2>6
<1>7. d = Stored(b, ev.other, t, outer)
  BY <1>1, <1>3
<1>8. /\ Sound(d) /\ Alike(b, d, {ev.other})
      /\ ~Holds(target, {}) => ev.other \in DOMAIN d.slots /\ d.slots[ev.other] = t
      /\ Holds(target, {}) => ev.other \notin DOMAIN d.slots
  <2>1. WorldOK(t.world, {ev.other})
    BY <1>4, <1>5
  <2>2. Sound(b) /\ ev.other \in Domains /\ t \in Slots
    BY <1>2, <1>5, <1>6
  <2>3. /\ Sound(d) /\ Alike(b, d, {ev.other})
        /\ ~Holds(t.world, {}) => ev.other \in DOMAIN d.slots /\ d.slots[ev.other] = t
        /\ Holds(t.world, {}) => ev.other \notin DOMAIN d.slots
    BY <1>7, <2>1, <2>2, StoredOK
  <2> QED
    BY <1>5, <2>3
<1>9. Alike(c, d, {ev.key, ev.other})
  BY <1>6, <1>8 DEF Alike
<1>10. /\ ~Holds(source, {}) => ev.key \in DOMAIN d.slots /\ d.slots[ev.key] = s
       /\ Holds(source, {}) => ev.key \notin DOMAIN d.slots
  BY <1>2, <1>6, <1>8 DEF Alike
<1>11. HeldBy(d, ev.key) = Members(source) /\ HeldBy(d, ev.other) = Members(target)
  BY <1>5, <1>8, <1>10 DEF HeldBy, Holds
<1>12. Members(source) \cup Members(target) = DOMAIN ev.seen
  <2>1. /\ \A w \in DOMAIN v.tiles : v.tiles[w] \in {ev.key, ev.other}
        /\ \A w \in DOMAIN v.floats : v.floats[w] \in {ev.key, ev.other}
    BY <1>2, WorldParts DEF HomedIn
  <2>2. Members(v) = DOMAIN ev.seen
    BY <1>2 DEF Holds
  <2> QED
    BY <1>4, <2>1, <2>2 DEF HalfOf, Homed, Members
<1>13. Members(source) \cap Members(target) = {}
  <2>1. DOMAIN v.tiles \cap DOMAIN v.floats = {}
    BY <1>2, WorldParts DEF Sane
  <2> QED
    BY <1>2, <1>4, <2>1 DEF HalfOf, Homed
<1>14. InSight(d, ev)
  BY <1>11, <1>12, <1>13 DEF InSight
<1>15. Matches(d, PlacingPair(ev, v))
  <2>1. PICK plan : plan = PlacingPair(ev, v)
    OBVIOUS
  <2>2. /\ DOMAIN plan = {ev.key, ev.other}
        /\ plan[ev.key].tiles = Homed(v.tiles, ev.key) /\ plan[ev.key].area = ev.area
        /\ plan[ev.other].tiles = Homed(v.tiles, ev.other) /\ plan[ev.other].area = ev.area
    BY <2>1 DEF PlacingPair
  <2>3. /\ DOMAIN source.tiles = Homed(v.tiles, ev.key)
        /\ DOMAIN target.tiles = Homed(v.tiles, ev.other)
        /\ Homed(v.tiles, ev.key) \subseteq Members(source)
        /\ Homed(v.tiles, ev.other) \subseteq Members(target)
    BY <1>4 DEF HalfOf
  <2>4. /\ plan[ev.key].tiles # {} => ev.key \in DOMAIN d.slots
        /\ ev.key \in DOMAIN d.slots =>
              /\ DOMAIN d.slots[ev.key].world.tiles = plan[ev.key].tiles
              /\ d.slots[ev.key].area = plan[ev.key].area
    BY <1>5, <1>10, <2>2, <2>3 DEF Holds
  <2>5. /\ plan[ev.other].tiles # {} => ev.other \in DOMAIN d.slots
        /\ ev.other \in DOMAIN d.slots =>
              /\ DOMAIN d.slots[ev.other].world.tiles = plan[ev.other].tiles
              /\ d.slots[ev.other].area = plan[ev.other].area
    BY <1>5, <1>8, <2>2, <2>3 DEF Holds
  <2>6. Matches(d, plan)
    BY <2>2, <2>4, <2>5 DEF Matches
  <2> QED
    BY <2>1, <2>6
<1> QED
  BY <1>8, <1>9, <1>14, <1>15

\* A pair stored after convergence or a refusal (store_canonical_pair).
LEMMA StoredPairOK ==
    ASSUME NEW ev, Between(ev), NEW c, Sound(c), NEW v, Joined(ev, v),
           NEW d \in StoredPair(c, ev, v)
    PROVE  /\ Sound(d) /\ Alike(c, d, {ev.key, ev.other})
           /\ InSight(d, ev) /\ Matches(d, PlacingPair(ev, v))
<1>1. PICK outer : /\ outer = IF ev.other \in DOMAIN c.gaps THEN c.gaps[ev.other] ELSE ev.outer
                   /\ d \in StoredHalves(c, ev, v, outer)
  BY DEF StoredPair
<1>2. outer \in OuterGaps
  <2>1. c.gaps \in [DOMAIN c.gaps -> OuterGaps]
    BY EngineParts, MapsAre
  <2> QED
    BY <1>1, <2>1 DEF Between, EventOK
<1> QED
  BY <1>1, <1>2, StoredHalvesOK

\* A pair stored after its plan, the target under the gap of a crossing move.
LEMMA StoredPlanOK ==
    ASSUME NEW ev, Between(ev), NEW c, Sound(c), NEW v, Joined(ev, v),
           NEW d \in StoredPlan(c, ev, v)
    PROVE  /\ Sound(d) /\ Alike(c, d, {ev.key, ev.other})
           /\ InSight(d, ev) /\ Matches(d, PlacingPair(ev, v))
<1>1. d \in StoredHalves(c, ev, v, ev.outer) \/ d \in StoredPair(c, ev, v)
  BY DEF StoredPlan
<1>2. ev.outer \in OuterGaps
  BY DEF Between, EventOK
<1>3. CASE d \in StoredHalves(c, ev, v, ev.outer)
  BY <1>2, <1>3, StoredHalvesOK
<1>4. CASE d \in StoredPair(c, ev, v)
  BY <1>4, StoredPairOK
<1> QED
  BY <1>1, <1>3, <1>4

\* A tile carried over the edge, with what is remembered of the focus.
LEMMA OverOK ==
    ASSUME NEW K, NEW o \in Domains, o \in K, NEW v, WorldOK(v, K), NEW w \in DOMAIN v.tiles,
           NEW y, y = [v EXCEPT !.tiles[w] = o]
    PROVE  /\ WorldOK(y, K) /\ DOMAIN y.tiles = DOMAIN v.tiles /\ y.floats = v.floats
           /\ y.focus = v.focus /\ y.recent = v.recent
<1> DEFINE T == [v.tiles EXCEPT ![w] = o]
<1>1. v = [tiles |-> v.tiles, floats |-> v.floats, recent |-> v.recent, focus |-> v.focus]
  BY WorldParts
<1>2. y = [v EXCEPT !.tiles = T]
  BY <1>1
<1>3. DOMAIN T = DOMAIN v.tiles /\ \A x \in DOMAIN T : T[x] \in K
  BY WorldParts DEF HomedIn
<1>4. T \in Maps(Windows, Domains)
  <2>1. v.tiles \in [DOMAIN v.tiles -> Domains] /\ DOMAIN v.tiles \in SUBSET Windows
    BY WorldParts, MapsAre
  <2>2. T \in [DOMAIN v.tiles -> Domains]
    BY <2>1
  <2> QED
    BY <2>1, <2>2, AreMaps
<1> HIDE DEF T
<1>5. y = [tiles |-> T, floats |-> v.floats, recent |-> v.recent, focus |-> v.focus]
  BY <1>1, <1>2
<1>6. WorldOK([tiles |-> T, floats |-> v.floats, recent |-> v.recent, focus |-> v.focus], K)
  BY <1>3, <1>4, WorldMade, WorldParts DEF Sane, HomedIn
<1> QED
  BY <1>3, <1>5, <1>6

\* Joined worlds with the same members.
LEMMA JoinedStill ==
    ASSUME NEW ev, NEW v, Joined(ev, v), NEW u, WorldOK(u, {ev.key, ev.other}),
           DOMAIN u.tiles = DOMAIN v.tiles, DOMAIN u.floats = DOMAIN v.floats
    PROVE  Joined(ev, u)
BY DEF Joined, Holds, Members

\* Whatever crosses, the pair holds what is seen.
LEMMA CrossingsOK ==
    ASSUME NEW ev, Between(ev), NEW v, Joined(ev, v), NEW p \in Crossings(ev, v)
    PROVE  Joined(ev, p)
<1> DEFINE w == ev.subject
           K == {ev.key, ev.other}
           over == [v EXCEPT !.tiles[w] = ev.other]
<1>1. WorldOK(v, K) /\ ev.other \in Domains /\ ev.other \in K
  BY DEF Joined, Between, EventOK
<1>2. CASE p \in FocusesOver(ev, v)
  <2>1. PICK x \in DOMAIN v.tiles : p = Focusing(v, x)
    BY <1>2 DEF FocusesOver
  <2>2. WorldOK(p, K) /\ p.tiles = v.tiles /\ p.floats = v.floats
    BY <1>1, <2>1, FocusingOK
  <2> QED
    BY <2>2, JoinedStill
<1>3. ASSUME v.focus = {w}
      PROVE  /\ w \in DOMAIN v.tiles /\ WorldOK(over, K)
             /\ DOMAIN over.tiles = DOMAIN v.tiles /\ over.floats = v.floats
             /\ over.focus = v.focus /\ over.recent = v.recent
  <2>1. w \in DOMAIN v.tiles
    BY <1>1, <1>3, WorldParts DEF Sane
  <2> QED
    BY <1>1, <2>1, OverOK
<1>4. ASSUME v.focus = {w}, p = Focusing(over, w)
      PROVE  Joined(ev, p)
  <2>1. PICK y : y = over
    OBVIOUS
  <2>2. /\ WorldOK(y, K) /\ DOMAIN y.tiles = DOMAIN v.tiles /\ y.floats = v.floats
        /\ w \in DOMAIN y.tiles
    BY <1>3, <1>4, <2>1
  <2>3. WorldOK(p, K) /\ p.tiles = y.tiles /\ p.floats = y.floats
    BY ZenonT(40), <1>4, <2>1, <2>2, FocusingOK
  <2> QED
    BY <2>2, <2>3, JoinedStill
<1>5. CASE p \in MovesOver(ev, v)
  <2>1. v.focus = {w} /\ (p = v \/ p = Focusing(over, w))
    BY <1>5 DEF MovesOver
  <2> QED
    BY <1>4, <2>1
<1>6. CASE p \in Sends(ev, v)
  <2>1. /\ v.focus = {w}
        /\ \/ p = Focusing(over, w)
           \/ p \in Unfocused([over EXCEPT !.recent = @ \ Homed(v.tiles, ev.other)], w)
    BY <1>6 DEF Sends
  <2>2. CASE p \in Unfocused([over EXCEPT !.recent = @ \ Homed(v.tiles, ev.other)], w)
    <3>1. PICK y : y = over
      OBVIOUS
    <3>2. /\ WorldOK(y, K) /\ DOMAIN y.tiles = DOMAIN v.tiles /\ y.floats = v.floats
          /\ w \in DOMAIN y.tiles /\ y.focus = {w}
      BY <1>3, <2>1, <3>1
    <3>3. PICK R : R = y.recent \ Homed(v.tiles, ev.other)
      OBVIOUS
    <3>4. PICK z : z = [y EXCEPT !.recent = R]
      OBVIOUS
    <3>5. p \in Unfocused(z, w)
      BY <2>2, <3>1, <3>3, <3>4
    <3>6. y = [tiles |-> y.tiles, floats |-> y.floats, recent |-> y.recent, focus |-> y.focus]
      BY <3>2, WorldParts
    <3>7. z = [tiles |-> y.tiles, floats |-> y.floats, recent |-> R, focus |-> {w}]
      BY <3>2, <3>4, <3>6
    <3>8. /\ y.tiles \in Maps(Windows, Domains) /\ y.floats \in Maps(Windows, Domains)
          /\ DOMAIN y.tiles \cap DOMAIN y.floats = {}
          /\ \A x \in DOMAIN y.tiles : y.tiles[x] \in K
          /\ \A x \in DOMAIN y.floats : y.floats[x] \in K
          /\ R \ {w} \subseteq DOMAIN y.tiles /\ AtMostOne({w})
      BY <3>2, <3>3, WorldParts DEF Sane, HomedIn, AtMostOne
    <3>9. WorldOK(p, K) /\ p.tiles = y.tiles /\ p.floats = y.floats
      <4>1. PICK T, G : T = y.tiles /\ G = y.floats
        OBVIOUS
      <4>2. z = [tiles |-> T, floats |-> G, recent |-> R, focus |-> {w}]
        BY <3>7, <4>1
      <4>3. /\ T \in Maps(Windows, Domains) /\ G \in Maps(Windows, Domains)
            /\ DOMAIN T \cap DOMAIN G = {}
            /\ \A x \in DOMAIN T : T[x] \in K
            /\ \A x \in DOMAIN G : G[x] \in K
            /\ R \ {w} \subseteq DOMAIN T /\ AtMostOne({w})
        BY <3>8, <4>1
      <4>4. {w} # {w} => {w} \subseteq R \ {w}
        OBVIOUS
      <4> HIDE DEF K
      <4>5. WorldOK(p, K) /\ p.tiles = T /\ p.floats = G
        BY <3>5, <4>2, <4>3, <4>4, UnfocusedOK
      <4> QED
        BY <4>1, <4>5
    <3> QED
      BY <3>2, <3>9, JoinedStill
  <2> QED
    BY <1>4, <2>1, <2>2
<1>7. p \in MovesOver(ev, v) \/ p \in FocusesOver(ev, v) \/ p \in Sends(ev, v)
  BY DEF Crossings
<1> QED
  BY <1>2, <1>5, <1>6, <1>7

-----------------------------------------------------------------------------

\* A pair, whether or not the other domain has a session that takes part.
LEMMA AssembledOK ==
    ASSUME NEW ev, Between(ev), NEW e, Sound(e), NEW joins,
           NEW pair \in Assembled(e, ev, joins)
    PROVE  WorldOK(pair, {ev.key, ev.other})
<1>1. PICK v, u : /\ v = e.slots[ev.key].world
                  /\ u = IF joins /\ Has(e, ev.other) THEN e.slots[ev.other].world ELSE EmptyWorld
  OBVIOUS
<1>2. ev.key \in DOMAIN e.slots /\ Members(v) \cap Members(u) = {} /\ pair = Pair(v, u)
  BY <1>1 DEF Assembled, Serves, Has
<1>3. WorldOK(v, {ev.key})
  BY <1>1, <1>2, SlotParts
<1>4. WorldOK(u, {ev.other})
  <2>1. CASE joins /\ Has(e, ev.other)
    BY <1>1, <2>1, SlotParts DEF Has
  <2>2. CASE ~(joins /\ Has(e, ev.other))
    BY <1>1, <2>2, EmptyWorldOK
  <2> QED
    BY <2>1, <2>2
<1>5. PICK k, o : k = ev.key /\ o = ev.other
  OBVIOUS
<1>6. WorldOK(v, {k}) /\ WorldOK(u, {o})
  BY <1>3, <1>4, <1>5
<1>7. WorldOK(Pair(v, u), {k, o})
  BY <1>2, <1>6, PairOK
<1> QED
  BY <1>2, <1>5, <1>7

\* Sessions that hold what is seen have lost nothing.
LEMMA SightKeeps ==
    ASSUME NEW e, NEW d, NEW ev, InSight(d, ev)
    PROVE  NothingLost(e, d, ev)
BY DEF InSight, NothingLost

\* What becomes of a pair once it is converged: it is stored, refused or planned on.
LEMMA CrossedOK ==
    ASSUME NEW ev, Between(ev), NEW e, Sound(e), NEW c, Sound(c), Keeps(e, c, ev),
           NEW v, Joined(ev, v), NEW a \in Crossed(c, ev, v)
    PROVE  Answered(e, ev, a)
<1>1. PICK synced : synced = Synced(v, ev.key, ev.focus)
  OBVIOUS
<1>2. Joined(ev, synced)
  <2>1. AtMostOne(ev.focus) /\ WorldOK(v, {ev.key, ev.other})
    BY DEF Between, EventOK, Joined
  <2>2. WorldOK(synced, {ev.key, ev.other}) /\ synced.tiles = v.tiles /\ synced.floats = v.floats
    BY <1>1, <2>1, SyncedOK
  <2> QED
    BY <2>2, JoinedStill
<1>3. PICK b \in StoredPair(c, ev, v) :
          \/ a = Refused(b)
          \/ \E p \in Crossings(ev, synced) :
                \E d \in StoredPlan(b, ev, p) : a = Planned(d, PlacingPair(ev, p))
  BY <1>1 DEF Crossed, RefusedCrossing
<1>4. /\ Sound(b) /\ Alike(c, b, {ev.key, ev.other})
      /\ InSight(b, ev) /\ Matches(b, PlacingPair(ev, v))
  BY <1>3, StoredPairOK
<1>5. Keeps(e, b, ev)
  BY <1>4, KeepsOn
<1>6. CASE a = Refused(b)
  BY <1>4, <1>5, <1>6, SightKeeps, RefusedIs
<1>7. ASSUME NEW p \in Crossings(ev, synced), NEW d \in StoredPlan(b, ev, p),
             a = Planned(d, PlacingPair(ev, p))
      PROVE  Answered(e, ev, a)
  <2>1. Joined(ev, p)
    BY <1>2, <1>7, CrossingsOK
  <2>2. /\ Sound(d) /\ Alike(b, d, {ev.key, ev.other})
        /\ InSight(d, ev) /\ Matches(d, PlacingPair(ev, p))
    BY <1>4, <1>7, <2>1, StoredPlanOK
  <2>3. Keeps(e, d, ev)
    BY <1>5, <2>2, KeepsOn
  <2> QED
    BY <1>7, <2>2, <2>3, PlannedIs
<1> QED
  BY <1>3, <1>6, <1>7

\* A crossing over an edge, or to a named workspace or output.
LEMMA OverPairOK ==
    ASSUME NEW ev, Between(ev), NEW e, Sound(e), NEW c, Sound(c), Keeps(e, c, ev),
           NothingLost(e, c, ev), NEW joins, NEW a \in OverPair(c, ev, joins)
    PROVE  Answered(e, ev, a)
<1>1. CASE a = Refused(c)
  BY <1>1, RefusedIs
<1>2. ASSUME NEW pair \in Assembled(c, ev, joins),
             NEW v \in Convergences(pair, ev.seen, ev.focus), a \in Crossed(c, ev, v)
      PROVE  Answered(e, ev, a)
  <2>1. WorldOK(pair, {ev.key, ev.other})
    BY <1>2, AssembledOK
  <2>2. /\ {ev.key, ev.other} \in SUBSET Domains
        /\ AtMostOne(ev.focus) /\ DOMAIN ev.seen \subseteq Windows
        /\ \A w \in DOMAIN ev.seen : ev.seen[w].home \in {ev.key, ev.other}
    BY DEF Between, EventOK
  <2>3. WorldOK(v, {ev.key, ev.other}) /\ Holds(v, DOMAIN ev.seen)
    BY ZenonT(40), <1>2, <2>1, <2>2, ConvergencesOK
  <2>4. Joined(ev, v)
    BY <2>3 DEF Joined
  <2> QED
    BY <1>2, <2>4, CrossedOK
<1> QED
  BY <1>1, <1>2 DEF OverPair

\* A window sent to another domain, from a session that is adopted first if it has to be.
LEMMA TransferOK ==
    ASSUME NEW ev, Between(ev), "seen" \in DOMAIN ev, NEW e, Sound(e), NEW a \in Transfer(e, ev)
    PROVE  Answered(e, ev, a)
<1>1. PICK here : here = {w \in DOMAIN ev.seen : ev.seen[w].home = ev.key}
  OBVIOUS
<1>2. CASE a = Refused(e)
  BY <1>2, KeepsItself, RefusedIs
<1>3. ASSUME NEW c \in Sourced(e, ev, here), NEW joins, a \in OverPair(c, ev, joins)
      PROVE  Answered(e, ev, a)
  <2>1. CASE c = e
    BY <1>3, <2>1, KeepsItself, OverPairOK
  <2>2. CASE ~Has(e, ev.key) /\ c \in Fresh(e, [ev EXCEPT !.seen = Only(@, here)])
    <3>1. PICK n : n = [ev EXCEPT !.seen = Only(@, here)]
      OBVIOUS
    <3>2. /\ n.key = ev.key /\ n.other = ev.other /\ n.client = ev.client /\ n.area = ev.area
          /\ n.outer = ev.outer /\ n.focus = ev.focus /\ n.seen = Only(ev.seen, here)
      BY <3>1
    <3>3. /\ DOMAIN n.seen \subseteq DOMAIN ev.seen
          /\ \A w \in DOMAIN n.seen : n.seen[w].home = n.key
      BY <1>1, <3>2 DEF Only
    <3>4. EventOK(n)
      BY <3>2, <3>3 DEF Between, EventOK
    <3>5. Sound(c) /\ Alike(e, c, {n.key})
      BY <2>2, <3>1, <3>3, <3>4, FreshOK
    <3>6. Sound(c) /\ Alike(e, c, {ev.key})
      BY <3>2, <3>5
    <3>7. Keeps(e, c, ev)
      BY <3>6, KeepsItself, KeepsOn
    <3>8. NothingLost(e, c, ev)
      BY <2>2, <3>6 DEF NothingLost, HeldBy, Alike, Has, Between, EventOK
    <3> QED
      BY <1>3, <3>6, <3>7, <3>8, OverPairOK
  <2> QED
    BY <1>3, <2>1, <2>2 DEF Sourced
<1> QED
  BY <1>1, <1>2, <1>3 DEF Transfer

\* What moves with a workspace, and what shows on every workspace and stays behind.
LEMMA MigratingOK ==
    ASSUME NEW ev, Between(ev), \A w \in DOMAIN ev.seen : ev.seen[w].home = ev.key,
           NEW slot, WorldOK(slot.world, {ev.key}), NEW sticky \in SUBSET DOMAIN ev.seen,
           NEW moved \in Moving(slot, ev, sticky), NEW stay \in Staying(slot, ev, sticky)
    PROVE  /\ WorldOK(moved, {ev.other}) /\ Holds(moved, DOMAIN ev.seen \ sticky)
           /\ WorldOK(stay, {ev.key}) /\ Holds(stay, sticky)
<1>1. /\ {ev.key} \in SUBSET Domains /\ ev.key \in Domains /\ ev.other \in Domains
      /\ AtMostOne(ev.focus) /\ DOMAIN ev.seen \subseteq Windows
  BY DEF Between, EventOK
<1>2. AtMostOne(ev.focus \ sticky) /\ AtMostOne(ev.focus \cap sticky)
  BY <1>1 DEF AtMostOne
<1>3. ASSUME NEW S \in SUBSET DOMAIN ev.seen, NEW f, AtMostOne(f),
             NEW u \in Convergences(slot.world, Only(ev.seen, S), f)
      PROVE  WorldOK(u, {ev.key}) /\ Holds(u, S)
  <2>1. PICK seen : seen = Only(ev.seen, S)
    OBVIOUS
  <2>2. DOMAIN seen = S /\ \A w \in DOMAIN seen : seen[w].home \in {ev.key}
    BY <2>1 DEF Only
  <2>3. DOMAIN seen \subseteq Windows
    BY <1>1, <2>2
  <2>4. WorldOK(u, {ev.key}) /\ Holds(u, DOMAIN seen)
    BY <1>1, <1>3, <2>1, <2>2, <2>3, ConvergencesOK
  <2> QED
    BY <2>2, <2>4
<1>4. PICK u \in Convergences(slot.world, Only(ev.seen, DOMAIN ev.seen \ sticky), ev.focus \ sticky) :
          moved = Rehomed(u, ev.other)
  BY DEF Moving
<1>5. WorldOK(u, {ev.key}) /\ Holds(u, DOMAIN ev.seen \ sticky)
  BY <1>2, <1>3, <1>4
<1>6. WorldOK(moved, {ev.other}) /\ Holds(moved, DOMAIN ev.seen \ sticky)
  BY <1>1, <1>4, <1>5, RehomedOK DEF Holds
<1>7. WorldOK(stay, {ev.key}) /\ Holds(stay, sticky)
  <2>1. CASE sticky = {}
    BY <2>1, EmptyWorldOK DEF Staying, Holds
  <2>2. CASE sticky # {}
    BY <1>2, <1>3, <2>2 DEF Staying
  <2> QED
    BY <2>1, <2>2
<1> QED
  BY <1>6, <1>7

\* A workspace that changes output leaves its sticky windows and takes the others.
LEMMA MigrateOK ==
    ASSUME NEW ev, Between(ev), NEW e, Sound(e), NEW a \in Migrate(e, ev)
    PROVE  Answered(e, ev, a)
<1> DEFINE slot == e.slots[ev.key]
           sticky == {w \in DOMAIN ev.seen : ev.seen[w].sticky}
<1>1. CASE a = Refused(e)
  BY <1>1, KeepsItself, RefusedIs
<1>2. CASE Migratable(e, ev) /\ ~Has(e, ev.key) /\ a = Planned(e, Nothing)
  <2>1. InSight(e, ev)
    BY <1>2 DEF Migratable, InSight, HeldBy, Has
  <2>2. Matches(e, Nothing)
    BY DEF Matches, Nothing
  <2> QED
    BY <1>2, <2>1, <2>2, KeepsItself, PlannedIs
<1>3. ASSUME Migratable(e, ev), Has(e, ev.key),
             NEW moved \in Moving(slot, ev, sticky), NEW stay \in Staying(slot, ev, sticky),
             a = Planned(Migrated(e, ev, moved, stay), Placing(ev.other, ev.area, moved))
      PROVE  Answered(e, ev, a)
  <2>1. /\ ev.key \in Domains /\ ev.other \in Domains /\ ev.key # ev.other
        /\ ev.outer \in OuterGaps /\ ev.area \in Areas
        /\ ev.key \in DOMAIN e.slots /\ \A w \in DOMAIN ev.seen : ev.seen[w].home = ev.key
    BY <1>3 DEF Between, EventOK, Migratable, Has
  <2>2. WorldOK(slot.world, {ev.key}) /\ slot \in Slots
    BY <2>1, SlotParts
  <2>3. /\ WorldOK(moved, {ev.other}) /\ Holds(moved, DOMAIN ev.seen \ sticky)
        /\ WorldOK(stay, {ev.key}) /\ Holds(stay, sticky)
    BY <1>3, <2>1, <2>2, MigratingOK
  <2>4. PICK s, t, b, d : /\ s = [slot EXCEPT !.world = stay]
                          /\ t = [slot EXCEPT !.world = moved, !.area = ev.area]
                          /\ b = Stored(e, ev.key, s, ev.outer)
                          /\ d = Migrated(e, ev, moved, stay)
    OBVIOUS
  <2>5. moved \in Worlds /\ stay \in Worlds
    BY <2>3 DEF WorldOK
  <2>6. s \in Slots /\ s.world = stay
    BY <2>2, <2>4, <2>5 DEF Slots
  <2>7. t \in Slots /\ t.world = moved /\ t.area = ev.area
    BY <2>1, <2>2, <2>4, <2>5 DEF Slots
  <2>8. d = Stored(b, ev.other, t, ev.outer)
    BY <2>4 DEF Migrated
  <2>9. PICK k, g : k = ev.key /\ g = ev.outer
    OBVIOUS
  <2> HIDE DEF slot, sticky
  <2>10. /\ Sound(b) /\ Alike(e, b, {k})
         /\ ~Holds(s.world, {}) => k \in DOMAIN b.slots /\ b.slots[k] = s
         /\ Holds(s.world, {}) => k \notin DOMAIN b.slots
    <3>1. WorldOK(s.world, {k}) /\ k \in Domains /\ g \in OuterGaps /\ b = Stored(e, k, s, g)
      BY <2>1, <2>3, <2>4, <2>6, <2>9
    <3> QED
      BY <2>6, <3>1, StoredOK
  <2>11. /\ Sound(d) /\ Alike(b, d, {ev.other})
         /\ ~Holds(t.world, {}) => ev.other \in DOMAIN d.slots /\ d.slots[ev.other] = t
         /\ Holds(t.world, {}) => ev.other \notin DOMAIN d.slots
    <3>1. WorldOK(t.world, {ev.other}) /\ ev.other \in Domains /\ g \in OuterGaps /\ d = Stored(b, ev.other, t, g)
      BY <2>1, <2>3, <2>7, <2>8, <2>9
    <3>2. Sound(b) /\ t \in Slots
      BY <2>7, <2>10
    <3> QED
      BY <3>1, <3>2, StoredOK
  <2>12. /\ ~Holds(s.world, {}) => k \in DOMAIN d.slots /\ d.slots[k] = s
         /\ Holds(s.world, {}) => k \notin DOMAIN d.slots
    BY <2>1, <2>9, <2>10, <2>11 DEF Alike
  <2>13. HeldBy(d, k) = sticky /\ HeldBy(d, ev.other) = DOMAIN ev.seen \ sticky
    BY <2>3, <2>6, <2>7, <2>11, <2>12 DEF HeldBy, Holds
  <2>14. sticky \subseteq DOMAIN ev.seen
    BY DEF sticky
  <2>15. InSight(d, ev)
    BY <2>9, <2>13, <2>14 DEF InSight
  <2>16. Keeps(e, d, ev)
    <3>1. Alike(e, d, {ev.key, ev.other})
      BY <2>9, <2>10, <2>11 DEF Alike
    <3> QED
      BY <3>1, KeepsItself, KeepsOn
  <2>17. PICK plan : plan = Placing(ev.other, ev.area, moved)
    OBVIOUS
  <2>18. DOMAIN plan = {ev.other} /\ plan[ev.other].tiles = DOMAIN moved.tiles /\ plan[ev.other].area = ev.area
    <3>1. Homed(moved.tiles, ev.other) = DOMAIN moved.tiles
      BY <2>3, WorldParts DEF Homed, HomedIn
    <3> QED
      BY <2>9, <2>17, <3>1 DEF Placing
  <2>19. Matches(d, plan)
    BY <2>7, <2>11, <2>18 DEF Matches, Holds, Members
  <2> QED
    BY <1>3, <2>4, <2>11, <2>15, <2>16, <2>17, <2>19, PlannedIs
<1>4. a \in IF ~Migratable(e, ev) THEN {Refused(e)}
            ELSE IF ~Has(e, ev.key) THEN {Planned(e, Nothing)}
            ELSE {Planned(Migrated(e, ev, moved, stay), Placing(ev.other, ev.area, moved)) :
                     moved \in Moving(slot, ev, sticky), stay \in Staying(slot, ev, sticky)}
                 \cup Refusals(e, Moving(slot, ev, sticky))
  BY DEF Migrate
<1>5. CASE Migratable(e, ev) /\ Has(e, ev.key)
  <2>1. CASE a \in Refusals(e, Moving(slot, ev, sticky))
    BY <1>1, <2>1, RefusalsAre
  <2>2. CASE \E moved \in Moving(slot, ev, sticky), stay \in Staying(slot, ev, sticky) :
                 a = Planned(Migrated(e, ev, moved, stay), Placing(ev.other, ev.area, moved))
    BY <1>3, <1>5, <2>2
  <2> QED
    BY <1>4, <1>5, <2>1, <2>2
<1>6. CASE ~(Migratable(e, ev) /\ Has(e, ev.key))
  BY <1>1, <1>2, <1>4, <1>6
<1> QED
  BY <1>5, <1>6

-----------------------------------------------------------------------------
(* The engine between requests.                                            *)

\* What holds of the engine whatever it answered.
EngineInv == Sound(Current) /\ DOMAIN desk \subseteq Windows /\ binding \in Clients

\* The inductive invariant: the engine is sound, and the last plan is true of it.
IInv == EngineInv /\ HoldsWhatIsSeen /\ PlansMatchStore

\* A request that carries what the desktop shows in the domains it names.
Asked(ev) == EventOK(ev) /\ DOMAIN ev.seen = Here(ev.key) \cup Here(ev.other)

\* A request is made of the desktop as it is.
LEMMA EventIs ==
    ASSUME DOMAIN desk \subseteq Windows, NEW op, NEW c \in Clients, NEW k \in Domains,
           NEW o \in Domains, NEW a \in Areas, NEW g \in OuterGaps, NEW f, NEW w,
           f \in Focuses(k) \/ f = {}, NEW ev, ev = Event(op, c, k, o, a, g, f, w)
    PROVE  /\ Asked(ev) /\ ev.op = op /\ ev.key = k /\ ev.other = o /\ ev.subject = w
           /\ "subject" \in DOMAIN ev /\ "seen" \in DOMAIN ev
<1>1. /\ ev.op = op /\ ev.client = c /\ ev.key = k /\ ev.other = o /\ ev.area = a
      /\ ev.outer = g /\ ev.focus = f /\ ev.subject = w
      /\ ev.seen = Only(desk, Here(k) \cup Here(o))
      /\ "subject" \in DOMAIN ev /\ "seen" \in DOMAIN ev
  BY DEF Event
<1>2. /\ DOMAIN ev.seen = Here(k) \cup Here(o)
      /\ \A w_1 \in DOMAIN ev.seen : ev.seen[w_1].home \in {k, o}
  BY <1>1 DEF Only, Here
<1>3. Here(k) \cup Here(o) \subseteq Windows
  BY DEF Here
<1>4. AtMostOne(f)
  BY DEF Focuses, AtMostOne
<1>5. EventOK(ev)
  BY <1>1, <1>2, <1>3, <1>4 DEF EventOK
<1> QED
  BY <1>1, <1>2, <1>5 DEF Asked

\* A client the engine is not bound to starts from nothing.
LEMMA BoundSound ==
    ASSUME EngineInv, NEW c
    PROVE  Sound(Bound(c)) /\ Bound(binding) = Current
<1>1. Sound([slots |-> <<>>, gaps |-> <<>>])
  <2>1. <<>> \in Maps(Domains, Slots) /\ <<>> \in Maps(Domains, OuterGaps) /\ DOMAIN <<>> = {}
    BY EmptyIsMap
  <2> QED
    BY <2>1, EngineMade
<1> QED
  BY <1>1 DEF Bound, EngineInv

\* What an answered request leaves.
LEMMA HandleOK ==
    ASSUME EngineInv, NEW ev, Asked(ev), NEW client \in Clients, NEW answers,
           \A a \in answers : Answered(Bound(client), ev, a), Handle(ev, answers, client)
    PROVE  IInv' /\ DisplacesWhole /\ RefusalKeeps
<1>1. PICK a \in answers :
          /\ sessions' = a.engine.slots /\ outer_gaps' = a.engine.gaps
          /\ reply' = [op |-> ev.op, key |-> ev.key, other |-> ev.other,
                       kind |-> a.reply.kind, plan |-> a.reply.plan]
  BY DEF Handle
<1>2. binding' = client /\ desk' = desk
  BY DEF Handle
<1>3. PICK d : d = a.engine
  OBVIOUS
<1>4. /\ Sound(d) /\ Keeps(Bound(client), d, ev)
      /\ a.reply.kind = "plan" => InSight(d, ev) /\ Matches(d, a.reply.plan)
      /\ a.reply.kind = "refused" /\ ev.key # ev.other => NothingLost(Bound(client), d, ev)
  BY <1>3 DEF Answered
<1>5. d = [slots |-> d.slots, gaps |-> d.gaps]
  BY <1>4, EngineParts
<1>6. sessions' = d.slots /\ outer_gaps' = d.gaps
  BY <1>1, <1>3
<1>7. Current' = d
  BY <1>5, <1>6 DEF Current
<1>8. /\ reply'.key = ev.key /\ reply'.other = ev.other
      /\ reply'.kind = a.reply.kind /\ reply'.plan = a.reply.plan
  BY <1>1
<1>9. EngineInv'
  BY <1>2, <1>4, <1>7 DEF EngineInv
<1>10. \A k : Held(k)' = HeldBy(d, k) /\ Here(k)' = Here(k)
  BY <1>2, <1>6 DEF Held, HeldBy, Here
<1>11. DOMAIN ev.seen = Here(ev.key) \cup Here(ev.other)
  BY DEF Asked
<1>12. HoldsWhatIsSeen'
  BY <1>4, <1>8, <1>10, <1>11 DEF HoldsWhatIsSeen, InSight
<1>13. PlansMatchStore'
  BY <1>4, <1>6, <1>8 DEF PlansMatchStore, Matches
<1>14. ASSUME binding' = binding
       PROVE  Bound(client) = Current
  BY <1>2, <1>14, BoundSound
<1>15. Current.slots = sessions /\ Current.gaps = outer_gaps
  BY DEF Current
<1>16. DisplacesWhole
  <2>1. SUFFICES ASSUME binding' = binding, NEW k \in DOMAIN sessions \ {ev.key, ev.other}
                 PROVE  \/ k \in DOMAIN d.slots /\ d.slots[k] = sessions[k]
                                                /\ d.gaps[k] = outer_gaps[k]
                        \/ /\ k \notin DOMAIN d.slots /\ k.workspace = ev.key.workspace
                           /\ Members(sessions[k].world) \subseteq Here(ev.key)
    BY <1>6, <1>8 DEF DisplacesWhole, Named
  <2>2. Keeps(Current, d, ev)
    BY <1>4, <1>14, <2>1
  <2> QED
    BY <1>11, <1>15, <2>1, <2>2 DEF Keeps
<1>17. RefusalKeeps
  <2>1. SUFFICES ASSUME a.reply.kind = "refused", binding' = binding, ev.key # ev.other
                 PROVE  (Held(ev.key) \cup Held(ev.other)) \cap (Here(ev.key) \cup Here(ev.other))
                            \subseteq HeldBy(d, ev.key) \cup HeldBy(d, ev.other)
    BY <1>8, <1>10 DEF RefusalKeeps
  <2>2. NothingLost(Current, d, ev)
    BY <1>4, <1>14, <2>1
  <2>3. \A k : HeldBy(Current, k) = Held(k)
    BY <1>15 DEF Held, HeldBy
  <2> QED
    BY <1>11, <2>2, <2>3 DEF NothingLost
<1> QED
  BY <1>9, <1>12, <1>13, <1>16, <1>17 DEF IInv

\* A request about one domain, and a command about a window seen there.
LEMMA AskedWithin ==
    ASSUME EngineInv, NEW op, NEW c \in Clients, NEW k \in Domains, NEW a \in Areas,
           NEW g \in OuterGaps, NEW f, f \in Focuses(k) \/ f = {}, NEW w,
           NEW ev, ev = Event(op, c, k, k, a, g, f, w)
    PROVE  /\ Asked(ev) /\ Within(ev) /\ ev.op = op /\ "subject" \in DOMAIN ev
           /\ w \in Here(k) => ev.subject \in DOMAIN ev.seen
<1>1. /\ Asked(ev) /\ ev.op = op /\ ev.key = k /\ ev.other = k /\ ev.subject = w
      /\ "subject" \in DOMAIN ev
  BY EventIs DEF EngineInv
<1> QED
  BY <1>1 DEF Asked, Within

\* A request about two domains.
LEMMA AskedBetween ==
    ASSUME EngineInv, NEW op, NEW c \in Clients, NEW k \in Domains, NEW o \in Domains, k # o,
           NEW a \in Areas, NEW g \in OuterGaps, NEW f \in Focuses(k), NEW w,
           NEW ev, ev = Event(op, c, k, o, a, g, f, w)
    PROVE  Asked(ev) /\ Between(ev) /\ "seen" \in DOMAIN ev
<1>1. Asked(ev) /\ ev.key = k /\ ev.other = o /\ "seen" \in DOMAIN ev
  BY EventIs DEF EngineInv
<1> QED
  BY <1>1 DEF Asked, Between

\* Every request is answered.
LEMMA RequestOK ==
    ASSUME EngineInv, NEW c \in Clients, NEW k \in Domains, NEW a \in Areas, NEW g \in OuterGaps,
           Request(c, k, a, g)
    PROVE  IInv' /\ DisplacesWhole /\ RefusalKeeps
<1>1. Sound(Bound(c)) /\ Sound(Bound(binding)) /\ Bound(binding) = Current /\ binding \in Clients
  BY BoundSound DEF EngineInv
<1>2. CASE ReconcileRequest(c, k, a, g)
  <2>1. PICK f, ev :
            /\ f \in Focuses(k)
            /\ ev = Event("reconcile", c, k, k, a, g, f, "none")
            /\ Handle(ev, Reconcile(Bound(c), ev), c)
    BY <1>2 DEF ReconcileRequest
  <2>2. Asked(ev) /\ Within(ev) /\ "subject" \in DOMAIN ev
    BY <2>1, AskedWithin
  <2>3. \A x \in Reconcile(Bound(c), ev) : Answered(Bound(c), ev, x)
    BY <1>1, <2>2, ReconcileOK
  <2> QED
    BY <2>1, <2>2, <2>3, HandleOK
<1>3. CASE UpdateGapsRequest(c, k, a, g)
  <2>1. PICK f, ev :
            /\ f \in Focuses(k)
            /\ ev = Event("gaps", c, k, k, a, g, f, "none")
            /\ Handle(ev, UpdateGaps(Bound(c), ev), c)
    BY <1>3 DEF UpdateGapsRequest
  <2>2. Asked(ev) /\ Within(ev)
    BY <2>1, AskedWithin
  <2>3. \A x \in UpdateGaps(Bound(c), ev) : Answered(Bound(c), ev, x)
    BY <1>1, <2>2, UpdateGapsOK
  <2> QED
    BY <2>1, <2>2, <2>3, HandleOK
<1>4. CASE FloatRequest(c, k, a, g)
  <2>1. PICK f, w, ev :
            /\ f \in Focuses(k) /\ w \in Here(k)
            /\ ev = Event("float", c, k, k, a, g, f, w)
            /\ Handle(ev, ToggleFloat(Bound(c), ev), c)
    BY <1>4 DEF FloatRequest, WithinRequest
  <2>2. Asked(ev) /\ Within(ev) /\ ev.subject \in DOMAIN ev.seen
    BY <2>1, AskedWithin
  <2>3. \A x \in ToggleFloat(Bound(c), ev) : Answered(Bound(c), ev, x)
    BY <1>1, <2>2, ToggleFloatOK
  <2> QED
    BY <2>1, <2>2, <2>3, HandleOK
<1>5. CASE OrientationRequest(c, k, a, g)
  <2>1. PICK f, w, ev :
            /\ f \in Focuses(k) /\ w \in Here(k)
            /\ ev = Event("orient", c, k, k, a, g, f, w)
            /\ Handle(ev, ToggleOrientation(Bound(c), ev), c)
    BY <1>5 DEF OrientationRequest, WithinRequest
  <2>2. Asked(ev) /\ Within(ev) /\ ev.subject \in DOMAIN ev.seen
    BY <2>1, AskedWithin
  <2>3. \A x \in ToggleOrientation(Bound(c), ev) : Answered(Bound(c), ev, x)
    BY <1>1, <2>2, ConvergingOK DEF ToggleOrientation
  <2> QED
    BY <2>1, <2>2, <2>3, HandleOK
<1>6. CASE LocalMoveRequest(c, k, a, g)
  <2>1. PICK f, w, ev :
            /\ f \in Focuses(k) /\ w \in Here(k)
            /\ ev = Event("move", c, k, k, a, g, f, w)
            /\ Handle(ev, LocalMove(Bound(c), ev), c)
    BY <1>6 DEF LocalMoveRequest, WithinRequest
  <2>2. Asked(ev) /\ Within(ev) /\ ev.subject \in DOMAIN ev.seen
    BY <2>1, AskedWithin
  <2>3. \A x \in LocalMove(Bound(c), ev) : Answered(Bound(c), ev, x)
    BY <1>1, <2>2, ConvergingOK DEF LocalMove
  <2> QED
    BY <2>1, <2>2, <2>3, HandleOK
<1>7. CASE LocalFocusRequest(c, k, a, g)
  <2>1. PICK f, w, ev :
            /\ f \in Focuses(k) /\ w \in Here(k)
            /\ ev = Event("focus", c, k, k, a, g, f, w)
            /\ Handle(ev, LocalFocus(Bound(c), ev), c)
    BY <1>7 DEF LocalFocusRequest, WithinRequest
  <2>2. Asked(ev) /\ Within(ev) /\ ev.subject \in DOMAIN ev.seen
    BY <2>1, AskedWithin
  <2>3. \A x \in LocalFocus(Bound(c), ev) : Answered(Bound(c), ev, x)
    BY <1>1, <2>2, ConvergingOK DEF LocalFocus
  <2> QED
    BY <2>1, <2>2, <2>3, HandleOK
<1>8. CASE ResizeRequest(c, k, a, g)
  <2>1. PICK f, w, ev :
            /\ f \in Focuses(k) /\ w \in Here(k)
            /\ ev = Event("resize", c, k, k, a, g, f, w)
            /\ Handle(ev, Resize(Bound(c), ev), c)
    BY <1>8 DEF ResizeRequest, WithinRequest
  <2>2. Asked(ev) /\ Within(ev) /\ ev.subject \in DOMAIN ev.seen
    BY <2>1, AskedWithin
  <2>3. \A x \in Resize(Bound(c), ev) : Answered(Bound(c), ev, x)
    BY <1>1, <2>2, ConvergingOK DEF Resize
  <2> QED
    BY <2>1, <2>2, <2>3, HandleOK
<1>9. CASE PointerResizeRequest(c, k, a, g)
  <2>1. PICK f, w, ev :
            /\ f \in Focuses(k) /\ w \in Here(k)
            /\ ev = Event("resize", c, k, k, a, g, f, w)
            /\ Handle(ev, PointerResize(Bound(c), ev), c)
    BY <1>9 DEF PointerResizeRequest, WithinRequest
  <2>2. Asked(ev) /\ Within(ev) /\ ev.subject \in DOMAIN ev.seen
    BY <2>1, AskedWithin
  <2>3. \A x \in PointerResize(Bound(c), ev) : Answered(Bound(c), ev, x)
    BY <1>1, <2>2, ConvergingOK DEF PointerResize
  <2> QED
    BY <2>1, <2>2, <2>3, HandleOK
<1>10. CASE DragRequest(c, k, a, g)
  <2>1. PICK f, w, ev :
            /\ f \in Focuses(k) /\ w \in Here(k)
            /\ ev = Event("drag", c, k, k, a, g, f, w)
            /\ \/ Handle(ev, DragDrop(Bound(c), ev), c)
               \/ Handle(ev, DragPreview(Bound(c), ev), c)
    BY <1>10 DEF DragRequest
  <2>2. Asked(ev) /\ Within(ev) /\ ev.op = "drag"
    BY <2>1, AskedWithin
  <2>3. \A x \in DragDrop(Bound(c), ev) : Answered(Bound(c), ev, x)
    BY <1>1, <2>2, DragDropOK
  <2>4. \A x \in DragPreview(Bound(c), ev) : Answered(Bound(c), ev, x)
    BY <1>1, <2>2, DragPreviewOK
  <2>5. CASE Handle(ev, DragDrop(Bound(c), ev), c)
    BY <2>2, <2>3, <2>5, HandleOK
  <2>6. CASE Handle(ev, DragPreview(Bound(c), ev), c)
    BY <2>2, <2>4, <2>6, HandleOK
  <2> QED
    BY <2>1, <2>5, <2>6
<1>11. CASE ActiveGroupRequest(c, k, a, g)
  <2>1. PICK f, ev :
            /\ f \in Focuses(k)
            /\ ev = Event("group", c, k, k, a, g, f, "none")
            /\ Handle(ev, ActiveGroup(Bound(c), ev), c)
    BY <1>11 DEF ActiveGroupRequest
  <2>2. Asked(ev) /\ Within(ev)
    BY <2>1, AskedWithin
  <2>3. \A x \in ActiveGroup(Bound(c), ev) : Answered(Bound(c), ev, x)
    BY <1>1, <2>2, ActiveGroupOK
  <2> QED
    BY <2>1, <2>2, <2>3, HandleOK
<1>12. CASE ReleaseRequest(c, k, a, g)
  <2>1. PICK ev : /\ ev = Event("release", c, k, k, a, g, {}, "none")
                  /\ Handle(ev, Release(Bound(c), ev), c)
    BY <1>12 DEF ReleaseRequest
  <2>2. Asked(ev) /\ Within(ev)
    BY <2>1, AskedWithin
  <2>3. \A x \in Release(Bound(c), ev) : Answered(Bound(c), ev, x)
    BY <1>1, <2>2, ReleaseOK
  <2> QED
    BY <2>1, <2>2, <2>3, HandleOK
<1>13. ASSUME NEW op, OverRequest(op, c, k, a, g)
       PROVE  IInv' /\ DisplacesWhole /\ RefusalKeeps
  <2>1. PICK o, f, w, ev :
            /\ o \in Domains /\ f \in Focuses(k) /\ w \in Here(k)
            /\ ev = Event(op, c, k, o, a, g, f, w) /\ o # k
            /\ Handle(ev, OverPair(Bound(c), ev, TRUE), c)
    BY <1>13 DEF OverRequest
  <2>2. Asked(ev) /\ Between(ev)
    BY <2>1, AskedBetween
  <2>3. \A x \in OverPair(Bound(c), ev, TRUE) : Answered(Bound(c), ev, x)
    BY <1>1, <2>2, KeepsItself, OverPairOK
  <2> QED
    BY <2>1, <2>2, <2>3, HandleOK
<1>14. CASE TransferRequest(c, k, a, g)
  <2>1. PICK o, f, w, ev :
            /\ o \in Domains /\ f \in Focuses(k) /\ w \in Here(k)
            /\ ev = Event("send", c, k, o, a, g, f, w) /\ o # k
            /\ Handle(ev, Transfer(Bound(binding), ev), binding)
    BY <1>1, <1>14 DEF TransferRequest
  <2>2. Asked(ev) /\ Between(ev) /\ "seen" \in DOMAIN ev
    BY <2>1, AskedBetween
  <2>3. \A x \in Transfer(Bound(binding), ev) : Answered(Bound(binding), ev, x)
    BY <1>1, <2>2, TransferOK
  <2> QED
    BY <1>1, <2>1, <2>2, <2>3, HandleOK
<1>15. CASE MigrateRequest(c, k, a, g)
  <2>1. PICK o, f, ev :
            /\ o \in Domains /\ f \in Focuses(k)
            /\ ev = Event("migrate", c, k, o, a, g, f, "none") /\ o # k
            /\ Handle(ev, Migrate(Bound(binding), ev), binding)
    BY <1>1, <1>15 DEF MigrateRequest
  <2>2. Asked(ev) /\ Between(ev)
    BY <2>1, AskedBetween
  <2>3. \A x \in Migrate(Bound(binding), ev) : Answered(Bound(binding), ev, x)
    BY <1>1, <2>2, MigrateOK
  <2> QED
    BY <1>1, <2>1, <2>2, <2>3, HandleOK
<1>16. CASE MoveOverRequest(c, k, a, g) \/ FocusOverRequest(c, k, a, g)
  BY <1>13, <1>16 DEF MoveOverRequest, FocusOverRequest
<1> QED
  BY <1>2, <1>3, <1>4, <1>5, <1>6, <1>7, <1>8, <1>9, <1>10, <1>11, <1>12, <1>14, <1>15, <1>16
  DEF Request

\* The desktop changes and the engine does not.
LEMMA ChangeOK ==
    ASSUME IInv, NEW w \in Windows, Change(w)
    PROVE  IInv' /\ DisplacesWhole /\ RefusalKeeps
<1>1. /\ sessions' = sessions /\ outer_gaps' = outer_gaps /\ binding' = binding
      /\ reply'.kind = "none"
  BY DEF Change, NoReply
<1>2. DOMAIN desk' \subseteq Windows
  BY DEF Change, With, Without, IInv, EngineInv
<1>3. EngineInv'
  BY <1>1, <1>2 DEF IInv, EngineInv, Current
<1>4. HoldsWhatIsSeen' /\ PlansMatchStore'
  BY <1>1 DEF HoldsWhatIsSeen, PlansMatchStore
<1> QED
  BY <1>1, <1>3, <1>4 DEF IInv, DisplacesWhole, RefusalKeeps

\* The first engine retains nothing.
LEMMA InitOK == EngineInit => IInv
<1> SUFFICES ASSUME EngineInit PROVE IInv
  OBVIOUS
<1>1. Sound(Current)
  <2>1. <<>> \in Maps(Domains, Slots) /\ <<>> \in Maps(Domains, OuterGaps) /\ DOMAIN <<>> = {}
    BY EmptyIsMap
  <2> QED
    BY <2>1, EngineMade DEF EngineInit, Current
<1>2. DOMAIN desk = {}
  BY EmptyIsMap DEF EngineInit
<1> QED
  BY <1>1, <1>2
  DEF IInv, EngineInv, EngineInit, HoldsWhatIsSeen, PlansMatchStore, NoReply

\* A step is a request or a change of the desktop.
LEMMA NextOK ==
    ASSUME IInv, EngineNext
    PROVE  IInv' /\ DisplacesWhole /\ RefusalKeeps
<1>1. CASE \E c \in Clients, k \in Domains, a \in Areas, g \in OuterGaps : Request(c, k, a, g)
  BY <1>1, RequestOK DEF IInv
<1>2. CASE \E w \in Windows : Change(w)
  BY <1>2, ChangeOK
<1> QED
  BY <1>1, <1>2 DEF EngineNext

\* Nothing changes in a step that is not the engine's.
LEMMA StillOK ==
    ASSUME IInv, UNCHANGED engineVars
    PROVE  IInv'
BY DEF IInv, EngineInv, HoldsWhatIsSeen, PlansMatchStore, Current, Held, Here, engineVars

\* A sound engine is what the type invariant says.
LEMMA SoundTypes ==
    ASSUME EngineInv
    PROVE  EngineTypeOK /\ GapsFollowSessions
<1>1. Current.slots = sessions /\ Current.gaps = outer_gaps
  BY DEF Current
<1>2. Sound(Current)
  BY DEF EngineInv
<1>3. DOMAIN sessions \subseteq Domains /\ DOMAIN outer_gaps = DOMAIN sessions
  BY <1>1, <1>2, EngineParts
<1>4. ASSUME NEW k \in DOMAIN sessions, NEW v, v = sessions[k].world
      PROVE  /\ sessions[k].client \in Clients /\ sessions[k].area \in Areas
             /\ v.tiles \in [DOMAIN v.tiles -> {k}] /\ v.floats \in [DOMAIN v.floats -> {k}]
             /\ Members(v) \subseteq Windows /\ DOMAIN v.tiles \cap DOMAIN v.floats = {}
             /\ v.focus \subseteq v.recent /\ v.recent \subseteq DOMAIN v.tiles
             /\ Cardinality(v.focus) < 2
  <2>1. /\ sessions[k].client \in Clients /\ sessions[k].area \in Areas
        /\ WorldOK(v, {k})
    BY <1>1, <1>2, <1>4, SlotParts
  <2>2. /\ v.tiles \in Maps(Windows, Domains) /\ v.floats \in Maps(Windows, Domains)
        /\ Sane(v) /\ HomedIn(v, {k}) /\ Members(v) \subseteq Windows
    BY <2>1, WorldParts
  <2>3. v.tiles \in [DOMAIN v.tiles -> {k}] /\ v.floats \in [DOMAIN v.floats -> {k}]
    BY <2>2, MapsAre DEF HomedIn
  <2>4. Cardinality(v.focus) < 2
    <3>1. AtMostOne(v.focus)
      BY <2>2 DEF Sane
    <3>2. CASE v.focus = {}
      BY <3>2, FS_EmptySet
    <3>3. ASSUME NEW x \in v.focus, v.focus = {x}
          PROVE  Cardinality(v.focus) < 2
      BY <3>3, FS_Singleton
    <3> QED
      BY <3>1, <3>2, <3>3 DEF AtMostOne
  <2> QED
    BY <2>1, <2>2, <2>3, <2>4 DEF Sane
<1> QED
  BY <1>3, <1>4 DEF EngineTypeOK, GapsFollowSessions, EngineInv

-----------------------------------------------------------------------------

\* The engine stays sound and its last plan true of it, whatever is requested: the
\* inductive invariant the next two theorems read their properties from.
THEOREM EngineInductive == EngineSpec => []IInv
<1>1. IInv /\ [EngineNext]_engineVars => IInv'
  BY NextOK, StillOK
<1> QED
  BY InitOK, <1>1, PTL DEF EngineSpec

\* A plan accounts for every window in sight of the domains it was asked about, each
\* in one session, and what is retained is well-formed: no window is lost or held twice
\* when a session is relocated, rebuilt, paired, split or migrated.
THEOREM PlansAccountForWindowsAlways == EngineSpec => []PlansAccountForWindows
<1>1. IInv => PlansAccountForWindows
  BY SoundTypes DEF IInv, PlansAccountForWindows
<1> QED
  BY <1>1, EngineInductive, PTL

\* A plan places the tiles of the sessions it leaves, in the area they retain, so that
\* the next projection of a session starts where its last plan ended (store_committed).
THEOREM PlansMatchStoreAlways == EngineSpec => []PlansMatchStore
<1>1. IInv => PlansMatchStore
  BY DEF IInv
<1> QED
  BY <1>1, EngineInductive, PTL

\* No request takes a session from a domain it does not name, but a displaced one
\* whose windows it has all seen; and a refused crossing loses no window in sight
\* (try_relocate_for_target, the directional and transfer requests).
THEOREM NothingGoesUnaskedEver == EngineSpec => NothingGoesUnasked
<1>1. IInv /\ [EngineNext]_engineVars => [DisplacesWhole /\ RefusalKeeps]_engineVars
  BY NextOK
<1> QED
  BY <1>1, EngineInductive, PTL DEF EngineSpec, NothingGoesUnasked
=============================================================================
