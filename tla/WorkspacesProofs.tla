-------------------------- MODULE WorkspacesProofs --------------------------
(* What holds of the workspaces of the Windows host (Workspaces) for every set *)
(* of windows and every number of monitors.  A handler is a composition of     *)
(* operators on the registry, so the proof has a lemma for each: it makes of a *)
(* registry that is Good another one.  Good is Sound (the orders, the members  *)
(* on record and the claims agree) with a History that follows the views; in   *)
(* the middle of a handler the history of some outputs may be out of step.     *)
(* What a step does to views and claims is told apart by how they may change:  *)
(* a Steady step turns no view and hides nothing, a Mild one hides at one      *)
(* output, and Calm compares with the registry the handler began with.         *)
EXTENDS Workspaces, TLAPS, FiniteSetTheorems, WellFoundedInduction

-----------------------------------------------------------------------------
(* Orders of workspaces.                                                       *)

Entry == [id : Nat, members : SUBSET Windows]

\* The entries of an order.
Entries(order) == {order[i] : i \in DOMAIN order}

\* An order is a sequence of workspaces, none of them twice.
OrderOK(order) ==
    /\ order \in Seq(Entry)
    /\ \A i, j \in DOMAIN order : order[i].id = order[j].id => i = j

\* A set of numbers that has a member has a least one.
LEMMA LeastNumber ==
    ASSUME NEW S \in SUBSET Nat, S # {}
    PROVE  \E n \in S : \A m \in S : n <= m
<1> DEFINE T == {1..n : n \in S}
<1>1. T \subseteq FiniteSubsetsOf(Nat)
    <2> SUFFICES ASSUME NEW n \in S
                 PROVE  1..n \in FiniteSubsetsOf(Nat)
        OBVIOUS
    <2>1. IsFiniteSet(1..n)
        BY FS_Interval
    <2> QED BY <2>1 DEF FiniteSubsetsOf
<1>2. PICK X \in T : \A Y \in T : ~(<<Y, X>> \in StrictSubsetOrdering(Nat))
    <2>1. T # {}
        OBVIOUS
    <2> HIDE DEF T
    <2> QED BY <1>1, <2>1, WFMin, FS_StrictSubsetOrderingWellFounded
<1>3. PICK n \in S : X = 1..n
    OBVIOUS
<1>4. ASSUME NEW m \in S, ~(n <= m)
      PROVE  FALSE
    <2>1. n \in 1..n /\ n \notin 1..m
        BY <1>4
    <2>2. 1..m \subseteq 1..n /\ 1..m # 1..n
        BY <1>4, <2>1
    <2>3. <<1..m, X>> \in StrictSubsetOrdering(Nat)
        BY <1>3, <2>2 DEF StrictSubsetOrdering
    <2> QED BY <1>2, <2>3
<1> QED BY <1>4

\* Induction up to n: a set with 0 that is closed under successor.
LEMMA UpTo ==
    ASSUME NEW n \in Nat, NEW S, 0 \in S, \A i \in 1..n : i - 1 \in S => i \in S
    PROVE  \A i \in 0..n : i \in S
<1> DEFINE Bad == {i \in 0..n : i \notin S}
<1> SUFFICES ASSUME Bad # {}
             PROVE  FALSE
    OBVIOUS
<1>1. PICK i \in Bad : \A j \in Bad : i <= j
    <2>1. Bad \in SUBSET Nat
        OBVIOUS
    <2> QED BY <2>1, LeastNumber
<1>2. i \in 1..n
    OBVIOUS
<1>3. i - 1 \notin Bad
    BY <1>1, <1>2
<1> QED BY <1>2, <1>3

\* f is the recursive function that Picked is defined by.
PickedUpTo(order, ids, f) ==
    f = [i \in 0 .. Len(order) |->
            IF i = 0 THEN <<>>
            ELSE IF order[i].id \in ids THEN Append(f[i - 1], order[i])
            ELSE f[i - 1]]

\* That function exists.
LEMMA PickedIsDefined ==
    ASSUME NEW order, Len(order) \in Nat, NEW ids
    PROVE  \E f : PickedUpTo(order, ids, f) /\ Picked(order, ids) = f[Len(order)]
<1> DEFINE N == Len(order)
           Stage(f, i) == IF i = 0 THEN <<>>
                         ELSE IF order[i].id \in ids THEN Append(f[i - 1], order[i])
                         ELSE f[i - 1]
           Counts == {n \in Nat : \E f : f = [i \in 0..n |-> Stage(f, i)]}
<1>1. 0 \in Counts
    <2> DEFINE f == [i \in 0..0 |-> <<>>]
    <2>1. f = [i \in 0..0 |-> Stage(f, i)]
        OBVIOUS
    <2> QED BY <2>1
<1>2. ASSUME NEW n \in 1..N, n - 1 \in Counts
      PROVE  n \in Counts
    <2>0. n \in Nat /\ n - 1 \in Nat /\ n # 0
        OBVIOUS
    <2>1. PICK f : f = [i \in 0..(n - 1) |-> Stage(f, i)]
        BY <1>2
    <2> DEFINE g == [i \in 0..n |-> IF i = n THEN Stage(f, n) ELSE f[i]]
    <2>2. ASSUME NEW i \in 0..n
          PROVE  g[i] = Stage(g, i)
        <3>1. CASE i = n
            <4>1. n - 1 \in 0..n /\ n - 1 # n
                BY <2>0
            <4>2. g[n - 1] = f[n - 1]
                BY <4>1
            <4>3. g[i] = Stage(f, n)
                BY <3>1
            <4> QED BY <3>1, <4>2, <4>3
        <3>2. CASE i # n /\ i # 0
            <4>1. i - 1 \in 0..(n - 1) /\ i - 1 # n /\ i \in 0..(n - 1) /\ i - 1 \in 0..n
                BY <2>0, <3>2
            <4>2. g[i - 1] = f[i - 1]
                BY <4>1
            <4>3. g[i] = f[i]
                BY <3>2
            <4>4. f[i] = Stage(f, i)
                <5> HIDE DEF Stage
                <5> QED BY <2>1, <4>1
            <4> QED BY <3>2, <4>2, <4>3, <4>4
        <3>3. CASE i = 0
            <4>1. 0 # n /\ 0 \in 0..(n - 1) /\ 0 \in 0..n
                BY <2>0
            <4>2. g[0] = f[0]
                BY <4>1
            <4>3. f[0] = Stage(f, 0)
                BY <2>1, <4>1
            <4> QED BY <3>3, <4>2, <4>3
        <3> QED BY <3>1, <3>2, <3>3
    <2>3. g = [i \in 0..n |-> g[i]]
        OBVIOUS
    <2> HIDE DEF Stage, g
    <2>4. g = [i \in 0..n |-> Stage(g, i)]
        BY <2>2, <2>3
    <2> QED BY <2>0, <2>4
<1> HIDE DEF Counts
<1>3. N \in 0..N
    OBVIOUS
<1>4. N \in Counts
    BY <1>1, <1>2, <1>3, UpTo
<1>5. \E f : PickedUpTo(order, ids, f)
    BY <1>4 DEF Counts, PickedUpTo
<1> DEFINE picked == CHOOSE f : PickedUpTo(order, ids, f)
<1>6. PickedUpTo(order, ids, picked)
    BY <1>5
<1>7. Picked(order, ids) = picked[Len(order)]
    BY DEF Picked, PickedUpTo
<1> QED BY <1>6, <1>7

\* What is picked are the entries with one of the ids, each once.
LEMMA PickedIsOrder ==
    ASSUME NEW order, OrderOK(order), NEW ids
    PROVE  /\ OrderOK(Picked(order, ids))
           /\ Entries(Picked(order, ids)) = {e \in Entries(order) : e.id \in ids}
<1>1. order \in Seq(Entry) /\ Len(order) \in Nat /\ DOMAIN order = 1 .. Len(order)
    BY DEF OrderOK
<1>2. PICK f : PickedUpTo(order, ids, f) /\ Picked(order, ids) = f[Len(order)]
    BY <1>1, PickedIsDefined
<1> DEFINE Upto(i) == {order[j] : j \in {k \in 1..i : order[k].id \in ids}}
           Right == {i \in 0..Len(order) : OrderOK(f[i]) /\ Entries(f[i]) = Upto(i)}
<1>3. 0 \in Right
    <2>1. f[0] = <<>>
        BY <1>1, <1>2 DEF PickedUpTo
    <2>2. OrderOK(<<>>) /\ Entries(<<>>) = {}
        BY DEF OrderOK, Entries
    <2> QED BY <1>1, <2>1, <2>2
<1>4. ASSUME NEW i \in 1..Len(order), i - 1 \in Right
      PROVE  i \in Right
    <2>0. i \in 0..Len(order) /\ i # 0 /\ i \in Nat /\ i - 1 \in Nat
        BY <1>1
    <2>1. f[i] = IF order[i].id \in ids THEN Append(f[i - 1], order[i]) ELSE f[i - 1]
        BY <1>2, <2>0 DEF PickedUpTo
    <2>2. OrderOK(f[i - 1]) /\ Entries(f[i - 1]) = Upto(i - 1)
        BY <1>4
    <2>3. Upto(i) = Upto(i - 1) \cup (IF order[i].id \in ids THEN {order[i]} ELSE {})
        <3>1. 1..i = 1..(i - 1) \cup {i}
            BY <2>0
        <3> QED BY <3>1
    <2>4. CASE order[i].id \notin ids
        BY <2>0, <2>1, <2>2, <2>3, <2>4
    <2>5. CASE order[i].id \in ids
        <3> DEFINE a == f[i - 1]
        <3>1. a \in Seq(Entry) /\ order[i] \in Entry
            BY <1>1, <2>2 DEF OrderOK
        <3>2. /\ Append(a, order[i]) \in Seq(Entry)
              /\ DOMAIN Append(a, order[i]) = DOMAIN a \cup {Len(a) + 1}
              /\ \A k \in DOMAIN a : Append(a, order[i])[k] = a[k]
              /\ Append(a, order[i])[Len(a) + 1] = order[i]
              /\ Len(a) + 1 \notin DOMAIN a
            BY <3>1
        <3>3. \A k \in DOMAIN a : a[k].id # order[i].id
            <4> SUFFICES ASSUME NEW k \in DOMAIN a, a[k].id = order[i].id
                         PROVE  FALSE
                OBVIOUS
            <4>1. a[k] \in Upto(i - 1)
                BY <2>2 DEF Entries
            <4>2. PICK j \in 1..(i - 1) : a[k] = order[j]
                BY <4>1
            <4>3. j \in DOMAIN order /\ i \in DOMAIN order /\ j # i
                BY <1>1, <2>0
            <4> QED BY <4>2, <4>3 DEF OrderOK
        <3>4. OrderOK(Append(a, order[i]))
            BY <2>2, <3>2, <3>3 DEF OrderOK
        <3>5. Entries(Append(a, order[i])) = Entries(a) \cup {order[i]}
            BY <3>2 DEF Entries
        <3> QED BY <2>0, <2>1, <2>2, <2>3, <2>5, <3>4, <3>5
    <2> QED BY <2>4, <2>5
<1> HIDE DEF Right
<1>5. Len(order) \in Right
    <2>1. \A i \in 0..Len(order) : i \in Right
        BY <1>1, <1>3, <1>4, UpTo
    <2> QED BY <1>1, <2>1
<1>6. Upto(Len(order)) = {e \in Entries(order) : e.id \in ids}
    BY <1>1 DEF Entries
<1> QED BY <1>2, <1>5, <1>6 DEF Right

\* Two orders one behind the other.
LEMMA ConcatIsOrder ==
    ASSUME NEW a, NEW b, OrderOK(a), OrderOK(b), Ids(a) \cap Ids(b) = {}
    PROVE  /\ OrderOK(a \o b) /\ Entries(a \o b) = Entries(a) \cup Entries(b)
           /\ \A i \in DOMAIN a : i \in DOMAIN (a \o b) /\ (a \o b)[i] = a[i]
           /\ Len(a \o b) = Len(a) + Len(b)
<1>1. a \in Seq(Entry) /\ b \in Seq(Entry) /\ Len(a) \in Nat /\ Len(b) \in Nat
    BY DEF OrderOK
<1>2. /\ a \o b \in Seq(Entry) /\ Len(a \o b) = Len(a) + Len(b)
      /\ DOMAIN (a \o b) = 1 .. Len(a) + Len(b)
      /\ DOMAIN a = 1 .. Len(a) /\ DOMAIN b = 1 .. Len(b)
      /\ \A i \in DOMAIN (a \o b) : (a \o b)[i] = IF i <= Len(a) THEN a[i] ELSE b[i - Len(a)]
    BY <1>1
<1> DEFINE c == a \o b
<1> HIDE DEF c
<1>3. \A i \in DOMAIN c : \/ i \in DOMAIN a /\ c[i] = a[i]
                          \/ /\ i \notin DOMAIN a /\ i - Len(a) \in DOMAIN b
                             /\ c[i] = b[i - Len(a)]
    BY <1>1, <1>2 DEF c
<1>4. \A i \in DOMAIN a : i \in DOMAIN c /\ c[i] = a[i]
    BY <1>1, <1>2 DEF c
<1>5. \A i \in DOMAIN b : i + Len(a) \in DOMAIN c /\ c[i + Len(a)] = b[i]
    BY <1>1, <1>2 DEF c
<1>6. Entries(c) = Entries(a) \cup Entries(b)
    BY <1>3, <1>4, <1>5 DEF Entries
<1>7. ASSUME NEW i \in DOMAIN c, NEW j \in DOMAIN c, c[i].id = c[j].id
      PROVE  i = j
    <2>1. i \in Nat /\ j \in Nat
        BY <1>1, <1>2 DEF c
    <2>2. CASE i \in DOMAIN a /\ j \in DOMAIN a
        BY <1>3, <1>7, <2>2 DEF OrderOK
    <2>3. CASE i \notin DOMAIN a /\ j \notin DOMAIN a
        <3>1. b[i - Len(a)].id = b[j - Len(a)].id /\ i - Len(a) \in DOMAIN b /\ j - Len(a) \in DOMAIN b
            BY <1>3, <1>7, <2>3
        <3>2. i - Len(a) = j - Len(a)
            BY <3>1 DEF OrderOK
        <3> QED BY <1>1, <2>1, <3>2
    <2>4. \A k \in DOMAIN a, l \in DOMAIN b : a[k].id # b[l].id
        BY DEF Ids
    <2> QED BY <1>3, <1>7, <2>2, <2>3, <2>4
<1> QED BY <1>2, <1>4, <1>6, <1>7 DEF OrderOK, c

\* Workspaces just made.
LEMMA FreshIsOrder ==
    ASSUME NEW m \in Nat, NEW n \in Nat
    PROVE  LET more == [i \in 1 .. n |-> [id |-> m + i, members |-> {}]]
           IN  /\ OrderOK(more) /\ Len(more) = n
               /\ \A e \in Entries(more) : e.members = {} /\ e.id \in (m + 1) .. (m + n)
<1> DEFINE more == [i \in 1 .. n |-> [id |-> m + i, members |-> {}]]
<1>1. more \in [1 .. n -> Entry]
    BY DEF Entry
<1>2. more \in Seq(Entry) /\ Len(more) = n /\ DOMAIN more = 1 .. n
    BY <1>1
<1>3. \A i \in 1 .. n : more[i].id = m + i /\ more[i].members = {}
    OBVIOUS
<1> HIDE DEF more
<1>4. OrderOK(more)
    BY <1>2, <1>3 DEF OrderOK
<1>5. \A e \in Entries(more) : e.members = {} /\ e.id \in (m + 1) .. (m + n)
    BY <1>2, <1>3 DEF Entries
<1> QED BY <1>2, <1>4, <1>5 DEF more

\* The place of a workspace is where it is.
LEMMA PositionIs ==
    ASSUME NEW order, NEW id \in Ids(order)
    PROVE  Position(order, id) \in DOMAIN order /\ order[Position(order, id)].id = id
BY DEF Position, Ids

\* The ids of an order are those of its entries.
LEMMA IdsOfEntries ==
    ASSUME NEW order
    PROVE  Ids(order) = {e.id : e \in Entries(order)}
BY DEF Ids, Entries

\* An entry is known by its id.
LEMMA OneEntry ==
    ASSUME NEW order, OrderOK(order), NEW e \in Entries(order), NEW f \in Entries(order),
           e.id = f.id
    PROVE  e = f
BY DEF OrderOK, Entries

-----------------------------------------------------------------------------
(* The registry.                                                               *)

\* What TileLoop consists of (tiling_sys.rs, workspace.rs).
Fields == {"outputs", "displaced", "membership", "previous", "baseline", "minted", "claims",
           "sticky", "known"}

\* y is x but for the fields F.
Only(y, x, F) == DOMAIN y = Fields /\ \A f \in Fields \ F : y[f] = x[f]

\* The entries of the order of an output, none if there is no such output.
EntriesOf(s, o) == IF o \in DOMAIN s.outputs THEN Entries(s.outputs[o].order) ELSE {}

\* The windows on record at workspace id of output o.
OnRecord(s, o, id) ==
    {w \in DOMAIN s.membership : s.membership[w].output = o /\ s.membership[w].ws = id}

\* An output shows one of its workspaces, if it has any.
OutOK(out) ==
    /\ OrderOK(out.order)
    /\ out.active \in DOMAIN out.order \/ (out.order = <<>> /\ out.active = 1)

\* The tables are about outputs and windows there are.
Form(s) ==
    /\ DOMAIN s = Fields /\ s.minted \in Nat
    /\ DOMAIN s.outputs \subseteq Outputs /\ s.known \subseteq Outputs
    /\ \A o \in DOMAIN s.outputs : OutOK(s.outputs[o])
    /\ DOMAIN s.membership \subseteq Windows /\ s.sticky \subseteq DOMAIN s.membership
    /\ \A w \in DOMAIN s.membership : DOMAIN s.membership[w] = {"output", "ws", "hidden"}
\* No workspace is of two outputs.
Apart(s) == \A o, p \in DOMAIN s.outputs : o # p => IdsOf(s, o) \cap IdsOf(s, p) = {}
\* The members of a workspace are those on record for it, and its id was minted.
Seats(s) ==
    \A o \in DOMAIN s.outputs : \A e \in EntriesOf(s, o) :
        e.id \in 1 .. s.minted /\ e.members = OnRecord(s, o, e.id)
\* A window is on record for a workspace of its output, but for sticky ones whose
\* workspace was tidied away.
Homed(s) ==
    \A w \in DOMAIN s.membership :
        /\ s.membership[w].ws \in 1 .. s.minted
        /\ \/ s.membership[w].ws \in IdsOf(s, s.membership[w].output)
           \/ w \in s.sticky /\ \A o \in DOMAIN s.outputs : s.membership[w].ws \notin IdsOf(s, o)
\* A claim is on a member on record as hidden that is not sticky.
Held(s) == \A w \in s.claims : w \in DOMAIN s.membership \ s.sticky /\ s.membership[w].hidden
\* The workspaces kept for an output that is gone are somewhere else.
KeptFor(s) ==
    \A o \in DOMAIN s.displaced :
        s.displaced[o].dest # o /\ s.displaced[o].ids \subseteq Live(s)

Sound(s) == Form(s) /\ Apart(s) /\ Seats(s) /\ Homed(s) /\ Held(s) /\ KeptFor(s)

\* The history of outputs follows their views, but for the outputs O.
History(s, O) ==
    /\ DOMAIN s.baseline \cup DOMAIN s.previous \subseteq DOMAIN s.outputs
    /\ \A o \in DOMAIN s.outputs \ O :
          /\ ActiveId(s, o) # 0 =>
                o \in DOMAIN s.baseline /\ s.baseline[o] = ActiveId(s, o)
          /\ o \in DOMAIN s.previous => s.previous[o] \in IdsOf(s, o)

\* The registry between two steps of a handler.
Good(s) == Sound(s) /\ History(s, {})

\* From x to y the monitors stay, no view turns, and what is held hidden was held hidden
\* before and is in the same place.
Steady(y, x) ==
    /\ y.known = x.known /\ DOMAIN y.displaced \subseteq DOMAIN x.displaced
    /\ DOMAIN x.outputs \subseteq DOMAIN y.outputs
    /\ \A o \in DOMAIN x.outputs : ActiveId(y, o) = ActiveId(x, o)
    /\ y.claims \subseteq x.claims
    /\ \A w \in y.claims : /\ y.membership[w].output = x.membership[w].output
                           /\ y.membership[w].ws = x.membership[w].ws

\* Steady steps are one steady step.
LEMMA SteadyTogether ==
    ASSUME NEW x, NEW y, NEW z, Steady(y, x), Steady(z, y)
    PROVE  Steady(z, x)
BY DEF Steady

\* Every view of y is as it was in s, or nothing in it is held hidden.
Revealed(y, s) ==
    \A o : \/ ActiveId(y, o) = ActiveId(s, o)
          \/ \A w \in y.claims : y.membership[w].output = o => y.membership[w].ws # ActiveId(y, o)

\* A steady step leaves it so: what is held hidden is at an output that was there.
LEMMA SteadyReveals ==
    ASSUME NEW x, Sound(x), NEW s, Revealed(x, s), NEW y, Steady(y, x)
    PROVE  Revealed(y, s)
<1>1. \A w \in x.claims : x.membership[w].output \in DOMAIN x.outputs
    BY DEF Sound, Held, Homed, IdsOf
<1> QED BY <1>1 DEF Steady, Revealed

\* From x to y no view turns, and what is held hidden was before, in the same place, or
\* is at output o.
Mild(y, x, o) ==
    /\ y.known = x.known /\ DOMAIN y.displaced \subseteq DOMAIN x.displaced
    /\ \A p : ActiveId(y, p) = ActiveId(x, p)
    /\ \A w \in y.claims : \/ y.membership[w].output = o
                           \/ /\ w \in x.claims
                              /\ y.membership[w].output = x.membership[w].output
                              /\ y.membership[w].ws = x.membership[w].ws

\* Such a step leaves it so if the view of o is as it was.
LEMMA MildReveals ==
    ASSUME NEW x, NEW s, Revealed(x, s), NEW o, ActiveId(x, o) = ActiveId(s, o),
           NEW y, Mild(y, x, o)
    PROVE  Revealed(y, s) /\ ActiveId(y, o) = ActiveId(s, o)
BY DEF Mild, Revealed

\* The monitors of s stay, none takes workspaces back, and every view of y is as it was
\* in s or shows nothing that is held hidden.
Calm(y, s) ==
    y.known = s.known /\ DOMAIN y.displaced \subseteq DOMAIN s.displaced /\ Revealed(y, s)

\* That is so of nothing done, and a steady step leaves it so.
LEMMA SteadyIsCalm ==
    ASSUME NEW x, Sound(x), NEW y, Steady(y, x)
    PROVE  Calm(x, x) /\ \A s : Calm(x, s) => Calm(y, s)
<1>1. Calm(x, x)
    BY DEF Calm, Revealed
<1>2. ASSUME NEW s, Calm(x, s)
      PROVE  Calm(y, s)
    BY <1>2, SteadyReveals DEF Calm, Steady
<1> QED BY <1>1, <1>2

\* The ids of an output are those of its entries.
LEMMA IdsOfIs ==
    ASSUME NEW s, NEW o
    PROVE  IdsOf(s, o) = {e.id : e \in EntriesOf(s, o)}
BY IdsOfEntries DEF IdsOf, EntriesOf

\* An entry is a record of the registry, known by its id.
LEMMA EntryIs ==
    ASSUME NEW s, Form(s), NEW o, NEW e \in EntriesOf(s, o)
    PROVE  /\ o \in DOMAIN s.outputs /\ e \in Entry
           /\ \A f \in EntriesOf(s, o) : e.id = f.id => e = f
<1>1. o \in DOMAIN s.outputs /\ EntriesOf(s, o) = Entries(s.outputs[o].order)
    BY DEF EntriesOf
<1>2. OrderOK(s.outputs[o].order)
    BY <1>1 DEF Form, OutOK
<1>3. e \in Entry
    BY <1>1, <1>2 DEF OrderOK, Entries
<1> QED BY <1>1, <1>2, <1>3, OneEntry

\* Where the outputs are the same, so is what they hold.
LEMMA SameOutputs ==
    ASSUME NEW x, NEW y, y.outputs = x.outputs
    PROVE  /\ \A o : EntriesOf(y, o) = EntriesOf(x, o) /\ IdsOf(y, o) = IdsOf(x, o)
           /\ \A o : ActiveId(y, o) = ActiveId(x, o)
           /\ Live(y) = Live(x)
BY DEF EntriesOf, IdsOf, ActiveId, Live

\* The flags, the claims and the history are not part of where windows are.
LEMMA TouchedKeeps ==
    ASSUME NEW x, Sound(x), NEW y,
           Only(y, x, {"membership", "claims", "sticky", "previous", "baseline", "known"}),
           y.known \subseteq Outputs, Held(y),
           DOMAIN y.membership = DOMAIN x.membership,
           \A w \in DOMAIN x.membership :
               /\ DOMAIN y.membership[w] = {"output", "ws", "hidden"}
               /\ y.membership[w].output = x.membership[w].output
               /\ y.membership[w].ws = x.membership[w].ws,
           y.sticky \subseteq DOMAIN x.membership,
           \A w \in x.sticky \ y.sticky : x.membership[w].ws \in IdsOf(x, x.membership[w].output)
    PROVE  Sound(y)
<1>1. y.outputs = x.outputs /\ y.minted = x.minted /\ y.displaced = x.displaced
    BY DEF Only, Fields
<1>2. Form(y)
    BY <1>1 DEF Sound, Form, Only
<1>3. Apart(y) /\ KeptFor(y)
    BY <1>1, SameOutputs DEF Sound, Apart, KeptFor
<1>4. \A o, id : OnRecord(y, o, id) = OnRecord(x, o, id)
    BY DEF OnRecord
<1>5. Seats(y)
    BY <1>1, <1>4, SameOutputs DEF Sound, Seats
<1>6. Homed(y)
    BY <1>1, SameOutputs DEF Sound, Homed
<1> QED BY <1>2, <1>3, <1>5, <1>6 DEF Sound

\* Of the history nothing is asked here.
LEMMA HistoryAside ==
    ASSUME NEW x, Sound(x), NEW y, Only(y, x, {"previous", "baseline"})
    PROVE  Sound(y)
<1>1. /\ y.membership = x.membership /\ y.claims = x.claims /\ y.sticky = x.sticky
      /\ y.known = x.known
    BY DEF Only, Fields
<1>2. Held(y)
    BY <1>1 DEF Sound, Held
<1>3. Only(y, x, {"membership", "claims", "sticky", "previous", "baseline", "known"})
    BY DEF Only
<1>4. /\ y.known \subseteq Outputs /\ y.sticky \subseteq DOMAIN x.membership
      /\ \A w \in DOMAIN x.membership : DOMAIN y.membership[w] = {"output", "ws", "hidden"}
    BY <1>1 DEF Sound, Form
<1> QED BY <1>1, <1>2, <1>3, <1>4, TouchedKeeps

\* An output whose order is other entries it had and workspaces just made, when what it
\* lost had sticky members only.
LEMMA RegrownKeeps ==
    ASSUME NEW x, Sound(x), NEW y, NEW o \in Outputs,
           Only(y, x, {"outputs", "minted", "displaced", "previous", "baseline"}),
           DOMAIN y.outputs = DOMAIN x.outputs \cup {o},
           \A p \in DOMAIN x.outputs \ {o} : y.outputs[p] = x.outputs[p],
           OutOK(y.outputs[o]),
           y.minted \in Nat, x.minted <= y.minted,
           \A e \in EntriesOf(y, o) :
               \/ e \in EntriesOf(x, o)
               \/ e.members = {} /\ e.id \in (x.minted + 1) .. y.minted,
           \A e \in EntriesOf(x, o) \ EntriesOf(y, o) : e.members \subseteq x.sticky,
           KeptFor(y)
    PROVE  Sound(y)
<1>0. Form(x) /\ x.minted \in Nat
    BY DEF Sound, Form
<1>1. /\ y.membership = x.membership /\ y.claims = x.claims /\ y.sticky = x.sticky
      /\ y.known = x.known
    BY DEF Only, Fields
<1>2. Form(y)
    BY <1>1 DEF Sound, Form, Only
<1>3. Held(y)
    BY <1>1 DEF Sound, Held
<1>4. \A p : p # o => EntriesOf(y, p) = EntriesOf(x, p) /\ IdsOf(y, p) = IdsOf(x, p)
    BY DEF EntriesOf, IdsOf
<1>5. \A q, id : OnRecord(y, q, id) = OnRecord(x, q, id)
    BY <1>1 DEF OnRecord
<1>6. \A p : \A e \in EntriesOf(x, p) :
          p \in DOMAIN x.outputs /\ e.id \in 1 .. x.minted /\ e.members = OnRecord(x, p, e.id)
    BY DEF Sound, Seats, EntriesOf
<1>7. \A w \in DOMAIN x.membership : x.membership[w].ws \in 1 .. x.minted
    BY DEF Sound, Homed
<1>8. Seats(y)
    <2> SUFFICES ASSUME NEW p \in DOMAIN y.outputs, NEW e \in EntriesOf(y, p)
                 PROVE  e.id \in 1 .. y.minted /\ e.members = OnRecord(y, p, e.id)
        BY DEF Seats
    <2>1. CASE e \in EntriesOf(x, p)
        BY <1>0, <1>5, <1>6, <2>1
    <2>2. CASE e \notin EntriesOf(x, p)
        <3>1. e.members = {} /\ e.id \in (x.minted + 1) .. y.minted
            BY <1>4, <2>2
        <3>2. OnRecord(x, p, e.id) = {}
            BY <1>0, <1>7, <3>1 DEF OnRecord
        <3> QED BY <1>0, <1>5, <3>1, <3>2
    <2> QED BY <2>1, <2>2
<1>9. \A id \in IdsOf(y, o) : id \in IdsOf(x, o) \/ id \in (x.minted + 1) .. y.minted
    BY IdsOfIs
<1>10. \A p : \A id \in IdsOf(x, p) : p \in DOMAIN x.outputs /\ id \in 1 .. x.minted
    BY <1>6, IdsOfIs
<1>11. Apart(y)
    <2> SUFFICES ASSUME NEW p \in DOMAIN y.outputs, NEW q \in DOMAIN y.outputs, p # q,
                        NEW id \in IdsOf(y, p) \cap IdsOf(y, q)
                 PROVE  FALSE
        BY DEF Apart
    <2>1. \A r : id \in IdsOf(y, r) => id \in IdsOf(x, r) \/ (r = o /\ id \in (x.minted + 1) .. y.minted)
        BY <1>4, <1>9
    <2>2. \A r : id \in IdsOf(x, r) => r \in DOMAIN x.outputs /\ id \in 1 .. x.minted
        BY <1>10
    <2>3. ~(id \in (x.minted + 1) .. y.minted /\ id \in 1 .. x.minted)
        BY <1>0
    <2>4. id \in IdsOf(x, p) /\ id \in IdsOf(x, q)
        BY <2>1, <2>2, <2>3
    <2> QED BY <2>2, <2>4 DEF Sound, Apart
<1>12. Homed(y)
    <2> SUFFICES ASSUME NEW w \in DOMAIN x.membership
                 PROVE  /\ x.membership[w].ws \in 1 .. y.minted
                        /\ \/ x.membership[w].ws \in IdsOf(y, x.membership[w].output)
                           \/ /\ w \in x.sticky
                              /\ \A p \in DOMAIN y.outputs : x.membership[w].ws \notin IdsOf(y, p)
        BY <1>1 DEF Homed
    <2> DEFINE id == x.membership[w].ws
               r == x.membership[w].output
    <2>1. id \in 1 .. x.minted /\ id \in 1 .. y.minted
        BY <1>0, <1>7
    <2>2. \A p : id \in IdsOf(y, p) => id \in IdsOf(x, p)
        BY <1>0, <1>4, <1>9, <2>1
    <2>3. \/ id \in IdsOf(x, r)
          \/ w \in x.sticky /\ \A p \in DOMAIN x.outputs : id \notin IdsOf(x, p)
        BY DEF Sound, Homed
    <2>4. w \in OnRecord(x, r, id)
        BY DEF OnRecord
    <2> HIDE DEF id, r
    <2>5. CASE id \in IdsOf(x, r) /\ id \notin IdsOf(y, r)
        <3>1. r = o
            BY <1>4, <2>5
        <3>2. PICK e \in EntriesOf(x, o) : e.id = id
            BY <2>5, <3>1, IdsOfIs
        <3>3. e \notin EntriesOf(y, o)
            BY <2>5, <3>1, <3>2, IdsOfIs
        <3>4. w \in x.sticky
            BY <1>6, <2>4, <3>1, <3>2, <3>3
        <3>5. \A p \in DOMAIN y.outputs : id \notin IdsOf(y, p)
            BY <1>10, <2>2, <2>5 DEF Sound, Apart
        <3> QED BY <2>1, <3>4, <3>5 DEF id, r
    <2>6. CASE id \notin IdsOf(x, r)
        BY <1>10, <2>1, <2>2, <2>3, <2>6 DEF id, r
    <2>7. CASE id \in IdsOf(y, r)
        BY <2>1, <2>7 DEF id, r
    <2> QED BY <2>5, <2>6, <2>7
<1> QED BY <1>2, <1>3, <1>8, <1>11, <1>12 DEF Sound

\* History is about views and ids.
LEMMA HistoryStays ==
    ASSUME NEW x, NEW y, NEW O, History(x, O),
           y.baseline = x.baseline, y.previous = x.previous,
           DOMAIN y.outputs = DOMAIN x.outputs,
           \A o \in DOMAIN x.outputs : ActiveId(y, o) = ActiveId(x, o) /\ IdsOf(y, o) = IdsOf(x, o)
    PROVE  History(y, O)
BY DEF History

\* y is x with the workspaces M of output p at output q, their members with them.
Shift(y, x, p, q, M) ==
    /\ p \in DOMAIN x.outputs /\ q \in Outputs /\ p # q
    /\ Only(y, x, {"outputs", "membership", "displaced", "previous", "baseline"})
    /\ DOMAIN y.membership = DOMAIN x.membership
    /\ \A w \in DOMAIN x.membership :
          LET m == x.membership[w]
              n == y.membership[w]
          IN  /\ DOMAIN n = {"output", "ws", "hidden"} /\ n.ws = m.ws /\ n.hidden = m.hidden
              /\ n.output = IF m.output = p /\ m.ws \in M THEN q ELSE m.output
    /\ DOMAIN x.outputs \ {p} \subseteq DOMAIN y.outputs
    /\ q \in DOMAIN y.outputs /\ DOMAIN y.outputs \subseteq DOMAIN x.outputs \cup {q}
    /\ \A r \in DOMAIN x.outputs \ {p, q} : y.outputs[r] = x.outputs[r]
    /\ OutOK(y.outputs[q]) /\ (p \in DOMAIN y.outputs => OutOK(y.outputs[p]))
    /\ EntriesOf(y, q) = EntriesOf(x, q) \cup {e \in EntriesOf(x, p) : e.id \in M}
    /\ EntriesOf(y, p) = {e \in EntriesOf(x, p) : e.id \notin M}
    /\ \A o \in DOMAIN y.displaced :
          y.displaced[o].dest # o /\ y.displaced[o].ids \subseteq Live(x)

\* The workspaces of one output become those of another.
LEMMA ShiftedKeeps ==
    ASSUME NEW x, Sound(x), NEW y, NEW p, NEW q, NEW M, Shift(y, x, p, q, M)
    PROVE  Sound(y) /\ Live(y) = Live(x)
<1> USE DEF Shift
<1>0. Form(x) /\ Apart(x) /\ Seats(x) /\ Homed(x) /\ Held(x)
    BY DEF Sound
<1>1. y.minted = x.minted /\ y.claims = x.claims /\ y.sticky = x.sticky /\ y.known = x.known
    BY DEF Only, Fields
<1>3. Form(y)
    BY <1>0, <1>1 DEF Form, Only
<1>4. Held(y)
    BY <1>0, <1>1 DEF Held
<1>5. \A r : r \notin {p, q} => EntriesOf(y, r) = EntriesOf(x, r)
    BY DEF EntriesOf
<1>6. \A r : \A id : id \in IdsOf(x, r) => r \in DOMAIN x.outputs /\ id \in 1 .. x.minted
    BY <1>0, IdsOfIs DEF Seats, EntriesOf
<1>7. /\ \A r : r \notin {p, q} => IdsOf(y, r) = IdsOf(x, r)
      /\ IdsOf(y, q) = IdsOf(x, q) \cup (IdsOf(x, p) \cap M)
      /\ IdsOf(y, p) = IdsOf(x, p) \ M
    <2>1. IdsOf(y, q) = {e.id : e \in EntriesOf(x, q) \cup {d \in EntriesOf(x, p) : d.id \in M}}
        BY IdsOfIs
    <2>2. IdsOf(y, p) = {e.id : e \in {d \in EntriesOf(x, p) : d.id \notin M}}
        BY IdsOfIs
    <2>3. IdsOf(x, q) = {e.id : e \in EntriesOf(x, q)} /\ IdsOf(x, p) = {e.id : e \in EntriesOf(x, p)}
        BY IdsOfIs
    <2>4. IdsOf(y, q) = IdsOf(x, q) \cup (IdsOf(x, p) \cap M)
        BY <2>1, <2>3
    <2>5. IdsOf(y, p) = IdsOf(x, p) \ M
        BY <2>2, <2>3
    <2>6. \A r : r \notin {p, q} => IdsOf(y, r) = IdsOf(x, r)
        BY <1>5, IdsOfIs
    <2> QED BY <2>4, <2>5, <2>6
<1>8. Apart(y)
    BY <1>0, <1>6, <1>7 DEF Apart
<1>9. \A id, r : id \in IdsOf(x, r) =>
          /\ \A w \in DOMAIN x.membership : x.membership[w].ws = id => x.membership[w].output = r
          /\ \A s : id \in IdsOf(x, s) => s = r
    BY <1>0, <1>6 DEF Homed, Apart
<1>10. Seats(y)
    <2> SUFFICES ASSUME NEW r \in DOMAIN y.outputs, NEW e \in EntriesOf(y, r)
                 PROVE  e.id \in 1 .. y.minted /\ e.members = OnRecord(y, r, e.id)
        BY DEF Seats
    <2>1. PICK s : e \in EntriesOf(x, s) /\ (s = r \/ (s = p /\ r = q /\ e.id \in M))
                   /\ (s = p /\ r = p => e.id \notin M)
        BY <1>5
    <2>2. /\ s \in DOMAIN x.outputs /\ e.id \in 1 .. x.minted /\ e.members = OnRecord(x, s, e.id)
          /\ e.id \in IdsOf(x, s)
        BY <1>0, <2>1, IdsOfIs DEF Seats, EntriesOf
    <2>3. \A w \in DOMAIN x.membership : x.membership[w].ws = e.id => x.membership[w].output = s
        BY <1>9, <2>2
    <2>4. OnRecord(y, r, e.id) = OnRecord(x, s, e.id)
        BY <2>1, <2>3 DEF OnRecord
    <2> QED BY <1>1, <2>2, <2>4
<1>11. Homed(y)
    <2> SUFFICES ASSUME NEW w \in DOMAIN x.membership
                 PROVE  /\ y.membership[w].ws \in 1 .. y.minted
                        /\ \/ y.membership[w].ws \in IdsOf(y, y.membership[w].output)
                           \/ /\ w \in y.sticky
                              /\ \A r \in DOMAIN y.outputs : y.membership[w].ws \notin IdsOf(y, r)
        BY DEF Homed
    <2>1. /\ y.membership[w].ws = x.membership[w].ws
          /\ y.membership[w].output = IF x.membership[w].output = p /\ x.membership[w].ws \in M
                                      THEN q ELSE x.membership[w].output
        OBVIOUS
    <2>2. CASE x.membership[w].ws \in IdsOf(x, x.membership[w].output)
        BY <1>0, <1>1, <1>7, <2>1, <2>2 DEF Homed
    <2>3. CASE w \in x.sticky /\ \A r \in DOMAIN x.outputs : x.membership[w].ws \notin IdsOf(x, r)
        BY <1>0, <1>1, <1>6, <1>7, <2>1, <2>3 DEF Homed
    <2> QED BY <1>0, <2>2, <2>3 DEF Homed
<1>12. \A id : (\E r \in DOMAIN y.outputs : id \in IdsOf(y, r))
               <=> (\E r \in DOMAIN x.outputs : id \in IdsOf(x, r))
    <2> SUFFICES ASSUME NEW id
                 PROVE  (\E r \in DOMAIN y.outputs : id \in IdsOf(y, r))
                        <=> (\E r \in DOMAIN x.outputs : id \in IdsOf(x, r))
        OBVIOUS
    <2>1. ASSUME NEW r \in DOMAIN y.outputs, id \in IdsOf(y, r)
          PROVE  \E s \in DOMAIN x.outputs : id \in IdsOf(x, s)
        BY <1>6, <1>7, <2>1
    <2>2. ASSUME NEW r \in DOMAIN x.outputs, id \in IdsOf(x, r)
          PROVE  \E s \in DOMAIN y.outputs : id \in IdsOf(y, s)
        <3>1. CASE r = p /\ id \in M
            BY <1>7, <2>2, <3>1
        <3>2. CASE r = p /\ id \notin M
            <4>1. id \in IdsOf(y, p)
                BY <1>7, <2>2, <3>2
            <4>2. p \in DOMAIN y.outputs
                BY <4>1 DEF IdsOf
            <4> QED BY <4>1, <4>2
        <3>3. CASE r # p
            BY <1>7, <2>2, <3>3
        <3> QED BY <3>1, <3>2, <3>3
    <2> QED BY <2>1, <2>2
<1>13. Live(y) = Live(x)
    BY <1>12 DEF Live
<1>14. KeptFor(y)
    BY <1>13 DEF KeptFor
<1> QED BY <1>3, <1>4, <1>8, <1>10, <1>11, <1>13, <1>14 DEF Sound

\* Windows that no claim is on go where they are told, or are forgotten.
LEMMA MovedKeeps ==
    ASSUME NEW x, Sound(x), NEW W, NEW at, W \cap x.claims = {},
           DOMAIN at \subseteq W \cap Windows,
           \A w \in DOMAIN at : /\ DOMAIN at[w] = {"output", "ws", "hidden"}
                                /\ at[w].ws \in IdsOf(x, at[w].output),
           NEW y, Only(y, Moved(x, W, at), {"sticky"}),
           y.sticky \subseteq x.sticky, x.sticky \ W \subseteq y.sticky,
           y.sticky \cap W \subseteq DOMAIN at
    PROVE  /\ Sound(y) /\ Only(y, x, {"outputs", "membership", "sticky"})
           /\ DOMAIN y.outputs = DOMAIN x.outputs
           /\ \A o : IdsOf(y, o) = IdsOf(x, o) /\ ActiveId(y, o) = ActiveId(x, o)
           /\ DOMAIN y.membership = (DOMAIN x.membership \ W) \cup DOMAIN at
           /\ \A w \in DOMAIN y.membership :
                  y.membership[w] = IF w \in W THEN at[w] ELSE x.membership[w]
           /\ \A O : History(x, O) => History(y, O)
           /\ Steady(y, x)
<1> DEFINE Arrived(o, id) == {w \in DOMAIN at : at[w].output = o /\ at[w].ws = id}
           Seated(o, e) == [id |-> e.id, members |-> (e.members \ W) \cup Arrived(o, e.id)]
<1>0. Form(x) /\ Apart(x) /\ Seats(x) /\ Homed(x) /\ Held(x) /\ KeptFor(x)
    BY DEF Sound
<1>1. Only(y, x, {"outputs", "membership", "sticky"})
    BY <1>0 DEF Moved, Only, Form, Fields
<1>2. /\ y.outputs = [o \in DOMAIN x.outputs |->
              [order |-> [i \in DOMAIN x.outputs[o].order |-> Seated(o, x.outputs[o].order[i])],
               active |-> x.outputs[o].active]]
      /\ y.membership = [w \in (DOMAIN x.membership \ W) \cup DOMAIN at |->
                            IF w \in W THEN at[w] ELSE x.membership[w]]
    BY <1>0 DEF Moved, Only, Form, Fields
<1>3. /\ y.minted = x.minted /\ y.claims = x.claims /\ y.known = x.known
      /\ y.displaced = x.displaced /\ y.previous = x.previous /\ y.baseline = x.baseline
    BY <1>1 DEF Only, Fields
<1>4. /\ DOMAIN y.membership = (DOMAIN x.membership \ W) \cup DOMAIN at
      /\ \A w \in DOMAIN y.membership :
             y.membership[w] = IF w \in W THEN at[w] ELSE x.membership[w]
    BY <1>2
<1>5. \A o, e : Seated(o, e).id = e.id
                /\ Seated(o, e).members = (e.members \ W) \cup Arrived(o, e.id)
    OBVIOUS
<1>6. \A o, e : e \in Entry => Seated(o, e) \in Entry
    BY DEF Entry
<1> HIDE DEF Seated
<1>7. /\ DOMAIN y.outputs = DOMAIN x.outputs
      /\ \A o \in DOMAIN x.outputs :
             /\ DOMAIN y.outputs[o].order = DOMAIN x.outputs[o].order
             /\ y.outputs[o].order =
                    [i \in DOMAIN x.outputs[o].order |-> Seated(o, x.outputs[o].order[i])]
             /\ y.outputs[o].active = x.outputs[o].active
    BY <1>2
<1>8. ASSUME NEW o \in DOMAIN x.outputs
      PROVE  /\ OutOK(y.outputs[o]) /\ IdsOf(y, o) = IdsOf(x, o) /\ ActiveId(y, o) = ActiveId(x, o)
             /\ EntriesOf(y, o) = {Seated(o, e) : e \in EntriesOf(x, o)}
    <2> DEFINE a == x.outputs[o].order
               b == y.outputs[o].order
    <2>1. /\ OutOK(x.outputs[o]) /\ OrderOK(a) /\ a \in Seq(Entry)
        BY <1>0 DEF Form, OutOK, OrderOK
    <2>2. b = [i \in DOMAIN a |-> Seated(o, a[i])] /\ DOMAIN b = DOMAIN a
        BY <1>7
    <2>3. \A i \in DOMAIN a : b[i] = Seated(o, a[i]) /\ b[i].id = a[i].id
        BY <1>5, <2>2
    <2>4. b \in Seq(Entry) /\ (b = <<>> <=> a = <<>>)
        <3>1. \A i \in DOMAIN a : a[i] \in Entry
            BY <2>1
        <3>2. b \in [1 .. Len(a) -> Entry] /\ Len(a) \in Nat
            BY <1>6, <2>1, <2>2, <3>1
        <3>3. b \in Seq(Entry)
            BY <3>2
        <3> QED BY <2>1, <2>2, <3>2, <3>3
    <2> HIDE DEF a, b
    <2>5. OrderOK(b)
        BY <2>1, <2>2, <2>3, <2>4 DEF OrderOK
    <2>6. OutOK(y.outputs[o])
        BY <1>7, <2>1, <2>2, <2>4, <2>5 DEF OutOK, a, b
    <2>7. Ids(b) = Ids(a)
        BY <2>2, <2>3 DEF Ids
    <2>8. IdsOf(y, o) = IdsOf(x, o)
        BY <1>7, <2>7 DEF IdsOf, a, b
    <2>9. ActiveId(y, o) = ActiveId(x, o)
        <3>1. a # <<>> => x.outputs[o].active \in DOMAIN a
            BY <2>1 DEF OutOK, a
        <3> QED BY <1>7, <2>3, <2>4, <3>1 DEF ActiveId, a, b
    <2>10. EntriesOf(y, o) = {Seated(o, e) : e \in EntriesOf(x, o)}
        BY <1>7, <2>2, <2>3 DEF EntriesOf, Entries, a, b
    <2> QED BY <2>6, <2>8, <2>9, <2>10
<1>9. \A o : IdsOf(y, o) = IdsOf(x, o) /\ ActiveId(y, o) = ActiveId(x, o)
    BY <1>7, <1>8 DEF IdsOf, ActiveId
<1>10. Live(y) = Live(x)
    BY <1>7, <1>9 DEF Live
<1>11. Form(y)
    BY <1>0, <1>1, <1>3, <1>4, <1>7, <1>8 DEF Form, Only
<1>12. Apart(y) /\ KeptFor(y)
    BY <1>0, <1>3, <1>7, <1>9, <1>10 DEF Apart, KeptFor
<1>13. \A o, id : OnRecord(y, o, id) = (OnRecord(x, o, id) \ W) \cup Arrived(o, id)
    BY <1>4 DEF OnRecord
<1> HIDE DEF Arrived
<1>14. Seats(y)
    <2> SUFFICES ASSUME NEW o \in DOMAIN x.outputs, NEW e \in EntriesOf(y, o)
                 PROVE  e.id \in 1 .. x.minted /\ e.members = OnRecord(y, o, e.id)
        BY <1>3, <1>7 DEF Seats
    <2>1. PICK d \in EntriesOf(x, o) : e = Seated(o, d)
        BY <1>8
    <2>2. d.id \in 1 .. x.minted /\ d.members = OnRecord(x, o, d.id)
        BY <1>0 DEF Seats
    <2>3. e.id = d.id /\ e.members = (d.members \ W) \cup Arrived(o, d.id)
        BY <1>5, <2>1
    <2>4. OnRecord(y, o, d.id) = (OnRecord(x, o, d.id) \ W) \cup Arrived(o, d.id)
        BY <1>13
    <2> QED BY <2>2, <2>3, <2>4
<1>15. \A o : \A id \in IdsOf(x, o) : id \in 1 .. x.minted
    BY <1>0, IdsOfIs DEF Seats, EntriesOf
<1>16. Homed(y)
    <2> SUFFICES ASSUME NEW w \in DOMAIN y.membership
                 PROVE  /\ y.membership[w].ws \in 1 .. x.minted
                        /\ \/ y.membership[w].ws \in IdsOf(x, y.membership[w].output)
                           \/ /\ w \in y.sticky
                              /\ \A o \in DOMAIN x.outputs : y.membership[w].ws \notin IdsOf(x, o)
        BY <1>3, <1>7, <1>9 DEF Homed
    <2>1. CASE w \in W
        BY <1>4, <1>15, <2>1
    <2>2. CASE w \notin W
        BY <1>0, <1>4, <2>2 DEF Homed
    <2> QED BY <2>1, <2>2
<1>17. Held(y)
    BY <1>0, <1>3, <1>4 DEF Held
<1>18. Sound(y)
    BY <1>11, <1>12, <1>14, <1>16, <1>17 DEF Sound
<1>19. \A O : History(x, O) => History(y, O)
    BY <1>3, <1>7, <1>9, HistoryStays
<1>20. Steady(y, x)
    BY <1>0, <1>3, <1>4, <1>7, <1>9 DEF Steady, Held
<1> QED BY <1>1, <1>4, <1>7, <1>9, <1>18, <1>19, <1>20

-----------------------------------------------------------------------------
(* The history of views.                                                       *)

\* An output with a workspace shows one; one without shows none.
LEMMA ActiveIs ==
    ASSUME NEW x, Sound(x), NEW o
    PROVE  /\ o \notin DOMAIN x.outputs => ActiveId(x, o) = 0
           /\ o \in DOMAIN x.outputs =>
                  /\ x.outputs[o].order = <<>> <=> ActiveId(x, o) = 0
                  /\ ActiveId(x, o) # 0 =>
                        /\ ActiveId(x, o) \in IdsOf(x, o)
                        /\ x.outputs[o].active \in DOMAIN x.outputs[o].order
                        /\ ActiveId(x, o) = x.outputs[o].order[x.outputs[o].active].id
           /\ 0 \notin IdsOf(x, o)
<1>1. 0 \notin IdsOf(x, o)
    <2>1. \A e \in EntriesOf(x, o) : e.id \in 1 .. x.minted /\ x.minted \in Nat
        BY DEF Sound, Seats, EntriesOf, Form
    <2> QED BY <2>1, IdsOfIs
<1>2. o \notin DOMAIN x.outputs => ActiveId(x, o) = 0
    BY DEF ActiveId
<1>3. ASSUME o \in DOMAIN x.outputs, x.outputs[o].order # <<>>
      PROVE  /\ ActiveId(x, o) \in IdsOf(x, o) /\ x.outputs[o].active \in DOMAIN x.outputs[o].order
             /\ ActiveId(x, o) = x.outputs[o].order[x.outputs[o].active].id
    <2>1. x.outputs[o].active \in DOMAIN x.outputs[o].order
        BY <1>3 DEF Sound, Form, OutOK
    <2>2. ActiveId(x, o) = x.outputs[o].order[x.outputs[o].active].id
        BY <1>3 DEF ActiveId
    <2>3. ActiveId(x, o) \in IdsOf(x, o)
        BY <1>3, <2>1, <2>2 DEF IdsOf, Ids
    <2> QED BY <2>1, <2>2, <2>3
<1>4. x.outputs[o].order = <<>> => ActiveId(x, o) = 0
    BY DEF ActiveId
<1> QED BY <1>1, <1>2, <1>3, <1>4

\* What history says is made true again at an output whose baseline is its view or is
\* not one of its workspaces.
LEMMA ValidateKeeps ==
    ASSUME NEW x, Sound(x), NEW o, NEW O, History(x, O \cup {o}),
           ActiveId(x, o) # 0 =>
               /\ o \in DOMAIN x.baseline
               /\ x.baseline[o] = ActiveId(x, o) \/ x.baseline[o] \notin IdsOf(x, o)
    PROVE  /\ Only(validate_history(x, o), x, {"previous", "baseline"})
           /\ Sound(validate_history(x, o)) /\ History(validate_history(x, o), O)
<1> DEFINE y == validate_history(x, o)
           stale == {p \in {o} \cap DOMAIN x.previous : x.previous[p] \notin IdsOf(x, o)}
           lost == {p \in {o} \cap DOMAIN x.baseline : x.baseline[p] \notin IdsOf(x, o)}
<1>0. DOMAIN x = Fields
    BY DEF Sound, Form
<1>1. /\ Only(y, x, {"previous", "baseline"})
      /\ y.previous = Without(x.previous, stale)
      /\ y.baseline = IF lost = {} THEN x.baseline
                      ELSE IF ActiveId(x, o) = 0 THEN Without(x.baseline, lost)
                      ELSE With(x.baseline, o, ActiveId(x, o))
    BY <1>0 DEF validate_history, Only, Fields
<1>2. y.outputs = x.outputs
    BY <1>1 DEF Only, Fields
<1>3. Sound(y)
    BY <1>1, HistoryAside
<1>4. \A p : IdsOf(y, p) = IdsOf(x, p) /\ ActiveId(y, p) = ActiveId(x, p)
    BY <1>2, SameOutputs
<1>5. /\ DOMAIN y.previous = DOMAIN x.previous \ stale
      /\ \A p \in DOMAIN y.previous : y.previous[p] = x.previous[p]
    BY <1>1 DEF Without
<1>6. ActiveId(x, o) # 0 => ActiveId(x, o) \in IdsOf(x, o)
    BY ActiveIs
<1>7. /\ DOMAIN y.baseline \subseteq DOMAIN x.baseline
      /\ \A p \in DOMAIN x.baseline \ {o} : p \in DOMAIN y.baseline /\ y.baseline[p] = x.baseline[p]
      /\ ActiveId(x, o) # 0 => o \in DOMAIN y.baseline /\ y.baseline[o] = ActiveId(x, o)
    <2>1. CASE lost = {}
        BY <1>1, <2>1
    <2>2. CASE lost # {} /\ ActiveId(x, o) = 0
        BY <1>1, <2>2 DEF Without
    <2>3. CASE lost # {} /\ ActiveId(x, o) # 0
        <3>1. o \in DOMAIN x.baseline /\ y.baseline = With(x.baseline, o, ActiveId(x, o))
            BY <1>1, <2>3
        <3> HIDE DEF y
        <3> QED BY <3>1 DEF With
    <2> QED BY <2>1, <2>2, <2>3
<1> HIDE DEF y
<1>8. History(y, O)
    <2>1. \A p \in DOMAIN x.outputs \ (O \cup {o}) :
              /\ ActiveId(x, p) # 0 => p \in DOMAIN y.baseline /\ y.baseline[p] = ActiveId(x, p)
              /\ p \in DOMAIN y.previous => y.previous[p] \in IdsOf(x, p)
        BY <1>5, <1>7 DEF History
    <2>2. o \in DOMAIN y.previous => y.previous[o] \in IdsOf(x, o)
        BY <1>5
    <2>3. DOMAIN y.baseline \cup DOMAIN y.previous \subseteq DOMAIN x.outputs
        BY <1>5, <1>7 DEF History
    <2> QED BY <1>2, <1>4, <1>7, <2>1, <2>2, <2>3 DEF History
<1> QED BY <1>1, <1>3, <1>8 DEF y

\* Where nothing was wrong a validation leaves nothing wrong.
LEMMA ValidateGood ==
    ASSUME NEW x, Good(x), NEW o
    PROVE  Only(validate_history(x, o), x, {"previous", "baseline"}) /\ Good(validate_history(x, o))
<1>1. History(x, {} \cup {o})
    BY DEF Good, History
<1>2. ActiveId(x, o) # 0 => o \in DOMAIN x.baseline /\ x.baseline[o] = ActiveId(x, o)
    BY ActiveIs DEF Good, History
<1> QED BY <1>1, <1>2, ValidateKeeps DEF Good

\* The view there is becomes the baseline.
LEMMA ObserveKeeps ==
    ASSUME NEW x, Sound(x), NEW o, NEW O, History(x, O \cup {o})
    PROVE  /\ Only(observe_workspace_change(x, o, ActiveId(x, o)), x, {"previous", "baseline"})
           /\ Sound(observe_workspace_change(x, o, ActiveId(x, o)))
           /\ History(observe_workspace_change(x, o, ActiveId(x, o)), O)
<1> DEFINE y == observe_workspace_change(x, o, ActiveId(x, o))
           z == [x EXCEPT !.previous = IF o \notin DOMAIN x.baseline THEN x.previous
                                       ELSE IF x.baseline[o] \in IdsOf(x, o)
                                       THEN With(x.previous, o, x.baseline[o])
                                       ELSE Without(x.previous, {o}),
                          !.baseline = With(x.baseline, o, ActiveId(x, o))]
<1>0. DOMAIN x = Fields
    BY DEF Sound, Form
<1>1. CASE o \notin DOMAIN x.outputs
    <2>1. y = x
        BY <1>1 DEF observe_workspace_change
    <2>2. History(x, O)
        BY <1>1 DEF History
    <2> QED BY <1>0, <2>1, <2>2 DEF Only
<1>2. CASE o \in DOMAIN x.outputs /\ ActiveId(x, o) \notin IdsOf(x, o)
    <2>1. y = validate_history(x, o)
        BY <1>2 DEF observe_workspace_change
    <2>2. ActiveId(x, o) = 0
        BY <1>2, ActiveIs
    <2> QED BY <2>1, <2>2, ValidateKeeps
<1>3. CASE /\ o \in DOMAIN x.outputs /\ ActiveId(x, o) \in IdsOf(x, o)
           /\ o \in DOMAIN x.baseline /\ x.baseline[o] = ActiveId(x, o)
    <2>1. y = validate_history(x, o)
        BY <1>3 DEF observe_workspace_change
    <2> QED BY <1>3, <2>1, ValidateKeeps
<1>4. CASE /\ o \in DOMAIN x.outputs /\ ActiveId(x, o) \in IdsOf(x, o)
           /\ ~(o \in DOMAIN x.baseline /\ x.baseline[o] = ActiveId(x, o))
    <2>1. y = validate_history(z, o)
        BY <1>4 DEF observe_workspace_change
    <2>2. /\ Only(z, x, {"previous", "baseline"})
          /\ z.baseline = With(x.baseline, o, ActiveId(x, o))
          /\ z.previous = IF o \notin DOMAIN x.baseline THEN x.previous
                          ELSE IF x.baseline[o] \in IdsOf(x, o)
                          THEN With(x.previous, o, x.baseline[o])
                          ELSE Without(x.previous, {o})
        BY <1>0 DEF Only, Fields
    <2> HIDE DEF z
    <2>3. z.outputs = x.outputs
        BY <2>2 DEF Only, Fields
    <2>4. Sound(z)
        BY <2>2, HistoryAside
    <2>5. \A p : IdsOf(z, p) = IdsOf(x, p) /\ ActiveId(z, p) = ActiveId(x, p)
        BY <2>3, SameOutputs
    <2>6. /\ DOMAIN z.baseline = DOMAIN x.baseline \cup {o} /\ z.baseline[o] = ActiveId(x, o)
          /\ \A p \in DOMAIN x.baseline \ {o} : z.baseline[p] = x.baseline[p]
        BY <2>2 DEF With
    <2>7. /\ DOMAIN z.previous \subseteq DOMAIN x.previous \cup {o}
          /\ \A p \in DOMAIN z.previous \ {o} : p \in DOMAIN x.previous /\ z.previous[p] = x.previous[p]
        BY <2>2 DEF With, Without
    <2>8. History(z, O \cup {o})
        BY <1>4, <2>3, <2>5, <2>6, <2>7 DEF History
    <2>9. /\ Only(validate_history(z, o), z, {"previous", "baseline"})
          /\ Sound(validate_history(z, o)) /\ History(validate_history(z, o), O)
        BY <2>4, <2>5, <2>6, <2>8, ValidateKeeps
    <2> QED BY <2>1, <2>2, <2>9 DEF Only
<1> QED BY <1>1, <1>2, <1>3, <1>4

-----------------------------------------------------------------------------
(* Outputs and their orders.                                                   *)

\* More workspaces at the end of an order.
LEMMA AppendedKeeps ==
    ASSUME NEW x, Sound(x), NEW o \in DOMAIN x.outputs, NEW n \in Nat
    PROVE  LET y == Appended(x, o, n)
           IN  /\ Sound(y) /\ Only(y, x, {"outputs", "minted"})
               /\ DOMAIN y.outputs = DOMAIN x.outputs /\ y.minted = x.minted + n
               /\ \A p \in DOMAIN x.outputs \ {o} : y.outputs[p] = x.outputs[p]
               /\ \A p : IdsOf(x, p) \subseteq IdsOf(y, p)
               /\ \A p : ActiveId(x, p) # 0 \/ p # o => ActiveId(y, p) = ActiveId(x, p)
               /\ n # 0 => ActiveId(y, o) # 0 /\ x.minted + n \in IdsOf(y, o)
               /\ EntriesOf(x, o) \subseteq EntriesOf(y, o)
<1> DEFINE y == Appended(x, o, n)
           a == x.outputs[o].order
           more == [i \in 1 .. n |-> [id |-> x.minted + i, members |-> {}]]
           b == a \o more
<1>0. Form(x) /\ DOMAIN x = Fields /\ x.minted \in Nat /\ o \in Outputs
    BY DEF Sound, Form
<1>1. /\ Only(y, x, {"outputs", "minted"}) /\ y.minted = x.minted + n
      /\ y.outputs = With(x.outputs, o, [order |-> b, active |-> x.outputs[o].active])
    BY <1>0 DEF Appended, WithOutput, Active, Only, Fields
<1>2. /\ DOMAIN y.outputs = DOMAIN x.outputs
      /\ \A p \in DOMAIN x.outputs \ {o} : y.outputs[p] = x.outputs[p]
      /\ y.outputs[o].order = b /\ y.outputs[o].active = x.outputs[o].active
    <2> HIDE DEF y, b
    <2> QED BY <1>1 DEF With
<1>3. /\ OrderOK(more) /\ Len(more) = n
      /\ \A e \in Entries(more) : e.members = {} /\ e.id \in (x.minted + 1) .. (x.minted + n)
    BY <1>0, FreshIsOrder
<1>4. n # 0 => x.minted + n \in Ids(more)
    <2> SUFFICES ASSUME n # 0
                 PROVE  x.minted + n \in Ids(more)
        OBVIOUS
    <2>1. n \in DOMAIN more /\ more[n].id = x.minted + n
        OBVIOUS
    <2> HIDE DEF more
    <2> QED BY <2>1 DEF Ids
<1> HIDE DEF y, more
<1>5. OutOK(x.outputs[o]) /\ OrderOK(a) /\ Len(a) \in Nat /\ DOMAIN a = 1 .. Len(a)
    BY <1>0 DEF Form, OutOK, OrderOK
<1>6. EntriesOf(x, o) = Entries(a) /\ EntriesOf(y, o) = Entries(b)
    BY <1>2 DEF EntriesOf
<1>7. Ids(a) \cap Ids(more) = {}
    <2>1. \A e \in Entries(a) : e.id \in 1 .. x.minted
        BY <1>6 DEF Sound, Seats
    <2> QED BY <1>0, <1>3, <2>1, IdsOfEntries
<1>8. /\ OrderOK(b) /\ Entries(b) = Entries(a) \cup Entries(more)
      /\ \A i \in DOMAIN a : i \in DOMAIN b /\ b[i] = a[i]
      /\ Len(b) = Len(a) + n
    BY <1>3, <1>5, <1>7, ConcatIsOrder
<1> HIDE DEF a, b
<1>9. b \in Seq(Entry) /\ DOMAIN b = 1 .. Len(b) /\ (b = <<>> <=> Len(b) = 0)
    BY <1>8 DEF OrderOK
<1>10. OutOK(y.outputs[o])
    <2>1. CASE a # <<>>
        <3>1. x.outputs[o].active \in DOMAIN a
            BY <1>5, <2>1 DEF OutOK, a
        <3> QED BY <1>2, <1>8, <3>1 DEF OutOK
    <2>2. CASE a = <<>>
        <3>1. x.outputs[o].active = 1
            BY <1>5, <2>2 DEF OutOK, a
        <3>2. b = <<>> \/ 1 \in DOMAIN b
            BY <1>5, <1>8, <1>9
        <3> QED BY <1>2, <1>8, <3>1, <3>2 DEF OutOK
    <2> QED BY <2>1, <2>2
<1>11. \A p : IdsOf(x, p) \subseteq IdsOf(y, p)
    <2>1. \A p : EntriesOf(x, p) \subseteq EntriesOf(y, p)
        BY <1>2, <1>6, <1>8 DEF EntriesOf
    <2> QED BY <2>1, IdsOfIs
<1>12. KeptFor(y)
    <2>1. y.displaced = x.displaced /\ Live(x) \subseteq Live(y)
        BY <1>1, <1>2, <1>11 DEF Only, Fields, Live
    <2> QED BY <2>1 DEF Sound, KeptFor
<1>13. Sound(y)
    <2>1. Only(y, x, {"outputs", "minted", "displaced", "previous", "baseline"})
        BY <1>1 DEF Only
    <2>2. y.minted \in Nat /\ x.minted <= y.minted
        BY <1>0, <1>1
    <2>3. \A e \in EntriesOf(y, o) : \/ e \in EntriesOf(x, o)
                                     \/ e.members = {} /\ e.id \in (x.minted + 1) .. y.minted
        BY <1>1, <1>3, <1>6, <1>8
    <2>4. \A e \in EntriesOf(x, o) \ EntriesOf(y, o) : e.members \subseteq x.sticky
        BY <1>6, <1>8
    <2> QED BY <1>0, <1>2, <1>10, <1>12, <2>1, <2>2, <2>3, <2>4, RegrownKeeps
<1>14. \A p : ActiveId(x, p) # 0 \/ p # o => ActiveId(y, p) = ActiveId(x, p)
    <2>1. \A p : p # o => ActiveId(y, p) = ActiveId(x, p)
        BY <1>2 DEF ActiveId
    <2>2. ASSUME ActiveId(x, o) # 0
          PROVE  ActiveId(y, o) = ActiveId(x, o)
        <3>1. /\ x.outputs[o].active \in DOMAIN a
              /\ ActiveId(x, o) = a[x.outputs[o].active].id
            BY <2>2, ActiveIs DEF a
        <3>2. b # <<>>
            BY <1>5, <1>8, <1>9, <3>1
        <3>3. ActiveId(y, o) = b[x.outputs[o].active].id
            BY <1>2, <3>2 DEF ActiveId
        <3> QED BY <1>8, <3>1, <3>3
    <2> QED BY <2>1, <2>2
<1>15. n # 0 => ActiveId(y, o) # 0 /\ x.minted + n \in IdsOf(y, o)
    <2> SUFFICES ASSUME n # 0
                 PROVE  ActiveId(y, o) # 0 /\ x.minted + n \in IdsOf(y, o)
        OBVIOUS
    <2>1. b # <<>>
        BY <1>5, <1>8, <1>9
    <2>2. ActiveId(y, o) # 0
        BY <1>2, <1>13, <2>1, ActiveIs
    <2>3. Ids(b) = Ids(a) \cup Ids(more)
        BY <1>8, IdsOfEntries
    <2> QED BY <1>2, <1>4, <2>2, <2>3 DEF IdsOf
<1>16. EntriesOf(x, o) \subseteq EntriesOf(y, o)
    BY <1>6, <1>8
<1> QED BY <1>1, <1>2, <1>11, <1>13, <1>14, <1>15, <1>16 DEF y

\* An output appears with its workspaces.
LEMMA EnsureKeeps ==
    ASSUME NEW x, Good(x), NEW o \in Outputs
    PROVE  /\ Good(ensure_output(x, o)) /\ Only(ensure_output(x, o), x, {"outputs", "minted", "baseline"})
           /\ \A p : IdsOf(x, p) \subseteq IdsOf(ensure_output(x, o), p)
           /\ x.minted <= ensure_output(x, o).minted /\ Steady(ensure_output(x, o), x)
<1> DEFINE y == ensure_output(x, o)
           base == WithOutput(x, o, <<>>, 1)
           grown == Appended(base, o, 2)
<1>0. Sound(x) /\ History(x, {}) /\ Form(x) /\ DOMAIN x = Fields /\ x.minted \in Nat
    BY DEF Good, Sound, Form
<1>1. ASSUME o \notin DOMAIN x.outputs
      PROVE  /\ Sound(grown) /\ Only(grown, x, {"outputs", "minted"})
             /\ grown.minted = x.minted + 2 /\ ActiveId(grown, o) # 0
             /\ DOMAIN grown.outputs = DOMAIN x.outputs \cup {o}
             /\ \A p : p # o => ActiveId(grown, p) = ActiveId(x, p)
             /\ \A p : IdsOf(x, p) \subseteq IdsOf(grown, p)
    <2>1. /\ Only(base, x, {"outputs"})
          /\ base.outputs = With(x.outputs, o, [order |-> <<>>, active |-> 1])
        BY <1>0 DEF WithOutput, Only, Fields
    <2> HIDE DEF base
    <2>2. /\ DOMAIN base.outputs = DOMAIN x.outputs \cup {o}
          /\ \A p \in DOMAIN x.outputs \ {o} : base.outputs[p] = x.outputs[p]
          /\ base.outputs[o].order = <<>> /\ base.outputs[o].active = 1
        BY <2>1 DEF With
    <2>3. OrderOK(<<>>) /\ Entries(<<>>) = {}
        BY DEF OrderOK, Entries
    <2>4. OutOK(base.outputs[o]) /\ EntriesOf(base, o) = {} /\ EntriesOf(x, o) = {}
        BY <1>1, <2>2, <2>3 DEF OutOK, EntriesOf
    <2>5. base.minted = x.minted /\ base.displaced = x.displaced
        BY <2>1 DEF Only, Fields
    <2>6. \A p : EntriesOf(base, p) = EntriesOf(x, p)
        BY <2>2, <2>4 DEF EntriesOf
    <2>7. \A p : IdsOf(base, p) = IdsOf(x, p)
        BY <2>6, IdsOfIs
    <2>8. KeptFor(base)
        <3>1. Live(x) \subseteq Live(base)
            BY <2>2, <2>7 DEF Live
        <3> QED BY <1>0, <2>5, <3>1 DEF Sound, KeptFor
    <2>9. Sound(base)
        <3>1. Only(base, x, {"outputs", "minted", "displaced", "previous", "baseline"})
            BY <2>1 DEF Only
        <3>2. base.minted \in Nat /\ x.minted <= base.minted
            BY <1>0, <2>5
        <3> QED BY <1>0, <2>2, <2>4, <2>8, <3>1, <3>2, RegrownKeeps
    <2>10. \A p : p # o => ActiveId(base, p) = ActiveId(x, p)
        BY <2>2 DEF ActiveId
    <2>11. /\ Sound(grown) /\ Only(grown, base, {"outputs", "minted"})
           /\ DOMAIN grown.outputs = DOMAIN base.outputs /\ grown.minted = base.minted + 2
           /\ \A p : IdsOf(base, p) \subseteq IdsOf(grown, p)
           /\ \A p : ActiveId(base, p) # 0 \/ p # o => ActiveId(grown, p) = ActiveId(base, p)
           /\ ActiveId(grown, o) # 0
        <3>1. o \in DOMAIN base.outputs /\ 2 \in Nat /\ 2 # 0
            BY <2>2
        <3> QED BY <2>9, <3>1, AppendedKeeps
    <2>12. Only(grown, x, {"outputs", "minted"})
        BY <2>1, <2>11 DEF Only
    <2> QED BY <2>2, <2>5, <2>7, <2>10, <2>11, <2>12
<1>2. y = IF o \in DOMAIN x.outputs THEN x
          ELSE [grown EXCEPT !.baseline = With(grown.baseline, o, ActiveId(grown, o))]
    BY DEF ensure_output, MinWorkspaces
<1> HIDE DEF base, grown
<1>3. CASE o \in DOMAIN x.outputs
    <2>1. y = x
        BY <1>2, <1>3
    <2> QED BY <1>0, <2>1 DEF Only, Steady
<1>4. CASE o \notin DOMAIN x.outputs
    <2>0. /\ Sound(grown) /\ Only(grown, x, {"outputs", "minted"})
          /\ x.minted <= grown.minted /\ ActiveId(grown, o) # 0
          /\ grown.previous = x.previous /\ grown.baseline = x.baseline
          /\ DOMAIN grown.outputs = DOMAIN x.outputs \cup {o}
          /\ \A p : p # o => ActiveId(grown, p) = ActiveId(x, p)
          /\ \A p : IdsOf(x, p) \subseteq IdsOf(grown, p)
        BY <1>0, <1>1, <1>4 DEF Only, Fields
    <2>1. o \in DOMAIN x.previous => x.previous[o] \in IdsOf(x, o)
        BY <1>0 DEF History
    <2>2. /\ Only(y, grown, {"baseline"})
          /\ y.baseline = With(grown.baseline, o, ActiveId(grown, o))
        BY <1>2, <1>4, <2>0 DEF Only, Fields
    <2> HIDE DEF y
    <2>3. y.outputs = grown.outputs /\ y.previous = x.previous /\ y.minted = grown.minted
        BY <2>0, <2>2 DEF Only, Fields
    <2>4. /\ DOMAIN y.baseline = DOMAIN x.baseline \cup {o} /\ y.baseline[o] = ActiveId(grown, o)
          /\ \A p \in DOMAIN x.baseline \ {o} : y.baseline[p] = x.baseline[p]
        BY <2>0, <2>2 DEF With
    <2>5. \A p : IdsOf(y, p) = IdsOf(grown, p) /\ ActiveId(y, p) = ActiveId(grown, p)
        BY <2>3, SameOutputs
    <2>6. Sound(y)
        <3>1. Only(y, grown, {"previous", "baseline"})
            BY <2>2 DEF Only
        <3> QED BY <2>0, <3>1, HistoryAside
    <2>7. History(y, {})
        BY <1>0, <2>0, <2>1, <2>3, <2>4, <2>5 DEF History
    <2>8. Only(y, x, {"outputs", "minted", "baseline"})
        BY <2>0, <2>2 DEF Only
    <2>9. /\ y.known = x.known /\ y.displaced = x.displaced /\ y.claims = x.claims
          /\ y.membership = x.membership
        BY <2>8 DEF Only, Fields
    <2>10. Steady(y, x)
        BY <1>4, <2>0, <2>3, <2>5, <2>9 DEF Steady
    <2> QED BY <2>0, <2>3, <2>5, <2>6, <2>7, <2>8, <2>10 DEF Good, y
<1> QED BY <1>3, <1>4

-----------------------------------------------------------------------------
(* Monitors that go and return.                                                *)

\* A validation at an output whose history is out of step leaves the others alone.
LEMMA ValidateInside ==
    ASSUME NEW x, Sound(x), NEW O, NEW o \in O, History(x, O)
    PROVE  /\ Only(validate_history(x, o), x, {"previous", "baseline"})
           /\ Sound(validate_history(x, o)) /\ History(validate_history(x, o), O)
<1> DEFINE y == validate_history(x, o)
           stale == {p \in {o} \cap DOMAIN x.previous : x.previous[p] \notin IdsOf(x, o)}
           lost == {p \in {o} \cap DOMAIN x.baseline : x.baseline[p] \notin IdsOf(x, o)}
<1>0. DOMAIN x = Fields
    BY DEF Sound, Form
<1>1. /\ Only(y, x, {"previous", "baseline"})
      /\ y.previous = Without(x.previous, stale)
      /\ y.baseline = IF lost = {} THEN x.baseline
                      ELSE IF ActiveId(x, o) = 0 THEN Without(x.baseline, lost)
                      ELSE With(x.baseline, o, ActiveId(x, o))
    BY <1>0 DEF validate_history, Only, Fields
<1>2. y.outputs = x.outputs
    BY <1>1 DEF Only, Fields
<1>3. Sound(y)
    BY <1>1, HistoryAside
<1>4. \A p : IdsOf(y, p) = IdsOf(x, p) /\ ActiveId(y, p) = ActiveId(x, p)
    BY <1>2, SameOutputs
<1>5. /\ DOMAIN y.previous \subseteq DOMAIN x.previous
      /\ \A p \in DOMAIN y.previous : y.previous[p] = x.previous[p]
    BY <1>1 DEF Without
<1>6. /\ DOMAIN y.baseline \subseteq DOMAIN x.baseline
      /\ \A p \in DOMAIN x.baseline \ {o} : p \in DOMAIN y.baseline /\ y.baseline[p] = x.baseline[p]
    <2>1. CASE lost = {}
        BY <1>1, <2>1
    <2>2. CASE lost # {} /\ ActiveId(x, o) = 0
        BY <1>1, <2>2 DEF Without
    <2>3. CASE lost # {} /\ ActiveId(x, o) # 0
        <3>1. o \in DOMAIN x.baseline /\ y.baseline = With(x.baseline, o, ActiveId(x, o))
            BY <1>1, <2>3
        <3> HIDE DEF y
        <3> QED BY <3>1 DEF With
    <2> QED BY <2>1, <2>2, <2>3
<1> HIDE DEF y
<1>7. History(y, O)
    BY <1>2, <1>4, <1>5, <1>6 DEF History
<1> QED BY <1>1, <1>3, <1>7 DEF y

\* Another workspace is shown.
LEMMA ActivateKeeps ==
    ASSUME NEW x, Sound(x), NEW o, NEW id
    PROVE  /\ Sound(activate(x, o, id)) /\ Only(activate(x, o, id), x, {"outputs"})
           /\ DOMAIN activate(x, o, id).outputs = DOMAIN x.outputs
           /\ \A p : IdsOf(activate(x, o, id), p) = IdsOf(x, p)
           /\ ActiveId(activate(x, o, id), o) = IF id \in IdsOf(x, o) THEN id ELSE ActiveId(x, o)
           /\ \A p : p # o => ActiveId(activate(x, o, id), p) = ActiveId(x, p)
           /\ \A O : History(x, O) => History(activate(x, o, id), O \cup {o})
<1> DEFINE y == activate(x, o, id)
<1>0. Form(x) /\ DOMAIN x = Fields /\ x.minted \in Nat
    BY DEF Sound, Form
<1>1. CASE id \notin IdsOf(x, o)
    <2>1. y = x
        BY <1>1 DEF activate
    <2>2. \A O : History(x, O) => History(x, O \cup {o})
        BY DEF History
    <2> QED BY <1>0, <1>1, <2>1, <2>2 DEF Only
<1>2. CASE id \in IdsOf(x, o)
    <2> DEFINE a == x.outputs[o].order
               i == Position(a, id)
    <2>1. o \in DOMAIN x.outputs /\ id \in Ids(a) /\ o \in Outputs
        BY <1>0, <1>2 DEF IdsOf, Form
    <2>2. i \in DOMAIN a /\ a[i].id = id
        BY <2>1, PositionIs
    <2>3. /\ Only(y, x, {"outputs"})
          /\ y.outputs = With(x.outputs, o, [order |-> a, active |-> i])
        BY <1>0, <1>2 DEF activate, WithOutput, Only, Fields
    <2> HIDE DEF y, i
    <2>4. /\ DOMAIN y.outputs = DOMAIN x.outputs
          /\ \A p \in DOMAIN x.outputs \ {o} : y.outputs[p] = x.outputs[p]
          /\ y.outputs[o].order = a /\ y.outputs[o].active = i
        BY <2>1, <2>3 DEF With
    <2>5. OutOK(y.outputs[o])
        BY <1>0, <2>1, <2>2, <2>4 DEF Form, OutOK
    <2>6. \A p : EntriesOf(y, p) = EntriesOf(x, p)
        BY <2>4 DEF EntriesOf
    <2>7. \A p : IdsOf(y, p) = IdsOf(x, p)
        BY <2>6, IdsOfIs
    <2>8. /\ y.minted = x.minted /\ y.displaced = x.displaced
          /\ y.previous = x.previous /\ y.baseline = x.baseline
        BY <2>3 DEF Only, Fields
    <2>9. KeptFor(y)
        BY <2>4, <2>7, <2>8 DEF Sound, KeptFor, Live
    <2>10. Sound(y)
        <3>1. Only(y, x, {"outputs", "minted", "displaced", "previous", "baseline"})
            BY <2>3 DEF Only
        <3>2. y.minted \in Nat /\ x.minted <= y.minted /\ DOMAIN y.outputs = DOMAIN x.outputs \cup {o}
            BY <1>0, <2>1, <2>4, <2>8
        <3> QED BY <2>1, <2>4, <2>5, <2>6, <2>9, <3>1, <3>2, RegrownKeeps
    <2>11. ActiveId(y, o) = id
        <3>1. a # <<>>
            BY <2>2
        <3> QED BY <2>1, <2>2, <2>4, <3>1 DEF ActiveId
    <2>12. \A p : p # o => ActiveId(y, p) = ActiveId(x, p)
        BY <2>4 DEF ActiveId
    <2>13. \A O : History(x, O) => History(y, O \cup {o})
        BY <2>4, <2>7, <2>8, <2>12 DEF History
    <2> QED BY <1>2, <2>3, <2>4, <2>7, <2>10, <2>11, <2>12, <2>13 DEF y
<1> QED BY <1>1, <1>2

\* The workspaces of a monitor that is gone join those of another.
LEMMA DisplaceKeeps ==
    ASSUME NEW x, Good(x), NEW origin, NEW dest
    PROVE  LET y == displace_output_to(x, origin, dest)
           IN  Sound(y) /\ History(y, {dest})
               /\ Only(y, x, {"outputs", "membership", "displaced", "previous", "baseline"})
<1> DEFINE y == displace_output_to(x, origin, dest)
           a == x.outputs[dest].order
           moving == x.outputs[origin].order
           M == Ids(moving)
           gone == [x EXCEPT !.outputs = Without(x.outputs, {origin})]
           joined == WithOutput(gone, dest, a \o moving, Active(x, dest))
           moved == [Rehomed(joined, origin, M, dest) EXCEPT
                        !.displaced = With(joined.displaced, origin, [ids |-> M, dest |-> dest])]
           z == discard_output_history(IF moving = <<>> THEN gone ELSE moved, origin)
<1>0. Sound(x) /\ History(x, {}) /\ Form(x) /\ DOMAIN x = Fields
    BY DEF Good, Sound, Form
<1>1. CASE origin = dest \/ {origin, dest} \cap DOMAIN x.outputs # {origin, dest}
    <2>1. y = x
        BY <1>1 DEF displace_output_to
    <2> QED BY <1>0, <2>1 DEF Only, History
<1>2. CASE ~(origin = dest \/ {origin, dest} \cap DOMAIN x.outputs # {origin, dest})
    <2>1. origin # dest /\ origin \in DOMAIN x.outputs /\ dest \in DOMAIN x.outputs /\ dest \in Outputs
        BY <1>0, <1>2 DEF Form
    <2>2. y = validate_history(z, dest)
        <3>1. Rehomed(joined, origin, M, dest).displaced = joined.displaced
            BY <1>0 DEF Rehomed, WithOutput, Fields
        <3> QED BY <1>2, <3>1 DEF displace_output_to
    <2>3. /\ OutOK(x.outputs[dest]) /\ OrderOK(a) /\ OrderOK(moving)
          /\ M = IdsOf(x, origin) /\ Ids(a) = IdsOf(x, dest) /\ M \cap Ids(a) = {}
        BY <1>0, <2>1 DEF Form, OutOK, IdsOf, Sound, Apart
    <2>4. /\ Only(z, x, {"outputs", "membership", "displaced", "previous", "baseline"})
          /\ z.previous = Without(x.previous, {origin}) /\ z.baseline = Without(x.baseline, {origin})
        BY <1>0 DEF discard_output_history, Rehomed, WithOutput, Only, Fields
    <2>5. CASE moving = <<>>
        <3>1. /\ z.outputs = Without(x.outputs, {origin})
              /\ z.membership = x.membership /\ z.displaced = x.displaced
            BY <1>0, <2>5 DEF discard_output_history, Fields
        <3> HIDE DEF z
        <3>2. /\ DOMAIN z.outputs = DOMAIN x.outputs \ {origin}
              /\ \A p \in DOMAIN x.outputs \ {origin} : z.outputs[p] = x.outputs[p]
            BY <3>1 DEF Without
        <3>3. EntriesOf(x, origin) = {} /\ EntriesOf(z, origin) = {} /\ M = {}
            BY <2>1, <2>5, <3>2 DEF EntriesOf, Entries, Ids
        <3>4. EntriesOf(z, dest) = EntriesOf(x, dest) /\ OutOK(z.outputs[dest])
            BY <2>1, <2>3, <3>2 DEF EntriesOf
        <3>5. \A w \in DOMAIN x.membership : DOMAIN x.membership[w] = {"output", "ws", "hidden"}
            BY <1>0 DEF Form
        <3>6. \A o \in DOMAIN z.displaced : z.displaced[o].dest # o /\ z.displaced[o].ids \subseteq Live(x)
            BY <1>0, <3>1 DEF Sound, KeptFor
        <3>7. Sound(z)
            <4>1. Shift(z, x, origin, dest, {})
                BY <2>1, <2>4, <3>1, <3>2, <3>3, <3>4, <3>5, <3>6 DEF Shift
            <4> QED BY <1>0, <4>1, ShiftedKeeps
        <3>8. \A p \in DOMAIN z.outputs : IdsOf(z, p) = IdsOf(x, p) /\ ActiveId(z, p) = ActiveId(x, p)
            BY <3>2 DEF IdsOf, ActiveId
        <3>9. History(z, {dest})
            BY <1>0, <2>4, <3>2, <3>8 DEF History, Without
        <3>10. /\ Only(validate_history(z, dest), z, {"previous", "baseline"})
               /\ Sound(validate_history(z, dest)) /\ History(validate_history(z, dest), {dest})
            BY <3>7, <3>9, ValidateInside
        <3> QED BY <2>2, <2>4, <3>10 DEF Only
    <2>6. CASE moving # <<>>
        <3>1. /\ z.outputs = With(Without(x.outputs, {origin}), dest,
                                  [order |-> a \o moving, active |-> x.outputs[dest].active])
              /\ z.membership = [w \in DOMAIN x.membership |->
                                    IF x.membership[w].output = origin /\ x.membership[w].ws \in M
                                    THEN [x.membership[w] EXCEPT !.output = dest]
                                    ELSE x.membership[w]]
              /\ z.displaced = With(x.displaced, origin, [ids |-> M, dest |-> dest])
            BY <1>0, <2>6 DEF discard_output_history, Rehomed, WithOutput, Active, Fields
        <3> DEFINE b == a \o moving
        <3> HIDE DEF z, b, M
        <3>2. /\ DOMAIN z.outputs = DOMAIN x.outputs \ {origin}
              /\ \A p \in DOMAIN x.outputs \ {origin, dest} : z.outputs[p] = x.outputs[p]
              /\ z.outputs[dest].order = b /\ z.outputs[dest].active = x.outputs[dest].active
            <4>1. PICK out : out = [order |-> b, active |-> x.outputs[dest].active]
                OBVIOUS
            <4>2. out.order = b /\ out.active = x.outputs[dest].active
                BY <4>1
            <4>3. PICK rest : rest = Without(x.outputs, {origin})
                OBVIOUS
            <4>4. /\ DOMAIN rest = DOMAIN x.outputs \ {origin}
                  /\ \A p \in DOMAIN rest : rest[p] = x.outputs[p]
                BY <4>3 DEF Without
            <4>5. z.outputs = With(rest, dest, out)
                BY <3>1, <4>1, <4>3 DEF b
            <4>6. /\ DOMAIN z.outputs = DOMAIN rest \cup {dest} /\ z.outputs[dest] = out
                  /\ \A p \in DOMAIN rest \ {dest} : z.outputs[p] = rest[p]
                BY <4>5 DEF With
            <4> QED BY <2>1, <4>2, <4>4, <4>6
        <3>3. /\ OrderOK(b) /\ Entries(b) = Entries(a) \cup Entries(moving)
              /\ \A i \in DOMAIN a : i \in DOMAIN b /\ b[i] = a[i]
              /\ Len(b) = Len(a) + Len(moving)
            BY <2>3, ConcatIsOrder DEF b, M
        <3>4. /\ EntriesOf(x, origin) = Entries(moving) /\ EntriesOf(z, origin) = {}
              /\ EntriesOf(x, dest) = Entries(a) /\ EntriesOf(z, dest) = Entries(b)
            BY <2>1, <3>2 DEF EntriesOf
        <3>5. \A e \in EntriesOf(x, origin) : e.id \in M
            BY <2>3, IdsOfIs
        <3>6. OutOK(z.outputs[dest])
            <4>1. CASE a # <<>>
                BY <2>3, <3>2, <3>3, <4>1 DEF OutOK
            <4>2. CASE a = <<>>
                <5>1. x.outputs[dest].active = 1
                    BY <2>3, <4>2 DEF OutOK
                <5>2. Len(moving) \in Nat /\ Len(moving) # 0 /\ Len(a) = 0
                    BY <2>3, <2>6, <4>2 DEF OrderOK
                <5>3. 1 \in DOMAIN b
                    <6>1. b \in Seq(Entry)
                        BY <3>3 DEF OrderOK
                    <6>2. DOMAIN b = 1 .. Len(b) /\ Len(b) \in Nat
                        BY <6>1
                    <6>3. Len(b) # 0
                        BY <3>3, <5>2
                    <6> QED BY <6>2, <6>3
                <5> QED BY <3>2, <3>3, <5>1, <5>3 DEF OutOK
            <4> QED BY <4>1, <4>2
        <3>7. DOMAIN z.membership = DOMAIN x.membership
            BY <3>1
        <3>8. ASSUME NEW w \in DOMAIN x.membership
              PROVE  LET m == x.membership[w]
                         n == z.membership[w]
                     IN  /\ DOMAIN n = {"output", "ws", "hidden"} /\ n.ws = m.ws
                         /\ n.hidden = m.hidden
                         /\ n.output = IF m.output = origin /\ m.ws \in M THEN dest ELSE m.output
            <4>1. DOMAIN x.membership[w] = {"output", "ws", "hidden"}
                BY <1>0 DEF Form
            <4>2. z.membership[w] = IF x.membership[w].output = origin /\ x.membership[w].ws \in M
                                    THEN [x.membership[w] EXCEPT !.output = dest]
                                    ELSE x.membership[w]
                BY <3>1
            <4> QED BY <4>1, <4>2
        <3>9. \A o \in DOMAIN z.displaced : z.displaced[o].dest # o /\ z.displaced[o].ids \subseteq Live(x)
            <4>1. M \subseteq Live(x)
                BY <2>1, <2>3 DEF Live
            <4>2. \A o \in DOMAIN z.displaced :
                      IF o = origin THEN z.displaced[o].dest = dest /\ z.displaced[o].ids = M
                      ELSE o \in DOMAIN x.displaced /\ z.displaced[o] = x.displaced[o]
                BY <3>1 DEF With
            <4> QED BY <1>0, <2>1, <4>1, <4>2 DEF Sound, KeptFor
        <3>10. Sound(z)
            <4>1. Shift(z, x, origin, dest, M)
                BY <2>1, <2>4, <3>2, <3>3, <3>4, <3>5, <3>6, <3>7, <3>8, <3>9 DEF Shift
            <4> QED BY <1>0, <4>1, ShiftedKeeps
        <3>11. \A p \in DOMAIN z.outputs \ {dest} :
                   IdsOf(z, p) = IdsOf(x, p) /\ ActiveId(z, p) = ActiveId(x, p)
            BY <3>2 DEF IdsOf, ActiveId
        <3>12. History(z, {dest})
            BY <1>0, <2>4, <3>2, <3>11 DEF History, Without
        <3>13. /\ Only(validate_history(z, dest), z, {"previous", "baseline"})
               /\ Sound(validate_history(z, dest)) /\ History(validate_history(z, dest), {dest})
            BY <3>10, <3>12, ValidateInside
        <3> QED BY <2>2, <2>4, <3>13 DEF Only
    <2> QED BY <2>5, <2>6
<1> QED BY <1>1, <1>2

\* A monitor goes away.
LEMMA RelocatedKeeps ==
    ASSUME NEW x, Good(x), NEW origin, NEW dest, NEW fg
    PROVE  /\ Good(Relocated(x, origin, dest, fg))
           /\ Only(Relocated(x, origin, dest, fg), x,
                   {"outputs", "membership", "displaced", "previous", "baseline"})
<1> DEFINE shown == IF fg \in DOMAIN x.membership /\ x.membership[fg].output = origin
                    THEN x.membership[fg].ws ELSE 0
           moved == displace_output_to(x, origin, dest)
           viewed == activate(moved, dest, shown)
           y == observe_workspace_change(viewed, dest, ActiveId(viewed, dest))
<1>1. /\ Sound(moved) /\ History(moved, {dest})
      /\ Only(moved, x, {"outputs", "membership", "displaced", "previous", "baseline"})
    BY DisplaceKeeps
<1> HIDE DEF moved, shown
<1>2. Sound(viewed) /\ Only(viewed, moved, {"outputs"}) /\ History(viewed, {dest} \cup {dest})
    BY <1>1, ActivateKeeps
<1> HIDE DEF viewed
<1>3. History(viewed, {} \cup {dest})
    BY <1>2
<1>4. Only(y, viewed, {"previous", "baseline"}) /\ Sound(y) /\ History(y, {})
    BY <1>2, <1>3, ObserveKeeps
<1>5. Only(y, x, {"outputs", "membership", "displaced", "previous", "baseline"})
    BY <1>1, <1>2, <1>4 DEF Only
<1>6. Relocated(x, origin, dest, fg) = y
    BY DEF Relocated, Observed, y, viewed, moved, shown
<1> QED BY <1>4, <1>5, <1>6 DEF Good

\* A monitor that returns takes its workspaces from the one that held them.
LEMMA ReconnectKeeps ==
    ASSUME NEW x, Good(x), NEW origin \in Outputs, origin \in DOMAIN x.displaced
    PROVE  LET y == reconnect_output(x, origin)
           IN  /\ Sound(y) /\ History(y, {x.displaced[origin].dest})
               /\ Only(y, x, {"outputs", "membership", "displaced", "previous", "baseline"})
               /\ \/ x.displaced[origin].dest \notin DOMAIN x.outputs /\ y = x
                  \/ y.displaced = Without(x.displaced, {origin})
<1> DEFINE y == reconnect_output(x, origin)
           dest == x.displaced[origin].dest
           M == x.displaced[origin].ids
           order == x.outputs[dest].order
           left == Picked(order, Ids(order) \ M)
           returning == Picked(order, M)
           own == IF origin \in DOMAIN x.outputs THEN x.outputs[origin]
                  ELSE [order |-> <<>>, active |-> 1]
           active == x.outputs[dest].active
           shrunk == [order |-> left,
                      active |-> IF active <= Len(left) THEN active
                                 ELSE IF left = <<>> THEN 1 ELSE Len(left)]
           grown == [order |-> own.order \o returning, active |-> own.active]
           back == [Rehomed(x, dest, M, origin) EXCEPT
                       !.outputs = With(With(x.outputs, dest, shrunk), origin, grown),
                       !.displaced = Without(x.displaced, {origin})]
           view == ActiveId(back, origin)
           cut == discard_output_history(back, origin)
           z == [cut EXCEPT
                     !.baseline = IF view = 0 THEN cut.baseline ELSE With(cut.baseline, origin, view)]
<1>0. Sound(x) /\ History(x, {}) /\ Form(x) /\ DOMAIN x = Fields
    BY DEF Good, Sound, Form
<1>1. CASE dest \notin DOMAIN x.outputs
    <2>1. y = x
        BY <1>1 DEF reconnect_output
    <2>2. Only(y, x, {"outputs", "membership", "displaced", "previous", "baseline"})
        BY <1>0, <2>1 DEF Only
    <2> HIDE DEF y
    <2>3. Sound(y) /\ History(y, {dest})
        BY <1>0, <2>1 DEF History
    <2> QED BY <1>1, <2>1, <2>2, <2>3 DEF y
<1>2. CASE dest \in DOMAIN x.outputs
    <2>1. dest # origin /\ dest \in Outputs
        BY <1>0, <1>2 DEF Sound, KeptFor, Form
    <2>2. y = validate_history(validate_history(z, dest), origin)
        <3>1. /\ Rehomed(x, dest, M, origin).outputs = x.outputs
              /\ Rehomed(x, dest, M, origin).displaced = x.displaced
            BY <1>0 DEF Rehomed, Fields
        <3> QED BY <1>2, <3>1 DEF reconnect_output
    <2>3. /\ OutOK(x.outputs[dest]) /\ OrderOK(order) /\ Ids(order) = IdsOf(x, dest)
          /\ EntriesOf(x, dest) = Entries(order)
        BY <1>0, <1>2 DEF Form, OutOK, IdsOf, EntriesOf
    <2>4. /\ DOMAIN back = Fields
          /\ Only(back, x, {"outputs", "membership", "displaced"})
          /\ back.outputs = With(With(x.outputs, dest, shrunk), origin, grown)
          /\ back.membership = [w \in DOMAIN x.membership |->
                                   IF x.membership[w].output = dest /\ x.membership[w].ws \in M
                                   THEN [x.membership[w] EXCEPT !.output = origin]
                                   ELSE x.membership[w]]
          /\ back.displaced = Without(x.displaced, {origin})
        BY <1>0 DEF Rehomed, Only, Fields
    <2>5. /\ Only(cut, back, {"previous", "baseline"})
          /\ cut.previous = Without(back.previous, {origin})
          /\ cut.baseline = Without(back.baseline, {origin})
        BY <2>4 DEF discard_output_history, Only, Fields
    <2>6. /\ Only(z, cut, {"baseline"})
          /\ z.baseline = IF view = 0 THEN cut.baseline ELSE With(cut.baseline, origin, view)
        BY <2>5 DEF Only, Fields
    <2>7. /\ Only(z, x, {"outputs", "membership", "displaced", "previous", "baseline"})
          /\ z.outputs = back.outputs /\ z.membership = back.membership
          /\ z.displaced = back.displaced /\ z.previous = Without(x.previous, {origin})
          /\ cut.baseline = Without(x.baseline, {origin})
        <3> HIDE DEF z, back, cut, view
        <3>1. /\ z.outputs = cut.outputs /\ z.membership = cut.membership
              /\ z.displaced = cut.displaced /\ z.previous = cut.previous
            BY <2>6 DEF Only, Fields
        <3>2. /\ cut.outputs = back.outputs /\ cut.membership = back.membership
              /\ cut.displaced = back.displaced
            BY <2>5 DEF Only, Fields
        <3>3. back.previous = x.previous /\ back.baseline = x.baseline
            BY <2>4 DEF Only, Fields
        <3>4. Only(z, x, {"outputs", "membership", "displaced", "previous", "baseline"})
            BY <2>4, <2>5, <2>6 DEF Only
        <3> QED BY <2>5, <3>1, <3>2, <3>3, <3>4
    <2>8. /\ OrderOK(left) /\ OrderOK(returning)
          /\ Entries(returning) = {e \in Entries(order) : e.id \in M}
          /\ Entries(left) = {e \in Entries(order) : e.id \notin M}
        <3>1. \A e \in Entries(order) : e.id \in Ids(order)
            BY IdsOfEntries
        <3> HIDE DEF order, M
        <3>2. /\ OrderOK(returning) /\ Entries(returning) = {e \in Entries(order) : e.id \in M}
            BY <2>3, PickedIsOrder
        <3>3. OrderOK(left) /\ Entries(left) = {e \in Entries(order) : e.id \in Ids(order) \ M}
            BY <2>3, PickedIsOrder
        <3> QED BY <3>1, <3>2, <3>3
    <2> HIDE DEF left, returning
    <2>9. /\ OrderOK(own.order) /\ Entries(own.order) = EntriesOf(x, origin)
          /\ own.active \in DOMAIN own.order \/ (own.order = <<>> /\ own.active = 1)
          /\ Ids(own.order) = IdsOf(x, origin)
        <3>1. CASE origin \in DOMAIN x.outputs
            BY <1>0, <3>1 DEF Form, OutOK, EntriesOf, IdsOf
        <3>2. CASE origin \notin DOMAIN x.outputs
            <4>1. own.order = <<>> /\ own.active = 1
                BY <3>2
            <4>2. OrderOK(<<>>) /\ Entries(<<>>) = {} /\ Ids(<<>>) = {}
                BY DEF OrderOK, Entries, Ids
            <4> QED BY <3>2, <4>1, <4>2 DEF EntriesOf, IdsOf
        <3> QED BY <3>1, <3>2
    <2> DEFINE b == own.order \o returning
    <2>10. Ids(own.order) \cap Ids(returning) = {}
        <3>1. Ids(returning) \subseteq Ids(order)
            BY <2>8, IdsOfEntries
        <3>2. IdsOf(x, origin) \cap IdsOf(x, dest) = {}
            BY <1>0, <1>2, <2>1 DEF Sound, Apart, IdsOf
        <3> QED BY <2>3, <2>9, <3>1, <3>2
    <2> HIDE DEF own
    <2>11. /\ OrderOK(b) /\ Entries(b) = Entries(own.order) \cup Entries(returning)
           /\ \A i \in DOMAIN own.order : i \in DOMAIN b /\ b[i] = own.order[i]
           /\ Len(b) = Len(own.order) + Len(returning)
        BY <2>8, <2>9, <2>10, ConcatIsOrder
    <2> HIDE DEF b
    <2>12. grown.order = b /\ grown.active = own.active
        BY DEF b
    <2>13. OutOK(grown)
        <3>1. CASE own.active \in DOMAIN own.order
            BY <2>11, <2>12, <3>1 DEF OutOK
        <3>2. CASE own.order = <<>> /\ own.active = 1
            <4>1. b \in Seq(Entry)
                BY <2>11 DEF OrderOK
            <4>2. b = <<>> \/ 1 \in DOMAIN b
                BY <4>1
            <4> QED BY <2>11, <2>12, <3>2, <4>2 DEF OutOK
        <3> QED BY <2>9, <3>1, <3>2
    <2>14. shrunk.order = left
        OBVIOUS
    <2>15. OutOK(shrunk)
        <3>1. left \in Seq(Entry) /\ DOMAIN left = 1 .. Len(left) /\ Len(left) \in Nat
            BY <2>8 DEF OrderOK
        <3>2. left # <<>> => Len(left) # 0
            BY <3>1
        <3>3. active \in Nat /\ active # 0
            <4>1. order \in Seq(Entry)
                BY <2>3 DEF OrderOK
            <4>2. DOMAIN order = 1 .. Len(order) /\ Len(order) \in Nat
                BY <4>1
            <4>3. active \in DOMAIN order \/ active = 1
                BY <2>3 DEF OutOK
            <4> HIDE DEF active, order
            <4> QED BY <4>2, <4>3
        <3>4. shrunk.active = IF active <= Len(left) THEN active
                              ELSE IF left = <<>> THEN 1 ELSE Len(left)
            OBVIOUS
        <3> HIDE DEF shrunk, active
        <3>5. shrunk.active \in DOMAIN left \/ (left = <<>> /\ shrunk.active = 1)
            BY <3>1, <3>2, <3>3, <3>4
        <3> QED BY <2>8, <2>14, <3>5 DEF OutOK
    <2>16. /\ DOMAIN z.outputs = DOMAIN x.outputs \cup {origin}
           /\ \A p \in DOMAIN x.outputs \ {origin, dest} : z.outputs[p] = x.outputs[p]
           /\ z.outputs[dest] = shrunk /\ z.outputs[origin] = grown
        <3> HIDE DEF z, back, shrunk, grown, dest
        <3>1. PICK mid : mid = With(x.outputs, dest, shrunk)
            OBVIOUS
        <3>2. /\ DOMAIN mid = DOMAIN x.outputs /\ mid[dest] = shrunk
              /\ \A p \in DOMAIN x.outputs \ {dest} : mid[p] = x.outputs[p]
            BY <1>2, <3>1 DEF With
        <3>3. z.outputs = With(mid, origin, grown)
            BY <2>4, <2>7, <3>1
        <3>4. /\ DOMAIN z.outputs = DOMAIN mid \cup {origin} /\ z.outputs[origin] = grown
              /\ \A p \in DOMAIN mid \ {origin} : z.outputs[p] = mid[p]
            BY <3>3 DEF With
        <3> QED BY <1>2, <2>1, <3>2, <3>4
    <2> HIDE DEF z, back, cut, view, shrunk, grown, order, active
    <2>17. EntriesOf(z, origin) = Entries(b) /\ EntriesOf(z, dest) = Entries(left)
        BY <1>2, <2>12, <2>14, <2>16 DEF EntriesOf
    <2>18. /\ EntriesOf(z, origin) = EntriesOf(x, origin) \cup {e \in EntriesOf(x, dest) : e.id \in M}
           /\ EntriesOf(z, dest) = {e \in EntriesOf(x, dest) : e.id \notin M}
        BY <2>3, <2>8, <2>9, <2>11, <2>17
    <2>19. DOMAIN z.membership = DOMAIN x.membership
        BY <2>4, <2>7
    <2> HIDE DEF M, dest
    <2>20. ASSUME NEW w \in DOMAIN x.membership
           PROVE  LET m == x.membership[w]
                      n == z.membership[w]
                  IN  /\ DOMAIN n = {"output", "ws", "hidden"} /\ n.ws = m.ws
                      /\ n.hidden = m.hidden
                      /\ n.output = IF m.output = dest /\ m.ws \in M THEN origin ELSE m.output
        <3>1. DOMAIN x.membership[w] = {"output", "ws", "hidden"}
            BY <1>0 DEF Form
        <3>2. z.membership[w] = IF x.membership[w].output = dest /\ x.membership[w].ws \in M
                                THEN [x.membership[w] EXCEPT !.output = origin]
                                ELSE x.membership[w]
            BY <2>4, <2>7
        <3> QED BY <3>1, <3>2
    <2>21. \A o \in DOMAIN z.displaced : z.displaced[o].dest # o /\ z.displaced[o].ids \subseteq Live(x)
        BY <1>0, <2>4, <2>7 DEF Without, Sound, KeptFor
    <2>22. Shift(z, x, dest, origin, M)
        BY <1>2, <2>1, <2>7, <2>13, <2>15, <2>16, <2>18, <2>19, <2>20, <2>21 DEF Shift
    <2>23. Sound(z)
        BY <1>0, <2>22, ShiftedKeeps
    <2>24. view = ActiveId(z, origin)
        BY <2>7, SameOutputs DEF view
    <2>25. /\ \A p \in DOMAIN z.outputs \ {origin, dest} :
                  IdsOf(z, p) = IdsOf(x, p) /\ ActiveId(z, p) = ActiveId(x, p)
        BY <2>16 DEF IdsOf, ActiveId
    <2>26. /\ DOMAIN z.baseline \subseteq DOMAIN x.baseline \cup {origin}
           /\ \A p \in DOMAIN x.baseline \ {origin} :
                  p \in DOMAIN z.baseline /\ z.baseline[p] = x.baseline[p]
           /\ view # 0 => origin \in DOMAIN z.baseline /\ z.baseline[origin] = view
        <3>1. CASE view = 0
            BY <2>6, <2>7, <3>1 DEF Without
        <3>2. CASE view # 0
            <4>1. PICK f : f = Without(x.baseline, {origin})
                OBVIOUS
            <4>2. DOMAIN f = DOMAIN x.baseline \ {origin} /\ \A p \in DOMAIN f : f[p] = x.baseline[p]
                BY <4>1 DEF Without
            <4>3. z.baseline = With(f, origin, view)
                BY <2>6, <2>7, <3>2, <4>1
            <4> QED BY <4>2, <4>3 DEF With
        <3> QED BY <3>1, <3>2
    <2>27. /\ DOMAIN z.previous = DOMAIN x.previous \ {origin}
           /\ \A p \in DOMAIN z.previous : z.previous[p] = x.previous[p]
        BY <2>7 DEF Without
    <2>28. History(z, {dest})
        BY <1>0, <2>16, <2>24, <2>25, <2>26, <2>27 DEF History
    <2> DEFINE v == validate_history(z, dest)
    <2>29. Only(v, z, {"previous", "baseline"}) /\ Sound(v) /\ History(v, {dest})
        BY <2>23, <2>28, ValidateInside
    <2> HIDE DEF v
    <2>30. History(v, {dest} \cup {origin})
        BY <2>29 DEF History
    <2>31. ActiveId(v, origin) # 0 =>
               origin \in DOMAIN v.baseline /\ v.baseline[origin] = ActiveId(v, origin)
        BY <2>1, <2>29, ActiveIs DEF History
    <2>32. /\ Only(validate_history(v, origin), v, {"previous", "baseline"})
           /\ Sound(validate_history(v, origin)) /\ History(validate_history(v, origin), {dest})
        BY <2>29, <2>30, <2>31, ValidateKeeps
    <2>33. y = validate_history(v, origin)
        BY <2>2 DEF v
    <2>34. Only(y, x, {"outputs", "membership", "displaced", "previous", "baseline"})
        BY <2>7, <2>29, <2>32, <2>33 DEF Only
    <2>35. y.displaced = Without(x.displaced, {origin})
        <3>1. y.displaced = z.displaced
            BY <2>29, <2>32, <2>33 DEF Only, Fields
        <3> QED BY <2>4, <2>7, <3>1
    <2> QED BY <2>32, <2>33, <2>34, <2>35 DEF dest
<1> QED BY <1>1, <1>2

\* The view of the monitor that held them is observed.
LEMMA ReturnedKeeps ==
    ASSUME NEW x, Good(x), NEW origin \in Outputs
    PROVE  /\ Good(Returned(x, origin))
           /\ Only(Returned(x, origin), x,
                   {"outputs", "membership", "displaced", "previous", "baseline"})
           /\ DOMAIN Returned(x, origin).displaced \subseteq DOMAIN x.displaced
           /\ DOMAIN Returned(x, origin).displaced = DOMAIN x.displaced => Returned(x, origin) = x
<1>1. CASE origin \notin DOMAIN x.displaced
    <2>1. Returned(x, origin) = x
        BY <1>1 DEF Returned
    <2>2. DOMAIN x = Fields
        BY DEF Good, Sound, Form
    <2> QED BY <2>1, <2>2 DEF Only
<1>2. CASE origin \in DOMAIN x.displaced
    <2> DEFINE dest == x.displaced[origin].dest
               back == reconnect_output(x, origin)
               y == observe_workspace_change(back, dest, ActiveId(back, dest))
    <2>1. /\ Sound(back) /\ History(back, {} \cup {dest})
          /\ Only(back, x, {"outputs", "membership", "displaced", "previous", "baseline"})
          /\ (dest \notin DOMAIN x.outputs /\ back = x) \/ back.displaced = Without(x.displaced, {origin})
        BY <1>2, ReconnectKeeps
    <2>2. Returned(x, origin) = y
        BY <1>2 DEF Returned, Observed
    <2>3. dest \notin DOMAIN back.outputs => y = back
        BY DEF observe_workspace_change
    <2> HIDE DEF back, dest
    <2>4. Only(y, back, {"previous", "baseline"}) /\ Sound(y) /\ History(y, {})
        BY <2>1, ObserveKeeps
    <2> HIDE DEF y
    <2>5. Only(y, x, {"outputs", "membership", "displaced", "previous", "baseline"})
        BY <2>1, <2>4 DEF Only
    <2>6. y.displaced = back.displaced
        BY <2>4 DEF Only, Fields
    <2>7. y = x \/ DOMAIN y.displaced = DOMAIN x.displaced \ {origin}
        BY <2>1, <2>3, <2>6 DEF Without
    <2> QED BY <1>2, <2>2, <2>4, <2>5, <2>7 DEF Good
<1> QED BY <1>1, <1>2

-----------------------------------------------------------------------------
(* Trailing maintenance.                                                       *)

\* What is tidied away is empty but for sticky windows.
LEMMA PlanIs ==
    ASSUME NEW x, Sound(x), NEW o \in DOMAIN x.outputs,
           NEW i \in plan_trailing(CleanupFacts(x, o)).remove
    PROVE  /\ i \in DOMAIN x.outputs[o].order
           /\ x.outputs[o].order[i].members \subseteq x.sticky
           /\ x.outputs[o].order[i].id # ActiveId(x, o)
<1> DEFINE order == x.outputs[o].order
           facts == CleanupFacts(x, o)
           S == {facts[j] : j \in DOMAIN order}
<1>1. order \in Seq(Entry) /\ DOMAIN order = 1 .. Len(order) /\ Len(order) \in Nat
    BY DEF Sound, Form, OutOK, OrderOK
<1>2. DOMAIN facts = DOMAIN order /\ \A j \in DOMAIN order :
          /\ facts[j].empty => order[j].members \subseteq x.sticky
          /\ ~facts[j].visible => order[j].id # ActiveId(x, o)
    BY DEF CleanupFacts
<1>3. facts \in [1 .. Len(order) -> S]
    <2>1. facts = [j \in DOMAIN order |-> facts[j]]
        BY DEF CleanupFacts
    <2> HIDE DEF facts, order
    <2> QED BY <1>1, <2>1
<1> HIDE DEF facts, order, S
<1>4. Len(facts) = Len(order)
    <2>1. facts \in Seq(S)
        BY <1>1, <1>3
    <2>2. DOMAIN facts = 1 .. Len(facts) /\ Len(facts) \in Nat
        BY <2>1
    <2> QED BY <1>1, <1>2, <2>2
<1>5. i \in 1 .. Len(facts) /\ facts[i].empty /\ ~facts[i].visible
    BY DEF plan_trailing, facts
<1> QED BY <1>1, <1>2, <1>4, <1>5 DEF order

\* The order that is left, with what was made for it, is an order again.
LEMMA ApplyKeeps ==
    ASSUME NEW x, Good(x), NEW o, ActiveId(x, o) # 0, NEW removed, NEW append,
           \A e \in EntriesOf(x, o) : e.id \in removed => e.members \subseteq x.sticky
    PROVE  /\ Good(apply_cleanup(x, o, removed, append))
           /\ Only(apply_cleanup(x, o, removed, append), x,
                   {"outputs", "minted", "displaced", "previous", "baseline"})
           /\ ActiveId(x, o) \notin removed => Steady(apply_cleanup(x, o, removed, append), x)
<1> DEFINE before == x.outputs[o].order
           kept == Picked(before, Ids(before) \ removed)
           more == IF Len(kept) + (IF append THEN 1 ELSE 0) >= MinWorkspaces
                   THEN (IF append THEN 1 ELSE 0) ELSE MinWorkspaces - Len(kept)
           base == WithOutput(x, o, kept, Active(x, o))
           grown == Appended(base, o, more)
           order == grown.outputs[o].order
           view == ActiveId(x, o)
           placed == WithOutput(grown, o, order, IF view \in Ids(order) THEN Position(order, view) ELSE 1)
           kept_for(p) == x.displaced[p].ids \cap Live(placed)
           z == [placed EXCEPT !.displaced =
                    [p \in {q \in DOMAIN x.displaced : kept_for(q) # {}} |->
                        [ids |-> kept_for(p), dest |-> x.displaced[p].dest]]]
           fresh == [i \in 1 .. more |-> [id |-> x.minted + i, members |-> {}]]
<1>0. Sound(x) /\ History(x, {}) /\ Form(x) /\ DOMAIN x = Fields /\ x.minted \in Nat
    BY DEF Good, Sound, Form
<1>1. apply_cleanup(x, o, removed, append) = validate_history(z, o)
    BY DEF apply_cleanup
<1>2. o \in DOMAIN x.outputs /\ o \in Outputs
    BY <1>0, ActiveIs DEF Form
<1>3. OrderOK(before) /\ EntriesOf(x, o) = Entries(before)
    BY <1>0, <1>2 DEF Form, OutOK, EntriesOf
<1>4. OrderOK(kept) /\ Entries(kept) = {e \in Entries(before) : e.id \notin removed}
    <2>1. \A e \in Entries(before) : e.id \in Ids(before)
        BY IdsOfEntries
    <2> HIDE DEF before
    <2>2. OrderOK(kept) /\ Entries(kept) = {e \in Entries(before) : e.id \in Ids(before) \ removed}
        BY <1>3, PickedIsOrder
    <2> QED BY <2>1, <2>2
<1> HIDE DEF kept
<1>5. more \in Nat
    <2>1. Len(kept) \in Nat
        BY <1>4 DEF OrderOK
    <2>2. MinWorkspaces = 2
        BY DEF MinWorkspaces
    <2>3. append \/ ~append
        OBVIOUS
    <2>4. CASE append
        BY <2>1, <2>2, <2>4
    <2>5. CASE ~append
        BY <2>1, <2>2, <2>5
    <2> QED BY <2>4, <2>5
<1> HIDE DEF more
<1>6. /\ OrderOK(fresh)
      /\ \A e \in Entries(fresh) : e.members = {} /\ e.id \in (x.minted + 1) .. (x.minted + more)
    BY <1>0, <1>5, FreshIsOrder
<1>7. /\ Only(base, x, {"outputs"})
      /\ base.outputs = With(x.outputs, o, [order |-> kept, active |-> x.outputs[o].active])
    BY <1>0 DEF WithOutput, Active, Only, Fields
<1>8. /\ DOMAIN base.outputs = DOMAIN x.outputs
      /\ \A p \in DOMAIN x.outputs \ {o} : base.outputs[p] = x.outputs[p]
      /\ base.outputs[o].order = kept /\ base.minted = x.minted
    <2> HIDE DEF base
    <2>1. base.minted = x.minted
        BY <1>7 DEF Only, Fields
    <2> QED BY <1>2, <1>7, <2>1 DEF With
<1>9. /\ Only(grown, base, {"outputs", "minted"}) /\ grown.minted = base.minted + more
      /\ grown.outputs = With(base.outputs, o,
             [order |-> kept \o [i \in 1 .. more |-> [id |-> base.minted + i, members |-> {}]],
              active |-> base.outputs[o].active])
    <2> HIDE DEF base
    <2>1. DOMAIN base = Fields
        BY <1>7 DEF Only
    <2> QED BY <1>8, <2>1 DEF Appended, WithOutput, Active, Only, Fields
<1> HIDE DEF base
<1>10. /\ DOMAIN grown.outputs = DOMAIN x.outputs
       /\ \A p \in DOMAIN x.outputs \ {o} : grown.outputs[p] = x.outputs[p]
       /\ grown.outputs[o].order = kept \o fresh /\ grown.minted = x.minted + more
    <2> HIDE DEF grown
    <2>1. base.minted = x.minted
        BY <1>8
    <2>2. grown.outputs = With(base.outputs, o, [order |-> kept \o fresh, active |-> base.outputs[o].active])
        BY <1>9, <2>1
    <2> HIDE DEF fresh
    <2>3. PICK out : out = [order |-> kept \o fresh, active |-> base.outputs[o].active]
        OBVIOUS
    <2>4. out.order = kept \o fresh
        BY <2>3
    <2>5. grown.outputs = With(base.outputs, o, out)
        BY <2>2, <2>3
    <2>6. /\ DOMAIN grown.outputs = DOMAIN base.outputs \cup {o} /\ grown.outputs[o] = out
          /\ \A p \in DOMAIN base.outputs \ {o} : grown.outputs[p] = base.outputs[p]
        BY <2>5 DEF With
    <2> QED BY <1>2, <1>8, <1>9, <2>1, <2>4, <2>6
<1>11. order = kept \o fresh
    BY <1>10
<1> HIDE DEF grown, order, fresh
<1>12. Ids(kept) \cap Ids(fresh) = {}
    <2>1. \A e \in Entries(kept) : e.id \in 1 .. x.minted
        BY <1>0, <1>2, <1>3, <1>4 DEF Sound, Seats
    <2> QED BY <1>0, <1>5, <1>6, <2>1, IdsOfEntries
<1>13. OrderOK(order) /\ Entries(order) = Entries(kept) \cup Entries(fresh)
    BY <1>4, <1>6, <1>11, <1>12, ConcatIsOrder
<1> DEFINE place == IF view \in Ids(order) THEN Position(order, view) ELSE 1
<1>14. /\ Only(placed, grown, {"outputs"})
       /\ placed.outputs = With(grown.outputs, o, [order |-> order, active |-> place])
    <2>1. DOMAIN grown = Fields
        BY <1>9 DEF Only
    <2> QED BY <2>1 DEF WithOutput, Only, Fields
<1> HIDE DEF place
<1>15. /\ DOMAIN placed.outputs = DOMAIN x.outputs
       /\ \A p \in DOMAIN x.outputs \ {o} : placed.outputs[p] = x.outputs[p]
       /\ placed.outputs[o].order = order /\ placed.outputs[o].active = place
    <2> HIDE DEF placed
    <2> QED BY <1>2, <1>10, <1>14 DEF With
<1>16. /\ Only(z, placed, {"displaced"})
       /\ z.displaced = [p \in {q \in DOMAIN x.displaced : kept_for(q) # {}} |->
                            [ids |-> kept_for(p), dest |-> x.displaced[p].dest]]
    <2>1. DOMAIN placed = Fields
        BY <1>14 DEF Only
    <2> HIDE DEF placed, kept_for
    <2> QED BY <2>1 DEF Only, Fields
<1> HIDE DEF placed, kept_for, view
<1>17. \A p \in DOMAIN z.displaced :
           p \in DOMAIN x.displaced /\ z.displaced[p].dest = x.displaced[p].dest
           /\ z.displaced[p].ids = kept_for(p)
    BY <1>16
<1> HIDE DEF z
<1>18. z.outputs = placed.outputs /\ z.minted = x.minted + more
    <2>1. z.minted = placed.minted /\ z.outputs = placed.outputs
        BY <1>16 DEF Only, Fields
    <2>2. placed.minted = grown.minted
        BY <1>14 DEF Only, Fields
    <2> QED BY <1>10, <2>1, <2>2
<1>19. Only(z, x, {"outputs", "minted", "displaced"})
    BY <1>7, <1>9, <1>14, <1>16 DEF Only
<1>20. KeptFor(z)
    <2>1. Live(z) = Live(placed)
        BY <1>18, SameOutputs
    <2> QED BY <1>0, <1>17, <2>1 DEF kept_for, KeptFor, Sound
<1>21. OutOK(z.outputs[o])
    <2>1. view \in Ids(order) => place \in DOMAIN order
        BY PositionIs DEF place
    <2>2. view \notin Ids(order) => place = 1
        BY DEF place
    <2>3. order = <<>> \/ 1 \in DOMAIN order
        <3>1. order \in Seq(Entry)
            BY <1>13 DEF OrderOK
        <3> QED BY <3>1
    <2>4. order = <<>> => view \notin Ids(order)
        BY DEF Ids
    <2> QED BY <1>13, <1>15, <1>18, <2>1, <2>2, <2>3, <2>4 DEF OutOK
<1>22. EntriesOf(z, o) = Entries(order)
    BY <1>2, <1>15, <1>18 DEF EntriesOf
<1>23. Sound(z)
    <2>1. Only(z, x, {"outputs", "minted", "displaced", "previous", "baseline"})
        BY <1>19 DEF Only
    <2>2. z.minted \in Nat /\ x.minted <= z.minted
        BY <1>0, <1>5, <1>18
    <2>3. DOMAIN z.outputs = DOMAIN x.outputs \cup {o}
          /\ \A p \in DOMAIN x.outputs \ {o} : z.outputs[p] = x.outputs[p]
        BY <1>2, <1>15, <1>18
    <2>4. \A e \in EntriesOf(z, o) : \/ e \in EntriesOf(x, o)
                                     \/ e.members = {} /\ e.id \in (x.minted + 1) .. z.minted
        BY <1>3, <1>4, <1>6, <1>13, <1>18, <1>22
    <2>5. \A e \in EntriesOf(x, o) \ EntriesOf(z, o) : e.members \subseteq x.sticky
        BY <1>3, <1>4, <1>13, <1>22
    <2> QED BY <1>0, <1>2, <1>20, <1>21, <2>1, <2>2, <2>3, <2>4, <2>5, RegrownKeeps
<1>24. z.previous = x.previous /\ z.baseline = x.baseline
    BY <1>19 DEF Only, Fields
<1>25. \A p \in DOMAIN x.outputs \ {o} : IdsOf(z, p) = IdsOf(x, p) /\ ActiveId(z, p) = ActiveId(x, p)
    BY <1>15, <1>18 DEF IdsOf, ActiveId
<1>26. History(z, {} \cup {o})
    BY <1>0, <1>15, <1>18, <1>24, <1>25 DEF History
<1>27. o \in DOMAIN x.baseline /\ x.baseline[o] = view
    BY <1>0, <1>2 DEF History, view
<1>28. /\ o \in DOMAIN z.baseline
       /\ z.baseline[o] = ActiveId(z, o) \/ z.baseline[o] \notin IdsOf(z, o)
    <2>1. IdsOf(z, o) = Ids(order)
        BY <1>2, <1>15, <1>18 DEF IdsOf
    <2>2. CASE view \in Ids(order)
        <3>1. order[place].id = view /\ order # <<>>
            BY <2>2, PositionIs DEF place, Ids
        <3>2. ActiveId(z, o) = view
            BY <1>2, <1>15, <1>18, <3>1 DEF ActiveId
        <3> QED BY <1>24, <1>27, <3>2
    <2> QED BY <1>24, <1>27, <2>1, <2>2
<1>29. /\ Only(validate_history(z, o), z, {"previous", "baseline"})
       /\ Sound(validate_history(z, o)) /\ History(validate_history(z, o), {})
    BY <1>23, <1>26, <1>28, ValidateKeeps
<1>30. Only(validate_history(z, o), x, {"outputs", "minted", "displaced", "previous", "baseline"})
    BY <1>19, <1>29 DEF Only
<1>31. ASSUME view \notin removed
       PROVE  Steady(validate_history(z, o), x)
    <2> DEFINE y == validate_history(z, o)
    <2>1. y.outputs = z.outputs /\ y.displaced = z.displaced
        BY <1>29 DEF Only, Fields
    <2>2. /\ y.known = x.known /\ y.claims = x.claims /\ y.membership = x.membership
        BY <1>30 DEF Only, Fields
    <2> HIDE DEF y
    <2>3. view \in Ids(order)
        <3>1. view \in IdsOf(x, o)
            BY <1>0, <1>2, ActiveIs DEF view
        <3>2. PICK e \in EntriesOf(x, o) : e.id = view
            BY <3>1, IdsOfIs
        <3>3. e \in Entries(order)
            BY <1>3, <1>4, <1>13, <1>31, <3>2
        <3> QED BY <3>2, <3>3, IdsOfEntries
    <2>4. ActiveId(z, o) = view
        <3>1. order[place].id = view /\ order # <<>>
            BY <2>3, PositionIs DEF place, Ids
        <3> QED BY <1>2, <1>15, <1>18, <3>1 DEF ActiveId
    <2>5. \A p \in DOMAIN x.outputs : ActiveId(y, p) = ActiveId(x, p)
        BY <1>25, <2>1, <2>4, SameOutputs DEF view
    <2>6. DOMAIN x.outputs \subseteq DOMAIN y.outputs
        BY <1>15, <1>18, <2>1
    <2>7. DOMAIN y.displaced \subseteq DOMAIN x.displaced
        BY <1>17, <2>1
    <2> QED BY <2>2, <2>5, <2>6, <2>7 DEF Steady, y
<1> QED BY <1>1, <1>29, <1>30, <1>31 DEF Good, view

\* An output is tidied.
LEMMA CleanupKeeps ==
    ASSUME NEW x, Good(x), NEW o, ActiveId(x, o) # 0
    PROVE  /\ Good(Cleanup(x, o))
           /\ Only(Cleanup(x, o), x, {"outputs", "minted", "displaced", "previous", "baseline"})
           /\ Steady(Cleanup(x, o), x)
<1> DEFINE order == x.outputs[o].order
           plan == plan_trailing(CleanupFacts(x, o))
           removed == {order[i].id : i \in plan.remove}
<1>0. Sound(x) /\ Form(x)
    BY DEF Good, Sound
<1>1. o \in DOMAIN x.outputs /\ order # <<>>
    BY <1>0, ActiveIs
<1>2. Cleanup(x, o) = apply_cleanup(x, o, removed, plan.append)
    BY <1>1 DEF Cleanup
<1>3. ASSUME NEW e \in EntriesOf(x, o), e.id \in removed
      PROVE  e.members \subseteq x.sticky
    <2>1. PICK i \in plan.remove : e.id = order[i].id
        BY <1>3
    <2>2. i \in DOMAIN order /\ order[i].members \subseteq x.sticky
        BY <1>0, <1>1, PlanIs
    <2>3. order[i] \in EntriesOf(x, o)
        BY <1>1, <2>2 DEF EntriesOf, Entries
    <2>4. e = order[i]
        BY <1>0, <2>1, <2>3, EntryIs
    <2> QED BY <2>2, <2>4
<1>4. ActiveId(x, o) \notin removed
    BY <1>0, <1>1, PlanIs
<1> HIDE DEF removed, plan
<1> QED BY <1>2, <1>3, <1>4, ApplyKeeps

-----------------------------------------------------------------------------
(* A pass over the outputs.                                                    *)

\* f is the recursive function that Each is defined by.
EachUpTo(work, s, S, arg, f) ==
    f = [i \in 0 .. Len(OutputOrder) |->
            IF i = 0 THEN s
            ELSE IF OutputOrder[i] \in S THEN Visit(work, f[i - 1], OutputOrder[i], arg)
            ELSE f[i - 1]]

\* That function exists.
LEMMA EachIsDefined ==
    ASSUME Len(OutputOrder) \in Nat, NEW work, NEW s, NEW S, NEW arg
    PROVE  \E f : EachUpTo(work, s, S, arg, f) /\ Each(work, s, S, arg) = f[Len(OutputOrder)]
<1> DEFINE N == Len(OutputOrder)
           Stage(f, i) == IF i = 0 THEN s
                          ELSE IF OutputOrder[i] \in S THEN Visit(work, f[i - 1], OutputOrder[i], arg)
                          ELSE f[i - 1]
           Counts == {n \in Nat : \E f : f = [i \in 0..n |-> Stage(f, i)]}
<1>1. 0 \in Counts
    <2> DEFINE f == [i \in 0..0 |-> s]
    <2>1. f = [i \in 0..0 |-> Stage(f, i)]
        OBVIOUS
    <2> QED BY <2>1
<1>2. ASSUME NEW n \in 1..N, n - 1 \in Counts
      PROVE  n \in Counts
    <2>0. n \in Nat /\ n - 1 \in Nat /\ n # 0
        OBVIOUS
    <2>1. PICK f : f = [i \in 0..(n - 1) |-> Stage(f, i)]
        BY <1>2
    <2> DEFINE g == [i \in 0..n |-> IF i = n THEN Stage(f, n) ELSE f[i]]
    <2>2. ASSUME NEW i \in 0..n
          PROVE  g[i] = Stage(g, i)
        <3>1. CASE i = n
            <4>1. n - 1 \in 0..n /\ n - 1 # n
                BY <2>0
            <4>2. g[n - 1] = f[n - 1]
                BY <4>1
            <4>3. g[i] = Stage(f, n)
                BY <3>1
            <4> QED BY <3>1, <4>2, <4>3
        <3>2. CASE i # n /\ i # 0
            <4>1. i - 1 \in 0..(n - 1) /\ i - 1 # n /\ i \in 0..(n - 1) /\ i - 1 \in 0..n
                BY <2>0, <3>2
            <4>2. g[i - 1] = f[i - 1]
                BY <4>1
            <4>3. g[i] = f[i]
                BY <3>2
            <4>4. f[i] = Stage(f, i)
                <5> HIDE DEF Stage
                <5> QED BY <2>1, <4>1
            <4> QED BY <3>2, <4>2, <4>3, <4>4
        <3>3. CASE i = 0
            <4>1. 0 # n /\ 0 \in 0..(n - 1) /\ 0 \in 0..n
                BY <2>0
            <4>2. g[0] = f[0]
                BY <4>1
            <4>3. f[0] = Stage(f, 0)
                BY <2>1, <4>1
            <4> QED BY <3>3, <4>2, <4>3
        <3> QED BY <3>1, <3>2, <3>3
    <2>3. g = [i \in 0..n |-> g[i]]
        OBVIOUS
    <2> HIDE DEF Stage, g
    <2>4. g = [i \in 0..n |-> Stage(g, i)]
        BY <2>2, <2>3
    <2> QED BY <2>0, <2>4
<1> HIDE DEF Counts
<1>3. N \in 0..N
    OBVIOUS
<1>4. N \in Counts
    BY <1>1, <1>2, <1>3, UpTo
<1>5. \E f : EachUpTo(work, s, S, arg, f)
    BY <1>4 DEF Counts, EachUpTo
<1> DEFINE done == CHOOSE f : EachUpTo(work, s, S, arg, f)
<1>6. EachUpTo(work, s, S, arg, done)
    BY <1>5
<1>7. Each(work, s, S, arg) = done[Len(OutputOrder)]
    BY DEF Each, EachUpTo
<1> QED BY <1>6, <1>7

\* Only monitors that go are kept for; but for them and those that return, a pass is steady.
Lasting(work, y, x) ==
    /\ work # "relocate" => DOMAIN y.displaced \subseteq DOMAIN x.displaced
    /\ \/ work \in {"ensure", "clean"}
       \/ work = "return" /\ DOMAIN y.displaced = DOMAIN x.displaced
       => Steady(y, x)

\* Two passes are one.
LEMMA LastingTogether ==
    ASSUME NEW work, NEW x, NEW y, NEW z, Lasting(work, y, x), Lasting(work, z, y)
    PROVE  Lasting(work, z, x)
<1>1. ASSUME work \in {"ensure", "clean"}
      PROVE  Steady(z, x) /\ DOMAIN z.displaced \subseteq DOMAIN x.displaced
    <2>1. Steady(z, x)
        BY <1>1, SteadyTogether DEF Lasting
    <2> QED BY <2>1 DEF Steady
<1>2. ASSUME work = "return", DOMAIN z.displaced = DOMAIN x.displaced
      PROVE  Steady(z, x)
    <2>1. DOMAIN z.displaced \subseteq DOMAIN y.displaced /\ DOMAIN y.displaced \subseteq DOMAIN x.displaced
        BY <1>2 DEF Lasting
    <2> QED BY <1>2, <2>1, SteadyTogether DEF Lasting
<1> QED BY <1>1, <1>2 DEF Lasting

\* What a pass may change.
Passed(work, y, x) ==
    /\ Good(y) /\ Only(y, x, {"outputs", "minted", "membership", "displaced", "previous", "baseline"})
    /\ work = "ensure" => y.membership = x.membership
    /\ Lasting(work, y, x)

\* What is done at one output keeps the registry right.
LEMMA VisitKeeps ==
    ASSUME NEW work \in {"ensure", "relocate", "return", "clean"}, NEW x, Good(x),
           NEW o \in Outputs, NEW arg
    PROVE  Passed(work, Visit(work, x, o, arg), x)
<1>0. DOMAIN x = Fields
    BY DEF Good, Sound, Form
<1>1. CASE work = "ensure"
    <2>1. Visit(work, x, o, arg) = ensure_output(x, o)
        BY <1>1 DEF Visit
    <2> DEFINE y == ensure_output(x, o)
    <2>2. Good(y) /\ Only(y, x, {"outputs", "minted", "baseline"}) /\ Steady(y, x)
        BY EnsureKeeps
    <2> HIDE DEF y
    <2>3. Lasting(work, y, x)
        BY <1>1, <2>2 DEF Lasting, Steady
    <2> QED BY <2>1, <2>2, <2>3 DEF Passed, Only, Fields, y
<1>2. CASE work = "relocate"
    <2>1. Visit(work, x, o, arg) = Relocated(x, o, arg[o].dest, arg[o].fg)
        BY <1>2 DEF Visit
    <2> QED BY <1>2, <2>1, RelocatedKeeps DEF Passed, Only, Lasting
<1>3. CASE work = "return"
    <2>1. Visit(work, x, o, arg) = Returned(x, o)
        BY <1>3 DEF Visit
    <2> DEFINE y == Returned(x, o)
    <2>2. /\ Good(y) /\ Only(y, x, {"outputs", "membership", "displaced", "previous", "baseline"})
          /\ DOMAIN y.displaced \subseteq DOMAIN x.displaced
          /\ DOMAIN y.displaced = DOMAIN x.displaced => y = x
        BY ReturnedKeeps
    <2> HIDE DEF y
    <2>3. Lasting(work, y, x)
        BY <1>3, <2>2 DEF Lasting, Steady
    <2> QED BY <1>3, <2>1, <2>2, <2>3 DEF Passed, Only, y
<1>4. CASE work = "clean"
    <2>1. Visit(work, x, o, arg) = IF ActiveId(x, o) = 0 THEN x ELSE Cleanup(x, o)
        BY <1>4 DEF Visit
    <2>2. CASE ActiveId(x, o) = 0
        <3>1. Lasting(work, x, x)
            BY <1>4 DEF Lasting, Steady
        <3> QED BY <1>0, <1>4, <2>1, <2>2, <3>1 DEF Passed, Only
    <2>3. CASE ActiveId(x, o) # 0
        <3> DEFINE y == Cleanup(x, o)
        <3>1. Passed("clean", y, x)
            <4>1. /\ Good(y) /\ Steady(y, x)
                  /\ Only(y, x, {"outputs", "minted", "displaced", "previous", "baseline"})
                BY <2>3, CleanupKeeps
            <4> HIDE DEF y
            <4>2. Lasting("clean", y, x)
                BY <4>1 DEF Lasting, Steady
            <4> QED BY <4>1, <4>2 DEF Passed, Only
        <3> QED BY <1>4, <2>1, <2>3, <3>1
    <2> QED BY <2>2, <2>3
<1> QED BY <1>1, <1>2, <1>3, <1>4

\* So does a pass over several of them.
LEMMA EachKeeps ==
    ASSUME Assumption, NEW work \in {"ensure", "relocate", "return", "clean"}, NEW x, Good(x),
           NEW S, NEW arg
    PROVE  Passed(work, Each(work, x, S, arg), x)
<1>1. /\ Len(OutputOrder) \in Nat
      /\ \A i \in 1 .. Len(OutputOrder) : OutputOrder[i] \in Outputs
    BY DEF Assumption
<1>2. PICK f : EachUpTo(work, x, S, arg, f) /\ Each(work, x, S, arg) = f[Len(OutputOrder)]
    BY <1>1, EachIsDefined
<1> DEFINE Right == {i \in 0 .. Len(OutputOrder) : Passed(work, f[i], x)}
<1>3. 0 \in Right
    <2>1. f[0] = x
        BY <1>1, <1>2 DEF EachUpTo
    <2>2. DOMAIN x = Fields
        BY DEF Good, Sound, Form
    <2>3. Lasting(work, x, x)
        BY DEF Lasting, Steady
    <2> QED BY <1>1, <2>1, <2>2, <2>3 DEF Passed, Only
<1>4. ASSUME NEW i \in 1 .. Len(OutputOrder), i - 1 \in Right
      PROVE  i \in Right
    <2>1. i \in 0 .. Len(OutputOrder) /\ i # 0
        BY <1>1
    <2>2. f[i] = IF OutputOrder[i] \in S THEN Visit(work, f[i - 1], OutputOrder[i], arg) ELSE f[i - 1]
        BY <1>2, <2>1, Zenon DEF EachUpTo
    <2>3. Passed(work, f[i - 1], x)
        BY <1>4
    <2>4. Good(f[i - 1]) /\ OutputOrder[i] \in Outputs
        BY <1>1, <2>3 DEF Passed
    <2>5. Passed(work, Visit(work, f[i - 1], OutputOrder[i], arg), f[i - 1])
        BY <2>4, VisitKeeps
    <2> DEFINE z == Visit(work, f[i - 1], OutputOrder[i], arg)
    <2> HIDE DEF z
    <2>6. Lasting(work, z, x)
        BY <2>3, <2>5, LastingTogether DEF Passed, z
    <2>7. Passed(work, z, x)
        BY <2>3, <2>5, <2>6 DEF Passed, Only, z
    <2> QED BY <2>1, <2>2, <2>3, <2>7 DEF z
<1> HIDE DEF Right
<1>5. Len(OutputOrder) \in Right
    <2>1. \A i \in 0 .. Len(OutputOrder) : i \in Right
        BY <1>1, <1>3, <1>4, UpTo
    <2> QED BY <1>1, <2>1
<1> QED BY <1>2, <1>5 DEF Right

\* A pass over no output changes nothing.
LEMMA EachNowhere ==
    ASSUME Assumption, NEW work, NEW x, NEW S, S = {}, NEW arg
    PROVE  Each(work, x, S, arg) = x
<1>1. Len(OutputOrder) \in Nat
    BY DEF Assumption
<1>2. PICK f : EachUpTo(work, x, S, arg, f) /\ Each(work, x, S, arg) = f[Len(OutputOrder)]
    BY <1>1, EachIsDefined
<1> DEFINE Same == {i \in 0 .. Len(OutputOrder) : f[i] = x}
<1>3. 0 \in Same
    BY <1>1, <1>2 DEF EachUpTo
<1>4. ASSUME NEW i \in 1 .. Len(OutputOrder), i - 1 \in Same
      PROVE  i \in Same
    <2>1. i \in 0 .. Len(OutputOrder) /\ i # 0
        BY <1>1
    <2>2. f[i] = IF OutputOrder[i] \in S THEN Visit(work, f[i - 1], OutputOrder[i], arg) ELSE f[i - 1]
        BY <1>2, <2>1, Zenon DEF EachUpTo
    <2> QED BY <1>4, <2>1, <2>2
<1> HIDE DEF Same
<1>5. \A i \in 0 .. Len(OutputOrder) : i \in Same
    BY <1>1, <1>3, <1>4, UpTo
<1> QED BY <1>1, <1>2, <1>5 DEF Same

\* sync_monitor_outputs brings the registry up to the monitors there are.
LEMMA SyncKeeps ==
    ASSUME Assumption, NEW x, Good(x), NEW current \in SUBSET Outputs, NEW dest, NEW fg
    PROVE  LET y == sync_monitor_outputs(x, current, dest, fg)
           IN  /\ Good(y) /\ y.known = current
               /\ current = x.known =>
                     /\ DOMAIN y.displaced \subseteq DOMAIN x.displaced
                     /\ DOMAIN y.displaced = DOMAIN x.displaced => Steady(y, x)
<1> DEFINE made == Each("ensure", x, current \ DOMAIN x.displaced, Empty)
           away == Leave(made, current, dest, fg)
           back == Each("return", away, current, Empty)
           y == [back EXCEPT !.known = current]
<1>1. Good(made) /\ Passed("ensure", made, x)
    BY EachKeeps DEF Passed
<1> HIDE DEF made
<1>2. /\ Good(away)
      /\ made.known \ current = {} => away = made
    BY <1>1, EachKeeps, EachNowhere DEF Passed, Leave
<1> HIDE DEF away
<1>3. Good(back) /\ Passed("return", back, away)
    BY <1>2, EachKeeps DEF Passed
<1> HIDE DEF back
<1>4. Sound(back) /\ Form(back) /\ DOMAIN back = Fields
    BY <1>3 DEF Good, Sound, Form
<1>5. Only(y, back, {"known"}) /\ y.known = current
    BY <1>4 DEF Only, Fields
<1> HIDE DEF y
<1>6. /\ y.outputs = back.outputs /\ y.membership = back.membership /\ y.claims = back.claims
      /\ y.sticky = back.sticky /\ y.previous = back.previous /\ y.baseline = back.baseline
    BY <1>5 DEF Only, Fields
<1>7. Sound(y)
    <2>1. Held(y)
        BY <1>4, <1>6 DEF Sound, Held
    <2>2. Only(y, back, {"membership", "claims", "sticky", "previous", "baseline", "known"})
        BY <1>5 DEF Only
    <2>3. /\ y.known \subseteq Outputs /\ y.sticky \subseteq DOMAIN back.membership
          /\ \A w \in DOMAIN back.membership : DOMAIN y.membership[w] = {"output", "ws", "hidden"}
        BY <1>4, <1>5, <1>6 DEF Form
    <2> QED BY <1>4, <1>6, <2>1, <2>2, <2>3, TouchedKeeps
<1>8. History(y, {})
    BY <1>3, <1>6, SameOutputs, HistoryStays DEF Good
<1>9. sync_monitor_outputs(x, current, dest, fg) = y
    BY DEF sync_monitor_outputs, y, back, away, made
<1>10. ASSUME current = x.known
       PROVE  /\ DOMAIN y.displaced \subseteq DOMAIN x.displaced
              /\ DOMAIN y.displaced = DOMAIN x.displaced => Steady(y, x)
    <2>1. made.known = x.known
        BY <1>1 DEF Passed, Only, Fields
    <2>2. away = made
        BY <1>2, <1>10, <2>1
    <2>3. /\ Steady(made, x)
          /\ DOMAIN back.displaced \subseteq DOMAIN made.displaced
          /\ DOMAIN back.displaced = DOMAIN made.displaced => Steady(back, made)
        BY <1>1, <1>3, <2>2 DEF Passed, Lasting
    <2>4. y.displaced = back.displaced
        BY <1>5 DEF Only, Fields
    <2>5. ASSUME DOMAIN y.displaced = DOMAIN x.displaced
          PROVE  Steady(y, x)
        <3>1. Steady(back, x)
            BY <2>3, <2>4, <2>5, SteadyTogether DEF Steady
        <3>2. \A o : ActiveId(y, o) = ActiveId(back, o)
            BY <1>6, SameOutputs
        <3> QED BY <1>5, <1>6, <1>10, <2>4, <3>1, <3>2 DEF Steady
    <2> QED BY <2>3, <2>4, <2>5 DEF Steady
<1> QED BY <1>5, <1>7, <1>8, <1>9, <1>10 DEF Good

-----------------------------------------------------------------------------
(* Windows, flags and claims.                                                  *)

\* The members of a workspace are the windows on record for it.
LEMMA MembersIs ==
    ASSUME NEW x, Sound(x), NEW o, NEW id
    PROVE  /\ id \in IdsOf(x, o) => Members(x, o, id) = OnRecord(x, o, id)
           /\ Members(x, o, id) \subseteq DOMAIN x.membership
<1>1. ASSUME id \in IdsOf(x, o)
      PROVE  Members(x, o, id) = OnRecord(x, o, id)
    <2> DEFINE a == x.outputs[o].order
               e == a[Position(a, id)]
    <2>1. o \in DOMAIN x.outputs /\ id \in Ids(a)
        BY <1>1 DEF IdsOf
    <2>2. Position(a, id) \in DOMAIN a /\ e.id = id
        BY <2>1, PositionIs
    <2>3. e \in EntriesOf(x, o)
        BY <2>1, <2>2 DEF EntriesOf, Entries
    <2>4. e.members = OnRecord(x, o, id)
        BY <2>1, <2>2, <2>3 DEF Sound, Seats
    <2> QED BY <1>1, <2>4 DEF Members
<1>2. Members(x, o, id) \subseteq DOMAIN x.membership
    BY <1>1 DEF OnRecord, Members
<1> QED BY <1>1, <1>2

\* y is x with the flag of the windows W set to b, and the claims C.
Flagged(y, x, W, b, C) ==
    /\ Only(y, x, {"claims", "membership"}) /\ y.claims = C
    /\ DOMAIN y.membership = DOMAIN x.membership
    /\ \A w \in DOMAIN x.membership :
          /\ DOMAIN y.membership[w] = {"output", "ws", "hidden"}
          /\ y.membership[w].output = x.membership[w].output
          /\ y.membership[w].ws = x.membership[w].ws
          /\ y.membership[w].hidden = IF w \in W THEN b ELSE x.membership[w].hidden

\* Windows C that are on record as hidden once the flag of W is b.
Claimable(x, W, b, C) ==
    \A w \in C : /\ w \in DOMAIN x.membership \ x.sticky
                 /\ IF w \in W THEN b ELSE x.membership[w].hidden

\* That is what SetHidden does.
LEMMA SetHiddenIs ==
    ASSUME NEW x, Good(x), NEW z, Only(z, x, {"claims"}), NEW W, NEW b
    PROVE  Flagged(SetHidden(z, W, b), x, W, b, z.claims)
<1> DEFINE y == SetHidden(z, W, b)
<1>1. DOMAIN z = Fields /\ z.membership = x.membership
    BY DEF Only, Fields
<1>2. /\ Only(y, z, {"membership"})
      /\ y.membership = [w \in DOMAIN z.membership |->
             IF w \in W THEN [z.membership[w] EXCEPT !.hidden = b] ELSE z.membership[w]]
    BY <1>1 DEF SetHidden, Only, Fields
<1> HIDE DEF y
<1>3. Only(y, x, {"claims", "membership"}) /\ y.claims = z.claims
    BY <1>2 DEF Only, Fields
<1>4. DOMAIN y.membership = DOMAIN x.membership
    BY <1>1, <1>2
<1>5. ASSUME NEW w \in DOMAIN x.membership
      PROVE  /\ DOMAIN y.membership[w] = {"output", "ws", "hidden"}
             /\ y.membership[w].output = x.membership[w].output
             /\ y.membership[w].ws = x.membership[w].ws
             /\ y.membership[w].hidden = IF w \in W THEN b ELSE x.membership[w].hidden
    <2>1. DOMAIN x.membership[w] = {"output", "ws", "hidden"}
        BY DEF Good, Sound, Form
    <2>2. y.membership[w] = IF w \in W THEN [x.membership[w] EXCEPT !.hidden = b] ELSE x.membership[w]
        BY <1>1, <1>2
    <2> QED BY <2>1, <2>2
<1> QED BY <1>3, <1>4, <1>5 DEF Flagged, y

\* Flags may be set as long as what is claimed stays on record as hidden.
LEMMA FlaggedKeeps ==
    ASSUME NEW x, Good(x), NEW y, NEW W, NEW b, NEW C, Flagged(y, x, W, b, C),
           Claimable(x, W, b, C)
    PROVE  /\ Good(y) /\ y.sticky = x.sticky
           /\ \A o : ActiveId(y, o) = ActiveId(x, o) /\ IdsOf(y, o) = IdsOf(x, o)
           /\ y.known = x.known /\ y.displaced = x.displaced
           /\ C \subseteq x.claims => Steady(y, x)
<1> USE DEF Flagged
<1>0. Sound(x) /\ Form(x) /\ History(x, {})
    BY DEF Good, Sound
<1>1. /\ y.outputs = x.outputs /\ y.sticky = x.sticky /\ y.known = x.known
      /\ y.displaced = x.displaced /\ y.previous = x.previous /\ y.baseline = x.baseline
    BY DEF Only, Fields
<1>2. Held(y)
    BY <1>1 DEF Held, Claimable
<1>3. Only(y, x, {"membership", "claims", "sticky", "previous", "baseline", "known"})
    BY DEF Only
<1>4. Sound(y)
    <2>1. y.known \subseteq Outputs /\ y.sticky \subseteq DOMAIN x.membership
        BY <1>0, <1>1 DEF Form
    <2> QED BY <1>0, <1>1, <1>2, <1>3, <2>1, TouchedKeeps
<1>5. \A o : ActiveId(y, o) = ActiveId(x, o) /\ IdsOf(y, o) = IdsOf(x, o)
    BY <1>1, SameOutputs
<1>6. History(y, {})
    BY <1>0, <1>1, <1>5, HistoryStays
<1>7. C \subseteq x.claims => Steady(y, x)
    BY <1>0, <1>1, <1>5 DEF Steady, Sound, Held
<1> QED BY <1>1, <1>4, <1>5, <1>6, <1>7 DEF Good

\* Claims may be given up.
LEMMA ReleasedKeeps ==
    ASSUME NEW x, Good(x), NEW y, Only(y, x, {"claims"}), y.claims \subseteq x.claims
    PROVE  Good(y) /\ Steady(y, x)
<1>1. y.membership = x.membership
    BY DEF Only, Fields
<1>2. Flagged(y, x, {}, TRUE, y.claims)
    BY <1>1 DEF Flagged, Only, Good, Sound, Form
<1>3. Claimable(x, {}, TRUE, y.claims)
    BY DEF Claimable, Good, Sound, Held
<1> QED BY <1>2, <1>3, FlaggedKeeps

\* Windows no claim is on may be forgotten.
LEMMA DropKeeps ==
    ASSUME NEW x, Good(x), NEW W, W \cap x.claims = {}
    PROVE  LET y == drop_member_state(x, W)
           IN  /\ Good(y) /\ Only(y, x, {"outputs", "membership", "sticky"})
               /\ \A o : ActiveId(y, o) = ActiveId(x, o) /\ IdsOf(y, o) = IdsOf(x, o)
               /\ DOMAIN y.membership = DOMAIN x.membership \ W
               /\ y.sticky = x.sticky \ W
               /\ \A w \in DOMAIN y.membership : y.membership[w] = x.membership[w]
               /\ Steady(y, x)
<1> DEFINE z == Moved(x, W, Empty)
           y == drop_member_state(x, W)
<1>0. Sound(x) /\ History(x, {}) /\ DOMAIN x = Fields
    BY DEF Good, Sound, Form
<1>1. DOMAIN z = Fields /\ z.sticky = x.sticky
    BY <1>0 DEF Moved, Fields
<1> HIDE DEF z
<1>2. Only(y, z, {"sticky"}) /\ y.sticky = x.sticky \ W
    BY <1>1 DEF drop_member_state, remove_window, z, Only, Fields
<1> HIDE DEF y
<1>3. DOMAIN Empty = {}
    BY DEF Empty
<1> DEFINE at == Empty
<1> HIDE DEF at
<1>4. DOMAIN at = {} /\ Only(y, Moved(x, W, at), {"sticky"})
    BY <1>2, <1>3 DEF at, z
<1>5. DOMAIN at \subseteq W \cap Windows
      /\ \A w \in DOMAIN at : DOMAIN at[w] = {"output", "ws", "hidden"} /\ at[w].ws \in IdsOf(x, at[w].output)
    BY <1>4
<1>6. y.sticky \subseteq x.sticky /\ x.sticky \ W \subseteq y.sticky /\ y.sticky \cap W \subseteq DOMAIN at
    BY <1>2
<1>7. /\ Sound(y) /\ Only(y, x, {"outputs", "membership", "sticky"})
      /\ \A o : IdsOf(y, o) = IdsOf(x, o) /\ ActiveId(y, o) = ActiveId(x, o)
      /\ DOMAIN y.membership = (DOMAIN x.membership \ W) \cup DOMAIN at
      /\ \A w \in DOMAIN y.membership :
             y.membership[w] = IF w \in W THEN at[w] ELSE x.membership[w]
      /\ \A O : History(x, O) => History(y, O)
      /\ Steady(y, x)
    BY <1>0, <1>4, <1>5, <1>6, MovedKeeps
<1> QED BY <1>0, <1>2, <1>4, <1>7 DEF Good, y

\* A window no claim is on may be put in a workspace there is.
LEMMA AssignKeeps ==
    ASSUME NEW x, Good(x), NEW w \in Windows, w \notin x.claims, NEW o, NEW id \in IdsOf(x, o),
           NEW hidden
    PROVE  LET y == assign(x, w, o, id, hidden)
           IN  /\ Good(y) /\ Only(y, x, {"outputs", "membership"})
               /\ \A p : ActiveId(y, p) = ActiveId(x, p) /\ IdsOf(y, p) = IdsOf(x, p)
               /\ w \in DOMAIN y.membership
               /\ y.membership[w].hidden = hidden /\ y.membership[w].output = o
               /\ \A v \in DOMAIN x.membership \ {w} :
                     v \in DOMAIN y.membership /\ y.membership[v] = x.membership[v]
               /\ Steady(y, x)
<1> DEFINE at == [v \in {w} |-> [output |-> o, ws |-> id, hidden |-> hidden]]
           y == assign(x, w, o, id, hidden)
<1>0. Sound(x) /\ History(x, {}) /\ DOMAIN x = Fields
    BY DEF Good, Sound, Form
<1>1. y = Moved(x, {w}, at)
    BY DEF assign
<1>2. /\ DOMAIN at = {w} /\ DOMAIN at[w] = {"output", "ws", "hidden"}
      /\ at[w].output = o /\ at[w].ws = id /\ at[w].hidden = hidden
    OBVIOUS
<1> HIDE DEF y, at
<1>3. DOMAIN y = Fields /\ y.sticky = x.sticky
    BY <1>0, <1>1 DEF Moved, Fields
<1>4. Only(y, Moved(x, {w}, at), {"sticky"})
    BY <1>1, <1>3 DEF Only
<1>5. /\ DOMAIN at \subseteq {w} \cap Windows /\ {w} \cap x.claims = {}
      /\ \A v \in DOMAIN at : DOMAIN at[v] = {"output", "ws", "hidden"} /\ at[v].ws \in IdsOf(x, at[v].output)
    BY <1>2
<1>6. y.sticky \subseteq x.sticky /\ x.sticky \ {w} \subseteq y.sticky /\ y.sticky \cap {w} \subseteq DOMAIN at
    BY <1>2, <1>3
<1>7. /\ Sound(y) /\ Only(y, x, {"outputs", "membership", "sticky"})
      /\ \A p : IdsOf(y, p) = IdsOf(x, p) /\ ActiveId(y, p) = ActiveId(x, p)
      /\ DOMAIN y.membership = (DOMAIN x.membership \ {w}) \cup DOMAIN at
      /\ \A v \in DOMAIN y.membership :
             y.membership[v] = IF v \in {w} THEN at[v] ELSE x.membership[v]
      /\ \A O : History(x, O) => History(y, O)
      /\ Steady(y, x)
    BY <1>0, <1>4, <1>5, <1>6, MovedKeeps
<1>8. Only(y, x, {"outputs", "membership"})
    BY <1>3, <1>7 DEF Only, Fields
<1>9. /\ w \in DOMAIN y.membership /\ y.membership[w] = at[w]
      /\ \A v \in DOMAIN x.membership \ {w} :
            v \in DOMAIN y.membership /\ y.membership[v] = x.membership[v]
    BY <1>2, <1>7
<1> QED BY <1>0, <1>2, <1>7, <1>8, <1>9 DEF Good, y

\* New windows join the views of their monitors.
LEMMA AssignmentsKeep ==
    ASSUME Assumption, NEW x, Good(x), alive \subseteq Windows, NEW under
    PROVE  /\ Good(ensure_workspace_assignments(x, under))
           /\ Steady(ensure_workspace_assignments(x, under), x)
<1> DEFINE new == alive \ (DOMAIN x.membership \cup x.claims)
           known == Each("ensure", x, {under[w] : w \in new}, Empty)
           at == [w \in {v \in new : ActiveId(known, under[v]) # 0} |->
                     [output |-> under[w], ws |-> ActiveId(known, under[w]), hidden |-> FALSE]]
           y == ensure_workspace_assignments(x, under)
<1>1. y = Moved(known, new, at)
    BY DEF ensure_workspace_assignments, Join
<1>2. Passed("ensure", known, x)
    BY EachKeeps
<1>3. /\ DOMAIN at = {v \in new : ActiveId(known, under[v]) # 0}
      /\ \A w \in DOMAIN at : /\ DOMAIN at[w] = {"output", "ws", "hidden"}
                              /\ at[w].output = under[w] /\ at[w].ws = ActiveId(known, under[w])
    OBVIOUS
<1>4. new = alive \ (DOMAIN x.membership \cup x.claims)
    OBVIOUS
<1> HIDE DEF known, at, y, new
<1>5. /\ Good(known) /\ Sound(known) /\ History(known, {}) /\ DOMAIN known = Fields
      /\ known.claims = x.claims /\ known.sticky = x.sticky /\ known.membership = x.membership
    BY <1>2 DEF Passed, Only, Fields, Good
<1>6. DOMAIN y = Fields /\ y.sticky = known.sticky
    BY <1>1, <1>5 DEF Moved, Fields
<1>7. Only(y, Moved(known, new, at), {"sticky"})
    BY <1>1, <1>6 DEF Only
<1>8. \A w \in DOMAIN at : at[w].ws \in IdsOf(known, at[w].output)
    BY <1>3, <1>5, ActiveIs
<1>9. new \cap known.claims = {} /\ DOMAIN at \subseteq new \cap Windows
    BY <1>3, <1>4, <1>5
<1>10. y.sticky \cap new \subseteq DOMAIN at
    <2>1. known.sticky \subseteq DOMAIN known.membership
        BY <1>5 DEF Sound, Form
    <2> QED BY <1>4, <1>5, <1>6, <2>1
<1>11. Sound(y) /\ (\A O : History(known, O) => History(y, O)) /\ Steady(y, known)
    BY <1>3, <1>5, <1>6, <1>7, <1>8, <1>9, <1>10, MovedKeeps
<1>12. Steady(y, x)
    BY <1>2, <1>11, SteadyTogether DEF Passed, Lasting
<1> QED BY <1>5, <1>11, <1>12 DEF Good, y

\* What every handler does first.
LEMMA RefreshedKeeps ==
    ASSUME Assumption, NEW x, Good(x), alive \subseteq Windows, NEW under
    PROVE  Good(Refreshed(x, under)) /\ Steady(Refreshed(x, under), x)
<1> DEFINE z == ensure_workspace_assignments(x, under)
           W == DOMAIN z.membership \ (alive \cup z.claims)
<1>1. Good(z) /\ Steady(z, x)
    BY AssignmentsKeep
<1>2. W \cap z.claims = {}
    OBVIOUS
<1>3. Refreshed(x, under) = drop_member_state(z, W)
    BY DEF Refreshed, workspace_close_cleanup
<1> HIDE DEF z, W
<1>4. Good(drop_member_state(z, W)) /\ Steady(drop_member_state(z, W), z)
    BY <1>1, <1>2, DropKeeps
<1> QED BY <1>1, <1>3, <1>4, SteadyTogether

\* Claims on dead windows are given up, and every output is tidied.
LEMMA AuditKeeps ==
    ASSUME Assumption, NEW x, Good(x), NEW dead
    PROVE  Good(audit_hidden_claims(x, dead)) /\ Steady(audit_hidden_claims(x, dead), x)
<1> DEFINE z == [x EXCEPT !.claims = x.claims \ dead]
           d == drop_member_state(z, dead)
<1>1. DOMAIN x = Fields
    BY DEF Good, Sound, Form
<1>2. Only(z, x, {"claims"}) /\ z.claims = x.claims \ dead
    BY <1>1 DEF Only, Fields
<1>3. audit_hidden_claims(x, dead) = IF dead = {} THEN x ELSE Each("clean", d, Outputs, Empty)
    BY DEF audit_hidden_claims
<1> HIDE DEF z
<1>4. Good(z) /\ dead \cap z.claims = {} /\ Steady(z, x)
    BY <1>2, ReleasedKeeps
<1>5. Good(d) /\ Steady(d, z)
    BY <1>4, DropKeeps
<1> HIDE DEF d
<1>6. Good(Each("clean", d, Outputs, Empty)) /\ Steady(Each("clean", d, Outputs, Empty), d)
    BY <1>5, EachKeeps DEF Passed, Lasting
<1>7. Steady(Each("clean", d, Outputs, Empty), x)
    BY <1>4, <1>5, <1>6, SteadyTogether
<1>8. Steady(x, x)
    BY DEF Steady
<1> QED BY <1>3, <1>6, <1>7, <1>8

-----------------------------------------------------------------------------
(* Opening a workspace and sending a window.                                   *)

\* A reveal keeps the claims that fail.
LEMMA RevealAllKeeps ==
    ASSUME NEW x, Good(x), NEW W, NEW reveal
    PROVE  /\ Good(RevealAll(x, W, reveal))
           /\ \A o : ActiveId(RevealAll(x, W, reveal), o) = ActiveId(x, o)
           /\ Steady(RevealAll(x, W, reveal), x)
           /\ RevealAll(x, W, reveal).claims = x.claims \ {w \in W : reveal[w] \in {"shown", "retired"}}
<1> DEFINE shown == {w \in W : reveal[w] = "shown"}
           retired == {w \in W : reveal[w] = "retired"}
           a == [x EXCEPT !.claims = x.claims \ (shown \cup retired)]
           b == SetHidden(a, shown, FALSE)
           y == drop_member_state(b, retired)
<1>0. DOMAIN x = Fields
    BY DEF Good, Sound, Form
<1>1. Only(a, x, {"claims"}) /\ a.claims = x.claims \ (shown \cup retired)
    BY <1>0 DEF Only, Fields
<1>2. RevealAll(x, W, reveal) = y
    BY DEF RevealAll
<1>8. shown \cup retired = {w \in W : reveal[w] \in {"shown", "retired"}}
    OBVIOUS
<1> HIDE DEF shown, retired, a
<1>3. Flagged(b, x, shown, FALSE, a.claims)
    BY <1>1, SetHiddenIs
<1>4. Claimable(x, shown, FALSE, a.claims)
    BY <1>1 DEF Claimable, Good, Sound, Held
<1> HIDE DEF b
<1>5. Good(b) /\ (\A o : ActiveId(b, o) = ActiveId(x, o)) /\ Steady(b, x)
    BY <1>1, <1>3, <1>4, FlaggedKeeps
<1>6. b.claims = a.claims /\ retired \cap b.claims = {}
    BY <1>1, <1>3 DEF Flagged
<1>7. /\ Good(y) /\ (\A o : ActiveId(y, o) = ActiveId(b, o)) /\ Steady(y, b)
      /\ Only(y, b, {"outputs", "membership", "sticky"})
    BY <1>5, <1>6, DropKeeps
<1> HIDE DEF y
<1>9. y.claims = x.claims \ {w \in W : reveal[w] \in {"shown", "retired"}}
    BY <1>1, <1>6, <1>7, <1>8 DEF Only, Fields
<1>10. Steady(y, x)
    BY <1>5, <1>7, SteadyTogether
<1> QED BY <1>2, <1>5, <1>7, <1>9, <1>10

\* What leaves the view is claimed when it is hidden, forgotten when it is gone.
LEMMA HideLeavingKeeps ==
    ASSUME NEW x, Good(x), NEW o, NEW hide
    PROVE  /\ Good(HideLeaving(x, o, hide).state)
           /\ \A p : ActiveId(HideLeaving(x, o, hide).state, p) = ActiveId(x, p)
           /\ Mild(HideLeaving(x, o, hide).state, x, o)
           /\ \A w \in HideLeaving(x, o, hide).state.claims :
                 /\ w \in x.claims \cup Members(x, o, ActiveId(x, o))
                 /\ HideLeaving(x, o, hide).state.membership[w].output = x.membership[w].output
                 /\ HideLeaving(x, o, hide).state.membership[w].ws = x.membership[w].ws
<1> DEFINE leaving == {w \in Members(x, o, ActiveId(x, o)) : ~Hidden(x, w)}
           gone == {w \in leaving : hide[w] = "gone"}
           tried == leaving \ (x.sticky \cup gone)
           fresh == {w \in tried : hide[w] = "hidden"}
           a == [x EXCEPT !.claims = x.claims \cup fresh]
           b == SetHidden(a, fresh, TRUE)
           y == drop_member_state(b, gone)
<1>0. DOMAIN x = Fields /\ Sound(x)
    BY DEF Good, Sound, Form
<1>1. Only(a, x, {"claims"}) /\ a.claims = x.claims \cup fresh
    BY <1>0 DEF Only, Fields
<1>2. HideLeaving(x, o, hide).state = y
    BY DEF HideLeaving
<1>3. leaving \subseteq DOMAIN x.membership
    BY <1>0, MembersIs
<1>4. leaving \cap x.claims = {}
    BY <1>0 DEF Sound, Held, Hidden
<1>5. /\ fresh \subseteq leaving \ (x.sticky \cup gone) /\ gone \subseteq leaving
      /\ leaving \subseteq Members(x, o, ActiveId(x, o))
    OBVIOUS
<1>11. \A w \in leaving : x.membership[w].output = o
    <2>1. Members(x, o, ActiveId(x, o)) \subseteq OnRecord(x, o, ActiveId(x, o))
        BY <1>0, MembersIs DEF Members
    <2> QED BY <2>1 DEF OnRecord
<1> HIDE DEF leaving, gone, fresh, a
<1>6. Flagged(b, x, fresh, TRUE, a.claims)
    BY <1>1, SetHiddenIs
<1>7. Claimable(x, fresh, TRUE, a.claims)
    BY <1>0, <1>1, <1>3, <1>5 DEF Claimable, Sound, Held
<1> HIDE DEF b
<1>8. /\ Good(b) /\ \A p : ActiveId(b, p) = ActiveId(x, p)
      /\ b.known = x.known /\ b.displaced = x.displaced
    BY <1>6, <1>7, FlaggedKeeps
<1>9. gone \cap b.claims = {}
    BY <1>1, <1>4, <1>5, <1>6 DEF Flagged
<1>10. /\ Good(y) /\ (\A p : ActiveId(y, p) = ActiveId(b, p)) /\ Steady(y, b)
    BY <1>8, <1>9, DropKeeps
<1> HIDE DEF y
<1>12. \A w \in b.claims : \/ b.membership[w].output = o
                          \/ /\ w \in x.claims
                             /\ b.membership[w].output = x.membership[w].output
                             /\ b.membership[w].ws = x.membership[w].ws
    BY <1>0, <1>1, <1>3, <1>5, <1>6, <1>11 DEF Flagged, Sound, Held
<1>13. Mild(y, x, o)
    BY <1>8, <1>10, <1>12 DEF Mild, Steady
<1>14. \A w \in b.claims : /\ w \in x.claims \cup Members(x, o, ActiveId(x, o))
                          /\ b.membership[w].output = x.membership[w].output
                          /\ b.membership[w].ws = x.membership[w].ws
    BY <1>0, <1>1, <1>3, <1>5, <1>6 DEF Flagged, Sound, Held
<1>15. \A w \in y.claims : /\ w \in x.claims \cup Members(x, o, ActiveId(x, o))
                          /\ y.membership[w].output = x.membership[w].output
                          /\ y.membership[w].ws = x.membership[w].ws
    BY <1>10, <1>14 DEF Steady
<1> QED BY <1>2, <1>8, <1>10, <1>13, <1>15

\* What enters the view is shown.
LEMMA ShowEnteringKeeps ==
    ASSUME NEW x, Good(x), NEW o, NEW target, NEW reveal
    PROVE  /\ Good(ShowEntering(x, o, target, reveal).state)
           /\ \A p : ActiveId(ShowEntering(x, o, target, reveal).state, p) = ActiveId(x, p)
           /\ Steady(ShowEntering(x, o, target, reveal).state, x)
           /\ ~ShowEntering(x, o, target, reveal).failed
              /\ (\A w \in Members(x, o, target) \cap x.claims : reveal[w] \in RevealOutcomes) =>
                     ShowEntering(x, o, target, reveal).state.claims \cap Members(x, o, target) = {}
<1> DEFINE held == Members(x, o, target) \cap x.claims
           W == Members(x, o, target) \ held
           b == SetHidden(x, W, FALSE)
           y == RevealAll(b, held, reveal)
<1>1. Only(x, x, {"claims"})
    BY DEF Good, Sound, Form, Only
<1>2. ShowEntering(x, o, target, reveal).state = y
    BY DEF ShowEntering
<1>3. W \cap x.claims = {} /\ x.claims \cap Members(x, o, target) = held
    OBVIOUS
<1>8. ShowEntering(x, o, target, reveal).failed <=> \E w \in held : reveal[w] = "failed"
    BY DEF ShowEntering
<1> HIDE DEF held, W
<1>4. Flagged(b, x, W, FALSE, x.claims)
    BY <1>1, SetHiddenIs
<1>5. Claimable(x, W, FALSE, x.claims)
    BY <1>3 DEF Claimable, Good, Sound, Held
<1> HIDE DEF b
<1>6. Good(b) /\ (\A p : ActiveId(b, p) = ActiveId(x, p)) /\ Steady(b, x)
    BY <1>4, <1>5, FlaggedKeeps
<1>7. /\ Good(y) /\ (\A p : ActiveId(y, p) = ActiveId(b, p)) /\ Steady(y, b)
      /\ y.claims = b.claims \ {w \in held : reveal[w] \in {"shown", "retired"}}
    BY <1>6, RevealAllKeeps
<1> HIDE DEF y
<1>9. Steady(y, x)
    BY <1>6, <1>7, SteadyTogether
<1>10. ASSUME ~ShowEntering(x, o, target, reveal).failed,
              \A w \in held : reveal[w] \in RevealOutcomes
       PROVE  y.claims \cap Members(x, o, target) = {}
    <2>1. \A w \in held : reveal[w] \in {"shown", "retired"}
        BY <1>8, <1>10 DEF RevealOutcomes
    <2>2. b.claims = x.claims
        BY <1>4 DEF Flagged
    <2> QED BY <1>3, <1>7, <2>1, <2>2
<1> QED BY <1>2, <1>3, <1>6, <1>7, <1>9, <1>10

\* The view turns, the output is tidied, and the windows are looked at again.
LEMMA OpenedKeeps ==
    ASSUME Assumption, NEW x, Good(x), alive \subseteq Windows, NEW o, ActiveId(x, o) # 0,
           NEW target, NEW under
    PROVE  /\ Good(Opened(x, o, target, under))
           /\ Opened(x, o, target, under).known = x.known
           /\ DOMAIN Opened(x, o, target, under).displaced \subseteq DOMAIN x.displaced
           /\ x.claims \cap Members(x, o, target) = {} =>
                  \A s : Revealed(x, s) => Revealed(Opened(x, o, target, under), s)
<1> DEFINE v == activate(x, o, target)
           z == observe_workspace_change(v, o, target)
           c == Cleanup(z, o)
<1>0. Sound(x) /\ History(x, {}) /\ o \in DOMAIN x.outputs
    BY ActiveIs DEF Good
<1>1. /\ Good(z) /\ ActiveId(z, o) # 0
      /\ z.known = x.known /\ z.displaced = x.displaced
      /\ z.claims = x.claims /\ z.membership = x.membership
      /\ \A p : p # o => ActiveId(z, p) = ActiveId(x, p)
      /\ ActiveId(z, o) = ActiveId(x, o) \/ (target \in IdsOf(x, o) /\ ActiveId(z, o) = target)
    <2>1. CASE target \in IdsOf(x, o)
        <3>1. /\ Sound(v) /\ History(v, {} \cup {o}) /\ ActiveId(v, o) = target
              /\ Only(v, x, {"outputs"})
              /\ \A p : p # o => ActiveId(v, p) = ActiveId(x, p)
            BY <1>0, <2>1, ActivateKeeps
        <3>2. target # 0
            BY <1>0, <2>1, ActiveIs
        <3> HIDE DEF v
        <3>3. Only(z, v, {"previous", "baseline"}) /\ Sound(z) /\ History(z, {})
            BY <3>1, ObserveKeeps
        <3> HIDE DEF z
        <3>4. z.outputs = v.outputs
            BY <3>3 DEF Only, Fields
        <3>5. /\ z.known = x.known /\ z.displaced = x.displaced
              /\ z.claims = x.claims /\ z.membership = x.membership
            BY <3>1, <3>3 DEF Only, Fields
        <3> QED BY <2>1, <3>1, <3>2, <3>3, <3>4, <3>5, SameOutputs DEF Good
    <2>2. CASE target \notin IdsOf(x, o)
        <3>1. z = validate_history(x, o)
            BY <1>0, <2>2 DEF activate, observe_workspace_change
        <3> HIDE DEF z
        <3>2. Good(z) /\ Only(z, x, {"previous", "baseline"})
            BY <3>1, ValidateGood
        <3>3. /\ z.outputs = x.outputs /\ z.known = x.known /\ z.displaced = x.displaced
              /\ z.claims = x.claims /\ z.membership = x.membership
            BY <3>2 DEF Only, Fields
        <3> QED BY <3>2, <3>3, SameOutputs
    <2> QED BY <2>1, <2>2
<1> HIDE DEF z
<1>2. Good(c) /\ Steady(c, z)
    BY <1>1, CleanupKeeps
<1>3. Opened(x, o, target, under) = Refreshed(c, under)
    BY DEF Opened, c, z, v
<1> HIDE DEF c
<1> DEFINE y == Opened(x, o, target, under)
<1>4. Good(y) /\ Steady(y, c)
    BY <1>2, <1>3, RefreshedKeeps
<1> HIDE DEF y
<1>5. Steady(y, z)
    BY <1>2, <1>4, SteadyTogether
<1>6. y.known = x.known /\ DOMAIN y.displaced \subseteq DOMAIN x.displaced
    BY <1>1, <1>5 DEF Steady
<1>7. ASSUME x.claims \cap Members(x, o, target) = {}, NEW s, Revealed(x, s)
      PROVE  Revealed(y, s)
    <2>1. ASSUME target \in IdsOf(x, o), NEW w \in x.claims, x.membership[w].output = o
          PROVE  x.membership[w].ws # target
        BY <1>0, <1>7, <2>1, MembersIs DEF OnRecord, Sound, Held
    <2>2. Revealed(z, s)
        BY <1>1, <1>7, <2>1 DEF Revealed
    <2>3. Sound(z)
        BY <1>1 DEF Good
    <2> QED BY <1>5, <2>2, <2>3, SteadyReveals
<1> QED BY <1>4, <1>6, <1>7 DEF y

\* A select keeps the registry right, whatever of it fails.
LEMMA SelectKeeps ==
    ASSUME Assumption, NEW x, Good(x), alive \subseteq Windows, NEW o, NEW target,
           NEW hide, NEW reveal, NEW under
    PROVE  Good(workspace_do_select(x, o, target, hide, reveal, under).state)
<1> DEFINE left == HideLeaving(x, o, hide)
           came == ShowEntering(left.state, o, target, reveal)
           y == workspace_do_select(x, o, target, hide, reveal, under)
<1>1. Good(left.state) /\ ActiveId(left.state, o) = ActiveId(x, o)
    BY HideLeavingKeeps
<1>2. y.state \in {x, RevealAll(left.state, left.fresh, reveal),
                   RevealAll(came.state, left.fresh, reveal)}
      \/ (y.state = Opened(came.state, o, target, under) /\ ActiveId(x, o) # 0)
    BY DEF workspace_do_select, Partial
<1> HIDE DEF left
<1>3. Good(came.state) /\ ActiveId(came.state, o) = ActiveId(x, o)
    BY <1>1, ShowEnteringKeeps
<1> HIDE DEF came, y
<1>4. Good(RevealAll(left.state, left.fresh, reveal)) /\ Good(RevealAll(came.state, left.fresh, reveal))
    BY <1>1, <1>3, RevealAllKeeps
<1>5. ActiveId(x, o) # 0 => Good(Opened(came.state, o, target, under))
    BY <1>3, OpenedKeeps
<1> QED BY <1>2, <1>4, <1>5 DEF y

\* Nor does a view turn, in any part of it, to a workspace with a window held hidden.
LEMMA SelectTurns ==
    ASSUME Assumption, NEW x, Good(x), alive \subseteq Windows, NEW s, Calm(x, s), NEW o,
           ActiveId(x, o) = ActiveId(s, o), NEW target, NEW hide,
           NEW reveal \in Reveals(x, o, target, hide), NEW under
    PROVE  Calm(workspace_do_select(x, o, target, hide, reveal, under).state, s)
<1> DEFINE left == HideLeaving(x, o, hide)
           came == ShowEntering(left.state, o, target, reveal)
           held == Members(x, o, target) \cap x.claims
           y == workspace_do_select(x, o, target, hide, reveal, under)
<1>0. Sound(x)
    BY DEF Good
<1>1. /\ Good(left.state) /\ Sound(left.state)
      /\ \A p : ActiveId(left.state, p) = ActiveId(x, p)
      /\ Mild(left.state, x, o)
      /\ \A w \in left.state.claims :
            /\ w \in x.claims \cup Members(x, o, ActiveId(x, o))
            /\ left.state.membership[w].output = x.membership[w].output
            /\ left.state.membership[w].ws = x.membership[w].ws
    BY HideLeavingKeeps DEF Good
<1>2. \/ y.state = x
      \/ y.state = RevealAll(left.state, left.fresh, reveal)
      \/ y.state = RevealAll(came.state, left.fresh, reveal)
      \/ /\ y.state = Opened(came.state, o, target, under) /\ ~left.failed /\ ~came.failed
         /\ ActiveId(x, o) # 0 /\ ActiveId(x, o) # target
    BY DEF workspace_do_select, Partial
<1>3. reveal \in [IF left.failed THEN left.fresh ELSE IF held = {} THEN {} ELSE held \cup left.fresh
                     -> RevealOutcomes]
    BY DEF Reveals
<1>4. held = Members(x, o, target) \cap x.claims
    OBVIOUS
<1> HIDE DEF left, held
<1>5. /\ Good(came.state) /\ Sound(came.state) /\ Steady(came.state, left.state)
      /\ \A p : ActiveId(came.state, p) = ActiveId(left.state, p)
      /\ ~came.failed /\ (\A w \in Members(left.state, o, target) \cap left.state.claims :
                              reveal[w] \in RevealOutcomes) =>
            came.state.claims \cap Members(left.state, o, target) = {}
    BY <1>1, ShowEnteringKeeps DEF Good
<1> HIDE DEF came, y
<1>6. Calm(left.state, s)
    BY <1>1, MildReveals DEF Calm, Mild
<1>7. Calm(came.state, s)
    BY <1>1, <1>5, <1>6, SteadyIsCalm
<1>8. /\ Calm(RevealAll(left.state, left.fresh, reveal), s)
      /\ Calm(RevealAll(came.state, left.fresh, reveal), s)
    <2>1. Steady(RevealAll(left.state, left.fresh, reveal), left.state)
        BY <1>1, RevealAllKeeps
    <2>2. Steady(RevealAll(came.state, left.fresh, reveal), came.state)
        BY <1>5, RevealAllKeeps
    <2> QED BY <1>1, <1>5, <1>6, <1>7, <2>1, <2>2, SteadyIsCalm
<1>9. ASSUME ~left.failed, ~came.failed, ActiveId(x, o) # 0, ActiveId(x, o) # target
      PROVE  Calm(Opened(came.state, o, target, under), s)
    <2>1. ASSUME NEW w \in left.state.claims, left.state.membership[w].output = o,
                 left.state.membership[w].ws = target
          PROVE  w \in Members(left.state, o, target) /\ reveal[w] \in RevealOutcomes
        <3>1. /\ w \in DOMAIN left.state.membership \ left.state.sticky
              /\ target \in IdsOf(left.state, o)
            BY <1>1, <2>1 DEF Sound, Held, Homed
        <3>2. w \in Members(left.state, o, target)
            BY <1>1, <2>1, <3>1, MembersIs DEF OnRecord
        <3>3. x.membership[w].output = o /\ x.membership[w].ws = target
            BY <1>1, <2>1
        <3>4. w \in x.claims
            <4>1. ActiveId(x, o) \in IdsOf(x, o)
                BY <1>0, <1>9, ActiveIs
            <4> QED BY <1>0, <1>1, <1>9, <2>1, <3>3, <4>1, MembersIs DEF OnRecord
        <3>5. w \in DOMAIN x.membership \ x.sticky /\ target \in IdsOf(x, o)
            BY <1>0, <3>3, <3>4 DEF Sound, Held, Homed
        <3>6. w \in held
            BY <1>0, <1>4, <3>3, <3>4, <3>5, MembersIs DEF OnRecord
        <3>7. w \in DOMAIN reveal /\ reveal[w] \in RevealOutcomes
            BY <1>3, <1>9, <3>6
        <3> QED BY <3>2, <3>7
    <2>2. ASSUME NEW w \in Members(left.state, o, target), w \in left.state.claims
          PROVE  left.state.membership[w].output = o /\ left.state.membership[w].ws = target
        <3>1. target \in IdsOf(left.state, o)
            BY <2>2 DEF Members
        <3> QED BY <1>1, <2>2, <3>1, MembersIs DEF OnRecord
    <2>3. came.state.claims \cap Members(left.state, o, target) = {}
        BY <1>5, <1>9, <2>1, <2>2
    <2>4. ASSUME NEW w \in came.state.claims, w \in Members(came.state, o, target)
          PROVE  FALSE
        <3>1. target \in IdsOf(came.state, o)
            BY <2>4 DEF Members
        <3>2. came.state.membership[w].output = o /\ came.state.membership[w].ws = target
            BY <1>5, <2>4, <3>1, MembersIs DEF OnRecord
        <3>3. /\ w \in left.state.claims /\ left.state.membership[w].output = o
              /\ left.state.membership[w].ws = target
            BY <1>5, <2>4, <3>2 DEF Steady
        <3>4. w \in Members(left.state, o, target)
            BY <2>1, <3>3
        <3> QED BY <2>3, <2>4, <3>4
    <2>5. ActiveId(came.state, o) # 0
        BY <1>1, <1>5, <1>9
    <2>6. came.state.claims \cap Members(came.state, o, target) = {}
        BY <2>4
    <2> QED BY <1>5, <1>7, <2>5, <2>6, OpenedKeeps DEF Calm
<1> QED BY <1>2, <1>8, <1>9 DEF y

\* A send that goes through, fails half way or loses its window keeps it right.
LEMMA SendKeeps ==
    ASSUME NEW x, Good(x), NEW w \in Windows, w \notin x.claims, w \notin x.sticky,
           NEW o, NEW id \in IdsOf(x, o), NEW fate
    PROVE  /\ Good(workspace_do_send(x, o, w, id, fate))
           /\ ActiveId(workspace_do_send(x, o, w, id, fate), o) # 0
           /\ Mild(workspace_do_send(x, o, w, id, fate), x, o)
<1> DEFINE b == TRUE
           sent == assign(x, w, o, id, b)
           y == [sent EXCEPT !.claims = sent.claims \cup {w}]
<1>0. workspace_do_send(x, o, w, id, fate) \in {drop_member_state(sent, {w}), y, sent}
    BY DEF workspace_do_send
<1> HIDE DEF b
<1>1. /\ Good(sent) /\ Only(sent, x, {"outputs", "membership"})
      /\ \A p : ActiveId(sent, p) = ActiveId(x, p)
      /\ w \in DOMAIN sent.membership /\ sent.membership[w].hidden = b
      /\ sent.membership[w].output = o /\ Steady(sent, x)
    BY AssignKeeps
<1>2. ActiveId(x, o) # 0
    <2>1. Sound(x) /\ o \in DOMAIN x.outputs /\ id \in Ids(x.outputs[o].order)
        BY DEF Good, IdsOf
    <2>2. x.outputs[o].order # <<>>
        BY <2>1 DEF Ids
    <2> QED BY <2>1, <2>2, ActiveIs
<1> HIDE DEF sent
<1>4. sent.claims = x.claims /\ sent.sticky = x.sticky /\ DOMAIN sent = Fields
    BY <1>1 DEF Only, Fields
<1>5. /\ Good(drop_member_state(sent, {w}))
      /\ \A p : ActiveId(drop_member_state(sent, {w}), p) = ActiveId(sent, p)
      /\ Steady(drop_member_state(sent, {w}), sent)
    <2>1. {w} \cap sent.claims = {}
        BY <1>4
    <2> QED BY <1>1, <2>1, DropKeeps
<1>6. /\ Good(y) /\ (\A p : ActiveId(y, p) = ActiveId(sent, p))
      /\ y.membership = sent.membership /\ y.claims = sent.claims \cup {w}
      /\ y.known = sent.known /\ y.displaced = sent.displaced
    <2>1. Only(y, sent, {"claims"}) /\ y.claims = sent.claims \cup {w}
        BY <1>4 DEF Only, Fields
    <2> HIDE DEF y
    <2>2. /\ y.membership = sent.membership
          /\ y.known = sent.known /\ y.displaced = sent.displaced
        BY <2>1 DEF Only, Fields
    <2>3. Flagged(y, sent, {}, b, y.claims)
        BY <1>1, <2>1, <2>2 DEF Flagged, Only, Good, Sound, Form
    <2>4. Claimable(sent, {}, b, y.claims)
        BY <1>1, <1>4, <2>1 DEF Claimable, Good, Sound, Held, b
    <2> QED BY <1>1, <2>1, <2>2, <2>3, <2>4, FlaggedKeeps
<1> HIDE DEF y
<1>7. Mild(sent, x, o)
    BY <1>1 DEF Mild, Steady
<1>8. Mild(y, x, o)
    BY <1>1, <1>6 DEF Mild, Steady
<1>9. Mild(drop_member_state(sent, {w}), x, o)
    <2>1. Steady(drop_member_state(sent, {w}), x)
        BY <1>1, <1>5, SteadyTogether
    <2> QED BY <1>1, <1>5, <2>1 DEF Mild, Steady
<1> QED BY <1>0, <1>1, <1>2, <1>5, <1>6, <1>7, <1>8, <1>9

\* The workspace a send goes to that has no other is at the end of the order.
LEMMA TrailingKeeps ==
    ASSUME NEW x, Good(x), NEW o
    PROVE  /\ Good(resolve_send_trailing(x, o).state)
           /\ Only(resolve_send_trailing(x, o).state, x, {"outputs", "minted"})
           /\ Steady(resolve_send_trailing(x, o).state, x)
<1> DEFINE y == Appended(x, o, 1)
           order == x.outputs[o].order
<1>0. Sound(x) /\ History(x, {}) /\ DOMAIN x = Fields
    BY DEF Good, Sound, Form
<1>1. CASE ~(o \notin DOMAIN x.outputs \/ order = <<>>) /\ Last(order).members # {}
    <2>1. resolve_send_trailing(x, o).state = y
        BY <1>1 DEF resolve_send_trailing
    <2>2. ActiveId(x, o) # 0
        BY <1>0, <1>1, ActiveIs
    <2>3. /\ Sound(y) /\ Only(y, x, {"outputs", "minted"})
          /\ DOMAIN y.outputs = DOMAIN x.outputs
          /\ \A p : IdsOf(x, p) \subseteq IdsOf(y, p)
          /\ \A p : ActiveId(x, p) # 0 \/ p # o => ActiveId(y, p) = ActiveId(x, p)
        BY <1>0, <1>1, AppendedKeeps
    <2> HIDE DEF y
    <2>4. y.previous = x.previous /\ y.baseline = x.baseline
        BY <2>3 DEF Only, Fields
    <2>5. History(y, {})
        BY <1>0, <2>2, <2>3, <2>4 DEF History
    <2>6. /\ y.known = x.known /\ y.displaced = x.displaced /\ y.claims = x.claims
          /\ y.membership = x.membership
        BY <2>3 DEF Only, Fields
    <2>7. Steady(y, x)
        BY <2>2, <2>3, <2>6 DEF Steady
    <2> QED BY <2>1, <2>3, <2>5, <2>7 DEF Good
<1>2. CASE (o \notin DOMAIN x.outputs \/ order = <<>>) \/ Last(order).members = {}
    <2>1. resolve_send_trailing(x, o).state = x
        BY <1>2 DEF resolve_send_trailing
    <2> QED BY <1>0, <2>1 DEF Only, Steady
<1> QED BY <1>1, <1>2

-----------------------------------------------------------------------------
(* The handlers.                                                               *)

\* The registry is right at the end of every handler.
IInv == Good(state) /\ alive \subseteq Windows /\ state.minted <= MaxIds

\* A select made of a registry that is right.
LEMMA SelectInKeeps ==
    ASSUME Assumption, NEW x, Good(x), alive \subseteq Windows, NEW o, NEW id, NEW under,
           SelectIn(x, o, id, under)
    PROVE  /\ Good(state')
           /\ \A s : Calm(x, s) /\ ActiveId(x, o) = ActiveId(s, o) => Calm(state', s)
<1>1. PICK hide \in Hides(x, o) : \E reveal \in Reveals(x, o, id, hide) :
          state' = workspace_do_select(x, o, id, hide, reveal, under).state
    BY DEF SelectIn
<1>2. PICK reveal \in Reveals(x, o, id, hide) :
          state' = workspace_do_select(x, o, id, hide, reveal, under).state
    BY <1>1
<1>3. Good(state')
    BY <1>2, SelectKeeps
<1>4. ASSUME NEW s, Calm(x, s), ActiveId(x, o) = ActiveId(s, o)
      PROVE  Calm(state', s)
    BY <1>2, <1>4, SelectTurns
<1> QED BY <1>3, <1>4

\* A send of a window nobody holds hidden.
LEMMA SendInKeeps ==
    ASSUME Assumption, NEW x, Good(x), alive \subseteq Windows, NEW o, NEW w \in Windows,
           w \notin x.claims, w \notin x.sticky, NEW id, NEW under,
           SendIn(x, o, w, id, under)
    PROVE  /\ Good(state')
           /\ \A s : Calm(x, s) /\ ActiveId(x, o) = ActiveId(s, o) => Calm(state', s)
<1>1. id \in IdsOf(x, o)
    BY DEF SendIn
<1>2. ASSUME NEW fate
      PROVE  /\ Good(workspace_do_send(x, o, w, id, fate))
             /\ ActiveId(workspace_do_send(x, o, w, id, fate), o) # 0
             /\ \A s : Calm(x, s) /\ ActiveId(x, o) = ActiveId(s, o) =>
                    /\ Calm(workspace_do_send(x, o, w, id, fate), s)
                    /\ ActiveId(workspace_do_send(x, o, w, id, fate), o) = ActiveId(s, o)
    <2> DEFINE y == workspace_do_send(x, o, w, id, fate)
    <2>1. Good(y) /\ ActiveId(y, o) # 0 /\ Mild(y, x, o)
        BY <1>1, SendKeeps
    <2> HIDE DEF y
    <2>2. ASSUME NEW s, Calm(x, s), ActiveId(x, o) = ActiveId(s, o)
          PROVE  Calm(y, s) /\ ActiveId(y, o) = ActiveId(s, o)
        <3>1. Revealed(x, s)
            BY <2>2 DEF Calm
        <3>2. Revealed(y, s) /\ ActiveId(y, o) = ActiveId(s, o)
            BY <2>1, <2>2, <3>1, MildReveals
        <3> QED BY <2>1, <2>2, <3>2 DEF Calm, Mild
    <2> QED BY <2>1, <2>2 DEF y
<1>3. CASE state' = x
    BY <1>3
<1>4. CASE \E fate \in HideOutcomes : state' = workspace_do_send(x, o, w, id, fate)
    BY <1>2, <1>4
<1> DEFINE y == workspace_do_send(x, o, w, id, "hidden")
<1>5. /\ Good(y) /\ ActiveId(y, o) # 0
      /\ \A s : Calm(x, s) /\ ActiveId(x, o) = ActiveId(s, o) =>
             Calm(y, s) /\ ActiveId(y, o) = ActiveId(s, o)
    BY <1>2
<1>6. \/ state' = x
      \/ \E fate \in HideOutcomes : state' = workspace_do_send(x, o, w, id, fate)
      \/ state' = Cleanup(y, o)
      \/ SelectIn(y, o, id, under)
    BY DEF SendIn, workspace_send_stay
<1> HIDE DEF y
<1>7. CASE state' = Cleanup(y, o)
    <2>1. Good(state') /\ Steady(state', y) /\ Sound(y)
        BY <1>5, <1>7, CleanupKeeps DEF Good
    <2> QED BY <1>5, <2>1, SteadyIsCalm
<1>8. CASE SelectIn(y, o, id, under)
    BY <1>5, <1>8, SelectInKeeps
<1> QED BY <1>3, <1>4, <1>6, <1>7, <1>8

\* What a chord sees of the registry is right.
LEMMA SeenKeeps ==
    ASSUME Assumption, IInv, NEW o \in chord_output(state), NEW under
    PROVE  LET seen == Refreshed(ensure_output(state, o), under)
           IN  Good(seen) /\ Steady(seen, state)
<1> DEFINE made == ensure_output(state, o)
<1>1. Good(state) /\ alive \subseteq Windows /\ o \in Outputs
    BY DEF IInv, chord_output, Good, Sound, Form
<1>2. Good(made) /\ Steady(made, state)
    BY <1>1, EnsureKeeps
<1> HIDE DEF made
<1>3. Good(Refreshed(made, under)) /\ Steady(Refreshed(made, under), made)
    BY <1>1, <1>2, RefreshedKeeps
<1>4. Steady(Refreshed(made, under), state)
    BY <1>2, <1>3, SteadyTogether
<1> QED BY <1>3, <1>4 DEF made

\* It is right with a workspace more, too.
LEMMA TargetsKeep ==
    ASSUME Assumption, NEW x, Good(x), NEW o, NEW target \in Targets(x, o)
    PROVE  /\ Good(target.state) /\ Steady(target.state, x)
           /\ target.state.claims = x.claims /\ target.state.sticky = x.sticky
<1> DEFINE more == resolve_send_trailing(x, o)
<1>1. Good(more.state) /\ Only(more.state, x, {"outputs", "minted"}) /\ Steady(more.state, x)
    BY TrailingKeeps
<1> HIDE DEF more
<1>2. more.state.claims = x.claims /\ more.state.sticky = x.sticky
    BY <1>1 DEF Only, Fields
<1>3. target = more \/ \E id \in IdsOf(x, o) : target = [state |-> x, id |-> id]
    BY DEF Targets, more
<1>4. target = more \/ target.state = x
    BY <1>3
<1>5. Steady(x, x)
    BY DEF Steady
<1> QED BY <1>1, <1>2, <1>4, <1>5

\* A chord works on the view it found: what it sees and the workspace it adds turn none.
LEMMA TargetsCalm ==
    ASSUME Assumption, IInv, NEW o \in chord_output(state), NEW x, Good(x), Steady(x, state),
           NEW target \in Targets(x, o)
    PROVE  Calm(target.state, state) /\ ActiveId(target.state, o) = ActiveId(state, o)
<1>1. Steady(target.state, state)
    BY TargetsKeep, SteadyTogether
<1>2. Calm(target.state, state)
    BY <1>1, SteadyIsCalm DEF IInv, Good
<1> QED BY <1>1, <1>2 DEF Steady, chord_output

\* The select chords.
LEMMA SelectChordKeeps ==
    ASSUME Assumption, IInv, SelectChord
    PROVE  IInv' /\ Calm(state', state)
<1>1. PICK o \in chord_output(state), under \in Unders(state, state.known) :
          SelectSeen(Refreshed(ensure_output(state, o), under), o, under)
    BY DEF SelectChord
<1> DEFINE seen == Refreshed(ensure_output(state, o), under)
<1>2. Good(seen) /\ Steady(seen, state) /\ alive \subseteq Windows
    BY SeenKeeps DEF IInv
<1> HIDE DEF seen
<1>3. PICK target \in Targets(seen, o) : SelectIn(target.state, o, target.id, under)
    BY <1>1 DEF SelectSeen, seen
<1>4. Good(target.state)
    BY <1>2, TargetsKeep
<1>5. Calm(target.state, state) /\ ActiveId(target.state, o) = ActiveId(state, o)
    BY <1>2, TargetsCalm
<1>6. Good(state') /\ Calm(state', state)
    BY <1>2, <1>3, <1>4, <1>5, SelectInKeeps
<1> QED BY <1>2, <1>6 DEF IInv, SelectChord, Bounded

\* The send chords: a window that may be sent is neither claimed nor sticky.
LEMMA SendChordKeeps ==
    ASSUME Assumption, IInv, SendChord
    PROVE  IInv' /\ Calm(state', state)
<1>1. PICK o \in chord_output(state), under \in Unders(state, state.known), w \in alive :
          SendSeen(Refreshed(ensure_output(state, o), under), o, w, under)
    BY DEF SendChord
<1> DEFINE seen == Refreshed(ensure_output(state, o), under)
<1>2. Good(seen) /\ Steady(seen, state) /\ alive \subseteq Windows /\ w \in Windows
    BY SeenKeeps DEF IInv
<1> HIDE DEF seen
<1>3. MaySend(seen, o, w)
    BY <1>1 DEF SendSeen, seen
<1>4. PICK target \in Targets(seen, o) : SendIn(target.state, o, w, target.id, under)
    BY <1>1 DEF SendSeen, seen
<1>5. w \notin seen.sticky /\ w \notin seen.claims
    BY <1>2, <1>3 DEF MaySend, Good, Sound, Held
<1>6. /\ Good(target.state)
      /\ target.state.claims = seen.claims /\ target.state.sticky = seen.sticky
    BY <1>2, TargetsKeep
<1>7. Calm(target.state, state) /\ ActiveId(target.state, o) = ActiveId(state, o)
    BY <1>2, TargetsCalm
<1>8. Good(state') /\ Calm(state', state)
    BY <1>2, <1>4, <1>5, <1>6, <1>7, SendInKeeps
<1> QED BY <1>2, <1>8 DEF IInv, SendChord, Bounded

\* Which windows are sticky may change, if one that ceases to be is in a workspace.
LEMMA StuckKeeps ==
    ASSUME NEW x, Good(x), NEW y, Only(y, x, {"sticky"}), y.sticky \subseteq DOMAIN x.membership,
           y.sticky \cap x.claims = {},
           \A w \in x.sticky \ y.sticky : x.membership[w].ws \in IdsOf(x, x.membership[w].output)
    PROVE  Good(y) /\ Steady(y, x)
<1>1. /\ y.outputs = x.outputs /\ y.membership = x.membership /\ y.claims = x.claims
      /\ y.known = x.known /\ y.displaced = x.displaced /\ y.previous = x.previous /\ y.baseline = x.baseline
    BY DEF Only, Fields
<1>2. Held(y)
    BY <1>1 DEF Good, Sound, Held
<1>3. Only(y, x, {"membership", "claims", "sticky", "previous", "baseline", "known"})
    BY DEF Only
<1>4. /\ Sound(x) /\ History(x, {}) /\ y.known \subseteq Outputs
      /\ \A w \in DOMAIN x.membership : DOMAIN y.membership[w] = {"output", "ws", "hidden"}
    BY <1>1 DEF Good, Sound, Form
<1>5. Sound(y)
    BY <1>1, <1>2, <1>3, <1>4, TouchedKeeps
<1>6. History(y, {})
    BY <1>1, <1>4, SameOutputs, HistoryStays
<1>7. Steady(y, x)
    BY <1>1, SameOutputs DEF Steady
<1> QED BY <1>5, <1>6, <1>7 DEF Good

\* A window that becomes sticky is not held hidden.
LEMMA StickyOnKeeps ==
    ASSUME IInv, NEW w, StickyOn(w)
    PROVE  IInv' /\ Calm(state', state)
<1>1. /\ w \in DOMAIN state.membership /\ ~state.membership[w].hidden
      /\ state' = [state EXCEPT !.sticky = state.sticky \cup {w}] /\ alive' = alive
    BY DEF StickyOn, Hidden
<1>2. Good(state) /\ DOMAIN state = Fields
    BY DEF IInv, Good, Sound, Form
<1>3. Only(state', state, {"sticky"}) /\ state'.sticky = state.sticky \cup {w}
    BY <1>1, <1>2 DEF Only, Fields
<1>4. state'.minted = state.minted
    BY <1>3 DEF Only, Fields
<1>5. state'.sticky \subseteq DOMAIN state.membership /\ state'.sticky \cap state.claims = {}
    BY <1>1, <1>2, <1>3 DEF Good, Sound, Form, Held
<1>6. Good(state') /\ Steady(state', state)
    BY <1>2, <1>3, <1>5, StuckKeeps
<1>7. Calm(state', state)
    BY <1>2, <1>6, SteadyIsCalm DEF Good
<1> QED BY <1>1, <1>4, <1>6, <1>7 DEF IInv

\* A window that ceases to be sticky is in the workspace in view.
LEMMA StickyOffKeeps ==
    ASSUME IInv, NEW w, StickyOff(w)
    PROVE  IInv' /\ Calm(state', state)
<1> DEFINE loc == state.membership[w]
           view == ActiveId(state, loc.output)
           left == drop_member_state(state, {w})
           made == ensure_output(left, loc.output)
           shown == FALSE
<1>1. /\ w \in Windows /\ w \in state.sticky /\ alive' = alive /\ state'.minted <= MaxIds
      /\ loc.output \in state.known /\ view # 0
      /\ state' = IF view = loc.ws THEN [state EXCEPT !.sticky = state.sticky \ {w}]
                  ELSE assign(made, w, loc.output, view, shown)
    BY DEF StickyOff, Bounded, IInv
<1>2. Good(state) /\ Sound(state) /\ DOMAIN state = Fields /\ loc.output \in Outputs
    BY <1>1 DEF IInv, Good, Sound, Form
<1>3. CASE view = loc.ws
    <2>1. Only(state', state, {"sticky"}) /\ state'.sticky = state.sticky \ {w}
        BY <1>1, <1>2, <1>3 DEF Only, Fields
    <2>2. view \in IdsOf(state, loc.output)
        BY <1>1, <1>2, ActiveIs
    <2>3. \A v \in state.sticky \ state'.sticky :
              state.membership[v].ws \in IdsOf(state, state.membership[v].output)
        BY <1>3, <2>1, <2>2
    <2>4. state'.sticky \subseteq DOMAIN state.membership /\ state'.sticky \cap state.claims = {}
        BY <1>2, <2>1 DEF Sound, Form, Held
    <2>5. Good(state') /\ Steady(state', state)
        BY <1>2, <2>1, <2>3, <2>4, StuckKeeps
    <2>6. Calm(state', state)
        BY <1>2, <2>5, SteadyIsCalm
    <2> QED BY <1>1, <2>5, <2>6 DEF IInv
<1>4. CASE view # loc.ws
    <2>1. {w} \cap state.claims = {}
        BY <1>1, <1>2 DEF Sound, Held
    <2>2. /\ Good(left) /\ Only(left, state, {"outputs", "membership", "sticky"})
          /\ ActiveId(left, loc.output) = view /\ Steady(left, state)
        BY <1>2, <2>1, DropKeeps
    <2> HIDE DEF left
    <2>3. view \in IdsOf(left, loc.output)
        BY <1>1, <2>2, ActiveIs DEF Good
    <2>4. /\ Good(made) /\ Only(made, left, {"outputs", "minted", "baseline"})
          /\ view \in IdsOf(made, loc.output) /\ Steady(made, left)
        BY <1>2, <2>2, <2>3, EnsureKeeps
    <2>5. state' = assign(made, w, loc.output, view, shown)
        BY <1>1, <1>4
    <2> HIDE DEF made
    <2>6. w \notin made.claims
        BY <2>1, <2>2, <2>4 DEF Only, Fields
    <2> HIDE DEF view, loc, shown
    <2>7. w \in Windows
        BY <1>1
    <2>8. /\ Good(assign(made, w, loc.output, view, shown))
          /\ Steady(assign(made, w, loc.output, view, shown), made)
        BY <2>4, <2>6, <2>7, AssignKeeps
    <2>9. Good(state') /\ Steady(state', made)
        BY <2>5, <2>8
    <2>10. Steady(state', state)
        BY <2>2, <2>4, <2>9, SteadyTogether
    <2>11. Calm(state', state)
        BY <1>2, <2>10, SteadyIsCalm
    <2> QED BY <1>1, <2>9, <2>11 DEF IInv
<1> QED BY <1>3, <1>4

\* The window in front is brought up, or claims nobody holds are let go.
LEMMA SettleKeeps ==
    ASSUME Assumption, NEW x, Good(x), alive \subseteq Windows, NEW fg, NEW under,
           SettleIn(x, fg, under)
    PROVE  /\ Good(state')
           /\ \A s : Good(s) /\ Steady(x, s) => Calm(state', s)
<1>1. CASE /\ fg \in x.claims
           /\ SelectIn(x, x.membership[fg].output, x.membership[fg].ws, under)
    <2> DEFINE o == x.membership[fg].output
    <2>1. /\ Good(state')
          /\ \A s : Calm(x, s) /\ ActiveId(x, o) = ActiveId(s, o) => Calm(state', s)
        BY <1>1, SelectInKeeps
    <2>2. ASSUME NEW s, Good(s), Steady(x, s)
          PROVE  Calm(state', s)
        <3>1. fg \in s.claims /\ o = s.membership[fg].output
            BY <1>1, <2>2 DEF Steady
        <3>2. o \in DOMAIN s.outputs
            BY <2>2, <3>1 DEF Good, Sound, Held, Homed, IdsOf
        <3>3. ActiveId(x, o) = ActiveId(s, o)
            BY <2>2, <3>2 DEF Steady
        <3>4. Calm(x, s)
            BY <2>2, SteadyIsCalm DEF Good
        <3> QED BY <2>1, <3>3, <3>4
    <2> QED BY <2>1, <2>2
<1>2. ASSUME NEW lost, state' = [x EXCEPT !.claims = x.claims \ lost]
      PROVE  /\ Good(state')
             /\ \A s : Good(s) /\ Steady(x, s) => Calm(state', s)
    <2>1. DOMAIN x = Fields
        BY DEF Good, Sound, Form
    <2>2. Only(state', x, {"claims"}) /\ state'.claims \subseteq x.claims
        BY <1>2, <2>1 DEF Only, Fields
    <2>3. Good(state') /\ Steady(state', x)
        BY <2>2, ReleasedKeeps
    <2>4. ASSUME NEW s, Good(s), Steady(x, s)
          PROVE  Calm(state', s)
        <3>1. Steady(state', s)
            BY <2>3, <2>4, SteadyTogether
        <3> QED BY <2>4, <3>1, SteadyIsCalm DEF Good
    <2> QED BY <2>3, <2>4
<1> QED BY <1>1, <1>2 DEF SettleIn

\* The claims are looked through before.
LEMMA AuditInKeeps ==
    ASSUME Assumption, NEW x, Good(x), alive \subseteq Windows, NEW fg, NEW under,
           AuditIn(x, fg, under)
    PROVE  /\ Good(state')
           /\ \A s : Good(s) /\ Steady(x, s) => Calm(state', s)
<1>1. PICK dead \in SUBSET (x.claims \ alive) : SettleIn(audit_hidden_claims(x, dead), fg, under)
    BY DEF AuditIn
<1> DEFINE audited == audit_hidden_claims(x, dead)
<1>2. Good(audited) /\ Steady(audited, x)
    BY AuditKeeps
<1>3. SettleIn(audited, fg, under)
    BY <1>1
<1> HIDE DEF audited
<1>4. /\ Good(state')
      /\ \A s : Good(s) /\ Steady(audited, s) => Calm(state', s)
    BY <1>2, <1>3, SettleKeeps
<1>5. ASSUME NEW s, Good(s), Steady(x, s)
      PROVE  Calm(state', s)
    <2>1. Steady(audited, s)
        BY <1>2, <1>5, SteadyTogether
    <2> QED BY <1>4, <1>5, <2>1
<1> QED BY <1>4, <1>5

\* A step leaves the views closed on what is held hidden, unless monitors come or go or
\* one takes its workspaces back.
Turns ==
    (state'.known = state.known /\ DOMAIN state'.displaced = DOMAIN state.displaced) =>
        Revealed(state', state)

\* A tick, with whatever monitors there are.
LEMMA MaintenanceKeeps ==
    ASSUME Assumption, IInv, Maintenance
    PROVE  IInv' /\ Turns
<1>0. Good(state) /\ alive \subseteq Windows
    BY DEF IInv
<1>1. PICK current \in SUBSET Outputs \ {{}}, fg \in alive \cup {None} :
      \E dest \in [state.known \ current -> current], under \in Unders(state, current) :
          /\ MaintainIn(sync_monitor_outputs(state, current, dest, fg), fg, under)
          /\ Bounded /\ UNCHANGED alive
    BY DEF Maintenance
<1>2. PICK dest \in [state.known \ current -> current], under \in Unders(state, current) :
          /\ MaintainIn(sync_monitor_outputs(state, current, dest, fg), fg, under)
          /\ Bounded /\ UNCHANGED alive
    BY <1>1
<1> DEFINE synced == sync_monitor_outputs(state, current, dest, fg)
           seen == Refreshed(synced, under)
<1>3. /\ Good(synced) /\ synced.known = current
      /\ current = state.known =>
            /\ DOMAIN synced.displaced \subseteq DOMAIN state.displaced
            /\ DOMAIN synced.displaced = DOMAIN state.displaced => Steady(synced, state)
    BY <1>0, SyncKeeps
<1>4. state' = synced \/ AuditIn(seen, fg, under)
    BY <1>2 DEF MaintainIn
<1> HIDE DEF synced
<1>5. Good(seen) /\ Steady(seen, synced)
    BY <1>0, <1>3, RefreshedKeeps
<1> HIDE DEF seen
<1>6. AuditIn(seen, fg, under) =>
          Good(state') /\ \A s : Good(s) /\ Steady(seen, s) => Calm(state', s)
    BY <1>0, <1>5, AuditInKeeps
<1>7. Good(state') /\ Calm(state', synced)
    <2>1. Calm(synced, synced)
        BY DEF Calm, Revealed
    <2> QED BY <1>3, <1>4, <1>5, <1>6, <2>1
<1>8. ASSUME state'.known = state.known, DOMAIN state'.displaced = DOMAIN state.displaced
      PROVE  Revealed(state', state)
    <2>1. current = state.known /\ DOMAIN synced.displaced = DOMAIN state.displaced
        BY <1>3, <1>7, <1>8 DEF Calm
    <2>2. Steady(synced, state) /\ Steady(seen, state)
        BY <1>3, <1>5, <2>1, SteadyTogether
    <2>3. CASE state' = synced
        <3>1. Calm(synced, state)
            BY <1>0, <2>2, SteadyIsCalm DEF Good
        <3> QED BY <2>3, <3>1 DEF Calm
    <2>4. CASE AuditIn(seen, fg, under)
        BY <1>0, <1>6, <2>2, <2>4 DEF Calm
    <2> QED BY <1>4, <2>3, <2>4
<1> QED BY <1>0, <1>2, <1>7, <1>8 DEF IInv, Bounded, Turns

\* The registry is right when the monitors have been seen for the first time.
LEMMA InitKeeps ==
    ASSUME Assumption, Init
    PROVE  IInv
<1>1. PICK screens \in SUBSET Outputs :
          state = sync_monitor_outputs(NewLoop, screens, Empty, None)
    BY DEF Init
<1>2. /\ DOMAIN NewLoop = Fields /\ DOMAIN NewLoop.outputs = {} /\ DOMAIN NewLoop.displaced = {}
      /\ DOMAIN NewLoop.membership = {} /\ DOMAIN NewLoop.previous = {}
      /\ DOMAIN NewLoop.baseline = {} /\ NewLoop.minted = 0 /\ NewLoop.claims = {}
      /\ NewLoop.sticky = {} /\ NewLoop.known = {}
    BY DEF NewLoop, Empty, Fields
<1>3. Sound(NewLoop)
    BY <1>2 DEF Sound, Form, Apart, Seats, Homed, Held, KeptFor
<1>4. History(NewLoop, {})
    BY <1>2 DEF History
<1>5. Good(state)
    BY <1>1, <1>3, <1>4, SyncKeeps DEF Good
<1> QED BY <1>5 DEF IInv, Init

\* Every step keeps it right and opens no view on what is held hidden.
LEMMA StepKeeps ==
    ASSUME Assumption, IInv, [Next]_vars
    PROVE  IInv' /\ Turns
<1>0. Calm(state', state) => Turns
    BY DEF Calm, Turns
<1>1. CASE SelectChord
    BY <1>0, <1>1, SelectChordKeeps
<1>2. CASE SendChord
    BY <1>0, <1>2, SendChordKeeps
<1>3. CASE Maintenance
    BY <1>3, MaintenanceKeeps
<1>4. ASSUME NEW w \in Windows, StickyOn(w)
      PROVE  IInv' /\ Turns
    BY <1>0, <1>4, StickyOnKeeps
<1>5. ASSUME NEW w \in Windows, StickyOff(w)
      PROVE  IInv' /\ Turns
    BY <1>0, <1>5, StickyOffKeeps
<1>6. state' = state => Turns
    BY DEF Turns, Revealed
<1>7. ASSUME NEW w \in Windows, Open(w)
      PROVE  IInv' /\ Turns
    BY <1>6, <1>7 DEF Open, IInv
<1>8. ASSUME NEW w \in Windows, Close(w)
      PROVE  IInv' /\ Turns
    BY <1>6, <1>8 DEF Close, IInv
<1>9. CASE UNCHANGED vars
    BY <1>6, <1>9 DEF vars, IInv
<1> QED BY <1>1, <1>2, <1>3, <1>4, <1>5, <1>7, <1>8, <1>9 DEF Next

-----------------------------------------------------------------------------
(* The theorem.                                                                *)

\* What the run checks follows from what is proved to be kept.
LEMMA SoundEnough ==
    ASSUME Assumption, IInv
    PROVE  RegistryIsSound
<1>0. /\ Good(state) /\ Form(state) /\ Apart(state) /\ Seats(state) /\ Homed(state)
      /\ Held(state) /\ KeptFor(state) /\ History(state, {}) /\ Sound(state)
      /\ alive \subseteq Windows /\ state.minted \in Nat /\ MaxIds \in Nat
      /\ state.minted <= MaxIds
    BY DEF IInv, Good, Sound, Form, Assumption
<1>1. ASSUME NEW o \in DOMAIN state.outputs
      PROVE  LET out == state.outputs[o]
             IN  /\ \A i \in DOMAIN out.order :
                       /\ out.order[i].id \in 1 .. MaxIds
                       /\ out.order[i].id \in IdsOf(state, o)
                       /\ out.order[i].members = OnRecord(state, o, out.order[i].id)
                 /\ \A i, j \in DOMAIN out.order : out.order[i].id = out.order[j].id => i = j
                 /\ out.active \in 1 .. Len(out.order) \/ (out.order = <<>> /\ out.active = 1)
    <2> DEFINE a == state.outputs[o].order
    <2>1. OutOK(state.outputs[o]) /\ OrderOK(a) /\ DOMAIN a = 1 .. Len(a)
        BY <1>0 DEF Form, OutOK, OrderOK
    <2>2. \A i \in DOMAIN a : a[i] \in EntriesOf(state, o)
        BY DEF EntriesOf, Entries
    <2>3. \A i \in DOMAIN a : /\ a[i].id \in 1 .. state.minted
                              /\ a[i].members = OnRecord(state, o, a[i].id)
        BY <1>0, <2>2 DEF Seats
    <2>4. \A i \in DOMAIN a : a[i].id \in IdsOf(state, o)
        BY <2>2, IdsOfIs
    <2>5. \A i \in DOMAIN a : a[i].id \in 1 .. MaxIds
        BY <1>0, <2>3
    <2> QED BY <2>1, <2>3, <2>4, <2>5 DEF OutOK, OrderOK
<1>2. TypeOK
    <2>1. \A o \in DOMAIN state.outputs :
              LET out == state.outputs[o]
              IN  /\ \A i \in DOMAIN out.order :
                        /\ out.order[i].id \in 1 .. MaxIds
                        /\ out.order[i].members \subseteq Windows
                  /\ out.active \in 1 .. Len(out.order) \/ (out.order = <<>> /\ out.active = 1)
        BY <1>0, <1>1 DEF OnRecord, Form
    <2>2. state.claims \subseteq Windows
        BY <1>0 DEF Held, Form
    <2> QED BY <1>0, <2>1, <2>2 DEF TypeOK, Form
<1>3. HistoryFollowsView
    BY <1>0 DEF History, HistoryFollowsView
<1>4. \A w \in DOMAIN state.membership \ state.sticky :
          w \in Members(state, state.membership[w].output, state.membership[w].ws)
    <2> SUFFICES ASSUME NEW w \in DOMAIN state.membership, w \notin state.sticky
                 PROVE  w \in Members(state, state.membership[w].output, state.membership[w].ws)
        OBVIOUS
    <2> DEFINE o == state.membership[w].output
               id == state.membership[w].ws
    <2>1. id \in IdsOf(state, o) /\ w \in OnRecord(state, o, id)
        BY <1>0 DEF Homed, OnRecord
    <2> HIDE DEF o, id
    <2>2. w \in Members(state, o, id)
        BY <1>0, <2>1, MembersIs
    <2> QED BY <2>2 DEF o, id
<1>5. \A w \in state.claims : w \in DOMAIN state.membership \ state.sticky /\ Hidden(state, w)
    BY <1>0 DEF Held, Hidden
<1>6. Displaced(state) \subseteq Live(state)
    BY <1>0 DEF KeptFor, Displaced
<1>7. \A p, q \in DOMAIN state.outputs :
          \A i \in DOMAIN state.outputs[p].order, j \in DOMAIN state.outputs[q].order :
              state.outputs[p].order[i].id = state.outputs[q].order[j].id => p = q /\ i = j
    <2> SUFFICES ASSUME NEW p \in DOMAIN state.outputs, NEW q \in DOMAIN state.outputs,
                        NEW i \in DOMAIN state.outputs[p].order,
                        NEW j \in DOMAIN state.outputs[q].order,
                        state.outputs[p].order[i].id = state.outputs[q].order[j].id
                 PROVE  p = q /\ i = j
        OBVIOUS
    <2>1. /\ state.outputs[p].order[i].id \in IdsOf(state, p)
          /\ state.outputs[q].order[j].id \in IdsOf(state, q)
        BY <1>1
    <2>2. p = q
        BY <1>0, <2>1 DEF Apart
    <2> QED BY <1>1, <2>2
<1>8. \A o \in DOMAIN state.outputs : \A i \in DOMAIN state.outputs[o].order :
          \A w \in state.outputs[o].order[i].members :
              /\ w \in DOMAIN state.membership
              /\ state.membership[w].output = o
              /\ state.membership[w].ws = state.outputs[o].order[i].id
    BY <1>1 DEF OnRecord
<1> DEFINE places == {<<o, i>> : o \in DOMAIN state.outputs, i \in 1 .. MaxIds}
           At(o, i) == state.outputs[o].order[i]
           used == {p \in places : p[2] \in DOMAIN state.outputs[p[1]].order}
<1>9. \A p \in used : /\ p = <<p[1], p[2]>> /\ p[1] \in DOMAIN state.outputs
                      /\ p[2] \in DOMAIN state.outputs[p[1]].order
    OBVIOUS
<1> HIDE DEF places, used
<1>10. \A p, q \in used : At(p[1], p[2]).id = At(q[1], q[2]).id => p = q
    <2> SUFFICES ASSUME NEW p \in used, NEW q \in used, At(p[1], p[2]).id = At(q[1], q[2]).id
                 PROVE  p = q
        OBVIOUS
    <2>1. p[1] = q[1] /\ p[2] = q[2]
        BY <1>7, <1>9
    <2> QED BY <1>9, <2>1
<1>11. \A p \in used : \A w \in At(p[1], p[2]).members :
           /\ w \in DOMAIN state.membership
           /\ state.membership[w].output = p[1]
           /\ state.membership[w].ws = At(p[1], p[2]).id
    BY <1>8, <1>9
<1>12. \A w \in state.claims :
           /\ Hidden(state, w)
           /\ w \in Members(state, state.membership[w].output, state.membership[w].ws)
    BY <1>4, <1>5
<1> QED BY <1>2, <1>3, <1>4, <1>6, <1>10, <1>11, <1>12 DEF RegistryIsSound, places, used

\* The registry of the Windows host is right after every handler, for any monitors and
\* any windows: each workspace is of one output, its members are those on record for it,
\* whatever is held hidden can be opened again, what is kept for a monitor that is gone
\* exists, and the two-view history is of workspaces there are (workspace.rs:190-925).
THEOREM RegistryIsSoundAlways ==
    ASSUME Assumption
    PROVE  Spec => []RegistryIsSound
<1>1. Init => IInv
    BY InitKeeps
<1>2. IInv /\ [Next]_vars => IInv'
    BY StepKeeps
<1>3. IInv => RegistryIsSound
    BY SoundEnough
<1> QED BY <1>1, <1>2, <1>3, PTL DEF Spec

\* What the run checks of a step follows from what is proved of it: the members of the
\* workspace in view are those on record for it.
LEMMA TurnsEnough ==
    ASSUME IInv', Turns
    PROVE  Step
<1>1. SUFFICES ASSUME state'.known = state.known, DOMAIN state'.displaced = DOMAIN state.displaced,
                      NEW o \in Outputs, ActiveId(state', o) # ActiveId(state, o),
                      NEW w \in Members(state', o, ActiveId(state', o)), w \in state'.claims
               PROVE  FALSE
    BY DEF Step
<1> DEFINE y == state'
           id == ActiveId(y, o)
<1>2. Sound(y) /\ Revealed(y, state)
    BY <1>1 DEF IInv, Good, Turns
<1>3. w \in Members(y, o, id) /\ w \in y.claims /\ id # ActiveId(state, o)
    BY <1>1
<1> HIDE DEF y
<1>4. id \in IdsOf(y, o)
    BY <1>3 DEF Members
<1> HIDE DEF id
<1>5. w \in OnRecord(y, o, id)
    BY <1>2, <1>3, <1>4, MembersIs
<1> QED BY <1>2, <1>3, <1>5 DEF Revealed, OnRecord, id

\* While the monitors stay and none takes its workspaces back, no handler turns the view
\* of an output to a workspace with a window in it still held hidden, for any monitors and
\* any windows: a reveal that fails leaves the view where it was (tiling_sys.rs:11154-11262).
THEOREM ViewsOpenRevealedAlways ==
    ASSUME Assumption
    PROVE  Spec => ViewsOpenRevealed
<1>1. Init => IInv
    BY InitKeeps
<1>2. IInv /\ [Next]_vars => IInv' /\ Turns
    BY StepKeeps
<1>3. IInv' /\ Turns => [Step]_vars
    BY TurnsEnough
<1> QED BY <1>1, <1>2, <1>3, PTL DEF Spec, ViewsOpenRevealed
=============================================================================
