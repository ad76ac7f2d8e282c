------------------------------ MODULE MCEngine ------------------------------
(* The core's two state machines on small instances: instances of Engine, and *)
(* Reconciler.  A behaviour is of one instance, chosen in its first state; the *)
(* variables of the other stay as they start.                                 *)
(*                                                                            *)
(* The reconciler has two owners and two generations, so that a foreign       *)
(* message exists, two correlation identifiers, so that a message may bind to *)
(* another plan, and revisions up to 2, so that a run crosses at least two    *)
(* commits and meets the maximum.                                             *)
EXTENDS Reconciler, Engine, TLC

CONSTANTS o1, o2, g1, g2, opA,
          n1, n2,     \* correlation identifiers, and the windows of the engine
          Instances   \* the instances this run checks, by name

VARIABLE instance

allVars == <<vars, engineVars, instance>>

MCOwners       == {o1, o2}
MCGenerations  == {g1, g2}
MCCorrelations == {n1, n2}
MCOperations   == {opA}
MCFingerprints == {1, 2}

D(o, w) == [output |-> o, workspace |-> w]
TwoDomains == {D("o1", "w1"), D("o2", "w1")}
ThreeOutputs == TwoDomains \cup {D("o3", "w1")}

AllClients == {"c1", "c2"}
OneArea == {[bounds |-> 1, gap |-> 1]}
TwoRectangles == {[bounds |-> b, gap |-> 1] : b \in {1, 2}}

Plain == {[floating |-> FALSE, sticky |-> FALSE]}
Sticky == Plain \cup {[floating |-> TRUE, sticky |-> FALSE], [floating |-> FALSE, sticky |-> TRUE]}

AllOps == {"reconcile", "gaps", "float", "move", "focus", "resize", "orient", "drag",
           "group", "release", "send", "migrate"}

Symmetry == Permutations({n1, n2})

-----------------------------------------------------------------------------
\* Two outputs and every request kind.
Pairs == INSTANCE Engine WITH
    Windows <- {n1, n2}, Domains <- TwoDomains, Clients <- {"c1"}, Areas <- OneArea,
    OuterGaps <- {0}, Looks <- Plain, Ops <- AllOps, Fallible <- TRUE

\* Three outputs, so that there is one a request does not name.
Outputs == INSTANCE Engine WITH
    Windows <- {n1, n2}, Domains <- ThreeOutputs, Clients <- {"c1"}, Areas <- OneArea,
    OuterGaps <- {0}, Looks <- Plain, Ops <- {"reconcile"}, Fallible <- TRUE

\* A work area that changes.
Resized == INSTANCE Engine WITH
    Windows <- {n1, n2}, Domains <- TwoDomains, Clients <- {"c1"}, Areas <- TwoRectangles,
    OuterGaps <- {0}, Looks <- Plain, Ops <- {"reconcile", "gaps", "float"}, Fallible <- TRUE

\* Crossings and migration, with windows that float or show on every workspace.
Migrating == INSTANCE Engine WITH
    Windows <- {n1, n2}, Domains <- TwoDomains, Clients <- {"c1"}, Areas <- OneArea,
    OuterGaps <- {0}, Looks <- Sticky,
    Ops <- {"reconcile", "send", "migrate"}, Fallible <- TRUE

\* A restarted client.
Rebound == INSTANCE Engine WITH
    Windows <- {n1, n2}, Domains <- TwoDomains, Clients <- {"c1", "c2"}, Areas <- OneArea,
    OuterGaps <- {0}, Looks <- Plain, Ops <- {"reconcile"}, Fallible <- FALSE

ASSUME ConstantsAssumption ==
    /\ Pairs!Assumption
    /\ Outputs!Assumption
    /\ Resized!Assumption
    /\ Migrating!Assumption
    /\ Rebound!Assumption

MCInit ==
    /\ instance \in Instances
    /\ Init /\ (instance # "reconciler" => revision = 0 /\ fingerprint = 1)
    /\ \/ instance \in {"pairs", "reconciler"} /\ Pairs!EngineInit
       \/ instance = "outputs" /\ Outputs!EngineInit
       \/ instance = "resized" /\ Resized!EngineInit
       \/ instance = "migrating" /\ Migrating!EngineInit
       \/ instance = "rebound" /\ Rebound!EngineInit

EngineStep(Step) == Step /\ UNCHANGED <<vars, instance>>

MCNext ==
    \/ instance = "reconciler" /\ Next /\ UNCHANGED <<engineVars, instance>>
    \/ instance = "pairs" /\ EngineStep(Pairs!EngineNext)
    \/ instance = "outputs" /\ EngineStep(Outputs!EngineNext)
    \/ instance = "resized" /\ EngineStep(Resized!EngineNext)
    \/ instance = "migrating" /\ EngineStep(Migrating!EngineNext)
    \/ instance = "rebound" /\ EngineStep(Rebound!EngineNext)

MCSpec == MCInit /\ [][MCNext]_allVars
=============================================================================
