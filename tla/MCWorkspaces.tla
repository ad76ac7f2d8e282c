---------------------------- MODULE MCWorkspaces ----------------------------
(* The Windows host on small instances: workspaces and monitors (Workspaces), *)
(* and the modes of windows (WindowModes) when everything succeeds.  A        *)
(* behaviour is of one instance, chosen in its first state; the variables of  *)
(* the other stay as they start.                                              *)
EXTENDS WindowModes, FiniteSets, TLC

CONSTANTS w1, w2,
          OutputOrder, MaxIds, None,   \* of Workspaces
          Instances   \* the instances this run checks, by name

VARIABLES state, alive, instance

MCWindows == {w1, w2}
MCOutputOrder == <<"o1", "o2">>
Symmetry == Permutations(Windows)

Desktop == INSTANCE Workspaces

ASSUME ConstantsAssumption == Assumption /\ Desktop!Assumption

\* The host starts with one monitor; the other one comes and goes.
MCInit ==
    /\ instance \in Instances
    /\ Desktop!Init /\ DOMAIN state.outputs = {"o1"}
    /\ Init

MCNext ==
    /\ UNCHANGED instance
    /\ \/ instance = "workspaces" /\ Desktop!Next /\ UNCHANGED host
       \/ instance = "together" /\ Next /\ UNCHANGED <<state, alive>>

MCSpec == MCInit /\ [][MCNext]_<<host, state, alive, instance>>

\* Bound: two monitors with one window, or one monitor with two windows and two
\* workspaces less.
Small ==
    \/ Cardinality(alive \cup state.claims \cup DOMAIN state.membership) < 2
    \/ /\ Cardinality(DOMAIN state.outputs \cup DOMAIN state.displaced \cup state.known) < 2
       /\ state.minted + 1 < MaxIds

-----------------------------------------------------------------------------
\* Workspaces' RegistryIsSound: a window is in one workspace of one output, and what is
\* hidden can be opened again.
RegistryIsSound == Desktop!RegistryIsSound

\* Workspaces' ViewsOpenRevealed: no view opens over a window still held hidden.
ViewsOpenRevealed == Desktop!ViewsOpenRevealed

\* Workspaces' EveryOutputHasAView: an output keeps a workspace to show.
EveryOutputHasAView == Desktop!EveryOutputHasAView
=============================================================================
