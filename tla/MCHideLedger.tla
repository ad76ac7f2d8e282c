---------------------------- MODULE MCHideLedger ----------------------------
(* HideLedger, and WindowModes with every failure, on small instances.  A     *)
(* behaviour is of one scene, chosen in its first state: "reuse" is one       *)
(* handle that changes hands, between two programs or within one; "two" are   *)
(* two windows with a queue of one, so that a teardown or a restore may stop  *)
(* halfway; "heirs" are three runs after one window; "troubled" are the modes *)
(* of a window when Windows and the engine refuse what they are asked, and    *)
(* the user and the application change the window themselves.                 *)
EXTENDS HideLedger, TLC

CONSTANTS h1, h2,
          Scenes   \* the scenes this run checks, by name

VARIABLES host, scene

Troubled == INSTANCE WindowModes WITH
    Windows <- {h1}, LastSpace <- 2, First <- 1, Fallible <- TRUE, Restless <- TRUE

ASSUME ConstantsAssumption == Assumption /\ Troubled!Assumption

InScene ==
    \/ scene = "reuse" /\ window[h2] = NoWindow /\ owner[3] = "unborn"
    \/ /\ scene = "two" /\ owner[3] = "unborn" /\ made = 0 /\ shows = 0
       /\ \A h \in Hwnds : window[h].program # "p2" /\ Len(window[h].queue) <= 1
    \/ /\ scene = "heirs" /\ drawn <= 1 /\ made = 0 /\ shows = 0
       /\ window[h2] = NoWindow /\ window[h1].program # "p2"
    \/ scene = "troubled" /\ \A h \in Hwnds : window[h] = NoWindow

MCInit == Init /\ Troubled!Init /\ scene \in Scenes /\ InScene
MCNext ==
    /\ UNCHANGED scene
    /\ \/ scene # "troubled" /\ Next /\ UNCHANGED host /\ InScene'
       \/ scene = "troubled" /\ Troubled!Next /\ UNCHANGED vars
MCSpec == MCInit /\ [][MCNext]_<<vars, host, scene>>

\* The windows behind two handles are alike.
Symmetry == Permutations({h1, h2})

-----------------------------------------------------------------------------
\* WindowModes' BandsComeBack: what a window had before it was raised is known as long
\* as it is raised; and ModesFollowUser and SessionsAreTheirs, whatever fails.
BandsComeBack ==
    scene = "troubled" =>
        Troubled!BandsComeBack /\ Troubled!ModesFollowUser /\ Troubled!SessionsAreTheirs
=============================================================================
