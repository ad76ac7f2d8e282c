---------------------------- MODULE MCTreeEdits ----------------------------
(* Instances of TreeEdits for TLC; a behaviour is of one of them. *)
EXTENDS TLC

CONSTANTS w1, w2, w3, w4, v1, v2, v3

VARIABLES tree, resizes, instance

vars == <<tree, resizes, instance>>

\* Four windows, no resizes: every shape of tree, and every move on each.
Moves == INSTANCE TreeEdits WITH
    Windows <- {w1, w2, w3, w4}, Modes <- {"group", "swap"}, Scales <- {1},
    MaxResizes <- 0, MaxShare <- 5

\* Three windows, one resize: shares, and what every edit leaves alone.
Shares == INSTANCE TreeEdits WITH
    Windows <- {v1, v2, v3}, Modes <- {"group", "swap"}, Scales <- {1, 2},
    MaxResizes <- 1, MaxShare <- 12

\* No window is special: every rule looks at places only.
Symmetry == Permutations({w1, w2, w3, w4}) \cup Permutations({v1, v2, v3})

ASSUME ConstantsAssumption ==
    Moves!Assumption /\ Shares!Assumption

Init ==
    \/ instance = "moves" /\ Moves!Init
    \/ instance = "shares" /\ Shares!Init

Next ==
    \/ instance = "moves" /\ Moves!Next /\ UNCHANGED instance
    \/ instance = "shares" /\ Shares!Next /\ UNCHANGED instance

Spec == Init /\ [][Next]_vars

-----------------------------------------------------------------------------
\* TreeEdits' TreeIsSound and EditsValidate: every tree is sound (validate_topology)
\* and no edit of it fails the validation of its own result.
EditsValidate == instance = "shares" => Shares!TreeIsSound /\ Shares!EditsValidate

\* TreeEdits' ImplementsTreeSpec: the recursive edits are those of the trees
\* Session works on.
ImplementsTreeSpec ==
    /\ instance = "shares" => Shares!PromiseStarts
    /\ [][instance = "shares" => Shares!PromiseStep]_vars

\* TreeEdits' RatiosKept: the proportions of what an edit is not about survive it.
RatiosKept == [][instance = "shares" => Shares!KeepsRatios]_vars

\* TreeEdits' PlansApply: the applier accepts every move that is planned.
PlansApply == instance = "moves" => Moves!PlansApply

\* TreeEdits' MovesTravel and EdgeIsReached: a move never carries a window against
\* its direction, and repeating it comes to the edge.
MovesTravel == instance = "moves" => Moves!MovesTravel /\ Moves!EdgeIsReached

\* TreeEdits' FocusReturns and EdgesAgree: focus goes where it was asked and back
\* again, and agrees with movement on where the edge is.
EdgesAgree == instance = "moves" => Moves!FocusReturns /\ Moves!EdgesAgree

\* TreeEdits' DropsLand: a drop lands where it was released.
DropsLand == instance = "moves" => Moves!DropsLand
=============================================================================
