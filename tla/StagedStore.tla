----------------------------- MODULE StagedStore -----------------------------
(***************************************************************************)
(* What a session promises its callers about the state it keeps: the state *)
(* is versioned, a change is staged beside it and invisible until it       *)
(* settles, at most one change is staged, a staged change is withdrawn     *)
(* only before it is accepted, and no state is ever lost or half applied.  *)
(* Session implements this specification.                                  *)
(***************************************************************************)
EXTENDS Naturals

CONSTANT LastVersion

VARIABLES
    version,
    state,
    staged,      \* {} or the one state on offer
    accepted,    \* whether the staged state was accepted
    closed

storeVars == <<version, state, staged, accepted, closed>>

StoreInit ==
    /\ version = 0
    /\ staged = {} /\ ~accepted /\ ~closed

Stage ==
    /\ ~closed /\ staged = {} /\ version < LastVersion
    /\ \E next \in staged' : staged' = {next}
    /\ UNCHANGED <<version, state, accepted, closed>>

Accept ==
    /\ ~closed /\ staged # {}
    /\ accepted' = TRUE
    /\ UNCHANGED <<version, state, staged, closed>>

Withdraw ==
    /\ ~closed /\ staged # {} /\ ~accepted
    /\ staged' = {}
    /\ UNCHANGED <<version, state, accepted, closed>>

Settle ==
    /\ ~closed /\ accepted
    /\ version' = version + 1
    /\ staged = {state'}
    /\ staged' = {} /\ accepted' = FALSE
    /\ UNCHANGED closed

\* The world changed by itself: the new state takes the next version.
Adopt ==
    /\ ~closed /\ staged = {} /\ version < LastVersion
    /\ version' = version + 1
    /\ state' # state
    /\ UNCHANGED <<staged, accepted, closed>>

Close ==
    /\ ~closed
    /\ closed' = TRUE
    /\ staged' = {} /\ accepted' = FALSE
    /\ UNCHANGED <<version, state>>

StoreNext == Stage \/ Accept \/ Withdraw \/ Settle \/ Adopt \/ Close

StoreSpec == StoreInit /\ [][StoreNext]_storeVars
=============================================================================
