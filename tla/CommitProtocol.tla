--------------------------- MODULE CommitProtocol ---------------------------
(***************************************************************************)
(* What a reconciler promises its callers, without messages, bindings or   *)
(* gates: one transition at a time is on offer; it is withdrawn before it  *)
(* is accepted, or settled as the next revision after; between offers an   *)
(* observation may settle the next revision by itself; and once halted     *)
(* the session never moves again.  This module is the abstract             *)
(* specification that Reconciler implements.                               *)
(***************************************************************************)
EXTENDS Naturals

CONSTANTS Transitions,   \* what may be offered
          Last,          \* the last revision a session may reach
          Nothing        \* no transition

VARIABLES
    settled,    \* the number of the settled revision
    content,    \* what settled it: a transition, or Nothing for an observation
    offer,      \* the transition on offer, or Nothing
    accepted,   \* whether the offer was accepted
    halted

protocolVars == <<settled, content, offer, accepted, halted>>

ProtocolInit ==
    /\ settled \in 0..Last
    /\ content = Nothing
    /\ offer = Nothing
    /\ accepted = FALSE
    /\ halted = FALSE

Offer ==
    /\ ~halted /\ offer = Nothing /\ settled < Last
    /\ offer' \in Transitions
    /\ accepted' = FALSE
    /\ UNCHANGED <<settled, content, halted>>

Accept ==
    /\ ~halted /\ offer # Nothing
    /\ accepted' = TRUE
    /\ UNCHANGED <<settled, content, offer, halted>>

Withdraw ==
    /\ ~halted /\ offer # Nothing /\ ~accepted
    /\ offer' = Nothing
    /\ UNCHANGED <<settled, content, accepted, halted>>

Settle ==
    /\ ~halted /\ offer # Nothing /\ accepted
    /\ settled' = settled + 1
    /\ content' = offer
    /\ offer' = Nothing
    /\ accepted' = FALSE
    /\ UNCHANGED halted

Observe ==
    /\ ~halted /\ offer = Nothing /\ settled < Last
    /\ settled' = settled + 1
    /\ content' = Nothing
    /\ UNCHANGED <<offer, accepted, halted>>

Halt ==
    /\ ~halted
    /\ halted' = TRUE
    /\ offer' = Nothing
    /\ accepted' = FALSE
    /\ UNCHANGED <<settled, content>>

ProtocolNext == Offer \/ Accept \/ Withdraw \/ Settle \/ Observe \/ Halt

ProtocolSpec == ProtocolInit /\ [][ProtocolNext]_protocolVars
=============================================================================
