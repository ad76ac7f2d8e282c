-------------------------- MODULE ReconcilerProofs --------------------------
(***************************************************************************)
(* Theorems about the reconciler, for every owner, generation, set of      *)
(* operations and maximum revision.  Each action is first reduced to what  *)
(* it can do to the state (stage, accept, withdraw, commit, diverge); the  *)
(* invariant, the action property and the refinement are then proved from  *)
(* those effects.                                                          *)
(***************************************************************************)
EXTENDS Reconciler, TLAPS

-----------------------------------------------------------------------------
(* The effects.                                                            *)

Stages ==
    /\ Live /\ pending = None /\ revision < MaxRevision
    /\ \E plan \in Plan : /\ pending' = plan
                          /\ plan.base = revision
                          /\ plan.acked = FALSE
    /\ UNCHANGED <<revision, fingerprint, diverged, log>>

Accepts ==
    /\ Live /\ pending # None
    /\ pending' = [pending EXCEPT !.acked = TRUE]
    /\ UNCHANGED <<revision, fingerprint, diverged, log>>

Withdraws ==
    /\ Live /\ pending # None /\ ~pending.acked
    /\ pending' = None
    /\ UNCHANGED <<revision, fingerprint, diverged, log>>

CommitsPlan ==
    /\ Live /\ pending # None /\ pending.acked
    /\ \E fp \in Fingerprints : Commit("plan", pending.base, fp)

CommitsObservation ==
    /\ Live /\ pending = None /\ revision < MaxRevision
    /\ \E fp \in Fingerprints : Commit("observation", revision, fp)

Diverges == Live /\ \E reason \in DivergenceKinds : Diverge(reason)

Effect == \/ Stages \/ Accepts \/ Withdraws
          \/ CommitsPlan \/ CommitsObservation \/ Diverges

-----------------------------------------------------------------------------
(* Lemmas about the gates.                                                 *)

\* Falling at a gate whose reason is a divergence kind is a divergence.
LEMMA FallingDiverges ==
    ASSUME NEW gates, DivergeAtFirst(gates),
           \A i \in DOMAIN gates : gates[i].reason \in DivergenceKinds
    PROVE  \E reason \in DivergenceKinds : Diverge(reason)
BY DEF DivergeAtFirst

LEMMA GateFails ==
    ASSUME NEW fails, NEW reason
    PROVE  Gate(fails, reason).fails = fails
BY DEF Gate

\* An observation passes only at the verified revision, below the maximum.
LEMMA ObservationGatesSound ==
    ASSUME NEW obs
    PROVE  /\ \A i \in DOMAIN ObservationGates(obs) :
                 ObservationGates(obs)[i].reason \in DivergenceKinds
           /\ Passes(ObservationGates(obs)) => ~(revision >= MaxRevision)
<1>1. \A i \in DOMAIN ObservationGates(obs) :
         ObservationGates(obs)[i].reason \in DivergenceKinds
    BY DEF ObservationGates, Gate, DivergenceKinds
<1>2. 5 \in DOMAIN ObservationGates(obs)
    BY DEF ObservationGates
<1>3. ObservationGates(obs)[5] = Gate(revision >= MaxRevision, "RevisionExhausted")
    BY DEF ObservationGates
<1>4. ObservationGates(obs)[5].fails = (revision >= MaxRevision)
    BY <1>3, GateFails, Zenon
<1>5. Passes(ObservationGates(obs)) => ~(revision >= MaxRevision)
    BY <1>2, <1>4, Zenon DEF Passes
<1> QED BY <1>1, <1>5

\* Every route's gates name divergence kinds.
LEMMA PlanGateReasons ==
    ASSUME NEW route \in Routes, NEW p
    PROVE  \A i \in DOMAIN PlanGates(route, p) :
              PlanGates(route, p)[i].reason \in DivergenceKinds
<1> USE DEF Gate, Capability, Postcondition, DivergenceKinds
<1>1. \A i \in DOMAIN MoveGates(p) : MoveGates(p)[i].reason \in DivergenceKinds
    BY DEF MoveGates
<1>2. \A i \in DOMAIN LifecycleGates(p) : LifecycleGates(p)[i].reason \in DivergenceKinds
    BY DEF LifecycleGates
<1>3. \A i \in DOMAIN FocusGates(p) : FocusGates(p)[i].reason \in DivergenceKinds
    BY DEF FocusGates
<1>4. \A i \in DOMAIN ResizeGates(p) : ResizeGates(p)[i].reason \in DivergenceKinds
    BY DEF ResizeGates
<1>5. \A i \in DOMAIN PointerResizeGates(p) : PointerResizeGates(p)[i].reason \in DivergenceKinds
    BY DEF PointerResizeGates
<1>6. \A i \in DOMAIN CornerResizeGates(p) : CornerResizeGates(p)[i].reason \in DivergenceKinds
    BY DEF CornerResizeGates
<1>7. \A i \in DOMAIN DragGates(p) : DragGates(p)[i].reason \in DivergenceKinds
    BY DEF DragGates
<1> QED BY <1>1, <1>2, <1>3, <1>4, <1>5, <1>6, <1>7 DEF PlanGates, Routes

-----------------------------------------------------------------------------
(* Each action has one of the effects.                                     *)

\* Staging a plan on any route fills the empty slot at the verified revision.
LEMMA StagingStages ==
    ASSUME NEW route \in Routes, NEW plan \in Plans(route),
           NEW correlation \in Correlations,
           TypeOK, Live, pending = None, revision < MaxRevision,
           Stage(correlation, route, plan)
    PROVE  Stages
<1> DEFINE staged == [correlation |-> correlation, base |-> revision,
                      acked |-> FALSE, kind |-> KindOf(route),
                      operation |-> plan.operation, secondary |-> plan.secondary]
<1>1. KindOf(route) \in PendingKinds
    BY DEF KindOf, Routes, PendingKinds
<1>2. plan.operation \in Operations /\ plan.secondary \in Operations \cup {None}
    BY DEF Plans
<1>3. staged \in Plan
    BY <1>1, <1>2 DEF Plan, TypeOK
<1>4. pending' = staged /\ UNCHANGED <<revision, fingerprint, diverged, log>>
    BY DEF Stage
<1> QED BY <1>3, <1>4 DEF Stages

\* A proposal on any route stages or diverges.
LEMMA ProposalEffect ==
    ASSUME NEW route \in Routes, TypeOK, ProposeOn(route)
    PROVE  Stages \/ Diverges
<1>1. Live /\ pending = None
    BY DEF ProposeOn
<1>2. PICK obs \in Observations :
         \/ DivergeAtFirst(ObservationGates(obs))
         \/ /\ Passes(ObservationGates(obs))
            /\ \E plan \in Plans(route) :
                 \/ DivergeAtFirst(PlanGates(route, plan))
                 \/ /\ Passes(PlanGates(route, plan))
                    /\ \E correlation \in Correlations : Stage(correlation, route, plan)
    BY DEF ProposeOn
<1>3. CASE DivergeAtFirst(ObservationGates(obs))
    BY <1>1, <1>3, FallingDiverges, ObservationGatesSound DEF Diverges
<1>4. CASE /\ Passes(ObservationGates(obs))
           /\ \E plan \in Plans(route) :
                 \/ DivergeAtFirst(PlanGates(route, plan))
                 \/ /\ Passes(PlanGates(route, plan))
                    /\ \E correlation \in Correlations : Stage(correlation, route, plan)
    <2>1. PICK plan \in Plans(route) :
                 \/ DivergeAtFirst(PlanGates(route, plan))
                 \/ \E correlation \in Correlations : Stage(correlation, route, plan)
        BY <1>4
    <2>2. revision < MaxRevision
        BY <1>4, ObservationGatesSound, RevisionAssumption DEF TypeOK
    <2>3. CASE DivergeAtFirst(PlanGates(route, plan))
        BY <1>1, <2>3, FallingDiverges, PlanGateReasons DEF Diverges
    <2>4. CASE \E correlation \in Correlations : Stage(correlation, route, plan)
        BY <1>1, <2>2, <2>4, StagingStages
    <2> QED BY <2>1, <2>3, <2>4
<1> QED BY <1>2, <1>3, <1>4

\* The message gates name divergence kinds.
LEMMA AckGateReasons ==
    ASSUME NEW ack
    PROVE  \A i \in DOMAIN AckGates(ack) : AckGates(ack)[i].reason \in DivergenceKinds
BY DEF AckGates, Gate, DivergenceKinds

LEMMA VerifyGateReasons ==
    ASSUME NEW kind, NEW post
    PROVE  \A i \in DOMAIN VerifyGates(kind, post) :
              VerifyGates(kind, post)[i].reason \in DivergenceKinds
BY DEF VerifyGates, Gate, DivergenceKinds

\* An acknowledgement accepts or diverges.
LEMMA AcknowledgeEffect ==
    ASSUME Acknowledge
    PROVE  Accepts \/ Diverges
<1>1. PICK ack \in Acks :
         \/ pending' = [pending EXCEPT !.acked = TRUE]
            /\ UNCHANGED <<revision, fingerprint, diverged, log>>
         \/ DivergeAtFirst(AckGates(ack))
    BY DEF Acknowledge
<1>2. Live /\ pending # None
    BY DEF Acknowledge
<1>3. CASE DivergeAtFirst(AckGates(ack))
    BY <1>2, <1>3, FallingDiverges, AckGateReasons DEF Diverges
<1> QED BY <1>1, <1>2, <1>3 DEF Accepts

\* A verification of any kind commits the acknowledged plan or diverges.
LEMMA VerificationEffect ==
    ASSUME NEW kind, VerifyAs(kind)
    PROVE  CommitsPlan \/ Diverges
<1>1. Live /\ pending # None /\ pending.acked
    BY DEF VerifyAs
<1>2. PICK post \in Posts :
         \/ Commit("plan", pending.base, post.fingerprint)
         \/ DivergeAtFirst(VerifyGates(kind, post))
    BY DEF VerifyAs
<1>3. CASE DivergeAtFirst(VerifyGates(kind, post))
    BY <1>1, <1>3, FallingDiverges, VerifyGateReasons DEF Diverges
<1>4. CASE Commit("plan", pending.base, post.fingerprint)
    <2>1. post.fingerprint \in Fingerprints
        BY DEF Posts
    <2> QED BY <1>1, <1>4, <2>1 DEF CommitsPlan
<1> QED BY <1>2, <1>3, <1>4

\* Every step of the reconciler has one of these effects.
LEMMA StepEffect ==
    ASSUME TypeOK, Next
    PROVE  Effect
<1>1. CASE Propose
    BY <1>1, ProposalEffect DEF Propose, Effect, Routes
<1>2. CASE ProposeLifecycle
    BY <1>2, ProposalEffect DEF ProposeLifecycle, Effect, Routes
<1>3. CASE ProposeFocus
    BY <1>3, ProposalEffect DEF ProposeFocus, Effect, Routes
<1>4. CASE ProposeDrag
    BY <1>4, ProposalEffect DEF ProposeDrag, Effect, Routes
<1>5. CASE ProposeResize
    BY <1>5, ProposalEffect DEF ProposeResize, Effect, Routes
<1>6. CASE ProposePointerResize
    BY <1>6, ProposalEffect DEF ProposePointerResize, Effect, Routes
<1>7. CASE ProposeCornerResize
    BY <1>7, ProposalEffect DEF ProposeCornerResize, Effect, Routes
<1>8. CASE CancelUnacked
    BY <1>8 DEF CancelUnacked, Withdraws, Effect
<1>9. CASE Acknowledge
    BY <1>9, AcknowledgeEffect DEF Effect
<1>10. CASE Verify \/ VerifyLifecycle \/ VerifyFocus \/ VerifyResize \/ VerifyDrag
    BY <1>10, VerificationEffect
       DEF Verify, VerifyLifecycle, VerifyFocus, VerifyResize, VerifyDrag, Effect
<1>11. CASE NoteAdapterLoss \/ NotePostconditionMismatch \/ DivergeConvergence
    BY <1>11 DEF NoteAdapterLoss, NotePostconditionMismatch, DivergeConvergence,
                 Effect, Diverges, DivergenceKinds
<1>12. CASE CommitObservationConvergence
    BY <1>12 DEF CommitObservationConvergence, CommitsObservation, Effect
<1> QED BY <1>1, <1>2, <1>3, <1>4, <1>5, <1>6, <1>7, <1>8, <1>9, <1>10,
           <1>11, <1>12 DEF Next

-----------------------------------------------------------------------------
(* The inductive invariant.  Its parts need each other: the history stays  *)
(* gapless because a waiting plan was computed against the verified        *)
(* revision, and that holds because only an empty slot lets the revision   *)
(* move without the plan.                                                  *)

Inv == TypeOK /\ PendingIsCurrent /\ HistoryIsGapless /\ OnlyAcceptedPlansCommit

\* A transition appended with the verified revision as its base keeps the
\* history gapless and well typed.
LEMMA AppendKeepsHistory ==
    ASSUME Inv, NEW via \in {"plan", "observation"}, NEW fp \in Fingerprints,
           revision < MaxRevision, Commit(via, revision, fp),
           IF via = "plan" THEN pending # None /\ pending.acked /\ pending.base = revision
                           ELSE pending = None
    PROVE  Inv'
<1> DEFINE entry == [via |-> via, base |-> revision, fingerprint |-> fp, plan |-> pending]
<1> USE RevisionAssumption
<1>1. /\ revision' = revision + 1 /\ fingerprint' = fp
      /\ log' = Append(log, entry) /\ pending' = None /\ diverged' = diverged
    BY DEF Commit
<1>2. entry \in LogEntry
    BY DEF Inv, TypeOK, LogEntry
<1>3. log \in Seq(LogEntry)
    BY DEF Inv, TypeOK
<1>4. /\ log' \in Seq(LogEntry)
      /\ Len(log') = Len(log) + 1
      /\ \A i \in 1..Len(log) : log'[i] = log[i]
      /\ log'[Len(log) + 1] = entry
      /\ Len(log) \in Nat
    BY <1>1, <1>2, <1>3
<1>5. TypeOK'
    BY <1>1, <1>4 DEF Inv, TypeOK
<1>6. PendingIsCurrent'
    BY <1>1 DEF PendingIsCurrent
<1>7. HistoryIsGapless'
    <2>1. \A i \in 1..Len(log') : log'[i].base = revision' - Len(log') + i - 1
        <3> SUFFICES ASSUME NEW i \in 1..Len(log')
                     PROVE  log'[i].base = revision' - Len(log') + i - 1
            OBVIOUS
        <3>1. CASE i \in 1..Len(log)
            BY <1>1, <1>4, <3>1 DEF Inv, HistoryIsGapless, TypeOK
        <3>2. CASE i = Len(log) + 1
            BY <1>1, <1>4, <3>2 DEF Inv, TypeOK
        <3> QED BY <1>4, <3>1, <3>2
    <2>2. fingerprint' = log'[Len(log')].fingerprint
        BY <1>1, <1>4
    <2> QED BY <2>1, <2>2 DEF HistoryIsGapless
<1>8. OnlyAcceptedPlansCommit'
    <2> SUFFICES ASSUME NEW i \in 1..Len(log')
                 PROVE  IF log'[i].via = "plan"
                        THEN log'[i].plan # None /\ log'[i].plan.acked
                                /\ log'[i].plan.base = log'[i].base
                        ELSE log'[i].plan = None
        BY DEF OnlyAcceptedPlansCommit
    <2>1. CASE i \in 1..Len(log)
        BY <1>4, <2>1 DEF Inv, OnlyAcceptedPlansCommit
    <2>2. CASE i = Len(log) + 1
        <3>1. log'[i] = entry
            BY <1>4, <2>2
        <3>2. entry.via = via /\ entry.plan = pending /\ entry.base = revision
            OBVIOUS
        <3> HIDE DEF entry
        <3> QED BY <3>1, <3>2
    <2> QED BY <1>4, <2>1, <2>2
<1> QED BY <1>5, <1>6, <1>7, <1>8 DEF Inv

LEMMA InitInv == Init => Inv
BY RevisionAssumption DEF Init, Inv, TypeOK, PendingIsCurrent, HistoryIsGapless,
                          OnlyAcceptedPlansCommit, LogEntry, Live

\* Every effect preserves the invariant.
LEMMA EffectInv ==
    ASSUME Inv, Effect
    PROVE  Inv'
<1> USE RevisionAssumption
<1>1. CASE Stages
    BY <1>1 DEF Stages, Inv, TypeOK, PendingIsCurrent, HistoryIsGapless,
                OnlyAcceptedPlansCommit, Live
<1>2. CASE Accepts
    <2>1. pending \in Plan /\ pending' = [pending EXCEPT !.acked = TRUE]
        BY <1>2 DEF Accepts, Inv, TypeOK
    <2>2. pending' \in Plan /\ pending'.base = pending.base
        BY <2>1 DEF Plan
    <2> QED BY <1>2, <2>2 DEF Accepts, Inv, TypeOK, PendingIsCurrent,
                HistoryIsGapless, OnlyAcceptedPlansCommit, Live
<1>3. CASE Withdraws
    BY <1>3 DEF Withdraws, Inv, TypeOK, PendingIsCurrent, HistoryIsGapless,
                OnlyAcceptedPlansCommit, Live
<1>4. CASE CommitsPlan
    <2>1. PICK fp \in Fingerprints : Commit("plan", pending.base, fp)
        BY <1>4 DEF CommitsPlan
    <2>2. pending # None /\ pending.acked /\ pending.base = revision
            /\ revision < MaxRevision
        BY <1>4 DEF CommitsPlan, Inv, PendingIsCurrent
    <2> QED BY <2>1, <2>2, AppendKeepsHistory
<1>5. CASE CommitsObservation
    <2>1. PICK fp \in Fingerprints : Commit("observation", revision, fp)
        BY <1>5 DEF CommitsObservation
    <2>2. pending = None /\ revision < MaxRevision
        BY <1>5 DEF CommitsObservation
    <2> QED BY <2>1, <2>2, AppendKeepsHistory
<1>6. CASE Diverges
    BY <1>6 DEF Diverges, Diverge, Inv, TypeOK, PendingIsCurrent,
                HistoryIsGapless, OnlyAcceptedPlansCommit, Live
<1> QED BY <1>1, <1>2, <1>3, <1>4, <1>5, <1>6 DEF Effect

LEMMA StepInv ==
    ASSUME Inv, [Next]_vars
    PROVE  Inv'
<1>1. CASE Next
    BY <1>1, StepEffect, EffectInv DEF Inv
<1>2. CASE UNCHANGED vars
    BY <1>2 DEF vars, Inv, TypeOK, PendingIsCurrent, HistoryIsGapless,
                OnlyAcceptedPlansCommit, Live
<1> QED BY <1>1, <1>2

LEMMA Invariance == Spec => []Inv
<1>1. Init => Inv
    BY InitInv
<1>2. Inv /\ [Next]_vars => Inv'
    BY StepInv
<1> QED BY <1>1, <1>2, PTL DEF Spec

-----------------------------------------------------------------------------
(* Theorems.                                                               *)

\* Type correctness: every operation keeps the reconciler's fields in range,
\* in particular the revision never passes the maximum.
THEOREM TypeCorrectness == Spec => []TypeOK
<1>1. Inv => TypeOK
    BY DEF Inv
<1> QED BY <1>1, Invariance, PTL

\* A waiting plan is always current: the verified revision cannot move under it
\* and the RevisionExhausted branch of the verify operations cannot be reached.
THEOREM PlansStayCurrent == Spec => []PendingIsCurrent
<1>1. Inv => PendingIsCurrent
    BY DEF Inv
<1> QED BY <1>1, Invariance, PTL

\* The committed history has no gap and no repetition, whatever the messages.
THEOREM GaplessHistory == Spec => []HistoryIsGapless
<1>1. Inv => HistoryIsGapless
    BY DEF Inv
<1> QED BY <1>1, Invariance, PTL

\* Only acknowledged plans are in the history.
THEOREM AcceptedHistory == Spec => []OnlyAcceptedPlansCommit
<1>1. Inv => OnlyAcceptedPlansCommit
    BY DEF Inv
<1> QED BY <1>1, Invariance, PTL

\* An acknowledged plan is only ever committed unchanged or given up with a
\* recorded divergence.
THEOREM SettledAcceptance == Spec => AcceptedPlanIsSettled
<1> DEFINE Settled == pending # None /\ pending.acked =>
                        \/ pending' = pending
                        \/ diverged' # NoDivergence
                        \/ log' # log /\ log'[Len(log')].plan = pending
<1>1. ASSUME Inv, Effect PROVE Settled
    <2> SUFFICES ASSUME pending # None, pending.acked
                 PROVE  \/ pending' = pending
                        \/ diverged' # NoDivergence
                        \/ log' # log /\ log'[Len(log')].plan = pending
        OBVIOUS
    <2>1. pending \in Plan /\ log \in Seq(LogEntry)
        BY <1>1 DEF Inv, TypeOK
    <2>2. CASE Accepts
        BY <2>1, <2>2 DEF Accepts, Plan
    <2>3. CASE CommitsPlan
        <3>1. PICK fp \in Fingerprints : Commit("plan", pending.base, fp)
            BY <2>3 DEF CommitsPlan
        <3> DEFINE entry == [via |-> "plan", base |-> pending.base,
                             fingerprint |-> fp, plan |-> pending]
        <3>2. log' = Append(log, entry)
            BY <3>1 DEF Commit
        <3>3. entry.plan = pending
            OBVIOUS
        <3>4. entry \in LogEntry
            BY <2>1 DEF LogEntry, Plan
        <3> HIDE DEF entry
        <3>5. Len(log') = Len(log) + 1 /\ log'[Len(log')] = entry
            BY <2>1, <3>2, <3>4
        <3> QED BY <2>1, <3>3, <3>5
    <2>4. CASE Diverges
        BY <2>4 DEF Diverges, Diverge, DivergenceKinds, NoDivergence
    <2>5. CASE Stages \/ Withdraws \/ CommitsObservation
        BY <2>5 DEF Stages, Withdraws, CommitsObservation
    <2> QED BY <1>1, <2>2, <2>3, <2>4, <2>5 DEF Effect
<1>2. Inv /\ [Next]_vars => [Settled]_vars
    BY <1>1, StepEffect DEF Inv
<1>3. Spec => [][Settled]_vars
    BY <1>2, Invariance, PTL DEF Spec
<1> QED BY <1>3 DEF AcceptedPlanIsSettled

-----------------------------------------------------------------------------
(* Refinement: each effect is a step of the commit protocol.               *)

LEMMA PlansHaveContent ==
    ASSUME NEW plan \in Plan
    PROVE  /\ TransitionOf(plan) \in Transition
           /\ TransitionOf(plan) # None
           /\ plan # None
<1> DEFINE content == [correlation |-> plan.correlation, kind |-> plan.kind,
                       operation |-> plan.operation, secondary |-> plan.secondary]
<1>1. content \in Transition
    BY DEF Plan, Transition
<1> QED BY <1>1, NoneAssumption DEF TransitionOf

LEMMA InitRefines == Init => Protocol!ProtocolInit
BY DEF Init, Protocol!ProtocolInit, TransitionOf, Live

\* What the last entry of the extended history maps to.
LEMMA CommitRefines ==
    ASSUME Inv, NEW via \in {"plan", "observation"}, NEW fp \in Fingerprints,
           NEW base \in 0..MaxRevision, Commit(via, base, fp)
    PROVE  /\ log' # << >>
           /\ TransitionOf(log'[Len(log')].plan) = TransitionOf(pending)
<1> DEFINE entry == [via |-> via, base |-> base, fingerprint |-> fp, plan |-> pending]
<1>1. log' = Append(log, entry)
    BY DEF Commit
<1>2. entry \in LogEntry /\ log \in Seq(LogEntry)
    BY DEF Inv, TypeOK, LogEntry
<1>3. entry.plan = pending
    OBVIOUS
<1> HIDE DEF entry
<1>4. Len(log') = Len(log) + 1 /\ log'[Len(log')] = entry /\ Len(log) \in Nat
    BY <1>1, <1>2
<1>5. log' # << >>
    BY <1>1, <1>2
<1> QED BY <1>3, <1>4, <1>5

LEMMA EffectRefines ==
    ASSUME Inv, Effect
    PROVE  [Protocol!ProtocolNext]_(Protocol!protocolVars)
<1> USE RevisionAssumption
<1> DEFINE content == IF log = << >> THEN None ELSE TransitionOf(log[Len(log)].plan)
<1>1. CASE Stages
    <2>1. PICK plan \in Plan : pending' = plan /\ plan.base = revision /\ plan.acked = FALSE
        BY <1>1 DEF Stages
    <2>2. TransitionOf(pending) = None /\ TransitionOf(pending') \in Transition
        BY <1>1, <2>1, PlansHaveContent DEF Stages, TransitionOf
    <2>3. (pending' # None /\ pending'.acked) = FALSE
        BY <2>1
    <2>4. /\ revision < MaxRevision /\ Live /\ Live'
          /\ UNCHANGED <<revision, log>>
        BY <1>1 DEF Stages, Live
    <2>5. Protocol!Offer
        BY <2>2, <2>3, <2>4 DEF Protocol!Offer
    <2> QED BY <2>5 DEF Protocol!ProtocolNext
<1>2. CASE Accepts
    <2>1. pending \in Plan /\ pending' = [pending EXCEPT !.acked = TRUE]
        BY <1>2 DEF Accepts, Inv, TypeOK
    <2>2. /\ pending' \in Plan
          /\ pending'.acked = TRUE
          /\ TransitionOf(pending') = TransitionOf(pending)
        BY <2>1, PlansHaveContent DEF Plan, TransitionOf
    <2>3. TransitionOf(pending) # None /\ pending' # None
        BY <2>1, <2>2, PlansHaveContent
    <2>4. Live /\ Live' /\ UNCHANGED <<revision, log>>
        BY <1>2 DEF Accepts, Live
    <2>5. (pending' # None /\ pending'.acked) = TRUE
        BY <2>2, <2>3
    <2>6. Protocol!Accept
        BY <2>2, <2>3, <2>4, <2>5 DEF Protocol!Accept
    <2> QED BY <2>6 DEF Protocol!ProtocolNext
<1>3. CASE Withdraws
    <2>1. pending \in Plan
        BY <1>3 DEF Withdraws, Inv, TypeOK
    <2>2. /\ TransitionOf(pending) # None /\ TransitionOf(pending') = None
          /\ (pending # None /\ pending.acked) = FALSE
          /\ (pending' # None /\ pending'.acked) = FALSE
        BY <1>3, <2>1, PlansHaveContent DEF Withdraws, TransitionOf, Plan
    <2>3. Live /\ Live' /\ UNCHANGED <<revision, log>>
        BY <1>3 DEF Withdraws, Live
    <2>4. Protocol!Withdraw
        BY <2>2, <2>3 DEF Protocol!Withdraw
    <2> QED BY <2>4 DEF Protocol!ProtocolNext
<1>4. CASE CommitsPlan
    <2>1. PICK fp \in Fingerprints : Commit("plan", pending.base, fp)
        BY <1>4 DEF CommitsPlan
    <2>2. /\ pending \in Plan /\ pending.acked = TRUE /\ pending.base = revision
          /\ pending.base \in 0..MaxRevision
        BY <1>4 DEF CommitsPlan, Inv, TypeOK, PendingIsCurrent, Plan
    <2>3. /\ TransitionOf(pending) # None /\ TransitionOf(pending') = None
          /\ (pending # None /\ pending.acked) = TRUE
          /\ (pending' # None /\ pending'.acked) = FALSE
        BY <2>1, <2>2, PlansHaveContent DEF Commit, TransitionOf
    <2>4. content' = TransitionOf(pending)
        BY <2>1, <2>2, CommitRefines
    <2>5. Live /\ Live' /\ revision' = revision + 1
        BY <1>4, <2>1, <2>2 DEF CommitsPlan, Commit, Live
    <2>6. Protocol!Settle
        BY <2>3, <2>4, <2>5 DEF Protocol!Settle
    <2> QED BY <2>6 DEF Protocol!ProtocolNext
<1>5. CASE CommitsObservation
    <2>1. PICK fp \in Fingerprints : Commit("observation", revision, fp)
        BY <1>5 DEF CommitsObservation
    <2>2. /\ TransitionOf(pending) = None /\ TransitionOf(pending') = None
          /\ (pending # None /\ pending.acked) = FALSE
          /\ (pending' # None /\ pending'.acked) = FALSE
        BY <1>5, <2>1 DEF CommitsObservation, Commit, TransitionOf
    <2>3. content' = None
        BY <2>1, <2>2, CommitRefines DEF Inv, TypeOK
    <2>4. Live /\ Live' /\ revision' = revision + 1 /\ revision < MaxRevision
        BY <1>5, <2>1 DEF CommitsObservation, Commit, Live
    <2>5. Protocol!Observe
        BY <2>2, <2>3, <2>4 DEF Protocol!Observe
    <2> QED BY <2>5 DEF Protocol!ProtocolNext
<1>6. CASE Diverges
    <2>1. PICK reason \in DivergenceKinds : Diverge(reason)
        BY <1>6 DEF Diverges
    <2>2. /\ Live /\ Live' = FALSE
          /\ TransitionOf(pending') = None
          /\ (pending' # None /\ pending'.acked) = FALSE
          /\ UNCHANGED <<revision, log>>
        BY <1>6, <2>1 DEF Diverges, Diverge, Live, DivergenceKinds, NoDivergence,
                          TransitionOf
    <2>3. Protocol!Halt
        BY <2>2 DEF Protocol!Halt
    <2> QED BY <2>3 DEF Protocol!ProtocolNext
<1> QED BY <1>1, <1>2, <1>3, <1>4, <1>5, <1>6 DEF Effect

\* The reconciler implements the commit protocol: every step, for any message,
\* is one step of the protocol or leaves its state unchanged.
THEOREM Implementation == Spec => ImplementsCommitProtocol
<1>1. Init => Protocol!ProtocolInit
    BY InitRefines
<1>2. Inv /\ [Next]_vars => [Protocol!ProtocolNext]_(Protocol!protocolVars)
    <2>1. ASSUME Inv, Next PROVE [Protocol!ProtocolNext]_(Protocol!protocolVars)
        BY <2>1, StepEffect, EffectRefines DEF Inv
    <2>2. ASSUME UNCHANGED vars PROVE UNCHANGED Protocol!protocolVars
        BY <2>2 DEF vars, Protocol!protocolVars, TransitionOf, Live
    <2> QED BY <2>1, <2>2
<1> QED BY <1>1, <1>2, Invariance, PTL
        DEF Spec, ImplementsCommitProtocol, Protocol!ProtocolSpec

=============================================================================
