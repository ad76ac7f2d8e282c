----------------------------- MODULE Reconciler -----------------------------
(***************************************************************************)
(* The single-slot reconciler of the portable core                         *)
(* (crates/tiler-core/src/reconcile.rs).                                   *)
(*                                                                         *)
(* A reconciler is pinned to one owner and one generation and carries a    *)
(* verified revision.  A plan of any kind is proposed against an           *)
(* observation of exactly that revision and occupies the one pending slot; *)
(* the adapter acknowledges it, and a post-observation that echoes it      *)
(* commits it as the next revision.  Every binding mismatch on the way     *)
(* diverges: the slot is emptied and nothing moves any more.               *)
(*                                                                         *)
(* The callers are an arbitrary environment: any operation may be called   *)
(* at any time with any well-formed input, so an acknowledgement may be    *)
(* late, repeated, foreign or missing.  Identifiers are parsed before a    *)
(* typed input exists, so the malformed-identifier branches have no input  *)
(* that reaches them; a revision above the maximum can be constructed and  *)
(* is one of the inputs.                                                   *)
(***************************************************************************)
EXTENDS Integers, Sequences

CONSTANTS
    Owner, Generation,     \* the pinned identity of this reconciler
    Owners, Generations,   \* every identity a message may carry
    Correlations,          \* correlation identifiers
    Operations,            \* semantic operations a plan may carry
    Fingerprints,          \* observation fingerprints
    MaxRevision,           \* contract::MAX_REVISION (1 000 000 in the code)
    None                   \* the absent plan, operation or divergence

ASSUME IdentityAssumption  == Owner \in Owners /\ Generation \in Generations
ASSUME RevisionAssumption  == MaxRevision \in Nat

VARIABLES
    revision,      \* verified_revision
    fingerprint,   \* verified_fingerprint
    pending,       \* the dispatched plan, or None
    diverged,      \* the recorded divergence, or NoDivergence
    log            \* history: the committed transitions, oldest first

vars == <<revision, fingerprint, pending, diverged, log>>

-----------------------------------------------------------------------------
(* Vocabulary.                                                             *)

NoDivergence == "none"

DivergenceKinds ==
    {"StaleRevision", "OwnerMismatch", "GenerationMismatch",
     "CorrelationMismatch", "CapabilityRefused", "PartialApplication",
     "AdapterLost", "PostconditionUnverified", "PostconditionMismatch",
     "RevisionExhausted"}

PendingKinds == {"move", "lifecycle", "focus", "resize", "drag"}

Routes == {"move", "lifecycle", "focus", "resize", "pointer_resize",
           "corner_resize", "drag"}

\* All three resize routes stage the same kind of pending plan.
KindOf(route) ==
    IF route \in {"pointer_resize", "corner_resize"} THEN "resize" ELSE route

Plan == [correlation : Correlations, base : 0..MaxRevision, acked : BOOLEAN,
         kind : PendingKinds, operation : Operations,
         secondary : Operations \cup {None}]

\* A plan without its delivery state.
Transition == [correlation : Correlations, kind : PendingKinds,
               operation : Operations, secondary : Operations \cup {None}]

\* The absent value is an Option's None, distinct from every content.
ASSUME NoneAssumption ==
    None \notin Operations /\ None \notin Transition /\ None \notin Plan

\* A u64 revision as a caller may construct it: one value stands for every
\* revision above the maximum.
Revisions == 0..(MaxRevision + 1)

Observations == [owner : Owners, generation : Generations, revision : Revisions]

Outcomes == {"Accepted", "RefusedCapability", "PartialApplication", "AdapterLost"}

Acks == [correlation : Correlations, owner : Owners, generation : Generations,
         base : Revisions, outcome : Outcomes]

Posts == [correlation : Correlations, owner : Owners, generation : Generations,
          revision : Revisions, fingerprint : Fingerprints,
          verified : BOOLEAN, overlong : BOOLEAN, preconditions_bound : BOOLEAN,
          operation : Operations, secondary : Operations \cup {None}]

-----------------------------------------------------------------------------
(* Gates.  Every operation is a fixed sequence of checks; the first that   *)
(* fails names the divergence.                                             *)

Gate(fails, reason) == [fails |-> fails, reason |-> reason]

Passes(gates) == \A i \in DOMAIN gates : ~gates[i].fails

FailsAt(gates, i) ==
    /\ gates[i].fails
    /\ \A j \in DOMAIN gates : j < i => ~gates[j].fails

\* What an observation must satisfy before any plan is looked at.
ObservationGates(obs) ==
    << Gate(obs.owner # Owner,            "OwnerMismatch"),
       Gate(obs.revision > MaxRevision,   "StaleRevision"),
       Gate(obs.generation # Generation,  "GenerationMismatch"),
       Gate(obs.revision # revision,      "StaleRevision"),
       Gate(revision >= MaxRevision,      "RevisionExhausted") >>

\* The plan's own gates, in the order of its route.  A fault is the name of a
\* comparison between a plan and the operation it carries that does not hold.
Capability(plan, f)    == Gate(f \in plan.faults, "CapabilityRefused")
Postcondition(plan, f) == Gate(f \in plan.faults, "PostconditionMismatch")

MoveGates(p) ==
    << Postcondition(p, "rule"), Capability(p, "capability"),
       Postcondition(p, "preconditions"), Capability(p, "unsupported"),
       Postcondition(p, "unbounded_preconditions") >>

LifecycleGates(p) ==
    << Postcondition(p, "policy"), Capability(p, "capability"),
       Postcondition(p, "preconditions"), Capability(p, "unsupported"),
       Postcondition(p, "unbounded_preconditions") >>

FocusGates(p) ==
    << Capability(p, "capability"), Postcondition(p, "preconditions"),
       Capability(p, "unsupported"), Postcondition(p, "unbounded_preconditions"),
       Postcondition(p, "self_target"), Postcondition(p, "leafless"),
       Postcondition(p, "empty_route") >>

ResizeGates(p) ==
    << Capability(p, "capability"), Postcondition(p, "preconditions"),
       Capability(p, "unsupported"), Postcondition(p, "unbounded_preconditions"),
       Postcondition(p, "intent"), Postcondition(p, "shares") >>

PointerResizeGates(p) ==
    << Capability(p, "capability"), Postcondition(p, "preconditions"),
       Capability(p, "unsupported"), Postcondition(p, "unbounded_preconditions"),
       Postcondition(p, "intent"), Postcondition(p, "fixed_shares") >>

\* A corner plan passes the per-axis checks for both of its axes first.
CornerResizeGates(p) ==
    << Capability(p, "capability"), Postcondition(p, "preconditions"),
       Postcondition(p, "intent"), Postcondition(p, "fixed_shares"),
       Capability(p, "secondary_capability"),
       Postcondition(p, "secondary_preconditions"),
       Postcondition(p, "secondary_intent"),
       Postcondition(p, "secondary_fixed_shares"),
       Postcondition(p, "preconditions_differ"), Postcondition(p, "same_axis"),
       Capability(p, "unsupported"), Postcondition(p, "unbounded_preconditions"),
       Postcondition(p, "intents_differ") >>

DragGates(p) ==
    << Capability(p, "capability"), Postcondition(p, "preconditions"),
       Capability(p, "unsupported"), Postcondition(p, "unbounded_preconditions"),
       Postcondition(p, "intent"), Postcondition(p, "drag_shape") >>

PlanGates(route, plan) ==
    CASE route = "move"           -> MoveGates(plan)
      [] route = "lifecycle"      -> LifecycleGates(plan)
      [] route = "focus"          -> FocusGates(plan)
      [] route = "resize"         -> ResizeGates(plan)
      [] route = "pointer_resize" -> PointerResizeGates(plan)
      [] route = "corner_resize"  -> CornerResizeGates(plan)
      [] route = "drag"           -> DragGates(plan)

-----------------------------------------------------------------------------
(* The plans a caller may propose on a route: faultless, or with one or    *)
(* two faults, which is enough to tell every order of the gates apart.     *)

FaultPairs(names) == {{}} \cup {{a, b} : a, b \in names}

Unsound == {"capability", "preconditions", "unsupported", "unbounded_preconditions"}

RouteFaults(route) ==
    CASE route = "move"           -> Unsound \cup {"rule"}
      [] route = "lifecycle"      -> Unsound \cup {"policy"}
      [] route = "focus"          -> Unsound \cup {"self_target", "leafless", "empty_route"}
      [] route = "resize"         -> Unsound \cup {"intent", "shares"}
      [] route = "pointer_resize" -> Unsound \cup {"intent", "fixed_shares"}
      [] route = "corner_resize"  ->
            Unsound \cup {"intent", "fixed_shares", "secondary_capability",
                "secondary_preconditions", "secondary_intent",
                "secondary_fixed_shares", "preconditions_differ", "same_axis",
                "intents_differ"}
      [] route = "drag"           -> Unsound \cup {"intent", "drag_shape"}

Plans(route) ==
    [operation : Operations,
     secondary : IF route = "corner_resize" THEN Operations ELSE {None},
     faults    : FaultPairs(RouteFaults(route))]

-----------------------------------------------------------------------------
(* State changes shared by the operations.                                 *)

Diverge(reason) ==
    /\ diverged' = reason
    /\ pending' = None
    /\ UNCHANGED <<revision, fingerprint, log>>

DivergeAtFirst(gates) ==
    \E i \in DOMAIN gates : FailsAt(gates, i) /\ Diverge(gates[i].reason)

\* Mutant of Commit: the slot is not emptied, so a repeated verification commits
\* the same plan again.
CommitKeepsPlan(via, base, fp) ==
    /\ revision' = base + 1
    /\ fingerprint' = fp
    /\ log' = Append(log, [via |-> via, base |-> base, fingerprint |-> fp,
                           plan |-> pending])
    /\ UNCHANGED <<pending, diverged>>

Commit(via, base, fp) ==
    /\ revision' = base + 1
    /\ fingerprint' = fp
    /\ log' = Append(log, [via |-> via, base |-> base, fingerprint |-> fp,
                           plan |-> pending])
    /\ pending' = None
    /\ UNCHANGED diverged

\* Divergence is terminal: every operation answers it and changes nothing.
Live == diverged = NoDivergence

-----------------------------------------------------------------------------
(* Proposing.                                                              *)

Stage(correlation, route, plan) ==
    /\ pending' = [correlation |-> correlation, base |-> revision, acked |-> FALSE,
                   kind |-> KindOf(route), operation |-> plan.operation,
                   secondary |-> plan.secondary]
    /\ UNCHANGED <<revision, fingerprint, diverged, log>>

\* Mutant of ProposeOn: a second proposal replaces the plan that is waiting.
ProposeOverPending(route) ==
    /\ Live
    /\ \E obs \in Observations :
         /\ Passes(ObservationGates(obs))
         /\ \E plan \in Plans(route) :
              /\ Passes(PlanGates(route, plan))
              /\ \E correlation \in Correlations : Stage(correlation, route, plan)

ProposeOn(route) ==
    /\ Live
    /\ pending = None          \* otherwise PendingExists, nothing changes
    /\ \E obs \in Observations :
         \/ DivergeAtFirst(ObservationGates(obs))
         \/ /\ Passes(ObservationGates(obs))
            /\ \E plan \in Plans(route) :
                 \/ DivergeAtFirst(PlanGates(route, plan))
                 \/ /\ Passes(PlanGates(route, plan))
                    /\ \E correlation \in Correlations : Stage(correlation, route, plan)

Propose              == ProposeOn("move")
ProposeLifecycle     == ProposeOn("lifecycle")
ProposeFocus         == ProposeOn("focus")
ProposeResize        == ProposeOn("resize")
ProposePointerResize == ProposeOn("pointer_resize")
ProposeCornerResize  == ProposeOn("corner_resize")
ProposeDrag          == ProposeOn("drag")

-----------------------------------------------------------------------------
(* Withdrawing and acknowledging.                                          *)

\* Mutant of CancelUnacked: an acknowledged plan can still be withdrawn.
CancelAny ==
    /\ Live
    /\ pending # None
    /\ pending' = None
    /\ UNCHANGED <<revision, fingerprint, diverged, log>>

\* A probe that does not bind the unacknowledged plan exactly is refused
\* without divergence.
CancelUnacked ==
    /\ Live
    /\ pending # None
    /\ ~pending.acked
    /\ \E correlation \in Correlations, base \in Revisions :
         /\ correlation = pending.correlation
         /\ base = pending.base
    /\ pending' = None
    /\ UNCHANGED <<revision, fingerprint, diverged, log>>

AckGates(ack) ==
    << Gate(ack.base > MaxRevision,        "StaleRevision"),
       Gate(ack.owner # Owner,             "OwnerMismatch"),
       Gate(ack.generation # Generation,   "GenerationMismatch"),
       Gate(\/ ack.correlation # pending.correlation
            \/ ack.base # pending.base,    "CorrelationMismatch"),
       Gate(ack.outcome = "RefusedCapability",  "CapabilityRefused"),
       Gate(ack.outcome = "PartialApplication", "PartialApplication"),
       Gate(ack.outcome = "AdapterLost",        "AdapterLost") >>

\* A repeated acceptance is discarded: acked is already TRUE.
Acknowledge ==
    /\ Live
    /\ pending # None          \* otherwise NoPending, nothing changes
    /\ \E ack \in Acks :
         \/ /\ Passes(AckGates(ack))
            /\ pending' = [pending EXCEPT !.acked = TRUE]
            /\ UNCHANGED <<revision, fingerprint, diverged, log>>
         \/ DivergeAtFirst(AckGates(ack))

-----------------------------------------------------------------------------
(* Verifying: one operation per kind of plan, which all bind alike.        *)

VerifyGates(kind, post) ==
    << Gate(post.overlong,                          "PostconditionMismatch"),
       Gate(post.revision > MaxRevision,            "StaleRevision"),
       Gate(post.correlation # pending.correlation, "CorrelationMismatch"),
       Gate(post.owner # Owner,                     "OwnerMismatch"),
       Gate(post.generation # Generation,           "GenerationMismatch"),
       Gate(post.revision # pending.base,           "StaleRevision"),
       Gate(~post.verified,                         "PostconditionUnverified"),
       Gate(pending.kind # kind,                    "PostconditionMismatch"),
       Gate(~post.preconditions_bound,              "PostconditionMismatch"),
       Gate(post.operation # pending.operation,     "PostconditionMismatch"),
       Gate(/\ kind = "resize"
            /\ post.secondary # pending.secondary,  "PostconditionMismatch"),
       Gate(pending.base >= MaxRevision,            "RevisionExhausted") >>

\* Mutant of VerifyAs: the acknowledgement is not awaited.
VerifyUnacked(kind) ==
    /\ Live
    /\ pending # None
    /\ \E post \in Posts :
         /\ Passes(VerifyGates(kind, post))
         /\ Commit("plan", pending.base, post.fingerprint)

VerifyAs(kind) ==
    /\ Live
    /\ pending # None          \* otherwise NoPending, nothing changes
    /\ pending.acked           \* otherwise NotAcknowledged, nothing changes
    /\ \E post \in Posts :
         \/ /\ Passes(VerifyGates(kind, post))
            /\ Commit("plan", pending.base, post.fingerprint)
         \/ DivergeAtFirst(VerifyGates(kind, post))

Verify          == VerifyAs("move")
VerifyLifecycle == VerifyAs("lifecycle")
VerifyFocus     == VerifyAs("focus")
VerifyResize    == VerifyAs("resize")
VerifyDrag      == VerifyAs("drag")

-----------------------------------------------------------------------------
(* Signals, and convergence on an observation without a plan.              *)

NoteAdapterLoss == Live /\ Diverge("AdapterLost")

NotePostconditionMismatch == Live /\ Diverge("PostconditionMismatch")

\* The caller found the observation bound elsewhere.
DivergeConvergence ==
    /\ Live
    /\ \E reason \in {"OwnerMismatch", "GenerationMismatch", "StaleRevision"} :
         Diverge(reason)

\* Mutant of CommitObservationConvergence: the revision is not bounded.
ConvergeUnbounded ==
    /\ Live
    /\ pending = None
    /\ \E fp \in Fingerprints : Commit("observation", revision, fp)

\* Mutant of CommitObservationConvergence: the slot is not looked at, and an
\* observation moves the revision under the waiting plan.
ConvergeBesidePlan ==
    /\ Live
    /\ revision < MaxRevision
    /\ revision' = revision + 1
    /\ fingerprint' \in Fingerprints
    /\ UNCHANGED <<pending, diverged, log>>

\* Every refusal leaves the reconciler untouched.
CommitObservationConvergence ==
    /\ Live
    /\ pending = None
    /\ revision < MaxRevision
    /\ \E fp \in Fingerprints : Commit("observation", revision, fp)

-----------------------------------------------------------------------------

Init ==
    /\ revision \in 0..MaxRevision
    /\ fingerprint \in Fingerprints
    /\ pending = None
    /\ diverged = NoDivergence
    /\ log = << >>

Next ==
    \/ Propose \/ ProposeLifecycle \/ ProposeFocus \/ ProposeDrag
    \/ ProposeResize \/ ProposePointerResize \/ ProposeCornerResize
    \/ CancelUnacked \/ Acknowledge
    \/ Verify \/ VerifyLifecycle \/ VerifyFocus \/ VerifyResize \/ VerifyDrag
    \/ NoteAdapterLoss \/ NotePostconditionMismatch
    \/ DivergeConvergence \/ CommitObservationConvergence

Spec == Init /\ [][Next]_vars

-----------------------------------------------------------------------------
(* Properties.                                                             *)

LogEntry == [via : {"plan", "observation"}, base : 0..MaxRevision,
             fingerprint : Fingerprints, plan : Plan \cup {None}]

\* The state is well typed.
TypeOK ==
    /\ revision \in 0..MaxRevision
    /\ fingerprint \in Fingerprints
    /\ pending \in Plan \cup {None}
    /\ diverged \in DivergenceKinds \cup {NoDivergence}
    /\ log \in Seq(LogEntry)

\* A plan waits only while the session is live, was computed against the
\* revision that is still the verified one, and leaves room for its commit: so
\* whatever is interleaved between propose and verify, the RevisionExhausted
\* branch of the verify operations is never the reason a plan fails.
PendingIsCurrent ==
    pending # None => /\ Live
                      /\ pending.base = revision
                      /\ revision < MaxRevision

\* The history is gapless: the committed transitions have consecutive base
\* revisions that end at the verified revision, whichever mix of verified
\* plans and observation convergences produced them, so no revision is ever
\* committed twice or skipped; the fingerprint kept is that of the last one.
HistoryIsGapless ==
    /\ \A i \in 1..Len(log) : log[i].base = revision - Len(log) + i - 1
    /\ log # << >> => fingerprint = log[Len(log)].fingerprint

\* What is committed as a plan had been acknowledged, and an observation
\* convergence never swallows a plan that was waiting.
OnlyAcceptedPlansCommit ==
    \A i \in 1..Len(log) :
        IF log[i].via = "plan"
        THEN log[i].plan # None /\ log[i].plan.acked /\ log[i].plan.base = log[i].base
        ELSE log[i].plan = None

\* An acknowledged plan leaves the slot in one of two ways only: committed as
\* it was dispatched, or with a recorded divergence.  In particular it is
\* never withdrawn, nor replaced by another plan.
AcceptedPlanIsSettled ==
    [][pending # None /\ pending.acked =>
         \/ pending' = pending
         \/ diverged' # NoDivergence
         \/ log' # log /\ log'[Len(log')].plan = pending]_vars

-----------------------------------------------------------------------------
(* The reconciler implements the commit protocol: what is on offer is the  *)
(* pending plan without its delivery state, and the content of the settled *)
(* revision is the plan of the last committed transition.                  *)

TransitionOf(plan) ==
    IF plan = None THEN None
    ELSE [correlation |-> plan.correlation, kind |-> plan.kind,
          operation |-> plan.operation, secondary |-> plan.secondary]

Protocol == INSTANCE CommitProtocol WITH
    Transitions <- Transition,
    Last        <- MaxRevision,
    Nothing     <- None,
    settled     <- revision,
    content     <- IF log = << >> THEN None ELSE TransitionOf(log[Len(log)].plan),
    offer       <- TransitionOf(pending),
    accepted    <- pending # None /\ pending.acked,
    halted      <- ~Live

\* Every behaviour of the reconciler, for messages of any kind in any order,
\* is one of the commit protocol: divergence is terminal for every operation,
\* a plan is settled only after its acceptance and unchanged since it was
\* offered, and the revision never passes the maximum.
ImplementsCommitProtocol == Protocol!ProtocolSpec

=============================================================================
