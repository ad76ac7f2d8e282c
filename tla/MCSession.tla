----------------------------- MODULE MCSession -----------------------------
(* Instances of Session for TLC.  A behaviour is of one instance, chosen in *)
(* its first state: the state space of a run is the sum of its instances'.  *)
EXTENDS Session

CONSTANT Instances   \* the instances this run checks, by name

VARIABLE instance

On(o, d) == [output |-> o, workspace |-> d]

Look(flags, auto, suppress, fixed) ==
    [flags |-> flags, auto |-> auto, suppress |-> suppress, fixed |-> fixed]

\* One domain; two workspaces of one output or one workspace on two outputs.
OneDomain == {<<On("o1", "d1")>>}
TwoDomains == {<<On("o1", "d1"), On("o1", "d2")>>, <<On("o1", "d1"), On("o2", "d1")>>}

PlainSights == {Look({}, FALSE, FALSE, FALSE), Look({"floating"}, FALSE, FALSE, FALSE)}

\* What the fixed-size classifier tells apart.
MarkSights ==
    {Look({}, FALSE, suppress, fixed) : suppress \in BOOLEAN, fixed \in BOOLEAN}
    \cup {Look({"fullscreen"}, FALSE, FALSE, fixed) : fixed \in BOOLEAN}
    \cup {Look({"sticky"}, FALSE, suppress, TRUE) : suppress \in BOOLEAN}
    \cup {Look({"floating"}, auto, suppress, TRUE) : auto \in BOOLEAN, suppress \in BOOLEAN}
    \cup {Look({"floating", other}, TRUE, FALSE, TRUE) : other \in {"sticky", "fullscreen"}}

\* What some instance may start with or observe.
AnyDomains == OneDomain \cup TwoDomains
AnySights == PlainSights \cup MarkSights

-----------------------------------------------------------------------------
\* The module's own constants bound those of the instances, for the properties.

\* Two windows in two domains: sends, crossings, drags and relocation.
Pairs == INSTANCE Session WITH
    LastWindow <- 2, Outputs <- {"o1", "o2"}, Workspaces <- {"d1", "d2"},
    InitialDomains <- TwoDomains, AdmissionAxes <- {"horizontal"}, Sights <- PlainSights,
    FixedAdmission <- FALSE, Unfloat <- "any", MaxRevision <- 3

\* Three windows in one domain: trees and focus history.
Shapes == INSTANCE Session WITH
    LastWindow <- 3, Outputs <- {"o1"}, Workspaces <- {"d1"},
    InitialDomains <- OneDomain, AdmissionAxes <- {"horizontal"}, Sights <- PlainSights,
    FixedAdmission <- FALSE, Unfloat <- "never", MaxRevision <- 3

\* The fixed-size opt-in, callers that settle every unfloat.
FixedSize == INSTANCE Session WITH
    LastWindow <- 2, Outputs <- {"o1"}, Workspaces <- {"d1"},
    InitialDomains <- OneDomain, AdmissionAxes <- {"horizontal"}, Sights <- MarkSights,
    FixedAdmission <- TRUE, Unfloat <- "settled", MaxRevision <- 2

\* One window, an unfloat plan that may be withdrawn.
Withdrawn == INSTANCE Session WITH
    LastWindow <- 1, Outputs <- {"o1"}, Workspaces <- {"d1"},
    InitialDomains <- OneDomain, AdmissionAxes <- {"horizontal"}, Sights <- MarkSights,
    FixedAdmission <- TRUE, Unfloat <- "any", MaxRevision <- 3

ASSUME ConstantsAssumption ==
    /\ Assumption
    /\ Pairs!Assumption
    /\ Shapes!Assumption
    /\ FixedSize!Assumption
    /\ Withdrawn!Assumption

MCInit ==
    /\ instance \in Instances
    /\ \/ instance = "pairs" /\ Pairs!Init
       \/ instance = "shapes" /\ Shapes!Init
       \/ instance = "fixed_size" /\ FixedSize!Init
       \/ instance = "withdrawn" /\ Withdrawn!Init

MCNext ==
    \/ instance = "pairs" /\ Pairs!Next /\ UNCHANGED instance
    \/ instance = "shapes" /\ Shapes!Next /\ UNCHANGED instance
    \/ instance = "fixed_size" /\ FixedSize!Next /\ UNCHANGED instance
    \/ instance = "withdrawn" /\ Withdrawn!Next /\ UNCHANGED instance

MCVars == <<vars, instance>>

MCSpec == MCInit /\ [][MCNext]_MCVars
=============================================================================
