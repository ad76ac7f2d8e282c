-------------------------- MODULE MCPlannerService --------------------------
(* The planner service on a small instance: two planner processes, of which   *)
(* one may outlive its bus connection, two incarnations of KWin, two windows  *)
(* and three calls.  A behaviour is of one scene, chosen in its first state:  *)
(* in "order" KWin writes and reads with three calls, and the planner or KWin *)
(* is restarted; in "refusals" two calls carry what is refused too, and a     *)
(* process id may be used again or not; in "routes" one process serves plans  *)
(* beside intents.                                                            *)
EXTENDS PlannerService, TLC

CONSTANTS p1, p2, a1, a2, a3, w1, w2,
          Scenes   \* the scenes this run checks, by name

VARIABLE scene

MCRequest(method, caller, shape, float, tile) ==
    [method |-> method, caller |-> caller, shape |-> shape, float |-> float, tile |-> tile]

\* KWin writes and reads: two snapshots, and a read of part of the inventory.
SessionRequests ==
    { MCRequest("write", "kwin", "valid", {w1}, {w2}),
      MCRequest("write", "kwin", "valid", {w2}, {}),
      MCRequest("read",  "kwin", "valid", {w1}, {}) }

\* Writes only, with overlapping sides and too many members among them, by KWin
\* and by another process of the user.
WriteRequests ==
    { MCRequest("write", "kwin", "valid", {w1}, {w2}),
      MCRequest("write", "kwin", "valid", {w1}, {w1}),
      MCRequest("write", "kwin", "valid", {}, {w1, w2}),
      MCRequest("write", "peer", "valid", {w1}, {}) }

\* Calls of both routes, with all that ends one early.
RouteRequests ==
    { MCRequest("plan",  "kwin",    "valid",     {}, {}),
      MCRequest("plan",  "foreign", "oversize",  {}, {}),
      MCRequest("read",  "kwin",    "malformed", {}, {}),
      MCRequest("write", "kwin",    "valid",     {w1}, {}) }

MCRequests == SessionRequests \cup WriteRequests \cup RouteRequests

Symmetry == Permutations({a1, a2, a3})

Sends(requests) == \A c \in Calls : call[c].request \in requests \cup {None}
SomeIdle == \E c \in Calls : call[c] = Idle

\* What a scene admits: of the files an earlier bus session may have left, one; of the
\* orders in which planners start and of the ids they start with, one.
InScene ==
    /\ file.kind = "snapshot" /\ file.snapshot.namespace = 0 => file.snapshot.float = {w1}
    /\ \/ /\ scene = "order" /\ Sends(SessionRequests)
          /\ directory = "open" /\ file.kind \in {"absent", "snapshot"}
          /\ \A p \in Planners : pid[p] \in {0, 1} /\ process[p] # "dropped"
          /\ process[p1] = "unborn" => process[p2] = "unborn"
          /\ process[p2] = "unborn" \/ kwin = 1
       \/ /\ scene = "refusals" /\ Sends(WriteRequests) /\ SomeIdle
          /\ process[p2] = "unborn" => process[p1] = "unborn"
          /\ pid[p2] \in {0, 1}
       \/ /\ scene = "routes" /\ Sends(RouteRequests) /\ SomeIdle
          /\ directory = "open" /\ file.kind \in {"absent", "snapshot"}
          /\ process[p2] = "unborn"

ASSUME ConstantsAssumption == Assumption

MCInit == Init /\ scene \in Scenes /\ InScene
MCNext == Next /\ UNCHANGED scene /\ InScene'
MCSpec == MCInit /\ [][MCNext]_<<vars, scene>>
=============================================================================
