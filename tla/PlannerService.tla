--------------------------- MODULE PlannerService ---------------------------
(***************************************************************************)
(* The session-bus planner service and its durable float intent            *)
(* (crates/omnitiler/src/planner_service.rs, float_intent_store.rs).       *)
(*                                                                         *)
(* A planner process owns the service name, and answers DescribePlan under *)
(* one non-queuing lock and ReadFloatIntent/WriteFloatIntent under         *)
(* another.  Every await and every system call is a point where another    *)
(* call, a crash, a bus disconnect or a restart of KWin may fall.  The     *)
(* intent file outlives the processes; a write replaces it by renaming a   *)
(* temporary file over it.                                                 *)
(*                                                                         *)
(* A namespace is the bus id with KWin's unique name.  The bus id does not *)
(* change under a running session bus and unique names are never reused,   *)
(* so the namespace is the number of KWin's incarnation.                   *)
(***************************************************************************)
EXTENDS Integers, Sequences, FiniteSets, Functions

CONSTANTS
    Planners,     \* planner processes, each started at most once
    Pids,         \* process ids, reused after a process is gone
    Calls,        \* D-Bus calls
    Windows,      \* normalized window identifiers
    MaxMembers,   \* MAX_FLOAT_MEMBERS and MAX_TILE_MEMBERS
    MaxKWin,      \* bound: KWin incarnations
    Requests,     \* the requests callers make
    Lingering,    \* planners that may finish a call after the bus dropped them
    None

VARIABLES
    process,      \* planner -> "unborn", "serving", "dropped" or "gone"
    pid,          \* planner -> process id
    planner,      \* planner -> retained sessions: "fresh", "retained", "torn"
    tempCounter,  \* planner -> TEMP_COUNTER
    nameOwner,    \* the planner that owns the service name, or None
    kwin,         \* current KWin incarnation
    kwinUp,
    planLock,     \* planner -> the call holding operation_lock, or None
    intentLock,   \* planner -> the call holding intent_lock, or None
    call,         \* call -> what it asks, how far it is, what it was answered
    directory,    \* the store's project directory
    file,         \* the final intent file
    temps,        \* temporary files, by process id and counter
    renames       \* history: write calls whose rename happened, in order

processVars == <<process, pid, planner, tempCounter, nameOwner>>
kwinVars    == <<kwin, kwinUp>>
lockVars    == <<planLock, intentLock>>
diskVars    == <<directory, file, temps, renames>>
vars        == <<processVars, kwinVars, lockVars, call, diskVars>>

-----------------------------------------------------------------------------
(* Vocabulary.                                                             *)

Methods == {"plan", "read", "write"}

\* Who calls: KWin under its current unique name, another process of the same
\* user, or a process of another user.
Callers == {"kwin", "peer", "foreign"}

\* What is asked.  The body is oversize, unparsable, or carries a pair of full
\* snapshots (a write) or the complete live inventory in float (a read).
Request == [method : Methods, caller : Callers,
            shape : {"oversize", "malformed", "valid"},
            float : SUBSET Windows, tile : SUBSET Windows]

\* A call in service holds the lock of its method.  It is over when its answer
\* was delivered, could not be delivered, or will never be given.
InService == {"admitted", "verified", "authorized", "temporary", "renamed"}
Over      == {"answered", "undelivered", "lost"}

Answers ==
    {"busy", "oversize", "closed", "unauthorized", "planned", "reply-too-long",
     "invalid-request", "not-kwin-owner", "namespace-unavailable",
     "unreadable", "corrupt", "namespace-mismatch", "ok",
     "invalid-members", "store-unavailable", "stored"}

\* Answers that tell the caller its write was refused as such.
Refusals == {"busy", "oversize", "closed", "unauthorized", "invalid-request",
             "not-kwin-owner", "namespace-unavailable", "invalid-members"}

\* What every instance assumes of the constants.  A process id is positive, and
\* None is no planner, call, answer or state of the sessions.
Assumption ==
    /\ Lingering \subseteq Planners
    /\ MaxKWin \in Nat \ {0}
    /\ MaxMembers \in Nat
    /\ Pids \subseteq Nat \ {0}
    /\ IsFiniteSet(Windows)
    /\ Requests \subseteq Request
    /\ None \notin Planners \cup Calls \cup Answers \cup {"fresh", "retained", "torn"}

Snapshot(namespace, float, tile) ==
    [namespace |-> namespace, float |-> float, tile |-> tile]

Capped    == {side \in SUBSET Windows : Cardinality(side) <= MaxMembers}
Snapshots == [namespace : 0..MaxKWin, float : Capped, tile : Capped]

\* The final file: absent, not our 0600 regular file, unparsable, or a whole
\* snapshot.
Unwritten(kind)   == [kind |-> kind, snapshot |-> Snapshot(0, {}, {})]
Written(snapshot) == [kind |-> "snapshot", snapshot |-> snapshot]
Files == [kind : {"absent", "foreign", "corrupt", "snapshot"}, snapshot : Snapshots]

Idle == [stage |-> "idle", request |-> None, by |-> None, kwin |-> 0,
         namespace |-> 0, temp |-> 0, answer |-> None,
         float |-> {}, tile |-> {}, before |-> {}, sessions |-> None]

Running(p) == process[p] \in {"serving", "dropped"}

\* A mutation: the intent methods do not exclude each other.
IntentUnlocked(c) ==
    IF call[c].request.method = "plan" THEN planLock[call[c].by] ELSE None

LockOf(c) == IF call[c].request.method = "plan"
             THEN planLock[call[c].by] ELSE intentLock[call[c].by]

\* The temporary file's name is the process id followed by the counter in
\* decimal, without a separator (bound: two digits of counter).
TempName(id, n) == id * (IF n < 10 THEN 10 ELSE 100) + n

\* A connection that left the bus cannot be asked about nor answered.
CallerConnected(c) ==
    call[c].request.caller = "kwin" => kwinUp /\ call[c].kwin = kwin

\* The calls that are over for whoever sends a call now: those that have ended,
\* and those of a planner or a KWin whose connection is gone.
Past == {d \in Calls : \/ call[d].stage \in Over
                       \/ /\ call[d].stage # "idle"
                          /\ process[call[d].by] # "serving" \/ ~CallerConnected(d)}

-----------------------------------------------------------------------------
(* Leaving a call.  Every exit drops the guard of the lock the call holds. *)

Release(c) ==
    LET p == call[c].by
    IN  /\ planLock' = IF planLock[p] = c THEN [planLock EXCEPT ![p] = None] ELSE planLock
        /\ intentLock' = IF intentLock[p] = c THEN [intentLock EXCEPT ![p] = None]
                                              ELSE intentLock

Ended(c) == IF process[call[c].by] = "serving" /\ CallerConnected(c)
            THEN "answered" ELSE "undelivered"

\* A mutation: one early exit keeps the guard.
AnswerKeepsGuard(c, answer) ==
    /\ call' = [call EXCEPT ![c].stage = Ended(c), ![c].answer = answer]
    /\ IF answer = "not-kwin-owner" THEN UNCHANGED lockVars ELSE Release(c)

Answer(c, answer) ==
    /\ call' = [call EXCEPT ![c].stage = Ended(c), ![c].answer = answer]
    /\ Release(c)

Advance(c, stage) ==
    /\ call' = [call EXCEPT ![c].stage = stage]
    /\ UNCHANGED lockVars

At(c, stage, methods) ==
    /\ call[c].stage = stage
    /\ call[c].request.method \in methods
    /\ Running(call[c].by)

-----------------------------------------------------------------------------
(* Processes, the service name, and KWin.                                  *)

\* DoNotQueue: a process that finds the name taken exits at once.
StartPlanner(p) ==
    /\ process[p] = "unborn"
    /\ nameOwner = None
    /\ nameOwner' = p
    /\ process' = [process EXCEPT ![p] = "serving"]
    /\ \E id \in Pids : /\ \A q \in Planners : Running(q) => pid[q] # id
                        /\ pid' = [pid EXCEPT ![p] = id]
    /\ UNCHANGED <<planner, tempCounter, kwinVars, lockVars, call, diskVars>>

\* The process ends, by a crash or because name loss is terminal: the calls in
\* service are never answered, its locks go with it, its files stay.
EndPlanner(p) ==
    /\ Running(p)
    /\ process' = [process EXCEPT ![p] = "gone"]
    /\ nameOwner' = IF nameOwner = p THEN None ELSE nameOwner
    /\ planLock' = [planLock EXCEPT ![p] = None]
    /\ intentLock' = [intentLock EXCEPT ![p] = None]
    /\ call' = [c \in Calls |->
                  IF call[c].by = p /\ call[c].stage \in InService \cup {"sent"}
                  THEN [call[c] EXCEPT !.stage = "lost"] ELSE call[c]]
    /\ UNCHANGED <<pid, planner, tempCounter, kwinVars, diskVars>>

\* The bus drops the connection and frees the name while the process still
\* runs; it learns of it later.
DropConnection(p) ==
    /\ p \in Lingering
    /\ process[p] = "serving"
    /\ process' = [process EXCEPT ![p] = "dropped"]
    /\ nameOwner' = None
    /\ UNCHANGED <<pid, planner, tempCounter, kwinVars, lockVars, call, diskVars>>

StopKWin ==
    /\ kwinUp
    /\ kwinUp' = FALSE
    /\ UNCHANGED <<kwin, processVars, lockVars, call, diskVars>>

StartKWin ==
    /\ ~kwinUp
    /\ kwin < MaxKWin
    /\ kwin' = kwin + 1
    /\ kwinUp' = TRUE
    /\ UNCHANGED <<processVars, lockVars, call, diskVars>>

Send(c, request) ==
    /\ call[c].stage = "idle"
    /\ nameOwner # None
    /\ request.caller = "kwin" => kwinUp
    /\ call' = [call EXCEPT ![c] =
                  [Idle EXCEPT !.stage = "sent", !.request = request, !.by = nameOwner,
                               !.kwin = IF request.caller = "kwin" THEN kwin ELSE 0,
                               !.before = Past]]
    /\ UNCHANGED <<processVars, kwinVars, lockVars, diskVars>>

-----------------------------------------------------------------------------
(* Admission: try_lock never queues, and each early exit releases.         *)

Arrive(c) ==
    /\ At(c, "sent", Methods)
    /\ \/ /\ LockOf(c) # None
          /\ Answer(c, "busy")
       \/ /\ LockOf(c) = None
          /\ call[c].request.shape = "oversize"
          /\ Answer(c, "oversize")
       \/ /\ LockOf(c) = None
          /\ call[c].request.shape # "oversize"
          /\ process[call[c].by] = "dropped"
          /\ Answer(c, "closed")
       \/ /\ LockOf(c) = None
          /\ call[c].request.shape # "oversize"
          /\ process[call[c].by] = "serving"
          /\ call' = [call EXCEPT ![c].stage = "admitted"]
          /\ IF call[c].request.method = "plan"
             THEN planLock' = [planLock EXCEPT ![call[c].by] = c] /\ UNCHANGED intentLock
             ELSE intentLock' = [intentLock EXCEPT ![call[c].by] = c] /\ UNCHANGED planLock
    /\ UNCHANGED <<processVars, kwinVars, diskVars>>

\* The uid is asked of the bus; a query that fails, because either side of it has
\* left the bus, refuses like a foreign uid.
SameUser(c) ==
    /\ call[c].request.caller # "foreign"
    /\ CallerConnected(c)
    /\ process[call[c].by] = "serving"

\* A mutation: the query waits for a peer that has gone.
VerifyCallerWaits(c) ==
    /\ At(c, "admitted", Methods)
    /\ CallerConnected(c) /\ process[call[c].by] = "serving"
    /\ \/ SameUser(c)  /\ Advance(c, "verified")
       \/ ~SameUser(c) /\ Answer(c, "unauthorized")
    /\ UNCHANGED <<processVars, kwinVars, diskVars>>

VerifyCaller(c) ==
    /\ At(c, "admitted", Methods)
    /\ \/ SameUser(c)  /\ Advance(c, "verified")
       \/ ~SameUser(c) /\ Answer(c, "unauthorized")
    /\ UNCHANGED <<processVars, kwinVars, diskVars>>

-----------------------------------------------------------------------------
(* DescribePlan.                                                           *)

\* A poisoned mutex is replaced by fresh sessions.
SessionsFor(p) == IF planner[p] = "torn" THEN "fresh" ELSE planner[p]

\* The reply may turn out too long after the sessions have moved.
Evaluate(c) ==
    /\ At(c, "verified", {"plan"})
    /\ LET p    == call[c].by
           used == SessionsFor(p)
       IN  /\ \E answer \in {"planned", "reply-too-long"} :
                call' = [call EXCEPT ![c].stage = Ended(c), ![c].answer = answer,
                                     ![c].sessions = used]
           /\ planner' = [planner EXCEPT ![p] = "retained"]
    /\ Release(c)
    /\ UNCHANGED <<process, pid, tempCounter, nameOwner, kwinVars, diskVars>>

\* A panic while evaluating unwinds through both locks and poisons the planner.
Panic(c) ==
    /\ At(c, "verified", {"plan"})
    /\ call' = [call EXCEPT ![c].stage = "lost"]
    /\ planner' = [planner EXCEPT ![call[c].by] = "torn"]
    /\ Release(c)
    /\ UNCHANGED <<process, pid, tempCounter, nameOwner, kwinVars, diskVars>>

-----------------------------------------------------------------------------
(* The intent methods.                                                     *)

OverCount(request) ==
    \/ Cardinality(request.float) > MaxMembers
    \/ Cardinality(request.tile) > MaxMembers

\* A mutation: any process of the user may use the intent methods.
AnySender(c) == TRUE

AuthorizesSender(c) == call[c].kwin = kwin

\* Why the sender is refused: parsing, then the namespace as the bus knows it now.
Refused(c, answer) ==
    LET request     == call[c].request
        parsed      == request.shape # "malformed" /\ ~OverCount(request)
        unavailable == ~kwinUp \/ process[call[c].by] = "dropped"
    IN  \/ /\ request.shape = "malformed" \/ (OverCount(request) /\ request.method = "read")
           /\ answer = "invalid-request"
        \/ /\ request.shape # "malformed" /\ OverCount(request) /\ request.method = "write"
           /\ answer = "invalid-members"
        \/ parsed /\ unavailable /\ answer = "namespace-unavailable"
        \/ parsed /\ ~unavailable /\ ~AuthorizesSender(c) /\ answer = "not-kwin-owner"

Authorize(c) ==
    /\ At(c, "verified", {"read", "write"})
    /\ \/ \E answer \in Refusals : Refused(c, answer) /\ Answer(c, answer)
       \/ /\ \A answer \in Refusals : ~Refused(c, answer)
          /\ call' = [call EXCEPT ![c].stage = "authorized", ![c].namespace = kwin]
          /\ UNCHANGED lockVars
    /\ UNCHANGED <<processVars, kwinVars, diskVars>>

AnswerMembers(c, float, tile) ==
    /\ call' = [call EXCEPT ![c].stage = Ended(c), ![c].answer = "ok",
                            ![c].float = float, ![c].tile = tile]
    /\ Release(c)

SameNamespace(c) == file.snapshot.namespace = call[c].namespace

\* The file is re-gated and re-parsed by every read, and pruned to the live
\* inventory without being changed.
ReadIntent(c) ==
    /\ At(c, "authorized", {"read"})
    /\ \/ directory = "unset" /\ Answer(c, "namespace-unavailable")
       \/ directory = "refused" /\ Answer(c, "unreadable")
       \/ directory = "missing" /\ AnswerMembers(c, {}, {})
       \/ /\ directory = "open"
          /\ \/ file.kind = "absent"  /\ AnswerMembers(c, {}, {})
             \/ file.kind = "foreign" /\ Answer(c, "unreadable")
             \/ file.kind = "corrupt" /\ Answer(c, "corrupt")
             \/ /\ file.kind = "snapshot" /\ ~SameNamespace(c)
                /\ Answer(c, "namespace-mismatch")
             \/ /\ file.kind = "snapshot" /\ SameNamespace(c)
                /\ AnswerMembers(c, file.snapshot.float \cap call[c].request.float,
                                    file.snapshot.tile \cap call[c].request.float)
    /\ UNCHANGED <<processVars, kwinVars, diskVars>>

\* A mutation: an existing temporary file is opened and reused.
NeverOccupied(name) == FALSE

\* O_EXCL: a file of that name fails the creation and is left alone.
Occupied(name) == name \in temps

\* Validation, the gates, and the exclusive creation of the temporary file.  The
\* counter has moved even when the creation fails.
CreateTemp(c) ==
    /\ At(c, "authorized", {"write"})
    /\ LET p       == call[c].by
           request == call[c].request
           name    == TempName(pid[p], tempCounter[p])
       IN  \/ /\ request.float \cap request.tile # {}
              /\ Answer(c, "invalid-members")
              /\ UNCHANGED <<tempCounter, diskVars>>
           \/ /\ request.float \cap request.tile = {}
              /\ directory = "unset"
              /\ Answer(c, "namespace-unavailable")
              /\ UNCHANGED <<tempCounter, diskVars>>
           \/ /\ request.float \cap request.tile = {}
              /\ directory = "refused" \/ (directory = "open" /\ file.kind = "foreign")
              /\ Answer(c, "store-unavailable")
              /\ UNCHANGED <<tempCounter, diskVars>>
           \/ /\ request.float \cap request.tile = {}
              /\ directory = "missing" \/ (directory = "open" /\ file.kind # "foreign")
              /\ directory' = "open"
              /\ tempCounter' = [tempCounter EXCEPT ![p] = @ + 1]
              /\ IF Occupied(name)
                 THEN Answer(c, "store-unavailable") /\ UNCHANGED temps
                 ELSE /\ temps' = temps \cup {name}
                      /\ call' = [call EXCEPT ![c].stage = "temporary", ![c].temp = name]
                      /\ UNCHANGED lockVars
              /\ UNCHANGED <<file, renames>>
    /\ UNCHANGED <<process, pid, planner, nameOwner, kwinVars>>

\* A mutation: the failure is not reported.
FailWriteAsStored(c) ==
    /\ At(c, "temporary", {"write"})
    /\ temps' = temps \ {call[c].temp}
    /\ call' = [call EXCEPT ![c].stage = Ended(c), ![c].temp = 0,
                            ![c].answer = "stored"]
    /\ Release(c)
    /\ UNCHANGED <<processVars, kwinVars, directory, file, renames>>

\* Writing, syncing or renaming fails: the temporary file is removed.
FailWrite(c) ==
    /\ At(c, "temporary", {"write"})
    /\ temps' = temps \ {call[c].temp}
    /\ call' = [call EXCEPT ![c].stage = Ended(c), ![c].temp = 0,
                            ![c].answer = "store-unavailable"]
    /\ Release(c)
    /\ UNCHANGED <<processVars, kwinVars, directory, file, renames>>

Rename(c) ==
    /\ At(c, "temporary", {"write"})
    /\ file' = Written(Snapshot(call[c].namespace, call[c].request.float,
                                call[c].request.tile))
    /\ temps' = temps \ {call[c].temp}
    /\ renames' = Append(renames, c)
    /\ call' = [call EXCEPT ![c].stage = "renamed", ![c].temp = 0]
    /\ UNCHANGED <<processVars, kwinVars, lockVars, directory>>

\* The renamed file is gated once more before success is reported.
Confirm(c) ==
    /\ At(c, "renamed", {"write"})
    /\ \E answer \in {"stored", "store-unavailable"} : Answer(c, answer)
    /\ UNCHANGED <<processVars, kwinVars, diskVars>>

-----------------------------------------------------------------------------

Init ==
    /\ process = [p \in Planners |-> "unborn"]
    /\ pid = [p \in Planners |-> 0]
    /\ planner = [p \in Planners |-> "fresh"]
    /\ tempCounter = [p \in Planners |-> 0]
    /\ nameOwner = None
    /\ kwin = 1
    /\ kwinUp = TRUE
    /\ planLock = [p \in Planners |-> None]
    /\ intentLock = [p \in Planners |-> None]
    /\ call = [c \in Calls |-> Idle]
    /\ \/ /\ directory \in {"unset", "refused", "missing"}
          /\ file = Unwritten("absent")
       \/ /\ directory = "open"
          /\ file \in {Unwritten(kind) : kind \in {"absent", "foreign", "corrupt"}}
                     \cup {Written(Snapshot(0, float, {})) : float \in Capped}
    /\ temps = {}
    /\ renames = << >>

\* The steps of a call that the service takes by itself.
Serve(c) ==
    \/ Arrive(c) \/ VerifyCaller(c) \/ Evaluate(c) \/ Panic(c)
    \/ Authorize(c) \/ ReadIntent(c)
    \/ CreateTemp(c) \/ FailWrite(c) \/ Rename(c) \/ Confirm(c)

Next ==
    \/ \E p \in Planners : StartPlanner(p) \/ EndPlanner(p) \/ DropConnection(p)
    \/ StopKWin \/ StartKWin
    \/ \E c \in Calls, request \in Requests : Send(c, request)
    \/ \E c \in Calls : Serve(c)

Spec == Init /\ [][Next]_vars

\* Once a call has arrived nothing outside its process holds it up: the locks do
\* not queue and the bus answers its queries or fails them.
FairSpec == Spec /\ \A c \in Calls : WF_vars(Serve(c))
-----------------------------------------------------------------------------
(* Properties.                                                             *)

\* Every variable has its type; a snapshot on disk is within the caps
\* (parse_write_request, normalize_all).
TypeOK ==
    /\ process \in [Planners -> {"unborn", "serving", "dropped", "gone"}]
    /\ pid \in [Planners -> Pids \cup {0}]
    /\ planner \in [Planners -> {"fresh", "retained", "torn"}]
    /\ tempCounter \in [Planners -> Nat]
    /\ nameOwner \in Planners \cup {None}
    /\ kwin \in 1..MaxKWin
    /\ kwinUp \in BOOLEAN
    /\ planLock \in [Planners -> Calls \cup {None}]
    /\ intentLock \in [Planners -> Calls \cup {None}]
    /\ call \in [Calls ->
         [stage : {"idle", "sent"} \cup InService \cup Over,
          request : Requests \cup {None}, by : Planners \cup {None},
          kwin : 0..MaxKWin, namespace : 0..MaxKWin, temp : Nat,
          answer : Answers \cup {None}, float : SUBSET Windows, tile : SUBSET Windows,
          before : SUBSET Calls, sessions : {"fresh", "retained", "torn", None}]]
    /\ directory \in {"unset", "refused", "missing", "open"}
    /\ file \in Files
    /\ temps \in SUBSET Nat
    /\ renames \in Seq(Calls)

\* A lock is held exactly by the call in service under it: no early exit leaks
\* its guard, which would answer "busy" for ever after, and no two calls of a
\* kind are in service together (admit_intent_call, describe_plan).
Holds(c, p, methods) ==
    call[c].by = p /\ call[c].stage \in InService /\ call[c].request.method \in methods

LocksMatchCalls ==
    \A p \in Planners, c \in Calls :
        /\ planLock[p] = c <=> Holds(c, p, {"plan"})
        /\ intentLock[p] = c <=> Holds(c, p, {"read", "write"})

\* A snapshot on disk of this bus session is whole, disjoint and was sent by the
\* KWin it is filed under (authorize_intent_sender, write_both).
FileComesFromOwner ==
    file.kind = "snapshot" /\ file.snapshot.namespace # 0 =>
        /\ renames # << >>
        /\ LET w == call[renames[Len(renames)]]
           IN  /\ w.request.caller = "kwin"
               /\ file.snapshot = Snapshot(w.kwin, w.request.float, w.request.tile)
        /\ file.snapshot.float \cap file.snapshot.tile = {}

\* The temporary files on disk are those of calls that neither renamed nor removed
\* theirs, and no call ever works on a file another one created: what a crash
\* left behind is preserved even when a new process has the old process id
\* (temp_file_name, atomic_replace).
TempsAccounted ==
    /\ temps = {call[c].temp : c \in Calls} \ {0}
    /\ \A c, d \in Calls : c # d /\ call[c].temp # 0 => call[c].temp # call[d].temp

\* The files are what the calls made of them: the types and caps, the owner of the
\* final file, and whose each temporary file is (write_both, atomic_replace).
FilesAccounted == TypeOK /\ FileComesFromOwner /\ TempsAccounted

\* "stored" is only said of a snapshot that is durable, and a refusal only of one
\* that was not written; no call writes twice (write_float_intent).
AnswersTellTheTruth ==
    /\ \A c \in Calls :
        /\ call[c].answer = "stored"   => c \in Range(renames)
        /\ call[c].answer \in Refusals => c \notin Range(renames)
    /\ IsInjective(renames)

\* A write never overwrites the snapshot of a write that was sent when the first
\* was already over for its sender: answered, failed with its planner, or left
\* behind by a KWin that is gone.  The exception is a planner that outlives its
\* connection: its last write may come after one of its successor (intent_lock,
\* authorize_intent_sender).
WritesKeepOrder ==
    \A i, j \in DOMAIN renames :
        i < j /\ renames[j] \in call[renames[i]].before =>
            /\ call[renames[j]].by \in Lingering
            /\ call[renames[j]].by # call[renames[i]].by

\* A read answers, pruned to the live windows, one snapshot that the reader's own
\* KWin session wrote, or nothing, and never one older than a write that had
\* been acknowledged when the read was sent (read_filtered, parse_store_bytes).
Reads(c, i) ==
    IF i = 0 THEN call[c].float = {} /\ call[c].tile = {}
    ELSE LET w == call[renames[i]]
         IN  /\ w.kwin = call[c].kwin
             /\ call[c].float = w.request.float \cap call[c].request.float
             /\ call[c].tile = w.request.tile \cap call[c].request.float

ReadsReflectWrites ==
    \A c \in Calls :
        call[c].request # None /\ call[c].answer = "ok" =>
            \E i \in 0..Len(renames) :
                /\ Reads(c, i)
                /\ \A j \in i + 1 .. Len(renames) :
                      ~(/\ renames[j] \in call[c].before
                        /\ call[renames[j]].stage = "answered"
                        /\ call[renames[j]].answer = "stored")

\* The snapshots are replaced in the order of the calls, and no read goes back
\* behind what its caller was told (intent_lock, atomic_replace, read_filtered).
SnapshotsInOrder == WritesKeepOrder /\ ReadsReflectWrites

\* An intent call never makes a plan busy (planner_service.rs:150): a plan is
\* turned away only while another plan is in service at that planner.
PlanBusyOnlyByPlan ==
    [][\A c \in Calls :
          call[c].stage = "sent" /\ call'[c].answer = "busy"
            /\ call[c].request.method = "plan" =>
          \E d \in Calls : Holds(d, call[c].by, {"plan"})]_vars

\* Sessions that a panic left half changed are never planned with
\* (evaluate_plan_request).
TornSessionsNeverUsed == \A c \in Calls : call[c].sessions # "torn"

\* No early exit leaks the guard of its route or keeps what a panic tore
\* (planner_service.rs:158-175, :190-214).
GuardsReleased == LocksMatchCalls /\ TornSessionsNeverUsed

\* Every call that reaches a planner comes to an end, whatever KWin and the bus do
\* meanwhile: nothing waits in a queue or for a peer that has gone.
CallsEnd == \A c \in Calls : call[c].stage \notin {"idle"} ~> call[c].stage \in Over
=============================================================================
