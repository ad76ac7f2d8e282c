------------------------ MODULE PlannerServiceProofs ------------------------
(***************************************************************************)
(* Theorems about the planner service, for every set of processes, calls,  *)
(* windows and requests and every number of KWin incarnations: what is     *)
(* said of the locks, the temporary files, the final file, the answers and *)
(* the order of writes and reads.                                          *)
(*                                                                         *)
(* A step of the service changes one call, so most of the invariant is     *)
(* about one call at a time and rests on what its stage says of it.  What  *)
(* relates two calls is that the locks exclude each other and that a call  *)
(* of the past of another can only still write while it holds the lock.    *)
(***************************************************************************)
EXTENDS PlannerService, FiniteSetTheorems, SequenceTheorems, TLAPS

-----------------------------------------------------------------------------
(* The inductive invariant.                                                *)

NotWritten == {"idle", "sent", "admitted", "verified", "authorized", "temporary"}

\* What its stage says of a call.
StageTells(c) ==
    LET k == call[c]
    IN  /\ k.stage # "idle" =>
              /\ k.request \in Requests /\ k.by \in Planners
              /\ k.kwin # 0 => k.request.caller = "kwin"
              /\ k.kwin <= kwin
        /\ k.stage = "sent" \/ k.stage \in InService => Running(k.by)
        /\ k.stage \in NotWritten \ {"temporary"} => k.temp = 0
        /\ k.stage \in {"authorized", "temporary", "renamed"} =>
              /\ k.request.method \in {"read", "write"} /\ k.request.caller = "kwin"
              /\ ~OverCount(k.request) /\ k.namespace = k.kwin /\ k.kwin # 0
        /\ k.stage = "temporary" =>
              k.request.float \cap k.request.tile = {} /\ directory = "open"
        /\ k.stage \in NotWritten => k.answer = None /\ c \notin Range(renames)
        /\ k.stage = "renamed" => k.answer = None /\ c \in Range(renames)

\* Who serves owns the name, and a process that runs has an id.
ProcessesNamed ==
    \A p \in Planners : /\ nameOwner = p <=> process[p] = "serving"
                        /\ Running(p) => pid[p] \in Pids
                        /\ process[p] = "dropped" => p \in Lingering

\* The file is whole once anything was renamed, and then the directory is there.
RenamesLeaveAFile ==
    renames # << >> => file.kind = "snapshot" /\ directory = "open"

\* What the past of a call can still do: a call that holds the lock keeps out the
\* ones sent to the same planner, and one of a KWin that is gone is never authorized.
Kept(c) ==
    /\ call[c].request.method # "plan" => call[c].stage \in {"sent"} \cup Over
    /\ c \notin Range(renames)
    /\ call[c].answer # "ok"

PastIsDone ==
    \A c \in Calls : \A d \in call[c].before :
        /\ call[d].stage # "idle" /\ call[c].stage # "idle"
        /\ call[d].by # call[c].by =>
              call[d].stage \in Over \/ process[call[d].by] = "dropped"
        /\ call[d].by = call[c].by /\ call[d].stage \in {"sent", "admitted", "verified"} =>
              call[d].request.caller = "kwin" /\ ~CallerConnected(d)
        /\ call[d].by = call[c].by /\ call[d].stage \in {"authorized", "temporary", "renamed"} =>
              Kept(c)

Inv ==
    /\ TypeOK
    /\ \A c \in Calls : StageTells(c)
    /\ LocksMatchCalls
    /\ TempsAccounted
    /\ FileComesFromOwner
    /\ AnswersTellTheTruth
    /\ ProcessesNamed
    /\ RenamesLeaveAFile
    /\ PastIsDone
    /\ SnapshotsInOrder
    /\ TornSessionsNeverUsed

-----------------------------------------------------------------------------
(* Steps of the service.                                                   *)

CallType ==
    [stage : {"idle", "sent"} \cup InService \cup Over,
     request : Requests \cup {None}, by : Planners \cup {None},
     kwin : 0..MaxKWin, namespace : 0..MaxKWin, temp : Nat,
     answer : Answers \cup {None}, float : SUBSET Windows, tile : SUBSET Windows,
     before : SUBSET Calls, sessions : {"fresh", "retained", "torn", None}]

\* What a step of the service changes in a call is its progress, and in no other
\* call anything.
Alone(c) ==
    /\ call' \in [Calls -> CallType]
    /\ \A d \in Calls \ {c} : call'[d] = call[d]
    /\ call'[c].request = call[c].request /\ call'[c].by = call[c].by
    /\ call'[c].kwin = call[c].kwin /\ call'[c].before = call[c].before

Leaves(c) ==
    /\ Alone(c) /\ Running(call[c].by)
    /\ call'[c].stage \in {"answered", "undelivered"}
    /\ call'[c].stage = "answered" => process[call[c].by] = "serving"
    /\ call'[c].namespace = call[c].namespace
    /\ Release(c)

\* The effects.
Refuses(c) ==
    /\ Leaves(c)
    /\ call[c].stage \in {"sent", "admitted", "verified", "authorized"}
    /\ call'[c].answer \notin {"ok", "stored"}
    /\ call'[c].answer = "busy" => call[c].stage = "sent" /\ LockOf(c) # None
    /\ call'[c].temp = call[c].temp
    /\ call'[c].sessions = call[c].sessions
    /\ directory' \in {directory, "open"} /\ tempCounter' \in [Planners -> Nat]
    /\ UNCHANGED <<process, pid, planner, nameOwner, kwinVars, file, temps, renames>>

Admits(c) ==
    /\ Alone(c) /\ Running(call[c].by)
    /\ call[c].stage = "sent" /\ call'[c].stage = "admitted"
    /\ LockOf(c) = None
    /\ IF call[c].request.method = "plan"
       THEN planLock' = [planLock EXCEPT ![call[c].by] = c] /\ UNCHANGED intentLock
       ELSE intentLock' = [intentLock EXCEPT ![call[c].by] = c] /\ UNCHANGED planLock
    /\ UNCHANGED <<call[c].namespace, call[c].temp, call[c].answer, call[c].sessions>>
    /\ UNCHANGED <<processVars, kwinVars, diskVars>>

Verifies(c) ==
    /\ Alone(c) /\ Running(call[c].by)
    /\ call[c].stage = "admitted" /\ call'[c].stage = "verified"
    /\ UNCHANGED <<call[c].namespace, call[c].temp, call[c].answer, call[c].sessions>>
    /\ UNCHANGED <<processVars, kwinVars, lockVars, diskVars>>

Plans(c) ==
    /\ Alone(c) /\ Running(call[c].by) /\ Release(c)
    /\ call[c].stage = "verified" /\ call[c].request.method = "plan"
    /\ \/ /\ call'[c].stage \in {"answered", "undelivered"}
          /\ call'[c].answer \in {"planned", "reply-too-long"}
          /\ call'[c].sessions = SessionsFor(call[c].by)
       \/ /\ call'[c].stage = "lost"
          /\ UNCHANGED <<call[c].answer, call[c].sessions>>
    /\ UNCHANGED <<call[c].namespace, call[c].temp>>
    /\ planner' \in [Planners -> {"fresh", "retained", "torn"}]
    /\ UNCHANGED <<process, pid, tempCounter, nameOwner, kwinVars, diskVars>>

Authorizes(c) ==
    /\ Alone(c) /\ Running(call[c].by)
    /\ call[c].stage = "verified" /\ call'[c].stage = "authorized"
    /\ call[c].request.method \in {"read", "write"} /\ ~OverCount(call[c].request)
    /\ kwinUp /\ call[c].kwin = kwin /\ call'[c].namespace = kwin
    /\ UNCHANGED <<call[c].temp, call[c].answer, call[c].sessions>>
    /\ UNCHANGED <<processVars, kwinVars, lockVars, diskVars>>

Reports(c) ==
    /\ Leaves(c)
    /\ call[c].stage = "authorized" /\ call[c].request.method = "read"
    /\ call'[c].answer = "ok"
    /\ \/ /\ directory = "missing" \/ file.kind = "absent"
          /\ call'[c].float = {} /\ call'[c].tile = {}
       \/ /\ file.kind = "snapshot" /\ SameNamespace(c)
          /\ call'[c].float = file.snapshot.float \cap call[c].request.float
          /\ call'[c].tile = file.snapshot.tile \cap call[c].request.float
    /\ UNCHANGED <<call[c].temp, call[c].sessions>>
    /\ UNCHANGED <<processVars, kwinVars, diskVars>>

Creates(c) ==
    /\ Alone(c) /\ Running(call[c].by)
    /\ call[c].stage = "authorized" /\ call'[c].stage = "temporary"
    /\ call[c].request.method = "write"
    /\ call[c].request.float \cap call[c].request.tile = {}
    /\ directory' = "open" /\ tempCounter' \in [Planners -> Nat]
    /\ call'[c].temp = TempName(pid[call[c].by], tempCounter[call[c].by])
    /\ ~Occupied(call'[c].temp) /\ temps' = temps \cup {call'[c].temp}
    /\ UNCHANGED <<call[c].namespace, call[c].answer, call[c].sessions>>
    /\ UNCHANGED <<process, pid, planner, nameOwner, kwinVars, lockVars, file, renames>>

Fails(c) ==
    /\ Leaves(c)
    /\ call[c].stage = "temporary"
    /\ call'[c].answer = "store-unavailable"
    /\ call'[c].temp = 0 /\ temps' = temps \ {call[c].temp}
    /\ UNCHANGED call[c].sessions
    /\ UNCHANGED <<processVars, kwinVars, directory, file, renames>>

Replaces(c) ==
    /\ Alone(c) /\ Running(call[c].by)
    /\ call[c].stage = "temporary" /\ call'[c].stage = "renamed"
    /\ call[c].request.method = "write"
    /\ file' = Written(Snapshot(call[c].namespace, call[c].request.float,
                                call[c].request.tile))
    /\ renames' = Append(renames, c)
    /\ call'[c].temp = 0 /\ temps' = temps \ {call[c].temp}
    /\ UNCHANGED <<call[c].namespace, call[c].answer, call[c].sessions>>
    /\ UNCHANGED <<processVars, kwinVars, lockVars, directory>>

Confirms(c) ==
    /\ Leaves(c)
    /\ call[c].stage = "renamed" /\ call[c].request.method = "write"
    /\ call'[c].answer \in {"stored", "store-unavailable"}
    /\ UNCHANGED <<call[c].temp, call[c].sessions>>
    /\ UNCHANGED <<processVars, kwinVars, diskVars>>

\* Outside the service: a call is sent, a process ends.
Sends(c, request) ==
    /\ call' \in [Calls -> CallType]
    /\ \A d \in Calls \ {c} : call'[d] = call[d]
    /\ call[c].stage = "idle" /\ call'[c].stage = "sent"
    /\ call'[c].request = request /\ call'[c].by = nameOwner /\ nameOwner # None
    /\ call'[c].kwin = (IF request.caller = "kwin" THEN kwin ELSE 0)
    /\ request.caller = "kwin" => kwinUp
    /\ call'[c].temp = 0 /\ call'[c].answer = None /\ call'[c].sessions = None
    /\ call'[c].before = Past
    /\ UNCHANGED <<processVars, kwinVars, lockVars, diskVars>>

Ends(p) ==
    /\ Running(p) /\ process' = [process EXCEPT ![p] = "gone"]
    /\ nameOwner' = IF nameOwner = p THEN None ELSE nameOwner
    /\ planLock' = [planLock EXCEPT ![p] = None]
    /\ intentLock' = [intentLock EXCEPT ![p] = None]
    /\ call' \in [Calls -> CallType]
    /\ \A c \in Calls :
          /\ call'[c].request = call[c].request /\ call'[c].by = call[c].by
          /\ call'[c].kwin = call[c].kwin /\ call'[c].before = call[c].before
          /\ call'[c].namespace = call[c].namespace /\ call'[c].temp = call[c].temp
          /\ call'[c].answer = call[c].answer /\ call'[c].sessions = call[c].sessions
          /\ call'[c].float = call[c].float /\ call'[c].tile = call[c].tile
          /\ IF call[c].by = p /\ call[c].stage \in InService \cup {"sent"}
             THEN call'[c].stage = "lost" ELSE call'[c].stage = call[c].stage
    /\ UNCHANGED <<pid, planner, tempCounter, kwinVars, diskVars>>

\* A call that leaves is over.
LEMMA EndedIsOver ==
    ASSUME NEW c
    PROVE  /\ Ended(c) \in {"answered", "undelivered"}
           /\ Ended(c) = "answered" => process[call[c].by] = "serving"
BY DEF Ended

\* A side within the caps, and what is common to it and another, is a side.
LEMMA CappedSides ==
    ASSUME Assumption, NEW side \in SUBSET Windows
    PROVE  /\ ~(Cardinality(side) > MaxMembers) => side \in Capped
           /\ {} \in Capped
<1>1. IsFiniteSet(side) /\ Cardinality(side) \in Nat
    BY FS_Subset, FS_CardinalityType DEF Assumption
<1>2. Cardinality({}) = 0
    BY FS_EmptySet
<1> QED BY <1>1, <1>2 DEF Capped, Assumption

\* The variables start within their types.
LEMMA InitTypeOK == Assumption /\ Init => TypeOK
<1> SUFFICES ASSUME Assumption, Init PROVE TypeOK
    OBVIOUS
<1>1. Idle \in CallType
    BY DEF Idle, CallType, Assumption
<1>2. call \in [Calls -> CallType]
    BY <1>1 DEF Init
<1>3. Snapshot(0, {}, {}) \in Snapshots
    BY CappedSides DEF Snapshot, Snapshots, Assumption
<1>4. \A float \in Capped : Snapshot(0, float, {}) \in Snapshots
    BY CappedSides DEF Snapshot, Snapshots, Assumption
<1>5. file \in Files
    BY <1>3, <1>4 DEF Init, Files, Unwritten, Written
<1>6. kwin \in 1..MaxKWin
    BY DEF Init, Assumption
<1>7. renames \in Seq(Calls)
    BY DEF Init
<1> QED BY <1>2, <1>5, <1>6, <1>7 DEF Init, TypeOK, CallType

-----------------------------------------------------------------------------
(* Each action has its effect.                                             *)

\* A call is a record of the call type.
LEMMA CallsTyped == TypeOK => call \in [Calls -> CallType]
BY DEF TypeOK, CallType

\* Replacing one call by a call of the same identity.
LEMMA Replacing ==
    ASSUME TypeOK, NEW c \in Calls, NEW r \in CallType,
           r.request = call[c].request, r.by = call[c].by, r.kwin = call[c].kwin,
           r.before = call[c].before, call' = [call EXCEPT ![c] = r]
    PROVE  Alone(c) /\ call'[c] = r
BY CallsTyped DEF Alone

\* An answer ends the call and releases its lock.
LEMMA Answering ==
    ASSUME TypeOK, NEW c \in Calls, NEW a \in Answers, Running(call[c].by), Answer(c, a)
    PROVE  /\ Leaves(c) /\ call'[c].answer = a
           /\ UNCHANGED <<call[c].temp, call[c].sessions>>
<1> DEFINE r == [call[c] EXCEPT !.stage = Ended(c), !.answer = a]
<1>1. call' = [call EXCEPT ![c] = r] /\ Release(c)
    BY DEF Answer
<1>2. call[c] \in CallType
    BY CallsTyped
<1>3. /\ r \in CallType /\ r.stage = Ended(c) /\ r.answer = a
      /\ r.request = call[c].request /\ r.by = call[c].by /\ r.kwin = call[c].kwin
      /\ r.before = call[c].before /\ r.temp = call[c].temp
      /\ r.sessions = call[c].sessions /\ r.namespace = call[c].namespace
    BY <1>2, EndedIsOver DEF CallType, Over
<1> HIDE DEF r
<1>4. Alone(c) /\ call'[c] = r
    BY <1>1, <1>3, Replacing
<1> QED BY <1>1, <1>3, <1>4, EndedIsOver DEF Leaves

\* A call that goes on keeps what it was asked and told.
LEMMA Advancing ==
    ASSUME TypeOK, NEW c \in Calls, NEW stage \in InService,
           call' = [call EXCEPT ![c].stage = stage]
    PROVE  /\ Alone(c) /\ call'[c].stage = stage
           /\ UNCHANGED <<call[c].namespace, call[c].temp, call[c].answer, call[c].sessions>>
<1> DEFINE r == [call[c] EXCEPT !.stage = stage]
<1>1. call' = [call EXCEPT ![c] = r]
    OBVIOUS
<1>2. call[c] \in CallType
    BY CallsTyped
<1>3. /\ r \in CallType /\ r.stage = stage /\ r.answer = call[c].answer
      /\ r.request = call[c].request /\ r.by = call[c].by /\ r.kwin = call[c].kwin
      /\ r.before = call[c].before /\ r.temp = call[c].temp
      /\ r.sessions = call[c].sessions /\ r.namespace = call[c].namespace
    BY <1>2 DEF CallType
<1> HIDE DEF r
<1> QED BY <1>1, <1>3, Replacing

\* Admission refuses or takes the lock.
LEMMA ArriveEffect ==
    ASSUME TypeOK, NEW c \in Calls, Arrive(c)
    PROVE  Refuses(c) \/ Admits(c)
<1>1. /\ call[c].stage = "sent" /\ Running(call[c].by)
      /\ UNCHANGED <<processVars, kwinVars, diskVars>>
    BY DEF Arrive, At
<1>2. ASSUME NEW a \in {"busy", "oversize", "closed"}, Answer(c, a),
             a = "busy" => LockOf(c) # None
      PROVE  Refuses(c)
    <2>1. Leaves(c) /\ call'[c].answer = a /\ UNCHANGED <<call[c].temp, call[c].sessions>>
        BY <1>1, <1>2, Answering DEF Answers
    <2> QED BY <1>1, <1>2, <2>1 DEF Refuses, processVars, kwinVars, diskVars, TypeOK
<1>3. ASSUME call' = [call EXCEPT ![c].stage = "admitted"]
      PROVE  /\ Alone(c) /\ call'[c].stage = "admitted"
             /\ UNCHANGED <<call[c].namespace, call[c].temp, call[c].answer, call[c].sessions>>
    BY <1>3, Advancing DEF InService
<1> QED BY <1>1, <1>2, <1>3 DEF Arrive, Admits

\* The uid query refuses or lets the call go on.
LEMMA VerifyCallerEffect ==
    ASSUME TypeOK, NEW c \in Calls, VerifyCaller(c)
    PROVE  Refuses(c) \/ Verifies(c)
<1>1. /\ call[c].stage = "admitted" /\ Running(call[c].by)
      /\ UNCHANGED <<processVars, kwinVars, diskVars>>
    BY DEF VerifyCaller, At
<1>2. CASE Advance(c, "verified")
    BY <1>1, <1>2, Advancing DEF Advance, InService, Verifies
<1>3. CASE Answer(c, "unauthorized")
    BY <1>1, <1>3, Answering DEF Answers, Refuses, processVars, kwinVars, diskVars, TypeOK
<1> QED BY <1>2, <1>3 DEF VerifyCaller

\* A plan is answered or lost to a panic, and its lock is free again.
LEMMA EvaluateEffect ==
    ASSUME TypeOK, NEW c \in Calls, call[c].by \in Planners, Evaluate(c) \/ Panic(c)
    PROVE  Plans(c)
<1>1. call[c].stage = "verified" /\ call[c].request.method = "plan"
    BY DEF Evaluate, Panic, At
<1>2. /\ Running(call[c].by) /\ Release(c) /\ call[c] \in CallType
      /\ UNCHANGED <<process, pid, tempCounter, nameOwner, kwinVars, diskVars>>
    BY CallsTyped DEF Evaluate, Panic, At
<1>3. planner' \in [Planners -> {"fresh", "retained", "torn"}]
    BY DEF Evaluate, Panic, TypeOK
<1>4. CASE Evaluate(c)
    <2>1. PICK answer \in {"planned", "reply-too-long"} :
             call' = [call EXCEPT ![c].stage = Ended(c), ![c].answer = answer,
                                  ![c].sessions = SessionsFor(call[c].by)]
        BY <1>4 DEF Evaluate
    <2> DEFINE r == [call[c] EXCEPT !.stage = Ended(c), !.answer = answer,
                                    !.sessions = SessionsFor(call[c].by)]
    <2>2. call' = [call EXCEPT ![c] = r]
        BY <2>1
    <2>3. SessionsFor(call[c].by) \in {"fresh", "retained", "torn", None}
        BY <1>2 DEF SessionsFor, TypeOK, Running, CallType
    <2>4. /\ r \in CallType /\ r.stage = Ended(c) /\ r.answer = answer
          /\ r.request = call[c].request /\ r.by = call[c].by /\ r.kwin = call[c].kwin
          /\ r.before = call[c].before /\ r.temp = call[c].temp
          /\ r.sessions = SessionsFor(call[c].by) /\ r.namespace = call[c].namespace
        BY <1>2, <2>1, <2>3, EndedIsOver DEF CallType, Over, Answers
    <2> HIDE DEF r
    <2>5. Alone(c) /\ call'[c] = r
        BY <2>2, <2>4, Replacing
    <2> QED BY <1>1, <1>2, <1>3, <2>1, <2>4, <2>5, EndedIsOver DEF Plans
<1>5. CASE Panic(c)
    <2> DEFINE r == [call[c] EXCEPT !.stage = "lost"]
    <2>1. call' = [call EXCEPT ![c] = r]
        BY <1>5 DEF Panic
    <2>2. /\ r \in CallType /\ r.stage = "lost" /\ r.answer = call[c].answer
          /\ r.request = call[c].request /\ r.by = call[c].by /\ r.kwin = call[c].kwin
          /\ r.before = call[c].before /\ r.temp = call[c].temp
          /\ r.sessions = call[c].sessions /\ r.namespace = call[c].namespace
        BY <1>2 DEF CallType, Over
    <2> HIDE DEF r
    <2>3. Alone(c) /\ call'[c] = r
        BY <2>1, <2>2, Replacing
    <2> QED BY <1>1, <1>2, <1>3, <2>2, <2>3 DEF Plans
<1> QED BY <1>4, <1>5

\* A sender is refused, or is the KWin that is up and within the caps.
LEMMA AuthorizeEffect ==
    ASSUME TypeOK, NEW c \in Calls, call[c].request \in Request, Authorize(c)
    PROVE  Refuses(c) \/ Authorizes(c)
<1>1. /\ call[c].stage = "verified" /\ Running(call[c].by)
      /\ call[c].request.method \in {"read", "write"}
      /\ UNCHANGED <<processVars, kwinVars, diskVars>>
    BY DEF Authorize, At
<1> DEFINE refusals == {"invalid-request", "invalid-members", "namespace-unavailable",
                        "not-kwin-owner"}
<1>2. \/ \E refusal \in refusals : Answer(c, refusal)
      \/ /\ call' = [call EXCEPT ![c].stage = "authorized", ![c].namespace = kwin]
         /\ ~OverCount(call[c].request) /\ kwinUp /\ AuthorizesSender(c)
         /\ UNCHANGED lockVars
    <2>1. ASSUME NEW answer, Refused(c, answer) PROVE answer \in refusals
        BY <2>1 DEF Refused
    <2>2. ASSUME \A answer \in Refusals : ~Refused(c, answer)
          PROVE  ~OverCount(call[c].request) /\ kwinUp /\ AuthorizesSender(c)
        BY <1>1, <2>2 DEF Refused, Refusals
    <2> QED BY <2>1, <2>2 DEF Authorize
<1>3. ASSUME NEW refusal \in refusals, Answer(c, refusal)
      PROVE  Refuses(c)
    <2>1. refusal \in Answers
        BY <1>3 DEF Answers
    <2>2. Leaves(c) /\ call'[c].answer = refusal /\ UNCHANGED <<call[c].temp, call[c].sessions>>
        BY <1>1, <1>3, <2>1, Answering
    <2> QED BY <1>1, <1>3, <2>2 DEF Refuses, processVars, kwinVars, diskVars, TypeOK
<1>4. ASSUME call' = [call EXCEPT ![c].stage = "authorized", ![c].namespace = kwin],
             ~OverCount(call[c].request), kwinUp, AuthorizesSender(c), UNCHANGED lockVars
      PROVE  Authorizes(c)
    <2> DEFINE r == [call[c] EXCEPT !.stage = "authorized", !.namespace = kwin]
    <2>1. call' = [call EXCEPT ![c] = r]
        BY <1>4
    <2>2. call[c] \in CallType /\ kwin \in 0..MaxKWin
        BY CallsTyped DEF TypeOK
    <2>3. /\ r \in CallType /\ r.stage = "authorized" /\ r.answer = call[c].answer
          /\ r.request = call[c].request /\ r.by = call[c].by /\ r.kwin = call[c].kwin
          /\ r.before = call[c].before /\ r.temp = call[c].temp
          /\ r.sessions = call[c].sessions /\ r.namespace = kwin
        BY <2>2 DEF CallType, InService
    <2> HIDE DEF r
    <2>4. Alone(c) /\ call'[c] = r
        BY <2>1, <2>3, Replacing
    <2> QED BY <1>1, <1>4, <2>3, <2>4 DEF Authorizes, AuthorizesSender
<1> QED BY <1>2, <1>3, <1>4

\* A read is refused, or reports nothing or what the file of its session has.
LEMMA ReadIntentEffect ==
    ASSUME TypeOK, NEW c \in Calls, call[c].request \in Request, ReadIntent(c)
    PROVE  Refuses(c) \/ Reports(c)
<1>1. /\ call[c].stage = "authorized" /\ Running(call[c].by)
      /\ call[c].request.method = "read"
      /\ UNCHANGED <<processVars, kwinVars, diskVars>>
    BY DEF ReadIntent, At
<1> DEFINE refusals == {"namespace-unavailable", "unreadable", "corrupt",
                        "namespace-mismatch"}
<1>2. \/ \E refusal \in refusals : Answer(c, refusal)
      \/ /\ directory = "missing" \/ file.kind = "absent"
         /\ AnswerMembers(c, {}, {})
      \/ /\ file.kind = "snapshot" /\ SameNamespace(c)
         /\ AnswerMembers(c, file.snapshot.float \cap call[c].request.float,
                             file.snapshot.tile \cap call[c].request.float)
    BY DEF ReadIntent, TypeOK, Files
<1>3. ASSUME NEW refusal \in refusals, Answer(c, refusal)
      PROVE  Refuses(c)
    <2>1. refusal \in Answers
        BY <1>3 DEF Answers
    <2>2. Leaves(c) /\ call'[c].answer = refusal /\ UNCHANGED <<call[c].temp, call[c].sessions>>
        BY <1>1, <1>3, <2>1, Answering
    <2> QED BY <1>1, <1>3, <2>2 DEF Refuses, processVars, kwinVars, diskVars, TypeOK
<1>4. ASSUME NEW float \in SUBSET Windows, NEW tile \in SUBSET Windows,
             AnswerMembers(c, float, tile)
      PROVE  /\ Leaves(c) /\ call'[c].answer = "ok"
             /\ call'[c].float = float /\ call'[c].tile = tile
             /\ UNCHANGED <<call[c].temp, call[c].sessions>>
    <2> DEFINE r == [call[c] EXCEPT !.stage = Ended(c), !.answer = "ok",
                                    !.float = float, !.tile = tile]
    <2>1. call' = [call EXCEPT ![c] = r] /\ Release(c)
        BY <1>4 DEF AnswerMembers
    <2>2. call[c] \in CallType
        BY CallsTyped
    <2>3. /\ r \in CallType /\ r.stage = Ended(c) /\ r.answer = "ok"
          /\ r.float = float /\ r.tile = tile
          /\ r.request = call[c].request /\ r.by = call[c].by /\ r.kwin = call[c].kwin
          /\ r.before = call[c].before /\ r.temp = call[c].temp
          /\ r.sessions = call[c].sessions /\ r.namespace = call[c].namespace
        BY <2>2, EndedIsOver DEF CallType, Over, Answers
    <2> HIDE DEF r
    <2>4. Alone(c) /\ call'[c] = r
        BY <2>1, <2>3, Replacing
    <2> QED BY <1>1, <2>1, <2>3, <2>4, EndedIsOver DEF Leaves
<1>5. /\ file.snapshot.float \cap call[c].request.float \in SUBSET Windows
      /\ file.snapshot.tile \cap call[c].request.float \in SUBSET Windows
    BY DEF Request
<1> HIDE DEF refusals
<1> QED BY <1>1, <1>2, <1>3, <1>4, <1>5 DEF Reports

\* A write is refused, or has a temporary file nobody had.
LEMMA CreateTempEffect ==
    ASSUME TypeOK, NEW c \in Calls, call[c].by \in Planners,
           pid[call[c].by] \in Nat, CreateTemp(c)
    PROVE  Refuses(c) \/ Creates(c)
<1> DEFINE p == call[c].by
           name == TempName(pid[p], tempCounter[p])
<1>1. /\ call[c].stage = "authorized" /\ Running(p)
      /\ call[c].request.method = "write"
      /\ UNCHANGED <<process, pid, planner, nameOwner, kwinVars>>
    BY DEF CreateTemp, At
<1>2. tempCounter \in [Planners -> Nat]
    BY DEF TypeOK
<1> DEFINE refusals == {"invalid-members", "namespace-unavailable", "store-unavailable"}
<1>3. \/ /\ \E refusal \in refusals : Answer(c, refusal)
         /\ directory' \in {directory, "open"} /\ tempCounter' \in [Planners -> Nat]
         /\ UNCHANGED <<file, temps, renames>>
      \/ /\ call[c].request.float \cap call[c].request.tile = {}
         /\ directory' = "open" /\ tempCounter' \in [Planners -> Nat]
         /\ ~Occupied(name) /\ temps' = temps \cup {name}
         /\ call' = [call EXCEPT ![c].stage = "temporary", ![c].temp = name]
         /\ UNCHANGED <<lockVars, file, renames>>
    <2> HIDE DEF name
    <2>1. ASSUME tempCounter' = [tempCounter EXCEPT ![p] = @ + 1]
          PROVE  tempCounter' \in [Planners -> Nat]
        BY <1>2, <2>1
    <2> QED BY <1>2, <2>1 DEF CreateTemp, diskVars, name
<1>4. ASSUME NEW refusal \in refusals, Answer(c, refusal),
             directory' \in {directory, "open"}, tempCounter' \in [Planners -> Nat],
             UNCHANGED <<file, temps, renames>>
      PROVE  Refuses(c)
    <2>1. refusal \in Answers
        BY <1>4 DEF Answers
    <2>2. Leaves(c) /\ call'[c].answer = refusal /\ UNCHANGED <<call[c].temp, call[c].sessions>>
        BY <1>1, <1>4, <2>1, Answering
    <2> QED BY <1>1, <1>4, <2>2 DEF Refuses
<1>5. ASSUME call[c].request.float \cap call[c].request.tile = {},
             directory' = "open", tempCounter' \in [Planners -> Nat],
             ~Occupied(name), temps' = temps \cup {name},
             call' = [call EXCEPT ![c].stage = "temporary", ![c].temp = name],
             UNCHANGED <<lockVars, file, renames>>
      PROVE  Creates(c)
    <2>1. name \in Nat
        BY <1>2 DEF TempName
    <2> HIDE DEF name
    <2> DEFINE r == [call[c] EXCEPT !.stage = "temporary", !.temp = name]
    <2>2. call' = [call EXCEPT ![c] = r]
        BY <1>5
    <2>3. call[c] \in CallType
        BY CallsTyped
    <2>4. /\ r \in CallType /\ r.stage = "temporary" /\ r.answer = call[c].answer
          /\ r.request = call[c].request /\ r.by = call[c].by /\ r.kwin = call[c].kwin
          /\ r.before = call[c].before /\ r.temp = name
          /\ r.sessions = call[c].sessions /\ r.namespace = call[c].namespace
        BY <2>1, <2>3 DEF CallType, InService
    <2> HIDE DEF r
    <2>5. Alone(c) /\ call'[c] = r
        BY <2>2, <2>4, Replacing
    <2> QED BY <1>1, <1>5, <2>4, <2>5 DEF Creates, name
<1> HIDE DEF refusals, name
<1> QED BY <1>3, <1>4, <1>5

\* A failed write removes its temporary file.
LEMMA FailWriteEffect ==
    ASSUME TypeOK, NEW c \in Calls, FailWrite(c)
    PROVE  Fails(c)
<1> DEFINE r == [call[c] EXCEPT !.stage = Ended(c), !.temp = 0,
                                !.answer = "store-unavailable"]
<1>1. /\ call[c].stage = "temporary" /\ Running(call[c].by) /\ Release(c)
      /\ temps' = temps \ {call[c].temp} /\ call' = [call EXCEPT ![c] = r]
      /\ UNCHANGED <<processVars, kwinVars, directory, file, renames>>
    BY DEF FailWrite, At
<1>2. call[c] \in CallType
    BY CallsTyped
<1>3. /\ r \in CallType /\ r.stage = Ended(c) /\ r.answer = "store-unavailable"
      /\ r.request = call[c].request /\ r.by = call[c].by /\ r.kwin = call[c].kwin
      /\ r.before = call[c].before /\ r.temp = 0
      /\ r.sessions = call[c].sessions /\ r.namespace = call[c].namespace
    BY <1>2, EndedIsOver DEF CallType, Over, Answers
<1> HIDE DEF r
<1>4. Alone(c) /\ call'[c] = r
    BY <1>1, <1>3, Replacing
<1> QED BY <1>1, <1>3, <1>4, EndedIsOver DEF Leaves, Fails

\* A rename puts the whole snapshot in place and is recorded.
LEMMA RenameEffect ==
    ASSUME TypeOK, NEW c \in Calls, Rename(c)
    PROVE  Replaces(c)
<1> DEFINE r == [call[c] EXCEPT !.stage = "renamed", !.temp = 0]
<1>1. /\ call[c].stage = "temporary" /\ Running(call[c].by)
      /\ call[c].request.method = "write"
      /\ call' = [call EXCEPT ![c] = r]
    BY DEF Rename, At
<1>2. call[c] \in CallType
    BY CallsTyped
<1>3. /\ r \in CallType /\ r.stage = "renamed" /\ r.answer = call[c].answer
      /\ r.request = call[c].request /\ r.by = call[c].by /\ r.kwin = call[c].kwin
      /\ r.before = call[c].before /\ r.temp = 0
      /\ r.sessions = call[c].sessions /\ r.namespace = call[c].namespace
    BY <1>2 DEF CallType, InService
<1> HIDE DEF r
<1>4. Alone(c) /\ call'[c] = r
    BY <1>1, <1>3, Replacing
<1> QED BY <1>1, <1>3, <1>4 DEF Rename, Replaces

\* After the rename the write is answered.
LEMMA ConfirmEffect ==
    ASSUME TypeOK, NEW c \in Calls, Confirm(c)
    PROVE  Confirms(c)
<1>1. /\ call[c].stage = "renamed" /\ Running(call[c].by)
      /\ call[c].request.method = "write"
      /\ UNCHANGED <<processVars, kwinVars, diskVars>>
    BY DEF Confirm, At
<1>2. PICK a \in {"stored", "store-unavailable"} : Answer(c, a)
    BY DEF Confirm
<1>3. Leaves(c) /\ call'[c].answer = a /\ UNCHANGED <<call[c].temp, call[c].sessions>>
    BY <1>1, <1>2, Answering DEF Answers
<1> QED BY <1>1, <1>2, <1>3 DEF Confirms

\* What the service does with a call.
Effect(c) ==
    \/ Refuses(c) \/ Admits(c) \/ Verifies(c) \/ Plans(c) \/ Authorizes(c)
    \/ Reports(c) \/ Creates(c) \/ Fails(c) \/ Replaces(c) \/ Confirms(c)

\* Each step of a call has one of these effects.
LEMMA ServeEffect ==
    ASSUME Assumption, TypeOK, \A c \in Calls : StageTells(c), ProcessesNamed,
           NEW c \in Calls, Serve(c)
    PROVE  Effect(c)
<1>1. call[c].stage # "idle" /\ Running(call[c].by)
    BY DEF Serve, Arrive, VerifyCaller, Evaluate, Panic, Authorize, ReadIntent,
           CreateTemp, FailWrite, Rename, Confirm, At
<1>2. /\ call[c].request \in Request /\ call[c].by \in Planners
      /\ pid[call[c].by] \in Nat
    BY <1>1 DEF StageTells, ProcessesNamed, Assumption
<1> QED BY <1>2, ArriveEffect, VerifyCallerEffect, EvaluateEffect, AuthorizeEffect,
           ReadIntentEffect, CreateTempEffect, FailWriteEffect, RenameEffect,
           ConfirmEffect DEF Serve, Effect

\* A call is sent to the owner of the name, after the calls of its past.
LEMMA SendEffect ==
    ASSUME Assumption, TypeOK, NEW c \in Calls, NEW request \in Requests, Send(c, request)
    PROVE  Sends(c, request)
<1> DEFINE r == [Idle EXCEPT !.stage = "sent", !.request = request, !.by = nameOwner,
                             !.kwin = IF request.caller = "kwin" THEN kwin ELSE 0,
                             !.before = Past]
<1>1. call' = [call EXCEPT ![c] = r] /\ Past \in SUBSET Calls
    BY DEF Send, Past
<1>2. /\ r.stage = "sent" /\ r.request = request /\ r.by = nameOwner
      /\ r.kwin = (IF request.caller = "kwin" THEN kwin ELSE 0)
      /\ r.namespace = 0 /\ r.temp = 0 /\ r.answer = None /\ r.float = {} /\ r.tile = {}
      /\ r.before = Past /\ r.sessions = None
    BY DEF Idle
<1>3. r \in CallType
    <2>1. nameOwner \in Planners \cup {None} /\ kwin \in 0..MaxKWin /\ 0 \in 0..MaxKWin
        BY DEF TypeOK, Assumption
    <2> HIDE DEF Past
    <2> QED BY <1>1, <2>1 DEF Idle, CallType
<1> HIDE DEF r
<1>4. /\ call' \in [Calls -> CallType] /\ call'[c] = r
      /\ \A d \in Calls \ {c} : call'[d] = call[d]
    BY <1>1, <1>3, CallsTyped
<1> QED BY <1>2, <1>4 DEF Send, Sends

\* The end of a process loses its calls and frees its locks.
LEMMA EndEffect ==
    ASSUME TypeOK, NEW p \in Planners, EndPlanner(p)
    PROVE  Ends(p)
<1> DEFINE r(c) == [call[c] EXCEPT !.stage = "lost"]
           ends(c) == call[c].by = p /\ call[c].stage \in InService \cup {"sent"}
<1>1. call' = [c \in Calls |-> IF ends(c) THEN r(c) ELSE call[c]]
    BY DEF EndPlanner
<1>2. ASSUME NEW c \in Calls
      PROVE  /\ r(c) \in CallType /\ r(c).stage = "lost" /\ r(c).answer = call[c].answer
             /\ r(c).request = call[c].request /\ r(c).by = call[c].by
             /\ r(c).kwin = call[c].kwin /\ r(c).before = call[c].before
             /\ r(c).temp = call[c].temp /\ r(c).sessions = call[c].sessions
             /\ r(c).namespace = call[c].namespace
             /\ r(c).float = call[c].float /\ r(c).tile = call[c].tile
    <2>1. call[c] \in CallType
        BY CallsTyped
    <2> QED BY <2>1 DEF CallType, Over
<1> HIDE DEF r
<1>3. call' \in [Calls -> CallType]
    BY <1>1, <1>2, CallsTyped
<1>4. ASSUME NEW c \in Calls PROVE call'[c] = IF ends(c) THEN r(c) ELSE call[c]
    BY <1>1
<1> QED BY <1>2, <1>3, <1>4 DEF EndPlanner, Ends

-----------------------------------------------------------------------------
(* Every step keeps every part of the invariant.                           *)

Step ==
    \/ \E p \in Planners : StartPlanner(p) \/ Ends(p) \/ DropConnection(p)
    \/ StopKWin \/ StartKWin
    \/ \E c \in Calls, request \in Requests : Sends(c, request)
    \/ \E c \in Calls : Effect(c)

\* A step of the system, by its effect.
LEMMA StepEffect ==
    ASSUME Assumption, TypeOK, \A c \in Calls : StageTells(c), ProcessesNamed, Next
    PROVE  Step
<1>1. ASSUME NEW p \in Planners, EndPlanner(p) PROVE Ends(p)
    BY <1>1, EndEffect
<1>2. ASSUME NEW c \in Calls, NEW request \in Requests, Send(c, request)
      PROVE  Sends(c, request)
    BY <1>2, SendEffect
<1>3. ASSUME NEW c \in Calls, Serve(c) PROVE Effect(c)
    BY <1>3, ServeEffect
<1> QED BY <1>1, <1>2, <1>3 DEF Next, Step

\* A step keeps the types.
LEMMA TypeStep ==
    ASSUME Assumption, TypeOK, \A c \in Calls : StageTells(c), Step
    PROVE  TypeOK'
<1> USE DEF TypeOK, CallType, processVars, kwinVars, lockVars, diskVars
<1>1. ASSUME NEW p \in Planners, StartPlanner(p) PROVE TypeOK'
    BY <1>1 DEF StartPlanner
<1>2. ASSUME NEW p \in Planners, Ends(p) PROVE TypeOK'
    BY <1>2 DEF Ends
<1>3. ASSUME NEW p \in Planners, DropConnection(p) PROVE TypeOK'
    BY <1>3 DEF DropConnection
<1>4. CASE StopKWin
    BY <1>4 DEF StopKWin
<1>5. CASE StartKWin
    BY <1>5 DEF StartKWin, Assumption
<1>6. ASSUME NEW c \in Calls, NEW request \in Requests, Sends(c, request) PROVE TypeOK'
    BY <1>6 DEF Sends
<1>7. ASSUME NEW c \in Calls, Effect(c) PROVE TypeOK'
    <2>1. ASSUME Release(c)
          PROVE  /\ planLock' \in [Planners -> Calls \cup {None}]
                 /\ intentLock' \in [Planners -> Calls \cup {None}]
        BY <2>1 DEF Release
    <2>2. CASE Refuses(c)
        BY <2>1, <2>2 DEF Refuses, Leaves, Alone
    <2>3. CASE Admits(c)
        BY <2>3 DEF Admits, Alone
    <2>4. CASE Verifies(c) \/ Authorizes(c)
        BY <2>4 DEF Verifies, Authorizes, Alone
    <2>5. CASE Plans(c)
        BY <2>1, <2>5 DEF Plans, Alone
    <2>6. CASE Reports(c) \/ Fails(c) \/ Confirms(c)
        BY <2>1, <2>6 DEF Reports, Fails, Confirms, Leaves, Alone
    <2>7. CASE Creates(c)
        BY <2>7 DEF Creates, Alone
    <2>8. CASE Replaces(c)
        <3>1. file' \in Files
            <4>1. StageTells(c) /\ call[c].namespace \in 0..MaxKWin
                OBVIOUS
            <4>2. /\ call[c].request.float \in SUBSET Windows
                  /\ call[c].request.tile \in SUBSET Windows
                  /\ ~OverCount(call[c].request)
                BY <2>8, <4>1 DEF Replaces, StageTells, Assumption, Request
            <4>3. call[c].request.float \in Capped /\ call[c].request.tile \in Capped
                BY <4>2, CappedSides DEF OverCount
            <4> QED BY <2>8, <4>1, <4>3 DEF Replaces, Files, Written, Snapshot, Snapshots
        <3>2. renames' \in Seq(Calls)
            BY <2>8 DEF Replaces
        <3> QED BY <2>8, <3>1, <3>2 DEF Replaces, Alone
    <2> QED BY <1>7, <2>2, <2>3, <2>4, <2>5, <2>6, <2>7, <2>8 DEF Effect
<1> QED BY <1>1, <1>2, <1>3, <1>4, <1>5, <1>6, <1>7 DEF Step

\* A rename adds its call to the history.
LEMMA HistoryGrows ==
    ASSUME NEW s \in Seq(Calls), NEW c \in Calls
    PROVE  /\ Range(Append(s, c)) = Range(s) \cup {c}
           /\ c \notin Range(s) /\ IsInjective(s) => IsInjective(Append(s, c))
           /\ Append(s, c) # << >> /\ Append(s, c)[Len(Append(s, c))] = c
<1>1. /\ Len(Append(s, c)) = Len(s) + 1 /\ Len(s) \in Nat
      /\ DOMAIN Append(s, c) = 1..Len(s) + 1 /\ DOMAIN s = 1..Len(s)
      /\ \A i \in 1..Len(s) : Append(s, c)[i] = s[i]
      /\ Append(s, c)[Len(s) + 1] = c
    OBVIOUS
<1>2. 1..Len(s) + 1 = 1..Len(s) \cup {Len(s) + 1}
    BY <1>1
<1>3. Range(Append(s, c)) = Range(s) \cup {c}
    BY <1>1, <1>2 DEF Range
<1>4. ASSUME c \notin Range(s), IsInjective(s) PROVE IsInjective(Append(s, c))
    BY <1>1, <1>2, <1>4 DEF Range, IsInjective
<1>5. Append(s, c) # << >>
    BY <1>1
<1> QED BY <1>1, <1>3, <1>4, <1>5

\* What is renamed stays renamed, and only the writer of the step is added.
LEMMA Renamed ==
    ASSUME TypeOK, Step
    PROVE  \/ Range(renames') = Range(renames)
           \/ \E c \in Calls : Replaces(c) /\ Range(renames') = Range(renames) \cup {c}
<1>1. ASSUME NEW c \in Calls, Replaces(c)
      PROVE  Range(renames') = Range(renames) \cup {c}
    BY <1>1, HistoryGrows DEF Replaces, TypeOK
<1>2. \/ renames' = renames
      \/ \E c \in Calls : Replaces(c)
    BY DEF Step, StartPlanner, Ends, DropConnection, StopKWin, StartKWin, Sends, Effect,
           Refuses, Admits, Verifies, Plans, Authorizes, Reports, Creates, Fails, Confirms,
           diskVars
<1> QED BY <1>1, <1>2

\* A call the step leaves alone.
LEMMA StageKept ==
    ASSUME NEW x \in Calls, StageTells(x), UNCHANGED call[x], call[x].kwin \in Int,
           kwin \in Int, kwin' \in Int, kwin <= kwin',
           call[x].stage = "sent" \/ call[x].stage \in InService => Running(call[x].by)',
           directory = "open" => directory' = "open",
           x \in Range(renames') <=> x \in Range(renames)
    PROVE  StageTells(x)'
BY DEF StageTells, Running, OverCount

\* A step keeps what its stage says of a call.
LEMMA StageStep ==
    ASSUME Assumption, TypeOK, \A c \in Calls : StageTells(c), ProcessesNamed, Step,
           NEW x \in Calls
    PROVE  StageTells(x)'
<1> USE DEF processVars, kwinVars, lockVars, diskVars
<1>1. /\ StageTells(x) /\ kwin \in Int /\ call[x].kwin \in Int
      /\ call[x].stage = "sent" \/ call[x].stage \in InService => Running(call[x].by)
    BY DEF TypeOK, StageTells
<1>2. ASSUME NEW p \in Planners, StartPlanner(p) \/ DropConnection(p) PROVE StageTells(x)'
    <2>1. call[x].stage = "sent" \/ call[x].stage \in InService => Running(call[x].by)'
        BY <1>1, <1>2 DEF StageTells, InService, StartPlanner, DropConnection, Running, TypeOK
    <2> QED BY <1>1, <1>2, <2>1, StageKept DEF StartPlanner, DropConnection
<1>3. ASSUME NEW p \in Planners, Ends(p) PROVE StageTells(x)'
    <2>1. CASE call'[x].stage = "lost"
        BY <1>1, <1>3, <2>1 DEF Ends, StageTells, InService, NotWritten, Over
    <2>2. CASE call'[x].stage # "lost"
        BY <1>1, <1>3, <2>2 DEF Ends, StageTells, Running, TypeOK, OverCount
    <2> QED BY <2>1, <2>2
<1>4. CASE StopKWin \/ StartKWin
    BY <1>1, <1>4, StageKept DEF StopKWin, StartKWin, Running
<1>5. ASSUME NEW c \in Calls, NEW request \in Requests, Sends(c, request)
      PROVE  StageTells(x)'
    <2>1. CASE x # c
        BY <1>1, <1>5, <2>1, StageKept DEF Sends, Running
    <2>2. CASE x = c
        <3>1. nameOwner \in Planners /\ Running(nameOwner) /\ c \notin Range(renames)
            BY <1>1, <1>5, <2>2 DEF Sends, ProcessesNamed, TypeOK, Running, StageTells, NotWritten
        <3> QED BY <1>1, <1>5, <2>2, <3>1
                DEF Sends, StageTells, Running, InService, NotWritten, TypeOK
    <2> QED BY <2>1, <2>2
<1>6. ASSUME NEW c \in Calls, Effect(c) PROVE StageTells(x)'
    <2>1. /\ x # c => UNCHANGED call[x]
          /\ UNCHANGED <<process, kwin>>
          /\ directory = "open" => directory' = "open"
        BY <1>6 DEF Effect, Refuses, Admits, Verifies, Plans, Authorizes, Reports, Creates,
                    Fails, Replaces, Confirms, Leaves, Alone
    <2>2. x # c => (x \in Range(renames') <=> x \in Range(renames))
        <3>1. CASE Replaces(c)
            BY <3>1, HistoryGrows DEF Replaces, TypeOK
        <3>2. CASE ~Replaces(c)
            BY <1>6, <3>2 DEF Effect, Refuses, Admits, Verifies, Plans, Authorizes, Reports,
                              Creates, Fails, Confirms
        <3> QED BY <3>1, <3>2
    <2>3. CASE x # c
        BY <1>1, <2>1, <2>2, <2>3, StageKept DEF Running
    <2>4. CASE x = c
        <3> USE DEF StageTells, Running, InService, NotWritten, OverCount
        <3>1. CASE Refuses(c)
            BY <1>1, <2>4, <3>1 DEF Refuses, Leaves, Alone
        <3>2. CASE Admits(c)
            BY <1>1, <2>4, <3>2 DEF Admits, Alone
        <3>3. CASE Verifies(c)
            BY <1>1, <2>4, <3>3 DEF Verifies, Alone
        <3>4. CASE Plans(c)
            BY <1>1, <2>4, <3>4 DEF Plans, Alone
        <3>5. CASE Authorizes(c)
            <4>1. kwin # 0
                BY DEF TypeOK
            <4> QED BY <1>1, <2>4, <3>5, <4>1 DEF Authorizes, Alone
        <3>6. CASE Reports(c)
            BY <1>1, <2>4, <3>6 DEF Reports, Leaves, Alone
        <3>7. CASE Creates(c)
            BY <1>1, <2>4, <3>7 DEF Creates, Alone
        <3>8. CASE Fails(c)
            BY <1>1, <2>4, <3>8 DEF Fails, Leaves, Alone
        <3>9. CASE Replaces(c)
            <4>1. c \in Range(renames')
                BY <3>9, HistoryGrows DEF Replaces, TypeOK
            <4> QED BY <1>1, <2>4, <3>9, <4>1 DEF Replaces, Alone
        <3>10. CASE Confirms(c)
            BY <1>1, <2>4, <3>10 DEF Confirms, Leaves, Alone
        <3> QED BY <1>6, <3>1, <3>2, <3>3, <3>4, <3>5, <3>6, <3>7, <3>8, <3>9, <3>10
                DEF Effect
    <2> QED BY <2>3, <2>4
<1> QED BY <1>2, <1>3, <1>4, <1>5, <1>6 DEF Step

\* A step keeps the locks with the calls in service.
LEMMA LocksStep ==
    ASSUME Assumption, TypeOK, \A c \in Calls : StageTells(c), LocksMatchCalls, Step
    PROVE  LocksMatchCalls'
<1> USE DEF LocksMatchCalls, Holds, TypeOK, InService, Over, Assumption,
            processVars, kwinVars, lockVars, diskVars
<1>1. ASSUME NEW p \in Planners, StartPlanner(p) PROVE LocksMatchCalls'
    BY <1>1 DEF StartPlanner
<1>2. ASSUME NEW p \in Planners, Ends(p) PROVE LocksMatchCalls'
    BY <1>2 DEF Ends
<1>3. ASSUME NEW p \in Planners, DropConnection(p) PROVE LocksMatchCalls'
    BY <1>3 DEF DropConnection
<1>4. CASE StopKWin
    BY <1>4 DEF StopKWin
<1>5. CASE StartKWin
    BY <1>5 DEF StartKWin
<1>6. ASSUME UNCHANGED lockVars,
             \A c \in Calls : /\ call'[c].by = call[c].by \/ call[c].stage \notin InService
                              /\ call'[c].request = call[c].request
                                    \/ call[c].stage \notin InService
                              /\ call'[c].stage \in InService <=> call[c].stage \in InService
      PROVE  LocksMatchCalls'
    BY <1>6
<1>7. ASSUME NEW c \in Calls, NEW request \in Requests, Sends(c, request)
      PROVE  LocksMatchCalls'
    BY ZenonT(40), <1>6, <1>7 DEF Sends
<1>8. ASSUME NEW c \in Calls, Effect(c) PROVE LocksMatchCalls'
    <2>1. ASSUME Release(c), Alone(c), call'[c].stage \in Over
          PROVE  LocksMatchCalls'
        BY <2>1 DEF Release, Alone
    <2>2. CASE Refuses(c) \/ Reports(c) \/ Fails(c) \/ Confirms(c)
        BY <2>1, <2>2 DEF Refuses, Reports, Fails, Confirms, Leaves
    <2>3. CASE Plans(c)
        BY <2>1, <2>3 DEF Plans
    <2>4. CASE Admits(c)
        <3>1. call[c].by \in Planners /\ call[c].request.method \in {"plan", "read", "write"}
            BY <2>4 DEF Admits, StageTells, Request, Methods
        <3> DEFINE p == call[c].by
        <3>2. \A x \in Calls \ {c} : call'[x] = call[x]
            BY <2>4 DEF Admits, Alone
        <3>3. /\ call'[c].by = p /\ call'[c].request = call[c].request
              /\ call'[c].stage = "admitted" /\ call[c].stage = "sent"
            BY <2>4 DEF Admits, Alone
        <3>4. CASE call[c].request.method = "plan"
            <4>1. /\ planLock[p] = None /\ planLock' = [planLock EXCEPT ![p] = c]
                  /\ UNCHANGED intentLock
                BY <2>4, <3>4 DEF Admits, LockOf
            <4> QED BY <3>1, <3>2, <3>3, <3>4, <4>1
        <3>5. CASE call[c].request.method # "plan"
            <4>1. /\ intentLock[p] = None /\ intentLock' = [intentLock EXCEPT ![p] = c]
                  /\ UNCHANGED planLock
                BY <2>4, <3>5 DEF Admits, LockOf
            <4> QED BY <3>1, <3>2, <3>3, <3>5, <4>1
        <3> QED BY <3>4, <3>5
    <2>5. CASE Verifies(c) \/ Authorizes(c)
        BY <1>6, <2>5 DEF Verifies, Authorizes, Alone
    <2>6. CASE Creates(c) \/ Replaces(c)
        <3>1. /\ call[c].stage \in InService /\ call'[c].stage \in InService
              /\ UNCHANGED lockVars /\ Alone(c)
            BY <2>6 DEF Creates, Replaces
        <3> HIDE DEF LocksMatchCalls, Holds, TypeOK, InService, Over, Assumption, lockVars
        <3>2. ASSUME NEW x \in Calls
              PROVE  /\ call'[x].by = call[x].by /\ call'[x].request = call[x].request
                     /\ call'[x].stage \in InService <=> call[x].stage \in InService
            BY <3>1 DEF Alone
        <3>3. UNCHANGED lockVars
            BY <3>1
        <3> QED BY <1>6, <3>2, <3>3
    <2> QED BY <1>8, <2>2, <2>3, <2>4, <2>5, <2>6 DEF Effect
<1> QED BY <1>1, <1>2, <1>3, <1>4, <1>5, <1>7, <1>8 DEF Step

\* A step keeps the name with the process that serves.
LEMMA ProcessesStep ==
    ASSUME Assumption, TypeOK, ProcessesNamed, Step
    PROVE  ProcessesNamed'
<1> USE DEF ProcessesNamed, Running, TypeOK
<1>1. ASSUME UNCHANGED <<process, pid, nameOwner>> PROVE ProcessesNamed'
    BY <1>1
<1>2. ASSUME NEW p \in Planners, StartPlanner(p) PROVE ProcessesNamed'
    BY <1>2 DEF StartPlanner, Assumption
<1>3. ASSUME NEW p \in Planners, Ends(p) PROVE ProcessesNamed'
    BY <1>3 DEF Ends, Assumption
<1>4. ASSUME NEW p \in Planners, DropConnection(p) PROVE ProcessesNamed'
    BY <1>4 DEF DropConnection, Assumption
<1>5. ASSUME NEW c \in Calls, Effect(c) PROVE UNCHANGED <<process, pid, nameOwner>>
    BY <1>5 DEF Effect, Refuses, Admits, Verifies, Plans, Authorizes, Reports, Creates,
                Fails, Replaces, Confirms, processVars
<1> QED BY <1>1, <1>2, <1>3, <1>4, <1>5 DEF Step, StopKWin, StartKWin, Sends, processVars

\* A step keeps a whole file where anything was renamed.
LEMMA FileStep ==
    ASSUME TypeOK, \A c \in Calls : StageTells(c), RenamesLeaveAFile, Step
    PROVE  RenamesLeaveAFile'
<1> USE DEF RenamesLeaveAFile, diskVars
<1>1. ASSUME NEW c \in Calls, Replaces(c) PROVE RenamesLeaveAFile'
    BY <1>1 DEF Replaces, StageTells, Written
<1>2. ASSUME NEW c \in Calls, Effect(c), ~Replaces(c) PROVE RenamesLeaveAFile'
    BY <1>2 DEF Effect, Refuses, Admits, Verifies, Plans, Authorizes, Reports, Creates,
                Fails, Confirms
<1> QED BY <1>1, <1>2 DEF Step, StartPlanner, Ends, DropConnection, StopKWin, StartKWin, Sends

\* A step keeps the answers true.
LEMMA AnswersStep ==
    ASSUME Assumption, TypeOK, \A c \in Calls : StageTells(c), AnswersTellTheTruth, Step
    PROVE  AnswersTellTheTruth'
<1> DEFINE True(x) == /\ call[x].answer = "stored"   => x \in Range(renames)
                      /\ call[x].answer \in Refusals => x \notin Range(renames)
<1>1. ASSUME UNCHANGED renames, NEW x \in Calls, True(x),
             \/ call'[x].answer = call[x].answer
             \/ call'[x].answer \notin Refusals \cup {"stored"}
             \/ call'[x].answer = "stored" /\ x \in Range(renames)
             \/ call'[x].answer # "stored" /\ x \notin Range(renames)
      PROVE  True(x)'
    BY <1>1 DEF Refusals
<1>2. ASSUME UNCHANGED renames, \A x \in Calls : True(x)' PROVE AnswersTellTheTruth'
    BY <1>2 DEF AnswersTellTheTruth
<1>3. \A x \in Calls : True(x)
    BY DEF AnswersTellTheTruth
<1>4. None \notin Refusals /\ None # "stored"
    BY DEF Assumption, Answers, Refusals
<1> HIDE DEF True
<1>5. ASSUME NEW p \in Planners, StartPlanner(p) \/ Ends(p) \/ DropConnection(p)
      PROVE  AnswersTellTheTruth'
    BY <1>1, <1>2, <1>3, <1>5 DEF StartPlanner, Ends, DropConnection, diskVars
<1>6. ASSUME StopKWin \/ StartKWin PROVE AnswersTellTheTruth'
    BY <1>1, <1>2, <1>3, <1>6 DEF StopKWin, StartKWin, diskVars
<1>7. ASSUME NEW c \in Calls, NEW request \in Requests, Sends(c, request)
      PROVE  AnswersTellTheTruth'
    BY <1>1, <1>2, <1>3, <1>4, <1>7 DEF Sends, diskVars
<1>8. ASSUME NEW c \in Calls, Effect(c) PROVE AnswersTellTheTruth'
    <2>1. ASSUME UNCHANGED renames, Alone(c), True(c)' PROVE AnswersTellTheTruth'
        BY <1>1, <1>2, <1>3, <2>1 DEF Alone
    <2>2. call[c].stage \in NotWritten => c \notin Range(renames)
        BY DEF StageTells
    <2>3. CASE Refuses(c)
        BY <1>1, <1>3, <2>1, <2>2, <2>3 DEF Refuses, Leaves, NotWritten
    <2>4. CASE Admits(c) \/ Verifies(c) \/ Authorizes(c) \/ Creates(c)
        BY <1>1, <1>3, <2>1, <2>4 DEF Admits, Verifies, Authorizes, Creates, diskVars
    <2>5. CASE Plans(c)
        BY <1>1, <1>3, <2>1, <2>2, <2>5 DEF Plans, NotWritten, diskVars
    <2>6. CASE Reports(c) \/ Fails(c)
        BY <1>1, <1>3, <2>1, <2>2, <2>6 DEF Reports, Fails, Leaves, NotWritten, diskVars
    <2>7. CASE Confirms(c)
        <3>1. c \in Range(renames)
            BY <2>7 DEF Confirms, StageTells
        <3>2. "store-unavailable" \notin Refusals
            BY DEF Refusals
        <3> QED BY <1>1, <1>3, <2>1, <2>7, <3>1, <3>2 DEF Confirms, Leaves, diskVars
    <2>8. CASE Replaces(c)
        <3>1. c \notin Range(renames) /\ call'[c].answer = None
            BY <2>8 DEF Replaces, StageTells, NotWritten
        <3>2. Range(renames') = Range(renames) \cup {c} /\ IsInjective(renames')
            BY <2>8, <3>1, HistoryGrows DEF Replaces, AnswersTellTheTruth, TypeOK
        <3>3. \A x \in Calls \ {c} : call'[x] = call[x]
            BY <2>8 DEF Replaces, Alone
        <3> QED BY <1>4, <3>1, <3>2, <3>3 DEF AnswersTellTheTruth
    <2> QED BY <1>8, <2>3, <2>4, <2>5, <2>6, <2>7, <2>8 DEF Effect
<1> QED BY <1>5, <1>6, <1>7, <1>8 DEF Step

\* Every temporary file is of one call, and a rename or a failure takes its own.
LEMMA TempsStep ==
    ASSUME Assumption, TypeOK, \A c \in Calls : StageTells(c), ProcessesNamed,
           TempsAccounted, Step
    PROVE  TempsAccounted'
<1> DEFINE Temps == {call[x].temp : x \in Calls}
<1>1. ASSUME UNCHANGED temps, \A x \in Calls : call'[x].temp = call[x].temp
      PROVE  TempsAccounted'
    BY <1>1 DEF TempsAccounted
<1>2. ASSUME NEW c \in Calls, Alone(c), call[c].temp # 0 => call[c].temp \in temps,
             call'[c].temp = 0, temps' = temps \ {call[c].temp}
      PROVE  TempsAccounted'
    <2>1. \A x \in Calls \ {c} : call'[x].temp = call[x].temp
        BY <1>2 DEF Alone
    <2>2. ASSUME NEW t PROVE t \in temps' <=> t \in {call'[x].temp : x \in Calls} \ {0}
        BY <1>2, <2>1 DEF TempsAccounted
    <2>3. temps' = {call'[x].temp : x \in Calls} \ {0}
        BY <2>2
    <2> QED BY <1>2, <2>1, <2>3 DEF TempsAccounted
<1>3. ASSUME NEW c \in Calls, Alone(c), call[c].temp = 0,
             call'[c].temp # 0, call'[c].temp \notin temps, temps' = temps \cup {call'[c].temp}
      PROVE  TempsAccounted'
    <2>1. \A x \in Calls \ {c} : call'[x].temp = call[x].temp
        BY <1>3 DEF Alone
    <2>2. ASSUME NEW t PROVE t \in temps' <=> t \in {call'[x].temp : x \in Calls} \ {0}
        BY <1>3, <2>1 DEF TempsAccounted
    <2>3. temps' = {call'[x].temp : x \in Calls} \ {0}
        BY <2>2
    <2>4. \A x \in Calls \ {c} : call[x].temp # 0 => call[x].temp \in temps
        BY DEF TempsAccounted
    <2>5. ASSUME NEW x \in Calls, NEW y \in Calls, x # y, call'[x].temp # 0
          PROVE  call'[x].temp # call'[y].temp
        BY <1>3, <2>1, <2>4, <2>5 DEF TempsAccounted
    <2> QED BY <2>3, <2>5 DEF TempsAccounted
<1> USE DEF diskVars
<1>4. ASSUME NEW p \in Planners, StartPlanner(p) \/ Ends(p) \/ DropConnection(p)
      PROVE  TempsAccounted'
    BY <1>1, <1>4 DEF StartPlanner, Ends, DropConnection
<1>5. ASSUME StopKWin \/ StartKWin PROVE TempsAccounted'
    BY <1>1, <1>5 DEF StopKWin, StartKWin
<1>6. ASSUME NEW c \in Calls, NEW request \in Requests, Sends(c, request)
      PROVE  TempsAccounted'
    <2>1. call[c].temp = 0
        BY <1>6 DEF Sends, StageTells, NotWritten
    <2>2. \A x \in Calls : call'[x].temp = call[x].temp
        BY <1>6, <2>1 DEF Sends
    <2> QED BY <1>1, <1>6, <2>2 DEF Sends
<1>7. ASSUME NEW c \in Calls, Effect(c) PROVE TempsAccounted'
    <2>1. ASSUME Alone(c), UNCHANGED call[c].temp, UNCHANGED temps PROVE TempsAccounted'
        BY <1>1, <2>1 DEF Alone
    <2>2. CASE \/ Refuses(c) \/ Admits(c) \/ Verifies(c) \/ Plans(c) \/ Authorizes(c)
               \/ Reports(c) \/ Confirms(c)
        BY <2>1, <2>2 DEF Refuses, Admits, Verifies, Plans, Authorizes, Reports, Confirms,
                          Leaves
    <2>3. CASE Fails(c) \/ Replaces(c)
        <3>1. call[c].temp # 0 => call[c].temp \in temps
            BY DEF TempsAccounted
        <3> QED BY <1>2, <2>3, <3>1 DEF Fails, Replaces, Leaves
    <2>4. CASE Creates(c)
        <3>1. /\ call[c].temp = 0 /\ call[c].by \in Planners
              /\ pid[call[c].by] \in Nat \ {0} /\ tempCounter[call[c].by] \in Nat
            BY <2>4 DEF Creates, StageTells, NotWritten, ProcessesNamed, Assumption, TypeOK
        <3>2. call'[c].temp # 0
            BY <2>4, <3>1 DEF Creates, TempName
        <3> QED BY <1>3, <2>4, <3>1, <3>2 DEF Creates, Occupied
    <2> QED BY <1>7, <2>2, <2>3, <2>4 DEF Effect
<1> QED BY <1>4, <1>5, <1>6, <1>7 DEF Step

\* A step keeps the file with the KWin that sent it.
LEMMA OwnerStep ==
    ASSUME Assumption, TypeOK, \A c \in Calls : StageTells(c), FileComesFromOwner, Step
    PROVE  FileComesFromOwner'
<1>1. ASSUME UNCHANGED <<file, renames>>,
             \A c \in Calls : c \in Range(renames) =>
                /\ call'[c].request = call[c].request /\ call'[c].kwin = call[c].kwin
      PROVE  FileComesFromOwner'
    <2>1. renames # << >> => Len(renames) \in DOMAIN renames /\ renames[Len(renames)] \in Calls
        BY DEF TypeOK
    <2>2. renames # << >> => renames[Len(renames)] \in Range(renames)
        BY <2>1 DEF Range
    <2> QED BY <1>1, <2>1, <2>2 DEF FileComesFromOwner
<1> USE DEF diskVars
<1>2. ASSUME NEW p \in Planners, StartPlanner(p) \/ Ends(p) \/ DropConnection(p)
      PROVE  FileComesFromOwner'
    BY <1>1, <1>2 DEF StartPlanner, Ends, DropConnection
<1>3. ASSUME StopKWin \/ StartKWin PROVE FileComesFromOwner'
    BY <1>1, <1>3 DEF StopKWin, StartKWin
<1>4. ASSUME NEW c \in Calls, NEW request \in Requests, Sends(c, request)
      PROVE  FileComesFromOwner'
    <2>1. c \notin Range(renames)
        BY <1>4 DEF Sends, StageTells, NotWritten
    <2> QED BY <1>1, <1>4, <2>1 DEF Sends
<1>5. ASSUME NEW c \in Calls, Effect(c), ~Replaces(c) PROVE FileComesFromOwner'
    <2>1. Alone(c)
        BY <1>5 DEF Effect, Refuses, Admits, Verifies, Plans, Authorizes, Reports, Creates,
                    Fails, Confirms, Leaves
    <2>2. UNCHANGED file /\ UNCHANGED renames
        BY <1>5 DEF Effect, Refuses, Admits, Verifies, Plans, Authorizes, Reports, Creates,
                    Fails, Confirms
    <2>3. \A x \in Calls : call'[x].request = call[x].request /\ call'[x].kwin = call[x].kwin
        BY <2>1 DEF Alone
    <2> QED BY <1>1, <2>2, <2>3
<1>6. ASSUME NEW c \in Calls, Replaces(c) PROVE FileComesFromOwner'
    <2>1. renames' # << >> /\ renames'[Len(renames')] = c
        BY <1>6, HistoryGrows DEF Replaces, TypeOK
    <2>2. /\ call[c].request.caller = "kwin" /\ call[c].namespace = call[c].kwin
          /\ call[c].request.float \cap call[c].request.tile = {}
          /\ call'[c].request = call[c].request /\ call'[c].kwin = call[c].kwin
        BY <1>6 DEF Replaces, StageTells, Alone
    <2>3. file'.snapshot = Snapshot(call[c].kwin, call[c].request.float, call[c].request.tile)
        BY <1>6, <2>2 DEF Replaces, Written
    <2>4. file'.snapshot.float \cap file'.snapshot.tile = {}
        BY <2>2, <2>3 DEF Snapshot
    <2> QED BY <2>1, <2>2, <2>3, <2>4 DEF FileComesFromOwner
<1> QED BY <1>2, <1>3, <1>4, <1>5, <1>6 DEF Step

-----------------------------------------------------------------------------
(* The past of a call.                                                     *)

\* Only the call of a step, or those of a process that ends, change.
Unmoved(x) ==
    /\ call'[x].request = call[x].request /\ call'[x].by = call[x].by
    /\ call'[x].kwin = call[x].kwin /\ call'[x].before = call[x].before
    /\ call'[x].answer = call[x].answer
    /\ call'[x].stage = call[x].stage \/ call'[x].stage = "lost"

\* What PastIsDone says of two calls.
Done(c, d) ==
    /\ call[d].stage # "idle" /\ call[c].stage # "idle"
    /\ call[d].by # call[c].by =>
          call[d].stage \in Over \/ process[call[d].by] = "dropped"
    /\ call[d].by = call[c].by /\ call[d].stage \in {"sent", "admitted", "verified"} =>
          call[d].request.caller = "kwin" /\ ~CallerConnected(d)
    /\ call[d].by = call[c].by /\ call[d].stage \in {"authorized", "temporary", "renamed"} =>
          Kept(c)

\* Neither call moves, unless to be lost.
LEMMA DoneKept ==
    ASSUME TypeOK, NEW c \in Calls, NEW d \in Calls, Done(c, d), Unmoved(c), Unmoved(d),
           StageTells(d),
           kwin' = kwin \/ kwin' = kwin + 1, kwinUp' => kwinUp \/ kwin' = kwin + 1,
           call[d].stage \notin Over /\ process[call[d].by] = "dropped" =>
               process'[call[d].by] = "dropped" \/ call'[d].stage \in Over,
           c \in Range(renames') => c \in Range(renames)
    PROVE  Done(c, d)'
<1>1. kwin \in Nat /\ call[d].kwin \in Nat /\ (call[d].stage # "idle" => call[d].kwin <= kwin)
    BY DEF TypeOK, StageTells
<1>2. ~CallerConnected(d) /\ call[d].stage # "idle" => ~CallerConnected(d)'
    BY <1>1 DEF CallerConnected, Unmoved
<1>3. Kept(c) => Kept(c)'
    BY DEF Kept, Unmoved, Over
<1> QED BY <1>2, <1>3 DEF Done, Unmoved, Over

\* A call of the past that holds the lock keeps the later one out.
LEMMA KeptOut ==
    ASSUME Assumption, TypeOK, LocksMatchCalls, \A x \in Calls : StageTells(x),
           NEW c \in Calls, NEW d \in Calls, Kept(c), call[d].by = call[c].by,
           call[d].stage \in {"authorized", "temporary", "renamed"}, Effect(c)
    PROVE  Kept(c)' /\ ~Replaces(c)
<1>1. intentLock[call[c].by] = d /\ d # None
    BY DEF LocksMatchCalls, Holds, StageTells, InService, Assumption
<1>2. CASE Refuses(c)
    BY <1>2 DEF Kept, Refuses, Replaces, Leaves, Alone, Over
<1>3. CASE Admits(c)
    BY <1>1, <1>3 DEF Kept, Admits, Replaces, Alone, LockOf, diskVars
<1>4. CASE Plans(c)
    BY <1>4 DEF Kept, Plans, Replaces, Alone, diskVars
<1>5. CASE Verifies(c)
    BY <1>5 DEF Kept, Verifies, Replaces, Alone, Over, diskVars
<1>6. CASE Authorizes(c) \/ Reports(c) \/ Creates(c) \/ Replaces(c) \/ Confirms(c)
    BY <1>6 DEF Kept, Authorizes, Reports, Creates, Replaces, Confirms, Over
<1>7. CASE Fails(c)
    BY <1>7 DEF Kept, Fails, Over, StageTells
<1> QED BY <1>2, <1>3, <1>4, <1>5, <1>6, <1>7 DEF Effect

\* The earlier call moves.
LEMMA EarlierMoves ==
    ASSUME TypeOK, \A x \in Calls : StageTells(x), NEW c \in Calls, NEW d \in Calls,
           Done(c, d), Effect(d)
    PROVE  Done(c, d)'
<1>1. /\ Alone(d) /\ UNCHANGED <<process, kwin, kwinUp>> /\ Running(call[d].by)
    BY DEF Effect, Refuses, Admits, Verifies, Plans, Authorizes, Reports, Creates,
           Fails, Replaces, Confirms, Leaves, processVars, kwinVars
<1>2. call'[c].by = call[c].by /\ call'[d].by = call[d].by
    BY <1>1 DEF Alone
<1>3. CallerConnected(d)' <=> CallerConnected(d)
    BY <1>1 DEF CallerConnected, Alone
<1>4. c # d => UNCHANGED call[c]
    BY <1>1 DEF Alone
<1>5. call'[c].stage # "idle"
    BY <1>4 DEF Done, Effect, Refuses, Admits, Verifies, Plans, Authorizes, Reports, Creates,
                Fails, Replaces, Confirms, Leaves
<1>6. CASE call'[d].stage \in Over
    BY <1>2, <1>5, <1>6 DEF Done, Over
<1>7. CASE Admits(d) \/ Verifies(d)
    BY <1>1, <1>2, <1>3, <1>5, <1>7 DEF Done, Admits, Verifies, Over, Alone
<1>8. CASE Authorizes(d)
    <2>1. call[d].request.caller = "kwin" => CallerConnected(d)
        BY <1>8 DEF Authorizes, CallerConnected
    <2> QED BY <1>1, <1>2, <1>5, <1>8, <2>1 DEF Done, Authorizes, Over
<1>9. CASE Creates(d) \/ Replaces(d)
    <2>1. /\ call[d].stage \in {"authorized", "temporary"}
          /\ call'[d].stage \in {"temporary", "renamed"}
          /\ call[d].request.method # "plan"
        BY <1>9 DEF Creates, Replaces
    <2>2. CASE call[d].by # call[c].by
        BY <1>1, <1>2, <1>5, <2>1, <2>2 DEF Done, Over
    <2>3. CASE call[d].by = call[c].by
        <3>1. Kept(c) /\ c # d
            BY <2>1, <2>3 DEF Done, Kept, Over
        <3>2. c \notin Range(renames')
            <4>1. CASE Creates(d)
                BY <3>1, <4>1 DEF Kept, Creates
            <4>2. CASE Replaces(d)
                BY <3>1, <4>2, HistoryGrows DEF Kept, Replaces, TypeOK
            <4> QED BY <1>9, <4>1, <4>2
        <3>3. Kept(c)'
            BY <1>4, <3>1, <3>2 DEF Kept
        <3> QED BY <1>2, <1>5, <2>1, <2>3, <3>3 DEF Done
    <2> QED BY <2>2, <2>3
<1> QED BY <1>6, <1>7, <1>8, <1>9
        DEF Effect, Refuses, Plans, Reports, Fails, Confirms, Leaves, Over

\* The later call moves.
LEMMA LaterMoves ==
    ASSUME Assumption, TypeOK, LocksMatchCalls, \A x \in Calls : StageTells(x),
           NEW c \in Calls, NEW d \in Calls, c # d, Done(c, d), Effect(c)
    PROVE  Done(c, d)'
<1>1. Alone(c) /\ UNCHANGED <<process, kwin, kwinUp>>
    BY DEF Effect, Refuses, Admits, Verifies, Plans, Authorizes, Reports, Creates,
           Fails, Replaces, Confirms, Leaves, processVars, kwinVars
<1>2. call'[c].by = call[c].by /\ UNCHANGED call[d]
    BY <1>1 DEF Alone
<1>3. CallerConnected(d)' <=> CallerConnected(d)
    BY <1>1, <1>2 DEF CallerConnected
<1>4. call'[c].stage # "idle"
    BY DEF Effect, Refuses, Admits, Verifies, Plans, Authorizes, Reports, Creates,
           Fails, Replaces, Confirms, Leaves
<1>5. call[d].by = call[c].by /\ call[d].stage \in {"authorized", "temporary", "renamed"}
         => Kept(c)'
    BY KeptOut DEF Done
<1> QED BY <1>1, <1>2, <1>3, <1>4, <1>5 DEF Done

\* A step keeps what the past of a call can still do.
LEMMA PastStep ==
    ASSUME Assumption, TypeOK, LocksMatchCalls, \A x \in Calls : StageTells(x),
           ProcessesNamed, PastIsDone, Step
    PROVE  PastIsDone'
<1>1. \A c \in Calls, d \in Calls : d \in call[c].before => Done(c, d)
    BY DEF PastIsDone, Done
<1>2. ASSUME \A c \in Calls, d \in Calls : d \in call'[c].before => Done(c, d)'
      PROVE  PastIsDone'
    <2>1. TypeOK'
        BY TypeStep
    <2>2. \A c \in Calls : call'[c].before \subseteq Calls
        BY <2>1 DEF TypeOK
    <2> QED BY <1>2, <2>2 DEF PastIsDone, Done
<1> SUFFICES ASSUME NEW c \in Calls, NEW d \in Calls, d \in call'[c].before
             PROVE  Done(c, d)'
    BY <1>2
<1>3. /\ StageTells(c) /\ StageTells(d)
      /\ call[d].stage # "idle" => call[d].by \in Planners
    BY DEF StageTells
<1>4. CASE \E p \in Planners : StartPlanner(p) \/ DropConnection(p)
    <2>1. UNCHANGED <<call, kwin, kwinUp, renames>>
        BY <1>4 DEF StartPlanner, DropConnection, kwinVars, diskVars
    <2>2. Done(c, d) /\ Unmoved(c) /\ Unmoved(d)
        BY <1>1, <2>1 DEF Unmoved
    <2>3. process[call[d].by] = "dropped" => process'[call[d].by] = "dropped"
        BY <1>3, <1>4, <2>2 DEF StartPlanner, DropConnection, Done, TypeOK
    <2> QED BY <1>3, <2>1, <2>2, <2>3, DoneKept
<1>5. CASE \E p \in Planners : Ends(p)
    <2>1. PICK p \in Planners : Ends(p)
        BY <1>5
    <2>2. UNCHANGED <<kwin, kwinUp, renames>> /\ Unmoved(c) /\ Unmoved(d)
        BY <2>1 DEF Ends, Unmoved, kwinVars, diskVars
    <2>3. Done(c, d)
        BY <1>1, <2>2 DEF Unmoved
    <2>4. call[d].stage \notin Over /\ process[call[d].by] = "dropped" =>
              process'[call[d].by] = "dropped" \/ call'[d].stage \in Over
        <3>1. call[d].stage \in {"sent"} \cup InService \cup Over
            BY <2>3 DEF Done, TypeOK
        <3>2. call[d].by = p /\ call[d].stage \notin Over => call'[d].stage \in Over
            BY <2>1, <3>1 DEF Ends, Over
        <3>3. call[d].by # p => process'[call[d].by] = process[call[d].by]
            BY <1>3, <2>1, <2>3 DEF Ends, Done, TypeOK
        <3> QED BY <3>2, <3>3
    <2> QED BY <1>3, <2>2, <2>3, <2>4, DoneKept
<1>6. CASE StopKWin \/ StartKWin
    <2>1. UNCHANGED <<call, process, renames>>
        BY <1>6 DEF StopKWin, StartKWin, processVars, diskVars
    <2>2. Done(c, d) /\ Unmoved(c) /\ Unmoved(d)
        BY <1>1, <2>1 DEF Unmoved
    <2>3. /\ kwin' = kwin \/ kwin' = kwin + 1
          /\ kwinUp' => kwinUp \/ kwin' = kwin + 1
        BY <1>6 DEF StopKWin, StartKWin
    <2> QED BY <1>3, <2>1, <2>2, <2>3, DoneKept
<1>7. CASE \E x \in Calls, request \in Requests : Sends(x, request)
    <2>1. PICK x \in Calls, request \in Requests : Sends(x, request)
        BY <1>7
    <2>2. UNCHANGED <<process, kwin, kwinUp, renames>>
        BY <2>1 DEF Sends, processVars, kwinVars, diskVars
    <2>3. CASE c # x
        <3>1. Done(c, d) /\ d # x
            BY <1>1, <2>1, <2>3 DEF Sends, Done
        <3>2. Unmoved(c) /\ Unmoved(d)
            BY <2>1, <2>3, <3>1 DEF Sends, Unmoved
        <3> QED BY <1>3, <2>2, <3>1, <3>2, DoneKept
    <2>4. CASE c = x
        <3>1. d \in Past /\ d # c
            BY <2>1, <2>4 DEF Sends, Past, Over
        <3>2. /\ call'[c].by = nameOwner /\ nameOwner \in Planners
              /\ process[nameOwner] = "serving"
              /\ call'[c].stage = "sent" /\ call'[c].answer = None
              /\ UNCHANGED call[d]
            BY <2>1, <2>4, <3>1 DEF Sends, TypeOK, ProcessesNamed
        <3>3. call[d].stage # "idle"
            BY <3>1 DEF Past, Over
        <3>4. call[d].by # nameOwner => call[d].stage \in Over \/ process[call[d].by] = "dropped"
            <4>1. call[d].stage \in {"sent"} \cup InService \cup Over
                BY <3>3 DEF TypeOK
            <4>2. call[d].stage \notin Over => Running(call[d].by)
                BY <1>3, <4>1 DEF StageTells
            <4>3. process[call[d].by] = "serving" => call[d].by = nameOwner
                BY <1>3, <3>3 DEF ProcessesNamed
            <4> QED BY <4>2, <4>3 DEF Running
        <3>5. call[d].by = nameOwner /\ call[d].stage \notin Over =>
                  call[d].request.caller = "kwin" /\ ~CallerConnected(d)
            BY <3>1, <3>2 DEF Past, CallerConnected
        <3>6. ~CallerConnected(d) => ~CallerConnected(d)'
            BY <2>2, <3>2 DEF CallerConnected
        <3>7. Kept(c)'
            <4>1. c \notin Range(renames')
                BY <1>3, <2>1, <2>2, <2>4 DEF Sends, StageTells, NotWritten
            <4> QED BY <3>2, <4>1 DEF Kept, Assumption, Answers
        <3> QED BY <2>2, <3>2, <3>3, <3>4, <3>5, <3>6, <3>7 DEF Done, Over
    <2> QED BY <2>3, <2>4
<1>8. CASE \E x \in Calls : Effect(x)
    <2>1. PICK x \in Calls : Effect(x)
        BY <1>8
    <2>2. Alone(x)
        BY <2>1 DEF Effect, Refuses, Admits, Verifies, Plans, Authorizes, Reports, Creates,
                    Fails, Replaces, Confirms, Leaves
    <2>3. Done(c, d)
        BY <1>1, <2>2 DEF Alone
    <2>4. CASE d = x
        BY <2>1, <2>3, <2>4, EarlierMoves
    <2>5. CASE d # x /\ c = x
        BY <2>1, <2>3, <2>5, LaterMoves
    <2>6. CASE d # x /\ c # x
        <3>1. Unmoved(c) /\ Unmoved(d)
            BY <2>2, <2>6 DEF Alone, Unmoved
        <3>2. UNCHANGED <<process, kwin, kwinUp>>
            BY <2>1 DEF Effect, Refuses, Admits, Verifies, Plans, Authorizes, Reports, Creates,
                        Fails, Replaces, Confirms, processVars, kwinVars
        <3>3. c \in Range(renames') => c \in Range(renames)
            <4>1. CASE Replaces(x)
                BY <2>6, <4>1, HistoryGrows DEF Replaces, TypeOK
            <4>2. CASE ~Replaces(x)
                BY <2>1, <4>2 DEF Effect, Refuses, Admits, Verifies, Plans, Authorizes,
                                  Reports, Creates, Fails, Confirms, diskVars
            <4> QED BY <4>1, <4>2
        <3> QED BY <1>3, <2>3, <3>1, <3>2, <3>3, DoneKept
    <2> QED BY <2>4, <2>5, <2>6
<1> QED BY <1>4, <1>5, <1>6, <1>7, <1>8 DEF Step

-----------------------------------------------------------------------------
(* The order of writes and reads.                                          *)

\* Positions of the history before and after a step.
LEMMA Positions ==
    ASSUME TypeOK, TypeOK', Step
    PROVE  /\ Len(renames) \in Nat /\ DOMAIN renames = 1..Len(renames)
           /\ DOMAIN renames' = 1..Len(renames')
           /\ \A i \in 1..Len(renames) :
                 renames'[i] = renames[i] /\ renames[i] \in Range(renames)
                    /\ renames[i] \in Calls
           /\ \/ UNCHANGED renames
              \/ \E c \in Calls : /\ Replaces(c) /\ Len(renames') = Len(renames) + 1
                                  /\ renames'[Len(renames) + 1] = c
<1>1. /\ Len(renames) \in Nat /\ DOMAIN renames = 1..Len(renames)
      /\ DOMAIN renames' = 1..Len(renames')
      /\ \A i \in 1..Len(renames) : renames[i] \in Calls
    BY DEF TypeOK
<1>2. \A i \in 1..Len(renames) : renames[i] \in Range(renames)
    BY <1>1 DEF Range
<1>3. ASSUME NEW c \in Calls, Replaces(c)
      PROVE  /\ \A i \in 1..Len(renames) : renames'[i] = renames[i]
             /\ Len(renames') = Len(renames) + 1 /\ renames'[Len(renames) + 1] = c
    BY <1>3 DEF Replaces, TypeOK
<1>4. UNCHANGED renames \/ \E c \in Calls : Replaces(c)
    BY DEF Step, StartPlanner, Ends, DropConnection, StopKWin, StartKWin, Sends, Effect,
           Refuses, Admits, Verifies, Plans, Authorizes, Reports, Creates, Fails, Confirms,
           diskVars
<1> QED BY <1>1, <1>2, <1>3, <1>4

\* What a renamed call is does not change.
LEMMA WritersStay ==
    ASSUME \A c \in Calls : StageTells(c), Step, NEW x \in Calls, x \in Range(renames)
    PROVE  /\ call'[x].request = call[x].request /\ call'[x].kwin = call[x].kwin
           /\ call'[x].by = call[x].by /\ call'[x].before = call[x].before
<1>1. call[x].stage # "idle"
    BY DEF StageTells, NotWritten
<1>2. ASSUME NEW c \in Calls, Effect(c) PROVE Alone(c)
    BY <1>2 DEF Effect, Refuses, Admits, Verifies, Plans, Authorizes, Reports, Creates,
                Fails, Replaces, Confirms, Leaves
<1>3. ASSUME NEW c \in Calls, NEW request \in Requests, Sends(c, request)
      PROVE  UNCHANGED call[x]
    BY <1>1, <1>3 DEF Sends
<1> QED BY <1>2, <1>3 DEF Step, Alone, StartPlanner, Ends, DropConnection, StopKWin, StartKWin

\* A step keeps the order of the writes.
LEMMA OrderStep ==
    ASSUME Assumption, TypeOK, TypeOK', \A c \in Calls : StageTells(c), ProcessesNamed,
           PastIsDone, WritesKeepOrder, Step
    PROVE  WritesKeepOrder'
<1> SUFFICES ASSUME NEW i \in DOMAIN renames', NEW j \in DOMAIN renames', i < j,
                    renames'[j] \in call'[renames'[i]].before
             PROVE  /\ call'[renames'[j]].by \in Lingering
                    /\ call'[renames'[j]].by # call'[renames'[i]].by
    BY DEF WritesKeepOrder
<1>1. CASE j \in 1..Len(renames)
    <2>1. i \in 1..Len(renames)
        <3>1. Len(renames) \in Nat /\ i \in 1..Len(renames')
            BY Positions
        <3> QED BY <1>1, <3>1
    <2>2. /\ renames'[i] = renames[i] /\ renames'[j] = renames[j]
          /\ call'[renames[i]].before = call[renames[i]].before
          /\ call'[renames[i]].by = call[renames[i]].by
          /\ call'[renames[j]].by = call[renames[j]].by
        BY <1>1, <2>1, Positions, WritersStay
    <2>3. i \in DOMAIN renames /\ j \in DOMAIN renames
        BY <1>1, <2>1, Positions
    <2> QED BY <2>2, <2>3 DEF WritesKeepOrder
<1>2. CASE j \notin 1..Len(renames)
    <2>1. PICK c \in Calls : Replaces(c) /\ Len(renames') = Len(renames) + 1
                               /\ renames'[Len(renames) + 1] = c
        BY <1>2, Positions
    <2>2. j = Len(renames) + 1 /\ i \in 1..Len(renames)
        BY <1>2, <2>1, Positions
    <2> DEFINE x == renames[i]
    <2>3. /\ renames'[i] = x /\ x \in Calls /\ x \in Range(renames) /\ renames'[j] = c
        BY <2>1, <2>2, Positions
    <2>4. call'[x].before = call[x].before /\ call'[x].by = call[x].by
        BY <2>3, WritersStay
    <2>5. c \in call[x].before /\ call[c].stage = "temporary" /\ call'[c].by = call[c].by
        BY <2>1, <2>3, <2>4 DEF Replaces, Alone
    <2>6. call[c].by # call[x].by
        BY <2>3, <2>5 DEF PastIsDone, Kept
    <2>7. process[call[c].by] = "dropped"
        BY <2>3, <2>5, <2>6 DEF PastIsDone, Over
    <2>8. call[c].by \in Planners
        BY <2>5 DEF StageTells
    <2> HIDE DEF x
    <2> QED BY <2>3, <2>4, <2>5, <2>6, <2>7, <2>8 DEF ProcessesNamed
<1> QED BY <1>1, <1>2

\* An effect is on a call that has no answer yet.
LEMMA EffectsOnOpen ==
    ASSUME \A c \in Calls : StageTells(c), NEW x \in Calls, Effect(x)
    PROVE  /\ Alone(x) /\ call[x].answer = None
           /\ x \in Range(renames) => Confirms(x)
           /\ Reports(x) \/ (None # "ok" => call'[x].answer # "ok")
<1>1. Alone(x)
    BY DEF Effect, Refuses, Admits, Verifies, Plans, Authorizes, Reports, Creates,
           Fails, Replaces, Confirms, Leaves
<1>2. call[x].stage \in NotWritten \cup {"renamed"}
    BY DEF Effect, Refuses, Admits, Verifies, Plans, Authorizes, Reports, Creates,
           Fails, Replaces, Confirms, NotWritten
<1>3. call[x].answer = None
    BY <1>2 DEF StageTells
<1>4. x \in Range(renames) => call[x].stage = "renamed"
    BY <1>2 DEF StageTells
<1>5. call[x].stage = "renamed" => Confirms(x)
    BY DEF Effect, Refuses, Admits, Verifies, Plans, Authorizes, Reports, Creates,
           Fails, Replaces
<1>6. ASSUME None # "ok", ~Reports(x) PROVE call'[x].answer # "ok"
    BY <1>3, <1>6 DEF Effect, Refuses, Admits, Verifies, Plans, Authorizes, Creates,
                      Fails, Replaces, Confirms
<1> QED BY <1>1, <1>3, <1>4, <1>5, <1>6

\* Only a read that reports gets the answer "ok", and what has it keeps what it was told.
LEMMA AnsweredReads ==
    ASSUME Assumption, \A c \in Calls : StageTells(c), Step, NEW c \in Calls,
           call'[c].answer = "ok"
    PROVE  \/ call[c].answer # "ok" /\ Reports(c)
           \/ /\ call[c].answer = "ok"
              /\ call'[c].kwin = call[c].kwin /\ call'[c].request = call[c].request
              /\ call'[c].float = call[c].float /\ call'[c].tile = call[c].tile
              /\ call'[c].before = call[c].before
<1>1. None # "ok"
    BY DEF Assumption, Answers
<1>2. CASE UNCHANGED call
    BY <1>2
<1>3. CASE \E p \in Planners : Ends(p)
    BY <1>3 DEF Ends
<1>4. CASE \E x \in Calls, request \in Requests : Sends(x, request)
    <2>1. PICK x \in Calls, request \in Requests : Sends(x, request)
        BY <1>4
    <2>2. x # c
        BY <1>1, <2>1 DEF Sends
    <2> QED BY <2>1, <2>2 DEF Sends
<1>5. CASE \E x \in Calls : Effect(x)
    <2>1. PICK x \in Calls : Effect(x)
        BY <1>5
    <2>2. CASE x = c
        BY <1>1, <2>1, <2>2, EffectsOnOpen
    <2>3. CASE x # c
        <3>1. call'[c] = call[c]
            BY <2>1, <2>3, EffectsOnOpen DEF Alone
        <3> QED BY <3>1
    <2> QED BY <2>2, <2>3
<1> QED BY <1>2, <1>3, <1>4, <1>5 DEF Step, StartPlanner, DropConnection, StopKWin, StartKWin

\* A write that was over for a reader when it asked is not acknowledged after the
\* reader has its answer.
LEMMA LateAcknowledgements ==
    ASSUME Assumption, TypeOK, \A c \in Calls : StageTells(c), PastIsDone, Step,
           NEW c \in Calls, call[c].answer = "ok", NEW d \in call[c].before,
           d \in Range(renames), call'[d].stage = "answered", call'[d].answer = "stored"
    PROVE  call[d].stage = "answered" /\ call[d].answer = "stored"
<1>1. d \in Calls
    BY CallsTyped DEF CallType
<1>2. CASE UNCHANGED call
    BY <1>2
<1>3. CASE \E p \in Planners : Ends(p)
    <2>1. PICK p \in Planners : Ends(p)
        BY <1>3
    <2> QED BY <1>1, <2>1 DEF Ends
<1>4. CASE \E x \in Calls, request \in Requests : Sends(x, request)
    <2>1. PICK x \in Calls, request \in Requests : Sends(x, request)
        BY <1>4
    <2>2. x # d
        BY <2>1 DEF Sends
    <2> QED BY <1>1, <2>1, <2>2 DEF Sends
<1>5. CASE \E x \in Calls : Effect(x)
    <2>1. PICK x \in Calls : Effect(x)
        BY <1>5
    <2>2. CASE x = d
        <3>1. Confirms(d)
            BY <2>1, <2>2, EffectsOnOpen
        <3>2. call[d].stage = "renamed" /\ process[call[d].by] = "serving"
            BY <3>1 DEF Confirms, Leaves
        <3>3. call[d].by = call[c].by
            BY <3>2 DEF PastIsDone, Over
        <3>4. Kept(c)
            BY <3>2, <3>3 DEF PastIsDone
        <3> QED BY <3>4 DEF Kept
    <2>3. CASE x # d
        <3>1. call'[d] = call[d]
            BY <1>1, <2>1, <2>3, EffectsOnOpen DEF Alone
        <3> QED BY <3>1
    <2> QED BY <2>2, <2>3
<1> QED BY <1>2, <1>3, <1>4, <1>5 DEF Step, StartPlanner, DropConnection, StopKWin, StartKWin

\* A step keeps what the reads said of the writes.
LEMMA ReadsStep ==
    ASSUME Assumption, TypeOK, TypeOK', \A c \in Calls : StageTells(c), RenamesLeaveAFile,
           FileComesFromOwner, PastIsDone, ReadsReflectWrites, Step
    PROVE  ReadsReflectWrites'
<1> DEFINE Acked(c, d) == /\ d \in call[c].before
                          /\ call[d].stage = "answered" /\ call[d].answer = "stored"
<1> SUFFICES ASSUME NEW c \in Calls, call'[c].request # None, call'[c].answer = "ok"
             PROVE  \E i \in 0..Len(renames') :
                       /\ Reads(c, i)'
                       /\ \A j \in i + 1 .. Len(renames') : ~Acked(c, renames[j])'
    BY DEF ReadsReflectWrites
<1>1. /\ Len(renames) \in Nat
      /\ \A i \in 1..Len(renames) : renames'[i] = renames[i] /\ renames[i] \in Calls
                                    /\ renames[i] \in Range(renames)
    BY Positions
<1>2. ASSUME NEW i \in 0..Len(renames), Reads(c, i),
             call'[c].kwin = call[c].kwin, call'[c].request = call[c].request,
             call'[c].float = call[c].float, call'[c].tile = call[c].tile
      PROVE  Reads(c, i)'
    <2>1. CASE i = 0
        BY <1>2, <2>1 DEF Reads
    <2>2. CASE i # 0
        <3>1. i \in 1..Len(renames)
            BY <1>1, <2>2
        <3>2. /\ renames'[i] = renames[i]
              /\ call'[renames[i]].kwin = call[renames[i]].kwin
              /\ call'[renames[i]].request = call[renames[i]].request
            BY <1>1, <3>1, WritersStay
        <3> QED BY <1>2, <2>2, <3>2 DEF Reads
    <2> QED BY <2>1, <2>2
<1>3. CASE call[c].answer # "ok"
    <2>1. Reports(c)
        BY <1>3, AnsweredReads
    <2>2. UNCHANGED <<file, renames, directory>> /\ Alone(c)
        BY <2>1 DEF Reports, Leaves, diskVars
    <2>3. CASE /\ directory = "missing" \/ file.kind = "absent"
               /\ call'[c].float = {} /\ call'[c].tile = {}
        <3>1. renames = << >>
            BY <2>3 DEF RenamesLeaveAFile
        <3>3. Len(renames') = 0
            BY <2>2, <3>1
        <3>4. Reads(c, 0)'
            BY <2>3 DEF Reads
        <3> QED BY <3>3, <3>4
    <2>4. CASE /\ file.kind = "snapshot" /\ SameNamespace(c)
               /\ call'[c].float = file.snapshot.float \cap call[c].request.float
               /\ call'[c].tile = file.snapshot.tile \cap call[c].request.float
        <3> DEFINE w == call[renames[Len(renames)]]
        <3>1. /\ file.kind = "snapshot" /\ file.snapshot.namespace = call[c].namespace
              /\ call'[c].float = file.snapshot.float \cap call[c].request.float
              /\ call'[c].tile = file.snapshot.tile \cap call[c].request.float
            BY <2>4 DEF SameNamespace
        <3>2. call[c].namespace = call[c].kwin /\ call[c].kwin # 0
            BY <2>1 DEF Reports, StageTells
        <3>3. /\ renames # << >>
              /\ file.snapshot = Snapshot(w.kwin, w.request.float, w.request.tile)
            BY <3>1, <3>2 DEF FileComesFromOwner
        <3>4. Len(renames) \in 1..Len(renames)
            BY <3>3 DEF TypeOK
        <3>5. /\ w.kwin = call[c].kwin
              /\ file.snapshot.float = w.request.float /\ file.snapshot.tile = w.request.tile
            BY <3>1, <3>2, <3>3 DEF Snapshot
        <3>6. /\ call'[renames[Len(renames)]].kwin = w.kwin
              /\ call'[renames[Len(renames)]].request = w.request
            BY <1>1, <3>4, WritersStay
        <3>7. call'[c].kwin = call[c].kwin /\ call'[c].request = call[c].request
            BY <2>2 DEF Alone
        <3>8. Len(renames) # 0
            BY <3>4
        <3>9. Reads(c, Len(renames))'
            BY <2>2, <3>1, <3>5, <3>6, <3>7, <3>8 DEF Reads
        <3> QED BY <1>1, <2>2, <3>4, <3>9
    <2> QED BY <2>1, <2>3, <2>4 DEF Reports
<1>4. CASE call[c].answer = "ok"
    <2>1. PICK i \in 0..Len(renames) :
             Reads(c, i) /\ \A j \in i + 1 .. Len(renames) : ~Acked(c, renames[j])
        <3>1. call[c].request # None
            BY <1>4, AnsweredReads
        <3> QED BY <1>4, <3>1 DEF ReadsReflectWrites
    <2>2. /\ call'[c].kwin = call[c].kwin /\ call'[c].request = call[c].request
          /\ call'[c].float = call[c].float /\ call'[c].tile = call[c].tile
          /\ call'[c].before = call[c].before
        BY <1>4, AnsweredReads
    <2>3. Reads(c, i)'
        BY <1>2, <2>1, <2>2
    <2>4. ASSUME NEW j \in i + 1 .. Len(renames'), Acked(c, renames[j])'
          PROVE  FALSE
        <3>1. CASE j \in 1..Len(renames)
            <4>1. renames'[j] = renames[j] /\ renames[j] \in Range(renames)
                BY <1>1, <3>1
            <4>2. Acked(c, renames[j])
                BY <1>4, <2>2, <2>4, <4>1, LateAcknowledgements
            <4>3. j \in i + 1 .. Len(renames)
                BY <1>1, <2>4, <3>1
            <4> QED BY <2>1, <4>2, <4>3
        <3>2. CASE j \notin 1..Len(renames)
            <4>1. Len(renames') \in Nat /\ j >= 1 /\ j \in 1..Len(renames')
                BY <2>4 DEF TypeOK
            <4>2. PICK x \in Calls : Replaces(x) /\ Len(renames') = Len(renames) + 1
                                       /\ renames'[Len(renames) + 1] = x
                BY <1>1, <2>4, <3>2, <4>1, Positions
            <4>3. j = Len(renames) + 1
                BY <1>1, <3>2, <4>1, <4>2
            <4>4. call'[x].stage = "renamed"
                BY <4>2 DEF Replaces
            <4> QED BY <2>4, <4>2, <4>3, <4>4
        <3> QED BY <3>1, <3>2
    <2>5. i \in 0..Len(renames')
        <3>1. Len(renames') \in {Len(renames), Len(renames) + 1}
            BY Positions
        <3> QED BY <1>1, <3>1
    <2> QED BY <2>3, <2>4, <2>5
<1> QED BY <1>3, <1>4
----------------------------------------------------------------------------
\* Sessions that a panic left half changed are replaced before a plan uses them.
LEMMA SessionsStep ==
    ASSUME Assumption, TypeOK, TornSessionsNeverUsed, Step
    PROVE  TornSessionsNeverUsed'
<1> USE DEF TornSessionsNeverUsed
<1>1. CASE UNCHANGED call
    BY <1>1
<1>2. CASE \E p \in Planners : Ends(p)
    BY <1>2 DEF Ends
<1>3. ASSUME NEW c \in Calls, NEW request \in Requests, Sends(c, request)
      PROVE  TornSessionsNeverUsed'
    BY <1>3 DEF Sends, Assumption
<1>4. ASSUME NEW c \in Calls, Effect(c) PROVE TornSessionsNeverUsed'
    <2>1. \A d \in Calls \ {c} : call'[d] = call[d]
        BY <1>4 DEF Effect, Refuses, Admits, Verifies, Plans, Authorizes, Reports, Creates,
                    Fails, Replaces, Confirms, Leaves, Alone
    <2>2. call'[c].sessions \in {call[c].sessions, SessionsFor(call[c].by)}
        BY <1>4 DEF Effect, Refuses, Admits, Verifies, Plans, Authorizes, Reports, Creates,
                    Fails, Replaces, Confirms
    <2>3. SessionsFor(call[c].by) # "torn"
        BY DEF SessionsFor
    <2> QED BY <2>1, <2>2, <2>3
<1> QED BY <1>1, <1>2, <1>3, <1>4 DEF Step, StartPlanner, DropConnection, StopKWin, StartKWin

-----------------------------------------------------------------------------
(* The theorems.                                                           *)

\* No call was made, no process runs and the store has what it had.
LEMMA InitInv == Assumption /\ Init => Inv
<1> SUFFICES ASSUME Assumption, Init PROVE Inv
    OBVIOUS
<1>1. TypeOK
    BY InitTypeOK
<1>2. /\ renames = << >> /\ Range(renames) = {} /\ DOMAIN renames = {} /\ temps = {}
      /\ \A c \in Calls : call[c] = Idle
    BY DEF Init, Range
<1>3. \A c \in Calls : StageTells(c)
    BY <1>2 DEF StageTells, Idle, InService, NotWritten
<1>4. LocksMatchCalls
    BY <1>2 DEF LocksMatchCalls, Holds, Idle, InService, Init, Assumption
<1>5. TempsAccounted
    <2>1. \A c \in Calls : call[c].temp = 0
        BY <1>2 DEF Idle
    <2> QED BY <1>2, <2>1 DEF TempsAccounted
<1>6. FileComesFromOwner
    BY DEF FileComesFromOwner, Init, Unwritten, Written, Snapshot
<1>7. AnswersTellTheTruth
    BY <1>2 DEF AnswersTellTheTruth, Idle, Refusals, Answers, Assumption, IsInjective
<1>8. ProcessesNamed
    BY DEF ProcessesNamed, Running, Init, Assumption
<1>9. RenamesLeaveAFile
    BY <1>2 DEF RenamesLeaveAFile
<1>10. PastIsDone
    BY <1>2 DEF PastIsDone, Idle
<1>11. SnapshotsInOrder
    BY <1>2 DEF SnapshotsInOrder, WritesKeepOrder, ReadsReflectWrites, Idle
<1>12. TornSessionsNeverUsed
    BY <1>2 DEF TornSessionsNeverUsed, Idle, Assumption
<1> QED BY <1>1, <1>3, <1>4, <1>5, <1>6, <1>7, <1>8, <1>9, <1>10, <1>11, <1>12 DEF Inv

\* Whatever the processes, KWin and the bus do, a step keeps the invariant.
LEMMA InvStep ==
    ASSUME Assumption, Inv, [Next]_vars
    PROVE  Inv'
<1> USE DEF Inv
<1>1. CASE Next
    <2>1. Step
        BY <1>1, StepEffect
    <2>2. TypeOK'
        BY <2>1, TypeStep
    <2>3. \A c \in Calls : StageTells(c)'
        BY <2>1, StageStep
    <2>4. LocksMatchCalls' /\ TempsAccounted' /\ FileComesFromOwner'
        BY <2>1, LocksStep, TempsStep, OwnerStep
    <2>5. AnswersTellTheTruth' /\ ProcessesNamed' /\ RenamesLeaveAFile' /\ PastIsDone'
        BY <2>1, AnswersStep, ProcessesStep, FileStep, PastStep
    <2>6. SnapshotsInOrder'
        BY <2>1, <2>2, OrderStep, ReadsStep DEF SnapshotsInOrder
    <2>7. TornSessionsNeverUsed'
        BY <2>1, SessionsStep
    <2> QED BY <2>2, <2>3, <2>4, <2>5, <2>6, <2>7
<1>2. CASE UNCHANGED vars
    <2> USE <1>2 DEF vars, processVars, kwinVars, lockVars, diskVars
    <2>1. TypeOK' /\ LocksMatchCalls' /\ TornSessionsNeverUsed'
        BY DEF TypeOK, LocksMatchCalls, Holds, TornSessionsNeverUsed
    <2>2. \A c \in Calls : StageTells(c)'
        BY DEF StageTells, Running
    <2>3. TempsAccounted' /\ FileComesFromOwner' /\ AnswersTellTheTruth'
        BY DEF TempsAccounted, FileComesFromOwner, AnswersTellTheTruth
    <2>4. ProcessesNamed' /\ RenamesLeaveAFile' /\ PastIsDone'
        BY DEF ProcessesNamed, Running, RenamesLeaveAFile, PastIsDone, CallerConnected, Kept
    <2>5. SnapshotsInOrder'
        BY DEF SnapshotsInOrder, WritesKeepOrder, ReadsReflectWrites, Reads
    <2> QED BY <2>1, <2>2, <2>3, <2>4, <2>5
<1> QED BY <1>1, <1>2

\* The inductive invariant holds in every behaviour of the service.
THEOREM Invariance ==
    ASSUME Assumption
    PROVE  Spec => []Inv
<1>1. Init => Inv
    BY InitInv
<1>2. Inv /\ [Next]_vars => Inv'
    BY InvStep
<1> QED BY <1>1, <1>2, PTL DEF Spec

\* At most one plan and one intent call are in service at a planner, and a lock is
\* free as soon as no call is in service under it: no early return, disconnect,
\* panic or restart leaks a guard; a plan never uses sessions a panic tore.
THEOREM Guards ==
    ASSUME Assumption
    PROVE  Spec => []GuardsReleased
<1>1. Inv => GuardsReleased
    BY DEF Inv, GuardsReleased
<1> QED BY <1>1, Invariance, PTL

\* Variables have their types, the file is a snapshot of the KWin it is filed under,
\* and every temporary file on disk is of one call that did not finish with it.
THEOREM Accounting ==
    ASSUME Assumption
    PROVE  Spec => []FilesAccounted
<1>1. Inv => FilesAccounted
    BY DEF Inv, FilesAccounted
<1> QED BY <1>1, Invariance, PTL

\* What is answered "stored" was written, what is refused was not, and no call writes
\* twice.
THEOREM Truthfulness ==
    ASSUME Assumption
    PROVE  Spec => []AnswersTellTheTruth
<1>1. Inv => AnswersTellTheTruth
    BY DEF Inv
<1> QED BY <1>1, Invariance, PTL

\* A write never replaces the snapshot of a later one, unless its planner outlived its
\* connection, and a read never misses a write acknowledged before it was sent.
THEOREM Ordering ==
    ASSUME Assumption
    PROVE  Spec => []SnapshotsInOrder
<1>1. Inv => SnapshotsInOrder
    BY DEF Inv
<1> QED BY <1>1, Invariance, PTL

\* A plan is turned away as busy only while another plan is in service at the same
\* planner, never because of an intent call.
THEOREM PlansWaitForPlans ==
    ASSUME Assumption
    PROVE  Spec => PlanBusyOnlyByPlan
<1> DEFINE Busy == \A c \in Calls :
                      call[c].stage = "sent" /\ call'[c].answer = "busy"
                        /\ call[c].request.method = "plan" =>
                      \E d \in Calls : Holds(d, call[c].by, {"plan"})
<1>1. ASSUME Inv, Step PROVE Busy
    <2> SUFFICES ASSUME NEW c \in Calls, call[c].stage = "sent", call'[c].answer = "busy",
                        call[c].request.method = "plan"
                 PROVE  \E d \in Calls : Holds(d, call[c].by, {"plan"})
        OBVIOUS
    <2>1. /\ call[c].answer = None /\ None # "busy" /\ call[c].by \in Planners
        BY <1>1 DEF Inv, StageTells, NotWritten, Assumption, Answers
    <2>2. Refuses(c)
        <3>1. PICK x \in Calls : Effect(x)
            BY <1>1, <2>1 DEF Step, StartPlanner, DropConnection, StopKWin, StartKWin, Ends,
                              Sends
        <3>2. x = c
            BY <1>1, <2>1, <3>1, EffectsOnOpen DEF Inv, Alone
        <3> QED BY <2>1, <3>1, <3>2 DEF Effect, Admits, Verifies, Plans, Authorizes,
                                        Reports, Creates, Fails, Replaces, Confirms
    <2>3. planLock[call[c].by] # None
        BY <2>2 DEF Refuses, LockOf
    <2>4. planLock[call[c].by] \in Calls
        BY <1>1, <2>1, <2>3 DEF Inv, TypeOK
    <2> QED BY <1>1, <2>1, <2>4 DEF Inv, LocksMatchCalls
<1>2. Inv /\ [Next]_vars => [Busy]_vars
    BY <1>1, StepEffect DEF Inv
<1>3. Spec => [][Busy]_vars
    BY <1>2, Invariance, PTL DEF Spec
<1> QED BY <1>3 DEF PlanBusyOnlyByPlan

=============================================================================
