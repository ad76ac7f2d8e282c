------------------------------ MODULE HideLedger ------------------------------
(* How the Windows host hides windows without losing them                     *)
(* (src/crates/tiler-windows/src: product_hide.rs, lifecycle.rs, storage.rs). *)
(*                                                                            *)
(* A run of the program (one process) takes the lease of the ledger, commits  *)
(* an empty ledger under its own identity and starts a watcher process before *)
(* it hides anything.  To hide a window it puts a fresh tag on it, writes a   *)
(* note into the ledger and only then posts the hide, which the program that  *)
(* owns the window carries out when it next serves its queue.  To reveal one  *)
(* it posts the show, waits, takes the tag off and strikes the note.  Whoever *)
(* dies in between leaves the ledger for the watcher or for the next run.     *)
(*                                                                            *)
(* A window handle may be destroyed and given to another window at any time,  *)
(* of the same process or of another; a tag lives as long as its window.      *)
EXTENDS Integers, FiniteSets, Sequences

CONSTANTS
  Hwnds,      \* window handles
  Programs,   \* the processes that own windows
  Lives,      \* how many runs of the tiler may be started, one after another or at once
  MaxTags,    \* bound: tags drawn in a behaviour (a tag is 64 random bits, drawn anew)
  MaxWindows, \* bound: windows created in a behaviour
  MaxShows,   \* bound: times a program shows a hidden window itself
  MaxQueue    \* bound: requests waiting at one window; a post waits for room

Assumption == /\ Lives \in Nat \ {0} /\ MaxTags \in Nat /\ MaxWindows \in Nat
              /\ MaxShows \in Nat /\ MaxQueue \in Nat \ {0}

VARIABLES
  window,   \* [Hwnds -> the window behind the handle, or NoWindow]
  ledger,   \* the committed ledger: its owner and its notes, or NoLedger
  lease,    \* the agent that holds the lock file, or Nobody
  owner,    \* [Runs -> where the run is in its life]
  watcher,  \* [Runs -> where the watcher of the run is]
  ready,    \* the runs whose watcher-ready marker is on disk
  held,     \* [Runs -> the claims the run remembers as hidden] (hidden_claims)
  job,      \* [Agents -> the window operation the agent is in the middle of]
  todo,     \* [Agents -> the claims a restore or a teardown still has to reveal]
  doubt,    \* the agents whose teardown or restore met an uncertain window
  drawn,    \* tags drawn so far
  made,     \* windows created so far
  shows,    \* shows by the programs themselves so far
  stray     \* history: tags whose hide may land when nobody waits for it: it outlived its
            \* wait, or the handle changed hands before the post

vars == <<window, ledger, lease, owner, watcher, ready, held, job, todo, doubt,
          drawn, made, shows, stray>>

Runs == 1..Lives
Agents == {"owner", "watcher"} \X Runs
Nobody == <<"none", 0>>
NoTag == 0
Tags == 1..MaxTags
NoWindow == [program |-> "none", tag |-> NoTag, hider |-> NoTag, queue |-> <<>>]
NoLedger == [owner |-> 0, notes |-> {}]
Claims == [hwnd: Hwnds, program: Programs, tag: Tags]
NoJob == [kind |-> "none", step |-> "idle",
          claim |-> [hwnd |-> "none", program |-> "none", tag |-> NoTag]]

(* A window is hidden by the hide of one claim; a program's own show undoes it. *)
Exists(h) == window[h] # NoWindow
Visible(h) == Exists(h) /\ window[h].hider = NoTag
Queued(h, cmd) == Exists(h) /\ \E i \in DOMAIN window[h].queue : window[h].queue[i].cmd = cmd

(* The window behind the handle of a claim is the claimed one: the process   *)
(* and the tag both agree.                                                   *)
Matches(c) == /\ Exists(c.hwnd)
              /\ window[c.hwnd].program = c.program
              /\ window[c.hwnd].tag = c.tag

Alive(r) == owner[r] \notin {"unborn", "dead"}
WatcherReady(r) == r \in ready /\ watcher[r] = "watching"
Named(c) == ledger # NoLedger /\ c \in ledger.notes
ClaimOf(h) == [hwnd |-> h, program |-> window[h].program, tag |-> window[h].hider]

Init ==
  /\ window \in [Hwnds -> {NoWindow} \cup
                   {[NoWindow EXCEPT !.program = p] : p \in Programs}]
  /\ ledger = NoLedger /\ lease = Nobody
  /\ owner = [r \in Runs |-> "unborn"] /\ watcher = [r \in Runs |-> "none"]
  /\ ready = {} /\ held = [r \in Runs |-> {}]
  /\ job = [a \in Agents |-> NoJob] /\ todo = [a \in Agents |-> {}]
  /\ doubt = {} /\ drawn = 0 /\ made = 0 /\ shows = 0 /\ stray = {}

-----------------------------------------------------------------------------
(* The programs that own the windows                                          *)

desktopVars == <<ledger, lease, owner, watcher, ready, held, job, todo, doubt, drawn, stray>>

(* A program serves the oldest request posted to its window. *)
Served(w) == [w EXCEPT !.queue = Tail(w.queue),
                       !.hider = IF Head(w.queue).cmd = "hide" THEN Head(w.queue).tag ELSE NoTag]
ServeQueue(h) ==
  /\ Exists(h) /\ window[h].queue # <<>>
  /\ window' = [window EXCEPT ![h] = Served(window[h])]
  /\ UNCHANGED <<desktopVars, made, shows>>

(* The program shows its own window again. *)
ProgramShows(h) ==
  /\ Exists(h) /\ ~Visible(h) /\ shows < MaxShows
  /\ window' = [window EXCEPT ![h].hider = NoTag]
  /\ shows' = shows + 1
  /\ UNCHANGED <<desktopVars, made>>

(* A window is destroyed; its tag and its queue go with it. *)
DestroyWindow(h) ==
  /\ Exists(h)
  /\ window' = [window EXCEPT ![h] = NoWindow]
  /\ UNCHANGED <<desktopVars, made, shows>>

(* A new window appears behind a free handle. *)
CreateWindow(h, p) ==
  /\ ~Exists(h) /\ made < MaxWindows
  /\ window' = [window EXCEPT ![h] = [NoWindow EXCEPT !.program = p]]
  /\ made' = made + 1
  /\ UNCHANGED <<desktopVars, shows>>

-----------------------------------------------------------------------------
(* Parts of the operations                                                    *)

(* commit_windows under remove_product_note: the note of the handle leaves    *)
(* the ledger, which must be there and belong to this owner.                  *)
StrikeNote(h) == ledger' = [ledger EXCEPT !.notes = {c \in @ : c.hwnd # h}]

(* append_product_claim: a second note for a handle is refused. *)
MayNote(r, c) ==
  /\ ledger # NoLedger /\ ledger.owner = r
  /\ \A n \in ledger.notes : n.hwnd # c.hwnd

(* post_visibility, its first half: the request enters the window's queue. *)
Post(h, cmd, t) ==
  /\ Len(window[h].queue) < MaxQueue
  /\ window' = [window EXCEPT ![h].queue = Append(@, [cmd |-> cmd, tag |-> t])]

(* remove_nonce_checked: the tag leaves only the window that carries it. *)
WithoutTag(c) ==
  IF Matches(c) THEN [window EXCEPT ![c.hwnd].tag = NoTag] ELSE window

(* maybe_cleanup_orphan: the tag of an admission that never reached the ledger *)
(* is taken off, unless a note about the same handle is in the ledger.         *)
CleanOrphan(r, c) ==
  IF ledger # NoLedger /\ ledger.owner = r /\ \A n \in ledger.notes : n.hwnd # c.hwnd
  THEN WithoutTag(c) ELSE window

Step(a, s) == job' = [job EXCEPT ![a].step = s]
Done(a) == job' = [job EXCEPT ![a] = NoJob]

(* The owner of the ledger an agent works on: its own for a run, the dead     *)
(* owner's for a restore.  Strikes by anybody else are refused by the commit. *)
Working(a, kind, step) ==
  /\ job[a].kind = kind /\ job[a].step = step /\ lease = a

-----------------------------------------------------------------------------
(* Hiding a window (workspace_hide_one: admit_managed_claim_for_hide, then    *)
(* hide_managed_claim)                                                        *)

Idle(r) == owner[r] = "running" /\ job[<<"owner", r>>] = NoJob

(* classify_candidate_for_hide and install_nonce: a visible window without a  *)
(* tag gets a fresh one.                                                      *)
Admit(r, h) ==
  /\ Idle(r) /\ Visible(h) /\ window[h].tag = NoTag /\ drawn < MaxTags
  /\ drawn' = drawn + 1
  /\ window' = [window EXCEPT ![h].tag = drawn']
  /\ job' = [job EXCEPT ![<<"owner", r>>] =
       [kind |-> "hide", step |-> "verify",
        claim |-> [hwnd |-> h, program |-> window[h].program, tag |-> drawn']]]
  /\ UNCHANGED <<ledger, lease, owner, watcher, ready, held, todo, doubt, made, shows, stray>>

hideVars == <<lease, owner, watcher, ready, todo, doubt, drawn, made, shows>>

(* Without a live watcher, or when the window is not the admitted one any     *)
(* more, the admission is undone and nothing is hidden; an unreadable window  *)
(* keeps its tag.                                                             *)
VerifyHide(r) ==
  LET a == <<"owner", r>>
      c == job[a].claim
  IN /\ Working(a, "hide", "verify")
     /\ \/ /\ WatcherReady(r) /\ Matches(c) /\ Visible(c.hwnd)
           /\ Step(a, "note") /\ UNCHANGED window
        \/ /\ ~(WatcherReady(r) /\ Matches(c) /\ Visible(c.hwnd))
           /\ Done(a) /\ window' = CleanOrphan(r, c)
        \/ Done(a) /\ UNCHANGED window
     /\ UNCHANGED <<hideVars, ledger, held, stray>>

(* The note is committed before the window is touched. *)
NoteHide(r) ==
  LET a == <<"owner", r>>
      c == job[a].claim
  IN /\ Working(a, "hide", "note")
     /\ \/ /\ MayNote(r, c)
           /\ ledger' = [ledger EXCEPT !.notes = @ \cup {c}]
           /\ Step(a, "post") /\ UNCHANGED window
        \/ /\ ~MayNote(r, c)
           /\ Done(a) /\ window' = CleanOrphan(r, c) /\ UNCHANGED ledger
     /\ UNCHANGED <<hideVars, held, stray>>

(* workspace_hide_one after hide_managed_claim: whatever the result, a claim  *)
(* that is in the ledger is remembered.                                       *)
Remember(r, c) ==
  held' = [held EXCEPT ![r] = IF Named(c) THEN @ \cup {c} ELSE @]

(* The wait of a hide ends, one way or another: the request may still be      *)
(* queued.                                                                    *)
LeaveWait(a) ==
  stray' = IF job[a].kind \in {"hide", "rehide"} /\ job[a].step = "await"
              /\ Queued(job[a].claim.hwnd, "hide")
           THEN stray \cup {job[a].claim.tag} ELSE stray

(* Whatever window is behind the handle by now gets the request. *)
PostHideOf(c) ==
  /\ Exists(c.hwnd) /\ Post(c.hwnd, "hide", c.tag)
  /\ stray' = IF Matches(c) THEN stray ELSE stray \cup {c.tag}

PostHide(r) ==
  LET a == <<"owner", r>>
      c == job[a].claim
  IN /\ Working(a, "hide", "post")
     /\ \/ PostHideOf(c) /\ Step(a, "await") /\ UNCHANGED held
        \/ ~Exists(c.hwnd) /\ Done(a) /\ Remember(r, c) /\ UNCHANGED <<window, stray>>
     /\ UNCHANGED <<hideVars, ledger>>

(* post_visibility, its wait: the window is gone and its note is struck, or   *)
(* the hide is seen, or two seconds pass and the ledger keeps the note.       *)
AwaitHide(r) ==
  LET a == <<"owner", r>>
      c == job[a].claim
  IN /\ Working(a, "hide", "await") /\ Done(a)
     /\ \/ ~Exists(c.hwnd) /\ StrikeNote(c.hwnd) /\ UNCHANGED held
        \/ Exists(c.hwnd) /\ Remember(r, c) /\ UNCHANGED ledger
     /\ LeaveWait(a)
     /\ UNCHANGED <<hideVars, window>>

-----------------------------------------------------------------------------
(* Revealing a claim (reveal_product_claim_to).  A run reveals one claim      *)
(* ("reveal"), drops one that is no longer its window ("retire"), or reveals  *)
(* all of them as it ends ("tear"); a restore reveals those of a dead owner   *)
(* ("restore").                                                               *)

RevealKinds == {"reveal", "retire", "tear", "restore"}
Revealing(a, step) == job[a].kind \in RevealKinds /\ job[a].step = step /\ lease = a

(* A reveal that succeeded leaves the claim forgotten.  One that is uncertain *)
(* keeps the note: a run goes on, a teardown goes on with the next claim and  *)
(* leaves its watcher running, a restore stops.                               *)
Forget(a, c) == held' = [held EXCEPT ![a[2]] = @ \ {c}]
Revealed(a) ==
  LET c == job[a].claim
  IN Done(a) /\ Forget(a, c) /\ todo' = [todo EXCEPT ![a] = @ \ {c}] /\ UNCHANGED doubt
(* A mutant: a restore tries an uncertain window again. *)
UncertainRetried(a) ==
  LET c == job[a].claim
  IN /\ Done(a)
     /\ IF job[a].kind = "retire" THEN Forget(a, c) ELSE UNCHANGED held
     /\ UNCHANGED doubt
     /\ todo' = IF job[a].kind = "restore" THEN todo ELSE [todo EXCEPT ![a] = @ \ {c}]

Uncertain(a) ==
  LET c == job[a].claim
  IN /\ Done(a)
     /\ IF job[a].kind = "retire" THEN Forget(a, c) ELSE UNCHANGED held
     /\ todo' = [todo EXCEPT ![a] = @ \ {c}]
     /\ doubt' = IF job[a].kind \in {"tear", "restore"} THEN doubt \cup {a} ELSE doubt

revealVars == <<lease, owner, watcher, ready, drawn, made, shows, stray>>

(* The fresh reading: a window that is not the claimed one is never touched,  *)
(* a visible one only loses its tag, an unreadable one is uncertain.          *)
ReadReveal(a) ==
  LET c == job[a].claim
  IN /\ Revealing(a, "read")
     /\ \/ ~Matches(c) /\ StrikeNote(c.hwnd) /\ Revealed(a)
        \/ /\ Matches(c) /\ UNCHANGED <<ledger, held, todo, doubt>>
           /\ Step(a, IF Visible(c.hwnd) THEN "untag" ELSE "post")
        \/ Exists(c.hwnd) /\ Uncertain(a) /\ UNCHANGED ledger
     /\ UNCHANGED <<revealVars, window>>

PostReveal(a) ==
  LET c == job[a].claim
  IN /\ Revealing(a, "post")
     /\ \/ /\ Exists(c.hwnd) /\ Post(c.hwnd, "show", c.tag)
           /\ Step(a, "await") /\ UNCHANGED <<held, todo, doubt>>
        \/ ~Exists(c.hwnd) /\ Uncertain(a) /\ UNCHANGED window
     /\ UNCHANGED <<revealVars, ledger>>

(* The wait for the window to show, and the reading after it. *)
AwaitReveal(a) ==
  LET c == job[a].claim
  IN /\ Revealing(a, "await")
     /\ \/ ~Exists(c.hwnd) /\ StrikeNote(c.hwnd) /\ Revealed(a)
        \/ /\ Matches(c) /\ Visible(c.hwnd) /\ Step(a, "untag")
           /\ UNCHANGED <<ledger, held, todo, doubt>>
        \/ Exists(c.hwnd) /\ Uncertain(a) /\ UNCHANGED ledger
     /\ UNCHANGED <<revealVars, window>>

UntagRevealed(a) ==
  LET c == job[a].claim
  IN /\ Revealing(a, "untag")
     /\ \/ window' = WithoutTag(c) /\ Step(a, "strike") /\ UNCHANGED <<held, todo, doubt>>
        \/ Exists(c.hwnd) /\ Uncertain(a) /\ UNCHANGED window
     /\ UNCHANGED <<revealVars, ledger>>

StrikeRevealed(a) ==
  /\ Revealing(a, "strike") /\ StrikeNote(job[a].claim.hwnd) /\ Revealed(a)
  /\ UNCHANGED <<revealVars, window>>

Reveal(a) == ReadReveal(a) \/ PostReveal(a) \/ AwaitReveal(a) \/ UntagRevealed(a)
             \/ StrikeRevealed(a)

startVars == <<window, ledger, lease, owner, watcher, ready, held, doubt, drawn, made,
               shows, stray>>
StartJob(a, kind, step, c) ==
  job' = [job EXCEPT ![a] = [kind |-> kind, step |-> step, claim |-> c]]

(* workspace_do_select reveals a remembered claim; audit_hidden_claims and    *)
(* rehide_pass drop one whose window is another one now.                      *)
RevealClaim(r) ==
  /\ Idle(r) /\ \E c \in held[r] :
       StartJob(<<"owner", r>>, IF Matches(c) THEN "reveal" ELSE "retire", "read", c)
  /\ UNCHANGED <<startVars, todo>>

-----------------------------------------------------------------------------
(* rehide_pass: a claimed window that its program shows is hidden again.      *)

Rehide(r) ==
  /\ Idle(r)
  /\ \E c \in held[r] : /\ Matches(c) /\ Visible(c.hwnd)
                        /\ StartJob(<<"owner", r>>, "rehide", "post", c)
  /\ UNCHANGED <<startVars, todo>>

PostRehide(r) ==
  LET a == <<"owner", r>>
      c == job[a].claim
  IN /\ Working(a, "rehide", "post")
     /\ \/ PostHideOf(c) /\ Step(a, "await")
        \/ ~Exists(c.hwnd) /\ Done(a) /\ UNCHANGED <<window, stray>>
     /\ UNCHANGED <<hideVars, ledger, held>>

(* A window that vanished meanwhile is handed to the reveal, which retires it. *)
AwaitRehide(r) ==
  LET a == <<"owner", r>>
      c == job[a].claim
  IN /\ Working(a, "rehide", "await")
     /\ \/ Exists(c.hwnd) /\ Done(a)
        \/ ~Exists(c.hwnd) /\ StartJob(a, "retire", "read", c)
     /\ LeaveWait(a)
     /\ UNCHANGED <<hideVars, window, ledger, held>>

-----------------------------------------------------------------------------
(* Restoring what a dead owner left (restore_under_lease)                     *)

(* The ledger's owner must be dead, and must be the one the watcher watched.  *)
OwnerDead == ~Alive(ledger.owner)

(* The claims are taken one after another, each with its own strike. *)
NextRestore(a, kind) ==
  /\ lease = a /\ job[a] = NoJob /\ a \notin doubt
  /\ \E c \in todo[a] : StartJob(a, kind, "read", c)
  /\ UNCHANGED <<startVars, todo>>

-----------------------------------------------------------------------------
(* The life of a run (run_product: reclaim_dead_residue, then run_guarded)    *)

Boot(r) ==
  /\ owner[r] = "unborn" /\ (r > 1 => owner[r - 1] # "unborn")
  /\ owner' = [owner EXCEPT ![r] = "peeking"]
  /\ UNCHANGED <<window, ledger, lease, watcher, ready, held, job, todo, doubt, drawn,
                 made, shows, stray>>

runVars == <<window, watcher, ready, held, job, drawn, made, shows, stray>>

(* reclaim_dead_residue: the ledger is read without the lease. *)
PeekResidue(r) ==
  /\ owner[r] = "peeking"
  /\ owner' = [owner EXCEPT ![r] =
       IF ledger # NoLedger /\ OwnerDead THEN "reclaiming" ELSE "opening"]
  /\ UNCHANGED <<runVars, ledger, lease, todo, doubt>>

(* cmd_restore: a store held by somebody else is left alone, and under the    *)
(* lease everything is checked again.                                         *)
TakeResidue(r) ==
  LET a == <<"owner", r>>
  IN /\ owner[r] = "reclaiming"
     /\ \/ /\ lease # Nobody
           /\ owner' = [owner EXCEPT ![r] = "opening"] /\ UNCHANGED <<lease, todo>>
        \/ /\ lease = Nobody /\ ledger = NoLedger
           /\ owner' = [owner EXCEPT ![r] = "opening"] /\ UNCHANGED <<lease, todo>>
        \/ /\ lease = Nobody /\ ledger # NoLedger /\ ~OwnerDead
           /\ owner' = [owner EXCEPT ![r] = "dead"] /\ UNCHANGED <<lease, todo>>
        \/ /\ lease = Nobody /\ ledger # NoLedger /\ OwnerDead
           /\ lease' = a /\ todo' = [todo EXCEPT ![a] = ledger.notes]
           /\ owner' = [owner EXCEPT ![r] = "restoring"]
     /\ UNCHANGED <<runVars, ledger, doubt>>

(* A mutant: the ledger goes although a claim was uncertain. *)
EndReclaimRegardless(r) ==
  LET a == <<"owner", r>>
  IN /\ owner[r] = "restoring" /\ job[a] = NoJob /\ (todo[a] = {} \/ a \in doubt)
     /\ ledger' = NoLedger /\ owner' = [owner EXCEPT ![r] = "opening"]
     /\ lease' = Nobody /\ todo' = [todo EXCEPT ![a] = {}] /\ doubt' = doubt \ {a}
     /\ UNCHANGED runVars

(* All claims revealed: the ledger file goes.  An uncertain one: it stays and *)
(* the start fails.                                                           *)
EndReclaim(r) ==
  LET a == <<"owner", r>>
  IN /\ owner[r] = "restoring" /\ job[a] = NoJob
     /\ \/ /\ a \notin doubt /\ todo[a] = {}
           /\ ledger' = NoLedger /\ owner' = [owner EXCEPT ![r] = "opening"]
        \/ /\ a \in doubt
           /\ owner' = [owner EXCEPT ![r] = "dead"] /\ UNCHANGED ledger
     /\ lease' = Nobody /\ todo' = [todo EXCEPT ![a] = {}] /\ doubt' = doubt \ {a}
     /\ UNCHANGED runVars

(* A mutant: a ledger that nobody cleaned up is written over. *)
OpenStoreOverResidue(r) ==
  /\ owner[r] = "opening" /\ lease = Nobody
  /\ lease' = <<"owner", r>> /\ ledger' = [owner |-> r, notes |-> {}]
  /\ owner' = [owner EXCEPT ![r] = "guarding"]
  /\ UNCHANGED <<runVars, todo, doubt>>

(* The lease and an empty ledger: a store held by another run, or a ledger    *)
(* nobody cleaned up, refuses the start.                                      *)
OpenStore(r) ==
  /\ owner[r] = "opening"
  /\ \/ /\ lease = Nobody /\ ledger = NoLedger
        /\ lease' = <<"owner", r>> /\ ledger' = [owner |-> r, notes |-> {}]
        /\ owner' = [owner EXCEPT ![r] = "guarding"]
     \/ /\ lease # Nobody \/ ledger # NoLedger
        /\ owner' = [owner EXCEPT ![r] = "dead"] /\ UNCHANGED <<lease, ledger>>
  /\ UNCHANGED <<runVars, todo, doubt>>

(* spawn_watcher *)
SpawnWatcher(r) ==
  /\ owner[r] = "guarding" /\ watcher[r] = "none"
  /\ watcher' = [watcher EXCEPT ![r] = "starting"]
  /\ UNCHANGED <<window, ledger, lease, owner, ready, held, job, todo, doubt, drawn,
                 made, shows, stray>>

WatcherSeen(r) ==
  /\ owner[r] = "guarding" /\ WatcherReady(r)
  /\ owner' = [owner EXCEPT ![r] = "running"]
  /\ UNCHANGED <<runVars, ledger, lease, todo, doubt>>

(* The watcher exits early or is late: it is killed and the ledger removed. *)
WatcherFails(r) ==
  /\ owner[r] = "guarding" /\ watcher[r] # "none"
  /\ owner' = [owner EXCEPT ![r] = "dead"]
  /\ watcher' = [watcher EXCEPT ![r] = "dead"]
  /\ ledger' = NoLedger /\ lease' = Nobody
  /\ UNCHANGED <<window, ready, held, job, todo, doubt, drawn, made, shows, stray>>

(* The body ends, for a stop request or an error: every noted claim is revealed. *)
BeginTeardown(r) ==
  LET a == <<"owner", r>>
  IN /\ Idle(r)
     /\ owner' = [owner EXCEPT ![r] = "tearing"]
     /\ todo' = [todo EXCEPT ![a] = ledger.notes]
     /\ UNCHANGED <<runVars, ledger, lease, doubt>>

NextTeardown(r) ==
  LET a == <<"owner", r>>
  IN /\ owner[r] = "tearing" /\ lease = a /\ job[a] = NoJob
     /\ \E c \in todo[a] : StartJob(a, "tear", "read", c)
     /\ UNCHANGED <<startVars, todo>>

(* A mutant: the watcher is stopped whatever the teardown met. *)
EndRunAlone(r) ==
  LET a == <<"owner", r>>
  IN /\ owner[r] = "tearing" /\ job[a] = NoJob /\ todo[a] = {}
     /\ owner' = [owner EXCEPT ![r] = "dead"] /\ lease' = Nobody
     /\ doubt' = doubt \ {a}
     /\ watcher' = [watcher EXCEPT ![r] = "dead"] /\ ready' = ready \ {r}
     /\ UNCHANGED <<window, ledger, held, job, todo, drawn, made, shows, stray>>

(* The watcher is stopped unless a claim was uncertain; the ledger stays. *)
EndRun(r) ==
  LET a == <<"owner", r>>
  IN /\ owner[r] = "tearing" /\ job[a] = NoJob /\ todo[a] = {}
     /\ owner' = [owner EXCEPT ![r] = "dead"] /\ lease' = Nobody
     /\ doubt' = doubt \ {a}
     /\ IF a \in doubt THEN UNCHANGED <<watcher, ready>>
        ELSE watcher' = [watcher EXCEPT ![r] = "dead"] /\ ready' = ready \ {r}
     /\ UNCHANGED <<window, ledger, held, job, todo, drawn, made, shows, stray>>

(* A crash, or a forced stop: the process and its lock are gone. *)
Crash(r) ==
  LET a == <<"owner", r>>
  IN /\ Alive(r)
     /\ owner' = [owner EXCEPT ![r] = "dead"]
     /\ lease' = IF lease = a THEN Nobody ELSE lease
     /\ job' = [job EXCEPT ![a] = NoJob] /\ todo' = [todo EXCEPT ![a] = {}]
     /\ doubt' = doubt \ {a} /\ held' = [held EXCEPT ![r] = {}]
     /\ LeaveWait(a)
     /\ UNCHANGED <<window, ledger, watcher, ready, drawn, made, shows>>

-----------------------------------------------------------------------------
(* The life of a watcher (cmd_watch_owner, watcher_restore)                   *)

watchVars == <<window, owner, held, drawn, made, shows, stray>>

WatcherStarts(r) ==
  /\ watcher[r] = "starting"
  /\ watcher' = [watcher EXCEPT ![r] = "watching"] /\ ready' = ready \cup {r}
  /\ UNCHANGED <<watchVars, ledger, lease, job, todo, doubt>>

(* The owner it held open is dead: the lease is wanted, and while somebody    *)
(* has it the ledger is read without it.  Gone or another owner's: nothing is *)
(* left to do.  After five seconds of contention the watcher gives up.        *)
WatcherRestores(r) ==
  LET a == <<"watcher", r>>
      Leave(marker) == /\ watcher' = [watcher EXCEPT ![r] = "dead"]
                       /\ ready' = marker /\ UNCHANGED <<lease, todo>>
  IN /\ watcher[r] = "watching" /\ ~Alive(r)
     /\ \/ lease # Nobody /\ ledger = NoLedger /\ Leave(ready \ {r})
        \/ lease # Nobody /\ ledger # NoLedger /\ ledger.owner # r /\ Leave(ready)
        \/ lease # Nobody /\ ledger.owner = r /\ Leave(ready)
        \/ lease = Nobody /\ ledger = NoLedger /\ Leave(ready \ {r})
        \/ lease = Nobody /\ ledger # NoLedger /\ ledger.owner # r /\ Leave(ready)
        \/ /\ lease = Nobody /\ ledger.owner = r
           /\ watcher' = [watcher EXCEPT ![r] = "restoring"]
           /\ lease' = a /\ todo' = [todo EXCEPT ![a] = ledger.notes] /\ UNCHANGED ready
     /\ UNCHANGED <<watchVars, ledger, job, doubt>>

(* Success removes the ledger and the marker; uncertainty leaves both. *)
EndWatcher(r) ==
  LET a == <<"watcher", r>>
  IN /\ watcher[r] = "restoring" /\ job[a] = NoJob
     /\ \/ a \notin doubt /\ todo[a] = {} /\ ledger' = NoLedger /\ ready' = ready \ {r}
        \/ a \in doubt /\ UNCHANGED <<ledger, ready>>
     /\ watcher' = [watcher EXCEPT ![r] = "dead"] /\ lease' = Nobody
     /\ todo' = [todo EXCEPT ![a] = {}] /\ doubt' = doubt \ {a}
     /\ UNCHANGED <<watchVars, job>>

WatcherCrashes(r) ==
  LET a == <<"watcher", r>>
  IN /\ watcher[r] \notin {"none", "dead"}
     /\ watcher' = [watcher EXCEPT ![r] = "dead"]
     /\ lease' = IF lease = a THEN Nobody ELSE lease
     /\ job' = [job EXCEPT ![a] = NoJob] /\ todo' = [todo EXCEPT ![a] = {}]
     /\ doubt' = doubt \ {a}
     /\ UNCHANGED <<window, ledger, owner, ready, held, drawn, made, shows, stray>>

-----------------------------------------------------------------------------
Desktop(h) == ServeQueue(h) \/ ProgramShows(h) \/ DestroyWindow(h)
              \/ \E p \in Programs : CreateWindow(h, p)
Hide(r) == VerifyHide(r) \/ NoteHide(r) \/ PostHide(r) \/ AwaitHide(r)
           \/ PostRehide(r) \/ AwaitRehide(r)
Life(r) == Boot(r) \/ PeekResidue(r) \/ TakeResidue(r) \/ EndReclaim(r) \/ OpenStore(r)
           \/ SpawnWatcher(r) \/ WatcherSeen(r) \/ WatcherFails(r)
           \/ BeginTeardown(r) \/ NextTeardown(r) \/ EndRun(r)
           \/ (owner[r] = "restoring" /\ NextRestore(<<"owner", r>>, "restore"))
Watch(r) == WatcherStarts(r) \/ WatcherRestores(r) \/ EndWatcher(r)
            \/ (watcher[r] = "restoring" /\ NextRestore(<<"watcher", r>>, "restore"))

Next ==
  \/ \E h \in Hwnds : Desktop(h)
  \/ \E r \in Runs : \/ \E h \in Hwnds : Admit(r, h)
                     \/ RevealClaim(r) \/ Rehide(r) \/ Hide(r) \/ Life(r) \/ Watch(r)
                     \/ Crash(r) \/ WatcherCrashes(r)
  \/ \E a \in Agents : Reveal(a)

Spec == Init /\ [][Next]_vars

(* Programs serve their queues, and a watcher process goes on while it lives; *)
(* nothing obliges a run to be started, a window to be hidden or a process to *)
(* crash.                                                                     *)
Fairness ==
  /\ \A h \in Hwnds : WF_vars(ServeQueue(h))
  /\ \A r \in Runs : WF_vars(Watch(r)) /\ WF_vars(Reveal(<<"watcher", r>>))

-----------------------------------------------------------------------------
(* Properties                                                                 *)

Requests == [cmd : {"hide", "show"}, tag : Tags]
Windows == [program : Programs, tag : Tags \cup {NoTag},
            hider : Tags \cup {NoTag}, queue : Seq(Requests)]
Jobs == [kind : {"hide", "rehide"} \cup RevealKinds,
         step : {"verify", "note", "read", "post", "await", "untag", "strike"},
         claim : Claims]

TypeOK ==
  /\ window \in [Hwnds -> Windows \cup {NoWindow}]
  /\ ledger \in [owner : Runs \cup {0}, notes : SUBSET Claims]
  /\ lease \in Agents \cup {Nobody}
  /\ owner \in [Runs -> {"unborn", "peeking", "reclaiming", "restoring", "opening",
                         "guarding", "running", "tearing", "dead"}]
  /\ watcher \in [Runs -> {"none", "starting", "watching", "restoring", "dead"}]
  /\ ready \subseteq Runs
  /\ held \in [Runs -> SUBSET Claims]
  /\ job \in [Agents -> Jobs \cup {NoJob}]
  /\ todo \in [Agents -> SUBSET Claims]
  /\ doubt \subseteq Agents
  /\ drawn \in 0..MaxTags /\ made \in 0..MaxWindows /\ shows \in 0..MaxShows
  /\ stray \subseteq Tags

Hidden(h) == Exists(h) /\ ~Visible(h)

(* A window the tiler hid is always named by the ledger under its process and *)
(* its tag, so that whoever finds the ledger can bring it back, whatever      *)
(* crashed: unless the hide landed when nobody waited for it any more.        *)
HiddenIsNamed ==
  \A h \in Hwnds : Hidden(h) =>
    \/ Named(ClaimOf(h)) /\ Matches(ClaimOf(h))
    \/ window[h].hider \in stray

(* Variables have their types, and no hide loses a window (HiddenIsNamed):    *)
(* what hide_managed_claim, reveal_product_claim_to, restore_under_lease and  *)
(* watcher_restore owe each other across crashes.                             *)
WindowsRecoverable == TypeOK /\ HiddenIsNamed

(* product_hide.rs: a claim is "committed to the ledger BEFORE hiding. The    *)
(* nonce leaves only after a verified reveal or release": every hidden window *)
(* is named and tagged, without exception.                                    *)
HiddenIsAlwaysNamed ==
  \A h \in Hwnds : Hidden(h) => Named(ClaimOf(h)) /\ Matches(ClaimOf(h))

(* Nobody but its owner changes the ledger of a living run, and the ledger of *)
(* one run is never turned into that of another: it is cleaned up first.      *)
LedgerStep ==
  ledger' # ledger =>
    /\ \A r \in Runs : Alive(r) /\ ledger.owner = r => lease = <<"owner", r>>
    /\ ledger # NoLedger /\ ledger' # NoLedger => ledger'.owner = ledger.owner
LedgersStayWithTheirOwner == [][LedgerStep]_vars

(* A run that ends stops its watcher only when its ledger names nothing any   *)
(* more; with a claim left the watcher stays to recover it.                   *)
StopStep ==
  \A r \in Runs :
    owner[r] = "tearing" /\ owner'[r] = "dead" /\ watcher[r] = "watching"
      /\ watcher'[r] = "dead" => ledger'.notes = {}
WatcherOutlivesNotes == [][StopStep]_vars

(* When a run is dead its watcher does not hang: it restores the windows and  *)
(* removes the ledger, or it ends and leaves the ledger to the next run.      *)
WatchersFinish ==
  \A r \in Runs : (~Alive(r) /\ watcher[r] \in {"watching", "restoring"})
                   ~> (watcher[r] = "dead")
=============================================================================
