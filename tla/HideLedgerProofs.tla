--------------------------- MODULE HideLedgerProofs ---------------------------
(* Theorems about the ledger of hidden windows, for any number of windows,    *)
(* programs, runs and watchers: a hidden window is named by the ledger,       *)
(* ledgers stay with their owner, and a watcher outlives the notes it is for. *)
(*                                                                            *)
(* Whoever works on windows or on the ledger holds the lease, so a step is    *)
(* about one agent.  What an agent is told to reveal is in the ledger, and a  *)
(* window whose note it strikes cannot be hidden any more: it is gone, it is  *)
(* another one, or it was seen and nobody waits for a hide of it.             *)
EXTENDS HideLedger, SequenceTheorems, TLAPS

-----------------------------------------------------------------------------
(* The inductive invariant.                                                   *)

\* The hides posted to a window, and with the one that hid it those it is due to.
Posted(h) == {window[h].queue[i].tag : i \in {j \in DOMAIN window[h].queue :
                                                window[h].queue[j].cmd = "hide"}}
HidesAt(h) == Posted(h) \cup ({window[h].hider} \ {NoTag})

\* An agent waits for the hide of a claim.
Waits(a, c) == /\ job[a] # NoJob /\ job[a].claim = c
               /\ job[a].kind \in {"hide", "rehide"} /\ job[a].step = "await"

\* The claim of a window under a tag.
Under(h, t) == [hwnd |-> h, program |-> window[h].program, tag |-> t]

\* A hide that does not stray is of a window that the ledger names and that
\* carries the tag, and while it is queued somebody waits for it.
HidesNamed ==
    \A h \in Hwnds :
        /\ \A t \in HidesAt(h) \ stray : Under(h, t) \in ledger.notes /\ window[h].tag = t
        /\ \A t \in Posted(h) \ stray : \E a \in Agents : Waits(a, Under(h, t))

\* Once a reveal has seen the window shown, no hide of it is left but stray ones.
SeenIsShown ==
    \A a \in Agents :
        job[a] # NoJob /\ job[a].kind \in RevealKinds /\ job[a].step \in {"untag", "strike"} =>
            HidesAt(job[a].claim.hwnd) \subseteq stray

\* Who holds the lease, and whose the ledger is.
LeaseHeld ==
    \A r \in Runs :
        /\ lease = <<"owner", r>> <=>
              owner[r] \in {"guarding", "running", "tearing", "restoring"}
        /\ lease = <<"watcher", r>> <=> watcher[r] = "restoring"
        /\ owner[r] \in {"guarding", "running", "tearing"} => ledger.owner = r
        /\ owner[r] = "restoring" => ledger.owner # 0 /\ ~Alive(ledger.owner)
        /\ watcher[r] = "restoring" => ledger.owner = r /\ ~Alive(r)
        /\ watcher[r] # "none" \/ ledger.owner = r => owner[r] # "unborn"
        /\ owner[r] = "guarding" => ledger.notes = {}
        /\ owner[r] \notin {"running", "tearing", "dead"} => held[r] = {}
    
\* Only the holder of the lease works, at what its life has come to.
WorkUnderLease ==
    \A a \in Agents :
        /\ job[a] # NoJob \/ todo[a] # {} \/ a \in doubt => lease = a
        /\ a[1] = "owner" /\ job[a] # NoJob =>
              /\ job[a].kind \in {"hide", "rehide", "reveal", "retire"} <=> owner[a[2]] = "running"
              /\ job[a].kind = "tear" <=> owner[a[2]] = "tearing"
              /\ job[a].kind = "restore" <=> owner[a[2]] = "restoring"
        /\ a[1] = "watcher" /\ job[a] # NoJob => job[a].kind = "restore"
        /\ a[1] = "owner" /\ owner[a[2]] \in {"guarding", "running"} =>
              todo[a] = {} /\ a \notin doubt

\* What is to be revealed is in the ledger, one claim for a handle; and what is in
\* the ledger at the end of a run or in a restore is to be revealed, unless one
\* claim was uncertain.
NotesKept ==
    /\ ledger.owner = 0 => ledger.notes = {}
    /\ \A c, d \in ledger.notes : c.hwnd = d.hwnd => c = d
    /\ \A a \in Agents :
        /\ todo[a] \subseteq ledger.notes
        /\ job[a] # NoJob /\ (job[a].kind # "hide" \/ job[a].step \in {"post", "await"}) =>
              job[a].claim \in ledger.notes
        /\ job[a] # NoJob /\ job[a].kind = "hide" /\ job[a].step \in {"post", "await"} =>
              \A d \in held[a[2]] : d.hwnd # job[a].claim.hwnd
        /\ a[1] = "owner" /\ owner[a[2]] \in {"tearing", "restoring"} /\ a \notin doubt =>
              ledger.notes \subseteq todo[a]
        /\ a[1] = "watcher" /\ watcher[a[2]] = "restoring" /\ a \notin doubt =>
              ledger.notes \subseteq todo[a]
    /\ \A r \in Runs : owner[r] = "running" => held[r] \subseteq ledger.notes

Inv ==
    /\ TypeOK
    /\ LeaseHeld
    /\ WorkUnderLease
    /\ NotesKept
    /\ HidesNamed
    /\ SeenIsShown

-----------------------------------------------------------------------------
(* What the operators of the model change.                                    *)

\* An agent is a run or its watcher.
LEMMA AgentFacts ==
    /\ \A r \in Runs : <<"owner", r>> \in Agents /\ <<"watcher", r>> \in Agents
    /\ \A a \in Agents : /\ a[1] \in {"owner", "watcher"} /\ a[2] \in Runs
                         /\ a = <<a[1], a[2]>> /\ a # Nobody
    /\ \A r, s : <<"owner", r>> = <<"owner", s>> => r = s
    /\ \A r, s : <<"watcher", r>> = <<"watcher", s>> => r = s
    /\ \A r, s : <<"owner", r>> # <<"watcher", s>>
    /\ \A r : <<"owner", r>> # Nobody /\ <<"watcher", r>> # Nobody
    /\ \A r : <<"owner", r>>[1] = "owner" /\ <<"owner", r>>[2] = r
    /\ \A r : <<"watcher", r>>[1] = "watcher" /\ <<"watcher", r>>[2] = r
BY DEF Agents, Nobody

\* No run has the number of nobody's ledger.
LEMMA RunsPositive == Assumption => 0 \notin Runs /\ \A r \in Runs : r \in Nat
BY DEF Runs, Assumption

\* An agent without a job does not do one.
LEMMA JobFacts ==
    ASSUME TypeOK, NEW a \in Agents
    PROVE  /\ job[a] # NoJob <=> job[a] \in Jobs
           /\ job[a] # NoJob <=> job[a].kind # "none"
           /\ job[a] = NoJob => job[a].kind = "none" /\ job[a].step = "idle"
           /\ job[a] # NoJob => job[a].claim \in Claims
BY DEF TypeOK, Jobs, NoJob, RevealKinds

\* A job goes on, ends, or begins.
Moves(a, step) ==
    /\ job' \in [Agents -> Jobs \cup {NoJob}]
    /\ \A b \in Agents \ {a} : job'[b] = job[b]
    /\ job'[a] # NoJob /\ job'[a].kind = job[a].kind /\ job'[a].claim = job[a].claim
    /\ job'[a].step = step

Ends(a) ==
    /\ job' \in [Agents -> Jobs \cup {NoJob}]
    /\ \A b \in Agents \ {a} : job'[b] = job[b]
    /\ job'[a] = NoJob

Begins(a, kind, step, c) ==
    /\ job' \in [Agents -> Jobs \cup {NoJob}]
    /\ \A b \in Agents \ {a} : job'[b] = job[b]
    /\ job'[a] # NoJob /\ job'[a].kind = kind /\ job'[a].claim = c /\ job'[a].step = step

\* The step of a job is all that Step changes.
LEMMA StepMoves ==
    ASSUME TypeOK, NEW a \in Agents, job[a] # NoJob,
           NEW s \in {"verify", "note", "read", "post", "await", "untag", "strike"}, Step(a, s)
    PROVE  Moves(a, s)
<1> DEFINE k == [job[a] EXCEPT !.step = s]
<1>1. job' = [job EXCEPT ![a] = k] /\ job \in [Agents -> Jobs \cup {NoJob}]
    BY DEF Step, TypeOK
<1>2. job[a] \in Jobs
    BY JobFacts
<1>3. k \in Jobs /\ k.kind = job[a].kind /\ k.claim = job[a].claim /\ k.step = s
    BY <1>2 DEF Jobs
<1>4. k # NoJob
    BY <1>3 DEF Jobs, NoJob, RevealKinds
<1> HIDE DEF k
<1> QED BY <1>1, <1>3, <1>4 DEF Moves

\* A job that is done leaves nothing of it.
LEMMA DoneEnds ==
    ASSUME TypeOK, NEW a \in Agents, Done(a)
    PROVE  Ends(a)
BY DEF Done, TypeOK, Ends

\* A job that starts is of the claim it is given.
LEMMA JobBegins ==
    ASSUME TypeOK, NEW a \in Agents, NEW c \in Claims,
           NEW kind \in {"hide", "rehide"} \cup RevealKinds,
           NEW step \in {"verify", "note", "read", "post", "await", "untag", "strike"},
           job' = [job EXCEPT ![a] = [kind |-> kind, step |-> step, claim |-> c]]
    PROVE  Begins(a, kind, step, c)
<1> DEFINE k == [kind |-> kind, step |-> step, claim |-> c]
<1>1. job' = [job EXCEPT ![a] = k] /\ job \in [Agents -> Jobs \cup {NoJob}]
    BY DEF TypeOK
<1>2. k \in Jobs /\ k.kind = kind /\ k.claim = c /\ k.step = step
    BY DEF Jobs
<1>3. k # NoJob
    BY <1>2 DEF Jobs, NoJob, RevealKinds
<1> HIDE DEF k
<1> QED BY <1>1, <1>2, <1>3 DEF Begins

\* A window belongs to a program.
LEMMA Existing ==
    ASSUME TypeOK, NEW h \in Hwnds, Exists(h)
    PROVE  window[h] \in Windows /\ window[h].program \in Programs
BY DEF TypeOK, Windows, Exists

\* Only the window behind one handle is another.
Only(h) == /\ window' \in [Hwnds -> Windows \cup {NoWindow}]
           /\ \A k \in Hwnds \ {h} : window'[k] = window[k]

\* A post adds its request to the queue of the window.
LEMMA PostAdds ==
    ASSUME TypeOK, NEW h \in Hwnds, Exists(h), NEW cmd \in {"hide", "show"},
           NEW t \in Tags, Post(h, cmd, t)
    PROVE  /\ Only(h)
           /\ window'[h].program = window[h].program /\ window'[h].tag = window[h].tag
           /\ window'[h].hider = window[h].hider
           /\ Posted(h)' \subseteq Posted(h) \cup {t}
           /\ cmd = "show" => Posted(h)' \subseteq Posted(h)
<1> DEFINE q == window[h].queue
           r == [cmd |-> cmd, tag |-> t]
           w == [window[h] EXCEPT !.queue = Append(q, r)]
<1>1. window' = [window EXCEPT ![h] = w] /\ window \in [Hwnds -> Windows \cup {NoWindow}]
    BY DEF Post, TypeOK
<1>2. window[h] \in Windows /\ q \in Seq(Requests) /\ r \in Requests
    BY Existing DEF Windows, Requests
<1>2a. Append(q, r) \in Seq(Requests)
    BY <1>2, AppendProperties
<1>3. /\ w \in Windows /\ w.program = window[h].program /\ w.tag = window[h].tag
      /\ w.hider = window[h].hider /\ w.queue = Append(q, r)
    BY <1>2, <1>2a DEF Windows
<1>4. /\ DOMAIN Append(q, r) = 1..(Len(q) + 1) /\ DOMAIN q = 1..Len(q) /\ Len(q) \in Nat
      /\ Append(q, r)[Len(q) + 1] = r
      /\ \A i \in 1..Len(q) : Append(q, r)[i] = q[i]
    BY <1>2
<1>5. r.cmd = cmd /\ r.tag = t
    OBVIOUS
<1> HIDE DEF w, q, r
<1>6. Only(h) /\ window'[h] = w
    BY <1>1, <1>3 DEF Only
<1>7. ASSUME NEW u \in Posted(h)' PROVE u \in Posted(h) \/ (u = t /\ cmd = "hide")
    <2>1. PICK i \in 1..(Len(q) + 1) : Append(q, r)[i].cmd = "hide" /\ u = Append(q, r)[i].tag
        BY <1>3, <1>4, <1>6, <1>7 DEF Posted
    <2>2. CASE i = Len(q) + 1
        BY <1>4, <1>5, <2>1, <2>2
    <2>3. CASE i # Len(q) + 1
        <3>1. i \in DOMAIN q /\ q[i].cmd = "hide" /\ u = q[i].tag
            BY <1>4, <2>1, <2>3
        <3> QED BY <3>1 DEF Posted, q
    <2> QED BY <2>2, <2>3
<1> QED BY <1>3, <1>6, <1>7

\* Only the window that carries the tag loses it.
LEMMA TagGoes ==
    ASSUME TypeOK, NEW c \in Claims, window' = WithoutTag(c)
    PROVE  /\ Only(c.hwnd) /\ c.hwnd \in Hwnds
           /\ HidesAt(c.hwnd)' = HidesAt(c.hwnd)
           /\ Matches(c) \/ UNCHANGED window
<1>0. window \in [Hwnds -> Windows \cup {NoWindow}] /\ c.hwnd \in Hwnds
    BY DEF TypeOK, Claims
<1>1. CASE ~Matches(c)
    <2>1. UNCHANGED window
        BY <1>1 DEF WithoutTag
    <2> QED BY <1>0, <2>1 DEF Only, HidesAt, Posted
<1>2. CASE Matches(c)
    <2> DEFINE w == [window[c.hwnd] EXCEPT !.tag = NoTag]
    <2>1. window' = [window EXCEPT ![c.hwnd] = w]
        BY <1>0, <1>2 DEF WithoutTag
    <2>2. window[c.hwnd] \in Windows
        BY <1>0, <1>2, Existing DEF Matches
    <2>3. w \in Windows /\ w.queue = window[c.hwnd].queue /\ w.hider = window[c.hwnd].hider
        BY <2>2 DEF Windows
    <2> HIDE DEF w
    <2>4. Only(c.hwnd) /\ window'[c.hwnd] = w
        BY <1>0, <2>1, <2>3 DEF Only
    <2> QED BY <1>0, <1>2, <2>3, <2>4 DEF HidesAt, Posted
<1> QED BY <1>1, <1>2

\* A tag is put on one window.
LEMMA TagComes ==
    ASSUME TypeOK, NEW h \in Hwnds, Exists(h), NEW t \in Tags,
           window' = [window EXCEPT ![h].tag = t]
    PROVE  Only(h) /\ HidesAt(h)' = HidesAt(h)
<1> DEFINE w == [window[h] EXCEPT !.tag = t]
<1>1. window' = [window EXCEPT ![h] = w] /\ window \in [Hwnds -> Windows \cup {NoWindow}]
    BY DEF TypeOK
<1>2. window[h] \in Windows
    BY Existing
<1>3. w \in Windows /\ w.queue = window[h].queue /\ w.hider = window[h].hider
    BY <1>2 DEF Windows
<1> HIDE DEF w
<1>4. Only(h) /\ window'[h] = w
    BY <1>1, <1>3 DEF Only
<1> QED BY <1>3, <1>4 DEF HidesAt, Posted

\* No window, no hide; and what is posted is queued.
LEMMA PostedFacts ==
    ASSUME TypeOK, NEW h \in Hwnds
    PROVE  /\ Posted(h) \subseteq HidesAt(h) /\ HidesAt(h) \subseteq Tags
           /\ ~Exists(h) => HidesAt(h) = {}
           /\ Posted(h) # {} => Queued(h, "hide")
<1>1. window[h] \in Windows \cup {NoWindow}
    BY DEF TypeOK
<1>2. window[h].queue \in Seq(Requests) /\ window[h].hider \in Tags \cup {NoTag}
    <2>1. CASE window[h] \in Windows
        BY <2>1 DEF Windows
    <2>2. CASE window[h] = NoWindow
        <3>1. NoWindow.queue = <<>> /\ NoWindow.hider = NoTag /\ <<>> \in Seq(Requests)
            BY DEF NoWindow
        <3> QED BY <2>2, <3>1
    <2> QED BY <1>1, <2>1, <2>2
<1>3. \A i \in DOMAIN window[h].queue : window[h].queue[i].tag \in Tags
    <2>1. \A i \in DOMAIN window[h].queue : window[h].queue[i] \in Requests
        BY <1>2
    <2> QED BY <2>1 DEF Requests
<1>4. ~Exists(h) => window[h].queue = <<>> /\ window[h].hider = NoTag
    BY DEF Exists, NoWindow
<1>5. Posted(h) \subseteq Tags
    BY <1>3 DEF Posted
<1>6. ~Exists(h) => Posted(h) = {}
    BY <1>4 DEF Posted
<1>7. Posted(h) # {} => \E i \in DOMAIN window[h].queue : window[h].queue[i].cmd = "hide"
    BY DEF Posted
<1> QED BY <1>2, <1>4, <1>5, <1>6, <1>7 DEF HidesAt, Queued

\* A strike takes the notes of one handle.
Struck(h) == /\ ledger' \in [owner : Runs \cup {0}, notes : SUBSET Claims]
             /\ ledger'.owner = ledger.owner
             /\ ledger'.notes = {c \in ledger.notes : c.hwnd # h}
\* What a strike leaves (StrikeNote, commit_windows under remove_product_note).
LEMMA StrikeStrikes ==
    ASSUME TypeOK, NEW h, StrikeNote(h)
    PROVE  Struck(h)
<1> DEFINE left == {c \in ledger.notes : c.hwnd # h}
<1>1. ledger \in [owner : Runs \cup {0}, notes : SUBSET Claims]
    BY DEF TypeOK
<1>2. ledger' = [ledger EXCEPT !.notes = left]
    BY DEF StrikeNote
<1>3. left \in SUBSET Claims
    BY <1>1
<1> HIDE DEF left
<1>4. ledger'.owner = ledger.owner /\ ledger'.notes = left
    BY <1>1, <1>2
<1> QED BY <1>1, <1>2, <1>3, <1>4 DEF Struck, left

-----------------------------------------------------------------------------
(* The effects of the steps.                                                  *)

\* No hide is new at a window, and where one does not stray the window is the same.
Calmer(h) == \/ HidesAt(h)' \subseteq stray'
             \/ /\ HidesAt(h)' \subseteq HidesAt(h) /\ Posted(h)' \subseteq Posted(h)
                /\ window'[h].program = window[h].program /\ window'[h].tag = window[h].tag

Calm == /\ window' \in [Hwnds -> Windows \cup {NoWindow}] /\ \A h \in Hwnds : Calmer(h)
Counted == /\ drawn' \in 0..MaxTags /\ made' \in 0..MaxWindows /\ shows' \in 0..MaxShows

\* Programs and their windows.
Settles == Calm /\ Counted /\ UNCHANGED desktopVars

\* What an agent does while it has the lease.
Works(a) == lease = a /\ Counted /\ UNCHANGED <<lease, owner, watcher, ready>>

Admits(a) ==
    /\ Works(a) /\ a[1] = "owner" /\ owner[a[2]] = "running" /\ job[a] = NoJob
    /\ Calm /\ \E c \in Claims : Begins(a, "hide", "verify", c)
    /\ UNCHANGED <<ledger, held, todo, doubt, stray>>

GivesUp(a) ==
    /\ Works(a) /\ job[a] # NoJob /\ Calm /\ Ends(a)
    /\ UNCHANGED <<ledger, held, todo, doubt, stray>>
    /\ job[a].kind = "hide" /\ job[a].step \in {"verify", "note"}

Verifies(a) ==
    /\ Works(a) /\ job[a] # NoJob /\ Moves(a, "note")
    /\ UNCHANGED <<window, ledger, held, todo, doubt, stray>>
    /\ job[a].kind = "hide" /\ job[a].step = "verify"

Notes(a) ==
    /\ Works(a) /\ job[a] # NoJob /\ Moves(a, "post")
    /\ job[a].kind = "hide" /\ job[a].step = "note"
    /\ \A n \in ledger.notes : n.hwnd # job[a].claim.hwnd
    /\ ledger' \in [owner : Runs \cup {0}, notes : SUBSET Claims]
    /\ ledger'.owner = ledger.owner /\ ledger.owner = a[2]
    /\ ledger'.notes = ledger.notes \cup {job[a].claim}
    /\ UNCHANGED <<window, held, todo, doubt, stray>>

Posts(a) ==
    LET c == job[a].claim
    IN  /\ Works(a) /\ job[a] # NoJob /\ Moves(a, "await")
        /\ job[a].kind \in {"hide", "rehide"} /\ job[a].step = "post"
        /\ \A h \in Hwnds : h = c.hwnd =>
              /\ Only(h) /\ Posted(h)' \subseteq Posted(h) \cup {c.tag}
              /\ window'[h].program = window[h].program /\ window'[h].tag = window[h].tag
              /\ window'[h].hider = window[h].hider
        /\ stray \subseteq stray' /\ stray' \subseteq Tags /\ (Matches(c) \/ c.tag \in stray')
        /\ UNCHANGED <<ledger, held, todo, doubt>>

Stops(a) ==
    LET c == job[a].claim
    IN  /\ Works(a) /\ job[a] # NoJob /\ a[1] = "owner"
        /\ Ends(a) \/ (job[a].kind = "rehide" /\ Begins(a, "retire", "read", c))
        /\ job[a].kind \in {"hide", "rehide"} /\ job[a].step \in {"post", "await"}
        /\ held' \in [Runs -> SUBSET Claims]
        /\ \A s \in Runs \ {a[2]} : held'[s] = held[s]
        /\ held'[a[2]] \subseteq held[a[2]] \cup {c}
        /\ \/ UNCHANGED ledger
           \/ /\ job[a].kind = "hide" /\ HidesAt(c.hwnd) = {} /\ Struck(c.hwnd)
              /\ UNCHANGED held
        /\ stray \subseteq stray' /\ stray' \subseteq Tags
        /\ job[a].step = "await" /\ Posted(c.hwnd) # {} => c.tag \in stray'
        /\ UNCHANGED <<window, todo, doubt>>

Reveals(a) == Works(a) /\ job[a] # NoJob /\ job[a].kind \in RevealKinds

Sees(a) ==
    /\ Reveals(a) /\ Moves(a, "untag") /\ window[job[a].claim.hwnd].hider = NoTag
    /\ UNCHANGED <<window, ledger, held, todo, doubt, stray>>

Shows(a) ==
    /\ Reveals(a) /\ Calm /\ (Moves(a, "post") \/ Moves(a, "await"))
    /\ UNCHANGED <<ledger, held, todo, doubt, stray>>

Untags(a) ==
    /\ Reveals(a) /\ Calm /\ Moves(a, "strike") /\ job[a].step = "untag"
    /\ UNCHANGED <<ledger, held, todo, doubt, stray>>

\* The claim is not to be revealed any more.
Dropped(a) ==
    /\ todo' \in [Agents -> SUBSET Claims]
    /\ \A b \in Agents \ {a} : todo'[b] = todo[b]
    /\ todo'[a] = todo[a] \ {job[a].claim}

Strikes(a) ==
    LET c == job[a].claim
    IN  /\ Reveals(a) /\ Ends(a) /\ Struck(c.hwnd) /\ Dropped(a)
        /\ HidesAt(c.hwnd) \subseteq stray
        /\ held' \in [Runs -> SUBSET Claims]
        /\ \A s \in Runs \ {a[2]} : held'[s] = held[s]
        /\ held'[a[2]] = held[a[2]] \ {c}
        /\ UNCHANGED <<window, doubt, stray>>

Doubts(a) ==
    /\ Reveals(a) /\ Ends(a) /\ Dropped(a)
    /\ held' \in [Runs -> SUBSET Claims]
    /\ \A s \in Runs : held'[s] \subseteq held[s]
    /\ doubt' = IF job[a].kind \in {"tear", "restore"} THEN doubt \cup {a} ELSE doubt
    /\ UNCHANGED <<window, ledger, stray>>

Starts(a) ==
    /\ Works(a) /\ job[a] = NoJob
    /\ UNCHANGED <<window, ledger, held, todo, doubt, stray>>
    /\ \/ /\ a[1] = "owner" /\ owner[a[2]] = "running"
          /\ \E c \in held[a[2]] : \E kind \in {"reveal", "retire"} :
                Begins(a, "rehide", "post", c) \/ Begins(a, kind, "read", c)
       \/ /\ a[1] = "owner" /\ owner[a[2]] = "tearing"
          /\ \E c \in todo[a] : Begins(a, "tear", "read", c)
       \/ /\ a[1] = "owner" => owner[a[2]] = "restoring"
          /\ \E c \in todo[a] : Begins(a, "restore", "read", c)

\* The work of agents.
Work(a) == \/ Admits(a) \/ GivesUp(a) \/ Verifies(a) \/ Notes(a) \/ Posts(a) \/ Stops(a)
           \/ Sees(a) \/ Shows(a) \/ Untags(a) \/ Strikes(a) \/ Doubts(a) \/ Starts(a)

\* A program serves its queue, shows its window, ends it or makes one.
LEMMA DesktopSettles ==
    ASSUME Assumption, TypeOK, NEW h \in Hwnds, Desktop(h)
    PROVE  Settles
<1>0. /\ window \in [Hwnds -> Windows \cup {NoWindow}]
      /\ Exists(h) => window[h] \in Windows
      /\ made \in 0..MaxWindows /\ shows \in 0..MaxShows /\ drawn \in 0..MaxTags
      /\ MaxTags \in Nat /\ MaxWindows \in Nat /\ MaxShows \in Nat
    BY Existing DEF TypeOK, Assumption
<1>1. ASSUME UNCHANGED desktopVars, NEW w \in Windows \cup {NoWindow}, window' = [window EXCEPT ![h] = w],
             \/ w.queue = <<>> /\ w.hider = NoTag
             \/ /\ w.program = window[h].program /\ w.tag = window[h].tag
                /\ Posted(h)' \subseteq Posted(h) /\ HidesAt(h)' \subseteq HidesAt(h),
             Counted
      PROVE  Settles
    <2>1. window' \in [Hwnds -> Windows \cup {NoWindow}] /\ window'[h] = w
        BY <1>0, <1>1
    <2>2. Calmer(h)
        BY <1>1, <2>1 DEF Calmer, HidesAt, Posted
    <2>3. ASSUME NEW k \in Hwnds \ {h} PROVE Calmer(k)
        <3>1. window'[k] = window[k]
            BY <1>0, <1>1
        <3> QED BY <3>1 DEF Calmer, HidesAt, Posted
    <2> QED BY <1>1, <2>1, <2>2, <2>3 DEF Settles, Calm
<1>2. CASE ServeQueue(h)
    <2> DEFINE q == window[h].queue
               first == Head(q)
               w == Served(window[h])
    <2>1. q \in Seq(Requests) /\ q # <<>>
        BY <1>0, <1>2 DEF Windows, ServeQueue
    <2>2. /\ first = q[1] /\ first \in Requests /\ 1 \in DOMAIN q /\ Tail(q) \in Seq(Requests)
          /\ Len(q) \in Nat /\ DOMAIN Tail(q) = 1..(Len(q) - 1) /\ DOMAIN q = 1..Len(q)
          /\ \A i \in 1..(Len(q) - 1) : Tail(q)[i] = q[i + 1]
        BY <2>1
    <2>3. window' = [window EXCEPT ![h] = w] /\ UNCHANGED <<desktopVars, made, shows>>
        BY <1>2 DEF ServeQueue
    <2>4. first.tag \in Tags
        BY <2>2 DEF Requests
    <2>5. /\ w \in Windows /\ w.program = window[h].program /\ w.tag = window[h].tag
          /\ w.queue = Tail(q)
          /\ w.hider = (IF first.cmd = "hide" THEN first.tag ELSE NoTag)
        BY <1>0, <1>2, <2>2, <2>4 DEF Windows, Served, ServeQueue
    <2>6. first.cmd = "hide" => first.tag \in Posted(h)
        BY <2>2 DEF Posted
    <2> HIDE DEF w, first, q
    <2>7. window'[h] = w
        BY <1>0, <2>3
    <2>8. ASSUME NEW t \in Posted(h)' PROVE t \in Posted(h)
        <3>1. PICK i \in DOMAIN Tail(q) : Tail(q)[i].cmd = "hide" /\ t = Tail(q)[i].tag
            BY <2>5, <2>7, <2>8 DEF Posted
        <3>2. i + 1 \in DOMAIN q /\ q[i + 1] = Tail(q)[i]
            BY <2>2, <3>1
        <3> QED BY <3>1, <3>2 DEF Posted, q
    <2>9. HidesAt(h)' \subseteq HidesAt(h)
        BY <2>5, <2>6, <2>7, <2>8 DEF HidesAt
    <2>10. Counted
        BY <1>0, <2>3 DEF Counted, desktopVars
    <2> QED BY <1>1, <2>3, <2>5, <2>8, <2>9, <2>10
<1>3. CASE ProgramShows(h)
    <2> DEFINE w == [window[h] EXCEPT !.hider = NoTag]
    <2>1. window' = [window EXCEPT ![h] = w] /\ UNCHANGED desktopVars
        BY <1>0, <1>3 DEF ProgramShows
    <2>2. /\ w \in Windows /\ w.program = window[h].program /\ w.tag = window[h].tag
          /\ w.queue = window[h].queue /\ w.hider = NoTag
        BY <1>0, <1>3 DEF Windows, ProgramShows
    <2> HIDE DEF w
    <2>3. window'[h] = w
        BY <1>0, <2>1
    <2>4. Posted(h)' \subseteq Posted(h) /\ HidesAt(h)' \subseteq HidesAt(h)
        BY <2>2, <2>3 DEF Posted, HidesAt
    <2>5. Counted
        BY <1>0, <1>3 DEF Counted, ProgramShows, desktopVars
    <2> QED BY <1>1, <2>1, <2>2, <2>4, <2>5
<1>4. CASE DestroyWindow(h)
    <2>1. NoWindow.queue = <<>> /\ NoWindow.hider = NoTag
        BY DEF NoWindow
    <2>2. Counted
        BY <1>0, <1>4 DEF Counted, DestroyWindow, desktopVars
    <2> QED BY <1>1, <1>4, <2>1, <2>2 DEF DestroyWindow
<1>5. ASSUME NEW p \in Programs, CreateWindow(h, p) PROVE Settles
    <2> DEFINE w == [NoWindow EXCEPT !.program = p]
    <2>0. w = [program |-> p, tag |-> NoTag, hider |-> NoTag, queue |-> <<>>]
        BY DEF NoWindow
    <2>1. w \in Windows /\ w.queue = <<>> /\ w.hider = NoTag
        <3>1. <<>> \in Seq(Requests)
            OBVIOUS
        <3> HIDE DEF w
        <3> QED BY <2>0, <3>1 DEF Windows
    <2>2. window' = [window EXCEPT ![h] = w] /\ UNCHANGED desktopVars
        BY <1>5 DEF CreateWindow
    <2>3. Counted
        BY <1>0, <1>5 DEF Counted, CreateWindow, desktopVars
    <2> HIDE DEF w
    <2> QED BY <1>1, <2>1, <2>2, <2>3
<1> QED BY <1>2, <1>3, <1>4, <1>5 DEF Desktop

\* Where hides can only be stray: at a window without a tag, behind a handle that no
\* note names, and behind the handle of a note about another window.
LEMMA OnlyStray ==
    ASSUME TypeOK, NotesKept, HidesNamed, NEW h \in Hwnds,
           \/ window[h].tag = NoTag
           \/ \A n \in ledger.notes : n.hwnd # h
           \/ \E c \in ledger.notes : c.hwnd = h /\ ~Matches(c)
           \/ ~Exists(h)
    PROVE  HidesAt(h) \subseteq stray
<1> SUFFICES ASSUME NEW t \in HidesAt(h), t \notin stray PROVE FALSE
    OBVIOUS
<1>1. Under(h, t) \in ledger.notes /\ window[h].tag = t
    BY DEF HidesNamed
<1>2. t \in Tags /\ Exists(h)
    BY PostedFacts
<1>3. /\ Under(h, t).hwnd = h /\ Under(h, t).program = window[h].program
      /\ Under(h, t).tag = t
    BY DEF Under
<1>4. t # NoTag
    BY <1>2 DEF Tags, NoTag
<1>5. ASSUME NEW c \in ledger.notes, c.hwnd = h PROVE Matches(c)
    <2>1. c = Under(h, t)
        BY <1>1, <1>3, <1>5 DEF NotesKept
    <2> QED BY <1>1, <1>2, <1>3, <2>1 DEF Matches
<1> QED BY <1>1, <1>2, <1>3, <1>4, <1>5

\* A window that stays as it is calms down.
LEMMA SameCalm ==
    ASSUME TypeOK, UNCHANGED window
    PROVE  Calm
BY DEF Calm, Calmer, HidesAt, Posted, TypeOK

\* A window that loses a tag which nothing hides by calms down.
LEMMA UntagCalm ==
    ASSUME TypeOK, NEW c \in Claims, window' = WithoutTag(c), UNCHANGED stray,
           HidesAt(c.hwnd) \subseteq stray
    PROVE  Calm
<1>1. Only(c.hwnd) /\ c.hwnd \in Hwnds /\ HidesAt(c.hwnd)' = HidesAt(c.hwnd)
    BY TagGoes
<1>2. Calmer(c.hwnd)
    BY <1>1 DEF Calmer
<1>3. ASSUME NEW k \in Hwnds \ {c.hwnd} PROVE Calmer(k)
    <2>1. window'[k] = window[k]
        BY <1>1 DEF Only
    <2> QED BY <2>1 DEF Calmer, HidesAt, Posted
<1> QED BY <1>1, <1>2, <1>3 DEF Calm, Only

\* A show that is posted hides nothing.
LEMMA ShowCalm ==
    ASSUME TypeOK, NEW h \in Hwnds, Exists(h), NEW t \in Tags, Post(h, "show", t)
    PROVE  Calm
<1>1. /\ Only(h) /\ Posted(h)' \subseteq Posted(h) /\ window'[h].hider = window[h].hider
      /\ window'[h].program = window[h].program /\ window'[h].tag = window[h].tag
    BY PostAdds
<1>2. Calmer(h)
    BY <1>1 DEF Calmer, HidesAt
<1>3. ASSUME NEW k \in Hwnds \ {h} PROVE Calmer(k)
    <2>1. window'[k] = window[k]
        BY <1>1 DEF Only
    <2> QED BY <2>1 DEF Calmer, HidesAt, Posted
<1> QED BY <1>1, <1>2, <1>3 DEF Calm, Only

\* The admission of a window puts a fresh tag on it.
LEMMA AdmitWorks ==
    ASSUME Assumption, Inv, NEW r \in Runs, NEW h \in Hwnds, Admit(r, h)
    PROVE  Admits(<<"owner", r>>)
<1> DEFINE a == <<"owner", r>>
           c == [hwnd |-> h, program |-> window[h].program, tag |-> drawn']
<1>1. TypeOK /\ a \in Agents /\ a[1] = "owner" /\ a[2] = r
    BY AgentFacts DEF Inv
<1>2. /\ owner[r] = "running" /\ job[a] = NoJob /\ window[h].tag = NoTag /\ Exists(h)
      /\ drawn < MaxTags /\ drawn' = drawn + 1
      /\ window' = [window EXCEPT ![h].tag = drawn']
      /\ job' = [job EXCEPT ![a] = [kind |-> "hide", step |-> "verify", claim |-> c]]
      /\ UNCHANGED <<ledger, lease, owner, watcher, ready, held, todo, doubt, made, shows, stray>>
    BY DEF Admit, Idle, Visible
<1>3. drawn' \in Tags /\ drawn' \in 0..MaxTags
    BY <1>1, <1>2 DEF TypeOK, Assumption, Tags
<1>4. c \in Claims
    <2>1. window[h] \in Windows /\ window[h].program \in Programs
        BY <1>1, <1>2, Existing
    <2> QED BY <1>3, <2>1 DEF Claims
<1> HIDE DEF a, c
<1>5. Begins(a, "hide", "verify", c)
    BY <1>1, <1>2, <1>4, JobBegins
<1>6. Only(h) /\ HidesAt(h)' = HidesAt(h)
    BY <1>1, <1>2, <1>3, TagComes
<1>7. HidesAt(h) \subseteq stray
    BY <1>1, <1>2, OnlyStray DEF Inv
<1>8. ASSUME NEW k \in Hwnds PROVE Calmer(k)
    <2>1. CASE k = h
        BY <1>2, <1>6, <1>7, <2>1 DEF Calmer
    <2>2. CASE k # h
        <3>1. window'[k] = window[k]
            BY <1>6, <2>2 DEF Only
        <3> QED BY <3>1 DEF Calmer, HidesAt, Posted
    <2> QED BY <2>1, <2>2
<1>9. Calm /\ lease = a
    BY <1>1, <1>2, <1>6, <1>8 DEF Calm, Only, Inv, LeaseHeld, a
<1>10. Works(a)
    BY <1>1, <1>2, <1>3, <1>9 DEF Works, Counted, TypeOK
<1>11. Admits(a)
    BY <1>1, <1>2, <1>4, <1>5, <1>9, <1>10 DEF Admits
<1> QED BY <1>11 DEF a

\* Cleaning up an admission disturbs no hide.
LEMMA OrphanCalm ==
    ASSUME TypeOK, NotesKept, HidesNamed, NEW r, NEW c \in Claims,
           window' = CleanOrphan(r, c), UNCHANGED stray
    PROVE  Calm
<1>1. c.hwnd \in Hwnds
    BY DEF Claims
<1>2. CASE ledger # NoLedger /\ ledger.owner = r /\ \A n \in ledger.notes : n.hwnd # c.hwnd
    <2>1. HidesAt(c.hwnd) \subseteq stray
        BY <1>1, <1>2, OnlyStray
    <2>2. window' = WithoutTag(c)
        BY <1>2 DEF CleanOrphan
    <2> QED BY <2>1, <2>2, UntagCalm
<1>3. CASE ~(ledger # NoLedger /\ ledger.owner = r /\ \A n \in ledger.notes : n.hwnd # c.hwnd)
    BY <1>3, SameCalm DEF CleanOrphan
<1> QED BY <1>2, <1>3

\* What a claim that is remembered adds.
LEMMA Remembers ==
    ASSUME TypeOK, NEW r \in Runs, NEW c \in Claims, Remember(r, c)
    PROVE  /\ held' \in [Runs -> SUBSET Claims]
           /\ \A s \in Runs \ {r} : held'[s] = held[s]
           /\ held'[r] \subseteq held[r] \cup {c}
<1>1. held \in [Runs -> SUBSET Claims]
    BY DEF TypeOK
<1> QED BY <1>1 DEF Remember

\* Who leaves a wait with the hide still queued leaves a stray hide.
LEMMA LeavesStray ==
    ASSUME TypeOK, NEW a \in Agents, LeaveWait(a)
    PROVE  /\ stray \subseteq stray' /\ stray' \subseteq Tags
           /\ job[a] # NoJob /\ job[a].kind \in {"hide", "rehide"} /\ job[a].step = "await"
                 /\ Posted(job[a].claim.hwnd) # {} => job[a].claim.tag \in stray'
<1>1. job[a] # NoJob => job[a].claim \in Claims
    BY JobFacts
<1>2. job[a] # NoJob => job[a].claim.hwnd \in Hwnds /\ job[a].claim.tag \in Tags
    BY <1>1 DEF Claims
<1>3. job[a] # NoJob /\ Posted(job[a].claim.hwnd) # {} => Queued(job[a].claim.hwnd, "hide")
    BY <1>2, PostedFacts
<1>4. job[a].kind \in {"hide", "rehide"} => job[a] # NoJob
    BY JobFacts
<1>5. stray \subseteq Tags
    BY DEF TypeOK
<1> QED BY <1>2, <1>3, <1>4, <1>5 DEF LeaveWait

\* The post of a hide.
LEMMA HidePosted ==
    ASSUME TypeOK, NEW a \in Agents, Works(a), job[a] # NoJob, PostHideOf(job[a].claim),
           Step(a, "await"), job[a].kind \in {"hide", "rehide"}, job[a].step = "post",
           UNCHANGED <<ledger, held, todo, doubt>>
    PROVE  Posts(a)
<1> DEFINE c == job[a].claim
<1>1. c \in Claims
    BY JobFacts
<1>2. c.hwnd \in Hwnds /\ c.tag \in Tags
    BY <1>1 DEF Claims
<1>3. /\ Exists(c.hwnd) /\ Post(c.hwnd, "hide", c.tag)
      /\ stray' = IF Matches(c) THEN stray ELSE stray \cup {c.tag}
    BY DEF PostHideOf
<1> HIDE DEF c
<1>4. ASSUME NEW h \in Hwnds, h = c.hwnd
      PROVE  /\ Only(h) /\ Posted(h)' \subseteq Posted(h) \cup {c.tag}
             /\ window'[h].program = window[h].program /\ window'[h].tag = window[h].tag
             /\ window'[h].hider = window[h].hider
    BY <1>2, <1>3, <1>4, PostAdds
<1>5. stray \subseteq stray' /\ stray' \subseteq Tags /\ (Matches(c) \/ c.tag \in stray')
    BY <1>2, <1>3 DEF TypeOK
<1>6. Moves(a, "await")
    BY StepMoves
<1> QED BY <1>4, <1>5, <1>6 DEF Posts, c

\* The steps of a hide, and of hiding again.
LEMMA HideWorks ==
    ASSUME Assumption, Inv, NEW r \in Runs, Hide(r)
    PROVE  Work(<<"owner", r>>)
<1> DEFINE a == <<"owner", r>>
           c == job[a].claim
<1>1. TypeOK /\ a \in Agents /\ a[1] = "owner" /\ a[2] = r
    BY AgentFacts DEF Inv
<1>2. /\ job[a].kind \in {"hide", "rehide"} /\ lease = a
      /\ UNCHANGED <<lease, owner, watcher, ready, todo, doubt, drawn, made, shows>>
    BY DEF Hide, VerifyHide, NoteHide, PostHide, AwaitHide, PostRehide, AwaitRehide, Working,
           hideVars
<1>3. job[a] # NoJob /\ c \in Claims
    BY <1>1, <1>2, JobFacts
<1>4. Works(a)
    BY <1>1, <1>2 DEF Works, Counted, TypeOK
<1>5. c.hwnd \in Hwnds
    BY <1>3 DEF Claims
<1>6. Done(a) => Ends(a)
    BY <1>1, DoneEnds
<1>7. CASE VerifyHide(r)
    <2>1. /\ job[a].kind = "hide" /\ job[a].step = "verify"
          /\ UNCHANGED <<ledger, held, stray>>
          /\ \/ Step(a, "note") /\ UNCHANGED window
             \/ Done(a) /\ (window' = CleanOrphan(r, c) \/ UNCHANGED window)
        BY <1>7 DEF VerifyHide, Working
    <2>2. Step(a, "note") => Moves(a, "note")
        BY <1>1, <1>3, StepMoves
    <2>3. window' = CleanOrphan(r, c) \/ UNCHANGED window => Calm
        BY <1>1, <1>3, <2>1, OrphanCalm, SameCalm DEF Inv
    <2> QED BY <1>2, <1>3, <1>4, <1>6, <2>1, <2>2, <2>3 DEF Work, Verifies, GivesUp
<1>8. CASE NoteHide(r)
    <2>1. /\ job[a].kind = "hide" /\ job[a].step = "note"
          /\ UNCHANGED <<held, stray>>
          /\ \/ /\ MayNote(r, c) /\ ledger' = [ledger EXCEPT !.notes = @ \cup {c}]
                /\ Step(a, "post") /\ UNCHANGED window
             \/ Done(a) /\ window' = CleanOrphan(r, c) /\ UNCHANGED ledger
        BY <1>8 DEF NoteHide, Working
    <2>2. Step(a, "post") => Moves(a, "post")
        BY <1>1, <1>3, StepMoves
    <2>3. window' = CleanOrphan(r, c) => Calm
        BY <1>1, <1>3, <2>1, OrphanCalm DEF Inv
    <2>4. ASSUME ledger' = [ledger EXCEPT !.notes = @ \cup {c}]
          PROVE  /\ ledger' \in [owner : Runs \cup {0}, notes : SUBSET Claims]
                 /\ ledger'.owner = ledger.owner /\ ledger'.notes = ledger.notes \cup {c}
        BY <1>1, <1>3, <2>4 DEF TypeOK
    <2>5. CASE MayNote(r, c) /\ ledger' = [ledger EXCEPT !.notes = @ \cup {c}]
               /\ Step(a, "post") /\ UNCHANGED window
        <3>1. Notes(a)
            BY <1>1, <1>2, <1>3, <1>4, <2>1, <2>2, <2>4, <2>5 DEF Notes, MayNote
        <3> QED BY <3>1 DEF Work
    <2>6. CASE Done(a) /\ window' = CleanOrphan(r, c) /\ UNCHANGED ledger
        BY <1>2, <1>3, <1>4, <1>6, <2>1, <2>3, <2>6 DEF Work, GivesUp
    <2> QED BY <2>1, <2>5, <2>6
<1>9. CASE PostHide(r)
    <2>1. /\ job[a].kind = "hide" /\ job[a].step = "post" /\ UNCHANGED ledger
          /\ \/ PostHideOf(c) /\ Step(a, "await") /\ UNCHANGED held
             \/ Done(a) /\ Remember(r, c) /\ UNCHANGED <<window, stray>>
        BY <1>9 DEF PostHide, Working
    <2>2. CASE PostHideOf(c) /\ Step(a, "await") /\ UNCHANGED held
        BY <1>1, <1>2, <1>3, <1>4, <2>1, <2>2, HidePosted DEF Work
    <2>3. CASE Done(a) /\ Remember(r, c) /\ UNCHANGED <<window, stray>>
        <3>1. stray' \subseteq Tags /\ stray \subseteq stray'
            BY <1>1, <2>3 DEF TypeOK
        <3>2. Stops(a)
            BY <1>1, <1>2, <1>3, <1>4, <1>6, <2>1, <2>3, <3>1, Remembers DEF Stops
        <3> QED BY <3>2 DEF Work
    <2> QED BY <2>1, <2>2, <2>3
<1>10. CASE AwaitHide(r)
    <2>1. /\ job[a].kind = "hide" /\ job[a].step = "await" /\ Done(a) /\ UNCHANGED window
          /\ LeaveWait(a)
          /\ \/ ~Exists(c.hwnd) /\ StrikeNote(c.hwnd) /\ UNCHANGED held
             \/ Remember(r, c) /\ UNCHANGED ledger
        BY <1>10 DEF AwaitHide, Working
    <2>2. /\ stray \subseteq stray' /\ stray' \subseteq Tags
          /\ Posted(c.hwnd) # {} => c.tag \in stray'
        BY <1>1, <1>3, <2>1, LeavesStray
    <2>3. CASE ~Exists(c.hwnd) /\ StrikeNote(c.hwnd) /\ UNCHANGED held
        <3>1. HidesAt(c.hwnd) = {} /\ Struck(c.hwnd)
            BY <1>1, <1>5, <2>3, PostedFacts, StrikeStrikes
        <3>2. held \in [Runs -> SUBSET Claims]
            BY <1>1 DEF TypeOK
        <3>3. Stops(a)
            BY <1>1, <1>2, <1>3, <1>4, <1>6, <2>1, <2>2, <2>3, <3>1, <3>2 DEF Stops
        <3> QED BY <3>3 DEF Work
    <2>4. CASE Remember(r, c) /\ UNCHANGED ledger
        <3>1. Stops(a)
            BY <1>1, <1>2, <1>3, <1>4, <1>6, <2>1, <2>2, <2>4, Remembers DEF Stops
        <3> QED BY <3>1 DEF Work
    <2> QED BY <2>1, <2>3, <2>4
<1>11. held \in [Runs -> SUBSET Claims] /\ stray \subseteq Tags
    BY <1>1 DEF TypeOK
<1>12. CASE PostRehide(r)
    <2>1. /\ job[a].kind = "rehide" /\ job[a].step = "post" /\ UNCHANGED <<ledger, held>>
          /\ \/ PostHideOf(c) /\ Step(a, "await")
             \/ Done(a) /\ UNCHANGED <<window, stray>>
        BY <1>12 DEF PostRehide, Working
    <2>2. CASE PostHideOf(c) /\ Step(a, "await")
        BY <1>1, <1>2, <1>3, <1>4, <2>1, <2>2, HidePosted DEF Work
    <2>3. CASE Done(a) /\ UNCHANGED <<window, stray>>
        <3>1. Stops(a)
            BY <1>1, <1>2, <1>3, <1>4, <1>6, <1>11, <2>1, <2>3 DEF Stops
        <3> QED BY <3>1 DEF Work
    <2> QED BY <2>1, <2>2, <2>3
<1>13. CASE AwaitRehide(r)
    <2>1. /\ job[a].kind = "rehide" /\ job[a].step = "await"
          /\ UNCHANGED <<window, ledger, held>> /\ LeaveWait(a)
          /\ Done(a) \/ StartJob(a, "retire", "read", c)
        BY <1>13 DEF AwaitRehide, Working
    <2>2. /\ stray \subseteq stray' /\ stray' \subseteq Tags
          /\ Posted(c.hwnd) # {} => c.tag \in stray'
        BY <1>1, <1>3, <2>1, LeavesStray
    <2>3. StartJob(a, "retire", "read", c) => Begins(a, "retire", "read", c)
        BY <1>1, <1>3, JobBegins DEF StartJob, RevealKinds
    <2>4. Stops(a)
        BY <1>1, <1>2, <1>3, <1>4, <1>6, <1>11, <2>1, <2>2, <2>3 DEF Stops
    <2> QED BY <2>4 DEF Work
<1> QED BY <1>7, <1>8, <1>9, <1>10, <1>12, <1>13 DEF Hide

\* The steps of a reveal.
LEMMA RevealWorks ==
    ASSUME Assumption, Inv, NEW a \in Agents, Reveal(a)
    PROVE  Work(a)
<1> DEFINE c == job[a].claim
<1>1. TypeOK /\ NotesKept /\ HidesNamed /\ SeenIsShown
    BY DEF Inv
<1>2. /\ job[a].kind \in RevealKinds /\ lease = a
      /\ UNCHANGED <<lease, owner, watcher, ready, drawn, made, shows, stray>>
    BY DEF Reveal, ReadReveal, PostReveal, AwaitReveal, UntagRevealed, StrikeRevealed,
       Revealing,
           revealVars
<1>3. job[a] # NoJob /\ c \in Claims /\ job[a].kind # "hide"
    BY <1>1, <1>2, JobFacts DEF RevealKinds, NoJob
<1>4. c.hwnd \in Hwnds /\ c.tag \in Tags
    BY <1>3 DEF Claims
<1>5. Reveals(a)
    BY <1>1, <1>2, <1>3 DEF Reveals, Works, Counted, TypeOK
<1>6. c \in ledger.notes
    BY <1>1, <1>3 DEF NotesKept
<1>7. held \in [Runs -> SUBSET Claims] /\ todo \in [Agents -> SUBSET Claims] /\ a[2] \in Runs
    BY <1>1, AgentFacts DEF TypeOK
<1>8. ASSUME Uncertain(a), UNCHANGED <<window, ledger>> PROVE Work(a)
    <2>1. Ends(a)
        BY <1>1, <1>8, DoneEnds DEF Uncertain
    <2>2. Dropped(a)
        BY <1>7, <1>8 DEF Uncertain, Dropped
    <2>3. held' \in [Runs -> SUBSET Claims] /\ \A s \in Runs : held'[s] \subseteq held[s]
        BY <1>7, <1>8 DEF Uncertain, Forget
    <2>4. doubt' = IF job[a].kind \in {"tear", "restore"} THEN doubt \cup {a} ELSE doubt
        BY <1>8 DEF Uncertain
    <2> QED BY <1>2, <1>5, <1>8, <2>1, <2>2, <2>3, <2>4 DEF Work, Doubts
<1>9. ASSUME Revealed(a), StrikeNote(c.hwnd), UNCHANGED window, HidesAt(c.hwnd) \subseteq stray
      PROVE  Work(a)
    <2>1. Ends(a) /\ UNCHANGED doubt
        BY <1>1, <1>9, DoneEnds DEF Revealed
    <2>2. Dropped(a)
        BY <1>7, <1>9 DEF Revealed, Dropped
    <2>3. /\ held' \in [Runs -> SUBSET Claims] /\ \A s \in Runs \ {a[2]} : held'[s] = held[s]
          /\ held'[a[2]] = held[a[2]] \ {c}
        BY <1>7, <1>9 DEF Revealed, Forget
    <2>4. Struck(c.hwnd)
        BY <1>1, <1>9, StrikeStrikes
    <2> QED BY <1>2, <1>5, <1>9, <2>1, <2>2, <2>3, <2>4 DEF Work, Strikes
<1>10. ASSUME Step(a, "untag"), Matches(c), Visible(c.hwnd),
              UNCHANGED <<window, ledger, held, todo, doubt>>
       PROVE  Work(a)
    <2>1. Moves(a, "untag")
        BY <1>1, <1>3, <1>10, StepMoves
    <2> QED BY <1>2, <1>5, <1>10, <2>1 DEF Work, Sees, Visible
<1>11. CASE ReadReveal(a)
    <2>1. /\ UNCHANGED window
          /\ \/ ~Matches(c) /\ StrikeNote(c.hwnd) /\ Revealed(a)
             \/ /\ Matches(c) /\ UNCHANGED <<ledger, held, todo, doubt>>
                /\ Step(a, IF Visible(c.hwnd) THEN "untag" ELSE "post")
             \/ Uncertain(a) /\ UNCHANGED ledger
        BY <1>11 DEF ReadReveal
    <2>2. CASE ~Matches(c) /\ StrikeNote(c.hwnd) /\ Revealed(a)
        <3>1. HidesAt(c.hwnd) \subseteq stray
            BY <1>1, <1>4, <1>6, <2>2, OnlyStray
        <3> QED BY <1>9, <2>1, <2>2, <3>1
    <2>3. CASE /\ Matches(c) /\ UNCHANGED <<ledger, held, todo, doubt>>
               /\ Step(a, IF Visible(c.hwnd) THEN "untag" ELSE "post")
        <3>1. CASE Visible(c.hwnd)
            BY <1>10, <2>1, <2>3, <3>1
        <3>2. CASE ~Visible(c.hwnd)
            <4>1. Moves(a, "post") /\ Calm
                BY <1>1, <1>3, <2>1, <2>3, <3>2, StepMoves, SameCalm
            <4> QED BY <1>2, <1>5, <2>3, <4>1 DEF Work, Shows
        <3> QED BY <3>1, <3>2
    <2>4. CASE Uncertain(a) /\ UNCHANGED ledger
        BY <1>8, <2>1, <2>4
    <2> QED BY <2>1, <2>2, <2>3, <2>4
<1>12. CASE PostReveal(a)
    <2>1. /\ UNCHANGED ledger
          /\ \/ /\ Exists(c.hwnd) /\ Post(c.hwnd, "show", c.tag)
                /\ Step(a, "await") /\ UNCHANGED <<held, todo, doubt>>
             \/ Uncertain(a) /\ UNCHANGED window
        BY <1>12 DEF PostReveal
    <2>2. CASE /\ Exists(c.hwnd) /\ Post(c.hwnd, "show", c.tag)
               /\ Step(a, "await") /\ UNCHANGED <<held, todo, doubt>>
        <3>1. Moves(a, "await")
            BY <1>1, <1>3, <2>2, StepMoves
        <3>2. Calm
            BY <1>1, <1>2, <1>4, <2>2, ShowCalm
        <3> QED BY <1>2, <1>5, <2>1, <2>2, <3>1, <3>2 DEF Work, Shows
    <2>3. CASE Uncertain(a) /\ UNCHANGED window
        BY <1>8, <2>1, <2>3
    <2> QED BY <2>1, <2>2, <2>3
<1>13. CASE AwaitReveal(a)
    <2>1. /\ UNCHANGED window
          /\ \/ ~Exists(c.hwnd) /\ StrikeNote(c.hwnd) /\ Revealed(a)
             \/ /\ Matches(c) /\ Visible(c.hwnd) /\ Step(a, "untag")
                /\ UNCHANGED <<ledger, held, todo, doubt>>
             \/ Uncertain(a) /\ UNCHANGED ledger
        BY <1>13 DEF AwaitReveal
    <2>2. CASE ~Exists(c.hwnd) /\ StrikeNote(c.hwnd) /\ Revealed(a)
        <3>1. HidesAt(c.hwnd) \subseteq stray
            BY <1>1, <1>4, <2>2, OnlyStray
        <3> QED BY <1>9, <2>1, <2>2, <3>1
    <2> QED BY <1>8, <1>10, <2>1, <2>2
<1>14. ASSUME job[a].step \in {"untag", "strike"} PROVE HidesAt(c.hwnd) \subseteq stray
    BY <1>1, <1>2, <1>3, <1>14 DEF SeenIsShown
<1>15. CASE UntagRevealed(a)
    <2>1. /\ job[a].step = "untag" /\ UNCHANGED ledger
          /\ \/ window' = WithoutTag(c) /\ Step(a, "strike") /\ UNCHANGED <<held, todo, doubt>>
             \/ Uncertain(a) /\ UNCHANGED window
        BY <1>15 DEF UntagRevealed, Revealing
    <2>2. CASE window' = WithoutTag(c) /\ Step(a, "strike") /\ UNCHANGED <<held, todo, doubt>>
        <3>1. Moves(a, "strike") /\ Calm
            BY <1>1, <1>2, <1>3, <1>14, <2>1, <2>2, StepMoves, UntagCalm
        <3> QED BY <1>2, <1>5, <2>1, <2>2, <3>1 DEF Work, Untags
    <2> QED BY <1>8, <2>1, <2>2
<1>16. CASE StrikeRevealed(a)
    BY <1>9, <1>14, <1>16 DEF StrikeRevealed, Revealing
<1> QED BY <1>11, <1>12, <1>13, <1>15, <1>16 DEF Reveal

\* A claim is taken up: revealed, hidden again, or restored.
Begun(r) == \/ RevealClaim(r) \/ Rehide(r) \/ NextTeardown(r)
            \/ owner[r] = "restoring" /\ NextRestore(<<"owner", r>>, "restore")

\* To take up a claim is work of the run that holds the lease.
LEMMA StartsWork ==
    ASSUME TypeOK, LeaseHeld, NEW r \in Runs, Begun(r)
    PROVE  Work(<<"owner", r>>)
<1> DEFINE a == <<"owner", r>>
<1>1. a \in Agents /\ a[1] = "owner" /\ a[2] = r
    BY AgentFacts
<1>2. held[r] \subseteq Claims /\ todo[a] \subseteq Claims
    BY <1>1 DEF TypeOK
<1>3. ASSUME NEW c \in Claims, NEW kind \in RevealKinds PROVE StartJob(a, kind, "read", c) => Begins(a, kind, "read", c)
    BY <1>1, JobBegins DEF StartJob
<1>4. ASSUME NEW c \in Claims PROVE StartJob(a, "rehide", "post", c) => Begins(a, "rehide", "post", c)
    BY <1>1, JobBegins DEF StartJob
<1>5. "reveal" \in RevealKinds /\ "retire" \in RevealKinds /\ "tear" \in RevealKinds /\ "restore" \in RevealKinds
    BY DEF RevealKinds
<1>6. /\ job[a] = NoJob
      /\ UNCHANGED <<window, ledger, lease, owner, watcher, ready, held, todo, doubt, drawn,
                     made, shows, stray>>
      /\ owner[r] \in {"running", "tearing", "restoring"}
    BY DEF Begun, RevealClaim, Rehide, NextTeardown, NextRestore, Idle, startVars
<1>7. lease = a
    BY <1>6 DEF LeaseHeld
<1>8. Works(a)
    BY <1>6, <1>7 DEF Works, Counted, TypeOK
<1>9. CASE RevealClaim(r)
    <2>1. PICK c \in held[r] : StartJob(a, IF Matches(c) THEN "reveal" ELSE "retire", "read", c)
        BY <1>9 DEF RevealClaim
    <2>2. PICK kind \in {"reveal", "retire"} : StartJob(a, kind, "read", c)
        BY <2>1
    <2>3. Begins(a, kind, "read", c) /\ owner[r] = "running"
        BY <1>2, <1>3, <1>5, <1>9, <2>2 DEF RevealClaim, Idle
    <2>4. Starts(a)
        BY <1>1, <1>6, <1>8, <2>3 DEF Starts
    <2> QED BY <2>4 DEF Work
<1>10. CASE Rehide(r)
    <2>1. PICK c \in held[r] : StartJob(a, "rehide", "post", c)
        BY <1>10 DEF Rehide
    <2>2. Begins(a, "rehide", "post", c) /\ owner[r] = "running"
        BY <1>2, <1>4, <1>10, <2>1 DEF Rehide, Idle
    <2>3. Starts(a)
        BY <1>1, <1>6, <1>8, <2>2 DEF Starts
    <2> QED BY <2>3 DEF Work
<1>11. CASE NextTeardown(r)
    <2>1. PICK c \in todo[a] : StartJob(a, "tear", "read", c)
        BY <1>11 DEF NextTeardown
    <2>2. Begins(a, "tear", "read", c) /\ owner[r] = "tearing"
        BY <1>2, <1>3, <1>5, <1>11, <2>1 DEF NextTeardown
    <2>3. Starts(a)
        BY <1>1, <1>6, <1>8, <2>2 DEF Starts
    <2> QED BY <2>3 DEF Work
<1>12. CASE owner[r] = "restoring" /\ NextRestore(<<"owner", r>>, "restore")
    <2>1. PICK c \in todo[a] : StartJob(a, "restore", "read", c)
        BY <1>12 DEF NextRestore
    <2>2. Begins(a, "restore", "read", c)
        BY <1>2, <1>3, <1>5, <2>1
    <2>3. Starts(a)
        BY <1>1, <1>6, <1>8, <1>12, <2>2 DEF Starts
    <2> QED BY <2>3 DEF Work
<1> QED BY <1>9, <1>10, <1>11, <1>12 DEF Begun

\* To take up a claim of a dead owner is work of the watcher that holds the lease.
LEMMA RestoreWorks ==
    ASSUME TypeOK, NEW r \in Runs, NextRestore(<<"watcher", r>>, "restore")
    PROVE  Work(<<"watcher", r>>)
<1> DEFINE a == <<"watcher", r>>
<1>1. a \in Agents /\ a[1] = "watcher" /\ a[2] = r
    BY AgentFacts
<1>2. PICK c \in todo[a] : StartJob(a, "restore", "read", c)
    BY DEF NextRestore
<1>3. c \in Claims
    BY <1>1 DEF TypeOK
<1>4. Begins(a, "restore", "read", c)
    BY <1>1, <1>2, <1>3, JobBegins DEF StartJob, RevealKinds
<1>5. /\ job[a] = NoJob /\ lease = a
      /\ UNCHANGED <<window, ledger, lease, owner, watcher, ready, held, todo, doubt, drawn,
                     made, shows, stray>>
    BY DEF NextRestore, startVars
<1>6. Works(a)
    BY <1>5 DEF Works, Counted, TypeOK
<1>7. Starts(a)
    BY <1>1, <1>4, <1>5, <1>6 DEF Starts
<1> QED BY <1>7 DEF Work

-----------------------------------------------------------------------------
(* Work keeps the invariant, part by part.                                    *)

\* What a job may go through.
LEMMA JobTypes ==
    ASSUME NEW a \in Agents
    PROVE  /\ \A s : Moves(a, s) => job' \in [Agents -> Jobs \cup {NoJob}]
           /\ Ends(a) => job' \in [Agents -> Jobs \cup {NoJob}]
           /\ \A k, s, c : Begins(a, k, s, c) => job' \in [Agents -> Jobs \cup {NoJob}]
BY DEF Moves, Ends, Begins

\* Work keeps the types.
LEMMA WorkTypes ==
    ASSUME TypeOK, NEW a \in Agents, Work(a)
    PROVE  TypeOK'
<1>1. /\ Counted /\ UNCHANGED <<lease, owner, watcher, ready>>
    BY DEF Work, Admits, GivesUp, Verifies, Notes, Posts, Stops, Sees, Shows, Untags, Strikes,
           Doubts, Starts, Reveals, Works
<1>2. job' \in [Agents -> Jobs \cup {NoJob}]
    BY JobTypes DEF Work, Admits, GivesUp, Verifies, Notes, Posts, Stops, Sees, Shows, Untags,
           Strikes, Doubts, Starts
<1>3. window' \in [Hwnds -> Windows \cup {NoWindow}]
    <2>1. CASE Posts(a)
        <3>1. job[a].claim \in Claims
            BY <2>1, JobFacts DEF Posts
        <3>2. job[a].claim.hwnd \in Hwnds
            BY <3>1 DEF Claims
        <3> QED BY <2>1, <3>2 DEF Posts, Only
    <2>2. CASE ~Posts(a)
        BY <2>2 DEF TypeOK, Work, Admits, GivesUp, Verifies, Notes, Stops, Sees, Shows, Untags,
           Strikes, Doubts, Starts, Calm
    <2> QED BY <2>1, <2>2
<1>4. ledger' \in [owner : Runs \cup {0}, notes : SUBSET Claims]
    BY DEF TypeOK, Work, Admits, GivesUp, Verifies, Notes, Posts, Stops, Sees, Shows, Untags,
           Strikes, Doubts, Starts, Struck
<1>5. held' \in [Runs -> SUBSET Claims]
    BY DEF TypeOK, Work, Admits, GivesUp, Verifies, Notes, Posts, Stops, Sees, Shows, Untags,
           Strikes, Doubts, Starts
<1>6. todo' \in [Agents -> SUBSET Claims] /\ doubt' \subseteq Agents /\ stray' \subseteq Tags
    BY DEF TypeOK, Work, Admits, GivesUp, Verifies, Notes, Posts, Stops, Sees, Shows, Untags,
           Strikes, Doubts, Starts, Dropped
<1> QED BY <1>1, <1>2, <1>3, <1>4, <1>5, <1>6 DEF TypeOK, Counted

\* Only one agent works.
LEMMA OthersRest ==
    ASSUME WorkUnderLease, NEW a \in Agents, lease = a
    PROVE  \A b \in Agents \ {a} : job[b] = NoJob /\ todo[b] = {} /\ b \notin doubt
BY DEF WorkUnderLease

\* What kind of work belongs to which life.
LEMMA KindsOfLife ==
    ASSUME TypeOK, LeaseHeld, WorkUnderLease, NEW a \in Agents, Work(a)
    PROVE  /\ lease = a /\ a[2] \in Runs
           /\ a[1] = "owner" => owner[a[2]] \in {"guarding", "running", "tearing", "restoring"}
           /\ a[1] = "watcher" => watcher[a[2]] = "restoring"
           /\ job[a] # NoJob /\ job[a].kind \in {"hide", "rehide", "reveal", "retire"} =>
                 a[1] = "owner" /\ owner[a[2]] = "running"
           /\ Notes(a) => a[1] = "owner" /\ owner[a[2]] = "running"
           /\ Stops(a) => a[1] = "owner" /\ owner[a[2]] = "running"
<1>1. lease = a
    BY DEF Work, Admits, GivesUp, Verifies, Notes, Posts, Stops, Sees, Shows, Untags, Strikes,
           Doubts, Starts, Reveals, Works
<1>2. /\ a[2] \in Runs /\ a = <<a[1], a[2]>> /\ a[1] \in {"owner", "watcher"}
    BY AgentFacts
<1>3. /\ a[1] = "owner" => owner[a[2]] \in {"guarding", "running", "tearing", "restoring"}
      /\ a[1] = "watcher" => watcher[a[2]] = "restoring"
    BY <1>1, <1>2 DEF LeaseHeld
<1>4. job[a] # NoJob /\ job[a].kind \in {"hide", "rehide", "reveal", "retire"} =>
                 a[1] = "owner" /\ owner[a[2]] = "running"
    BY <1>2 DEF WorkUnderLease
<1> QED BY <1>1, <1>2, <1>3, <1>4 DEF Notes, Stops

\* Work changes nothing of who holds the lease and whose the ledger is.
LEMMA WorkLeased ==
    ASSUME TypeOK, LeaseHeld, WorkUnderLease, NEW a \in Agents, Work(a)
    PROVE  LeaseHeld'
<1>1. UNCHANGED <<lease, owner, watcher>>
    BY DEF Work, Admits, GivesUp, Verifies, Notes, Posts, Stops, Sees, Shows, Untags, Strikes,
           Doubts, Starts, Reveals, Works
<1>2. ledger'.owner = ledger.owner /\ (~Notes(a) => ledger'.notes \subseteq ledger.notes)
    BY DEF Work, Admits, GivesUp, Verifies, Notes, Posts, Stops, Sees, Shows, Untags, Strikes,
           Doubts, Starts, Struck
<1>3. ASSUME NEW r \in Runs PROVE held'[r] \subseteq held[r] \/ (Stops(a) /\ r = a[2])
    BY DEF Work, Admits, GivesUp, Verifies, Notes, Posts, Stops, Sees, Shows, Untags, Strikes,
           Doubts, Starts, Struck
<1>4. /\ lease = a /\ a[2] \in Runs
      /\ Notes(a) \/ Stops(a) => a = <<"owner", a[2]>> /\ owner[a[2]] = "running"
    BY KindsOfLife, AgentFacts
<1>5. ASSUME NEW r \in Runs, owner[r] = "guarding" PROVE ledger'.notes = {}
    <2>1. a = <<"owner", r>> /\ ledger.notes = {}
        BY <1>4, <1>5 DEF LeaseHeld
    <2>2. ~Notes(a)
        BY <1>4, <1>5, <2>1, AgentFacts
    <2> QED BY <1>2, <2>1, <2>2
<1>6. ASSUME NEW r \in Runs, owner[r] \notin {"running", "tearing", "dead"} PROVE held'[r] = {}
    BY <1>3, <1>4, <1>6 DEF LeaseHeld
<1> QED BY <1>1, <1>2, <1>5, <1>6 DEF LeaseHeld, Alive

\* Work starts only what fits the life of the run, and leaves the others at rest.
LEMMA WorkWorks ==
    ASSUME TypeOK, LeaseHeld, WorkUnderLease, NEW a \in Agents, Work(a)
    PROVE  WorkUnderLease'
<1>1. UNCHANGED <<lease, owner, watcher>>
    BY DEF Work, Admits, GivesUp, Verifies, Notes, Posts, Stops, Sees, Shows, Untags, Strikes,
           Doubts, Starts, Reveals, Works
<1>2. lease = a /\ a[2] \in Runs /\ a = <<a[1], a[2]>> /\ a[1] \in {"owner", "watcher"}
    BY KindsOfLife, AgentFacts
<1>3. \A b \in Agents \ {a} : job[b] = NoJob /\ todo[b] = {} /\ b \notin doubt
    BY <1>2, OthersRest
<1>4. \A b \in Agents \ {a} : job'[b] = NoJob /\ todo'[b] = {} /\ b \notin doubt'
    BY <1>3 DEF Work, Admits, GivesUp, Verifies, Notes, Posts, Stops, Sees, Shows, Untags,
           Strikes, Doubts, Starts, Moves, Ends, Begins, Dropped
<1>5. todo'[a] \subseteq todo[a]
    BY DEF Work, Admits, GivesUp, Verifies, Notes, Posts, Stops, Sees, Shows, Untags,
           Strikes, Doubts, Starts, Dropped
<1>6. a \in doubt' => a \in doubt \/ (job[a] # NoJob /\ job[a].kind \in {"tear", "restore"})
    BY DEF Work, Admits, GivesUp, Verifies, Notes, Posts, Stops, Sees, Shows, Untags,
           Strikes, Doubts, Starts, Reveals
<1>7. ASSUME job'[a] # NoJob
      PROVE  \/ job[a] # NoJob /\ job'[a].kind = job[a].kind
             \/ /\ a[1] = "owner" /\ owner[a[2]] = "running"
                /\ job'[a].kind \in {"hide", "rehide", "reveal", "retire"}
             \/ a[1] = "owner" /\ owner[a[2]] = "tearing" /\ job'[a].kind = "tear"
             \/ (a[1] = "owner" => owner[a[2]] = "restoring") /\ job'[a].kind = "restore"
    <2>1. CASE Admits(a)
        BY <2>1 DEF Admits, Begins
    <2>2. CASE Stops(a)
        BY <1>7, <2>2, KindsOfLife DEF Stops, Begins, Ends
    <2>3. CASE Starts(a)
        BY <2>3 DEF Starts, Begins
    <2>4. CASE ~Admits(a) /\ ~Stops(a) /\ ~Starts(a)
        BY <1>7, <2>4 DEF Work, GivesUp, Verifies, Notes, Posts, Sees, Shows, Untags,
           Strikes, Doubts, Reveals, Moves, Ends
    <2> QED BY <2>1, <2>2, <2>3, <2>4
<1>8. /\ a[1] = "owner" /\ job'[a] # NoJob =>
              /\ job'[a].kind \in {"hide", "rehide", "reveal", "retire"} <=> owner[a[2]] = "running"
              /\ job'[a].kind = "tear" <=> owner[a[2]] = "tearing"
              /\ job'[a].kind = "restore" <=> owner[a[2]] = "restoring"
      /\ a[1] = "watcher" /\ job'[a] # NoJob => job'[a].kind = "restore"
    BY <1>7 DEF WorkUnderLease
<1>9. a[1] = "owner" /\ owner[a[2]] \in {"guarding", "running"} => todo'[a] = {} /\ a \notin doubt'
    BY <1>5, <1>6 DEF WorkUnderLease
<1> QED BY <1>1, <1>2, <1>4, <1>8, <1>9 DEF WorkUnderLease

\* What is left to reveal stays noted, and at the end of a run or in a restore
\* what is noted stays to be revealed, unless one claim was uncertain.
LEMMA WorkKeepsNotes ==
    ASSUME TypeOK, LeaseHeld, WorkUnderLease, NotesKept, NEW a \in Agents, Work(a)
    PROVE  NotesKept'
<1>1. UNCHANGED <<lease, owner, watcher>> /\ ledger'.owner = ledger.owner
    BY DEF Work, Admits, GivesUp, Verifies, Notes, Posts, Stops, Sees, Shows, Untags, Strikes,
           Doubts, Starts, Reveals, Works, Struck
<1>2. lease = a /\ a[2] \in Runs /\ a = <<a[1], a[2]>> /\ a[1] \in {"owner", "watcher"}
    BY KindsOfLife, AgentFacts
<1>3. \A b \in Agents \ {a} : job[b] = NoJob /\ todo[b] = {} /\ b \notin doubt
    BY <1>2, OthersRest
<1>4. \A b \in Agents \ {a} : job'[b] = NoJob /\ todo'[b] = {} /\ b \notin doubt'
    BY <1>3 DEF Work, Admits, GivesUp, Verifies, Notes, Posts, Stops, Sees, Shows, Untags,
           Strikes, Doubts, Starts, Moves, Ends, Begins, Dropped
<1>5. ASSUME NEW b \in Agents,
             \/ b[1] = "owner" /\ owner[b[2]] \in {"tearing", "restoring"}
             \/ b[1] = "watcher" /\ watcher[b[2]] = "restoring"
      PROVE  b = a
    BY <1>2, <1>5, AgentFacts DEF LeaseHeld
<1>6. ASSUME NEW s \in Runs, owner[s] = "running" PROVE a = <<"owner", s>>
    BY <1>2, <1>6 DEF LeaseHeld
<1>7. job[a] # NoJob => job[a].claim \in Claims
    BY JobFacts
<1> DEFINE Kept == /\ todo'[a] \subseteq ledger'.notes
                   /\ job'[a] # NoJob /\ (job'[a].kind # "hide" \/ job'[a].step \in {"post", "await"}) =>
                         job'[a].claim \in ledger'.notes
                   /\ job'[a] # NoJob /\ job'[a].kind = "hide" /\ job'[a].step \in {"post", "await"} =>
                         \A d \in held'[a[2]] : d.hwnd # job'[a].claim.hwnd
                   /\ ledger.notes \subseteq todo[a] /\ a \notin doubt' =>
                         ledger'.notes \subseteq todo'[a] \/ Notes(a)
                   /\ owner[a[2]] = "running" => held'[a[2]] \subseteq ledger'.notes
                   /\ \A c, d \in ledger'.notes : c.hwnd = d.hwnd => c = d
                   /\ ledger.owner = 0 => ledger'.notes = {}
<1>8. ASSUME Kept PROVE NotesKept'
    <2>1. (ledger.owner = 0 => ledger'.notes = {}) /\ \A c, d \in ledger'.notes : c.hwnd = d.hwnd => c = d
        BY <1>8
    <2>2. ASSUME NEW b \in Agents
          PROVE  /\ todo'[b] \subseteq ledger'.notes
                 /\ job'[b] # NoJob /\ (job'[b].kind # "hide" \/ job'[b].step \in {"post", "await"}) =>
                       job'[b].claim \in ledger'.notes
                 /\ job'[b] # NoJob /\ job'[b].kind = "hide" /\ job'[b].step \in {"post", "await"} =>
                       \A d \in held'[b[2]] : d.hwnd # job'[b].claim.hwnd
        <3>1. CASE b = a
            BY <1>8, <3>1
        <3>2. CASE b # a
            BY <1>4, <3>2
        <3> QED BY <3>1, <3>2
    <2>3. ASSUME NEW b \in Agents, b \notin doubt',
                 \/ b[1] = "owner" /\ owner[b[2]] \in {"tearing", "restoring"}
                 \/ b[1] = "watcher" /\ watcher[b[2]] = "restoring"
          PROVE  ledger'.notes \subseteq todo'[b]
        <3>1. b = a
            BY <1>5, <2>3
        <3>2. ~Notes(a)
            BY <2>3, <3>1, KindsOfLife
        <3>3. a \notin doubt
            <4>1. doubt \subseteq doubt'
                BY DEF Work, Admits, GivesUp, Verifies, Notes, Posts, Stops, Sees, Shows,
                   Untags,
                       Strikes, Doubts, Starts
            <4> QED BY <2>3, <3>1, <4>1
        <3>4. ledger.notes \subseteq todo[a]
            BY <2>3, <3>1, <3>3 DEF NotesKept
        <3> QED BY <1>8, <2>3, <3>1, <3>2, <3>4
    <2>4. ASSUME NEW s \in Runs, owner[s] = "running" PROVE held'[s] \subseteq ledger'.notes
        <3>1. a = <<"owner", s>>
            BY <1>6, <2>4
        <3> QED BY <1>8, <2>4, <3>1, AgentFacts
    <2> HIDE DEF Kept
    <2> QED BY <1>1, <2>1, <2>2, <2>3, <2>4 DEF NotesKept
<1>9. /\ todo[a] \subseteq ledger.notes
      /\ job[a] # NoJob /\ (job[a].kind # "hide" \/ job[a].step \in {"post", "await"}) =>
            job[a].claim \in ledger.notes
      /\ job[a] # NoJob /\ job[a].kind = "hide" /\ job[a].step \in {"post", "await"} =>
            \A d \in held[a[2]] : d.hwnd # job[a].claim.hwnd
      /\ owner[a[2]] = "running" => held[a[2]] \subseteq ledger.notes
      /\ \A c, d \in ledger.notes : c.hwnd = d.hwnd => c = d
      /\ ledger.owner = 0 => ledger.notes = {}
    BY <1>2 DEF NotesKept
<1>10. CASE Admits(a) \/ GivesUp(a) \/ Verifies(a) \/ Sees(a) \/ Shows(a) \/ Untags(a)
    <2>1. UNCHANGED <<ledger, held, todo, doubt>>
        BY <1>10 DEF Admits, GivesUp, Verifies, Sees, Shows, Untags
    <2>2. \/ job'[a] = NoJob
          \/ job'[a].kind = "hide" /\ job'[a].step \in {"verify", "note"}
          \/ job[a] # NoJob /\ job'[a].kind = job[a].kind /\ job[a].kind # "hide"
             /\ job'[a].claim = job[a].claim
        BY <1>10 DEF Admits, GivesUp, Verifies, Sees, Shows, Untags, Moves, Begins, Ends,
           Reveals, RevealKinds
    <2>3. Kept
        BY <1>9, <2>1, <2>2
    <2> QED BY <1>8, <2>3
<1>11. CASE Notes(a)
    <2>1. UNCHANGED <<held, todo, doubt>> /\ ledger'.notes = ledger.notes \cup {job[a].claim}
        BY <1>11 DEF Notes
    <2>2. /\ job'[a].kind = "hide" /\ job'[a].claim = job[a].claim
          /\ \A n \in ledger.notes : n.hwnd # job[a].claim.hwnd
          /\ owner[a[2]] = "running" /\ ledger.owner = a[2]
        BY <1>11, KindsOfLife DEF Notes, Moves
    <2>3. held[a[2]] \subseteq ledger.notes /\ ledger.owner # 0
        BY <1>2, <1>9, <2>2, RunsPositive DEF Runs
    <2>4. Kept
        BY <1>9, <1>11, <2>1, <2>2, <2>3
    <2> QED BY <1>8, <2>4
<1>12. CASE Posts(a)
    <2>1. UNCHANGED <<ledger, held, todo, doubt>> /\ job[a] # NoJob /\ job[a].step = "post"
        BY <1>12 DEF Posts
    <2>2. job'[a].kind = job[a].kind /\ job'[a].claim = job[a].claim
        BY <1>12 DEF Posts, Moves
    <2>3. Kept
        BY <1>9, <2>1, <2>2
    <2> QED BY <1>8, <2>3
<1>13. CASE Stops(a)
    <2>1. UNCHANGED <<todo, doubt>> /\ job[a] # NoJob /\ owner[a[2]] = "running" /\ todo[a] = {}
        BY <1>2, <1>13, KindsOfLife DEF Stops, WorkUnderLease
    <2>2. /\ job[a].claim \in ledger.notes
          /\ job'[a] = NoJob \/ (job[a].kind = "rehide" /\ job'[a].kind = "retire" /\ job'[a].claim = job[a].claim)
        BY <1>9, <1>13 DEF Stops, Ends, Begins
    <2>3. \/ UNCHANGED ledger /\ held'[a[2]] \subseteq held[a[2]] \cup {job[a].claim}
          \/ /\ job[a].kind = "hide" /\ job[a].step \in {"post", "await"}
             /\ ledger'.notes = {n \in ledger.notes : n.hwnd # job[a].claim.hwnd} /\ UNCHANGED held
        BY <1>13 DEF Stops, Struck
    <2>4. CASE UNCHANGED ledger /\ held'[a[2]] \subseteq held[a[2]] \cup {job[a].claim}
        <3>1. Kept
            BY <1>9, <2>1, <2>2, <2>4
        <3> QED BY <1>8, <3>1
    <2>5. CASE /\ job[a].kind = "hide" /\ job[a].step \in {"post", "await"}
               /\ ledger'.notes = {n \in ledger.notes : n.hwnd # job[a].claim.hwnd} /\ UNCHANGED held
        <3>1. job'[a] = NoJob
            BY <2>2, <2>5
        <3>2. held[a[2]] \subseteq ledger'.notes
            BY <1>9, <2>1, <2>5
        <3>3. Kept
            BY <1>9, <2>1, <2>5, <3>1, <3>2
        <3> QED BY <1>8, <3>3
    <2> QED BY <2>3, <2>4, <2>5
<1>14. CASE Strikes(a)
    <2>1. /\ job'[a] = NoJob /\ job[a] # NoJob /\ job[a].kind # "hide" /\ UNCHANGED doubt
          /\ todo'[a] = todo[a] \ {job[a].claim}
          /\ held'[a[2]] = held[a[2]] \ {job[a].claim}
          /\ ledger'.notes = {n \in ledger.notes : n.hwnd # job[a].claim.hwnd}
        BY <1>14 DEF Strikes, Reveals, RevealKinds, Ends, Struck, Dropped
    <2>2. \A n \in ledger.notes : n.hwnd = job[a].claim.hwnd => n = job[a].claim
        BY <1>9, <2>1
    <2>3. /\ todo'[a] \subseteq ledger'.notes
          /\ owner[a[2]] = "running" => held'[a[2]] \subseteq ledger'.notes
          /\ ledger.notes \subseteq todo[a] => ledger'.notes \subseteq todo'[a]
        BY <1>9, <2>1, <2>2
    <2>4. Kept
        BY <1>9, <2>1, <2>3
    <2> QED BY <1>8, <2>4
<1>15. CASE Doubts(a)
    <2>1. /\ job'[a] = NoJob /\ UNCHANGED ledger /\ held'[a[2]] \subseteq held[a[2]]
          /\ todo'[a] = todo[a] \ {job[a].claim}
        BY <1>2, <1>15 DEF Doubts, Ends, Dropped
    <2>2. ASSUME ledger.notes \subseteq todo[a] PROVE a \in doubt' \/ ledger.notes = {} \/ todo[a] = {}
        <3>1. CASE job[a].kind \in {"tear", "restore"}
            BY <1>15, <3>1 DEF Doubts
        <3>2. CASE job[a].kind \notin {"tear", "restore"}
            BY <1>2, <1>15, <3>2, KindsOfLife DEF Doubts, Reveals, RevealKinds, WorkUnderLease
        <3> QED BY <3>1, <3>2
    <2>3. Kept
        BY <1>9, <2>1, <2>2
    <2> QED BY <1>8, <2>3
<1>16. CASE Starts(a)
    <2>1. UNCHANGED <<ledger, held, todo, doubt>>
        BY <1>16 DEF Starts
    <2>2. job'[a].kind # "hide" /\ job'[a].claim \in ledger.notes
        <3>1. /\ job'[a].kind # "hide"
              /\ job'[a].claim \in todo[a] \/ (owner[a[2]] = "running" /\ job'[a].claim \in held[a[2]])
            BY <1>16 DEF Starts, Begins
        <3> QED BY <1>9, <3>1
    <2>3. Kept
        BY <1>9, <2>1, <2>2
    <2> QED BY <1>8, <2>3
<1> QED BY <1>10, <1>11, <1>12, <1>13, <1>14, <1>15, <1>16 DEF Work

\* A wait for a hide is for the claim of the job, and only its agent ends it.
LEMMA WaitsStay ==
    ASSUME NEW a \in Agents, NEW b \in Agents, NEW c, Waits(b, c), job'[b] = job[b]
    PROVE  Waits(b, c)'
BY DEF Waits

\* The shape of a claim under a tag, and what keeps it.
LEMMA UnderFacts ==
    ASSUME NEW h \in Hwnds, NEW t
    PROVE  /\ Under(h, t).hwnd = h /\ Under(h, t).program = window[h].program
           /\ Under(h, t).tag = t
           /\ window'[h].program = window[h].program => Under(h, t)' = Under(h, t)
BY DEF Under

\* Where windows only calm down, hides stay named as long as the notes of the ledger
\* that they need stay and those who wait go on waiting.
LEMMA CalmKeepsHides ==
    ASSUME TypeOK, HidesNamed, Calm, stray \subseteq stray',
           \A h \in Hwnds : \A c \in ledger.notes :
               c.hwnd = h => c \in ledger'.notes \/ HidesAt(h)' \subseteq stray',
           \A b \in Agents : \A c :
               Waits(b, c) => Waits(b, c)' \/ c.tag \in stray' \/ c.hwnd \notin Hwnds
                                          \/ Posted(c.hwnd) = {}
    PROVE  HidesNamed'
<1> SUFFICES ASSUME NEW h \in Hwnds
             PROVE  /\ \A t \in HidesAt(h)' \ stray' : Under(h, t)' \in ledger'.notes /\ window'[h].tag = t
                    /\ \A t \in Posted(h)' \ stray' : \E b \in Agents : Waits(b, Under(h, t))'
    BY DEF HidesNamed
<1>1. Calmer(h)
    BY DEF Calm
<1>2. Posted(h)' \subseteq HidesAt(h)'
    BY DEF HidesAt
<1>3. CASE HidesAt(h)' \subseteq stray'
    BY <1>2, <1>3
<1>4. CASE /\ HidesAt(h)' \subseteq HidesAt(h) /\ Posted(h)' \subseteq Posted(h)
           /\ window'[h].program = window[h].program /\ window'[h].tag = window[h].tag
    <2>1. ASSUME NEW t \in HidesAt(h)' \ stray'
          PROVE  Under(h, t)' \in ledger'.notes /\ window'[h].tag = t
        <3>1. Under(h, t) \in ledger.notes /\ window[h].tag = t
            BY <1>4, <2>1 DEF HidesNamed
        <3>2. Under(h, t)' = Under(h, t) /\ Under(h, t).hwnd = h
            BY <1>4, UnderFacts
        <3> QED BY <1>4, <2>1, <3>1, <3>2
    <2>2. ASSUME NEW t \in Posted(h)' \ stray'
          PROVE  \E b \in Agents : Waits(b, Under(h, t))'
        <3>1. PICK b \in Agents : Waits(b, Under(h, t))
            BY <1>4, <2>2 DEF HidesNamed
        <3>2. Under(h, t)' = Under(h, t) /\ Under(h, t).hwnd = h /\ Under(h, t).tag = t
            BY <1>4, UnderFacts
        <3>3. Posted(h) # {}
            BY <1>4, <2>2
        <3>4. Waits(b, Under(h, t))' \/ Under(h, t).tag \in stray'
            BY <3>1, <3>2, <3>3
        <3> QED BY <2>2, <3>2, <3>4
    <2> QED BY <2>1, <2>2
<1> QED BY <1>1, <1>3, <1>4 DEF Calmer

\* Where nobody waits, what is still posted is stray.
LEMMA NobodyWaits ==
    ASSUME TypeOK, WorkUnderLease, HidesNamed, NEW a \in Agents, lease = a,
           \A c : ~Waits(a, c), NEW h \in Hwnds
    PROVE  Posted(h) \subseteq stray
<1>1. \A b \in Agents : \A c : ~Waits(b, c)
    BY OthersRest DEF Waits
<1> QED BY <1>1 DEF HidesNamed

\* The post of a hide keeps hides named: its claim is in the ledger, its agent waits
\* for it, and if the window is not the claimed one the hide is stray.
LEMMA PostsKeepHides ==
    ASSUME TypeOK, WorkUnderLease, NotesKept, HidesNamed, NEW a \in Agents, Posts(a)
    PROVE  HidesNamed'
<1> DEFINE c == job[a].claim
<1>1. /\ lease = a /\ job[a] # NoJob /\ job[a].kind \in {"hide", "rehide"} /\ job[a].step = "post"
      /\ job'[a] # NoJob /\ job'[a].kind = job[a].kind /\ job'[a].claim = c
      /\ job'[a].step = "await" /\ UNCHANGED ledger
      /\ stray \subseteq stray' /\ (Matches(c) \/ c.tag \in stray')
    BY DEF Posts, Works, Moves
<1>2. c \in Claims /\ c \in ledger.notes
    BY <1>1, JobFacts DEF NotesKept
<1>3. c.hwnd \in Hwnds
    BY <1>2 DEF Claims
<1>4. \A k \in Hwnds : Posted(k) \subseteq stray
    BY <1>1, NobodyWaits DEF Waits
<1>5. Waits(a, c)'
    BY <1>1 DEF Waits
<1> SUFFICES ASSUME NEW h \in Hwnds
             PROVE  /\ \A t \in HidesAt(h)' \ stray' : Under(h, t)' \in ledger'.notes /\ window'[h].tag = t
                    /\ \A t \in Posted(h)' \ stray' : \E b \in Agents : Waits(b, Under(h, t))'
    BY DEF HidesNamed
<1>6. CASE h # c.hwnd
    <2>1. window'[h] = window[h]
        BY <1>3, <1>6 DEF Posts, Only
    <2>2. Posted(h)' = Posted(h) /\ HidesAt(h)' = HidesAt(h) /\ \A t : Under(h, t)' = Under(h, t)
        BY <2>1 DEF Posted, HidesAt, Under
    <2> QED BY <1>1, <1>4, <2>1, <2>2 DEF HidesNamed
<1>7. CASE h = c.hwnd
    <2>1. /\ Posted(h)' \subseteq Posted(h) \cup {c.tag}
          /\ window'[h].program = window[h].program /\ window'[h].tag = window[h].tag
          /\ window'[h].hider = window[h].hider
        BY <1>7 DEF Posts
    <2>2. HidesAt(h)' \subseteq HidesAt(h) \cup {c.tag}
        BY <2>1 DEF HidesAt
    <2>3. ASSUME c.tag \notin stray'
          PROVE  Under(h, c.tag)' = c /\ window[h].tag = c.tag
        <3>1. window[h].program = c.program /\ window[h].tag = c.tag
            BY <1>1, <1>7, <2>3 DEF Matches
        <3>2. c = [hwnd |-> c.hwnd, program |-> c.program, tag |-> c.tag]
            BY <1>2 DEF Claims
        <3>3. c = Under(h, c.tag)
            BY <1>7, <3>1, <3>2 DEF Under
        <3>4. Under(h, c.tag)' = [hwnd |-> h, program |-> window'[h].program, tag |-> c.tag']
            BY DEF Under
        <3>5. c' = c
            BY <1>1
        <3> QED BY <1>7, <2>1, <3>1, <3>2, <3>4, <3>5
    <2>4. ASSUME NEW t \in HidesAt(h)' \ stray'
          PROVE  Under(h, t)' \in ledger'.notes /\ window'[h].tag = t
        <3>1. CASE t = c.tag
            <4>1. Under(h, t)' = c
                BY <2>3, <2>4, <3>1, <1>1 DEF Under
            <4> QED BY <1>1, <1>2, <2>1, <2>3, <2>4, <3>1, <4>1
        <3>2. CASE t # c.tag
            <4>1. t \in HidesAt(h) \ stray
                BY <1>1, <2>2, <2>4, <3>2
            <4>2. Under(h, t)' = Under(h, t)
                BY <2>1, UnderFacts
            <4> QED BY <1>1, <2>1, <4>1, <4>2 DEF HidesNamed
        <3> QED BY <3>1, <3>2
    <2>5. ASSUME NEW t \in Posted(h)' \ stray'
          PROVE  \E b \in Agents : Waits(b, Under(h, t))'
        <3>1. t = c.tag
            BY <1>1, <1>4, <2>1, <2>5
        <3>2. Under(h, t)' = c
            BY <2>3, <2>5, <3>1, <1>1 DEF Under
        <3>3. job'[a].claim = Under(h, t)'
            BY <1>1, <3>2
        <3>4. Waits(a, Under(h, t))'
            BY <1>1, <3>3 DEF Waits
        <3> QED BY <3>4
    <2> QED BY <2>4, <2>5
<1> QED BY <1>6, <1>7

\* Work keeps hides named: a note goes only where nothing hides any more.
LEMMA WorkKeepsHides ==
    ASSUME TypeOK, LeaseHeld, WorkUnderLease, NotesKept, HidesNamed, NEW a \in Agents, Work(a)
    PROVE  HidesNamed'
<1>1. CASE Posts(a)
    BY <1>1, PostsKeepHides
<1>2. CASE ~Posts(a)
    <2>1. Calm
        BY <1>2, SameCalm DEF Work, Admits, GivesUp, Verifies, Notes, Stops, Sees, Shows,
           Untags,
           Strikes, Doubts, Starts
    <2>2. stray \subseteq stray'
        BY <1>2 DEF Work, Admits, GivesUp, Verifies, Notes, Stops, Sees, Shows, Untags,
           Strikes, Doubts, Starts
    <2>3. ASSUME NEW h \in Hwnds, NEW c \in ledger.notes, c.hwnd = h
          PROVE  c \in ledger'.notes \/ HidesAt(h)' \subseteq stray'
        <3>1. CASE Stops(a) \/ Strikes(a)
            <4>1. HidesAt(h)' = HidesAt(h)
                <5>1. UNCHANGED window
                    BY <3>1 DEF Stops, Strikes
                <5> QED BY <5>1 DEF HidesAt, Posted
            <4>2. CASE h = job[a].claim.hwnd
                BY <2>2, <2>3, <3>1, <4>1, <4>2 DEF Stops, Strikes
            <4>3. CASE h # job[a].claim.hwnd
                BY <2>3, <3>1, <4>3 DEF Stops, Strikes, Struck
            <4> QED BY <4>2, <4>3
        <3>2. CASE ~(Stops(a) \/ Strikes(a))
            BY <1>2, <2>3, <3>2 DEF Work, Admits, GivesUp, Verifies, Notes, Sees, Shows,
               Untags, Doubts, Starts
        <3> QED BY <3>1, <3>2
    <2>4. ASSUME NEW b \in Agents, NEW c, Waits(b, c)
          PROVE  Waits(b, c)' \/ c.tag \in stray' \/ Posted(c.hwnd) = {}
        <3>1. lease = a
            BY KindsOfLife
        <3>2. b = a
            BY <2>4, <3>1, OthersRest DEF Waits
        <3>3. CASE Stops(a)
            BY <2>4, <3>2, <3>3 DEF Stops, Waits
        <3>4. CASE ~Stops(a)
            BY <1>2, <2>4, <3>2, <3>4 DEF Waits, Work, Admits, GivesUp, Verifies, Notes,
               Sees, Shows,
               Untags, Strikes, Doubts, Starts, Reveals, RevealKinds
        <3> QED BY <3>3, <3>4
    <2> QED BY <2>1, <2>2, <2>3, <2>4, CalmKeepsHides
<1> QED BY <1>1, <1>2

\* A window that a reveal has seen shown stays so until its note is struck.
LEMMA WorkSees ==
    ASSUME TypeOK, LeaseHeld, WorkUnderLease, HidesNamed, SeenIsShown, NEW a \in Agents, Work(a)
    PROVE  SeenIsShown'
<1>1. lease = a
    BY KindsOfLife
<1> SUFFICES ASSUME NEW b \in Agents, job'[b] # NoJob, job'[b].kind \in RevealKinds,
                    job'[b].step \in {"untag", "strike"}
             PROVE  HidesAt(job[b].claim.hwnd)' \subseteq stray'
    BY DEF SeenIsShown
<1>2. b = a
    <2>1. \A d \in Agents \ {a} : job'[d] = NoJob
        BY <1>1, OthersRest DEF Work, Admits, GivesUp, Verifies, Notes, Posts, Stops, Sees,
           Shows, Untags,
           Strikes, Doubts, Starts, Moves, Ends, Begins
    <2> QED BY <2>1
<1>3. Sees(a) \/ Untags(a)
    BY <1>2 DEF Work, Admits, GivesUp, Verifies, Notes, Posts, Stops, Shows,
           Strikes, Doubts, Starts, Moves, Ends, Begins, RevealKinds
<1>4. /\ job[a] # NoJob /\ job[a].kind \in RevealKinds /\ job'[a].claim = job[a].claim
      /\ UNCHANGED stray
    BY <1>3 DEF Sees, Untags, Reveals, Moves
<1>5. job[a].claim \in Claims
    BY <1>4, JobFacts
<1>6. PICK h \in Hwnds : h = job[a].claim.hwnd
    BY <1>5 DEF Claims
<1>7. HidesAt(h)' \subseteq stray'
    <2>1. CASE Sees(a)
        <3>1. Posted(h) \subseteq stray
            BY <1>1, <1>4, NobodyWaits DEF Waits, RevealKinds
        <3>2. HidesAt(h)' = HidesAt(h) /\ window[h].hider = NoTag
            BY <1>6, <2>1 DEF Sees, HidesAt, Posted
        <3> QED BY <1>4, <3>1, <3>2 DEF HidesAt
    <2>2. CASE Untags(a)
        <3>1. HidesAt(h) \subseteq stray
            BY <1>4, <1>6, <2>2 DEF SeenIsShown, Untags
        <3>2. Calmer(h)
            BY <2>2 DEF Untags, Calm
        <3> QED BY <1>4, <3>1, <3>2 DEF Calmer
    <2> QED BY <1>3, <2>1, <2>2
<1>8. job'[b].claim.hwnd = h
    BY <1>2, <1>4, <1>6
<1> QED BY <1>7, <1>8 DEF HidesAt, Posted

-----------------------------------------------------------------------------
(* The lives of runs and watchers keep the invariant.                         *)

\* What a step in the life of a run or a watcher leaves alone: windows, notes, and the
\* jobs that it does not end.
Rests ==
    /\ UNCHANGED window /\ ledger'.notes = ledger.notes /\ stray \subseteq stray'
    /\ \A b \in Agents :
         \/ job'[b] = job[b]
         \/ /\ job'[b] = NoJob
            /\ job[b] # NoJob /\ job[b].kind \in {"hide", "rehide"} /\ job[b].step = "await"
                  /\ Posted(job[b].claim.hwnd) # {} => job[b].claim.tag \in stray'

\* The steps of a life that is not a claim taken up.
Passes(r) ==
    \/ Boot(r) \/ PeekResidue(r) \/ TakeResidue(r) \/ EndReclaim(r) \/ OpenStore(r)
    \/ SpawnWatcher(r) \/ WatcherSeen(r) \/ WatcherFails(r) \/ BeginTeardown(r) \/ EndRun(r)
    \/ Crash(r) \/ WatcherStarts(r) \/ WatcherRestores(r) \/ EndWatcher(r) \/ WatcherCrashes(r)

\* A step of a life moves the lease, what is to be revealed and the ledger together.
LEMMA LifeKeeps ==
    ASSUME Assumption, TypeOK, LeaseHeld, WorkUnderLease, NotesKept, NEW r \in Runs, Passes(r)
    PROVE  TypeOK' /\ LeaseHeld' /\ WorkUnderLease' /\ NotesKept' /\ Rests
<1>1. <<"owner", r>> \in Agents /\ <<"watcher", r>> \in Agents /\ 0 \notin Runs
    BY AgentFacts, RunsPositive
<1>2. NoLedger \in [owner : Runs \cup {0}, notes : SUBSET Claims] /\ NoLedger.owner = 0 /\ NoLedger.notes = {}
    BY DEF NoLedger
<1>3. /\ ledger \in [owner : Runs \cup {0}, notes : SUBSET Claims]
      /\ ledger.owner = 0 => ledger = NoLedger
    BY DEF TypeOK, NotesKept, NoLedger
<1>0. ASSUME owner[r] = "guarding"
      PROVE  job[<<"owner", r>>] = NoJob /\ todo[<<"owner", r>>] = {} /\ <<"owner", r>> \notin doubt
    <2>1. job[<<"owner", r>>] = NoJob
        <3>1. job[<<"owner", r>>] \in Jobs \cup {NoJob}
            BY <1>1 DEF TypeOK
        <3> QED BY <1>0, <1>1, <3>1, AgentFacts DEF WorkUnderLease, Jobs, RevealKinds
    <2> QED BY <1>0, <1>1, <2>1, AgentFacts DEF WorkUnderLease
<1>4. CASE Boot(r)
    <2>1. TypeOK'
        BY <1>1, <1>2, <1>3, <1>4 DEF Boot, runVars, watchVars, TypeOK
    <2>2. LeaseHeld'
        BY <1>1, <1>2, <1>3, <1>4, AgentFacts DEF Boot, runVars, watchVars, TypeOK,
           LeaseHeld, WorkUnderLease, NotesKept, Alive
    <2>3. WorkUnderLease'
        BY <1>1, <1>2, <1>4, AgentFacts DEF Boot, runVars, watchVars, TypeOK, LeaseHeld,
           WorkUnderLease
    <2>4. NotesKept'
        BY <1>1, <1>2, <1>3, <1>4, AgentFacts DEF Boot, runVars, watchVars, TypeOK,
           LeaseHeld, WorkUnderLease, NotesKept
    <2>5. Rests
        BY <1>1, <1>2, <1>3, <1>4, LeavesStray DEF Boot, runVars, watchVars, TypeOK,
           NotesKept, LeaseHeld, Rests
    <2> QED BY <2>1, <2>2, <2>3, <2>4, <2>5
<1>5. CASE PeekResidue(r)
    <2>1. TypeOK'
        BY <1>1, <1>2, <1>3, <1>5 DEF PeekResidue, OwnerDead, runVars, watchVars, TypeOK
    <2>2. LeaseHeld'
        BY <1>1, <1>2, <1>3, <1>5, AgentFacts DEF PeekResidue, OwnerDead, runVars, watchVars,
           TypeOK, LeaseHeld, WorkUnderLease, NotesKept, Alive
    <2>3. WorkUnderLease'
        BY <1>1, <1>2, <1>5, AgentFacts DEF PeekResidue, OwnerDead, runVars, watchVars,
           TypeOK, LeaseHeld, WorkUnderLease
    <2>4. NotesKept'
        BY <1>1, <1>2, <1>3, <1>5, AgentFacts DEF PeekResidue, OwnerDead, runVars, watchVars,
           TypeOK, LeaseHeld, WorkUnderLease, NotesKept
    <2>5. Rests
        BY <1>1, <1>2, <1>3, <1>5, LeavesStray DEF PeekResidue, OwnerDead, runVars,
           watchVars, TypeOK, NotesKept, LeaseHeld, Rests
    <2> QED BY <2>1, <2>2, <2>3, <2>4, <2>5
<1>6. CASE TakeResidue(r)
    <2>1. TypeOK'
        BY <1>1, <1>2, <1>3, <1>6 DEF TakeResidue, OwnerDead, runVars, watchVars, TypeOK
    <2>2. LeaseHeld'
        <3>1. UNCHANGED <<watcher, ledger, held>> /\ owner[r] = "reclaiming"
            BY <1>6 DEF TakeResidue, runVars
        <3>2. CASE /\ owner' = [owner EXCEPT ![r] = "opening"] \/ owner' = [owner EXCEPT ![r] = "dead"]
                   /\ UNCHANGED lease
            BY <1>1, <1>3, <3>1, <3>2 DEF TypeOK, LeaseHeld, Alive
        <3>3. CASE /\ lease = Nobody /\ ledger # NoLedger /\ OwnerDead
                   /\ lease' = <<"owner", r>> /\ owner' = [owner EXCEPT ![r] = "restoring"]
            <4>1. ledger.owner \in Runs /\ ledger.owner # r /\ ~Alive(ledger.owner)
                BY <1>3, <3>1, <3>3 DEF OwnerDead, Alive
            <4>2. \A q \in Runs : owner[q] \notin {"guarding", "running", "tearing", "restoring"} /\ watcher[q] # "restoring"
                BY <3>3, AgentFacts DEF LeaseHeld
            <4>3. \A q \in Runs : owner'[q] = IF q = r THEN "restoring" ELSE owner[q]
                BY <3>3 DEF TypeOK
            <4> QED BY <1>1, <1>3, <3>1, <3>3, <4>1, <4>2, <4>3, AgentFacts DEF LeaseHeld, Alive
        <3> QED BY <1>6, <3>2, <3>3 DEF TakeResidue
    <2>3. WorkUnderLease'
        BY <1>1, <1>2, <1>6, AgentFacts DEF TakeResidue, OwnerDead, runVars, watchVars,
           TypeOK, LeaseHeld, WorkUnderLease
    <2>4. NotesKept'
        <3>1. UNCHANGED <<watcher, ledger, held, job, doubt>> /\ owner[r] = "reclaiming"
            BY <1>6 DEF TakeResidue, runVars
        <3>2. CASE /\ owner' = [owner EXCEPT ![r] = "opening"] \/ owner' = [owner EXCEPT ![r] = "dead"]
                   /\ UNCHANGED todo
            <4>1. \A q \in Runs : owner'[q] = owner[q] \/ owner'[q] \in {"opening", "dead"}
                BY <3>2 DEF TypeOK
            <4> QED BY <3>1, <3>2, <4>1, AgentFacts DEF NotesKept
        <3>3. CASE /\ todo' = [todo EXCEPT ![<<"owner", r>>] = ledger.notes]
                   /\ owner' = [owner EXCEPT ![r] = "restoring"]
            <4>1. \A q \in Runs : owner'[q] = IF q = r THEN "restoring" ELSE owner[q]
                BY <3>3 DEF TypeOK
            <4>2. \A b \in Agents : todo'[b] = IF b = <<"owner", r>> THEN ledger.notes ELSE todo[b]
                BY <3>3 DEF TypeOK
            <4>3. \A b \in Agents : b[1] = "owner" /\ b[2] = r => b = <<"owner", r>>
                BY AgentFacts
            <4> QED BY <3>1, <4>1, <4>2, <4>3, AgentFacts DEF NotesKept
        <3> QED BY <1>6, <3>2, <3>3 DEF TakeResidue
    <2>5. Rests
        BY <1>1, <1>2, <1>3, <1>6, LeavesStray DEF TakeResidue, OwnerDead, runVars,
           watchVars, TypeOK, NotesKept, LeaseHeld, Rests
    <2> QED BY <2>1, <2>2, <2>3, <2>4, <2>5
<1>7. CASE EndReclaim(r)
    <2>0. ledger'.notes = ledger.notes /\ (ledger'.owner = 0 => ledger'.notes = {})
        <3>1. ASSUME <<"owner", r>> \notin doubt, todo[<<"owner", r>>] = {}
              PROVE  ledger.notes = {}
            <4>1. owner[r] = "restoring"
                BY <1>7 DEF EndReclaim
            <4> QED BY <1>1, <3>1, <4>1, AgentFacts DEF NotesKept
        <3>2. ledger' = ledger \/ (ledger' = NoLedger /\ ledger.notes = {})
            BY <1>7, <3>1 DEF EndReclaim
        <3> QED BY <1>2, <3>2 DEF NotesKept
    <2>1. TypeOK'
        BY <1>1, <1>2, <1>3, <1>7 DEF EndReclaim, runVars, watchVars, TypeOK
    <2>2. LeaseHeld'
        BY <1>1, <1>2, <1>3, <1>7, AgentFacts DEF EndReclaim, runVars, watchVars, TypeOK,
           LeaseHeld, WorkUnderLease, NotesKept, Alive
    <2>3. WorkUnderLease'
        <3>1. lease = <<"owner", r>> /\ job[<<"owner", r>>] = NoJob /\ UNCHANGED job
            BY <1>7 DEF EndReclaim, LeaseHeld, runVars
        <3>2. \A b \in Agents : job[b] = NoJob /\ todo'[b] = {} /\ b \notin doubt'
            <4>1. \A b \in Agents \ {<<"owner", r>>} : job[b] = NoJob /\ todo[b] = {} /\ b \notin doubt
                BY <1>1, <3>1, OthersRest
            <4> QED BY <1>1, <1>7, <3>1, <4>1 DEF EndReclaim, TypeOK
        <3> QED BY <3>1, <3>2, AgentFacts DEF WorkUnderLease
    <2>4. NotesKept'
        <3>2. UNCHANGED <<watcher, held, job>>
            BY <1>7 DEF EndReclaim, runVars
        <3>3. \A b \in Agents : IF b = <<"owner", r>> THEN todo'[b] = {} ELSE todo'[b] = todo[b] /\ (b \in doubt' <=> b \in doubt)
            BY <1>1, <1>7 DEF EndReclaim, TypeOK
        <3>4. \A q \in Runs : IF q = r THEN owner'[q] \in {"opening", "dead"} ELSE owner'[q] = owner[q]
            BY <1>7 DEF EndReclaim, TypeOK
        <3> QED BY <2>0, <3>2, <3>3, <3>4, AgentFacts DEF NotesKept
    <2>5. Rests
        BY <1>7, <2>0 DEF EndReclaim, runVars, Rests
    <2> QED BY <2>1, <2>2, <2>3, <2>4, <2>5
<1>8. CASE OpenStore(r)
    <2>1. TypeOK'
        BY <1>1, <1>2, <1>3, <1>8 DEF OpenStore, runVars, watchVars, TypeOK
    <2>2. LeaseHeld'
        BY <1>1, <1>2, <1>3, <1>8, AgentFacts DEF OpenStore, runVars, watchVars, TypeOK,
           LeaseHeld, WorkUnderLease, NotesKept, Alive
    <2>3. WorkUnderLease'
        BY <1>1, <1>2, <1>8, AgentFacts DEF OpenStore, runVars, watchVars, TypeOK, LeaseHeld,
           WorkUnderLease
    <2>4. NotesKept'
        BY <1>1, <1>2, <1>3, <1>8, AgentFacts DEF OpenStore, runVars, watchVars, TypeOK,
           LeaseHeld, WorkUnderLease, NotesKept
    <2>5. Rests
        <3>1. ledger'.notes = ledger.notes
            BY <1>2, <1>8 DEF OpenStore
        <3> QED BY <1>8, <3>1 DEF OpenStore, runVars, Rests
    <2> QED BY <2>1, <2>2, <2>3, <2>4, <2>5
<1>9. CASE SpawnWatcher(r)
    <2>1. TypeOK'
        BY <1>1, <1>2, <1>3, <1>9 DEF SpawnWatcher, runVars, watchVars, TypeOK
    <2>2. LeaseHeld'
        BY <1>1, <1>2, <1>3, <1>9, AgentFacts DEF SpawnWatcher, runVars, watchVars, TypeOK,
           LeaseHeld, WorkUnderLease, NotesKept, Alive
    <2>3. WorkUnderLease'
        BY <1>1, <1>2, <1>9, AgentFacts DEF SpawnWatcher, runVars, watchVars, TypeOK,
           LeaseHeld, WorkUnderLease
    <2>4. NotesKept'
        BY <1>1, <1>2, <1>3, <1>9, AgentFacts DEF SpawnWatcher, runVars, watchVars, TypeOK,
           LeaseHeld, WorkUnderLease, NotesKept
    <2>5. Rests
        BY <1>1, <1>2, <1>3, <1>9, LeavesStray DEF SpawnWatcher, runVars, watchVars, TypeOK,
           NotesKept, LeaseHeld, Rests
    <2> QED BY <2>1, <2>2, <2>3, <2>4, <2>5
<1>10. CASE WatcherSeen(r)
    <2>1. TypeOK'
        BY <1>1, <1>2, <1>3, <1>10 DEF WatcherSeen, WatcherReady, runVars, watchVars, TypeOK
    <2>2. LeaseHeld'
        BY <1>1, <1>2, <1>3, <1>10, AgentFacts DEF WatcherSeen, WatcherReady, runVars,
           watchVars, TypeOK, LeaseHeld, WorkUnderLease, NotesKept, Alive
    <2>3. WorkUnderLease'
        <3>1. /\ UNCHANGED <<job, todo, doubt, lease>> /\ owner[r] = "guarding"
              /\ owner' = [owner EXCEPT ![r] = "running"]
            BY <1>10 DEF WatcherSeen, runVars
        <3>2. \A q \in Runs : owner'[q] = IF q = r THEN "running" ELSE owner[q]
            BY <3>1 DEF TypeOK
        <3>3. \A b \in Agents : b[1] = "owner" /\ b[2] = r => b = <<"owner", r>>
            BY AgentFacts
        <3> QED BY <1>0, <3>1, <3>2, <3>3, AgentFacts DEF WorkUnderLease
    <2>4. NotesKept'
        BY <1>1, <1>2, <1>3, <1>10, AgentFacts DEF WatcherSeen, WatcherReady, runVars,
           watchVars, TypeOK, LeaseHeld, WorkUnderLease, NotesKept
    <2>5. Rests
        BY <1>1, <1>2, <1>3, <1>10, LeavesStray DEF WatcherSeen, WatcherReady, runVars,
           watchVars, TypeOK, NotesKept, LeaseHeld, Rests
    <2> QED BY <2>1, <2>2, <2>3, <2>4, <2>5
<1>11. CASE WatcherFails(r)
    <2>1. TypeOK'
        BY <1>1, <1>2, <1>3, <1>11 DEF WatcherFails, runVars, watchVars, TypeOK
    <2>2. LeaseHeld'
        BY <1>1, <1>2, <1>3, <1>11, AgentFacts DEF WatcherFails, runVars, watchVars, TypeOK,
           LeaseHeld, WorkUnderLease, NotesKept, Alive
    <2>3. WorkUnderLease'
        <3>1. UNCHANGED <<job, todo, doubt>> /\ owner[r] = "guarding" /\ owner' = [owner EXCEPT ![r] = "dead"]
            BY <1>11 DEF WatcherFails
        <3>2. \A q \in Runs : owner'[q] = IF q = r THEN "dead" ELSE owner[q]
            BY <3>1 DEF TypeOK
        <3>3. lease = <<"owner", r>>
            BY <3>1 DEF LeaseHeld
        <3>4. \A b \in Agents : job[b] = NoJob /\ todo[b] = {} /\ b \notin doubt
            BY <1>0, <1>1, <3>1, <3>3, OthersRest
        <3> QED BY <3>1, <3>2, <3>4, AgentFacts DEF WorkUnderLease
    <2>4. NotesKept'
        BY <1>1, <1>2, <1>3, <1>11, AgentFacts DEF WatcherFails, runVars, watchVars, TypeOK,
           LeaseHeld, WorkUnderLease, NotesKept
    <2>5. Rests
        BY <1>1, <1>2, <1>3, <1>11, LeavesStray DEF WatcherFails, runVars, watchVars, TypeOK,
           NotesKept, LeaseHeld, Rests
    <2> QED BY <2>1, <2>2, <2>3, <2>4, <2>5
<1>12. CASE BeginTeardown(r)
    <2>1. TypeOK'
        BY <1>1, <1>2, <1>3, <1>12 DEF BeginTeardown, Idle, runVars, watchVars, TypeOK
    <2>2. LeaseHeld'
        BY <1>1, <1>2, <1>3, <1>12, AgentFacts DEF BeginTeardown, Idle, runVars, watchVars,
           TypeOK, LeaseHeld, WorkUnderLease, NotesKept, Alive
    <2>3. WorkUnderLease'
        <3>1. /\ UNCHANGED <<job, doubt, lease>> /\ owner[r] = "running" /\ job[<<"owner", r>>] = NoJob
              /\ owner' = [owner EXCEPT ![r] = "tearing"] /\ todo' = [todo EXCEPT ![<<"owner", r>>] = ledger.notes]
            BY <1>12 DEF BeginTeardown, Idle, runVars
        <3>2. \A q \in Runs : owner'[q] = IF q = r THEN "tearing" ELSE owner[q]
            BY <3>1 DEF TypeOK
        <3>3. lease = <<"owner", r>>
            BY <3>1 DEF LeaseHeld
        <3>4. \A b \in Agents \ {<<"owner", r>>} : todo'[b] = todo[b]
            BY <3>1 DEF TypeOK
        <3>5. \A b \in Agents : b[1] = "owner" /\ b[2] = r => b = <<"owner", r>>
            BY AgentFacts
        <3> QED BY <3>1, <3>2, <3>3, <3>4, <3>5, AgentFacts DEF WorkUnderLease
    <2>4. NotesKept'
        BY <1>1, <1>2, <1>3, <1>12, AgentFacts DEF BeginTeardown, Idle, runVars, watchVars,
           TypeOK, LeaseHeld, WorkUnderLease, NotesKept
    <2>5. Rests
        BY <1>1, <1>2, <1>3, <1>12, LeavesStray DEF BeginTeardown, Idle, runVars, watchVars,
           TypeOK, NotesKept, LeaseHeld, Rests
    <2> QED BY <2>1, <2>2, <2>3, <2>4, <2>5
<1>13. CASE EndRun(r)
    <2>1. TypeOK'
        BY <1>1, <1>2, <1>3, <1>13 DEF EndRun, runVars, watchVars, TypeOK
    <2>2. LeaseHeld'
        BY <1>1, <1>2, <1>3, <1>13, AgentFacts DEF EndRun, runVars, watchVars, TypeOK,
           LeaseHeld, WorkUnderLease, NotesKept, Alive
    <2>3. WorkUnderLease'
        <3>1. /\ UNCHANGED <<job, todo>> /\ owner[r] = "tearing"
              /\ job[<<"owner", r>>] = NoJob /\ todo[<<"owner", r>>] = {}
              /\ owner' = [owner EXCEPT ![r] = "dead"]
              /\ doubt' = doubt \ {<<"owner", r>>}
            BY <1>13 DEF EndRun
        <3>2. lease = <<"owner", r>>
            BY <3>1 DEF LeaseHeld
        <3>3. \A b \in Agents : job[b] = NoJob /\ todo[b] = {} /\ b \notin doubt'
            <4>1. \A b \in Agents \ {<<"owner", r>>} :
                      job[b] = NoJob /\ todo[b] = {} /\ b \notin doubt
                BY <1>1, <3>2, OthersRest
            <4> QED BY <3>1, <4>1
        <3> QED BY <3>1, <3>3 DEF WorkUnderLease
    <2>4. NotesKept'
        BY <1>1, <1>2, <1>3, <1>13, AgentFacts DEF EndRun, runVars, watchVars, TypeOK,
           LeaseHeld, WorkUnderLease, NotesKept
    <2>5. Rests
        BY <1>1, <1>2, <1>3, <1>13, LeavesStray DEF EndRun, runVars, watchVars, TypeOK,
           NotesKept, LeaseHeld, Rests
    <2> QED BY <2>1, <2>2, <2>3, <2>4, <2>5
<1>14. CASE Crash(r)
    <2>1. TypeOK'
        <3>1. stray' \subseteq Tags
            BY <1>1, <1>14, LeavesStray DEF Crash
        <3> QED BY <1>1, <1>14, <3>1 DEF Crash, TypeOK
    <2>2. LeaseHeld'
        <3>1. /\ UNCHANGED <<watcher, ledger>> /\ Alive(r)
              /\ lease' = IF lease = <<"owner", r>> THEN Nobody ELSE lease
              /\ owner' = [owner EXCEPT ![r] = "dead"] /\ held' = [held EXCEPT ![r] = {}]
            BY <1>14 DEF Crash
        <3>2. \A q \in Runs : /\ owner'[q] = IF q = r THEN "dead" ELSE owner[q]
                             /\ held'[q] = IF q = r THEN {} ELSE held[q]
            BY <3>1 DEF TypeOK
        <3>3. ASSUME NEW q \in Runs
              PROVE  /\ lease' = <<"owner", q>> <=> lease = <<"owner", q>> /\ q # r
                     /\ lease' = <<"watcher", q>> <=> lease = <<"watcher", q>>
            BY <3>1, AgentFacts
        <3>4. ASSUME NEW q, q \in Runs, ~Alive(q) PROVE ~Alive(q)'
            BY <3>2, <3>4 DEF Alive
        <3> QED BY <1>3, <3>1, <3>2, <3>3, <3>4 DEF LeaseHeld
    <2>3. WorkUnderLease'
        BY <1>1, <1>2, <1>14, AgentFacts DEF Crash, LeaveWait, runVars, watchVars, TypeOK,
           LeaseHeld, WorkUnderLease
    <2>4. NotesKept'
        BY <1>1, <1>2, <1>3, <1>14, AgentFacts DEF Crash, LeaveWait, runVars, watchVars,
           TypeOK, LeaseHeld, WorkUnderLease, NotesKept
    <2>5. Rests
        <3>1. UNCHANGED <<window, ledger>> /\ job' = [job EXCEPT ![<<"owner", r>>] = NoJob] /\ LeaveWait(<<"owner", r>>)
            BY <1>14 DEF Crash
        <3>2. \A b \in Agents : IF b = <<"owner", r>> THEN job'[b] = NoJob ELSE job'[b] = job[b]
            BY <1>1, <3>1 DEF TypeOK
        <3> QED BY <1>1, <3>1, <3>2, LeavesStray DEF Rests
    <2> QED BY <2>1, <2>2, <2>3, <2>4, <2>5
<1>15. CASE WatcherStarts(r)
    <2>1. TypeOK'
        BY <1>1, <1>2, <1>3, <1>15 DEF WatcherStarts, runVars, watchVars, TypeOK
    <2>2. LeaseHeld'
        BY <1>1, <1>2, <1>3, <1>15, AgentFacts DEF WatcherStarts, runVars, watchVars, TypeOK,
           LeaseHeld, WorkUnderLease, NotesKept, Alive
    <2>3. WorkUnderLease'
        BY <1>1, <1>2, <1>15, AgentFacts DEF WatcherStarts, runVars, watchVars, TypeOK,
           LeaseHeld, WorkUnderLease
    <2>4. NotesKept'
        BY <1>1, <1>2, <1>3, <1>15, AgentFacts DEF WatcherStarts, runVars, watchVars, TypeOK,
           LeaseHeld, WorkUnderLease, NotesKept
    <2>5. Rests
        BY <1>1, <1>2, <1>3, <1>15, LeavesStray DEF WatcherStarts, runVars, watchVars,
           TypeOK, NotesKept, LeaseHeld, Rests
    <2> QED BY <2>1, <2>2, <2>3, <2>4, <2>5
<1>16. CASE WatcherRestores(r)
    <2>1. TypeOK'
        BY <1>1, <1>2, <1>3, <1>16 DEF WatcherRestores, runVars, watchVars, TypeOK
    <2>2. LeaseHeld'
        BY <1>1, <1>2, <1>3, <1>16, AgentFacts DEF WatcherRestores, runVars, watchVars,
           TypeOK, LeaseHeld, WorkUnderLease, NotesKept, Alive
    <2>3. WorkUnderLease'
        <3>1. /\ UNCHANGED <<job, doubt, owner>>
              /\ \/ UNCHANGED <<lease, todo>>
                 \/ /\ lease = Nobody /\ lease' = <<"watcher", r>>
                    /\ todo' = [todo EXCEPT ![<<"watcher", r>>] = ledger.notes]
            BY <1>16 DEF WatcherRestores, watchVars
        <3>2. CASE /\ lease = Nobody /\ lease' = <<"watcher", r>>
                    /\ todo' = [todo EXCEPT ![<<"watcher", r>>] = ledger.notes]
            <4>1. \A b \in Agents : job[b] = NoJob /\ todo[b] = {} /\ b \notin doubt
                BY <3>2, AgentFacts DEF WorkUnderLease
            <4>2. \A b \in Agents \ {<<"watcher", r>>} : todo'[b] = todo[b]
                BY <3>2 DEF TypeOK
            <4> QED BY <1>1, <3>1, <3>2, <4>1, <4>2, AgentFacts DEF WorkUnderLease
        <3>3. CASE UNCHANGED <<lease, todo>>
            BY <3>1, <3>3 DEF WorkUnderLease
        <3> QED BY <3>1, <3>2, <3>3
    <2>4. NotesKept'
        <3>1. /\ UNCHANGED <<ledger, held, job, doubt, owner>>
              /\ \/ watcher' = [watcher EXCEPT ![r] = "dead"] /\ UNCHANGED todo
                 \/ /\ watcher' = [watcher EXCEPT ![r] = "restoring"]
                    /\ todo' = [todo EXCEPT ![<<"watcher", r>>] = ledger.notes]
            BY <1>16 DEF WatcherRestores, watchVars
        <3>2. \A b \in Agents : b[1] = "watcher" /\ b[2] = r => b = <<"watcher", r>>
            BY AgentFacts
        <3>3. CASE watcher' = [watcher EXCEPT ![r] = "dead"] /\ UNCHANGED todo
            <4>1. \A q \in Runs : watcher'[q] = watcher[q] \/ watcher'[q] = "dead"
                BY <3>3 DEF TypeOK
            <4> QED BY <3>1, <3>3, <4>1, AgentFacts DEF NotesKept
        <3>4. CASE /\ watcher' = [watcher EXCEPT ![r] = "restoring"]
                   /\ todo' = [todo EXCEPT ![<<"watcher", r>>] = ledger.notes]
            <4>1. \A q \in Runs : watcher'[q] = IF q = r THEN "restoring" ELSE watcher[q]
                BY <3>4 DEF TypeOK
            <4>2. \A b \in Agents : todo'[b] = IF b = <<"watcher", r>> THEN ledger.notes ELSE todo[b]
                BY <3>4 DEF TypeOK
            <4> QED BY <3>1, <3>2, <4>1, <4>2, AgentFacts DEF NotesKept
        <3> QED BY <3>1, <3>3, <3>4
    <2>5. Rests
        BY <1>1, <1>2, <1>3, <1>16, LeavesStray DEF WatcherRestores, runVars, watchVars,
           TypeOK, NotesKept, LeaseHeld, Rests
    <2> QED BY <2>1, <2>2, <2>3, <2>4, <2>5
<1>17. CASE EndWatcher(r)
    <2>0. ledger'.notes = ledger.notes /\ (ledger'.owner = 0 => ledger'.notes = {})
        <3>1. ASSUME <<"watcher", r>> \notin doubt, todo[<<"watcher", r>>] = {}
              PROVE  ledger.notes = {}
            <4>1. watcher[r] = "restoring"
                BY <1>17 DEF EndWatcher
            <4> QED BY <1>1, <3>1, <4>1, AgentFacts DEF NotesKept
        <3>2. ledger' = ledger \/ (ledger' = NoLedger /\ ledger.notes = {})
            BY <1>17, <3>1 DEF EndWatcher
        <3> QED BY <1>2, <3>2 DEF NotesKept
    <2>1. TypeOK'
        BY <1>1, <1>2, <1>3, <1>17 DEF EndWatcher, runVars, watchVars, TypeOK
    <2>2. LeaseHeld'
        BY <1>1, <1>2, <1>3, <1>17, AgentFacts DEF EndWatcher, runVars, watchVars, TypeOK,
           LeaseHeld, WorkUnderLease, NotesKept, Alive
    <2>3. WorkUnderLease'
        <3>1. lease = <<"watcher", r>> /\ job[<<"watcher", r>>] = NoJob /\ UNCHANGED job
            BY <1>17 DEF EndWatcher, LeaseHeld, watchVars
        <3>2. \A b \in Agents : job[b] = NoJob /\ todo'[b] = {} /\ b \notin doubt'
            <4>1. \A b \in Agents \ {<<"watcher", r>>} : job[b] = NoJob /\ todo[b] = {} /\ b \notin doubt
                BY <1>1, <3>1, OthersRest
            <4> QED BY <1>1, <1>17, <3>1, <4>1 DEF EndWatcher, TypeOK
        <3> QED BY <3>1, <3>2, AgentFacts DEF WorkUnderLease
    <2>4. NotesKept'
        <3>2. UNCHANGED <<owner, held, job>>
            BY <1>17 DEF EndWatcher, watchVars
        <3>3. \A b \in Agents : IF b = <<"watcher", r>> THEN todo'[b] = {} ELSE todo'[b] = todo[b] /\ (b \in doubt' <=> b \in doubt)
            BY <1>1, <1>17 DEF EndWatcher, TypeOK
        <3>4. \A q \in Runs : watcher'[q] = IF q = r THEN "dead" ELSE watcher[q]
            BY <1>17 DEF EndWatcher, TypeOK
        <3> QED BY <2>0, <3>2, <3>3, <3>4, AgentFacts DEF NotesKept
    <2>5. Rests
        BY <1>17, <2>0 DEF EndWatcher, watchVars, Rests
    <2> QED BY <2>1, <2>2, <2>3, <2>4, <2>5
<1>18. CASE WatcherCrashes(r)
    <2>1. TypeOK'
        BY <1>1, <1>2, <1>3, <1>18 DEF WatcherCrashes, runVars, watchVars, TypeOK
    <2>2. LeaseHeld'
        <3>1. /\ UNCHANGED <<owner, held, ledger>> /\ watcher[r] \notin {"none", "dead"}
              /\ watcher' = [watcher EXCEPT ![r] = "dead"]
              /\ lease' = IF lease = <<"watcher", r>> THEN Nobody ELSE lease
            BY <1>18 DEF WatcherCrashes
        <3>2. \A q \in Runs : watcher'[q] = IF q = r THEN "dead" ELSE watcher[q]
            BY <1>1, <3>1 DEF TypeOK
        <3>3. \A q \in Runs : /\ Nobody # <<"owner", q>> /\ Nobody # <<"watcher", q>>
                              /\ <<"owner", q>> # <<"watcher", r>>
                              /\ q # r => <<"watcher", q>> # <<"watcher", r>>
            BY DEF Nobody
        <3>4. \A q \in Runs : Alive(q)' <=> Alive(q)
            BY <3>1 DEF Alive
        <3>5. ASSUME NEW q \in Runs
              PROVE  /\ lease' = <<"owner", q>> <=> lease = <<"owner", q>>
                     /\ lease' = <<"watcher", q>> <=> (q # r /\ lease = <<"watcher", q>>)
            BY <3>1, <3>3
        <3> QED BY <1>1, <3>1, <3>2, <3>4, <3>5 DEF LeaseHeld, TypeOK, Alive
    <2>3. WorkUnderLease'
        BY <1>1, <1>2, <1>18, AgentFacts DEF WatcherCrashes, runVars, watchVars, TypeOK,
           LeaseHeld, WorkUnderLease
    <2>4. NotesKept'
        BY <1>1, <1>2, <1>3, <1>18, AgentFacts DEF WatcherCrashes, runVars, watchVars,
           TypeOK, LeaseHeld, WorkUnderLease, NotesKept
    <2>5. Rests
        <3>1. UNCHANGED <<window, ledger, stray>> /\ job' = [job EXCEPT ![<<"watcher", r>>] = NoJob]
            BY <1>18 DEF WatcherCrashes
        <3>2. \A b \in Agents : IF b = <<"watcher", r>> THEN job'[b] = NoJob ELSE job'[b] = job[b]
            BY <1>1, <3>1 DEF TypeOK
        <3>3. job[<<"watcher", r>>] # NoJob => job[<<"watcher", r>>].kind = "restore"
            BY <1>1, AgentFacts DEF WorkUnderLease
        <3> QED BY <3>1, <3>2, <3>3 DEF Rests
    <2> QED BY <2>1, <2>2, <2>3, <2>4, <2>5
<1> QED BY <1>4, <1>5, <1>6, <1>7, <1>8, <1>9, <1>10, <1>11, <1>12, <1>13, <1>14, <1>15,
   <1>16, <1>17, <1>18 DEF Passes

\* Windows that settle disturb none of it.
LEMMA SettlesKeeps ==
    ASSUME Inv, Settles
    PROVE  Inv'
<1>1. /\ Calm /\ Counted
      /\ UNCHANGED <<ledger, lease, owner, watcher, ready, held, job, todo, doubt, stray>>
    BY DEF Settles, desktopVars
<1>2. TypeOK' /\ LeaseHeld' /\ WorkUnderLease' /\ NotesKept'
    BY <1>1 DEF Inv, TypeOK, Calm, Counted, LeaseHeld, WorkUnderLease, NotesKept, Alive
<1>3. HidesNamed'
    <2>1. \A b \in Agents : \A c : Waits(b, c) => Waits(b, c)'
        BY <1>1 DEF Waits
    <2> QED BY <1>1, <2>1, CalmKeepsHides DEF Inv
<1>4. SeenIsShown'
    <2> SUFFICES ASSUME NEW a \in Agents, job[a] # NoJob, job[a].kind \in RevealKinds,
                        job[a].step \in {"untag", "strike"}
                 PROVE  HidesAt(job[a].claim.hwnd)' \subseteq stray'
        BY <1>1 DEF SeenIsShown
    <2>1. job[a].claim \in Claims
        BY JobFacts DEF Inv
    <2>2. PICK h \in Hwnds : h = job[a].claim.hwnd
        BY <2>1 DEF Claims
    <2>3. HidesAt(h) \subseteq stray /\ Calmer(h)
        BY <1>1, <2>2 DEF Inv, SeenIsShown, Calm
    <2>4. HidesAt(h)' \subseteq stray'
        BY <1>1, <2>3 DEF Calmer
    <2>5. job'[a].claim.hwnd = h
        BY <1>1, <2>2
    <2> QED BY <2>4, <2>5 DEF HidesAt, Posted
<1> QED BY <1>2, <1>3, <1>4 DEF Inv

\* A life that goes on leaves the hides as they are.
LEMMA RestsKeepHides ==
    ASSUME TypeOK, HidesNamed, SeenIsShown, Rests
    PROVE  HidesNamed' /\ SeenIsShown'
<1>1. UNCHANGED window /\ ledger'.notes = ledger.notes /\ stray \subseteq stray'
    BY DEF Rests
<1>2. HidesNamed'
    <2>1. Calm
        BY <1>1, SameCalm
    <2>2. ASSUME NEW b \in Agents, NEW c, Waits(b, c)
          PROVE  Waits(b, c)' \/ c.tag \in stray' \/ Posted(c.hwnd) = {}
        BY <2>2 DEF Waits, Rests
    <2> QED BY <1>1, <2>1, <2>2, CalmKeepsHides
<1>3. SeenIsShown'
    <2> SUFFICES ASSUME NEW a \in Agents, job'[a] # NoJob, job'[a].kind \in RevealKinds,
                        job'[a].step \in {"untag", "strike"}
                 PROVE  HidesAt(job[a].claim.hwnd)' \subseteq stray'
        BY DEF SeenIsShown
    <2>1. job'[a] = job[a]
        BY DEF Rests
    <2>2. HidesAt(job[a].claim.hwnd) \subseteq stray
        BY <2>1 DEF SeenIsShown
    <2> QED BY <1>1, <2>1, <2>2 DEF HidesAt, Posted
<1> QED BY <1>2, <1>3

\* All parts together: work keeps the invariant.
LEMMA WorkKeeps ==
    ASSUME Inv, NEW a \in Agents, Work(a)
    PROVE  Inv'
<1>1. TypeOK /\ LeaseHeld /\ WorkUnderLease /\ NotesKept /\ HidesNamed /\ SeenIsShown
    BY DEF Inv
<1> QED BY <1>1, WorkTypes, WorkLeased, WorkWorks, WorkKeepsNotes, WorkKeepsHides,
   WorkSees DEF Inv

\* Every step is one of programs, the work of an agent, or one of a life.
LEMMA StepsAre ==
    ASSUME Assumption, Inv, Next
    PROVE  Settles \/ (\E a \in Agents : Work(a)) \/ (\E r \in Runs : Passes(r))
<1>1. TypeOK /\ LeaseHeld
    BY DEF Inv
<1>2. CASE \E h \in Hwnds : Desktop(h)
    BY <1>1, <1>2, DesktopSettles
<1>3. CASE \E a \in Agents : Reveal(a)
    BY <1>3, RevealWorks
<1>4. ASSUME NEW r \in Runs,
             \/ \E h \in Hwnds : Admit(r, h)
             \/ RevealClaim(r) \/ Rehide(r) \/ Hide(r) \/ Life(r) \/ Watch(r)
             \/ Crash(r) \/ WatcherCrashes(r)
      PROVE  (\E a \in Agents : Work(a)) \/ Passes(r)
    <2>1. <<"owner", r>> \in Agents /\ <<"watcher", r>> \in Agents
        BY AgentFacts
    <2>2. CASE \E h \in Hwnds : Admit(r, h)
        <3>1. Work(<<"owner", r>>)
            BY <2>2, AdmitWorks DEF Work
        <3> QED BY <2>1, <3>1
    <2>3. CASE Hide(r)
        BY <2>1, <2>3, HideWorks
    <2>4. CASE Begun(r)
        BY <1>1, <2>1, <2>4, StartsWork
    <2>5. CASE NextRestore(<<"watcher", r>>, "restore")
        BY <1>1, <2>1, <2>5, RestoreWorks
    <2> QED BY <1>4, <2>2, <2>3, <2>4, <2>5 DEF Life, Watch, Begun, Passes
<1> QED BY <1>2, <1>3, <1>4 DEF Next

\* No window is hidden at the start.
LEMMA StartsSound ==
    ASSUME Assumption, Init
    PROVE  Inv
<1>1. \A p \in Programs : [NoWindow EXCEPT !.program = p] \in Windows
                          /\ [NoWindow EXCEPT !.program = p].queue = <<>>
                          /\ [NoWindow EXCEPT !.program = p].hider = NoTag
    <2> SUFFICES ASSUME NEW p \in Programs
                 PROVE  [NoWindow EXCEPT !.program = p] \in Windows
                        /\ [NoWindow EXCEPT !.program = p].queue = <<>>
                        /\ [NoWindow EXCEPT !.program = p].hider = NoTag
        OBVIOUS
    <2> DEFINE w == [NoWindow EXCEPT !.program = p]
    <2>1. w = [program |-> p, tag |-> NoTag, hider |-> NoTag, queue |-> <<>>]
        BY DEF NoWindow
    <2>2. <<>> \in Seq(Requests)
        OBVIOUS
    <2> HIDE DEF w
    <2>3. w \in Windows /\ w.queue = <<>> /\ w.hider = NoTag
        BY <2>1, <2>2 DEF Windows
    <2> QED BY <2>3 DEF w
<1>2. NoWindow.queue = <<>> /\ NoWindow.hider = NoTag
    BY DEF NoWindow
<1>3. ASSUME NEW h \in Hwnds PROVE window[h].queue = <<>> /\ window[h].hider = NoTag
    <2>1. window[h] = NoWindow \/ \E p \in Programs : window[h] = [NoWindow EXCEPT !.program = p]
        BY Zenon DEF Init
    <2>2. CASE window[h] = NoWindow
        BY <1>2, <2>2
    <2>3. ASSUME NEW p \in Programs, window[h] = [NoWindow EXCEPT !.program = p]
          PROVE  window[h].queue = <<>> /\ window[h].hider = NoTag
        <3> DEFINE w == [NoWindow EXCEPT !.program = p]
        <3>1. w.queue = <<>> /\ w.hider = NoTag
            BY <1>1
        <3> HIDE DEF w
        <3>2. window[h] = w
            BY <2>3 DEF w
        <3> QED BY <3>1, <3>2
    <2> QED BY <2>1, <2>2, <2>3
<1>4. \A h \in Hwnds : HidesAt(h) = {} /\ Posted(h) = {}
    BY <1>3 DEF HidesAt, Posted
<1>5. window \in [Hwnds -> Windows \cup {NoWindow}]
    BY <1>1 DEF Init
<1>6. ledger.owner = 0 /\ ledger.notes = {} /\ ledger \in [owner : Runs \cup {0}, notes : SUBSET Claims]
    BY DEF Init, NoLedger
<1>7. 0 \in 0..MaxTags /\ 0 \in 0..MaxWindows /\ 0 \in 0..MaxShows /\ 0 \notin Runs
    BY RunsPositive DEF Assumption
<1>8. TypeOK
    BY <1>5, <1>6, <1>7 DEF Init, TypeOK
<1>9. LeaseHeld
    BY <1>6, <1>7, AgentFacts DEF Init, LeaseHeld
<1>10. WorkUnderLease /\ NotesKept /\ SeenIsShown
    BY <1>6, AgentFacts DEF Init, WorkUnderLease, NotesKept, SeenIsShown
<1>11. HidesNamed
    BY <1>4 DEF HidesNamed
<1> QED BY <1>8, <1>9, <1>10, <1>11 DEF Inv

\* A step of somebody else is as good as no step.
LEMMA StutterKeeps ==
    ASSUME Inv, UNCHANGED vars
    PROVE  Inv'
<1>1. TypeOK /\ UNCHANGED <<window, drawn, made, shows>> /\ UNCHANGED desktopVars
    BY DEF Inv, vars, desktopVars
<1>2. Calm
    BY <1>1, SameCalm
<1>3. Counted
    BY <1>1 DEF Counted, TypeOK
<1> QED BY <1>1, <1>2, <1>3, SettlesKeeps DEF Settles

\* The invariant is inductive.
LEMMA NextKeeps ==
    ASSUME Assumption, Inv, [Next]_vars
    PROVE  Inv'
<1>1. CASE UNCHANGED vars
    BY <1>1, StutterKeeps
<1>2. CASE Settles
    BY <1>2, SettlesKeeps
<1>3. CASE \E a \in Agents : Work(a)
    BY <1>3, WorkKeeps
<1>4. ASSUME NEW r \in Runs, Passes(r) PROVE Inv'
    <2>1. TypeOK /\ LeaseHeld /\ WorkUnderLease /\ NotesKept /\ HidesNamed /\ SeenIsShown
        BY DEF Inv
    <2>2. TypeOK' /\ LeaseHeld' /\ WorkUnderLease' /\ NotesKept' /\ Rests
        BY <1>4, <2>1, LifeKeeps
    <2> QED BY <2>1, <2>2, RestsKeepHides DEF Inv
<1> QED BY <1>1, <1>2, <1>3, <1>4, StepsAre

-----------------------------------------------------------------------------
(* The theorems.                                                              *)

\* Every state has the inductive invariant: one agent works at a time, under the lease;
\* what it is told to reveal is noted; and hides are named by notes unless they stray.
THEOREM Invariance ==
    ASSUME Assumption
    PROVE  Spec => []Inv
<1>1. Init => Inv
    BY StartsSound
<1>2. Inv /\ [Next]_vars => Inv'
    BY NextKeeps
<1> QED BY <1>1, <1>2, PTL DEF Spec

\* What the invariant says of a hidden window: the note it is under is its claim.
LEMMA NamedHides ==
    ASSUME Inv
    PROVE  WindowsRecoverable
<1> SUFFICES ASSUME NEW h \in Hwnds, Hidden(h), window[h].hider \notin stray
             PROVE  Named(ClaimOf(h)) /\ Matches(ClaimOf(h))
    BY DEF Inv, WindowsRecoverable, HiddenIsNamed
<1> DEFINE t == window[h].hider
<1>1. t \in HidesAt(h) /\ Exists(h)
    BY DEF Hidden, Visible, HidesAt
<1>2. Under(h, t) \in ledger.notes /\ window[h].tag = t
    BY <1>1 DEF Inv, HidesNamed
<1>3. ClaimOf(h) = Under(h, t)
    BY DEF ClaimOf, Under
<1>4. ledger # NoLedger
    BY <1>2 DEF NoLedger
<1>5. Under(h, t).hwnd = h /\ Under(h, t).program = window[h].program /\ Under(h, t).tag = t
    BY UnderFacts
<1> QED BY <1>1, <1>2, <1>3, <1>4, <1>5 DEF Named, Matches

\* Variables have their types, and a window the tiler hid is named by the ledger under
\* its process and its tag, whatever crashed, unless the hide landed when nobody waited
\* for it any more (WindowsRecoverable; product_hide.rs, lifecycle.rs).
THEOREM Recoverable ==
    ASSUME Assumption
    PROVE  Spec => []WindowsRecoverable
BY Invariance, NamedHides, PTL

\* Who changes the ledger holds the lease, and does not change whose it is.
LEMMA LedgerChanges ==
    ASSUME Assumption, Inv, [Next]_vars
    PROVE  LedgerStep
<1> SUFFICES ASSUME ledger' # ledger
             PROVE  /\ \A r \in Runs : Alive(r) /\ ledger.owner = r => lease = <<"owner", r>>
                    /\ ledger # NoLedger /\ ledger' # NoLedger => ledger'.owner = ledger.owner
    BY DEF LedgerStep
<1>1. TypeOK /\ LeaseHeld /\ WorkUnderLease
    BY DEF Inv
<1>2. NoLedger.owner = 0 /\ 0 \notin Runs
    BY RunsPositive DEF NoLedger
<1>3. ASSUME NEW a \in Agents, Work(a)
      PROVE  /\ \A r \in Runs : Alive(r) /\ ledger.owner = r => lease = <<"owner", r>>
             /\ ledger'.owner = ledger.owner
    <2>1. ledger'.owner = ledger.owner
        BY <1>3 DEF Work, Admits, GivesUp, Verifies, Notes, Posts, Stops, Sees, Shows,
           Untags, Strikes,
           Doubts, Starts, Struck
    <2>2. lease = a /\ a[2] \in Runs /\ a = <<a[1], a[2]>> /\ a[1] \in {"owner", "watcher"}
        BY <1>1, <1>3, KindsOfLife, AgentFacts
    <2>3. ASSUME NEW r \in Runs, Alive(r), ledger.owner = r PROVE lease = <<"owner", r>>
        <3>1. a[1] = "owner" => owner[a[2]] \in {"guarding", "running", "tearing", "restoring"}
            BY <1>1, <1>3, KindsOfLife
        <3>2. a[1] = "watcher" => watcher[a[2]] = "restoring"
            BY <1>1, <1>3, KindsOfLife
        <3> QED BY <1>1, <2>2, <2>3, <3>1, <3>2 DEF LeaseHeld
    <2> QED BY <2>1, <2>3
<1>4. ASSUME NEW q \in Runs, Passes(q)
      PROVE  /\ \A r \in Runs : Alive(r) /\ ledger.owner = r => lease = <<"owner", r>>
             /\ ledger = NoLedger \/ ledger' = NoLedger
    <2>1. EndReclaim(q) \/ OpenStore(q) \/ WatcherFails(q) \/ EndWatcher(q)
        BY <1>4 DEF Passes, Boot, PeekResidue, TakeResidue, SpawnWatcher, WatcherSeen,
           BeginTeardown, EndRun, Crash, WatcherStarts, WatcherRestores, WatcherCrashes
    <2>2. CASE EndReclaim(q)
        BY <1>1, <2>2 DEF EndReclaim, LeaseHeld
    <2>3. CASE OpenStore(q)
        BY <1>2, <2>3 DEF OpenStore
    <2>4. CASE WatcherFails(q)
        BY <1>1, <2>4 DEF WatcherFails, LeaseHeld
    <2>5. CASE EndWatcher(q)
        BY <1>1, <2>5 DEF EndWatcher, LeaseHeld
    <2> QED BY <2>1, <2>2, <2>3, <2>4, <2>5
<1>5. ~Settles /\ ~UNCHANGED vars
    BY DEF Settles, desktopVars, vars
<1> QED BY <1>3, <1>4, <1>5, StepsAre

\* Nobody but its owner changes the ledger of a living run, and one run's ledger never
\* becomes another's (LedgersStayWithTheirOwner; the lease in storage.rs).
THEOREM LedgersStay ==
    ASSUME Assumption
    PROVE  Spec => LedgersStayWithTheirOwner
<1>1. Spec => []Inv
    BY Invariance
<1>2. Inv /\ [Next]_vars => [LedgerStep]_vars
    BY LedgerChanges
<1> QED BY <1>1, <1>2, PTL DEF Spec, LedgersStayWithTheirOwner

\* Only the end of a run stops a watcher together with its run, and only when every
\* note was revealed.
LEMMA WatcherStops ==
    ASSUME Assumption, Inv, [Next]_vars
    PROVE  StopStep
<1> SUFFICES ASSUME NEW r \in Runs, owner[r] = "tearing", owner'[r] = "dead",
                    watcher[r] = "watching", watcher'[r] = "dead"
             PROVE  ledger'.notes = {}
    BY DEF StopStep
<1>1. TypeOK /\ NotesKept /\ <<"owner", r>> \in Agents
    BY AgentFacts DEF Inv
<1>2. ~Settles /\ ~UNCHANGED vars
    BY DEF Settles, desktopVars, vars
<1>3. \A a \in Agents : ~Work(a)
    BY DEF Work, Admits, GivesUp, Verifies, Notes, Posts, Stops, Sees, Shows, Untags, Strikes,
           Doubts, Starts, Reveals, Works
<1>4. PICK q \in Runs : Passes(q)
    BY <1>2, <1>3, StepsAre
<1>5. EndRun(q)
    BY <1>1, <1>4 DEF TypeOK, Passes, Boot, PeekResidue, TakeResidue, EndReclaim, OpenStore,
       SpawnWatcher,
       WatcherSeen, WatcherFails, BeginTeardown, Crash, WatcherStarts, WatcherRestores, EndWatcher,
       WatcherCrashes, runVars, watchVars
<1>6. q = r /\ <<"owner", r>> \notin doubt /\ todo[<<"owner", r>>] = {} /\ UNCHANGED ledger
    BY <1>1, <1>5 DEF EndRun, TypeOK
<1>7. ledger.notes \subseteq todo[<<"owner", r>>]
    BY <1>1, <1>6, AgentFacts DEF NotesKept
<1> QED BY <1>6, <1>7

\* A run that ends stops its watcher only when its ledger names nothing any more
\* (WatcherOutlivesNotes; the teardown in lifecycle.rs).
THEOREM WatcherOutlives ==
    ASSUME Assumption
    PROVE  Spec => WatcherOutlivesNotes
<1>1. Spec => []Inv
    BY Invariance
<1>2. Inv /\ [Next]_vars => [StopStep]_vars
    BY WatcherStops
<1> QED BY <1>1, <1>2, PTL DEF Spec, WatcherOutlivesNotes
=============================================================================
