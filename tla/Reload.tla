-------------------------------- MODULE Reload --------------------------------
(***************************************************************************)
(* serve(reload=True): the supervisor of engine/server/reload.rs, the      *)
(* watcher of the file system that feeds its channel, and the child        *)
(* processes that run the program.  A child reads its files one at a time, *)
(* and what it has read of a file gets old when the file changes.          *)
(***************************************************************************)
EXTENDS Naturals, Sequences, SequencesExt

CONSTANTS
    Files,         \* records [path |-> the names, as the watcher reports it, ext |-> a name]
    Script,        \* the path of argv[0], a single name in the working directory
    Cwd,           \* the path of the working directory
    DirsGiven,     \* the application gave reload_dirs
    ReloadDirs,    \* the paths of reload_dirs
    IgnoreDirs,    \* the paths of reload_ignore_dirs
    IgnorePaths,   \* the paths of reload_ignore_paths
    GlobMatched,   \* the files that a glob of reload_ignore_patterns matches
    MaxEdits,      \* bound: edits of files
    MaxFaults,     \* bound: children that end by themselves, errors of the watcher
    MaxNotices     \* bound: events of the file system on their way

Slots == 1 .. 2    \* processes: the child and the one before it

ASSUME ReloadAssumption ==
    /\ MaxEdits \in Nat /\ MaxFaults \in Nat /\ MaxNotices \in Nat
    /\ DirsGiven \in BOOLEAN
    /\ GlobMatched \subseteq Files

VARIABLES
    ignoreFailure, \* reload_ignore_worker_failure
    reportsReads,  \* the platform's watcher reports the reading of files as well
    pc,            \* the supervisor: what it does next
    reason,        \* why it returned
    child,         \* the slot of its child, 0 before the first
    proc,          \* the processes: their state, and what they have read of each file
    watcher,       \* "new", "up" or "gone"
    notices,       \* events that the file system has and the watcher has not read
    queue,         \* events in the channel
    lost,          \* history: files the child has read an old version of, and whose
                   \* event was drained
    edits, faults  \* how many there were so far

settings == <<ignoreFailure, reportsReads>>
eventVars == <<notices, queue, lost>>
vars == <<settings, pc, reason, child, proc, watcher, eventVars, edits, faults>>

Event == [kind : {"change", "error"}, files : SUBSET Files]
Change(fs) == [kind |-> "change", files |-> fs]
Error == [kind |-> "error", files |-> {}]

TypeOK ==
    /\ ignoreFailure \in BOOLEAN /\ reportsReads \in BOOLEAN
    /\ pc \in {"watch", "first", "check", "again", "wait", "stop", "replace", "drain", "returned"}
    /\ reason \in {"none", "setup", "spawn", "exited", "watcher"}
    /\ child \in {0} \union Slots
    /\ proc \in [Slots -> [state : {"none", "runs", "exited", "killed"},
                           copy : [Files -> {"none", "current", "old"}]]]
    /\ watcher \in {"new", "up", "gone"}
    /\ notices \in Seq(Event) /\ queue \in Seq(Event)
    /\ lost \subseteq Files
    /\ edits \in 0 .. MaxEdits /\ faults \in 0 .. MaxFaults

Process(state) == [state |-> state, copy |-> [f \in Files |-> "none"]]

\* serve was called in a process without FASTRAPI_RELOAD_CHILD.
Init ==
    /\ ignoreFailure \in BOOLEAN /\ reportsReads \in BOOLEAN
    /\ pc = "watch" /\ reason = "none"
    /\ child = 0
    /\ proc = [s \in Slots |-> Process("none")]
    /\ watcher = "new"
    /\ notices = <<>> /\ queue = <<>>
    /\ lost = {}
    /\ edits = 0 /\ faults = 0

-----------------------------------------------------------------------------
(* What is watched, and which events restart the server.                   *)

WatchDirs ==
    IF DirsGiven THEN ReloadDirs
    ELSE IF Len(Script) > 1 THEN {Front(Script)} ELSE {Cwd}

Watched(f) == \E d \in WatchDirs : IsPrefix(d, f.path)

\* The names are looked for in the whole path: above the watched directory too.
DefaultIgnored == {".git", ".venv", "__pycache__", "target"}

\* An empty path ends every path.
InIgnoredDir(path, d) ==
    \/ d = <<>>
    \/ \E i \in DOMAIN path : path[i] = Last(d)

IsIgnored(f) ==
    \/ \E i \in DOMAIN f.path : f.path[i] \in DefaultIgnored
    \/ \E d \in IgnoreDirs : InIgnoredDir(f.path, d)
    \/ \E p \in IgnorePaths : IsSuffix(p, f.path)
    \/ f \in GlobMatched

Restarts(f) == f.ext = "py" /\ ~IsIgnored(f)

\* Mutant: only an event all of whose paths matter restarts the server.
MatchesAll(e) == \A f \in e.files : Restarts(f)

\* Whatever happened to the file, reading it included.
Matches(e) == \E f \in e.files : Restarts(f)

-----------------------------------------------------------------------------
(* The supervisor.                                                         *)

Return(why) == pc' = "returned" /\ reason' = why

\* The globs, the watcher and its directories; an error ends serve.
Watch ==
    /\ pc = "watch"
    /\ \/ pc' = "first" /\ watcher' = "up" /\ UNCHANGED reason
       \/ Return("setup") /\ UNCHANGED watcher
    /\ UNCHANGED <<settings, child, proc, faults, eventVars, edits>>

\* Mutant: the child is replaced before it is known to have ended.
StopLater ==
    /\ pc = "stop"
    /\ pc' = "replace"
    /\ UNCHANGED <<settings, reason, child, proc, faults, watcher, eventVars, edits>>

\* kill and wait, unless the child has ended by itself.
Stop ==
    /\ pc = "stop"
    /\ proc' = [proc EXCEPT ![child] = IF @.state = "runs" THEN Process("killed") ELSE @]
    /\ pc' = "replace"
    /\ UNCHANGED <<settings, reason, child, faults, watcher, eventVars, edits>>

Free == {s \in Slots : proc[s].state # "runs"}

\* A new child in place of the last one; an error ends serve.
Spawn ==
    /\ pc \in {"first", "again", "replace"}
    /\ \/ \E s \in Free :
            /\ s # child
            /\ proc' = [proc EXCEPT ![s] = Process("runs")]
            /\ child' = s
            /\ lost' = {}
            /\ pc' = IF pc = "replace" THEN "drain" ELSE "check"
            /\ UNCHANGED reason
       \/ Return("spawn") /\ UNCHANGED <<proc, child, lost>>
    /\ UNCHANGED <<settings, faults, watcher, notices, queue, edits>>

\* The events that came while the child was replaced are thrown away, errors too.
Drain ==
    /\ pc = "drain"
    /\ IF queue = <<>>
       THEN pc' = "check" /\ UNCHANGED <<queue, lost>>
       ELSE /\ queue' = Tail(queue)
            /\ lost' = lost \union {f \in Head(queue).files : proc[child].copy[f] = "old"}
            /\ UNCHANGED pc
    /\ UNCHANGED <<settings, reason, child, proc, faults, watcher, notices, edits>>

\* Mutant: reload_ignore_worker_failure is not looked at.
CheckAlways ==
    /\ pc = "check"
    /\ \/ proc[child].state = "runs" /\ pc' = "wait" /\ UNCHANGED reason
       \/ proc[child].state = "exited" /\ Return("exited")
    /\ UNCHANGED <<settings, child, proc, faults, watcher, eventVars, edits>>

\* try_wait.
Check ==
    /\ pc = "check"
    /\ \/ proc[child].state = "runs" /\ pc' = "wait" /\ UNCHANGED reason
       \/ proc[child].state = "exited" /\ ignoreFailure /\ pc' = "again" /\ UNCHANGED reason
       \/ proc[child].state = "exited" /\ ~ignoreFailure /\ Return("exited")
    /\ UNCHANGED <<settings, child, proc, faults, watcher, eventVars, edits>>

\* recv_timeout with an event in the channel.
Receive ==
    /\ pc = "wait"
    /\ queue # <<>>
    /\ queue' = Tail(queue)
    /\ IF Head(queue).kind = "error" THEN Return("watcher")
       ELSE pc' = (IF Matches(Head(queue)) THEN "stop" ELSE "check") /\ UNCHANGED reason
    /\ UNCHANGED <<settings, child, proc, faults, watcher, notices, lost, edits>>

\* Mutant: a channel that is closed counts as one that is empty.
TimeoutAlways ==
    /\ pc = "wait"
    /\ queue = <<>>
    /\ pc' = "check"
    /\ UNCHANGED <<settings, reason, child, proc, faults, watcher, eventVars, edits>>

\* recv_timeout without one: the tick, or the end of a watcher that is gone.
Timeout ==
    /\ pc = "wait"
    /\ queue = <<>>
    /\ IF watcher = "gone" THEN Return("watcher") ELSE pc' = "check" /\ UNCHANGED reason
    /\ UNCHANGED <<settings, child, proc, faults, watcher, eventVars, edits>>

Supervisor == Watch \/ Stop \/ Spawn \/ Drain \/ Check \/ Receive \/ Timeout

-----------------------------------------------------------------------------
(* The children, the file system and the watcher (external).               *)

Room(n) == Len(notices) + Len(queue) + n <= MaxNotices

Noticed(e) == IF watcher = "up" /\ (\E f \in e.files : Watched(f)) THEN <<e>> ELSE <<>>

\* The child reads a file it needs; some platforms tell the watcher.
Load(s, f) ==
    /\ proc[s].state = "runs"
    /\ proc[s].copy[f] = "none"
    /\ proc' = [proc EXCEPT ![s].copy[f] = "current"]
    /\ \/ UNCHANGED notices
       \/ reportsReads /\ Room(1) /\ notices' = notices \o Noticed(Change({f}))
    /\ UNCHANGED <<settings, pc, reason, child, faults, watcher, queue, lost, edits>>

\* It ends: it cannot load a file, its port is taken, or it was interrupted.
Exit(s) ==
    /\ proc[s].state = "runs"
    /\ faults < MaxFaults
    /\ faults' = faults + 1
    /\ proc' = [proc EXCEPT ![s] = Process("exited")]
    /\ UNCHANGED <<settings, pc, reason, child, watcher, eventVars, edits>>

\* A file is written, or one is renamed to another: one event with the paths, or
\* two for one change.
Edit(fs, again) ==
    /\ edits < MaxEdits
    /\ Room(2)
    /\ edits' = edits + 1
    /\ proc' = [s \in Slots |->
                   [proc[s] EXCEPT !.copy = [f \in Files |->
                       IF f \in fs /\ @[f] = "current" THEN "old" ELSE @[f]]]]
    /\ notices' = notices \o Noticed(Change(fs)) \o (IF again THEN Noticed(Change(fs)) ELSE <<>>)
    /\ UNCHANGED <<settings, pc, reason, child, faults, watcher, queue, lost>>

\* The watcher sends an event, or the error of reading one.
Report ==
    /\ watcher = "up"
    /\ notices # <<>>
    /\ queue' = Append(queue, Head(notices))
    /\ notices' = Tail(notices)
    /\ UNCHANGED <<settings, pc, reason, child, proc, faults, watcher, lost, edits>>

WatcherFails ==
    /\ watcher = "up"
    /\ Room(1)
    /\ faults < MaxFaults
    /\ faults' = faults + 1
    /\ queue' = Append(queue, Error)
    /\ UNCHANGED <<settings, pc, reason, child, proc, watcher, notices, lost, edits>>

WatcherEnds ==
    /\ watcher = "up"
    /\ watcher' = "gone"
    /\ UNCHANGED <<settings, pc, reason, child, proc, faults, eventVars, edits>>

-----------------------------------------------------------------------------
World ==
    \/ Report \/ WatcherFails \/ WatcherEnds
    \/ \E s \in Slots : Exit(s) \/ \E f \in Files : Load(s, f)
    \/ \E f, g \in Files, again \in BOOLEAN : Edit({f, g}, again)

Next == Supervisor \/ World

Spec == Init /\ [][Next]_vars

\* The supervisor, the watcher and the children run; nothing makes a file change,
\* a child end or a watcher fail.
Fairness ==
    /\ WF_vars(Supervisor)
    /\ WF_vars(Report)
    /\ \A s \in Slots, f \in Files : WF_vars(Load(s, f))

FairSpec == Spec /\ Fairness

-----------------------------------------------------------------------------
(* Properties.                                                             *)

\* Two servers never run at a time, so the new one finds the port free.
OneChild == \A s \in Slots : proc[s].state = "runs" => s = child

Stale(f) ==
    /\ child # 0 /\ proc[child].state = "runs"
    /\ proc[child].copy[f] = "old"
    /\ Watched(f) /\ Restarts(f)

Pending(f) ==
    \/ \E i \in DOMAIN notices : f \in notices[i].files
    \/ \E i \in DOMAIN queue : f \in queue[i].files

\* A child that runs an old version of a file that matters is about to be stopped,
\* or an event about the file is on its way; or the event came while the child
\* was replaced and was thrown away, or the watcher or the supervisor is gone.
StaleExplained ==
    \A f \in Files :
        Stale(f) =>
            \/ Pending(f)
            \/ pc \in {"stop", "returned"}
            \/ f \in lost
            \/ watcher = "gone"

\* The supervisor takes a child's end for a failure only if the child ended by
\* itself, and leaves a child behind it only when its watcher fails.
EndsForCause ==
    pc = "returned" =>
        /\ reason = "exited" => ~ignoreFailure /\ proc[child].state = "exited"
        /\ (\E s \in Slots : proc[s].state = "runs") => reason = "watcher"

\* If files stop changing and children stop ending, the server that stays runs what
\* is on the disk, unless the drain after a restart took the event, or the
\* supervisor is gone: provided that the watcher does not report reads.
Settled ==
    \/ pc = "returned"
    \/ /\ pc \in {"check", "wait"}
       /\ proc[child].state = "runs"
       /\ \A f \in Files :
             Watched(f) /\ Restarts(f) =>
                 proc[child].copy[f] = "current" \/ f \in lost

ReloadsSettle == <>[](reportsReads \/ Settled)
=============================================================================
