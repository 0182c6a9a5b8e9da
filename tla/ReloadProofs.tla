----------------------------- MODULE ReloadProofs -----------------------------
(***************************************************************************)
(* Proofs about Reload: for any program, any options and any number of     *)
(* edits, one child at a time, ends that have a cause, and no stale server *)
(* without a reason.                                                       *)
(***************************************************************************)
EXTENDS Reload, TLAPS

\* Where the supervisor has a child, and what it left behind when it returned.
SupervisorInv ==
    /\ pc \in {"watch", "first"} => child = 0
    /\ pc \notin {"watch", "first", "returned"} => child \in Slots
    /\ pc \in {"again", "replace"} => proc[child].state # "runs"
    /\ pc = "watch" => watcher = "new"
    /\ pc \notin {"watch", "returned"} => watcher # "new"
    /\ pc # "returned" => reason = "none"
    /\ pc = "returned" /\ reason = "exited" =>
          ~ignoreFailure /\ child \in Slots /\ proc[child].state = "exited"
    /\ pc = "returned" /\ reason # "watcher" => \A s \in Slots : proc[s].state # "runs"

ReloadInv == TypeOK /\ OneChild /\ SupervisorInv /\ StaleExplained

\* Events joined to events are events.
LEMMA ConcatType ==
    ASSUME NEW E, NEW q \in Seq(E), NEW more \in Seq(E)
    PROVE  q \o more \in Seq(E)
    OBVIOUS

\* Events that are added do not hide the ones before them.
LEMMA PendingGrows ==
    ASSUME NEW q \in Seq(Event), NEW more \in Seq(Event), NEW f \in Files,
           \E i \in DOMAIN q : f \in q[i].files
    PROVE  \E i \in DOMAIN (q \o more) : f \in (q \o more)[i].files
<1>1. PICK i \in 1 .. Len(q) : f \in q[i].files
      OBVIOUS
<1>2. i \in DOMAIN (q \o more) /\ (q \o more)[i] = q[i]
      OBVIOUS
<1> QED BY <1>1, <1>2

\* An event about f that leaves a queue was its head, or is still there.
LEMMA PendingAfterTail ==
    ASSUME NEW q \in Seq(Event), q # <<>>, NEW f \in Files,
           \E i \in DOMAIN q : f \in q[i].files
    PROVE  f \in Head(q).files \/ \E i \in DOMAIN Tail(q) : f \in Tail(q)[i].files
<1>1. PICK i \in 1 .. Len(q) : f \in q[i].files
      OBVIOUS
<1>2. CASE i = 1
      BY <1>1, <1>2
<1>3. CASE i # 1
  <2>1. i - 1 \in DOMAIN Tail(q) /\ Tail(q)[i - 1] = q[i]
        BY <1>1, <1>3
  <2> QED BY <1>1, <2>1
<1> QED BY <1>2, <1>3

\* What the watcher makes of a change, seen or lost, is a file's state and events.
LEMMA NoticedType ==
    ASSUME NEW fs \in SUBSET Files
    PROVE  Change(fs) \in Event /\ Noticed(Change(fs)) \in Seq(Event)
<1>1. Change(fs) \in Event
      BY DEF Change, Event
<1>2. <<Change(fs)>> \in Seq(Event) /\ <<>> \in Seq(Event)
      BY <1>1
<1>3. Noticed(Change(fs)) \in {<<Change(fs)>>, <<>>}
      BY DEF Noticed
<1> QED BY <1>1, <1>2, <1>3

\* Nothing runs before the supervisor starts, so nothing can be stale.
LEMMA ReloadInvHoldsInitially ==
    ASSUME Init
    PROVE  ReloadInv
<1> USE ReloadAssumption DEF Init, Process
<1>1. TypeOK
      BY DEF TypeOK, Slots
<1>2. OneChild /\ SupervisorInv
      BY DEF OneChild, SupervisorInv, Slots
<1>3. StaleExplained
      BY DEF StaleExplained, Stale
<1> QED BY <1>1, <1>2, <1>3 DEF ReloadInv

\* One step of the supervisor's loop: starts, drains, checks, receives, waits.
LEMMA SupervisorKeeps ==
    ASSUME ReloadInv, Supervisor
    PROVE  ReloadInv'
<1> USE ReloadAssumption
        DEF ReloadInv, TypeOK, OneChild, SupervisorInv, Slots, settings, eventVars, Return, Process
<1>1. CASE Watch
  <2> USE <1>1 DEF Watch
  <2>1. TypeOK' /\ OneChild' /\ SupervisorInv'
        OBVIOUS
  <2>2. StaleExplained'
        BY DEF StaleExplained, Stale
  <2> QED BY <2>1, <2>2
<1>2. CASE Stop
  <2> USE <1>2 DEF Stop
  <2>1. proc' \in [Slots -> [state : {"none", "runs", "exited", "killed"},
                             copy : [Files -> {"none", "current", "old"}]]]
        OBVIOUS
  <2>2. proc'[child].state # "runs"
        OBVIOUS
  <2>3. TypeOK' /\ OneChild' /\ SupervisorInv'
        BY <2>1, <2>2
  <2>4. StaleExplained'
        BY <2>2 DEF StaleExplained, Stale
  <2> QED BY <2>3, <2>4
<1>3. CASE Spawn
  <2>1. CASE pc' = "returned" /\ reason' = "spawn" /\ UNCHANGED <<proc, child, lost>>
    <3> USE <1>3, <2>1 DEF Spawn
    <3>1. TypeOK' /\ OneChild' /\ SupervisorInv'
          OBVIOUS
    <3>2. StaleExplained'
          BY DEF StaleExplained
    <3> QED BY <3>1, <3>2
  <2>2. ASSUME NEW s \in Free,
               s # child, proc' = [proc EXCEPT ![s] = Process("runs")], child' = s, lost' = {},
               pc' = IF pc = "replace" THEN "drain" ELSE "check", UNCHANGED reason
        PROVE  ReloadInv'
    <3> USE <1>3, <2>2 DEF Spawn, Free
    <3>1. Process("runs") \in [state : {"none", "runs", "exited", "killed"},
                               copy : [Files -> {"none", "current", "old"}]]
          OBVIOUS
    <3>2. TypeOK'
          BY <3>1
    <3>3. \A t \in Slots : proc[t].state # "runs"
          OBVIOUS
    <3>4. OneChild' /\ SupervisorInv'
          BY <3>3
    <3>5. StaleExplained'
          BY DEF StaleExplained, Stale
    <3> QED BY <3>2, <3>4, <3>5
  <2> QED BY <1>3, <2>1, <2>2 DEF Spawn
<1>4. CASE Drain
  <2> USE <1>4 DEF Drain
  <2>1. TypeOK' /\ OneChild' /\ SupervisorInv'
    <3>1. queue # <<>> => Tail(queue) \in Seq(Event) /\ Head(queue) \in Event
          OBVIOUS
    <3> QED BY <3>1 DEF Event
  <2>2. CASE queue = <<>>
        BY <2>1, <2>2 DEF StaleExplained, Stale, Pending
  <2>3. CASE queue # <<>>
    <3>1. ASSUME NEW f \in Files, Stale(f)', ~Pending(f)', f \notin lost', watcher # "gone"
          PROVE  FALSE
      <4>1. Stale(f) /\ f \notin lost
            BY <2>3, <3>1 DEF Stale
      <4>2. Pending(f)
            BY <4>1, <3>1 DEF StaleExplained
      <4>3. f \notin Head(queue).files
            BY <2>3, <3>1, <4>1 DEF Stale
      <4> QED BY <2>3, <3>1, <4>2, <4>3, PendingAfterTail DEF Pending
    <3>2. StaleExplained'
          BY <3>1 DEF StaleExplained
    <3> QED BY <2>1, <3>2
  <2> QED BY <2>2, <2>3
<1>5. CASE Check
  <2> USE <1>5 DEF Check
  <2>1. TypeOK' /\ OneChild' /\ SupervisorInv'
        OBVIOUS
  <2>2. StaleExplained'
        BY DEF StaleExplained, Stale, Pending
  <2> QED BY <2>1, <2>2
<1>6. CASE Receive
  <2> USE <1>6 DEF Receive
  <2>0. Tail(queue) \in Seq(Event) /\ Head(queue) \in Event
        OBVIOUS
  <2>1. TypeOK' /\ OneChild' /\ SupervisorInv'
        BY <2>0
  <2>2. CASE pc' = "check"
    <3>1. ~Matches(Head(queue))
          BY <2>2
    <3>2. ASSUME NEW f \in Files, Stale(f)', ~Pending(f)', f \notin lost', watcher # "gone"
          PROVE  FALSE
      <4>1. Stale(f) /\ f \notin lost
            BY <3>2 DEF Stale
      <4>2. Pending(f)
            BY <4>1, <3>2 DEF StaleExplained
      <4>3. f \notin Head(queue).files
            BY <3>1, <4>1 DEF Stale, Matches
      <4> QED BY <3>2, <4>2, <4>3, PendingAfterTail DEF Pending
    <3>3. StaleExplained'
          BY <3>2 DEF StaleExplained
    <3> QED BY <2>1, <3>3
  <2>3. CASE pc' # "check"
    <3>1. pc' \in {"stop", "returned"}
          BY <2>3
    <3>2. StaleExplained'
          BY <3>1 DEF StaleExplained
    <3> QED BY <2>1, <3>2
  <2> QED BY <2>2, <2>3
<1>7. CASE Timeout
  <2> USE <1>7 DEF Timeout
  <2>1. TypeOK' /\ OneChild' /\ SupervisorInv'
        OBVIOUS
  <2>2. StaleExplained'
        BY DEF StaleExplained, Stale, Pending
  <2> QED BY <2>1, <2>2
<1> QED BY <1>1, <1>2, <1>3, <1>4, <1>5, <1>6, <1>7 DEF Supervisor

\* One step of the others: a child, an editor of files, the watcher.
LEMMA WorldKeeps ==
    ASSUME ReloadInv, World
    PROVE  ReloadInv'
<1> USE ReloadAssumption
        DEF ReloadInv, TypeOK, OneChild, SupervisorInv, Slots, settings, eventVars, Process
<1>1. CASE Report
  <2> USE <1>1 DEF Report
  <2>0. Tail(notices) \in Seq(Event) /\ Head(notices) \in Event
        OBVIOUS
  <2>1. TypeOK' /\ OneChild' /\ SupervisorInv'
        BY <2>0
  <2>2. ASSUME NEW f \in Files, Pending(f) PROVE Pending(f)'
    <3>1. CASE \E i \in DOMAIN queue : f \in queue[i].files
          BY <3>1, <2>0, PendingGrows DEF Pending
    <3>2. CASE \E i \in DOMAIN notices : f \in notices[i].files
      <4>1. CASE f \in Head(notices).files
        <5>1. Len(queue') \in DOMAIN queue' /\ queue'[Len(queue')] = Head(notices)
              BY <2>0
        <5> QED BY <4>1, <5>1 DEF Pending
      <4>2. CASE f \notin Head(notices).files
            BY <3>2, <4>2, PendingAfterTail DEF Pending
      <4> QED BY <4>1, <4>2
    <3> QED BY <2>2, <3>1, <3>2 DEF Pending
  <2>3. StaleExplained'
        BY <2>2 DEF StaleExplained, Stale
  <2> QED BY <2>1, <2>3
<1>2. CASE WatcherFails
  <2> USE <1>2 DEF WatcherFails
  <2>0. Error \in Event /\ Append(queue, Error) \in Seq(Event)
        BY DEF Error, Event
  <2>1. TypeOK' /\ OneChild' /\ SupervisorInv'
        BY <2>0
  <2>2. ASSUME NEW f \in Files, Pending(f) PROVE Pending(f)'
    <3>1. Append(queue, Error) = queue \o <<Error>> /\ <<Error>> \in Seq(Event)
          BY <2>0
    <3> QED BY <2>2, <3>1, PendingGrows DEF Pending
  <2>3. StaleExplained'
        BY <2>2 DEF StaleExplained, Stale
  <2> QED BY <2>1, <2>3
<1>3. CASE WatcherEnds
  <2> USE <1>3 DEF WatcherEnds
  <2>1. TypeOK' /\ OneChild' /\ SupervisorInv'
        OBVIOUS
  <2>2. StaleExplained'
        BY DEF StaleExplained
  <2> QED BY <2>1, <2>2
<1>4. ASSUME NEW s \in Slots, Exit(s)
      PROVE  ReloadInv'
  <2> USE <1>4 DEF Exit
  <2>1. TypeOK' /\ OneChild' /\ SupervisorInv'
        OBVIOUS
  <2>2. StaleExplained'
        BY DEF StaleExplained, Stale, Pending
  <2> QED BY <2>1, <2>2
<1>5. ASSUME NEW s \in Slots, NEW f \in Files, Load(s, f)
      PROVE  ReloadInv'
  <2> USE <1>5 DEF Load
  <2>0. notices' = notices \/ notices' = notices \o Noticed(Change({f}))
        OBVIOUS
  <2>1. TypeOK' /\ OneChild' /\ SupervisorInv'
    <3>1. Noticed(Change({f})) \in Seq(Event)
      <4>1. {f} \in SUBSET Files
            OBVIOUS
      <4> QED BY <4>1, NoticedType
    <3>2. notices \in Seq(Event)
          OBVIOUS
    <3>3. notices' \in Seq(Event)
      <4>1. notices \o Noticed(Change({f})) \in Seq(Event)
            BY <3>1, <3>2, ConcatType
      <4> QED BY <2>0, <3>2, <4>1
    <3> QED BY <3>3, ZenonT(60)
  <2>2. ASSUME NEW g \in Files, Pending(g) PROVE Pending(g)'
        BY <2>0, <2>2, NoticedType, PendingGrows, ZenonT(60) DEF Pending
  <2>3. ASSUME NEW g \in Files, Stale(g)' PROVE Stale(g)
        BY <2>3 DEF Stale
  <2>4. StaleExplained'
        BY <2>2, <2>3 DEF StaleExplained
  <2> QED BY <2>1, <2>4
<1>6. ASSUME NEW fs \in SUBSET Files, NEW again \in BOOLEAN, Edit(fs, again)
      PROVE  ReloadInv'
  <2> USE <1>6 DEF Edit
  <2> DEFINE first == Noticed(Change(fs))
             more == IF again THEN Noticed(Change(fs)) ELSE <<>>
  <2>0. first \in Seq(Event) /\ more \in Seq(Event) /\ notices' = (notices \o first) \o more
        BY NoticedType
  <2>1. TypeOK'
    <3>1. \A s \in Slots :
             [proc[s] EXCEPT !.copy = [f \in Files |->
                 IF f \in fs /\ @[f] = "current" THEN "old" ELSE @[f]]]
             \in [state : {"none", "runs", "exited", "killed"},
                  copy : [Files -> {"none", "current", "old"}]]
          OBVIOUS
    <3>2. notices' \in Seq(Event)
          BY <2>0
    <3>3. proc' \in [Slots -> [state : {"none", "runs", "exited", "killed"},
                               copy : [Files -> {"none", "current", "old"}]]]
          BY <3>1
    <3>4. edits' \in 0 .. MaxEdits
          OBVIOUS
    <3> QED BY <3>2, <3>3, <3>4, ZenonT(60)
  <2>2. \A s \in Slots : proc'[s].state = proc[s].state
        OBVIOUS
  <2>3. OneChild' /\ SupervisorInv'
        BY <2>2
  <2>4. ASSUME NEW f \in Files, Pending(f) PROVE Pending(f)'
    <3> HIDE DEF first, more
    <3>1. CASE \E i \in DOMAIN queue : f \in queue[i].files
          BY <3>1 DEF Pending
    <3>2. CASE \E i \in DOMAIN notices : f \in notices[i].files
      <4>1. \E i \in DOMAIN (notices \o first) : f \in (notices \o first)[i].files
            BY <3>2, <2>0, PendingGrows
      <4>2. notices \o first \in Seq(Event)
            BY <2>0
      <4>3. \E i \in DOMAIN notices' : f \in notices'[i].files
            BY <4>1, <4>2, <2>0, PendingGrows
      <4> QED BY <4>3 DEF Pending
    <3> QED BY <2>4, <3>1, <3>2 DEF Pending
  <2>5. ASSUME NEW f \in fs, Watched(f), watcher = "up" PROVE Pending(f)'
    <3>1. first = <<Change(fs)>>
          BY <2>5 DEF Noticed, Change
    <3>2. notices \in Seq(Event) /\ Change(fs) \in Event
          BY NoticedType
    <3>3. /\ Len(notices) + 1 \in DOMAIN (notices \o <<Change(fs)>>)
          /\ (notices \o <<Change(fs)>>)[Len(notices) + 1] = Change(fs)
          /\ notices \o <<Change(fs)>> \in Seq(Event)
          BY ONLY <3>2
    <3> HIDE DEF first, more
    <3>4. \E i \in DOMAIN (notices \o first) : f \in (notices \o first)[i].files
          BY ONLY <3>1, <3>3, f \in fs DEF Change
    <3>5. \E i \in DOMAIN notices' : f \in notices'[i].files
          BY <2>0, <3>1, <3>3, <3>4, PendingGrows
    <3> QED BY <3>5 DEF Pending
  <2>6. ASSUME NEW f \in Files, Stale(f)', ~Pending(f)', pc \notin {"stop", "returned"},
               f \notin lost, watcher # "gone"
        PROVE  FALSE
    <3>1. child \in Slots /\ watcher = "up"
          BY <2>6 DEF Stale
    <3>2. proc[child].copy[f] \in {"none", "current", "old"}
          BY <3>1
    <3>3. CASE f \in fs /\ proc[child].copy[f] = "current"
          BY <3>1, <3>3, <2>5, <2>6 DEF Stale
    <3>4. CASE ~(f \in fs /\ proc[child].copy[f] = "current")
      <4>1. proc'[child].copy[f] = proc[child].copy[f]
            BY <3>1, <3>4
      <4>2. Stale(f)
            BY <2>6, <2>2, <3>1, <4>1 DEF Stale
      <4> QED BY <4>2, <2>4, <2>6 DEF StaleExplained
    <3> QED BY <3>3, <3>4
  <2>7. StaleExplained'
        BY <2>6 DEF StaleExplained
  <2> QED BY <2>1, <2>3, <2>7
<1> QED BY <1>1, <1>2, <1>3, <1>4, <1>5, <1>6 DEF World

\* Every step preserves ReloadInv.
LEMMA ReloadInvIsInductive ==
    ASSUME ReloadInv, [Next]_vars
    PROVE  ReloadInv'
<1>1. CASE UNCHANGED vars
  <2> USE <1>1 DEF vars, settings, eventVars
  <2>1. TypeOK' /\ OneChild' /\ SupervisorInv'
        BY DEF ReloadInv, TypeOK, OneChild, SupervisorInv
  <2>2. StaleExplained'
        BY DEF ReloadInv, StaleExplained, Stale, Pending
  <2> QED BY <2>1, <2>2 DEF ReloadInv
<1>2. CASE Supervisor
      BY <1>2, SupervisorKeeps
<1>3. CASE World
      BY <1>3, WorldKeeps
<1> QED BY <1>1, <1>2, <1>3 DEF Next

\* The inductive invariant of the theorems about the supervisor.
THEOREM ReloadInvariance == Spec => []ReloadInv
<1>1. Init => ReloadInv
      BY ReloadInvHoldsInitially
<1>2. ReloadInv /\ [Next]_vars => ReloadInv'
      BY ReloadInvIsInductive
<1> QED BY <1>1, <1>2, PTL DEF Spec

\* However edits, events, failures and restarts interleave, one child runs at a
\* time: stop_child waits for the old one (run_reload_supervisor).
THEOREM OneChildAtATime == Spec => []OneChild
<1>1. ReloadInv => OneChild
      BY DEF ReloadInv
<1> QED BY <1>1, ReloadInvariance, PTL

\* A server that runs old code has an event on its way, or lost it in the drain
\* after a restart (run_reload_supervisor, reload_event_matches).
THEOREM StaleIsExplained == Spec => []StaleExplained
<1>1. ReloadInv => StaleExplained
      BY DEF ReloadInv
<1> QED BY <1>1, ReloadInvariance, PTL

\* The supervisor ends for a child only if that child ended by itself, and leaves
\* one running only behind a watcher that failed (run_reload_supervisor).
THEOREM SupervisorEndsForCause == Spec => []EndsForCause
<1>1. ReloadInv => EndsForCause
      BY DEF ReloadInv, SupervisorInv, EndsForCause
<1> QED BY <1>1, ReloadInvariance, PTL
=============================================================================
