--------------------------- MODULE ExecutionProofs ---------------------------
(***************************************************************************)
(* Proofs about Lifecycle, for any number of requests and of hooks, and    *)
(* about Execution: its type, which background tasks are spawned, and that *)
(* the requests it describes are the requests of Lifecycle.                *)
(***************************************************************************)
EXTENDS Execution, TLAPS

-----------------------------------------------------------------------------
(* Lifecycle: the phases of serve, in their order.                         *)

\* What each phase of the server thread has behind it and ahead of it.
PhaseInv ==
    /\ phase \in {"bind", "serving", "draining", "stopping", "shutdown"} => Prepared
    /\ phase \in {"startup", "bind", "serving", "draining", "stopping"} =>
          ~stopAsked
    /\ phase = "shutdown" => stopAsked
    /\ open # {} => phase \in {"serving", "draining"}

\* What is set after the server asked the loop to stop, and never before.
StopInv ==
    /\ stopAsked => Prepared
    /\ stopped > 0 \/ lifespan = "exited" \/ loop = "closed" => stopAsked

LifecycleInv ==
    /\ LifecycleTypeOK
    /\ PhaseInv
    /\ StopInv
    /\ Lifespan => started = 0 /\ stopped = 0

LEMMA LifecycleInvHoldsInitially ==
    ASSUME LifecycleInit
    PROVE  LifecycleInv
<1> USE LifecycleAssumption DEF LifecycleInit, Lifespan
<1>1. LifecycleTypeOK
  <2>1. started \in 0 .. StartupHandlers /\ stopped \in 0 .. ShutdownHandlers
        OBVIOUS
  <2>2. open \subseteq arrived /\ arrived \subseteq Requests
        OBVIOUS
  <2> QED BY <2>1, <2>2 DEF LifecycleTypeOK
<1>2. PhaseInv
      BY DEF PhaseInv
<1>3. StopInv
      BY DEF StopInv
<1>4. Lifespan => started = 0 /\ stopped = 0
      OBVIOUS
<1> QED BY <1>1, <1>2, <1>3, <1>4 DEF LifecycleInv

LEMMA LifecycleInvIsInductive ==
    ASSUME LifecycleInv, [LifecycleNext]_lifecycleVars
    PROVE  LifecycleInv'
<1> USE LifecycleAssumption
        DEF LifecycleInv, LifecycleTypeOK, PhaseInv, StopInv, Prepared, Lifespan, hookVars, loopVars, httpVars
<1>1. CASE UNCHANGED lifecycleVars
      BY <1>1 DEF lifecycleVars
<1>2. CASE Startup
      BY <1>2 DEF Startup, StartupFails, StartupHandler, EnterLifespan, StartupDone
<1>3. CASE Bind
      BY <1>3 DEF Bind
<1>4. CASE Interrupt
      BY <1>4 DEF Interrupt
<1>5. CASE Shutdown
  <2>1. CASE Drained
        BY <2>1 DEF Drained
  <2>2. CASE AskStop
    <3>1. LifecycleTypeOK'
          BY <2>2 DEF AskStop
    <3>2. PhaseInv' /\ StopInv'
          BY <2>2 DEF AskStop
    <3> QED BY <2>2, <3>1, <3>2 DEF AskStop
  <2>3. CASE ExitLifespan
    <3>1. LifecycleTypeOK'
          BY <2>3 DEF ExitLifespan
    <3>2. PhaseInv'
          BY <2>3 DEF ExitLifespan
    <3>3. StopInv'
          BY <2>3 DEF ExitLifespan
    <3> QED BY <2>3, <3>1, <3>2, <3>3 DEF ExitLifespan
  <2>4. CASE ShutdownDone
    <3>1. LifecycleTypeOK'
          BY <2>4 DEF ShutdownDone
    <3>2. PhaseInv' /\ StopInv'
          BY <2>4 DEF ShutdownDone
    <3> QED BY <2>4, <3>1, <3>2 DEF ShutdownDone
  <2>5. CASE \E ok \in BOOLEAN : ShutdownHandler(ok)
    <3>1. PICK ok \in BOOLEAN : ShutdownHandler(ok)
          BY <2>5
    <3>2. LifecycleTypeOK'
          BY <3>1 DEF ShutdownHandler
    <3>3. PhaseInv'
          BY <3>1 DEF ShutdownHandler
    <3>4. StopInv'
          BY <3>1 DEF ShutdownHandler
    <3> QED BY <3>1, <3>2, <3>3, <3>4 DEF ShutdownHandler
  <2> QED BY <1>5, <2>1, <2>2, <2>3, <2>4, <2>5 DEF Shutdown
<1>6. CASE Loop
  <2>1. CASE LoopRuns
        BY <2>1 DEF LoopRuns
  <2>2. CASE LoopCloses
        BY <2>2 DEF LoopCloses
  <2> QED BY <1>6, <2>1, <2>2 DEF Loop
<1>7. CASE ProcessExits
      BY <1>7 DEF ProcessExits
<1>8. CASE \E r \in Requests : Accept(r) \/ Finish(r)
  <2>1. PICK r \in Requests : Accept(r) \/ Finish(r)
        BY <1>8
  <2>2. CASE Accept(r)
        BY <2>2 DEF Accept
  <2>3. CASE Finish(r)
        BY <2>3 DEF Finish
  <2> QED BY <2>1, <2>2, <2>3
<1> QED BY <1>1, <1>2, <1>3, <1>4, <1>5, <1>6, <1>7, <1>8 DEF LifecycleNext

LEMMA LifecycleInvImplies ==
    ASSUME LifecycleInv
    PROVE  RequestsWithinLifespan /\ HooksPaired
BY LifecycleAssumption
   DEF LifecycleInv, LifecycleTypeOK, PhaseInv, StopInv, Prepared, Lifespan, RequestsWithinLifespan, HooksPaired

\* The inductive invariant of the two theorems below: the phases of serve.
THEOREM LifecycleInvariance == LifecycleSpec => []LifecycleInv
<1>1. LifecycleInit => LifecycleInv
      BY LifecycleInvHoldsInitially
<1>2. LifecycleInv /\ [LifecycleNext]_lifecycleVars => LifecycleInv'
      BY LifecycleInvIsInductive
<1> QED BY <1>1, <1>2, PTL DEF LifecycleSpec

\* No list of handlers is read past its end, and a request that is open has
\* reached the server (serve.rs, lifecycle.rs).
THEOREM LifecycleTypeCorrect == LifecycleSpec => []LifecycleTypeOK
<1>1. LifecycleInv => LifecycleTypeOK
      BY DEF LifecycleInv
<1> QED BY <1>1, LifecycleInvariance, PTL

\* However many requests and hooks there are, a request is only ever in flight
\* between a complete startup and the first step of the shutdown, on a loop that
\* no one has asked to stop (serve.rs).
THEOREM RequestsStayWithinLifespan == LifecycleSpec => []RequestsWithinLifespan
BY LifecycleInvariance, LifecycleInvImplies, PTL

\* Shutdown hooks run only after a startup that completed, and a lifespan keeps
\* both lists of handlers from being called (run_startup_phase and
\* run_shutdown_phase).
THEOREM HooksArePaired == LifecycleSpec => []HooksPaired
BY LifecycleInvariance, LifecycleInvImplies, PTL

-----------------------------------------------------------------------------
(* Execution.                                                              *)

Places == {"inline", "pool", "loop"}

\* A plan is a non-empty sequence of places.
LEMMA PlanType ==
    ASSUME NEW r \in Requests, handler \in [Requests -> Handler]
    PROVE  Plan(r) \in Seq(Places) /\ Len(Plan(r)) \in Nat /\ Len(Plan(r)) >= 1
<1> DEFINE h == handler[r]
           deps == [i \in DOMAIN h.deps |-> IF h.deps[i] = "async" THEN "loop" ELSE "pool"]
<1>1. h \in Handler
      OBVIOUS
<1>2. deps \in Seq(Places)
  <2>1. h.deps \in Seq({"sync", "async"})
        BY <1>1 DEF Handler
  <2>2. PICK n \in Nat : DOMAIN h.deps = 1 .. n
        BY <2>1
  <2>3. deps \in [1 .. n -> Places]
        BY <2>2 DEF Places
  <2> QED BY <2>3
<1>3. CASE Plan(r) \in {<<"pool">>, <<"inline">>, <<"loop">>}
  <2>1. ASSUME NEW p \in Places
        PROVE  <<p>> \in Seq(Places) /\ Len(<<p>>) = 1
        OBVIOUS
  <2>2. PICK p \in Places : Plan(r) = <<p>>
        BY <1>3 DEF Places
  <2> QED BY <2>1, <2>2
<1>4. CASE Plan(r) = <<"pool", "loop">>
  <2>1. <<"pool", "loop">> \in Seq(Places) /\ Len(<<"pool", "loop">>) = 2
        BY DEF Places
  <2> QED BY <1>4, <2>1
<1>5. CASE \/ ~h.async
           \/ h.async /\ ~h.kwargs
           \/ h.async /\ h.kwargs /\ \A i \in DOMAIN h.deps : h.deps[i] = "sync"
  <2>1. Plan(r) \in {<<"pool">>, <<"inline">>, <<"loop">>, <<"pool", "loop">>}
        BY <1>5 DEF Plan, PlanOf
  <2> QED BY <2>1, <1>3, <1>4
<1>6. CASE h.async /\ h.kwargs /\ ~(\A i \in DOMAIN h.deps : h.deps[i] = "sync")
  <2>1. Plan(r) = <<"pool">> \o deps \o <<"pool", "loop">>
        BY <1>6 DEF Plan, PlanOf
  <2>2. <<"pool">> \in Seq(Places) /\ <<"pool", "loop">> \in Seq(Places)
        BY DEF Places
  <2>3. Len(<<"pool">>) = 1 /\ Len(<<"pool", "loop">>) = 2
        OBVIOUS
  <2> HIDE DEF deps
  <2>4. /\ <<"pool">> \o deps \in Seq(Places)
        /\ Len(<<"pool">> \o deps) = 1 + Len(deps)
        /\ Len(deps) \in Nat
        BY <1>2, <2>2, <2>3
  <2> QED BY <2>1, <2>2, <2>3, <2>4
<1> QED BY <1>5, <1>6

\* A request that has not arrived has done nothing, every task in a list was put
\* there by a call, and a body starts once the background tasks were spawned.
Steps(r) ==
    /\ r \notin arrived => future[r] = "none" /\ job[r] = "none"
    /\ added[r] <= calls[r]
    /\ future[r] = "streams" => job[r] = "returned" /\ InHandler(r)
    /\ future[r] \in {"none", "awaits"} => pull[r] = "idle"
    /\ pull[r] \in {"asked", "chunk"} => handler[r].stream = "async"
    /\ pull[r] \in {"asked", "chunk"} => future[r] \in {"streams", "dropped"}

Tasks(r) ==
    /\ tasks[r] # "none" =>
          /\ InHandler(r)
          /\ job[r] = "returned"
          /\ Place(r) = "loop" => future[r] \notin {"awaits", "error"}
    /\ pull[r] # "idle" /\ handler[r].tasks => tasks[r] # "none"
    /\ /\ handler[r].tasks
       /\ future[r] = "streams" \/ (job[r] = "returned" /\ InHandler(r) /\ Place(r) # "loop")
       => tasks[r] # "none"

Chunks(r) ==
    /\ future[r] = "ok" => sent[r] = made[r]
    /\ made[r] = IF pull[r] = "chunk" THEN sent[r] + 1 ELSE sent[r]

RequestInv == \A r \in Requests : Steps(r) /\ Tasks(r) /\ Chunks(r)

ExecutionInv == LifecycleInv /\ TypeOK /\ RequestInv

LEMMA RequestInvImplies ==
    ASSUME RequestInv, TypeOK
    PROVE  TasksFollowHandler /\ \A r \in Requests : Complete(r)
<1>1. TasksFollowHandler
      BY DEF RequestInv, Tasks, TasksFollowHandler
<1>2. ASSUME NEW r \in Requests PROVE Complete(r)
  <2>1. Chunks(r) /\ made[r] \in 0 .. MaxChunks /\ sent[r] \in 0 .. MaxChunks
        BY DEF RequestInv, TypeOK
  <2> QED BY <2>1, ExecutionAssumption DEF Chunks, Complete
<1> QED BY <1>1, <1>2

LEMMA ExecutionInvHoldsInitially ==
    ASSUME Init
    PROVE  ExecutionInv
<1> USE DEF Init
<1>1. LifecycleInv /\ LifecycleTypeOK
      BY LifecycleInvHoldsInitially DEF LifecycleInv
<1>0. threadPool \in BOOLEAN /\ handler \in [Requests -> Handler]
      BY ExecutionAssumption
<1>2. \A r \in Requests : step[r] \in 0 .. Len(Plan(r))
  <2> TAKE r \in Requests
  <2>1. step[r] = 0
        OBVIOUS
  <2> QED BY <2>1, <1>0, PlanType
<1>3. open = {r \in Requests : future[r] \in {"awaits", "streams"}}
      BY DEF LifecycleInit
<1>4. /\ calls \in [Requests -> 0 .. MaxTasks]
      /\ added \in [Requests -> 0 .. MaxTasks]
      /\ due \in [Requests -> 0 .. MaxTasks]
      /\ made \in [Requests -> 0 .. MaxChunks]
      /\ sent \in [Requests -> 0 .. MaxChunks]
      BY ExecutionAssumption
<1>5. TypeOK
      BY <1>0, <1>1, <1>2, <1>3, <1>4 DEF TypeOK, Answers
<1>6. RequestInv
  <2> SUFFICES ASSUME NEW r \in Requests PROVE Steps(r) /\ Tasks(r) /\ Chunks(r)
      BY DEF RequestInv
  <2>1. /\ future[r] = "none" /\ job[r] = "none" /\ pull[r] = "idle" /\ tasks[r] = "none"
        /\ added[r] = 0 /\ calls[r] = 0 /\ sent[r] = 0 /\ made[r] = 0
        OBVIOUS
  <2> HIDE DEF Init
  <2>2. Steps(r)
        BY <2>1 DEF Steps
  <2>3. Tasks(r)
        BY <2>1 DEF Tasks
  <2>4. Chunks(r)
        BY <2>1 DEF Chunks
  <2> QED BY <2>2, <2>3, <2>4
<1> QED BY <1>1, <1>5, <1>6 DEF ExecutionInv

\* A step of the server leaves the requests alone; a step of a request is one
\* of the server or leaves the server alone.
LEMMA StepIsLifecycleStep ==
    ASSUME [Next]_vars
    PROVE  [LifecycleNext]_lifecycleVars
<1>1. CASE UNCHANGED vars
      BY <1>1 DEF vars
<1>2. CASE Next
  <2>1. CASE \/ Server(Startup) \/ Server(Bind) \/ Server(Interrupt) \/ Server(Shutdown)
             \/ Server(Loop) \/ Server(ProcessExits)
        BY <2>1 DEF Server, LifecycleNext
  <2>2. ASSUME NEW r \in Requests,
               \/ Arrive(r) \/ Continue(r) \/ Answer(r) \/ Drop(r) \/ Stream(r)
               \/ Return(r) \/ Raise(r) \/ AddLate(r) \/ ExecuteAll(r)
               \/ \E args \in {"absent", "list"} : AddTask(r, args)
               \/ \E n \in 1 .. MaxTasks : RunTask(r, n)
        PROVE  [LifecycleNext]_lifecycleVars
    <3>1. CASE Arrive(r)
          BY <3>1 DEF Arrive, LifecycleNext
    <3>2. CASE Answer(r)
          BY <3>2 DEF Answer, LifecycleNext
    <3>3. CASE Drop(r)
          BY <3>3 DEF Drop, LifecycleNext
    <3>5. CASE Stream(r)
          BY <3>5 DEF Stream, StartStream, ConversionPanics, Ask, Deliver, Leave, PullSync,
                      Produce, LifecycleNext
    <3>4. CASE \/ Continue(r) \/ Return(r) \/ Raise(r) \/ AddLate(r) \/ ExecuteAll(r)
               \/ \E args \in {"absent", "list"} : AddTask(r, args)
               \/ \E n \in 1 .. MaxTasks : RunTask(r, n)
          BY <3>4 DEF Continue, Return, Raise, AddLate, ExecuteAll, AddTask, RunTask
    <3> QED BY <2>2, <3>1, <3>2, <3>3, <3>4, <3>5
  <2> QED BY <1>2, <2>1, <2>2 DEF Next
<1> QED BY <1>1, <1>2

\* A request that a step leaves alone keeps what is said of it.
Untouched(q) ==
    /\ future'[q] = future[q] /\ step'[q] = step[q] /\ job'[q] = job[q]
    /\ calls'[q] = calls[q] /\ added'[q] = added[q] /\ tasks'[q] = tasks[q]
    /\ pull'[q] = pull[q] /\ made'[q] = made[q] /\ sent'[q] = sent[q]
    /\ q \in arrived => q \in arrived'

LEMMA UntouchedKeeps ==
    ASSUME NEW q \in Requests, RequestInv, UNCHANGED appVars, Untouched(q),
           q \in arrived' => q \in arrived
    PROVE  Steps(q)' /\ Tasks(q)' /\ Chunks(q)'
<1>1. handler' = handler /\ Plan(q)' = Plan(q)
      BY DEF appVars, Plan, PlanOf
<1>2. InHandler(q)' = InHandler(q) /\ Place(q)' = Place(q)
      BY <1>1 DEF InHandler, Place, Untouched
<1>3. Steps(q) /\ Tasks(q) /\ Chunks(q)
      BY DEF RequestInv
<1>4. Steps(q)'
      BY <1>1, <1>2, <1>3 DEF Steps, Untouched
<1>5. Tasks(q)'
      BY <1>1, <1>2, <1>3 DEF Tasks, Untouched
<1>6. Chunks(q)'
      BY <1>3 DEF Chunks, Untouched
<1> QED BY <1>4, <1>5, <1>6

\* A step that leaves the requests alone.
LEMMA ServerStepKeeps ==
    ASSUME ExecutionInv,
           LifecycleInv',
           UNCHANGED <<workVars, taskVars, streamVars, appVars, httpVars>>
    PROVE  ExecutionInv'
<1>1. TypeOK'
      BY DEF workVars, taskVars, streamVars, appVars, httpVars, ExecutionInv, TypeOK, Plan, PlanOf,
             LifecycleInv
<1>2. RequestInv'
  <2> SUFFICES ASSUME NEW q \in Requests PROVE Steps(q)' /\ Tasks(q)' /\ Chunks(q)'
      BY DEF RequestInv
  <2>1. Untouched(q) /\ arrived' = arrived
        BY DEF Untouched, workVars, taskVars, streamVars, httpVars
  <2> QED BY <2>1, UntouchedKeeps DEF ExecutionInv
<1> QED BY <1>1, <1>2 DEF ExecutionInv

\* A step of the future of a request, of its job, of its tasks or of its stream.
LEMMA RequestStepKeeps ==
    ASSUME ExecutionInv,
           LifecycleInv',
           NEW r \in Requests,
           \/ Arrive(r) \/ Continue(r) \/ Answer(r) \/ Drop(r) \/ Stream(r)
           \/ Return(r) \/ Raise(r) \/ AddLate(r) \/ ExecuteAll(r)
           \/ \E args \in {"absent", "list"} : AddTask(r, args)
           \/ \E n \in 1 .. MaxTasks : RunTask(r, n)
    PROVE  ExecutionInv'
<1> USE ExecutionAssumption DEF ExecutionInv, TypeOK, Answers
<1>a. UNCHANGED appVars
      BY DEF Arrive, Continue, Answer, Drop, Stream, StartStream, ConversionPanics, Ask, Deliver,
             Leave, PullSync, Produce, Return, Raise, AddLate, ExecuteAll, AddTask, RunTask
<1>b. handler' = handler /\ threadPool' = threadPool
      BY <1>a DEF appVars
<1>p. \A q \in Requests : Len(Plan(q)) \in Nat /\ Len(Plan(q)) >= 1 /\ Plan(q)' = Plan(q)
      BY <1>b, PlanType DEF Plan, PlanOf
<1>r. Steps(r) /\ Tasks(r) /\ Chunks(r)
      BY DEF RequestInv
<1>o. r \in open => r \in arrived
      BY DEF LifecycleTypeOK
<1>i. InHandler(r)' = (step'[r] = Len(Plan(r))) /\ Place(r)' = Plan(r)[step'[r]]
      BY <1>p DEF InHandler, Place
<1> USE <1>b
<1> DEFINE StepType == \A q \in Requests : step[q] \in 0 .. Len(Plan(q))
           OpenType == open = {q \in Requests : future[q] \in {"awaits", "streams"}}
           Others == \A q \in Requests \ {r} :
                        Untouched(q) /\ (q \in arrived' => q \in arrived)
           Mine == Steps(r)' /\ Tasks(r)' /\ Chunks(r)'
<1>q. ASSUME TypeOK', Others, Mine PROVE ExecutionInv'
  <2>1. ASSUME NEW q \in Requests PROVE Steps(q)' /\ Tasks(q)' /\ Chunks(q)'
    <3>1. CASE q = r
          BY <1>q, <3>1
    <3>2. CASE q # r
          BY <1>q, <3>2, <1>a, UntouchedKeeps
    <3> QED BY <3>1, <3>2
  <2> QED BY <1>q, <2>1 DEF RequestInv
<1>1. CASE Arrive(r)
  <2>1. /\ future' = [future EXCEPT ![r] = "awaits"]
        /\ step' = [step EXCEPT ![r] = 1]
        /\ job' = [job EXCEPT ![r] = "submitted"]
        /\ arrived' = arrived \union {r}
        /\ UNCHANGED <<calls, added, due, tasks, pending, ran, pull, made, sent>>
        /\ r \notin arrived
        BY <1>1 DEF Arrive, Accept, taskVars, streamVars
  <2>2. StepType' /\ OpenType'
        BY <1>1, <2>1, <1>p DEF Arrive, Accept, taskVars, streamVars
  <2>3. TypeOK'
        BY <2>1, <2>2 DEF LifecycleInv
  <2>4. Others
        BY <2>1 DEF Untouched
  <2>5. Steps(r)'
        BY <2>1, <1>r, <1>i, <1>p DEF Steps, InHandler
  <2>6. Tasks(r)'
        BY <2>1, <1>r, <1>i, <1>p DEF Tasks, Steps, InHandler, Place
  <2>7. Chunks(r)'
        BY <2>1, <1>r DEF Chunks, Steps
  <2> QED BY <2>3, <2>4, <2>5, <2>6, <2>7, <1>q
<1>2. CASE Continue(r)
  <2>1. /\ step' = [step EXCEPT ![r] = step[r] + 1]
        /\ job' = [job EXCEPT ![r] = "submitted"]
        /\ UNCHANGED <<future, calls, added, due, tasks, pending, ran, pull, made, sent, arrived>>
        /\ future[r] = "awaits" /\ step[r] # Len(Plan(r)) /\ job[r] = "returned"
        BY <1>2 DEF Continue, InHandler, taskVars, streamVars, lifecycleVars, httpVars
  <2>2. StepType' /\ OpenType'
        BY <1>2, <2>1, <1>p, SMTT(30) DEF Continue, taskVars, streamVars, lifecycleVars, httpVars
  <2>3. TypeOK'
        BY <2>1, <2>2 DEF LifecycleInv
  <2>4. Others
        BY <2>1 DEF Untouched
  <2>5. Steps(r)'
        BY <2>1, <1>r, <1>i, <1>p DEF Steps, InHandler
  <2>6. Tasks(r)'
        BY <2>1, <1>r, <1>i, <1>p DEF Tasks, Steps, InHandler, Place
  <2>7. Chunks(r)'
        BY <2>1, <1>r DEF Chunks, Steps
  <2> QED BY <2>3, <2>4, <2>5, <2>6, <2>7, <1>q
<1>3. CASE Answer(r)
  <2>1. /\ future' = [future EXCEPT ![r] = IF job[r] = "raised" THEN "error" ELSE "ok"]
        /\ tasks' = [tasks EXCEPT ![r] = IF job[r] # "raised" /\ Place(r) = "loop" /\ handler[r].tasks
                                     THEN "asked" ELSE tasks[r]]
        /\ UNCHANGED <<step, job, calls, added, due, pending, ran, pull, made, sent, arrived>>
        /\ future[r] = "awaits" /\ r \in arrived
        /\ job[r] = "raised" \/ (job[r] = "returned" /\ step[r] = Len(Plan(r)))
        BY <1>3, <1>o DEF Answer, Answered, Spawned, Finish, streamVars, InHandler
  <2>2. StepType' /\ OpenType'
        BY <1>3, <2>1, <1>p DEF Answer, Answered, Spawned, Finish, streamVars, InHandler
  <2>3. TypeOK'
        BY <2>1, <2>2 DEF LifecycleInv
  <2>4. Others
        BY <2>1 DEF Untouched
  <2>5. Steps(r)'
        BY <2>1, <1>r, <1>i, <1>p DEF Steps, InHandler
  <2>6. Tasks(r)'
        BY <2>1, <1>r, <1>i, <1>p DEF Tasks, Steps, InHandler, Place
  <2>7. Chunks(r)'
        BY <2>1, <1>r DEF Chunks, Steps
  <2> QED BY <2>3, <2>4, <2>5, <2>6, <2>7, <1>q
<1>4. CASE Drop(r)
  <2>1. /\ future' = [future EXCEPT ![r] = "dropped"]
        /\ UNCHANGED <<step, job, calls, added, due, tasks, pending, ran, pull, made, sent, arrived>>
        /\ future[r] = "awaits" /\ r \in arrived
        BY <1>4, <1>o DEF Drop, Finish, taskVars, streamVars
  <2>2. StepType' /\ OpenType'
        BY <1>4, <2>1, <1>p DEF Drop, Finish, taskVars, streamVars
  <2>3. TypeOK'
        BY <2>1, <2>2 DEF LifecycleInv
  <2>4. Others
        BY <2>1 DEF Untouched
  <2>5. Steps(r)'
        BY <2>1, <1>r, <1>i, <1>p DEF Steps, InHandler
  <2>6. Tasks(r)'
        BY <2>1, <1>r, <1>i, <1>p DEF Tasks, Steps, InHandler, Place
  <2>7. Chunks(r)'
        BY <2>1, <1>r DEF Chunks, Steps
  <2> QED BY <2>3, <2>4, <2>5, <2>6, <2>7, <1>q
<1>5. CASE Return(r)
  <2>1. /\ job' = [job EXCEPT ![r] = "returned"]
        /\ due' = [due EXCEPT ![r] = added[r]]
        /\ tasks' = [tasks EXCEPT ![r] = IF InHandler(r) /\ Place(r) # "loop" /\ handler[r].tasks
                                     THEN "asked" ELSE tasks[r]]
        /\ UNCHANGED <<future, step, calls, added, pending, ran, pull, made, sent, arrived>>
        /\ job[r] = "submitted"
        BY <1>5 DEF Return, Runs, streamVars, lifecycleVars, httpVars
  <2>2. StepType' /\ OpenType'
        BY <1>5, <2>1, <1>p DEF Return, Runs, streamVars, lifecycleVars, httpVars
  <2>3. TypeOK'
        BY <2>1, <2>2 DEF LifecycleInv
  <2>4. Others
        BY <2>1 DEF Untouched
  <2>5. Steps(r)'
        BY <2>1, <1>r, <1>i, <1>p DEF Steps, InHandler
  <2>6. Tasks(r)'
        BY <2>1, <1>r, <1>i, <1>p DEF Tasks, Steps, InHandler, Place
  <2>7. Chunks(r)'
        BY <2>1, <1>r DEF Chunks, Steps
  <2> QED BY <2>3, <2>4, <2>5, <2>6, <2>7, <1>q
<1>6. CASE Raise(r)
  <2>1. /\ job' = [job EXCEPT ![r] = "raised"]
        /\ UNCHANGED <<future, step, calls, added, due, tasks, pending, ran, pull, made, sent, arrived>>
        /\ job[r] = "submitted"
        BY <1>6 DEF Raise, Runs, taskVars, streamVars, lifecycleVars, httpVars
  <2>2. StepType' /\ OpenType'
        BY <1>6, <2>1, <1>p DEF Raise, Runs, taskVars, streamVars, lifecycleVars, httpVars
  <2>3. TypeOK'
        BY <2>1, <2>2 DEF LifecycleInv
  <2>4. Others
        BY <2>1 DEF Untouched
  <2>5. Steps(r)'
        BY <2>1, <1>r, <1>i, <1>p DEF Steps, InHandler
  <2>6. Tasks(r)'
        BY <2>1, <1>r, <1>i, <1>p DEF Tasks, Steps, InHandler, Place
  <2>7. Chunks(r)'
        BY <2>1, <1>r DEF Chunks, Steps
  <2> QED BY <2>3, <2>4, <2>5, <2>6, <2>7, <1>q
<1>7. CASE AddLate(r)
  <2>1. /\ calls' = [calls EXCEPT ![r] = calls[r] + 1]
        /\ added' = [added EXCEPT ![r] = added[r] + 1]
        /\ UNCHANGED <<future, step, job, due, tasks, pending, ran, pull, made, sent, arrived>>
        /\ calls[r] < MaxTasks
        BY <1>7 DEF AddLate, workVars, streamVars, lifecycleVars, httpVars
  <2>2. StepType' /\ OpenType'
        BY <1>7, <2>1, <1>p DEF AddLate, workVars, streamVars, lifecycleVars, httpVars
  <2>3. TypeOK'
    <3>1. calls' \in [Requests -> 0 .. MaxTasks]
          BY <2>1
    <3>2. added' \in [Requests -> 0 .. MaxTasks]
      <4>1. added[r] <= calls[r] /\ added[r] + 1 \in 0 .. MaxTasks
            BY <1>r, <2>1 DEF Steps
      <4> QED BY <2>1, <4>1
    <3> QED BY <2>1, <2>2, <3>1, <3>2 DEF LifecycleInv
  <2>4. Others
        BY <2>1 DEF Untouched
  <2>5. Steps(r)'
        BY <2>1, <1>r, <1>i, <1>p DEF Steps, InHandler
  <2>6. Tasks(r)'
        BY <2>1, <1>r, <1>i, <1>p DEF Tasks, Steps, InHandler, Place
  <2>7. Chunks(r)'
        BY <2>1, <1>r DEF Chunks, Steps
  <2> QED BY <2>3, <2>4, <2>5, <2>6, <2>7, <1>q
<1>8. CASE \E args \in {"absent", "list"} : AddTask(r, args)
  <2>0. PICK args \in {"absent", "list"} : AddTask(r, args)
        BY <1>8
  <2>1. /\ calls' = [calls EXCEPT ![r] = calls[r] + 1]
        /\ \/ job' = [job EXCEPT ![r] = "raised"] /\ added' = added
           \/ added' = [added EXCEPT ![r] = added[r] + 1] /\ job' = job
        /\ UNCHANGED <<future, step, due, tasks, pending, ran, pull, made, sent, arrived>>
        /\ calls[r] < MaxTasks /\ job[r] = "submitted"
        BY <2>0 DEF AddTask, Runs, streamVars, lifecycleVars, httpVars
  <2>2. StepType' /\ OpenType'
        BY <2>0, <2>1, <1>p DEF AddTask, lifecycleVars, httpVars
  <2>3. /\ calls' \in [Requests -> 0 .. MaxTasks]
        /\ added' \in [Requests -> 0 .. MaxTasks]
        /\ job' \in [Requests -> {"none", "submitted", "returned", "raised"}]
    <3>1. calls' \in [Requests -> 0 .. MaxTasks]
          BY <2>1
    <3>2. added' \in [Requests -> 0 .. MaxTasks]
      <4>1. added[r] <= calls[r] /\ added[r] + 1 \in 0 .. MaxTasks
            BY <1>r, <2>1 DEF Steps
      <4> QED BY <2>1, <4>1
    <3>3. job' \in [Requests -> {"none", "submitted", "returned", "raised"}]
          BY <2>1, ZenonT(60)
    <3> QED BY <3>1, <3>2, <3>3
  <2>4. TypeOK'
        BY <2>1, <2>2, <2>3 DEF LifecycleInv
  <2>5. Others
        BY <2>1 DEF Untouched
  <2>6. Steps(r)'
        BY <2>1, <1>r, <1>i, <1>p DEF Steps, InHandler
  <2>7. Tasks(r)'
        BY <2>1, <1>r, <1>i, <1>p DEF Tasks, Steps, InHandler, Place
  <2>8. Chunks(r)'
        BY <2>1, <1>r DEF Chunks, Steps
  <2> QED BY <2>4, <2>5, <2>6, <2>7, <2>8, <1>q
<1>9. CASE ExecuteAll(r)
  <2>1. /\ tasks' = [tasks EXCEPT ![r] = "spawned"]
        /\ pending' = [pending EXCEPT ![r] = 1 .. added[r]]
        /\ UNCHANGED <<future, step, job, calls, added, due, ran, pull, made, sent, arrived>>
        /\ tasks[r] = "asked"
        BY <1>9 DEF ExecuteAll, workVars, streamVars, lifecycleVars, httpVars
  <2>2. StepType' /\ OpenType'
        BY <1>9, <2>1, <1>p DEF ExecuteAll, workVars, streamVars, lifecycleVars, httpVars
  <2>3. TypeOK'
        BY <2>1, <2>2 DEF LifecycleInv
  <2>4. Others
        BY <2>1 DEF Untouched
  <2>5. Steps(r)'
        BY <2>1, <1>r, <1>i, <1>p DEF Steps, InHandler
  <2>6. Tasks(r)'
        BY <2>1, <1>r, <1>i, <1>p DEF Tasks, Steps, InHandler, Place
  <2>7. Chunks(r)'
        BY <2>1, <1>r DEF Chunks, Steps
  <2> QED BY <2>3, <2>4, <2>5, <2>6, <2>7, <1>q
<1>10. CASE \E n \in 1 .. MaxTasks : RunTask(r, n)
  <2>0. PICK n \in 1 .. MaxTasks : RunTask(r, n)
        BY <1>10
  <2>1. /\ pending' = [pending EXCEPT ![r] = pending[r] \ {n}]
        /\ ran' = [ran EXCEPT ![r] = ran[r] \union {n}]
        /\ UNCHANGED <<future, step, job, calls, added, due, tasks, pull, made, sent, arrived>>
        /\ n \in 1 .. MaxTasks
        BY <2>0 DEF RunTask, workVars, streamVars, lifecycleVars, httpVars
  <2>2. StepType' /\ OpenType'
        BY <2>0, <2>1, <1>p DEF RunTask, workVars, streamVars, lifecycleVars, httpVars
  <2>3. TypeOK'
        BY <2>1, <2>2 DEF LifecycleInv
  <2>4. Others
        BY <2>1 DEF Untouched
  <2>5. Steps(r)'
        BY <2>1, <1>r, <1>i, <1>p DEF Steps, InHandler
  <2>6. Tasks(r)'
        BY <2>1, <1>r, <1>i, <1>p DEF Tasks, Steps, InHandler, Place
  <2>7. Chunks(r)'
        BY <2>1, <1>r DEF Chunks, Steps
  <2> QED BY <2>3, <2>4, <2>5, <2>6, <2>7, <1>q
<1>11. CASE StartStream(r)
  <2>1. /\ future' = [future EXCEPT ![r] = "streams"]
        /\ tasks' = [tasks EXCEPT ![r] = IF Place(r) = "loop" /\ handler[r].tasks THEN "asked" ELSE tasks[r]]
        /\ UNCHANGED <<step, job, calls, added, due, pending, ran, pull, made, sent, arrived>>
        /\ future[r] = "awaits" /\ job[r] = "returned" /\ InHandler(r)
        BY <1>11 DEF StartStream, Answered, Spawned, streamVars, lifecycleVars, httpVars
  <2>2. StepType' /\ OpenType'
        BY <1>11, <2>1, <1>p DEF StartStream, Answered, Spawned, streamVars, lifecycleVars, httpVars
  <2>3. TypeOK'
        BY <2>1, <2>2 DEF LifecycleInv
  <2>4. Others
        BY <2>1 DEF Untouched
  <2>5. Steps(r)'
        BY <2>1, <1>r, <1>i, <1>p DEF Steps, InHandler
  <2>6. Tasks(r)'
        BY <2>1, <1>r, <1>i, <1>p DEF Tasks, Steps, InHandler, Place
  <2>7. Chunks(r)'
        BY <2>1, <1>r DEF Chunks, Steps
  <2> QED BY <2>3, <2>4, <2>5, <2>6, <2>7, <1>q
<1>12. CASE ConversionPanics(r)
  <2>1. /\ future' = [future EXCEPT ![r] = "error"]
        /\ UNCHANGED <<step, job, calls, added, due, tasks, pending, ran, pull, made, sent, arrived>>
        /\ future[r] = "awaits" /\ job[r] = "returned" /\ r \in arrived /\ Place(r) = "loop"
        BY <1>12, <1>o DEF ConversionPanics, Finish, taskVars, streamVars
  <2>2. StepType' /\ OpenType'
        BY <1>12, <2>1, <1>p DEF ConversionPanics, Finish, taskVars, streamVars
  <2>3. TypeOK'
        BY <2>1, <2>2 DEF LifecycleInv
  <2>4. Others
        BY <2>1 DEF Untouched
  <2>5. Steps(r)'
        BY <2>1, <1>r, <1>i, <1>p DEF Steps, InHandler
  <2>6. Tasks(r)'
        BY <2>1, <1>r, <1>i, <1>p DEF Tasks, Steps, InHandler, Place
  <2>7. Chunks(r)'
        BY <2>1, <1>r DEF Chunks, Steps
  <2> QED BY <2>3, <2>4, <2>5, <2>6, <2>7, <1>q
<1>13. CASE Ask(r)
  <2>1. /\ pull' = [pull EXCEPT ![r] = "asked"]
        /\ UNCHANGED <<future, step, job, calls, added, due, tasks, pending, ran, made, sent, arrived>>
        /\ future[r] = "streams" /\ pull[r] = "idle" /\ handler[r].stream = "async"
        BY <1>13 DEF Ask, workVars, taskVars, lifecycleVars, httpVars
  <2>2. StepType' /\ OpenType'
        BY <1>13, <2>1, <1>p DEF Ask, workVars, taskVars, lifecycleVars, httpVars
  <2>3. TypeOK'
        BY <2>1, <2>2 DEF LifecycleInv
  <2>4. Others
        BY <2>1 DEF Untouched
  <2>5. Steps(r)'
        BY <2>1, <1>r, <1>i, <1>p DEF Steps, InHandler
  <2>6. Tasks(r)'
        BY <2>1, <1>r, <1>i, <1>p DEF Tasks, Steps, InHandler, Place
  <2>7. Chunks(r)'
        BY <2>1, <1>r DEF Chunks, Steps
  <2> QED BY <2>3, <2>4, <2>5, <2>6, <2>7, <1>q
<1>14. CASE Deliver(r)
  <2>1. /\ UNCHANGED <<step, job, calls, added, due, tasks, pending, ran, made, arrived>>
        /\ future[r] = "streams" /\ handler[r].stream = "async" /\ r \in arrived
        /\ \/ /\ pull[r] = "chunk" /\ sent' = [sent EXCEPT ![r] = sent[r] + 1]
              /\ pull' = [pull EXCEPT ![r] = "idle"] /\ future' = future
           \/ /\ pull[r] = "other" /\ sent' = sent
              /\ pull' = [pull EXCEPT ![r] = "idle"] /\ future' = future
           \/ /\ pull[r] = "end" /\ sent' = sent
              /\ pull' = pull /\ future' = [future EXCEPT ![r] = "ok"]
        BY <1>14, <1>o DEF Deliver, Finish, taskVars, lifecycleVars, httpVars
  <2>2. StepType' /\ OpenType'
        BY <1>14, <2>1, <1>p DEF Deliver, Finish, lifecycleVars, httpVars
  <2>3. TypeOK'
    <3>1. /\ pull' \in [Requests -> {"idle", "asked", "chunk", "other", "end"}]
          /\ future' \in [Requests -> {"none", "awaits", "streams", "dropped"} \union Answers]
          BY <2>1
    <3>2. sent' \in [Requests -> 0 .. MaxChunks]
      <4>1. pull[r] = "chunk" => sent[r] + 1 \in 0 .. MaxChunks
            BY <1>r DEF Chunks
      <4> QED BY <2>1, <4>1, ZenonT(60)
    <3> QED BY <2>1, <2>2, <3>1, <3>2 DEF LifecycleInv
  <2>4. Others
        BY <2>1 DEF Untouched
  <2>5. Steps(r)'
        BY <2>1, <1>r, <1>i, <1>p DEF Steps, InHandler
  <2>6. Tasks(r)'
        BY <2>1, <1>r, <1>i, <1>p DEF Tasks, Steps, InHandler, Place
  <2>7. Chunks(r)'
        BY <2>1, <1>r DEF Chunks, Steps
  <2> QED BY <2>3, <2>4, <2>5, <2>6, <2>7, <1>q
<1>15. CASE Leave(r)
  <2>1. /\ future' = [future EXCEPT ![r] = "dropped"]
        /\ UNCHANGED <<step, job, calls, added, due, tasks, pending, ran, pull, made, sent, arrived>>
        /\ future[r] = "streams" /\ r \in arrived
        BY <1>15, <1>o DEF Leave, Finish, taskVars, streamVars
  <2>2. StepType' /\ OpenType'
        BY <1>15, <2>1, <1>p DEF Leave, Finish, taskVars, streamVars
  <2>3. TypeOK'
        BY <2>1, <2>2 DEF LifecycleInv
  <2>4. Others
        BY <2>1 DEF Untouched
  <2>5. Steps(r)'
        BY <2>1, <1>r, <1>i, <1>p DEF Steps, InHandler
  <2>6. Tasks(r)'
        BY <2>1, <1>r, <1>i, <1>p DEF Tasks, Steps, InHandler, Place
  <2>7. Chunks(r)'
        BY <2>1, <1>r DEF Chunks, Steps
  <2> QED BY <2>3, <2>4, <2>5, <2>6, <2>7, <1>q
<1>16. CASE \E gives \in {"chunk", "other", "end"} : PullSync(r, gives)
  <2>0. PICK gives \in {"chunk", "other", "end"} : PullSync(r, gives)
        BY <1>16
  <2>1. /\ UNCHANGED <<step, job, calls, added, due, tasks, pending, ran, arrived>>
        /\ future[r] = "streams" /\ handler[r].stream = "sync" /\ r \in arrived
        /\ \/ /\ made' = [made EXCEPT ![r] = made[r] + 1]
              /\ sent' = [sent EXCEPT ![r] = sent[r] + 1]
              /\ pull' = [pull EXCEPT ![r] = "idle"]
              /\ future' = future /\ made[r] < MaxChunks
           \/ /\ pull' = [pull EXCEPT ![r] = "other"]
              /\ future' = future /\ made' = made /\ sent' = sent
           \/ /\ pull' = [pull EXCEPT ![r] = "end"] /\ made' = made /\ sent' = sent
              /\ future' = [future EXCEPT ![r] = "ok"]
        BY <2>0, <1>o DEF PullSync, Finish, taskVars, lifecycleVars, httpVars
  <2>2. StepType' /\ OpenType'
        BY <2>0, <2>1, <1>p DEF PullSync, Finish, lifecycleVars, httpVars
  <2>3. TypeOK'
    <3>1. /\ pull' \in [Requests -> {"idle", "asked", "chunk", "other", "end"}]
          /\ future' \in [Requests -> {"none", "awaits", "streams", "dropped"} \union Answers]
          BY <2>1
    <3>3. made' \in [Requests -> 0 .. MaxChunks]
      <4>1. made[r] < MaxChunks => made[r] + 1 \in 0 .. MaxChunks
            OBVIOUS
      <4> QED BY <2>1, <4>1, SMTT(30)
    <3>2. sent' \in [Requests -> 0 .. MaxChunks]
      <4>1. sent[r] = made[r]
            BY <2>1, <1>r DEF Chunks, Steps
      <4>2. made[r] < MaxChunks => sent[r] + 1 \in 0 .. MaxChunks
            BY <4>1
      <4> QED BY <2>1, <4>2, ZenonT(60)
    <3> QED BY <2>1, <2>2, <3>1, <3>2, <3>3 DEF LifecycleInv
  <2>4. Others
        BY <2>1 DEF Untouched
  <2>5. Steps(r)'
        BY <2>1, <1>r, <1>i, <1>p DEF Steps, InHandler
  <2>6. Tasks(r)'
        BY <2>1, <1>r, <1>i, <1>p DEF Tasks, Steps, InHandler, Place
  <2>7. Chunks(r)'
    <3>1. sent[r] = made[r] /\ made[r] \in 0 .. MaxChunks
          BY <2>1, <1>r DEF Chunks, Steps
    <3>2. sent'[r] = made'[r] /\ pull'[r] # "chunk"
          BY <2>1, <3>1
    <3> QED BY <3>2 DEF Chunks
  <2> QED BY <2>3, <2>4, <2>5, <2>6, <2>7, <1>q
<1>17. CASE \E gives \in {"chunk", "other", "end"} : Produce(r, gives)
  <2>0. PICK gives \in {"chunk", "other", "end"} : Produce(r, gives)
        BY <1>17
  <2>1. /\ pull' = [pull EXCEPT ![r] = gives]
        /\ made' = [made EXCEPT ![r] = IF gives = "chunk" THEN made[r] + 1 ELSE made[r]]
        /\ UNCHANGED <<future, step, job, calls, added, due, tasks, pending, ran, sent, arrived>>
        /\ pull[r] = "asked" /\ (gives = "chunk" => made[r] < MaxChunks)
        /\ gives \in {"chunk", "other", "end"}
        BY <2>0 DEF Produce, workVars, taskVars, lifecycleVars, httpVars
  <2>2. StepType' /\ OpenType'
        BY <2>0, <2>1, <1>p DEF Produce, workVars, taskVars, lifecycleVars, httpVars
  <2>3. TypeOK'
        BY <2>1, <2>2, SMTT(30) DEF LifecycleInv
  <2>4. Others
        BY <2>1 DEF Untouched
  <2>5. Steps(r)'
        BY <2>1, <1>r, <1>i, <1>p DEF Steps, InHandler
  <2>6. Tasks(r)'
        BY <2>1, <1>r, <1>i, <1>p DEF Tasks, Steps, InHandler, Place
  <2>7. Chunks(r)'
    <3>1. sent[r] = made[r] /\ made[r] \in 0 .. MaxChunks /\ future[r] # "ok"
          BY <2>1, <1>r DEF Chunks, Steps
    <3>2. pull'[r] = gives /\ sent'[r] = sent[r] /\ future'[r] = future[r]
          BY <2>1
    <3>3. made'[r] = IF gives = "chunk" THEN made[r] + 1 ELSE made[r]
          BY <2>1
    <3> QED BY <3>1, <3>2, <3>3 DEF Chunks
  <2> QED BY <2>3, <2>4, <2>5, <2>6, <2>7, <1>q
<1> QED BY <1>1, <1>2, <1>3, <1>4, <1>5, <1>6, <1>7, <1>8, <1>9, <1>10, <1>11, <1>12,
           <1>13, <1>14, <1>15, <1>16, <1>17 DEF Stream
LEMMA ExecutionInvIsInductive ==
    ASSUME ExecutionInv, [Next]_vars
    PROVE  ExecutionInv'
<1>1. LifecycleInv'
      BY StepIsLifecycleStep, LifecycleInvIsInductive DEF ExecutionInv
<1>2. CASE UNCHANGED vars
      BY <1>1, <1>2, ServerStepKeeps DEF vars, lifecycleVars
<1>3. CASE \/ Server(Startup) \/ Server(Bind) \/ Server(Interrupt) \/ Server(Shutdown)
           \/ Server(Loop) \/ Server(ProcessExits)
  <2>1. UNCHANGED <<workVars, taskVars, streamVars, appVars>>
        BY <1>3 DEF Server
  <2>2. Startup \/ Bind \/ Interrupt \/ Shutdown \/ Loop \/ ProcessExits
        BY <1>3 DEF Server
  <2>3. UNCHANGED httpVars
        BY <2>2 DEF Startup, StartupFails, StartupHandler, EnterLifespan, StartupDone, Bind,
              Interrupt, Shutdown, Drained, AskStop, ExitLifespan, ShutdownDone,
              ShutdownHandler, Loop, LoopRuns, LoopCloses, ProcessExits
  <2> QED BY <1>1, <2>1, <2>3, ServerStepKeeps
<1>4. CASE \E r \in Requests :
             \/ Arrive(r) \/ Continue(r) \/ Answer(r) \/ Drop(r) \/ Stream(r)
             \/ Return(r) \/ Raise(r) \/ AddLate(r) \/ ExecuteAll(r)
             \/ \E args \in {"absent", "list"} : AddTask(r, args)
             \/ \E n \in 1 .. MaxTasks : RunTask(r, n)
      BY <1>1, <1>4, RequestStepKeeps
<1> QED BY <1>2, <1>3, <1>4 DEF Next

\* The inductive invariant of the theorems about requests.
THEOREM ExecutionInvariance == Spec => []ExecutionInv
<1>1. Init => ExecutionInv
      BY ExecutionInvHoldsInitially
<1>2. ExecutionInv /\ [Next]_vars => ExecutionInv'
      BY ExecutionInvIsInductive
<1> QED BY <1>1, <1>2, PTL DEF Spec

\* Every request, job and list of tasks has its type in every state.
THEOREM ExecutionTypeOK == Spec => []TypeOK
<1>1. ExecutionInv => TypeOK
      BY DEF ExecutionInv
<1> QED BY <1>1, ExecutionInvariance, PTL

\* Background tasks are spawned only for handlers that returned, and those of an
\* async handler only with its response (core_* of py_handlers.rs).
THEOREM TasksFollowTheirHandler == Spec => []TasksFollowHandler
<1>1. ExecutionInv => TasksFollowHandler
      BY RequestInvImplies DEF ExecutionInv
<1> QED BY <1>1, ExecutionInvariance, PTL

\* Only a request that streams pulls its iterator, and no step but the end of a
\* pull makes a chunk.
LEMMA EndedIsNotPulled ==
    ASSUME TypeOK, [Next]_vars, NEW r \in Requests, future[r] \in Answers \union {"dropped"}
    PROVE  NotPulled(r)
<1>1. /\ pull \in [Requests -> {"idle", "asked", "chunk", "other", "end"}]
      /\ made \in [Requests -> 0 .. MaxChunks]
      /\ future[r] # "streams"
  BY DEF TypeOK, Answers
<1>2. ASSUME NEW q \in Requests, q # r PROVE \A v : [pull EXCEPT ![q] = v][r] = pull[r]
                                               /\ [made EXCEPT ![q] = v][r] = made[r]
  BY <1>1, <1>2
<1>3. CASE UNCHANGED streamVars
  BY <1>3 DEF streamVars, NotPulled
<1>4. ASSUME NEW q \in Requests, Ask(q) \/ Deliver(q)
      PROVE  NotPulled(r)
  <2>1. q # r /\ made' = made
    BY <1>1, <1>4 DEF Ask, Deliver
  <2>2. pull' = pull \/ \E v : pull' = [pull EXCEPT ![q] = v]
    <3>1. CASE Ask(q)
      BY <3>1 DEF Ask
    <3>2. CASE Deliver(q)
      BY <3>2 DEF Deliver
    <3> QED BY <1>4, <3>1, <3>2
  <2>3. pull'[r] = pull[r]
    BY <1>2, <2>1, <2>2
  <2> QED BY <2>1, <2>3 DEF NotPulled
<1>5. ASSUME NEW q \in Requests, NEW gives \in {"chunk", "other", "end"}, PullSync(q, gives)
      PROVE  NotPulled(r)
  <2>1. q # r
    BY <1>1, <1>5 DEF PullSync
  <2>2. \E v : pull' = [pull EXCEPT ![q] = v]
    BY <1>5 DEF PullSync
  <2>3. made' = made \/ \E v : made' = [made EXCEPT ![q] = v]
    BY <1>5 DEF PullSync
  <2>4. pull'[r] = pull[r]
    BY <1>2, <2>1, <2>2
  <2>5. made'[r] = made[r]
    BY <1>2, <2>1, <2>3
  <2> QED BY <2>4, <2>5 DEF NotPulled
<1>6. ASSUME NEW q \in Requests, NEW gives \in {"chunk", "other", "end"}, Produce(q, gives)
      PROVE  NotPulled(r)
  <2>1. CASE q = r
    BY <1>1, <1>6, <2>1 DEF Produce, NotPulled
  <2>2. CASE q # r
    <3>1. pull'[r] = pull[r]
      BY <1>2, <1>6, <2>2 DEF Produce
    <3>2. made'[r] = made[r]
      BY <1>1, <1>6, <2>2 DEF Produce
    <3> QED BY <3>1, <3>2 DEF NotPulled
  <2> QED BY <2>1, <2>2
<1>7. CASE \/ Server(Startup) \/ Server(Bind) \/ Server(Interrupt) \/ Server(Shutdown)
           \/ Server(Loop) \/ Server(ProcessExits) \/ UNCHANGED vars
  BY <1>3, <1>7 DEF Server, vars
<1>8. ASSUME NEW q \in Requests,
             \/ Arrive(q) \/ Continue(q) \/ Answer(q) \/ Drop(q)
             \/ Return(q) \/ Raise(q) \/ AddLate(q) \/ ExecuteAll(q)
             \/ \E args \in {"absent", "list"} : AddTask(q, args)
             \/ \E n \in 1 .. MaxTasks : RunTask(q, n)
      PROVE  NotPulled(r)
  BY <1>3, <1>8 DEF Arrive, Continue, Answer, Drop, Return, Raise, AddLate, ExecuteAll,
                    AddTask, RunTask
<1>9. ASSUME NEW q \in Requests, StartStream(q) \/ ConversionPanics(q) \/ Leave(q)
      PROVE  NotPulled(r)
  BY <1>3, <1>9 DEF StartStream, ConversionPanics, Leave, streamVars
<1> QED BY <1>4, <1>5, <1>6, <1>7, <1>8, <1>9 DEF Next, Stream

\* A streamed body that ends is complete, a client that leaves misses at most one
\* chunk, and an iterator is left alone once its body has ended or its client has
\* left, whatever iterators do (convert_streaming_response of responses.rs).
THEOREM ChunksReachTheirClient == Spec => ChunksReachClient
<1>1. ExecutionInv => \A r \in Requests : Complete(r)
      BY RequestInvImplies DEF ExecutionInv
<1>2. ExecutionInv /\ [Next]_vars =>
         [\A r \in Requests : future[r] \in Answers \union {"dropped"} => NotPulled(r)]_vars
      BY EndedIsNotPulled DEF ExecutionInv
<1> QED BY <1>1, <1>2, ExecutionInvariance, PTL DEF Spec, ChunksReachClient

\* The server with its requests behaves as Lifecycle says a server does: what is
\* proved of Lifecycle holds of it.
THEOREM ImplementsLifecycle == Spec => LifecycleSpec
<1>1. Init => LifecycleInit
      BY DEF Init
<1>2. [Next]_vars => [LifecycleNext]_lifecycleVars
      BY StepIsLifecycleStep
<1> QED BY <1>1, <1>2, PTL DEF Spec, LifecycleSpec

\* A request, whatever its jobs do, runs only within the lifespan of the server.
THEOREM ExecutionWithinLifespan == Spec => []RequestsWithinLifespan
BY ImplementsLifecycle, RequestsStayWithinLifespan, PTL
=============================================================================
