------------------------------ MODULE Execution ------------------------------
(***************************************************************************)
(* The execution of HTTP requests (ffi/py_handlers.rs), composed with the  *)
(* server that accepts them (Lifecycle).  The future of a request submits  *)
(* jobs one after another and awaits each: "inline" on the runtime thread, *)
(* "pool" through spawn_blocking, "loop" as a coroutine on the asyncio     *)
(* loop.  Dropping the future, on a timeout or when the client leaves,     *)
(* does not take back a job.  BackgroundTasks (engine/background.rs) are   *)
(* collected by the handler and run on the blocking pool.  The body of a   *)
(* StreamingResponse (http/responses.rs) is pulled from an iterator of the *)
(* application while the server writes it.                                 *)
(***************************************************************************)
EXTENDS Lifecycle, Sequences

CONSTANTS
    Apps,        \* the applications: their lifespan, sync_to_threadpool, and the
                 \* handler that each request is dispatched to
    MaxTasks,    \* bound: tasks added in one request
    MaxChunks    \* bound: chunks of one streamed body

\* What assign_execution_mode looks at, whether the handler has a
\* BackgroundTasks parameter, its dependencies in the order of their plan, and
\* the iterator of the StreamingResponse it returns.
Handler == [kwargs : BOOLEAN, async : BOOLEAN, tasks : BOOLEAN,
            deps : Seq({"sync", "async"}), stream : {"no", "sync", "async"}]

ASSUME ExecutionAssumption ==
    /\ \A app \in Apps :
          /\ app \in [lifespan : {"absent", "none"}, threadPool : BOOLEAN,
                     handler : [Requests -> Handler]]
          /\ \A r \in Requests :
                app.handler[r].tasks \/ app.handler[r].deps # <<>> => app.handler[r].kwargs
    /\ MaxTasks \in Nat
    /\ MaxChunks \in Nat

VARIABLES
    threadPool, \* the application was given sync_to_threadpool=True
    handler,   \* the handler of r
    future,    \* the future of r: "none", "awaits", "streams", "dropped", or its answer
    step,      \* the index in Plan(r) of the last job submitted
    job,       \* that job: "none", "submitted", "returned" or "raised"
    calls,     \* history: calls of add_task for r
    added,     \* tasks in the list of r
    due,       \* history: the tasks in the list when the handler returned
    tasks,     \* spawn_background_tasks for r: "none", "asked" or "spawned"
    pending,   \* tasks of r given to the blocking pool and not run
    ran,       \* tasks of r that have run
    pull,      \* the iterator of r: "idle", "asked", or what it gave and no one has
               \* looked at: a "chunk", an "other" value or its "end"
    made,      \* chunks of text or bytes the iterator has given
    sent       \* chunks of the body

appVars == <<threadPool, handler>>
workVars == <<future, step, job>>
taskVars == <<calls, added, due, tasks, pending, ran>>
streamVars == <<pull, made, sent>>
vars == <<lifecycleVars, appVars, workVars, taskVars, streamVars>>

Answers == {"ok", "error"}

\* Where the jobs of a handler run, the handler itself the last.  The async
\* dependencies of a sync handler are called in its job and not awaited.
PlanOf(h) ==
    IF ~h.async THEN IF threadPool THEN <<"pool">> ELSE <<"inline">>
    ELSE IF ~h.kwargs THEN <<"loop">>
    ELSE IF \A i \in DOMAIN h.deps : h.deps[i] = "sync" THEN <<"pool", "loop">>
    ELSE <<"pool">>
         \o [i \in DOMAIN h.deps |-> IF h.deps[i] = "async" THEN "loop" ELSE "pool"]
         \o <<"pool", "loop">>

Plan(r) == PlanOf(handler[r])
Place(r) == Plan(r)[step[r]]
InHandler(r) == step[r] = Len(Plan(r))

TypeOK ==
    /\ LifecycleTypeOK
    /\ threadPool \in BOOLEAN
    /\ handler \in [Requests -> Handler]
    /\ future \in [Requests -> {"none", "awaits", "streams", "dropped"} \union Answers]
    /\ \A r \in Requests : step[r] \in 0 .. Len(Plan(r))
    /\ job \in [Requests -> {"none", "submitted", "returned", "raised"}]
    /\ calls \in [Requests -> 0 .. MaxTasks]
    /\ added \in [Requests -> 0 .. MaxTasks]
    /\ due \in [Requests -> 0 .. MaxTasks]
    /\ tasks \in [Requests -> {"none", "asked", "spawned"}]
    /\ pending \in [Requests -> SUBSET (1 .. MaxTasks)]
    /\ ran \in [Requests -> SUBSET (1 .. MaxTasks)]
    /\ pull \in [Requests -> {"idle", "asked", "chunk", "other", "end"}]
    /\ made \in [Requests -> 0 .. MaxChunks]
    /\ sent \in [Requests -> 0 .. MaxChunks]
    /\ open = {r \in Requests : future[r] \in {"awaits", "streams"}}

Init ==
    /\ LifecycleInit
    /\ \E app \in Apps :
          /\ lifespan = app.lifespan
          /\ threadPool = app.threadPool
          /\ handler = app.handler
    /\ future = [r \in Requests |-> "none"]
    /\ step = [r \in Requests |-> 0]
    /\ job = [r \in Requests |-> "none"]
    /\ calls = [r \in Requests |-> 0]
    /\ added = [r \in Requests |-> 0]
    /\ due = [r \in Requests |-> 0]
    /\ tasks = [r \in Requests |-> "none"]
    /\ pending = [r \in Requests |-> {}]
    /\ ran = [r \in Requests |-> {}]
    /\ pull = [r \in Requests |-> "idle"]
    /\ made = [r \in Requests |-> 0]
    /\ sent = [r \in Requests |-> 0]

-----------------------------------------------------------------------------
(* The jobs.                                                               *)

\* A job runs as long as the process does; a coroutine, as long as the loop.
Runs(r) ==
    /\ phase # "exited"
    /\ job[r] = "submitted"
    /\ Place(r) = "loop" => loop = "running"

\* background_tasks.add_task(work, args): args has no default, so a call without
\* it raises in the handler.
AddTask(r, args) ==
    /\ Runs(r)
    /\ InHandler(r)
    /\ handler[r].tasks
    /\ calls[r] < MaxTasks
    /\ calls' = [calls EXCEPT ![r] = @ + 1]
    /\ IF args = "absent"
       THEN job' = [job EXCEPT ![r] = "raised"] /\ UNCHANGED added
       ELSE added' = [added EXCEPT ![r] = @ + 1] /\ UNCHANGED job
    /\ UNCHANGED <<future, step, due, tasks, pending, ran, streamVars, appVars, lifecycleVars>>

\* The application kept the list and adds to it once the handler has returned.
AddLate(r) ==
    /\ phase # "exited"
    /\ job[r] = "returned"
    /\ InHandler(r)
    /\ handler[r].tasks
    /\ calls[r] < MaxTasks
    /\ calls' = [calls EXCEPT ![r] = @ + 1]
    /\ added' = [added EXCEPT ![r] = @ + 1]
    /\ UNCHANGED <<workVars, due, tasks, pending, ran, streamVars, appVars, lifecycleVars>>

\* A dependency or the handler returns.  A sync handler's job also spawns the
\* background tasks, whether or not the request still waits for it.
Return(r) ==
    /\ Runs(r)
    /\ job' = [job EXCEPT ![r] = "returned"]
    /\ due' = [due EXCEPT ![r] = added[r]]
    /\ tasks' = [tasks EXCEPT ![r] =
                   IF InHandler(r) /\ Place(r) # "loop" /\ handler[r].tasks THEN "asked" ELSE @]
    /\ UNCHANGED <<future, step, calls, added, pending, ran, streamVars, appVars, lifecycleVars>>

\* It raises, or the loop cancels a coroutine that no one awaits any more.
Raise(r) ==
    /\ Runs(r)
    /\ job' = [job EXCEPT ![r] = "raised"]
    /\ UNCHANGED <<future, step, taskVars, streamVars, appVars, lifecycleVars>>

-----------------------------------------------------------------------------
(* The future of a request.                                                *)

Arrive(r) ==
    /\ Accept(r)
    /\ future' = [future EXCEPT ![r] = "awaits"]
    /\ step' = [step EXCEPT ![r] = 1]
    /\ job' = [job EXCEPT ![r] = "submitted"]
    /\ UNCHANGED <<taskVars, streamVars, appVars>>

\* The next job: a dependency, the call that makes the coroutine, the coroutine.
Continue(r) ==
    /\ future[r] = "awaits"
    /\ job[r] = "returned"
    /\ ~InHandler(r)
    /\ step' = [step EXCEPT ![r] = @ + 1]
    /\ job' = [job EXCEPT ![r] = "submitted"]
    /\ UNCHANGED <<future, taskVars, streamVars, appVars, lifecycleVars>>

Answered(r) == job[r] = "raised" \/ (job[r] = "returned" /\ InHandler(r))

\* Mutant: the background tasks are spawned whatever the coroutine did.
AnswerSpawnsAlways(r) ==
    /\ future[r] = "awaits"
    /\ Answered(r)
    /\ job[r] = "raised" \/ handler[r].stream = "no"
    /\ Finish(r)
    /\ future' = [future EXCEPT ![r] = IF job[r] = "raised" THEN "error" ELSE "ok"]
    /\ tasks' = [tasks EXCEPT ![r] =
                   IF Place(r) = "loop" /\ handler[r].tasks THEN "asked" ELSE @]
    /\ UNCHANGED <<step, job, calls, added, due, pending, ran, streamVars, appVars>>

Spawned(r) == [tasks EXCEPT ![r] = IF Place(r) = "loop" /\ handler[r].tasks THEN "asked" ELSE @]

\* The error, or the response; the future of an async handler spawns the
\* background tasks.
Answer(r) ==
    /\ future[r] = "awaits"
    /\ Answered(r)
    /\ job[r] = "raised" \/ handler[r].stream = "no"
    /\ Finish(r)
    /\ future' = [future EXCEPT ![r] = IF job[r] = "raised" THEN "error" ELSE "ok"]
    /\ tasks' = IF job[r] = "raised" THEN tasks ELSE Spawned(r)
    /\ UNCHANGED <<step, job, calls, added, due, pending, ran, streamVars, appVars>>

\* TimeoutLayer, or the client disconnects: possible at an await only.
Drop(r) ==
    /\ future[r] = "awaits"
    /\ Place(r) # "inline"
    /\ Finish(r)
    /\ future' = [future EXCEPT ![r] = "dropped"]
    /\ UNCHANGED <<step, job, taskVars, streamVars, appVars>>

-----------------------------------------------------------------------------
(* A streamed body.                                                        *)

\* The head of a StreamingResponse; the body comes after the background tasks
\* of an async handler were spawned, and the timeout does not cover it.
StartStream(r) ==
    /\ future[r] = "awaits"
    /\ Answered(r)
    /\ job[r] = "returned"
    /\ handler[r].stream # "no"
    /\ future' = [future EXCEPT ![r] = "streams"]
    /\ tasks' = Spawned(r)
    /\ UNCHANGED <<step, job, calls, added, due, pending, ran, streamVars, appVars, lifecycleVars>>

\* get_current_locals (external) fails and is unwrapped: after the coroutine of an
\* async handler, before its background tasks are spawned.  In a sync handler
\* it is a Raise of the job.
ConversionPanics(r) ==
    /\ future[r] = "awaits"
    /\ Answered(r)
    /\ job[r] = "returned"
    /\ handler[r].stream # "no" /\ Place(r) = "loop"
    /\ Finish(r)
    /\ future' = [future EXCEPT ![r] = "error"]
    /\ UNCHANGED <<step, job, taskVars, streamVars, appVars>>

\* __next__ on the runtime thread.  A value that is not text or bytes is passed
\* over without a suspension; an error ends the body as StopIteration does.
PullSync(r, gives) ==
    /\ future[r] = "streams"
    /\ handler[r].stream = "sync"
    /\ \/ /\ gives = "chunk" /\ made[r] < MaxChunks
          /\ made' = [made EXCEPT ![r] = @ + 1]
          /\ sent' = [sent EXCEPT ![r] = @ + 1]
          /\ pull' = [pull EXCEPT ![r] = "idle"]
          /\ UNCHANGED <<future, lifecycleVars>>
       \/ /\ gives = "other"
          /\ pull' = [pull EXCEPT ![r] = "other"]
          /\ UNCHANGED <<future, made, sent, lifecycleVars>>
       \/ /\ gives = "end"
          /\ pull' = [pull EXCEPT ![r] = "end"]
          /\ future' = [future EXCEPT ![r] = "ok"]
          /\ Finish(r)
          /\ UNCHANGED <<made, sent>>
    /\ UNCHANGED <<step, job, taskVars, appVars>>

\* Mutant: the next chunk is asked for while the last one waits to be sent.
AskAhead(r) ==
    /\ future[r] = "streams"
    /\ handler[r].stream = "async"
    /\ pull[r] \in {"idle", "chunk"}
    /\ pull' = [pull EXCEPT ![r] = "asked"]
    /\ UNCHANGED <<made, sent, workVars, taskVars, appVars, lifecycleVars>>

\* __anext__ becomes a coroutine on the loop.
Ask(r) ==
    /\ future[r] = "streams"
    /\ handler[r].stream = "async"
    /\ pull[r] = "idle"
    /\ pull' = [pull EXCEPT ![r] = "asked"]
    /\ UNCHANGED <<made, sent, workVars, taskVars, appVars, lifecycleVars>>

\* That coroutine ends, whether or not the client is still there.
Produce(r, gives) ==
    /\ phase # "exited" /\ loop = "running"
    /\ pull[r] = "asked"
    /\ gives = "chunk" => made[r] < MaxChunks
    /\ pull' = [pull EXCEPT ![r] = gives]
    /\ made' = [made EXCEPT ![r] = IF gives = "chunk" THEN @ + 1 ELSE @]
    /\ UNCHANGED <<sent, workVars, taskVars, appVars, lifecycleVars>>

\* The stream is polled again: the chunk goes to the body, another value is
\* passed over, and the end of the iterator, or its error, ends the body.
Deliver(r) ==
    /\ future[r] = "streams"
    /\ handler[r].stream = "async"
    /\ \/ /\ pull[r] \in {"chunk", "other"}
          /\ sent' = [sent EXCEPT ![r] = IF pull[r] = "chunk" THEN @ + 1 ELSE @]
          /\ pull' = [pull EXCEPT ![r] = "idle"]
          /\ UNCHANGED <<future, lifecycleVars>>
       \/ /\ pull[r] = "end"
          /\ future' = [future EXCEPT ![r] = "ok"]
          /\ Finish(r)
          /\ UNCHANGED <<sent, pull>>
    /\ UNCHANGED <<made, step, job, taskVars, appVars>>

\* The client disconnects, which only a suspended stream can see: no one closes
\* the iterator.
Leave(r) ==
    /\ future[r] = "streams"
    /\ handler[r].stream = "sync" => pull[r] = "idle"
    /\ Finish(r)
    /\ future' = [future EXCEPT ![r] = "dropped"]
    /\ UNCHANGED <<step, job, taskVars, streamVars, appVars>>

-----------------------------------------------------------------------------
(* BackgroundTasks.                                                        *)

\* The task spawned on the runtime gives a copy of the list to the pool: what
\* is added later is never looked at.
ExecuteAll(r) ==
    /\ phase # "exited"
    /\ tasks[r] = "asked"
    /\ tasks' = [tasks EXCEPT ![r] = "spawned"]
    /\ pending' = [pending EXCEPT ![r] = 1 .. added[r]]
    /\ UNCHANGED <<workVars, calls, added, due, ran, streamVars, appVars, lifecycleVars>>

\* Mutant: the tasks run on the asyncio loop.
RunTaskOnLoop(r, n) ==
    /\ loop = "running"
    /\ n \in pending[r]
    /\ pending' = [pending EXCEPT ![r] = @ \ {n}]
    /\ ran' = [ran EXCEPT ![r] = @ \union {n}]
    /\ UNCHANGED <<workVars, calls, added, due, tasks, streamVars, appVars, lifecycleVars>>

\* In any order, and whether or not the others raise.
RunTask(r, n) ==
    /\ phase # "exited"
    /\ n \in pending[r]
    /\ pending' = [pending EXCEPT ![r] = @ \ {n}]
    /\ ran' = [ran EXCEPT ![r] = @ \union {n}]
    /\ UNCHANGED <<workVars, calls, added, due, tasks, streamVars, appVars, lifecycleVars>>

-----------------------------------------------------------------------------
Server(A) == A /\ UNCHANGED <<workVars, taskVars, streamVars, appVars>>

Stream(r) ==
    \/ StartStream(r) \/ ConversionPanics(r) \/ Ask(r) \/ Deliver(r) \/ Leave(r)
    \/ \E gives \in {"chunk", "other", "end"} : PullSync(r, gives) \/ Produce(r, gives)

Next ==
    \/ Server(Startup) \/ Server(Bind) \/ Server(Interrupt) \/ Server(Shutdown)
    \/ Server(Loop) \/ Server(ProcessExits)
    \/ \E r \in Requests :
         \/ Arrive(r) \/ Continue(r) \/ Answer(r) \/ Drop(r) \/ Stream(r)
         \/ Return(r) \/ Raise(r) \/ AddLate(r) \/ ExecuteAll(r)
         \/ \E args \in {"absent", "list"} : AddTask(r, args)
         \/ \E n \in 1 .. MaxTasks : RunTask(r, n)

Spec == Init /\ [][Next]_vars

\* The threads run, and the code of the application returns: a job, and an iterator
\* that is asked again and again ends.  The blocking pool is first in first out, so
\* no job that was submitted waits for ever.
Fairness ==
    /\ WF_vars(Server(Startup)) /\ WF_vars(Server(Bind))
    /\ WF_vars(Server(Shutdown)) /\ WF_vars(Server(Loop))
    /\ \A r \in Requests :
         /\ WF_vars(Return(r) \/ Raise(r))
         /\ WF_vars(Continue(r) \/ Answer(r) \/ StartStream(r) \/ ConversionPanics(r))
         /\ WF_vars(Ask(r) \/ Deliver(r))
         /\ WF_vars(PullSync(r, "end")) /\ SF_vars(Produce(r, "end"))
         /\ WF_vars(ExecuteAll(r))
         /\ \A n \in 1 .. MaxTasks : WF_vars(RunTask(r, n))

FairSpec == Spec /\ Fairness

-----------------------------------------------------------------------------
(* Properties.                                                             *)

\* Background tasks are spawned only for a handler that returned, after all of
\* its dependencies did; those of an async handler, only with its response, and
\* before the first chunk of a streamed one is asked for.
TasksFollowHandler ==
    \A r \in Requests :
        /\ tasks[r] # "none" =>
              /\ InHandler(r)
              /\ job[r] = "returned"
              /\ Place(r) = "loop" => future[r] \notin {"awaits", "error"}
        /\ pull[r] # "idle" /\ handler[r].tasks => tasks[r] # "none"

Complete(r) ==
    /\ future[r] = "ok" => sent[r] = made[r]
    /\ sent[r] <= made[r] /\ made[r] <= sent[r] + 1
    /\ pull[r] # "chunk" => sent[r] = made[r]

\* A step does not ask the iterator of r for more; what was asked for may still come.
NotPulled(r) ==
    /\ pull'[r] = "asked" => pull[r] = "asked"
    /\ made'[r] # made[r] => pull[r] = "asked"

\* What the iterator of a streamed body gave reaches the client once: a body that
\* ends has every chunk, and a client that leaves misses at most the chunk that
\* was on its way.  No chunk is asked for once the client has left or the body has
\* ended (convert_streaming_response).
ChunksReachClient ==
    /\ [](\A r \in Requests : Complete(r))
    /\ [][\A r \in Requests : future[r] \in Answers \union {"dropped"} => NotPulled(r)]_vars

\* Every accepted request is answered to its end or dropped, the ones whose
\* coroutine or stream still runs when the server is interrupted as well: the loop
\* outlives them.
RequestsFinish == \A r \in Requests : r \in open ~> r \notin open

\* The tasks a handler added before it returned all run, before the process
\* ends, unless the handler is async and its request was dropped, or its stream
\* could not be started: a sync handler whose request timed out still runs them,
\* an async one loses them.
TasksRun ==
    \A r \in Requests : \A n \in 1 .. MaxTasks :
        (job[r] = "returned" /\ InHandler(r) /\ handler[r].tasks /\ n <= due[r])
            ~> \/ n \in ran[r]
               \/ phase = "exited"
               \/ future[r] = "dropped" /\ Place(r) = "loop"
               \/ future[r] = "error" /\ Place(r) = "loop" /\ handler[r].stream # "no"
=============================================================================
