------------------------------ MODULE Lifecycle ------------------------------
(***************************************************************************)
(* One call of serve(): the server thread of engine/server/serve.rs with   *)
(* the startup and shutdown phases of engine/server/lifecycle.rs, and the  *)
(* thread that runs the asyncio loop the handlers are scheduled on.  The   *)
(* HTTP requests in flight are a set here; Execution says what they do.    *)
(***************************************************************************)
EXTENDS Naturals

CONSTANTS
    Requests,           \* requests that may reach the server
    StartupHandlers,    \* number of on_startup handlers
    ShutdownHandlers    \* number of on_shutdown handlers, all of them callables

ASSUME LifecycleAssumption ==
    /\ StartupHandlers \in Nat
    /\ ShutdownHandlers \in Nat

VARIABLES
    phase,       \* where the server thread is
    started,     \* on_startup handlers that have returned
    stopped,     \* on_shutdown handlers that have been called
    lifespan,    \* the context manager of lifespan=: "absent", or "none" before it
                 \* is entered, "entered", "exited"
    loop,        \* the loop's thread: "new", "running" or "closed"
    stopAsked,   \* loop.stop has been scheduled on the loop
    open,        \* requests the server has accepted and not finished
    arrived      \* requests that reached the server

hookVars == <<started, stopped, lifespan>>
loopVars == <<loop, stopAsked>>
httpVars == <<open, arrived>>
lifecycleVars == <<phase, hookVars, loopVars, httpVars>>

LifecycleTypeOK ==
    /\ phase \in {"startup", "bind", "serving", "draining", "stopping",
                  "shutdown", "returned", "exited"}
    /\ started \in 0 .. StartupHandlers
    /\ stopped \in 0 .. ShutdownHandlers
    /\ lifespan \in {"absent", "none", "entered", "exited"}
    /\ loop \in {"new", "running", "closed"}
    /\ stopAsked \in BOOLEAN
    /\ open \subseteq arrived
    /\ arrived \subseteq Requests

Lifespan == lifespan # "absent"

\* serve has created the loop and built the router, and spawns the two threads.
LifecycleInit ==
    /\ phase = "startup"
    /\ started = 0
    /\ stopped = 0
    /\ lifespan \in {"absent", "none"}
    /\ loop = "new"
    /\ stopAsked = FALSE
    /\ open = {}
    /\ arrived = {}

-----------------------------------------------------------------------------
(* The startup phase.                                                      *)

\* Mutants: a failed startup goes through the shutdown of a server that ran,
\* and lifespan= does not replace the two lists of handlers.
StartupFailsOver ==
    /\ phase = "startup"
    /\ IF Lifespan THEN lifespan = "none" ELSE started < StartupHandlers
    /\ phase' = "stopping"
    /\ UNCHANGED <<hookVars, loopVars, httpVars>>

StartupHandlerBeside ==
    /\ phase = "startup"
    /\ started < StartupHandlers
    /\ started' = started + 1
    /\ UNCHANGED <<phase, stopped, lifespan, loopVars, httpVars>>

\* A handler raises, the list holds something that cannot be called, or the
\* manager's __aenter__ raises: serve returns at once, and the asyncio loop is
\* left as it is.
StartupFails ==
    /\ phase = "startup"
    /\ IF Lifespan THEN lifespan = "none" ELSE started < StartupHandlers
    /\ phase' = "returned"
    /\ UNCHANGED <<hookVars, loopVars, httpVars>>

\* One handler at a time, an async one to its end in a loop of its own.
StartupHandler ==
    /\ phase = "startup"
    /\ ~Lifespan
    /\ started < StartupHandlers
    /\ started' = started + 1
    /\ UNCHANGED <<phase, stopped, lifespan, loopVars, httpVars>>

EnterLifespan ==
    /\ phase = "startup"
    /\ lifespan = "none"
    /\ lifespan' = "entered"
    /\ UNCHANGED <<phase, started, stopped, loopVars, httpVars>>

Prepared == IF Lifespan THEN lifespan # "none" ELSE started = StartupHandlers

StartupDone ==
    /\ phase = "startup"
    /\ Prepared
    /\ phase' = "bind"
    /\ UNCHANGED <<hookVars, loopVars, httpVars>>

-----------------------------------------------------------------------------
(* Serving.                                                                *)

\* TcpListener::bind; its error is logged after block_on, and the server goes
\* on to stop what it started.
Bind ==
    /\ phase = "bind"
    /\ phase' \in {"serving", "stopping"}
    /\ UNCHANGED <<hookVars, loopVars, httpVars>>

Accept(r) ==
    /\ phase = "serving"
    /\ r \notin arrived
    /\ arrived' = arrived \union {r}
    /\ open' = open \union {r}
    /\ UNCHANGED <<phase, hookVars, loopVars>>

\* The response is complete, or the client is gone.
Finish(r) ==
    /\ r \in open
    /\ open' = open \ {r}
    /\ UNCHANGED <<phase, hookVars, loopVars, arrived>>

\* The signal is listened to only from here on: one that comes before axum
\* serves does not end the server.
Interrupt ==
    /\ phase = "serving"
    /\ phase' = "draining"
    /\ UNCHANGED <<hookVars, loopVars, httpVars>>

\* Mutant: the server is dropped on the signal instead of drained.
DrainedAtOnce ==
    /\ phase = "draining"
    /\ phase' = "stopping"
    /\ UNCHANGED <<hookVars, loopVars, httpVars>>

\* with_graceful_shutdown completes.
Drained ==
    /\ phase = "draining"
    /\ open = {}
    /\ phase' = "stopping"
    /\ UNCHANGED <<hookVars, loopVars, httpVars>>

-----------------------------------------------------------------------------
(* The shutdown phase.                                                     *)

\* Mutant: the loop is asked to stop only if it already runs.
AskStopRunning ==
    /\ phase = "stopping"
    /\ stopAsked' = (loop = "running")
    /\ phase' = "shutdown"
    /\ UNCHANGED <<hookVars, loop, httpVars>>

\* call_soon_threadsafe(loop.stop), kept by a loop that does not run yet.
AskStop ==
    /\ phase = "stopping"
    /\ stopAsked' = TRUE
    /\ phase' = "shutdown"
    /\ UNCHANGED <<hookVars, loop, httpVars>>

MoreToStop == IF Lifespan THEN lifespan = "entered" ELSE stopped < ShutdownHandlers

\* A handler that raises ends the phase: the handlers after it are not called.
ShutdownHandler(ok) ==
    /\ phase = "shutdown"
    /\ ~Lifespan
    /\ stopped < ShutdownHandlers
    /\ stopped' = stopped + 1
    /\ phase' = IF ok THEN phase ELSE "returned"
    /\ UNCHANGED <<started, lifespan, loopVars, httpVars>>

\* __aexit__, whose error is logged.
ExitLifespan ==
    /\ phase = "shutdown"
    /\ lifespan = "entered"
    /\ lifespan' = "exited"
    /\ UNCHANGED <<phase, started, stopped, loopVars, httpVars>>

\* Mutant: the thread ends before the hooks are called.
ShutdownDoneEarly ==
    /\ phase = "shutdown"
    /\ phase' = "returned"
    /\ UNCHANGED <<hookVars, loopVars, httpVars>>

\* The server thread ends and serve, which joined it, returns.
ShutdownDone ==
    /\ phase = "shutdown"
    /\ ~MoreToStop
    /\ phase' = "returned"
    /\ UNCHANGED <<hookVars, loopVars, httpVars>>

-----------------------------------------------------------------------------
(* The thread of the asyncio loop.                                         *)

LoopRuns ==
    /\ phase # "exited"
    /\ loop = "new"
    /\ loop' = "running"
    /\ UNCHANGED <<phase, hookVars, stopAsked, httpVars>>

\* run_forever returns and the loop is closed.
LoopCloses ==
    /\ phase # "exited"
    /\ loop = "running"
    /\ stopAsked
    /\ loop' = "closed"
    /\ UNCHANGED <<phase, hookVars, stopAsked, httpVars>>

\* The program that called serve ends, and with it every thread (external).
ProcessExits ==
    /\ phase = "returned"
    /\ phase' = "exited"
    /\ UNCHANGED <<hookVars, loopVars, httpVars>>

-----------------------------------------------------------------------------
Startup == StartupFails \/ StartupHandler \/ EnterLifespan \/ StartupDone
Shutdown ==
    \/ Drained \/ AskStop \/ ExitLifespan \/ ShutdownDone
    \/ \E ok \in BOOLEAN : ShutdownHandler(ok)
Loop == LoopRuns \/ LoopCloses

LifecycleNext ==
    \/ Startup \/ Bind \/ Interrupt \/ Shutdown \/ Loop \/ ProcessExits
    \/ \E r \in Requests : Accept(r) \/ Finish(r)

LifecycleSpec == LifecycleInit /\ [][LifecycleNext]_lifecycleVars

-----------------------------------------------------------------------------
(* Properties.                                                             *)

\* A request runs only between a complete startup and the first step of the
\* shutdown, with a loop that no one has asked to stop: whatever a handler
\* awaits on the loop can still complete.
RequestsWithinLifespan ==
    open # {} =>
        /\ Prepared
        /\ phase \in {"serving", "draining"}
        /\ stopped = 0 /\ lifespan # "exited"
        /\ ~stopAsked /\ loop # "closed"

\* Shutdown hooks run only after a startup that completed, and a lifespan
\* replaces both lists of handlers.
HooksPaired ==
    /\ stopAsked \/ stopped > 0 \/ lifespan = "exited" => Prepared
    /\ Lifespan => started = 0 /\ stopped = 0

HooksCalled ==
    IF Lifespan THEN lifespan = "exited" ELSE stopped > 0 \/ ShutdownHandlers = 0

\* A server that is interrupted while it serves returns, through its shutdown
\* hooks, even when one of them raises.
InterruptedServerReturns == phase = "draining" ~> phase = "returned" /\ HooksCalled

\* A server that stops, for want of its port as well, closes the loop before the
\* process ends, even if the loop's thread has not reached run_forever when it is
\* asked to stop.
LoopStopsWithServer == phase = "stopping" ~> loop = "closed" \/ phase = "exited"
=============================================================================
