---------------------------- MODULE MCExecution ----------------------------
(***************************************************************************)
(* Instances of Execution for TLC.                                         *)
(***************************************************************************)
EXTENDS Execution, TLC

CONSTANTS any, other

Sync(stream) ==
    [kwargs |-> TRUE, async |-> FALSE, tasks |-> TRUE, deps |-> <<>>, stream |-> stream]
Async(deps, stream) ==
    [kwargs |-> TRUE, async |-> TRUE, tasks |-> TRUE, deps |-> deps, stream |-> stream]
AsyncNoArgs ==
    [kwargs |-> FALSE, async |-> TRUE, tasks |-> FALSE, deps |-> <<>>, stream |-> "no"]

App(life, pool, h) ==
    [lifespan |-> life, threadPool |-> pool, handler |-> (any :> h) @@ (other :> AsyncNoArgs)]

\* A handler of each kind, each with each setting of the application once.
EachKind ==
    {App("absent", TRUE, Sync("no")), App("none", FALSE, Sync("sync")),
     App("absent", TRUE, Async(<<"async", "sync">>, "no")),
     App("none", FALSE, Async(<<"sync">>, "async"))}
=============================================================================
