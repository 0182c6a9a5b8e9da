---------------------------- MODULE Dependencies ----------------------------
(***************************************************************************)
(* Depends() of routing/dependencies.rs.  When a route is declared,        *)
(* extract_and_flatten walks from the handler down its dependencies, depth *)
(* first, and leaves a flat plan; each request executes the plan in order  *)
(* and gives the handler the results of its own parameters.  The recursion *)
(* is an explicit stack here: one step per parameter and per return.       *)
(*                                                                         *)
(* Only parameters that hold a Depends or Security are parameters here, by *)
(* their position; scopes, and what a dependency takes from the request,   *)
(* are left out.  Indices start from 1.                                    *)
(***************************************************************************)
EXTENDS Naturals, Sequences

CONSTANTS
    Funcs,     \* the callables of the program
    Handler,   \* the one the route is declared with
    Graphs,    \* the ways they may depend on one another
    MaxDepth   \* bound: calls the thread's stack can hold

\* A parameter: the callable it depends on, and use_cache.
Use == [func : Funcs, cache : BOOLEAN]

ASSUME DependenciesAssumption ==
    /\ Handler \in Funcs
    /\ Graphs \subseteq [Funcs -> Seq(Use)]
    /\ MaxDepth \in Nat \ {0}

VARIABLES
    graph,     \* graph[f]: the parameters of f
    stack,     \* the calls of extract_and_flatten that have not returned
    plan,      \* flat_plan
    visited,   \* visited[f]: its node in the plan, 0 if it has none
    phase,     \* "parsing", "crashed", "ready", "running", "called" or "failed"
    executed,  \* nodes executed for the request: results_registry has their values
    given      \* final_results, as [param, node]

parseVars == <<stack, plan, visited>>
vars == <<graph, parseVars, phase, executed, given>>

\* `param` is the parameter of the caller a call is made for, 0 for the handler's.
Frame == [func : Funcs, cache : BOOLEAN, top : BOOLEAN, param : Nat, subs : Seq(Nat)]
Node == [func : Funcs, cache : BOOLEAN, top : BOOLEAN, param : Nat \ {0}, subs : Seq(Nat)]

TypeOK ==
    /\ graph \in Graphs
    /\ stack \in Seq(Frame) /\ Len(stack) <= MaxDepth
    /\ plan \in Seq(Node)
    /\ visited \in [Funcs -> Nat]
    /\ phase \in {"parsing", "crashed", "ready", "running", "called", "failed"}
    /\ executed \in 0 .. Len(plan)
    /\ given \subseteq [param : Nat, node : 1 .. Len(plan)]

Call(func, cache, top, param) ==
    [func |-> func, cache |-> cache, top |-> top, param |-> param, subs |-> <<>>]

Init ==
    /\ graph \in Graphs
    /\ stack = <<Call(Handler, TRUE, TRUE, 0)>>
    /\ plan = <<>>
    /\ visited = [f \in Funcs |-> 0]
    /\ phase = "parsing"
    /\ executed = 0
    /\ given = {}

-----------------------------------------------------------------------------
(* extract_and_flatten.                                                    *)

Top == stack[Len(stack)]
Position == Len(Top.subs) + 1
Walking == phase = "parsing" /\ Position <= Len(graph[Top.func])
Next_ == graph[Top.func][Position]

\* Mutant: use_cache is not looked at.
KnownAlways(use) == visited[use.func] # 0

Known(use) == use.cache /\ visited[use.func] # 0

\* The call returns at once.
Reuse ==
    /\ Walking
    /\ Known(Next_)
    /\ stack' = [stack EXCEPT ![Len(stack)].subs = Append(@, visited[Next_.func])]
    /\ UNCHANGED <<graph, plan, visited, phase, executed, given>>

\* Mutant: is_top_level is handed down as it is.
DescendTop ==
    /\ Walking
    /\ ~Known(Next_)
    /\ Len(stack) < MaxDepth
    /\ stack' = Append(stack, Call(Next_.func, Next_.cache, Top.top, Position))
    /\ UNCHANGED <<graph, plan, visited, phase, executed, given>>

\* Only the handler's parameters are at the top level.
Descend ==
    /\ Walking
    /\ ~Known(Next_)
    /\ Len(stack) < MaxDepth
    /\ stack' = Append(stack, Call(Next_.func, Next_.cache, Top.top /\ Top.param = 0, Position))
    /\ UNCHANGED <<graph, plan, visited, phase, executed, given>>

\* No call looks whether its function is already being visited.
Overflow ==
    /\ Walking
    /\ ~Known(Next_)
    /\ Len(stack) = MaxDepth
    /\ phase' = "crashed"
    /\ UNCHANGED <<graph, parseVars, executed, given>>

Complete == phase = "parsing" /\ Position > Len(graph[Top.func])
Caller == Len(stack) - 1

\* Mutants: the index is taken after the push, and the function is not remembered.
ReturnLate ==
    /\ Complete
    /\ Caller > 0
    /\ plan' = Append(plan, Top)
    /\ visited' = IF Top.cache THEN [visited EXCEPT ![Top.func] = Len(plan) + 1] ELSE visited
    /\ stack' = [SubSeq(stack, 1, Caller) EXCEPT ![Caller].subs = Append(@, Len(plan))]
    /\ UNCHANGED <<graph, phase, executed, given>>

ReturnForgets ==
    /\ Complete
    /\ Caller > 0
    /\ plan' = Append(plan, Top)
    /\ stack' = [SubSeq(stack, 1, Caller) EXCEPT ![Caller].subs = Append(@, Len(plan) + 1)]
    /\ UNCHANGED <<graph, visited, phase, executed, given>>

\* The node is pushed, and the caller goes on with its next parameter.
Return ==
    /\ Complete
    /\ Caller > 0
    /\ plan' = Append(plan, Top)
    /\ visited' = IF Top.cache THEN [visited EXCEPT ![Top.func] = Len(plan) + 1] ELSE visited
    /\ stack' = [SubSeq(stack, 1, Caller) EXCEPT ![Caller].subs = Append(@, Len(plan) + 1)]
    /\ UNCHANGED <<graph, phase, executed, given>>

\* parse_dependencies pops the node of the handler, pushed last.
Parsed ==
    /\ Complete
    /\ Caller = 0
    /\ phase' = "ready"
    /\ UNCHANGED <<graph, parseVars, executed, given>>

-----------------------------------------------------------------------------
(* execute_dependencies, for one request after another.                    *)

Start ==
    /\ phase \in {"ready", "called", "failed"}
    /\ phase' = "running"
    /\ executed' = 0
    /\ given' = {}
    /\ UNCHANGED <<graph, parseVars>>

\* A dependency returns, or refuses the request: then the handler is not called.
Execute(ok) ==
    /\ phase = "running"
    /\ executed < Len(plan)
    /\ phase' = IF ok THEN phase ELSE "failed"
    /\ executed' = IF ok THEN executed + 1 ELSE executed
    /\ given' = IF ok /\ plan[executed + 1].top
                THEN given \union {[param |-> plan[executed + 1].param, node |-> executed + 1]}
                ELSE given
    /\ UNCHANGED <<graph, parseVars>>

CallHandler ==
    /\ phase = "running"
    /\ executed = Len(plan)
    /\ phase' = "called"
    /\ UNCHANGED <<graph, parseVars, executed, given>>

Next ==
    \/ Reuse \/ Descend \/ Overflow \/ Return \/ Parsed
    \/ Start \/ CallHandler
    \/ \E ok \in BOOLEAN : Execute(ok)

Spec == Init /\ [][Next]_vars

-----------------------------------------------------------------------------
(* Properties.                                                             *)

\* Every argument of a dependency is the result of the callable its parameter
\* names, from a node that comes earlier in the plan: its value is there.
InjectionsRight ==
    \A i \in 1 .. Len(plan) :
        LET uses == graph[plan[i].func]
        IN  /\ Len(plan[i].subs) = Len(uses)
            /\ \A k \in 1 .. Len(uses) :
                  /\ plan[i].subs[k] \in 1 .. i - 1
                  /\ plan[plan[i].subs[k]].func = uses[k].func

\* A cached dependency has one node, however many paths lead to it: it is called
\* once in a request.
SharedOnce ==
    \A i, j \in 1 .. Len(plan) :
        plan[i].cache /\ plan[j].cache /\ plan[i].func = plan[j].func => i = j

\* A parameter with use_cache=False has a node no other parameter uses.
FreshPerUse ==
    \A i, j \in 1 .. Len(plan) :
        \A k \in DOMAIN plan[i].subs, l \in DOMAIN plan[j].subs :
            ~graph[plan[i].func][k].cache /\ plan[i].subs[k] = plan[j].subs[l]
                => i = j /\ k = l

\* Whether the handler's parameter k is given a value, and the right one.
Receives(k) ==
    \E g \in given : g.param = k /\ plan[g.node].func = graph[Handler][k].func

\* What the handler is given is the value of the parameter it is given for, once;
\* a parameter without a value is one whose cached callable had a node already.
GivenToItsParameter ==
    phase = "called" =>
        /\ \A g, h \in given : g.param = h.param => g = h
        /\ \A g \in given :
              /\ g.param \in 1 .. Len(graph[Handler])
              /\ plan[g.node].func = graph[Handler][g.param].func
        /\ \A k \in 1 .. Len(graph[Handler]) :
              ~Receives(k) =>
                  /\ graph[Handler][k].cache
                  /\ \E i \in 1 .. Len(plan) :
                        /\ plan[i].func = graph[Handler][k].func
                        /\ ~(plan[i].top /\ plan[i].param = k)
=============================================================================
