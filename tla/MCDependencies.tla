--------------------------- MODULE MCDependencies ---------------------------
(***************************************************************************)
(* Instances of Dependencies for TLC: every graph of a handler and three   *)
(* callables with at most two parameters each, one cycle among them.       *)
(***************************************************************************)
EXTENDS Dependencies, TLC

CONSTANTS handler, session, user, config

UsesOf(S, n) == UNION {[1 .. k -> [func : S, cache : BOOLEAN]] : k \in 0 .. n}

MCGraphs ==
    {(handler :> h) @@ (user :> u) @@ (session :> s) @@ (config :> <<>>) :
        h \in UsesOf({user, session}, 2), u \in UsesOf({session, config}, 2),
        s \in UsesOf({user, config}, 1)}
=============================================================================
