----------------------------- MODULE MCDispatch -----------------------------
(***************************************************************************)
(* Instances of Dispatch for TLC.                                          *)
(***************************************************************************)
EXTENDS Dispatch

\* "v" is also the segment of root_path.
MCLiterals == {"a", "b", "v"}
MCRoots == {<<>>, <<"v">>}

Decl(method, segs, slash, mode, cache) ==
    [method |-> method, segs |-> segs, slash |-> slash, mode |-> mode,
     cache |-> cache, limited |-> mode = "args"]

\* Every kind of endpoint on one path, and patterns that overlap.
MCDeclarations ==
    {Decl("GET", <<"a">>, FALSE, mode, FALSE) : mode \in {"sync", "args", "websocket"}}
    \union {Decl("GET", <<"a">>, TRUE, "sync", TRUE), Decl("GET", <<"a">>, FALSE, "async", TRUE),
            Decl("POST", <<"a">>, FALSE, "args", FALSE), Decl("POST", <<"a">>, FALSE, "async", FALSE),
            Decl("HEAD", <<"a">>, FALSE, "sync", FALSE)}
    \union {Decl("GET", segs, FALSE, "args", FALSE) :
               segs \in {<<Var>>, <<"a", Var>>, <<Var, "b">>, <<Var, Var>>, <<"a", "b">>}}
    \union {Decl("GET", <<Var>>, TRUE, "sync", FALSE), Decl("POST", <<"v">>, FALSE, "args", FALSE)}

MCBuiltins == {[segs |-> <<"v">>, slash |-> FALSE]}

MCPath(segs, slash) == [segs |-> segs, slash |-> slash]
MCRequested ==
    {MCPath(segs, slash) : slash \in BOOLEAN,
        segs \in {<<"a">>, <<"b">>, <<"v">>, <<"a", "b">>, <<"b", "a">>, <<"v", "a">>, <<"v", "b", "a">>}}
    \union {MCPath(<<>>, TRUE)}
=============================================================================
