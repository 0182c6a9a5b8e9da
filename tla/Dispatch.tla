------------------------------ MODULE Dispatch ------------------------------
(***************************************************************************)
(* Which handler answers a request.  build_router (engine/server/routes.rs)*)
(* gives the flat routes to two tables: handlers without parameters become *)
(* endpoints of the axum router, with the path as it was written, and all  *)
(* HTTP routes go into the FrozenRouter (routing/router.rs) that the       *)
(* fallback dispatches on (engine/server/dispatch.rs).                     *)
(*                                                                         *)
(* A path is its segments and whether a slash ends it.  All segments have  *)
(* one width, so that a byte range is a range of segments.  Axum, matchit  *)
(* and NormalizePathLayer are external.                                    *)
(***************************************************************************)
EXTENDS Naturals, Sequences, FiniteSets, FiniteSetsExt, Functions, Selection

CONSTANTS
    Literals,      \* segments of paths
    Methods,       \* the methods that requests use
    Known,         \* those of HttpMethod
    Declarations,  \* the routes an application may declare
    Builtins,      \* paths of the documents: openapi_url, docs_url, ...
    Roots,         \* values of root_path
    Requested,     \* paths of requests
    MaxRoutes      \* bound: declared routes

Var == "{}"     \* a parameter in the path of a route
Path == [segs : Seq(Literals), slash : BOOLEAN]

\* mode: what assign_execution_mode made of the handler ("sync" and "async" have
\* no parameters), or "websocket"; limited: it has rate_limit_per_second.
Route == [method : Known, segs : Seq(Literals \union {Var}), slash : BOOLEAN,
          mode : {"sync", "async", "args", "websocket"}, cache : BOOLEAN,
          limited : BOOLEAN]

HasVar(rt) == \E i \in DOMAIN rt.segs : rt.segs[i] = Var

ASSUME DispatchAssumption ==
    /\ Var \notin Literals
    /\ Known \subseteq Methods
    /\ Declarations \subseteq Route
    /\ \A rt \in Declarations : rt.mode = "websocket" => ~HasVar(rt) /\ rt.method = "GET"
    /\ Builtins \subseteq Path
    /\ Requested \subseteq Path
    /\ Roots \subseteq Seq(Literals)
    /\ MaxRoutes \in Nat

VARIABLES
    routes,    \* what flatten returned, HTTP and websocket routes in one list
    root,      \* root_path
    redirect,  \* redirect_slashes: NormalizePathLayer is added
    server,    \* "declaring", "serving", or "panicked" in build_router
    exchange   \* the last request and its answer

vars == <<routes, root, redirect, server, exchange>>

NoExchange == [kind |-> "none"]
Answer == [kind : {"handler", "builtin", "not_allowed", "limited", "not_found"},
           route : 0 .. MaxRoutes, args : Seq(Literals)]
Reply(kind, i, args) == [kind |-> kind, route |-> i, args |-> args]

TypeOK ==
    /\ routes \in Seq(Declarations) /\ Len(routes) <= MaxRoutes
    /\ root \in Roots
    /\ redirect \in BOOLEAN
    /\ server \in {"declaring", "serving", "panicked"}
    /\ exchange \in {NoExchange} \union [method : Methods, path : Requested, answer : Answer]

Init ==
    /\ routes = <<>>
    /\ root \in Roots
    /\ redirect \in BOOLEAN
    /\ server = "declaring"
    /\ exchange = NoExchange

-----------------------------------------------------------------------------
(* The axum router.                                                        *)

\* Routes that get an endpoint of their own: cached responses, handlers without
\* parameters, and websockets.  A cached handler that is async gets none.
Exact(rt) ==
    \/ rt.mode = "websocket"
    \/ ~HasVar(rt) /\ rt.mode = "sync"
    \/ ~HasVar(rt) /\ rt.mode = "async" /\ ~rt.cache

At(rt, path) == rt.segs = path.segs /\ rt.slash = path.slash
Endpoints(rs, path) == {i \in DOMAIN rs : Exact(rs[i]) /\ At(rs[i], path)}

\* Merging two endpoints of one path and one method panics.
Overlap(rs) ==
    \/ \E i, j \in DOMAIN rs :
          /\ i # j /\ Exact(rs[i]) /\ Exact(rs[j])
          /\ At(rs[i], rs[j]) /\ rs[i].method = rs[j].method
    \/ \E i \in DOMAIN rs, b \in Builtins :
          Exact(rs[i]) /\ rs[i].method = "GET" /\ At(rs[i], b)

\* get(..) answers HEAD when no endpoint of the path does.
ByMethod(rs, m, path) ==
    LET own == {i \in Endpoints(rs, path) : rs[i].method = m}
    IN  IF own = {} /\ m = "HEAD"
        THEN {i \in Endpoints(rs, path) : rs[i].method = "GET"}
        ELSE own

-----------------------------------------------------------------------------
(* The FrozenRouter.                                                       *)

Http(rs, m) == {i \in DOMAIN rs : rs[i].mode # "websocket" /\ rs[i].method = m}

\* insert replaces: the last of the routes with one path is kept.
Static(rs, m, path) ==
    {i \in Http(rs, m) : ~HasVar(rs[i]) /\ rs[i].segs = path.segs}

\* Mutant: the segments after the pattern's end are ignored.
FitsPrefix(segs, path) ==
    /\ Len(segs) <= Len(path.segs)
    /\ ~path.slash
    /\ \A i \in DOMAIN segs : segs[i] = Var \/ segs[i] = path.segs[i]

\* matchit: a path that ends with a slash matches no pattern, since the pattern
\* was registered without one.
Fits(segs, path) ==
    /\ Len(segs) = Len(path.segs)
    /\ ~path.slash
    /\ \A i \in DOMAIN segs : segs[i] = Var \/ segs[i] = path.segs[i]

\* Where two patterns differ first, a literal goes before a parameter.
Before(p, q) ==
    \E i \in DOMAIN p :
        /\ p[i] # Var /\ q[i] = Var
        /\ \A j \in 1 .. i - 1 : p[j] = q[j]

\* Mutant: the pattern that was declared first.
FirstPattern(rs, m, path) ==
    LET fits == {i \in Http(rs, m) : HasVar(rs[i]) /\ Fits(rs[i].segs, path)}
    IN  {i \in fits : \A j \in fits : i <= j}

\* A pattern that conflicts with an earlier one is refused with a warning: among
\* equals the first is kept.
Pattern(rs, m, path) ==
    LET fits == {i \in Http(rs, m) : HasVar(rs[i]) /\ Fits(rs[i].segs, path)}
    IN  {i \in fits : \A j \in fits :
             IF rs[j].segs = rs[i].segs THEN i <= j ELSE Before(rs[i].segs, rs[j].segs)}

\* Mutant: the parameterised routes are looked at first.
ResolvePatternFirst(rs, m, path) ==
    IF Pattern(rs, m, path) # {} THEN Pattern(rs, m, path)
    ELSE IF Static(rs, m, path) # {} THEN {Max(Static(rs, m, path))}
    ELSE {}

\* resolve: at most one route.  Only the lookup of static routes is normalised.
Resolve(rs, m, path) ==
    IF Static(rs, m, path) # {} THEN {Max(Static(rs, m, path))}
    ELSE Pattern(rs, m, path)

-----------------------------------------------------------------------------
(* A request.                                                              *)

Under(prefix, segs) ==
    Len(prefix) <= Len(segs) /\ SubSeq(segs, 1, Len(prefix)) = prefix

\* dispatch_path: the path below root_path, or none.
Below(rt, path) ==
    IF rt = <<>> THEN {path}
    ELSE IF path.segs = rt THEN {[segs |-> <<>>, slash |-> TRUE]}
    ELSE IF Under(rt, path.segs)
         THEN {[path EXCEPT !.segs = SubSeq(path.segs, Len(rt) + 1, Len(path.segs))]}
    ELSE {}

\* The layer rewrites the path after axum has routed: only the fallback sees it.
Trimmed(path) ==
    IF redirect /\ path.segs # <<>> THEN [path EXCEPT !.slash = FALSE] ELSE path

\* Mutant: every range starts where the first one does.
ArgsFromFirst(segs, path) ==
    LET first == Min({i \in DOMAIN segs : segs[i] = Var})
    IN  [n \in 1 .. Cardinality({i \in DOMAIN segs : segs[i] = Var}) |-> path.segs[first]]

\* The values of the parameters: their ranges were measured in the path below
\* root_path and are applied to the whole path.
Args(segs, path) ==
    LET value == [i \in DOMAIN segs |-> IF segs[i] = Var THEN path.segs[i] ELSE Var]
    IN  Only(value, Literals)

\* Mutant: the path is resolved without dispatch_path.
FallbackWhole(rs, rt, m, path, limited) ==
    LET found == Resolve(rs, m, path)
        i == CHOOSE i \in found : TRUE
    IN  IF m \notin Known THEN Reply("not_allowed", 0, <<>>)
        ELSE IF found = {} THEN Reply("not_found", 0, <<>>)
        ELSE IF rs[i].limited /\ limited THEN Reply("limited", i, <<>>)
        ELSE Reply("handler", i, IF rs[i].mode = "args" THEN Args(rs[i].segs, path) ELSE <<>>)

\* request_matches_router, then dispatch: frontend files and 404 are one answer.
Fallback(rs, rt, m, path, limited) ==
    LET found == UNION {Resolve(rs, m, below) : below \in Below(rt, path)}
        i == CHOOSE i \in found : TRUE
    IN  IF m \notin Known THEN Reply("not_allowed", 0, <<>>)
        ELSE IF found = {} THEN Reply("not_found", 0, <<>>)
        ELSE IF rs[i].limited /\ limited THEN Reply("limited", i, <<>>)
        ELSE Reply("handler", i, IF rs[i].mode = "args" THEN Args(rs[i].segs, path) ELSE <<>>)

\* An endpoint of axum answers without a look at the limit or at root_path; a
\* path that has endpoints, but none of this method, gets no fallback.
Answered(rs, rt, m, path, limited) ==
    IF ByMethod(rs, m, path) # {}
    THEN Reply("handler", CHOOSE i \in ByMethod(rs, m, path) : TRUE, <<>>)
    ELSE IF path \in Builtins /\ m \in {"GET", "HEAD"} THEN Reply("builtin", 0, <<>>)
    ELSE IF Endpoints(rs, path) # {} \/ path \in Builtins THEN Reply("not_allowed", 0, <<>>)
    ELSE Fallback(rs, rt, m, Trimmed(path), limited)

-----------------------------------------------------------------------------
Declare(rt) ==
    /\ server = "declaring"
    /\ Len(routes) < MaxRoutes
    /\ routes' = Append(routes, rt)
    /\ UNCHANGED <<root, redirect, server, exchange>>

Build ==
    /\ server = "declaring"
    /\ server' = IF Overlap(routes) THEN "panicked" ELSE "serving"
    /\ UNCHANGED <<routes, root, redirect, exchange>>

Request(m, path, limited) ==
    /\ server = "serving"
    /\ exchange' = [method |-> m, path |-> path,
                    answer |-> Answered(routes, root, m, path, limited)]
    /\ UNCHANGED <<routes, root, redirect, server>>

Next ==
    \/ \E rt \in Declarations : Declare(rt)
    \/ Build
    \/ \E m \in Methods, path \in Requested, limited \in BOOLEAN : Request(m, path, limited)

Spec == Init /\ [][Next]_vars
-----------------------------------------------------------------------------
(* Properties.                                                             *)

Answering == exchange # NoExchange
Answerer == routes[exchange.answer.route]
Shape(segs, path) ==
    Len(segs) = Len(path.segs) /\ \A i \in DOMAIN segs : segs[i] \in {Var, path.segs[i]}

\* The HTTP routes declared for a request, whatever table they went into.
Declared(m, path) ==
    {i \in Http(routes, m) : \E below \in Below(root, path) : Shape(routes[i].segs, below)}

\* Whichever of the two tables answers, the handler was declared for the method
\* (GET for HEAD) and for the path, with or without root_path.
AnswersOwnRoute ==
    Answering /\ exchange.answer.kind = "handler" =>
        /\ \/ Answerer.method = exchange.method
           \/ exchange.method = "HEAD" /\ Answerer.method = "GET"
        /\ \E path \in {exchange.path} \union Below(root, exchange.path) :
               Shape(Answerer.segs, path)

\* A route with a literal path is never hidden by a parameterised one, of which
\* the two tables hold different parts, in whatever order they were declared.
StaticBeatsParams ==
    Answering /\ exchange.answer.kind = "handler" /\ HasVar(Answerer) =>
        \A i \in Declared(exchange.method, exchange.path) : HasVar(routes[i])

\* The values a handler is given are those of its path, when root_path is empty
\* (under a root_path they are read as far to the left as root_path is long).
ArgumentsFromPath ==
    Answering /\ root = <<>> =>
        \A n \in DOMAIN exchange.answer.args :
            \E i \in DOMAIN Answerer.segs :
                /\ Answerer.segs[i] = Var
                /\ Cardinality({j \in 1 .. i : Answerer.segs[j] = Var}) = n
                /\ exchange.answer.args[n] = exchange.path.segs[i]

\* The answer does not depend on the order of the declarations, nor on that of
\* the hash maps the tables are built from, unless one route was declared twice.
Distinct(rs) ==
    \A i, j \in DOMAIN rs : rs[i].method = rs[j].method /\ rs[i].segs = rs[j].segs => i = j
Outcome(rs, m, path) ==
    LET answer == Answered(rs, root, m, path, FALSE)
    IN  IF answer.route = 0 THEN answer ELSE [answer EXCEPT !.route = rs[@]]
OrderIrrelevant ==
    Answering /\ Distinct(routes) =>
        \A p \in Bijection(DOMAIN routes, DOMAIN routes) :
            Outcome([i \in DOMAIN routes |-> routes[p[i]]], exchange.method, exchange.path)
                = Outcome(routes, exchange.method, exchange.path)

\* A declared route that is not reached is hidden by an endpoint of axum on its
\* path, or it has parameters and the path ends with a slash that is kept.
UnservedExplained ==
    Answering /\ exchange.answer.kind \in {"not_found", "not_allowed"} =>
        \/ Declared(exchange.method, exchange.path) = {}
        \/ /\ exchange.answer.kind = "not_allowed"
           /\ Endpoints(routes, exchange.path) # {} \/ exchange.path \in Builtins
        \/ /\ exchange.answer.kind = "not_found"
           /\ exchange.path.slash /\ ~redirect
           /\ \A i \in Declared(exchange.method, exchange.path) : HasVar(routes[i])
=============================================================================
