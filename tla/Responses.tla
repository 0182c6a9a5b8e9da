------------------------------ MODULE Responses ------------------------------
(***************************************************************************)
(* What the client is sent for what Python returned: the conversion of a   *)
(* handler's result (http/responses.rs, ffi/py_handlers.rs) on each of the *)
(* ways build_router serves a route (engine/server/routes.rs), and of the  *)
(* answer of a Python middleware (http/middleware/mod.rs).  The bytes of a *)
(* body are left out: a body is what it shows of the result.               *)
(*                                                                         *)
(* The conversion of a StreamingResponse panics on a thread without the    *)
(* locals of an asyncio task (http/responses.rs:615).  What becomes of the *)
(* panic depends on the thread, on CatchPanicLayer and on the build.       *)
(***************************************************************************)
EXTENDS Naturals

CONSTANTS
    Handlers,   \* the handlers an application may declare
    Results     \* what handlers and middlewares may return or raise

\* The classes that are recognised by their type or, if they come from another
\* library, by their name.
Classes == {"json", "text", "html", "redirect", "stream"}

\* status is that of the response or of the HTTPException, 500 for any other
\* exception; readable, that it has the attribute content (or url); fits, that
\* response_model accepts it.
Result == [kind : {"none", "str", "data", "raised"} \union Classes, status : Nat,
           readable : BOOLEAN, fits : BOOLEAN]

\* returns is the annotation of the handler and class its response_class; model,
\* that it has a response_model; status, its status_code or 0; mode, what
\* assign_execution_mode made of it (one mode stands for those with arguments, for
\* "sync" and for "async" handlers each); braces, that its path has parameters.
Handler == [returns : {"none", "str", "json", "text", "html", "redirect", "other"},
            class : {"none", "json", "text", "html", "redirect", "other"},
            model : BOOLEAN, status : Nat, mode : {"sync", "async", "sync args", "async args"},
            braces : BOOLEAN, cache : BOOLEAN]

ASSUME ResponsesAssumption ==
    /\ Results \subseteq Result
    /\ Handlers \subseteq Handler
    /\ \A h \in Handlers : h.status = 0 \/ h.status \in 100 .. 999

VARIABLES
    handler,    \* the handler of the route
    app,        \* sync_to_threadpool, catch_panics, and whether the build aborts on panic
    locals,     \* the threads that have the locals of an asyncio task
    server,     \* "declared", "serving", "panicked" in build_router, or "aborted"
    cached,     \* the result and the response of the call made by build_router
    exchange    \* the last request: who answered, on which thread, the result and
                \* the response

vars == <<handler, app, locals, server, cached, exchange>>

\* That of serve, which calls build_router; that of the request; a blocking one.
Threads == {"main", "task", "pool"}

Response == [status : 0 .. 999,
             body : {"none", "error", "text", "json", "html", "location", "stream", "name", "panic"}]
Send(status, body) == [status |-> status, body |-> body]
Failed == Send(500, "none")
\* There is no response: a conversion panicked, and if the panic is not caught the
\* connection is closed.
Panicked == Send(0, "panic")
Nothing == [by |-> "no one"]

Answer(by, thread, r, response) ==
    [by |-> by, thread |-> thread, result |-> r, response |-> response]

App == [threadPool : BOOLEAN, catchPanics : BOOLEAN, aborts : BOOLEAN]

TypeOK ==
    /\ handler \in Handlers /\ app \in App /\ locals \subseteq Threads
    /\ server \in {"declared", "serving", "panicked", "aborted"}
    /\ cached \in {Nothing} \union
          [by : {"cache"}, thread : {"main"}, result : Results, response : Response \ {Panicked}]
    /\ exchange \in {Nothing} \union
          [by : {"cache", "handler", "middleware"}, thread : Threads, result : Results,
           response : Response]

Init ==
    /\ handler \in Handlers
    /\ app \in App
    /\ locals \in SUBSET Threads
    /\ server = "declared"
    /\ cached = Nothing
    /\ exchange = Nothing

-----------------------------------------------------------------------------
(* The conversions.                                                        *)

Explicit(r) == r.kind \in Classes

\* A code that is none is sent as 200.
Code(status) == IF status \in 100 .. 999 THEN status ELSE 200

OrElse(status, default) == IF status = 0 THEN default ELSE status

ConvertJson(r) ==
    IF r.kind = "json" /\ r.readable THEN Send(Code(r.status), "json") ELSE Failed

\* A content that cannot be read is empty.
ConvertText(r) == Send(Code(r.status), IF r.readable THEN "text" ELSE "none")

ConvertHtml(r) ==
    IF r.kind = "html" THEN Send(Code(r.status), IF r.readable THEN "html" ELSE "none")
    ELSE Failed

\* Every redirect is permanent or temporary, and keeps the method.
ConvertRedirect(r) ==
    IF r.kind = "redirect" THEN Send(IF r.status = 301 THEN 308 ELSE 307, "location")
    ELSE Failed

\* get_current_locals (external) is unwrapped.
ConvertStream(r, thread) ==
    IF thread \notin locals THEN Panicked
    ELSE Send(Code(r.status), IF r.readable THEN "stream" ELSE "none")

Converted(r, thread) ==
    IF r.kind = "json" THEN ConvertJson(r)
    ELSE IF r.kind = "text" THEN ConvertText(r)
    ELSE IF r.kind = "html" THEN ConvertHtml(r)
    ELSE IF r.kind = "redirect" THEN ConvertRedirect(r)
    ELSE ConvertStream(r, thread)

\* For a middleware: no status_code and no response_class.
AutoResponse(r, thread) ==
    IF r.kind = "none" THEN Send(204, "none")
    ELSE IF Explicit(r) THEN Converted(r, thread)
    ELSE Send(200, "json")

\* The response_class, or else the annotation.
ResponseType(h) ==
    IF h.class = "other" THEN "auto"
    ELSE IF h.class # "none" THEN h.class
    ELSE IF h.returns \in {"str", "text"} THEN "text"
    ELSE IF h.returns \in {"html", "redirect"} THEN h.returns
    ELSE "json"

\* Mutant: the type of the handler goes before the class of the response.
ByDeclaredType(h, r, thread) ==
    IF r.kind = "none" THEN Send(OrElse(h.status, 204), "none")
    ELSE IF h.model /\ ~r.fits THEN Failed
    ELSE IF ResponseType(h) = "html" THEN ConvertHtml(r)
    ELSE IF ResponseType(h) = "redirect" THEN ConvertRedirect(r)
    ELSE IF Explicit(r) THEN Converted(r, thread)
    ELSE Send(OrElse(h.status, 200), "json")

\* convert_response_by_type: the class of the response goes before the type of
\* the handler.
ByType(h, r, thread) ==
    IF r.kind = "none" THEN Send(OrElse(h.status, 204), "none")
    ELSE IF Explicit(r) THEN Converted(r, thread)
    ELSE IF h.model /\ ~r.fits THEN Failed
    ELSE IF ResponseType(h) = "html" THEN ConvertHtml(r)
    ELSE IF ResponseType(h) = "redirect" THEN ConvertRedirect(r)
    ELSE Send(OrElse(h.status, 200), "json")

\* specialized_response_conversion: text has a way of its own, for str only, that
\* knows neither status_code nor response_model.
Specialized(h, r, thread) ==
    IF ResponseType(h) = "text"
    THEN IF r.kind = "str" THEN Send(200, "text") ELSE Failed
    ELSE ByType(h, r, thread)

\* An HTTPException has its own status, any other error 500.
Raised(r) ==
    IF r.status \in 100 .. 999 THEN Send(r.status, "error") ELSE Send(500, "error")

\* render_no_request_json_response: an object that is no JSON value is sent as the
\* text str() gives of it, a response as well.
Fast(h, r) ==
    IF r.kind = "none" THEN Send(OrElse(h.status, 204), "none")
    ELSE Send(OrElse(h.status, 200), IF Explicit(r) THEN "name" ELSE "json")

-----------------------------------------------------------------------------
(* The ways a route is served.                                             *)

\* build_router calls the handler once and keeps its response.
Precomputed(h) == h.cache /\ ~h.braces /\ h.mode = "sync"

\* Mutant: response_model is forgotten.
IsFastModel(h) ==
    /\ ~h.cache /\ ~h.braces /\ h.mode = "sync" /\ ~app.threadPool
    /\ h.class = "none" /\ ResponseType(h) = "json"

\* sync_no_request_method_router.
IsFast(h) ==
    /\ ~h.cache /\ ~h.braces /\ h.mode = "sync" /\ ~app.threadPool
    /\ ~h.model /\ h.class = "none" /\ ResponseType(h) = "json"

\* The thread that converts: the coroutine of an async handler is awaited, and its
\* result converted, by the request's own task (await_python_future).
Place(h) == IF h.mode \in {"sync", "sync args"} /\ app.threadPool THEN "pool" ELSE "task"

Rendered(h, r, thread) ==
    IF r.kind = "raised" THEN Raised(r)
    ELSE IF IsFast(h) THEN Fast(h, r)
    ELSE Specialized(h, r, thread)

\* A panic of a blocking job is the error of its JoinHandle and answered 500, as is
\* one that CatchPanicLayer sees; otherwise it ends the task of the connection.
Caught(response, thread) ==
    IF response = Panicked /\ ~app.aborts /\ (thread = "pool" \/ app.catchPanics)
    THEN Failed ELSE response

\* With panic = "abort", as in the release profile, it ends the process.
Survives(response) == response # Panicked \/ ~app.aborts

\* A response that was an error is kept too; the panic of a conversion is the
\* panic of build_router.
Build ==
    /\ server = "declared"
    /\ \/ /\ ~Precomputed(handler)
          /\ server' = "serving"
          /\ UNCHANGED cached
       \/ /\ Precomputed(handler)
          /\ \E r \in Results :
                LET response == Rendered(handler, r, "main")
                IN  \/ /\ response = Panicked
                       /\ server' = IF app.aborts THEN "aborted" ELSE "panicked"
                       /\ UNCHANGED cached
                    \/ /\ response # Panicked
                       /\ server' = "serving"
                       /\ cached' = Answer("cache", "main", r, response)
    /\ UNCHANGED <<handler, app, locals, exchange>>

\* Whatever a middleware raises is answered 500.
Refusal(r) == IF r.kind = "raised" THEN Send(500, "error") ELSE AutoResponse(r, "pool")

\* The response, or what the panic of its conversion leaves of the exchange.
Exchange(by, thread, r, response) ==
    /\ server = "serving"
    /\ exchange' = Answer(by, thread, r, Caught(response, thread))
    /\ server' = IF Survives(response) THEN server ELSE "aborted"
    /\ UNCHANGED <<handler, app, locals, cached>>

\* The first Python middleware that does not return None answers, and the handler
\* is not called.  Middlewares are called, and answers converted, on the pool.
Refuse(r) == r.kind # "none" /\ Exchange("middleware", "pool", r, Refusal(r))

Replay ==
    /\ server = "serving"
    /\ cached # Nothing
    /\ exchange' = cached
    /\ UNCHANGED <<handler, app, locals, server, cached>>

Call(r) ==
    /\ cached = Nothing
    /\ Exchange("handler", Place(handler), r, Rendered(handler, r, Place(handler)))

Next ==
    \/ Build
    \/ Replay
    \/ \E r \in Results : Refuse(r) \/ Call(r)

Spec == Init /\ [][Next]_vars
-----------------------------------------------------------------------------
(* Properties.                                                             *)

Answering == exchange # Nothing
ByHandler == Answering /\ exchange.by # "middleware"

\* A response may be a stream, and the thread that converted it could not make one.
NoStream(e) == e.result.kind = "stream" /\ e.thread \notin locals

Alike(e) ==
    e.result.kind # "raised" /\ ~(IsFast(handler) /\ Explicit(e.result)) =>
        /\ NoStream(e) => e.response \in {Failed, Panicked}
        /\ ~NoStream(e) =>
              \A thread \in Threads :
                 (e.result.kind = "stream" => thread \in locals) =>
                     e.response = Specialized(handler, e.result, thread)

\* A result is converted alike by build_router, by the task of a request and on the
\* pool, with two exceptions.  On the fast way of a handler without parameters a response
\* that the application made itself is not recognised.  And a stream that a thread with
\* task locals sends is lost on one without: it is answered 500, or not at all.
ConvertedAlike == ByHandler => Alike(exchange)

Explained(e) ==
    e.response.status >= 500 \/ e.response = Panicked =>
        LET r == e.result
        IN  \/ r.kind = "raised"
            \/ Explicit(r) /\ r.status >= 500
            \/ r.kind = "json" /\ ~r.readable
            \/ NoStream(e)
            \/ /\ e.by # "middleware"
               /\ \/ handler.status >= 500
                  \/ ResponseType(handler) = "text" /\ r.kind # "str"
                  \/ ResponseType(handler) \in {"html", "redirect"} /\ ~Explicit(r)
                  \/ handler.model /\ ~r.fits

\* A server error, or a connection closed without an answer, is the application's own,
\* or a result that the declared type or the response_model of its handler does not
\* allow, or a response without content, or a stream on a thread without task locals,
\* of which the application knows nothing (responses.rs:615).  A connection is closed
\* for such a stream only, converted by the request's own task without CatchPanicLayer
\* unless the build aborts, which ends the server with it.
ErrorsExplained ==
    Answering =>
        /\ Explained(exchange)
        /\ exchange.response = Panicked =>
              \/ app.aborts /\ server = "aborted"
              \/ exchange.thread = "task" /\ ~app.catchPanics /\ server = "serving"

\* A JSONResponse, PlainTextResponse or HTMLResponse that a handler returns is
\* sent with its content and its status.
ResponsesKept ==
    ByHandler /\ exchange.result.kind \in {"json", "text", "html"} /\ exchange.result.readable =>
        exchange.response = Send(Code(exchange.result.status), exchange.result.kind)
=============================================================================
