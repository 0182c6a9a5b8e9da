--------------------------- MODULE ResponsesProofs ---------------------------
(***************************************************************************)
(* Proofs about Responses: for every handler and every result, whether it  *)
(* is converted alike on every way and what a server error comes from.     *)
(***************************************************************************)
EXTENDS Responses, TLAPS

\* The response kept by build_router is one the handler could be answered with.
CacheInv == cached # Nothing => Alike(cached) /\ Explained(cached)

\* What a closed connection comes from.
Closed(e) ==
    e.response = Panicked =>
        \/ app.aborts /\ server = "aborted"
        \/ e.thread = "task" /\ ~app.catchPanics /\ server = "serving"

ResponsesInv == TypeOK /\ CacheInv /\ ConvertedAlike /\ ErrorsExplained

\* Panicked is told from every response by its body.
LEMMA PanickedIsNone ==
    /\ Panicked \in Response /\ Failed \in Response /\ Failed # Panicked
    /\ \A status, body : Send(status, body).status = status /\ Send(status, body).body = body
    /\ \A status, body : body # "panic" => Send(status, body) # Panicked
<1>1. \A status, body : Send(status, body).status = status /\ Send(status, body).body = body
  BY DEF Send
<1>2. \A status, body : body # "panic" => Send(status, body) # Panicked
  BY <1>1 DEF Panicked
<1>3. Panicked \in Response /\ Failed \in Response /\ Failed # Panicked
  BY <1>2 DEF Panicked, Failed, Send, Response
<1> QED BY <1>1, <1>2, <1>3

\* Every conversion of a response the application made gives a response, and no
\* server error but the response's own, or panics over a stream.
LEMMA ConvertedRight ==
    ASSUME NEW r \in Result, NEW thread, Explicit(r)
    PROVE  /\ Converted(r, thread) \in Response
           /\ Converted(r, thread).status >= 500 =>
                 r.status >= 500 \/ (r.kind = "json" /\ ~r.readable)
           /\ Converted(r, thread) = Panicked => r.kind = "stream" /\ thread \notin locals
           /\ r.kind = "stream" /\ thread \notin locals => Converted(r, thread) = Panicked
<1> USE DEF Converted, Response, Send, Code, Failed, Panicked
<1>1. CASE r.kind = "json"
      BY <1>1 DEF ConvertJson, Result
<1>2. CASE r.kind = "text"
      BY <1>2 DEF ConvertText, Result
<1>3. CASE r.kind = "html"
      BY <1>3 DEF ConvertHtml, Result
<1>4. CASE r.kind = "redirect"
      BY <1>4 DEF ConvertRedirect, Result
<1>5. CASE r.kind = "stream"
      BY <1>5 DEF ConvertStream, Result
<1> QED BY <1>1, <1>2, <1>3, <1>4, <1>5 DEF Explicit, Classes

\* The thread does not matter, except whether it can make a stream.
LEMMA ThreadsAgree ==
    ASSUME NEW h, NEW r, NEW t1, NEW t2,
           r.kind = "stream" => (t1 \in locals <=> t2 \in locals)
    PROVE  Specialized(h, r, t1) = Specialized(h, r, t2)
<1>1. ConvertStream(r, t1) = ConvertStream(r, t2) \/ r.kind # "stream"
  BY DEF ConvertStream
<1>2. Explicit(r) => Converted(r, t1) = Converted(r, t2)
  BY <1>1 DEF Converted, Explicit, Classes
<1> QED BY <1>2 DEF Specialized, ByType

\* What a server error of the common conversion comes from.
Blamed(h, r) ==
    \/ Explicit(r) /\ r.status >= 500
    \/ r.kind = "json" /\ ~r.readable
    \/ h.status >= 500
    \/ ResponseType(h) = "text" /\ r.kind # "str"
    \/ ResponseType(h) \in {"html", "redirect"} /\ ~Explicit(r)
    \/ h.model /\ ~r.fits

\* The common conversion gives a response, and a server error for a reason only; a
\* stream that cannot be made is an error of some kind.
LEMMA SpecializedRight ==
    ASSUME NEW h \in Handlers, NEW r \in Result, NEW thread, r.kind # "raised"
    PROVE  /\ Specialized(h, r, thread) \in Response
           /\ Specialized(h, r, thread).status >= 500 => Blamed(h, r)
           /\ Specialized(h, r, thread) = Panicked => r.kind = "stream" /\ thread \notin locals
           /\ r.kind = "stream" /\ thread \notin locals =>
                 Specialized(h, r, thread) \in {Failed, Panicked}
<1>0. h \in Handler /\ (h.status = 0 \/ h.status \in 100 .. 999)
      BY ResponsesAssumption
<1> USE DEF Specialized
<1>1. CASE ResponseType(h) = "text"
  <2>1. CASE r.kind = "str"
    BY <1>1, <2>1, PanickedIsNone DEF Response, Send
  <2>2. CASE r.kind # "str"
    BY <1>1, <2>2, PanickedIsNone DEF Blamed
  <2> QED BY <2>1, <2>2
<1>2. CASE ResponseType(h) # "text" /\ r.kind = "none"
  <2>1. Specialized(h, r, thread) = Send(OrElse(h.status, 204), "none")
    BY <1>2 DEF ByType
  <2>2. OrElse(h.status, 204) \in 0 .. 999 /\ (OrElse(h.status, 204) >= 500 => h.status >= 500)
    BY <1>0 DEF OrElse
  <2> HIDE DEF Specialized
  <2> QED BY <1>2, <2>1, <2>2, PanickedIsNone DEF Response, Send, Blamed
<1>3. CASE ResponseType(h) # "text" /\ r.kind # "none" /\ Explicit(r)
      BY <1>3, ConvertedRight DEF ByType, Blamed
<1>4. CASE ResponseType(h) # "text" /\ r.kind # "none" /\ ~Explicit(r)
  <2>1. r.kind \notin {"html", "redirect", "stream"}
        BY <1>4 DEF Explicit, Classes
  <2>2. CASE h.model /\ ~r.fits
        BY <1>4, <2>1, <2>2, PanickedIsNone DEF ByType, Blamed
  <2>3. CASE ~(h.model /\ ~r.fits) /\ ResponseType(h) \in {"html", "redirect"}
        BY <1>4, <2>1, <2>3, PanickedIsNone DEF ByType, Blamed, ConvertHtml, ConvertRedirect
  <2>4. CASE ~(h.model /\ ~r.fits) /\ ResponseType(h) \notin {"html", "redirect"}
    <3>1. Specialized(h, r, thread) = Send(OrElse(h.status, 200), "json")
      BY <1>4, <2>4 DEF ByType
    <3>2. OrElse(h.status, 200) \in 0 .. 999 /\ (OrElse(h.status, 200) >= 500 => h.status >= 500)
      BY <1>0 DEF OrElse
    <3> HIDE DEF Specialized
    <3> QED BY <2>1, <3>1, <3>2, PanickedIsNone DEF Response, Send, Blamed
  <2> QED BY <2>2, <2>3, <2>4
<1> QED BY <1>1, <1>2, <1>3, <1>4

\* A panic that is caught is a server error like another, and only a stream panics.
LEMMA CaughtRight ==
    ASSUME NEW response \in Response, NEW thread
    PROVE  /\ Caught(response, thread) \in Response
           /\ response # Panicked => Caught(response, thread) = response
           /\ response = Panicked => Caught(response, thread) \in {Failed, Panicked}
           /\ Caught(response, thread) = Panicked =>
                 response = Panicked /\ (app.aborts \/ (thread # "pool" /\ ~app.catchPanics))
BY PanickedIsNone DEF Caught

\* A call of the handler, by build_router or for a request: what comes of the
\* conversion, and of its panic if it is caught.
LEMMA RenderedRight ==
    ASSUME TypeOK, NEW r \in Results, NEW thread \in Threads, NEW by \in {"cache", "handler"},
           NEW response,
           \/ response = Rendered(handler, r, thread)
           \/ Rendered(handler, r, thread) = Panicked /\ response = Failed
    PROVE  LET e == Answer(by, thread, r, response)
           IN  e.response \in Response /\ Alike(e) /\ Explained(e)
<1> DEFINE e == Answer(by, thread, r, response)
           given == Rendered(handler, r, thread)
<1>0. /\ r \in Result /\ handler \in Handlers
      /\ handler.status = 0 \/ handler.status \in 100 .. 999
      /\ e.response = response /\ e.result = r /\ e.by # "middleware" /\ e.thread = thread
      BY ResponsesAssumption DEF TypeOK, Answer
<1> HIDE DEF e
<1>1. CASE r.kind = "raised"
  <2>1. given = Raised(r) /\ given # Panicked
    BY <1>1, PanickedIsNone DEF Rendered, Raised
  <2>2. response = Raised(r) /\ response # Panicked
    BY <2>1
  <2>3. response \in Response
    BY <1>0, <2>2 DEF Raised, Send, Response, Result
  <2>4. Alike(e)
    BY <1>0, <1>1 DEF Alike
  <2>5. Explained(e)
    BY <1>0, <1>1 DEF Explained
  <2> QED BY <1>0, <2>3, <2>4, <2>5 DEF e
<1>2. CASE r.kind # "raised" /\ IsFast(handler)
  <2>1. given = Fast(handler, r) /\ given # Panicked
        BY <1>2, PanickedIsNone DEF Rendered, Fast
  <2>2. response = Fast(handler, r) /\ response # Panicked
        BY <2>1
  <2>3. Fast(handler, r) \in Response
        BY <1>0 DEF Fast, Response, Send, OrElse
  <2>4. Fast(handler, r).status >= 500 => handler.status >= 500
        BY <1>0 DEF Fast, Send, OrElse
  <2>5. ASSUME ~Explicit(r) PROVE \A t \in Threads : Fast(handler, r) = Specialized(handler, r, t)
        BY <1>2, <2>5 DEF Fast, Specialized, ByType, IsFast
  <2>6. ~Explicit(r) => r.kind # "stream"
        BY DEF Explicit, Classes
  <2>7. Alike(e)
        BY <1>0, <1>2, <2>2, <2>5, <2>6 DEF Alike, NoStream
  <2>8. Explained(e)
        BY <1>0, <2>2, <2>4 DEF Explained
  <2> QED BY <1>0, <2>2, <2>3, <2>7, <2>8 DEF e
<1>3. CASE r.kind # "raised" /\ ~IsFast(handler)
  <2>1. given = Specialized(handler, r, thread)
        BY <1>3 DEF Rendered
  <2> HIDE DEF given
  <2>2. /\ given \in Response
        /\ given.status >= 500 => Blamed(handler, r)
        /\ given = Panicked => r.kind = "stream" /\ thread \notin locals
        /\ r.kind = "stream" /\ thread \notin locals => given \in {Failed, Panicked}
        BY <1>0, <1>3, <2>1, SpecializedRight
  <2>3. response = given \/ (given = Panicked /\ response = Failed)
        BY DEF given
  <2>4. NoStream(e) <=> r.kind = "stream" /\ thread \notin locals
        BY <1>0 DEF NoStream
  <2>5. Alike(e)
    <3>1. NoStream(e) => response \in {Failed, Panicked}
          BY <2>2, <2>3, <2>4
    <3>2. ASSUME ~NoStream(e), NEW t \in Threads, r.kind = "stream" => t \in locals
          PROVE  response = Specialized(handler, r, t)
      <4>1. response = given
            BY <2>2, <2>3, <2>4, <3>2
      <4>2. Specialized(handler, r, t) = Specialized(handler, r, thread)
            BY <2>4, <3>2, ThreadsAgree
      <4> QED BY <2>1, <4>1, <4>2
    <3> QED BY <1>0, <3>1, <3>2 DEF Alike
  <2>6. Explained(e)
    <3>1. CASE NoStream(e)
          BY <3>1 DEF Explained
    <3>2. CASE ~NoStream(e)
      <4>1. response = given /\ response # Panicked
            BY <2>2, <2>3, <2>4, <3>2
      <4> QED BY <1>0, <2>2, <4>1 DEF Explained, Blamed
    <3> QED BY <3>1, <3>2
  <2>7. response \in Response
        BY <2>2, <2>3, PanickedIsNone
  <2> QED BY <1>0, <2>5, <2>6, <2>7 DEF e
<1> QED BY <1>1, <1>2, <1>3

\* The answer of a middleware.
LEMMA RefusedRight ==
    ASSUME NEW r \in Results, r.kind # "none", NEW response,
           \/ response = Refusal(r)
           \/ Refusal(r) = Panicked /\ response = Failed
    PROVE  /\ response \in Response /\ Refusal(r) \in Response
           /\ Explained(Answer("middleware", "pool", r, response))
<1> DEFINE e == Answer("middleware", "pool", r, response)
           given == Refusal(r)
<1>0. /\ r \in Result /\ e.result = r /\ e.thread = "pool" /\ e.response = response
      /\ given = IF r.kind = "raised" THEN Send(500, "error") ELSE AutoResponse(r, "pool")
      BY ResponsesAssumption DEF Refusal, Answer
<1>r. response = given \/ (given = Panicked /\ response = Failed)
      OBVIOUS
<1> HIDE DEF e, given
<1>1. CASE r.kind = "raised"
  <2>1. given = Send(500, "error") /\ given # Panicked
        BY <1>0, <1>1, PanickedIsNone
  <2>2. given \in Response /\ response = given
        BY <1>r, <2>1 DEF Send, Response
  <2> QED BY <1>0, <1>1, <2>2 DEF Explained, e, given
<1>2. CASE r.kind # "raised" /\ Explicit(r)
  <2>1. given = Converted(r, "pool")
        BY <1>0, <1>2 DEF AutoResponse
  <2>2. /\ given \in Response
        /\ given.status >= 500 => r.status >= 500 \/ (r.kind = "json" /\ ~r.readable)
        /\ given = Panicked => r.kind = "stream" /\ "pool" \notin locals
        BY <1>0, <1>2, <2>1, ConvertedRight
  <2>3. response \in Response
        BY <1>r, <2>2, PanickedIsNone
  <2>4. CASE given = Panicked
        BY <1>0, <2>2, <2>3, <2>4 DEF Explained, NoStream, e, given
  <2>5. CASE given # Panicked
    <3>1. response = given
          BY <1>r, <2>5
    <3> QED BY <1>0, <1>2, <2>2, <2>3, <2>5, <3>1 DEF Explained, e, given
  <2> QED BY <2>4, <2>5
<1>3. CASE r.kind # "raised" /\ ~Explicit(r)
  <2>1. given = Send(200, "json")
        BY <1>0, <1>3 DEF AutoResponse
  <2>2. given # Panicked /\ given \in Response /\ given.status = 200
        BY <2>1, PanickedIsNone DEF Response, Send
  <2>3. response = given
        BY <1>r, <2>2
  <2>4. ~(response.status >= 500 \/ response = Panicked)
        BY <2>2, <2>3
  <2> QED BY <1>0, <2>2, <2>3, <2>4 DEF Explained, e, given
<1> QED BY <1>1, <1>2, <1>3

\* Before build_router has called the handler nobody was answered.
LEMMA ResponsesInvHoldsInitially ==
    ASSUME Init
    PROVE  ResponsesInv
BY DEF Init, ResponsesInv, TypeOK, CacheInv, ConvertedAlike, ErrorsExplained, Answering, ByHandler

\* What is said of an exchange depends on nothing that a step changes.
LEMMA ExchangesKeep ==
    ASSUME UNCHANGED <<handler, app, locals>>, NEW e
    PROVE  /\ Alike(e) => Alike(e)'
           /\ Explained(e) => Explained(e)'
<1>1. /\ IsFast(handler)' = IsFast(handler)
      /\ ResponseType(handler)' = ResponseType(handler)
      BY DEF IsFast, ResponseType
<1>2. \A t : Converted(e.result, t)' = Converted(e.result, t)
      BY DEF Converted, ConvertJson, ConvertText, ConvertHtml, ConvertRedirect, ConvertStream
<1>3. \A t : Specialized(handler, e.result, t)' = Specialized(handler, e.result, t)
      BY <1>1, <1>2 DEF Specialized, ByType, ConvertHtml, ConvertRedirect
<1>4. NoStream(e)' = NoStream(e)
      BY DEF NoStream
<1>5. Alike(e) => Alike(e)'
      BY <1>1, <1>3, <1>4 DEF Alike, Explicit
<1>6. Explained(e) => Explained(e)'
      BY <1>1, <1>4 DEF Explained, Explicit
<1> QED BY <1>5, <1>6

\* The properties, by their parts.
LEMMA Parts ==
    /\ ErrorsExplained <=> (exchange # Nothing => Explained(exchange) /\ Closed(exchange))
    /\ ConvertedAlike <=> (exchange # Nothing /\ exchange.by # "middleware" => Alike(exchange))
BY DEF ErrorsExplained, ConvertedAlike, Answering, ByHandler, Closed

\* A new answer keeps the invariant if it is right itself.
LEMMA ExchangeKeeps ==
    ASSUME ResponsesInv,
           NEW by \in {"handler", "middleware"}, NEW thread \in {"task", "pool"},
           NEW r \in Results, NEW response \in Response,
           Exchange(by, thread, r, response),
           LET e == Answer(by, thread, r, Caught(response, thread))
           IN  Explained(e) /\ (by # "middleware" => Alike(e))
    PROVE  ResponsesInv'
<1>0. PICK e : e = Answer(by, thread, r, Caught(response, thread))
      OBVIOUS
<1>1. /\ server = "serving" /\ exchange' = e
      /\ server' = IF Survives(response) THEN server ELSE "aborted"
      /\ UNCHANGED <<handler, app, locals, cached>>
      BY <1>0 DEF Exchange
<1>2. /\ e.by = by /\ e.thread = thread /\ e.result = r
      /\ e.response = Caught(response, thread)
      BY <1>0 DEF Answer
<1>3. Explained(e) /\ (e.by # "middleware" => Alike(e))
      BY <1>0, <1>2
<1>4. /\ Caught(response, thread) \in Response
      /\ Caught(response, thread) = Panicked =>
            response = Panicked /\ (app.aborts \/ (thread # "pool" /\ ~app.catchPanics))
      BY CaughtRight
<1>5. TypeOK'
  <2>1. e \in [by : {"cache", "handler", "middleware"}, thread : Threads, result : Results,
                response : Response]
        BY <1>0, <1>4 DEF Answer, Threads
  <2>2. server' \in {"declared", "serving", "panicked", "aborted"}
        BY <1>1
  <2> QED BY <1>1, <2>1, <2>2 DEF ResponsesInv, TypeOK
<1>6. Closed(e)'
  <2>1. CASE Caught(response, thread) = Panicked
    <3>1. response = Panicked /\ (app.aborts \/ (thread = "task" /\ ~app.catchPanics))
          BY <1>4, <2>1
    <3>2. server' = IF app.aborts THEN "aborted" ELSE "serving"
          BY <1>1, <3>1 DEF Survives
    <3> QED BY <1>1, <1>2, <3>1, <3>2 DEF Closed
  <2>2. CASE Caught(response, thread) # Panicked
    <3>1. e.response # Panicked
          BY <1>2, <2>2
    <3> QED BY <3>1 DEF Closed, Panicked, Send
  <2> QED BY <2>1, <2>2
<1>7. Explained(e)' /\ (e.by # "middleware" => Alike(e)')
      BY <1>1, <1>3, ExchangesKeep
<1>8. Explained(exchange)' /\ Closed(exchange)'
      BY <1>1, <1>6, <1>7 DEF Explained, Closed, NoStream
<1>9. (exchange.by # "middleware")' => Alike(exchange)'
      BY <1>1, <1>7 DEF Alike, NoStream
<1>10. CacheInv'
      BY <1>1, ExchangesKeep DEF ResponsesInv, CacheInv
<1>11. ErrorsExplained' /\ ConvertedAlike'
      BY <1>8, <1>9 DEF ErrorsExplained, ConvertedAlike, Answering, ByHandler, Closed
<1> QED BY <1>5, <1>10, <1>11 DEF ResponsesInv

\* Every step preserves ResponsesInv.
LEMMA ResponsesInvIsInductive ==
    ASSUME ResponsesInv, [Next]_vars
    PROVE  ResponsesInv'
<1>1. CASE Build
  <2>1. UNCHANGED <<handler, app, locals, exchange>> /\ server = "declared"
        BY <1>1 DEF Build
  <2>2. exchange # Nothing => exchange.response # Panicked
        BY <2>1, Parts DEF ResponsesInv, Closed
  <2>3. ConvertedAlike' /\ ErrorsExplained'
        BY <2>1, <2>2, ExchangesKeep, Parts
           DEF ResponsesInv, ConvertedAlike, ErrorsExplained, ByHandler, Answering, Panicked, Send
  <2>4. server' \in {"serving", "aborted", "panicked"}
        BY <1>1 DEF Build
  <2>5. CASE UNCHANGED cached
        BY <2>1, <2>3, <2>4, <2>5, ExchangesKeep DEF ResponsesInv, TypeOK, CacheInv
  <2>6. CASE cached' # cached
    <3>1. PICK r \in Results : /\ Rendered(handler, r, "main") # Panicked
                               /\ cached' = Answer("cache", "main", r, Rendered(handler, r, "main"))
          BY <1>1, <2>6 DEF Build
    <3> DEFINE e == Answer("cache", "main", r, Rendered(handler, r, "main"))
    <3>2. e.response \in Response /\ Alike(e) /\ Explained(e)
          BY RenderedRight DEF ResponsesInv, Threads
    <3>3. e \in [by : {"cache"}, thread : {"main"}, result : Results, response : Response \ {Panicked}]
          BY <3>1, <3>2 DEF Answer
    <3> HIDE DEF e
    <3>4. cached' = e
          BY <3>1 DEF e
    <3>5. CacheInv'
          BY <2>1, <3>2, <3>4, ExchangesKeep DEF CacheInv
    <3>6. TypeOK'
          BY <2>1, <2>4, <3>3, <3>4 DEF ResponsesInv, TypeOK
    <3> QED BY <2>3, <3>5, <3>6 DEF ResponsesInv
  <2> QED BY <2>5, <2>6
<1>2. CASE Replay
  <2>1. /\ UNCHANGED <<handler, app, locals, server, cached>> /\ exchange' = cached
        /\ cached # Nothing
        BY <1>2 DEF Replay
  <2>2. cached.response # Panicked /\ cached.thread = "main" /\ cached.by = "cache"
        BY <2>1 DEF ResponsesInv, TypeOK
  <2>3. TypeOK'
        BY <2>1 DEF ResponsesInv, TypeOK, Threads
  <2>4. Alike(cached)' /\ Explained(cached)'
        BY <2>1, ExchangesKeep DEF ResponsesInv, CacheInv
  <2>5. CacheInv'
        BY <2>4 DEF CacheInv
  <2>6. ConvertedAlike'
        BY <2>1, <2>4 DEF ConvertedAlike, ByHandler, Answering, Alike, NoStream
  <2>7. ErrorsExplained'
        BY <2>1, <2>2, <2>4 DEF ErrorsExplained, Answering, Explained, NoStream, Panicked, Send
  <2> QED BY <2>3, <2>5, <2>6, <2>7 DEF ResponsesInv
<1>3. ASSUME NEW r \in Results, Refuse(r)
      PROVE  ResponsesInv'
  <2>1. r.kind # "none" /\ Exchange("middleware", "pool", r, Refusal(r))
        BY <1>3 DEF Refuse
  <2>2. Refusal(r) \in Response
        BY <2>1, RefusedRight
  <2>3. /\ Caught(Refusal(r), "pool") = Refusal(r)
           \/ (Refusal(r) = Panicked /\ Caught(Refusal(r), "pool") = Failed)
        BY <2>2, CaughtRight
  <2>4. Explained(Answer("middleware", "pool", r, Caught(Refusal(r), "pool")))
        BY <2>1, <2>3, RefusedRight
  <2> QED BY <2>1, <2>2, <2>4, ExchangeKeeps
<1>4. ASSUME NEW r \in Results, Call(r)
      PROVE  ResponsesInv'
  <2> DEFINE thread == Place(handler)
             response == Rendered(handler, r, thread)
             e == Answer("handler", thread, r, Caught(response, thread))
  <2>1. Exchange("handler", thread, r, response) /\ thread \in {"task", "pool"}
        BY <1>4 DEF Call, Place
  <2> HIDE DEF thread
  <2>2. response \in Response
    <3>1. Answer("handler", thread, r, response).response \in Response
          BY <2>1, RenderedRight DEF ResponsesInv, Threads
    <3> QED BY <3>1 DEF Answer
  <2>3. Caught(response, thread) = response \/ (response = Panicked /\ Caught(response, thread) = Failed)
        BY <2>2, CaughtRight
  <2>4. Alike(e) /\ Explained(e)
        BY <2>1, <2>3, RenderedRight DEF ResponsesInv, Threads
  <2> HIDE DEF response
  <2> QED BY <2>1, <2>2, <2>4, ExchangeKeeps
<1>5. CASE UNCHANGED vars
  <2>1. UNCHANGED <<handler, app, locals, server, cached, exchange>>
        BY <1>5 DEF vars
  <2> QED BY <2>1, ExchangesKeep
          DEF ResponsesInv, TypeOK, CacheInv, ConvertedAlike, ErrorsExplained, ByHandler, Answering
<1> QED BY <1>1, <1>2, <1>3, <1>4, <1>5 DEF Next

\* ResponsesInv holds in every reachable state: the result that build_router keeps
\* and the last answer are each one that the handler or a middleware accounts for.
THEOREM ResponsesInvariance == Spec => []ResponsesInv
<1>1. Init => ResponsesInv
      BY ResponsesInvHoldsInitially
<1>2. ResponsesInv /\ [Next]_vars => ResponsesInv'
      BY ResponsesInvIsInductive
<1> QED BY <1>1, <1>2, PTL DEF Spec

\* For every handler and result: precomputed, called for a request, on the loop or
\* in the thread pool, a result is converted alike (convert_response_by_type), but for
\* the fast way's response objects and for a stream on a thread without task locals.
THEOREM ConversionIsAlike == Spec => []ConvertedAlike
<1>1. ResponsesInv => ConvertedAlike
      BY DEF ResponsesInv
<1> QED BY <1>1, ResponsesInvariance, PTL

\* For every handler and result: a server error, or a connection closed without an
\* answer, is raised or declared by the application, is a result that the type of the
\* handler does not allow, or is a stream converted without task locals.
THEOREM ErrorsAreExplained == Spec => []ErrorsExplained
<1>1. ResponsesInv => ErrorsExplained
      BY DEF ResponsesInv
<1> QED BY <1>1, ResponsesInvariance, PTL
=============================================================================
