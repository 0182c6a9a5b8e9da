----------------------------- MODULE MCResponses -----------------------------
(***************************************************************************)
(* An instance of Responses for TLC: every kind of handler and of result,  *)
(* with and without task locals on each thread.                            *)
(***************************************************************************)
EXTENDS Responses

MCResult(kind, status) == [kind |-> kind, status |-> status, readable |-> TRUE, fits |-> TRUE]

\* Codes that the conversions tell apart; 1000 is none.
MCResults ==
    {MCResult(kind, 200) : kind \in {"none", "str", "data"}}
    \union {[MCResult("data", 200) EXCEPT !.fits = FALSE]}
    \union {MCResult("raised", status) : status \in {404, 1000}}
    \union {MCResult("json", status) : status \in {201, 500, 1000}}
    \union {MCResult("redirect", status) : status \in {301, 303}}
    \union {[MCResult(kind, 201) EXCEPT !.readable = readable] :
               kind \in {"text", "html", "stream"}, readable \in BOOLEAN}
    \union {[MCResult("json", 201) EXCEPT !.readable = FALSE]}

\* The handlers whose annotation counts, and those with a response_class.
MCHandlers ==
    {h \in [returns : {"none", "str", "text", "html", "redirect", "other"},
            class : {"none", "json", "text", "html", "redirect", "other"},
            model : BOOLEAN, status : {0, 201}, mode : {"sync", "async", "sync args"},
            braces : BOOLEAN, cache : BOOLEAN] :
        /\ h.class # "none" => h.returns = "none"
        /\ h.model => h.status = 0
        /\ h.mode = "async" => ~h.braces
        /\ h.mode = "sync args" => h.braces}
=============================================================================
