----------------------------- MODULE MCWebSocket -----------------------------
(***************************************************************************)
(* Instances of WebSocket for TLC.                                         *)
(***************************************************************************)
EXTENDS WebSocket

CONSTANTS handler, helper, reader

\* The handler and two tasks it started: two of them send, two receive, and one
\* does nothing but receive.
SharedCalls ==
    (handler :> {"send", "close"}) @@ (helper :> {"send", "receive"}) @@ (reader :> {"receive"})

\* One task, as the echo handlers of the tests.
EchoCalls == handler :> {"send", "close", "receive"}
=============================================================================
