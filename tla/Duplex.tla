------------------------------- MODULE Duplex -------------------------------
(***************************************************************************)
(* What a WebSocket connection promises to its two ends, whatever carries  *)
(* the messages: each direction is a FIFO channel without duplication or   *)
(* gap, and when the connection is cut each direction loses a suffix of    *)
(* what was in flight and nothing more is given to the client.             *)
(***************************************************************************)
EXTENDS Sequences, SequencesExt

CONSTANT Message

VARIABLES
    up,      \* in flight from the client to the application
    down,    \* in flight from the application to the client
    taken,   \* what the application has received
    given,   \* what the client has been sent
    open     \* FALSE once the connection is cut

vars == <<up, down, taken, given, open>>

Init ==
    /\ up = <<>>
    /\ down = <<>>
    /\ taken = <<>>
    /\ given = <<>>
    /\ open = TRUE

PutUp(m) ==
    /\ open
    /\ up' = Append(up, m)
    /\ UNCHANGED <<down, taken, given, open>>

\* What the application has not taken yet survives a cut.
TakeUp ==
    /\ up # <<>>
    /\ taken' = Append(taken, Head(up))
    /\ up' = Tail(up)
    /\ UNCHANGED <<down, given, open>>

PutDown(m) ==
    /\ open
    /\ down' = Append(down, m)
    /\ UNCHANGED <<up, taken, given, open>>

GiveDown ==
    /\ open
    /\ down # <<>>
    /\ given' = Append(given, Head(down))
    /\ down' = Tail(down)
    /\ UNCHANGED <<up, taken, open>>

\* The cut may come with the last message given to the client (a close frame).
Cut ==
    /\ open
    /\ open' = FALSE
    /\ up' \in Prefixes(up)
    /\ down' = <<>>
    /\ given' \in {given} \union {Append(given, m) : m \in {down[i] : i \in DOMAIN down \intersect {1}}}
    /\ UNCHANGED taken

Next ==
    \/ \E m \in Message : PutUp(m) \/ PutDown(m)
    \/ TakeUp
    \/ GiveDown
    \/ Cut

Spec == Init /\ [][Next]_vars
=============================================================================
