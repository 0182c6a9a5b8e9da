------------------------------ MODULE Selection -------------------------------
(***************************************************************************)
(* The elements of a sequence that are in a set, in their order: what a    *)
(* loop that pushes some of what it passes has collected.  This is         *)
(* SelectSeq with a set for its test; SelectionProofs has its facts.       *)
(***************************************************************************)
EXTENDS Naturals, Sequences

\* OnlyUpTo(s, T)[n]: what the first n elements leave.
OnlyUpTo(s, T) ==
    LET upTo[n \in 0 .. Len(s)] ==
            IF n = 0 THEN <<>>
            ELSE IF s[n] \in T THEN Append(upTo[n - 1], s[n])
            ELSE upTo[n - 1]
    IN  upTo

Only(s, T) == OnlyUpTo(s, T)[Len(s)]
=============================================================================
