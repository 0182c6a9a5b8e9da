------------------------------ MODULE RateLimit ------------------------------
(***************************************************************************)
(* The per-route limiter of engine/server/rate_limit.rs: one fixed window  *)
(* of one second per handler and client address, in a DashMap whose entry  *)
(* guard is held while the window is examined.  Server threads run the     *)
(* function concurrently and the monotonic clock advances between any two  *)
(* of its steps.                                                           *)
(***************************************************************************)
EXTENDS Naturals, Sequences, FiniteSets

CONSTANTS
    Threads,    \* server threads
    Handlers,   \* routes that declare rate_limit
    Peers,      \* client addresses, the absent one (no ConnectInfo) included
    Limit,      \* Limit[h]: rate_limit_per_second of the route
    Shard,      \* Shard[k]: the DashMap shard that holds key k
    Second,     \* clock ticks in one second
    MaxClock    \* bound: the clock stops there

Key == Handlers \X Peers

ASSUME RateLimitAssumption ==
    /\ Limit \in [Handlers -> Nat]
    /\ DOMAIN Shard = Key
    /\ Second \in Nat \ {0}
    /\ MaxClock \in Nat

VARIABLES
    clock,      \* Instant::now()
    window,     \* RATE_LIMITS: window[k] is NoWindow or [start, count]
    thread,     \* where each thread is inside is_rate_limited
    verdict,    \* the last answer: [key, limited, at]
    admitted    \* history: the instants at which requests of k were admitted

vars == <<clock, window, thread, verdict, admitted>>

NoWindow == [start |-> 0, count |-> 0, live |-> FALSE]
Window(start, count) == [start |-> start, count |-> count, live |-> TRUE]
WindowType == [start : Nat, count : Nat, live : BOOLEAN]

Outside == [at |-> "outside"]
Entered(k) == [at |-> "entered", key |-> k]
Locked(k, now) == [at |-> "locked", key |-> k, now |-> now]

LimitOf(k) == Limit[k[1]]

TypeOK ==
    /\ clock \in Nat
    /\ window \in [Key -> WindowType]
    /\ \A k \in Key : window[k].count <= LimitOf(k)
    /\ thread \in [Threads -> {Outside} \union [at : {"entered"}, key : Key]
                                \union [at : {"locked"}, key : Key, now : Nat]]
    /\ verdict \in {Outside} \union [key : Key, limited : BOOLEAN, at : Nat]
    /\ admitted \in [Key -> Seq(Nat)]

Init ==
    /\ clock = 0
    /\ window = [k \in Key |-> NoWindow]
    /\ thread = [t \in Threads |-> Outside]
    /\ verdict = Outside
    /\ admitted = [k \in Key |-> <<>>]

Tick ==
    /\ clock < MaxClock
    /\ clock' = clock + 1
    /\ UNCHANGED <<window, thread, verdict, admitted>>

\* A limit of zero refuses before the map is looked at.
RefuseAll(t, k) ==
    /\ thread[t] = Outside
    /\ LimitOf(k) = 0
    /\ verdict' = [key |-> k, limited |-> TRUE, at |-> clock]
    /\ UNCHANGED <<clock, window, thread, admitted>>

ShardFree(k) ==
    \A t \in Threads : thread[t] # Outside => Shard[thread[t].key] # Shard[k]

\* Mutant: no guard is held, two threads are inside one window.
EnterUnguarded(t, k) ==
    /\ thread[t] = Outside
    /\ LimitOf(k) > 0
    /\ thread' = [thread EXCEPT ![t] = Entered(k)]
    /\ window' = IF window[k].live THEN window
                 ELSE [window EXCEPT ![k] = Window(clock, 0)]
    /\ UNCHANGED <<clock, verdict, admitted>>

\* limits.entry(key).or_insert_with(..): the guard it returns locks the shard.
Enter(t, k) ==
    /\ thread[t] = Outside
    /\ LimitOf(k) > 0
    /\ ShardFree(k)
    /\ thread' = [thread EXCEPT ![t] = Entered(k)]
    /\ window' = IF window[k].live THEN window
                 ELSE [window EXCEPT ![k] = Window(clock, 0)]
    /\ UNCHANGED <<clock, verdict, admitted>>

\* bucket.lock(), then Instant::now().
Lock(t) ==
    /\ thread[t].at = "entered"
    /\ thread' = [thread EXCEPT ![t] = Locked(thread[t].key, clock)]
    /\ UNCHANGED <<clock, window, verdict, admitted>>

\* Mutant: > for >= in the comparison with the clock.
RefreshedLate(w, now) == IF now > w.start + Second THEN Window(now, 0) ELSE w

\* The window as the thread leaves it before it counts the request.
Refreshed(w, now) == IF now >= w.start + Second THEN Window(now, 0) ELSE w

\* Mutant: > for >= in the comparison with the limit.
DecideOverLimit(t) ==
    /\ thread[t].at = "locked"
    /\ LET k == thread[t].key
           now == thread[t].now
           w == Refreshed(window[k], now)
           limited == w.count > LimitOf(k)
       IN  /\ window' = [window EXCEPT
                           ![k] = IF limited THEN w ELSE Window(w.start, w.count + 1)]
           /\ admitted' = [admitted EXCEPT
                           ![k] = IF limited THEN admitted[k] ELSE Append(admitted[k], now)]
           /\ verdict' = [key |-> k, limited |-> limited, at |-> now]
    /\ thread' = [thread EXCEPT ![t] = Outside]
    /\ UNCHANGED clock

\* The answer, and the guard is dropped.
Decide(t) ==
    /\ thread[t].at = "locked"
    /\ LET k == thread[t].key
           now == thread[t].now
           w == Refreshed(window[k], now)
           limited == w.count >= LimitOf(k)
       IN  /\ window' = [window EXCEPT
                           ![k] = IF limited THEN w ELSE Window(w.start, w.count + 1)]
           /\ admitted' = [admitted EXCEPT
                           ![k] = IF limited THEN admitted[k] ELSE Append(admitted[k], now)]
           /\ verdict' = [key |-> k, limited |-> limited, at |-> now]
    /\ thread' = [thread EXCEPT ![t] = Outside]
    /\ UNCHANGED clock

Next ==
    \/ Tick
    \/ \E t \in Threads :
         \/ Lock(t)
         \/ Decide(t)
         \/ \E k \in Key : RefuseAll(t, k) \/ Enter(t, k)

Spec == Init /\ [][Next]_vars

-----------------------------------------------------------------------------
(* Properties.                                                             *)

\* Any second, wherever it starts, admits at most twice the limit: of any
\* 2 * limit + 1 admissions in a row of one client on one route, the first and
\* the last are at least a second apart.  (The limit itself holds only for
\* seconds that start with a window.)
SlidingBound ==
    \A k \in Key : \A i \in 1 .. Len(admitted[k]) :
        i + 2 * LimitOf(k) <= Len(admitted[k])
            => admitted[k][i + 2 * LimitOf(k)] >= admitted[k][i] + Second

\* A request is refused only if its own client was admitted the full limit on
\* its own route within the second before: no other client, no other route and
\* no thread waiting between the clock and the counter can use it up.
RefusalJustified ==
    verdict # Outside /\ verdict.limited =>
        LET hist == admitted[verdict.key]
            limit == LimitOf(verdict.key)
        IN  \* nothing is admitted between this refusal and the next verdict
            /\ Len(hist) >= limit
            /\ \A i \in Len(hist) - limit + 1 .. Len(hist) :
                   /\ hist[i] + Second > verdict.at
                   /\ hist[i] <= verdict.at

\* What the two bounds rest on: the admissions of a key are split by its window.
\* The last `count` of them lie in it, the others before it, and those more than
\* a full limit before it are a second older than it.
Split(k, hist, w) ==
    LET n == Len(hist)
        limit == LimitOf(k)
    IN  /\ w.count <= limit
        /\ w.count <= n
        /\ \A i \in 1 .. n : i > n - w.count => hist[i] >= w.start
        /\ \A i \in 1 .. n : i <= n - w.count => hist[i] <= w.start
        /\ \A i \in 1 .. n : i + limit <= n - w.count => hist[i] + Second <= w.start

\* Nothing of key k is later than instant now.
NotAfter(k, now) ==
    /\ window[k].start <= now
    /\ \A i \in 1 .. Len(admitted[k]) : admitted[k][i] <= now

\* One thread at a time is inside a shard, and it has seen no instant older than
\* what its key records.
Exclusion ==
    /\ \A t, u \in Threads :
          thread[t] # Outside /\ thread[u] # Outside
            /\ Shard[thread[t].key] = Shard[thread[u].key] => t = u
    /\ \A t \in Threads :
          /\ thread[t] # Outside => window[thread[t].key].live
          /\ thread[t].at = "locked" => /\ thread[t].now <= clock
                                       /\ NotAfter(thread[t].key, thread[t].now)

WindowInv ==
    /\ Exclusion
    /\ \A k \in Key :
          /\ NotAfter(k, clock)
          /\ ~window[k].live => window[k].count = 0 /\ admitted[k] = <<>>
          /\ Split(k, admitted[k], window[k])
=============================================================================
