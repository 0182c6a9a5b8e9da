--------------------------- MODULE RateLimitProofs ---------------------------
(***************************************************************************)
(* The bounds of the limiter for any number of threads, routes, clients    *)
(* and shards, any limits, any length of a second and any clock.           *)
(***************************************************************************)
EXTENDS RateLimit, TLAPS

-----------------------------------------------------------------------------
(* Facts about one key, without the state.                                 *)

\* Hist is what one key has admitted up to an instant now.
Upto(hist, now) == \A i \in 1 .. Len(hist) : hist[i] <= now

\* SlidingBound for one key.
Sliding(k, hist) ==
    \A i \in 1 .. Len(hist) :
        i + 2 * LimitOf(k) <= Len(hist)
            => hist[i + 2 * LimitOf(k)] >= hist[i] + Second

LEMMA LimitType ==
    ASSUME NEW k \in Key
    PROVE  LimitOf(k) \in Nat
  BY RateLimitAssumption DEF LimitOf, Key

LEMMA AppendFacts ==
    ASSUME NEW hist \in Seq(Nat), NEW now \in Nat
    PROVE  /\ Append(hist, now) \in Seq(Nat)
           /\ Len(Append(hist, now)) = Len(hist) + 1
           /\ \A i \in 1 .. Len(hist) : Append(hist, now)[i] = hist[i]
           /\ Append(hist, now)[Len(hist) + 1] = now
  OBVIOUS

\* A window that is started over splits the same history.
LEMMA RefreshedSplit ==
    ASSUME NEW k \in Key, NEW hist \in Seq(Nat), NEW w \in WindowType, NEW now \in Nat,
           Split(k, hist, w), w.start <= now, Upto(hist, now)
    PROVE  /\ Refreshed(w, now) \in WindowType
           /\ Refreshed(w, now).start <= now
           /\ w.live => Refreshed(w, now).live
           /\ now < Refreshed(w, now).start + Second
           /\ Split(k, hist, Refreshed(w, now))
<1> DEFINE L == LimitOf(k)
           n == Len(hist)
<1>1. L \in Nat /\ Second \in Nat \ {0} /\ n \in Nat
  BY LimitType, RateLimitAssumption
<1>2. w.start \in Nat /\ w.count \in Nat
  BY DEF WindowType
<1>3. \A i \in 1 .. n : hist[i] \in Nat
  OBVIOUS
<1>4. CASE now >= w.start + Second
  <2> DEFINE r == Refreshed(w, now)
  <2>1. r = [start |-> now, count |-> 0, live |-> TRUE]
    BY <1>4 DEF Refreshed, Window
  <2>2. r \in WindowType /\ r.start = now /\ r.count = 0 /\ r.live
    BY <2>1 DEF WindowType
  <2> HIDE DEF r
  <2>3. ASSUME NEW i \in 1 .. n, i + L <= n
        PROVE  hist[i] + Second <= now
    <3>1. i <= n - w.count
      BY <1>1, <1>2, <2>3 DEF Split
    <3>2. hist[i] <= w.start
      BY <3>1 DEF Split
    <3> QED
      BY <1>1, <1>2, <1>3, <1>4, <3>2
  <2>4. Split(k, hist, r)
    BY <1>1, <1>3, <2>2, <2>3 DEF Split, Upto
  <2> QED
    BY <1>1, <2>2, <2>4 DEF r
<1>5. CASE ~(now >= w.start + Second)
  <2>1. Refreshed(w, now) = w
    BY <1>5 DEF Refreshed
  <2> QED
    BY <1>1, <1>2, <1>5, <2>1
<1> QED
  BY <1>4, <1>5

\* Admitting one more request keeps the split and the sliding bound.
LEMMA AdmittedSplit ==
    ASSUME NEW k \in Key, NEW hist \in Seq(Nat), NEW w \in WindowType, NEW now \in Nat,
           Split(k, hist, w), Sliding(k, hist), w.start <= now, Upto(hist, now),
           w.count < LimitOf(k)
    PROVE  /\ Split(k, Append(hist, now), Window(w.start, w.count + 1))
           /\ Sliding(k, Append(hist, now))
           /\ Upto(Append(hist, now), now)
<1> DEFINE h == Append(hist, now)
           L == LimitOf(k)
           n == Len(hist)
<1>1. L \in Nat /\ Second \in Nat \ {0} /\ n \in Nat
  BY LimitType, RateLimitAssumption
<1>2. h \in Seq(Nat) /\ Len(h) = n + 1 /\ h[n + 1] = now /\ \A i \in 1 .. n : h[i] = hist[i]
  BY AppendFacts
<1>3. /\ w.start \in Nat /\ w.count \in Nat
      /\ Window(w.start, w.count + 1).start = w.start
      /\ Window(w.start, w.count + 1).count = w.count + 1
  BY DEF WindowType, Window
<1>4. \A i \in 1 .. n : hist[i] \in Nat
  BY <1>1
<1> HIDE DEF h
<1> HIDE DEF L, n
<1>6. L \in Nat /\ n \in Nat /\ w.count < L /\ Len(hist) = n
  BY <1>1 DEF L, n
<1>5. Split(k, h, Window(w.start, w.count + 1))
  <2> DEFINE x == Window(w.start, w.count + 1)
  <2>1. x.count = w.count + 1 /\ x.start = w.start
    BY <1>3
  <2> HIDE DEF x
  <2>2. Len(h) - x.count = n - w.count
    BY <1>2, <1>3, <1>6, <2>1
  <2>3. w.count <= n
    BY <1>6 DEF Split
  <2>5. x.count <= L /\ x.count <= Len(h)
    BY <1>2, <1>3, <1>6, <2>1, <2>3
  <2>4. ASSUME NEW i \in 1 .. Len(h)
        PROVE  /\ i > n - w.count => h[i] >= w.start
               /\ i <= n - w.count => h[i] <= w.start
               /\ i + L <= n - w.count => h[i] + Second <= w.start
    <3>1. CASE i \in 1 .. n
      <4>1. h[i] = hist[i]
        BY <1>2, <3>1
      <4> QED
        BY <1>6, <3>1, <4>1 DEF Split, L
    <3>2. CASE i = n + 1
      BY <1>2, <1>3, <1>6, <3>2
    <3> QED
      BY <1>2, <1>6, <3>1, <3>2
  <2> QED
    BY <2>1, <2>2, <2>4, <2>5 DEF Split, L, x
<1>8. ASSUME NEW i \in 1 .. n + 1, i + 2 * L <= n + 1
      PROVE  h[i + 2 * L] >= h[i] + Second
  <2>1. CASE i + 2 * L <= n
    <3>1. i \in 1 .. n /\ i + 2 * L \in 1 .. n
      BY <1>6, <2>1
    <3>2. hist[i + 2 * L] >= hist[i] + Second
      BY <1>6, <2>1, <3>1 DEF Sliding, L
    <3> QED
      BY <1>2, <3>1, <3>2
  <2>2. CASE i + 2 * L = n + 1
    <3>1. w.count + 1 <= L /\ 1 <= L
      BY <1>3, <1>6
    <3>2. i \in 1 .. n /\ i + L <= n - w.count
      BY <1>3, <1>6, <2>2, <3>1
    <3>3. hist[i] + Second <= w.start
      BY <1>6, <3>2 DEF Split, L
    <3>4. hist[i] \in Nat
      BY <1>6, <3>2
    <3>5. h[i + 2 * L] = now /\ h[i] = hist[i]
      BY <1>2, <2>2, <3>2
    <3> QED
      BY <1>1, <1>3, <3>3, <3>4, <3>5
  <2> QED
    BY <1>6, <1>8, <2>1, <2>2
<1>7. Upto(h, now)
  BY <1>2, <1>4, <1>6 DEF Upto, n
<1>9. Sliding(k, h)
  BY <1>2, <1>8 DEF Sliding, L
<1> QED
  BY <1>5, <1>7, <1>9 DEF h

-----------------------------------------------------------------------------
(* The invariant.                                                          *)

Inv == TypeOK /\ WindowInv /\ SlidingBound /\ RefusalJustified

LEMMA InitInv == Init => Inv
<1> SUFFICES ASSUME Init PROVE Inv
  OBVIOUS
<1>1. \A k \in Key : LimitOf(k) \in Nat
  BY LimitType
<1>2. TypeOK
  BY <1>1 DEF Init, TypeOK, NoWindow, WindowType, Outside
<1>3. WindowInv
  BY <1>1 DEF Init, WindowInv, Exclusion, NotAfter, Split, NoWindow, Outside
<1>4. SlidingBound /\ RefusalJustified
  BY DEF Init, SlidingBound, RefusalJustified
<1> QED
  BY <1>2, <1>3, <1>4 DEF Inv

\* A thread inside the function is one of two records.
LEMMA ThreadType ==
    ASSUME TypeOK, NEW t \in Threads
    PROVE  /\ thread[t].at \in {"outside", "entered", "locked"}
           /\ thread[t].at = "outside" <=> thread[t] = Outside
           /\ thread[t] # Outside => thread[t].key \in Key
           /\ thread[t].at = "locked" => thread[t].now \in Nat
           /\ thread[t].at = "entered" => thread[t] = Entered(thread[t].key)
           /\ thread[t].at = "locked" => thread[t] = Locked(thread[t].key, thread[t].now)
  BY DEF TypeOK, Outside, Entered, Locked

LEMMA TickStep == Inv /\ Tick => Inv'
<1> SUFFICES ASSUME Inv, Tick PROVE Inv'
  OBVIOUS
<1>1. TypeOK'
  BY DEF Inv, TypeOK, Tick
<1>2. WindowInv'
  <2>1. clock \in Nat /\ clock' = clock + 1
    BY DEF Inv, TypeOK, Tick
  <2>2. \A k \in Key : window[k].start \in Nat /\ \A i \in 1 .. Len(admitted[k]) : admitted[k][i] \in Nat
    BY DEF Inv, TypeOK, WindowType
  <2>3. \A k \in Key : NotAfter(k, clock)'
    BY <2>1, <2>2 DEF Inv, WindowInv, NotAfter, Tick
  <2>4. \A t \in Threads : thread[t].at = "locked" => thread[t].now \in Nat
    BY ThreadType DEF Inv
  <2>5. Exclusion'
    BY <2>1, <2>4 DEF Inv, WindowInv, Exclusion, NotAfter, Tick
  <2> QED
    BY <2>3, <2>5 DEF Inv, WindowInv, Split, LimitOf, Tick
<1>3. SlidingBound' /\ RefusalJustified'
  BY DEF Inv, SlidingBound, RefusalJustified, LimitOf, Tick
<1> QED
  BY <1>1, <1>2, <1>3 DEF Inv

LEMMA RefuseAllStep ==
    ASSUME Inv, NEW t \in Threads, NEW k \in Key, RefuseAll(t, k)
    PROVE  Inv'
<1>1. TypeOK'
  BY DEF Inv, TypeOK, RefuseAll
<1>2. WindowInv' /\ SlidingBound'
  BY DEF Inv, WindowInv, Exclusion, NotAfter, Split, SlidingBound, LimitOf, RefuseAll
<1>3. RefusalJustified'
  <2>1. Len(admitted[k]) \in Nat
    BY DEF Inv, TypeOK
  <2> QED
    BY <2>1 DEF RefusalJustified, LimitOf, RefuseAll
<1> QED
  BY <1>1, <1>2, <1>3 DEF Inv

LEMMA EnterStep ==
    ASSUME Inv, NEW t \in Threads, NEW k \in Key, Enter(t, k)
    PROVE  Inv'
<1>1. thread' = [thread EXCEPT ![t] = Entered(k)] /\ thread[t] = Outside
  BY DEF Enter
<1>2. /\ clock' = clock /\ verdict' = verdict /\ admitted' = admitted
      /\ clock \in Nat /\ LimitOf(k) \in Nat
  BY LimitType DEF Enter, Inv, TypeOK
<1>3. \A j \in Key : \/ window'[j] = window[j] /\ (j = k => window[k].live)
                     \/ j = k /\ ~window[k].live /\ window'[j] = Window(clock, 0)
  BY DEF Enter, Inv, TypeOK
<1>4. TypeOK'
  <2>1. window' \in [Key -> WindowType]
    BY <1>2 DEF Enter, Inv, TypeOK, Window, WindowType
  <2>2. \A j \in Key : window'[j].count <= LimitOf(j)'
    <3>1. \A j \in Key : LimitOf(j) \in Nat /\ LimitOf(j)' = LimitOf(j)
      BY LimitType DEF LimitOf
    <3>2. \A j \in Key : window[j].count <= LimitOf(j)
      BY DEF Inv, TypeOK
    <3> QED
      BY <1>3, <3>1, <3>2 DEF Window
  <2> QED
    BY <1>1, <1>2, <2>1, <2>2 DEF Inv, TypeOK, Entered
<1>5. \A j \in Key : /\ NotAfter(j, clock)'
                     /\ Split(j, admitted[j], window[j])'
                     /\ (~window[j].live => window[j].count = 0 /\ admitted[j] = <<>>)'
  <2> SUFFICES ASSUME NEW j \in Key
               PROVE  /\ NotAfter(j, clock)'
                      /\ Split(j, admitted[j], window[j])'
                      /\ (~window[j].live => window[j].count = 0 /\ admitted[j] = <<>>)'
    OBVIOUS
  <2>1. CASE window'[j] = window[j]
    BY <1>2, <2>1 DEF Inv, WindowInv, NotAfter, Split, LimitOf
  <2>2. CASE j = k /\ ~window[k].live /\ window'[j] = Window(clock, 0)
    <3>1. admitted'[j] = <<>> /\ Len(admitted'[j]) = 0
      BY <1>2, <2>2 DEF Inv, WindowInv
    <3>2. window'[j] = [start |-> clock, count |-> 0, live |-> TRUE]
      BY <2>2 DEF Window
    <3> QED
      BY <1>2, <2>2, <3>1, <3>2 DEF NotAfter, Split, LimitOf
  <2> QED
    BY <1>3, <2>1, <2>2
<1>6. Exclusion'
  <2>1. \A u \in Threads : thread'[u] = IF u = t THEN Entered(k) ELSE thread[u]
    BY <1>1 DEF Inv, TypeOK
  <2>2. Entered(k).key = k /\ Entered(k).at = "entered"
    BY DEF Entered
  <2>3. ASSUME NEW u \in Threads, NEW v \in Threads,
               thread'[u] # Outside, thread'[v] # Outside,
               Shard[thread'[u].key] = Shard[thread'[v].key]
        PROVE  u = v
    BY <2>1, <2>2, <2>3 DEF Inv, WindowInv, Exclusion, Enter, ShardFree
  <2>4. ASSUME NEW u \in Threads
        PROVE  /\ thread'[u] # Outside => window'[thread'[u].key].live
               /\ thread'[u].at = "locked" => /\ thread'[u].now <= clock'
                                             /\ NotAfter(thread[u].key, thread[u].now)'
    <3>1. CASE u = t
      <4>1. window'[k].live
        BY <1>3 DEF Window
      <4> QED
        BY <2>1, <2>2, <3>1, <4>1
    <3>2. CASE u # t
      <4>1. thread'[u] = thread[u]
        BY <2>1, <3>2
      <4>2. CASE thread[u] = Outside
        BY <4>1, <4>2 DEF Outside
      <4>3. CASE thread[u] # Outside
        <5>1. thread[u].key \in Key /\ thread[u].key # k
          BY <4>3, ThreadType DEF Inv, Enter, ShardFree
        <5>2. window'[thread[u].key] = window[thread[u].key]
          BY <1>3, <5>1
        <5> QED
          BY <1>2, <4>1, <4>3, <5>2 DEF Inv, WindowInv, Exclusion, NotAfter
      <4> QED
        BY <4>2, <4>3
    <3> QED
      BY <3>1, <3>2
  <2> QED
    BY <2>3, <2>4 DEF Exclusion
<1>7. SlidingBound' /\ RefusalJustified'
  BY <1>2 DEF Inv, SlidingBound, RefusalJustified, LimitOf
<1> QED
  BY <1>4, <1>5, <1>6, <1>7 DEF Inv, WindowInv

LEMMA LockStep ==
    ASSUME Inv, NEW t \in Threads, Lock(t)
    PROVE  Inv'
<1> DEFINE k == thread[t].key
<1>1. thread' = [thread EXCEPT ![t] = Locked(k, clock)] /\ thread[t].at = "entered"
  BY DEF Lock
<1>2. /\ clock' = clock /\ window' = window /\ verdict' = verdict /\ admitted' = admitted
      /\ clock \in Nat
  BY DEF Lock, Inv, TypeOK
<1>3. thread[t] # Outside /\ k \in Key
  BY <1>1, ThreadType DEF Inv, Outside
<1>4. TypeOK'
  BY <1>1, <1>2, <1>3 DEF Inv, TypeOK, Locked, LimitOf
<1>5. Exclusion'
  <2>1. \A u \in Threads : thread'[u] = IF u = t THEN Locked(k, clock) ELSE thread[u]
    BY <1>1 DEF Inv, TypeOK
  <2>2. /\ Locked(k, clock).key = k /\ Locked(k, clock).at = "locked"
        /\ Locked(k, clock).now = clock
    BY DEF Locked
  <2>3. NotAfter(k, clock)
    BY <1>3 DEF Inv, WindowInv
  <2> QED
    BY <1>2, <1>3, <2>1, <2>2, <2>3 DEF Inv, WindowInv, Exclusion, NotAfter
<1>6. WindowInv' /\ SlidingBound' /\ RefusalJustified'
  BY <1>2, <1>5 DEF Inv, WindowInv, NotAfter, Split, SlidingBound, RefusalJustified, LimitOf
<1> QED
  BY <1>4, <1>6 DEF Inv

LEMMA DecideStep ==
    ASSUME Inv, NEW t \in Threads, Decide(t)
    PROVE  Inv'
<1> DEFINE k == thread[t].key
           now == thread[t].now
           hist == admitted[k]
           L == LimitOf(k)
           w == Refreshed(window[k], now)
           limited == w.count >= L
           w1 == IF limited THEN w ELSE Window(w.start, w.count + 1)
           h1 == IF limited THEN hist ELSE Append(hist, now)
<1>1. /\ thread[t] # Outside /\ thread[t].at = "locked"
      /\ k \in Key /\ now \in Nat /\ L \in Nat
  BY ThreadType, LimitType DEF Inv, Decide, Outside
<1>2. /\ now <= clock /\ NotAfter(k, now) /\ window[k].live
      /\ window[k] \in WindowType /\ hist \in Seq(Nat)
      /\ Split(k, hist, window[k]) /\ Sliding(k, hist) /\ Upto(hist, now)
  BY <1>1 DEF Inv, TypeOK, WindowInv, Exclusion, SlidingBound, Sliding, Upto, NotAfter
<1>3. /\ w \in WindowType /\ w.start <= now /\ w.live /\ now < w.start + Second
      /\ Split(k, hist, w)
  BY <1>1, <1>2, RefreshedSplit DEF NotAfter
<1>4. /\ window' = [window EXCEPT ![k] = w1]
      /\ admitted' = [admitted EXCEPT ![k] = h1]
      /\ verdict' = [key |-> k, limited |-> limited, at |-> now]
      /\ thread' = [thread EXCEPT ![t] = Outside]
      /\ clock' = clock
  BY DEF Decide
<1> HIDE DEF k, now, hist, L, w
<1>5. /\ w1 \in WindowType /\ w1.live /\ w1.start <= now /\ w1.count <= L
      /\ h1 \in Seq(Nat) /\ Split(k, h1, w1) /\ Sliding(k, h1) /\ Upto(h1, now)
  <2>1. CASE limited
    BY <1>1, <1>2, <1>3, <2>1 DEF Split, L, hist
  <2>2. CASE ~limited
    <3>1. w.count \in Nat /\ w.start \in Nat /\ w.count < L
      BY <1>1, <1>3, <2>2 DEF WindowType
    <3>2. /\ Split(k, Append(hist, now), Window(w.start, w.count + 1))
          /\ Sliding(k, Append(hist, now))
          /\ Upto(Append(hist, now), now)
      BY <1>1, <1>2, <1>3, <3>1, AdmittedSplit DEF L
    <3>3. /\ w1 = [start |-> w.start, count |-> w.count + 1, live |-> TRUE]
          /\ h1 = Append(hist, now)
      BY <2>2 DEF Window
    <3>4. /\ w1 \in WindowType /\ w1.live /\ w1.start <= now /\ w1.count <= L
      <4> HIDE DEF w1
      <4>1. w1.start = w.start /\ w1.count = w.count + 1 /\ w1.live = TRUE
        BY <3>3
      <4>2. w1 \in WindowType
        BY <3>1, <3>3 DEF WindowType
      <4> QED
        BY <1>1, <1>3, <3>1, <4>1, <4>2
    <3> QED
      BY <1>1, <1>2, <2>2, <3>2, <3>3, <3>4, AppendFacts
  <2> QED
    BY <2>1, <2>2
<1> HIDE DEF w1, h1
<1>6. \A j \in Key : /\ window'[j] = IF j = k THEN w1 ELSE window[j]
                     /\ admitted'[j] = IF j = k THEN h1 ELSE admitted[j]
  BY <1>1, <1>4 DEF Inv, TypeOK
<1>7. \A u \in Threads : thread'[u] = IF u = t THEN Outside ELSE thread[u]
  BY <1>4 DEF Inv, TypeOK
<1>8. TypeOK'
  <2>1. window' \in [Key -> WindowType] /\ admitted' \in [Key -> Seq(Nat)]
    BY <1>1, <1>4, <1>5 DEF Inv, TypeOK
  <2>2. \A j \in Key : window'[j].count <= LimitOf(j)'
    BY <1>5, <1>6 DEF Inv, TypeOK, LimitOf, L
  <2>3. verdict' \in [key : Key, limited : BOOLEAN, at : Nat]
    BY <1>1, <1>4
  <2> QED
    BY <1>4, <2>1, <2>2, <2>3 DEF Inv, TypeOK
<1>9. \A j \in Key : /\ NotAfter(j, clock)'
                     /\ Split(j, admitted[j], window[j])'
                     /\ (~window[j].live => window[j].count = 0 /\ admitted[j] = <<>>)'
  <2> SUFFICES ASSUME NEW j \in Key
               PROVE  /\ NotAfter(j, clock)'
                      /\ Split(j, admitted[j], window[j])'
                      /\ (~window[j].live => window[j].count = 0 /\ admitted[j] = <<>>)'
    OBVIOUS
  <2>1. CASE j = k
    <3>1. window'[j] = w1 /\ admitted'[j] = h1
      BY <1>6, <2>1
    <3>2. Split(j, admitted[j], window[j])'
      BY <1>5, <2>1, <3>1 DEF Split, LimitOf
    <3>3. w1.start \in Nat /\ clock \in Nat /\ \A i \in 1 .. Len(h1) : h1[i] \in Nat
      BY <1>5 DEF WindowType, Inv, TypeOK
    <3>4. NotAfter(j, clock)'
      BY <1>1, <1>2, <1>4, <1>5, <3>1, <3>3 DEF NotAfter, Upto
    <3> QED
      BY <1>5, <3>1, <3>2, <3>4
  <2>2. CASE j # k
    BY <1>4, <1>6, <2>2 DEF Inv, WindowInv, NotAfter, Split, LimitOf
  <2> QED
    BY <2>1, <2>2
<1>10. Exclusion'
  <2>1. ASSUME NEW u \in Threads, u # t, thread[u] # Outside
        PROVE  /\ thread'[u] = thread[u] /\ thread[u].key \in Key /\ thread[u].key # k
               /\ window'[thread[u].key] = window[thread[u].key]
               /\ admitted'[thread[u].key] = admitted[thread[u].key]
    <3>1. thread[u].key \in Key /\ thread[u].key # k
      BY <1>1, <2>1, ThreadType DEF Inv, WindowInv, Exclusion, k
    <3> QED
      BY <1>6, <1>7, <2>1, <3>1
  <2>2. ASSUME NEW u \in Threads, NEW v \in Threads,
               thread'[u] # Outside, thread'[v] # Outside,
               Shard[thread'[u].key] = Shard[thread'[v].key]
        PROVE  u = v
    BY <1>7, <2>2 DEF Inv, WindowInv, Exclusion
  <2>3. ASSUME NEW u \in Threads
        PROVE  /\ thread'[u] # Outside => window'[thread'[u].key].live
               /\ thread'[u].at = "locked" => /\ thread'[u].now <= clock'
                                             /\ NotAfter(thread[u].key, thread[u].now)'
    <3>1. CASE thread'[u] = Outside
      BY <3>1 DEF Outside
    <3>2. CASE thread'[u] # Outside
      BY <1>4, <1>7, <2>1, <3>2 DEF Inv, WindowInv, Exclusion, NotAfter
    <3> QED
      BY <3>1, <3>2
  <2> QED
    BY <2>2, <2>3 DEF Exclusion
<1>11. SlidingBound'
  <2> SUFFICES ASSUME NEW j \in Key PROVE Sliding(j, admitted[j])'
    BY DEF SlidingBound, Sliding
  <2>1. CASE j = k
    BY <1>5, <1>6, <2>1 DEF Sliding, LimitOf
  <2>2. CASE j # k
    BY <1>6, <2>2 DEF Inv, SlidingBound, Sliding, LimitOf
  <2> QED
    BY <2>1, <2>2
<1>12. RefusalJustified'
  <2> SUFFICES ASSUME limited
               PROVE  /\ Len(h1) >= L
                      /\ \A i \in Len(h1) - L + 1 .. Len(h1) :
                             h1[i] + Second > now /\ h1[i] <= now
    <3>1. verdict'.key = k /\ verdict'.limited = limited /\ verdict'.at = now
      BY <1>4
    <3>2. admitted'[k] = h1
      BY <1>1, <1>6
    <3>3. LimitOf(verdict.key)' = L
      BY <3>1 DEF L, LimitOf
    <3>4. verdict'.limited => limited
      BY <3>1
    <3> QED
      BY <3>1, <3>2, <3>3, <3>4 DEF RefusalJustified
  <2>1. h1 = hist /\ w.count = L /\ L <= Len(hist)
    BY <1>1, <1>3 DEF h1, Split, WindowType, L
  <2>2. Len(hist) \in Nat /\ \A i \in 1 .. Len(hist) : hist[i] \in Nat
    BY <1>2
  <2>3. ASSUME NEW i \in Len(hist) - L + 1 .. Len(hist)
        PROVE  hist[i] + Second > now /\ hist[i] <= now
    <3>1. i \in 1 .. Len(hist) /\ i > Len(hist) - L
      BY <1>1, <2>1, <2>2
    <3>2. hist[i] >= w.start
      BY <1>3, <2>1, <3>1 DEF Split
    <3>3. w.start \in Nat /\ Second \in Nat
      BY <1>3, RateLimitAssumption DEF WindowType
    <3> QED
      BY <1>1, <1>2, <1>3, <2>2, <3>1, <3>2, <3>3 DEF Upto
  <2> QED
    BY <2>1, <2>2, <2>3
<1> QED
  BY <1>8, <1>9, <1>10, <1>11, <1>12 DEF Inv, WindowInv

LEMMA StepInv == Inv /\ [Next]_vars => Inv'
<1> SUFFICES ASSUME Inv, [Next]_vars PROVE Inv'
  OBVIOUS
<1>1. CASE Tick
  BY <1>1, TickStep
<1>2. ASSUME NEW t \in Threads, Lock(t) PROVE Inv'
  BY <1>2, LockStep
<1>3. ASSUME NEW t \in Threads, Decide(t) PROVE Inv'
  BY <1>3, DecideStep
<1>4. ASSUME NEW t \in Threads, NEW k \in Key, RefuseAll(t, k) PROVE Inv'
  BY <1>4, RefuseAllStep
<1>5. ASSUME NEW t \in Threads, NEW k \in Key, Enter(t, k) PROVE Inv'
  BY <1>5, EnterStep
<1>6. CASE UNCHANGED vars
  BY <1>6 DEF vars, Inv, TypeOK, WindowInv, Exclusion, NotAfter, Split, SlidingBound,
              RefusalJustified, LimitOf
<1> QED
  BY <1>1, <1>2, <1>3, <1>4, <1>5, <1>6 DEF Next

LEMMA Invariance == Spec => []Inv
  BY InitInv, StepInv, PTL DEF Spec

-----------------------------------------------------------------------------
(* The theorems.                                                           *)

\* The state is well typed and no counter exceeds the limit of its route.
THEOREM TypeCorrect == Spec => []TypeOK
<1>1. Inv => TypeOK
  BY DEF Inv
<1> QED
  BY <1>1, Invariance, PTL

\* The invariant of the windows: mutual exclusion inside a shard, and the split
\* of what a key admitted by the start of its window.
THEOREM WindowCorrect == Spec => []WindowInv
<1>1. Inv => WindowInv
  BY DEF Inv
<1> QED
  BY <1>1, Invariance, PTL

\* is_rate_limited never admits more than twice the limit within a second.
THEOREM SlidingCorrect == Spec => []SlidingBound
<1>1. Inv => SlidingBound
  BY DEF Inv
<1> QED
  BY <1>1, Invariance, PTL

\* is_rate_limited refuses a request only because of its own client's requests
\* to its own route within the last second.
THEOREM RefusalCorrect == Spec => []RefusalJustified
<1>1. Inv => RefusalJustified
  BY DEF Inv
<1> QED
  BY <1>1, Invariance, PTL
=============================================================================
