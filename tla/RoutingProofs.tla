---------------------------- MODULE RoutingProofs -----------------------------
(***************************************************************************)
(* Proofs about RouterRegistry, for any routers, any declarations and any  *)
(* order of the calls: which routers are frozen, which tree is used, and   *)
(* that it is the whole tree.                                              *)
(*                                                                         *)
(* Proofs about Dispatch, for any declared routes: who answers a request,  *)
(* with which arguments, and why no one does.                              *)
(***************************************************************************)
EXTENDS RouterRegistry, Dispatch, SelectionProofs

-----------------------------------------------------------------------------
(* Reachability.                                                           *)

MountsType == mounts \in [Routers -> Seq(Mount)]

LEMMA ChildrenType ==
    ASSUME MountsType, NEW r \in Routers
    PROVE  Children(r) \subseteq Routers
<1> SUFFICES ASSUME NEW i \in DOMAIN mounts[r]
             PROVE  mounts[r][i].router \in Routers
  BY DEF Children
<1>1. mounts[r] \in Seq(Mount)
  BY DEF MountsType
<1>2. mounts[r][i] \in Mount
  BY <1>1
<1> QED
  BY <1>2 DEF Mount

LEMMA ReachSelf ==
    ASSUME NEW r \in Routers
    PROVE  r \in Reach(r)
  BY DEF Reach

LEMMA ReachClosed ==
    ASSUME MountsType, NEW r \in Routers
    PROVE  Reach(r) \subseteq Routers /\ Closed(Reach(r))
<1>1. Reach(r) \subseteq Routers
  BY DEF Reach
<1>2. ASSUME NEW x \in Reach(r), NEW c \in Children(x)
      PROVE  c \in Reach(r)
  <2>1. c \in Routers
    BY <1>1, <1>2, ChildrenType
  <2>2. ASSUME NEW X \in SUBSET Routers, r \in X, Closed(X)
        PROVE  c \in X
    <3>1. x \in X
      BY <2>2, <1>2 DEF Reach
    <3> QED
      BY <3>1, <2>2, <1>2 DEF Closed
  <2> QED
    BY <2>1, <2>2 DEF Reach
<1> QED
  BY <1>1, <1>2 DEF Closed

LEMMA ReachLeast ==
    ASSUME NEW r \in Routers, NEW X \in SUBSET Routers, r \in X, Closed(X)
    PROVE  Reach(r) \subseteq X
  BY DEF Reach

LEMMA ReachTransitive ==
    ASSUME MountsType, NEW r \in Routers, NEW s \in Reach(r)
    PROVE  s \in Routers /\ Reach(s) \subseteq Reach(r)
  BY ReachClosed, ReachLeast

\* What a router below an acyclic one reaches is acyclic.
LEMMA CyclicBelow ==
    ASSUME MountsType, NEW r \in Routers, NEW s \in Reach(r), ~Cyclic(r)
    PROVE  ~Cyclic(s)
  BY ReachTransitive DEF Cyclic

-----------------------------------------------------------------------------
(* The invariant.                                                          *)

FrozenType ==
    /\ frozen \in [Routers -> BOOLEAN]
    /\ MountsType
    /\ DOMAIN cached = Routers
    /\ cached = [r \in Routers |-> cached[r]]
    /\ serves \in Nat

\* Nothing is cached before the first serve, and only in a frozen router.
CacheInv ==
    /\ serves = 0 => cached[Root].none
    /\ ~cached[Root].none => frozen[Root]

FreezingInv == FrozenType /\ FrozenClosed /\ FrozenAcyclic /\ CacheInv /\ PublishedIsServed

LEMMA FreezingInvInitially == RegistryInit => FreezingInv
<1> SUFFICES ASSUME RegistryInit PROVE FreezingInv
  OBVIOUS
<1>1. Root \in Routers
  BY RouterRegistryAssumption
<1>2. FrozenType
  BY DEF RegistryInit, FrozenType, MountsType
<1>3. cached[Root].none
  BY <1>1 DEF RegistryInit, Nothing
<1> QED
  BY <1>1, <1>2, <1>3 DEF RegistryInit, FreezingInv, FrozenClosed, FrozenAcyclic, CacheInv, PublishedIsServed

\* A flattening that changes no mount freezes a closed set, and an acyclic one
\* if it ends.
LEMMA FreezesStep ==
    ASSUME FreezingInv, NEW S, S \subseteq Routers,
           Freezes(Walked(S)), alive' = Ends(S), mounts' = mounts, alive
    PROVE  /\ frozen' \in [Routers -> BOOLEAN]
           /\ \A r \in Routers : frozen[r] => frozen'[r]
           /\ FrozenClosed' /\ FrozenAcyclic'
<1>1. MountsType
  BY DEF FreezingInv, FrozenType
<1>2. \A r \in Routers :
        frozen'[r] <=> (frozen[r] \/ \E s \in Walked(S) : r \in Reach(s))
  BY DEF Freezes
<1>3. frozen' \in [Routers -> BOOLEAN]
  BY DEF Freezes, FreezingInv, FrozenType
<1>4. \A r : Children(r)' = Children(r)
  BY DEF Children
<1>5. \A X : Closed(X)' <=> Closed(X)
  BY <1>4 DEF Closed
<1>6. \A r : Reach(r)' = Reach(r)
  BY <1>5 DEF Reach
<1>7. Walked(S) \subseteq Routers
  BY DEF Walked
<1>8. FrozenClosed'
  <2> SUFFICES ASSUME NEW r \in Routers, frozen'[r], NEW c \in Children(r)
               PROVE  frozen'[c]
    BY <1>4 DEF FrozenClosed
  <2>1. c \in Routers
    BY <1>1, ChildrenType
  <2>2. CASE frozen[r]
    BY <1>2, <2>1, <2>2 DEF FreezingInv, FrozenClosed
  <2>3. ASSUME NEW s \in Walked(S), r \in Reach(s)
        PROVE  frozen'[c]
    <3>1. c \in Reach(s)
      BY <1>1, <1>7, <2>3, ReachClosed DEF Closed
    <3> QED
      BY <1>2, <2>1, <3>1
  <2> QED
    BY <1>2, <2>2, <2>3
<1>9. FrozenAcyclic'
  <2> SUFFICES ASSUME alive', NEW r \in Routers, frozen'[r]
               PROVE  ~Cyclic(r)
    BY <1>4, <1>6 DEF FrozenAcyclic, Cyclic
  <2>1. CASE frozen[r]
    BY <2>1 DEF FreezingInv, FrozenAcyclic
  <2>2. ASSUME NEW s \in Walked(S), r \in Reach(s)
        PROVE  ~Cyclic(r)
    <3>1. ~Cyclic(s)
      BY DEF Ends
    <3> QED
      BY <1>1, <1>7, <2>2, <3>1, CyclicBelow
  <2> QED
    BY <1>2, <2>1, <2>2
<1> QED
  BY <1>2, <1>3, <1>8, <1>9

\* A cached tree is what flatten returns.
LEMMA FlatOfCached ==
    ASSUME FreezingInv
    PROVE  /\ ~cached[Root].none => FlatOf(Root) = cached[Root]
           /\ cached[Root].none => FlatOf(Root) = Some(Flattened(Root))
  BY DEF FlatOf, Walked, FreezingInv, CacheInv

LEMMA CreateStep ==
    ASSUME FreezingInv, NEW r \in Routers, NEW d \in Decls, NEW C \in SUBSET Routers,
           CreateDecorator(r, d, C)
    PROVE  FreezingInv'
<1>1. /\ frozen' \in [Routers -> BOOLEAN]
      /\ \A q \in Routers : frozen[q] => frozen'[q]
      /\ FrozenClosed' /\ FrozenAcyclic'
  BY FreezesStep DEF CreateDecorator
<1>2. FrozenType'
  BY <1>1 DEF CreateDecorator, FreezingInv, FrozenType, MountsType
<1>3. CacheInv' /\ PublishedIsServed'
  BY <1>1, RouterRegistryAssumption DEF CreateDecorator, FreezingInv, CacheInv, PublishedIsServed
<1> QED
  BY <1>1, <1>2, <1>3 DEF FreezingInv

LEMMA ApplyStep ==
    ASSUME FreezingInv, NEW c \in created, ApplyDecorator(c)
    PROVE  FreezingInv'
<1>1. \A r : Children(r)' = Children(r)
  BY DEF ApplyDecorator, Children
<1>2. \A X : Closed(X)' <=> Closed(X)
  BY <1>1 DEF Closed
<1>3. \A r : Cyclic(r)' <=> Cyclic(r)
  BY <1>1, <1>2 DEF Cyclic, Reach
<1> QED
  BY <1>1, <1>3 DEF ApplyDecorator, FreezingInv, FrozenType, MountsType, FrozenClosed, FrozenAcyclic,
                    CacheInv, PublishedIsServed

\* Only a router that is not frozen gets a mount, so no frozen router reaches
\* anything new.
LEMMA IncludeStep ==
    ASSUME FreezingInv, NEW r \in Routers, NEW s \in Routers, NEW p \in MountPrefixes, Include(r, s, p)
    PROVE  FreezingInv'
<1> DEFINE F == {q \in Routers : frozen[q]}
<1>1. MountsType /\ ~frozen[r]
  BY DEF FreezingInv, FrozenType, Include
<1>2. MountsType'
  <2>1. [router |-> s, prefix |-> p] \in Mount
    BY DEF Mount
  <2>2. Append(mounts[r], [router |-> s, prefix |-> p]) \in Seq(Mount)
    BY <1>1, <2>1 DEF MountsType
  <2> QED
    BY <1>1, <2>2 DEF Include, MountsType
<1>3. \A q \in Routers : q # r => Children(q)' = Children(q)
  BY <1>1 DEF Include, Children, MountsType
<1>4. Closed(F)
  BY <1>1, ChildrenType DEF Closed, FreezingInv, FrozenClosed
<1>5. ASSUME NEW q \in F
      PROVE  Reach(q) \subseteq F /\ Reach(q)' \subseteq Reach(q)
  <2>1. Reach(q) \subseteq F
    BY <1>4, <1>5, ReachLeast
  <2>2. q \in Reach(q) /\ Reach(q) \in SUBSET Routers /\ Closed(Reach(q))
    BY <1>1, <1>5, ReachSelf, ReachClosed
  <2>3. \A x \in Reach(q) : Children(x)' = Children(x)
    BY <1>1, <1>3, <2>1
  <2>4. Closed(Reach(q))' <=> \A x \in Reach(q)' : Children(x)' \subseteq Reach(q)'
    BY DEF Closed
  <2>5. ASSUME NEW x \in Reach(q)'
        PROVE  x \in Reach(q)
    <3> DEFINE X == Reach(q)
    <3>1. \A y \in X : Children(y)' \subseteq X
      BY <2>2, <2>3 DEF Closed
    <3>2. \A Y \in SUBSET Routers :
            q \in Y /\ (\A y \in Y : Children(y)' \subseteq Y) => x \in Y
      BY <2>5 DEF Reach, Closed
    <3> HIDE DEF X
    <3>3. q \in X /\ X \in SUBSET Routers
      BY <2>2 DEF X
    <3>4. x \in X
      BY <3>1, <3>2, <3>3
    <3> QED
      BY <3>4 DEF X
  <2> QED
    BY <2>1, <2>5
<1>6. FrozenClosed'
  BY <1>1, <1>3 DEF Include, FreezingInv, FrozenClosed
<1>7. FrozenAcyclic'
  <2> SUFFICES ASSUME NEW q \in Routers, frozen[q], Cyclic(q)'
               PROVE  FALSE
    BY DEF FrozenAcyclic, Include
  <2>1. PICK x \in Reach(q)' : \E c \in Children(x)' : x \in Reach(c)'
    BY DEF Cyclic
  <2>2. PICK c \in Children(x)' : x \in Reach(c)'
    BY <2>1
  <2>3. q \in F /\ x \in Reach(q) /\ x \in F
    BY <1>5, <2>1
  <2>4. c \in Children(x)
    BY <1>1, <1>3, <2>2, <2>3
  <2>5. c \in F
    BY <1>4, <2>3, <2>4 DEF Closed
  <2>6. x \in Reach(c)
    BY <1>5, <2>2, <2>5
  <2>7. Cyclic(q)
    BY <2>3, <2>4, <2>6 DEF Cyclic
  <2> QED
    BY <2>7 DEF FreezingInv, FrozenAcyclic, Include
<1> QED
  BY <1>2, <1>6, <1>7 DEF Include, FreezingInv, FrozenType, CacheInv, PublishedIsServed

LEMMA OpenApiStep ==
    ASSUME FreezingInv, OpenApi
    PROVE  FreezingInv'
<1>1. /\ frozen' \in [Routers -> BOOLEAN]
      /\ \A q \in Routers : frozen[q] => frozen'[q]
      /\ FrozenClosed' /\ FrozenAcyclic'
  BY FreezesStep, RouterRegistryAssumption DEF OpenApi
<1>2. FrozenType'
  BY <1>1 DEF OpenApi, FreezingInv, FrozenType, MountsType
<1>3. CacheInv' /\ PublishedIsServed'
  BY <1>1, FlatOfCached, RouterRegistryAssumption
     DEF OpenApi, FreezingInv, CacheInv, PublishedIsServed
<1> QED
  BY <1>1, <1>2, <1>3 DEF FreezingInv

LEMMA ServeStep ==
    ASSUME FreezingInv, Serve
    PROVE  FreezingInv'
<1>1. /\ frozen' \in [Routers -> BOOLEAN]
      /\ \A q \in Routers : frozen[q] => frozen'[q]
      /\ FrozenClosed' /\ FrozenAcyclic'
  BY FreezesStep, RouterRegistryAssumption DEF Serve
<1>2. Root \in Routers /\ serves' = serves + 1
  BY RouterRegistryAssumption DEF Serve
<1>3. FrozenType'
  <2>1. DOMAIN cached' = Routers /\ cached' = [r \in Routers |-> cached'[r]]
    <3>1. CASE alive' /\ ~frozen[Root]
      <4>1. cached' = [cached EXCEPT ![Root] = Some(Flattened(Root))]
        BY <3>1 DEF Serve
      <4> HIDE DEF Some, Flattened
      <4> QED
        BY <4>1 DEF FreezingInv, FrozenType
    <3>2. CASE ~(alive' /\ ~frozen[Root])
      BY <3>2 DEF Serve, FreezingInv, FrozenType
    <3> QED
      BY <3>1, <3>2
  <2>2. MountsType' /\ serves' \in Nat
    BY <1>2 DEF Serve, FreezingInv, FrozenType, MountsType
  <2> QED
    BY <1>1, <2>1, <2>2 DEF FrozenType
<1>4. CASE alive' /\ ~frozen[Root]
  <2>1. cached[Root].none
    BY <1>4 DEF FreezingInv, CacheInv
  <2>2. /\ cached'[Root] = Some(Flattened(Root))
        /\ table' = Some(Flattened(Root)) /\ docs' = Some(Flattened(Root))
    BY <1>2, <1>4, <2>1, FlatOfCached DEF Serve, FreezingInv, FrozenType
  <2>3. frozen'[Root]
    BY <1>2, <1>4, ReachSelf DEF Serve, Freezes, Walked
  <2> QED
    BY <1>1, <1>2, <1>3, <2>2, <2>3 DEF FreezingInv, CacheInv, PublishedIsServed, FrozenType
<1>5. CASE ~(alive' /\ ~frozen[Root])
  <2>1. cached' = cached
    BY <1>5 DEF Serve
  <2>2. serves' # 0
    BY <1>2 DEF FreezingInv, FrozenType
  <2>3. CacheInv'
    BY <1>1, <1>2, <2>1, <2>2 DEF FreezingInv, CacheInv
  <2>4. PublishedIsServed'
    BY <2>1, FlatOfCached DEF Serve, FreezingInv, PublishedIsServed
  <2> QED
    BY <1>1, <1>3, <2>3, <2>4 DEF FreezingInv
<1> QED
  BY <1>4, <1>5

LEMMA FreezingInvStep == FreezingInv /\ [RegistryNext]_registryVars => FreezingInv'
<1> SUFFICES ASSUME FreezingInv, [RegistryNext]_registryVars PROVE FreezingInv'
  OBVIOUS
<1>1. ASSUME NEW r \in Routers, NEW d \in Decls, NEW C \in SUBSET Routers,
             CreateDecorator(r, d, C)
      PROVE  FreezingInv'
  BY <1>1, CreateStep
<1>2. ASSUME NEW c \in created, ApplyDecorator(c) PROVE FreezingInv'
  BY <1>2, ApplyStep
<1>3. ASSUME NEW r \in Routers, NEW s \in Routers, NEW p \in MountPrefixes, Include(r, s, p)
      PROVE  FreezingInv'
  BY <1>3, IncludeStep
<1>4. CASE OpenApi
  BY <1>4, OpenApiStep
<1>5. CASE Serve
  BY <1>5, ServeStep
<1>6. CASE UNCHANGED registryVars
  <2>1. \A r : Children(r)' = Children(r)
    BY <1>6 DEF registryVars, Children
  <2>2. \A X : Closed(X)' <=> Closed(X)
    BY <2>1 DEF Closed
  <2>3. \A r : Cyclic(r)' <=> Cyclic(r)
    BY <2>1, <2>2 DEF Cyclic, Reach
  <2> QED
    BY <1>6, <2>1, <2>3 DEF registryVars, FreezingInv, FrozenType, MountsType, FrozenClosed, FrozenAcyclic,
                            CacheInv, PublishedIsServed
<1> QED
  BY <1>1, <1>2, <1>3, <1>4, <1>5, <1>6 DEF RegistryNext

LEMMA FreezingInvariance == RegistrySpec => []FreezingInv
  BY FreezingInvInitially, FreezingInvStep, PTL DEF RegistrySpec

-----------------------------------------------------------------------------
(* The theorems.                                                           *)

\* Freezing a router freezes all it includes, and stays so under every later
\* include_router, openapi() and serve().
THEOREM FreezingIsClosed == RegistrySpec => []FrozenClosed
<1>1. FreezingInv => FrozenClosed
  BY DEF FreezingInv
<1> QED
  BY <1>1, FreezingInvariance, PTL

\* A router that froze can always be flattened again.
THEOREM FreezingIsAcyclic == RegistrySpec => []FrozenAcyclic
<1>1. FreezingInv => FrozenAcyclic
  BY DEF FreezingInv
<1> QED
  BY <1>1, FreezingInvariance, PTL

\* With a cached tree, the OpenAPI document and the routing table agree.
THEOREM PublishingIsServing == RegistrySpec => []PublishedIsServed
<1>1. FreezingInv => PublishedIsServed
  BY DEF FreezingInv
<1> QED
  BY <1>1, FreezingInvariance, PTL

\* The first serve() misses no route declared before it.
THEOREM FirstServeCorrect == RegistrySpec => FirstServeIsCurrent
<1>1. FreezingInv /\ [RegistryNext]_registryVars =>
        [serves = 0 /\ Serve /\ alive' => table' = Some(Flattened(Root))]_registryVars
  BY FlatOfCached DEF FreezingInv, CacheInv, Serve
<1> QED
  BY <1>1, FreezingInvariance, PTL DEF RegistrySpec, FirstServeIsCurrent

-----------------------------------------------------------------------------
(* What a walk yields.                                                     *)

\* Sequences laid end to end have the elements of each.
LEMMA FlattenSeqType ==
    ASSUME NEW S, NEW s \in Seq(Seq(S))
    PROVE  FlattenSeq(s) \in Seq(S)
<1>1. Len(s) \in Nat /\ DOMAIN s = 1 .. Len(s) /\ \A i \in 1 .. Len(s) : s[i] \in Seq(S)
  OBVIOUS
<1>2. CASE Len(s) = 0
  <2>1. s = <<>>
    BY <1>2
  <2> QED BY <1>2, <2>1 DEF FlattenSeq
<1>3. CASE Len(s) # 0
  <2> DEFINE L == Len(s)
             T == Seq(S)
             G == [n \in Nat |-> [x \in T |-> IF n + 2 <= L THEN x \o s[n + 2] ELSE x]]
             F == CHOOSE g : g = [i \in 1 .. L |-> IF i = 1 THEN s[i] ELSE g[i - 1] \o s[i]]
             Typed == {n \in Nat : n + 1 <= L => F[n + 1] \in T}
  <2>0. L \in Nat /\ 1 <= L /\ 1 \in 1 .. L
    BY <1>1, <1>3
  <2>1. G \in [Nat -> [T -> T]]
    <3>1. \A n \in Nat : n + 2 <= L => n + 2 \in 1 .. L
      BY <2>0
    <3>2. \A n \in Nat, x \in T : n + 2 <= L => x \o s[n + 2] \in T
      BY <1>1, <3>1
    <3> HIDE DEF T, L
    <3> QED BY <3>2
  <2>2. s[1] \in T
    BY <1>1, <2>0
  <2> HIDE DEF T
  <2>3. PICK f \in [Nat -> T] : f[0] = s[1] /\ \A n \in Nat : f[n + 1] = G[n][f[n]]
    <3>1. PICK a, H : a = s[1] /\ H = G
      OBVIOUS
    <3>2. a \in T /\ Steps(T, H)
      BY <2>1, <2>2, <3>1 DEF Steps
    <3> HIDE DEF G, L, F, Typed
    <3>3. PICK f : Iterates(f, T, a, H)
      BY <3>2, Recursion
    <3> QED BY <3>1, <3>3 DEF Iterates
  <2>4. \A n \in Nat : n + 2 <= L => f[n + 1] = f[n] \o s[n + 2]
    BY <2>3
  <2> HIDE DEF G, L
  <2> DEFINE g == [i \in 1 .. L |-> f[i - 1]]
  <2>5. g = [i \in 1 .. L |-> IF i = 1 THEN s[i] ELSE g[i - 1] \o s[i]]
    <3> SUFFICES ASSUME NEW i \in 1 .. L PROVE g[i] = IF i = 1 THEN s[i] ELSE g[i - 1] \o s[i]
      OBVIOUS
    <3>1. CASE i = 1
      BY <2>3, <3>1
    <3>2. CASE i # 1
      <4>1. i - 2 \in Nat /\ (i - 2) + 2 = i /\ i <= L /\ (i - 2) + 1 = i - 1 /\ i - 1 \in 1 .. L
            /\ (i - 1) - 1 = i - 2
        BY <2>0, <3>2
      <4>2. f[(i - 2) + 1] = f[i - 2] \o s[(i - 2) + 2]
        BY <2>4, <4>1
      <4>3. g[i] = f[i - 1] /\ g[i - 1] = f[i - 2]
        BY <4>1
      <4> HIDE DEF g
      <4> QED BY <3>2, <4>1, <4>2, <4>3
    <3> QED BY <3>1, <3>2
  <2> HIDE DEF g
  <2>6. F = [i \in 1 .. L |-> IF i = 1 THEN s[i] ELSE F[i - 1] \o s[i]]
    BY <2>5
  <2>7. FlattenSeq(s) = F[L]
    BY <1>3 DEF FlattenSeq, L
  <2> HIDE DEF F
  <2>8. Nat \subseteq Typed
    <3>1. 0 \in Typed
      BY <2>0, <2>2, <2>6
    <3>2. ASSUME NEW n \in Nat, n \in Typed PROVE n + 1 \in Typed
      <4> SUFFICES ASSUME (n + 1) + 1 <= L PROVE F[(n + 1) + 1] \in T
        OBVIOUS
      <4>1. /\ (n + 1) + 1 \in 1 .. L /\ (n + 1) + 1 # 1 /\ ((n + 1) + 1) - 1 = n + 1 /\ n + 1 <= L
        BY <2>0
      <4>2. F[(n + 1) + 1] = F[n + 1] \o s[(n + 1) + 1]
        BY <2>6, <4>1
      <4>3. F[n + 1] \in T /\ s[(n + 1) + 1] \in T
        BY <1>1, <3>2, <4>1 DEF T, L
      <4> QED BY <4>2, <4>3 DEF T
    <3> HIDE DEF Typed
    <3> QED BY <3>1, <3>2, Induction
  <2>9. L - 1 \in Nat /\ (L - 1) + 1 = L /\ L <= L
    BY <2>0
  <2> QED BY <2>7, <2>8, <2>9 DEF T
<1> QED BY <1>2, <1>3

Routes == Seq(FlatRoute)
Lists == [Routers -> Routes]

\* What a router lists, if below is what the others do.
Listed(r, below) ==
    [i \in DOMAIN entries[r] |-> [via |-> <<>>, decl |-> entries[r][i]]]
        \o FlattenSeq(Reverse([i \in DOMAIN mounts[r] |->
             Beneath(mounts[r][i].prefix, below[mounts[r][i].router])]))

TreeType == entries \in [Routers -> Seq(Decls)] /\ mounts \in [Routers -> Seq(Mount)]

LEMMA BeneathType ==
    ASSUME NEW prefix \in MountPrefixes, NEW flat \in Routes
    PROVE  Beneath(prefix, flat) \in Routes
<1>1. DOMAIN flat = 1 .. Len(flat) /\ Len(flat) \in Nat
  BY DEF Routes
<1>2. ASSUME NEW i \in 1 .. Len(flat)
      PROVE  [via |-> <<prefix>> \o flat[i].via, decl |-> flat[i].decl] \in FlatRoute
  <2>1. flat[i] \in FlatRoute
    BY <1>1 DEF Routes
  <2>2. flat[i].via \in Seq(MountPrefixes) /\ flat[i].decl \in Decls
    BY <2>1 DEF FlatRoute
  <2>3. <<prefix>> \o flat[i].via \in Seq(MountPrefixes)
    BY <2>2
  <2> QED BY <2>2, <2>3 DEF FlatRoute
<1>3. Beneath(prefix, flat) = [i \in 1 .. Len(flat) |->
                                  [via |-> <<prefix>> \o flat[i].via, decl |-> flat[i].decl]]
  BY <1>1 DEF Beneath
<1> QED BY <1>1, <1>2, <1>3 DEF Routes

LEMMA ReverseType ==
    ASSUME NEW S, NEW s \in Seq(S)
    PROVE  Reverse(s) \in Seq(S)
BY DEF Reverse

LEMMA ListedType ==
    ASSUME TreeType, NEW r \in Routers, NEW below \in Lists
    PROVE  Listed(r, below) \in Routes
<1> DEFINE own == [i \in DOMAIN entries[r] |-> [via |-> <<>>, decl |-> entries[r][i]]]
           there == [i \in DOMAIN mounts[r] |->
                       Beneath(mounts[r][i].prefix, below[mounts[r][i].router])]
<1>1. entries[r] \in Seq(Decls) /\ mounts[r] \in Seq(Mount)
  BY DEF TreeType
<1>2. own \in Routes
  <2>1. \A d \in Decls : [via |-> <<>>, decl |-> d] \in FlatRoute
    BY DEF FlatRoute
  <2>2. DOMAIN entries[r] = 1 .. Len(entries[r]) /\ Len(entries[r]) \in Nat
        /\ \A i \in 1 .. Len(entries[r]) : entries[r][i] \in Decls
    BY <1>1
  <2> QED BY <2>1, <2>2 DEF Routes
<1>3. there \in Seq(Routes)
  <2>1. DOMAIN mounts[r] = 1 .. Len(mounts[r]) /\ Len(mounts[r]) \in Nat
        /\ \A i \in 1 .. Len(mounts[r]) : mounts[r][i] \in Mount
    BY <1>1
  <2>2. \A m \in Mount : m.prefix \in MountPrefixes /\ m.router \in Routers /\ below[m.router] \in Routes
    BY DEF Mount, Lists
  <2>3. \A i \in 1 .. Len(mounts[r]) :
           Beneath(mounts[r][i].prefix, below[mounts[r][i].router]) \in Routes
    BY <2>1, <2>2, BeneathType
  <2> QED BY <2>1, <2>3
<1>4. Listed(r, below) = own \o FlattenSeq(Reverse(there))
  BY DEF Listed
<1> HIDE DEF own, there
<1>5. FlattenSeq(Reverse(there)) \in Routes
  <2>1. Reverse(there) \in Seq(Seq(FlatRoute))
    BY <1>3, ReverseType DEF Routes
  <2> QED BY <2>1, FlattenSeqType DEF Routes
<1> QED BY <1>2, <1>4, <1>5 DEF Routes

\* The walk, step by step.
LEMMA WalkUnfolds ==
    ASSUME TreeType
    PROVE  /\ \A n \in Nat : Walk[n] \in Lists
           /\ \A r \in Routers : Walk[0][r] = <<>>
           /\ \A n \in Nat, r \in Routers : Walk[n + 1][r] = Listed(r, Walk[n])
<1> DEFINE Step(W, n) ==
              [r \in Routers |->
                 IF n = 0 THEN <<>>
                 ELSE [i \in DOMAIN entries[r] |-> [via |-> <<>>, decl |-> entries[r][i]]]
                      \o FlattenSeq(Reverse([i \in DOMAIN mounts[r] |->
                           Beneath(mounts[r][i].prefix, W[n - 1][mounts[r][i].router])]))]
           Empty == [r \in Routers |-> <<>>]
           Layer(below) == [r \in Routers |-> Listed(r, below)]
           G == [n \in Nat |-> [below \in Lists |-> Layer(below)]]
           Typed == {n \in Nat : Walk[n] \in Lists}
<1>1. Empty \in Lists
  BY DEF Lists, Routes
<1>2. \A below \in Lists : Layer(below) \in Lists
  BY ListedType DEF Lists
<1>3. PICK f : Iterates(f, Lists, Empty, G)
  <2>1. Steps(Lists, G)
    <3> HIDE DEF Layer
    <3> QED BY <1>2 DEF Steps
  <2> HIDE DEF Empty, G
  <2> QED BY <1>1, <2>1, Recursion
<1>4. f \in [Nat -> Lists] /\ f[0] = Empty /\ \A n \in Nat : f[n + 1] = Layer(f[n])
  <2> HIDE DEF Layer, Empty
  <2> QED BY <1>3 DEF Iterates
<1>5. \A W : /\ Step(W, 0) = Empty
             /\ \A n \in Nat : n # 0 => Step(W, n) = Layer(W[n - 1])
  BY DEF Listed
<1>6. Walk = CHOOSE W : W = [n \in Nat |-> Step(W, n)]
  BY DEF Walk
<1> HIDE DEF Step, Layer, Empty
<1>7. f = [n \in Nat |-> Step(f, n)]
  <2> SUFFICES ASSUME NEW n \in Nat PROVE f[n] = Step(f, n)
    BY <1>4
  <2>1. CASE n = 0
    BY <1>4, <1>5, <2>1
  <2>2. CASE n # 0
    <3>1. n - 1 \in Nat /\ (n - 1) + 1 = n
      BY <2>2
    <3>2. f[(n - 1) + 1] = Layer(f[n - 1])
      BY <1>4, <3>1
    <3> QED BY <1>5, <2>2, <3>1, <3>2
  <2> QED BY <2>1, <2>2
<1>8. Walk = [n \in Nat |-> Step(Walk, n)]
  BY <1>6, <1>7
<1>9. Walk[0] = Empty /\ \A n \in Nat : Walk[n + 1] = Layer(Walk[n])
  <2>1. \A n \in Nat : Walk[n] = Step(Walk, n)
    BY <1>8
  <2>2. Walk[0] = Empty
    BY <1>5, <2>1
  <2>3. ASSUME NEW n \in Nat PROVE Walk[n + 1] = Layer(Walk[n])
    <3>1. n + 1 \in Nat /\ n + 1 # 0 /\ (n + 1) - 1 = n
      OBVIOUS
    <3> QED BY <1>5, <2>1, <3>1
  <2> QED BY <2>2, <2>3
<1>10. Nat \subseteq Typed
  <2>1. 0 \in Typed
    BY <1>1, <1>9
  <2>2. ASSUME NEW n \in Nat, n \in Typed PROVE n + 1 \in Typed
    BY <1>2, <1>9, <2>2
  <2> HIDE DEF Typed
  <2> QED BY <2>1, <2>2, Induction
<1> QED BY <1>9, <1>10 DEF Empty, Layer

LEMMA FlattenedType ==
    ASSUME TreeType, NEW r \in Routers
    PROVE  Flattened(r) \in Routes
<1>1. Cardinality(Routers) \in Nat
  BY RouterRegistryAssumption, FS_CardinalityType
<1> QED BY <1>1, WalkUnfolds DEF Flattened, Lists

\* Below a router without a cycle there are fewer routers with every step down.
LEMMA FewerBelow ==
    ASSUME MountsType, NEW r \in Routers, ~Cyclic(r), NEW c \in Children(r)
    PROVE  /\ c \in Routers /\ ~Cyclic(c)
           /\ IsFiniteSet(Reach(r)) /\ IsFiniteSet(Reach(c))
           /\ Cardinality(Reach(c)) \in Nat /\ Cardinality(Reach(r)) \in Nat
           /\ Cardinality(Reach(c)) < Cardinality(Reach(r))
           /\ Cardinality(Reach(r)) <= Cardinality(Routers)
<1>1. r \in Reach(r) /\ Reach(r) \subseteq Routers /\ c \in Reach(r)
  BY ReachSelf, ReachClosed DEF Closed
<1>2. c \in Routers /\ Reach(c) \subseteq Reach(r) /\ ~Cyclic(c)
  BY <1>1, ReachTransitive, CyclicBelow
<1>3. r \notin Reach(c)
  BY <1>1 DEF Cyclic
<1>4. IsFiniteSet(Routers) /\ Reach(r) \in SUBSET Routers /\ Reach(c) \in SUBSET Reach(r)
  BY <1>1, <1>2, RouterRegistryAssumption
<1>5. IsFiniteSet(Reach(r)) /\ Cardinality(Reach(r)) <= Cardinality(Routers)
  BY <1>4, FS_Subset
<1>6. /\ IsFiniteSet(Reach(c)) /\ Cardinality(Reach(c)) <= Cardinality(Reach(r))
      /\ Cardinality(Reach(r)) = Cardinality(Reach(c)) => Reach(r) = Reach(c)
  BY <1>4, <1>5, FS_Subset
<1>7. Cardinality(Reach(c)) \in Nat /\ Cardinality(Reach(r)) \in Nat
  BY <1>5, <1>6, FS_CardinalityType
<1> QED BY <1>1, <1>2, <1>3, <1>5, <1>6, <1>7

\* A walk that is as deep as there are routers to pop is the whole walk.
LEMMA WalkIsWhole ==
    ASSUME TreeType, NEW r \in Routers, ~Cyclic(r), NEW m \in Nat, Cardinality(Routers) <= m
    PROVE  Walk[m][r] = Flattened(r)
<1> DEFINE N == Cardinality(Routers)
           Enough == {n \in Nat : \A q \in Routers :
                         ~Cyclic(q) /\ Cardinality(Reach(q)) <= n =>
                            \A k \in Nat : n <= k => Walk[k][q] = Walk[n][q]}
<1>1. MountsType
  BY DEF TreeType, MountsType
<1>2. \A q \in Routers : /\ IsFiniteSet(Reach(q)) /\ Cardinality(Reach(q)) \in Nat
                         /\ Cardinality(Reach(q)) <= N /\ Cardinality(Reach(q)) # 0
  <2> SUFFICES ASSUME NEW q \in Routers
               PROVE  /\ IsFiniteSet(Reach(q)) /\ Cardinality(Reach(q)) \in Nat
                      /\ Cardinality(Reach(q)) <= N /\ Cardinality(Reach(q)) # 0
    OBVIOUS
  <2>1. q \in Reach(q) /\ Reach(q) \in SUBSET Routers
    BY <1>1, ReachSelf, ReachClosed
  <2>2. IsFiniteSet(Reach(q)) /\ Cardinality(Reach(q)) <= N
    BY <2>1, RouterRegistryAssumption, FS_Subset
  <2>3. Cardinality(Reach(q)) \in Nat
    BY <2>2, FS_CardinalityType
  <2>4. Cardinality(Reach(q)) # 0
    BY <2>1, <2>2, FS_EmptySet
  <2> QED BY <2>2, <2>3, <2>4
<1>3. Nat \subseteq Enough
  <2>1. 0 \in Enough
    BY <1>2
  <2>2. ASSUME NEW n \in Nat, n \in Enough PROVE n + 1 \in Enough
    <3> SUFFICES ASSUME NEW q \in Routers, ~Cyclic(q), Cardinality(Reach(q)) <= n + 1,
                        NEW k \in Nat, n + 1 <= k
                 PROVE  Walk[k][q] = Walk[n + 1][q]
      OBVIOUS
    <3>1. k - 1 \in Nat /\ (k - 1) + 1 = k /\ n <= k - 1
      OBVIOUS
    <3>2. ASSUME NEW c \in Children(q) PROVE Walk[k - 1][c] = Walk[n][c]
      <4>1. /\ c \in Routers /\ ~Cyclic(c) /\ Cardinality(Reach(c)) \in Nat
            /\ Cardinality(Reach(c)) < Cardinality(Reach(q))
        BY <1>1, FewerBelow
      <4>2. Cardinality(Reach(c)) <= n
        BY <1>2, <4>1
      <4> QED BY <2>2, <3>1, <4>1, <4>2
    <3>3. \A i \in DOMAIN mounts[q] : Walk[k - 1][mounts[q][i].router] = Walk[n][mounts[q][i].router]
      BY <3>2 DEF Children
    <3>4. Listed(q, Walk[k - 1]) = Listed(q, Walk[n])
      <4>1. [i \in DOMAIN mounts[q] |-> Beneath(mounts[q][i].prefix, Walk[k - 1][mounts[q][i].router])]
            = [i \in DOMAIN mounts[q] |-> Beneath(mounts[q][i].prefix, Walk[n][mounts[q][i].router])]
        BY <3>3
      <4> QED BY <4>1 DEF Listed
    <3>5. Walk[(k - 1) + 1][q] = Listed(q, Walk[k - 1]) /\ Walk[n + 1][q] = Listed(q, Walk[n])
      BY <3>1, WalkUnfolds
    <3> QED BY <3>1, <3>4, <3>5
  <2> HIDE DEF Enough
  <2> QED BY <2>1, <2>2, Induction
<1>4. N \in Nat
  BY RouterRegistryAssumption, FS_CardinalityType
<1>5. N \in Enough /\ Cardinality(Reach(r)) <= N
  BY <1>2, <1>3, <1>4
<1> QED BY <1>5 DEF Flattened

LEMMA FlatOfType ==
    ASSUME RegistryTypeOK, NEW r \in Routers
    PROVE  FlatOf(r) \in Flat /\ Some(Flattened(r)) \in Flat
<1>1. Some(Flattened(r)) \in Flat
  BY FlattenedType DEF RegistryTypeOK, TreeType, Some, Flat, Routes
<1> QED BY <1>1 DEF FlatOf, RegistryTypeOK

LEMMA RegistryTypesInitially == RegistryInit => RegistryTypeOK
<1>1. Nothing \in Flat
  BY DEF Flat
<1> QED BY <1>1 DEF RegistryInit, RegistryTypeOK

LEMMA RegistryTypesStep == RegistryTypeOK /\ [RegistryNext]_registryVars => RegistryTypeOK'
<1> SUFFICES ASSUME RegistryTypeOK, [RegistryNext]_registryVars PROVE RegistryTypeOK'
  OBVIOUS
<1> DEFINE Served == {Root} \union Webhooks
<1>0. Root \in Routers
  BY RouterRegistryAssumption
<1>1. FlatOf(Root) \in Flat /\ Some(Flattened(Root)) \in Flat
  BY <1>0, FlatOfType
<1>2. \A S : Freezes(S) => frozen' \in [Routers -> BOOLEAN]
  BY DEF Freezes
<1>3. ASSUME NEW r \in Routers, NEW d \in Decls, NEW C \in SUBSET Routers, CreateDecorator(r, d, C)
      PROVE  RegistryTypeOK'
  <2>1. frozen' \in [Routers -> BOOLEAN] /\ alive' \in BOOLEAN
    BY <1>2, <1>3 DEF CreateDecorator, Ends
  <2>2. created' \subseteq [router : Routers, decl : Decls]
    BY <1>3 DEF CreateDecorator, RegistryTypeOK
  <2> QED BY <1>3, <2>1, <2>2 DEF CreateDecorator, RegistryTypeOK
<1>4. ASSUME NEW c \in created, ApplyDecorator(c) PROVE RegistryTypeOK'
  <2>1. c.router \in Routers /\ c.decl \in Decls
    BY DEF RegistryTypeOK
  <2>2. Append(entries[c.router], c.decl) \in Seq(Decls)
    BY <2>1 DEF RegistryTypeOK
  <2>3. entries' \in [Routers -> Seq(Decls)]
    BY <1>4, <2>1, <2>2 DEF ApplyDecorator, RegistryTypeOK
  <2> QED BY <1>4, <2>3 DEF ApplyDecorator, RegistryTypeOK
<1>5. ASSUME NEW r \in Routers, NEW s \in Routers, NEW p \in MountPrefixes, Include(r, s, p)
      PROVE  RegistryTypeOK'
  <2>1. [router |-> s, prefix |-> p] \in Mount
    BY DEF Mount
  <2>2. Append(mounts[r], [router |-> s, prefix |-> p]) \in Seq(Mount)
    BY <2>1 DEF RegistryTypeOK
  <2>3. mounts' \in [Routers -> Seq(Mount)]
    BY <1>5, <2>2 DEF Include, RegistryTypeOK
  <2> QED BY <1>5, <2>3 DEF Include, RegistryTypeOK
<1>6. CASE OpenApi
  <2>1. frozen' \in [Routers -> BOOLEAN] /\ alive' \in BOOLEAN
    BY <1>2, <1>6 DEF OpenApi, Ends
  <2>2. docs' \in Flat
    BY <1>1, <1>6 DEF OpenApi, RegistryTypeOK
  <2> QED BY <1>6, <2>1, <2>2 DEF OpenApi, RegistryTypeOK
<1>7. CASE Serve
  <2>1. frozen' \in [Routers -> BOOLEAN] /\ alive' \in BOOLEAN
    BY <1>2, <1>7 DEF Serve, Ends
  <2>2. table' \in Flat /\ docs' \in Flat
    BY <1>1, <1>7 DEF Serve, RegistryTypeOK
  <2>3. cached' \in [Routers -> Flat]
    <3>1. CASE cached' = cached
      BY <3>1 DEF RegistryTypeOK
    <3>2. CASE cached' = [cached EXCEPT ![Root] = Some(Flattened(Root))]
      BY <1>0, <1>1, <3>2 DEF RegistryTypeOK
    <3> QED BY <1>7, <3>1, <3>2 DEF Serve
  <2> QED BY <1>7, <2>1, <2>2, <2>3 DEF Serve, RegistryTypeOK
<1>8. CASE UNCHANGED registryVars
  BY <1>8 DEF registryVars, RegistryTypeOK
<1> QED BY <1>3, <1>4, <1>5, <1>6, <1>7, <1>8 DEF RegistryNext

\* The registry's variables have their types: in particular every flattened tree is a
\* list of routes, each behind prefixes that include_router was given.
THEOREM RegistryTypesAreRight == RegistrySpec => []RegistryTypeOK
<1> QED BY RegistryTypesInitially, RegistryTypesStep, PTL DEF RegistrySpec

\* The whole tree below a router: its own routes, then those of the routers it includes,
\* each whole itself.
Whole(r) ==
    /\ Flattened(r) = Listed(r, [s \in Routers |-> Flattened(s)])
    /\ \A m \in Nat : Cardinality(Routers) <= m => Walk[m][r] = Flattened(r)

LEMMA AcyclicIsWhole ==
    ASSUME TreeType, NEW r \in Routers, ~Cyclic(r)
    PROVE  Whole(r)
<1> DEFINE N == Cardinality(Routers)
<1>1. N \in Nat /\ N + 1 \in Nat /\ N <= N + 1
  BY RouterRegistryAssumption, FS_CardinalityType
<1>2. Walk[N + 1][r] = Flattened(r) /\ Walk[N + 1][r] = Listed(r, Walk[N]) /\ Walk[N] \in Lists
  BY <1>1, WalkIsWhole, WalkUnfolds
<1>3. Walk[N] = [s \in Routers |-> Flattened(s)]
  BY <1>2 DEF Lists, Flattened
<1>4. \A m \in Nat : N <= m => Walk[m][r] = Flattened(r)
  BY WalkIsWhole
<1> QED BY <1>2, <1>3, <1>4 DEF Whole

\* The flat routes of a frozen router, which are what is served and documented, are all
\* that its tree has, at every depth: no longer walk finds more, and each included
\* router's own routes are there behind its prefix (flatten_router).
THEOREM FlatteningIsWhole ==
    RegistrySpec => [](alive => \A r \in Routers : frozen[r] => Whole(r))
<1>1. RegistryTypeOK /\ FreezingInv => (alive => \A r \in Routers : frozen[r] => Whole(r))
  BY AcyclicIsWhole DEF RegistryTypeOK, TreeType, FreezingInv, FrozenAcyclic
<1> QED BY <1>1, RegistryTypesAreRight, FreezingInvariance, PTL

-----------------------------------------------------------------------------
(* Dispatch: segments, paths and the path below root_path.                 *)

Segment == Literals \union {Var}

LEMMA RouteShape ==
    ASSUME NEW rs \in Seq(Declarations), NEW i \in DOMAIN rs
    PROVE  /\ i \in Nat /\ i >= 1 /\ i <= Len(rs)
           /\ rs[i] \in Declarations /\ rs[i] \in Route
           /\ rs[i].segs \in Seq(Segment)
           /\ rs[i].method \in Known
           /\ rs[i].mode = "websocket" => ~HasVar(rs[i]) /\ rs[i].method = "GET"
<1>1. rs[i] \in Declarations /\ i \in 1 .. Len(rs)
  OBVIOUS
<1>2. rs[i] \in Route
  BY <1>1, DispatchAssumption
<1>3. rs[i].segs \in Seq(Segment) /\ rs[i].method \in Known
  BY <1>2 DEF Route, Segment
<1>4. rs[i].mode = "websocket" => ~HasVar(rs[i]) /\ rs[i].method = "GET"
  <2> HIDE DEF HasVar
  <2> QED BY <1>1, DispatchAssumption
<1> QED BY <1>1, <1>2, <1>3, <1>4

\* The path below root_path is one at most.
LEMMA BelowIsOne ==
    ASSUME NEW rt \in Seq(Literals), NEW path \in Path
    PROVE  /\ Below(rt, path) \subseteq Path
           /\ \A b, c \in Below(rt, path) : b = c
           /\ rt = <<>> => Below(rt, path) = {path}
<1>0. path.segs \in Seq(Literals) /\ path.slash \in BOOLEAN /\ path = [segs |-> path.segs, slash |-> path.slash]
  BY DEF Path
<1>1. CASE rt = <<>>
  BY <1>1 DEF Below
<1>2. CASE rt # <<>> /\ path.segs = rt
  <2>1. Below(rt, path) = {[segs |-> <<>>, slash |-> TRUE]}
    BY <1>2 DEF Below
  <2>2. <<>> \in Seq(Literals)
    OBVIOUS
  <2> QED BY <1>2, <2>1, <2>2 DEF Path
<1>3. CASE rt # <<>> /\ path.segs # rt /\ Under(rt, path.segs)
  <2> DEFINE rest == SubSeq(path.segs, Len(rt) + 1, Len(path.segs))
             b == [path EXCEPT !.segs = rest]
  <2>1. rest \in Seq(Literals)
    BY <1>0, SubSeqProperties
  <2>2. Below(rt, path) = {b}
    BY <1>3 DEF Below
  <2>3. b \in Path
    BY <2>1 DEF Path
  <2> QED BY <1>3, <2>2, <2>3
<1>4. CASE rt # <<>> /\ path.segs # rt /\ ~Under(rt, path.segs)
  BY <1>4 DEF Below
<1> QED BY <1>1, <1>2, <1>3, <1>4

\* NormalizePathLayer changes nothing but the slash, below root_path too.
LEMMA TrimmedBelow ==
    ASSUME NEW rt \in Seq(Literals), NEW path \in Path
    PROVE  /\ Trimmed(path) \in Path /\ Trimmed(path).segs = path.segs
           /\ \A b \in Below(rt, Trimmed(path)) : \E c \in Below(rt, path) : c.segs = b.segs
           /\ \A c \in Below(rt, path) : \E b \in Below(rt, Trimmed(path)) : c.segs = b.segs
<1> DEFINE t == Trimmed(path)
<1>1. t \in Path /\ t.segs = path.segs /\ path.segs \in Seq(Literals)
  BY DEF Trimmed, Path
<1> HIDE DEF t
<1>2. CASE rt = <<>>
  BY <1>1, <1>2 DEF Below, t
<1>3. CASE rt # <<>> /\ path.segs = rt
  BY <1>1, <1>3 DEF Below, t
<1>4. CASE rt # <<>> /\ path.segs # rt /\ Under(rt, path.segs)
  <2> DEFINE rest == SubSeq(path.segs, Len(rt) + 1, Len(path.segs))
  <2>1. /\ Below(rt, path) = {[path EXCEPT !.segs = rest]}
        /\ Below(rt, t) = {[t EXCEPT !.segs = rest]}
    BY <1>1, <1>4 DEF Below
  <2> HIDE DEF rest
  <2>2. [path EXCEPT !.segs = rest].segs = rest /\ [t EXCEPT !.segs = rest].segs = rest
    BY <1>1 DEF Path
  <2> QED BY <1>1, <2>1, <2>2 DEF t
<1>5. CASE rt # <<>> /\ path.segs # rt /\ ~Under(rt, path.segs)
  BY <1>1, <1>5 DEF Below, t
<1> QED BY <1>2, <1>3, <1>4, <1>5

-----------------------------------------------------------------------------
(* The patterns of one path.                                               *)

Fitting(rs, m, path) == {i \in Http(rs, m) : HasVar(rs[i]) /\ Fits(rs[i].segs, path)}

LEMMA HttpType == \A rs, m : Http(rs, m) \subseteq DOMAIN rs
BY DEF Http

LEMMA FittingFacts ==
    ASSUME NEW rs \in Seq(Declarations), NEW m, NEW path \in Path, NEW i \in Fitting(rs, m, path)
    PROVE  /\ i \in DOMAIN rs /\ rs[i].segs \in Seq(Segment)
           /\ Len(rs[i].segs) = Len(path.segs) /\ path.segs \in Seq(Literals)
           /\ \A k \in 1 .. Len(path.segs) :
                 rs[i].segs[k] # Var => rs[i].segs[k] = path.segs[k] /\ path.segs[k] # Var
<1>1. i \in DOMAIN rs /\ Fits(rs[i].segs, path)
  BY DEF Fitting, Http
<1>2. rs[i].segs \in Seq(Segment)
  BY <1>1, RouteShape
<1>3. path.segs \in Seq(Literals)
  BY DEF Path
<1>4. Len(rs[i].segs) = Len(path.segs) /\ DOMAIN rs[i].segs = 1 .. Len(path.segs)
  BY <1>1, <1>2 DEF Fits
<1> QED BY <1>1, <1>2, <1>3, <1>4 DEF Fits

\* Of two patterns at most one goes before the other.
LEMMA BeforeIsAsymmetric ==
    ASSUME NEW p \in Seq(Segment), NEW q \in Seq(Segment), Before(p, q), Before(q, p)
    PROVE  FALSE
<1>1. PICK i \in DOMAIN p : p[i] # Var /\ q[i] = Var /\ \A j \in 1 .. i - 1 : p[j] = q[j]
  BY DEF Before
<1>2. PICK k \in DOMAIN q : q[k] # Var /\ p[k] = Var /\ \A j \in 1 .. k - 1 : q[j] = p[j]
  BY DEF Before
<1>3. i \in Nat /\ i >= 1 /\ k \in Nat /\ k >= 1
  OBVIOUS
<1>4. i < k \/ k < i \/ i = k
  BY <1>3
<1>5. CASE i < k
  <2>1. i \in 1 .. k - 1
    BY <1>3, <1>5
  <2> QED BY <1>1, <1>2, <2>1
<1>6. CASE k < i
  <2>1. k \in 1 .. i - 1
    BY <1>3, <1>6
  <2> QED BY <1>1, <1>2, <2>1
<1> QED BY <1>1, <1>2, <1>4, <1>5, <1>6

LEMMA PatternIsOne ==
    ASSUME NEW rs \in Seq(Declarations), NEW m, NEW path \in Path
    PROVE  /\ Pattern(rs, m, path) \subseteq Fitting(rs, m, path)
           /\ \A i, j \in Pattern(rs, m, path) : i = j
<1>1. Pattern(rs, m, path) \subseteq Fitting(rs, m, path)
  BY DEF Pattern, Fitting
<1>2. ASSUME NEW i \in Pattern(rs, m, path), NEW j \in Pattern(rs, m, path)
      PROVE  i = j
  <2>1. i \in Fitting(rs, m, path) /\ j \in Fitting(rs, m, path)
    BY <1>1
  <2>2. /\ IF rs[j].segs = rs[i].segs THEN i <= j ELSE Before(rs[i].segs, rs[j].segs)
        /\ IF rs[i].segs = rs[j].segs THEN j <= i ELSE Before(rs[j].segs, rs[i].segs)
    BY <2>1 DEF Pattern, Fitting
  <2>3. rs[i].segs \in Seq(Segment) /\ rs[j].segs \in Seq(Segment) /\ i \in Nat /\ j \in Nat
    BY <2>1, FittingFacts
  <2>4. CASE rs[i].segs = rs[j].segs
    BY <2>2, <2>3, <2>4
  <2>5. CASE rs[i].segs # rs[j].segs
    BY <2>2, <2>3, <2>5, BeforeIsAsymmetric
  <2> QED BY <2>4, <2>5
<1> QED BY <1>1, <1>2

\* A path that fits a pattern has one that goes before all others.
LEMMA PatternExists ==
    ASSUME NEW rs \in Seq(Declarations), NEW m, NEW path \in Path,
           Fitting(rs, m, path) # {}
    PROVE  Pattern(rs, m, path) # {}
<1> DEFINE fits == Fitting(rs, m, path)
           L == Len(path.segs)
           seg(i, k) == rs[i].segs[k]
           Same(i, j, n) == \A k \in 1 .. n : seg(i, k) = seg(j, k)
           Ahead(i, j, n) == \E k \in 1 .. n :
                                seg(i, k) # Var /\ seg(j, k) = Var /\ Same(i, j, k - 1)
           Best(i, n) == \A j \in fits : Same(i, j, n) \/ Ahead(i, j, n)
           Found == {n \in Nat : n <= L => \E i \in fits : Best(i, n)}
<1>1. L \in Nat /\ \A i \in fits : \A k \in 1 .. L :
         seg(i, k) # Var => seg(i, k) = path.segs[k] /\ path.segs[k] # Var
  <2>1. L \in Nat
    BY DEF Path
  <2> HIDE DEF L, fits
  <2>2. ASSUME NEW i \in fits, NEW k \in 1 .. L, seg(i, k) # Var
        PROVE  seg(i, k) = path.segs[k] /\ path.segs[k] # Var
    BY <2>2, FittingFacts DEF fits, L
  <2> QED BY <2>1, <2>2
<1> HIDE DEF fits, seg, L
<1>2. 0 \in Found
  BY DEF fits
<1>3. ASSUME NEW n \in Nat, n \in Found PROVE n + 1 \in Found
  <2> SUFFICES ASSUME n + 1 <= L PROVE \E i \in fits : Best(i, n + 1)
    OBVIOUS
  <2>1. PICK i \in fits : Best(i, n)
    BY <1>1, <1>3
  <2>2. n + 1 \in 1 .. L
    BY <1>1
  <2>3. PICK h \in fits : /\ Same(h, i, n)
                          /\ seg(h, n + 1) # Var \/ \A j \in fits : Same(i, j, n) => seg(j, n + 1) = Var
    <3>1. Same(i, i, n)
      OBVIOUS
    <3>2. CASE \E j \in fits : Same(i, j, n) /\ seg(j, n + 1) # Var
      BY <3>2
    <3>3. CASE ~(\E j \in fits : Same(i, j, n) /\ seg(j, n + 1) # Var)
      BY <3>1, <3>3
    <3> QED BY <3>2, <3>3
  <2>4. ASSUME NEW j \in fits PROVE Same(h, j, n + 1) \/ Ahead(h, j, n + 1)
    <3>1. CASE Same(i, j, n)
      <4>1. Same(h, j, n)
        BY <2>3, <3>1
      <4>2. \A k \in 1 .. n + 1 : k \in 1 .. n \/ k = n + 1
        OBVIOUS
      <4>3. CASE seg(h, n + 1) = seg(j, n + 1)
        BY <4>1, <4>2, <4>3
      <4>4. CASE seg(h, n + 1) # seg(j, n + 1)
        <5>1. seg(h, n + 1) # Var
          BY <2>3, <3>1, <4>4
        <5>2. seg(j, n + 1) = Var
          BY <1>1, <2>2, <4>4, <5>1
        <5>3. (n + 1) - 1 = n /\ n + 1 \in 1 .. n + 1
          OBVIOUS
        <5> QED BY <4>1, <5>1, <5>2, <5>3
      <4> QED BY <4>3, <4>4
    <3>2. CASE ~Same(i, j, n)
      <4>1. PICK k \in 1 .. n : seg(i, k) # Var /\ seg(j, k) = Var /\ Same(i, j, k - 1)
        BY <2>1, <3>2
      <4>2. k \in 1 .. n + 1 /\ \A l \in 1 .. k - 1 : l \in 1 .. n
        OBVIOUS
      <4>3. seg(h, k) = seg(i, k) /\ Same(h, j, k - 1)
        BY <2>3, <4>1, <4>2
      <4> QED BY <4>1, <4>2, <4>3
    <3> QED BY <3>1, <3>2
  <2> QED BY <2>4
<1>4. Nat \subseteq Found
  <2> HIDE DEF Found
  <2> QED BY <1>2, <1>3, Induction
<1>5. PICK i \in fits : Best(i, L)
  <2>1. L \in Found
    <3> HIDE DEF Found
    <3> QED BY <1>1, <1>4
  <2> HIDE DEF Best
  <2> QED BY <1>1, <2>1
<1> DEFINE Equal == {j \in fits : rs[j].segs = rs[i].segs}
<1>6. Equal \subseteq Nat /\ Equal # {}
  BY FittingFacts DEF fits
<1>7. PICK h \in Equal : \A j \in Equal : h <= j
  <2> HIDE DEF Equal
  <2> QED BY <1>6, Least
<1>8. ASSUME NEW j \in fits, rs[j].segs # rs[h].segs
      PROVE  Before(rs[h].segs, rs[j].segs)
  <2>1. /\ rs[j].segs \in Seq(Segment) /\ rs[i].segs \in Seq(Segment)
        /\ Len(rs[j].segs) = L /\ Len(rs[i].segs) = L
    BY FittingFacts DEF fits, L
  <2>2. ~Same(i, j, L)
    <3> SUFFICES ASSUME Same(i, j, L) PROVE FALSE
      OBVIOUS
    <3>1. rs[i].segs = rs[j].segs
      BY <2>1, SeqEqual DEF seg
    <3> QED BY <1>7, <1>8, <3>1
  <2>3. Ahead(i, j, L)
    BY <1>5, <2>2
  <2>4. DOMAIN rs[h].segs = 1 .. L /\ rs[h].segs = rs[i].segs
    BY <1>7, <2>1
  <2> QED BY <2>3, <2>4 DEF Before, seg
<1>9. h \in Pattern(rs, m, path)
  <2>1. h \in fits /\ \A j \in fits :
           IF rs[j].segs = rs[h].segs THEN h <= j ELSE Before(rs[h].segs, rs[j].segs)
    BY <1>7, <1>8
  <2> QED BY <2>1 DEF Pattern, fits, Fitting
<1> QED BY <1>9

-----------------------------------------------------------------------------
(* What the two tables find.                                               *)

\* A route with a literal path that is kept is one of those with this path.
LEMMA StaticFacts ==
    ASSUME NEW rs \in Seq(Declarations), NEW m, NEW path \in Path
    PROVE  /\ \A i \in Static(rs, m, path) :
                 i \in Http(rs, m) /\ ~HasVar(rs[i]) /\ rs[i].segs = path.segs
           /\ Static(rs, m, path) # {} => Max(Static(rs, m, path)) \in Static(rs, m, path)
<1> DEFINE S == Static(rs, m, path)
<1>1. ASSUME S # {} PROVE Max(S) \in S
  <2>1. S \subseteq 0 .. Len(rs) /\ Len(rs) \in Nat
    BY DEF Static, Http
  <2> HIDE DEF S
  <2>2. \E x \in S : \A y \in S : y <= x
    BY <1>1, <2>1, Greatest
  <2>3. \E x \in S : \A y \in S : x >= y
    BY <2>1, <2>2
  <2> QED BY <2>3 DEF Max
<1> QED BY <1>1 DEF Static

LEMMA ResolveFacts ==
    ASSUME NEW rs \in Seq(Declarations), NEW m, NEW path \in Path
    PROVE  /\ \A i, j \in Resolve(rs, m, path) : i = j
           /\ \A i \in Resolve(rs, m, path) :
                 \/ i \in Static(rs, m, path)
                 \/ i \in Fitting(rs, m, path) /\ Static(rs, m, path) = {}
           /\ Resolve(rs, m, path) = {} =>
                 Static(rs, m, path) = {} /\ Fitting(rs, m, path) = {}
<1>1. CASE Static(rs, m, path) # {}
  <2>1. Resolve(rs, m, path) = {Max(Static(rs, m, path))}
    BY <1>1 DEF Resolve
  <2>2. Max(Static(rs, m, path)) \in Static(rs, m, path)
    BY <1>1, StaticFacts
  <2> QED BY <2>1, <2>2
<1>2. CASE Static(rs, m, path) = {}
  <2>1. Resolve(rs, m, path) = Pattern(rs, m, path)
    BY <1>2 DEF Resolve
  <2> QED BY <1>2, <2>1, PatternIsOne, PatternExists
<1> QED BY <1>1, <1>2

\* A route that was found has the shape of the path.
LEMMA ResolvedShape ==
    ASSUME NEW rs \in Seq(Declarations), NEW m, NEW path \in Path,
           NEW i \in Resolve(rs, m, path)
    PROVE  i \in Http(rs, m) /\ Shape(rs[i].segs, path)
<1>1. CASE i \in Static(rs, m, path)
  BY <1>1, StaticFacts DEF Shape
<1>2. CASE i \in Fitting(rs, m, path)
  BY <1>2 DEF Fitting, Fits, Shape
<1> QED BY <1>1, <1>2, ResolveFacts

\* What the fallback finds: one route at most, that was resolved below root_path.
Found(rs, rt, m, path) == UNION {Resolve(rs, m, below) : below \in Below(rt, path)}

LEMMA FoundFacts ==
    ASSUME NEW rs \in Seq(Declarations), NEW rt \in Seq(Literals), NEW m, NEW path \in Path
    PROVE  /\ \A i, j \in Found(rs, rt, m, path) : i = j
           /\ \A i \in Found(rs, rt, m, path) :
                 \E b \in Below(rt, path) : b \in Path /\ i \in Resolve(rs, m, b)
           /\ Found(rs, rt, m, path) = {} =>
                 \A b \in Below(rt, path) : Resolve(rs, m, b) = {}
<1>1. \A i \in Found(rs, rt, m, path) :
         \E b \in Below(rt, path) : b \in Path /\ i \in Resolve(rs, m, b)
  BY BelowIsOne DEF Found
<1>2. ASSUME NEW i \in Found(rs, rt, m, path), NEW j \in Found(rs, rt, m, path)
      PROVE  i = j
  <2>1. PICK b \in Below(rt, path) : b \in Path /\ i \in Resolve(rs, m, b)
    BY <1>1
  <2>2. PICK c \in Below(rt, path) : c \in Path /\ j \in Resolve(rs, m, c)
    BY <1>1
  <2>3. b = c
    BY BelowIsOne
  <2> QED BY <2>1, <2>2, <2>3, ResolveFacts
<1>3. Found(rs, rt, m, path) = {} => \A b \in Below(rt, path) : Resolve(rs, m, b) = {}
  BY DEF Found
<1> QED BY <1>1, <1>2, <1>3

\* The answers of the fallback.
LEMMA FallbackCases ==
    ASSUME NEW rs, NEW rt, NEW m, NEW path, NEW limited \in BOOLEAN
    PROVE  \/ m \notin Known /\ Fallback(rs, rt, m, path, limited) = Reply("not_allowed", 0, <<>>)
           \/ /\ m \in Known /\ Found(rs, rt, m, path) = {}
              /\ Fallback(rs, rt, m, path, limited) = Reply("not_found", 0, <<>>)
           \/ \E i \in Found(rs, rt, m, path) :
                 /\ m \in Known /\ rs[i].limited /\ limited
                 /\ Fallback(rs, rt, m, path, limited) = Reply("limited", i, <<>>)
           \/ \E i \in Found(rs, rt, m, path) :
                 /\ m \in Known /\ ~(rs[i].limited /\ limited)
                 /\ Fallback(rs, rt, m, path, limited) =
                       Reply("handler", i, IF rs[i].mode = "args"
                                           THEN Args(rs[i].segs, path) ELSE <<>>)
<1> DEFINE found == Found(rs, rt, m, path)
           i == CHOOSE i \in found : TRUE
<1>1. Fallback(rs, rt, m, path, limited) =
         IF m \notin Known THEN Reply("not_allowed", 0, <<>>)
         ELSE IF found = {} THEN Reply("not_found", 0, <<>>)
         ELSE IF rs[i].limited /\ limited THEN Reply("limited", i, <<>>)
         ELSE Reply("handler", i, IF rs[i].mode = "args" THEN Args(rs[i].segs, path) ELSE <<>>)
  BY DEF Fallback, Found
<1>2. found # {} => i \in found
  OBVIOUS
<1> HIDE DEF found, i
<1>3. CASE m \notin Known
  BY <1>1, <1>3 DEF found
<1>4. CASE m \in Known /\ found = {}
  BY <1>1, <1>4 DEF found
<1>5. CASE m \in Known /\ found # {}
  <2>1. i \in found
    BY <1>2, <1>5
  <2>2. CASE rs[i].limited /\ limited
    BY <1>1, <1>5, <2>1, <2>2 DEF found
  <2>3. CASE ~(rs[i].limited /\ limited)
    BY <1>1, <1>5, <2>1, <2>3 DEF found
  <2> QED BY <2>2, <2>3
<1> QED BY <1>3, <1>4, <1>5

\* The answers of the application.
LEMMA AnswerCases ==
    ASSUME NEW rs, NEW rt, NEW m, NEW path, NEW limited \in BOOLEAN
    PROVE  \/ \E i \in ByMethod(rs, m, path) :
                 Answered(rs, rt, m, path, limited) = Reply("handler", i, <<>>)
           \/ /\ ByMethod(rs, m, path) = {} /\ path \in Builtins /\ m \in {"GET", "HEAD"}
              /\ Answered(rs, rt, m, path, limited) = Reply("builtin", 0, <<>>)
           \/ /\ ByMethod(rs, m, path) = {} /\ ~(path \in Builtins /\ m \in {"GET", "HEAD"})
              /\ Endpoints(rs, path) # {} \/ path \in Builtins
              /\ Answered(rs, rt, m, path, limited) = Reply("not_allowed", 0, <<>>)
           \/ /\ ByMethod(rs, m, path) = {} /\ Endpoints(rs, path) = {} /\ path \notin Builtins
              /\ Answered(rs, rt, m, path, limited) = Fallback(rs, rt, m, Trimmed(path), limited)
<1>1. CASE ByMethod(rs, m, path) # {}
  BY <1>1 DEF Answered
<1>2. CASE ByMethod(rs, m, path) = {}
  BY <1>2 DEF Answered
<1> QED BY <1>1, <1>2

\* An endpoint that answers was declared for this path and this method.
LEMMA ByMethodFacts ==
    ASSUME NEW rs \in Seq(Declarations), NEW m, NEW path, NEW i \in ByMethod(rs, m, path)
    PROVE  /\ i \in DOMAIN rs /\ Exact(rs[i]) /\ ~HasVar(rs[i])
           /\ rs[i].segs = path.segs
           /\ rs[i].method = m \/ (m = "HEAD" /\ rs[i].method = "GET")
<1>1. i \in Endpoints(rs, path) /\ (rs[i].method = m \/ (m = "HEAD" /\ rs[i].method = "GET"))
  BY DEF ByMethod
<1>2. i \in DOMAIN rs /\ Exact(rs[i]) /\ At(rs[i], path)
  BY <1>1 DEF Endpoints
<1>3. ~HasVar(rs[i])
  <2>1. rs[i].mode = "websocket" => ~HasVar(rs[i])
    BY <1>2, RouteShape
  <2> QED BY <1>2, <2>1 DEF Exact
<1> QED BY <1>1, <1>2, <1>3 DEF At

-----------------------------------------------------------------------------
(* Every answer is that of Answered for the routes that were built.        *)

Replied ==
    exchange # NoExchange =>
        /\ server = "serving"
        /\ exchange.method \in Methods /\ exchange.path \in Requested
        /\ \E limited \in BOOLEAN :
              exchange = [method |-> exchange.method, path |-> exchange.path,
                          answer |-> Answered(routes, root, exchange.method, exchange.path, limited)]

DispatchInv ==
    /\ routes \in Seq(Declarations) /\ Len(routes) <= MaxRoutes
    /\ root \in Roots
    /\ redirect \in BOOLEAN
    /\ server \in {"declaring", "serving", "panicked"}
    /\ Replied

THEOREM DispatchInvariance == Spec => []DispatchInv
<1>1. Init => DispatchInv
  <2> SUFFICES ASSUME Init PROVE DispatchInv
    OBVIOUS
  <2>1. <<>> \in Seq(Declarations) /\ Len(<<>>) = 0
    OBVIOUS
  <2> QED BY <2>1, DispatchAssumption DEF Init, DispatchInv, Replied
<1>2. DispatchInv /\ [Next]_vars => DispatchInv'
  <2> SUFFICES ASSUME DispatchInv, [Next]_vars PROVE DispatchInv'
    OBVIOUS
  <2>1. ASSUME NEW rt \in Declarations, Declare(rt) PROVE DispatchInv'
    <3>1. routes' \in Seq(Declarations) /\ Len(routes') <= MaxRoutes
      BY <2>1, DispatchAssumption DEF Declare, DispatchInv
    <3>2. exchange = NoExchange /\ exchange' = NoExchange
      BY <2>1 DEF Declare, DispatchInv, Replied
    <3> QED BY <2>1, <3>1, <3>2 DEF Declare, DispatchInv, Replied
  <2>2. CASE Build
    <3>1. exchange = NoExchange /\ exchange' = NoExchange
      BY <2>2 DEF Build, DispatchInv, Replied
    <3> QED BY <2>2, <3>1 DEF Build, DispatchInv, Replied
  <2>3. ASSUME NEW m \in Methods, NEW path \in Requested, NEW limited \in BOOLEAN,
               Request(m, path, limited)
        PROVE  DispatchInv'
    <3> DEFINE a == Answered(routes, root, m, path, limited)
    <3>1. exchange' = [method |-> m, path |-> path, answer |-> a] /\ server = "serving"
          /\ routes' = routes /\ root' = root /\ redirect' = redirect /\ server' = server
      BY <2>3 DEF Request
    <3>2. a = Answered(routes, root, m, path, limited)'
      BY <3>1 DEF Answered, Fallback, Trimmed, ByMethod, Endpoints
    <3> HIDE DEF a
    <3>3. exchange'.method = m /\ exchange'.path = path
      BY <3>1
    <3>4. Replied'
      BY <3>1, <3>2, <3>3 DEF Replied
    <3> QED BY <3>1, <3>4 DEF DispatchInv
  <2>4. CASE UNCHANGED vars
    <3>1. ASSUME NEW limited \in BOOLEAN
          PROVE  Answered(routes, root, exchange.method, exchange.path, limited)'
                    = Answered(routes, root, exchange.method, exchange.path, limited)
      BY <2>4 DEF vars, Answered, Fallback, Trimmed, ByMethod, Endpoints
    <3>2. Replied'
      BY <2>4, <3>1 DEF DispatchInv, vars, Replied
    <3> QED BY <2>4, <3>2 DEF DispatchInv, vars
  <2> QED BY <2>1, <2>2, <2>3, <2>4 DEF Next
<1> QED BY <1>1, <1>2, PTL DEF Spec

\* What is known of an answer.
LEMMA Types ==
    ASSUME DispatchInv
    PROVE  /\ routes \in Seq(Declarations) /\ root \in Seq(Literals)
           /\ Answering => exchange.method \in Methods /\ exchange.path \in Path
BY DispatchAssumption DEF DispatchInv, Replied, Answering

LEMMA AnswerIs ==
    ASSUME DispatchInv, Answering
    PROVE  \E limited \in BOOLEAN :
              exchange.answer = Answered(routes, root, exchange.method, exchange.path, limited)
<1>1. PICK limited \in BOOLEAN :
         exchange = [method |-> exchange.method, path |-> exchange.path,
                     answer |-> Answered(routes, root, exchange.method, exchange.path, limited)]
  BY DEF DispatchInv, Replied, Answering
<1> QED BY <1>1

\* A handler answers through an endpoint or through the fallback.
LEMMA HandlerAnswers ==
    ASSUME DispatchInv, Answering, exchange.answer.kind = "handler"
    PROVE  LET i == exchange.answer.route
               m == exchange.method
           IN  \/ i \in ByMethod(routes, m, exchange.path) /\ exchange.answer.args = <<>>
               \/ \E b \in Below(root, Trimmed(exchange.path)) :
                     /\ b \in Path /\ i \in Resolve(routes, m, b)
                     /\ exchange.answer.args = IF routes[i].mode = "args"
                           THEN Args(routes[i].segs, Trimmed(exchange.path)) ELSE <<>>
<1> DEFINE i == exchange.answer.route
           m == exchange.method
           path == exchange.path
           t == Trimmed(path)
           given(k) == IF routes[k].mode = "args" THEN Args(routes[k].segs, t) ELSE <<>>
<1>0. routes \in Seq(Declarations) /\ root \in Seq(Literals) /\ path \in Path
  BY Types
<1>1. t \in Path
  BY <1>0, TrimmedBelow
<1>2. PICK limited \in BOOLEAN : exchange.answer = Answered(routes, root, m, path, limited)
  BY AnswerIs
<1> HIDE DEF t, path, m
<1>3. \A kind, k, args : /\ Reply(kind, k, args).kind = kind
                         /\ Reply(kind, k, args).route = k
                         /\ Reply(kind, k, args).args = args
  BY DEF Reply
<1>4. CASE \E k \in ByMethod(routes, m, path) : exchange.answer = Reply("handler", k, <<>>)
  BY <1>3, <1>4 DEF m, path
<1>5. CASE exchange.answer = Fallback(routes, root, m, t, limited)
  <2>1. PICK k \in Found(routes, root, m, t) :
           exchange.answer = Reply("handler", k, given(k))
    BY <1>0, <1>1, <1>3, <1>5, FallbackCases
  <2>2. k = i
    BY <1>3, <2>1
  <2>3. PICK b \in Below(root, t) : b \in Path /\ i \in Resolve(routes, m, b)
    BY <1>0, <1>1, <2>1, <2>2, FoundFacts
  <2>4. exchange.answer.args = given(i)
    <3> HIDE DEF given, i
    <3> QED BY <1>3, <2>1, <2>2
  <2> QED BY <2>3, <2>4 DEF m, path, t
<1>6. CASE exchange.answer \in {Reply("builtin", 0, <<>>), Reply("not_allowed", 0, <<>>)}
  BY <1>3, <1>6
<1>7. \/ \E k \in ByMethod(routes, m, path) : exchange.answer = Reply("handler", k, <<>>)
      \/ exchange.answer = Fallback(routes, root, m, t, limited)
      \/ exchange.answer \in {Reply("builtin", 0, <<>>), Reply("not_allowed", 0, <<>>)}
  <2> HIDE DEF i, given
  <2>1. \/ \E k \in ByMethod(routes, m, path) :
              Answered(routes, root, m, path, limited) = Reply("handler", k, <<>>)
        \/ Answered(routes, root, m, path, limited) = Fallback(routes, root, m, Trimmed(path), limited)
        \/ Answered(routes, root, m, path, limited) = Reply("builtin", 0, <<>>)
        \/ Answered(routes, root, m, path, limited) = Reply("not_allowed", 0, <<>>)
    BY AnswerCases
  <2> QED BY <1>2, <2>1 DEF t
<1> QED BY <1>4, <1>5, <1>6, <1>7

\* Any other answer carries no arguments and, but for a refusal by the limit, no route.
LEMMA OtherAnswersEmpty ==
    ASSUME DispatchInv, Answering, exchange.answer.kind # "handler"
    PROVE  /\ exchange.answer.args = <<>>
           /\ exchange.answer.kind = "not_found" =>
                 Found(routes, root, exchange.method, Trimmed(exchange.path)) = {}
           /\ exchange.answer.kind = "not_allowed" =>
                 \/ exchange.method \notin Known
                 \/ Endpoints(routes, exchange.path) # {} \/ exchange.path \in Builtins
<1> DEFINE m == exchange.method
           path == exchange.path
           t == Trimmed(path)
           a == exchange.answer
<1>0. routes \in Seq(Declarations) /\ root \in Seq(Literals) /\ path \in Path /\ t \in Path
  BY Types, TrimmedBelow
<1>1. PICK limited \in BOOLEAN : a = Answered(routes, root, m, path, limited)
  BY AnswerIs
<1>2. a.kind # "handler"
  OBVIOUS
<1> HIDE DEF a, t, path, m
<1>3. \A kind, k, args : /\ Reply(kind, k, args).kind = kind
                         /\ Reply(kind, k, args).args = args
  BY DEF Reply
<1>4. ~(\E k \in ByMethod(routes, m, path) :
         Answered(routes, root, m, path, limited) = Reply("handler", k, <<>>))
  BY <1>1, <1>2, <1>3
<1>5. CASE a = Fallback(routes, root, m, t, limited)
  <2>1. \/ m \notin Known /\ a = Reply("not_allowed", 0, <<>>)
        \/ Found(routes, root, m, t) = {} /\ a = Reply("not_found", 0, <<>>)
        \/ \E k : a = Reply("limited", k, <<>>)
        \/ \E k, args : a = Reply("handler", k, args)
    BY <1>0, <1>5, FallbackCases
  <2> QED BY <1>2, <1>3, <2>1 DEF a, m, path, t
<1>6. CASE a = Reply("builtin", 0, <<>>)
  BY <1>3, <1>6 DEF a
<1>7. CASE /\ Endpoints(routes, path) # {} \/ path \in Builtins
           /\ a = Reply("not_allowed", 0, <<>>)
  BY <1>3, <1>7 DEF a, path
<1>8. \/ a = Fallback(routes, root, m, t, limited)
      \/ a = Reply("builtin", 0, <<>>)
      \/ /\ Endpoints(routes, path) # {} \/ path \in Builtins
         /\ a = Reply("not_allowed", 0, <<>>)
  BY <1>1, <1>4, AnswerCases DEF t
<1> QED BY <1>5, <1>6, <1>7, <1>8

\* AnswersOwnRoute holds for any declarations, builtin paths and root_path.
THEOREM AnswersAreOwnRoutes == Spec => []AnswersOwnRoute
<1>1. ASSUME DispatchInv PROVE AnswersOwnRoute
  <2> SUFFICES ASSUME Answering, exchange.answer.kind = "handler"
               PROVE  /\ \/ Answerer.method = exchange.method
                         \/ exchange.method = "HEAD" /\ Answerer.method = "GET"
                      /\ \E path \in {exchange.path} \union Below(root, exchange.path) :
                             Shape(Answerer.segs, path)
    BY DEF AnswersOwnRoute
  <2> DEFINE i == exchange.answer.route
             m == exchange.method
  <2>0. routes \in Seq(Declarations) /\ root \in Seq(Literals) /\ exchange.path \in Path
    BY <1>1, Types
  <2> HIDE DEF i, m
  <2>1. CASE i \in ByMethod(routes, m, exchange.path)
    <3>1. /\ routes[i].segs = exchange.path.segs
          /\ routes[i].method = m \/ (m = "HEAD" /\ routes[i].method = "GET")
      BY <2>0, <2>1, ByMethodFacts
    <3>2. Shape(routes[i].segs, exchange.path)
      BY <3>1 DEF Shape
    <3> QED BY <3>1, <3>2 DEF Answerer, i, m
  <2>2. CASE \E b \in Below(root, Trimmed(exchange.path)) :
                b \in Path /\ i \in Resolve(routes, m, b)
    <3>1. PICK b \in Below(root, Trimmed(exchange.path)) :
             b \in Path /\ i \in Resolve(routes, m, b)
      BY <2>2
    <3>2. i \in Http(routes, m) /\ Shape(routes[i].segs, b)
      BY <2>0, <3>1, ResolvedShape
    <3>3. PICK c \in Below(root, exchange.path) : c.segs = b.segs
      BY <2>0, <3>1, TrimmedBelow
    <3>4. routes[i].method = m
      BY <3>2 DEF Http
    <3>5. Shape(routes[i].segs, c)
      BY <3>2, <3>3 DEF Shape
    <3> QED BY <3>4, <3>5 DEF Answerer, i, m
  <2> QED BY <1>1, <2>1, <2>2, HandlerAnswers DEF i, m
<1> QED BY <1>1, DispatchInvariance, PTL

\* StaticBeatsParams holds for any declarations, in any order.
THEOREM StaticAlwaysBeatsParams == Spec => []StaticBeatsParams
<1>1. ASSUME DispatchInv PROVE StaticBeatsParams
  <2> SUFFICES ASSUME Answering, exchange.answer.kind = "handler", HasVar(Answerer),
                      NEW j \in Declared(exchange.method, exchange.path), ~HasVar(routes[j])
               PROVE  FALSE
    BY DEF StaticBeatsParams
  <2> DEFINE i == exchange.answer.route
             m == exchange.method
             path == exchange.path
  <2>0. routes \in Seq(Declarations) /\ root \in Seq(Literals) /\ path \in Path
    BY <1>1, Types
  <2> HIDE DEF i, m, path
  <2>1. HasVar(routes[i])
    BY DEF Answerer, i
  <2>2. i \notin ByMethod(routes, m, path)
    BY <2>0, <2>1, ByMethodFacts
  <2>3. PICK b \in Below(root, Trimmed(path)) : b \in Path /\ i \in Resolve(routes, m, b)
    BY <1>1, <2>2, HandlerAnswers DEF i, m, path
  <2>4. Static(routes, m, b) = {}
    BY <2>0, <2>1, <2>3, ResolveFacts, StaticFacts
  <2>5. PICK c \in Below(root, path) : j \in Http(routes, m) /\ Shape(routes[j].segs, c)
    BY DEF Declared, m, path
  <2>6. c.segs = b.segs /\ c \in Path
    BY <2>0, <2>3, <2>5, TrimmedBelow, BelowIsOne
  <2>7. routes[j].segs = c.segs
    <3>1. j \in DOMAIN routes /\ routes[j].segs \in Seq(Segment) /\ c.segs \in Seq(Segment)
      BY <2>0, <2>5, <2>6, RouteShape DEF Http, Path, Segment
    <3>2. \A k \in 1 .. Len(routes[j].segs) : routes[j].segs[k] = c.segs[k]
      BY <2>5, <3>1 DEF Shape, HasVar
    <3>3. Len(routes[j].segs) = Len(c.segs)
      BY <2>5 DEF Shape
    <3> QED BY <3>1, <3>2, <3>3, SeqEqual
  <2>8. j \in Static(routes, m, b)
    BY <2>5, <2>6, <2>7 DEF Static
  <2> QED BY <2>4, <2>8
<1> QED BY <1>1, DispatchInvariance, PTL

\* What is below root_path is no longer than the path.
LEMMA BelowIsShorter ==
    ASSUME NEW rt \in Seq(Literals), NEW path \in Path, NEW b \in Below(rt, path)
    PROVE  Len(b.segs) <= Len(path.segs)
<1>0. path.segs \in Seq(Literals) /\ Len(path.segs) \in Nat /\ Len(rt) \in Nat
  BY DEF Path
<1>1. CASE rt = <<>>
  BY <1>0, <1>1 DEF Below
<1>2. CASE rt # <<>> /\ path.segs = rt
  <2>1. b.segs = <<>> /\ Len(<<>>) = 0
    BY <1>2 DEF Below
  <2> QED BY <1>0, <2>1
<1>3. CASE rt # <<>> /\ path.segs # rt /\ Under(rt, path.segs)
  <2> DEFINE rest == SubSeq(path.segs, Len(rt) + 1, Len(path.segs))
  <2>1. b = [path EXCEPT !.segs = rest]
    BY <1>3 DEF Below
  <2>2. Len(rest) <= Len(path.segs)
    BY <1>0, SubSeqProperties
  <2> HIDE DEF rest
  <2>3. b.segs = rest
    BY <2>1 DEF Path
  <2> QED BY <2>2, <2>3
<1>4. CASE rt # <<>> /\ path.segs # rt /\ ~Under(rt, path.segs)
  BY <1>4 DEF Below
<1> QED BY <1>1, <1>2, <1>3, <1>4

LEMMA ArgsType ==
    ASSUME NEW segs \in Seq(Segment), NEW path \in Path, Len(segs) <= Len(path.segs)
    PROVE  Args(segs, path) \in Seq(Literals)
<1> DEFINE value == [i \in DOMAIN segs |-> IF segs[i] = Var THEN path.segs[i] ELSE Var]
<1>1. /\ path.segs \in Seq(Literals) /\ Len(segs) \in Nat /\ Len(path.segs) \in Nat
      /\ DOMAIN segs = 1 .. Len(segs)
  BY DEF Path
<1>2. \A i \in 1 .. Len(segs) : path.segs[i] \in Literals
  BY <1>1
<1>3. \A i \in 1 .. Len(segs) : value[i] \in Segment
  BY <1>1, <1>2 DEF Segment
<1>4. value = [i \in 1 .. Len(segs) |-> value[i]]
  BY <1>1
<1>5. Args(segs, path) = Only(value, Literals)
  BY DEF Args
<1> HIDE DEF value
<1>6. value \in [1 .. Len(segs) -> Segment]
  BY <1>3, <1>4
<1>7. value \in Seq(Segment)
  BY <1>1, <1>6
<1>8. Only(value, Literals) \in Seq(Segment \cap Literals)
  BY <1>7, OnlyType
<1>9. Segment \cap Literals = Literals
  BY DEF Segment
<1> QED BY <1>5, <1>8, <1>9

\* The arguments of one route and one path are the segments at the parameters.
LEMMA ArgsAreSegments ==
    ASSUME NEW segs \in Seq(Segment), NEW path \in Path, Len(segs) = Len(path.segs),
           NEW n \in DOMAIN Args(segs, path)
    PROVE  \E i \in DOMAIN segs :
              /\ segs[i] = Var
              /\ Cardinality({j \in 1 .. i : segs[j] = Var}) = n
              /\ Args(segs, path)[n] = path.segs[i]
<1> DEFINE value == [i \in DOMAIN segs |-> IF segs[i] = Var THEN path.segs[i] ELSE Var]
<1>1. /\ path.segs \in Seq(Literals) /\ Len(segs) \in Nat /\ DOMAIN segs = 1 .. Len(segs)
      /\ Var \notin Literals
  BY DispatchAssumption DEF Path
<1>2. \A i \in 1 .. Len(segs) : path.segs[i] \in Literals
  BY <1>1
<1>3. value \in Seq(Segment) /\ Len(value) = Len(segs)
  <2>1. \A i \in 1 .. Len(segs) : value[i] \in Segment
    BY <1>1, <1>2 DEF Segment
  <2>2. value = [i \in 1 .. Len(segs) |-> value[i]]
    BY <1>1
  <2> HIDE DEF value
  <2>3. value \in [1 .. Len(segs) -> Segment]
    BY <2>1, <2>2
  <2> QED BY <1>1, <2>3
<1>4. \A i \in 1 .. Len(segs) : /\ value[i] \in Literals <=> segs[i] = Var
                                /\ segs[i] = Var => value[i] = path.segs[i]
  BY <1>1, <1>2
<1> HIDE DEF value
<1>5. Args(segs, path) = Only(value, Literals)
  BY DEF Args, value
<1>6. Only(value, Literals) \in Seq(Segment)
  BY <1>3, OnlyType
<1>7. n \in 1 .. Len(Only(value, Literals))
  BY <1>5, <1>6
<1>8. PICK i \in 1 .. Len(value) : /\ value[i] \in Literals /\ Count(value, Literals, i) = n
                                   /\ Only(value, Literals)[n] = value[i]
  BY <1>3, <1>7, OnlyHasNoMore
<1>9. {j \in 1 .. i : segs[j] = Var} = {j \in 1 .. i : value[j] \in Literals}
  <2>1. \A j \in 1 .. i : j \in 1 .. Len(segs)
    BY <1>3
  <2>2. ASSUME NEW j \in 1 .. i PROVE segs[j] = Var <=> value[j] \in Literals
    <3>1. j \in 1 .. Len(segs)
      BY <2>1
    <3> QED BY <1>4, <3>1
  <2> QED BY <2>2
<1>10. i \in 0 .. Len(value)
  OBVIOUS
<1>11. Cardinality({j \in 1 .. i : segs[j] = Var}) = n
  BY <1>3, <1>8, <1>9, <1>10, CountIsCardinality
<1>12. i \in DOMAIN segs /\ segs[i] = Var /\ Args(segs, path)[n] = path.segs[i]
  <2>1. i \in 1 .. Len(segs)
    BY <1>3
  <2>2. segs[i] = Var
    BY <1>4, <1>8, <2>1
  <2>3. value[i] = path.segs[i]
    BY <1>4, <2>1, <2>2
  <2> QED BY <1>1, <1>5, <1>8, <2>1, <2>2, <2>3
<1> QED BY <1>11, <1>12

\* A path has as many segments as the route that resolves it.
LEMMA ResolvedLength ==
    ASSUME NEW rs \in Seq(Declarations), NEW m, NEW path \in Path, NEW i \in Resolve(rs, m, path)
    PROVE  i \in DOMAIN rs /\ rs[i].segs \in Seq(Segment) /\ Len(rs[i].segs) = Len(path.segs)
BY ResolvedShape, RouteShape DEF Http, Shape

\* ArgumentsFromPath holds for any routes: the value of the n-th parameter is
\* the segment at its place.
THEOREM ArgumentsAreFromPath == Spec => []ArgumentsFromPath
<1>1. ASSUME DispatchInv PROVE ArgumentsFromPath
  <2> SUFFICES ASSUME Answering, root = <<>>, NEW n \in DOMAIN exchange.answer.args
               PROVE  \E i \in DOMAIN Answerer.segs :
                         /\ Answerer.segs[i] = Var
                         /\ Cardinality({j \in 1 .. i : Answerer.segs[j] = Var}) = n
                         /\ exchange.answer.args[n] = exchange.path.segs[i]
    BY DEF ArgumentsFromPath
  <2> DEFINE r == exchange.answer.route
             m == exchange.method
             path == exchange.path
             t == Trimmed(path)
  <2>0. routes \in Seq(Declarations) /\ root \in Seq(Literals) /\ path \in Path
    BY <1>1, Types
  <2>1. exchange.answer.args # <<>>
    OBVIOUS
  <2>2. exchange.answer.kind = "handler"
    BY <1>1, <2>1, OtherAnswersEmpty
  <2>3. PICK b \in Below(root, t) :
           /\ b \in Path /\ r \in Resolve(routes, m, b)
           /\ exchange.answer.args = IF routes[r].mode = "args" THEN Args(routes[r].segs, t) ELSE <<>>
    BY <1>1, <2>1, <2>2, HandlerAnswers
  <2> HIDE DEF r, m, t, path
  <2>4. b = t /\ t \in Path /\ t.segs = path.segs
    <3>1. t \in Path /\ t.segs = path.segs
      BY <2>0, TrimmedBelow DEF t
    <3>2. Below(root, t) = {t}
      BY <2>0, <3>1, BelowIsOne
    <3> QED BY <2>3, <3>1, <3>2
  <2>5. exchange.answer.args = Args(routes[r].segs, t)
    BY <2>1, <2>3
  <2>6. routes[r].segs \in Seq(Segment) /\ Len(routes[r].segs) = Len(t.segs)
    BY <2>0, <2>3, <2>4, ResolvedLength
  <2>7. n \in DOMAIN Args(routes[r].segs, t)
    BY <2>5
  <2>8. \E i \in DOMAIN routes[r].segs :
           /\ routes[r].segs[i] = Var
           /\ Cardinality({j \in 1 .. i : routes[r].segs[j] = Var}) = n
           /\ Args(routes[r].segs, t)[n] = t.segs[i]
    BY <2>4, <2>6, <2>7, ArgsAreSegments
  <2> QED BY <2>4, <2>5, <2>8 DEF Answerer, r, path
<1> QED BY <1>1, DispatchInvariance, PTL

\* A literal route of the shape of a path is that path.
LEMMA LiteralShape ==
    ASSUME NEW rs \in Seq(Declarations), NEW i \in DOMAIN rs, NEW path \in Path,
           Shape(rs[i].segs, path), ~HasVar(rs[i])
    PROVE  rs[i].segs = path.segs
<1>1. rs[i].segs \in Seq(Segment) /\ path.segs \in Seq(Segment)
  BY RouteShape DEF Path, Segment
<1>2. \A k \in 1 .. Len(rs[i].segs) : rs[i].segs[k] = path.segs[k]
  BY <1>1 DEF Shape, HasVar
<1>3. Len(rs[i].segs) = Len(path.segs)
  BY DEF Shape
<1> QED BY <1>1, <1>2, <1>3, SeqEqual

\* A slash that is still there below root_path was in the request and was kept.
LEMMA SlashKept ==
    ASSUME NEW rt \in Seq(Literals), NEW path \in Path, NEW b \in Below(rt, Trimmed(path)),
           b.slash, b.segs # <<>>
    PROVE  path.slash /\ ~redirect
<1> DEFINE t == Trimmed(path)
           rest == SubSeq(t.segs, Len(rt) + 1, Len(t.segs))
<1>1. t \in Path /\ t.segs = path.segs /\ path.segs \in Seq(Literals)
  BY TrimmedBelow DEF Path
<1>2. t.slash /\ path.segs # <<>> => path.slash /\ ~redirect
  BY <1>1 DEF Trimmed, Path
<1> HIDE DEF t
<1>3. CASE rt = <<>>
  BY <1>1, <1>2, <1>3 DEF Below, t
<1>4. CASE rt # <<>> /\ t.segs = rt
  BY <1>4 DEF Below, t
<1>5. CASE rt # <<>> /\ t.segs # rt /\ Under(rt, t.segs)
  <2>1. b = [t EXCEPT !.segs = rest]
    BY <1>5 DEF Below, t
  <2>2. t.segs # <<>>
    <3>1. Len(rt) \in Nat \ {0} /\ Len(rt) <= Len(t.segs)
      BY <1>5 DEF Under
    <3>2. Len(<<>>) = 0
      OBVIOUS
    <3> QED BY <3>1, <3>2
  <2>3. b.slash = t.slash
    <3> HIDE DEF rest
    <3> QED BY <1>1, <2>1 DEF Path
  <2> QED BY <1>1, <1>2, <2>2, <2>3
<1>6. CASE rt # <<>> /\ t.segs # rt /\ ~Under(rt, t.segs)
  BY <1>6 DEF Below, t
<1> QED BY <1>3, <1>4, <1>5, <1>6

\* UnservedExplained holds for any declarations: among the patterns that fit a
\* path one always goes before the others, so a route is only lost for the
\* reasons it lists.
THEOREM UnservedAlwaysExplained == Spec => []UnservedExplained
<1>1. ASSUME DispatchInv PROVE UnservedExplained
  <2> DEFINE m == exchange.method
             path == exchange.path
             t == Trimmed(path)
  <2> SUFFICES ASSUME Answering, exchange.answer.kind \in {"not_found", "not_allowed"},
                      Declared(m, path) # {}
               PROVE  \/ /\ exchange.answer.kind = "not_allowed"
                         /\ Endpoints(routes, path) # {} \/ path \in Builtins
                      \/ /\ exchange.answer.kind = "not_found"
                         /\ path.slash /\ ~redirect
                         /\ \A i \in Declared(m, path) : HasVar(routes[i])
    BY DEF UnservedExplained
  <2>0. routes \in Seq(Declarations) /\ root \in Seq(Literals) /\ path \in Path /\ t \in Path
    BY <1>1, Types, TrimmedBelow
  <2>1. CASE exchange.answer.kind = "not_allowed"
    <3>1. m \in Known
      <4>1. PICK i \in Declared(m, path) : TRUE
        OBVIOUS
      <4>2. i \in DOMAIN routes /\ routes[i].method = m
        BY <4>1 DEF Declared, Http
      <4> QED BY <2>0, <4>2, RouteShape
    <3> QED BY <1>1, <2>1, <3>1, OtherAnswersEmpty
  <2>2. CASE exchange.answer.kind = "not_found"
    <3>1. Found(routes, root, m, t) = {}
      BY <1>1, <2>2, OtherAnswersEmpty
    <3> HIDE DEF m, path, t
    <3>2. ASSUME NEW i \in Declared(m, path)
          PROVE  HasVar(routes[i]) /\ path.slash /\ ~redirect
      <4>1. PICK c \in Below(root, path) : i \in Http(routes, m) /\ Shape(routes[i].segs, c)
        BY DEF Declared
      <4>2. PICK b \in Below(root, t) : b.segs = c.segs
        BY <2>0, <4>1, TrimmedBelow DEF t
      <4>3. b \in Path /\ i \in DOMAIN routes /\ Shape(routes[i].segs, b)
        BY <2>0, <4>1, <4>2, BelowIsOne DEF Http, Shape
      <4>4. Static(routes, m, b) = {} /\ Fitting(routes, m, b) = {}
        <5>1. Resolve(routes, m, b) = {}
          BY <2>0, <3>1, <4>2, FoundFacts
        <5> QED BY <2>0, <4>3, <5>1, ResolveFacts
      <4>5. HasVar(routes[i])
        <5> SUFFICES ASSUME ~HasVar(routes[i]) PROVE FALSE
          OBVIOUS
        <5>1. routes[i].segs = b.segs
          BY <2>0, <4>3, LiteralShape
        <5> QED BY <4>1, <4>4, <5>1 DEF Static
      <4>6. b.slash
        <5> SUFFICES ASSUME ~b.slash PROVE FALSE
          OBVIOUS
        <5>1. Fits(routes[i].segs, b)
          BY <4>3 DEF Fits, Shape
        <5> QED BY <4>1, <4>4, <4>5, <5>1 DEF Fitting
      <4>7. b.segs # <<>>
        <5>1. routes[i].segs \in Seq(Segment) /\ Len(routes[i].segs) = Len(b.segs)
          BY <2>0, <4>3, RouteShape DEF Shape
        <5>2. Len(routes[i].segs) # 0
          BY <4>5, <5>1 DEF HasVar
        <5>3. Len(<<>>) = 0
          OBVIOUS
        <5> QED BY <5>1, <5>2, <5>3
      <4> QED BY <2>0, <4>2, <4>5, <4>6, <4>7, SlashKept DEF t
    <3> QED BY <2>2, <3>2 DEF m, path
  <2> QED BY <2>1, <2>2
<1> QED BY <1>1, DispatchInvariance, PTL

-----------------------------------------------------------------------------
(* The order of the declarations.                                          *)

\* qs holds the routes of rs in another order.
Shuffled(rs, qs, p) ==
    /\ rs \in Seq(Declarations) /\ qs \in Seq(Declarations)
    /\ DOMAIN qs = DOMAIN rs
    /\ \A i \in DOMAIN rs : p[i] \in DOMAIN rs /\ qs[i] = rs[p[i]]
    /\ \A k \in DOMAIN rs : \E i \in DOMAIN rs : p[i] = k

LEMMA EndpointsShuffled ==
    ASSUME NEW rs, NEW qs, NEW p, Shuffled(rs, qs, p), NEW path
    PROVE  /\ \A i \in DOMAIN rs : i \in Endpoints(qs, path) <=> p[i] \in Endpoints(rs, path)
           /\ Endpoints(qs, path) \subseteq DOMAIN rs
           /\ Endpoints(rs, path) = {} <=> Endpoints(qs, path) = {}
<1>1. \A i \in DOMAIN rs : i \in Endpoints(qs, path) <=> p[i] \in Endpoints(rs, path)
  BY DEF Endpoints, Shuffled
<1>2. Endpoints(qs, path) \subseteq DOMAIN rs /\ Endpoints(rs, path) \subseteq DOMAIN rs
  BY DEF Endpoints, Shuffled
<1>3. \A k \in DOMAIN rs : \E i \in DOMAIN rs : p[i] = k
  BY DEF Shuffled
<1> QED BY <1>1, <1>2, <1>3

LEMMA ByMethodShuffled ==
    ASSUME NEW rs, NEW qs, NEW p, Shuffled(rs, qs, p), Distinct(rs), NEW m, NEW path
    PROVE  /\ \A i \in ByMethod(qs, m, path) : i \in DOMAIN rs /\ p[i] \in ByMethod(rs, m, path)
           /\ ByMethod(rs, m, path) = {} <=> ByMethod(qs, m, path) = {}
           /\ \A i, j \in ByMethod(rs, m, path) : i = j
<1> DEFINE of(s, n) == {i \in Endpoints(s, path) : s[i].method = n}
<1>1. ASSUME NEW n
      PROVE  /\ \A i \in of(qs, n) : i \in DOMAIN rs /\ p[i] \in of(rs, n)
             /\ of(rs, n) = {} <=> of(qs, n) = {}
             /\ \A i, j \in of(rs, n) : i = j
  <2>1. \A i \in DOMAIN rs : i \in of(qs, n) <=> p[i] \in of(rs, n)
    BY EndpointsShuffled DEF Shuffled
  <2>2. of(qs, n) \subseteq DOMAIN rs /\ of(rs, n) \subseteq DOMAIN rs
    BY EndpointsShuffled DEF Endpoints
  <2>3. \A k \in DOMAIN rs : \E i \in DOMAIN rs : p[i] = k
    BY DEF Shuffled
  <2>4. \A i, j \in of(rs, n) : i = j
    BY DEF Distinct, Endpoints, At
  <2> HIDE DEF of
  <2> QED BY <2>1, <2>2, <2>3, <2>4
<1>2. \A s : ByMethod(s, m, path) =
                IF of(s, m) = {} /\ m = "HEAD" THEN of(s, "GET") ELSE of(s, m)
  BY DEF ByMethod
<1> HIDE DEF of
<1>3. CASE of(rs, m) = {} /\ m = "HEAD"
  <2>1. of(qs, m) = {}
    BY <1>1, <1>3
  <2>2. ByMethod(rs, m, path) = of(rs, "GET") /\ ByMethod(qs, m, path) = of(qs, "GET")
    BY <1>2, <1>3, <2>1
  <2> QED BY <1>1, <2>2
<1>4. CASE ~(of(rs, m) = {} /\ m = "HEAD")
  <2>1. ~(of(qs, m) = {} /\ m = "HEAD")
    BY <1>1, <1>4
  <2>2. ByMethod(rs, m, path) = of(rs, m) /\ ByMethod(qs, m, path) = of(qs, m)
    BY <1>2, <1>4, <2>1
  <2> QED BY <1>1, <2>2
<1> QED BY <1>3, <1>4

LEMMA ResolveShuffled ==
    ASSUME NEW rs, NEW qs, NEW p, Shuffled(rs, qs, p), Distinct(rs), NEW m, NEW path \in Path
    PROVE  /\ \A i \in Resolve(qs, m, path) : i \in DOMAIN rs /\ p[i] \in Resolve(rs, m, path)
           /\ Resolve(rs, m, path) = {} <=> Resolve(qs, m, path) = {}
<1>0. /\ rs \in Seq(Declarations) /\ qs \in Seq(Declarations)
      /\ \A i \in DOMAIN rs : p[i] \in DOMAIN rs /\ qs[i] = rs[p[i]]
      /\ \A k \in DOMAIN rs : \E i \in DOMAIN rs : p[i] = k
  BY DEF Shuffled
<1>1. \A i \in DOMAIN rs : i \in Http(qs, m) <=> p[i] \in Http(rs, m)
  BY DEF Shuffled, Http
<1>2. Http(qs, m) \subseteq DOMAIN rs /\ Http(rs, m) \subseteq DOMAIN rs
  BY DEF Shuffled, Http
<1>3. /\ \A i \in DOMAIN rs : i \in Static(qs, m, path) <=> p[i] \in Static(rs, m, path)
      /\ Static(qs, m, path) \subseteq DOMAIN rs /\ Static(rs, m, path) \subseteq DOMAIN rs
  BY <1>0, <1>1, <1>2 DEF Static
<1>4. /\ \A i \in DOMAIN rs : i \in Fitting(qs, m, path) <=> p[i] \in Fitting(rs, m, path)
      /\ Fitting(qs, m, path) \subseteq DOMAIN rs /\ Fitting(rs, m, path) \subseteq DOMAIN rs
  BY <1>0, <1>1, <1>2 DEF Fitting
<1>5. CASE Static(rs, m, path) # {}
  <2>1. Static(qs, m, path) # {}
    BY <1>0, <1>3, <1>5
  <2>2. /\ Resolve(rs, m, path) = {Max(Static(rs, m, path))}
        /\ Resolve(qs, m, path) = {Max(Static(qs, m, path))}
    BY <1>5, <2>1 DEF Resolve
  <2>3. Max(Static(rs, m, path)) \in Static(rs, m, path)
    BY <1>0, <1>5, StaticFacts
  <2>4. Max(Static(qs, m, path)) \in Static(qs, m, path)
    BY <1>0, <2>1, StaticFacts
  <2>5. \A i, j \in Static(rs, m, path) : i = j
    BY DEF Static, Http, Distinct
  <2>6. Max(Static(qs, m, path)) \in DOMAIN rs /\ p[Max(Static(qs, m, path))] = Max(Static(rs, m, path))
    BY <1>3, <2>3, <2>4, <2>5
  <2> QED BY <2>2, <2>6
<1>6. CASE Static(rs, m, path) = {}
  <2>1. Static(qs, m, path) = {}
    BY <1>0, <1>3, <1>6
  <2>2. Resolve(rs, m, path) = Pattern(rs, m, path) /\ Resolve(qs, m, path) = Pattern(qs, m, path)
    BY <1>6, <2>1 DEF Resolve
  <2>3. ASSUME NEW i \in Pattern(qs, m, path)
        PROVE  i \in DOMAIN rs /\ p[i] \in Pattern(rs, m, path)
    <3>1. i \in Fitting(qs, m, path) /\ i \in DOMAIN rs /\ p[i] \in Fitting(rs, m, path)
      BY <1>0, <1>4, PatternIsOne
    <3>2. ASSUME NEW k \in Fitting(rs, m, path)
          PROVE  IF rs[k].segs = rs[p[i]].segs THEN p[i] <= k ELSE Before(rs[p[i]].segs, rs[k].segs)
      <4>1. PICK j \in DOMAIN rs : p[j] = k
        BY <1>0, <1>4
      <4>2. j \in Fitting(qs, m, path)
        BY <1>4, <4>1
      <4>3. IF qs[j].segs = qs[i].segs THEN i <= j ELSE Before(qs[i].segs, qs[j].segs)
        BY <4>2 DEF Pattern, Fitting
      <4>4. qs[j] = rs[k] /\ qs[i] = rs[p[i]]
        BY <1>0, <3>1, <4>1
      <4>5. CASE rs[k].segs = rs[p[i]].segs
        <5>1. rs[k].method = m /\ rs[p[i]].method = m /\ k \in DOMAIN rs /\ p[i] \in DOMAIN rs
          BY <1>4, <3>1 DEF Fitting, Http
        <5>2. k = p[i]
          BY <4>5, <5>1 DEF Distinct
        <5>3. k \in Nat
          BY <1>0, <5>1, RouteShape
        <5> QED BY <4>5, <5>2, <5>3
      <4>6. CASE rs[k].segs # rs[p[i]].segs
        BY <4>3, <4>4, <4>6
      <4> QED BY <4>5, <4>6
    <3>3. p[i] \in Pattern(rs, m, path)
      BY <3>1, <3>2 DEF Pattern, Fitting
    <3> QED BY <3>1, <3>3
  <2>4. Pattern(rs, m, path) # {} => Pattern(qs, m, path) # {}
    <3> SUFFICES ASSUME Pattern(rs, m, path) # {} PROVE Pattern(qs, m, path) # {}
      OBVIOUS
    <3>1. Fitting(rs, m, path) # {}
      BY <1>0, PatternIsOne
    <3>2. Fitting(qs, m, path) # {}
      BY <1>0, <1>4, <3>1
    <3> QED BY <1>0, <3>2, PatternExists
  <2> QED BY <2>2, <2>3, <2>4
<1> QED BY <1>5, <1>6

LEMMA FoundShuffled ==
    ASSUME NEW rs, NEW qs, NEW p, Shuffled(rs, qs, p), Distinct(rs), NEW m,
           NEW rt \in Seq(Literals), NEW path \in Path
    PROVE  /\ \A i \in Found(qs, rt, m, path) : i \in DOMAIN rs /\ p[i] \in Found(rs, rt, m, path)
           /\ Found(rs, rt, m, path) = {} <=> Found(qs, rt, m, path) = {}
           /\ \A i, j \in Found(rs, rt, m, path) : i = j
<1>1. \A b \in Below(rt, path) :
         /\ \A i \in Resolve(qs, m, b) : i \in DOMAIN rs /\ p[i] \in Resolve(rs, m, b)
         /\ Resolve(rs, m, b) = {} <=> Resolve(qs, m, b) = {}
  BY BelowIsOne, ResolveShuffled
<1>2. \A i, j \in Found(rs, rt, m, path) : i = j
  BY FoundFacts DEF Shuffled
<1> QED BY <1>1, <1>2 DEF Found

\* An answer with the route it names where it has its index.
Named(rs, a) == IF a.route = 0 THEN a ELSE [a EXCEPT !.route = rs[@]]

LEMMA NamedIs ==
    ASSUME NEW rs, NEW kind, NEW i, NEW args
    PROVE  /\ Named(rs, Reply(kind, 0, args)) = Reply(kind, 0, args)
           /\ i # 0 => Named(rs, Reply(kind, i, args)) = Reply(kind, rs[i], args)
<1>1. Named(rs, Reply(kind, 0, args)) = Reply(kind, 0, args)
  BY DEF Named, Reply
<1>2. i # 0 => Named(rs, Reply(kind, i, args)) = Reply(kind, rs[i], args)
  BY DEF Named, Reply
<1> QED BY <1>1, <1>2

LEMMA OutcomeShuffled ==
    ASSUME NEW rs, NEW qs, NEW p, Shuffled(rs, qs, p), Distinct(rs),
           root \in Seq(Literals), NEW m, NEW path \in Path
    PROVE  Outcome(qs, m, path) = Outcome(rs, m, path)
<1> DEFINE t == Trimmed(path)
           limited == FALSE
           A(s) == Answered(s, root, m, path, limited)
           given(s, i) == IF s[i].mode = "args" THEN Args(s[i].segs, t) ELSE <<>>
<1>0. /\ rs \in Seq(Declarations) /\ qs \in Seq(Declarations) /\ DOMAIN qs = DOMAIN rs
      /\ \A i \in DOMAIN rs : p[i] \in DOMAIN rs /\ qs[i] = rs[p[i]]
  BY DEF Shuffled
<1>1. t \in Path
  BY TrimmedBelow
<1>2. limited \in BOOLEAN /\ ~limited
  OBVIOUS
<1> SUFFICES Named(qs, A(qs)) = Named(rs, A(rs))
  BY DEF Outcome, Named
<1> HIDE DEF limited
<1>3. ASSUME NEW kind, NEW args, A(qs) = Reply(kind, 0, args), A(rs) = Reply(kind, 0, args)
      PROVE  Named(qs, A(qs)) = Named(rs, A(rs))
  BY <1>0, <1>3, NamedIs
<1>4. ASSUME NEW kind, NEW k \in DOMAIN rs, NEW args, A(qs) = Reply(kind, k, args),
             A(rs) = Reply(kind, p[k], args)
      PROVE  Named(qs, A(qs)) = Named(rs, A(rs))
  <2>1. k # 0 /\ p[k] # 0 /\ qs[k] = rs[p[k]]
    BY <1>0, RouteShape
  <2>2. Named(qs, Reply(kind, k, args)) = Reply(kind, qs[k], args)
    BY <2>1, NamedIs
  <2>3. Named(rs, Reply(kind, p[k], args)) = Reply(kind, rs[p[k]], args)
    BY <2>1, NamedIs
  <2> HIDE DEF A
  <2> QED BY <1>4, <2>1, <2>2, <2>3
<1>5. CASE ByMethod(rs, m, path) # {}
  <2>1. ByMethod(qs, m, path) # {}
    BY <1>5, ByMethodShuffled
  <2>2. PICK i \in ByMethod(rs, m, path) : A(rs) = Reply("handler", i, <<>>)
    BY <1>2, <1>5, AnswerCases
  <2>3. PICK k \in ByMethod(qs, m, path) : A(qs) = Reply("handler", k, <<>>)
    BY <1>2, <2>1, AnswerCases
  <2>4. k \in DOMAIN rs /\ p[k] = i
    BY ByMethodShuffled
  <2> QED BY <1>4, <2>2, <2>3, <2>4
<1>6. CASE ByMethod(rs, m, path) = {}
  <2>1. ByMethod(qs, m, path) = {}
    BY <1>6, ByMethodShuffled
  <2>2. Endpoints(rs, path) = {} <=> Endpoints(qs, path) = {}
    BY EndpointsShuffled
  <2>3. CASE path \in Builtins /\ m \in {"GET", "HEAD"}
    <3>1. A(rs) = Reply("builtin", 0, <<>>)
      BY <1>6, <2>3 DEF Answered
    <3>2. A(qs) = Reply("builtin", 0, <<>>)
      BY <2>1, <2>3 DEF Answered
    <3> QED BY <1>3, <3>1, <3>2
  <2>4. CASE /\ ~(path \in Builtins /\ m \in {"GET", "HEAD"})
             /\ Endpoints(rs, path) # {} \/ path \in Builtins
    <3>1. A(rs) = Reply("not_allowed", 0, <<>>)
      BY <1>6, <2>4 DEF Answered
    <3>2. A(qs) = Reply("not_allowed", 0, <<>>)
      BY <2>1, <2>2, <2>4 DEF Answered
    <3> QED BY <1>3, <3>1, <3>2
  <2>5. CASE Endpoints(rs, path) = {} /\ path \notin Builtins
    <3>1. A(rs) = Fallback(rs, root, m, t, limited)
      BY <1>6, <2>5 DEF Answered
    <3>2. A(qs) = Fallback(qs, root, m, t, limited)
      BY <2>1, <2>2, <2>5 DEF Answered
    <3> HIDE DEF t, A, given
    <3>3. CASE m \notin Known
      <4>1. A(rs) = Reply("not_allowed", 0, <<>>)
        BY <1>2, <3>1, <3>3, FallbackCases
      <4>2. A(qs) = Reply("not_allowed", 0, <<>>)
        BY <1>2, <3>2, <3>3, FallbackCases
      <4> QED BY <1>3, <4>1, <4>2
    <3>4. CASE m \in Known /\ Found(rs, root, m, t) = {}
      <4>1. Found(qs, root, m, t) = {}
        BY <1>1, <3>4, FoundShuffled
      <4>2. A(rs) = Reply("not_found", 0, <<>>)
        BY <1>2, <3>1, <3>4, FallbackCases
      <4>3. A(qs) = Reply("not_found", 0, <<>>)
        BY <1>2, <3>2, <3>4, <4>1, FallbackCases
      <4> QED BY <1>3, <4>2, <4>3
    <3>5. CASE m \in Known /\ Found(rs, root, m, t) # {}
      <4>1. Found(qs, root, m, t) # {}
        BY <1>1, <3>5, FoundShuffled
      <4>2. PICK i \in Found(rs, root, m, t) : A(rs) = Reply("handler", i, given(rs, i))
        BY <1>2, <3>1, <3>5, FallbackCases DEF given
      <4>3. PICK k \in Found(qs, root, m, t) : A(qs) = Reply("handler", k, given(qs, k))
        BY <1>2, <3>2, <3>5, <4>1, FallbackCases DEF given
      <4>4. k \in DOMAIN rs /\ p[k] = i
        BY <1>1, <3>5, <4>2, <4>3, FoundShuffled
      <4>5. given(qs, k) = given(rs, i)
        BY <1>0, <4>4 DEF given
      <4> QED BY <1>4, <4>2, <4>3, <4>4, <4>5
    <3> QED BY <3>3, <3>4, <3>5
  <2> QED BY <2>3, <2>4, <2>5
<1> QED BY <1>5, <1>6

\* OrderIrrelevant holds for any routes, none declared twice, in any order.
THEOREM OrderNeverMatters == Spec => []OrderIrrelevant
<1>1. ASSUME DispatchInv PROVE OrderIrrelevant
  <2> SUFFICES ASSUME Answering, Distinct(routes), NEW p \in Bijection(DOMAIN routes, DOMAIN routes)
               PROVE  Outcome([i \in DOMAIN routes |-> routes[p[i]]], exchange.method, exchange.path)
                         = Outcome(routes, exchange.method, exchange.path)
    BY DEF OrderIrrelevant
  <2> DEFINE qs == [i \in DOMAIN routes |-> routes[p[i]]]
  <2>0. routes \in Seq(Declarations) /\ root \in Seq(Literals) /\ exchange.path \in Path
    BY <1>1, Types
  <2>1. /\ p \in [DOMAIN routes -> DOMAIN routes]
        /\ \A w \in DOMAIN routes : \E v \in DOMAIN routes : p[v] = w
    BY DEF Bijection, Surjection, Injection
  <2>2. DOMAIN routes = 1 .. Len(routes) /\ Len(routes) \in Nat
    BY <2>0
  <2>3. qs \in Seq(Declarations) /\ DOMAIN qs = DOMAIN routes
    <3>1. qs \in [1 .. Len(routes) -> Declarations]
      BY <2>0, <2>1, <2>2
    <3> QED BY <2>2, <3>1
  <2>4. Shuffled(routes, qs, p)
    BY <2>0, <2>1, <2>3 DEF Shuffled
  <2> HIDE DEF qs
  <2>5. Outcome(qs, exchange.method, exchange.path) = Outcome(routes, exchange.method, exchange.path)
    BY <2>0, <2>4, OutcomeShuffled
  <2> QED BY <2>5 DEF qs
<1> QED BY <1>1, DispatchInvariance, PTL

\* What is answered has the type of an answer, with the index of a declared
\* route and segments of the path for arguments.
THEOREM DispatchTypeCorrect == Spec => []TypeOK
<1>1. ASSUME DispatchInv PROVE TypeOK
  <2>1. ASSUME Answering PROVE exchange.answer \in Answer
    <3> DEFINE m == exchange.method
               path == exchange.path
               t == Trimmed(path)
               R == 0 .. MaxRoutes
    <3>0. routes \in Seq(Declarations) /\ root \in Seq(Literals) /\ path \in Path /\ t \in Path
      BY <1>1, <2>1, Types, TrimmedBelow
    <3>1. PICK limited \in BOOLEAN : exchange.answer = Answered(routes, root, m, path, limited)
      BY <1>1, <2>1, AnswerIs
    <3> HIDE DEF m, path, t
    <3>2. <<>> \in Seq(Literals) /\ 0 \in R /\ \A i \in DOMAIN routes : i \in R
      BY <1>1, DispatchAssumption DEF DispatchInv
    <3>3. ASSUME NEW kind \in {"handler", "builtin", "not_allowed", "limited", "not_found"},
                 NEW i \in R, NEW args \in Seq(Literals)
          PROVE  Reply(kind, i, args) \in Answer
      BY DEF Reply, Answer
    <3>4. ASSUME NEW i \in Found(routes, root, m, t)
          PROVE  i \in DOMAIN routes /\ Args(routes[i].segs, t) \in Seq(Literals)
      <4>1. PICK b \in Below(root, t) : b \in Path /\ i \in Resolve(routes, m, b)
        BY <3>0, <3>4, FoundFacts
      <4>2. i \in DOMAIN routes /\ routes[i].segs \in Seq(Segment) /\ Len(routes[i].segs) = Len(b.segs)
        BY <3>0, <4>1, ResolvedLength
      <4>3. Len(b.segs) <= Len(t.segs)
        BY <3>0, <4>1, BelowIsShorter
      <4> QED BY <3>0, <4>2, <4>3, ArgsType
    <3> HIDE DEF R
    <3>5. CASE \E i \in ByMethod(routes, m, path) : exchange.answer = Reply("handler", i, <<>>)
      <4>1. PICK i \in ByMethod(routes, m, path) : exchange.answer = Reply("handler", i, <<>>)
        BY <3>5
      <4>2. i \in R
        BY <3>0, <3>2, ByMethodFacts
      <4> QED BY <3>2, <3>3, <4>1, <4>2
    <3>6. CASE exchange.answer = Fallback(routes, root, m, t, limited)
      <4>1. \/ exchange.answer = Reply("not_allowed", 0, <<>>)
            \/ exchange.answer = Reply("not_found", 0, <<>>)
            \/ \E i \in Found(routes, root, m, t) : exchange.answer = Reply("limited", i, <<>>)
            \/ \E i \in Found(routes, root, m, t) :
                  exchange.answer = Reply("handler", i, IF routes[i].mode = "args"
                                       THEN Args(routes[i].segs, t) ELSE <<>>)
        BY <3>6, FallbackCases
      <4> QED BY <3>2, <3>3, <3>4, <4>1
    <3>7. CASE \/ exchange.answer = Reply("builtin", 0, <<>>)
               \/ exchange.answer = Reply("not_allowed", 0, <<>>)
      BY <3>2, <3>3, <3>7
    <3> QED BY <3>1, <3>5, <3>6, <3>7, AnswerCases DEF t
  <2>2. Answering => exchange \in [method : Methods, path : Requested, answer : Answer]
    BY <1>1, <2>1 DEF DispatchInv, Replied, Answering
  <2> QED BY <1>1, <2>2 DEF TypeOK, DispatchInv, Answering
<1> QED BY <1>1, DispatchInvariance, PTL
=============================================================================
