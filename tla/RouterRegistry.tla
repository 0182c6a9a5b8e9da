--------------------------- MODULE RouterRegistry ---------------------------
(***************************************************************************)
(* APIRouter (src/ffi/decorators): the tree of routers an application      *)
(* declares from Python, decorators that are created and applied at        *)
(* different times, and the freezing of the tree by openapi(), by the      *)
(* callbacks of a route and by serve().  Every operation runs under the    *)
(* GIL; serve() releases it, so the others go on while the server runs.    *)
(***************************************************************************)
EXTENDS Naturals, Sequences, FiniteSets, SequencesExt

CONSTANTS
    Routers,      \* every APIRouter of the program
    Root,         \* the router of the application
    Webhooks,     \* the router given as webhooks=, if any
    Decls,        \* what a decorator declares: method and path, or a websocket
    MountPrefixes, \* prefixes given to include_router
    MaxEntries,   \* bound: applied decorators
    MaxMounts,    \* bound: calls of include_router
    MaxServes     \* bound: calls of serve

ASSUME RouterRegistryAssumption ==
    /\ IsFiniteSet(Routers)
    /\ Root \in Routers
    /\ Webhooks \subseteq Routers
    /\ MaxEntries \in Nat /\ MaxMounts \in Nat /\ MaxServes \in Nat

VARIABLES
    frozen,    \* frozen[r]: the flag of router r
    entries,   \* entries[r]: route_entries and websocket_entries
    mounts,    \* mounts[r]: sub_routers
    created,   \* decorators created and not refused, as [router, decl]
    cached,    \* cached[r]: cached_flat, Nothing when None
    table,     \* the flat routes the running server was built from
    docs,      \* the flat routes of the last OpenAPI document
    serves,    \* number of calls of serve
    alive      \* FALSE once a flattening does not end (the GIL is never released)

registryVars == <<frozen, entries, mounts, created, cached, table, docs, serves, alive>>

Nothing == [none |-> TRUE]
Some(flat) == [none |-> FALSE, flat |-> flat]

\* A flattened route: the prefixes it is reached through and its declaration.
FlatRoute == [via : Seq(MountPrefixes), decl : Decls]
Flat == {Nothing} \union [none : {FALSE}, flat : Seq(FlatRoute)]
Mount == [router : Routers, prefix : MountPrefixes]

Counted(lists) == FoldSet(LAMBDA r, n : n + Len(lists[r]), 0, Routers)

RegistryTypeOK ==
    /\ frozen \in [Routers -> BOOLEAN]
    /\ entries \in [Routers -> Seq(Decls)]
    /\ mounts \in [Routers -> Seq(Mount)]
    /\ created \subseteq [router : Routers, decl : Decls]
    /\ cached \in [Routers -> Flat]
    /\ table \in Flat
    /\ docs \in Flat
    /\ serves \in Nat
    /\ alive \in BOOLEAN

RegistryInit ==
    /\ frozen = [r \in Routers |-> FALSE]
    /\ entries = [r \in Routers |-> <<>>]
    /\ mounts = [r \in Routers |-> <<>>]
    /\ created = {}
    /\ cached = [r \in Routers |-> Nothing]
    /\ table = Nothing
    /\ docs = Nothing
    /\ serves = 0
    /\ alive = TRUE

-----------------------------------------------------------------------------
(* flatten_router.                                                         *)

Children(r) == {mounts[r][i].router : i \in DOMAIN mounts[r]}

\* The routers the depth-first walk from r pops: the least set that holds r and
\* is closed under mounting.
Closed(X) == \A x \in X : Children(x) \subseteq X
Reach(r) == {s \in Routers : \A X \in SUBSET Routers : r \in X /\ Closed(X) => s \in X}

\* The walk keeps no visited set: it ends only if no router it pops leads back
\* to itself.
Cyclic(r) == \E s \in Reach(r) : \E c \in Children(s) : s \in Reach(c)

\* The routes of an included router, reached through its prefix.
Beneath(prefix, flat) == [i \in DOMAIN flat |->
                           [via |-> <<prefix>> \o flat[i].via, decl |-> flat[i].decl]]

\* The routes of a router, then those of the routers it includes, the last
\* included first: the walk pushes the mounts and pops them.
Walk[depth \in Nat] ==
    [r \in Routers |->
       IF depth = 0 THEN <<>>
       ELSE [i \in DOMAIN entries[r] |-> [via |-> <<>>, decl |-> entries[r][i]]]
            \o FlattenSeq(Reverse([i \in DOMAIN mounts[r] |->
                 Beneath(mounts[r][i].prefix, Walk[depth - 1][mounts[r][i].router])]))]

Flattened(r) == Walk[Cardinality(Routers)][r]

\* Mutant: only the router that is flattened is marked, not the ones below.
FreezesTop(S) == frozen' = [r \in Routers |-> frozen[r] \/ r \in S]

\* mark_frozen, on every router the walk pops.
Freezes(S) == frozen' = [r \in Routers |-> frozen[r] \/ \E s \in S : r \in Reach(s)]

\* The routers of S whose flattening walks: flatten returns a cached tree, which
\* only freeze sets, when there is one.
Walked(S) == {r \in S : ~(frozen[r] /\ ~cached[r].none)}

\* Mutant: a frozen router is flattened again although a cached tree exists.
FlatOfUncached(r) == Some(Flattened(r))

FlatOf(r) == IF r \in Walked({r}) THEN Some(Flattened(r)) ELSE cached[r]

Ends(S) == \A r \in Walked(S) : ~Cyclic(r)

-----------------------------------------------------------------------------
(* The operations.                                                         *)

\* router.get(path) and its kind: parse_callbacks_to_json flattens the callback
\* routers before the flag is read, so it is the flag they leave that counts.
CreateDecorator(r, d, callbacks) ==
    /\ alive
    /\ Freezes(Walked(callbacks))
    /\ alive' = Ends(callbacks)
    /\ created' = IF alive' /\ ~frozen'[r]
                  THEN created \union {[router |-> r, decl |-> d]}
                  ELSE created
    /\ UNCHANGED <<entries, mounts, cached, table, docs, serves>>

\* Calling the decorator on a function: the closure pushes the entry.
ApplyDecorator(c) ==
    /\ alive
    /\ c \in created
    /\ Counted(entries) < MaxEntries
    /\ entries' = [entries EXCEPT ![c.router] = Append(@, c.decl)]
    /\ UNCHANGED <<frozen, mounts, created, cached, table, docs, serves, alive>>

\* Mutant: include_router does not look at the flag.
IncludeAnyway(r, s, prefix) ==
    /\ alive
    /\ Counted(mounts) < MaxMounts
    /\ mounts' = [mounts EXCEPT ![r] = Append(@, [router |-> s, prefix |-> prefix])]
    /\ UNCHANGED <<frozen, entries, created, cached, table, docs, serves, alive>>

\* include_router, and nest.
Include(r, s, prefix) ==
    /\ alive
    /\ ~frozen[r]
    /\ Counted(mounts) < MaxMounts
    /\ mounts' = [mounts EXCEPT ![r] = Append(@, [router |-> s, prefix |-> prefix])]
    /\ UNCHANGED <<frozen, entries, created, cached, table, docs, serves, alive>>

\* Mutant: flattening for openapi() caches the tree.
OpenApiCaches ==
    /\ alive
    /\ Freezes(Walked({Root} \union Webhooks))
    /\ alive' = Ends({Root} \union Webhooks)
    /\ docs' = IF alive' THEN FlatOf(Root) ELSE docs
    /\ cached' = IF alive' THEN [cached EXCEPT ![Root] = FlatOf(Root)] ELSE cached
    /\ UNCHANGED <<entries, mounts, created, table, serves>>

\* app.openapi() flattens the application's router and the webhooks.
OpenApi ==
    /\ alive
    /\ Freezes(Walked({Root} \union Webhooks))
    /\ alive' = Ends({Root} \union Webhooks)
    /\ docs' = IF alive' THEN FlatOf(Root) ELSE docs
    /\ UNCHANGED <<entries, mounts, created, cached, table, serves>>

\* build_router: freeze, which caches only if the flag is not set yet, then
\* flatten for the routing table and again for the OpenAPI document.
Serve ==
    /\ alive
    /\ serves < MaxServes
    /\ serves' = serves + 1
    /\ Freezes(Walked({Root} \union Webhooks))
    /\ alive' = Ends({Root} \union Webhooks)
    /\ cached' = IF alive' /\ ~frozen[Root]
                 THEN [cached EXCEPT ![Root] = Some(Flattened(Root))]
                 ELSE cached
    /\ IF alive' THEN table' = FlatOf(Root) /\ docs' = FlatOf(Root)
                 ELSE UNCHANGED <<table, docs>>
    /\ UNCHANGED <<entries, mounts, created>>

RegistryNext ==
    \/ \E r \in Routers, d \in Decls, C \in SUBSET Routers :
          Cardinality(C) <= 1 /\ CreateDecorator(r, d, C)
    \/ \E c \in created : ApplyDecorator(c)
    \/ \E r, s \in Routers, p \in MountPrefixes : Include(r, s, p)
    \/ OpenApi
    \/ Serve

RegistrySpec == RegistryInit /\ [][RegistryNext]_registryVars

-----------------------------------------------------------------------------
(* Properties.                                                             *)

\* Freezing reaches the whole tree: whatever a frozen router includes is frozen,
\* at every depth, however the tree was put together and whoever froze it.
FrozenClosed == \A r \in Routers : frozen[r] => \A c \in Children(r) : frozen[c]

\* What froze once can be flattened again: a program that is still alive cannot
\* have closed, through any router below, a cycle that would make a later
\* openapi() or serve() of a frozen router run for ever.
FrozenAcyclic == alive => \A r \in Routers : frozen[r] => ~Cyclic(r)

\* The first serve routes to everything declared before it, decorators applied
\* after an openapi() that had already frozen the tree included.
FirstServeIsCurrent ==
    [][serves = 0 /\ Serve /\ alive' => table' = Some(Flattened(Root))]_registryVars

\* Once serve has cached the tree, every OpenAPI document describes exactly the
\* routes that are served, whatever is still pushed to the routers below.
PublishedIsServed == ~cached[Root].none => docs = table /\ table = cached[Root]

\* A router that is frozen does not change any more.
FrozenImmutable ==
    [][\A r \in Routers : frozen[r] => entries'[r] = entries[r] /\ mounts'[r] = mounts[r]]_registryVars
=============================================================================
