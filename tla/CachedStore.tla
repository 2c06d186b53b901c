----------------------------- MODULE CachedStore -----------------------------
(***************************************************************************)
(* core/store/cached.go: the cache-aside decorator around a tenant         *)
(* metadata Store.  Goroutines (Clients) call Get, Create, Update,         *)
(* CompareAndSwap and Delete on wrappers that share one Cache instance and *)
(* therefore one cacheCoordinator.  A critical section of coord.mu is one  *)
(* step; the calls to the wrapped store, made outside it, are steps of     *)
(* their own.  Every cache call may fail, a failed cache call may or may   *)
(* not have taken effect, and a failed source write may have been applied. *)
(***************************************************************************)
EXTENDS Naturals, FiniteSets

CONSTANTS
    Clients,      \* goroutines calling the wrappers
    Tenants,      \* tenant identifiers
    Values,       \* tenant metadata values, compared by tenantsEqual
    NoTenant,     \* absence: no row in the source, no entry in the cache
    MaxCalls      \* bound on the calls made in a behaviour

ASSUME NoTenantAssumption == NoTenant \notin Values /\ NoTenant \notin Tenants

VARIABLES
    conditional, \* TRUE iff the wrapped store implements CompareAndSwapStore
    source,      \* the wrapped store: tenant -> metadata or NoTenant
    cache,       \* the Cache: tenant -> metadata or NoTenant
    generation,  \* coord.generation
    health,      \* "poisoned" iff store.cacheID \in coord.poisoned
    legacyMu,    \* "held" iff coord.legacyMu is held across two source calls
    pc,          \* where each client stands
    key,         \* the tenant ID of its call
    val,         \* the metadata it wants to write, or has read
    exp,         \* the metadata CompareAndSwap expects
    gen,         \* the generation it remembers
    unsure,      \* history: tenants whose last write failed but was applied
    calls        \* calls made so far

frame == <<key, val, exp, gen>>
coord == <<generation, health>>
vars == <<conditional, source, cache, generation, health, legacyMu, pc, key, val, exp,
          gen, unsure, calls>>

Entry == Values \cup {NoTenant}

\* The two points at which a client has changed the source and has not yet
\* invalidated the cache.
Written == {"invalidate", "dropDeleted"}

Labels == {"idle", "lookup", "load", "create", "update", "cas", "delete",
           "swap", "drop", "reload", "fill"} \cup Written

Init ==
    /\ conditional \in BOOLEAN
    /\ source \in [Tenants -> Entry]
    /\ cache = [k \in Tenants |-> NoTenant]
    /\ generation = 0
    /\ health = "usable"
    /\ legacyMu = "free"
    /\ pc = [c \in Clients |-> "idle"]
    /\ key = [c \in Clients |-> NoTenant]
    /\ val = [c \in Clients |-> NoTenant]
    /\ exp = [c \in Clients |-> NoTenant]
    /\ gen = [c \in Clients |-> 0]
    /\ unsure = {}
    /\ calls = 0

-----------------------------------------------------------------------------
(* Control: a client moves to a label, or returns to its caller.           *)

Goto(c, l) == pc' = [pc EXCEPT ![c] = l]

Return(c) ==
    /\ Goto(c, "idle")
    /\ key' = [key EXCEPT ![c] = NoTenant]
    /\ val' = [val EXCEPT ![c] = NoTenant]
    /\ exp' = [exp EXCEPT ![c] = NoTenant]
    /\ gen' = [gen EXCEPT ![c] = 0]

Call(c, l, k, v, e) ==
    /\ pc[c] = "idle"
    /\ calls < MaxCalls
    /\ calls' = calls + 1
    /\ Goto(c, l)
    /\ key' = [key EXCEPT ![c] = k]
    /\ val' = [val EXCEPT ![c] = v]
    /\ exp' = [exp EXCEPT ![c] = e]
    /\ UNCHANGED <<source, cache, coord, legacyMu, gen, unsure>>

CallGet(c)    == \E k \in Tenants : Call(c, "lookup", k, NoTenant, NoTenant)
CallCreate(c) == \E k \in Tenants, v \in Values : Call(c, "create", k, v, NoTenant)
\* Mutant of CallUpdate: the tenant ID and the metadata change places.
CallUpdateSwapped(c) == \E k \in Tenants, v \in Values : Call(c, "update", v, k, NoTenant)

CallUpdate(c) == \E k \in Tenants, v \in Values : Call(c, "update", k, v, NoTenant)
CallDelete(c) == \E k \in Tenants : Call(c, "delete", k, NoTenant, NoTenant)
CallCompareAndSwap(c) ==
    \E k \in Tenants, v \in Values, e \in Values : Call(c, "cas", k, v, e)

-----------------------------------------------------------------------------
(* The cache.  A failed Delete or Set leaves the old or the new state of   *)
(* the entry behind, a failed Invalidate has dropped any part of the cache.*)

Without(k) == [cache EXCEPT ![k] = NoTenant]
Empty == [k \in Tenants |-> NoTenant]
PartlyCleared == {[k \in Tenants |-> IF k \in S THEN NoTenant ELSE cache[k]] :
                    S \in SUBSET Tenants}

\* lookupCache on a coherent cache: a hit returns to the caller.
LookupHit(c) ==
    /\ pc[c] = "lookup"
    /\ health = "usable"
    /\ cache[key[c]] # NoTenant
    /\ Return(c)
    /\ UNCHANGED <<source, cache, coord, legacyMu, unsure, calls>>

\* A miss (no entry, or a failed cache.Get) remembers the generation.
LookupMiss(c) ==
    /\ pc[c] = "lookup"
    /\ health = "usable"
    /\ Goto(c, "load")
    /\ gen' = [gen EXCEPT ![c] = generation]
    /\ UNCHANGED <<source, cache, coord, legacyMu, key, val, exp, unsure, calls>>

\* recoverPoisonLocked inside lookupCache: the whole cache is dropped first.
LookupRecovers(c) ==
    /\ pc[c] = "lookup"
    /\ health = "poisoned"
    /\ cache' = Empty
    /\ health' = "usable"
    /\ generation' = generation + 1
    /\ unsure' = {}
    /\ Goto(c, "load")
    /\ gen' = [gen EXCEPT ![c] = generation + 1]
    /\ UNCHANGED <<source, legacyMu, key, val, exp, calls>>

LookupStaysPoisoned(c) ==
    /\ pc[c] = "lookup"
    /\ health = "poisoned"
    /\ cache' \in PartlyCleared
    /\ Goto(c, "load")
    /\ gen' = [gen EXCEPT ![c] = generation]
    /\ UNCHANGED <<source, coord, legacyMu, key, val, exp, unsure, calls>>

\* Get's call to the wrapped store.
Load(c) ==
    /\ pc[c] = "load"
    /\ IF source[key[c]] = NoTenant
       THEN Goto(c, "drop") /\ UNCHANGED val
       ELSE Goto(c, "fill") /\ val' = [val EXCEPT ![c] = source[key[c]]]
    /\ UNCHANGED <<source, cache, coord, legacyMu, key, exp, gen, unsure, calls>>

\* refillCurrent's call to the wrapped store, after an invalidation.
Reload(c) ==
    /\ pc[c] = "reload"
    /\ IF source[key[c]] = NoTenant
       THEN Return(c)
       ELSE /\ Goto(c, "fill")
            /\ val' = [val EXCEPT ![c] = source[key[c]]]
            /\ UNCHANGED <<key, exp, gen>>
    /\ UNCHANGED <<source, cache, coord, legacyMu, unsure, calls>>

\* Mutant of MayFill: the generation is not compared.
MayFillUnordered(c) == health = "usable"

\* fillIfUnchanged's condition.
MayFill(c) == gen[c] = generation /\ health = "usable"

FillSkipped(c) ==
    /\ pc[c] = "fill"
    /\ ~MayFill(c)
    /\ Return(c)
    /\ UNCHANGED <<source, cache, coord, legacyMu, unsure, calls>>

FillStored(c) ==
    /\ pc[c] = "fill"
    /\ MayFill(c)
    /\ cache' = [cache EXCEPT ![key[c]] = val[c]]
    /\ Return(c)
    /\ UNCHANGED <<source, coord, legacyMu, unsure, calls>>

\* cache.Set failed and the compensating cache.Delete succeeded.
FillDeleted(c) ==
    /\ pc[c] = "fill"
    /\ MayFill(c)
    /\ cache' = Without(key[c])
    /\ Return(c)
    /\ UNCHANGED <<source, coord, legacyMu, unsure, calls>>

\* Both failed: poisonLocked.
FillPoisons(c) ==
    /\ pc[c] = "fill"
    /\ MayFill(c)
    /\ cache' \in {cache, Without(key[c]), [cache EXCEPT ![key[c]] = val[c]]}
    /\ health' = "poisoned"
    /\ generation' = generation + 1
    /\ Return(c)
    /\ UNCHANGED <<source, legacyMu, unsure, calls>>

-----------------------------------------------------------------------------
(* invalidate, and where its three callers continue.                       *)

Invalidating == {"invalidate", "dropDeleted", "drop"}

\* Create, Update and CompareAndSwap go on to refillCurrent with generation g;
\* Delete, a Get that found nothing and a refused CompareAndSwap return.
AfterInvalidate(c, g) ==
    IF pc[c] = "invalidate"
    THEN /\ Goto(c, "reload")
         /\ gen' = [gen EXCEPT ![c] = g]
         /\ UNCHANGED <<key, val, exp>>
    ELSE Return(c)

InvalidateDeletes(c) ==
    /\ pc[c] \in Invalidating
    /\ health = "usable"
    /\ generation' = generation + 1
    /\ cache' = Without(key[c])
    /\ unsure' = unsure \ {key[c]}
    /\ AfterInvalidate(c, generation + 1)
    /\ UNCHANGED <<source, health, legacyMu, calls>>

InvalidatePoisons(c) ==
    /\ pc[c] \in Invalidating
    /\ health = "usable"
    /\ generation' = generation + 2
    /\ cache' \in {cache, Without(key[c])}
    /\ health' = "poisoned"
    /\ AfterInvalidate(c, generation + 2)
    /\ UNCHANGED <<source, legacyMu, unsure, calls>>

InvalidateHeals(c) ==
    /\ pc[c] \in Invalidating
    /\ health = "poisoned"
    /\ generation' = generation + 1
    /\ cache' = Empty
    /\ health' = "usable"
    /\ unsure' = {}
    /\ AfterInvalidate(c, generation + 1)
    /\ UNCHANGED <<source, legacyMu, calls>>

InvalidateStaysPoisoned(c) ==
    /\ pc[c] \in Invalidating
    /\ health = "poisoned"
    /\ generation' = generation + 1
    /\ cache' \in PartlyCleared
    /\ AfterInvalidate(c, generation + 1)
    /\ UNCHANGED <<source, health, legacyMu, unsure, calls>>

-----------------------------------------------------------------------------
(* The wrapped store's mutations.  With a legacy store mutateSource and    *)
(* compareAndSwapLegacy serialise them through legacyMu.                   *)

\* Mutant of Unlocked: mutateSource takes no lock.
NeverLocked == TRUE

Unlocked == conditional \/ legacyMu = "free"

Put(c, v) == source' = [source EXCEPT ![key[c]] = v]

Create(c) ==
    /\ pc[c] = "create"
    /\ Unlocked
    /\ IF source[key[c]] = NoTenant
       THEN Put(c, val[c]) /\ Goto(c, "invalidate") /\ UNCHANGED frame
       ELSE Return(c) /\ UNCHANGED source
    /\ UNCHANGED <<cache, coord, legacyMu, unsure, calls>>

Update(c) ==
    /\ pc[c] = "update"
    /\ Unlocked
    /\ IF source[key[c]] # NoTenant
       THEN Put(c, val[c]) /\ Goto(c, "invalidate") /\ UNCHANGED frame
       ELSE Return(c) /\ UNCHANGED source
    /\ UNCHANGED <<cache, coord, legacyMu, unsure, calls>>

\* A Delete that finds no row still invalidates before it reports not-found.
Delete(c) ==
    /\ pc[c] = "delete"
    /\ Unlocked
    /\ IF source[key[c]] # NoTenant
       THEN Put(c, NoTenant) /\ Goto(c, "dropDeleted")
       ELSE Goto(c, "drop") /\ UNCHANGED source
    /\ UNCHANGED <<cache, coord, legacyMu, frame, unsure, calls>>

\* The wrapped store's own atomic CompareAndSwap; a conflict or a missing
\* tenant drops the cached snapshot.
CompareAndSwap(c) ==
    /\ pc[c] = "cas"
    /\ conditional
    /\ IF source[key[c]] = exp[c]
       THEN Put(c, val[c]) /\ Goto(c, "invalidate")
       ELSE Goto(c, "drop") /\ UNCHANGED source
    /\ UNCHANGED <<cache, coord, legacyMu, frame, unsure, calls>>

\* Mutant of LegacyCompare: a conflict returns without unlocking.
LegacyCompareKeepsLock(c) ==
    /\ pc[c] = "cas"
    /\ ~conditional
    /\ legacyMu = "free"
    /\ legacyMu' = "held"
    /\ IF source[key[c]] = exp[c] THEN Goto(c, "swap") ELSE Goto(c, "drop")
    /\ UNCHANGED <<source, cache, coord, frame, unsure, calls>>

\* compareAndSwapLegacy: Get and compare, keeping legacyMu for the Update.
LegacyCompare(c) ==
    /\ pc[c] = "cas"
    /\ ~conditional
    /\ legacyMu = "free"
    /\ IF source[key[c]] = exp[c]
       THEN Goto(c, "swap") /\ legacyMu' = "held"
       ELSE Goto(c, "drop") /\ UNCHANGED legacyMu
    /\ UNCHANGED <<source, cache, coord, frame, unsure, calls>>

LegacySwap(c) ==
    /\ pc[c] = "swap"
    /\ legacyMu' = "free"
    /\ Put(c, val[c])
    /\ Goto(c, "invalidate")
    /\ UNCHANGED <<cache, coord, frame, unsure, calls>>

\* A call to the wrapped store fails: the error is returned at once, with no
\* cache operation, and a deferred Unlock releases legacyMu.
SourceFails(c) ==
    /\ pc[c] \in {"load", "reload", "swap", "create", "update", "delete", "cas"}
    /\ pc[c] \in {"create", "update", "delete", "cas"} => Unlocked
    /\ legacyMu' = IF pc[c] = "swap" THEN "free" ELSE legacyMu
    /\ Return(c)
    /\ UNCHANGED <<source, cache, coord, unsure, calls>>

\* The write was applied but its error is all the wrapper sees (a lost reply,
\* or a driver that cannot report the affected rows).
ReplyLost(c) ==
    /\ \/ pc[c] = "create" /\ source[key[c]] = NoTenant
       \/ pc[c] \in {"update", "delete"} /\ source[key[c]] # NoTenant
       \/ pc[c] = "cas" /\ conditional /\ source[key[c]] = exp[c]
       \/ pc[c] = "swap"
    /\ pc[c] # "swap" => Unlocked
    /\ Put(c, val[c])
    /\ unsure' = unsure \cup {key[c]}
    /\ legacyMu' = IF pc[c] = "swap" THEN "free" ELSE legacyMu
    /\ Return(c)
    /\ UNCHANGED <<cache, coord, calls>>

-----------------------------------------------------------------------------
\* An entry expires or is evicted by a bounded cache.
Evict(k) ==
    /\ cache[k] # NoTenant
    /\ cache' = Without(k)
    /\ UNCHANGED <<source, coord, legacyMu, pc, frame, unsure, calls>>

\* A wrapper of another Cache that hashes to the same coordinator stripe
\* advances the shared generation.
StripeNeighbour ==
    /\ calls < MaxCalls
    /\ calls' = calls + 1
    /\ generation' = generation + 1
    /\ UNCHANGED <<source, cache, health, legacyMu, pc, frame, unsure>>

\* All calls of the bounded behaviour have returned.
Done ==
    /\ calls = MaxCalls
    /\ \A c \in Clients : pc[c] = "idle"
    /\ UNCHANGED vars

Begin(c) == \/ CallGet(c)
            \/ CallCreate(c)
            \/ CallUpdate(c)
            \/ CallDelete(c)
            \/ CallCompareAndSwap(c)

Step(c) == \/ LookupHit(c)
           \/ LookupMiss(c)
           \/ LookupRecovers(c)
           \/ LookupStaysPoisoned(c)
           \/ Load(c)
           \/ Reload(c)
           \/ FillSkipped(c)
           \/ FillStored(c)
           \/ FillDeleted(c)
           \/ FillPoisons(c)
           \/ InvalidateDeletes(c)
           \/ InvalidatePoisons(c)
           \/ InvalidateHeals(c)
           \/ InvalidateStaysPoisoned(c)
           \/ Create(c)
           \/ Update(c)
           \/ Delete(c)
           \/ CompareAndSwap(c)
           \/ LegacyCompare(c)
           \/ LegacySwap(c)
           \/ SourceFails(c)
           \/ ReplyLost(c)

Next == /\ UNCHANGED conditional
        /\ \/ \E c \in Clients : Begin(c) \/ Step(c)
           \/ \E k \in Tenants : Evict(k)
           \/ StripeNeighbour
           \/ Done

Spec == Init /\ [][Next]_vars

\* A goroutine that is inside a call keeps running; sync.Mutex hands itself
\* over, and the behaviours are finite, so weak fairness is enough.
FairSpec ==
    Spec /\ \A c \in Clients : WF_vars(Step(c) /\ UNCHANGED conditional)

-----------------------------------------------------------------------------
(* Properties.                                                             *)

\* Type invariant of the decorator's state and of the clients' frames.
TypeOK ==
    /\ conditional \in BOOLEAN
    /\ source \in [Tenants -> Entry]
    /\ cache \in [Tenants -> Entry]
    /\ generation \in Nat
    /\ health \in {"usable", "poisoned"}
    /\ legacyMu \in {"free", "held"}
    /\ pc \in [Clients -> Labels]
    /\ key \in [Clients -> Tenants \cup {NoTenant}]
    /\ val \in [Clients -> Entry]
    /\ exp \in [Clients -> Entry]
    /\ gen \in [Clients -> Nat]
    /\ unsure \in SUBSET Tenants
    /\ calls \in Nat
    /\ \A c \in Clients : pc[c] # "idle" => key[c] \in Tenants

\* A write to k has reached the source and its invalidation is still to come,
\* or its reply was lost and nothing has invalidated k since.
Unsettled(k) ==
    \/ k \in unsure
    \/ \E c \in Clients : pc[c] \in Written /\ key[c] = k

\* Coherence (cached.go "Read fills and writes are ordered"): a cache that
\* readers may use holds, for every tenant, nothing or exactly what the source
\* holds, except between a write to that tenant and its invalidation.  So a
\* value read before a write can never be filled in after it, and a failed
\* cache operation never leaves a stale entry that readers are served.
Coherent ==
    health = "usable" => \A k \in Tenants : cache[k] \in {NoTenant, source[k]} \/ Unsettled(k)

\* The snapshot compareAndSwapLegacy compared is still the stored one when it
\* calls Update: legacyMu keeps every other writer of the wrappers out.
SwapReplacesExpected ==
    \A c \in Clients : pc[c] = "swap" => source[key[c]] = exp[c]

\* The strengthening that makes the two invariants above inductive.  A client
\* about to fill at the current generation holds the source's value, or a write
\* it did not see is unsettled; generations only grow; legacyMu has one holder.
FillIsFresh ==
    \A c \in Clients : pc[c] = "fill" /\ gen[c] = generation
        => val[c] = source[key[c]] \/ Unsettled(key[c])

GenerationBounds == \A c \in Clients : gen[c] <= generation

LegacyExclusion ==
    /\ \A c \in Clients : pc[c] = "swap" => legacyMu = "held" /\ ~conditional
    /\ \A c, d \in Clients : pc[c] = "swap" /\ pc[d] = "swap" => c = d

IInv == /\ TypeOK
        /\ Coherent
        /\ FillIsFresh
        /\ GenerationBounds
        /\ LegacyExclusion
        /\ SwapReplacesExpected

\* Every call on the decorator returns, whatever the cache and the source do:
\* no path leaves legacyMu locked.
CallsReturn == \A c \in Clients : pc[c] # "idle" ~> pc[c] = "idle"
=============================================================================
