-------------------------- MODULE CachedStoreProofs --------------------------
(* Theorems about CachedStore, for every set of clients, tenants, values and *)
(* every bound on the calls. *)
EXTENDS CachedStore, TLAPS

\* The initial state is well typed.
LEMMA TypeInit == Init => TypeOK
  BY NoTenantAssumption DEF Init, TypeOK, Entry, Labels, Written

\* Every step of every goroutine keeps the types.
LEMMA TypeStep == TypeOK /\ [Next]_vars => TypeOK'
  <1> SUFFICES ASSUME TypeOK, [Next]_vars PROVE TypeOK'
    OBVIOUS
  <1> conditional' = conditional
    BY DEF Next, vars
  <1> USE NoTenantAssumption DEF TypeOK, Entry, Labels, Written
  <1>1. ASSUME NEW c \in Clients, Begin(c) PROVE TypeOK'
    BY <1>1 DEF Begin, Call, CallGet, CallCreate, CallUpdate, CallDelete,
                CallCompareAndSwap, Goto, coord
  <1>2. ASSUME NEW c \in Clients, Step(c) PROVE TypeOK'
    <2> USE DEF Goto, Return, frame, coord
    <2>1. CASE LookupHit(c) \/ LookupMiss(c)
      BY <2>1 DEF LookupHit, LookupMiss
    <2>2. CASE LookupRecovers(c) \/ LookupStaysPoisoned(c)
      BY <2>2 DEF LookupRecovers, LookupStaysPoisoned, Empty, PartlyCleared
    <2>3. CASE Load(c) \/ Reload(c)
      BY <2>3 DEF Load, Reload
    <2>4. CASE FillSkipped(c) \/ FillStored(c) \/ FillDeleted(c) \/ FillPoisons(c)
      BY <2>4 DEF FillSkipped, FillStored, FillDeleted, FillPoisons, Without
    <2>5. CASE InvalidateDeletes(c) \/ InvalidatePoisons(c)
      BY <2>5 DEF InvalidateDeletes, InvalidatePoisons, AfterInvalidate, Without, Invalidating
    <2>6. CASE InvalidateHeals(c) \/ InvalidateStaysPoisoned(c)
      BY <2>6 DEF InvalidateHeals, InvalidateStaysPoisoned, AfterInvalidate, Empty,
                  PartlyCleared, Invalidating
    <2>7. CASE Create(c) \/ Update(c) \/ Delete(c) \/ CompareAndSwap(c)
      BY <2>7 DEF Create, Update, Delete, CompareAndSwap, Put
    <2>8. CASE LegacyCompare(c) \/ LegacySwap(c)
      BY <2>8 DEF LegacyCompare, LegacySwap, Put
    <2>9. CASE SourceFails(c)
      BY <2>9 DEF SourceFails
    <2>10. CASE ReplyLost(c)
      BY <2>10 DEF ReplyLost, Put
    <2> QED
      BY <1>2, <2>1, <2>2, <2>3, <2>4, <2>5, <2>6, <2>7, <2>8, <2>9, <2>10 DEF Step
  <1>3. ASSUME NEW k \in Tenants, Evict(k) PROVE TypeOK'
    BY <1>3 DEF Evict, Without, frame, coord
  <1>4. CASE StripeNeighbour
    BY <1>4 DEF StripeNeighbour, frame
  <1>5. CASE UNCHANGED vars
    BY <1>5 DEF vars
  <1> QED
    BY <1>1, <1>2, <1>3, <1>4, <1>5 DEF Next, Done

(* Type correctness of the decorator in every behaviour. *)
THEOREM TypeCorrect == Spec => []TypeOK
  BY TypeInit, TypeStep, PTL DEF Spec

-----------------------------------------------------------------------------
\* The initial state satisfies the inductive invariant: the cache is empty.
LEMMA InvInit == Init => IInv
  BY TypeInit, NoTenantAssumption
     DEF Init, IInv, Coherent, FillIsFresh, GenerationBounds, LegacyExclusion,
         SwapReplacesExpected

(* The four untyped conjuncts of IInv, whose preservation is the argument. *)
Core == Coherent /\ FillIsFresh /\ GenerationBounds /\ LegacyExclusion
        /\ SwapReplacesExpected

\* Every step keeps coherence and the facts it rests on; the fills and the
\* invalidations are the steps that matter.
LEMMA CoreStep == IInv /\ [Next]_vars => Core'
  <1> SUFFICES ASSUME IInv, [Next]_vars PROVE Core'
    OBVIOUS
  <1> conditional' = conditional
    BY DEF Next, vars
  <1> TypeOK'
    BY TypeStep DEF IInv
  <1> USE NoTenantAssumption
      DEF IInv, TypeOK, Entry, Written, Core, Coherent, FillIsFresh, GenerationBounds,
          LegacyExclusion, SwapReplacesExpected, Unsettled
  <1>1. ASSUME NEW c \in Clients, Begin(c) PROVE Core'
    BY <1>1 DEF Begin, Call, CallGet, CallCreate, CallUpdate, CallDelete,
                CallCompareAndSwap, Goto, coord
  <1>2. ASSUME NEW c \in Clients, Step(c) PROVE Core'
    <2> USE DEF Goto, Return, frame, coord
    <2>1. CASE LookupHit(c) \/ LookupMiss(c)
      BY <2>1 DEF LookupHit, LookupMiss
    <2>2. CASE LookupRecovers(c)
      BY <2>2 DEF LookupRecovers, Empty
    <2>3. CASE LookupStaysPoisoned(c)
      BY <2>3 DEF LookupStaysPoisoned, PartlyCleared
    <2>4. CASE Load(c) \/ Reload(c)
      BY <2>4 DEF Load, Reload
    <2>5. CASE FillSkipped(c) \/ FillStored(c) \/ FillDeleted(c)
      BY <2>5 DEF FillSkipped, FillStored, FillDeleted, Without, MayFill
    <2>6. CASE FillPoisons(c)
      BY <2>6 DEF FillPoisons, Without, MayFill
    <2>7. CASE InvalidateDeletes(c) \/ InvalidatePoisons(c)
      BY <2>7 DEF InvalidateDeletes, InvalidatePoisons, AfterInvalidate, Without, Invalidating
    <2>8. CASE InvalidateHeals(c) \/ InvalidateStaysPoisoned(c)
      BY <2>8 DEF InvalidateHeals, InvalidateStaysPoisoned, AfterInvalidate, Empty,
                  PartlyCleared, Invalidating
    <2>9. CASE Create(c) \/ Update(c) \/ Delete(c) \/ CompareAndSwap(c)
      BY <2>9 DEF Create, Update, Delete, CompareAndSwap, Put, Unlocked
    <2>10. CASE LegacyCompare(c) \/ LegacySwap(c)
      BY <2>10 DEF LegacyCompare, LegacySwap, Put
    <2>11. CASE SourceFails(c)
      BY <2>11 DEF SourceFails
    <2>12. CASE ReplyLost(c)
      BY <2>12 DEF ReplyLost, Put, Unlocked
    <2> QED
      BY <1>2, <2>1, <2>2, <2>3, <2>4, <2>5, <2>6, <2>7, <2>8, <2>9, <2>10, <2>11, <2>12
         DEF Step
  <1>3. ASSUME NEW k \in Tenants, Evict(k) PROVE Core'
    BY <1>3 DEF Evict, Without, frame, coord
  <1>4. CASE StripeNeighbour
    BY <1>4 DEF StripeNeighbour, frame
  <1>5. CASE UNCHANGED vars
    BY <1>5 DEF vars
  <1> QED
    BY <1>1, <1>2, <1>3, <1>4, <1>5 DEF Next, Done

\* Every step keeps the inductive invariant.
LEMMA InvStep == IInv /\ [Next]_vars => IInv'
  BY TypeStep, CoreStep DEF IInv, Core

\* The inductive invariant holds in every reachable state.
LEMMA InvAlways == Spec => []IInv
  BY InvInit, InvStep, PTL DEF Spec

(* Coherence of the shared cache (cached.go fillIfUnchanged, invalidate,     *)
(* recoverPoisonLocked) for any number of goroutines, tenants and values.    *)
THEOREM CacheCoherence == Spec => []Coherent
  <1>1. IInv => Coherent
    BY DEF IInv
  <1> QED
    BY <1>1, InvAlways, PTL

(* The legacy compare-and-swap never overwrites a snapshot it did not        *)
(* compare (cached.go compareAndSwapLegacy, mutateSource).                   *)
THEOREM LegacySwapAtomicity == Spec => []SwapReplacesExpected
  <1>1. IInv => SwapReplacesExpected
    BY DEF IInv
  <1> QED
    BY <1>1, InvAlways, PTL
=============================================================================
