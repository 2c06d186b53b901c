---------------------------- MODULE Subscription ----------------------------
(***************************************************************************)
(* subscription/memory.go: MemoryService.  A lifecycle operation stages    *)
(* its result in pending, runs the host's billing hook outside service.mu, *)
(* and commits or discards the staged record when the hook returns.  Other *)
(* mutations of the tenant wait for that, except from inside a hook, where *)
(* they are refused.  A hook runs in the goroutine of its operation and    *)
(* may call the service again, so a goroutine carries a stack of hooks.    *)
(* Sections of service.mu are single steps.  Hooks pass on the context     *)
(* they are given, as the BillingHook documentation requires.              *)
(***************************************************************************)
EXTENDS Naturals, FiniteSets, Sequences

CONSTANTS
    Clients,      \* goroutines calling the service
    NoClient,     \* the owner of an empty pending entry
    Tenants,      \* tenant identifiers
    NoTenant,     \* the tenant of no call
    Plans,        \* plan identifiers
    NoPlan,       \* the plan of no subscription
    PeriodEnds,   \* current period ends a caller may pass (never the zero time)
    GracePeriod,  \* the configured grace window, 0 when there is none
    MaxTime,      \* bound on the clock
    MaxDepth,     \* bound on nested billing hooks of a goroutine
    MaxCalls      \* bound on the calls made in a behaviour

ASSUME PeriodsAssumption == PeriodEnds \subseteq Nat \ {0} /\ GracePeriod \in Nat
ASSUME NamesAssumption ==
    NoClient \notin Clients /\ NoTenant \notin Tenants /\ NoPlan \notin Plans

VARIABLES
    subscriptions,  \* the committed records
    pending,        \* tenant -> the staged mutation and its owner
    call,           \* client -> the mutation it is about to make
    hooks,          \* client -> the billing hooks it is running, innermost last
    now,            \* the clock
    calls           \* calls made so far

vars == <<subscriptions, pending, call, hooks, now, calls>>

\* The time after which ExpireDue expires the record (expirationDate), 0 = nil.
DueTimes == {0} \cup {e + GracePeriod : e \in PeriodEnds}

Statuses == {"active", "expired", "cancelled"}
Record == [status : Statuses, plan : Plans, due : DueTimes]
NoRecord == [status |-> "none", plan |-> NoPlan, due |-> 0]
Records == Record \cup {NoRecord}

\* base is a history field: the committed record the staged one was made from.
NoPending == [by |-> NoClient, op |-> "none", staged |-> NoRecord, base |-> NoRecord]

Lifecycle == {"subscribe", "unsubscribe", "renew", "expire", "expireDue", "changePlan"}
Direct == {"create", "update", "delete"}

\* ExpireDue carries the tenants it has yet to visit and its own "now".
NoCall == [op |-> "none", tenant |-> NoTenant, arg |-> NoRecord, rest |-> {}, at |-> 0]

Init ==
    /\ subscriptions = [t \in Tenants |-> NoRecord]
    /\ pending = [t \in Tenants |-> NoPending]
    /\ call = [c \in Clients |-> NoCall]
    /\ hooks = [c \in Clients |-> <<>>]
    /\ now = 1
    /\ calls = 0

-----------------------------------------------------------------------------
\* subscriptionDue
Due(s, time) == s.status = "active" /\ s.due # 0 /\ time >= s.due

\* Mutants of Applies: ExpireDue reads the clock again for every record, and
\* Renew takes back a cancelled subscription.
AppliesAtClock(k) ==
    LET current == subscriptions[k.tenant] IN
    CASE k.op \in {"create", "subscribe"}                -> current = NoRecord
      [] k.op \in {"update", "delete"}                   -> current # NoRecord
      [] k.op \in {"unsubscribe", "expire", "changePlan"} -> current.status = "active"
      [] k.op = "renew"     -> current # NoRecord /\ current.status # "cancelled"
      [] k.op = "expireDue" -> Due(current, now)

AppliesToCancelled(k) ==
    LET current == subscriptions[k.tenant] IN
    CASE k.op \in {"create", "subscribe"}                -> current = NoRecord
      [] k.op \in {"update", "delete", "renew"}          -> current # NoRecord
      [] k.op \in {"unsubscribe", "expire", "changePlan"} -> current.status = "active"
      [] k.op = "expireDue" -> Due(current, k.at)

\* The conditions under which an operation changes the tenant's record.
Applies(k) ==
    LET current == subscriptions[k.tenant] IN
    CASE k.op \in {"create", "subscribe"}                -> current = NoRecord
      [] k.op \in {"update", "delete"}                   -> current # NoRecord
      [] k.op \in {"unsubscribe", "expire", "changePlan"} -> current.status = "active"
      [] k.op = "renew"     -> current # NoRecord /\ current.status # "cancelled"
      [] k.op = "expireDue" -> Due(current, k.at)

\* Mutant of Result: Renew builds a new record instead of changing the current.
ResultDropsPlan(k) ==
    LET current == subscriptions[k.tenant] IN
    CASE k.op \in {"create", "update", "subscribe"} -> k.arg
      [] k.op = "delete"                 -> NoRecord
      [] k.op = "unsubscribe"            -> [current EXCEPT !.status = "cancelled"]
      [] k.op = "renew"                  -> [k.arg EXCEPT !.status = "active"]
      [] k.op \in {"expire", "expireDue"} -> [current EXCEPT !.status = "expired"]
      [] k.op = "changePlan"             -> [current EXCEPT !.plan = k.arg.plan]

\* The record an operation leaves; setPeriod turns a period end into a due time.
Result(k) ==
    LET current == subscriptions[k.tenant] IN
    CASE k.op \in {"create", "update", "subscribe"} -> k.arg
      [] k.op = "delete"                 -> NoRecord
      [] k.op = "unsubscribe"            -> [current EXCEPT !.status = "cancelled"]
      [] k.op = "renew"                  -> [current EXCEPT !.status = "active", !.due = k.arg.due]
      [] k.op \in {"expire", "expireDue"} -> [current EXCEPT !.status = "expired"]
      [] k.op = "changePlan"             -> [current EXCEPT !.plan = k.arg.plan]

-----------------------------------------------------------------------------
(* Calls.  A client calls the service when it has no call under way, from  *)
(* the outside or from inside the hook it is running.                      *)

Begin(c, k) ==
    /\ call[c] = NoCall
    /\ Len(hooks[c]) < MaxDepth
    /\ calls < MaxCalls
    /\ calls' = calls + 1
    /\ call' = [call EXCEPT ![c] = k]
    /\ UNCHANGED <<subscriptions, pending, hooks, now>>

Request(op, t, s) == [op |-> op, tenant |-> t, arg |-> s, rest |-> {}, at |-> 0]

\* Create and Update write whatever valid record they are given.
CallStore(c) ==
    \E t \in Tenants, s \in Record, op \in {"create", "update"} : Begin(c, Request(op, t, s))

CallSubscribe(c) ==
    \E t \in Tenants, p \in Plans, d \in DueTimes :
        Begin(c, Request("subscribe", t, [status |-> "active", plan |-> p, due |-> d]))

CallRenew(c) ==
    \E t \in Tenants, e \in PeriodEnds :
        Begin(c, Request("renew", t, [NoRecord EXCEPT !.due = e + GracePeriod]))

CallChangePlan(c) ==
    \E t \in Tenants, p \in Plans :
        Begin(c, Request("changePlan", t, [NoRecord EXCEPT !.plan = p]))

CallEnd(c) ==
    \E t \in Tenants, op \in {"delete", "unsubscribe", "expire"} :
        Begin(c, Request(op, t, NoRecord))

\* ExpireDue goes on to one of the tenants it has not visited, or returns.  (It
\* visits them in the order of their identifiers.)
Sweep(c, rest, at) ==
    IF rest = {}
    THEN call' = [call EXCEPT ![c] = NoCall]
    ELSE \E t \in rest :
           call' = [call EXCEPT ![c] = [op |-> "expireDue", tenant |-> t, arg |-> NoRecord,
                                        rest |-> rest \ {t}, at |-> at]]

\* ExpireDue reads the clock, then collects the due tenants under the read lock.
CallExpireDue(c) ==
    /\ call[c] = NoCall
    /\ Len(hooks[c]) < MaxDepth
    /\ calls < MaxCalls
    /\ calls' = calls + 1
    /\ Sweep(c, {t \in Tenants : Due(subscriptions[t], now)}, now)
    /\ UNCHANGED <<subscriptions, pending, hooks, now>>

-----------------------------------------------------------------------------
(* lockMutation.                                                           *)

\* Mutant of Reentrant: only the hook's own tenant is refused.
ReentrantForOwnTenant(c) ==
    \E i \in 1..Len(hooks[c]) : hooks[c][i].tenant = call[c].tenant

\* hasBillingHookMarker: the call is made from inside some billing hook.
Reentrant(c) == hooks[c] # <<>>

\* Mutant of Enter: lockMutation does not look for a pending mutation.
EnterWithoutWaiting(c) == call[c] # NoCall

\* The service lock is taken and the tenant has no pending mutation.
Enter(c) == call[c] # NoCall /\ pending[call[c].tenant] = NoPending

\* ErrBillingHookReentrantMutation, for any tenant with a pending mutation.
RefuseReentrant(c) ==
    /\ call[c] # NoCall
    /\ pending[call[c].tenant] # NoPending
    /\ Reentrant(c)
    /\ call' = [call EXCEPT ![c] = NoCall]
    /\ UNCHANGED <<subscriptions, pending, hooks, now, calls>>

\* The caller's context ends while it waits or before it takes the lock.
ContextDone(c) ==
    /\ call[c] # NoCall
    /\ call' = [call EXCEPT ![c] = NoCall]
    /\ UNCHANGED <<subscriptions, pending, hooks, now, calls>>

\* The operation does not apply to the record: an error, or, for ExpireDue, the
\* next tenant.
Refuse(c) ==
    /\ Enter(c)
    /\ ~Applies(call[c])
    /\ Sweep(c, call[c].rest, call[c].at)
    /\ UNCHANGED <<subscriptions, pending, hooks, now, calls>>

\* Mutant of Write: the Store methods only take service.mu.
WriteWithoutWaiting(c) ==
    /\ call[c] # NoCall
    /\ call[c].op \in Direct
    /\ Applies(call[c])
    /\ subscriptions' = [subscriptions EXCEPT ![call[c].tenant] = Result(call[c])]
    /\ call' = [call EXCEPT ![c] = NoCall]
    /\ UNCHANGED <<pending, hooks, now, calls>>

\* Create, Update and Delete run no billing hook.
Write(c) ==
    /\ Enter(c)
    /\ call[c].op \in Direct
    /\ Applies(call[c])
    /\ subscriptions' = [subscriptions EXCEPT ![call[c].tenant] = Result(call[c])]
    /\ call' = [call EXCEPT ![c] = NoCall]
    /\ UNCHANGED <<pending, hooks, now, calls>>

\* stageLocked, and the billing hook starts.
Stage(c) ==
    LET k == call[c] IN
    /\ Enter(c)
    /\ k.op \in Lifecycle
    /\ Applies(k)
    /\ pending' = [pending EXCEPT ![k.tenant] =
                     [by |-> c, op |-> k.op, staged |-> Result(k), base |-> subscriptions[k.tenant]]]
    /\ hooks' = [hooks EXCEPT ![c] = Append(@, [tenant |-> k.tenant, rest |-> k.rest, at |-> k.at])]
    /\ call' = [call EXCEPT ![c] = NoCall]
    /\ UNCHANGED <<subscriptions, now, calls>>

-----------------------------------------------------------------------------
(* runBillingHook.  The innermost hook of a client returns.                *)

Innermost(c) == hooks[c][Len(hooks[c])]
Pop(c) == hooks' = [hooks EXCEPT ![c] = SubSeq(@, 1, Len(@) - 1)]

\* finishPending does nothing when the entry is no longer the one it staged.
FinishPending(c, commit) ==
    LET t == Innermost(c).tenant IN
    IF pending[t].by = c
    THEN /\ pending' = [pending EXCEPT ![t] = NoPending]
         /\ subscriptions' = IF commit THEN [subscriptions EXCEPT ![t] = pending[t].staged]
                             ELSE subscriptions
    ELSE UNCHANGED <<pending, subscriptions>>

HookSucceeds(c) ==
    /\ hooks[c] # <<>>
    /\ call[c] = NoCall
    /\ FinishPending(c, TRUE)
    /\ Pop(c)
    /\ Sweep(c, Innermost(c).rest, Innermost(c).at)
    /\ UNCHANGED <<now, calls>>

\* The hook returns an error or panics: rolled back, and ExpireDue stops.
HookFails(c) ==
    /\ hooks[c] # <<>>
    /\ call[c] = NoCall
    /\ FinishPending(c, FALSE)
    /\ Pop(c)
    /\ UNCHANGED <<call, now, calls>>

Tick ==
    /\ now < MaxTime
    /\ now' = now + 1
    /\ UNCHANGED <<subscriptions, pending, call, hooks, calls>>

\* All calls of the bounded behaviour have returned.
Done ==
    /\ calls = MaxCalls /\ now = MaxTime
    /\ \A c \in Clients : call[c] = NoCall /\ hooks[c] = <<>>
    /\ UNCHANGED vars

Call(c) == \/ CallStore(c)
           \/ CallSubscribe(c)
           \/ CallRenew(c)
           \/ CallChangePlan(c)
           \/ CallEnd(c)
           \/ CallExpireDue(c)

Step(c) == \/ RefuseReentrant(c)
           \/ Refuse(c)
           \/ Write(c)
           \/ Stage(c)
           \/ HookSucceeds(c)
           \/ HookFails(c)

Next == \/ \E c \in Clients : Call(c) \/ Step(c) \/ ContextDone(c)
        \/ Tick
        \/ Done

Spec == Init /\ [][Next]_vars

-----------------------------------------------------------------------------
\* Type invariant of the service and of the goroutines inside it.
TypeOK ==
    /\ subscriptions \in [Tenants -> Records]
    /\ pending \in [Tenants -> [by : Clients, op : Lifecycle, staged : Record, base : Records]
                               \cup {NoPending}]
    /\ call \in [Clients -> [op : Lifecycle \cup Direct, tenant : Tenants,
                             arg : [status : Statuses \cup {"none"}, plan : Plans \cup {NoPlan},
                                    due : DueTimes],
                             rest : SUBSET Tenants, at : Nat] \cup {NoCall}]
    /\ hooks \in [Clients -> Seq([tenant : Tenants, rest : SUBSET Tenants, at : Nat])]
    /\ now \in Nat
    /\ calls \in Nat

\* A staged mutation belongs to exactly one running hook, and every running hook
\* still owns what it staged: so finishPending always finds its own entry, its
\* waiters are always released, and a hook reads its own overlay only
\* (hookCanRead follows the chain of hooks of its goroutine).
StagedByItsHook ==
    /\ \A c \in Clients : \A i \in 1..Len(hooks[c]) : pending[hooks[c][i].tenant].by = c
    /\ \A c \in Clients : \A i, j \in 1..Len(hooks[c]) :
           hooks[c][i].tenant = hooks[c][j].tenant => i = j
    /\ \A t \in Tenants : pending[t] # NoPending =>
           \E i \in 1..Len(hooks[pending[t].by]) : hooks[pending[t].by][i].tenant = t

\* No lost update: the committed record does not change while a hook is deciding
\* on its successor ("Same-tenant writers wait for the hook to finish").
StagedFromCommitted ==
    \A t \in Tenants : pending[t] # NoPending => pending[t].base = subscriptions[t]

\* ExpireDue expires a record only if it was due at the time the sweep read when
\* it began, however far the clock has gone on in the hooks of earlier tenants and
\* whoever renewed the record meanwhile: as long as the hook of an expiry is
\* running, the committed record is one whose period had ended by then.
ExpiresOnlyDue ==
    \A c \in Clients : \A i \in 1..Len(hooks[c]) :
        LET h == hooks[c][i]
        IN pending[h.tenant].op = "expireDue" => Due(subscriptions[h.tenant], h.at)

\* What a committed record may become while its tenant has a hook running.
Transitions == {<<"none", "active">>, <<"active", "active">>, <<"active", "cancelled">>,
                <<"active", "expired">>, <<"expired", "active">>}

\* A billed transition takes a record along the lifecycle: in particular no hook,
\* and no interleaving of hooks, brings a cancelled subscription back.
BilledTransitions ==
    [][\A t \in Tenants : pending[t] # NoPending /\ subscriptions'[t] # subscriptions[t]
         => <<subscriptions[t].status, subscriptions'[t].status>> \in Transitions]_vars

\* A goroutine that lockMutation keeps waiting for the tenant's running hook.
Waits(c) == call[c] # NoCall /\ pending[call[c].tenant] # NoPending /\ ~Reentrant(c)

\* Nobody waits for ever: whom a goroutine waits for runs the hook and waits for
\* nobody itself, also when hooks of different tenants call the service for one
\* another.  The reentrancy rule leaves no cycle of waiting goroutines.
WaitsEnd ==
    \A c \in Clients : Waits(c) =>
        LET owner == pending[call[c].tenant].by
        IN owner # c /\ hooks[owner] # <<>> /\ ~Waits(owner)
=============================================================================
