------------------------- MODULE SubscriptionProofs -------------------------
(***************************************************************************)
(* Safety of the subscription service for any number of goroutines,        *)
(* tenants and nested billing hooks.                                       *)
(***************************************************************************)
EXTENDS Subscription, SequenceTheorems, TLAPS

Frame == [tenant : Tenants, rest : SUBSET Tenants, at : Nat]

\* The argument of a call has what its operation uses.
CallArguments ==
    \A c \in Clients :
        /\ call[c].op \in {"create", "update", "subscribe"} => call[c].arg \in Record
        /\ call[c].op = "changePlan" => call[c].arg.plan \in Plans
        /\ call[c].op = "subscribe" => call[c].arg.status = "active"

IInv == /\ TypeOK
        /\ CallArguments
        /\ StagedByItsHook
        /\ StagedFromCommitted
        /\ ExpiresOnlyDue

\* The empty service satisfies the inductive invariant.
LEMMA InvInit == Init => IInv
BY NamesAssumption DEF Init, IInv, TypeOK, CallArguments, StagedByItsHook, StagedFromCommitted, ExpiresOnlyDue,
   Records, NoPending, NoCall, NoRecord

\* What the shape of the records gives the cases below.
LEMMA Shapes ==
    /\ NoRecord \notin Record
    /\ NoRecord.status = "none"
    /\ NoPending.op = "none"
    /\ NoPending.by = NoClient
    /\ NoCall.op = "none"
    /\ 0 \in DueTimes
BY NamesAssumption DEF NoRecord, Record, NoPending, NoCall, DueTimes

Calls == [op : Lifecycle \cup Direct, tenant : Tenants,
          arg : [status : Statuses \cup {"none"}, plan : Plans \cup {NoPlan}, due : DueTimes],
          rest : SUBSET Tenants, at : Nat]

\* Popping the innermost hook leaves a sequence of the outer ones.
LEMMA PopFrames ==
    ASSUME NEW s \in Seq(Frame), s # <<>>
    PROVE  /\ SubSeq(s, 1, Len(s) - 1) \in Seq(Frame)
           /\ Len(SubSeq(s, 1, Len(s) - 1)) = Len(s) - 1
           /\ \A i \in 1..(Len(s) - 1) : SubSeq(s, 1, Len(s) - 1)[i] = s[i]
           /\ s[Len(s)] \in Frame
<1>1. Len(s) \in Nat /\ Len(s) # 0 /\ \A i \in 1..Len(s) : s[i] \in Frame
  OBVIOUS
<1>2. \A i \in 1..(Len(s) - 1) : s[i] \in Frame
  BY <1>1
<1> DEFINE n == Len(s) - 1
<1>3. n \in Int /\ 1 \in Int /\ n >= 0
  BY <1>1
<1> HIDE DEF n
<1>4. /\ SubSeq(s, 1, n) \in Seq(Frame)
      /\ Len(SubSeq(s, 1, n)) = IF 1 <= n THEN n - 1 + 1 ELSE 0
      /\ \A i \in 1..(n - 1 + 1) : SubSeq(s, 1, n)[i] = s[1 + i - 1]
  BY <1>2, <1>3, SubSeqProperties DEF n
<1>5. Len(SubSeq(s, 1, n)) = n /\ \A i \in 1..n : SubSeq(s, 1, n)[i] = s[i]
  BY <1>3, <1>4
<1> QED
  BY <1>1, <1>4, <1>5 DEF n

-----------------------------------------------------------------------------
\* A record an operation stages or writes is a record, given a call of the
\* right shape that applies.
LEMMA ResultType ==
    ASSUME TypeOK, NEW k \in Calls, Applies(k),
           k.op \in {"create", "update", "subscribe"} => k.arg \in Record,
           k.op = "changePlan" => k.arg.plan \in Plans
    PROVE  /\ Result(k) \in Records
           /\ k.op \in Lifecycle => Result(k) \in Record
<1>1. k.tenant \in Tenants /\ subscriptions[k.tenant] \in Records
  BY DEF TypeOK, Calls
<1>2. CASE k.op \in {"create", "update", "subscribe", "delete"}
  BY <1>2, Shapes DEF Result, Records, Lifecycle
<1>3. CASE k.op \in {"unsubscribe", "expire", "expireDue", "renew", "changePlan"}
  <2>1. subscriptions[k.tenant] \in Record
    BY <1>1, <1>3, Shapes DEF Applies, Due, Records
  <2> QED
    BY <2>1, <1>3 DEF Result, Records, Record, Statuses, Calls
<1> QED
  BY <1>2, <1>3 DEF Calls, Lifecycle, Direct

-----------------------------------------------------------------------------
\* Calling the service, and going on with a sweep, keeps the calls well formed.
LEMMA SweepStep ==
    ASSUME TypeOK, CallArguments, NEW c \in Clients, NEW rest \in SUBSET Tenants,
           NEW at \in Nat, Sweep(c, rest, at)
    PROVE  /\ call' \in [Clients -> Calls \cup {NoCall}]
           /\ CallArguments'
<1>1. CASE rest = {}
  BY <1>1, Shapes DEF Sweep, TypeOK, Calls, CallArguments
<1>2. CASE rest # {}
  <2>1. PICK t \in rest :
           call' = [call EXCEPT ![c] = [op |-> "expireDue", tenant |-> t, arg |-> NoRecord,
                                        rest |-> rest \ {t}, at |-> at]]
    BY <1>2 DEF Sweep
  <2>2. [op |-> "expireDue", tenant |-> t, arg |-> NoRecord, rest |-> rest \ {t}, at |-> at] \in Calls
    BY Shapes DEF Calls, NoRecord, Lifecycle
  <2> QED
    BY <2>1, <2>2, Shapes DEF TypeOK, Calls, CallArguments
<1> QED
  BY <1>1, <1>2

\* A goroutine that enters a call keeps the inductive invariant.
LEMMA BeginStep ==
    ASSUME TypeOK, CallArguments, NEW c \in Clients, Call(c)
    PROVE  /\ call' \in [Clients -> Calls \cup {NoCall}]
           /\ CallArguments'
           /\ calls' \in Nat
           /\ UNCHANGED <<subscriptions, pending, hooks, now>>
<1>6. CASE CallExpireDue(c)
  <2>1. {t \in Tenants : Due(subscriptions[t], now)} \in SUBSET Tenants /\ now \in Nat
    BY DEF TypeOK
  <2>2. Sweep(c, {t \in Tenants : Due(subscriptions[t], now)}, now)
    BY <1>6 DEF CallExpireDue
  <2>3. /\ call' \in [Clients -> Calls \cup {NoCall}]
        /\ CallArguments'
    BY <2>1, <2>2, SweepStep
  <2> QED
    BY <1>6, <2>3 DEF CallExpireDue, TypeOK
<1> USE Shapes DEF TypeOK, CallArguments, Begin, Request
<1>1. CASE CallStore(c)
  BY <1>1 DEF CallStore, Calls, Direct, Record
<1>2. CASE CallSubscribe(c)
  BY <1>2 DEF CallSubscribe, Calls, Lifecycle, Record, Statuses
<1>3. CASE CallRenew(c)
  BY <1>3 DEF CallRenew, Calls, Lifecycle, NoRecord, DueTimes
<1>4. CASE CallChangePlan(c)
  BY <1>4 DEF CallChangePlan, Calls, Lifecycle, NoRecord
<1>5. CASE CallEnd(c)
  BY <1>5 DEF CallEnd, Calls, Lifecycle, Direct, NoRecord
<1> QED
  BY <1>1, <1>2, <1>3, <1>4, <1>5, <1>6 DEF Call

-----------------------------------------------------------------------------
\* Frames of running hooks, and the clock, have their types.
LEMMA FrameTypes ==
    ASSUME TypeOK
    PROVE  /\ now \in Nat /\ calls \in Nat
           /\ \A c \in Clients : hooks[c] \in Seq(Frame)
           /\ \A c \in Clients : \A i \in 1..Len(hooks[c]) :
                  hooks[c][i] \in Frame
<1>1. now \in Nat /\ calls \in Nat /\ \A c \in Clients : hooks[c] \in Seq(Frame)
  BY DEF TypeOK, Frame
<1>2. \A c \in Clients : \A i \in 1..Len(hooks[c]) : hooks[c][i] \in Frame
  BY <1>1
<1> QED
  BY <1>1, <1>2

\* A step that changes only calls and the clock keeps the invariant.
LEMMA CallsOnly ==
    ASSUME IInv, UNCHANGED <<subscriptions, pending, hooks>>, now' \in Nat, calls' \in Nat,
           call' \in [Clients -> Calls \cup {NoCall}], CallArguments'
    PROVE  IInv'
<1>1. TypeOK'
  BY DEF IInv, TypeOK, Calls
<1>2. StagedByItsHook' /\ StagedFromCommitted'
  BY DEF IInv, StagedByItsHook, StagedFromCommitted
<1>3. ExpiresOnlyDue'
  BY DEF IInv, ExpiresOnlyDue, Due
<1> QED
  BY <1>1, <1>2, <1>3 DEF IInv

\* Every operation a caller can start keeps the inductive invariant.
LEMMA CallStep ==
    ASSUME IInv, NEW c \in Clients, Call(c)
    PROVE  IInv'
<1>1. /\ call' \in [Clients -> Calls \cup {NoCall}]
      /\ CallArguments'
      /\ calls' \in Nat
      /\ UNCHANGED <<subscriptions, pending, hooks, now>>
  BY BeginStep DEF IInv
<1>2. now' \in Nat
  BY <1>1, FrameTypes DEF IInv
<1> QED
  BY <1>1, <1>2, CallsOnly

\* A call that changes nothing keeps the inductive invariant.
LEMMA RefuseStep ==
    ASSUME IInv, NEW c \in Clients, RefuseReentrant(c) \/ ContextDone(c) \/ Refuse(c)
    PROVE  IInv'
<1> now \in Nat /\ calls \in Nat
  BY FrameTypes DEF IInv
<1>1. CASE RefuseReentrant(c) \/ ContextDone(c)
  <2>1. /\ call' = [call EXCEPT ![c] = NoCall]
        /\ UNCHANGED <<subscriptions, pending, hooks, now, calls>>
    BY <1>1 DEF RefuseReentrant, ContextDone
  <2>2. /\ call' \in [Clients -> Calls \cup {NoCall}]
        /\ CallArguments'
    BY <2>1, Shapes DEF IInv, TypeOK, Calls, CallArguments
  <2> QED
    BY <2>1, <2>2, CallsOnly
<1>2. CASE Refuse(c)
  <2>1. call[c] \in Calls
    BY <1>2 DEF Refuse, Enter, IInv, TypeOK, Calls
  <2>2. call[c].rest \in SUBSET Tenants /\ call[c].at \in Nat
    BY <2>1 DEF Calls
  <2>3. Sweep(c, call[c].rest, call[c].at)
    BY <1>2 DEF Refuse
  <2>4. /\ call' \in [Clients -> Calls \cup {NoCall}]
        /\ CallArguments'
    BY <2>2, <2>3, SweepStep DEF IInv
  <2>5. UNCHANGED <<subscriptions, pending, hooks, now, calls>>
    BY <1>2 DEF Refuse
  <2> QED
    BY <2>4, <2>5, CallsOnly
<1> QED
  BY <1>1, <1>2

-----------------------------------------------------------------------------
\* Create, Update and Delete: the tenant has no staged mutation to contradict.
LEMMA WriteStep ==
    ASSUME IInv, NEW c \in Clients, Write(c)
    PROVE  IInv'
<1> DEFINE k == call[c]
<1>1. k \in Calls /\ k.tenant \in Tenants /\ pending[k.tenant] = NoPending
  BY DEF Write, Enter, IInv, TypeOK, Calls
<1>2. Result(k) \in Records
  BY <1>1, ResultType DEF Write, IInv, CallArguments
<1>3. TypeOK'
  BY <1>2 DEF Write, IInv, TypeOK
<1>4. CallArguments'
  BY Shapes DEF Write, IInv, CallArguments, TypeOK
<1>5. StagedByItsHook'
  BY DEF Write, IInv, StagedByItsHook
<1>6. /\ UNCHANGED <<pending, hooks>>
      /\ \A t \in Tenants \ {k.tenant} : subscriptions'[t] = subscriptions[t]
  BY <1>1 DEF Write, IInv, TypeOK
<1>7. StagedFromCommitted'
  BY <1>1, <1>6 DEF IInv, StagedFromCommitted
<1>8. ExpiresOnlyDue'
  <2>1. ASSUME NEW d \in Clients, NEW i \in 1..Len(hooks[d])
        PROVE  hooks[d][i].tenant \in Tenants \ {k.tenant}
    <3>1. hooks[d][i].tenant \in Tenants /\ pending[hooks[d][i].tenant].by = d
      BY FrameTypes DEF IInv, StagedByItsHook, Frame
    <3> QED
      BY <3>1, <1>1, Shapes, NamesAssumption
  <2> HIDE DEF k
  <2> QED
    BY <2>1, <1>6 DEF IInv, ExpiresOnlyDue, Due
<1> QED
  BY <1>3, <1>4, <1>5, <1>7, <1>8 DEF IInv

\* Staging: the new hook owns the entry, made from the record now committed.
LEMMA StageStep ==
    ASSUME IInv, NEW c \in Clients, Stage(c)
    PROVE  IInv'
<1> DEFINE k == call[c]
           f == [tenant |-> k.tenant, rest |-> k.rest, at |-> k.at]
           p == [by |-> c, op |-> k.op, staged |-> Result(k), base |-> subscriptions[k.tenant]]
<1>1. k \in Calls /\ k.tenant \in Tenants /\ pending[k.tenant] = NoPending
  BY DEF Stage, Enter, IInv, TypeOK, Calls
<1>2. f \in Frame
  BY <1>1 DEF Frame, Calls
<1>3. /\ pending' = [pending EXCEPT ![k.tenant] = p]
      /\ hooks' = [hooks EXCEPT ![c] = Append(hooks[c], f)]
      /\ call' = [call EXCEPT ![c] = NoCall]
      /\ UNCHANGED <<subscriptions, now, calls>>
      /\ k.op \in Lifecycle /\ Applies(k)
  BY DEF Stage
<1>4. p.staged \in Record /\ p.base \in Records
  BY <1>1, <1>3, ResultType DEF IInv, CallArguments, TypeOK
<1>5. /\ hooks[c] \in Seq(Frame)
      /\ Append(hooks[c], f) \in Seq(Frame)
      /\ Len(Append(hooks[c], f)) = Len(hooks[c]) + 1
      /\ \A i \in 1..Len(hooks[c]) : Append(hooks[c], f)[i] = hooks[c][i]
      /\ Append(hooks[c], f)[Len(hooks[c]) + 1] = f
  BY <1>2, FrameTypes, AppendProperties DEF IInv
<1> HIDE DEF k, f, p
<1>6. TypeOK'
  BY <1>1, <1>3, <1>4, <1>5 DEF IInv, TypeOK, Frame, p
<1>7. CallArguments'
  BY <1>3, Shapes DEF IInv, CallArguments, TypeOK
<1>8. StagedByItsHook'
  <2>1. hooks'[c] = Append(hooks[c], f) /\ Len(hooks[c]) \in Nat
    BY <1>3, <1>5 DEF IInv, TypeOK
  <2>2. \A d \in Clients \ {c} : hooks'[d] = hooks[d]
    BY <1>3 DEF IInv, TypeOK
  <2>3. /\ pending'[k.tenant] = p /\ p.by = c /\ f.tenant = k.tenant
        /\ \A t \in Tenants \ {k.tenant} : pending'[t] = pending[t]
    BY <1>1, <1>3 DEF IInv, TypeOK, p, f
  <2>4. \A d \in Clients : \A i \in 1..Len(hooks[d]) :
           hooks[d][i].tenant \in Tenants /\ hooks[d][i].tenant # k.tenant
    BY <1>1, FrameTypes, Shapes, NamesAssumption DEF IInv, StagedByItsHook, Frame
  <2>5. \A i \in 1..Len(hooks'[c]) :
           \/ i \in 1..Len(hooks[c]) /\ hooks'[c][i] = hooks[c][i]
           \/ i = Len(hooks[c]) + 1 /\ hooks'[c][i] = f
    BY <2>1, <1>5
  <2>6. \A d \in Clients : \A i \in 1..Len(hooks'[d]) : pending'[hooks'[d][i].tenant].by = d
    BY <2>2, <2>3, <2>4, <2>5 DEF IInv, StagedByItsHook
  <2>7. ASSUME NEW d \in Clients, NEW i \in 1..Len(hooks'[d]), NEW j \in 1..Len(hooks'[d]),
               hooks'[d][i].tenant = hooks'[d][j].tenant
        PROVE  i = j
    <3>1. CASE d = c
      <4>1. \A m \in 1..Len(hooks[c]) : hooks[c][m].tenant # f.tenant
        BY <2>3, <2>4
      <4>2. \A l, m \in 1..Len(hooks[c]) : hooks[c][l].tenant = hooks[c][m].tenant => l = m
        BY DEF IInv, StagedByItsHook
      <4> QED
        BY <3>1, <4>1, <4>2, <2>5, <2>7
    <3>2. CASE d # c
      <4>1. hooks'[d] = hooks[d]
        BY <3>2, <2>2
      <4> QED
        BY <4>1, <2>7 DEF IInv, StagedByItsHook
    <3> QED
      BY <3>1, <3>2
  <2>8. ASSUME NEW t \in Tenants, pending'[t] # NoPending
        PROVE  \E i \in 1..Len(hooks'[pending'[t].by]) : hooks'[pending'[t].by][i].tenant = t
    <3>1. CASE t = k.tenant
      <4>1. Len(hooks[c]) + 1 \in 1..Len(hooks'[c]) /\ hooks'[c][Len(hooks[c]) + 1] = f
        BY <2>1, <1>5
      <4> QED
        BY <3>1, <4>1, <2>3
    <3>2. CASE t # k.tenant
      <4>1. PICK i \in 1..Len(hooks[pending[t].by]) : hooks[pending[t].by][i].tenant = t
        BY <3>2, <2>3, <2>8 DEF IInv, StagedByItsHook
      <4>2. pending[t].by \in Clients
        BY <3>2, <2>3, <2>8 DEF IInv, TypeOK
      <4>3. CASE pending[t].by = c
        <5>1. i \in 1..Len(hooks'[c]) /\ hooks'[c][i] = hooks[c][i]
          BY <4>1, <4>3, <2>1, <1>5
        <5> QED
          BY <5>1, <4>1, <4>3, <2>3, <3>2
      <4>4. CASE pending[t].by # c
        BY <4>1, <4>2, <4>4, <2>2, <2>3, <3>2
      <4> QED
        BY <4>3, <4>4
    <3> QED
      BY <3>1, <3>2
  <2> QED
    BY <2>6, <2>7, <2>8 DEF StagedByItsHook
<1>9. StagedFromCommitted' /\ ExpiresOnlyDue'
  <2>1. /\ pending'[k.tenant] = p /\ p.base = subscriptions[k.tenant] /\ p.op = k.op
        /\ \A t \in Tenants \ {k.tenant} : pending'[t] = pending[t]
    BY <1>1, <1>3 DEF IInv, TypeOK, p
  <2>2. k.op = "expireDue" => Due(subscriptions[k.tenant], k.at)
    BY <1>3 DEF Applies
  <2>3. ASSUME NEW d \in Clients, NEW i \in 1..Len(hooks'[d]),
               pending'[hooks'[d][i].tenant].op = "expireDue"
        PROVE  Due(subscriptions[hooks'[d][i].tenant], hooks'[d][i].at)
    <3>1. \/ d = c /\ hooks'[d][i] = f
          \/ i \in 1..Len(hooks[d]) /\ hooks'[d][i] = hooks[d][i]
      BY <1>3, <1>5 DEF IInv, TypeOK
    <3>2. CASE d = c /\ hooks'[d][i] = f
      BY <2>1, <2>2, <2>3, <3>2 DEF f
    <3>3. CASE i \in 1..Len(hooks[d]) /\ hooks'[d][i] = hooks[d][i]
      <4>1. hooks[d][i].tenant \in Tenants /\ pending[hooks[d][i].tenant].by = d
        BY <3>3, FrameTypes DEF IInv, StagedByItsHook, Frame
      <4>2. hooks[d][i].tenant # k.tenant
        BY <4>1, <1>1, Shapes, NamesAssumption
      <4> QED
        BY <3>3, <4>1, <4>2, <2>1, <2>3 DEF IInv, ExpiresOnlyDue
    <3> QED
      BY <3>1, <3>2, <3>3
  <2>4. ExpiresOnlyDue'
    BY <1>3, <2>3 DEF ExpiresOnlyDue, Due
  <2> QED
    BY <1>3, <2>1, <2>4 DEF IInv, StagedFromCommitted
<1> QED
  BY <1>6, <1>7, <1>8, <1>9 DEF IInv

-----------------------------------------------------------------------------
\* A hook returns: its own entry is still there (StagedByItsHook), so it is the
\* one finishPending removes, and every other hook keeps its own.
LEMMA HookStep ==
    ASSUME IInv, NEW c \in Clients, HookSucceeds(c) \/ HookFails(c)
    PROVE  IInv'
<1> DEFINE n == Len(hooks[c])
           t == hooks[c][n].tenant
<1>1. /\ hooks[c] \in Seq(Frame) /\ hooks[c] # <<>> /\ call[c] = NoCall
      /\ hooks' = [hooks EXCEPT ![c] = SubSeq(hooks[c], 1, n - 1)]
      /\ now' = now /\ calls' = calls /\ now \in Nat /\ calls \in Nat
  BY FrameTypes DEF HookSucceeds, HookFails, Pop, IInv
<1>2. /\ n \in Nat \ {0}
      /\ SubSeq(hooks[c], 1, n - 1) \in Seq(Frame)
      /\ Len(SubSeq(hooks[c], 1, n - 1)) = n - 1
      /\ \A i \in 1..(n - 1) : SubSeq(hooks[c], 1, n - 1)[i] = hooks[c][i]
      /\ hooks[c][n] \in Frame
  BY <1>1, PopFrames
<1>3. t \in Tenants /\ hooks[c][n].rest \in SUBSET Tenants /\ hooks[c][n].at \in Nat
  BY <1>2 DEF Frame
<1>4. pending[t].by = c
  BY <1>2 DEF IInv, StagedByItsHook
<1>5. /\ pending' = [pending EXCEPT ![t] = NoPending]
      /\ \/ subscriptions' = [subscriptions EXCEPT ![t] = pending[t].staged]
         \/ subscriptions' = subscriptions
  BY <1>4 DEF HookSucceeds, HookFails, FinishPending, Innermost
<1>6. pending[t].staged \in Record
  BY <1>3, <1>4, NamesAssumption DEF IInv, TypeOK, NoPending
<1>7. call' \in [Clients -> Calls \cup {NoCall}] /\ CallArguments'
  <2>1. CASE HookSucceeds(c)
    <3>1. Sweep(c, hooks[c][n].rest, hooks[c][n].at)
      BY <2>1 DEF HookSucceeds, Innermost
    <3> QED
      BY <3>1, <1>3, SweepStep DEF IInv
  <2>2. CASE HookFails(c)
    BY <2>2, <1>1 DEF HookFails, IInv, TypeOK, Calls, CallArguments
  <2> QED
    BY <2>1, <2>2
<1>8. /\ hooks'[c] = SubSeq(hooks[c], 1, n - 1)
      /\ \A d \in Clients \ {c} : hooks'[d] = hooks[d]
      /\ pending'[t] = NoPending
      /\ \A u \in Tenants \ {t} : pending'[u] = pending[u] /\ subscriptions'[u] = subscriptions[u]
  BY <1>1, <1>3, <1>5 DEF IInv, TypeOK
<1>9. \A i \in 1..Len(hooks'[c]) :
        i \in 1..Len(hooks[c]) /\ i # n /\ hooks'[c][i] = hooks[c][i]
  BY <1>2, <1>8
<1>10. TypeOK'
  <2>1. /\ subscriptions' \in [Tenants -> Records]
        /\ hooks' \in [Clients -> Seq(Frame)]
    BY <1>1, <1>2, <1>5, <1>6 DEF IInv, TypeOK, Records, Frame
  <2>2. pending' \in [Tenants -> [by : Clients, op : Lifecycle, staged : Record, base : Records]
                               \cup {NoPending}]
    BY <1>5 DEF IInv, TypeOK
  <2> QED
    BY <2>1, <2>2, <1>1, <1>7 DEF TypeOK, Calls, Frame
<1> HIDE DEF n, t
<1>12. StagedByItsHook'
  <2>1. \A d \in Clients : \A i \in 1..Len(hooks[d]) : hooks[d][i].tenant \in Tenants
    BY FrameTypes DEF IInv, Frame
  <2>2. \A i \in 1..Len(hooks[c]) : i # n => hooks[c][i].tenant # t
    BY <1>2 DEF IInv, StagedByItsHook, n, t
  <2>3. \A d \in Clients : \A i \in 1..Len(hooks[d]) : d # c => hooks[d][i].tenant # t
    BY <1>4 DEF IInv, StagedByItsHook
  <2>4. \A d \in Clients : \A i \in 1..Len(hooks'[d]) :
           i \in 1..Len(hooks[d]) /\ hooks'[d][i] = hooks[d][i] /\ (d = c => i # n)
    BY <1>8, <1>9
  <2>5. ASSUME NEW d \in Clients, NEW i \in 1..Len(hooks'[d])
        PROVE  pending'[hooks'[d][i].tenant].by = d
    <3>1. hooks[d][i].tenant \in Tenants \ {t}
      BY <2>1, <2>2, <2>3, <2>4
    <3>2. pending[hooks[d][i].tenant].by = d
      BY <2>4 DEF IInv, StagedByItsHook
    <3> QED
      BY <3>1, <3>2, <2>4, <1>8
  <2>6. ASSUME NEW d \in Clients, NEW i \in 1..Len(hooks'[d]), NEW j \in 1..Len(hooks'[d]),
               hooks'[d][i].tenant = hooks'[d][j].tenant
        PROVE  i = j
    <3>1. \A l, m \in 1..Len(hooks[d]) : hooks[d][l].tenant = hooks[d][m].tenant => l = m
      BY DEF IInv, StagedByItsHook
    <3> QED
      BY <3>1, <2>6, <2>4
  <2>7. ASSUME NEW u \in Tenants, pending'[u] # NoPending
        PROVE  \E i \in 1..Len(hooks'[pending'[u].by]) : hooks'[pending'[u].by][i].tenant = u
    <3>1. u # t /\ pending'[u] = pending[u]
      BY <1>8, <2>7
    <3>2. PICK i \in 1..Len(hooks[pending[u].by]) : hooks[pending[u].by][i].tenant = u
      BY <3>1, <2>7 DEF IInv, StagedByItsHook
    <3>3. pending[u].by \in Clients
      BY <3>1, <2>7 DEF IInv, TypeOK
    <3>4. CASE pending[u].by = c
      <4>1. i # n
        BY <3>1, <3>2, <3>4 DEF t
      <4>2. i \in 1..Len(hooks'[c]) /\ hooks'[c][i] = hooks[c][i]
        BY <4>1, <3>2, <3>4, <1>2, <1>8 DEF n
      <4> QED
        BY <4>2, <3>1, <3>2, <3>4
    <3>5. CASE pending[u].by # c
      BY <3>1, <3>2, <3>3, <3>5, <1>8
    <3> QED
      BY <3>4, <3>5
  <2> QED
    BY <2>5, <2>6, <2>7 DEF StagedByItsHook
<1>13. StagedFromCommitted'
  BY <1>1, <1>8, Shapes DEF IInv, StagedFromCommitted
<1>14. ExpiresOnlyDue'
  <2>1. ASSUME NEW d \in Clients, NEW i \in 1..Len(hooks'[d]),
               pending'[hooks'[d][i].tenant].op = "expireDue"
        PROVE  Due(subscriptions'[hooks'[d][i].tenant], hooks'[d][i].at)
    <3>1. i \in 1..Len(hooks[d]) /\ hooks'[d][i] = hooks[d][i]
      BY <1>8, <1>9
    <3>2. hooks[d][i].tenant \in Tenants \ {t}
      BY <3>1, <2>1, <1>8, FrameTypes, Shapes DEF IInv, Frame
    <3> QED
      BY <3>1, <3>2, <2>1, <1>8 DEF IInv, ExpiresOnlyDue
  <2> QED
    BY <2>1 DEF ExpiresOnlyDue, Due
<1> QED
  BY <1>7, <1>10, <1>12, <1>13, <1>14 DEF IInv

-----------------------------------------------------------------------------
\* Every step keeps the inductive invariant.
LEMMA InvStep == IInv /\ [Next]_vars => IInv'
<1> SUFFICES ASSUME IInv, [Next]_vars PROVE IInv'
  OBVIOUS
<1>1. ASSUME NEW c \in Clients, Call(c) \/ Step(c) \/ ContextDone(c)
      PROVE  IInv'
  BY <1>1, CallStep, RefuseStep, WriteStep, StageStep, HookStep DEF Step
<1>2. CASE Tick
  <2>1. now' \in Nat /\ calls' \in Nat
    BY <1>2, FrameTypes DEF Tick, IInv
  <2>2. UNCHANGED <<subscriptions, pending, hooks, call>>
    BY <1>2 DEF Tick
  <2>3. call' \in [Clients -> Calls \cup {NoCall}] /\ CallArguments'
    BY <2>2 DEF IInv, TypeOK, Calls, CallArguments
  <2> QED
    BY <2>1, <2>2, <2>3, CallsOnly
<1>3. CASE UNCHANGED vars
  <2>1. TypeOK' /\ CallArguments'
    BY <1>3 DEF vars, IInv, TypeOK, CallArguments
  <2>2. StagedByItsHook'
    BY <1>3 DEF vars, IInv, StagedByItsHook
  <2>3. StagedFromCommitted' /\ ExpiresOnlyDue'
    BY <1>3 DEF vars, IInv, StagedFromCommitted, ExpiresOnlyDue, Due
  <2> QED
    BY <2>1, <2>2, <2>3 DEF IInv
<1> QED
  BY <1>1, <1>2, <1>3 DEF Next, Done

\* The inductive invariant holds in every reachable state.
LEMMA InvAlways == Spec => []IInv
BY InvInit, InvStep, PTL DEF Spec

\* The service and the goroutines inside it keep their types.
THEOREM TypeCorrect == Spec => []TypeOK
<1>1. IInv => TypeOK
  BY DEF IInv
<1> QED
  BY <1>1, InvAlways, PTL

\* Whatever the hooks call, each staged mutation belongs to exactly one running
\* hook (runBillingHook / finishPending).
THEOREM StagedOwnership == Spec => []StagedByItsHook
<1>1. IInv => StagedByItsHook
  BY DEF IInv
<1> QED
  BY <1>1, InvAlways, PTL

\* A staged mutation was made from the record that is still committed: nobody
\* writes a record under a running hook.
THEOREM StagedFreshness == Spec => []StagedFromCommitted
<1>1. IInv => StagedFromCommitted
  BY DEF IInv
<1> QED
  BY <1>1, InvAlways, PTL

\* ExpireDue expires subscriptions whose period had ended at the time it read
\* when it began only, whatever it waited for since.
THEOREM ExpirySweep == Spec => []ExpiresOnlyDue
<1>1. IInv => ExpiresOnlyDue
  BY DEF IInv
<1> QED
  BY <1>1, InvAlways, PTL

\* lockMutation lets nobody wait for ever: the goroutine waited for is inside its
\* own hook, where lockMutation refuses instead of waiting.
THEOREM WaitingEnds == Spec => []WaitsEnd
<1>1. IInv => WaitsEnd
  <2> SUFFICES ASSUME IInv, NEW c \in Clients, Waits(c)
               PROVE  LET owner == pending[call[c].tenant].by
                      IN owner # c /\ hooks[owner] # <<>> /\ ~Waits(owner)
    BY DEF WaitsEnd
  <2> DEFINE t == call[c].tenant
             owner == pending[t].by
  <2>1. t \in Tenants /\ pending[t] # NoPending /\ hooks[c] = <<>>
    BY DEF Waits, Reentrant, IInv, TypeOK
  <2>2. PICK i \in 1..Len(hooks[owner]) : hooks[owner][i].tenant = t
    BY <2>1 DEF IInv, StagedByItsHook
  <2>3. hooks[owner] # <<>>
    BY <2>2
  <2> QED
    BY <2>1, <2>3 DEF Waits, Reentrant
<1> QED
  BY <1>1, InvAlways, PTL

-----------------------------------------------------------------------------
\* What is staged follows the lifecycle from the record it was made from.
StagedTransitions ==
    \A t \in Tenants : pending[t] # NoPending =>
        <<pending[t].base.status, pending[t].staged.status>> \in Transitions

\* Every step stages only what follows the lifecycle.
LEMMA TransitionsStep ==
    ASSUME IInv, StagedTransitions, [Next]_vars
    PROVE  StagedTransitions'
<1>1. ASSUME NEW c \in Clients, Stage(c)
      PROVE  StagedTransitions'
  <2> DEFINE k == call[c]
  <2>1. k \in Calls /\ k.tenant \in Tenants /\ k.op \in Lifecycle /\ Applies(k)
    BY <1>1 DEF Stage, Enter, IInv, TypeOK, Calls
  <2>2. subscriptions[k.tenant] \in Records /\ k.op = "subscribe" => k.arg.status = "active"
    BY <2>1 DEF IInv, TypeOK, CallArguments
  <2>3. pending' = [pending EXCEPT ![k.tenant] =
                     [by |-> c, op |-> k.op, staged |-> Result(k), base |-> subscriptions[k.tenant]]]
    BY <1>1 DEF Stage
  <2>4. <<subscriptions[k.tenant].status, Result(k).status>> \in Transitions
    <3>1. CASE k.op = "subscribe"
      BY <3>1, <2>1, <2>2, Shapes DEF Applies, Result, Transitions, IInv, CallArguments
    <3>2. CASE k.op # "subscribe"
      <4>1. subscriptions[k.tenant] \in Record /\ subscriptions[k.tenant].status \in Statuses
        BY <3>2, <2>1, <2>2, Shapes DEF Applies, Due, Lifecycle, Records, Record, IInv, TypeOK
      <4> QED
        BY <3>2, <4>1, <2>1 DEF Applies, Due, Result, Transitions, Lifecycle, Record, Statuses
    <3> QED
      BY <3>1, <3>2
  <2> HIDE DEF k
  <2> QED
    BY <2>1, <2>3, <2>4 DEF StagedTransitions, IInv, TypeOK
<1>2. ASSUME NEW c \in Clients, HookSucceeds(c) \/ HookFails(c)
      PROVE  StagedTransitions'
  BY <1>2 DEF HookSucceeds, HookFails, FinishPending, StagedTransitions, IInv, TypeOK
<1>3. ASSUME UNCHANGED pending
      PROVE  StagedTransitions'
  BY <1>3 DEF StagedTransitions
<1>4. ASSUME NEW c \in Clients, Call(c)
      PROVE  UNCHANGED pending
  BY <1>4, BeginStep DEF IInv
<1> QED
  BY <1>1, <1>2, <1>3, <1>4 DEF Next, Step, RefuseReentrant, Refuse, Write, ContextDone,
     Tick, Done, vars

\* A step that changes the record of a tenant with a staged mutation commits
\* exactly that mutation.
LEMMA CommitsStaged ==
    ASSUME IInv, [Next]_vars, NEW t \in Tenants, pending[t] # NoPending,
           subscriptions'[t] # subscriptions[t]
    PROVE  subscriptions'[t] = pending[t].staged
<1>1. ASSUME NEW c \in Clients, Write(c)
      PROVE  FALSE
  BY <1>1 DEF Write, Enter, IInv, TypeOK
<1>2. ASSUME NEW c \in Clients, HookSucceeds(c) \/ HookFails(c)
      PROVE  subscriptions'[t] = pending[t].staged
  BY <1>2 DEF HookSucceeds, HookFails, FinishPending, IInv, TypeOK
<1>3. ASSUME NEW c \in Clients, Call(c)
      PROVE  UNCHANGED subscriptions
  BY <1>3, BeginStep DEF IInv
<1> QED
  BY <1>1, <1>2, <1>3 DEF Next, Step, RefuseReentrant, Refuse, Stage, ContextDone, Tick, Done, vars

\* No billing hook, and no interleaving of hooks, takes a record off the
\* lifecycle; a cancelled subscription stays cancelled (Renew, changePlan).
THEOREM BilledLifecycle == Spec => BilledTransitions
<1>1. Init => StagedTransitions
  BY DEF Init, StagedTransitions
<1>2. IInv /\ StagedTransitions /\ [Next]_vars =>
        [\A t \in Tenants : pending[t] # NoPending /\ subscriptions'[t] # subscriptions[t]
           => <<subscriptions[t].status, subscriptions'[t].status>> \in Transitions]_vars
  BY CommitsStaged DEF StagedTransitions, IInv, StagedFromCommitted
<1> QED
  BY <1>1, <1>2, TransitionsStep, InvAlways, PTL DEF Spec, BilledTransitions
=============================================================================
