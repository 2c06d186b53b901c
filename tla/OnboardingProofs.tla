-------------------------- MODULE OnboardingProofs --------------------------
(***************************************************************************)
(* Proofs about Onboarding: metered usage, the tenant row, and what the    *)
(* saga promises to those who repeat a call and those whose call succeeds. *)
(***************************************************************************)
EXTENDS Onboarding, TLAPS

Mutations == [dimension : Dimensions, amount : Nat, limited : BOOLEAN]
Rows == 0..MaxInt \cup {NoRow}
MeterCalls == [left : Seq(Mutations), stage : {"idle", "read", "write"}, seen : Rows,
               stale : BOOLEAN, attempt : 0..MaxQuotaAttempts]

QuotaTypes ==
    /\ usage \in [Dimensions -> Rows]
    /\ counted \in [Dimensions -> Nat]
    /\ recorded \subseteq Dimensions
    /\ metering \in [Consumers -> MeterCalls]

\* A call under way has a mutation left, and a transaction that is still good
\* has read the row as it is and has checked the amount against it.
MutationsChecked ==
    \A c \in Consumers :
        /\ metering[c].stage # "idle" => metering[c].left # << >>
        /\ metering[c].stage = "write" /\ ~metering[c].stale =>
              /\ metering[c].seen = usage[metering[c].left[1].dimension]
              /\ ~Exceeds(metering[c].left[1], Value(metering[c].seen))

QuotaInv == QuotaTypes /\ MutationsChecked /\ Metered

-----------------------------------------------------------------------------
ManagerStages == {"idle", "create", "seed", "rollback", "get", "swap", "emit", "delete", "done"}
ManagerResults == {"none", "ok", "exists", "failed", "lost", "partial", "not_found", "invalid_state",
                   "conflict"}
Changes == {"Update", "Activate", "Suspend", "Restore", "SoftDelete"}
Kinds == Changes \cup {"none", "Create", "HardDelete"}
ManagerCalls == [kind : Kinds, plan : Plans \cup {NoTenant}, stage : ManagerStages,
                 seen : Tenants \cup {NoTenant}, attempt : 0..MaxSwaps, result : ManagerResults]

TenantTypes ==
    /\ tenant \in Tenants \cup {NoTenant}
    /\ seeded \in BOOLEAN
    /\ managing \in [Managed -> ManagerCalls]

\* A call of the manager is where its kind leads, with a plan when it writes
\* one, and swaps only a row it has read and that allows the change.
CallFits(call) ==
    /\ call.kind \in {"Create", "Update"} => call.plan \in Plans
    /\ call.stage \in {"create", "seed", "rollback"} => call.kind = "Create"
    /\ call.stage \in {"get", "swap", "delete"} => call.kind \in Changes \cup {"HardDelete"}
    /\ call.stage = "swap" => /\ call.kind \in Changes
                              /\ call.seen # NoTenant
                              /\ Allowed(call.kind, call.seen)
    /\ call.stage = "delete" => call.kind = "HardDelete"
    /\ call.stage = "emit" => call.kind # "none"
    /\ call.stage # "done" => call.result = "none"

ManagerCallsFit == \A c \in Managed : CallFits(managing[c])

TenantInv == TenantTypes /\ ManagerCallsFit

-----------------------------------------------------------------------------
OnboardingStages ==
    {"idle", "create", "resume", "assign", "lookup", "features", "reset", "subscribe", "activate",
     "activating", "audit", "record", "welcome"}
OnboardingCalls ==
    [stage : OnboardingStages, status : {"none", "pending", "active"}, initialize : BOOLEAN,
     next : Nat, alone : BOOLEAN, result : {"none", "ok", "failed", "refused"}]
Subscriptions == [plan : Plans \cup {"none"}, status : {"none", "active", "cancelled"}]

SagaTypes ==
    /\ input \in ValidInputs
    /\ mutex \in [Processes -> Callers \cup {Nobody}]
    /\ onboarding \in [Callers -> OnboardingCalls]
    /\ unit \in Units \cup {NoUnit}
    /\ subscription \in Subscriptions
    /\ audits \in Nat /\ welcomes \in Nat
    /\ \A c \in Callers : ~At(c, "idle") => onboarding[c].result = "none"

\* One call at a time in a process; calls of two processes know of each other.
Busy(c) == ~At(c, "idle")
CallsApart ==
    /\ \A c \in Callers : mutex[Process[c]] = c <=> Busy(c)
    /\ \A c, d \in Callers :
          Busy(c) /\ Busy(d) /\ Process[c] # Process[d] => ~onboarding[c].alone /\ met

\* The manager works for a call of the saga only where that call waits for it,
\* and for an administrator only once the tenant counts as touched.
ServesOf(c) ==
    \/ managing[c] = Idle
    \/ At(c, "create") /\ managing[c].kind = "Create" /\ managing[c].plan = input.plan
    \/ At(c, "activating") /\ managing[c].kind = "Activate"
ManagerServes ==
    /\ \A c \in Callers : ServesOf(c)
    /\ \A a \in Admins : managing[a].kind # "Create" /\ (~touched => managing[a] = Idle)

Placed == {"lookup", "features", "reset", "subscribe", "activate", "activating", "audit", "record",
           "welcome"}
Created == Placed \cup {"assign"}

\* A call that has found or made the subscription, and one that has found none.
Subscribed(call) ==
    \/ call.stage \in {"activate", "activating", "audit", "record", "welcome"}
    \/ call.stage = "features" /\ ~call.initialize
Initializing(call) ==
    call.stage \in {"reset", "subscribe"} \/ (call.stage = "features" /\ call.initialize)

\* What the checkpoints of the saga guarantee, whoever has taken its steps.
CheckpointsOf(c) ==
    /\ onboarding[c].stage \in Placed => unit = input.unit
    /\ onboarding[c].stage \in {"reset", "subscribe"} => features
    /\ ~touched /\ Subscribed(onboarding[c]) => subscription = NewSubscription
    /\ onboarding[c].alone /\ Initializing(onboarding[c]) => subscription = NoSubscription
Checkpoints ==
    /\ unit \in {NoUnit, input.unit}
    /\ subscription # NoSubscription => features
    /\ ~touched => subscription \in {NoSubscription, NewSubscription}
    /\ \A c \in Callers : CheckpointsOf(c)

\* The row that an untouched saga sees, and a call that meets no other.
OwnRow == tenant # NoTenant => tenant.plan = input.plan /\ tenant.status \in {"pending", "active"}
Active == tenant # NoTenant /\ tenant.status = "active"
TenancyOf(c) ==
    onboarding[c].alone /\ Busy(c) =>
      /\ onboarding[c].stage \in Created => tenant # NoTenant
      /\ onboarding[c].stage \in Created /\ onboarding[c].status = "active" => Active
      /\ onboarding[c].stage \in {"audit", "record", "welcome"} => input.skip \/ Active
      /\ At(c, "create") /\ (managing[c].stage \in {"seed", "emit"} \/ managing[c].result = "ok")
           => tenant # NoTenant
      /\ At(c, "activating") /\ (managing[c].stage = "emit" \/ managing[c].result = "ok") => Active
Tenancy == ~touched => OwnRow /\ \A c \in Callers : TenancyOf(c)

\* A row that was not seeded belongs to a creation that will say so.
Seeding ==
    tenant # NoTenant /\ ~seeded => unseeded \/ \E c \in Callers : CutOff(c)

\* The audit event and the welcome message.
TracesOf(c) ==
    /\ At(c, "record") /\ ~met => audits = 0
    /\ At(c, "welcome") => audits >= 1
Traces ==
    /\ ~met => audits <= 1
    /\ \A c \in Callers : TracesOf(c)
    /\ sent # {} => welcomes >= 1

\* The inductive invariant.
SagaInv ==
    /\ SagaTypes /\ CallsApart /\ ManagerServes /\ Checkpoints /\ Tenancy /\ Seeding /\ Traces
    /\ RetriesResume
IInv == QuotaInv /\ TenantInv /\ SagaInv

-----------------------------------------------------------------------------
(* The quotas.                                                             *)

USE DEF Dimensions

\* The meter's calls are lists of mutations of metered dimensions.
LEMMA ConsumptionMutations ==
    ASSUME NEW u \in Usages
    PROVE  /\ Consumption(u) \in Seq(Mutations)
           /\ Recording(u) \in Seq(Mutations)
<1> DEFINE use(d, n) == IF n > 0 /\ d \in Dimensions /\ Limit[d] > 0
                        THEN << Mutation(d, n, TRUE) >> ELSE << >>
           note(d, n) == IF n > 0 /\ d \in Dimensions THEN << Mutation(d, n, FALSE) >> ELSE << >>
<1>1. u.turns \in Nat /\ u.input \in Nat /\ u.output \in Nat /\ u.input + u.output \in Nat
  BY UsagesAssumption
<1>2. \A d, n : n \in Nat => use(d, n) \in Seq(Mutations) /\ note(d, n) \in Seq(Mutations)
  <2> SUFFICES ASSUME NEW d, NEW n, n \in Nat
               PROVE  use(d, n) \in Seq(Mutations) /\ note(d, n) \in Seq(Mutations)
    OBVIOUS
  <2>1. d \in Dimensions => Mutation(d, n, TRUE) \in Mutations /\ Mutation(d, n, FALSE) \in Mutations
    BY DEF Mutation, Mutations
  <2>2. \A m \in Mutations : << m >> \in Seq(Mutations)
    OBVIOUS
  <2>3. << >> \in Seq(Mutations)
    OBVIOUS
  <2> QED
    BY <2>1, <2>2, <2>3
<1>3. Consumption(u) = use("turns", u.turns) \o use("input", u.input) \o use("output", u.output)
                         \o use("total", u.input + u.output)
  BY DEF Consumption
<1>4. Recording(u) = note("turns", u.turns) \o note("input", u.input) \o note("output", u.output)
  BY DEF Recording
<1> HIDE DEF use, note
<1>5. \A s, t \in Seq(Mutations) : s \o t \in Seq(Mutations)
  OBVIOUS
<1> QED
  BY <1>1, <1>2, <1>3, <1>4, <1>5

LEMMA NoMetering ==
    /\ NotMetering \in MeterCalls
    /\ NotMetering.stage = "idle" /\ ~NotMetering.stale
  BY QuotaAttemptsAssumption DEF NotMetering, MeterCalls, Rows

LEMMA QuotaStart == QuotaInit => QuotaInv
<1> SUFFICES ASSUME QuotaInit PROVE QuotaInv
  OBVIOUS
<1>1. QuotaTypes
  BY NoMetering DEF QuotaInit, QuotaTypes, Rows
<1>2. MutationsChecked
  BY NoMetering DEF QuotaInit, MutationsChecked
<1>3. Metered
  BY LimitsAssumption, IntegerAssumption DEF QuotaInit, Metered, Value
<1> QED
  BY <1>1, <1>2, <1>3 DEF QuotaInv

\* A call begins, goes on to its next mutation, or starts one again.
Begun(left, n) == [NotMetering EXCEPT !.left = left, !.stage = "read", !.attempt = n]

LEMMA FreshCall ==
    ASSUME NEW left \in Seq(Mutations), NEW n \in 1..MaxQuotaAttempts
    PROVE  /\ Begun(left, n) \in MeterCalls
           /\ Begun(left, n).stage = "read" /\ Begun(left, n).left = left
<1> DEFINE seqs == Seq(Mutations)
           attempts == 0..MaxQuotaAttempts
<1>1. left \in seqs /\ n \in attempts
  BY QuotaAttemptsAssumption
<1>2. MeterCalls = [left : seqs, stage : {"idle", "read", "write"}, seen : Rows,
                    stale : BOOLEAN, attempt : attempts]
  BY DEF MeterCalls
<1> HIDE DEF seqs, attempts
<1> QED
  BY <1>1, <1>2, NoMetering DEF Begun

LEMMA QuotaMeter ==
    ASSUME QuotaInv, NEW c \in Consumers, NEW mutations \in Seq(Mutations), Meter(c, mutations)
    PROVE  QuotaInv'
<1> DEFINE call == Begun(mutations, 1)
<1>1. /\ mutations # << >>
      /\ metering' = [metering EXCEPT ![c] = call]
      /\ usage' = usage /\ counted' = counted /\ recorded' = recorded
  BY DEF Meter, Begun
<1>2. 1 \in 1..MaxQuotaAttempts
  BY QuotaAttemptsAssumption
<1>3. call \in MeterCalls /\ call.stage = "read" /\ call.left = mutations
  BY <1>1, <1>2, FreshCall
<1> HIDE DEF call
<1>4. QuotaTypes'
  BY <1>1, <1>3 DEF QuotaInv, QuotaTypes
<1>5. MutationsChecked'
  BY <1>1, <1>3 DEF QuotaInv, QuotaTypes, MutationsChecked, Exceeds, Value
<1>6. Metered'
  BY <1>1 DEF QuotaInv, Metered, Value
<1> QED
  BY <1>4, <1>5, <1>6 DEF QuotaInv

\* The mutation that a call under way is about.
LEMMA HeadMutation ==
    ASSUME QuotaInv, NEW c \in Consumers, metering[c].stage # "idle"
    PROVE  /\ metering[c] \in MeterCalls
           /\ metering[c].left \in Seq(Mutations) /\ metering[c].left # << >>
           /\ metering[c].left[1] \in Mutations
           /\ metering[c].left[1].dimension \in Dimensions
           /\ metering[c].left[1].amount \in Nat
           /\ usage[metering[c].left[1].dimension] \in Rows
<1>1. metering[c] \in MeterCalls
  BY DEF QuotaInv, QuotaTypes
<1>2. metering[c].left \in Seq(Mutations)
  BY <1>1 DEF MeterCalls
<1>3. metering[c].left # << >>
  BY DEF QuotaInv, MutationsChecked
<1>4. metering[c].left[1] \in Mutations
  BY <1>2, <1>3
<1> QED
  BY <1>1, <1>2, <1>3, <1>4 DEF QuotaInv, QuotaTypes, Mutations

LEMMA QuotaRead ==
    ASSUME QuotaInv, NEW c \in Consumers, ReadUsage(c)
    PROVE  QuotaInv'
<1> DEFINE m == metering[c].left[1]
           row == usage[m.dimension]
           call == IF Exceeds(m, Value(row)) THEN NotMetering
                   ELSE [metering[c] EXCEPT !.stage = "write", !.seen = row]
<1>1. /\ metering[c].stage = "read"
      /\ metering' = [metering EXCEPT ![c] = call]
      /\ usage' = usage /\ counted' = counted /\ recorded' = recorded
  BY DEF ReadUsage
<1>2. metering[c] \in MeterCalls /\ m \in Mutations /\ row \in Rows /\ metering[c].left # << >>
  BY <1>1, HeadMutation
<1>3. \/ call = NotMetering
      \/ /\ call \in MeterCalls /\ call.left = metering[c].left /\ call.seen = row
         /\ ~Exceeds(m, Value(row))
  BY <1>2 DEF MeterCalls
<1> HIDE DEF call
<1>4. QuotaTypes'
  BY <1>1, <1>3, NoMetering DEF QuotaInv, QuotaTypes
<1>5. MutationsChecked'
  <2> SUFFICES ASSUME NEW d \in Consumers
               PROVE  /\ metering'[d].stage # "idle" => metering'[d].left # << >>
                      /\ metering'[d].stage = "write" /\ ~metering'[d].stale =>
                           /\ metering'[d].seen = usage[metering'[d].left[1].dimension]
                           /\ ~Exceeds(metering'[d].left[1], Value(metering'[d].seen))
    BY <1>1 DEF MutationsChecked, Exceeds, Value
  <2>1. CASE d # c
    BY <1>1, <2>1 DEF QuotaInv, QuotaTypes, MutationsChecked
  <2>2. CASE d = c
    BY <1>1, <1>2, <1>3, <2>2, NoMetering DEF QuotaInv, QuotaTypes
  <2> QED
    BY <2>1, <2>2
<1>6. Metered'
  BY <1>1 DEF QuotaInv, Metered, Value
<1> QED
  BY <1>4, <1>5, <1>6 DEF QuotaInv

\* Outdated keeps the calls, and those it marks are no longer good.
LEMMA OutdatedCalls ==
    ASSUME QuotaTypes, NEW r
    PROVE  /\ Outdated(r) \in [Consumers -> MeterCalls]
           /\ \A d \in Consumers :
                 /\ Outdated(r)[d].left = metering[d].left
                 /\ Outdated(r)[d].stage = metering[d].stage
                 /\ Outdated(r)[d].seen = metering[d].seen
                 /\ metering[d].stage = "write" /\ ~Outdated(r)[d].stale =>
                       metering[d].left[1].dimension # r /\ ~metering[d].stale
<1> SUFFICES ASSUME NEW d \in Consumers
             PROVE  /\ Outdated(r)[d] \in MeterCalls
                    /\ Outdated(r)[d].left = metering[d].left
                    /\ Outdated(r)[d].stage = metering[d].stage
                    /\ Outdated(r)[d].seen = metering[d].seen
                    /\ metering[d].stage = "write" /\ ~Outdated(r)[d].stale =>
                          metering[d].left[1].dimension # r /\ ~metering[d].stale
  BY DEF Outdated
<1> DEFINE call == [metering[d] EXCEPT !.stale = TRUE]
           seqs == Seq(Mutations)
<1>1. metering[d] \in [left : seqs, stage : {"idle", "read", "write"}, seen : Rows,
                       stale : BOOLEAN, attempt : 0..MaxQuotaAttempts]
  BY DEF QuotaTypes, MeterCalls
<1>2. /\ call \in MeterCalls /\ call.left = metering[d].left /\ call.stage = metering[d].stage
      /\ call.seen = metering[d].seen /\ call.stale
  <2> HIDE DEF seqs
  <2>1. /\ call \in [left : seqs, stage : {"idle", "read", "write"}, seen : Rows,
                     stale : BOOLEAN, attempt : 0..MaxQuotaAttempts]
        /\ call.left = metering[d].left /\ call.stage = metering[d].stage
        /\ call.seen = metering[d].seen /\ call.stale
    BY <1>1
  <2> QED
    BY <2>1 DEF MeterCalls, seqs
<1>3. Outdated(r)[d] = IF metering[d].stage = "write" /\ metering[d].left[1].dimension = r
                       THEN call ELSE metering[d]
  BY DEF Outdated
<1> HIDE DEF call
<1> QED
  BY <1>2, <1>3 DEF QuotaTypes

\* A row changes, and every transaction that has read it is outdated.
LEMMA OthersChecked ==
    ASSUME QuotaInv, NEW r, NEW d \in Consumers, metering'[d] = Outdated(r)[d],
           \A q \in Dimensions \ {r} : usage'[q] = usage[q]
    PROVE  /\ metering'[d].stage # "idle" => metering'[d].left # << >>
           /\ metering'[d].stage = "write" /\ ~metering'[d].stale =>
                /\ metering'[d].seen = usage'[metering'[d].left[1].dimension]
                /\ ~Exceeds(metering'[d].left[1], Value(metering'[d].seen))
<1>1. QuotaTypes
  BY DEF QuotaInv
<1>2. /\ metering'[d].left = metering[d].left /\ metering'[d].stage = metering[d].stage
      /\ metering'[d].seen = metering[d].seen
      /\ metering[d].stage = "write" /\ ~metering'[d].stale =>
            metering[d].left[1].dimension # r /\ ~metering[d].stale
  BY <1>1, OutdatedCalls
<1>3. metering[d].stage # "idle" => metering[d].left[1].dimension \in Dimensions
  BY HeadMutation
<1> QED
  BY <1>2, <1>3 DEF QuotaInv, MutationsChecked

LEMMA QuotaReset ==
    ASSUME QuotaInv, NEW r, Reset(r)
    PROVE  QuotaInv'
<1>1. /\ usage' = [usage EXCEPT ![r] = NoRow]
      /\ counted' = [counted EXCEPT ![r] = 0]
      /\ recorded' = recorded \ {r}
      /\ metering' = Outdated(r)
  BY DEF Reset
<1>2. QuotaTypes'
  BY <1>1, OutdatedCalls DEF QuotaInv, QuotaTypes, Rows
<1>3. MutationsChecked'
  <2>1. \A q \in Dimensions \ {r} : usage'[q] = usage[q]
    BY <1>1 DEF QuotaInv, QuotaTypes
  <2> SUFFICES ASSUME NEW d \in Consumers
               PROVE  /\ metering'[d].stage # "idle" => metering'[d].left # << >>
                      /\ metering'[d].stage = "write" /\ ~metering'[d].stale =>
                           /\ metering'[d].seen = usage'[metering'[d].left[1].dimension]
                           /\ ~Exceeds(metering'[d].left[1], Value(metering'[d].seen))
    BY DEF MutationsChecked, Exceeds, Value
  <2> QED
    BY <1>1, <2>1, OthersChecked
<1>4. Metered'
  <2> SUFFICES ASSUME NEW q \in Dimensions
               PROVE  /\ Value(usage'[q]) = counted'[q]
                      /\ counted'[q] <= MaxInt
                      /\ q \notin recorded' => counted'[q] <= Limit[q]
    BY DEF Metered, Value
  <2>1. CASE q = r
    BY <1>1, <2>1, LimitsAssumption, IntegerAssumption DEF QuotaInv, QuotaTypes, Value
  <2>2. CASE q # r
    BY <1>1, <2>2 DEF QuotaInv, QuotaTypes, Metered
  <2> QED
    BY <2>1, <2>2
<1> QED
  BY <1>2, <1>3, <1>4 DEF QuotaInv

LEMMA NextCall ==
    ASSUME QuotaInv, NEW c \in Consumers, metering[c].stage # "idle"
    PROVE  /\ Advance(c) \in MeterCalls
           /\ Advance(c).stage # "write"
           /\ Advance(c).stage # "idle" => Advance(c).left # << >>
<1>1. metering[c].left \in Seq(Mutations) /\ metering[c].left # << >>
  BY HeadMutation
<1>2. CASE Len(metering[c].left) = 1
  BY <1>2, NoMetering DEF Advance
<1>3. CASE Len(metering[c].left) # 1
  <2> DEFINE rest == Tail(metering[c].left)
  <2>1. rest \in Seq(Mutations) /\ rest # << >>
    <3>1. \A s \in Seq(Mutations) : s # << >> /\ Len(s) # 1 =>
             Tail(s) \in Seq(Mutations) /\ Len(Tail(s)) # 0
      OBVIOUS
    <3>2. rest \in Seq(Mutations) /\ Len(rest) # 0
      BY <1>1, <1>3, <3>1
    <3>3. Len(<< >>) = 0
      OBVIOUS
    <3> QED
      BY <3>2, <3>3
  <2>2. Advance(c) = Begun(rest, 1)
    BY <1>3 DEF Advance, Begun
  <2>3. 1 \in 1..MaxQuotaAttempts
    BY QuotaAttemptsAssumption
  <2> QED
    BY <2>1, <2>2, <2>3, FreshCall
<1> QED
  BY <1>2, <1>3

LEMMA QuotaRetry ==
    ASSUME QuotaInv, NEW c \in Consumers, RetryUsage(c)
    PROVE  QuotaInv'
<1> DEFINE again == Begun(metering[c].left, metering[c].attempt + 1)
           call == IF metering[c].attempt < MaxQuotaAttempts THEN again ELSE NotMetering
<1>1. /\ metering[c].stage = "write"
      /\ metering' = [metering EXCEPT ![c] = call]
      /\ usage' = usage /\ counted' = counted /\ recorded' = recorded
  BY DEF RetryUsage, Begun
<1>2. metering[c] \in MeterCalls /\ metering[c].left \in Seq(Mutations) /\ metering[c].left # << >>
  BY <1>1, HeadMutation
<1>3. metering[c].attempt \in 0..MaxQuotaAttempts
  BY <1>2 DEF MeterCalls
<1>4. metering[c].attempt < MaxQuotaAttempts =>
         metering[c].attempt + 1 \in 1..MaxQuotaAttempts
  BY <1>3, QuotaAttemptsAssumption
<1>5. /\ call \in MeterCalls /\ call.stage # "write"
      /\ call.stage # "idle" => call.left # << >>
  BY <1>2, <1>4, FreshCall, NoMetering
<1> HIDE DEF call
<1>6. QuotaTypes'
  BY <1>1, <1>5 DEF QuotaInv, QuotaTypes
<1>7. MutationsChecked'
  BY <1>1, <1>5 DEF QuotaInv, QuotaTypes, MutationsChecked, Exceeds, Value
<1>8. Metered'
  BY <1>1 DEF QuotaInv, Metered, Value
<1> QED
  BY <1>6, <1>7, <1>8 DEF QuotaInv

LEMMA QuotaWrite ==
    ASSUME QuotaInv, NEW c \in Consumers, WriteUsage(c)
    PROVE  /\ QuotaInv'
           /\ \A r \in Dimensions : Value(usage'[r]) >= Value(usage[r])
<1> DEFINE m == metering[c].left[1]
           r == m.dimension
           used == Value(usage[r])
<1>1. PICK next \in {Advance(c), NotMetering} :
        /\ metering[c].stage = "write" /\ ~metering[c].stale
        /\ usage' = [usage EXCEPT ![r] = Value(metering[c].seen) + m.amount]
        /\ counted' = [counted EXCEPT ![r] = counted[r] + m.amount]
        /\ recorded' = IF m.limited THEN recorded ELSE recorded \cup {r}
        /\ metering' = [Outdated(r) EXCEPT ![c] = next]
  BY DEF WriteUsage
<1>2. r \in Dimensions /\ m.amount \in Nat /\ usage[r] \in Rows /\ m \in Mutations
  BY <1>1, HeadMutation
<1>3. /\ metering[c].seen = usage[r] /\ ~Exceeds(m, used)
  BY <1>1 DEF QuotaInv, MutationsChecked
<1>4. used \in 0..MaxInt /\ used = counted[r] /\ Limit[r] \in 0..MaxInt
  BY <1>2, IntegerAssumption, LimitsAssumption DEF Value, Rows, QuotaInv, Metered
<1>5. /\ used + m.amount \in 0..MaxInt
      /\ m.limited => used + m.amount <= Limit[r]
  BY <1>2, <1>3, <1>4, IntegerAssumption DEF Exceeds
<1>6. Value(used + m.amount) = used + m.amount
  BY <1>5, IntegerAssumption DEF Value
<1>7. usage' = [usage EXCEPT ![r] = used + m.amount] /\ counted' = [counted EXCEPT ![r] = used + m.amount]
  BY <1>1, <1>3, <1>4
<1>8. /\ next \in MeterCalls /\ next.stage # "write"
      /\ next.stage # "idle" => next.left # << >>
  BY <1>1, NextCall, NoMetering
<1> DEFINE sum == used + m.amount
<1>9. sum \in 0..MaxInt /\ Value(sum) = sum /\ sum >= used /\ (m.limited => sum <= Limit[r]) /\ sum \in Nat
  BY <1>2, <1>4, <1>5, <1>6, IntegerAssumption
<1> HIDE DEF sum
<1>10. usage' = [usage EXCEPT ![r] = sum] /\ counted' = [counted EXCEPT ![r] = sum]
  BY <1>7 DEF sum
<1>11. QuotaTypes'
  BY <1>1, <1>2, <1>8, <1>9, <1>10, OutdatedCalls DEF QuotaInv, QuotaTypes, Rows
<1>12. MutationsChecked'
  <2>1. \A q \in Dimensions \ {r} : usage'[q] = usage[q]
    BY <1>10 DEF QuotaInv, QuotaTypes
  <2> SUFFICES ASSUME NEW d \in Consumers
               PROVE  /\ metering'[d].stage # "idle" => metering'[d].left # << >>
                      /\ metering'[d].stage = "write" /\ ~metering'[d].stale =>
                           /\ metering'[d].seen = usage'[metering'[d].left[1].dimension]
                           /\ ~Exceeds(metering'[d].left[1], Value(metering'[d].seen))
    BY DEF MutationsChecked, Exceeds, Value
  <2>2. CASE d = c
    <3>1. metering'[c] = next
      BY <1>1, OutdatedCalls DEF QuotaInv
    <3> QED
      BY <1>8, <2>2, <3>1
  <2>3. CASE d # c
    <3>1. metering'[d] = Outdated(r)[d]
      BY <1>1, <2>3, OutdatedCalls DEF QuotaInv
    <3> HIDE DEF r
    <3> QED
      BY <2>1, <3>1, OthersChecked
  <2> QED
    BY <2>2, <2>3
<1>13. ASSUME NEW q \in Dimensions
       PROVE  /\ Value(usage'[q]) = counted'[q]
              /\ counted'[q] <= MaxInt
              /\ q \notin recorded' => counted'[q] <= Limit[q]
              /\ Value(usage'[q]) >= Value(usage[q])
  <2>1. CASE q = r
    <3>1. usage'[q] = sum /\ counted'[q] = sum
      BY <1>2, <1>10, <2>1 DEF QuotaInv, QuotaTypes
    <3>2. sum <= MaxInt
      BY <1>9, IntegerAssumption
    <3> QED
      BY <1>1, <1>4, <1>9, <2>1, <3>1, <3>2
  <2>2. CASE q # r
    <3>1. usage'[q] = usage[q] /\ counted'[q] = counted[q]
      BY <1>10, <2>2 DEF QuotaInv, QuotaTypes
    <3>2. q \notin recorded' => q \notin recorded
      BY <1>1
    <3>3. Value(usage[q]) = counted[q] /\ counted[q] \in Nat
      BY DEF QuotaInv, QuotaTypes, Metered
    <3> QED
      BY <3>1, <3>2, <3>3 DEF QuotaInv, Metered
  <2> QED
    BY <2>1, <2>2
<1>14. Metered'
  BY <1>13 DEF Metered, Value
<1> QED
  BY <1>11, <1>12, <1>13, <1>14 DEF QuotaInv

\* The steps that do not look at the quotas.
LEMMA QuotaKept ==
    ASSUME QuotaInv, UNCHANGED quotaVars
    PROVE  QuotaInv'
  BY DEF QuotaInv, QuotaTypes, MutationsChecked, Metered, Exceeds, Value, quotaVars

-----------------------------------------------------------------------------
(* The tenant manager.                                                     *)

LEMMA IdleCall ==
    /\ Idle \in ManagerCalls
    /\ Idle.stage = "idle" /\ Idle.kind = "none" /\ Idle.result = "none"
  BY SwapsAssumption DEF Idle, ManagerCalls, Kinds, ManagerStages, ManagerResults

LEMMA ManagingCall ==
    ASSUME NEW kind \in Kinds, NEW plan \in Plans \cup {NoTenant}
    PROVE  /\ Managing(kind, plan) \in ManagerCalls
           /\ Managing(kind, plan).kind = kind /\ Managing(kind, plan).plan = plan
           /\ Managing(kind, plan).result = "none"
           /\ Managing(kind, plan).stage = IF kind = "Create" THEN "create" ELSE "get"
<1> DEFINE stage == IF kind = "Create" THEN "create" ELSE "get"
<1>1. stage \in ManagerStages /\ 1 \in 0..MaxSwaps
  BY SwapsAssumption DEF ManagerStages
<1>2. Managing(kind, plan) = [Idle EXCEPT !.kind = kind, !.plan = plan, !.attempt = 1, !.stage = stage]
  BY DEF Managing
<1> HIDE DEF stage
<1>3. /\ Managing(kind, plan) \in ManagerCalls
      /\ Managing(kind, plan).kind = kind /\ Managing(kind, plan).plan = plan
      /\ Managing(kind, plan).result = "none"
      /\ Managing(kind, plan).stage = stage
  BY <1>1, <1>2, IdleCall DEF ManagerCalls
<1> QED
  BY <1>3 DEF stage

\* A step of the manager for c: its call keeps its kind and its plan, and the
\* other calls stay as they are.
Served(c, stage, result) ==
    /\ managing' \in [Managed -> ManagerCalls]
    /\ managing[c].stage # "idle"
    /\ managing'[c].stage = stage /\ managing'[c].result = result
    /\ managing'[c].kind = managing[c].kind /\ managing'[c].plan = managing[c].plan
    /\ \A d \in Managed \ {c} : managing'[d] = managing[d]

LEMMA EndsCall ==
    ASSUME TenantTypes, NEW c \in Managed, NEW result \in ManagerResults,
           managing[c].stage # "idle", Ends(c, result)
    PROVE  Served(c, "done", result)
<1> DEFINE call == [managing[c] EXCEPT !.stage = "done", !.result = result]
<1>1. managing[c] \in ManagerCalls
  BY DEF TenantTypes
<1>2. /\ call \in ManagerCalls /\ call.stage = "done" /\ call.result = result
      /\ call.kind = managing[c].kind /\ call.plan = managing[c].plan
  BY <1>1 DEF ManagerCalls, ManagerStages
<1>3. managing' = [managing EXCEPT ![c] = call]
  BY DEF Ends, TenantTypes
<1> HIDE DEF call
<1> QED
  BY <1>2, <1>3 DEF Served, TenantTypes

LEMMA GoesCall ==
    ASSUME TenantTypes, NEW c \in Managed, NEW stage \in ManagerStages,
           managing[c].stage # "idle", Goes(c, stage)
    PROVE  Served(c, stage, managing[c].result)
<1> DEFINE call == [managing[c] EXCEPT !.stage = stage]
<1>1. managing[c] \in ManagerCalls
  BY DEF TenantTypes
<1>2. /\ call \in ManagerCalls /\ call.stage = stage /\ call.result = managing[c].result
      /\ call.kind = managing[c].kind /\ call.plan = managing[c].plan
  BY <1>1 DEF ManagerCalls
<1>3. managing' = [managing EXCEPT ![c] = call]
  BY DEF Goes, TenantTypes
<1> HIDE DEF call
<1> QED
  BY <1>2, <1>3 DEF Served, TenantTypes

\* What a swap makes of a row that allows the change.
LEMMA ChangedRow ==
    ASSUME NEW call \in ManagerCalls, NEW row \in Tenants, call.kind \in Changes,
           Allowed(call.kind, row), call.kind = "Update" => call.plan \in Plans
    PROVE  /\ Changed(call, row) \in Tenants
           /\ call.kind = "Activate" =>
                 Changed(call, row).status = "active" /\ Changed(call, row).plan = row.plan
<1>1. CASE call.kind = "Update"
  BY <1>1 DEF Changed, Tenants
<1>2. CASE call.kind # "Update"
  <2> DEFINE s == CHOOSE s \in Statuses : <<row.status, s>> \in Transitions[call.kind]
  <2>1. call.kind # "HardDelete"
    BY DEF Changes
  <2>2. \E next \in Statuses : <<row.status, next>> \in Transitions[call.kind]
    BY <1>2, <2>1 DEF Allowed
  <2>3. s \in Statuses /\ <<row.status, s>> \in Transitions[call.kind]
    BY <2>2
  <2>4. call.kind = "Activate" => s = "active"
    <3> SUFFICES ASSUME call.kind = "Activate" PROVE s = "active"
      OBVIOUS
    <3>1. Transitions[call.kind] = {<<"pending", "active">>}
      BY DEF Transitions
    <3> HIDE DEF s
    <3> QED
      BY <2>3, <3>1
  <2>5. Changed(call, row) = [row EXCEPT !.status = s]
    BY <1>2 DEF Changed
  <2> HIDE DEF s
  <2> QED
    BY <2>3, <2>4, <2>5 DEF Tenants
<1> QED
  BY <1>1, <1>2

\* What a step of the manager does to the row.
RowCreated(c) ==
    /\ managing[c].kind = "Create" /\ tenant = NoTenant
    /\ tenant' \in Tenants /\ tenant'.status = "pending" /\ tenant'.plan = managing[c].plan
    /\ seeded' = FALSE
    /\ Served(c, "seed", "none") \/ Served(c, "done", "lost")
RowSeeded(c) ==
    /\ managing[c].kind = "Create" /\ managing[c].stage = "seed"
    /\ tenant' = tenant
    /\ \/ seeded' = TRUE /\ Served(c, "emit", "none")
       \/ seeded' = seeded /\ Served(c, "rollback", "none")
RowTakenBack(c) ==
    /\ managing[c].kind = "Create" /\ managing[c].stage = "rollback"
    /\ tenant' \in {tenant, NoTenant} /\ seeded' = seeded
    /\ \/ Served(c, "done", "partial")
       \/ tenant' = NoTenant /\ Served(c, "done", "failed")
RowChanged(c) ==
    /\ managing[c].kind \in Changes /\ managing[c].stage = "swap"
    /\ tenant \in Tenants /\ tenant' \in Tenants /\ seeded' = seeded
    /\ managing[c].kind = "Activate" => tenant'.status = "active" /\ tenant'.plan = tenant.plan
    /\ Served(c, "emit", "none") \/ Served(c, "done", "lost")
RowDeleted(c) ==
    /\ managing[c].kind = "HardDelete" /\ tenant' = NoTenant /\ seeded' = seeded
    /\ \E result \in ManagerResults : Served(c, "done", result)
RowKept(c) ==
    /\ tenant' = tenant /\ seeded' = seeded
    /\ managing[c].stage \notin {"seed", "rollback", "done"}
    /\ \/ \E result \in ManagerResults \ {"ok"} : Served(c, "done", result)
       \/ managing[c].stage = "emit" /\ Served(c, "done", "ok")
       \/ managing[c].stage # "emit" /\ managing[c].kind \in Changes \cup {"HardDelete"} /\ Served(c, "get", "none")
       \/ managing[c].kind \in Changes /\ Served(c, "swap", "none")
              /\ managing'[c].seen # NoTenant /\ Allowed(managing[c].kind, managing'[c].seen)
       \/ managing[c].kind = "HardDelete" /\ (Served(c, "emit", "none") \/ Served(c, "delete", "none"))

LEMMA CreateEffect ==
    ASSUME TenantInv, NEW c \in Managed, StoreCreate(c) \/ Seed(c) \/ Rollback(c)
    PROVE  RowCreated(c) \/ RowSeeded(c) \/ RowTakenBack(c) \/ RowKept(c)
<1> USE DEF ManagerResults, ManagerStages
<1>1. TenantTypes /\ managing[c].kind \in {"Create", "Update"} => managing[c].plan \in Plans
  BY DEF TenantInv, ManagerCallsFit, CallFits
<1>2. managing[c].stage # "done" => managing[c].result = "none"
  BY DEF TenantInv, ManagerCallsFit, CallFits
<1>3. TenantTypes
  BY DEF TenantInv
<1>4. managing[c].stage \in {"create", "seed", "rollback"} => managing[c].kind = "Create"
  BY DEF TenantInv, ManagerCallsFit, CallFits
<1>5. CASE StoreCreate(c) /\ tenant = NoTenant
  <2>1. /\ managing[c].stage = "create" /\ Goes(c, "seed") /\ seeded' = FALSE
        /\ tenant' = [status |-> "pending", plan |-> managing[c].plan]
    BY <1>5 DEF StoreCreate
  <2>2. Served(c, "seed", "none")
    BY <1>2, <1>3, <2>1, GoesCall
  <2>3. tenant' \in Tenants /\ tenant'.status = "pending" /\ tenant'.plan = managing[c].plan
    BY <1>1, <1>3, <1>4, <2>1 DEF Tenants, Statuses
  <2> QED
    BY <1>4, <1>5, <2>1, <2>2, <2>3 DEF RowCreated
<1>6. CASE StoreCreate(c) /\ tenant # NoTenant
  <2>1. managing[c].stage = "create" /\ Ends(c, "exists") /\ tenant' = tenant /\ seeded' = seeded
    BY <1>6 DEF StoreCreate
  <2>2. Served(c, "done", "exists")
    BY <1>3, <2>1, EndsCall
  <2> QED
    BY <2>1, <2>2 DEF RowKept
<1>7. CASE Seed(c)
  <2>1. /\ managing[c].stage = "seed" /\ tenant' = tenant
        /\ \/ seeded' = TRUE /\ Goes(c, "emit")
           \/ seeded' = seeded /\ Goes(c, "rollback")
    BY <1>7 DEF Seed
  <2>2. Goes(c, "emit") => Served(c, "emit", "none")
    BY <1>2, <1>3, <2>1, GoesCall
  <2>3. Goes(c, "rollback") => Served(c, "rollback", "none")
    BY <1>2, <1>3, <2>1, GoesCall
  <2> QED
    BY <1>4, <2>1, <2>2, <2>3 DEF RowSeeded
<1>8. CASE Rollback(c)
  <2>1. /\ managing[c].stage = "rollback" /\ seeded' = seeded
        /\ \/ tenant' = NoTenant /\ Ends(c, "failed")
           \/ tenant' \in {tenant, NoTenant} /\ Ends(c, "partial")
    BY <1>8 DEF Rollback
  <2>2. Ends(c, "failed") => Served(c, "done", "failed")
    BY <1>3, <2>1, EndsCall
  <2>3. Ends(c, "partial") => Served(c, "done", "partial")
    BY <1>3, <2>1, EndsCall
  <2> QED
    BY <1>4, <2>1, <2>2, <2>3 DEF RowTakenBack
<1> QED
  BY <1>5, <1>6, <1>7, <1>8

LEMMA ChangeEffect ==
    ASSUME TenantInv, NEW c \in Managed, StoreGet(c) \/ StoreSwap(c)
    PROVE  RowChanged(c) \/ RowKept(c)
<1> USE DEF ManagerResults, ManagerStages
<1>1. TenantTypes /\ managing[c] \in ManagerCalls
  BY DEF TenantInv, TenantTypes
<1>2. managing[c].stage # "done" => managing[c].result = "none"
  BY DEF TenantInv, ManagerCallsFit, CallFits
<1>3. managing[c].stage \in {"get", "swap"} => managing[c].kind \in Changes \cup {"HardDelete"}
  BY DEF TenantInv, ManagerCallsFit, CallFits
<1>4. managing[c].stage = "swap" =>
         /\ managing[c].kind \in Changes /\ managing[c].seen # NoTenant
         /\ Allowed(managing[c].kind, managing[c].seen)
         /\ managing[c].kind = "Update" => managing[c].plan \in Plans
  BY DEF TenantInv, ManagerCallsFit, CallFits
<1>5. CASE StoreGet(c)
  <2>1. managing[c].stage = "get" /\ tenant' = tenant /\ seeded' = seeded
    BY <1>5 DEF StoreGet
  <2>2. CASE tenant = NoTenant \/ ~Allowed(managing[c].kind, tenant)
    <3>1. PICK result \in ManagerResults \ {"ok"} : Ends(c, result)
      BY <1>5, <2>2 DEF StoreGet
    <3>2. Served(c, "done", result)
      BY <1>1, <2>1, <3>1, EndsCall
    <3> QED
      BY <2>1, <3>2 DEF RowKept
  <2>3. CASE ~(tenant = NoTenant \/ ~Allowed(managing[c].kind, tenant))
    <3> DEFINE stage == IF managing[c].kind = "HardDelete" THEN "emit" ELSE "swap"
               call == [managing[c] EXCEPT !.stage = stage, !.seen = tenant]
    <3>1. managing' = [managing EXCEPT ![c].stage = stage, ![c].seen = tenant]
      BY <1>5, <2>3 DEF StoreGet
    <3>2. stage \in ManagerStages
      OBVIOUS
    <3> HIDE DEF stage
    <3>3. managing' = [managing EXCEPT ![c] = call]
      BY <1>1, <3>1 DEF TenantTypes
    <3>4. /\ call \in ManagerCalls /\ call.stage = stage /\ call.seen = tenant
          /\ call.kind = managing[c].kind /\ call.plan = managing[c].plan
          /\ call.result = managing[c].result
      BY <1>1, <3>2 DEF ManagerCalls, TenantTypes
    <3> HIDE DEF call
    <3>5. Served(c, stage, "none") /\ managing'[c].seen = tenant
      BY <1>1, <1>2, <2>1, <3>3, <3>4 DEF Served, TenantTypes
    <3> QED
      BY <1>3, <2>1, <2>3, <3>5 DEF RowKept, stage
  <2> QED
    BY <2>2, <2>3
<1>6. CASE StoreSwap(c)
  <2>1. PICK answer \in CompareAndSwap(managing[c].seen) :
          /\ managing[c].stage = "swap" /\ seeded' = seeded
          /\ tenant' = IF answer = "swapped" THEN Changed(managing[c], tenant) ELSE tenant
          /\ CASE answer = "swapped" -> Goes(c, "emit")
               [] answer = "conflict" /\ managing[c].attempt < MaxSwaps ->
                    managing' = [managing EXCEPT ![c].stage = "get", ![c].attempt = @ + 1]
               [] OTHER -> Ends(c, answer)
    BY <1>6 DEF StoreSwap
  <2>2. CASE answer = "swapped"
    <3>1. tenant # NoTenant /\ tenant = managing[c].seen
      <4>1. managing[c].seen # NoTenant
        BY <1>4, <2>1
      <4>2. CASE tenant = NoTenant
        BY <2>1, <2>2, <4>1, <4>2 DEF CompareAndSwap
      <4>3. CASE tenant # NoTenant
        BY <2>1, <2>2, <4>1, <4>3 DEF CompareAndSwap
      <4> QED
        BY <4>2, <4>3
    <3>2. tenant \in Tenants
      BY <1>1, <3>1 DEF TenantTypes
    <3>3. tenant' = Changed(managing[c], tenant) /\ Goes(c, "emit")
      BY <2>1, <2>2
    <3>4. Served(c, "emit", "none")
      BY <1>1, <1>2, <2>1, <3>3, GoesCall
    <3>5. /\ tenant' \in Tenants
          /\ managing[c].kind = "Activate" => tenant'.status = "active" /\ tenant'.plan = tenant.plan
      BY <1>1, <1>4, <2>1, <3>1, <3>2, <3>3, ChangedRow
    <3> QED
      BY <1>4, <2>1, <3>2, <3>4, <3>5 DEF RowChanged
  <2>3. CASE answer = "conflict" /\ managing[c].attempt < MaxSwaps
    <3> DEFINE call == [managing[c] EXCEPT !.stage = "get", !.attempt = managing[c].attempt + 1]
    <3>1. managing' = [managing EXCEPT ![c].stage = "get", ![c].attempt = @ + 1]
      BY <2>1, <2>3
    <3>2. managing' = [managing EXCEPT ![c] = call]
      BY <1>1, <3>1 DEF TenantTypes
    <3>3. managing[c].attempt + 1 \in 0..MaxSwaps
      BY <1>1, <2>3, SwapsAssumption DEF ManagerCalls
    <3>4. /\ call \in ManagerCalls /\ call.stage = "get"
          /\ call.kind = managing[c].kind /\ call.plan = managing[c].plan
          /\ call.result = managing[c].result
      BY <1>1, <3>3 DEF ManagerCalls
    <3> HIDE DEF call
    <3>5. Served(c, "get", "none")
      BY <1>1, <1>2, <2>1, <3>2, <3>4 DEF Served, TenantTypes
    <3> QED
      BY <1>3, <2>1, <2>3, <3>5 DEF RowKept
  <2>4. CASE answer # "swapped" /\ ~(answer = "conflict" /\ managing[c].attempt < MaxSwaps)
    <3>1. Ends(c, answer) /\ tenant' = tenant
      BY <2>1, <2>4
    <3>2. answer \in ManagerResults \ {"ok"}
      BY <2>1, <2>4 DEF CompareAndSwap
    <3>3. Served(c, "done", answer)
      BY <1>1, <2>1, <3>1, <3>2, EndsCall
    <3> QED
      BY <2>1, <3>1, <3>2, <3>3 DEF RowKept
  <2> QED
    BY <2>2, <2>3, <2>4
<1> QED
  BY <1>5, <1>6

LEMMA EndEffect ==
    ASSUME TenantInv, NEW c \in Managed, Emit(c) \/ StoreDelete(c)
    PROVE  RowDeleted(c) \/ RowKept(c)
<1> USE DEF ManagerResults, ManagerStages
<1>1. TenantTypes
  BY DEF TenantInv
<1>2. managing[c].stage # "done" => managing[c].result = "none"
  BY DEF TenantInv, ManagerCallsFit, CallFits
<1>3. managing[c].stage = "delete" => managing[c].kind = "HardDelete"
  BY DEF TenantInv, ManagerCallsFit, CallFits
<1>4. CASE Emit(c)
  <2>1. /\ managing[c].stage = "emit" /\ tenant' = tenant /\ seeded' = seeded
        /\ \/ managing[c].kind = "HardDelete" /\ Goes(c, "delete")
           \/ Ends(c, "ok")
           \/ Ends(c, "partial")
           \/ Ends(c, "failed")
    BY <1>4 DEF Emit
  <2>2. Goes(c, "delete") => Served(c, "delete", "none")
    BY <1>1, <1>2, <2>1, GoesCall
  <2>3. \A result \in ManagerResults : Ends(c, result) => Served(c, "done", result)
    BY <1>1, <2>1, EndsCall
  <2> QED
    BY <2>1, <2>2, <2>3 DEF RowKept
<1>5. CASE StoreDelete(c)
  <2>1. /\ managing[c].stage = "delete" /\ tenant' = NoTenant /\ seeded' = seeded
        /\ Ends(c, "not_found") \/ Ends(c, "ok")
    BY <1>5 DEF StoreDelete
  <2>2. \A result \in ManagerResults : Ends(c, result) => Served(c, "done", result)
    BY <1>1, <2>1, EndsCall
  <2> QED
    BY <1>3, <2>1, <2>2 DEF RowDeleted
<1> QED
  BY <1>4, <1>5

LEMMA ErrorEffect ==
    ASSUME TenantInv, NEW c \in Managed, StoreError(c)
    PROVE  RowCreated(c) \/ RowChanged(c) \/ RowDeleted(c) \/ RowKept(c)
<1> USE DEF ManagerResults, ManagerStages
<1>1. TenantTypes /\ managing[c] \in ManagerCalls
  BY DEF TenantInv, TenantTypes
<1>2. /\ managing[c].kind \in {"Create", "Update"} => managing[c].plan \in Plans
      /\ managing[c].stage = "create" => managing[c].kind = "Create"
      /\ managing[c].stage = "delete" => managing[c].kind = "HardDelete"
      /\ managing[c].stage = "swap" =>
           /\ managing[c].kind \in Changes /\ managing[c].seen # NoTenant
           /\ Allowed(managing[c].kind, managing[c].seen)
  BY DEF TenantInv, ManagerCallsFit, CallFits
<1>3. managing[c].stage \in {"create", "get", "swap", "delete"}
  BY DEF StoreError
<1>4. \A result \in ManagerResults : Ends(c, result) => Served(c, "done", result)
  BY <1>1, <1>3, EndsCall
<1>5. CASE tenant' = tenant /\ seeded' = seeded /\ Ends(c, "failed")
  BY <1>3, <1>4, <1>5 DEF RowKept
<1>6. CASE /\ managing[c].stage = "create" /\ tenant = NoTenant /\ seeded' = FALSE
           /\ tenant' = [status |-> "pending", plan |-> managing[c].plan]
           /\ Ends(c, "lost")
  <2>1. tenant' \in Tenants /\ tenant'.status = "pending" /\ tenant'.plan = managing[c].plan
    BY <1>2, <1>6 DEF Tenants, Statuses
  <2> QED
    BY <1>2, <1>4, <1>6, <2>1 DEF RowCreated
<1>7. CASE /\ managing[c].stage = "swap" /\ tenant = managing[c].seen /\ seeded' = seeded
           /\ tenant' = Changed(managing[c], tenant)
           /\ Ends(c, "lost")
  <2>1. tenant \in Tenants
    BY <1>1, <1>2, <1>7 DEF TenantTypes
  <2>2. /\ tenant' \in Tenants
        /\ managing[c].kind = "Activate" => tenant'.status = "active" /\ tenant'.plan = tenant.plan
    BY <1>1, <1>2, <1>7, <2>1, ChangedRow
  <2> QED
    BY <1>2, <1>4, <1>7, <2>1, <2>2 DEF RowChanged
<1>8. CASE managing[c].stage = "delete" /\ tenant' = NoTenant /\ seeded' = seeded /\ Ends(c, "lost")
  BY <1>2, <1>4, <1>8 DEF RowDeleted
<1> QED
  BY <1>5, <1>6, <1>7, <1>8 DEF StoreError

LEMMA ManagerEffect ==
    ASSUME TenantInv, NEW c \in Managed, ManagerStep(c)
    PROVE  \/ RowCreated(c) \/ RowSeeded(c) \/ RowTakenBack(c)
           \/ RowChanged(c) \/ RowDeleted(c) \/ RowKept(c)
  BY CreateEffect, ChangeEffect, EndEffect, ErrorEffect DEF ManagerStep

LEMMA TenantServed ==
    ASSUME TenantInv, NEW c \in Managed, ManagerStep(c)
    PROVE  /\ TenantInv'
           /\ \E stage \in ManagerStages, result \in ManagerResults : Served(c, stage, result)
<1> USE DEF ManagerResults, ManagerStages
<1>1. /\ TenantTypes /\ managing[c] \in ManagerCalls
      /\ managing[c].kind \in {"Create", "Update"} => managing[c].plan \in Plans
  BY DEF TenantInv, TenantTypes, ManagerCallsFit, CallFits
<1>2. ASSUME NEW stage \in ManagerStages, NEW result \in ManagerResults, Served(c, stage, result),
             stage # "done" => result = "none",
             stage \in {"create", "seed", "rollback"} => managing[c].kind = "Create",
             stage \in {"get", "delete"} => managing[c].kind \in Changes \cup {"HardDelete"},
             stage = "delete" => managing[c].kind = "HardDelete",
             stage = "emit" => managing[c].kind # "none",
             stage = "swap" => /\ managing[c].kind \in Changes
                               /\ managing'[c].seen # NoTenant
                               /\ Allowed(managing[c].kind, managing'[c].seen),
             tenant' \in Tenants \cup {NoTenant}, seeded' \in BOOLEAN
      PROVE  TenantInv'
  <2>1. CallFits(managing'[c])
    BY <1>1, <1>2 DEF Served, CallFits
  <2>2. \A d \in Managed : CallFits(managing'[d])
    BY <1>2, <2>1 DEF Served, TenantInv, ManagerCallsFit
  <2> QED
    BY <1>2, <2>2 DEF Served, TenantInv, TenantTypes, ManagerCallsFit, CallFits, Allowed
<1>3. CASE RowCreated(c)
  BY <1>2, <1>3 DEF RowCreated
<1>4. CASE RowSeeded(c)
  BY <1>1, <1>2, <1>4 DEF RowSeeded, TenantTypes
<1>5. CASE RowTakenBack(c)
  BY <1>1, <1>2, <1>5 DEF RowTakenBack, TenantTypes
<1>6. CASE RowChanged(c)
  BY <1>1, <1>2, <1>6 DEF RowChanged, TenantTypes, Changes
<1>7. CASE RowDeleted(c)
  BY <1>1, <1>2, <1>7 DEF RowDeleted, TenantTypes
<1>8. CASE RowKept(c)
  <2>1. tenant' \in Tenants \cup {NoTenant} /\ seeded' \in BOOLEAN
    BY <1>1, <1>8 DEF RowKept, TenantTypes
  <2>2. CASE \E result \in ManagerResults : Served(c, "done", result)
    BY <1>2, <2>1, <2>2
  <2>3. CASE managing[c].kind \in Changes \cup {"HardDelete"} /\ Served(c, "get", "none")
    BY <1>2, <2>1, <2>3
  <2>4. CASE managing[c].kind \in Changes /\ Served(c, "swap", "none")
              /\ managing'[c].seen # NoTenant /\ Allowed(managing[c].kind, managing'[c].seen)
    BY <1>2, <2>1, <2>4
  <2>5. CASE managing[c].kind = "HardDelete" /\ (Served(c, "emit", "none") \/ Served(c, "delete", "none"))
    BY <1>2, <2>1, <2>5
  <2> QED
    BY <1>8, <2>2, <2>3, <2>4, <2>5 DEF RowKept
<1> QED
  BY <1>3, <1>4, <1>5, <1>6, <1>7, <1>8, ManagerEffect

\* The steps that do not look at the tenant.
LEMMA TenantKept ==
    ASSUME TenantInv, UNCHANGED tenantVars
    PROVE  TenantInv'
  BY DEF TenantInv, TenantTypes, ManagerCallsFit, CallFits, Allowed, tenantVars

\* A call of the manager begins or its result is taken.
LEMMA TenantCalled ==
    ASSUME TenantInv, UNCHANGED <<tenant, seeded>>, NEW c \in Managed, NEW call \in ManagerCalls,
           CallFits(call), managing' = [managing EXCEPT ![c] = call]
    PROVE  TenantInv'
<1>1. \A d \in Managed : CallFits(managing'[d])
  BY DEF TenantInv, TenantTypes, ManagerCallsFit
<1> QED
  BY <1>1 DEF TenantInv, TenantTypes, ManagerCallsFit, CallFits, Allowed

-----------------------------------------------------------------------------
(* The saga: how a call goes on and how it returns.                        *)

LEMMA NoOnboarding ==
    /\ NotOnboarding \in OnboardingCalls
    /\ NotOnboarding.stage = "idle" /\ NotOnboarding.result = "none"
    /\ NotOnboarding.alone /\ NotOnboarding.status = "none"
  BY DEF NotOnboarding, OnboardingCalls, OnboardingStages

\* Without another process in sight a call is the only one.
LEMMA OnlyCall ==
    ASSUME CallsApart, NEW c \in Callers, NEW d \in Callers, Busy(c), Busy(d),
           onboarding[c].alone \/ ~met
    PROVE  d = c
  BY DEF CallsApart

Continues(c) ==
    /\ Busy(c)
    /\ onboarding' \in [Callers -> OnboardingCalls]
    /\ onboarding'[c].stage # "idle"
    /\ onboarding'[c].alone = onboarding[c].alone /\ onboarding'[c].result = onboarding[c].result
    /\ \A d \in Callers \ {c} : onboarding'[d] = onboarding[d]
    /\ mutex' = mutex

Ended(c, result) ==
    /\ Busy(c)
    /\ onboarding' \in [Callers -> OnboardingCalls]
    /\ onboarding'[c].stage = "idle" /\ onboarding'[c].result = result
    /\ \A d \in Callers \ {c} : onboarding'[d] = onboarding[d]
    /\ mutex' = [mutex EXCEPT ![Process[c]] = Nobody]

LEMMA EnterContinues ==
    ASSUME SagaTypes, NEW c \in Callers, NEW stage \in OnboardingStages \ {"idle"}, Busy(c),
           Enter(c, stage), mutex' = mutex
    PROVE  /\ Continues(c) /\ onboarding'[c].stage = stage
           /\ onboarding'[c].status = onboarding[c].status
           /\ onboarding'[c].initialize = onboarding[c].initialize
<1> DEFINE call == [onboarding[c] EXCEPT !.stage = stage]
<1>1. onboarding[c] \in OnboardingCalls
  BY DEF SagaTypes
<1>2. /\ call \in OnboardingCalls /\ call.stage = stage /\ call.status = onboarding[c].status
      /\ call.initialize = onboarding[c].initialize
      /\ call.alone = onboarding[c].alone /\ call.result = onboarding[c].result
  BY <1>1 DEF OnboardingCalls
<1>3. onboarding' = [onboarding EXCEPT ![c] = call]
  BY DEF Enter, SagaTypes
<1> HIDE DEF call
<1> QED
  BY <1>2, <1>3 DEF Continues, SagaTypes

LEMMA ReturnsEnded ==
    ASSUME SagaTypes, NEW c \in Callers, NEW result \in {"ok", "failed", "refused"}, Busy(c),
           Returns(c, result)
    PROVE  Ended(c, result)
<1> DEFINE call == [NotOnboarding EXCEPT !.result = result]
<1>1. call \in OnboardingCalls /\ call.stage = "idle" /\ call.result = result
  BY NoOnboarding DEF OnboardingCalls
<1>2. onboarding' = [onboarding EXCEPT ![c] = call] /\ mutex' = [mutex EXCEPT ![Process[c]] = Nobody]
  BY DEF Returns
<1> HIDE DEF call
<1> QED
  BY <1>1, <1>2 DEF Ended, SagaTypes

\* A step of one call keeps the calls apart.
LEMMA StepsApart ==
    ASSUME SagaTypes, CallsApart, NEW c \in Callers, met' = met,
           Continues(c) \/ \E result : Ended(c, result)
    PROVE  CallsApart'
<1>1. Process[c] \in Processes /\ \A d \in Callers : Process[d] \in Processes
  BY ProcessAssumption
<1>2. \A d \in Callers : d # Nobody
  BY ProcessAssumption
<1>3. CASE Continues(c)
  BY <1>3 DEF Continues, CallsApart, Busy, At
<1>4. CASE \E result : Ended(c, result)
  BY <1>1, <1>2, <1>4 DEF Ended, CallsApart, Busy, At, SagaTypes
<1> QED
  BY <1>3, <1>4

\* What a step of one call must show so that it keeps the whole invariant: the
\* rest concerns the other calls, and is the same for every step.
StepKeeps(c) ==
    /\ Continues(c) \/ \E result \in {"ok", "failed", "refused"} : Ended(c, result)
    /\ UNCHANGED <<tenant, seeded, input, touched, met>>
    /\ \A d \in Managed \ {c} : managing'[d] = managing[d]
    /\ unit' = unit \/ unit' = input.unit
    /\ features => features'
    /\ \/ subscription' = subscription
       \/ At(c, "subscribe") /\ subscription = NoSubscription /\ subscription' = NewSubscription
    /\ \/ audits' = audits
       \/ At(c, "record") /\ audits' = audits + 1 /\ onboarding'[c].stage = "welcome"
    /\ welcomes' \in Nat /\ (sent' # {} => welcomes' >= 1)
    /\ ServesOf(c)' /\ CheckpointsOf(c)' /\ TracesOf(c)'
    /\ ~touched => TenancyOf(c)'
    /\ Seeding'
    /\ onboarding'[c].result = "refused" => touched

LEMMA NewSubscriptions ==
    ASSUME input \in ValidInputs
    PROVE  /\ NewSubscription \in Subscriptions
           /\ NoSubscription \in Subscriptions
           /\ NewSubscription # NoSubscription
           /\ input.plan \in Plans /\ input.unit \in Units /\ input.skip \in BOOLEAN
<1>1. input.plan \in Plans /\ input.unit \in Units /\ input.skip \in BOOLEAN
  BY DEF ValidInputs
<1>2. NewSubscription.status = "active" /\ NoSubscription.status = "none"
  BY DEF NewSubscription, NoSubscription
<1> QED
  BY <1>1, <1>2 DEF NewSubscription, NoSubscription, Subscriptions

LEMMA SagaStep ==
    ASSUME SagaInv, NEW c \in Callers, StepKeeps(c)
    PROVE  SagaInv'
<1> USE DEF SagaInv
<1>1. /\ onboarding' \in [Callers -> OnboardingCalls]
      /\ mutex' \in [Processes -> Callers \cup {Nobody}]
      /\ \A d \in Callers \ {c} : onboarding'[d] = onboarding[d]
      /\ Busy(c)
      /\ onboarding'[c].stage # "idle" => onboarding'[c].alone = onboarding[c].alone
      /\ onboarding'[c].stage # "idle" => onboarding'[c].result = "none"
  BY DEF StepKeeps, Continues, Ended, SagaTypes, Busy
<1>2. input' = input /\ touched' = touched /\ tenant' = tenant /\ met' = met /\ seeded' = seeded
  BY DEF StepKeeps
<1>3. /\ NewSubscription' = NewSubscription
      /\ NewSubscription \in Subscriptions /\ NewSubscription # NoSubscription /\ input.unit \in Units
  BY <1>2, NewSubscriptions DEF NewSubscription, SagaTypes
<1>4. SagaTypes'
  <2>1. unit' \in Units \cup {NoUnit}
    BY <1>3 DEF StepKeeps, SagaTypes
  <2>2. subscription' \in Subscriptions
    BY <1>3 DEF StepKeeps, SagaTypes
  <2>3. audits' \in Nat /\ welcomes' \in Nat
    BY DEF StepKeeps, SagaTypes
  <2>4. \A d \in Callers : onboarding'[d].stage # "idle" => onboarding'[d].result = "none"
    BY <1>1 DEF SagaTypes, At
  <2> QED
    BY <1>1, <1>2, <2>1, <2>2, <2>3, <2>4 DEF SagaTypes, At
<1>5. CallsApart'
  BY StepsApart DEF StepKeeps
<1>6. ManagerServes'
  <2>1. \A d \in Callers : ServesOf(d)'
    BY <1>1, <1>2, ManagedAssumption DEF StepKeeps, ManagerServes, ServesOf, At
  <2>2. \A a \in Admins : managing'[a] = managing[a]
    BY ManagedAssumption DEF StepKeeps
  <2> QED
    BY <1>2, <2>1, <2>2 DEF ManagerServes
<1>7. Checkpoints'
  <2>1. unit' \in {NoUnit, input.unit} /\ (unit = input.unit => unit' = input.unit)
    BY DEF StepKeeps, Checkpoints
  <2>2. subscription' # NoSubscription => features'
    BY <1>3 DEF StepKeeps, Checkpoints, CheckpointsOf, At
  <2>3. ~touched => subscription' \in {NoSubscription, NewSubscription}
    BY DEF StepKeeps, Checkpoints
  <2>4. ASSUME NEW d \in Callers \ {c}
        PROVE  CheckpointsOf(d)'
    <3>1. onboarding'[d] = onboarding[d] /\ CheckpointsOf(d)
      BY <1>1 DEF Checkpoints
    <3>2. subscription' = subscription \/ (subscription = NoSubscription /\ subscription' = NewSubscription)
      BY DEF StepKeeps
    <3>3. onboarding[d].alone /\ Initializing(onboarding[d]) => subscription' = NoSubscription
      <4> SUFFICES ASSUME onboarding[d].alone, Initializing(onboarding[d])
                   PROVE  subscription' = NoSubscription
        OBVIOUS
      <4>1. Busy(d)
        BY DEF Initializing, Busy, At
      <4> QED
        BY <1>1, <4>1, OnlyCall
    <3>4. ~touched /\ Subscribed(onboarding[d]) => subscription' = NewSubscription
      BY <1>3, <3>1, <3>2 DEF CheckpointsOf
    <3>5. onboarding[d].stage \in Placed => unit' = input.unit
      BY <2>1, <3>1 DEF CheckpointsOf
    <3>6. onboarding[d].stage \in {"reset", "subscribe"} => features'
      BY <3>1 DEF CheckpointsOf, StepKeeps
    <3> QED
      BY <1>2, <1>3, <3>1, <3>3, <3>4, <3>5, <3>6
      DEF CheckpointsOf, Subscribed, Initializing, NoSubscription
  <2>5. CheckpointsOf(c)'
    BY DEF StepKeeps
  <2>6. \A d \in Callers : CheckpointsOf(d)'
    BY <2>4, <2>5
  <2> QED
    BY <1>2, <1>3, <2>1, <2>2, <2>3, <2>6 DEF Checkpoints, NoSubscription
<1>8. Tenancy'
  <2>1. ASSUME NEW d \in Callers \ {c}, ~touched
        PROVE  TenancyOf(d)'
    <3>1. onboarding'[d] = onboarding[d] /\ TenancyOf(d) /\ managing'[d] = managing[d]
      BY <1>1, <2>1, ManagedAssumption DEF Tenancy, StepKeeps
    <3> QED
      BY <1>2, <3>1 DEF TenancyOf, Active, Busy, At
  <2>2. ~touched => TenancyOf(c)'
    BY DEF StepKeeps
  <2>3. ~touched => \A d \in Callers : TenancyOf(d)'
    BY <2>1, <2>2
  <2> QED
    BY <1>2, <2>3 DEF Tenancy, OwnRow
<1>9. Seeding'
  BY DEF StepKeeps
<1>10. Traces'
  <2>1. audits \in Nat
    BY DEF SagaTypes
  <2>2. ~met => audits' <= 1
    BY <2>1 DEF StepKeeps, Traces, TracesOf
  <2>3. ASSUME NEW d \in Callers \ {c}
        PROVE  TracesOf(d)'
    <3>1. onboarding'[d] = onboarding[d] /\ TracesOf(d)
      BY <1>1 DEF Traces
    <3>2. At(d, "welcome") => audits' >= 1
      BY <2>1, <3>1 DEF TracesOf, StepKeeps
    <3>3. At(d, "record") /\ ~met => audits' = 0
      <4> SUFFICES ASSUME At(d, "record"), ~met PROVE audits' = 0
        OBVIOUS
      <4>1. Busy(d)
        BY DEF Busy, At
      <4> QED
        BY <1>1, <4>1, OnlyCall
    <3> QED
      BY <1>2, <3>1, <3>2, <3>3 DEF TracesOf, At
  <2>4. TracesOf(c)' /\ (sent' # {} => welcomes' >= 1)
    BY DEF StepKeeps
  <2>5. \A d \in Callers : TracesOf(d)'
    BY <2>3, <2>4
  <2> QED
    BY <1>2, <2>2, <2>4, <2>5 DEF Traces
<1>11. RetriesResume'
  BY <1>1, <1>2 DEF StepKeeps, RetriesResume
<1> QED
  BY <1>4, <1>5, <1>6, <1>7, <1>8, <1>9, <1>10, <1>11

\* A step during which the manager does nothing for c.
LEMMA WithoutManager ==
    ASSUME SagaInv, NEW c \in Callers, UNCHANGED <<tenantVars, unseeded>>,
           onboarding[c].stage \notin {"create", "activating"}
    PROVE  /\ managing' = managing /\ managing'[c] = Idle
           /\ \A d \in Managed \ {c} : managing'[d] = managing[d]
           /\ ServesOf(c)' /\ Seeding'
<1>1. managing' = managing /\ tenant' = tenant /\ seeded' = seeded /\ unseeded' = unseeded
  BY DEF tenantVars
<1>2. managing[c] = Idle
  BY DEF SagaInv, ManagerServes, ServesOf, At
<1>3. ServesOf(c)'
  BY <1>1, <1>2 DEF ServesOf, Idle
<1>4. Seeding'
  BY <1>1 DEF SagaInv, Seeding, CutOff
<1> QED
  BY <1>1, <1>2, <1>3, <1>4

\* A call that has returned owes nothing.
LEMMA IdleOwesNothing ==
    ASSUME NEW c \in Callers, onboarding'[c].stage = "idle"
    PROVE  CheckpointsOf(c)' /\ TenancyOf(c)' /\ TracesOf(c)'
  BY DEF CheckpointsOf, TenancyOf, TracesOf, Placed, Created, Subscribed, Initializing, Busy, At

LEMMA ReturnStep ==
    ASSUME SagaInv, NEW c \in Callers, Busy(c), onboarding[c].stage \notin {"create", "activating"},
           NEW result \in {"ok", "failed", "refused"}, Returns(c, result),
           UNCHANGED <<tenantVars, input, unit, subscription, features, audits, touched, met, unseeded>>,
           welcomes' \in Nat, sent' # {} => welcomes' >= 1,
           result = "refused" => touched
    PROVE  SagaInv'
<1>1. Ended(c, result)
  BY ReturnsEnded DEF SagaInv
<1>2. onboarding'[c].stage = "idle" /\ onboarding'[c].result = result
  BY <1>1 DEF Ended
<1>3. StepKeeps(c)
  BY <1>1, <1>2, WithoutManager, IdleOwesNothing DEF StepKeeps, tenantVars
<1> QED
  BY <1>3, SagaStep

LEMMA SagaFail ==
    ASSUME SagaInv, NEW c \in Callers, Fail(c)
    PROVE  SagaInv'
<1>1. /\ Busy(c) /\ onboarding[c].stage \notin {"create", "activating"} /\ Returns(c, "failed")
      /\ UNCHANGED <<tenantVars, input, unit, subscription, features, audits, touched, met, unseeded>>
      /\ sent' = sent /\ welcomes' = welcomes
  BY DEF Fail, Busy, At
<1>2. welcomes' \in Nat /\ (sent' # {} => welcomes' >= 1)
  BY <1>1 DEF SagaInv, SagaTypes, Traces
<1> QED
  BY <1>1, <1>2, ReturnStep

LEMMA SagaWelcome ==
    ASSUME SagaInv, NEW c \in Callers, Welcome(c)
    PROVE  SagaInv'
<1>1. /\ Busy(c) /\ onboarding[c].stage \notin {"create", "activating"}
      /\ UNCHANGED <<tenantVars, input, unit, subscription, features, audits, touched, met, unseeded>>
      /\ Returns(c, "ok") \/ Returns(c, "failed")
      /\ \/ sent' = sent /\ welcomes' = welcomes
         \/ welcomes' = welcomes + 1
  BY DEF Welcome, Busy, At
<1>2. welcomes' \in Nat /\ (sent' # {} => welcomes' >= 1)
  BY <1>1 DEF SagaInv, SagaTypes, Traces
<1> QED
  BY <1>1, <1>2, ReturnStep

\* A step inside the saga, where neither the manager nor the notifier is at work.
LEMMA GoStep ==
    ASSUME SagaInv, NEW c \in Callers, onboarding[c].stage \notin {"idle", "create", "activating"},
           Continues(c), UNCHANGED <<tenantVars, input, sent, welcomes, touched, met, unseeded>>,
           unit' = unit \/ unit' = input.unit,
           features => features',
           \/ subscription' = subscription
           \/ At(c, "subscribe") /\ subscription = NoSubscription /\ subscription' = NewSubscription,
           \/ audits' = audits
           \/ At(c, "record") /\ audits' = audits + 1 /\ onboarding'[c].stage = "welcome",
           CheckpointsOf(c)', ~touched => TenancyOf(c)', TracesOf(c)'
    PROVE  SagaInv'
<1>1. welcomes' \in Nat /\ (sent' # {} => welcomes' >= 1)
  BY DEF SagaInv, SagaTypes, Traces
<1>2. onboarding'[c].result # "refused"
  BY DEF SagaInv, SagaTypes, Continues, Busy
<1>3. StepKeeps(c)
  BY <1>1, <1>2, WithoutManager DEF StepKeeps, tenantVars
<1> QED
  BY <1>3, SagaStep

LEMMA SagaResume ==
    ASSUME SagaInv, TenantInv, NEW c \in Callers, Resume(c)
    PROVE  SagaInv'
<1>1. /\ onboarding[c].stage = "resume"
      /\ UNCHANGED <<tenantVars, input, unit, subscription, features, audits, sent, welcomes, touched,
                     met, unseeded>>
  BY DEF Resume, At
<1>2. Busy(c) /\ SagaTypes /\ welcomes' \in Nat /\ (sent' # {} => welcomes' >= 1)
  BY <1>1 DEF Busy, At, SagaInv, SagaTypes, Traces
<1> DEFINE fits == tenant # NoTenant /\ tenant.plan = input.plan /\ tenant.status \in {"pending", "active"}
<1>3. CASE tenant = NoTenant
  <2>1. Returns(c, "failed")
    BY <1>3 DEF Resume
  <2> QED
    BY <1>1, <1>2, <2>1, ReturnStep
<1>4. CASE tenant # NoTenant /\ ~fits
  <2>1. Returns(c, "refused")
    BY <1>4 DEF Resume
  <2>2. touched
    BY <1>4 DEF SagaInv, Tenancy, OwnRow
  <2> QED
    BY <1>1, <1>2, <2>1, <2>2, ReturnStep
<1>5. CASE fits
  <2> DEFINE call == [onboarding[c] EXCEPT !.stage = "assign", !.status = tenant.status]
  <2>1. /\ onboarding' = [onboarding EXCEPT ![c].stage = "assign", ![c].status = tenant.status]
        /\ mutex' = mutex
    BY <1>5 DEF Resume
  <2>2. onboarding' = [onboarding EXCEPT ![c] = call]
    BY <1>2, <2>1 DEF SagaTypes
  <2>3. /\ call \in OnboardingCalls /\ call.stage = "assign" /\ call.status = tenant.status
        /\ call.alone = onboarding[c].alone /\ call.result = onboarding[c].result
    <3>1. onboarding[c] \in OnboardingCalls
      BY <1>2 DEF SagaTypes
    <3>2. tenant.status \in {"pending", "active"}
      BY <1>5
    <3> QED
      BY <3>1, <3>2 DEF OnboardingCalls, OnboardingStages
  <2> HIDE DEF call
  <2>4. onboarding'[c] = call /\ Continues(c)
    BY <1>2, <2>1, <2>2, <2>3 DEF Continues, SagaTypes
  <2>5. CheckpointsOf(c)'
    BY <2>3, <2>4 DEF CheckpointsOf, Placed, Subscribed, Initializing
  <2>6. TracesOf(c)'
    BY <2>3, <2>4 DEF TracesOf, At
  <2>7. TenancyOf(c)'
    BY <1>1, <1>5, <2>3, <2>4 DEF TenancyOf, At, Active, tenantVars
  <2> QED
    BY <1>1, <2>4, <2>5, <2>6, <2>7, GoStep
<1> QED
  BY <1>3, <1>4, <1>5

LEMMA SagaAssign ==
    ASSUME SagaInv, NEW c \in Callers, Assign(c)
    PROVE  SagaInv'
<1>1. /\ onboarding[c].stage = "assign" /\ unit' = IF unit = NoUnit THEN input.unit ELSE unit
      /\ UNCHANGED <<tenantVars, input, subscription, features, audits, sent, welcomes, touched,
                     met, unseeded>>
  BY DEF Assign, At
<1>2. Busy(c) /\ SagaTypes /\ "lookup" \in OnboardingStages \ {"idle"}
  BY <1>1 DEF Busy, At, SagaInv, OnboardingStages
<1>3. unit' = input.unit
  BY <1>1 DEF SagaInv, Checkpoints
<1>4. Enter(c, "lookup") /\ mutex' = mutex
  BY <1>3 DEF Assign
<1>5. /\ Continues(c) /\ onboarding'[c].stage = "lookup" /\ onboarding'[c].status = onboarding[c].status
      /\ onboarding'[c].alone = onboarding[c].alone
  BY <1>2, <1>4, EnterContinues DEF Continues
<1>6. CheckpointsOf(c)'
  BY <1>1, <1>3, <1>5 DEF CheckpointsOf, Subscribed, Initializing
<1>7. TracesOf(c)'
  BY <1>5 DEF TracesOf, At
<1>8. ~touched => TenancyOf(c)'
  BY <1>1, <1>5 DEF SagaInv, Tenancy, TenancyOf, Created, Busy, At, Active, tenantVars
<1> QED
  BY <1>1, <1>3, <1>5, <1>6, <1>7, <1>8, GoStep

LEMMA SagaLookUp ==
    ASSUME SagaInv, NEW c \in Callers, LookUp(c)
    PROVE  SagaInv'
<1>1. /\ onboarding[c].stage = "lookup"
      /\ UNCHANGED <<tenantVars, input, unit, subscription, features, audits, sent, welcomes, touched,
                     met, unseeded>>
  BY DEF LookUp, At
<1>2. Busy(c) /\ SagaTypes /\ welcomes' \in Nat /\ (sent' # {} => welcomes' >= 1)
  BY <1>1 DEF Busy, At, SagaInv, SagaTypes, Traces
<1>3. CASE ~(subscription = NoSubscription \/ Fits(subscription))
  <2>1. Returns(c, "refused")
    BY <1>3 DEF LookUp
  <2>2. Fits(NewSubscription)
    BY DEF Fits, NewSubscription
  <2>3. touched
    BY <1>3, <2>2 DEF SagaInv, Checkpoints
  <2> QED
    BY <1>1, <1>2, <2>1, <2>3, ReturnStep
<1>4. CASE subscription = NoSubscription \/ Fits(subscription)
  <2> DEFINE none == subscription = NoSubscription
             call == [onboarding[c] EXCEPT !.stage = "features", !.initialize = none]
  <2>1. /\ onboarding' = [onboarding EXCEPT ![c].stage = "features", ![c].initialize = none]
        /\ mutex' = mutex
    BY <1>4 DEF LookUp
  <2>2. none \in BOOLEAN
    OBVIOUS
  <2>3. Fits(subscription) /\ ~touched => subscription = NewSubscription
    BY DEF SagaInv, Checkpoints, Fits, NoSubscription
  <2>4. none <=> subscription = NoSubscription
    OBVIOUS
  <2> HIDE DEF none
  <2>5. onboarding' = [onboarding EXCEPT ![c] = call]
    BY <1>2, <2>1 DEF SagaTypes
  <2>6. /\ call \in OnboardingCalls /\ call.stage = "features" /\ call.initialize = none
        /\ call.status = onboarding[c].status
        /\ call.alone = onboarding[c].alone /\ call.result = onboarding[c].result
    <3>1. onboarding[c] \in OnboardingCalls /\ "features" \in OnboardingStages
      BY <1>2 DEF SagaTypes, OnboardingStages
    <3>2. \A x \in OnboardingCalls, b \in BOOLEAN :
             LET y == [x EXCEPT !.stage = "features", !.initialize = b] IN
             /\ y \in OnboardingCalls /\ y.stage = "features" /\ y.initialize = b
             /\ y.status = x.status /\ y.alone = x.alone /\ y.result = x.result
      BY <3>1 DEF OnboardingCalls
    <3> QED
      BY <2>2, <3>1, <3>2
  <2> HIDE DEF call
  <2>7. onboarding'[c] = call /\ Continues(c)
    BY <1>2, <2>1, <2>5, <2>6 DEF Continues, SagaTypes
  <2>8. CheckpointsOf(c)'
    <3>1. unit = input.unit
      BY <1>1 DEF SagaInv, Checkpoints, CheckpointsOf, Placed
    <3>2. NewSubscription' = NewSubscription /\ NoSubscription' = NoSubscription
      BY <1>1 DEF NewSubscription, NoSubscription
    <3> QED
      BY <1>1, <1>4, <2>3, <2>4, <2>6, <2>7, <3>1, <3>2 DEF CheckpointsOf, Subscribed, Initializing
  <2>9. TracesOf(c)'
    BY <2>6, <2>7 DEF TracesOf, At
  <2>10. ~touched => TenancyOf(c)'
    BY <1>1, <2>6, <2>7 DEF SagaInv, Tenancy, TenancyOf, Created, Placed, Busy, At, Active, tenantVars
  <2> QED
    BY <1>1, <2>7, <2>8, <2>9, <2>10, GoStep
<1> QED
  BY <1>3, <1>4

LEMMA SagaFeatures ==
    ASSUME SagaInv, NEW c \in Callers, SetFeatures(c)
    PROVE  SagaInv'
<1> DEFINE stage == IF onboarding[c].initialize THEN "reset" ELSE "activate"
           call == [onboarding[c] EXCEPT !.stage = stage, !.next = 1]
<1>1. /\ onboarding[c].stage = "features" /\ mutex' = mutex
      /\ features' = (features \/ onboarding[c].initialize)
      /\ onboarding' = [onboarding EXCEPT ![c].stage = stage, ![c].next = 1]
      /\ UNCHANGED <<tenantVars, input, unit, subscription, audits, sent, welcomes, touched, met, unseeded>>
  BY DEF SetFeatures, At
<1>2. Busy(c) /\ SagaTypes
  BY <1>1 DEF Busy, At, SagaInv
<1>3. stage \in OnboardingStages /\ stage \in {"reset", "activate"}
      /\ (stage = "reset" <=> onboarding[c].initialize)
  BY DEF OnboardingStages
<1> HIDE DEF stage
<1>4. onboarding' = [onboarding EXCEPT ![c] = call]
  BY <1>1, <1>2 DEF SagaTypes
<1>5. /\ call \in OnboardingCalls /\ call.stage = stage /\ call.status = onboarding[c].status
      /\ call.alone = onboarding[c].alone /\ call.result = onboarding[c].result
  <2>1. onboarding[c] \in OnboardingCalls
    BY <1>2 DEF SagaTypes
  <2> QED
    BY <1>3, <2>1 DEF OnboardingCalls
<1> HIDE DEF call
<1>6. onboarding'[c] = call /\ Continues(c)
  BY <1>1, <1>2, <1>3, <1>4, <1>5 DEF Continues, SagaTypes
<1>7. CheckpointsOf(c)'
  <2>1. CheckpointsOf(c)
    BY DEF SagaInv, Checkpoints
  <2>2. NewSubscription' = NewSubscription /\ NoSubscription' = NoSubscription
    BY <1>1 DEF NewSubscription, NoSubscription
  <2> QED
    BY <1>1, <1>3, <1>5, <1>6, <2>1, <2>2 DEF CheckpointsOf, Placed, Subscribed, Initializing
<1>8. TracesOf(c)'
  BY <1>3, <1>5, <1>6 DEF TracesOf, At
<1>9. ~touched => TenancyOf(c)'
  BY <1>1, <1>3, <1>5, <1>6 DEF SagaInv, Tenancy, TenancyOf, Created, Placed, Busy, At, Active, tenantVars
<1> QED
  BY <1>1, <1>6, <1>7, <1>8, <1>9, GoStep

LEMMA SagaReset ==
    ASSUME SagaInv, NEW c \in Callers, ResetQuota(c)
    PROVE  SagaInv' /\ onboarding'[c] # onboarding[c]
<1> DEFINE i == onboarding[c].next
           stage == IF i = Len(QuotaOrder) THEN "subscribe" ELSE onboarding[c].stage
           n == i + 1
           call == [onboarding[c] EXCEPT !.next = n, !.stage = stage]
<1>1. /\ onboarding[c].stage = "reset" /\ mutex' = mutex
      /\ onboarding' = [onboarding EXCEPT ![c].next = i + 1,
                                          ![c].stage = IF i = Len(QuotaOrder) THEN "subscribe" ELSE @]
      /\ UNCHANGED <<tenantVars, input, unit, subscription, features, audits, sent, welcomes, touched,
                     met, unseeded>>
  BY DEF ResetQuota, At
<1>2. Busy(c) /\ SagaTypes /\ i \in Nat /\ n \in Nat /\ n # i
  BY <1>1 DEF Busy, At, SagaInv, SagaTypes, OnboardingCalls
<1>3. stage \in OnboardingStages /\ stage \in {"reset", "subscribe"}
  BY <1>1 DEF OnboardingStages
<1>4. onboarding' = [onboarding EXCEPT ![c] = call]
  BY <1>1, <1>2 DEF SagaTypes
<1> HIDE DEF stage, n
<1>5. /\ call \in OnboardingCalls /\ call.stage = stage /\ call.status = onboarding[c].status
      /\ call.alone = onboarding[c].alone /\ call.result = onboarding[c].result
      /\ call.next = n
  <2>1. onboarding[c] \in OnboardingCalls
    BY <1>2 DEF SagaTypes
  <2> QED
    BY <1>2, <1>3, <2>1 DEF OnboardingCalls
<1> HIDE DEF call
<1>6. onboarding'[c] = call /\ Continues(c)
  BY <1>1, <1>2, <1>3, <1>4, <1>5 DEF Continues, SagaTypes
<1>7. CheckpointsOf(c)'
  <2>1. CheckpointsOf(c)
    BY DEF SagaInv, Checkpoints
  <2>2. NewSubscription' = NewSubscription /\ NoSubscription' = NoSubscription
    BY <1>1 DEF NewSubscription, NoSubscription
  <2> QED
    BY <1>1, <1>3, <1>5, <1>6, <2>1, <2>2 DEF CheckpointsOf, Placed, Subscribed, Initializing
<1>8. TracesOf(c)'
  BY <1>3, <1>5, <1>6 DEF TracesOf, At
<1>9. ~touched => TenancyOf(c)'
  BY <1>1, <1>3, <1>5, <1>6 DEF SagaInv, Tenancy, TenancyOf, Created, Placed, Busy, At, Active, tenantVars
<1>10. SagaInv'
  BY <1>1, <1>6, <1>7, <1>8, <1>9, GoStep
<1> QED
  BY <1>2, <1>5, <1>6, <1>10

LEMMA SagaSubscribe ==
    ASSUME SagaInv, NEW c \in Callers, Subscribe(c)
    PROVE  SagaInv'
<1>1. /\ onboarding[c].stage = "subscribe"
      /\ subscription' = IF subscription = NoSubscription THEN NewSubscription ELSE subscription
      /\ UNCHANGED <<tenantVars, input, unit, features, audits, sent, welcomes, touched, met, unseeded>>
  BY DEF Subscribe, At
<1>2. /\ Busy(c) /\ SagaTypes /\ welcomes' \in Nat /\ (sent' # {} => welcomes' >= 1)
      /\ "activate" \in OnboardingStages \ {"idle"}
  BY <1>1 DEF Busy, At, SagaInv, SagaTypes, Traces, OnboardingStages
<1>3. NewSubscription' = NewSubscription /\ NoSubscription' = NoSubscription
  BY <1>1 DEF NewSubscription, NoSubscription
<1>4. Fits(NewSubscription)' /\ Fits(NewSubscription)
  BY <1>1 DEF Fits, NewSubscription
<1>5. CASE ~Fits(subscription')
  <2>1. Returns(c, "refused")
    BY <1>5 DEF Subscribe
  <2>2. subscription' = subscription
    BY <1>1, <1>4, <1>5
  <2>3. touched
    BY <1>1, <1>4, <1>5, <2>2 DEF SagaInv, Checkpoints
  <2> QED
    BY <1>1, <1>2, <2>1, <2>2, <2>3, ReturnStep
<1>6. CASE Fits(subscription')
  <2>1. Enter(c, "activate") /\ mutex' = mutex
    BY <1>6 DEF Subscribe
  <2>2. /\ Continues(c) /\ onboarding'[c].stage = "activate"
        /\ onboarding'[c].status = onboarding[c].status
        /\ onboarding'[c].alone = onboarding[c].alone
    BY <1>2, <2>1, EnterContinues DEF Continues
  <2>3. ~touched => subscription' = NewSubscription
    BY <1>1 DEF SagaInv, Checkpoints
  <2>4. unit = input.unit
    BY <1>1 DEF SagaInv, Checkpoints, CheckpointsOf, Placed
  <2>5. CheckpointsOf(c)'
    BY <1>1, <1>3, <2>2, <2>3, <2>4 DEF CheckpointsOf, Subscribed, Initializing
  <2>6. TracesOf(c)'
    BY <2>2 DEF TracesOf, At
  <2>7. ~touched => TenancyOf(c)'
    BY <1>1, <2>2 DEF SagaInv, Tenancy, TenancyOf, Created, Placed, Busy, At, Active, tenantVars
  <2>8. \/ subscription' = subscription
        \/ At(c, "subscribe") /\ subscription = NoSubscription /\ subscription' = NewSubscription
    BY <1>1 DEF At
  <2> QED
    BY <1>1, <2>2, <2>5, <2>6, <2>7, <2>8, GoStep
<1> QED
  BY <1>5, <1>6

LEMMA SagaAudit ==
    ASSUME SagaInv, NEW c \in Callers, CheckAudit(c) \/ RecordAudit(c)
    PROVE  SagaInv'
<1>1. /\ onboarding[c].stage \in {"audit", "record"} /\ mutex' = mutex
      /\ UNCHANGED <<tenantVars, input, unit, subscription, features, sent, welcomes, touched, met, unseeded>>
      /\ \/ onboarding[c].stage = "audit" /\ audits' = audits /\ audits = 0 /\ Enter(c, "record")
         \/ onboarding[c].stage = "audit" /\ audits' = audits /\ audits # 0 /\ Enter(c, "welcome")
         \/ onboarding[c].stage = "record" /\ audits' = audits + 1 /\ Enter(c, "welcome")
  BY DEF CheckAudit, RecordAudit, At
<1>2. /\ Busy(c) /\ SagaTypes /\ audits \in Nat
      /\ "record" \in OnboardingStages \ {"idle"} /\ "welcome" \in OnboardingStages \ {"idle"}
  BY <1>1 DEF Busy, At, SagaInv, SagaTypes, OnboardingStages
<1>3. /\ Continues(c) /\ onboarding'[c].stage \in {"record", "welcome"}
      /\ onboarding'[c].status = onboarding[c].status
      /\ onboarding'[c].alone = onboarding[c].alone
      /\ \/ onboarding'[c].stage = "record" /\ audits' = 0 /\ audits' = audits
         \/ onboarding'[c].stage = "welcome" /\ audits' >= 1
              /\ (audits' = audits \/ (onboarding[c].stage = "record" /\ audits' = audits + 1))
  <2>1. CASE Enter(c, "record") /\ audits' = audits /\ audits = 0
    BY <1>1, <1>2, <2>1, EnterContinues DEF Continues
  <2>2. CASE Enter(c, "welcome") /\ audits' = audits /\ audits # 0
    BY <1>1, <1>2, <2>2, EnterContinues DEF Continues
  <2>3. CASE Enter(c, "welcome") /\ audits' = audits + 1 /\ onboarding[c].stage = "record"
    BY <1>1, <1>2, <2>3, EnterContinues DEF Continues
  <2> QED
    BY <1>1, <2>1, <2>2, <2>3
<1>4. CheckpointsOf(c)'
  <2>1. CheckpointsOf(c)
    BY DEF SagaInv, Checkpoints
  <2>2. NewSubscription' = NewSubscription /\ NoSubscription' = NoSubscription
    BY <1>1 DEF NewSubscription, NoSubscription
  <2> QED
    BY <1>1, <1>3, <2>1, <2>2 DEF CheckpointsOf, Placed, Subscribed, Initializing
<1>5. TracesOf(c)'
  BY <1>3 DEF TracesOf, At
<1>6. ~touched => TenancyOf(c)'
  BY <1>1, <1>3 DEF SagaInv, Tenancy, TenancyOf, Created, Placed, Busy, At, Active, tenantVars
<1>7. \/ audits' = audits
      \/ At(c, "record") /\ audits' = audits + 1 /\ onboarding'[c].stage = "welcome"
  BY <1>3 DEF At
<1> QED
  BY <1>1, <1>3, <1>4, <1>5, <1>6, <1>7, GoStep

\* The caller takes the manager's result.
LEMMA ResultTaken ==
    ASSUME SagaInv, TenantInv, NEW c \in Callers, managing' = [managing EXCEPT ![c] = Idle],
           UNCHANGED <<tenant, seeded, input>>, unseeded => unseeded', CutOff(c) => unseeded'
    PROVE  /\ managing'[c] = Idle
           /\ \A d \in Managed \ {c} : managing'[d] = managing[d]
           /\ ServesOf(c)' /\ Seeding' /\ TenantInv'
<1>1. c \in Managed /\ Callers \subseteq Managed
  BY ManagedAssumption
<1>2. managing'[c] = Idle /\ \A d \in Managed \ {c} : managing'[d] = managing[d]
  BY <1>1 DEF TenantInv, TenantTypes
<1>3. ServesOf(c)'
  BY <1>2 DEF ServesOf, Idle
<1>4. Seeding'
  <2> SUFFICES ASSUME tenant # NoTenant, ~seeded, ~unseeded'
               PROVE  \E d \in Callers : CutOff(d)'
    BY DEF Seeding
  <2>1. PICK d \in Callers : CutOff(d)
    BY DEF SagaInv, Seeding
  <2>2. managing'[d] = managing[d]
    BY <1>1, <1>2, <2>1
  <2> QED
    BY <2>1, <2>2 DEF CutOff
<1>5. CallFits(Idle)
  BY IdleCall DEF CallFits
<1>6. TenantInv'
  BY <1>1, <1>5, IdleCall, TenantCalled
<1> QED
  BY <1>2, <1>3, <1>4, <1>6

LEMMA SagaCreated ==
    ASSUME SagaInv, TenantInv, NEW c \in Callers, TenantCreated(c)
    PROVE  SagaInv' /\ TenantInv'
<1>1. /\ onboarding[c].stage = "create" /\ managing[c].stage = "done"
      /\ managing' = [managing EXCEPT ![c] = Idle]
      /\ unseeded' = (unseeded \/ CutOff(c))
      /\ UNCHANGED <<tenant, seeded, input, unit, subscription, features, audits, sent, welcomes, touched, met>>
  BY DEF TenantCreated, At
<1>2. /\ Busy(c) /\ SagaTypes /\ welcomes' \in Nat /\ (sent' # {} => welcomes' >= 1)
      /\ "resume" \in OnboardingStages \ {"idle"}
  BY <1>1 DEF Busy, At, SagaInv, SagaTypes, Traces, OnboardingStages
<1>3. /\ managing'[c] = Idle
      /\ \A d \in Managed \ {c} : managing'[d] = managing[d]
      /\ ServesOf(c)' /\ Seeding' /\ TenantInv'
  BY <1>1, ResultTaken
<1>4. CASE managing[c].result = "ok"
  <2> DEFINE call == [onboarding[c] EXCEPT !.stage = "assign", !.status = "pending"]
  <2>1. /\ onboarding' = [onboarding EXCEPT ![c].stage = "assign", ![c].status = "pending"]
        /\ mutex' = mutex
    BY <1>4 DEF TenantCreated
  <2>2. onboarding' = [onboarding EXCEPT ![c] = call]
    BY <1>2, <2>1 DEF SagaTypes
  <2>3. /\ call \in OnboardingCalls /\ call.stage = "assign" /\ call.status = "pending"
        /\ call.alone = onboarding[c].alone /\ call.result = onboarding[c].result
    <3>1. onboarding[c] \in OnboardingCalls
      BY <1>2 DEF SagaTypes
    <3> QED
      BY <3>1 DEF OnboardingCalls, OnboardingStages
  <2> HIDE DEF call
  <2>4. onboarding'[c] = call /\ Continues(c)
    BY <1>2, <2>1, <2>2, <2>3 DEF Continues, SagaTypes
  <2>5. CheckpointsOf(c)'
    BY <2>3, <2>4 DEF CheckpointsOf, Placed, Subscribed, Initializing
  <2>6. TracesOf(c)'
    BY <2>3, <2>4 DEF TracesOf, At
  <2>7. ~touched => TenancyOf(c)'
    BY <1>1, <1>2, <1>4, <2>3, <2>4 DEF SagaInv, Tenancy, TenancyOf, At, Active, Busy
  <2>8. onboarding'[c].result # "refused"
    BY <1>2, <2>3, <2>4 DEF SagaTypes, Busy
  <2>9. StepKeeps(c)
    BY <1>1, <1>2, <1>3, <2>4, <2>5, <2>6, <2>7, <2>8 DEF StepKeeps
  <2> QED
    BY <1>3, <2>9, SagaStep
<1>5. CASE managing[c].result = "exists"
  <2>1. Enter(c, "resume") /\ mutex' = mutex
    BY <1>5 DEF TenantCreated
  <2>2. /\ Continues(c) /\ onboarding'[c].stage = "resume"
    BY <1>2, <2>1, EnterContinues
  <2>3. CheckpointsOf(c)'
    BY <2>2 DEF CheckpointsOf, Placed, Subscribed, Initializing
  <2>4. TracesOf(c)'
    BY <2>2 DEF TracesOf, At
  <2>5. TenancyOf(c)'
    BY <2>2 DEF TenancyOf, At, Created, Placed
  <2>6. onboarding'[c].result # "refused"
    BY <1>2, <2>2 DEF SagaTypes, Busy, Continues
  <2>7. StepKeeps(c)
    BY <1>1, <1>2, <1>3, <2>2, <2>3, <2>4, <2>5, <2>6 DEF StepKeeps
  <2> QED
    BY <1>3, <2>7, SagaStep
<1>6. CASE managing[c].result \notin {"ok", "exists"}
  <2>1. Returns(c, "failed")
    BY <1>6 DEF TenantCreated
  <2>2. Ended(c, "failed")
    BY <1>2, <2>1, ReturnsEnded
  <2>3. onboarding'[c].stage = "idle" /\ onboarding'[c].result = "failed"
    BY <2>2 DEF Ended
  <2>4. StepKeeps(c)
    BY <1>1, <1>2, <1>3, <2>2, <2>3, IdleOwesNothing DEF StepKeeps
  <2> QED
    BY <1>3, <2>4, SagaStep
<1> QED
  BY <1>4, <1>5, <1>6

LEMMA SagaActivate ==
    ASSUME SagaInv, TenantInv, NEW c \in Callers, Activate(c)
    PROVE  SagaInv' /\ TenantInv'
<1>1. /\ onboarding[c].stage = "activate" /\ mutex' = mutex
      /\ UNCHANGED <<tenant, seeded, input, unit, subscription, features, audits, sent, welcomes, touched,
                     met, unseeded>>
  BY DEF Activate, At
<1>2. /\ Busy(c) /\ SagaTypes /\ welcomes' \in Nat /\ (sent' # {} => welcomes' >= 1)
      /\ "audit" \in OnboardingStages \ {"idle"} /\ "activating" \in OnboardingStages \ {"idle"}
  BY <1>1 DEF Busy, At, SagaInv, SagaTypes, Traces, OnboardingStages
<1>3. managing[c] = Idle /\ c \in Managed /\ Callers \subseteq Managed
  BY <1>1, ManagedAssumption DEF SagaInv, ManagerServes, ServesOf, At
<1>4. NewSubscription' = NewSubscription /\ NoSubscription' = NoSubscription
  BY <1>1 DEF NewSubscription, NoSubscription
<1>5. CheckpointsOf(c)
  BY DEF SagaInv, Checkpoints
<1>6. CASE input.skip \/ onboarding[c].status = "active"
  <2>1. Enter(c, "audit") /\ managing' = managing
    BY <1>6 DEF Activate
  <2>2. UNCHANGED tenantVars
    BY <1>1, <2>1 DEF tenantVars
  <2>3. /\ Continues(c) /\ onboarding'[c].stage = "audit"
        /\ onboarding'[c].status = onboarding[c].status
        /\ onboarding'[c].alone = onboarding[c].alone
    BY <1>1, <1>2, <2>1, EnterContinues DEF Continues
  <2>4. CheckpointsOf(c)'
    BY <1>1, <1>4, <1>5, <2>3 DEF CheckpointsOf, Placed, Subscribed, Initializing
  <2>5. TracesOf(c)'
    BY <2>3 DEF TracesOf, At
  <2>6. ~touched => TenancyOf(c)'
    BY <1>1, <1>6, <2>2, <2>3 DEF SagaInv, Tenancy, TenancyOf, Created, Placed, Busy, At, Active, tenantVars
  <2>7. SagaInv'
    BY <1>1, <2>2, <2>3, <2>4, <2>5, <2>6, GoStep
  <2> QED
    BY <2>2, <2>7, TenantKept
<1>7. CASE ~(input.skip \/ onboarding[c].status = "active")
  <2> DEFINE call == Managing("Activate", NoTenant)
  <2>1. Enter(c, "activating") /\ managing' = [managing EXCEPT ![c] = call]
    BY <1>7 DEF Activate
  <2>2. /\ Continues(c) /\ onboarding'[c].stage = "activating"
        /\ onboarding'[c].status = onboarding[c].status
        /\ onboarding'[c].alone = onboarding[c].alone
    BY <1>1, <1>2, <2>1, EnterContinues DEF Continues
  <2>3. /\ call \in ManagerCalls /\ call.kind = "Activate" /\ call.stage = "get" /\ call.result = "none"
    BY ManagingCall DEF Kinds, Changes
  <2> HIDE DEF call
  <2>4. CallFits(call)
    BY <2>3 DEF CallFits, Changes
  <2>5. TenantInv'
    BY <1>1, <1>3, <2>1, <2>3, <2>4, TenantCalled
  <2>6. managing'[c] = call /\ \A d \in Managed \ {c} : managing'[d] = managing[d]
    BY <1>3, <2>1 DEF TenantInv, TenantTypes
  <2>7. ServesOf(c)'
    BY <2>2, <2>3, <2>6 DEF ServesOf, At
  <2>8. Seeding'
    <3>1. ~CutOff(c)
      BY <1>3, IdleCall DEF CutOff
    <3> SUFFICES ASSUME tenant # NoTenant, ~seeded, ~unseeded
                 PROVE  \E d \in Callers : CutOff(d)'
      BY <1>1 DEF Seeding
    <3>2. PICK d \in Callers : CutOff(d)
      BY DEF SagaInv, Seeding
    <3>3. managing'[d] = managing[d]
      BY <1>3, <2>6, <3>1, <3>2
    <3> QED
      BY <1>1, <3>2, <3>3 DEF CutOff
  <2>9. CheckpointsOf(c)'
    BY <1>1, <1>4, <1>5, <2>2 DEF CheckpointsOf, Placed, Subscribed, Initializing
  <2>10. TracesOf(c)'
    BY <2>2 DEF TracesOf, At
  <2>11. ~touched => TenancyOf(c)'
    BY <1>1, <2>2, <2>3, <2>6 DEF SagaInv, Tenancy, TenancyOf, Created, Placed, Busy, At, Active
  <2>12. onboarding'[c].result # "refused"
    BY <1>2, <2>2 DEF SagaTypes, Busy, Continues
  <2>13. StepKeeps(c)
    BY <1>1, <1>2, <2>2, <2>6, <2>7, <2>8, <2>9, <2>10, <2>11, <2>12 DEF StepKeeps
  <2> QED
    BY <2>5, <2>13, SagaStep
<1> QED
  BY <1>6, <1>7

LEMMA SagaActivated ==
    ASSUME SagaInv, TenantInv, NEW c \in Callers, Activated(c)
    PROVE  SagaInv' /\ TenantInv'
<1>1. /\ onboarding[c].stage = "activating" /\ managing[c].stage = "done"
      /\ managing' = [managing EXCEPT ![c] = Idle]
      /\ UNCHANGED <<tenant, seeded, input, unit, subscription, features, audits, sent, welcomes, touched,
                     met, unseeded>>
  BY DEF Activated, At
<1>2. /\ Busy(c) /\ SagaTypes /\ welcomes' \in Nat /\ (sent' # {} => welcomes' >= 1)
      /\ "audit" \in OnboardingStages \ {"idle"}
  BY <1>1 DEF Busy, At, SagaInv, SagaTypes, Traces, OnboardingStages
<1>3. ~CutOff(c)
  <2>1. managing[c].kind # "Create"
    BY <1>1, IdleCall DEF SagaInv, ManagerServes, ServesOf, At
  <2> QED
    BY <1>1, <2>1 DEF CutOff
<1>4. /\ managing'[c] = Idle
      /\ \A d \in Managed \ {c} : managing'[d] = managing[d]
      /\ ServesOf(c)' /\ Seeding' /\ TenantInv'
  BY <1>1, <1>3, ResultTaken
<1>5. CASE managing[c].result = "ok"
  <2>1. Enter(c, "audit") /\ mutex' = mutex
    BY <1>5 DEF Activated
  <2>2. /\ Continues(c) /\ onboarding'[c].stage = "audit"
        /\ onboarding'[c].alone = onboarding[c].alone
    BY <1>2, <2>1, EnterContinues DEF Continues
  <2>3. CheckpointsOf(c)'
    <3>1. CheckpointsOf(c)
      BY DEF SagaInv, Checkpoints
    <3>2. NewSubscription' = NewSubscription /\ NoSubscription' = NoSubscription
      BY <1>1 DEF NewSubscription, NoSubscription
    <3> QED
      BY <1>1, <2>2, <3>1, <3>2 DEF CheckpointsOf, Placed, Subscribed, Initializing
  <2>4. TracesOf(c)'
    BY <2>2 DEF TracesOf, At
  <2>5. ~touched => TenancyOf(c)'
    BY <1>1, <1>5, <2>2 DEF SagaInv, Tenancy, TenancyOf, Created, Placed, Busy, At, Active
  <2>6. onboarding'[c].result # "refused"
    BY <1>2, <2>2 DEF SagaTypes, Busy, Continues
  <2>7. StepKeeps(c)
    BY <1>1, <1>2, <1>4, <2>2, <2>3, <2>4, <2>5, <2>6 DEF StepKeeps
  <2> QED
    BY <1>4, <2>7, SagaStep
<1>6. CASE managing[c].result # "ok"
  <2>1. Returns(c, "failed")
    BY <1>6 DEF Activated
  <2>2. Ended(c, "failed")
    BY <1>2, <2>1, ReturnsEnded
  <2>3. onboarding'[c].stage = "idle" /\ onboarding'[c].result = "failed"
    BY <2>2 DEF Ended
  <2>4. StepKeeps(c)
    BY <1>1, <1>2, <1>4, <2>2, <2>3, IdleOwesNothing DEF StepKeeps
  <2> QED
    BY <1>4, <2>4, SagaStep
<1> QED
  BY <1>5, <1>6

-----------------------------------------------------------------------------
(* The beginning of a call, the end of a process, and the others.          *)

LEMMA SagaOnboard ==
    ASSUME SagaInv, TenantInv, NEW c \in Callers, Onboard(c)
    PROVE  SagaInv' /\ TenantInv'
<1> DEFINE lonely == Elsewhere(c) = {}
           mine == [NotOnboarding EXCEPT !.stage = "create", !.alone = lonely]
           call == Managing("Create", input.plan)
           less(d) == [onboarding[d] EXCEPT !.alone = FALSE]
<1>1. /\ onboarding[c].stage = "idle" /\ mutex[Process[c]] = Nobody
      /\ mutex' = [mutex EXCEPT ![Process[c]] = c]
      /\ managing' = [managing EXCEPT ![c] = call]
      /\ met' = (met \/ ~lonely)
      /\ onboarding' = [d \in Callers |-> CASE d = c -> mine
                                            [] d \in Elsewhere(c) -> less(d)
                                            [] OTHER -> onboarding[d]]
      /\ UNCHANGED <<tenant, seeded, input, unit, subscription, features, audits, sent, welcomes,
                     touched, unseeded>>
  BY DEF Onboard, At
<1>2. SagaTypes /\ CallsApart /\ c \in Managed /\ Callers \subseteq Managed
  BY ManagedAssumption DEF SagaInv
<1>3. c \notin Elsewhere(c) /\ lonely \in BOOLEAN
  BY DEF Elsewhere
<1>4. lonely => \A d \in Callers : Process[d] # Process[c] => onboarding[d].stage = "idle"
  BY DEF Elsewhere, At
<1>5. \A d \in Elsewhere(c) : d \in Callers /\ Process[d] # Process[c]
  BY DEF Elsewhere
<1>6. \A d \in Callers : Process[d] # Process[c] /\ onboarding[d].stage # "idle" => d \in Elsewhere(c) /\ ~lonely
  BY DEF Elsewhere, At
<1> HIDE DEF lonely
<1>7. /\ mine \in OnboardingCalls /\ mine.stage = "create" /\ mine.alone = lonely
      /\ mine.result = "none"
  <2>1. \A b \in BOOLEAN : LET x == [NotOnboarding EXCEPT !.stage = "create", !.alone = b] IN
           x \in OnboardingCalls /\ x.stage = "create" /\ x.alone = b /\ x.result = "none"
    BY NoOnboarding DEF OnboardingCalls, OnboardingStages
  <2> QED
    BY <1>3, <2>1
<1>8. \A d \in Callers : /\ less(d) \in OnboardingCalls /\ ~less(d).alone
                         /\ less(d).stage = onboarding[d].stage
                         /\ less(d).status = onboarding[d].status
                         /\ less(d).initialize = onboarding[d].initialize
                         /\ less(d).result = onboarding[d].result
  <2>1. \A x \in OnboardingCalls : LET y == [x EXCEPT !.alone = FALSE] IN
           /\ y \in OnboardingCalls /\ ~y.alone /\ y.stage = x.stage /\ y.status = x.status
           /\ y.initialize = x.initialize /\ y.result = x.result
    BY DEF OnboardingCalls
  <2>2. \A d \in Callers : onboarding[d] \in OnboardingCalls
    BY <1>2 DEF SagaTypes
  <2> QED
    BY <2>1, <2>2
<1>9. call \in ManagerCalls /\ call.kind = "Create" /\ call.stage = "create" /\ call.result = "none"
      /\ call.plan = input.plan /\ input.plan \in Plans
  BY <1>2, ManagingCall, NewSubscriptions DEF Kinds, SagaTypes
<1> HIDE DEF mine, call, less
<1>10. onboarding'[c] = mine /\ (met => met') /\ (~lonely => met')
  BY <1>1, <1>3
<1>11. \A d \in Callers \ {c} : onboarding'[d] = IF d \in Elsewhere(c) THEN less(d) ELSE onboarding[d]
  BY <1>1
<1>12. \A d \in Callers \ {c} :
          /\ onboarding'[d].stage = onboarding[d].stage /\ onboarding'[d].status = onboarding[d].status
          /\ onboarding'[d].initialize = onboarding[d].initialize
          /\ onboarding'[d].result = onboarding[d].result
          /\ onboarding'[d].alone => onboarding[d].alone
          /\ onboarding'[d].alone => d \notin Elsewhere(c)
  BY <1>8, <1>11
<1>13. onboarding' \in [Callers -> OnboardingCalls]
  BY <1>1, <1>2, <1>7, <1>8 DEF SagaTypes
<1>14. managing'[c] = call /\ \A d \in Managed \ {c} : managing'[d] = managing[d]
  BY <1>1, <1>2 DEF TenantInv, TenantTypes
<1>15. managing[c] = Idle
  BY <1>1 DEF SagaInv, ManagerServes, ServesOf, At
<1>16. NewSubscription' = NewSubscription /\ NoSubscription' = NoSubscription
  BY <1>1 DEF NewSubscription, NoSubscription
<1>17. TenantInv'
  <2>1. CallFits(call)
    BY <1>9 DEF CallFits
  <2> QED
    BY <1>1, <1>2, <1>9, <2>1, TenantCalled
<1>18. SagaTypes'
  <2>1. mutex' \in [Processes -> Callers \cup {Nobody}]
    BY <1>1, <1>2 DEF SagaTypes
  <2>2. \A d \in Callers : onboarding'[d].stage # "idle" => onboarding'[d].result = "none"
    BY <1>2, <1>7, <1>10, <1>12 DEF SagaTypes, At
  <2> QED
    BY <1>1, <1>2, <1>13, <2>1, <2>2 DEF SagaTypes, At
<1>19. CallsApart'
  <2>1. \A d \in Callers : Process[d] \in Processes /\ d # Nobody
    BY ProcessAssumption
  <2>2. \A d \in Callers : mutex'[Process[d]] = d <=> onboarding'[d].stage # "idle"
    <3> SUFFICES ASSUME NEW d \in Callers
                 PROVE  mutex'[Process[d]] = d <=> onboarding'[d].stage # "idle"
      OBVIOUS
    <3>1. mutex[Process[d]] = d <=> onboarding[d].stage # "idle"
      BY <1>2 DEF CallsApart, Busy, At
    <3>2. mutex'[Process[d]] = IF Process[d] = Process[c] THEN c ELSE mutex[Process[d]]
      BY <1>1, <1>2, <2>1 DEF SagaTypes
    <3> QED
      BY <1>1, <1>7, <1>10, <1>12, <2>1, <3>1, <3>2
  <2>3. ASSUME NEW d \in Callers, NEW e \in Callers, onboarding'[d].stage # "idle",
               onboarding'[e].stage # "idle", Process[d] # Process[e]
        PROVE  ~onboarding'[d].alone /\ met'
    <3>1. CASE d = c
      <4>1. onboarding[e].stage # "idle"
        BY <1>12, <2>3, <3>1
      <4>2. ~lonely
        BY <1>6, <2>3, <3>1, <4>1
      <4> QED
        BY <1>7, <1>10, <3>1, <4>2
    <3>2. CASE e = c
      <4>1. d # c
        BY <2>3, <3>2
      <4>2. d \in Elsewhere(c) /\ ~lonely
        BY <1>6, <1>12, <2>3, <3>2, <4>1
      <4> QED
        BY <1>10, <1>12, <4>1, <4>2
    <3>3. CASE d # c /\ e # c
      <4>1. ~onboarding[d].alone /\ met
        BY <1>2, <1>12, <2>3, <3>3 DEF CallsApart, Busy, At
      <4> QED
        BY <1>10, <1>12, <3>3, <4>1
    <3> QED
      BY <3>1, <3>2, <3>3
  <2> QED
    BY <2>2, <2>3 DEF CallsApart, Busy, At
<1>20. ManagerServes'
  <2>1. \A d \in Callers : ServesOf(d)'
    BY <1>1, <1>2, <1>7, <1>9, <1>10, <1>12, <1>14 DEF SagaInv, ManagerServes, ServesOf, At
  <2>2. \A a \in Admins : managing'[a] = managing[a]
    BY <1>14, ManagedAssumption
  <2> QED
    BY <1>1, <2>1, <2>2 DEF SagaInv, ManagerServes
<1>21. Checkpoints'
  <2>1. CheckpointsOf(c)'
    BY <1>7, <1>10 DEF CheckpointsOf, Placed, Subscribed, Initializing
  <2>2. ASSUME NEW d \in Callers \ {c}
        PROVE  CheckpointsOf(d)'
    <3>1. CheckpointsOf(d)
      BY DEF SagaInv, Checkpoints
    <3> QED
      BY <1>1, <1>12, <1>16, <3>1 DEF CheckpointsOf, Subscribed, Initializing
  <2>3. \A d \in Callers : CheckpointsOf(d)'
    BY <2>1, <2>2
  <2> QED
    BY <1>1, <1>16, <2>3 DEF SagaInv, Checkpoints
<1>22. Tenancy'
  <2>1. TenancyOf(c)'
    BY <1>7, <1>9, <1>10, <1>14 DEF TenancyOf, Created, Placed, At
  <2>2. ASSUME NEW d \in Callers \ {c}, ~touched
        PROVE  TenancyOf(d)'
    <3>1. TenancyOf(d) /\ managing'[d] = managing[d]
      BY <1>2, <1>14, <2>2 DEF SagaInv, Tenancy
    <3> QED
      BY <1>1, <1>12, <3>1 DEF TenancyOf, Busy, At, Active
  <2>3. ~touched => \A d \in Callers : TenancyOf(d)'
    BY <2>1, <2>2
  <2> QED
    BY <1>1, <2>3 DEF SagaInv, Tenancy, OwnRow
<1>23. Seeding'
  <2>1. ~CutOff(c)
    BY <1>15, IdleCall DEF CutOff
  <2> SUFFICES ASSUME tenant # NoTenant, ~seeded, ~unseeded
               PROVE  \E d \in Callers : CutOff(d)'
    BY <1>1 DEF Seeding
  <2>2. PICK d \in Callers : CutOff(d)
    BY DEF SagaInv, Seeding
  <2>3. managing'[d] = managing[d]
    BY <1>2, <1>14, <2>1, <2>2
  <2> QED
    BY <1>1, <2>2, <2>3 DEF CutOff
<1>24. Traces'
  <2>1. audits' = audits /\ sent' = sent /\ welcomes' = welcomes
    BY <1>1
  <2>2. TracesOf(c)'
    BY <1>7, <1>10 DEF TracesOf, At
  <2>3. ASSUME NEW d \in Callers \ {c} PROVE TracesOf(d)'
    BY <1>10, <1>12, <2>1 DEF SagaInv, Traces, TracesOf, At
  <2> QED
    BY <1>10, <2>1, <2>2, <2>3 DEF SagaInv, Traces
<1>25. RetriesResume'
  BY <1>1, <1>7, <1>10, <1>12 DEF SagaInv, RetriesResume
<1> QED
  BY <1>17, <1>18, <1>19, <1>20, <1>21, <1>22, <1>23, <1>24, <1>25 DEF SagaInv

LEMMA SagaRestart ==
    ASSUME SagaInv, TenantInv, NEW p \in Processes, Restart(p)
    PROVE  SagaInv' /\ TenantInv'
<1>1. /\ onboarding' = [c \in Callers |-> IF Process[c] = p THEN NotOnboarding ELSE onboarding[c]]
      /\ managing' = [c \in Managed |-> IF c \in Callers /\ Process[c] = p THEN Idle ELSE managing[c]]
      /\ unseeded' = (unseeded \/ \E c \in Callers : Process[c] = p /\ CutOff(c))
      /\ mutex' = [mutex EXCEPT ![p] = Nobody]
      /\ sent' = sent \ {p}
      /\ UNCHANGED <<tenant, seeded, input, unit, subscription, features, audits, welcomes, touched, met>>
  BY DEF Restart
<1>2. SagaTypes /\ CallsApart /\ Callers \subseteq Managed
  BY ManagedAssumption DEF SagaInv
<1>3. \A c \in Callers : /\ Process[c] = p => onboarding'[c] = NotOnboarding /\ managing'[c] = Idle
                         /\ Process[c] # p => onboarding'[c] = onboarding[c] /\ managing'[c] = managing[c]
  BY <1>1, <1>2
<1>4. \A a \in Admins : managing'[a] = managing[a]
  BY <1>1, ManagedAssumption
<1>5. NewSubscription' = NewSubscription /\ NoSubscription' = NoSubscription
  BY <1>1 DEF NewSubscription, NoSubscription
<1>6. TenantInv'
  <2>1. CallFits(Idle)
    BY IdleCall DEF CallFits
  <2>2. managing' \in [Managed -> ManagerCalls] /\ \A c \in Managed : CallFits(managing'[c])
    BY <1>1, <2>1, IdleCall DEF TenantInv, TenantTypes, ManagerCallsFit
  <2> QED
    BY <1>1, <2>2 DEF TenantInv, TenantTypes, ManagerCallsFit, CallFits, Allowed
<1>7. SagaTypes'
  <2>1. mutex' \in [Processes -> Callers \cup {Nobody}]
    BY <1>1, <1>2 DEF SagaTypes
  <2>2. onboarding' \in [Callers -> OnboardingCalls]
    BY <1>1, <1>2, NoOnboarding DEF SagaTypes
  <2>3. \A c \in Callers : onboarding'[c].stage # "idle" => onboarding'[c].result = "none"
    BY <1>2, <1>3, NoOnboarding DEF SagaTypes, At
  <2> QED
    BY <1>1, <1>2, <2>1, <2>2, <2>3 DEF SagaTypes, At
<1>8. CallsApart'
  <2>1. \A d \in Callers : Process[d] \in Processes /\ d # Nobody
    BY ProcessAssumption
  <2>2. \A d \in Callers : mutex'[Process[d]] = d <=> onboarding'[d].stage # "idle"
    BY <1>1, <1>2, <1>3, <2>1, NoOnboarding DEF CallsApart, Busy, At, SagaTypes
  <2>3. \A d, e \in Callers : onboarding'[d].stage # "idle" /\ onboarding'[e].stage # "idle"
                              /\ Process[d] # Process[e] => ~onboarding'[d].alone /\ met'
    BY <1>1, <1>2, <1>3, NoOnboarding DEF CallsApart, Busy, At
  <2> QED
    BY <2>2, <2>3 DEF CallsApart, Busy, At
<1>9. ManagerServes'
  <2>1. \A c \in Callers : ServesOf(c)'
    BY <1>1, <1>3 DEF SagaInv, ManagerServes, ServesOf, At, Idle
  <2> QED
    BY <1>1, <1>4, <2>1 DEF SagaInv, ManagerServes, Idle
<1>10. Checkpoints'
  <2>1. ASSUME NEW c \in Callers PROVE CheckpointsOf(c)'
    <3>1. CASE Process[c] = p
      BY <1>3, <3>1, NoOnboarding, IdleOwesNothing
    <3>2. CASE Process[c] # p
      BY <1>1, <1>3, <1>5, <3>2 DEF SagaInv, Checkpoints, CheckpointsOf, Subscribed, Initializing
    <3> QED
      BY <3>1, <3>2
  <2> QED
    BY <1>1, <1>5, <2>1 DEF SagaInv, Checkpoints
<1>11. Tenancy'
  <2>1. ASSUME NEW c \in Callers, ~touched PROVE TenancyOf(c)'
    <3>1. CASE Process[c] = p
      BY <1>3, <3>1, NoOnboarding, IdleOwesNothing
    <3>2. CASE Process[c] # p
      BY <1>1, <1>3, <2>1, <3>2 DEF SagaInv, Tenancy, TenancyOf, Busy, At, Active
    <3> QED
      BY <3>1, <3>2
  <2> QED
    BY <1>1, <2>1 DEF SagaInv, Tenancy, OwnRow
<1>12. Seeding'
  <2> SUFFICES ASSUME tenant # NoTenant, ~seeded, ~unseeded'
               PROVE  \E d \in Callers : CutOff(d)'
    BY <1>1 DEF Seeding
  <2>1. PICK d \in Callers : CutOff(d)
    BY <1>1 DEF SagaInv, Seeding
  <2>2. managing'[d] = managing[d]
    BY <1>1, <1>3, <2>1
  <2> QED
    BY <1>1, <2>1, <2>2 DEF CutOff
<1>13. Traces'
  <2>1. ASSUME NEW c \in Callers PROVE TracesOf(c)'
    <3>1. CASE Process[c] = p
      BY <1>3, <3>1, NoOnboarding, IdleOwesNothing
    <3>2. CASE Process[c] # p
      BY <1>1, <1>3, <3>2 DEF SagaInv, Traces, TracesOf, At
    <3> QED
      BY <3>1, <3>2
  <2>2. sent' # {} => sent # {}
    BY <1>1
  <2> QED
    BY <1>1, <2>1, <2>2 DEF SagaInv, Traces
<1>14. RetriesResume'
  BY <1>1, <1>3, NoOnboarding DEF SagaInv, RetriesResume
<1> QED
  BY <1>6, <1>7, <1>8, <1>9, <1>10, <1>11, <1>12, <1>13, <1>14 DEF SagaInv

\* A step that changes what an administrator does, and nothing of the saga.
LEMMA AdminStep ==
    ASSUME SagaInv, TenantInv, NEW a \in Admins, NEW call \in ManagerCalls, CallFits(call),
           call.kind # "Create", ~touched' => call = Idle,
           managing' = [managing EXCEPT ![a] = call], touched => touched',
           UNCHANGED <<tenant, seeded, input, mutex, onboarding, unit, subscription, features, audits,
                       sent, welcomes, met, unseeded>>
    PROVE  SagaInv' /\ TenantInv'
<1>1. a \in Managed /\ a \notin Callers /\ Callers \subseteq Managed /\ Admins \subseteq Managed
  BY ManagedAssumption
<1>2. managing'[a] = call /\ \A d \in Managed \ {a} : managing'[d] = managing[d]
  BY <1>1 DEF TenantInv, TenantTypes
<1>3. \A c \in Callers : managing'[c] = managing[c]
  BY <1>1, <1>2
<1>4. TenantInv'
  BY <1>1, TenantCalled
<1>5. SagaTypes'
  BY DEF SagaInv, SagaTypes, At
<1>6. CallsApart'
  BY DEF SagaInv, CallsApart, Busy, At
<1>7. ManagerServes'
  <2>1. \A c \in Callers : ServesOf(c)'
    BY <1>3 DEF SagaInv, ManagerServes, ServesOf, At, Idle
  <2>2. ASSUME NEW b \in Admins
        PROVE  managing'[b].kind # "Create" /\ (~touched' => managing'[b] = Idle)
    BY <1>1, <1>2 DEF SagaInv, ManagerServes
  <2> QED
    BY <2>1, <2>2 DEF ManagerServes, Idle
<1>8. Checkpoints'
  <2>1. NewSubscription' = NewSubscription /\ NoSubscription' = NoSubscription
    BY DEF NewSubscription, NoSubscription
  <2> QED
    BY <2>1 DEF SagaInv, Checkpoints, CheckpointsOf, Subscribed, Initializing
<1>9. Tenancy'
  <2>1. ~touched' => \A c \in Callers : TenancyOf(c)'
    BY <1>3 DEF SagaInv, Tenancy, TenancyOf, Busy, At, Active
  <2> QED
    BY <2>1 DEF SagaInv, Tenancy, OwnRow
<1>10. Seeding'
  BY <1>3 DEF SagaInv, Seeding, CutOff
<1>11. Traces'
  BY DEF SagaInv, Traces, TracesOf, At
<1>12. RetriesResume'
  BY DEF SagaInv, RetriesResume
<1> QED
  BY <1>4, <1>5, <1>6, <1>7, <1>8, <1>9, <1>10, <1>11, <1>12 DEF SagaInv

LEMMA SagaAdminister ==
    ASSUME SagaInv, TenantInv, NEW a \in Admins, Administer(a) \/ Administered(a)
    PROVE  SagaInv' /\ TenantInv'
<1>1. CASE Administered(a)
  <2>1. CallFits(Idle) /\ Idle \in ManagerCalls /\ Idle.kind # "Create"
    BY IdleCall DEF CallFits
  <2> QED
    BY <1>1, <2>1, AdminStep DEF Administered, sagaVars
<1>2. CASE Administer(a)
  <2>1. /\ touched' = TRUE
        /\ UNCHANGED <<tenant, seeded, input, mutex, onboarding, unit, subscription, features, audits,
                       sent, welcomes, met, unseeded>>
    BY <1>2 DEF Administer
  <2>2. PICK kind \in {"Suspend", "Restore", "SoftDelete", "HardDelete", "Update"},
             plan \in Plans \cup {NoTenant} :
          /\ managing' = [managing EXCEPT ![a] = Managing(kind, plan)]
          /\ kind = "Update" => plan \in Plans
    BY <1>2 DEF Administer
  <2> DEFINE call == Managing(kind, plan)
  <2>3. /\ call \in ManagerCalls /\ call.kind = kind /\ call.plan = plan /\ call.stage = "get"
        /\ call.result = "none"
    BY ManagingCall DEF Kinds, Changes
  <2>4. managing' = [managing EXCEPT ![a] = call]
    BY <2>2
  <2> HIDE DEF call
  <2>5. CallFits(call) /\ call.kind # "Create"
    BY <2>2, <2>3 DEF CallFits, Changes
  <2> QED
    BY <2>1, <2>3, <2>4, <2>5, AdminStep
<1> QED
  BY <1>1, <1>2

LEMMA SagaCancel ==
    ASSUME SagaInv, CancelSubscription
    PROVE  SagaInv'
<1>1. /\ subscription # NoSubscription /\ touched' = TRUE
      /\ subscription' = [subscription EXCEPT !.status = "cancelled"]
      /\ tenant' = tenant /\ seeded' = seeded /\ managing' = managing
      /\ UNCHANGED <<input, mutex, onboarding, unit, features, audits, sent, welcomes, met, unseeded>>
  BY DEF CancelSubscription, tenantVars
<1>2. SagaTypes'
  <2>1. subscription' \in Subscriptions
    BY <1>1 DEF SagaInv, SagaTypes, Subscriptions
  <2> QED
    BY <1>1, <2>1 DEF SagaInv, SagaTypes, At
<1>3. CallsApart'
  BY <1>1 DEF SagaInv, CallsApart, Busy, At
<1>4. ManagerServes'
  <2>1. \A c \in Callers : ServesOf(c)'
    BY <1>1 DEF SagaInv, ManagerServes, ServesOf, At, Idle
  <2> QED
    BY <1>1, <2>1 DEF SagaInv, ManagerServes
<1>5. Checkpoints'
  <2>1. \A c \in Callers : CheckpointsOf(c)'
    BY <1>1 DEF SagaInv, Checkpoints, CheckpointsOf, Initializing
  <2>2. unit \in {NoUnit, input.unit} /\ features
    BY <1>1 DEF SagaInv, Checkpoints
  <2> QED
    BY <1>1, <2>1, <2>2 DEF Checkpoints
<1>6. Tenancy'
  BY <1>1 DEF Tenancy
<1>7. Seeding'
  BY <1>1 DEF SagaInv, Seeding, CutOff
<1>8. Traces'
  BY <1>1 DEF SagaInv, Traces, TracesOf, At
<1>9. RetriesResume'
  BY <1>1 DEF RetriesResume
<1> QED
  BY <1>2, <1>3, <1>4, <1>5, <1>6, <1>7, <1>8, <1>9 DEF SagaInv

\* The manager works for a call that waits for it.
LEMMA ServedCall ==
    ASSUME SagaInv, TenantInv, NEW c \in Managed, managing[c].stage # "idle", ~touched
    PROVE  /\ c \in Callers /\ Busy(c)
           /\ \/ At(c, "create") /\ managing[c].kind = "Create" /\ managing[c].plan = input.plan
              \/ At(c, "activating") /\ managing[c].kind = "Activate"
           /\ \A d \in Callers : Busy(d) /\ onboarding[d].alone => d = c
<1>1. managing[c] # Idle
  BY IdleCall
<1>2. c \in Callers
  BY <1>1, ManagedAssumption DEF SagaInv, ManagerServes
<1>3. \/ At(c, "create") /\ managing[c].kind = "Create" /\ managing[c].plan = input.plan
      \/ At(c, "activating") /\ managing[c].kind = "Activate"
  BY <1>1, <1>2 DEF SagaInv, ManagerServes, ServesOf
<1>4. Busy(c)
  BY <1>3 DEF Busy, At
<1> QED
  BY <1>2, <1>3, <1>4, OnlyCall DEF SagaInv

LEMMA ManagerTenancy ==
    ASSUME SagaInv, TenantInv, NEW c \in Managed, ManagerStep(c), UNCHANGED sagaVars
    PROVE  Tenancy'
<1>1. input' = input /\ touched' = touched /\ onboarding' = onboarding
  BY DEF sagaVars
<1> SUFFICES ASSUME ~touched PROVE OwnRow' /\ \A d \in Callers : TenancyOf(d)'
  BY <1>1 DEF Tenancy
<1>2. /\ managing[c].stage # "idle" /\ managing'[c].kind = managing[c].kind
      /\ \A d \in Managed \ {c} : managing'[d] = managing[d]
  BY TenantServed DEF Served
<1>3. /\ c \in Callers /\ Busy(c)
      /\ \/ At(c, "create") /\ managing[c].kind = "Create" /\ managing[c].plan = input.plan
         \/ At(c, "activating") /\ managing[c].kind = "Activate"
      /\ \A d \in Callers : Busy(d) /\ onboarding[d].alone => d = c
  BY <1>2, ServedCall
<1>4. OwnRow /\ TenancyOf(c)
  BY <1>3 DEF SagaInv, Tenancy
<1>5. ASSUME OwnRow', TenancyOf(c)'
      PROVE  OwnRow' /\ \A d \in Callers : TenancyOf(d)'
  BY <1>1, <1>3, <1>5 DEF TenancyOf, Busy, At
<1>6. CASE RowCreated(c)
  <2>1. tenant' # NoTenant /\ tenant'.plan = input.plan /\ tenant'.status = "pending"
    BY <1>3, <1>6, NoTenantAssumption DEF RowCreated
  <2>2. At(c, "create")
    BY <1>3, <1>6 DEF RowCreated
  <2>3. OwnRow'
    BY <1>1, <2>1 DEF OwnRow
  <2>4. TenancyOf(c)'
    BY <1>1, <2>1, <2>2 DEF TenancyOf, At, Created, Placed
  <2> QED
    BY <1>5, <2>3, <2>4
<1>7. CASE RowSeeded(c)
  <2>1. tenant' = tenant /\ managing[c].stage = "seed" /\ managing[c].kind = "Create"
    BY <1>7 DEF RowSeeded
  <2>2. At(c, "create")
    BY <1>3, <2>1
  <2>3. OwnRow'
    BY <1>1, <1>4, <2>1 DEF OwnRow
  <2>4. TenancyOf(c)'
    BY <1>1, <1>4, <2>1, <2>2 DEF TenancyOf, At, Created, Placed, Busy
  <2> QED
    BY <1>5, <2>3, <2>4
<1>8. CASE RowTakenBack(c)
  <2>1. /\ tenant' \in {tenant, NoTenant} /\ managing[c].kind = "Create"
        /\ managing'[c].stage = "done" /\ managing'[c].result # "ok"
    BY <1>8 DEF RowTakenBack, Served
  <2>2. At(c, "create")
    BY <1>3, <2>1
  <2>3. OwnRow'
    BY <1>1, <1>4, <2>1 DEF OwnRow
  <2>4. TenancyOf(c)'
    BY <1>1, <2>1, <2>2 DEF TenancyOf, At, Created, Placed
  <2> QED
    BY <1>5, <2>3, <2>4
<1>9. CASE RowChanged(c)
  <2>1. managing[c].kind = "Activate" /\ At(c, "activating")
    BY <1>3, <1>9 DEF RowChanged, Changes
  <2>2. /\ tenant' # NoTenant /\ tenant'.status = "active" /\ tenant'.plan = tenant.plan
        /\ tenant # NoTenant
    BY <1>9, <2>1, NoTenantAssumption DEF RowChanged
  <2>3. OwnRow'
    BY <1>1, <1>4, <2>2 DEF OwnRow
  <2>4. TenancyOf(c)'
    BY <1>1, <2>1, <2>2 DEF TenancyOf, At, Active
  <2> QED
    BY <1>5, <2>3, <2>4
<1>10. CASE RowDeleted(c)
  BY <1>3, <1>10 DEF RowDeleted
<1>11. CASE RowKept(c)
  <2>1. tenant' = tenant /\ managing[c].kind # "HardDelete"
    BY <1>3, <1>11 DEF RowKept
  <2>2. /\ managing'[c].stage \notin {"seed", "emit"}
        /\ managing'[c].result = "ok" => managing[c].stage = "emit"
    BY <1>11, <2>1 DEF RowKept, Served
  <2>3. OwnRow'
    BY <1>1, <1>4, <2>1 DEF OwnRow
  <2>4. TenancyOf(c)'
    BY <1>1, <1>3, <1>4, <2>1, <2>2 DEF TenancyOf, At, Active, Busy
  <2> QED
    BY <1>5, <2>3, <2>4
<1> QED
  BY <1>6, <1>7, <1>8, <1>9, <1>10, <1>11, ManagerEffect

LEMMA ManagerSeeding ==
    ASSUME SagaInv, TenantInv, NEW c \in Managed, ManagerStep(c), UNCHANGED sagaVars
    PROVE  Seeding'
<1>1. unseeded' = unseeded
  BY DEF sagaVars
<1>2. /\ \A d \in Managed \ {c} : managing'[d] = managing[d]
      /\ managing'[c].kind = managing[c].kind
      /\ Callers \subseteq Managed
  BY TenantServed, ManagedAssumption DEF Served
<1> SUFFICES ASSUME tenant' # NoTenant, ~seeded', ~unseeded
             PROVE  \E d \in Callers : CutOff(d)'
  BY <1>1 DEF Seeding
<1>3. managing[c].stage # "done" => managing[c].result = "none"
  BY DEF TenantInv, ManagerCallsFit, CallFits
<1>4. managing[c].kind = "Create" => c \in Callers
  BY ManagedAssumption DEF SagaInv, ManagerServes
<1>5. CASE RowCreated(c)
  <2>1. managing'[c].stage = "seed" \/ (managing'[c].kind = "Create" /\ managing'[c].result = "lost")
    BY <1>2, <1>5 DEF RowCreated, Served
  <2> QED
    BY <1>4, <1>5, <2>1 DEF RowCreated, CutOff
<1>6. ASSUME tenant # NoTenant, seeded' = seeded, CutOff(c) => CutOff(c)'
      PROVE  \E d \in Callers : CutOff(d)'
  <2>1. PICK d \in Callers : CutOff(d)
    BY <1>6 DEF SagaInv, Seeding
  <2>2. CASE d = c
    BY <1>6, <2>1, <2>2
  <2>3. CASE d # c
    <3>1. managing'[d] = managing[d]
      BY <1>2, <2>3
    <3> QED
      BY <1>6, <2>1, <3>1 DEF CutOff
  <2> QED
    BY <2>2, <2>3
<1>7. CASE RowSeeded(c)
  <2>1. tenant # NoTenant /\ seeded' = seeded /\ managing'[c].stage = "rollback"
    BY <1>7 DEF RowSeeded, Served
  <2> QED
    BY <1>6, <2>1 DEF CutOff
<1>8. CASE RowTakenBack(c)
  <2>1. /\ tenant # NoTenant /\ seeded' = seeded /\ managing'[c].result = "partial"
        /\ managing'[c].kind = "Create"
    BY <1>2, <1>8 DEF RowTakenBack, Served
  <2> QED
    BY <1>6, <2>1 DEF CutOff
<1>9. CASE RowChanged(c)
  <2>1. tenant # NoTenant /\ seeded' = seeded /\ managing[c].kind \in Changes /\ managing[c].stage = "swap"
    BY <1>9, NoTenantAssumption DEF RowChanged
  <2>2. ~CutOff(c)
    BY <2>1 DEF CutOff, Changes
  <2> QED
    BY <1>6, <2>1, <2>2
<1>10. CASE RowDeleted(c)
  BY <1>10 DEF RowDeleted
<1>11. CASE RowKept(c)
  <2>1. tenant # NoTenant /\ seeded' = seeded /\ managing[c].stage \notin {"seed", "rollback", "done"}
    BY <1>11 DEF RowKept
  <2>2. ~CutOff(c)
    BY <1>3, <2>1 DEF CutOff
  <2> QED
    BY <1>6, <2>1, <2>2
<1> QED
  BY <1>5, <1>7, <1>8, <1>9, <1>10, <1>11, ManagerEffect

LEMMA SagaManage ==
    ASSUME SagaInv, TenantInv, NEW c \in Managed, ManagerStep(c), UNCHANGED sagaVars
    PROVE  SagaInv' /\ TenantInv'
<1>1. /\ input' = input /\ mutex' = mutex /\ onboarding' = onboarding /\ unit' = unit
      /\ subscription' = subscription /\ features' = features /\ audits' = audits /\ sent' = sent
      /\ welcomes' = welcomes /\ touched' = touched /\ met' = met
  BY DEF sagaVars
<1>2. /\ managing[c].stage # "idle"
      /\ managing'[c].kind = managing[c].kind /\ managing'[c].plan = managing[c].plan
      /\ \A d \in Managed \ {c} : managing'[d] = managing[d]
      /\ TenantInv'
  BY TenantServed DEF Served
<1>3. SagaTypes'
  BY <1>1 DEF SagaInv, SagaTypes, At
<1>4. CallsApart'
  BY <1>1 DEF SagaInv, CallsApart, Busy, At
<1>5. ManagerServes'
  <2>1. managing[c] # Idle
    BY <1>2, IdleCall
  <2>2. Callers \subseteq Managed /\ Admins \subseteq Managed
    BY ManagedAssumption
  <2>3. ASSUME NEW d \in Callers PROVE ServesOf(d)'
    <3>1. ServesOf(d)
      BY DEF SagaInv, ManagerServes
    <3>2. CASE d = c
      BY <1>1, <1>2, <2>1, <3>1, <3>2 DEF ServesOf, At
    <3>3. CASE d # c
      BY <1>1, <1>2, <2>2, <3>1, <3>3 DEF ServesOf, At, Idle
    <3> QED
      BY <3>2, <3>3
  <2>4. ASSUME NEW a \in Admins
        PROVE  managing'[a].kind # "Create" /\ (~touched => managing'[a] = Idle)
    BY <1>2, <2>1, <2>2 DEF SagaInv, ManagerServes
  <2> QED
    BY <1>1, <2>3, <2>4 DEF ManagerServes, Idle
<1>6. Checkpoints'
  <2>1. NewSubscription' = NewSubscription /\ NoSubscription' = NoSubscription
    BY <1>1 DEF NewSubscription, NoSubscription
  <2> QED
    BY <1>1, <2>1 DEF SagaInv, Checkpoints, CheckpointsOf, Subscribed, Initializing
<1>7. Tenancy' /\ Seeding'
  BY ManagerTenancy, ManagerSeeding
<1>8. Traces'
  BY <1>1 DEF SagaInv, Traces, TracesOf, At
<1>9. RetriesResume'
  BY <1>1 DEF SagaInv, RetriesResume
<1> QED
  BY <1>2, <1>3, <1>4, <1>5, <1>6, <1>7, <1>8, <1>9 DEF SagaInv

\* The steps that do not look at the saga.
LEMMA SagaKept ==
    ASSUME SagaInv,
           UNCHANGED <<tenantVars, input, mutex, onboarding, unit, subscription, features, audits, sent,
                       welcomes, touched, met, unseeded>>
    PROVE  SagaInv'
<1>1. managing' = managing /\ tenant' = tenant /\ seeded' = seeded
  BY DEF tenantVars
<1>2. SagaTypes' /\ CallsApart'
  BY DEF SagaInv, SagaTypes, CallsApart, Busy, At
<1>3. ManagerServes'
  BY <1>1 DEF SagaInv, ManagerServes, ServesOf, At, Idle
<1>4. Checkpoints'
  <2>1. NewSubscription' = NewSubscription /\ NoSubscription' = NoSubscription
    BY DEF NewSubscription, NoSubscription
  <2> QED
    BY <2>1 DEF SagaInv, Checkpoints, CheckpointsOf, Subscribed, Initializing
<1>5. Tenancy' /\ Seeding'
  BY <1>1 DEF SagaInv, Tenancy, TenancyOf, OwnRow, Active, Busy, At, Seeding, CutOff
<1>6. Traces' /\ RetriesResume'
  BY DEF SagaInv, Traces, TracesOf, At, RetriesResume
<1> QED
  BY <1>2, <1>3, <1>4, <1>5, <1>6 DEF SagaInv

-----------------------------------------------------------------------------
(* The theorems.                                                           *)

LEMMA IInvInit == Init => IInv
<1> SUFFICES ASSUME Init PROVE IInv
  OBVIOUS
<1>1. QuotaInv
  BY QuotaStart DEF Init
<1>2. /\ tenant = NoTenant /\ seeded = FALSE /\ managing = [c \in Managed |-> Idle]
      /\ input \in Inputs /\ mutex = [p \in Processes |-> Nobody]
      /\ onboarding = [c \in Callers |-> NotOnboarding] /\ unit = NoUnit
      /\ subscription = NoSubscription /\ audits = 0 /\ sent = {} /\ welcomes = 0
      /\ touched = FALSE /\ met = FALSE
  BY DEF Init, TenantInit
<1>3. CallFits(Idle)
  BY IdleCall DEF CallFits
<1>4. TenantInv
  BY <1>2, <1>3, IdleCall DEF TenantInv, TenantTypes, ManagerCallsFit
<1>5. \A c \in Callers : onboarding[c] = NotOnboarding /\ onboarding[c].stage = "idle"
                         /\ onboarding[c].result = "none" /\ managing[c] = Idle
  BY <1>2, NoOnboarding, ManagedAssumption
<1>6. SagaTypes
  <2>1. input \in ValidInputs
    BY <1>2, InputsAssumption
  <2> QED
    BY <1>2, <1>5, <2>1, NoOnboarding, NewSubscriptions DEF SagaTypes, At
<1>7. CallsApart
  BY <1>2, <1>5, ProcessAssumption DEF CallsApart, Busy, At
<1>8. ManagerServes
  BY <1>2, <1>5, IdleCall, ManagedAssumption DEF ManagerServes, ServesOf
<1>9. Checkpoints
  BY <1>2, <1>5 DEF Checkpoints, CheckpointsOf, Placed, Subscribed, Initializing
<1>10. Tenancy /\ Seeding
  BY <1>2, <1>5 DEF Tenancy, TenancyOf, OwnRow, Busy, At, Seeding
<1>11. Traces
  BY <1>2, <1>5 DEF Traces, TracesOf, At
<1>12. RetriesResume
  BY <1>5 DEF RetriesResume
<1> QED
  BY <1>1, <1>4, <1>6, <1>7, <1>8, <1>9, <1>10, <1>11, <1>12 DEF IInv, SagaInv

LEMMA CallerNext ==
    ASSUME IInv, NEW c \in Callers,
           \/ Onboard(c) \/ TenantCreated(c) \/ Resume(c) \/ Assign(c) \/ LookUp(c) \/ SetFeatures(c)
           \/ ResetQuota(c) \/ Subscribe(c) \/ Activate(c) \/ Activated(c) \/ CheckAudit(c)
           \/ RecordAudit(c) \/ Welcome(c) \/ Fail(c)
    PROVE  IInv'
<1> USE DEF IInv
<1>1. CASE Onboard(c)
  BY <1>1, SagaOnboard, QuotaKept DEF Onboard
<1>2. CASE TenantCreated(c)
  BY <1>2, SagaCreated, QuotaKept DEF TenantCreated
<1>3. CASE Resume(c)
  BY <1>3, SagaResume, TenantKept, QuotaKept DEF Resume
<1>4. CASE Assign(c)
  BY <1>4, SagaAssign, TenantKept, QuotaKept DEF Assign
<1>5. CASE LookUp(c)
  BY <1>5, SagaLookUp, TenantKept, QuotaKept DEF LookUp
<1>6. CASE SetFeatures(c)
  BY <1>6, SagaFeatures, TenantKept, QuotaKept DEF SetFeatures
<1>7. CASE ResetQuota(c)
  <2>1. Reset(QuotaOrder[onboarding[c].next]) /\ UNCHANGED tenantVars
    BY <1>7 DEF ResetQuota
  <2> QED
    BY <1>7, <2>1, SagaReset, TenantKept, QuotaReset
<1>8. CASE Subscribe(c)
  BY <1>8, SagaSubscribe, TenantKept, QuotaKept DEF Subscribe
<1>9. CASE Activate(c)
  BY <1>9, SagaActivate, QuotaKept DEF Activate
<1>10. CASE Activated(c)
  BY <1>10, SagaActivated, QuotaKept DEF Activated
<1>11. CASE CheckAudit(c) \/ RecordAudit(c)
  BY <1>11, SagaAudit, TenantKept, QuotaKept DEF CheckAudit, RecordAudit
<1>12. CASE Welcome(c)
  BY <1>12, SagaWelcome, TenantKept, QuotaKept DEF Welcome
<1>13. CASE Fail(c)
  BY <1>13, SagaFail, TenantKept, QuotaKept DEF Fail
<1> QED
  BY <1>1, <1>2, <1>3, <1>4, <1>5, <1>6, <1>7, <1>8, <1>9, <1>10, <1>11, <1>12, <1>13

LEMMA ConsumeNext ==
    ASSUME IInv, NEW c \in Consumers, QuotaStep(c), UNCHANGED <<tenantVars, sagaVars>>
    PROVE  IInv'
<1>1. QuotaInv'
  BY QuotaRead, QuotaWrite, QuotaRetry DEF IInv, QuotaStep
<1>2. SagaInv' /\ TenantInv'
  BY SagaKept, TenantKept DEF IInv, sagaVars
<1> QED
  BY <1>1, <1>2 DEF IInv

LEMMA UseNext ==
    ASSUME IInv, NEW c \in Consumers, Use(c)
    PROVE  IInv'
<1>1. PICK u \in Usages : Meter(c, Consumption(u)) \/ Meter(c, Recording(u))
  BY DEF Use
<1>2. QuotaInv'
  BY <1>1, ConsumptionMutations, QuotaMeter DEF IInv
<1>3. SagaInv' /\ TenantInv'
  BY SagaKept, TenantKept DEF IInv, Use
<1> QED
  BY <1>2, <1>3 DEF IInv

LEMMA IInvNext == IInv /\ [Next]_vars => IInv'
<1> SUFFICES ASSUME IInv, [Next]_vars PROVE IInv'
  OBVIOUS
<1>1. CASE UNCHANGED vars
  BY <1>1, SagaKept, TenantKept, QuotaKept DEF IInv, vars, sagaVars
<1>2. CASE \E c \in Callers :
             \/ Onboard(c) \/ TenantCreated(c) \/ Resume(c) \/ Assign(c) \/ LookUp(c) \/ SetFeatures(c)
             \/ ResetQuota(c) \/ Subscribe(c) \/ Activate(c) \/ Activated(c) \/ CheckAudit(c)
             \/ RecordAudit(c) \/ Welcome(c) \/ Fail(c)
  BY <1>2, CallerNext
<1>3. CASE \E p \in Processes : Restart(p)
  BY <1>3, SagaRestart, QuotaKept DEF IInv, Restart
<1>4. CASE \E a \in Admins : Administer(a) \/ Administered(a)
  BY <1>4, SagaAdminister, QuotaKept DEF IInv, Administer, Administered
<1>5. CASE \E c \in Consumers : Use(c)
  BY <1>5, UseNext
<1>6. CASE CancelSubscription
  BY <1>6, SagaCancel, TenantKept, QuotaKept DEF IInv, CancelSubscription
<1>7. CASE Manage
  BY <1>7, SagaManage, QuotaKept DEF IInv, Manage
<1>8. CASE Consume
  BY <1>8, ConsumeNext DEF Consume
<1>9. CASE Quiet
  BY <1>1, <1>9 DEF Quiet
<1> QED
  BY <1>1, <1>2, <1>3, <1>4, <1>5, <1>6, <1>7, <1>8, <1>9 DEF Next

LEMMA IInvAlways == Spec => []IInv
  BY IInvInit, IInvNext, PTL DEF Spec

\* However consumers, resets and retries of the quota store interleave, usage is
\* what committed mutations have added, within the limit of a dimension that is
\* only consumed and within the largest integer.
THEOREM MeteredUsage == Spec => []Metered
<1>1. IInv => Metered
  BY DEF IInv, QuotaInv
<1> QED
  BY <1>1, IInvAlways, PTL

\* The types of the saga, the tenant and the quotas, and the mutex: a process
\* has one call at a time (Service.Onboard holds service.mu).
THEOREM OnboardingTypes == Spec => []OnboardingTypeOK
<1>1. IInv => OnboardingTypeOK
  <2> SUFFICES ASSUME IInv PROVE OnboardingTypeOK
    OBVIOUS
  <2>1. TenantTypeOK
    <3>1. \A c \in Managed : managing[c] \in ManagerCalls
      BY DEF IInv, TenantInv, TenantTypes
    <3> QED
      BY <3>1 DEF IInv, TenantInv, TenantTypes, TenantTypeOK, ManagerCalls, ManagerStages, ManagerResults
  <2>2. QuotaTypeOK
    <3>1. \A c \in Consumers : metering[c] \in MeterCalls
      BY DEF IInv, QuotaInv, QuotaTypes
    <3>2. \A c \in Consumers : /\ metering[c].stage \in {"idle", "read", "write"}
                               /\ metering[c].attempt \in 0..MaxQuotaAttempts
      BY <3>1 DEF MeterCalls
    <3> QED
      BY <3>2 DEF IInv, QuotaInv, QuotaTypes, QuotaTypeOK, Rows
  <2>3. \A c \in Callers : onboarding[c].stage \in OnboardingStages
    BY DEF IInv, SagaInv, SagaTypes, OnboardingCalls
  <2> QED
    BY <2>1, <2>2, <2>3
    DEF IInv, SagaInv, SagaTypes, CallsApart, Busy, OnboardingTypeOK, OnboardingStages
<1> QED
  BY <1>1, IInvAlways, PTL

\* Repeating a call that failed or was cut off is never refused, as long as
\* nobody else has changed the tenant or its subscription.
THEOREM RetriesAreTaken == Spec => []RetriesResume
<1>1. IInv => RetriesResume
  BY DEF IInv, SagaInv
<1> QED
  BY <1>1, IInvAlways, PTL

-----------------------------------------------------------------------------
UsageKeptStep ==
    \A r \in Dimensions :
       Value(usage'[r]) < Value(usage[r]) /\ subscription # NoSubscription
       => \E c \in Callers : At(c, "reset") /\ onboarding'[c] # onboarding[c] /\ ~onboarding[c].alone

LEMMA UsageNeverLost == IInv /\ [Next]_vars => UsageKeptStep
<1> SUFFICES ASSUME IInv, [Next]_vars,
                    NEW r \in Dimensions, Value(usage'[r]) < Value(usage[r]), subscription # NoSubscription
             PROVE  \E c \in Callers : At(c, "reset") /\ onboarding'[c] # onboarding[c] /\ ~onboarding[c].alone
  BY DEF UsageKeptStep
<1>1. Value(usage[r]) \in Nat
  BY IntegerAssumption DEF IInv, QuotaInv, QuotaTypes, Rows, Value
<1>2. usage' # usage
  BY <1>1
<1>3. CASE \E c \in Callers : ResetQuota(c)
  <2>1. PICK c \in Callers : ResetQuota(c)
    BY <1>3
  <2>2. At(c, "reset") /\ onboarding'[c] # onboarding[c]
    BY <2>1, SagaReset DEF ResetQuota, IInv
  <2>3. ~onboarding[c].alone
    BY <2>2 DEF IInv, SagaInv, Checkpoints, CheckpointsOf, Initializing, At
  <2> QED
    BY <2>2, <2>3
<1>4. CASE Consume
  <2>1. PICK c \in Consumers : QuotaStep(c)
    BY <1>4 DEF Consume
  <2>2. WriteUsage(c)
    BY <1>2, <2>1 DEF QuotaStep, ReadUsage, RetryUsage
  <2>3. QuotaInv' /\ Value(usage'[r]) >= Value(usage[r])
    BY <2>2, QuotaWrite DEF IInv
  <2>4. Value(usage'[r]) \in Nat
    BY <2>3, IntegerAssumption DEF QuotaInv, QuotaTypes, Rows, Value
  <2> QED
    BY <1>1, <2>3, <2>4
<1>5. CASE \E c \in Callers :
             \/ Onboard(c) \/ TenantCreated(c) \/ Resume(c) \/ Assign(c) \/ LookUp(c) \/ SetFeatures(c)
             \/ Subscribe(c) \/ Activate(c) \/ Activated(c) \/ CheckAudit(c)
             \/ RecordAudit(c) \/ Welcome(c) \/ Fail(c)
  BY <1>2, <1>5 DEF Onboard, TenantCreated, Resume, Assign, LookUp, SetFeatures, Subscribe, Activate,
                    Activated, CheckAudit, RecordAudit, Welcome, Fail, quotaVars
<1>6. CASE \/ \E p \in Processes : Restart(p)
           \/ \E a \in Admins : Administer(a) \/ Administered(a)
           \/ \E c \in Consumers : Use(c)
           \/ CancelSubscription \/ Manage \/ Quiet \/ UNCHANGED vars
  BY <1>2, <1>6 DEF Restart, Administer, Administered, Use, Meter, CancelSubscription, Manage, Quiet,
                    quotaVars, vars
<1> QED
  BY <1>3, <1>4, <1>5, <1>6 DEF Next

\* Once the subscription exists, usage is lost only to a reset of a call that
\* overlapped with one of another process, whose mutex cannot keep them apart.
THEOREM UsageSurvivesRetries == Spec => UsageKept
<1>1. IInv /\ [Next]_vars => [UsageKeptStep]_vars
  BY UsageNeverLost
<1>2. Spec => [][UsageKeptStep]_vars
  BY <1>1, IInvAlways, PTL DEF Spec
<1> QED
  BY <1>2 DEF UsageKept, UsageKeptStep

-----------------------------------------------------------------------------
ReadyStep ==
    \A c \in Callers :
       onboarding[c].stage # "idle" /\ onboarding'[c].result = "ok" /\ onboarding[c].alone /\ ~touched
       => Ready'

\* Only the last step of the saga is a success.
LEMMA SuccessIsWelcome ==
    ASSUME IInv, [Next]_vars, NEW c \in Callers, Busy(c), onboarding'[c].result = "ok"
    PROVE  Welcome(c)
<1>1. SagaTypes /\ onboarding[c].result = "none"
  BY DEF IInv, SagaInv, SagaTypes, Busy
<1>2. onboarding'[c].result # onboarding[c].result
  BY <1>1
<1>3. \A d \in Callers : \A stage : Enter(d, stage) => onboarding'[c].result = onboarding[c].result
  BY <1>1 DEF Enter, SagaTypes, OnboardingCalls
<1>4. \A d \in Callers : Returns(d, "failed") \/ Returns(d, "refused") =>
         onboarding'[c].result # "ok"
  <2> SUFFICES ASSUME NEW d \in Callers, NEW result \in {"failed", "refused"}, Returns(d, result)
               PROVE  onboarding'[c].result # "ok"
    OBVIOUS
  <2> DEFINE call == [NotOnboarding EXCEPT !.result = result]
  <2>1. call.result = result
    BY NoOnboarding DEF OnboardingCalls
  <2>2. onboarding' = [onboarding EXCEPT ![d] = call]
    BY DEF Returns
  <2> HIDE DEF call
  <2> QED
    BY <1>1, <2>1, <2>2 DEF SagaTypes
<1>5. ASSUME NEW d \in Callers, Onboard(d) PROVE FALSE
  <2>1. d # c
    BY <1>5 DEF Onboard, Busy
  <2>2. onboarding'[c] = IF c \in Elsewhere(d) THEN [onboarding[c] EXCEPT !.alone = FALSE]
                         ELSE onboarding[c]
    BY <1>5, <2>1 DEF Onboard
  <2>3. onboarding[c] \in OnboardingCalls
    BY <1>1 DEF SagaTypes
  <2>4. onboarding'[c].result = onboarding[c].result
    BY <2>2, <2>3 DEF OnboardingCalls
  <2> QED
    BY <1>2, <2>4
<1>6. ASSUME NEW d \in Callers, TenantCreated(d) PROVE FALSE
  <2>1. CASE managing[d].result = "ok"
    <3>1. onboarding' = [onboarding EXCEPT ![d].stage = "assign", ![d].status = "pending"]
      BY <1>6, <2>1 DEF TenantCreated
    <3> QED
      BY <1>1, <1>2, <3>1 DEF SagaTypes, OnboardingCalls
  <2>2. CASE managing[d].result # "ok"
    BY <1>2, <1>3, <1>4, <1>6, <2>2 DEF TenantCreated
  <2> QED
    BY <2>1, <2>2
<1>7. ASSUME NEW d \in Callers, Resume(d) PROVE FALSE
  <2>1. \/ Returns(d, "failed") \/ Returns(d, "refused")
        \/ onboarding' = [onboarding EXCEPT ![d].stage = "assign", ![d].status = tenant.status]
    BY <1>7 DEF Resume
  <2> QED
    BY <1>1, <1>2, <1>4, <2>1 DEF SagaTypes, OnboardingCalls
<1>8. ASSUME NEW d \in Callers, LookUp(d) PROVE FALSE
  <2>1. \/ Returns(d, "refused")
        \/ onboarding' = [onboarding EXCEPT ![d].stage = "features",
                                            ![d].initialize = subscription = NoSubscription]
    BY <1>8 DEF LookUp
  <2> QED
    BY <1>1, <1>2, <1>4, <2>1 DEF SagaTypes, OnboardingCalls
<1>9. ASSUME NEW d \in Callers, SetFeatures(d) PROVE FALSE
  <2> DEFINE stage == IF onboarding[d].initialize THEN "reset" ELSE "activate"
  <2>1. onboarding' = [onboarding EXCEPT ![d].stage = stage, ![d].next = 1]
    BY <1>9 DEF SetFeatures
  <2> HIDE DEF stage
  <2> QED
    BY <1>1, <1>2, <2>1 DEF SagaTypes, OnboardingCalls
<1>10. ASSUME NEW d \in Callers, ResetQuota(d) PROVE FALSE
  <2> DEFINE stage == IF onboarding[d].next = Len(QuotaOrder) THEN "subscribe" ELSE onboarding[d].stage
             next == onboarding[d].next + 1
             call == [onboarding[d] EXCEPT !.next = next, !.stage = stage]
  <2>1. onboarding' = [onboarding EXCEPT ![d] = call]
    BY <1>1, <1>10 DEF ResetQuota, SagaTypes
  <2> HIDE DEF stage, next
  <2>2. call.result = onboarding[d].result
    BY <1>1 DEF SagaTypes, OnboardingCalls
  <2> HIDE DEF call
  <2> QED
    BY <1>1, <1>2, <2>1, <2>2 DEF SagaTypes
<1>11. ASSUME NEW d \in Callers,
              \/ Assign(d) \/ Subscribe(d) \/ Activate(d) \/ Activated(d) \/ CheckAudit(d)
              \/ RecordAudit(d) \/ Fail(d)
       PROVE  FALSE
  BY <1>2, <1>3, <1>4, <1>11 DEF Assign, Subscribe, Activate, Activated, CheckAudit, RecordAudit, Fail
<1>12. ASSUME NEW d \in Callers, Welcome(d) PROVE d = c
  <2>1. \E result : Returns(d, result)
    BY <1>12 DEF Welcome
  <2> QED
    BY <1>1, <1>2, <2>1 DEF Returns, SagaTypes
<1>13. ASSUME NEW p \in Processes, Restart(p) PROVE FALSE
  BY <1>1, <1>2, <1>13, NoOnboarding DEF Restart
<1>14. CASE \/ \E a \in Admins : Administer(a) \/ Administered(a)
            \/ \E d \in Consumers : Use(d)
            \/ CancelSubscription \/ Manage \/ Consume \/ Quiet \/ UNCHANGED vars
  BY <1>2, <1>14 DEF Administer, Administered, Use, CancelSubscription, Manage, Consume, Quiet,
                     sagaVars, vars
<1> QED
  BY <1>5, <1>6, <1>7, <1>8, <1>9, <1>10, <1>11, <1>12, <1>13, <1>14 DEF Next

LEMMA WelcomeIsReady ==
    ASSUME IInv, NEW c \in Callers, Welcome(c), onboarding[c].alone, ~touched
    PROVE  Ready'
<1>1. /\ onboarding[c].stage = "welcome" /\ Busy(c) /\ At(c, "welcome")
      /\ tenant' = tenant /\ seeded' = seeded /\ input' = input /\ unit' = unit /\ unseeded' = unseeded
      /\ subscription' = subscription /\ features' = features /\ audits' = audits /\ met' = met
  BY DEF Welcome, Busy, At, tenantVars
<1>2. NewSubscription' = NewSubscription
  BY <1>1 DEF NewSubscription
<1>3. Tenancy /\ TenancyOf(c) /\ OwnRow
  BY DEF IInv, SagaInv, Tenancy
<1>4. tenant # NoTenant /\ tenant.plan = input.plan /\ (input.skip \/ tenant.status = "active")
  BY <1>1, <1>3 DEF TenancyOf, OwnRow, Active, Created, Placed
<1>5. seeded \/ unseeded
  <2> SUFFICES ASSUME ~seeded, ~unseeded PROVE FALSE
    OBVIOUS
  <2>1. PICK d \in Callers : CutOff(d)
    BY <1>4 DEF IInv, SagaInv, Seeding
  <2>2. managing[d] # Idle
    BY <2>1, IdleCall DEF CutOff
  <2>3. Busy(d) /\ ~At(d, "welcome")
    BY <2>2 DEF IInv, SagaInv, ManagerServes, ServesOf, Busy, At
  <2>4. d = c
    BY <1>1, <2>3, OnlyCall DEF IInv, SagaInv
  <2> QED
    BY <1>1, <2>3, <2>4
<1>6. unit = input.unit /\ subscription = NewSubscription /\ features
  <2>1. unit = input.unit /\ subscription = NewSubscription
    BY <1>1 DEF IInv, SagaInv, Checkpoints, CheckpointsOf, Placed, Subscribed
  <2>2. NewSubscription # NoSubscription
    BY NewSubscriptions DEF IInv, SagaInv, SagaTypes
  <2> QED
    BY <2>1, <2>2 DEF IInv, SagaInv, Checkpoints
<1>7. audits >= 1 /\ (~met => audits = 1)
  <2>1. audits \in Nat /\ audits >= 1 /\ (~met => audits <= 1)
    BY <1>1 DEF IInv, SagaInv, SagaTypes, Traces, TracesOf
  <2> QED
    BY <2>1
<1>8. welcomes' >= 1
  <2>1. welcomes \in Nat /\ (sent # {} => welcomes >= 1)
    BY DEF IInv, SagaInv, SagaTypes, Traces
  <2>2. (Process[c] \in sent /\ welcomes' = welcomes) \/ welcomes' = welcomes + 1
    BY DEF Welcome
  <2> QED
    BY <2>1, <2>2
<1> QED
  BY <1>1, <1>2, <1>4, <1>5, <1>6, <1>7, <1>8 DEF Ready

\* A call that succeeds, met by no other process and with nobody else changing
\* the tenant, leaves everything an onboarded tenant has: its row in its plan
\* and active, its seed, its place, its subscription, features, audit and
\* welcome.
THEOREM SuccessIsReady == Spec => SuccessMeansReady
<1>1. IInv /\ [Next]_vars => [ReadyStep]_vars
  <2> SUFFICES ASSUME IInv, [Next]_vars, NEW c \in Callers, onboarding[c].stage # "idle",
                      onboarding'[c].result = "ok", onboarding[c].alone, ~touched
               PROVE  Ready'
    BY DEF ReadyStep
  <2>1. Busy(c)
    BY DEF Busy, At
  <2>2. Welcome(c)
    BY <2>1, SuccessIsWelcome
  <2> QED
    BY <2>2, WelcomeIsReady
<1>2. Spec => [][ReadyStep]_vars
  BY <1>1, IInvAlways, PTL DEF Spec
<1> QED
  BY <1>2 DEF SuccessMeansReady, ReadyStep
=============================================================================
