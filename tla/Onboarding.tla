----------------------------- MODULE Onboarding -----------------------------
(***************************************************************************)
(* onboarding.Service: the saga that creates a tenant, places it, sets its *)
(* features, resets its quotas, subscribes it to its plan, activates it,   *)
(* audits the operation and sends a welcome message.  A call holds its     *)
(* process's mutex from beginning to end; the stores are shared by all     *)
(* processes.  Any step may fail, and a process may stop and be started    *)
(* again: the same input is then sent once more.  The tenant manager and   *)
(* the quota store take their own steps (TenantManager, Quota), while an   *)
(* administrator manages the tenant and consumers use what it is granted.  *)
(***************************************************************************)
EXTENDS TenantManager, Quota, FiniteSets, SequencesExt

CONSTANTS
    Callers,     \* those who call Onboard, one call each at a time
    Processes,   \* instances of the program
    Process,     \* caller -> the process it runs in
    Nobody,      \* no caller
    Admins,      \* those who call the manager directly
    Inputs,      \* onboarding requests: plan, unit, skip (SkipActivation)
    Units, NoUnit,
    Usages,      \* what a model call consumes
    Budgets      \* bounds: calls of each kind in a behaviour

ASSUME ManagedAssumption == Managed = Callers \cup Admins /\ Callers \cap Admins = {}
ASSUME ProcessAssumption == Process \in [Callers -> Processes] /\ Nobody \notin Callers

\* Any other input is refused before the first step (Service.validate).
ValidInputs == [plan : Plans, unit : Units, skip : BOOLEAN]
ASSUME InputsAssumption == Inputs \subseteq ValidInputs
\* validateUsage refuses negative amounts.
ASSUME UsagesAssumption == Usages \subseteq [turns : Nat, input : Nat, output : Nat]

VARIABLES
    input,         \* the request that is repeated
    mutex,         \* process -> the caller that holds service.mu
    onboarding,    \* caller -> its call
    unit,          \* the tenant's assignment
    subscription,  \* "none", or its plan and status
    features,      \* the plan's flags and the tenant's overrides are set
    audits,        \* onboarding events in the audit store
    sent,          \* processes that have noted the welcome message as sent
    welcomes,      \* messages handed to the notifier
    budget,        \* calls that may still be made
    touched,       \* somebody else has changed the tenant or its subscription
    met,           \* calls of two processes have overlapped
    unseeded       \* a creation was cut off before its seeder had run

sagaVars == <<input, mutex, onboarding, unit, subscription, features, audits, sent, welcomes,
              budget, touched, met, unseeded>>
vars == <<tenantVars, quotaVars, sagaVars>>

NoSubscription == [plan |-> "none", status |-> "none"]

\* status: of the tenant as created or resumed.  initialize: no subscription was
\* found.  alone: no call of another process overlapped with this one.
NotOnboarding == [stage |-> "idle", status |-> "none", initialize |-> FALSE, next |-> 0,
                  alone |-> TRUE, result |-> "none"]

Init ==
    /\ TenantInit /\ QuotaInit
    /\ input \in Inputs
    /\ mutex = [p \in Processes |-> Nobody]
    /\ onboarding = [c \in Callers |-> NotOnboarding]
    /\ unit = NoUnit
    /\ subscription = NoSubscription
    /\ features = FALSE /\ audits = 0
    /\ sent = {} /\ welcomes = 0
    /\ budget \in Budgets
    /\ touched = FALSE /\ met = FALSE /\ unseeded = FALSE

-----------------------------------------------------------------------------
At(c, stage) == onboarding[c].stage = stage
Enter(c, stage) == onboarding' = [onboarding EXCEPT ![c].stage = stage]

\* The call returns and the mutex is released.
Returns(c, result) ==
    /\ onboarding' = [onboarding EXCEPT ![c] = [NotOnboarding EXCEPT !.result = result]]
    /\ mutex' = [mutex EXCEPT ![Process[c]] = Nobody]

Elsewhere(c) == {d \in Callers : Process[d] # Process[c] /\ ~At(d, "idle")}

\* Mutant of Onboard: the mutex is not taken.
OnboardUnlocked(c) ==
    /\ At(c, "idle")
    /\ budget.onboard > 0
    /\ budget' = [budget EXCEPT !.onboard = @ - 1]
    /\ onboarding' = [d \in Callers |->
          CASE d = c -> [NotOnboarding EXCEPT !.stage = "create", !.alone = Elsewhere(c) = {}]
            [] d \in Elsewhere(c) -> [onboarding[d] EXCEPT !.alone = FALSE]
            [] OTHER -> onboarding[d]]
    /\ met' = (met \/ Elsewhere(c) # {})
    /\ managing' = [managing EXCEPT ![c] = Managing("Create", input.plan)]
    /\ UNCHANGED <<tenant, seeded, quotaVars, input, mutex, unit, subscription, features, audits,
                   sent, welcomes, touched, unseeded>>

\* The mutex is taken and the plan read; tenants.Create begins.
Onboard(c) ==
    /\ At(c, "idle")
    /\ mutex[Process[c]] = Nobody
    /\ budget.onboard > 0
    /\ budget' = [budget EXCEPT !.onboard = @ - 1]
    /\ mutex' = [mutex EXCEPT ![Process[c]] = c]
    /\ onboarding' = [d \in Callers |->
          CASE d = c -> [NotOnboarding EXCEPT !.stage = "create", !.alone = Elsewhere(c) = {}]
            [] d \in Elsewhere(c) -> [onboarding[d] EXCEPT !.alone = FALSE]
            [] OTHER -> onboarding[d]]
    /\ met' = (met \/ Elsewhere(c) # {})
    /\ managing' = [managing EXCEPT ![c] = Managing("Create", input.plan)]
    /\ UNCHANGED <<tenant, seeded, quotaVars, input, unit, subscription, features, audits, sent,
                   welcomes, touched, unseeded>>

\* The row was created, not seeded, and will not be taken back.
CutOff(c) ==
    \/ managing[c].stage \in {"seed", "rollback"}
    \/ managing[c].kind = "Create" /\ managing[c].result \in {"partial", "lost"} /\ ~seeded

\* createOrResumeTenant: a tenant that exists is taken over further down.
TenantCreated(c) ==
    LET result == managing[c].result IN
    /\ At(c, "create")
    /\ managing[c].stage = "done"
    /\ CASE result = "ok" -> onboarding' = [onboarding EXCEPT ![c].stage = "assign", ![c].status = "pending"]
                             /\ UNCHANGED mutex
         [] result = "exists" -> Enter(c, "resume") /\ UNCHANGED mutex
         [] OTHER -> Returns(c, "failed")
    /\ unseeded' = (unseeded \/ CutOff(c))
    /\ managing' = [managing EXCEPT ![c] = Idle]
    /\ UNCHANGED <<tenant, seeded, quotaVars, input, unit, subscription, features, audits, sent,
                   welcomes, budget, touched, met>>

\* The tenant that exists must be the one asked for, pending or active.
Resume(c) ==
    /\ At(c, "resume")
    /\ CASE tenant = NoTenant -> Returns(c, "failed")
         [] tenant # NoTenant /\ tenant.plan = input.plan /\ tenant.status \in {"pending", "active"} ->
              /\ onboarding' = [onboarding EXCEPT ![c].stage = "assign", ![c].status = tenant.status]
              /\ UNCHANGED mutex
         [] OTHER -> Returns(c, "refused")
    /\ UNCHANGED <<tenantVars, quotaVars, input, unit, subscription, features, audits, sent,
                   welcomes, budget, touched, met, unseeded>>

\* assignOrResolveDeployment
Assign(c) ==
    /\ At(c, "assign")
    /\ unit' = IF unit = NoUnit THEN input.unit ELSE unit
    /\ IF unit' = input.unit THEN Enter(c, "lookup") /\ UNCHANGED mutex ELSE Returns(c, "refused")
    /\ UNCHANGED <<tenantVars, quotaVars, input, subscription, features, audits, sent, welcomes,
                   budget, touched, met, unseeded>>

\* The subscription the saga makes (Service.subscribe).
NewSubscription == [plan |-> input.plan, status |-> "active"]

\* Whether a subscription that exists is the one asked for.
Fits(s) == s.plan = input.plan /\ s.status = "active"

\* Mutant of LookUp: whether to initialize is taken from the tenant's status.
LookUpStatus(c) ==
    /\ At(c, "lookup")
    /\ IF subscription = NoSubscription \/ Fits(subscription)
       THEN /\ onboarding' = [onboarding EXCEPT ![c].stage = "features",
                                                ![c].initialize = onboarding[c].status = "pending"]
            /\ UNCHANGED mutex
       ELSE Returns(c, "refused")
    /\ UNCHANGED <<tenantVars, quotaVars, input, unit, subscription, features, audits, sent,
                   welcomes, budget, touched, met, unseeded>>

\* existingSubscription: the checkpoint of the saga.
LookUp(c) ==
    /\ At(c, "lookup")
    /\ IF subscription = NoSubscription \/ Fits(subscription)
       THEN /\ onboarding' = [onboarding EXCEPT ![c].stage = "features",
                                                ![c].initialize = subscription = NoSubscription]
            /\ UNCHANGED mutex
       ELSE Returns(c, "refused")
    /\ UNCHANGED <<tenantVars, quotaVars, input, unit, subscription, features, audits, sent,
                   welcomes, budget, touched, met, unseeded>>

\* SetPlanDefaults and SetTenantOverrides replace what is there.
SetFeatures(c) ==
    /\ At(c, "features")
    /\ features' = (features \/ onboarding[c].initialize)
    /\ onboarding' = [onboarding EXCEPT ![c].stage = IF onboarding[c].initialize THEN "reset" ELSE "activate",
                                        ![c].next = 1]
    /\ UNCHANGED <<tenantVars, quotaVars, input, mutex, unit, subscription, audits, sent, welcomes,
                   budget, touched, met, unseeded>>

\* The plan's quotas, one after the other.
QuotaOrder == SetToSeq(Dimensions)
ResetQuota(c) ==
    LET i == onboarding[c].next IN
    /\ At(c, "reset")
    /\ Reset(QuotaOrder[i])
    /\ onboarding' = [onboarding EXCEPT ![c].next = i + 1,
                                        ![c].stage = IF i = Len(QuotaOrder) THEN "subscribe" ELSE @]
    /\ UNCHANGED <<tenantVars, input, mutex, unit, subscription, features, audits, sent, welcomes,
                   budget, touched, met, unseeded>>

\* Mutant of Subscribe: a subscription made by somebody else is an error.
SubscribeOnce(c) ==
    /\ At(c, "subscribe")
    /\ IF subscription = NoSubscription
       THEN /\ subscription' = NewSubscription
            /\ Enter(c, "activate") /\ UNCHANGED mutex
       ELSE Returns(c, "refused") /\ UNCHANGED subscription
    /\ UNCHANGED <<tenantVars, quotaVars, input, unit, features, audits, sent, welcomes, budget,
                   touched, met, unseeded>>

\* subscribeOrResume
Subscribe(c) ==
    /\ At(c, "subscribe")
    /\ subscription' = IF subscription = NoSubscription THEN NewSubscription ELSE subscription
    /\ IF Fits(subscription') THEN Enter(c, "activate") /\ UNCHANGED mutex ELSE Returns(c, "refused")
    /\ UNCHANGED <<tenantVars, quotaVars, input, unit, features, audits, sent, welcomes, budget,
                   touched, met, unseeded>>

Activate(c) ==
    /\ At(c, "activate")
    /\ IF input.skip \/ onboarding[c].status = "active"
       THEN Enter(c, "audit") /\ UNCHANGED managing
       ELSE Enter(c, "activating") /\ managing' = [managing EXCEPT ![c] = Managing("Activate", NoTenant)]
    /\ UNCHANGED <<tenant, seeded, quotaVars, input, mutex, unit, subscription, features, audits, sent,
                   welcomes, budget, touched, met, unseeded>>

Activated(c) ==
    /\ At(c, "activating")
    /\ managing[c].stage = "done"
    /\ IF managing[c].result = "ok" THEN Enter(c, "audit") /\ UNCHANGED mutex ELSE Returns(c, "failed")
    /\ managing' = [managing EXCEPT ![c] = Idle]
    /\ UNCHANGED <<tenant, seeded, quotaVars, input, unit, subscription, features, audits, sent,
                   welcomes, budget, touched, met, unseeded>>

\* Mutant of CheckAudit: the event is recorded by every retry.
CheckAuditBlindly(c) ==
    /\ At(c, "audit")
    /\ Enter(c, "record")
    /\ UNCHANGED <<tenantVars, quotaVars, input, mutex, unit, subscription, features, audits, sent,
                   welcomes, budget, touched, met, unseeded>>

\* hasOnboardingAudit, then Record
CheckAudit(c) ==
    /\ At(c, "audit")
    /\ Enter(c, IF audits = 0 THEN "record" ELSE "welcome")
    /\ UNCHANGED <<tenantVars, quotaVars, input, mutex, unit, subscription, features, audits, sent,
                   welcomes, budget, touched, met, unseeded>>

RecordAudit(c) ==
    /\ At(c, "record")
    /\ audits' = audits + 1
    /\ Enter(c, "welcome")
    /\ UNCHANGED <<tenantVars, quotaVars, input, mutex, unit, subscription, features, sent, welcomes,
                   budget, touched, met, unseeded>>

\* The message is handed to the notifier unless this process has done so.  The
\* notifier's error may come after the delivery.
Welcome(c) ==
    LET p == Process[c] IN
    /\ At(c, "welcome")
    /\ \/ p \in sent /\ Returns(c, "ok") /\ UNCHANGED <<sent, welcomes>>
       \/ p \notin sent /\ sent' = sent \cup {p} /\ welcomes' = welcomes + 1 /\ Returns(c, "ok")
       \/ p \notin sent /\ welcomes' = welcomes + 1 /\ Returns(c, "failed") /\ UNCHANGED sent
    /\ UNCHANGED <<tenantVars, quotaVars, input, unit, subscription, features, audits, budget, touched,
                   met, unseeded>>

\* A service the call uses answers with an error, before or after its effect.
Fail(c) ==
    /\ ~At(c, "idle")
    /\ ~At(c, "create") /\ ~At(c, "activating")
    /\ Returns(c, "failed")
    /\ UNCHANGED <<tenantVars, quotaVars, input, unit, subscription, features, audits, sent, welcomes,
                   budget, touched, met, unseeded>>

\* A process ends with its calls and is started again.
Restart(p) ==
    /\ budget.restart > 0
    /\ budget' = [budget EXCEPT !.restart = @ - 1]
    /\ onboarding' = [c \in Callers |-> IF Process[c] = p THEN NotOnboarding ELSE onboarding[c]]
    /\ managing' = [c \in Managed |-> IF c \in Callers /\ Process[c] = p THEN Idle ELSE managing[c]]
    /\ unseeded' = (unseeded \/ \E c \in Callers : Process[c] = p /\ CutOff(c))
    /\ mutex' = [mutex EXCEPT ![p] = Nobody]
    /\ sent' = sent \ {p}
    /\ UNCHANGED <<tenant, seeded, quotaVars, input, unit, subscription, features, audits, welcomes,
                   touched, met>>

-----------------------------------------------------------------------------
(* The others.                                                             *)

\* The administrator calls the manager and takes its result.
Administer(a) ==
    /\ budget.admin > 0
    /\ managing[a] = Idle
    /\ budget' = [budget EXCEPT !.admin = @ - 1]
    /\ touched' = TRUE
    /\ \/ \E kind \in {"Suspend", "Restore", "SoftDelete", "HardDelete"} :
              managing' = [managing EXCEPT ![a] = Managing(kind, NoTenant)]
       \/ \E plan \in Plans :
              managing' = [managing EXCEPT ![a] = Managing("Update", plan)]
    /\ UNCHANGED <<tenant, seeded, quotaVars, input, mutex, onboarding, unit, subscription, features,
                   audits, sent, welcomes, met, unseeded>>

\* The host ends the subscription with an update of its row.
CancelSubscription ==
    /\ budget.admin > 0
    /\ subscription # NoSubscription
    /\ budget' = [budget EXCEPT !.admin = @ - 1]
    /\ touched' = TRUE
    /\ subscription' = [subscription EXCEPT !.status = "cancelled"]
    /\ UNCHANGED <<tenantVars, quotaVars, input, mutex, onboarding, unit, features, audits, sent,
                   welcomes, met, unseeded>>

Administered(a) ==
    /\ managing[a].stage = "done"
    /\ managing' = [managing EXCEPT ![a] = Idle]
    /\ UNCHANGED <<tenant, seeded, quotaVars, sagaVars>>

Manage == \E c \in Managed : ManagerStep(c) /\ UNCHANGED <<quotaVars, sagaVars>>

Use(c) ==
    /\ budget.use > 0
    /\ budget' = [budget EXCEPT !.use = @ - 1]
    /\ \E u \in Usages : Meter(c, Consumption(u)) \/ Meter(c, Recording(u))
    /\ UNCHANGED <<tenantVars, input, mutex, onboarding, unit, subscription, features, audits, sent,
                   welcomes, touched, met, unseeded>>

Consume == \E c \in Consumers : QuotaStep(c) /\ UNCHANGED <<tenantVars, sagaVars>>

Quiet ==
    /\ \A c \in Callers : At(c, "idle") /\ managing[c] = Idle
    /\ UNCHANGED vars

Next ==
    \/ \E c \in Callers :
           \/ Onboard(c) \/ TenantCreated(c) \/ Resume(c) \/ Assign(c) \/ LookUp(c) \/ SetFeatures(c)
           \/ ResetQuota(c) \/ Subscribe(c) \/ Activate(c) \/ Activated(c) \/ CheckAudit(c)
           \/ RecordAudit(c) \/ Welcome(c) \/ Fail(c)
    \/ \E p \in Processes : Restart(p)
    \/ \E a \in Admins : Administer(a) \/ Administered(a)
    \/ \E c \in Consumers : Use(c)
    \/ CancelSubscription \/ Manage \/ Consume \/ Quiet

Spec == Init /\ [][Next]_vars

-----------------------------------------------------------------------------
\* Type invariant of the tenant, the quotas and the calls, one at a time in each
\* process.
OnboardingTypeOK ==
    /\ TenantTypeOK /\ QuotaTypeOK
    /\ \A c \in Callers : mutex[Process[c]] = c <=> ~At(c, "idle")
    /\ \A c \in Callers : onboarding[c].stage \in
           {"idle", "create", "resume", "assign", "lookup", "features", "reset", "subscribe",
            "activate", "activating", "audit", "record", "welcome"}
    /\ unit \in Units \cup {NoUnit}
    /\ audits \in Nat /\ welcomes \in Nat

\* Once the subscription exists no retry resets the tenant's usage: usage is
\* only lost to a call that overlapped with one of another process, whose mutex
\* cannot keep them apart.
UsageKept ==
    [][\A r \in Dimensions :
         Value(usage'[r]) < Value(usage[r]) /\ subscription # NoSubscription
         => \E c \in Callers : At(c, "reset") /\ onboarding'[c] # onboarding[c] /\ ~onboarding[c].alone]_vars

\* Whatever step a call failed at or was cut off at, and whichever calls ran at
\* the same time, repeating it is never refused, as long as nobody else has
\* changed the tenant or its subscription.
RetriesResume == \A c \in Callers : onboarding[c].result = "refused" => touched

\* A call that succeeds has found or made everything an onboarded tenant has,
\* unless somebody else interfered: the tenant in its plan and active, placed,
\* subscribed, audited, once when no two processes met, and welcomed, once for
\* each run of a process and each failed delivery.  Its seeder has run, unless
\* the creation was cut off or could not be taken back: the retry that finds
\* the row does not seed it.
Ready ==
    /\ tenant # NoTenant
    /\ tenant.plan = input.plan
    /\ input.skip \/ tenant.status = "active"
    /\ seeded \/ unseeded
    /\ unit = input.unit
    /\ subscription = NewSubscription
    /\ features
    /\ audits >= 1 /\ (~met => audits = 1)
    /\ welcomes >= 1
SuccessMeansReady ==
    [][\A c \in Callers :
         onboarding[c].stage # "idle" /\ onboarding'[c].result = "ok" /\ onboarding[c].alone /\ ~touched
         => Ready']_vars
=============================================================================
