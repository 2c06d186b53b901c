-------------------------- MODULE CommissionLedger --------------------------
(***************************************************************************)
(* biz/commission: the life of an earning, from its accrual to its payment *)
(* (service.go, state.go and the Store of memory.go).  Store operations    *)
(* run under one lock and change nothing when they fail, so each is one    *)
(* step.  Service.StartSettlement, Settle and the users' TransitionEarning *)
(* read first and write later, under optimistic versions, and Settle calls *)
(* the payment provider in between.  The provider and the host that        *)
(* verifies its outcome are external: they are modelled as the Service     *)
(* uses them, with lost answers, late outcomes and repeated callbacks.     *)
(*                                                                         *)
(* A payee stands for the tenant, beneficiary and currency of an earning;  *)
(* amounts never change and are left out.                                  *)
(* A settlement is at version 1 while it is submitted and at 2 afterwards, *)
(* so its status stands for its version.                                   *)
(***************************************************************************)
EXTENDS Naturals, FiniteSets, CommissionStates

CONSTANTS
    Clients,        \* concurrent callers of the Service
    Earnings,       \* earning identifiers, ordered as the numbers they are
    Payee,          \* earning -> tenant, beneficiary and currency
    AvailableAt,    \* earning -> end of its freeze period
    Settlements,    \* settlement identifiers
    NoSettlement,   \* no settlement identifier
    References,     \* provider references
    NoReference,    \* the empty provider reference
    MaxDueBatch,    \* ServiceLimits.MaxDueBatch
    MaxTime,        \* bound on the clock
    MaxVersion      \* bound on the versions of an earning

ASSUME EarningsAssumption ==
    /\ Earnings \subseteq Nat
    /\ AvailableAt \in [Earnings -> Nat]
ASSUME SettlementsAssumption == NoSettlement \notin Settlements /\ NoReference \notin References
ASSUME BatchAssumption == MaxDueBatch \in Nat \ {0}

VARIABLES
    earnings,     \* earning -> status and version
    settlements,  \* settlement -> status, earnings and provider reference
    journal,      \* the append-only accounting entries
    outbox,       \* the events for the host to deliver
    provider,     \* settlement -> what the payment provider did with it
    call,         \* client -> the Service call it is in
    now           \* the clock

vars == <<earnings, settlements, journal, outbox, provider, call, now>>

NoEarning == [status |-> "absent", version |-> 0]
NoBatch == [status |-> "none", earnings |-> {}, reference |-> NoReference]

\* seen holds the earnings the call has read, NoEarning for one it has not.
NoCall == [op |-> "none", seen |-> [e \in Earnings |-> NoEarning], id |-> NoSettlement,
           action |-> "none", reference |-> NoReference]

Init ==
    /\ earnings = [e \in Earnings |-> NoEarning]
    /\ settlements = [s \in Settlements |-> NoBatch]
    /\ journal = {}
    /\ outbox = {}
    /\ provider = [s \in Settlements |-> "unknown"]
    /\ call = [c \in Clients |-> NoCall]
    /\ now = 1

-----------------------------------------------------------------------------
\* Mutant of Transitioned: a rejected batch gives its earnings back untouched.
TransitionedSameVersion(S, action) ==
    [e \in Earnings |->
        IF e \in S THEN [status |-> NextStatus(earnings[e].status, action),
                         version |-> IF action = "reject_settlement" THEN earnings[e].version - 1
                                     ELSE earnings[e].version + 1]
        ELSE earnings[e]]

Transitioned(S, action) ==
    [e \in Earnings |->
        IF e \in S THEN [status |-> NextStatus(earnings[e].status, action),
                         version |-> earnings[e].version + 1]
        ELSE earnings[e]]

Entries(S, action) ==
    {[earning |-> e, kind |-> JournalKind(action, NextStatus(earnings[e].status, action)),
      version |-> earnings[e].version + 1] : e \in S}

Event(aggregate, id, type, version) ==
    [aggregate |-> aggregate, id |-> id, type |-> type, version |-> version]
Events(S, action) ==
    {Event("earning", e, NextStatus(earnings[e].status, action), earnings[e].version + 1) :
       e \in S}

\* validateEarningTransitionsLocked and applyEarningTransitionsLocked, with the
\* further events of the operation: identifiers in use make it fail.
ApplyTransitions(S, action, further) ==
    /\ \A e \in S : NextStatus(earnings[e].status, action) # "invalid"
    /\ \A e \in S : earnings[e].version < MaxVersion
    /\ Entries(S, action) \cap journal = {}
    /\ (Events(S, action) \cup further) \cap outbox = {}
    /\ earnings' = Transitioned(S, action)
    /\ journal' = journal \cup Entries(S, action)
    /\ outbox' = outbox \cup Events(S, action) \cup further

Return(c) == call' = [call EXCEPT ![c] = NoCall]

-----------------------------------------------------------------------------
(* Accrual and time.                                                       *)

\* CommitEvent stores an earning that buildEventEntries made.
Accrue(e) ==
    LET status == IF AvailableAt[e] <= now THEN "available" ELSE "pending"
        kinds == IF status = "available" THEN {"accrual", "available"} ELSE {"accrual"}
    IN /\ earnings[e] = NoEarning
       /\ earnings' = [earnings EXCEPT ![e] = [status |-> status, version |-> 1]]
       /\ journal' = journal \cup {[earning |-> e, kind |-> k, version |-> 1] : k \in kinds}
       /\ outbox' = outbox \cup {Event("earning", e, status, 1)}
       /\ UNCHANGED <<settlements, provider, call, now>>

DueEarnings == {e \in Earnings : earnings[e].status = "pending" /\ AvailableAt[e] <= now}

\* The order in which MakeAvailableDue sorts the due earnings.
Before(d, e) == \/ AvailableAt[d] < AvailableAt[e]
                \/ AvailableAt[d] = AvailableAt[e] /\ d < e

\* Mutant of DueBatch: a backlog larger than the batch is left alone.
DueBatchEmptyAtLimit == IF Cardinality(DueEarnings) > MaxDueBatch THEN {} ELSE DueEarnings

\* The first MaxDueBatch of the due earnings in that order.
DueBatch == {e \in DueEarnings : Cardinality({d \in DueEarnings : Before(d, e)}) < MaxDueBatch}

MakeAvailableDue ==
    /\ DueBatch # {}
    /\ ApplyTransitions(DueBatch, "make_available", {})
    /\ UNCHANGED <<settlements, provider, call, now>>

Tick ==
    /\ now < MaxTime
    /\ now' = now + 1
    /\ UNCHANGED <<earnings, settlements, journal, outbox, provider, call>>

-----------------------------------------------------------------------------
(* Reading before writing.  A user decides on the earning and the version  *)
(* that GetEarning returned; StartSettlement and Settle read the earnings  *)
(* of their batch one by one.  What a caller wants of the earnings it has  *)
(* read makes no difference before it acts, and is chosen then.            *)

Seen(c) == {e \in Earnings : call[c].seen[e] # NoEarning}

GetEarning(c) ==
    \E e \in Earnings \ Seen(c) :
        /\ call[c].op \in {"none", "read"}
        /\ earnings[e] # NoEarning
        /\ call' = [call EXCEPT ![c].op = "read", ![c].seen[e] = earnings[e]]
        /\ UNCHANGED <<earnings, settlements, journal, outbox, provider, now>>

\* Every call may end here: a failed check or store call, a cancelled context,
\* or the end of the process between two steps.  What is stored stays.
Abandon(c) ==
    /\ call[c] # NoCall
    /\ Return(c)
    /\ UNCHANGED <<earnings, settlements, journal, outbox, provider, now>>

\* The optimistic check: the version the caller has read is still the version.
Unchanged(c) == \A e \in Seen(c) : call[c].seen[e].version = earnings[e].version

TransitionEarning(c) ==
    \E a \in ManualActions :
        /\ call[c].op = "read"
        /\ Cardinality(Seen(c)) = 1
        /\ Unchanged(c)
        /\ ApplyTransitions(Seen(c), a, {})
        /\ Return(c)
        /\ UNCHANGED <<settlements, provider, now>>

-----------------------------------------------------------------------------
(* Settlement.                                                             *)

\* Mutant of Claimable: the store trusts the reads of the Service.
ClaimableAsRead(c) ==
    /\ \A e \in Seen(c) : call[c].seen[e].status = "available"
    /\ \A d, e \in Seen(c) : Payee[d] = Payee[e]

\* What the Service checks of the earnings it has read, and the Store again.
Claimable(c) ==
    /\ \A e \in Seen(c) : call[c].seen[e].status = "available"
    /\ \A d, e \in Seen(c) : Payee[d] = Payee[e]
    /\ Unchanged(c)
    /\ \A e \in Seen(c) : earnings[e].status = "available"

\* The claim has no journal entry and no event of its own for the earnings.
\* Settle runs StartSettlement and goes on to submit the batch.
StartSettlement(c) ==
    \E s \in Settlements :
        /\ call[c].op = "read"
        /\ settlements[s] = NoBatch
        /\ Claimable(c)
        /\ \A e \in Seen(c) : earnings[e].version + 1 < MaxVersion
        /\ Event("settlement", s, "submitted", 1) \notin outbox
        /\ earnings' = Transitioned(Seen(c), "start_settlement")
        /\ settlements' = [settlements EXCEPT ![s] =
                             [status |-> "submitted", earnings |-> Seen(c), reference |-> NoReference]]
        /\ outbox' = outbox \cup {Event("settlement", s, "submitted", 1)}
        /\ \/ call' = [call EXCEPT ![c] = [NoCall EXCEPT !.op = "submit", !.id = s]]
           \/ Return(c)
        /\ UNCHANGED <<journal, provider, now>>

\* What the provider may do with a settlement it is asked to pay: a decision is
\* final, and the request may not have arrived.
Answers(s) == IF provider[s] \in {"paid", "refused"} THEN {provider[s]}
              ELSE {provider[s], "pending", "paid", "refused"}

\* CompleteSettlement with a decision; only a payment needs a reference.
Completions(s, decision) ==
    {[NoCall EXCEPT !.op = "complete", !.id = s, !.reference = r,
                    !.action = IF decision = "paid" THEN "settle" ELSE "reject_settlement"] :
       r \in References \cup (IF decision = "paid" THEN {} ELSE {NoReference})}

\* Mutant of Submit: any error of the adapter is taken for a rejection.
SubmitErrorRejects(c) ==
    LET s == call[c].id IN
    /\ call[c].op = "submit"
    /\ \E p \in Answers(s) :
           /\ provider' = [provider EXCEPT ![s] = p]
           /\ \E k \in Completions(s, "refused") : call' = [call EXCEPT ![c] = k]
    /\ UNCHANGED <<earnings, settlements, journal, outbox, now>>

\* adapter.Submit.  The Service goes on to CompleteSettlement with a decision it
\* is told; a pending receipt, an unverified error or an invalid receipt makes
\* Settle return with the settlement submitted.
Submit(c) ==
    LET s == call[c].id IN
    /\ call[c].op = "submit"
    /\ \E p \in Answers(s) :
           /\ provider' = [provider EXCEPT ![s] = p]
           /\ \/ /\ p \in {"paid", "refused"}
                 /\ \E k \in Completions(s, p) : call' = [call EXCEPT ![c] = k]
              \/ Return(c)
    /\ UNCHANGED <<earnings, settlements, journal, outbox, now>>

\* A host with an asynchronous provider submits the batch by itself, at any
\* time and with the settlement identifier as the key of the payment.
HostSubmits(s) ==
    /\ settlements[s].status = "submitted"
    /\ provider[s] = "unknown"
    /\ provider' = [provider EXCEPT ![s] = "pending"]
    /\ UNCHANGED <<earnings, settlements, journal, outbox, call, now>>

ProviderDecides(s) ==
    /\ provider[s] = "pending"
    /\ \E p \in {"paid", "refused"} : provider' = [provider EXCEPT ![s] = p]
    /\ UNCHANGED <<earnings, settlements, journal, outbox, call, now>>

\* The host has verified the outcome and calls CompleteSettlement, perhaps again.
CallComplete(c, s) ==
    /\ call[c] = NoCall
    /\ provider[s] \in {"paid", "refused"}
    /\ \E k \in Completions(s, provider[s]) : call' = [call EXCEPT ![c] = k]
    /\ UNCHANGED <<earnings, settlements, journal, outbox, provider, now>>

\* Mutants of FinishSettlement: a finished batch is finished again; a batch is
\* finished without its earnings, or they without it.
FinishAgain(c) ==
    LET k == call[c]
        outcome == IF k.action = "settle" THEN "settled" ELSE "rejected"
    IN /\ k.op = "complete"
       /\ settlements[k.id] # NoBatch
       /\ earnings' = [e \in Earnings |-> IF e \in settlements[k.id].earnings /\ earnings[e].status = "settling"
                                         THEN Transitioned({e}, k.action)[e] ELSE earnings[e]]
       /\ settlements' = [settlements EXCEPT ![k.id].status = outcome, ![k.id].reference = k.reference]
       /\ Return(c)
       /\ UNCHANGED <<journal, outbox, provider, now>>

FinishBatchOnly(c) ==
    LET k == call[c]
        outcome == IF k.action = "settle" THEN "settled" ELSE "rejected"
    IN /\ k.op = "complete"
       /\ settlements[k.id].status = "submitted"
       /\ settlements' = [settlements EXCEPT ![k.id].status = outcome, ![k.id].reference = k.reference]
       /\ Return(c)
       /\ UNCHANGED <<earnings, journal, outbox, provider, now>>

FinishEarningsOnly(c) ==
    LET k == call[c]
        batch == settlements[k.id].earnings
    IN /\ k.op = "complete"
       /\ settlements[k.id].status = "submitted"
       /\ \A e \in batch : earnings[e].status = "settling"
       /\ ApplyTransitions(batch, k.action, {})
       /\ Return(c)
       /\ UNCHANGED <<settlements, provider, now>>

FinishSettlement(c) ==
    LET k == call[c]
        batch == settlements[k.id].earnings
        outcome == IF k.action = "settle" THEN "settled" ELSE "rejected"
    IN /\ k.op = "complete"
       /\ settlements[k.id].status = "submitted"
       /\ \A e \in batch : earnings[e].status = "settling"
       /\ ApplyTransitions(batch, k.action, {Event("settlement", k.id, outcome, 2)})
       /\ settlements' = [settlements EXCEPT ![k.id].status = outcome, ![k.id].reference = k.reference]
       /\ Return(c)
       /\ UNCHANGED <<provider, now>>

\* The same outcome again succeeds, another one is ErrSettlementOutcomeConflict;
\* neither changes anything.
FinishRepeated(c) ==
    /\ call[c].op = "complete"
    /\ settlements[call[c].id].status \in {"settled", "rejected"}
    /\ Return(c)
    /\ UNCHANGED <<earnings, settlements, journal, outbox, provider, now>>

-----------------------------------------------------------------------------
Step(c) == \/ TransitionEarning(c)
           \/ StartSettlement(c)
           \/ Submit(c)
           \/ FinishSettlement(c)
           \/ FinishRepeated(c)

Next == \/ \E c \in Clients : \/ GetEarning(c)
                              \/ \E s \in Settlements : CallComplete(c, s)
                              \/ Abandon(c)
                              \/ Step(c)
        \/ \E e \in Earnings : Accrue(e)
        \/ \E s \in Settlements : HostSubmits(s) \/ ProviderDecides(s)
        \/ MakeAvailableDue
        \/ Tick

Spec == Init /\ [][Next]_vars

\* Calls return; the provider receives and decides what is submitted; the host
\* repeats the callback until one gets through, and keeps releasing due earnings.
FairSpec ==
    /\ Spec
    /\ \A c \in Clients : /\ WF_vars(Step(c) \/ Abandon(c))
                          /\ SF_vars(FinishSettlement(c))
                          /\ \A s \in Settlements : SF_vars(CallComplete(c, s))
    /\ \A s \in Settlements : WF_vars(HostSubmits(s)) /\ WF_vars(ProviderDecides(s))
    /\ WF_vars(MakeAvailableDue)

-----------------------------------------------------------------------------
Batches == [status : {"submitted", "settled", "rejected"}, earnings : SUBSET Earnings,
            reference : References \cup {NoReference}]
EarningStates == [status : EarningStatuses, version : Nat] \cup {NoEarning}
Kinds == {"accrual", "available", "held", "settlement", "reversal", "recovery"}

CallStates ==
    {k \in [op : {"none", "read", "submit", "complete"}, seen : [Earnings -> EarningStates],
            id : Settlements \cup {NoSettlement}, action : {"none", "settle", "reject_settlement"},
            reference : References \cup {NoReference}] :
       k.op \in {"submit", "complete"} => k.id \in Settlements}

\* Type invariant of the ledger, the provider and the calls.
TypeOK ==
    /\ earnings \in [Earnings -> EarningStates]
    /\ settlements \in [Settlements -> Batches \cup {NoBatch}]
    /\ journal \subseteq [earning : Earnings, kind : Kinds, version : Nat]
    /\ outbox \subseteq [aggregate : {"earning", "settlement"}, id : Earnings \cup Settlements,
                         type : EarningStatuses \cup {"submitted", "rejected"}, version : Nat]
    /\ provider \in [Settlements -> {"unknown", "pending", "paid", "refused"}]
    /\ call \in [Clients -> CallStates]
    /\ now \in Nat

\* The batches that have a claim on their earnings.
Live(s) == settlements[s].status \in {"submitted", "settled"}

\* "A settling earning always has a durable settlement batch" (TransitionEarning
\* of memory.go), and the other way round: an earning is settling exactly while
\* one submitted batch holds it, and settled or due for recovery exactly when one
\* settled batch does; no two such batches share an earning.
ClaimedOnce ==
    /\ \A s \in Settlements : \A e \in settlements[s].earnings :
           /\ settlements[s].status = "submitted" => earnings[e].status = "settling"
           /\ settlements[s].status = "settled" => earnings[e].status \in {"settled", "recovery_due"}
    /\ \A r, s \in Settlements : r # s /\ Live(r) /\ Live(s) =>
           settlements[r].earnings \cap settlements[s].earnings = {}
    /\ \A e \in Earnings : earnings[e].status \in {"settling", "settled", "recovery_due"} =>
           \E s \in Settlements : Live(s) /\ e \in settlements[s].earnings

\* Whatever the provider answered, lost or decided late, and however callbacks
\* were repeated: it pays an earning in one batch at most, never one that has
\* been given back, held or reversed, and the batch it paid stays live.
PaidOnce ==
    /\ \A s \in Settlements : provider[s] = "paid" =>
           /\ Live(s)
           /\ \A e \in settlements[s].earnings :
                  earnings[e].status \in {"settling", "settled", "recovery_due"}
    /\ \A r, s \in Settlements : r # s /\ provider[r] = "paid" /\ provider[s] = "paid" =>
           settlements[r].earnings \cap settlements[s].earnings = {}

\* The journal entry that explains a status; a claim has none.
Explains(status) ==
    CASE status = "pending"      -> "accrual"
      [] status = "held"         -> "held"
      [] status = "settled"      -> "settlement"
      [] status = "reversed"     -> "reversal"
      [] status = "recovery_due" -> "recovery"
      [] OTHER                   -> "available"

\* "Earning is the mutable projection of immutable journal entries": the entry
\* and the event of an earning's version explain its status (for a settling one
\* those of the version before the claim), and none is ahead of it, so that a
\* legal transition is never refused for an identifier in use.
JournalExplains ==
    /\ \A e \in Earnings : earnings[e] # NoEarning =>
           LET last == IF earnings[e].status = "settling" THEN earnings[e].version - 1
                       ELSE earnings[e].version
               status == IF earnings[e].status = "settling" THEN "available" ELSE earnings[e].status
           IN /\ [earning |-> e, kind |-> Explains(status), version |-> last] \in journal
              /\ Event("earning", e, status, last) \in outbox
    /\ \A entry \in journal : entry.version <= earnings[entry.earning].version
    /\ \A event \in outbox :
           event.aggregate = "earning" => event.version <= earnings[event.id].version

\* A version never returns with another state, so that a decision taken on what
\* was read applies to what was read.
VersionsIdentify ==
    \A c \in Clients, e \in Earnings :
        call[c].seen[e].version = earnings[e].version => call[c].seen[e] = earnings[e]

\* The recorded outcome of a batch, its earnings and its reference are final.
OutcomeFinal ==
    [][\A s \in Settlements : settlements[s].status \in {"settled", "rejected"} =>
           settlements'[s] = settlements[s]]_vars

\* Every submitted batch ends with an outcome, also when Settle lost the answer.
BatchesResolve ==
    \A s \in Settlements : settlements[s].status = "submitted" ~> settlements[s].status # "submitted"

\* Repeated calls release every due earning although each takes a bounded batch.
DueReleased == \A e \in Earnings : e \in DueEarnings ~> earnings[e].status # "pending"

-----------------------------------------------------------------------------
(* Strengthenings that make the invariants inductive.                      *)

\* The ledger and the provider never disagree on a decision, and a caller that
\* is about to report one reports the provider's.
Agreement ==
    /\ \A s \in Settlements :
           /\ settlements[s].status = "none" => provider[s] = "unknown"
           /\ settlements[s].status = "settled" => provider[s] = "paid"
           /\ settlements[s].status = "rejected" => provider[s] = "refused"
    /\ \A c \in Clients :
           /\ call[c].op = "submit" => settlements[call[c].id].status # "none"
           /\ call[c].op = "complete" =>
                  provider[call[c].id] = IF call[c].action = "settle" THEN "paid" ELSE "refused"

\* Stored versions start at 1, a claim is never the first, and no caller has
\* read a version that is still to come.
VersionBounds ==
    /\ \A e \in Earnings : /\ earnings[e] # NoEarning => earnings[e].version >= 1
                           /\ earnings[e].status = "settling" => earnings[e].version >= 2
    /\ \A c \in Clients, e \in Earnings : call[c].seen[e].version <= earnings[e].version

\* The events of an earning bear its identifier, the others a settlement's.
EventIds == \A event \in outbox :
                event.id \in IF event.aggregate = "earning" THEN Earnings ELSE Settlements
=============================================================================
