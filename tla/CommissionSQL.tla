---------------------------- MODULE CommissionSQL ----------------------------
(***************************************************************************)
(* biz/commission/sql_store.go: the Store on SQL transactions.  A mutation *)
(* is a transaction that reads the rows it depends on with SELECT ... FOR  *)
(* UPDATE, one statement at a time, then writes and commits; it is started *)
(* again, a few times, when the database reports a conflict.  The database *)
(* is external and isolates transactions in one of two ways:               *)
(*   "locking"   a row read for update is held until the transaction ends; *)
(*               reading a missing row or a range holds the gap, which     *)
(*               other readers share and which makes inserts wait;         *)
(*   "snapshot"  all reads see the state of the first one; a transaction   *)
(*               that has read what another one has overwritten since      *)
(*               cannot commit, and finds a row inserted since with a      *)
(*               duplicate-key error.                                      *)
(* Any transaction may be refused with a retryable error and any call may  *)
(* fail for good, also after its commit.                                   *)
(*                                                                         *)
(* A database may lock more than this: index entries, the rows of plain    *)
(* SELECTs, what journalIDExists looks for.  Fewer locks leave more        *)
(* interleavings, which is what the contract is checked against; nothing   *)
(* is said of who waits for whom, a deadlock is one of the errors that     *)
(* start a transaction again.                                              *)
(***************************************************************************)
EXTENDS CommissionTables, Sequences

CONSTANTS
    Clients, Requests, Starts,
    Rules,        \* the program's slots in the order of its rules
    MaxAttempts,  \* commissionMutationMaxAttempts
    MaxCalls      \* bound on the calls made in a behaviour

Queries == {"GetTemplate", "GetProgram", "GetEarning", "GetSettlement", "ListAttributions",
            "ListEarnings", "ListJournalEntries", "ListOutbox"}

Mutations == {"TransitionTemplate", "CreateProgram", "TransitionProgram", "SetAttribution",
              "CommitEvent", "TransitionEarning", "MakeAvailableDue", "StartSettlement",
              "FinishSettlement", "MarkOutboxPublished"}

ASSUME StartsAssumption == \A d \in Starts : d \in TableSets /\ Consistent(d) /\ Numbered(d)
ASSUME RequestsAssumption ==
    \A op \in Requests : op.kind \in Queries \cup Mutations \cup {"CreateTemplate"} /\ ValidRequest(op)
ASSUME RulesAssumption ==
    /\ Rules \in Seq(Slots) /\ \A s \in Slots : \E i \in DOMAIN Rules : Rules[i] = s
    /\ \A i, j \in DOMAIN Rules : Rules[i] = Rules[j] => i = j
ASSUME FinitenessAssumption == IsFiniteSet(Earnings) /\ IsFiniteSet(Clients)
ASSUME AttemptsAssumption == MaxAttempts \in Nat \ {0}

VARIABLES
    db,         \* the committed tables
    call,       \* client -> its call and the transaction it runs
    reply,      \* client -> what its last call returned
    isolation,  \* how the database isolates transactions
    calls       \* calls made so far

vars == <<db, call, reply, isolation, calls>>

\* attempt, at: the transaction and its next statement.  held, gaps: the rows it
\* has read, and the missing ones.  snapshot: whether what it has
\* read was overwritten since.  effect: whether the call has changed the tables.
\* stage: "tx" inside a transaction, "end" when only its end is outstanding,
\* "lookup" and "lookupEarnings" in existingCommitResult, "return" afterwards.
NoOp == [kind |-> "none"]
NoCall == [op |-> NoOp, stage |-> "none", attempt |-> 0, at |-> 0, held |-> {}, gaps |-> {},
           snapshot |-> "valid", effect |-> "none", answer |-> Unknown]
Started(op, attempt) ==
    [NoCall EXCEPT !.op = op, !.attempt = attempt, !.at = 1,
                   !.stage = IF op.kind \in Queries \cup {"CreateTemplate"} THEN "single" ELSE "tx"]

\* Mutant of Ended: a refused transaction is not rolled back.
EndedKeepsLocks(k, answer) == [k EXCEPT !.stage = "end", !.answer = answer]

\* inSerializableTx rolls back, or has committed: nothing stays locked.
Ended(k, answer) ==
    [NoCall EXCEPT !.op = k.op, !.attempt = k.attempt, !.stage = "end", !.answer = answer]

Init ==
    /\ db \in Starts
    /\ call = [c \in Clients |-> NoCall]
    /\ reply = [c \in Clients |-> Unknown]
    /\ isolation \in {"locking", "snapshot"}
    /\ calls = 0

-----------------------------------------------------------------------------
(* The statements of an operation.                                         *)

Template == <<"template">>
Program == <<"program">>
DueRange == <<"range">>   \* the pending earnings due at some time

\* The elements of S by key and then by number, as ORDER BY lists them.
Before(S, key, e) == {f \in S : key[f] < key[e] \/ (key[f] = key[e] /\ f < e)}
Ordered(S, key) ==
    [i \in 1..Cardinality(S) |-> CHOOSE e \in S : Cardinality(Before(S, key, e)) = i - 1]

\* sortedEarningIDs
Sorted(S) == Ordered(S, [e \in S |-> 0])

\* LIMIT n
Limited(s, n) == [i \in {j \in DOMAIN s : j <= n} |-> s[i]]

\* The SELECT of MakeAvailableDue.
DueEarnings(d, op) ==
    {e \in Earnings : d.earnings[e].status = "pending" /\ d.earnings[e].due <= op.now}
Due(d, op) ==
    LET due == DueEarnings(d, op)
    IN Limited(Ordered(due, [e \in due |-> d.earnings[e].due]), op.limit)

Present(d, row) ==
    CASE row = Template -> d.template # "absent"
      [] row = Program -> d.program.status # "absent"
      [] row = DueRange -> FALSE
      [] row[1] = "attribution" -> d.attributions[row[2]] # NoAttribution
      [] row[1] = "event" -> d.events[row[2]] # NoFacts
      [] row[1] = "earning" -> d.earnings[row[2]] # NoEarning
      [] row[1] = "settlement" -> d.settlements[row[2]] # NoBatch
      [] row[1] = "message" -> row[2] \in d.outbox

\* A SELECT ... FOR UPDATE of a row and what the code makes of it: it goes on,
\* or ends the transaction with an answer.
Statement(row, verdict) == [row |-> row, verdict |-> verdict]

TransitionTemplate(d, op) ==
    << Statement(Template,
         Refuse(d.template = "absent", "template_not_found",
         Refuse(<<d.template, op.next>> \notin TemplateSteps, "invalid_transition", Continue))) >>

CreateProgram(d, op) ==
    << Statement(Program, Refuse(d.program.status # "absent", "program_exists", Continue)),
       Statement(Template, Refuse(d.template = "absent", "template_not_found", Continue)) >>

TransitionProgram(d, op) ==
    LET step == Statement(Program,
                  Refuse(d.program.status = "absent", "program_not_found",
                  Refuse(d.program.version # op.expected, "version_conflict",
                  Refuse(<<d.program.status, op.next>> \notin ProgramSteps, "invalid_transition",
                         Continue))))
        terms == Statement(Template, Refuse(d.template # "active", "template_not_active", Continue))
    IN IF op.next = "active" THEN <<step, terms>> ELSE <<step>>

\* A missing attribution has version 0.
AttributionIs(d, slot, expected) ==
    Statement(<<"attribution", slot>>,
              Refuse(d.attributions[slot].version # expected, "version_conflict", Continue))
SetAttribution(d, op) == << AttributionIs(d, op.slot, op.expected) >>

\* A recorded event ends the transaction with its earnings, listed by their
\* identifiers: a plain SELECT, of which a serializable transaction on a locking
\* database keeps the rows too.  A new event is checked against the program, its
\* slots and its template.
CommitEvent(d, op) ==
    LET found == d.events[op.source]
        earnings == StoredEarnings(d, op.source)
        list == Sorted(earnings)
        answer == Ok(EarningsOf(d, op.source))
        event == Statement(<<"event", op.source>>,
                           Refuse(found \notin {NoFacts, op.facts}, "event_conflict",
                           IF found # NoFacts /\ earnings = {} THEN answer ELSE Continue))
        stored == [i \in DOMAIN list |-> Statement(<<"earning", list[i]>>,
                                                   IF i = Len(list) THEN answer ELSE Continue)]
        program == Statement(Program,
                     Refuse(d.program.status = "absent", "program_not_found",
                     Refuse(d.program.version # op.program, "version_conflict",
                     Refuse(d.program.status # "active", "program_not_active", Continue))))
        slots == [i \in DOMAIN Rules |-> AttributionIs(d, Rules[i], op.slots[Rules[i]])]
        terms == Statement(Template, Refuse(d.template # "active", "template_not_active", Continue))
    IN IF found # NoFacts THEN <<event>> \o stored ELSE <<event, program>> \o slots \o <<terms>>

TransitionEarning(d, op) ==
    LET earning == d.earnings[op.earning] IN
    << Statement(<<"earning", op.earning>>,
         Refuse(earning = NoEarning, "earning_not_found",
         Refuse(earning.version # op.expected, "version_conflict",
         Refuse(NextStatus(earning.status, op.action) = "invalid", "invalid_transition", Continue)))) >>

MakeAvailableDue(d, op) ==
    LET due == Due(d, op) IN
    << Statement(DueRange, Continue) >> \o
    [i \in DOMAIN due |-> Statement(<<"earning", due[i]>>, Continue)]

StartSettlement(d, op) ==
    LET order == Sorted(DOMAIN op.expected)
        unfit(e) == \/ d.earnings[e].status # "available"
                    \/ d.earnings[e].version # op.expected[e]
                    \/ d.earnings[e].payee # op.payee
    IN << Statement(<<"settlement", op.id>>,
                    Refuse(d.settlements[op.id] # NoBatch, "settlement_exists", Continue)) >> \o
       [i \in DOMAIN order |->
           Statement(<<"earning", order[i]>>,
                     Refuse(unfit(order[i]), "earning_unavailable", Continue))]

\* The outcome a finished batch has already is answered with the batch.
FinishSettlement(d, op) ==
    LET batch == d.settlements[op.id]
        order == Sorted(batch.earnings)
        repeated == batch.status = op.outcome /\ batch.reference = op.reference
    IN << Statement(<<"settlement", op.id>>,
            IF repeated THEN Ok({batch})
            ELSE Refuse(batch = NoBatch, "settlement_not_found",
                 Refuse(batch.status # "submitted", "outcome_conflict",
                 Refuse(batch.version # op.expected, "version_conflict", Continue)))) >> \o
       [i \in DOMAIN order |->
           Statement(<<"earning", order[i]>>,
                     Refuse(d.earnings[order[i]].status # "settling", "earning_unavailable", Continue))]

MarkOutboxPublished(d, op) ==
    << Statement(<<"message", op.message>>,
         IF op.message \in d.published THEN Ok({})
         ELSE Refuse(op.message \notin d.outbox, "outbox_not_found", Continue)) >>

Statements(d, op) ==
    CASE op.kind = "TransitionTemplate" -> TransitionTemplate(d, op)
      [] op.kind = "CreateProgram" -> CreateProgram(d, op)
      [] op.kind = "TransitionProgram" -> TransitionProgram(d, op)
      [] op.kind = "SetAttribution" -> SetAttribution(d, op)
      [] op.kind = "CommitEvent" -> CommitEvent(d, op)
      [] op.kind = "TransitionEarning" -> TransitionEarning(d, op)
      [] op.kind = "MakeAvailableDue" -> MakeAvailableDue(d, op)
      [] op.kind = "StartSettlement" -> StartSettlement(d, op)
      [] op.kind = "FinishSettlement" -> FinishSettlement(d, op)
      [] op.kind = "MarkOutboxPublished" -> MarkOutboxPublished(d, op)

\* The rows an operation inserts that others may look for, and those it updates.
Inserts(op) ==
    CASE op.kind = "CreateProgram" -> {Program}
      [] op.kind = "SetAttribution" /\ op.expected = 0 -> {<<"attribution", op.slot>>}
      [] op.kind = "CommitEvent" ->
           {<<"event", op.source>>}
           \cup (IF \E e \in DOMAIN op.earnings : op.earnings[e].status = "pending"
                 THEN {DueRange} ELSE {})
      [] op.kind = "StartSettlement" -> {<<"settlement", op.id>>}
      [] OTHER -> {}
Updates(k) ==
    CASE k.op.kind \in {"CreateProgram", "CommitEvent"} -> {}
      [] k.op.kind = "TransitionProgram" -> {Program}
      [] OTHER -> k.held

\* The INSERT and UPDATE statements, and the answer of the committed call.
\* MakeAvailableDue updates the rows it has locked.
Writes(d, k) ==
    LET op == k.op IN
    CASE op.kind = "TransitionTemplate" -> [d EXCEPT !.template = op.next]
      [] op.kind = "CreateProgram" -> [d EXCEPT !.program = NewProgram]
      [] op.kind = "TransitionProgram" ->
           [d EXCEPT !.program = [status |-> op.next, version |-> op.expected + 1]]
      [] op.kind = "SetAttribution" ->
           [d EXCEPT !.attributions[op.slot] = Attribution(op.payee, op.expected + 1)]
      [] op.kind = "CommitEvent" -> Recorded(d, op)
      [] op.kind = "TransitionEarning" -> Transitioned(d, {op.earning}, op.action)
      [] op.kind = "MakeAvailableDue" ->
           Transitioned(d, {e \in Earnings : <<"earning", e>> \in k.held}, "make_available")
      [] op.kind = "StartSettlement" -> Claimed(d, op.id, DOMAIN op.expected)
      [] op.kind = "FinishSettlement" -> Concluded(d, op.id, op.outcome, op.reference)
      [] op.kind = "MarkOutboxPublished" -> [d EXCEPT !.published = @ \cup {op.message}]

Saved(d, k) ==
    LET op == k.op IN
    CASE op.kind = "TransitionTemplate" -> {[status |-> d.template]}
      [] op.kind = "TransitionProgram" -> {d.program}
      [] op.kind = "SetAttribution" -> {d.attributions[op.slot]}
      [] op.kind = "CommitEvent" -> EarningsOf(d, op.source)
      [] op.kind = "TransitionEarning" -> {d.earnings[op.earning]}
      [] op.kind = "MakeAvailableDue" ->
           {d.earnings[e] : e \in {f \in Earnings : <<"earning", f>> \in k.held}}
      [] op.kind \in {"StartSettlement", "FinishSettlement"} -> {d.settlements[op.id]}
      [] OTHER -> {}

-----------------------------------------------------------------------------
(* A call.                                                                 *)

Call(c) ==
    \E op \in Requests :
        /\ call[c] = NoCall
        /\ calls < MaxCalls
        /\ calls' = calls + 1
        /\ call' = [call EXCEPT ![c] = Started(op, 1)]
        /\ reply' = [reply EXCEPT ![c] = Unknown]
        /\ UNCHANGED <<db, isolation>>

InTx(c) == call[c].stage = "tx"
Unread(c) == call[c].at <= Len(Statements(db, call[c].op))
NextStatement(c) == Statements(db, call[c].op)[call[c].at]

\* Another transaction holds the row.
Blocked(c) == \E d \in Clients \ {c} : NextStatement(c).row \in call[d].held

\* One SELECT ... FOR UPDATE and the checks that follow it.
Read(c) ==
    LET k == call[c]
        row == NextStatement(c).row
        verdict == NextStatement(c).verdict
        read == IF Present(db, row) THEN [k EXCEPT !.at = @ + 1, !.held = @ \cup {row}]
                ELSE [k EXCEPT !.at = @ + 1, !.gaps = @ \cup {row}]
    IN /\ isolation = "locking"
       /\ InTx(c) /\ Unread(c) /\ ~Blocked(c)
       /\ call' = [call EXCEPT ![c] = IF verdict = Continue THEN read ELSE Ended(k, verdict)]
       /\ UNCHANGED <<db, reply, isolation, calls>>

\* All SELECTs, on the snapshot the first one sees.
ReadSnapshot(c) ==
    LET k == call[c]
        reads == Statements(db, k.op)
        stops == {i \in 1..Len(reads) : reads[i].verdict # Continue}
        first == CHOOSE i \in stops : \A j \in stops : i <= j
    IN /\ isolation = "snapshot"
       /\ InTx(c) /\ k.at = 1
       /\ call' = [call EXCEPT ![c] =
                     IF stops = {}
                     THEN [k EXCEPT !.at = Len(reads) + 1, !.held = {reads[i].row : i \in 1..Len(reads)}]
                     ELSE Ended(k, reads[first].verdict)]
       /\ UNCHANGED <<db, reply, isolation, calls>>

ReadAll(c) == InTx(c) /\ call[c].at > 1 /\ (isolation = "locking" => ~Unread(c))

\* Inserting waits for the transactions that hold the gap.
GapsFree(c) ==
    \A d \in Clients \ {c} : Inserts(call[c].op) \cap (call[d].gaps \cup call[d].held) = {}

\* The rows another transaction has read are overwritten.
Overwritten(rows) ==
    [d \in Clients |-> IF InTx(d) /\ rows \cap call[d].held # {}
                       THEN [call[d] EXCEPT !.snapshot = "overwritten"] ELSE call[d]]

\* The writes and the commit.
Commit(c) ==
    LET k == call[c] IN
    /\ ReadAll(c)
    /\ isolation = "locking" => GapsFree(c)
    /\ isolation = "snapshot" => k.snapshot = "valid"
    /\ db' = Writes(db, k)
    /\ call' = [(IF isolation = "snapshot" THEN Overwritten(Inserts(k.op) \cup Updates(k)) ELSE call)
                 EXCEPT ![c] = [Ended(k, Ok(Saved(db', k))) EXCEPT !.stage = "return",
                                             !.effect = IF db' = db THEN "none" ELSE "applied"]]
    /\ UNCHANGED <<reply, isolation, calls>>

\* The INSERT finds a row that was inserted since the snapshot.
Duplicate(c) ==
    LET k == call[c]
        error == CASE k.op.kind = "CreateProgram" -> "program_exists"
                   [] k.op.kind = "SetAttribution" -> "version_conflict"
                   [] k.op.kind = "StartSettlement" -> "settlement_exists"
                   [] OTHER -> "none"
    IN /\ isolation = "snapshot"
       /\ ReadAll(c)
       /\ \E row \in Inserts(k.op) : Present(db, row)
       /\ call' = [call EXCEPT ![c] =
                     IF k.op.kind = "CommitEvent" THEN [Ended(k, Unknown) EXCEPT !.stage = "lookup"]
                     ELSE Ended(k, Error(error))]
       /\ UNCHANGED <<db, reply, isolation, calls>>

\* existingCommitResult: the fingerprint and the earnings of the winner, read
\* outside a transaction, in two statements.
Lookup(c) ==
    LET k == call[c] IN
    /\ k.stage = "lookup"
    /\ call' = [call EXCEPT ![c] =
                  IF db.events[k.op.source] = k.op.facts THEN [k EXCEPT !.stage = "lookupEarnings"]
                  ELSE [k EXCEPT !.stage = "return", !.answer = Error("event_conflict")]]
    /\ UNCHANGED <<db, reply, isolation, calls>>

LookupEarnings(c) ==
    LET k == call[c] IN
    /\ k.stage = "lookupEarnings"
    /\ call' = [call EXCEPT ![c].stage = "return", ![c].answer = Ok(EarningsOf(db, k.op.source))]
    /\ UNCHANGED <<db, reply, isolation, calls>>

\* CreateTemplate is one INSERT; its duplicate-key error is ErrTemplateAlreadyExists.
CreateTemplate(c) ==
    /\ call[c].stage = "single"
    /\ call[c].op.kind = "CreateTemplate"
    /\ IF db.template = "absent"
       THEN /\ db' = [db EXCEPT !.template = NewTemplate]
            /\ call' = [call EXCEPT ![c].stage = "return", ![c].effect = "applied", ![c].answer = Ok({})]
       ELSE /\ call' = [call EXCEPT ![c].stage = "return", ![c].answer = Error("template_exists")]
            /\ UNCHANGED db
    /\ UNCHANGED <<reply, isolation, calls>>

\* The reads of one row: load functions without a lock.
Loaded(d, row, error, value) == IF Present(d, row) THEN Ok({value}) ELSE Error(error)
GetTemplate(d, op) == Loaded(d, Template, "template_not_found", [status |-> d.template])
GetProgram(d, op) == Loaded(d, Program, "program_not_found", d.program)
GetEarning(d, op) ==
    Loaded(d, <<"earning", op.earning>>, "earning_not_found", d.earnings[op.earning])
GetSettlement(d, op) ==
    Loaded(d, <<"settlement", op.id>>, "settlement_not_found", d.settlements[op.id])

\* The lists are one SELECT each.
ListAttributions(d, op) ==
    {[slot |-> s, row |-> d.attributions[s]] : s \in {t \in Slots : Present(d, <<"attribution", t>>)}}
ListEarnings(d, op) ==
    LET matching == {e \in Earnings : Matches(d.earnings[e], op) /\ e > op.cursor}
        page == IF op.limit > 0 THEN Limited(Sorted(matching), op.limit) ELSE Sorted(matching)
    IN {[earning |-> page[i], row |-> d.earnings[page[i]]] : i \in DOMAIN page}
ListJournalEntries(d, op) == {entry \in d.journal : entry.earning = op.earning}
ListOutbox(d, op) == {m \in d.outbox : op.unpublished => m \notin d.published}
Selected(d, op) ==
    CASE op.kind = "GetTemplate" -> GetTemplate(d, op)
      [] op.kind = "GetProgram" -> GetProgram(d, op)
      [] op.kind = "GetEarning" -> GetEarning(d, op)
      [] op.kind = "GetSettlement" -> GetSettlement(d, op)
      [] op.kind = "ListAttributions" -> Ok(ListAttributions(d, op))
      [] op.kind = "ListEarnings" -> Ok(ListEarnings(d, op))
      [] op.kind = "ListJournalEntries" -> Ok(ListJournalEntries(d, op))
      [] op.kind = "ListOutbox" -> Ok(ListOutbox(d, op))
Query(c) ==
    /\ call[c].stage = "single"
    /\ call[c].op.kind \in Queries
    /\ call' = [call EXCEPT ![c].stage = "return", ![c].answer = Selected(db, call[c].op)]
    /\ UNCHANGED <<db, reply, isolation, calls>>

Retryable(c) == call[c].stage \in {"tx", "end"}

\* Mutant of Retry: a call is started again after any error, the one that hides
\* a successful commit included.
RetryAnything(c) ==
    /\ call[c].stage \in {"tx", "end", "return"}
    /\ call[c].attempt < MaxAttempts
    /\ call' = [call EXCEPT ![c] = Started(call[c].op, call[c].attempt + 1)]
    /\ UNCHANGED <<db, reply, isolation, calls>>

\* retryCommissionMutation: a statement or the commit was refused because of a
\* serialization failure, a deadlock or a lock timeout.
Retry(c) ==
    /\ Retryable(c)
    /\ call[c].attempt < MaxAttempts
    /\ call' = [call EXCEPT ![c] = Started(call[c].op, call[c].attempt + 1)]
    /\ UNCHANGED <<db, reply, isolation, calls>>

Return(c) ==
    /\ call[c].stage \in {"end", "return"}
    /\ reply' = [reply EXCEPT ![c] = call[c].answer]
    /\ call' = [call EXCEPT ![c] = NoCall]
    /\ UNCHANGED <<db, isolation, calls>>

\* Any other error, the end of the caller's context, or the last attempt; at
\* "return" the commit succeeded and its reply was lost.
Fail(c) ==
    /\ call[c] # NoCall
    /\ reply' = [reply EXCEPT ![c] = Failed]
    /\ call' = [call EXCEPT ![c] = NoCall]
    /\ UNCHANGED <<db, isolation, calls>>

Done ==
    /\ calls = MaxCalls
    /\ \A c \in Clients : call[c] = NoCall
    /\ UNCHANGED vars

Next == \/ \E c \in Clients :
               \/ Call(c) \/ Read(c) \/ ReadSnapshot(c) \/ Commit(c) \/ Duplicate(c)
               \/ Lookup(c) \/ LookupEarnings(c) \/ CreateTemplate(c) \/ Query(c)
               \/ Retry(c) \/ Return(c) \/ Fail(c)
        \/ Done

Spec == Init /\ [][Next]_vars

-----------------------------------------------------------------------------
\* Type invariant of the tables and the running calls.
SQLTypeOK ==
    /\ db \in TableSets
    /\ \A c \in Clients :
           /\ call[c].op \in Requests \cup {NoOp}
           /\ call[c].stage \in {"none", "single", "tx", "end", "lookup", "lookupEarnings", "return"}
           /\ call[c].attempt \in 0..MaxAttempts
           /\ call[c].stage # "tx" => call[c].held = {} /\ call[c].gaps = {}
    /\ isolation \in {"locking", "snapshot"}

\* The SQL store keeps the contract of the MemoryStore: every call takes effect
\* at one moment, at most once however often its transaction was started again,
\* and is answered as the contract answers at that moment, although its rows were
\* read one statement after the other, and the answer of a duplicate event is
\* put together outside the transaction.
Store == INSTANCE CommissionStore WITH
    call <- [c \in Clients |-> [op |-> call[c].op, effect |-> call[c].effect,
                                answer |-> call[c].answer]]
ImplementsStore == Store!Spec

\* What an operation writes is new to the journal and to the outbox: the version it
\* gives an earning or a settlement is that of no journal entry and no message of it
\* yet, whatever other operations and repeated transactions did before.  Their
\* identifiers are made of that version, so that no operation is ended by one that
\* is stored already (journalIDExists, the duplicate-key errors of insertJournal and
\* insertOutbox).
IdsAreNew ==
    [][/\ \A e \in Earnings : db'.earnings[e] # db.earnings[e] =>
             /\ \A entry \in db.journal :
                   entry.earning = e => entry.version # db'.earnings[e].version
             /\ \A m \in db.outbox : m.id = e => m.version # db'.earnings[e].version
       /\ \A b \in Settlements : db'.settlements[b] # db.settlements[b] =>
             \A m \in db.outbox : m.id = b => m.version # db'.settlements[b].version]_vars
=============================================================================
