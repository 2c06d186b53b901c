--------------------------- MODULE CommissionStore ---------------------------
(***************************************************************************)
(* What a commission Store promises its callers, translated from the       *)
(* MemoryStore (memory.go), whose operations run under one lock.  A call   *)
(* takes effect at one moment between its start and its return, at most    *)
(* once, and returns what the operation answers at that moment; or it      *)
(* fails (a broken connection, an ended context, retries used up), and     *)
(* then has taken effect once or not at all.                               *)
(***************************************************************************)
EXTENDS CommissionTables

CONSTANTS
    Clients,   \* concurrent callers
    Requests,  \* the calls they make
    Starts     \* the tables before the first call

VARIABLES
    db,    \* the tables
    call,  \* client -> the call it is in, whether it has changed db, its answer
    reply  \* client -> what its last call returned

vars == <<db, call, reply>>

NoOp == [kind |-> "none"]
NoCall == [op |-> NoOp, effect |-> "none", answer |-> Unknown]

-----------------------------------------------------------------------------
(* The operations: the tables and the answer they leave.                   *)

Reply(d, rows) == [db |-> d, answer |-> Ok(rows)]

\* The change with its rows when all checks were passed.
Answered(d, verdict, changed, rows) ==
    IF verdict = Continue THEN Reply(changed, rows) ELSE [db |-> d, answer |-> verdict]

CreateTemplate(d, op) ==
    Answered(d, Refuse(d.template # "absent", "template_exists", Continue),
             [d EXCEPT !.template = NewTemplate], {})

TransitionTemplate(d, op) ==
    LET verdict ==
            Refuse(d.template = "absent", "template_not_found",
            Refuse(<<d.template, op.next>> \notin TemplateSteps, "invalid_transition", Continue))
    IN Answered(d, verdict, [d EXCEPT !.template = op.next], {[status |-> op.next]})

CreateProgram(d, op) ==
    LET verdict ==
            Refuse(d.program.status # "absent", "program_exists",
            Refuse(d.template = "absent", "template_not_found", Continue))
    IN Answered(d, verdict, [d EXCEPT !.program = NewProgram], {})

TransitionProgram(d, op) ==
    LET program == [status |-> op.next, version |-> d.program.version + 1]
        verdict ==
            Refuse(d.program.status = "absent", "program_not_found",
            Refuse(d.program.version # op.expected, "version_conflict",
            Refuse(<<d.program.status, op.next>> \notin ProgramSteps, "invalid_transition",
            Refuse(op.next = "active" /\ d.template # "active", "template_not_active", Continue))))
    IN Answered(d, verdict, [d EXCEPT !.program = program], {program})

SetAttribution(d, op) ==
    LET current == d.attributions[op.slot]
        attribution == Attribution(op.payee, current.version + 1)
    IN Answered(d, Refuse(current.version # op.expected, "version_conflict", Continue),
                [d EXCEPT !.attributions[op.slot] = attribution], {attribution})

\* A recorded event is answered with its stored earnings, whatever became of
\* the program since; a new one needs the terms it was calculated with.
CommitEvent(d, op) ==
    LET found == d.events[op.source]
        verdict ==
            Refuse(found # NoFacts, "event_conflict",
            Refuse(d.program.status = "absent", "program_not_found",
            Refuse(d.program.version # op.program, "version_conflict",
            Refuse(d.program.status # "active", "program_not_active",
            Refuse(\E s \in Slots : d.attributions[s].version # op.slots[s], "version_conflict",
            Refuse(d.template # "active", "template_not_active", Continue))))))
    IN IF found = op.facts THEN Reply(d, EarningsOf(d, op.source))
       ELSE Answered(d, verdict, Recorded(d, op), EarningsOf(Recorded(d, op), op.source))

TransitionEarning(d, op) ==
    LET earning == d.earnings[op.earning]
        verdict ==
            Refuse(earning = NoEarning, "earning_not_found",
            Refuse(earning.version # op.expected, "version_conflict",
            Refuse(NextStatus(earning.status, op.action) = "invalid", "invalid_transition", Continue)))
    IN Answered(d, verdict, Transitioned(d, {op.earning}, op.action), {Moved(d, op.earning, op.action)})

\* The first op.limit due earnings, by due time and then identifier.
MakeAvailableDue(d, op) ==
    LET due == {e \in Earnings : d.earnings[e].status = "pending" /\ d.earnings[e].due <= op.now}
        earlier(e) == {f \in due : \/ d.earnings[f].due < d.earnings[e].due
                                   \/ d.earnings[f].due = d.earnings[e].due /\ f < e}
        batch == {e \in due : Cardinality(earlier(e)) < op.limit}
    IN Reply(Transitioned(d, batch, "make_available"), {Moved(d, e, "make_available") : e \in batch})

StartSettlement(d, op) ==
    LET wanted == DOMAIN op.expected
        fits(e) == /\ d.earnings[e].status = "available"
                   /\ d.earnings[e].version = op.expected[e]
                   /\ d.earnings[e].payee = op.payee
        verdict ==
            Refuse(d.settlements[op.id] # NoBatch, "settlement_exists",
            Refuse(\E e \in wanted : ~fits(e), "earning_unavailable", Continue))
        claimed == Claimed(d, op.id, wanted)
    IN Answered(d, verdict, claimed, {claimed.settlements[op.id]})

\* Repeating the outcome of a finished batch is answered with the batch.
FinishSettlement(d, op) ==
    LET batch == d.settlements[op.id]
        verdict ==
            Refuse(batch = NoBatch, "settlement_not_found",
            Refuse(batch.status # "submitted", "outcome_conflict",
            Refuse(batch.version # op.expected, "version_conflict",
            Refuse(\E e \in batch.earnings : d.earnings[e].status # "settling",
                   "earning_unavailable", Continue))))
        concluded == Concluded(d, op.id, op.outcome, op.reference)
    IN IF batch.status = op.outcome /\ batch.reference = op.reference THEN Reply(d, {batch})
       ELSE Answered(d, verdict, concluded, {concluded.settlements[op.id]})

MarkOutboxPublished(d, op) ==
    Answered(d, Refuse(op.message \notin d.outbox, "outbox_not_found", Continue),
             [d EXCEPT !.published = @ \cup {op.message}], {})

\* The reads of one row.
Found(d, missing, error, row) ==
    IF missing THEN [db |-> d, answer |-> Error(error)] ELSE Reply(d, {row})
GetTemplate(d, op) ==
    Found(d, d.template = "absent", "template_not_found", [status |-> d.template])
GetProgram(d, op) ==
    Found(d, d.program.status = "absent", "program_not_found", d.program)
GetEarning(d, op) ==
    Found(d, d.earnings[op.earning] = NoEarning, "earning_not_found", d.earnings[op.earning])
GetSettlement(d, op) ==
    Found(d, d.settlements[op.id] = NoBatch, "settlement_not_found", d.settlements[op.id])

ListAttributions(d, op) == Reply(d, {[slot |-> s, row |-> d.attributions[s]] :
                                       s \in {t \in Slots : d.attributions[t] # NoAttribution}})
\* The page of the matching earnings that follows the cursor; 0 is no limit.
ListEarnings(d, op) ==
    LET matching == {e \in Earnings : Matches(d.earnings[e], op) /\ e > op.cursor}
        page == {e \in matching : op.limit > 0 => Cardinality({f \in matching : f < e}) < op.limit}
    IN Reply(d, {[earning |-> e, row |-> d.earnings[e]] : e \in page})
ListJournalEntries(d, op) == Reply(d, {entry \in d.journal : entry.earning = op.earning})
ListOutbox(d, op) == Reply(d, {m \in d.outbox : op.unpublished => m \notin d.published})

Outcome(d, op) ==
    CASE op.kind = "CreateTemplate" -> CreateTemplate(d, op)
      [] op.kind = "TransitionTemplate" -> TransitionTemplate(d, op)
      [] op.kind = "CreateProgram" -> CreateProgram(d, op)
      [] op.kind = "TransitionProgram" -> TransitionProgram(d, op)
      [] op.kind = "SetAttribution" -> SetAttribution(d, op)
      [] op.kind = "CommitEvent" -> CommitEvent(d, op)
      [] op.kind = "TransitionEarning" -> TransitionEarning(d, op)
      [] op.kind = "MakeAvailableDue" -> MakeAvailableDue(d, op)
      [] op.kind = "StartSettlement" -> StartSettlement(d, op)
      [] op.kind = "FinishSettlement" -> FinishSettlement(d, op)
      [] op.kind = "MarkOutboxPublished" -> MarkOutboxPublished(d, op)
      [] op.kind = "GetTemplate" -> GetTemplate(d, op)
      [] op.kind = "GetProgram" -> GetProgram(d, op)
      [] op.kind = "GetEarning" -> GetEarning(d, op)
      [] op.kind = "GetSettlement" -> GetSettlement(d, op)
      [] op.kind = "ListAttributions" -> ListAttributions(d, op)
      [] op.kind = "ListEarnings" -> ListEarnings(d, op)
      [] op.kind = "ListJournalEntries" -> ListJournalEntries(d, op)
      [] op.kind = "ListOutbox" -> ListOutbox(d, op)

-----------------------------------------------------------------------------
(* A call.                                                                 *)

Init ==
    /\ db \in Starts
    /\ call = [c \in Clients |-> NoCall]
    /\ reply = [c \in Clients |-> Unknown]

Invoke(c, op) ==
    /\ call[c] = NoCall
    /\ call' = [call EXCEPT ![c] = [op |-> op, effect |-> "none", answer |-> Unknown]]
    /\ reply' = [reply EXCEPT ![c] = Unknown]
    /\ UNCHANGED db

\* The operation is applied, once.
Apply(c) ==
    LET outcome == Outcome(db, call[c].op) IN
    /\ call[c] # NoCall
    /\ call[c].effect = "none"
    /\ outcome.db # db
    /\ db' = outcome.db
    /\ call' = [call EXCEPT ![c].effect = "applied", ![c].answer = outcome.answer]
    /\ UNCHANGED reply

\* The operation changes nothing: its answer may still be given up.
Evaluate(c) ==
    LET outcome == Outcome(db, call[c].op) IN
    /\ call[c] # NoCall
    /\ call[c].effect = "none"
    /\ \/ outcome.db = db /\ call' = [call EXCEPT ![c].answer = outcome.answer]
       \/ call' = [call EXCEPT ![c].answer = Unknown]
    /\ UNCHANGED <<db, reply>>

Return(c) ==
    /\ call[c].answer # Unknown
    /\ reply' = [reply EXCEPT ![c] = call[c].answer]
    /\ call' = [call EXCEPT ![c] = NoCall]
    /\ UNCHANGED db

\* The caller learns nothing of the outcome.
Fail(c) ==
    /\ call[c] # NoCall
    /\ reply' = [reply EXCEPT ![c] = Failed]
    /\ call' = [call EXCEPT ![c] = NoCall]
    /\ UNCHANGED db

Next == \E c \in Clients :
            \/ \E op \in Requests : Invoke(c, op)
            \/ Apply(c) \/ Evaluate(c) \/ Return(c) \/ Fail(c)

Spec == Init /\ [][Next]_vars
=============================================================================
