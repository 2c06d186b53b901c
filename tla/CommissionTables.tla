-------------------------- MODULE CommissionTables --------------------------
(***************************************************************************)
(* The persistent state of a commission Store and the changes its          *)
(* operations make to it (memory.go, sql_store.go), for one tenant with    *)
(* one template version and one program.  The identifier of an earning is  *)
(* derived from its event (earningID), so the event it belongs to is a     *)
(* constant.  Amounts never change and are left out; a payee stands for    *)
(* beneficiary and currency.                                               *)
(***************************************************************************)
EXTENDS Naturals, FiniteSets, CommissionStates

CONSTANTS
    Sources,      \* event sources
    Earnings,     \* earning identifiers, ordered as numbers
    SourceOf,     \* earning -> the event it belongs to
    Slots,        \* rule slots of the program
    Settlements,  \* settlement identifiers
    Payees, NoPayee,
    Facts, NoFacts,           \* payloads of events
    References, NoReference   \* provider references

ASSUME NamesAssumption ==
    /\ Earnings \subseteq Nat /\ SourceOf \in [Earnings -> Sources]
    /\ Settlements \cap Earnings = {}
    /\ NoPayee \notin Payees /\ NoFacts \notin Facts /\ NoReference \notin References

NoAttribution == [payee |-> NoPayee, version |-> 0]
NoEarning == [status |-> "absent", version |-> 0, payee |-> NoPayee, due |-> 0]
NoBatch == [status |-> "absent", version |-> 0, earnings |-> {}, reference |-> NoReference]

Empty == [template |-> "absent",
          program |-> [status |-> "absent", version |-> 0],
          attributions |-> [s \in Slots |-> NoAttribution],
          events |-> [x \in Sources |-> NoFacts],
          earnings |-> [e \in Earnings |-> NoEarning],
          settlements |-> [b \in Settlements |-> NoBatch],
          journal |-> {}, outbox |-> {}, published |-> {}]

Message(id, type, version) == [id |-> id, type |-> type, version |-> version]

-----------------------------------------------------------------------------
(* The rows that are accepted when they are read back.                     *)

TemplateRows == {"draft", "active", "retired"}
ProgramRows == [status : {"draft", "pending_approval", "active", "suspended", "retired"},
                version : Nat \ {0}]
AttributionRows == [payee : Payees, version : Nat \ {0}]
EarningRows == [status : EarningStatuses, version : Nat \ {0}, payee : Payees, due : Nat]
BatchRows == [status : {"submitted", "settled", "rejected"}, version : Nat \ {0},
              earnings : (SUBSET Earnings) \ {{}}, reference : References \cup {NoReference}]
JournalKinds == {"accrual", "available", "held", "settlement", "reversal", "recovery"}
JournalRows == [earning : Earnings, version : Nat \ {0}, kind : JournalKinds]
OutboxRows == [id : Earnings \cup Settlements, version : Nat \ {0},
               type : EarningStatuses \cup {"submitted", "rejected"}]

TableSets ==
    [template : TemplateRows \cup {Empty.template},
     program : ProgramRows \cup {Empty.program},
     attributions : [Slots -> AttributionRows \cup {NoAttribution}],
     events : [Sources -> Facts \cup {NoFacts}],
     earnings : [Earnings -> EarningRows \cup {NoEarning}],
     settlements : [Settlements -> BatchRows \cup {NoBatch}],
     journal : SUBSET JournalRows,
     outbox : SUBSET OutboxRows,
     published : SUBSET OutboxRows]

\* Tables the operations have written: only messages of the outbox are marked
\* published, and an earning has its event.
Consistent(d) ==
    /\ d.published \subseteq d.outbox
    /\ \A e \in Earnings : d.earnings[e] # NoEarning => d.events[SourceOf[e]] # NoFacts

\* No journal entry and no message has a later version than the row it is about.
Numbered(d) ==
    /\ \A entry \in d.journal : entry.version <= d.earnings[entry.earning].version
    /\ \A m \in d.outbox :
          /\ m.id \in Earnings => m.version <= d.earnings[m.id].version
          /\ m.id \in Settlements => m.version <= d.settlements[m.id].version

-----------------------------------------------------------------------------
(* Requests that pass the checks of their arguments; any other is answered *)
(* with an error before the tables are looked at.                          *)

\* An event and its earnings, of the first version; or an event without any.
ValidCommit(op) ==
    /\ op.source \in Sources /\ op.facts \in Facts
    /\ op.program \in Nat \ {0} /\ op.slots \in [Slots -> Nat]
    /\ \A e \in DOMAIN op.earnings :
          /\ e \in Earnings /\ SourceOf[e] = op.source
          /\ op.earnings[e] \in EarningRows /\ op.earnings[e].version = 1

\* At least one earning, none twice, each with the version that was read.
ValidSettlement(op) ==
    /\ op.id \in Settlements /\ op.payee \in Payees
    /\ DOMAIN op.expected # {} /\ DOMAIN op.expected \subseteq Earnings
    /\ \A e \in DOMAIN op.expected : op.expected[e] \in Nat \ {0}

\* The settlement actions are reserved for settlements, the release of due
\* earnings for the sweep.
ValidMove(op) ==
    /\ op.earning \in Earnings /\ op.expected \in Nat \ {0}
    /\ op.action \notin {"make_available", "start_settlement", "settle", "reject_settlement"}

ValidAttribution(op) == op.slot \in Slots /\ op.payee \in Payees /\ op.expected \in Nat
ValidSweep(op) == op.now \in Nat /\ op.limit \in Nat \ {0}
ValidFinish(op) ==
    /\ op.id \in Settlements /\ op.expected \in Nat \ {0}
    /\ op.outcome \in {"settled", "rejected"} /\ op.reference \in References \cup {NoReference}
ValidFilter(op) == op.limit \in Nat /\ op.cursor \in Nat /\ op.statuses \subseteq EarningStatuses

ValidRequest(op) ==
    CASE op.kind = "TransitionProgram" -> op.expected \in Nat \ {0}
      [] op.kind = "SetAttribution" -> ValidAttribution(op)
      [] op.kind = "CommitEvent" -> ValidCommit(op)
      [] op.kind = "TransitionEarning" -> ValidMove(op)
      [] op.kind = "MakeAvailableDue" -> ValidSweep(op)
      [] op.kind = "StartSettlement" -> ValidSettlement(op)
      [] op.kind = "FinishSettlement" -> ValidFinish(op)
      [] op.kind = "GetEarning" -> op.earning \in Earnings
      [] op.kind = "GetSettlement" -> op.id \in Settlements
      [] op.kind = "ListEarnings" -> ValidFilter(op)
      [] OTHER -> TRUE

-----------------------------------------------------------------------------
(* Changes of the tables d.                                                *)

\* Whether an earning passes the filter of ListEarnings.
Matches(earning, op) == earning # NoEarning /\ earning.status \in op.statuses

\* The stored earnings of an event, and as CommitEvent returns them.
StoredEarnings(d, x) == {e \in Earnings : SourceOf[e] = x /\ d.earnings[e] # NoEarning}
EarningsOf(d, x) == {[earning |-> e, row |-> d.earnings[e]] : e \in StoredEarnings(d, x)}

\* The journal entries of new earnings; one that is available at once has two
\* (buildEventEntries).
Accruals(new) ==
    LET entries(S, kind) == {[earning |-> e, kind |-> kind, version |-> 1] : e \in S}
    IN entries(DOMAIN new, "accrual")
       \cup entries({e \in DOMAIN new : new[e].status = "available"}, "available")

\* The messages that report the rows of the earnings S.
Messages(rows, S) == {Message(e, rows[e].status, rows[e].version) : e \in S}

\* A new event with its earnings, their journal entries and messages.
Recorded(d, op) ==
    LET new == op.earnings
        earnings == [e \in Earnings |-> IF e \in DOMAIN new THEN new[e] ELSE d.earnings[e]]
    IN [d EXCEPT !.events[op.source] = op.facts, !.earnings = earnings,
                 !.journal = @ \cup Accruals(new), !.outbox = @ \cup Messages(new, DOMAIN new)]

\* Mutant of Moved: the version is not advanced.
MovedKeepsVersion(d, e, action) == [d.earnings[e] EXCEPT !.status = NextStatus(@, action)]

Moved(d, e, action) ==
    [d.earnings[e] EXCEPT !.status = NextStatus(@, action), !.version = @ + 1]
MovedAll(d, S, action) ==
    [e \in Earnings |-> IF e \in S THEN Moved(d, e, action) ELSE d.earnings[e]]

\* The earnings S take an action, each with its journal entry and message
\* (newEarningTransition, appendEarningTransition).  Their identifiers are made of
\* the kind or the type and of the new version; a stored one with the same
\* identifier would end the operation with ErrEventConflict (journalIDExists,
\* validateEarningTransitionsLocked), which IdsAreNew of CommissionSQL excludes.
Transitioned(d, S, action) ==
    LET moved == MovedAll(d, S, action) IN
    [d EXCEPT !.earnings = moved,
              !.journal = @ \cup {[earning |-> e, kind |-> JournalKind(action, moved[e].status),
                                   version |-> moved[e].version] : e \in S},
              !.outbox = @ \cup Messages(moved, S)]

\* The rows that are inserted.
NewTemplate == "draft"
NewProgram == [status |-> "draft", version |-> 1]
Attribution(payee, version) == [payee |-> payee, version |-> version]
NewBatch(S) == [status |-> "submitted", version |-> 1, earnings |-> S, reference |-> NoReference]

\* A submitted batch and the earnings it claims.
Claimed(d, b, S) ==
    [d EXCEPT !.settlements[b] = NewBatch(S),
              !.earnings = MovedAll(d, S, "start_settlement"),
              !.outbox = @ \cup {Message(b, "submitted", 1)}]

\* A batch with its outcome, and its earnings paid or given back.
Concluded(d, b, outcome, reference) ==
    LET batch == d.settlements[b]
        action == IF outcome = "settled" THEN "settle" ELSE "reject_settlement"
        paid == Transitioned(d, batch.earnings, action)
    IN [paid EXCEPT !.settlements[b] = [batch EXCEPT !.status = outcome, !.version = @ + 1,
                                                     !.reference = reference],
                    !.outbox = @ \cup {Message(b, outcome, batch.version + 1)}]

-----------------------------------------------------------------------------
(* Answers.                                                                *)

Error(e) == [error |-> e, rows |-> {}]
Ok(rows) == [error |-> "none", rows |-> rows]
Unknown == Error("unknown")   \* not decided yet
Failed == Error("failed")     \* an error that says nothing of the outcome

\* What the code makes of what it has read: it goes on, or a check fails and its
\* error is the answer.
Continue == Error("continue")
Refuse(fails, error, otherwise) == IF fails THEN Error(error) ELSE otherwise
=============================================================================
