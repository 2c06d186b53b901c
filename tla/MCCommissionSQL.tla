-------------------------- MODULE MCCommissionSQL --------------------------
(* A small instance of CommissionSQL for TLC.  Behaviours start from tables *)
(* that sequences of calls have left, so that two or three more calls meet  *)
(* programs, earnings and batches in every state.                           *)
EXTENDS CommissionSQL, TLC

CONSTANTS b1, b2   \* settlements

MCSymmetry == Permutations(Clients)
MCSourceOf == [e \in Earnings |-> 1]
MCRules == <<"seller">>

Earning(status, due) == [status |-> status, version |-> 1, payee |-> "ada", due |-> due]
Record(x, facts, earnings) ==
    [kind |-> "CommitEvent", source |-> x, facts |-> facts, program |-> 3,
     slots |-> [s \in Slots |-> 0], earnings |-> earnings]
Program_(expected, next) == [kind |-> "TransitionProgram", expected |-> expected, next |-> next]
Template_(next) == [kind |-> "TransitionTemplate", next |-> next]
Attribute(expected, payee) ==
    [kind |-> "SetAttribution", slot |-> "seller", payee |-> payee, expected |-> expected]
Move(e, expected, action) ==
    [kind |-> "TransitionEarning", earning |-> e, expected |-> expected, action |-> action]
Settle(b, S, version) ==
    [kind |-> "StartSettlement", id |-> b, payee |-> "ada", expected |-> [e \in S |-> version]]
Finish(b, expected, outcome, reference) ==
    [kind |-> "FinishSettlement", id |-> b, expected |-> expected, outcome |-> outcome,
     reference |-> reference]
Release(now, limit) == [kind |-> "MakeAvailableDue", now |-> now, limit |-> limit]
Publish(id, type, version) ==
    [kind |-> "MarkOutboxPublished", message |-> Message(id, type, version)]

Launched == [Empty EXCEPT !.template = "active", !.program = [status |-> "active", version |-> 3]]
\* Both earnings belong to the first event.
Earned == Recorded(Launched, Record(1, "big", [e \in Earnings |-> Earning("available", 1)]))
Frozen == Recorded(Launched, Record(1, "big", [e \in Earnings |-> Earning("pending", 3 - e)]))
Submitted == Claimed(Earned, b1, {1, 2})
Returned == Concluded(Submitted, b1, "rejected", NoReference)
MCStarts == {Empty, Launched, Earned, Frozen, Submitted, Returned}

MCRequests ==
    {[kind |-> "CreateTemplate"], [kind |-> "CreateProgram"], Template_("active"), Template_("retired"),
     Program_(1, "pending_approval"), Program_(2, "active"), Program_(3, "suspended"),
     Attribute(0, "ada"), Attribute(0, "bob"), Attribute(1, "bob"),
     Record(1, "big", 1 :> Earning("pending", 1)), Record(1, "small", <<>>),
     Record(1, "big", [e \in Earnings |-> Earning("available", 1)]), Record(2, "big", <<>>),
     Move(1, 1, "hold"), Move(1, 3, "hold"), Move(1, 1, "reverse"), Move(1, 2, "release"),
     Release(1, 2), Release(2, 1), Release(2, 2),
     Settle(b1, {1, 2}, 1), Settle(b2, {1, 2}, 1), Settle(b2, {1}, 2), Settle(b2, {1, 2}, 3),
     [Settle(b2, {1}, 1) EXCEPT !.payee = "bob"],
     Finish(b1, 1, "settled", "r1"), Finish(b1, 1, "rejected", NoReference),
     Publish(1, "available", 1),
     [kind |-> "GetTemplate"], [kind |-> "GetProgram"], [kind |-> "GetEarning", earning |-> 1],
     [kind |-> "GetSettlement", id |-> b1], [kind |-> "ListAttributions"],
     [kind |-> "ListEarnings", statuses |-> EarningStatuses \ {"held"}, cursor |-> 0, limit |-> 1],
     [kind |-> "ListEarnings", statuses |-> {"available", "settling"}, cursor |-> 1, limit |-> 2],
     [kind |-> "ListEarnings", statuses |-> EarningStatuses, cursor |-> 0, limit |-> 0],
     [kind |-> "ListOutbox", unpublished |-> TRUE],
     [kind |-> "ListJournalEntries", earning |-> 1]}
=============================================================================
