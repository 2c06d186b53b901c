-------------------------- MODULE CommissionStates --------------------------
(* biz/commission state.go and lifecycle.go: the life cycles of templates,  *)
(* programs and earnings, which every Store of the package applies.         *)

\* nextTemplateStatus
TemplateSteps == {<<"draft", "active">>, <<"active", "retired">>}

\* nextProgramStatus: submit, approve, suspend, resume and retire.
ProgramSteps ==
    {<<"draft", "pending_approval">>, <<"pending_approval", "active">>, <<"active", "suspended">>,
     <<"suspended", "active">>}
    \cup {<<s, "retired">> : s \in {"draft", "pending_approval", "active", "suspended"}}

EarningStatuses == {"pending", "available", "held", "settling", "settled", "reversed",
                    "recovery_due"}

\* TransitionEarning of state.go; "invalid" is ErrInvalidEarningTransition.
NextStatus(status, action) ==
    CASE status = "pending" /\ action = "make_available"        -> "available"
      [] status \in {"pending", "available"} /\ action = "hold" -> "held"
      [] status = "available" /\ action = "start_settlement"    -> "settling"
      [] status \in {"available", "held"} /\ action = "reverse" -> "reversed"
      [] status = "held" /\ action = "release"                  -> "available"
      [] status = "settling" /\ action = "settle"               -> "settled"
      [] status = "settling" /\ action = "reject_settlement"    -> "available"
      [] status = "settled" /\ action = "reverse"               -> "recovery_due"
      [] OTHER -> "invalid"

\* The actions Service.TransitionEarning passes on to the Store.
ManualActions == {"hold", "release", "reverse"}

\* The kind of the journal entry of a transition (newEarningTransition).
JournalKind(action, next) ==
    CASE action = "hold"    -> "held"
      [] action = "reverse" -> IF next = "recovery_due" THEN "recovery" ELSE "reversal"
      [] action = "settle"  -> "settlement"
      [] OTHER              -> "available"

=============================================================================
