------------------------- MODULE MCCommissionEvents -------------------------
(* Instance of CommissionEvents for TLC, with a formula that decides what  *)
(* an event earns, and bounded inputs for the formula itself.              *)
EXTENDS CommissionEvents, CommissionFormula

Tier(min, max, bps, fixed) == [min |-> min, max |-> max, bps |-> bps, fixed |-> fixed]
Rule(slot, tiers) == [slot |-> slot, beneficiary |-> "ada", tiers |-> tiers]
Template(rules, cap) ==
    [allowed |-> {"sale"}, rules |-> rules,
     maxCommission |-> IF cap = 0 THEN NoAmount ELSE [currency |-> "USD", minor |-> cap]]
Sale(minor) == [type |-> "sale", amount |-> [currency |-> "USD", minor |-> minor]]

\* All programs are made from one template, in which a sale earns from 3 units
\* on: facts "big" earn, "small" do not.
MCTemplateOf == [p \in Programs |-> CHOOSE t \in Templates : TRUE]
MCDefault == [s \in Slots |-> "ada"]
MCEarns ==
    [f \in Facts |->
        LET amount == IF f = "big" THEN 10 ELSE 2
            result == Calculate(Template(<<Rule("seller", <<Tier(3, 0, 1, 0)>>)>>, 0), Sale(amount))
        IN {result.value[i].slot : i \in DOMAIN result.value}]

-----------------------------------------------------------------------------
(* Bounded inputs of the formula: tiers that touch, overlap and leave gaps, *)
(* with amounts at their ends and at the end of the integers.               *)

Ranges == {<<0, 0>>, <<3, 0>>, <<10, 0>>, <<0, 3>>, <<0, 10>>, <<3, 10>>}
Tiers(ranges, rates, sums) ==
    {t \in {Tier(r[1], r[2], bps, fixed) : r \in ranges, bps \in rates, fixed \in sums} :
        validateTier(t) = "none"}
RulesOf(slot, tiers) ==
    {Rule(slot, <<t>>) : t \in tiers} \cup {Rule(slot, <<t, u>>) : t \in tiers, u \in tiers}
Amounts == {0, 1, 2, 3, 4, 9, 10, 11, 14, MaxInt - 1, MaxInt}

WideTiers == Tiers(Ranges, {0, 1, 3, basisPointDenominator}, {0, MaxInt - 11})
MCTemplates ==
    {Template(<<r>>, cap) : r \in RulesOf("seller", WideTiers), cap \in {0, 5}}
        \cup {Template(<<Rule("seller", <<t>>), Rule("agent", <<u>>)>>, cap) :
                 t \in WideTiers, u \in WideTiers, cap \in {0, 5}}
NarrowRules == RulesOf("seller", Tiers({<<0, 0>>, <<3, 0>>, <<0, 3>>}, {0, 1, 3}, {0, 2}))

NoQuote == [kind |-> "none"]
Quotes ==
    [kind : {"calculate"}, template : MCTemplates, amount : Amounts]
        \cup [kind : {"admit"}, rule : NarrowRules, cap : NarrowRules]

\* Either callers record events, or one question is put to the formula: what a
\* template pays for an amount, or whether a template admits a program's rule.
VARIABLE quote

MCInit == EventsInit /\ quote \in Quotes \cup {NoQuote}
MCNext == \/ quote = NoQuote /\ EventsNext /\ UNCHANGED quote
          \/ quote # NoQuote /\ UNCHANGED <<eventsVars, quote>>
MCSpec == MCInit /\ [][MCNext]_<<eventsVars, quote>>

\* The calculation of a commission is exact or refused, never a rounded, wrapped
\* or partly summed amount (formula.go): see ExactFor.
CalculationExact == quote.kind = "calculate" => ExactFor(quote.template, Sale(quote.amount))

\* CreateProgram's comparison with the template (service.go) is enough: for every
\* amount, an admitted program pays no slot more than the template does.
ProgramsWithinTemplate ==
    quote.kind = "admit" => \A amount \in Amounts :
        WithinTemplateFor(<<quote.rule>>, Template(<<quote.cap>>, 0), amount)
=============================================================================
