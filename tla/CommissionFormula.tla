-------------------------- MODULE CommissionFormula --------------------------
(***************************************************************************)
(* biz/commission: what a template pays for an event (formula.go), which   *)
(* templates, rules and tiers are accepted (model.go, amount.go) and which *)
(* programs a template admits (service.go).  Amounts are minor units in    *)
(* signed integers of a small width: the sums and products of the code are *)
(* taken modulo that width, so that an overflow the code does not meet     *)
(* with an error gives a wrong amount here as well.                        *)
(*                                                                         *)
(* Currencies, event types, slots and beneficiaries are names, "" the      *)
(* empty or malformed one.                                                 *)
(***************************************************************************)
EXTENDS Integers, FiniteSets, SequencesExt

CONSTANTS
    MaxInt,                 \* math.MaxInt64
    basisPointDenominator   \* 10 000

\* As in the code, the product of two values below the denominator fits.
ASSUME WidthAssumption ==
    /\ basisPointDenominator \in Nat \ {0}
    /\ MaxInt \in Nat
    /\ basisPointDenominator * basisPointDenominator <= MaxInt

\* A sum or product as a machine integer: two's complement.
Wrap(n) == ((n + MaxInt + 1) % (2 * (MaxInt + 1))) - (MaxInt + 1)

\* A result of Go: a value and an error.
Value(v) == [error |-> "none", value |-> v]
Error(e) == [error |-> e, value |-> 0]
Failed(result) == result.error # "none"

-----------------------------------------------------------------------------
(* Validation.  The operators give the error, or "none".                   *)

NoAmount == [currency |-> "", minor |-> 0]
validAmount(amount) == amount.minor >= 0 /\ amount.currency # ""
optionalAmountValid(amount) == amount = NoAmount \/ validAmount(amount)

validateTier(tier) ==
    IF \/ tier.min < 0 \/ tier.max < 0
       \/ tier.max # 0 /\ tier.max <= tier.min
       \/ tier.bps \notin 0..basisPointDenominator
       \/ tier.fixed < 0
       \/ tier.bps = 0 /\ tier.fixed = 0
    THEN "invalid_tier" ELSE "none"

validateRule(rule, requireBeneficiary) ==
    CASE rule.slot = "" \/ rule.tiers = <<>> -> "invalid_rule"
      [] rule.slot # "" /\ rule.tiers # <<>> /\ requireBeneficiary /\ rule.beneficiary = "" ->
             "invalid_beneficiary"
      [] OTHER -> IF \E i \in DOMAIN rule.tiers : validateTier(rule.tiers[i]) # "none"
                  THEN "invalid_tier" ELSE "none"

\* The slots of a list of rules are different.
DistinctSlots(rules) == \A i, j \in DOMAIN rules : rules[i].slot = rules[j].slot => i = j

\* Of a template that is stored; one that is calculated with need not have
\* different slots (validateCalculationTemplate).
validateCalculationTemplate(template) ==
    IF ~optionalAmountValid(template.maxCommission) \/ "" \in template.allowed
    THEN "invalid_template"
    ELSE IF \E i \in DOMAIN template.rules : validateRule(template.rules[i], FALSE) # "none"
         THEN "invalid_rule" ELSE "none"
validateTemplate(template) ==
    IF validateCalculationTemplate(template) = "none" /\ ~DistinctSlots(template.rules)
    THEN "invalid_template" ELSE validateCalculationTemplate(template)

-----------------------------------------------------------------------------
(* Calculation.                                                            *)

tierIntersection(tier, amount) ==
    LET upper == IF tier.max # 0 /\ amount > tier.max THEN tier.max ELSE amount
    IN IF upper <= tier.min THEN 0 ELSE upper - tier.min

tierContains(tier, amount) == amount >= tier.min /\ (tier.max = 0 \/ amount < tier.max)

\* Mutant of percentageMinor: the amount is not split before it is multiplied.
percentageMinorAtOnce(minor, bps) ==
    Value(Wrap(minor * bps) \div basisPointDenominator)

\* Go's / and % agree with \div and % here: minor is not negative.
percentageMinor(minor, bps) ==
    IF minor < 0 \/ bps \notin 0..basisPointDenominator THEN Error("invalid_tier")
    ELSE LET whole == minor \div basisPointDenominator
             remainder == minor % basisPointDenominator
         IN Value(Wrap(Wrap(whole * bps) + Wrap(remainder * bps) \div basisPointDenominator))

\* An addition guarded against overflow, as calculateRule and Calculate write it.
Add(result, n) ==
    IF Failed(result) THEN result
    ELSE IF result.value > MaxInt - n THEN Error("overflow") ELSE Value(Wrap(result.value + n))

\* sort.SliceStable by the lower end, and then tier by tier.
calculateRule(rule, amount) ==
    LET tiers == SortSeq(rule.tiers, LAMBDA a, b : a.min < b.min)
        accumulate(result, tier) ==
            LET percentage == percentageMinor(tierIntersection(tier, amount), tier.bps)
                total == IF Failed(result) THEN result
                         ELSE IF Failed(percentage) THEN percentage
                         ELSE Add(result, percentage.value)
            IN IF tierContains(tier, amount) THEN Add(total, tier.fixed) ELSE total
    IN FoldLeft(accumulate, Value(0), tiers)

\* Calculate goes through the rules of the template; a rule that earns nothing
\* has no calculation.  state is the total so far and the calculations.
CalculateRule(template, event, state, rule) ==
    LET earned == calculateRule(rule, event.amount.minor)
        total == Add(state.total, earned.value)
        capped == template.maxCommission.minor > 0 /\ total.value > template.maxCommission.minor
        stop(error) == [state EXCEPT !.total = Error(error)]
    IN CASE Failed(state.total) -> state
         [] ~Failed(state.total) /\ validateRule(rule, TRUE) # "none" -> stop(validateRule(rule, TRUE))
         [] OTHER ->
              IF Failed(earned) THEN stop(earned.error)
              ELSE IF earned.value = 0 THEN state
              ELSE IF Failed(total) THEN stop(total.error)
              ELSE IF capped THEN stop("cap_exceeded")
              ELSE [total |-> total,
                    calculations |-> Append(state.calculations,
                        [slot |-> rule.slot, beneficiary |-> rule.beneficiary, minor |-> earned.value])]

Calculate(template, event) ==
    LET final == FoldLeft(LAMBDA state, rule : CalculateRule(template, event, state, rule),
                          [total |-> Value(0), calculations |-> <<>>], template.rules)
    IN IF ~validAmount(event.amount) THEN Error("invalid_event")
       ELSE IF validateCalculationTemplate(template) # "none"
       THEN Error(validateCalculationTemplate(template))
       ELSE IF event.type \notin template.allowed THEN Error("event_type_disabled")
       ELSE IF /\ template.maxCommission.minor > 0
               /\ template.maxCommission.currency # event.amount.currency
       THEN Error("currency_mismatch")
       ELSE IF Failed(final.total) THEN Error(final.total.error)
       ELSE Value(final.calculations)

-----------------------------------------------------------------------------
(* The programs a template admits.                                         *)

\* By lower end, upper end, percentage and fixed amount.
sortedTiers(tiers) ==
    SortSeq(tiers, LAMBDA a, b :
        \/ a.min < b.min
        \/ a.min = b.min /\ a.max < b.max
        \/ a.min = b.min /\ a.max = b.max /\ a.bps < b.bps
        \/ a.min = b.min /\ a.max = b.max /\ a.bps = b.bps /\ a.fixed < b.fixed)

\* Mutant of ruleWithinCap: the ranges of the tiers are not compared.
ruleWithinCapRates(rule, cap) ==
    LET tiers == sortedTiers(rule.tiers)
        caps == sortedTiers(cap.tiers)
    IN /\ Len(tiers) = Len(caps)
       /\ \A i \in DOMAIN tiers : tiers[i].bps <= caps[i].bps /\ tiers[i].fixed <= caps[i].fixed

ruleWithinCap(rule, cap) ==
    LET tiers == sortedTiers(rule.tiers)
        caps == sortedTiers(cap.tiers)
    IN /\ Len(tiers) = Len(caps)
       /\ \A i \in DOMAIN tiers :
              /\ tiers[i].min = caps[i].min /\ tiers[i].max = caps[i].max
              /\ tiers[i].bps <= caps[i].bps /\ tiers[i].fixed <= caps[i].fixed

\* The indices of the template's rules for a slot: the first is used.
templateRule(template, slot) == {i \in DOMAIN template.rules : template.rules[i].slot = slot}

\* Whether CreateProgram accepts the rules of a program.
validateProgramAgainstTemplate(rules, template) ==
    /\ rules # <<>>
    /\ \A i \in DOMAIN rules : validateRule(rules[i], TRUE) = "none"
    /\ DistinctSlots(rules)
    /\ \A i \in DOMAIN rules :
           LET found == templateRule(template, rules[i].slot)
           IN found # {} /\ ruleWithinCap(rules[i], template.rules[Min(found)])

-----------------------------------------------------------------------------
(* What the results must be, without the code's arithmetic: the units of   *)
(* the amount that lie in a tier are counted, sums are taken over the      *)
(* integers.                                                               *)

Units(tier, amount) == Cardinality({u \in 0..amount - 1 : u >= tier.min /\ (tier.max # 0 => u < tier.max)})
TierEarns(tier, amount) ==
    (Units(tier, amount) * tier.bps) \div basisPointDenominator
        + (IF tier.min <= amount /\ (tier.max # 0 => amount < tier.max) THEN tier.fixed ELSE 0)
RuleEarns(rule, amount) == FoldLeft(LAMBDA sum, tier : sum + TierEarns(tier, amount), 0, rule.tiers)
RulesEarn(rules, amount) == FoldLeft(LAMBDA sum, rule : sum + RuleEarns(rule, amount), 0, rules)

\* The calculation of valid rules is exact or refused: it fails if and only if
\* the whole commission exceeds the cap or the integers, and otherwise pays every
\* slot that earns what its tiers give, each tier rounded down once.
ExactFor(template, event) ==
    LET result == Calculate(template, event)
        minor == event.amount.minor
        sum == RulesEarn(template.rules, minor)
        cap == template.maxCommission.minor
        earning == SelectSeq(template.rules, LAMBDA rule : RuleEarns(rule, minor) > 0)
    IN IF sum > (IF cap > 0 THEN cap ELSE MaxInt)
       THEN result.error \in {"overflow", "cap_exceeded"}
       ELSE result = Value([i \in DOMAIN earning |->
                               [slot |-> earning[i].slot, beneficiary |-> earning[i].beneficiary,
                                minor |-> RuleEarns(earning[i], minor)]])

\* A program that its template admits pays no slot more than the template
\* would, whatever the amount.
WithinTemplateFor(rules, template, amount) ==
    validateProgramAgainstTemplate(rules, template) =>
        \A i \in DOMAIN rules : \E j \in DOMAIN template.rules :
            /\ template.rules[j].slot = rules[i].slot
            /\ RuleEarns(rules[i], amount) <= RuleEarns(template.rules[j], amount)
=============================================================================
