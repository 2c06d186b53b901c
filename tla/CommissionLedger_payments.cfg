SPECIFICATION Spec
CONSTANTS
    Clients = {c1, c2}
    Earnings = {1, 2}
    Payee <- MCPayee
    AvailableAt <- MCAvailableAt
    Settlements = {s1, s2}
    NoSettlement = NoSettlement
    References = {r1}
    NoReference = NoReference
    MaxDueBatch = 1
    MaxTime = 2
    MaxVersion = 5
INVARIANTS TypeOK ClaimedOnce PaidOnce JournalExplains
PROPERTY OutcomeFinal
SYMMETRY Symmetry
