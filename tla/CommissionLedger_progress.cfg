SPECIFICATION FairSpec
CONSTANTS
    Clients = {c1}
    Earnings = {1, 2}
    Payee <- MCPayee
    AvailableAt <- MCAvailableAt
    Settlements = {s1, s2}
    NoSettlement = NoSettlement
    References = {r1}
    NoReference = NoReference
    MaxDueBatch = 1
    MaxTime = 2
    MaxVersion = 5
PROPERTIES BatchesResolve DueReleased
