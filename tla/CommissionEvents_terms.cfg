SPECIFICATION MCSpec
CONSTANTS
    Recorders = {c1, c2}
    Templates = {t1}
    Programs = {p1}
    TemplateOf <- MCTemplateOf
    Slots = {"seller"}
    Default <- MCDefault
    Beneficiaries = {"ada", "bob"}
    Sources = {x1}
    Facts = {"big", "small"}
    Earns <- MCEarns
    NoProgram = NoProgram
    NoSource = NoSource
    NoFacts = NoFacts
    NoBeneficiary = NoBeneficiary
    MaxTermVersion = 5
    MaxInt = 31
    basisPointDenominator = 4
INVARIANTS OneSetOfEarnings CalculationExact ProgramsWithinTemplate
PROPERTY RecordedOnCurrentTerms
