SPECIFICATION MCSpec
CONSTANTS
    p1 = p1
    a = a
    b = b
    Holders = {h1, h2, h3}
    Amounts <- MCAmounts
    Sums <- MCSums
    NoRow = NoRow
    NoCommand = NoCommand
    Owners = {h1, h2, h3}
    NoTable = NoTable
    NoWarp = NoWarp
    Nowhere = Nowhere
    Players <- OnePlayer
    Names <- TwoNames
    Callbacks <- OtherMod
    Ids = {0, 1, 2}
    Heights = {1}
    Limit = 1
    MaxForms = 3
SYMMETRY AnyName
INVARIANTS NamesKept RefusedForAReason CallbackPerForm WithinLimit
PROPERTIES DebtIsTheFirstChange AllOrNothing ButtonsLead
