SPECIFICATION Spec
CONSTANTS
    Accounts = {alice, bob}
    Xuids = {zero, one, two}
    NoXuid = zero
    Names = {m, n, o}
    BanKinds = {"name"}
    Leftovers = {alice, bob}
SYMMETRY Symmetry
INVARIANTS TurnedAwayStaysOut BannedIsKicked NobodyElseIsBlocked

