SPECIFICATION Spec
CONSTANTS
    Accounts = {alice, bob}
    Xuids = {zero, one, two}
    NoXuid = zero
    Names = {m, n, o}
    BanKinds = {"name"}
    Leftovers = {}
SYMMETRY Symmetry
PROPERTY UnbanLiftsBan
