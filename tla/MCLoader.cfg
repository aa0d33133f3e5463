SPECIFICATION MCSpec
CONSTANTS
    a = a
    b = b
    c = c
    old = old
    new = new
    Mods <- MCMods
    Reloadable = {a, b}
    Throwing = {b}
    Values <- MCValues
    Default = old
    Unreadable = Unreadable
    ModDefaultEnabled = TRUE
    Importing <- MCImporting
    Files <- MCFiles
    Edits <- MCEdits
    MaxEdits = 1
    Torn <- MCTorn
    f = f
    g = g
    h1 = h1
    h2 = h2
    h3 = h3
    h4 = h4
    d1 = d1
    d2 = d2
    Functions = {f, g}
    Hooks = {h1, h2, h3, h4}
    Target <- MCTarget
    Dll <- MCDll
    Code = Code
    None = None
INVARIANTS
    DependenciesFirst
    EditsKept
    ReportedIsEffective
    CallsEveryHookOnce
PROPERTIES
    LoadEnds
CHECK_DEADLOCK FALSE
