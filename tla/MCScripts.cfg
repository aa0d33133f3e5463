SPECIFICATION MCSpec
CONSTANTS
    index = index
    b = b
    sa = sa
    sb = sb
    nowhere = nowhere
    ez = ez
    lz = lz
    dA = dA
    dB = dB
    dS = dS
    dU = dU
    bB = bB
    E = E
    L = L
    None = None
    Null = Null
    SqlNull = SqlNull
    NoHolder = NoHolder
    End = End
    Files <- MCFiles
    Root = index
    Builtins = {ez, lz}
    Lazy = {lz}
    Specs <- MCSpecs
    Raw <- MCRaw
    Resolve <- MCResolve
    Importing <- MCImporting
    Absent <- MCAbsent
    MaxStack = 5
    MaxImports = 1
    Callees = {v1, v2}
    Slots = {s1, s2, s3}
    MaxCount = 3
    Types = {"bool", "enum", "players"}
    SizeOf <- MCSizeOf
    Selectors = {"players"}
    Target = 20
    Enums = {"e"}
    MaxParams = 3
    MaxOverloads = 1
    Parameters = 2
    Numbers = {n}
    Text = Text
    Illegal = Illegal
    MaxLoops = 2
    x = x
    y = y
    z = z
    Listeners = {x, y, z}
    Priority <- MCPriority
    Acting <- MCActing
    MaxLines = 3
    Players = {p1, p2}
    Bars = {b1, b2}
    RebuildTicks = 2
    MaxSession = 1
INVARIANTS
    SharedModules
    HeldIsAlive
    ArgumentsAsGiven
    OwnParameters
    CalledInOrder
    BarsOnScreen
CHECK_DEADLOCK FALSE
