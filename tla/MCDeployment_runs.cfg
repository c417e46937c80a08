CONSTANTS
    None = None
    d1 = d1
    d2 = d2
    t1 = t1
    a = a
    b = b
    Procs <- Everyone
    Servers <- Dashboards
    Tools <- OneTool
    Segs <- Segments
    Commands <- AllCommands
    JobTakes <- Takes
    Files = 2
    MaxResets = 1
    MinEvents = 1
    MinPooled = 2
    MaxRows = 2
    MaxFits = 2
SPECIFICATION MCSpec
INVARIANTS SchemaIsWhole NoViteLeft RebuiltIsCold RebuildReplaces
PROPERTIES StartSettles
