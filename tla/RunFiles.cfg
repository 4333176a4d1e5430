CONSTANTS
    engine = engine
    ui1 = ui1
    ui2 = ui2
    old = old
    p = p
    q = q
    Recorders <- OneEngine
    Exporters <- TwoInterfaces
    Stems <- ThreeNames
    Old = old
    None = None
    MaxJobs = 2
    MaxFaults = 1
SPECIFICATION Spec
CHECK_DEADLOCK FALSE
SYMMETRY Symmetry
INVARIANT RunsTrue
PROPERTY OwnFilesOnly
