SPECIFICATION Spec
CONSTANTS
    Stages <- TwoStages
    Services = 1
    Tasks = {t1, t2}
    NoTask = NoTask
    Keep = 1
    MaxSnaps = 3
SYMMETRY Symmetry
INVARIANTS TypeOK NobodyInterferes CanRollBack SourceKept
