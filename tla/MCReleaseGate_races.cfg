SPECIFICATION Spec
CONSTANTS
    a = a
    b = b
    a1 = a1
    b1 = b1
    Members = {a, b}
    Parts = {a1, b1}
    Of <- PartOf
    Auditors = {x}
    Tasks = {t1, t2}
    Kinds <- RaceKinds
    MaxRequired = 1
    MaxSignOffs = 1
SYMMETRY Symmetry
INVARIANTS TypeOK OnlyAdmittedInProduction
