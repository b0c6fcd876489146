SPECIFICATION FairSpec
CONSTANTS
    Deployments = {a, b}
    Tasks = {t1, t2}
    NoTask = NoTask
    Kinds <- AllKinds
    Stages <- AllStages
CHECK_DEADLOCK FALSE
INVARIANTS RunnersHold SettledKeepsItsEntry
PROPERTIES ImplementsReservation LocksComeBack
