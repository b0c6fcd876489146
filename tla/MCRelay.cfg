SPECIFICATION RelayFairSpec
CONSTANTS
    Baileys = {b}
    Streams = {s1}
    Links = {l1, l2}
    PublicHosts = {h}
    Nobody = Nobody
    MaxBreakages = 2
    MaxMoves = 2
INVARIANTS RelayTypeOK NobodyStranded
PROPERTIES TunnelComesBack StreamsAnswered MovesAreSeen
CHECK_DEADLOCK FALSE
