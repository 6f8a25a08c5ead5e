SPECIFICATION FairSpec
CONSTANTS
    Sessions = {s1, s2}
    Stranger = Stranger
    Nobody = Nobody
    NonceMod = 2
    MaxVersion = 1
    NetCap = 2
INVARIANTS
    TypeOK
PROPERTIES
    SettledStays
    GoneForGood
    LastUpdateWins
    StatusFollows
