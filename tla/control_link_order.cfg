SPECIFICATION FairSpec
CONSTANTS
    Sessions = {s1}
    Stranger = Stranger
    Nobody = Nobody
    NonceMod = 4
    MaxVersion = 1
    NetCap = 2
PROPERTIES
    DataOrder
