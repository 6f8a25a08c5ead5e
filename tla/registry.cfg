SPECIFICATION FairSpec
CONSTANTS
    Registers <- MCRegisters
    Strangers <- MCStrangers
    Calibrated <- MCCalibrated
    Limit <- MCLimit
    Default <- MCDefault
    Numbers = {1, 2}
    Lengths = {2, 3}
    HeapSize = 2
    SizeMod = 5
    Httpd = httpd
    Tasks = {t}
    None = None
INVARIANTS
    TypeOK
    RamAndFlashAgree
    ReceiveAdvances
PROPERTIES
    ImplementsDurableMap
    RequestsEnd
