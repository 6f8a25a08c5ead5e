SPECIFICATION FairSpec
CONSTANTS
    Sessions = {s1, s2, s3}
    Threads = {t1, t2}
    None = None
INVARIANTS
    TypeOK
    TimeoutOnce
    NoStraySession
    OneSession
    ButtonAgrees
PROPERTIES
    SessionsTakeTurns
    
CHECK_DEADLOCK FALSE
