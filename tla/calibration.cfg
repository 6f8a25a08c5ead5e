SPECIFICATION FairSpec
CONSTANTS
    Tasks = {c1, c2}
    Loop = Loop
    Nothing = Nothing
    Iterations = 2
    MaxEdits = 2
INVARIANTS
    TypeOK
    LoopGetsInterruptBack
    GroupOutlivesHandler
    NothingSavedUnasked
PROPERTIES
    CalibrationAdvances
    CalibrationEnds
