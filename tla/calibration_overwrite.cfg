SPECIFICATION FairSpec
CONSTANTS
    Tasks = {c1, c2}
    Loop = Loop
    Nothing = Nothing
    Iterations = 2
    MaxEdits = 1
PROPERTIES
    CalibrationOverwrites
