SPECIFICATION Spec
CONSTANTS
    a = a
    b = b
    SetPoints <- MCSetPoints
    Centre = a
    Packets <- MCFewPackets
    FcTimeout = 1
    I2cMaxWait = 1
    NoCtrlTimeout = 4
    MaxCalibrations = 0
INVARIANTS
    LinkLossStopsMotors
