SPECIFICATION FairSpec
CONSTANTS
    a = a
    b = b
    SetPoints <- MCSetPoints
    Centre = a
    Packets <- MCFewPackets
    FcTimeout = 2
    I2cMaxWait = 1
    NoCtrlTimeout = 1
    MaxCalibrations = 0
PROPERTIES
    MpuLossStopsMotors
