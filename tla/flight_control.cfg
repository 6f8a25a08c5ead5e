SPECIFICATION Spec
CONSTANTS
    a = a
    b = b
    SetPoints <- MCSetPoints
    Centre = a
    Packets <- MCPackets
    FcTimeout = 1
    I2cMaxWait = 1
    NoCtrlTimeout = 1
    MaxCalibrations = 1
INVARIANTS
    TypeOK
    WholeCommands
    NoLostUpdate
    PanicStopsMotors
    MotorsFollowInputs
    NoFalsePanicBlink
    SilenceStopsMotors
    NewestCommandFlies
PROPERTIES
    ImplementsMotorGate
