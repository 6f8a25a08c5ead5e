------------------------- MODULE FlightControlProofs -------------------------
(***************************************************************************)
(* Theorems about FlightControl for every set of packets and set-points,   *)
(* every timeout and any number of calibration tasks.  The inductive       *)
(* invariant is built in layers, each proved from the ones below it:       *)
(* types; who holds the mutex; what the shared control_data holds at each  *)
(* store of the handler; where the newest command is on its way to the     *)
(* loop; what the loop knows of panic mode before it drives the motors;    *)
(* who set the panic blink rate; how long ago the loop was last notified;  *)
(* how old the newest command is while the motors still turn for another.  *)
(***************************************************************************)
EXTENDS FlightControl, TLAPS

USE PacketsAssumption, TimingAssumption
USE DEF vars, cellVars, udpVars, loopVars, outVars, ledVars, ageVars

\* The handler is between its lock and its unlock.
UdpWriting == upc \in {"throttle", "setpoint", "flag", "strip", "unlock"}

\* The mutex is held exactly in the two critical sections.
LockInv ==
    /\ owner = "udp" <=> UdpWriting
    /\ owner = "main" <=> mpc \in {"copy", "unlock"}

\* What each store of the handler has established.
CellInv ==
    /\ upc \in {"recv", "lock"} => control \in WholeControls
    /\ upc \in {"setpoint", "flag", "strip"} =>
           control.throttle = [neg |-> pkt.clear, mag |-> pkt.throttle]
    /\ upc \in {"flag", "strip"} => control.sp = pkt.sp
    /\ upc = "strip" => control.clear = pkt.clear
    /\ upc \in {"unlock", "notify"} => control = Decode(pkt)
    /\ ctrl \in WholeControls

\* The newest command has reached the loop, or is on its way to it.
FreshInv ==
    \/ ctrl = control
    \/ HQMSG_CTRL_UPDATE \in bits
    \/ UdpWriting \/ upc = "notify"
    \/ HQMSG_CTRL_UPDATE \in msg /\ mpc \in {"read", "lock", "copy"}

\* What the loop knows when it is about to drive the motors, and what holds of
\* the motors when it is not about to set them.
MotorInv ==
    /\ mpc = "init" => motor = MotorsOff
    /\ mpc = "drive" => ~panic /\ Thrust(ctrl) /\ (skewed => ctrl.clear)
    /\ (panic /\ mpc \notin {"drive", "stop"}) => motor = MotorsOff
    /\ MotorsFollowInputs

\* The loop was last notified at most k ticks ago.
NotifiedWithin(k) == mpuAge <= k \/ ctrlAge <= k

InCycle == mpc \in {"read", "lock", "copy", "unlock", "decide", "drive"}

\* How long ago the loop can have been notified, at each place where it can be.
SilenceInv ==
    /\ mpc = "init" => ~motor.on /\ (bits # {} => NotifiedWithin(I2cMaxWait))
    /\ mpc = "wait" =>
           /\ waited <= FcTimeout
           /\ bits # {} => NotifiedWithin(I2cMaxWait)
           /\ motor.on => NotifiedWithin(2 * I2cMaxWait + waited)
    /\ InCycle =>
           /\ waited <= I2cMaxWait
           /\ bits # {} => NotifiedWithin(waited)
           /\ NotifiedWithin(I2cMaxWait + waited)
    /\ mpc = "stop" =>
           /\ bits # {} => NotifiedWithin(I2cMaxWait)
           /\ motor.on => NotifiedWithin(StopBound)

-----------------------------------------------------------------------------

LEMMA DecodeType ==
    ASSUME NEW p \in [throttle : Nat, sp : SetPoints, clear : BOOLEAN]
    PROVE  Decode(p) \in Controls
BY DEF Decode, Controls, Floats

LEMMA WholeType == WholeControls \subseteq Controls
<1>1. ZeroControl \in Controls
  BY DEF ZeroControl, Controls, Floats
<1>2. \A p \in Packets : Decode(p) \in Controls
  BY DecodeType
<1>. QED
  BY <1>1, <1>2 DEF WholeControls

LEMMA InitType == Init => TypeOK
<1>. SUFFICES ASSUME Init PROVE TypeOK
  OBVIOUS
<1>1. ZeroControl \in Controls
  BY WholeType DEF WholeControls
<1>2. TypeTasks
  BY DEF Init, TypeTasks, Messages
<1>3. TypeData
  BY <1>1 DEF Init, TypeData, MotorsOff
<1>4. TypeCounts
  BY DEF Init, TypeCounts, Never, AgeCap, StopBound
<1>. QED
  BY <1>2, <1>3, <1>4 DEF TypeOK

LEMMA StepTypeTasks == TypeTasks /\ [Next]_vars => TypeTasks'
<1>. SUFFICES ASSUME TypeTasks, [Next]_vars PROVE TypeTasks'
  OBVIOUS
<1>. USE DEF TypeTasks
<1>1. CASE UNCHANGED vars
  BY <1>1
<1>2. ASSUME NEW p \in Packets, UdpRecv(p) PROVE TypeTasks'
  BY <1>2 DEF UdpRecv
<1>3. CASE UdpLock \/ UdpUnlock
  BY <1>3 DEF UdpLock, UdpUnlock
<1>4. CASE UdpThrottle \/ UdpSetPoint \/ UdpFlag \/ UdpStrip
  BY <1>4 DEF UdpThrottle, UdpSetPoint, UdpFlag, UdpStrip, UdpStore
<1>5. CASE UdpNotify \/ MpuIsr
  BY <1>5 DEF UdpNotify, MpuIsr, Messages
<1>6. CASE CalibrationBegin \/ CalibrationEnd
  BY <1>6 DEF CalibrationBegin, CalibrationEnd
<1>7. CASE MainInit \/ MainWake \/ MainTimeout
  BY <1>7 DEF MainInit, MainWake, MainTimeout, Sync
<1>8. ASSUME NEW s \in BOOLEAN, MainReadMpu(s) PROVE TypeTasks'
  BY <1>8 DEF MainReadMpu, Sync
<1>9. CASE MainLock \/ MainCopy \/ MainUnlock
  BY <1>9 DEF MainLock, MainCopy, MainUnlock
<1>10. CASE DecideIdle \/ DecideClear \/ DecidePanic \/ DecideFly
  BY <1>10 DEF DecideIdle, DecideClear, DecidePanic, DecideFly, Decide
<1>11. CASE MainDrive \/ MainStop
  BY <1>11 DEF MainDrive, MainStop, EndCycle
<1>12. CASE Tick
  BY <1>12 DEF Tick
<1>. QED
  BY <1>1, <1>2, <1>3, <1>4, <1>5, <1>6, <1>7, <1>8, <1>9, <1>10, <1>11, <1>12
     DEF Next, UdpStep, MainStep

LEMMA StepTypeData == TypeTasks /\ TypeData /\ [Next]_vars => TypeData'
<1>. SUFFICES ASSUME TypeTasks, TypeData, [Next]_vars PROVE TypeData'
  OBVIOUS
<1>. USE DEF TypeData
<1>1. CASE UNCHANGED <<control, ctrl, upc, pkt, motor>>
  BY <1>1
<1>2. ASSUME NEW p \in Packets, UdpRecv(p) PROVE TypeData'
  BY <1>2 DEF UdpRecv
<1>3. CASE UdpLock \/ UdpUnlock \/ UdpNotify
  BY <1>3 DEF UdpLock, UdpUnlock, UdpNotify
<1>4. CASE UdpThrottle
  BY <1>4 DEF UdpThrottle, UdpStore, Controls, Floats
<1>5. CASE UdpSetPoint
  BY <1>5 DEF UdpSetPoint, UdpStore, Controls
<1>6. CASE UdpFlag
  BY <1>6 DEF UdpFlag, UdpStore, Controls, Floats
<1>7. CASE UdpStrip
  BY <1>7 DEF UdpStrip, UdpStore, Controls, Floats
<1>8. CASE MainCopy
  BY <1>8 DEF MainCopy
<1>9. CASE MainDrive
  BY <1>9 DEF TypeTasks, MainDrive, EndCycle
<1>10. CASE MainStop
  <2>1. MotorsOff \in [on : BOOLEAN, ctrl : Controls, skewed : BOOLEAN]
    BY WholeType DEF WholeControls, MotorsOff
  <2>. QED
    BY <1>10, <2>1 DEF MainStop, EndCycle
<1>11. CASE MpuIsr \/ CalibrationBegin \/ CalibrationEnd \/ Tick
  BY <1>1, <1>11 DEF MpuIsr, CalibrationBegin, CalibrationEnd, Tick
<1>12. CASE MainInit \/ MainWake \/ MainTimeout \/ MainLock \/ MainUnlock
  BY <1>1, <1>12 DEF MainInit, MainWake, MainTimeout, MainLock, MainUnlock
<1>13. ASSUME NEW s \in BOOLEAN, MainReadMpu(s) PROVE TypeData'
  BY <1>1, <1>13 DEF MainReadMpu
<1>14. CASE DecideIdle \/ DecideClear \/ DecidePanic \/ DecideFly
  BY <1>1, <1>14 DEF DecideIdle, DecideClear, DecidePanic, DecideFly, Decide
<1>. QED
  BY <1>1, <1>2, <1>3, <1>4, <1>5, <1>6, <1>7, <1>8, <1>9, <1>10, <1>11, <1>12,
     <1>13, <1>14 DEF Next, UdpStep, MainStep

LEMMA StepTypeCounts == TypeCounts /\ [Next]_vars => TypeCounts'
<1>. SUFFICES ASSUME TypeCounts, [Next]_vars PROVE TypeCounts'
  OBVIOUS
<1>. USE DEF TypeCounts, Never, AgeCap, StopBound
<1>1. CASE UNCHANGED <<calibrating, waited, mpuAge, ctrlAge>>
  BY <1>1
<1>2. CASE UdpNotify \/ MpuIsr
  BY <1>2 DEF UdpNotify, MpuIsr
<1>3. CASE CalibrationBegin \/ CalibrationEnd
  BY <1>3 DEF CalibrationBegin, CalibrationEnd
<1>4. CASE MainInit \/ MainWake \/ MainDrive \/ MainStop
  BY <1>4 DEF MainInit, MainWake, MainDrive, MainStop, EndCycle
<1>5. CASE Tick
  BY <1>5 DEF Tick, Older
<1>6. ASSUME NEW p \in Packets, UdpRecv(p) PROVE TypeCounts'
  BY <1>1, <1>6 DEF UdpRecv
<1>7. CASE UdpLock \/ UdpUnlock \/ UdpThrottle \/ UdpSetPoint \/ UdpFlag \/ UdpStrip
  BY <1>1, <1>7 DEF UdpLock, UdpUnlock, UdpThrottle, UdpSetPoint, UdpFlag, UdpStrip,
                    UdpStore
<1>8. CASE MainTimeout \/ MainLock \/ MainCopy \/ MainUnlock
  BY <1>1, <1>8 DEF MainTimeout, MainLock, MainCopy, MainUnlock
<1>9. ASSUME NEW s \in BOOLEAN, MainReadMpu(s) PROVE TypeCounts'
  BY <1>1, <1>9 DEF MainReadMpu
<1>10. CASE DecideIdle \/ DecideClear \/ DecidePanic \/ DecideFly
  BY <1>1, <1>10 DEF DecideIdle, DecideClear, DecidePanic, DecideFly, Decide
<1>. QED
  BY <1>1, <1>2, <1>3, <1>4, <1>5, <1>6, <1>7, <1>8, <1>9, <1>10
     DEF Next, UdpStep, MainStep

LEMMA StepType == TypeOK /\ [Next]_vars => TypeOK'
BY StepTypeTasks, StepTypeData, StepTypeCounts DEF TypeOK

\* Every variable keeps its type: in particular only the two message bits are
\* ever pending and every control_data the tasks exchange is well formed.
THEOREM TypeCorrect == Spec => []TypeOK
BY InitType, StepType, PTL DEF Spec

-----------------------------------------------------------------------------
(* The mutex and the shared control_data.                                  *)

LEMMA StepLock == LockInv /\ [Next]_vars => LockInv'
<1>. SUFFICES ASSUME LockInv, [Next]_vars PROVE LockInv'
  OBVIOUS
<1>. USE DEF LockInv, UdpWriting
<1>1. CASE UNCHANGED <<owner, upc, mpc>>
  BY <1>1
<1>2. ASSUME NEW p \in Packets, UdpRecv(p) PROVE LockInv'
  BY <1>2 DEF UdpRecv
<1>3. CASE UdpLock \/ UdpUnlock \/ UdpNotify
  BY <1>3 DEF UdpLock, UdpUnlock, UdpNotify
<1>4. CASE UdpThrottle \/ UdpSetPoint \/ UdpFlag \/ UdpStrip
  BY <1>4 DEF UdpThrottle, UdpSetPoint, UdpFlag, UdpStrip, UdpStore
<1>5. CASE MpuIsr \/ CalibrationBegin \/ CalibrationEnd \/ Tick
  BY <1>1, <1>5 DEF MpuIsr, CalibrationBegin, CalibrationEnd, Tick
<1>6. CASE MainInit \/ MainWake \/ MainTimeout
  BY <1>6 DEF MainInit, MainWake, MainTimeout, Sync
<1>7. ASSUME NEW s \in BOOLEAN, MainReadMpu(s) PROVE LockInv'
  BY <1>7 DEF MainReadMpu, Sync
<1>8. CASE MainLock \/ MainCopy \/ MainUnlock
  BY <1>8 DEF MainLock, MainCopy, MainUnlock
<1>9. CASE DecideIdle \/ DecideClear \/ DecidePanic \/ DecideFly
  BY <1>9 DEF DecideIdle, DecideClear, DecidePanic, DecideFly, Decide
<1>10. CASE MainDrive \/ MainStop
  BY <1>10 DEF MainDrive, MainStop, EndCycle
<1>. QED
  BY <1>1, <1>2, <1>3, <1>4, <1>5, <1>6, <1>7, <1>8, <1>9, <1>10
     DEF Next, UdpStep, MainStep

LEMMA StepCell == TypeOK /\ LockInv /\ CellInv /\ [Next]_vars => CellInv'
<1>. SUFFICES ASSUME TypeTasks, TypeData, LockInv, CellInv, [Next]_vars PROVE CellInv'
  BY DEF TypeOK
<1>. USE DEF CellInv
<1>0. \A p \in Packets : Decode(p) \in WholeControls
  BY DEF WholeControls
<1>1. CASE UNCHANGED <<control, ctrl, upc, pkt>>
  BY <1>1
<1>2. ASSUME NEW p \in Packets, UdpRecv(p) PROVE CellInv'
  BY <1>2 DEF UdpRecv
<1>3. CASE UdpLock
  BY <1>3 DEF UdpLock
<1>4. CASE UdpThrottle
  BY <1>4 DEF UdpThrottle, UdpStore, TypeData, Controls
<1>5. CASE UdpSetPoint
  BY <1>5 DEF UdpSetPoint, UdpStore, TypeData, Controls
<1>6. CASE UdpFlag
  BY <1>6 DEF UdpFlag, UdpStore, TypeData, Controls
<1>7. CASE UdpStrip
  <2>1. upc = "strip" /\ upc' = "unlock" /\ pkt' = pkt /\ ctrl' = ctrl
    BY <1>7 DEF UdpStrip, UdpStore
  <2>2. control.throttle.mag = pkt.throttle
    BY <2>1
  <2>3. control' = [control EXCEPT !.throttle = [neg |-> FALSE, mag |-> pkt.throttle]]
    BY <1>7, <2>2 DEF UdpStrip, UdpStore
  <2>4. /\ control'.throttle = [neg |-> FALSE, mag |-> pkt.throttle]
        /\ control'.sp = pkt.sp /\ control'.clear = pkt.clear
    BY <2>1, <2>3 DEF TypeData, Controls
  <2>5. control' = [throttle |-> control'.throttle, sp |-> control'.sp,
                    clear |-> control'.clear]
    BY <2>3 DEF TypeData, Controls
  <2>. QED
    BY <2>1, <2>4, <2>5 DEF Decode
<1>8. CASE UdpUnlock
  BY <1>8 DEF UdpUnlock
<1>9. CASE UdpNotify
  BY <1>0, <1>9 DEF UdpNotify, TypeData
<1>10. CASE MainCopy
  <2>1. control \in WholeControls
    BY <1>0, <1>10 DEF MainCopy, LockInv, UdpWriting, TypeTasks, TypeData
  <2>. QED
    BY <1>10, <2>1 DEF MainCopy
<1>11. CASE MpuIsr \/ CalibrationBegin \/ CalibrationEnd \/ Tick
  BY <1>1, <1>11 DEF MpuIsr, CalibrationBegin, CalibrationEnd, Tick
<1>12. CASE MainInit \/ MainWake \/ MainTimeout \/ MainLock \/ MainUnlock
  BY <1>1, <1>12 DEF MainInit, MainWake, MainTimeout, MainLock, MainUnlock
<1>13. ASSUME NEW s \in BOOLEAN, MainReadMpu(s) PROVE CellInv'
  BY <1>1, <1>13 DEF MainReadMpu
<1>14. CASE DecideIdle \/ DecideClear \/ DecidePanic \/ DecideFly
  BY <1>1, <1>14 DEF DecideIdle, DecideClear, DecidePanic, DecideFly, Decide
<1>15. CASE MainDrive \/ MainStop
  BY <1>1, <1>15 DEF MainDrive, MainStop, EndCycle
<1>. QED
  BY <1>1, <1>2, <1>3, <1>4, <1>5, <1>6, <1>7, <1>8, <1>9, <1>10, <1>11, <1>12,
     <1>13, <1>14, <1>15 DEF Next, UdpStep, MainStep

LEMMA StepFresh == TypeTasks /\ LockInv /\ FreshInv /\ [Next]_vars => FreshInv'
<1>. SUFFICES ASSUME TypeTasks, LockInv, FreshInv, [Next]_vars PROVE FreshInv'
  OBVIOUS
<1>. USE DEF FreshInv, UdpWriting
<1>1. CASE UNCHANGED <<control, ctrl, upc, bits, msg, mpc>>
  BY <1>1
<1>2. ASSUME NEW p \in Packets, UdpRecv(p) PROVE FreshInv'
  BY <1>2 DEF UdpRecv
<1>3. CASE UdpLock \/ UdpUnlock \/ UdpNotify
  BY <1>3 DEF UdpLock, UdpUnlock, UdpNotify
<1>4. CASE UdpThrottle \/ UdpSetPoint \/ UdpFlag \/ UdpStrip
  BY <1>4 DEF UdpThrottle, UdpSetPoint, UdpFlag, UdpStrip, UdpStore
<1>5. CASE MpuIsr
  BY <1>5 DEF MpuIsr
<1>6. CASE CalibrationBegin \/ CalibrationEnd \/ Tick
  BY <1>1, <1>6 DEF CalibrationBegin, CalibrationEnd, Tick
<1>7. CASE MainInit \/ MainTimeout
  BY <1>7 DEF MainInit, MainTimeout
<1>8. CASE MainWake
  BY <1>8 DEF MainWake, Sync
<1>9. ASSUME NEW s \in BOOLEAN, MainReadMpu(s) PROVE FreshInv'
  BY <1>9 DEF MainReadMpu, Sync
<1>10. CASE MainLock \/ MainCopy \/ MainUnlock
  BY <1>10 DEF MainLock, MainCopy, MainUnlock
<1>11. CASE DecideIdle \/ DecideClear \/ DecidePanic \/ DecideFly
  BY <1>11 DEF DecideIdle, DecideClear, DecidePanic, DecideFly, Decide
<1>12. CASE MainDrive \/ MainStop
  BY <1>12 DEF MainDrive, MainStop, EndCycle
<1>. QED
  BY <1>1, <1>2, <1>3, <1>4, <1>5, <1>6, <1>7, <1>8, <1>9, <1>10, <1>11, <1>12
     DEF Next, UdpStep, MainStep

\* The invariant of the exchange between the handler and the loop.
ExchangeInv == TypeOK /\ LockInv /\ CellInv /\ FreshInv

LEMMA ExchangeInvariant == Spec => []ExchangeInv
<1>1. Init => ExchangeInv
  <2>. SUFFICES ASSUME Init PROVE LockInv /\ CellInv /\ FreshInv
    BY InitType DEF ExchangeInv
  <2>1. LockInv /\ FreshInv
    BY DEF Init, LockInv, FreshInv, UdpWriting
  <2>2. CellInv
    BY DEF Init, CellInv, WholeControls
  <2>. QED
    BY <2>1, <2>2
<1>2. ExchangeInv /\ [Next]_vars => ExchangeInv'
  BY StepType, StepLock, StepCell, StepFresh DEF ExchangeInv, TypeOK
<1>. QED
  BY <1>1, <1>2, PTL DEF Spec

\* No torn command: the flight loop only ever works on a whole packet, its sign
\* bit already turned into the flag, because both sides hold ctrl_mutex.
THEOREM WholeCommandsAlways == Spec => []WholeCommands
<1>1. ExchangeInv => WholeCommands
  BY DEF ExchangeInv, CellInv, WholeCommands
<1>. QED
  BY <1>1, ExchangeInvariant, PTL

\* No lost update: setting a bit after the unlock and clearing the bits before
\* the copy leave the loop with the newest command whenever all is quiet.
THEOREM NoLostUpdateAlways == Spec => []NoLostUpdate
<1>1. ExchangeInv => NoLostUpdate
  BY DEF ExchangeInv, FreshInv, UdpWriting, NoLostUpdate
<1>. QED
  BY <1>1, ExchangeInvariant, PTL

-----------------------------------------------------------------------------
(* The motors and the status LED.                                          *)

LEMMA StepMotor == TypeTasks /\ MotorInv /\ [Next]_vars => MotorInv'
<1>. SUFFICES ASSUME TypeTasks, MotorInv, [Next]_vars PROVE MotorInv'
  OBVIOUS
<1>. USE DEF MotorInv, MotorsFollowInputs
<1>1. CASE UNCHANGED <<mpc, ctrl, skewed, panic, motor>>
  BY <1>1 DEF Thrust
<1>2. ASSUME NEW p \in Packets, UdpRecv(p) PROVE MotorInv'
  BY <1>1, <1>2 DEF UdpRecv
<1>3. CASE UdpStep
  BY <1>1, <1>3 DEF UdpStep, UdpLock, UdpThrottle, UdpSetPoint, UdpFlag, UdpStrip,
                    UdpStore, UdpUnlock, UdpNotify
<1>4. CASE MpuIsr \/ CalibrationBegin \/ CalibrationEnd \/ Tick
  BY <1>1, <1>4 DEF MpuIsr, CalibrationBegin, CalibrationEnd, Tick
<1>5. CASE MainInit
  BY <1>5 DEF MainInit, MotorsOff
<1>6. CASE MainWake \/ MainTimeout
  BY <1>6 DEF MainWake, MainTimeout, Sync
<1>7. ASSUME NEW s \in BOOLEAN, MainReadMpu(s) PROVE MotorInv'
  BY <1>7 DEF MainReadMpu, Sync
<1>8. CASE MainLock \/ MainCopy \/ MainUnlock
  BY <1>8 DEF MainLock, MainCopy, MainUnlock
<1>9. CASE DecideIdle \/ DecidePanic
  BY <1>9 DEF DecideIdle, DecidePanic, Decide
<1>10. CASE DecideClear \/ DecideFly
  BY <1>10 DEF DecideClear, DecideFly, Decide, Thrust
<1>11. CASE MainDrive
  BY <1>11 DEF MainDrive, EndCycle, Thrust
<1>12. CASE MainStop
  BY <1>12 DEF MainStop, EndCycle, MotorsOff
<1>. QED
  BY <1>1, <1>2, <1>3, <1>4, <1>5, <1>6, <1>7, <1>8, <1>9, <1>10, <1>11, <1>12
     DEF Next, MainStep

LEMMA MotorInvariant == Spec => [](TypeOK /\ MotorInv)
<1>1. Init => MotorInv
  BY DEF Init, MotorInv, MotorsFollowInputs, MotorsOff
<1>2. TypeOK /\ MotorInv /\ [Next]_vars => (TypeOK /\ MotorInv)'
  BY StepType, StepMotor DEF TypeOK
<1>. QED
  BY <1>1, <1>2, InitType, PTL DEF Spec

\* Panic mode is honoured: no packet, interrupt or timeout gets the motors to turn
\* while fc_panicmode is set, since every path that sets it or finds it set stops them.
THEOREM PanicStopsMotorsAlways == Spec => []PanicStopsMotors
<1>1. MotorInv => PanicStopsMotors
  BY DEF MotorInv, PanicStopsMotors
<1>. QED
  BY <1>1, MotorInvariant, PTL

\* Motors that turn follow the newest inputs the loop has, and are never driven
\* from a skewed attitude without the clear flag.
THEOREM MotorsFollowInputsAlways == Spec => []MotorsFollowInputs
<1>1. MotorInv => MotorsFollowInputs
  BY DEF MotorInv
<1>. QED
  BY <1>1, MotorInvariant, PTL

LEMMA StepBlink ==
    TypeCounts /\ NoFalsePanicBlink /\ [Next]_vars => NoFalsePanicBlink'
<1>. SUFFICES ASSUME TypeCounts, NoFalsePanicBlink, [Next]_vars
              PROVE  NoFalsePanicBlink'
  OBVIOUS
<1>. USE DEF NoFalsePanicBlink
<1>1. CASE UNCHANGED <<blink, calibrating, panic>>
  BY <1>1
<1>2. ASSUME NEW p \in Packets, UdpRecv(p) PROVE NoFalsePanicBlink'
  BY <1>1, <1>2 DEF UdpRecv
<1>3. CASE UdpStep
  BY <1>1, <1>3 DEF UdpStep, UdpLock, UdpThrottle, UdpSetPoint, UdpFlag, UdpStrip,
                    UdpStore, UdpUnlock, UdpNotify
<1>4. CASE MpuIsr \/ Tick
  BY <1>1, <1>4 DEF MpuIsr, Tick
<1>5. CASE CalibrationBegin \/ CalibrationEnd
  BY <1>5 DEF CalibrationBegin, CalibrationEnd, TypeCounts
<1>6. CASE MainInit
  BY <1>6 DEF MainInit
<1>7. CASE MainWake \/ MainTimeout \/ MainLock \/ MainCopy \/ MainUnlock
  BY <1>1, <1>7 DEF MainWake, MainTimeout, MainLock, MainCopy, MainUnlock
<1>8. ASSUME NEW s \in BOOLEAN, MainReadMpu(s) PROVE NoFalsePanicBlink'
  BY <1>1, <1>8 DEF MainReadMpu
<1>9. CASE DecideIdle \/ DecideClear \/ DecidePanic \/ DecideFly
  BY <1>9 DEF DecideIdle, DecideClear, DecidePanic, DecideFly, Decide
<1>10. CASE MainDrive \/ MainStop
  BY <1>1, <1>10 DEF MainDrive, MainStop, EndCycle
<1>. QED
  BY <1>1, <1>2, <1>3, <1>4, <1>5, <1>6, <1>7, <1>8, <1>9, <1>10 DEF Next, MainStep

\* The LED, which the loop and any number of calibration tasks write, does not show
\* the panic rate outside panic mode once no calibration runs.
THEOREM NoFalsePanicBlinkAlways == Spec => []NoFalsePanicBlink
<1>1. Init => NoFalsePanicBlink
  BY DEF Init, NoFalsePanicBlink
<1>2. TypeOK /\ NoFalsePanicBlink /\ [Next]_vars => NoFalsePanicBlink'
  BY StepBlink DEF TypeOK
<1>. QED
  BY <1>1, <1>2, TypeCorrect, PTL DEF Spec

-----------------------------------------------------------------------------
(* The bound on how long the motors outlast the last notification.         *)

LEMMA StepSilence == TypeOK /\ SilenceInv /\ [Next]_vars => SilenceInv'
<1>. SUFFICES ASSUME TypeTasks, TypeCounts, SilenceInv, [Next]_vars PROVE SilenceInv'
  BY DEF TypeOK
<1>. USE DEF SilenceInv, InCycle, NotifiedWithin, TypeCounts, StopBound
<1>1. CASE UNCHANGED <<mpc, bits, waited, motor, mpuAge, ctrlAge>>
  BY <1>1
<1>2. ASSUME NEW p \in Packets, UdpRecv(p) PROVE SilenceInv'
  BY <1>1, <1>2 DEF UdpRecv
<1>3. CASE UdpLock \/ UdpUnlock \/ UdpThrottle \/ UdpSetPoint \/ UdpFlag \/ UdpStrip
  BY <1>1, <1>3 DEF UdpLock, UdpUnlock, UdpThrottle, UdpSetPoint, UdpFlag, UdpStrip,
                    UdpStore
<1>4. CASE UdpNotify
  BY <1>4 DEF UdpNotify
<1>5. CASE MpuIsr
  BY <1>5 DEF MpuIsr
<1>6. CASE CalibrationBegin \/ CalibrationEnd
  BY <1>1, <1>6 DEF CalibrationBegin, CalibrationEnd
<1>7. CASE MainInit
  BY <1>7 DEF MainInit
<1>8. CASE MainWake
  BY <1>8 DEF MainWake, Sync
<1>9. CASE MainTimeout
  BY <1>9 DEF MainTimeout
<1>10. ASSUME NEW s \in BOOLEAN, MainReadMpu(s) PROVE SilenceInv'
  BY <1>10 DEF MainReadMpu, Sync
<1>11. CASE MainLock \/ MainCopy \/ MainUnlock
  BY <1>11 DEF MainLock, MainCopy, MainUnlock
<1>12. CASE DecideIdle \/ DecideClear \/ DecidePanic \/ DecideFly
  BY <1>12 DEF DecideIdle, DecideClear, DecidePanic, DecideFly, Decide
<1>13. CASE MainDrive
  BY <1>13 DEF MainDrive, EndCycle
<1>14. CASE MainStop
  BY <1>14 DEF MainStop, EndCycle, MotorsOff
<1>15. CASE Tick
  <2>1. Older(mpuAge) \in Nat /\ Older(mpuAge) <= mpuAge + 1
    BY DEF Older, AgeCap
  <2>2. Older(ctrlAge) \in Nat /\ Older(ctrlAge) <= ctrlAge + 1
    BY DEF Older, AgeCap
  <2>3. CASE mpc = "wait" /\ bits = {} /\ waited < FcTimeout
    BY <1>15, <2>1, <2>2, <2>3 DEF Tick, AgeCap
  <2>4. CASE mpc = "read" /\ waited < I2cMaxWait
    BY <1>15, <2>1, <2>2, <2>4 DEF Tick, AgeCap
  <2>. QED
    BY <1>15, <2>3, <2>4 DEF Tick, Blocked
<1>. QED
  BY <1>1, <1>2, <1>3, <1>4, <1>5, <1>6, <1>7, <1>8, <1>9, <1>10, <1>11, <1>12,
     <1>13, <1>14, <1>15 DEF Next, UdpStep, MainStep

\* The fail-safe: for every timeout and every bound on an I2C transfer, with no
\* interrupt and no control update for StopBound ticks the motors are off.
THEOREM SilenceStopsMotorsAlways == Spec => []SilenceStopsMotors
<1>1. Init => SilenceInv
  BY DEF Init, SilenceInv, InCycle, MotorsOff
<1>2. TypeOK /\ SilenceInv /\ [Next]_vars => SilenceInv'
  BY StepSilence
<1>3. TypeOK /\ SilenceInv => SilenceStopsMotors
  BY DEF TypeOK, TypeTasks, TypeCounts, SilenceInv, InCycle, NotifiedWithin, StopBound,
         SilenceStopsMotors
<1>. QED
  BY <1>1, <1>2, <1>3, TypeCorrect, PTL DEF Spec

-----------------------------------------------------------------------------
(* The bound on how long the motors outlast a command.                     *)

\* How old an announced command can be at each place on its way to the motors, and
\* where the motors can still be driven from an older one.
LatencyInv ==
    /\ mpc = "read" => waited <= I2cMaxWait
    /\ mpc \in {"lock", "copy"} => HQMSG_CTRL_UPDATE \in msg
    /\ HQMSG_CTRL_UPDATE \in bits =>
           ctrlAge <= I2cMaxWait /\ (mpc = "read" => ctrlAge <= waited)
    /\ HQMSG_CTRL_UPDATE \in msg =>
           /\ mpc = "read" => ctrlAge <= I2cMaxWait + waited
           /\ mpc \in {"lock", "copy"} => ctrlAge <= 2 * I2cMaxWait
    /\ motor.on => Thrust(motor.ctrl)
    /\ (motor.on /\ motor.ctrl # ctrl) =>
           mpc \in {"unlock", "decide", "drive", "stop"} /\ ctrlAge <= 2 * I2cMaxWait

LEMMA StepLatency ==
    TypeOK /\ MotorInv /\ LatencyInv /\ [Next]_vars => LatencyInv'
<1>. SUFFICES ASSUME TypeTasks, TypeCounts, MotorInv, LatencyInv, [Next]_vars
              PROVE  LatencyInv'
  BY DEF TypeOK
<1>. USE DEF LatencyInv, TypeCounts
<1>1. CASE UNCHANGED <<mpc, bits, msg, ctrl, motor, waited, ctrlAge>>
  BY <1>1 DEF Thrust
<1>2. ASSUME NEW p \in Packets, UdpRecv(p) PROVE LatencyInv'
  BY <1>1, <1>2 DEF UdpRecv
<1>3. CASE UdpLock \/ UdpUnlock \/ UdpThrottle \/ UdpSetPoint \/ UdpFlag \/ UdpStrip
  BY <1>1, <1>3 DEF UdpLock, UdpUnlock, UdpThrottle, UdpSetPoint, UdpFlag, UdpStrip,
                    UdpStore
<1>4. CASE UdpNotify
  BY <1>4 DEF UdpNotify, Thrust, AgeCap, StopBound
<1>5. CASE MpuIsr
  BY <1>5 DEF MpuIsr, Thrust, HQMSG_MPU_UPDATE, HQMSG_CTRL_UPDATE
<1>6. CASE CalibrationBegin \/ CalibrationEnd
  BY <1>1, <1>6 DEF CalibrationBegin, CalibrationEnd
<1>7. CASE MainInit
  BY <1>7 DEF MainInit, Thrust
<1>8. CASE MainWake
  BY <1>8 DEF MainWake, Sync, Thrust
<1>9. CASE MainTimeout
  BY <1>9 DEF MainTimeout, Thrust
<1>10. ASSUME NEW s \in BOOLEAN, MainReadMpu(s) PROVE LatencyInv'
  BY <1>10 DEF MainReadMpu, Sync, Thrust
<1>11. CASE MainLock \/ MainUnlock
  BY <1>11 DEF MainLock, MainUnlock, Thrust
<1>12. CASE MainCopy
  BY <1>12 DEF MainCopy, Thrust
<1>13. CASE DecideIdle \/ DecideClear \/ DecidePanic \/ DecideFly
  BY <1>13 DEF DecideIdle, DecideClear, DecidePanic, DecideFly, Decide, Thrust
<1>14. CASE MainDrive
  BY <1>14 DEF MainDrive, EndCycle, MotorInv, Thrust
<1>15. CASE MainStop
  BY <1>15 DEF MainStop, EndCycle, MotorsOff
<1>16. CASE Tick
  <2>1. Older(ctrlAge) \in Nat /\ Older(ctrlAge) <= ctrlAge + 1
    BY DEF Older, AgeCap, StopBound
  <2>2. CASE mpc = "wait" /\ bits = {}
    BY <1>16, <2>1, <2>2 DEF Tick, Thrust
  <2>3. CASE mpc = "read" /\ waited < I2cMaxWait
    BY <1>16, <2>1, <2>3 DEF Tick, Thrust
  <2>. QED
    BY <1>16, <2>2, <2>3 DEF Tick, Blocked
<1>. QED
  BY <1>1, <1>2, <1>3, <1>4, <1>5, <1>6, <1>7, <1>8, <1>9, <1>10, <1>11, <1>12,
     <1>13, <1>14, <1>15, <1>16 DEF Next, UdpStep, MainStep

\* The latency of a command: for every bound on an I2C transfer, two transfers after its
\* notification the motors turn for the newest command alone, or have stopped.
THEOREM NewestCommandFliesAlways == Spec => []NewestCommandFlies
<1>1. Init => LatencyInv
  BY DEF Init, LatencyInv, MotorsOff
<1>2. TypeOK /\ MotorInv /\ LatencyInv /\ [Next]_vars => LatencyInv'
  BY StepLatency
<1>3. TypeOK /\ FreshInv /\ LatencyInv => NewestCommandFlies
  BY DEF TypeOK, TypeTasks, TypeCounts, FreshInv, UdpWriting, LatencyInv, NewestCommandFlies
<1>. QED
  BY <1>1, <1>2, <1>3, ExchangeInvariant, MotorInvariant, PTL DEF Spec, ExchangeInv

-----------------------------------------------------------------------------
(* The loop implements MotorGate.                                          *)

LEMMA InitGate == Init => Gate!Init
BY DEF Init, Gate!Init, Latest, MotorsOff, ZeroControl, Gate!MotorsOff, Gate!ZeroControl

LEMMA StepGate ==
    ExchangeInv /\ MotorInv /\ [Next]_vars => [Gate!Next]_(Gate!vars)
<1>. SUFFICES ASSUME TypeTasks, TypeData, LockInv, CellInv, MotorInv, [Next]_vars
              PROVE  Gate!Next \/ UNCHANGED <<Latest, ctrl, skewed, panic, motor>>
  BY DEF ExchangeInv, TypeOK, Gate!vars
<1>. USE DEF Latest
<1>1. CASE UNCHANGED <<upc, pkt, control, ctrl, skewed, panic, motor>>
  BY <1>1
<1>2. ASSUME NEW p \in Packets, UdpRecv(p)
      PROVE  UNCHANGED <<Latest, ctrl, skewed, panic, motor>>
  BY <1>2 DEF UdpRecv
<1>3. CASE UdpLock
  <2>1. pkt \in Packets /\ Latest' = Decode(pkt)
    BY <1>3 DEF UdpLock, TypeData, Decode
  <2>2. Gate!Publish(pkt)
    BY <1>3, <2>1 DEF UdpLock, Gate!Publish, Gate!Decode, Decode
  <2>. QED
    BY <2>1, <2>2 DEF Gate!Next
<1>4. CASE UdpThrottle \/ UdpSetPoint \/ UdpFlag \/ UdpStrip
  BY <1>4 DEF UdpThrottle, UdpSetPoint, UdpFlag, UdpStrip, UdpStore, Decode
<1>5. CASE UdpUnlock
  BY <1>5 DEF UdpUnlock, CellInv
<1>6. CASE UdpNotify
  BY <1>6 DEF UdpNotify
<1>7. CASE MpuIsr \/ CalibrationBegin \/ CalibrationEnd \/ Tick
  BY <1>1, <1>7 DEF MpuIsr, CalibrationBegin, CalibrationEnd, Tick
<1>8. CASE MainInit \/ MainWake \/ MainTimeout \/ MainLock \/ MainUnlock
  BY <1>1, <1>8 DEF MainInit, MainWake, MainTimeout, MainLock, MainUnlock
<1>9. ASSUME NEW s \in BOOLEAN, MainReadMpu(s) PROVE Gate!Next
  <2>1. Gate!Sense(s)
    BY <1>9 DEF MainReadMpu, Gate!Sense, Decode
  <2>. QED
    BY <2>1 DEF Gate!Next
<1>10. CASE MainCopy
  <2>1. Latest = control /\ Latest' = control
    BY <1>10 DEF MainCopy, LockInv, UdpWriting
  <2>2. Gate!Adopt
    BY <1>10, <2>1 DEF MainCopy, Gate!Adopt
  <2>. QED
    BY <2>2 DEF Gate!Next
<1>11. CASE DecideIdle \/ DecideFly
  BY <1>1, <1>11 DEF DecideIdle, DecideFly, Decide
<1>12. CASE DecideClear
  <2>1. Gate!LeavePanic
    BY <1>12 DEF DecideClear, Decide, Gate!LeavePanic, Gate!Thrust, Thrust,
           Decode
  <2>. QED
    BY <2>1 DEF Gate!Next
<1>13. CASE DecidePanic
  <2>1. CASE panic
    BY <1>1, <1>13, <2>1 DEF DecidePanic, Decide, TypeTasks
  <2>2. CASE ~panic
    <3>1. Gate!EnterPanic
      BY <1>13, <2>2 DEF DecidePanic, Decide, Gate!EnterPanic, Gate!Thrust,
             Thrust, Decode
    <3>. QED
      BY <3>1 DEF Gate!Next
  <2>. QED
    BY <2>1, <2>2
<1>14. CASE MainDrive
  <2>1. Gate!Drive
    BY <1>14 DEF MainDrive, EndCycle, MotorInv, Gate!Drive, Gate!Thrust, Thrust, Decode
  <2>. QED
    BY <2>1 DEF Gate!Next
<1>15. CASE MainStop
  <2>1. Gate!Stop
    BY <1>15 DEF MainStop, EndCycle, Gate!Stop, Gate!MotorsOff, Gate!ZeroControl,
           MotorsOff, ZeroControl, Decode
  <2>. QED
    BY <2>1 DEF Gate!Next
<1>. QED
  BY <1>1, <1>2, <1>3, <1>4, <1>5, <1>6, <1>7, <1>8, <1>9, <1>10, <1>11, <1>12,
     <1>13, <1>14, <1>15 DEF Next, UdpStep, MainStep

\* Every behaviour of the loop with its lock, tasks and clock is one of MotorGate:
\* commands change hands whole, and the motors run only as the gate allows.
THEOREM FlightControlImplementsMotorGate == Spec => ImplementsMotorGate
<1>1. Init => Gate!Init
  BY InitGate
<1>2. ExchangeInv /\ MotorInv /\ [Next]_vars => [Gate!Next]_(Gate!vars)
  BY StepGate
<1>. QED
  BY <1>1, <1>2, ExchangeInvariant, MotorInvariant, PTL
     DEF Spec, ImplementsMotorGate, Gate!Spec
=============================================================================
