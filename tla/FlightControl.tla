--------------------------- MODULE FlightControl ----------------------------
(***************************************************************************)
(* The flight-control loop of firmware/main/hackquad/hackquad_main.c and   *)
(* what runs beside it: the UDP task's packet handler, which fills the     *)
(* shared control_data under ctrl_mutex, the MPU data-ready interrupt, the *)
(* calibration task that shares the status LED, and the FreeRTOS tick.     *)
(*                                                                         *)
(* The ESP32 has two cores and no task is pinned, so the tasks interleave  *)
(* at every access to shared memory.  The handler writes control_data      *)
(* field by field; the loop's memcpy is one step.  mpu_latest is reduced   *)
(* to the comparison the loop makes (is |angle.x| or |angle.y| above       *)
(* FC_PANIC_MODE_ACT) and the PID and mixing arithmetic to the inputs it   *)
(* is computed from.                                                       *)
(***************************************************************************)
EXTENDS Commands

CONSTANTS
    FcTimeout,        \* FC_UPDATE_TIMEOUT, in ticks
    I2cMaxWait,       \* longest mpu_read, when the bus hangs (I2C_MAX_WAIT)
    NoCtrlTimeout,    \* NO_CTRL_TIMEOUT
    MaxCalibrations   \* bound on calibration tasks alive at once

ASSUME TimingAssumption ==
    /\ FcTimeout \in Nat \ {0}
    /\ I2cMaxWait \in Nat
    /\ NoCtrlTimeout \in Nat
    /\ MaxCalibrations \in Nat

VARIABLES
    control,      \* static struct control_data, shared
    owner,        \* holder of ctrl_mutex
    upc,          \* the UDP task: where it is in udp_recv_handler
    pkt,          \* ... and its receive buffer
    bits,         \* the flight loop's pending notification bits
    mpc,          \* the flight loop: where it is
    msg,          \* ... the bits it woke with
    ctrl,         \* ... its copy of control_data
    skewed,       \* ... mpu_latest.angle is beyond FC_PANIC_MODE_ACT
    panic,        \* ... fc_panicmode
    motor,        \* what the four motors were last driven from
    blink,        \* blink rate of the status LED
    calibrating,  \* calibration tasks alive
    waited,       \* ticks spent in the current blocking call of the loop
    mpuAge,       \* ticks since the last MPU interrupt (history)
    ctrlAge       \* ticks since the last control notification (history)

cellVars  == <<control, owner>>
udpVars   == <<upc, pkt>>
loopVars  == <<mpc, msg, ctrl>>
outVars   == <<skewed, panic, motor>>
ledVars   == <<blink, calibrating>>
ageVars   == <<mpuAge, ctrlAge>>
vars == <<cellVars, udpVars, bits, loopVars, outVars, ledVars, waited, ageVars>>

HQMSG_MPU_UPDATE  == 1
HQMSG_CTRL_UPDATE == 2
Messages == {HQMSG_MPU_UPDATE, HQMSG_CTRL_UPDATE}

\* Ages are counted up to one past the largest bound a property compares with.
StopBound == FcTimeout + 2 * I2cMaxWait
AgeCap == 1 + IF StopBound > NoCtrlTimeout THEN StopBound ELSE NoCtrlTimeout
Never == AgeCap + 1     \* there has been none since the boot
Older(a) == IF a < AgeCap THEN a + 1 ELSE a

\* BSS is zero, motor_init has set every duty to zero, the LED blinks fast.
Init ==
    /\ control = ZeroControl /\ owner = "none"
    /\ upc = "recv" /\ pkt = [throttle |-> 0, sp |-> Centre, clear |-> FALSE]
    /\ bits = {}
    /\ mpc = "init" /\ msg = {} /\ ctrl = ZeroControl
    /\ skewed = FALSE /\ panic = FALSE /\ motor = MotorsOff
    /\ blink = "FAST" /\ calibrating = 0
    /\ waited = 0 /\ mpuAge = Never /\ ctrlAge = Never

-----------------------------------------------------------------------------
(* The UDP task: udp_recv_handler, case UPDATE_CONTROL.                    *)

\* recvfrom returned a control update; the handler asks for the mutex.
UdpRecv(p) ==
    /\ upc = "recv"
    /\ pkt' = p /\ upc' = "lock"
    /\ UNCHANGED <<cellVars, bits, loopVars, outVars, ledVars, waited, ageVars>>

UdpLock ==
    /\ upc = "lock" /\ owner = "none"
    /\ owner' = "udp" /\ upc' = "throttle"
    /\ UNCHANGED <<control, pkt, bits, loopVars, outVars, ledVars, waited, ageVars>>

\* One store into control_data, then on to the next.
UdpStore(at, next, value) ==
    /\ upc = at
    /\ control' = value /\ upc' = next
    /\ UNCHANGED <<owner, pkt, bits, loopVars, outVars, ledVars, waited, ageVars>>

\* The throttle arrives with the clear flag in its sign bit ...
UdpThrottle ==
    UdpStore("throttle", "setpoint",
             [control EXCEPT !.throttle = [neg |-> pkt.clear, mag |-> pkt.throttle]])

UdpSetPoint == UdpStore("setpoint", "flag", [control EXCEPT !.sp = pkt.sp])

\* ... which becomes flag_clear_panicmode ...
UdpFlag == UdpStore("flag", "strip", [control EXCEPT !.clear = control.throttle.neg])

\* ... and is then masked off.
UdpStrip ==
    UdpStore("strip", "unlock",
             [control EXCEPT !.throttle = [neg |-> FALSE, mag |-> control.throttle.mag]])

BugUdpUnlock ==   \* an early return skips the unlock
    /\ upc = "unlock"
    /\ upc' = "notify"
    /\ UNCHANGED <<cellVars, pkt, bits, loopVars, outVars, ledVars, waited, ageVars>>

UdpUnlock ==
    /\ upc = "unlock"
    /\ owner' = "none" /\ upc' = "notify"
    /\ UNCHANGED <<control, pkt, bits, loopVars, outVars, ledVars, waited, ageVars>>

BugUdpNotify ==   \* notifies with the packet id for a message bit
    /\ upc = "notify"
    /\ bits' = bits \cup {69}
    /\ upc' = "recv" /\ ctrlAge' = 0
    /\ UNCHANGED <<cellVars, pkt, loopVars, outVars, ledVars, waited, mpuAge>>

\* xTaskNotify(task_hackquad_main, HQMSG_CTRL_UPDATE, eSetBits)
UdpNotify ==
    /\ upc = "notify"
    /\ bits' = bits \cup {HQMSG_CTRL_UPDATE}
    /\ upc' = "recv" /\ ctrlAge' = 0
    /\ UNCHANGED <<cellVars, pkt, loopVars, outVars, ledVars, waited, mpuAge>>

UdpStep ==
    \/ UdpLock \/ UdpThrottle \/ UdpSetPoint \/ UdpFlag \/ UdpStrip
    \/ UdpUnlock \/ UdpNotify

-----------------------------------------------------------------------------
(* The MPU interrupt and the calibration task.                             *)

BugMpuIsr ==      \* eSetValueWithOverwrite for eSetBits
    /\ mpc # "init"
    /\ bits' = {HQMSG_MPU_UPDATE}
    /\ mpuAge' = 0
    /\ UNCHANGED <<cellVars, udpVars, loopVars, outVars, ledVars, waited, ctrlAge>>

\* Installed by mpu_init; a dead or misdetected MPU never interrupts.
MpuIsr ==
    /\ mpc # "init"
    /\ bits' = bits \cup {HQMSG_MPU_UPDATE}
    /\ mpuAge' = 0
    /\ UNCHANGED <<cellVars, udpVars, loopVars, outVars, ledVars, waited, ctrlAge>>

\* _mpu_calibrate_task drives the LED too.  What mpu_calibrate does to the
\* interrupt is, for the loop, an MPU that may go silent.
CalibrationBegin ==
    /\ calibrating < MaxCalibrations
    /\ calibrating' = calibrating + 1 /\ blink' = "VERY_FAST"
    /\ UNCHANGED <<cellVars, udpVars, bits, loopVars, outVars, waited, ageVars>>

CalibrationEnd ==
    /\ calibrating > 0
    /\ calibrating' = calibrating - 1 /\ blink' = "NORMAL"
    /\ UNCHANGED <<cellVars, udpVars, bits, loopVars, outVars, waited, ageVars>>

-----------------------------------------------------------------------------
(* The flight loop.                                                        *)

\* iic_init and mpu_init are done; the loop starts.
MainInit ==
    /\ mpc = "init"
    /\ mpc' = "wait" /\ waited' = 0 /\ blink' = "NORMAL"
    /\ UNCHANGED <<cellVars, udpVars, bits, msg, ctrl, outVars, calibrating, ageVars>>

\* Where the loop goes with the bits m once the MPU is dealt with.
Sync(m) == IF HQMSG_CTRL_UPDATE \in m THEN "lock" ELSE "decide"

\* xTaskNotifyWait returns pdTRUE: it hands over all bits and clears them.
MainWake ==
    /\ mpc = "wait" /\ bits # {}
    /\ msg' = bits /\ bits' = {} /\ waited' = 0
    /\ mpc' = IF HQMSG_MPU_UPDATE \in bits THEN "read" ELSE Sync(bits)
    /\ UNCHANGED <<cellVars, udpVars, ctrl, outVars, ledVars, ageVars>>

BugMainTimeout == \* `continue' for `goto panic_mode'
    /\ mpc = "wait" /\ bits = {} /\ waited = FcTimeout
    /\ waited' = 0
    /\ UNCHANGED <<cellVars, udpVars, bits, loopVars, outVars, ledVars, ageVars>>

\* xTaskNotifyWait returns pdFALSE.
MainTimeout ==
    /\ mpc = "wait" /\ bits = {} /\ waited = FcTimeout
    /\ mpc' = "stop"
    /\ UNCHANGED <<cellVars, udpVars, bits, msg, ctrl, outVars, ledVars, waited, ageVars>>

BugMainReadMpu(s) == \* `else if' before HQMSG_CTRL_UPDATE
    /\ mpc = "read"
    /\ skewed' = s /\ mpc' = "decide"
    /\ UNCHANGED <<cellVars, udpVars, bits, msg, ctrl, panic, motor, ledVars,
                   waited, ageVars>>

\* mpu_read: any attitude may come out.  After a bus error, which is not
\* looked at, it is computed from an uninitialised buffer.
MainReadMpu(s) ==
    /\ mpc = "read"
    /\ skewed' = s /\ mpc' = Sync(msg)
    /\ UNCHANGED <<cellVars, udpVars, bits, msg, ctrl, panic, motor, ledVars,
                   waited, ageVars>>

BugMainLock ==    \* copies without waiting for the mutex
    /\ mpc = "lock"
    /\ owner' = "main" /\ mpc' = "copy"
    /\ UNCHANGED <<control, udpVars, bits, msg, ctrl, outVars, ledVars, waited, ageVars>>

MainLock ==
    /\ mpc = "lock" /\ owner = "none"
    /\ owner' = "main" /\ mpc' = "copy"
    /\ UNCHANGED <<control, udpVars, bits, msg, ctrl, outVars, ledVars, waited, ageVars>>

\* memcpy(&ctrl, &control, sizeof(ctrl))
MainCopy ==
    /\ mpc = "copy"
    /\ ctrl' = control /\ mpc' = "unlock"
    /\ UNCHANGED <<cellVars, udpVars, bits, msg, outVars, ledVars, waited, ageVars>>

MainUnlock ==
    /\ mpc = "unlock"
    /\ owner' = "none" /\ mpc' = "decide"
    /\ UNCHANGED <<control, udpVars, bits, msg, ctrl, outVars, ledVars, waited, ageVars>>

\* The tests that lead to the motor mix or to panic_mode.
Decide(next, panicmode, rate) ==
    /\ mpc = "decide"
    /\ mpc' = next /\ panic' = panicmode /\ blink' = rate
    /\ UNCHANGED <<cellVars, udpVars, bits, msg, ctrl, skewed, motor, calibrating,
                   waited, ageVars>>

DecideIdle == ~Thrust(ctrl) /\ Decide("stop", panic, blink)

BugDecideClear == \* the blink rate is not restored
    Thrust(ctrl) /\ ctrl.clear /\ Decide("drive", FALSE, blink)

\* The clear flag wins over an angle that is too skewed in the same cycle.
DecideClear == Thrust(ctrl) /\ ctrl.clear /\ Decide("drive", FALSE, "NORMAL")

BugDecidePanic == \* `goto panic_mode' is missing
    /\ Thrust(ctrl) /\ ~ctrl.clear /\ (panic \/ skewed)
    /\ Decide("drive", TRUE, "VERY_FAST")

DecidePanic ==
    /\ Thrust(ctrl) /\ ~ctrl.clear /\ (panic \/ skewed)
    /\ Decide("stop", TRUE, "VERY_FAST")

BugDecideFly ==   \* the angle is only looked at once in panic mode
    /\ Thrust(ctrl) /\ ~ctrl.clear /\ ~panic
    /\ Decide("drive", panic, blink)

DecideFly ==
    /\ Thrust(ctrl) /\ ~ctrl.clear /\ ~panic /\ ~skewed
    /\ Decide("drive", panic, blink)

\* The end of a cycle: the four motor_throttle calls, then wait again.  Only
\* this task writes the duties, so the four writes are one step.
EndCycle(duties) ==
    /\ motor' = duties
    /\ mpc' = "wait" /\ msg' = {} /\ waited' = 0
    /\ UNCHANGED <<cellVars, udpVars, bits, ctrl, skewed, panic, ledVars, ageVars>>

MainDrive == mpc = "drive" /\ EndCycle([on |-> TRUE, ctrl |-> ctrl, skewed |-> skewed])

MainStop == mpc = "stop" /\ EndCycle(MotorsOff)

MainStep ==
    \/ MainInit \/ MainWake \/ MainTimeout
    \/ \E s \in BOOLEAN : MainReadMpu(s)
    \/ MainLock \/ MainCopy \/ MainUnlock
    \/ DecideIdle \/ DecideClear \/ DecidePanic \/ DecideFly
    \/ MainDrive \/ MainStop

-----------------------------------------------------------------------------
(* Time passes only while the loop, the task of highest priority, blocks in *)
(* xTaskNotifyWait or in an I2C transfer.                                   *)

Blocked ==
    \/ mpc = "wait" /\ bits = {} /\ waited < FcTimeout
    \/ mpc = "read" /\ waited < I2cMaxWait

Tick ==
    /\ Blocked
    /\ waited' = waited + 1
    /\ mpuAge' = Older(mpuAge) /\ ctrlAge' = Older(ctrlAge)
    /\ UNCHANGED <<cellVars, udpVars, bits, loopVars, outVars, ledVars>>

Next ==
    \/ \E p \in Packets : UdpRecv(p)
    \/ UdpStep
    \/ MpuIsr
    \/ CalibrationBegin \/ CalibrationEnd
    \/ MainStep
    \/ Tick

Spec == Init /\ [][Next]_vars

(* The two tasks have the highest priorities and share two cores, so each   *)
(* runs on; the mutex goes to its highest-priority waiter; the tick does    *)
(* not stop.  Nothing makes a packet or an interrupt arrive.                *)
FairSpec ==
    /\ Spec
    /\ WF_vars(UdpStep) /\ WF_vars(MainStep) /\ SF_vars(MainLock) /\ WF_vars(Tick)

-----------------------------------------------------------------------------
(* Properties.                                                             *)

TypeTasks ==
    /\ owner \in {"none", "udp", "main"}
    /\ upc \in {"recv", "lock", "throttle", "setpoint", "flag", "strip",
                "unlock", "notify"}
    /\ mpc \in {"init", "wait", "read", "lock", "copy", "unlock", "decide",
                "drive", "stop"}
    /\ bits \subseteq Messages /\ msg \subseteq Messages
    /\ skewed \in BOOLEAN /\ panic \in BOOLEAN
    /\ blink \in {"FAST", "NORMAL", "VERY_FAST"}

TypeData ==
    /\ control \in Controls /\ ctrl \in Controls
    /\ pkt \in [throttle : Nat, sp : SetPoints, clear : BOOLEAN]
    /\ upc # "recv" => pkt \in Packets
    /\ motor \in [on : BOOLEAN, ctrl : Controls, skewed : BOOLEAN]

TypeCounts ==
    /\ calibrating \in 0 .. MaxCalibrations
    /\ waited \in Nat /\ mpuAge \in 0 .. Never /\ ctrlAge \in 0 .. Never

\* Every variable has its type; in particular no bit but the two messages is
\* ever pending for the loop.
TypeOK == TypeTasks /\ TypeData /\ TypeCounts

\* The loop never works on a control_data half of one packet and half of
\* another, nor on a throttle that still carries the flag in its sign bit.
WholeCommands == ctrl \in WholeControls

\* While the loop waits, the handler is between packets and no notification is
\* pending, the loop has the newest command: an update is never left behind.
NoLostUpdate ==
    (mpc = "wait" /\ upc = "recv" /\ HQMSG_CTRL_UPDATE \notin bits) => ctrl = control

\* In panic mode the motors are off whenever the loop has finished a cycle,
\* whatever packets, interrupts and timeouts came in between.
PanicStopsMotors == (mpc = "wait" /\ panic) => motor = MotorsOff

\* Motors that turn are driven from the command and attitude the loop has now,
\* ask for thrust, and are level unless the command carries the clear flag.
MotorsFollowInputs ==
    (mpc = "wait" /\ motor.on) =>
        /\ motor = [on |-> TRUE, ctrl |-> ctrl, skewed |-> skewed]
        /\ Thrust(ctrl)
        /\ skewed => ctrl.clear

\* When no calibration runs, the LED shows the panic rate only in panic mode,
\* although the calibration tasks write the same rate.
NoFalsePanicBlink == (blink = "VERY_FAST" /\ calibrating = 0) => panic

\* With neither interrupts nor control updates the motors stop within one timeout
\* of the last one, put off by at most two I2C transfers that hang: the one under
\* way when it came and the one it made the loop start.
SilenceStopsMotors == (mpuAge > StopBound /\ ctrlAge > StopBound) => ~motor.on

\* Two I2C transfers after the handler has announced a command the motors turn for none
\* older: they have picked it up, or have stopped, as for a throttle of zero, however
\* interrupts and notifications were merged on the way.
NewestCommandFlies ==
    (motor.on /\ upc \in {"recv", "lock"} /\ ctrlAge > 2 * I2cMaxWait) =>
        motor.ctrl = control /\ Thrust(control)

\* The loop never stops for good on the mutex or anywhere else.
LoopKeepsRunning == []<>(mpc = "wait")

\* Once packets stop, the loop ends up with the last command.
QuietLinkConverges == <>[](upc = "recv") => <>[](ctrl = control)

\* The latest command, once its publication has begun under the mutex, is the
\* whole packet: this hides the field-by-field stores.
Latest ==
    IF upc \in {"throttle", "setpoint", "flag", "strip", "unlock"}
    THEN Decode(pkt) ELSE control

Gate == INSTANCE MotorGate WITH latest <- Latest, used <- ctrl

\* The loop with its lock, tasks and clock does what MotorGate promises.
ImplementsMotorGate == Gate!Spec

\* hackquad_main.c:47: "delay in ms to enter panic mode after not recving ctrl
\* update".  Nothing reads NO_CTRL_TIMEOUT.
LinkLossStopsMotors == ctrlAge > NoCtrlTimeout => ~motor.on

\* hackquad_main.c:180: "timed-out (prob MPU issue), ensure motors remain off".
\* When an MPU that has interrupted falls silent for good, the motors stop as time goes on.  They
\* need not: control updates, which come more often, end the same wait before it times out.
MpuLossStopsMotors ==
    (/\ <>[](mpuAge > StopBound /\ mpuAge # Never /\ ctrlAge < FcTimeout)
     /\ []<>(waited > 0)) => []<>(~motor.on)
=============================================================================
