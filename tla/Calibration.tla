---------------------------- MODULE Calibration -----------------------------
(***************************************************************************)
(* MPU calibration: mpu_calibrate of firmware/main/hackquad/mpu.c and the  *)
(* task of httpserver.c that runs it and saves the result.  While it runs  *)
(* it borrows the MPU's interrupt, which else wakes the flight loop, to    *)
(* set a bit in an event group of its own.  Each POST to /mpu/calibrate    *)
(* starts one more task and nothing keeps two from running at once, nor    *)
(* from running before mpu_init has finished.                              *)
(*                                                                         *)
(* The six offsets are summed, divided and saved together; what matters of *)
(* them is whose samples are in them.  The HTTP server that starts the      *)
(* tasks also sets the same registers for the controller's registry page.  *)
(***************************************************************************)
EXTENDS Integers

CONSTANTS
    Tasks,        \* calibration tasks, one for each request
    Loop,         \* _mpu_isr_handler, which notifies the flight loop
    Nothing,      \* no handler for MPU_INT
    Iterations,   \* MPU_CALIBRATION_ITERATIONS
    MaxEdits      \* bound on the registers set by hand

ASSUME CalibrationAssumption ==
    /\ Loop # Nothing /\ {Loop, Nothing} \cap Tasks = {}
    /\ Iterations \in Nat \ {0} /\ MaxEdits \in Nat

VARIABLES
    boot,       \* how far mpu_init has come with the interrupt
    handler,    \* what MPU_INT calls: the loop's handler or a task's
    pc,         \* task -> where it is
    group,      \* task -> its event group
    i,          \* task -> samples taken
    offsets,    \* the tasks whose samples are in mpu_gyroffset, mpu_accoffset
    has,        \* mpu_has_calibration
    flash,      \* what NVS holds of the last two
    completed,  \* the tasks that finished their samples (history)
    server,     \* what the HTTP server has set by hand and not written to NVS yet
    edits       \* how often one of them has been set by hand (history)

mpuVars  == <<boot, handler>>
taskVars == <<pc, group, i>>
webVars  == <<server, edits>>
dataVars == <<offsets, has, flash, completed, webVars>>
vars == <<mpuVars, taskVars, dataVars>>

Groups == {"none", "clear", "set", "deleted"}

\* The registers of a quadcopter whose flash was erased: reg_init writes the defaults.
Factory == [has |-> FALSE, offsets |-> {}]

Init ==
    /\ boot = "off" /\ handler = Nothing
    /\ pc = [c \in Tasks |-> "new"]
    /\ group = [c \in Tasks |-> "none"]
    /\ i = [c \in Tasks |-> 0]
    /\ offsets = {} /\ has = FALSE
    /\ flash = Factory /\ completed = {}
    /\ server = "idle" /\ edits = 0

Goto(c, place) == pc' = [pc EXCEPT ![c] = place]

\* A step of task c from one place to another that touches none of its data.
Move(c, here, there) ==
    /\ pc[c] = here
    /\ Goto(c, there)
    /\ UNCHANGED <<group, i>>

-----------------------------------------------------------------------------
(* mpu_init and the interrupt.                                             *)

\* The MPU has answered WHO_AM_I; one that has not leaves MPU_INT unused.
InstallService ==
    /\ boot = "off"
    /\ boot' = "service"
    /\ UNCHANGED <<handler, taskVars, dataVars>>

AddHandler ==
    /\ boot = "service"
    /\ boot' = "ready" /\ handler' = Loop
    /\ UNCHANGED <<taskVars, dataVars>>

\* _mpu_calibrate_isr_handler.  The bit is set when the timer task gets to it.
CalibrateIsr(c) ==
    /\ handler = c /\ group[c] = "clear"
    /\ group' = [group EXCEPT ![c] = "set"]
    /\ UNCHANGED <<mpuVars, pc, i, dataVars>>

-----------------------------------------------------------------------------
(* One calibration task.                                                   *)

\* POST /mpu/calibrate, when the server is not at work on another request.
Request(c) ==
    /\ server = "idle"
    /\ Move(c, "new", "remove")
    /\ UNCHANGED <<mpuVars, dataVars>>

\* gpio_isr_handler_remove fails only before there is an interrupt service.
Remove(c) ==
    IF boot = "off"
    THEN Move(c, "remove", "check") /\ UNCHANGED <<mpuVars, dataVars>>
    ELSE /\ Move(c, "remove", "create")
         /\ handler' = Nothing
         /\ UNCHANGED <<boot, dataVars>>

Create(c) ==
    /\ pc[c] = "create"
    /\ group' = [group EXCEPT ![c] = "clear"]
    /\ Goto(c, "add")
    /\ UNCHANGED <<mpuVars, i, dataVars>>

\* gpio_isr_handler_add takes the place of whatever handler is there.  It fails only
\* before there is an interrupt service, and Remove has found one.
Add(c) ==
    /\ Move(c, "add", "wait")
    /\ handler' = c
    /\ UNCHANGED <<boot, dataVars>>

\* xEventGroupWaitBits returns the bit and clears it.
Wake(c) ==
    /\ pc[c] = "wait" /\ group[c] = "set"
    /\ group' = [group EXCEPT ![c] = "clear"]
    /\ Goto(c, "sample")
    /\ UNCHANGED <<mpuVars, i, dataVars>>

BugTimesOut(c) ==   \* `return' for `goto cleanup'
    /\ group[c] = "clear"
    /\ Move(c, "wait", "check")
    /\ UNCHANGED <<mpuVars, dataVars>>

BugWaitForever(c) == \* portMAX_DELAY
    /\ group[c] = "deleted"
    /\ Move(c, "wait", "delete")
    /\ UNCHANGED <<mpuVars, dataVars>>

\* 100 ticks without an interrupt: goto cleanup, the offsets stay as they are.
TimesOut(c) ==
    /\ group[c] = "clear"
    /\ Move(c, "wait", "delete")
    /\ UNCHANGED <<mpuVars, dataVars>>

BugEnough(n) == n > Iterations

Enough(n) == n >= Iterations

BugSample(c) ==     \* a reading that failed is taken again
    /\ pc[c] = "sample"
    /\ offsets' = offsets \cup {c}
    /\ i' \in {i, [i EXCEPT ![c] = @ + 1]}
    /\ Goto(c, IF Enough(i'[c]) THEN "mean" ELSE "wait")
    /\ UNCHANGED <<mpuVars, group, has, flash, completed, webVars>>

\* _mpu_read_raw, and the reading is added to the offsets.
Sample(c) ==
    /\ pc[c] = "sample"
    /\ offsets' = offsets \cup {c}
    /\ i' = [i EXCEPT ![c] = @ + 1]
    /\ Goto(c, IF Enough(i'[c]) THEN "mean" ELSE "wait")
    /\ UNCHANGED <<mpuVars, group, has, flash, completed, webVars>>

\* The sums are divided by the number of iterations.
Mean(c) ==
    /\ Move(c, "mean", "delete")
    /\ has' = TRUE /\ completed' = completed \cup {c}
    /\ UNCHANGED <<mpuVars, offsets, flash, webVars>>

BugDelete(c) ==     \* adding the loop's handler is taken to remove this one
    /\ pc[c] = "delete"
    /\ group' = [group EXCEPT ![c] = "deleted"]
    /\ Goto(c, "restore")
    /\ UNCHANGED <<mpuVars, i, dataVars>>

\* cleanup: first the event group, then the handler that uses it.
Delete(c) ==
    /\ pc[c] = "delete"
    /\ group' = [group EXCEPT ![c] = "deleted"]
    /\ Goto(c, "unhook")
    /\ UNCHANGED <<mpuVars, i, dataVars>>

Unhook(c) ==
    /\ Move(c, "unhook", "restore")
    /\ handler' = Nothing
    /\ UNCHANGED <<boot, dataVars>>

\* The loop's handler is back, and mpu_calibrate returns.
Restore(c) ==
    /\ pc[c] = "restore"
    /\ handler' = Loop
    /\ i' = [i EXCEPT ![c] = 0]
    /\ Goto(c, "check")
    /\ UNCHANGED <<boot, group, dataVars>>

BugCheck(c) ==      \* saves whatever the calibration came to
    /\ Move(c, "check", "flag")
    /\ UNCHANGED <<mpuVars, dataVars>>

\* The task asks whether any calibration ever succeeded, not whether this one did.
Check(c) ==
    /\ Move(c, "check", IF has THEN "flag" ELSE "gone")
    /\ UNCHANGED <<mpuVars, dataVars>>

\* reg_write of MPU_HAS_CALIBRATION, and then of the six offsets.  Each may fail,
\* which nobody looks at; those that do leave what flash had of them.
SaveFlag(c, flag) ==
    /\ Move(c, "flag", "values")
    /\ flag \in {has, flash.has}
    /\ flash' = [flash EXCEPT !.has = flag]
    /\ UNCHANGED <<mpuVars, offsets, has, completed, webVars>>

SaveOffsets(c, values) ==
    /\ Move(c, "values", "gone")
    /\ values \subseteq offsets \cup flash.offsets
    /\ flash' = [flash EXCEPT !.offsets = values]
    /\ UNCHANGED <<mpuVars, offsets, has, completed, webVars>>

Work(c) ==
    \/ Remove(c) \/ Create(c) \/ Add(c)
    \/ Wake(c) \/ TimesOut(c) \/ Sample(c) \/ Mean(c)
    \/ Delete(c) \/ Unhook(c) \/ Restore(c)
    \/ Check(c)
    \/ \E flag \in BOOLEAN : SaveFlag(c, flag)
    \/ \E values \in SUBSET Tasks : SaveOffsets(c, values)

-----------------------------------------------------------------------------
(* The HTTP server: handler_reg_set on a register of the calibration.      *)

\* MPU_HAS_CALIBRATION is set to what the request says ...
SetFlag(flag) ==
    /\ server = "idle" /\ edits < MaxEdits
    /\ server' = "flag" /\ edits' = edits + 1
    /\ has' = flag
    /\ UNCHANGED <<mpuVars, taskVars, offsets, flash, completed>>

\* ... or one of the six offsets, so that the samples that were only in that one are gone.
SetOffset(rest) ==
    /\ server = "idle" /\ edits < MaxEdits
    /\ server' = "values" /\ edits' = edits + 1
    /\ rest \subseteq offsets /\ offsets' = rest
    /\ UNCHANGED <<mpuVars, taskVars, has, flash, completed>>

\* reg_write saves what the register holds by then, or fails, which nobody looks at.
WriteFlag(flag) ==
    /\ server = "flag" /\ server' = "idle"
    /\ flag \in {has, flash.has}
    /\ flash' = [flash EXCEPT !.has = flag]
    /\ UNCHANGED <<mpuVars, taskVars, offsets, has, completed, edits>>

WriteOffset(values) ==
    /\ server = "values" /\ server' = "idle"
    /\ values \subseteq offsets \cup flash.offsets
    /\ flash' = [flash EXCEPT !.offsets = values]
    /\ UNCHANGED <<mpuVars, taskVars, offsets, has, completed, edits>>

Serve ==
    \/ \E flag \in BOOLEAN : SetFlag(flag) \/ WriteFlag(flag)
    \/ \E rest \in SUBSET Tasks : SetOffset(rest) \/ WriteOffset(rest)

-----------------------------------------------------------------------------
\* Power lost, or the fault of vEventGroupDelete(NULL) when xEventGroupCreate has
\* failed.  At the next start reg_init reads the flash, or erases one it cannot use.
Reboot ==
    /\ boot' = "off" /\ handler' = Nothing
    /\ pc' = [c \in Tasks |-> IF pc[c] = "new" THEN "new" ELSE "gone"]
    /\ group' = [c \in Tasks |-> "none"] /\ i' = [c \in Tasks |-> 0]
    /\ flash' \in {flash, Factory}
    /\ offsets' = flash'.offsets /\ has' = flash'.has
    /\ server' = "idle"
    /\ UNCHANGED <<completed, edits>>

Next ==
    \/ InstallService \/ AddHandler
    \/ \E c \in Tasks : CalibrateIsr(c) \/ Request(c) \/ Work(c)
    \/ Serve
    \/ Reboot

Spec == Init /\ [][Next]_vars

\* The task has the lowest priority and runs on: every task above it keeps blocking.
\* The MPU owes nobody an interrupt.
FairSpec == Spec /\ \A c \in Tasks : WF_vars(Work(c))

-----------------------------------------------------------------------------
(* Properties.                                                             *)

\* Between taking the interrupt and giving it back.
Borrowing(c) ==
    pc[c] \in {"create", "add", "wait", "sample", "mean", "delete", "unhook", "restore"}

\* Every variable has its type; no task takes more samples than it divides by.
TypeOK ==
    /\ boot \in {"off", "service", "ready"}
    /\ handler \in Tasks \cup {Loop, Nothing}
    /\ pc \in [Tasks -> {"new", "remove", "create", "add", "wait", "sample", "mean",
                         "delete", "unhook", "restore", "check", "flag", "values", "gone"}]
    /\ group \in [Tasks -> Groups]
    /\ i \in [Tasks -> 0 .. Iterations]
    /\ offsets \subseteq Tasks /\ has \in BOOLEAN
    /\ flash \in [has : BOOLEAN, offsets : SUBSET Tasks]
    /\ completed \subseteq Tasks
    /\ server \in {"idle", "flag", "values"} /\ edits \in 0 .. MaxEdits

\* Whatever calibrations overlapped, timed out or came before mpu_init was done, the
\* flight loop has its interrupt whenever no calibration is borrowing it.
LoopGetsInterruptBack ==
    (boot = "ready" /\ \A c \in Tasks : ~Borrowing(c)) => handler = Loop

\* MPU_INT sets bits in an event group that exists, but for the one statement between
\* the deletion of the group and the removal of the handler.
GroupOutlivesHandler ==
    \A c \in Tasks : handler = c => (group[c] \in {"clear", "set"} \/ pc[c] = "unhook")

\* Sums that were never divided reach the flash only on a quadcopter that some calibration
\* has completed on or whose calibration registers have been set by hand, at whatever moment
\* a calibration times out or is cut off by a reset, failed writes included.
NothingSavedUnasked == flash.offsets # {} => completed # {} \/ edits > 0

\* The most steps a task can still take: its place, and two steps for each sample to come.
StepsLeft(c) ==
    LET place == [new |-> 13, remove |-> 12, create |-> 11, add |-> 10, wait |-> 9,
                  sample |-> 8, mean |-> 7, delete |-> 6, unhook |-> 5, restore |-> 4,
                  check |-> 3, flag |-> 2, values |-> 1, gone |-> 0]
        samples == IF place[pc[c]] >= place["sample"] THEN Iterations - i[c] ELSE 0
    IN  place[pc[c]] + 2 * samples

\* Each step of a calibration brings it nearer to its end, whatever the interrupt, another
\* calibration or a restart does meanwhile: none is ever sent back to take more than
\* its samples.
CalibrationAdvances ==
    [][\A c \in Tasks : pc'[c] # pc[c] => StepsLeft(c)' \in 0 .. StepsLeft(c) - 1]_vars

\* Every calibration ends, with or without interrupts and whatever the others do.
CalibrationEnds == \A c \in Tasks : (pc[c] # "new") ~> (pc[c] = "gone")

Idle(c) == pc[c] \in {"new", "gone"}

OneAtATime == [](edits = 0 /\ \A c, d \in Tasks : c # d => Idle(c) \/ Idle(d))

\* UIMain.java:204, "Running MPU calibration will overwrite the offsets in the registry
\* with new ones": with calibrations run one at a time and no register set by hand, each
\* leaves only its own samples in the offsets once it has divided.  The code adds to what
\* was there.
CalibrationOverwrites ==
    OneAtATime => [](\A c \in completed : pc[c] = "delete" => offsets = {c})
=============================================================================
