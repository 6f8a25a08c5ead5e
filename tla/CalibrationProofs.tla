------------------------- MODULE CalibrationProofs --------------------------
(***************************************************************************)
(* Theorems about Calibration for any number of tasks and of iterations.   *)
(***************************************************************************)
EXTENDS Calibration, TLAPS

USE CalibrationAssumption

\* A task that has samples to take has taken fewer than it divides by.
RoomForSamples ==
    \A c \in Tasks :
        pc[c] \in {"new", "remove", "create", "add", "wait", "sample"} => i[c] < Iterations

\* A task installs its handler only with an event group for it.
GroupFirst == \A c \in Tasks : pc[c] = "add" => group[c] \in {"clear", "set"}

\* Nothing says "calibrated", in memory, in flash, in a task about to save or in the server,
\* before a calibration has completed or somebody has set a register by hand.
Calibrated ==
    \/ has \/ flash.has \/ flash.offsets # {}
    \/ \E c \in Tasks : pc[c] \in {"flag", "values"}
    \/ server # "idle"

NotCalibratedUnasked == Calibrated => completed # {} \/ edits > 0

\* The type invariant in two parts: what steers the tasks, and what they compute.
TypeControl ==
    /\ boot \in {"off", "service", "ready"}
    /\ handler \in Tasks \cup {Loop, Nothing}
    /\ pc \in [Tasks -> {"new", "remove", "create", "add", "wait", "sample", "mean",
                         "delete", "unhook", "restore", "check", "flag", "values", "gone"}]
    /\ group \in [Tasks -> Groups]

TypeSamples ==
    /\ i \in [Tasks -> 0 .. Iterations]
    /\ offsets \subseteq Tasks /\ has \in BOOLEAN
    /\ flash \in [has : BOOLEAN, offsets : SUBSET Tasks]
    /\ completed \subseteq Tasks
    /\ server \in {"idle", "flag", "values"} /\ edits \in 0 .. MaxEdits

\* A step of a task is one of its actions.
LEMMA WorkCases ==
    ASSUME NEW c \in Tasks, Work(c)
    PROVE  \/ Remove(c) \/ Create(c) \/ Add(c)
           \/ Wake(c) \/ TimesOut(c) \/ Sample(c) \/ Mean(c)
           \/ Delete(c) \/ Unhook(c) \/ Restore(c) \/ Check(c)
           \/ \E flag \in BOOLEAN : SaveFlag(c, flag)
           \/ \E values \in SUBSET Tasks : SaveOffsets(c, values)
BY DEF Work

\* A step of the server on a register of the calibration is one of its four.
LEMMA ServeCases ==
    ASSUME Serve
    PROVE  \/ \E flag \in BOOLEAN : SetFlag(flag) \/ WriteFlag(flag)
           \/ \E rest \in SUBSET Tasks : SetOffset(rest) \/ WriteOffset(rest)
BY DEF Serve

\* It starts no task and touches nothing of one, nor the interrupt.
LEMMA ServeKeepsControl == Serve => UNCHANGED <<mpuVars, taskVars>>
BY DEF Serve, SetFlag, SetOffset, WriteFlag, WriteOffset

LEMMA StepControl == TypeControl /\ [Next]_vars => TypeControl'
<1>. SUFFICES ASSUME TypeControl, [Next]_vars PROVE TypeControl'
  OBVIOUS
<1>. USE DEF TypeControl, mpuVars, taskVars, dataVars, Move, Goto, Groups
<1>1. CASE UNCHANGED vars
  BY <1>1 DEF vars
<1>2. CASE InstallService \/ AddHandler \/ Reboot
  BY <1>2 DEF InstallService, AddHandler, Reboot, Factory
<1>3. ASSUME NEW c \in Tasks, CalibrateIsr(c) \/ Request(c) PROVE TypeControl'
  BY <1>3 DEF CalibrateIsr, Request
<1>4. ASSUME NEW c \in Tasks, Work(c) PROVE TypeControl'
  <2>1. CASE Remove(c) \/ Create(c) \/ Add(c)
    BY <2>1 DEF Remove, Create, Add
  <2>2. CASE Wake(c) \/ TimesOut(c) \/ Sample(c) \/ Mean(c)
    BY <2>2 DEF Wake, TimesOut, Sample, Mean
  <2>3. CASE Delete(c) \/ Unhook(c) \/ Restore(c) \/ Check(c)
    BY <2>3 DEF Delete, Unhook, Restore, Check
  <2>4. CASE \/ \E flag \in BOOLEAN : SaveFlag(c, flag)
             \/ \E values \in SUBSET Tasks : SaveOffsets(c, values)
    BY <2>4 DEF SaveFlag, SaveOffsets
  <2>. QED
    BY <1>4, <2>1, <2>2, <2>3, <2>4, WorkCases
<1>5. CASE Serve
  BY <1>5, ServeKeepsControl
<1>. QED
  BY <1>1, <1>2, <1>3, <1>4, <1>5 DEF Next

LEMMA FactoryType == Factory \in [has : BOOLEAN, offsets : SUBSET Tasks]
<1>1. {} \in SUBSET Tasks
  OBVIOUS
<1>. QED
  BY <1>1 DEF Factory

LEMMA StepSamples ==
    TypeControl /\ TypeSamples /\ RoomForSamples /\ [Next]_vars
        => TypeSamples' /\ RoomForSamples'
<1>. SUFFICES ASSUME TypeControl, TypeSamples, RoomForSamples, [Next]_vars
              PROVE  TypeSamples' /\ RoomForSamples'
  OBVIOUS
<1>. USE DEF TypeControl, TypeSamples, RoomForSamples, mpuVars, taskVars, dataVars,
             webVars, Move, Goto
<1>1. CASE UNCHANGED vars
  BY <1>1 DEF vars
<1>2. CASE InstallService \/ AddHandler
  BY <1>2 DEF InstallService, AddHandler
<1>3. CASE Reboot
  <2>1. flash' \in [has : BOOLEAN, offsets : SUBSET Tasks]
    BY <1>3, FactoryType DEF Reboot
  <2>. QED
    BY <1>3, <2>1 DEF Reboot
<1>4. ASSUME NEW c \in Tasks, CalibrateIsr(c) \/ Request(c)
      PROVE  TypeSamples' /\ RoomForSamples'
  BY <1>4 DEF CalibrateIsr, Request
<1>5. ASSUME NEW c \in Tasks, Work(c) PROVE TypeSamples' /\ RoomForSamples'
  <2>1. CASE Remove(c) \/ Create(c) \/ Add(c)
    BY <2>1 DEF Remove, Create, Add
  <2>2. CASE Wake(c) \/ TimesOut(c) \/ Mean(c)
    BY <2>2 DEF Wake, TimesOut, Mean
  <2>3. CASE Sample(c)
    <3>1. i'[c] = i[c] + 1 /\ i[c] < Iterations
      BY <2>3 DEF Sample
    <3>2. pc'[c] = "wait" => i'[c] < Iterations
      BY <2>3, <3>1 DEF Sample, Enough
    <3>. QED
      BY <2>3, <3>1, <3>2 DEF Sample
  <2>4. CASE Delete(c) \/ Unhook(c) \/ Restore(c) \/ Check(c)
    BY <2>4, CalibrationAssumption DEF Delete, Unhook, Restore, Check
  <2>5. ASSUME NEW flag \in BOOLEAN, SaveFlag(c, flag)
        PROVE  TypeSamples' /\ RoomForSamples'
    BY <2>5 DEF SaveFlag
  <2>6. ASSUME NEW values \in SUBSET Tasks, SaveOffsets(c, values)
        PROVE  TypeSamples' /\ RoomForSamples'
    BY <2>6 DEF SaveOffsets
  <2>. QED
    BY <1>5, <2>1, <2>2, <2>3, <2>4, <2>5, <2>6, WorkCases
<1>6. CASE Serve
  <2>1. RoomForSamples' /\ i' = i /\ completed' = completed
    BY <1>6, ServeKeepsControl DEF Serve, SetFlag, SetOffset, WriteFlag, WriteOffset
  <2>2. ASSUME NEW flag \in BOOLEAN, SetFlag(flag) \/ WriteFlag(flag) PROVE TypeSamples'
    BY <2>1, <2>2, CalibrationAssumption DEF SetFlag, WriteFlag
  <2>3. ASSUME NEW rest \in SUBSET Tasks, SetOffset(rest) \/ WriteOffset(rest)
        PROVE  TypeSamples'
    BY <2>1, <2>3, CalibrationAssumption DEF SetOffset, WriteOffset
  <2>. QED
    BY <1>6, <2>1, <2>2, <2>3, ServeCases
<1>. QED
  BY <1>1, <1>2, <1>3, <1>4, <1>5, <1>6 DEF Next

\* The types are right and no task takes more samples than it divides by, for any
\* number of tasks at once.
THEOREM CalibrationTypeCorrect == Spec => []TypeOK
<1>1. Init => TypeControl /\ TypeSamples /\ RoomForSamples
  <2>. SUFFICES ASSUME Init PROVE TypeControl /\ TypeSamples /\ RoomForSamples
    OBVIOUS
  <2>. USE DEF Init
  <2>1. TypeControl
    BY DEF TypeControl, Groups
  <2>2. Iterations \in Nat /\ 0 < Iterations
    BY DEF CalibrationAssumption
  <2>3. TypeSamples
    <3>1. i \in [Tasks -> 0 .. Iterations] /\ 0 \in 0 .. MaxEdits
      BY <2>2, CalibrationAssumption
    <3>. QED
      BY <3>1, FactoryType DEF TypeSamples
  <2>4. RoomForSamples
    BY <2>2 DEF RoomForSamples
  <2>. QED
    BY <2>1, <2>3, <2>4
<1>2. TypeControl /\ TypeSamples => TypeOK
  BY DEF TypeOK, TypeControl, TypeSamples
<1>. QED
  BY <1>1, <1>2, StepControl, StepSamples, PTL DEF Spec

LEMMA TypeControlInvariant == Spec => []TypeControl
<1>1. TypeOK => TypeControl
  BY DEF TypeOK, TypeControl
<1>. QED
  BY <1>1, CalibrationTypeCorrect, PTL

\* The flight loop has its interrupt back whenever no calibration borrows it, for
\* any number of calibrations and in any order of their steps.
THEOREM LoopGetsInterruptBackAlways == Spec => []LoopGetsInterruptBack
<1>1. Init => LoopGetsInterruptBack
  BY DEF Init, LoopGetsInterruptBack
<1>2. TypeControl /\ LoopGetsInterruptBack /\ [Next]_vars => LoopGetsInterruptBack'
  <2>. SUFFICES ASSUME TypeControl, LoopGetsInterruptBack, [Next]_vars
                PROVE  LoopGetsInterruptBack'
    OBVIOUS
  <2>. USE DEF TypeControl, LoopGetsInterruptBack, Borrowing, mpuVars, taskVars, Move, Goto
  <2>1. CASE UNCHANGED vars
    BY <2>1 DEF vars
  <2>2. CASE InstallService \/ AddHandler \/ Reboot
    BY <2>2 DEF InstallService, AddHandler, Reboot, Factory
  <2>3. ASSUME NEW c \in Tasks, CalibrateIsr(c) \/ Request(c)
        PROVE  LoopGetsInterruptBack'
    BY <2>3 DEF CalibrateIsr, Request
  <2>4. ASSUME NEW c \in Tasks, Work(c) PROVE LoopGetsInterruptBack'
    <3>1. CASE Remove(c) \/ Create(c) \/ Add(c)
      BY <3>1 DEF Remove, Create, Add
    <3>2. CASE Wake(c) \/ TimesOut(c) \/ Sample(c) \/ Mean(c)
      BY <3>2 DEF Wake, TimesOut, Sample, Mean
    <3>3. CASE Delete(c) \/ Unhook(c) \/ Restore(c) \/ Check(c)
      BY <3>3 DEF Delete, Unhook, Restore, Check
    <3>4. CASE \/ \E flag \in BOOLEAN : SaveFlag(c, flag)
               \/ \E values \in SUBSET Tasks : SaveOffsets(c, values)
      BY <3>4 DEF SaveFlag, SaveOffsets
    <3>. QED
      BY <2>4, <3>1, <3>2, <3>3, <3>4, WorkCases
  <2>5. CASE Serve
    BY <2>5, ServeKeepsControl
  <2>. QED
    BY <2>1, <2>2, <2>3, <2>4, <2>5 DEF Next
<1>. QED
  BY <1>1, <1>2, TypeControlInvariant, PTL DEF Spec

\* No interrupt of a calibration sets a bit in an event group that is gone, but for
\* the window the code leaves between deleting the one and removing the other.
THEOREM GroupOutlivesHandlerAlways == Spec => []GroupOutlivesHandler
<1>1. Init => GroupOutlivesHandler /\ GroupFirst
  BY DEF Init, GroupOutlivesHandler, GroupFirst, CalibrationAssumption
<1>2. TypeControl /\ GroupOutlivesHandler /\ GroupFirst /\ [Next]_vars
          => GroupOutlivesHandler' /\ GroupFirst'
  <2>. SUFFICES ASSUME TypeControl, GroupOutlivesHandler, GroupFirst, [Next]_vars
                PROVE  GroupOutlivesHandler' /\ GroupFirst'
    OBVIOUS
  <2>. USE DEF TypeControl, GroupOutlivesHandler, GroupFirst, CalibrationAssumption,
               mpuVars, taskVars, Move, Goto
  <2>1. CASE UNCHANGED vars
    BY <2>1 DEF vars
  <2>2. CASE InstallService \/ AddHandler \/ Reboot
    BY <2>2 DEF InstallService, AddHandler, Reboot, Factory
  <2>3. ASSUME NEW c \in Tasks, CalibrateIsr(c) \/ Request(c)
        PROVE  GroupOutlivesHandler' /\ GroupFirst'
    BY <2>3 DEF CalibrateIsr, Request
  <2>4. ASSUME NEW c \in Tasks, Work(c) PROVE GroupOutlivesHandler' /\ GroupFirst'
    <3>1. CASE Remove(c) \/ Create(c) \/ Add(c)
      BY <3>1 DEF Remove, Create, Add
    <3>2. CASE Wake(c) \/ TimesOut(c) \/ Sample(c) \/ Mean(c)
      BY <3>2 DEF Wake, TimesOut, Sample, Mean
    <3>3. CASE Delete(c) \/ Unhook(c) \/ Restore(c) \/ Check(c)
      BY <3>3 DEF Delete, Unhook, Restore, Check
    <3>4. CASE \/ \E flag \in BOOLEAN : SaveFlag(c, flag)
               \/ \E values \in SUBSET Tasks : SaveOffsets(c, values)
      BY <3>4 DEF SaveFlag, SaveOffsets
    <3>. QED
      BY <2>4, <3>1, <3>2, <3>3, <3>4, WorkCases
  <2>5. CASE Serve
    BY <2>5, ServeKeepsControl
  <2>. QED
    BY <2>1, <2>2, <2>3, <2>4, <2>5 DEF Next
<1>. QED
  BY <1>1, <1>2, TypeControlInvariant, PTL DEF Spec

\* No undivided sum is saved on a quadcopter that no calibration has completed on and whose
\* calibration registers nobody has set through handler_reg_set: what a timeout leaves of the
\* sums stays in memory, through failed writes and reboots (httpserver.c:157-225).
THEOREM NothingSavedUnaskedAlways == Spec => []NothingSavedUnasked
<1>1. Init => NotCalibratedUnasked
  BY DEF Init, NotCalibratedUnasked, Calibrated, Factory
<1>2. TypeOK /\ NotCalibratedUnasked /\ [Next]_vars => NotCalibratedUnasked'
  <2>. SUFFICES ASSUME TypeOK, NotCalibratedUnasked, [Next]_vars
                PROVE  NotCalibratedUnasked'
    OBVIOUS
  <2>. USE DEF TypeOK, NotCalibratedUnasked, Calibrated, taskVars, dataVars, webVars, Move, Goto
  <2>1. CASE UNCHANGED vars
    BY <2>1 DEF vars
  <2>2. CASE InstallService \/ AddHandler \/ Reboot
    BY <2>2 DEF InstallService, AddHandler, Reboot, Factory
  <2>3. ASSUME NEW c \in Tasks, CalibrateIsr(c) \/ Request(c)
        PROVE  NotCalibratedUnasked'
    BY <2>3 DEF CalibrateIsr, Request
  <2>4. ASSUME NEW c \in Tasks, Work(c) PROVE NotCalibratedUnasked'
    <3>1. CASE Remove(c) \/ Create(c) \/ Add(c)
      BY <3>1 DEF Remove, Create, Add
    <3>2. CASE Wake(c) \/ TimesOut(c) \/ Sample(c)
      BY <3>2 DEF Wake, TimesOut, Sample
    <3>3. CASE Mean(c)
      BY <3>3 DEF Mean
    <3>4. CASE Delete(c) \/ Unhook(c) \/ Restore(c) \/ Check(c)
      BY <3>4 DEF Delete, Unhook, Restore, Check
    <3>5. ASSUME NEW flag \in BOOLEAN, SaveFlag(c, flag) PROVE NotCalibratedUnasked'
      BY <3>5 DEF SaveFlag
    <3>6. ASSUME NEW values \in SUBSET Tasks, SaveOffsets(c, values)
          PROVE  NotCalibratedUnasked'
      BY <3>6 DEF SaveOffsets
    <3>. QED
      BY <2>4, <3>1, <3>2, <3>3, <3>4, <3>5, <3>6, WorkCases
  <2>5. CASE Serve
    <3>1. ASSUME NEW flag \in BOOLEAN, SetFlag(flag) \/ WriteFlag(flag)
          PROVE  NotCalibratedUnasked'
      BY <3>1, CalibrationAssumption DEF SetFlag, WriteFlag
    <3>2. ASSUME NEW rest \in SUBSET Tasks, SetOffset(rest) \/ WriteOffset(rest)
          PROVE  NotCalibratedUnasked'
      BY <3>2, CalibrationAssumption DEF SetOffset, WriteOffset
    <3>. QED
      BY <2>5, <3>1, <3>2, ServeCases
  <2>. QED
    BY <2>1, <2>2, <2>3, <2>4, <2>5 DEF Next
<1>3. NotCalibratedUnasked => NothingSavedUnasked
  BY DEF NotCalibratedUnasked, Calibrated, NothingSavedUnasked
<1>. QED
  BY <1>1, <1>2, <1>3, CalibrationTypeCorrect, PTL DEF Spec

-----------------------------------------------------------------------------
(* A calibration only goes forward.                                        *)

\* The ways from place to place, other than around the loop that takes samples and
\* out of mpu_calibrate, where i is reset.
Ways == {<<"new", "remove">>, <<"remove", "create">>, <<"remove", "check">>,
         <<"create", "add">>, <<"add", "wait">>, <<"wait", "sample">>, <<"wait", "delete">>,
         <<"mean", "delete">>, <<"delete", "unhook">>, <<"unhook", "restore">>,
         <<"check", "flag">>, <<"check", "gone">>,
         <<"flag", "values">>, <<"values", "gone">>}

LEMMA WayAdvances ==
    ASSUME TypeOK, NEW c \in Tasks, NEW there, <<pc[c], there>> \in Ways,
           Goto(c, there), UNCHANGED i
    PROVE  StepsLeft(c)' \in 0 .. StepsLeft(c) - 1
<1>1. i'[c] = i[c] /\ i[c] \in 0 .. Iterations /\ pc'[c] = there
  BY DEF Goto, TypeOK
<1>. QED
  BY <1>1 DEF StepsLeft, Ways

LEMMA SampleAdvances ==
    ASSUME TypeOK, TypeOK', NEW c \in Tasks, Sample(c)
    PROVE  StepsLeft(c)' \in 0 .. StepsLeft(c) - 1
<1>1. pc[c] = "sample" /\ pc'[c] = (IF Enough(i'[c]) THEN "mean" ELSE "wait")
  BY DEF Sample, Goto, TypeOK
<1>2. i'[c] = i[c] + 1 /\ i[c] \in 0 .. Iterations /\ i'[c] \in 0 .. Iterations
  BY DEF Sample, TypeOK
<1>3. StepsLeft(c) = 8 + 2 * (Iterations - i[c])
  BY <1>1 DEF StepsLeft
<1>4. StepsLeft(c)' \in {7, 9 + 2 * (Iterations - i'[c])}
  BY <1>1 DEF StepsLeft
<1>. QED
  BY <1>2, <1>3, <1>4

\* A task that moves comes nearer to its end and leaves the place of every other alone.
LEMMA TaskAdvances ==
    ASSUME TypeOK, TypeOK', NEW c \in Tasks, Request(c) \/ Work(c)
    PROVE  /\ StepsLeft(c)' \in 0 .. StepsLeft(c) - 1
           /\ \A d \in Tasks \ {c} : pc'[d] = pc[d]
<1>. USE DEF Move, taskVars
<1>1. \A there : Goto(c, there) => \A d \in Tasks \ {c} : pc'[d] = pc[d]
  BY DEF Goto, TypeOK
<1>2. CASE Sample(c)
  BY <1>1, <1>2, SampleAdvances DEF Sample
<1>3. CASE Restore(c)
  <2>1. pc[c] = "restore" /\ pc'[c] = "check"
    BY <1>3 DEF Restore, Goto, TypeOK
  <2>2. StepsLeft(c) = 4 /\ StepsLeft(c)' = 3
    BY <2>1 DEF StepsLeft
  <2>. QED
    BY <1>1, <1>3, <2>2 DEF Restore
<1>4. CASE ~Sample(c) /\ ~Restore(c)
  <2>1. PICK there : <<pc[c], there>> \in Ways /\ Goto(c, there) /\ UNCHANGED i
    BY <1>4 DEF Ways, Request, Work, Remove, Create, Add, Wake, TimesOut, Mean, Delete,
           Unhook, Check, SaveFlag, SaveOffsets
  <2>. QED
    BY <1>1, <2>1, WayAdvances
<1>. QED
  BY <1>2, <1>3, <1>4

LEMMA StepAdvances ==
    ASSUME TypeOK, TypeOK', [Next]_vars, NEW c \in Tasks, pc'[c] # pc[c]
    PROVE  StepsLeft(c)' \in 0 .. StepsLeft(c) - 1
<1>1. CASE UNCHANGED pc
  BY <1>1
<1>2. CASE InstallService \/ AddHandler
  BY <1>1, <1>2 DEF InstallService, AddHandler, taskVars
<1>3. ASSUME NEW d \in Tasks, CalibrateIsr(d) PROVE UNCHANGED pc
  BY <1>3 DEF CalibrateIsr
<1>4. ASSUME NEW d \in Tasks, Request(d) \/ Work(d)
      PROVE  StepsLeft(c)' \in 0 .. StepsLeft(c) - 1
  BY <1>4, TaskAdvances
<1>5. CASE Reboot
  <2>1. pc[c] \notin {"new", "gone"} /\ pc'[c] = "gone" /\ i[c] \in 0 .. Iterations
    BY <1>5 DEF Reboot, TypeOK
  <2>2. StepsLeft(c)' = 0
    BY <2>1 DEF StepsLeft
  <2>3. StepsLeft(c) \in Nat \ {0}
    BY <2>1 DEF StepsLeft, TypeOK
  <2>. QED
    BY <2>2, <2>3
<1>6. CASE Serve
  BY <1>1, <1>6, ServeKeepsControl DEF taskVars
<1>. QED
  BY <1>1, <1>2, <1>3, <1>4, <1>5, <1>6 DEF Next, vars, taskVars

\* mpu.c:199-260, httpserver.c:210-238: no step but its own, or a restart, moves a calibration,
\* and always nearer to its end, so that it takes at most 13 + 2 * Iterations steps.
THEOREM CalibrationAdvancesAlways == Spec => CalibrationAdvances
<1>1. TypeOK /\ TypeOK' /\ [Next]_vars =>
          [\A c \in Tasks : pc'[c] # pc[c] => StepsLeft(c)' \in 0 .. StepsLeft(c) - 1]_vars
  BY StepAdvances
<1>. QED
  BY <1>1, CalibrationTypeCorrect, PTL DEF Spec, CalibrationAdvances
=============================================================================
