------------------------ MODULE RegistryServerProofs ------------------------
(***************************************************************************)
(* Theorems about RegistryServer for any registers, requests, calibration  *)
(* tasks and failures.                                                     *)
(***************************************************************************)
EXTENDS RegistryServer, RegistryHashProofs

USE RegistryAssumption

\* No two registers share a key of NVS.
LEMMA SlotsDistinct ==
    ASSUME NEW r \in Registers, NEW s \in Registers, key_hash_str[r] = key_hash_str[s]
    PROVE  r = s
<1>1. /\ reg_calc_hashcode(r) \in Hash32 /\ key_hash[r] = Nibbles(reg_calc_hashcode(r))
      /\ reg_calc_hashcode(s) \in Hash32 /\ key_hash[s] = Nibbles(reg_calc_hashcode(s))
  BY KeysAssumption, HashcodeCorrect DEF Keys, key_hash
<1>2. key_hash[r] = key_hash[s]
  BY <1>1, NibblesType, HexInjective DEF key_hash_str
<1>3. reg_calc_hashcode(r) = reg_calc_hashcode(s)
  BY <1>1, <1>2, NibblesInjective
<1>. QED
  BY <1>3

LEMMA SlotIn == ASSUME NEW r \in Registers PROVE key_hash_str[r] \in Slots
BY DEF Slots

LEMMA LookupType == ASSUME NEW key PROVE reg_lookup(key) \in Registers \cup {None}
BY DEF reg_lookup

\* The type invariant in parts: control, ...
TypeControl ==
    /\ boot \in {"nvs", "read", "up", "noserver"}
    /\ unread \subseteq Registers /\ suspect \subseteq Registers
    /\ heap \in Bodies \cup {None} /\ op \in {"get", "set", None}
    /\ pc \in [Writers -> {"idle", "receive", "act", "sample", "save", "set", "commit", "written"}]
    /\ todo \in [Writers -> SUBSET Registers]

\* ... the reception of a request ...
TypeRecv == recv \in IF pc[Httpd] = "receive" THEN Receptions ELSE {None}

\* ... values in memory and in NVS, each of its register's type ...
Fits(r, v) == v \in Nat /\ v < Limit[r]

NvsFits(f) ==
    /\ f \in [Slots -> Nat \cup {None}]
    /\ \A r \in Registers : f[key_hash_str[r]] = None \/ Fits(r, f[key_hash_str[r]])

TypeValues ==
    /\ ram \in [Registers -> Nat]
    /\ \A r \in Registers : Fits(r, ram[r])
    /\ NvsFits(written) /\ NvsFits(flash)
    /\ arg \in [Writers -> Nat \cup {None}]
    /\ \A w \in Writers : pc[w] = "set" => Fits(Current(w), arg[w])

\* ... and what a place in the code says of todo and of the boot.
Saving == {"save", "set", "commit", "written"}

Places ==
    /\ \A w \in Writers :
           /\ pc[w] \in Saving \cup {"sample"} => todo[w] # {}
           /\ pc[w] \in {"idle", "receive", "act"} => todo[w] = {}
           /\ pc[w] = "sample" => todo[w] = Calibrated
           /\ pc[w] # "idle" => boot = "up"
    /\ boot = "nvs" => unread = Registers
    /\ boot \in {"up", "noserver"} => unread = {}
    /\ \A r \in unread : ram[r] = Default[r]

\* Until it is suspect a register has one writer at a time, and what that one has read
\* of it, what it has set and what it has committed is what memory holds.
OneWriter ==
    \A r \in Registers \ (unread \cup suspect) :
        /\ \A w, v \in Writers : r \in todo[w] /\ r \in todo[v] => w = v
        /\ \A w \in Writers : r \in todo[w] /\ Current(w) = r =>
               /\ pc[w] = "set" => arg[w] = ram[r]
               /\ pc[w] \in {"commit", "written"} => written[key_hash_str[r]] = ram[r]
               /\ pc[w] = "written" => flash[key_hash_str[r]] = ram[r]

\* What reg_init has yet to read is in flash, and so comes back after a restart too.
ReadIsSafe ==
    boot = "read" => \A r \in unread : written[key_hash_str[r]] = flash[key_hash_str[r]]

IInv == TypeControl /\ TypeRecv /\ TypeValues /\ Places

LEMMA CurrentIn ==
    ASSUME TypeControl, NEW w \in Writers, todo[w] # {}
    PROVE  Current(w) \in todo[w] /\ Current(w) \in Registers
BY DEF Current, TypeControl

LEMMA WriteCases ==
    ASSUME NEW w \in Writers, Write(w)
    PROVE  Load(w) \/ OpenFails(w) \/ SetValue(w) \/ Commit(w) \/ Written(w)
BY DEF Write

\* What the server does short of setting a register.
Serving ==
    \/ \E length \in Lengths : Request(length)
    \/ List \/ HttpRecv \/ RegGet \/ RegSetRefused

\* The steps sorted by what they touch.
LEMMA NextCases ==
    ASSUME Next
    PROVE  \/ OpenNvs \/ HttpInit \/ Reboot
           \/ \E r \in Registers : ReadRegister(r) \/ WriteDefault(r)
           \/ Serving \/ RegSet
           \/ \E t \in Tasks : Calibrate(t) \/ Sample(t) \/ EndCalibration(t)
           \/ \E w \in Writers : Write(w)
BY DEF Next, HttpdStep, Serving, Writers

-----------------------------------------------------------------------------
(* The receive loop.                                                       *)

\* A result that does not end the loop is a part of the body or takes from the offset.
LEMMA AfterCases ==
    ASSUME NEW b \in Receptions, b = recv, b.len <= HeapSize, NEW read \in ReqRecv \ LastReads
    PROVE  /\ read \in Int /\ b.len \in Nat /\ b.offset \in Nat /\ b.left \in Nat
           /\ b.offset + b.left <= b.len /\ read <= b.left
           /\ b.offset + read \in Nat /\ read # 0
           /\ After(read) = [b EXCEPT !.offset = b.offset + read,
                                      !.left = IF read > 0 THEN b.left - read ELSE b.left]
<1>1. /\ b \in [len : Lengths, offset : Nat, left : Nat, odd : BOOLEAN]
      /\ b.offset + b.left <= b.len
  BY DEF Receptions
<1>2. b.len \in Nat /\ b.offset \in Nat /\ b.left \in Nat
  BY <1>1
<1>3. read \in Int /\ -3 <= read /\ read <= b.left
  BY <1>2 DEF ReqRecv
<1>4. read # 0 /\ After(read).offset < b.len
  <2>1. After(read).offset = (b.offset + read) % SizeMod
    BY <1>1 DEF After
  <2>2. (b.offset + read) % SizeMod \in Nat
    BY <1>2, <1>3
  <2>. QED
    BY <1>2, <2>1, <2>2 DEF LastReads, Ends
<1>5. After(read).offset = (b.offset + read) % SizeMod
  BY <1>1 DEF After
<1>6. b.offset + read < SizeMod /\ -3 <= b.offset + read
  BY <1>1, <1>2, <1>3
<1>7. b.offset + read \in Nat
  <2>. SUFFICES ASSUME b.offset + read < 0 PROVE FALSE
    BY <1>2, <1>3
  <2>1. ((b.offset + read) % SizeMod) = b.offset + read + SizeMod
    BY <1>2, <1>3, <1>6
  <2>. QED
    BY <1>2, <1>3, <1>4, <1>5, <1>6, <2>1
<1>8. ((b.offset + read) % SizeMod) = b.offset + read
  BY <1>6, <1>7
<1>. QED
  BY <1>1, <1>2, <1>3, <1>4, <1>7, <1>8 DEF After

\* A round stores no more than there is room for.
LEMMA MoreType ==
    ASSUME NEW b \in Receptions, b = recv, b.len <= HeapSize, RecvMore
    PROVE  recv' \in Receptions
<1>1. PICK read \in ReqRecv \ LastReads : recv' = [After(read) EXCEPT !.odd = ~@]
  BY DEF RecvMore
<1>2. /\ read \in Int /\ b.offset + read \in Nat /\ read <= b.left /\ b.len \in Nat
      /\ After(read) = [b EXCEPT !.offset = b.offset + read,
                                 !.left = IF read > 0 THEN b.left - read ELSE b.left]
      /\ b.offset + b.left <= b.len /\ b.offset \in Nat /\ b.left \in Nat
  BY AfterCases
<1>3. b \in [len : Lengths, offset : Nat, left : Nat, odd : BOOLEAN]
  BY DEF Receptions
<1>4. (IF read > 0 THEN b.left - read ELSE b.left) \in Nat
  BY <1>2
<1>. DEFINE left == IF read > 0 THEN b.left - read ELSE b.left
            offset == b.offset + read
<1>5. left \in Nat /\ offset \in Nat /\ offset + left <= b.len
  BY <1>2, <1>4
<1>6. recv' = [b EXCEPT !.offset = offset, !.left = left, !.odd = ~b.odd]
  BY <1>1, <1>2, <1>3
<1>. HIDE DEF left, offset
<1>7. /\ recv' \in [len : Lengths, offset : Nat, left : Nat, odd : BOOLEAN]
      /\ recv'.offset = offset /\ recv'.left = left /\ recv'.len = b.len
  BY <1>3, <1>5, <1>6
<1>. QED
  BY <1>5, <1>7 DEF Receptions

\* What http_recv does, whichever of its steps it is.
LEMMA RecvCases ==
    ASSUME TypeControl, TypeRecv, HttpRecv
    PROVE  /\ pc[Httpd] = "receive" /\ UNCHANGED <<bootVars, ram, nvs, op, todo, arg, suspect>>
           /\ heap' \in Bodies \cup {None}
           /\ \/ UNCHANGED pc /\ recv' \in Receptions
              \/ Goto(Httpd, "act") /\ recv' = None
<1>. USE DEF HttpRecv, TypeControl, TypeRecv
<1>1. pc[Httpd] = "receive" /\ recv \in Receptions /\ recv.len \in Nat
  BY DEF Receptions
<1>2. CASE TooLong
  BY <1>1, <1>2 DEF TooLong, Received
<1>3. CASE recv.len <= HeapSize /\ RecvMore
  BY <1>1, <1>3, MoreType DEF RecvMore, writerVars
<1>4. CASE RecvLast
  BY <1>1, <1>4 DEF RecvLast, Received
<1>. QED
  BY <1>1, <1>2, <1>3, <1>4

LEMMA ServingCases ==
    ASSUME TypeControl, TypeRecv, Serving
    PROVE  /\ UNCHANGED <<bootVars, ram, nvs, todo, arg, suspect>>
           /\ heap' \in Bodies \cup {None} /\ op' \in {"get", "set", None}
           /\ pc[Httpd] \in {"idle", "receive", "act"}
           /\ pc[Httpd] = "idle" => boot = "up"
           /\ \E place \in {"idle", "receive", "act"} : Goto(Httpd, place)
<1>. USE DEF TypeControl, Goto, writerVars
<1>1. ASSUME NEW length \in Lengths, Request(length)
      PROVE  Goto(Httpd, "receive") /\ op' \in {"get", "set"}
             /\ UNCHANGED <<bootVars, ram, nvs, heap, todo, arg, suspect>>
             /\ pc[Httpd] = "idle" /\ boot = "up"
  BY <1>1 DEF Request
<1>2. CASE List
  <2>1. Goto(Httpd, "idle")
    BY <1>2 DEF List, Writers
  <2>. QED
    BY <1>2, <2>1 DEF List
<1>3. CASE HttpRecv
  <2>1. Goto(Httpd, "receive") \/ Goto(Httpd, "act")
    BY <1>3, RecvCases DEF Writers
  <2>. QED
    BY <1>3, <2>1, RecvCases
<1>4. CASE RegGet \/ RegSetRefused
  BY <1>4 DEF RegGet, RegSetRefused
<1>. QED
  BY <1>1, <1>2, <1>3, <1>4 DEF Serving

LEMMA StepRecv == TypeControl /\ TypeRecv /\ Places /\ [Next]_vars => TypeRecv'
<1>. SUFFICES ASSUME TypeControl, TypeRecv, Places, [Next]_vars PROVE TypeRecv'
  OBVIOUS
<1>. USE DEF TypeControl, TypeRecv, httpVars, writerVars, Goto
<1>h. Httpd \in Writers /\ \A t \in Tasks : t # Httpd
  BY DEF Writers
<1>1. CASE UNCHANGED <<recv, pc>>
  BY <1>1
<1>2. CASE OpenNvs \/ HttpInit \/ \E r \in Registers : ReadRegister(r) \/ WriteDefault(r)
  BY <1>1, <1>2 DEF OpenNvs, HttpInit, ReadRegister, WriteDefault
<1>3. CASE Reboot
  BY <1>3, <1>h DEF Reboot, AllIdle
<1>4. ASSUME NEW length \in Lengths, Request(length) PROVE TypeRecv'
  <2>1. pc'[Httpd] = "receive" /\ recv' = [len |-> length, offset |-> 0, left |-> length, odd |-> FALSE]
    BY <1>4, <1>h DEF Request
  <2>. QED
    BY <2>1 DEF Receptions
<1>5. CASE HttpRecv
  BY <1>5, <1>h, RecvCases
<1>6. CASE List \/ RegGet \/ RegSetRefused \/ RegSet
  BY <1>6, <1>h DEF List, RegGet, RegSetRefused, RegSet
<1>7. ASSUME NEW t \in Tasks, Calibrate(t) \/ Sample(t) \/ EndCalibration(t) PROVE TypeRecv'
  BY <1>7, <1>h DEF Calibrate, Sample, EndCalibration
<1>8. ASSUME NEW w \in Writers, Write(w) PROVE TypeRecv'
  <2>1. /\ pc[w] # "receive" /\ pc'[w] # "receive" /\ recv' = recv
        /\ \A v \in Writers \ {w} : pc'[v] = pc[v]
    BY <1>8, WriteCases DEF Load, OpenFails, SetValue, Commit, Written
  <2>. QED
    BY <1>h, <2>1
<1>. QED
  BY <1>1, <1>2, <1>3, <1>4, <1>5, <1>6, <1>7, <1>8, NextCases DEF Serving, vars

-----------------------------------------------------------------------------
(* Types and places.                                                       *)

LEMMA StepControl == TypeControl /\ TypeRecv /\ Places /\ [Next]_vars => TypeControl'
<1>. SUFFICES ASSUME TypeControl, TypeRecv, Places, [Next]_vars PROVE TypeControl'
  OBVIOUS
<1>. USE DEF TypeControl, bootVars, nvs, httpVars, writerVars, Goto
<1>1. CASE UNCHANGED vars
  BY <1>1 DEF vars
<1>2. CASE OpenNvs \/ HttpInit
  BY <1>2 DEF OpenNvs, HttpInit
<1>3. CASE Reboot
  <2>1. pc' \in [Writers -> {"idle", "receive", "act", "sample", "save", "set", "commit", "written"}]
    BY <1>3 DEF Reboot, AllIdle
  <2>2. todo' \in [Writers -> SUBSET Registers]
    <3>1. {} \in SUBSET Registers
      OBVIOUS
    <3>. QED
      BY <1>3, <3>1 DEF Reboot, NoneToDo
  <2>. QED
    BY <1>3, <2>1, <2>2 DEF Reboot
<1>4. ASSUME NEW r \in Registers, ReadRegister(r) \/ WriteDefault(r) PROVE TypeControl'
  BY <1>4 DEF ReadRegister, WriteDefault, Committed
<1>5. CASE Serving
  BY <1>5, ServingCases DEF Writers
<1>7. CASE RegSet
  <2>1. Named \in Registers
    BY <1>7, LookupType DEF RegSet, Named
  <2>. QED
    BY <1>7, <2>1 DEF RegSet, Writers
<1>8. ASSUME NEW t \in Tasks, Calibrate(t) \/ Sample(t) \/ EndCalibration(t)
      PROVE  TypeControl'
  BY <1>8 DEF Calibrate, Sample, EndCalibration, Writers
<1>9. ASSUME NEW w \in Writers, Write(w) PROVE TypeControl'
  <2>1. CASE Load(w) \/ Written(w)
    BY <2>1 DEF Load, Written
  <2>2. CASE OpenFails(w) \/ SetValue(w) \/ Commit(w)
    <3>1. Current(w) \in Registers
      BY <2>2, CurrentIn DEF Places, OpenFails, SetValue, Commit, Saving
    <3>. QED
      BY <2>2, <3>1 DEF OpenFails, SetValue, Commit, Committed
  <2>. QED
    BY <1>9, <2>1, <2>2, WriteCases
<1>. QED
  BY <1>1, <1>2, <1>3, <1>4, <1>5, <1>7, <1>8, <1>9, NextCases

LEMMA StepPlaces == TypeControl /\ TypeRecv /\ TypeValues /\ Places /\ [Next]_vars => Places'
<1>. SUFFICES ASSUME TypeControl, TypeRecv, TypeValues, Places, [Next]_vars PROVE Places'
  OBVIOUS
<1>. USE DEF TypeControl, TypeValues, Places, bootVars, nvs, httpVars, writerVars, Goto, Saving
<1>1. CASE UNCHANGED vars
  BY <1>1 DEF vars
<1>2. CASE OpenNvs \/ HttpInit
  BY <1>2 DEF OpenNvs, HttpInit
<1>3. CASE Reboot
  BY <1>3 DEF Reboot, AllIdle, NoneToDo
<1>4. ASSUME NEW r \in Registers, ReadRegister(r) \/ WriteDefault(r) PROVE Places'
  BY <1>4 DEF ReadRegister, WriteDefault
<1>5. CASE Serving
  BY <1>5, ServingCases DEF Writers
<1>7. CASE RegSet
  <2>1. Named \in Registers /\ boot = "up"
    BY <1>7, LookupType DEF RegSet, Named, Writers
  <2>. QED
    BY <1>7, <2>1 DEF RegSet, Writers
<1>8. ASSUME NEW t \in Tasks, Calibrate(t) \/ Sample(t) \/ EndCalibration(t)
      PROVE  Places'
  BY <1>8 DEF Calibrate, Sample, EndCalibration, Writers
<1>9. ASSUME NEW w \in Writers, Write(w) PROVE Places'
  <2>1. CASE Load(w) \/ OpenFails(w) \/ SetValue(w) \/ Commit(w)
    BY <2>1 DEF Load, OpenFails, SetValue, Commit
  <2>2. CASE Written(w)
    BY <2>2 DEF Written
  <2>. QED
    BY <1>9, <2>1, <2>2, WriteCases
<1>. QED
  BY <1>1, <1>2, <1>3, <1>4, <1>5, <1>7, <1>8, <1>9, NextCases

\* Setting one register leaves what NVS holds of the others.
LEMMA UpdateFits ==
    ASSUME NEW f, NvsFits(f), NEW r \in Registers, NEW v, v = None \/ Fits(r, v)
    PROVE  NvsFits([f EXCEPT ![key_hash_str[r]] = v])
BY SlotIn, SlotsDistinct DEF NvsFits, Fits

LEMMA CommittedFits ==
    ASSUME NvsFits(written'), NvsFits(flash), NEW r \in Registers, Committed(r)
    PROVE  NvsFits(flash')
<1>1. written'[key_hash_str[r]] = None \/ Fits(r, written'[key_hash_str[r]])
  BY DEF NvsFits
<1>2. CASE flash' = [flash EXCEPT ![key_hash_str[r]] = written'[key_hash_str[r]]]
  BY <1>1, <1>2, UpdateFits
<1>. QED
  BY <1>2 DEF Committed

\* What a request stores fits its register, whatever number it carries.
LEMMA StoredFits ==
    ASSUME NEW r \in Registers, NEW n \in Int PROVE Fits(r, Stored(r, n))
BY DEF Fits, Stored

LEMMA StepValues == TypeControl /\ TypeRecv /\ TypeValues /\ Places /\ [Next]_vars => TypeValues'
<1>. SUFFICES ASSUME TypeControl, TypeRecv, TypeValues, Places, [Next]_vars PROVE TypeValues'
  OBVIOUS
<1>. USE DEF TypeControl, TypeValues, bootVars, nvs, httpVars, writerVars, Goto
<1>1. CASE UNCHANGED vars
  BY <1>1 DEF vars, Current
<1>2. CASE OpenNvs
  BY <1>2, SlotIn DEF OpenNvs, Erased, Current, NvsFits
<1>3. CASE HttpInit
  BY <1>3 DEF HttpInit, Current
<1>4. CASE Reboot
  <2>1. /\ flash' \in [Slots -> Nat \cup {None}] /\ written' = flash'
        /\ \A s \in Slots : flash'[s] \in {flash[s], written[s]}
    BY <1>4 DEF Reboot, NvsFits
  <2>2. ram' = Default /\ pc' = AllIdle /\ arg' = NoArg
    BY <1>4 DEF Reboot
  <2>3. arg' \in [Writers -> Nat \cup {None}] /\ \A w \in Writers : pc'[w] # "set"
    BY <2>2 DEF AllIdle, NoArg
  <2>. QED
    BY <2>1, <2>2, <2>3, SlotIn DEF Fits, NvsFits
<1>5. ASSUME NEW r \in Registers, ReadRegister(r) PROVE TypeValues'
  BY <1>5, SlotIn DEF ReadRegister, Found, Fits, NvsFits, Current
<1>6. ASSUME NEW r \in Registers, WriteDefault(r) PROVE TypeValues'
  <2>1. NvsFits(written)' /\ NvsFits(flash)'
    <3>1. CASE UNCHANGED nvs
      BY <3>1
    <3>2. CASE /\ written' = [written EXCEPT ![key_hash_str[r]] = ram[r]]
               /\ Committed(r)
      <4>1. NvsFits(written')
        BY <3>2, UpdateFits
      <4>. QED
        BY <3>2, <4>1, CommittedFits
    <3>. QED
      BY <1>6, <3>1, <3>2 DEF WriteDefault
  <2>. QED
    BY <1>6, <2>1 DEF WriteDefault, Current
<1>7. CASE Serving
  <2>1. UNCHANGED <<ram, nvs, todo, arg>> /\ \A w \in Writers : pc'[w] = "set" => pc[w] = "set"
    BY <1>7, ServingCases DEF Writers
  <2>. QED
    BY <2>1 DEF Current
<1>9. CASE RegSet
  <2>1. Named \in Registers
    BY <1>9, LookupType DEF RegSet, Named
  <2>2. Value \in Int
    BY <1>9 DEF RegSet, Value, Bodies
  <2>3. Fits(Named, Stored(Named, Value))
    BY <2>1, <2>2, StoredFits
  <2>4. \A w \in Writers : pc'[w] = "set" => pc[w] = "set" /\ todo'[w] = todo[w]
    BY <1>9 DEF RegSet, Writers
  <2>. QED
    BY <1>9, <2>1, <2>3, <2>4 DEF RegSet, Fits, Current
<1>10. ASSUME NEW t \in Tasks, Calibrate(t) \/ EndCalibration(t) PROVE TypeValues'
  BY <1>10 DEF Calibrate, EndCalibration, Writers, Current
<1>11. ASSUME NEW t \in Tasks, Sample(t) PROVE TypeValues'
  BY <1>11 DEF Sample, ValuesOf, Fits, Current
<1>12. ASSUME NEW w \in Writers, Write(w) PROVE TypeValues'
  <2>1. CASE Load(w)
    <3>1. Current(w) \in Registers
      BY <2>1, CurrentIn DEF Places, Load, Saving
    <3>2. Fits(Current(w), ram[Current(w)])
      BY <3>1
    <3>3. /\ UNCHANGED <<ram, nvs, todo>> /\ arg'[w] = ram[Current(w)]
          /\ \A v \in Writers \ {w} : pc'[v] = pc[v] /\ arg'[v] = arg[v]
          /\ arg' \in [Writers -> Nat \cup {None}]
      BY <2>1, <3>2 DEF Load, Fits
    <3>4. \A v \in Writers : Current(v)' = Current(v)
      BY <3>3 DEF Current
    <3>. QED
      BY <3>2, <3>3, <3>4 DEF Fits, NvsFits
  <2>2. CASE OpenFails(w) \/ Written(w)
    BY <2>2 DEF OpenFails, Written, Current
  <2>3. CASE SetValue(w)
    <3>1. Current(w) \in Registers
      BY <2>3, CurrentIn DEF Places, SetValue, Saving
    <3>2. Fits(Current(w), arg[w])
      BY <2>3 DEF SetValue
    <3>3. NvsFits(written')
      BY <2>3, <3>1, <3>2, UpdateFits DEF SetValue
    <3>4. /\ UNCHANGED <<ram, flash, todo>> /\ arg' = [arg EXCEPT ![w] = None]
          /\ pc' = [pc EXCEPT ![w] = "commit"]
      BY <2>3 DEF SetValue
    <3>5. \A v \in Writers : pc'[v] = "set" =>
              pc[v] = "set" /\ arg'[v] = arg[v] /\ Current(v)' = Current(v)
      BY <3>4 DEF Current
    <3>6. arg' \in [Writers -> Nat \cup {None}]
      BY <3>4
    <3>. QED
      BY <3>3, <3>4, <3>5, <3>6
  <2>4. CASE Commit(w)
    <3>1. Current(w) \in Registers
      BY <2>4, CurrentIn DEF Places, Commit, Saving
    <3>2. NvsFits(flash')
      BY <2>4, <3>1, CommittedFits DEF Commit
    <3>. QED
      BY <2>4, <3>2 DEF Commit, Current
  <2>. QED
    BY <1>12, <2>1, <2>2, <2>3, <2>4, WriteCases
<1>. QED
  BY <1>1, <1>2, <1>3, <1>4, <1>5, <1>6, <1>7, <1>9, <1>10, <1>11, <1>12, NextCases

\* RamAndFlashAgree is inductive together with OneWriter: a value is saved after it was
\* read, so without OneWriter the write that ends may be one of an older value.
Agreed == OneWriter /\ ReadIsSafe /\ RamAndFlashAgree

LEMMA InitInv == Init => IInv /\ Agreed
<1>. SUFFICES ASSUME Init PROVE IInv /\ Agreed
  OBVIOUS
<1>. USE DEF Init, AllIdle, NoneToDo, NoArg
<1>1. TypeControl
  <2>1. {} \in SUBSET Registers
    OBVIOUS
  <2>. QED
    BY <2>1 DEF TypeControl
<1>r. TypeRecv
  BY DEF TypeRecv, Writers
<1>2. TypeValues
  BY SlotIn DEF TypeValues, NvsFits, Fits, Erased
<1>3. Places
  BY DEF Places, Saving
<1>4. Agreed
  BY DEF Agreed, OneWriter, ReadIsSafe, RamAndFlashAgree
<1>. QED
  BY <1>1, <1>r, <1>2, <1>3, <1>4 DEF IInv

\* reg_init reads or writes no register but its own.
LEMMA OthersKept ==
    ASSUME TypeValues, NEW r \in Registers, ReadRegister(r) \/ WriteDefault(r),
           NEW x \in Registers \ {r}
    PROVE  /\ written'[key_hash_str[x]] = written[key_hash_str[x]]
           /\ flash'[key_hash_str[x]] = flash[key_hash_str[x]]
           /\ ram'[x] = ram[x]
<1>1. key_hash_str[x] # key_hash_str[r] /\ key_hash_str[x] \in Slots
  BY SlotsDistinct, SlotIn
<1>. QED
  BY <1>1 DEF TypeValues, NvsFits, ReadRegister, WriteDefault, Committed, nvs

LEMMA StepReadIsSafe == IInv /\ ReadIsSafe /\ [Next]_vars => ReadIsSafe'
<1>. SUFFICES ASSUME TypeControl, TypeRecv, TypeValues, Places, ReadIsSafe, [Next]_vars,
                     boot' = "read", NEW x \in unread'
              PROVE  written'[key_hash_str[x]] = flash'[key_hash_str[x]]
  BY DEF IInv, ReadIsSafe
<1>. USE DEF ReadIsSafe, bootVars, nvs, httpVars, writerVars
<1>1. CASE UNCHANGED vars
  BY <1>1 DEF vars
<1>2. CASE OpenNvs \/ HttpInit \/ Reboot
  BY <1>2 DEF OpenNvs, HttpInit, Reboot
<1>3. ASSUME NEW r \in Registers, ReadRegister(r) \/ WriteDefault(r)
      PROVE  written'[key_hash_str[x]] = flash'[key_hash_str[x]]
  <2>1. boot = "read" /\ x \in unread \ {r} /\ x \in Registers
    BY <1>3 DEF TypeControl, ReadRegister, WriteDefault
  <2>. QED
    BY <1>3, <2>1, OthersKept
<1>4. CASE Serving \/ RegSet
  <2>1. boot = "up"
    BY <1>4, ServingCases DEF Places, Writers, RegSet
  <2>. QED
    BY <1>4, <2>1, ServingCases DEF RegSet
<1>5. ASSUME NEW t \in Tasks, Calibrate(t) \/ Sample(t) \/ EndCalibration(t) PROVE FALSE
  BY <1>5 DEF Places, Writers, Calibrate, Sample, EndCalibration
<1>6. ASSUME NEW w \in Writers, Write(w) PROVE FALSE
  BY <1>6, WriteCases DEF Places, Load, OpenFails, SetValue, Commit, Written
<1>. QED
  BY <1>1, <1>2, <1>3, <1>4, <1>5, <1>6, NextCases

LEMMA StepAgreed == IInv /\ Agreed /\ [Next]_vars => Agreed'
<1>. SUFFICES ASSUME TypeControl, TypeRecv, TypeValues, Places, OneWriter, ReadIsSafe,
                     RamAndFlashAgree, [Next]_vars
              PROVE  OneWriter' /\ RamAndFlashAgree'
  BY StepReadIsSafe DEF IInv, Agreed
<1>. USE DEF TypeControl, OneWriter, RamAndFlashAgree,
             bootVars, nvs, httpVars, writerVars, Goto
<1>1. CASE UNCHANGED vars
  BY <1>1 DEF vars, Current
<1>2. CASE OpenNvs \/ Reboot
  <2>1. unread' = Registers
    BY <1>2 DEF OpenNvs, Reboot, Places
  <2>. QED
    BY <2>1
<1>3. CASE HttpInit
  BY <1>3 DEF HttpInit, Current
<1>4. ASSUME NEW r \in Registers, ReadRegister(r) \/ WriteDefault(r)
      PROVE  OneWriter' /\ RamAndFlashAgree'
  <2>1. /\ \A w \in Writers : todo'[w] = {} /\ todo[w] = {}
        /\ boot = "read" /\ unread' = unread \ {r} /\ suspect \subseteq suspect'
    BY <1>4 DEF Places, ReadRegister, WriteDefault, Committed
  <2>2. ASSUME NEW x \in Registers \ (unread \cup suspect)', x # r
        PROVE  written'[key_hash_str[x]] = ram'[x] /\ flash'[key_hash_str[x]] = ram'[x]
    BY <1>4, <2>1, <2>2, OthersKept
  <2>3. ASSUME r \notin (unread \cup suspect)'
        PROVE  written'[key_hash_str[r]] = ram'[r] /\ flash'[key_hash_str[r]] = ram'[r]
    BY <1>4, <2>3, SlotIn
    DEF TypeValues, NvsFits, ReadRegister, WriteDefault, Committed, Found, ReadIsSafe
  <2>. QED
    BY <2>1, <2>2, <2>3
<1>5. CASE Serving
  <2>1. Httpd \in Writers /\ todo[Httpd] = {}
    BY <1>5, ServingCases DEF Writers, Places
  <2>2. UNCHANGED <<unread, suspect, todo, ram, nvs, arg>>
    BY <1>5, ServingCases
  <2>3. \A w \in Writers \ {Httpd} : pc'[w] = pc[w]
    BY <1>5, ServingCases
  <2>. QED
    BY <2>1, <2>2, <2>3 DEF Current
<1>6. CASE RegSet
  <2>1. Named \in Registers /\ Httpd \in Writers /\ todo[Httpd] = {}
    BY <1>6, LookupType DEF RegSet, Named, Writers, Places
  <2>2. /\ UNCHANGED <<unread, nvs, arg>>
        /\ \A w \in Writers \ {Httpd} : pc'[w] = pc[w] /\ todo'[w] = todo[w]
        /\ pc'[Httpd] = "save" /\ todo'[Httpd] = {Named}
        /\ \A x \in Registers \ {Named} : ram'[x] = ram[x]
        /\ suspect \subseteq suspect'
    BY <1>6, <2>1 DEF RegSet, TypeValues
  <2>3. Named \notin suspect' => \A w \in Writers \ {Httpd} : Named \notin todo[w]
    BY <1>6 DEF RegSet, InUse
  <2>4. \A w \in Writers \ {Httpd} : Current(w)' = Current(w)
    BY <2>2 DEF Current
  <2>. QED
    BY <2>1, <2>2, <2>3, <2>4
<1>7. ASSUME NEW t \in Tasks, Calibrate(t) PROVE OneWriter' /\ RamAndFlashAgree'
  <2>1. t \in Writers /\ todo[t] = {}
    BY <1>7 DEF Calibrate, Writers, Places
  <2>2. /\ UNCHANGED <<unread, nvs, ram, arg>>
        /\ \A w \in Writers \ {t} : pc'[w] = pc[w] /\ todo'[w] = todo[w]
        /\ pc'[t] = "sample" /\ todo'[t] = Calibrated
        /\ suspect \subseteq suspect'
    BY <1>7, <2>1 DEF Calibrate
  <2>3. \A x \in Calibrated \ suspect' : \A w \in Writers \ {t} : x \notin todo[w]
    BY <1>7 DEF Calibrate, InUse
  <2>4. \A w \in Writers \ {t} : Current(w)' = Current(w)
    BY <2>2 DEF Current
  <2>. QED
    BY <2>1, <2>2, <2>3, <2>4
<1>8. ASSUME NEW t \in Tasks, Sample(t) PROVE OneWriter' /\ RamAndFlashAgree'
  <2>1. t \in Writers /\ todo[t] = Calibrated /\ pc[t] = "sample"
    BY <1>8 DEF Sample, Writers, Places
  <2>2. UNCHANGED <<unread, suspect, nvs, pc, todo, arg>>
    BY <1>8 DEF Sample
  <2>3. \A x \in Registers \ Calibrated : ram'[x] = ram[x]
    BY <1>8 DEF Sample, TypeValues
  <2>4. \A x \in Calibrated : \A w \in Writers :
            x \in Registers \ (unread \cup suspect) /\ x \in todo[w] => w = t
    BY <2>1
  <2>. QED
    BY <2>1, <2>2, <2>3, <2>4 DEF Current
<1>9. ASSUME NEW t \in Tasks, EndCalibration(t) PROVE OneWriter' /\ RamAndFlashAgree'
  <2>1. t \in Writers /\ todo[t] = Calibrated
    BY <1>9 DEF EndCalibration, Writers, Places
  <2>2. /\ UNCHANGED <<unread, nvs, ram, arg>>
        /\ \A w \in Writers \ {t} : pc'[w] = pc[w] /\ todo'[w] = todo[w]
        /\ \/ pc'[t] = "save" /\ UNCHANGED <<todo, suspect>>
           \/ pc'[t] = "idle" /\ todo'[t] = {} /\ suspect' = suspect \cup Calibrated
    BY <1>9, <2>1 DEF EndCalibration
  <2>3. \A w \in Writers : todo'[w] = todo[w] => Current(w)' = Current(w)
    BY DEF Current
  <2>. QED
    BY <2>1, <2>2, <2>3
<1>10. ASSUME NEW w \in Writers, Write(w) PROVE OneWriter' /\ RamAndFlashAgree'
  <2>. DEFINE cur == Current(w)
  <2>1. cur \in todo[w] /\ cur \in Registers
    BY <1>10, WriteCases, CurrentIn
    DEF Places, Saving, Load, OpenFails, SetValue, Commit, Written
  <2>2. CASE Load(w) \/ OpenFails(w)
    <3>1. /\ UNCHANGED <<unread, ram, nvs, todo>>
          /\ \A v \in Writers \ {w} : pc'[v] = pc[v] /\ arg'[v] = arg[v]
          /\ \/ pc'[w] = "set" /\ arg'[w] = ram[cur] /\ suspect' = suspect
             \/ pc'[w] = "written" /\ cur \in suspect' /\ suspect \subseteq suspect'
      BY <2>2 DEF Load, OpenFails, TypeValues
    <3>2. \A v \in Writers : Current(v)' = Current(v)
      BY <3>1 DEF Current
    <3>. HIDE DEF cur
    <3>. QED
      BY <2>1, <3>1, <3>2 DEF cur
  <2>3. CASE SetValue(w)
    <3>1. /\ UNCHANGED <<unread, ram, flash, todo>>
          /\ pc[w] = "set" /\ pc'[w] = "commit"
          /\ \A v \in Writers \ {w} : pc'[v] = pc[v] /\ arg'[v] = arg[v]
          /\ suspect \subseteq suspect'
      BY <2>3 DEF SetValue, TypeValues
    <3>2. \A v \in Writers : Current(v)' = Current(v)
      BY <3>1 DEF Current
    <3>3. cur \notin suspect' => written'[key_hash_str[cur]] = arg[w]
      BY <2>1, <2>3, SlotIn DEF SetValue, TypeValues, NvsFits
    <3>4. \A x \in Registers \ {cur} : written'[key_hash_str[x]] = written[key_hash_str[x]]
      BY <2>1, <2>3, SlotIn, SlotsDistinct DEF SetValue, TypeValues, NvsFits
    <3>. HIDE DEF cur
    <3>. QED
      BY <2>1, <3>1, <3>2, <3>3, <3>4 DEF cur
  <2>4. CASE Commit(w)
    <3>1. /\ UNCHANGED <<unread, ram, written, todo, arg>>
          /\ pc[w] = "commit" /\ pc'[w] = "written"
          /\ \A v \in Writers \ {w} : pc'[v] = pc[v]
          /\ suspect \subseteq suspect'
      BY <2>4 DEF Commit, Committed
    <3>2. \A v \in Writers : Current(v)' = Current(v)
      BY <3>1 DEF Current
    <3>3. cur \notin suspect' => flash'[key_hash_str[cur]] = written[key_hash_str[cur]]
      BY <2>1, <2>4, SlotIn DEF Commit, Committed, TypeValues, NvsFits
    <3>4. \A x \in Registers \ {cur} : flash'[key_hash_str[x]] = flash[key_hash_str[x]]
      BY <2>1, <2>4, SlotIn, SlotsDistinct DEF Commit, Committed, TypeValues, NvsFits
    <3>. HIDE DEF cur
    <3>. QED
      BY <2>1, <3>1, <3>2, <3>3, <3>4 DEF cur
  <2>5. CASE Written(w)
    <3>1. /\ UNCHANGED <<unread, suspect, ram, nvs, arg>>
          /\ pc[w] = "written" /\ pc'[w] \in {"idle", "save"} /\ todo'[w] = todo[w] \ {cur}
          /\ \A v \in Writers \ {w} : pc'[v] = pc[v] /\ todo'[v] = todo[v]
      BY <2>5 DEF Written
    <3>2. \A v \in Writers \ {w} : Current(v)' = Current(v)
      BY <3>1 DEF Current
    <3>3. cur \notin unread \cup suspect =>
              written[key_hash_str[cur]] = ram[cur] /\ flash[key_hash_str[cur]] = ram[cur]
      BY <2>1, <3>1
    <3>. HIDE DEF cur
    <3>. QED
      BY <2>1, <3>1, <3>2, <3>3
  <2>. QED
    BY <1>10, <2>2, <2>3, <2>4, <2>5, WriteCases
<1>. QED
  BY <1>1, <1>2, <1>3, <1>4, <1>5, <1>6, <1>7, <1>8, <1>9, <1>10, NextCases

LEMMA Invariance == Spec => [](IInv /\ Agreed)
<1>1. IInv /\ Agreed /\ [Next]_vars => (IInv /\ Agreed)'
  BY StepControl, StepRecv, StepValues, StepPlaces, StepAgreed DEF IInv
<1>. QED
  BY <1>1, InitInv, PTL DEF Spec, Agreed

\* registry.c, httpserver.c: whatever requests, failures and restarts come, every register
\* holds a value of its type, and so does its place in NVS.
THEOREM RegistryTypeCorrect == Spec => []TypeOK
<1>1. IInv => TypeOK
  BY DEF IInv, TypeControl, TypeRecv, TypeValues, Fits, NvsFits, TypeOK
<1>. QED
  BY <1>1, Invariance, PTL

\* httpserver.c:79-90: the test of a size_t misses the errors of httpd_req_recv, and still the
\* loop ends, for any content length, heap and order of results: an error counted in takes
\* from the offset, which wraps to the top and so ends the loop, or is made up by a part of
\* the body, of which there is only so much.
THEOREM ReceiveAdvancesAlways == Spec => []ReceiveAdvances
<1>1. TypeControl /\ TypeRecv => ReceiveAdvances
  <2>. SUFFICES ASSUME TypeControl, TypeRecv, pc[Httpd] = "receive", recv.len <= HeapSize,
                       NEW read \in ReqRecv \ LastReads
                PROVE  RoundsLeft(After(read)) \in 0 .. RoundsLeft(recv) - 1
    BY DEF ReceiveAdvances
  <2>. DEFINE b == recv
  <2>1. b \in Receptions /\ b \in [len : Lengths, offset : Nat, left : Nat, odd : BOOLEAN]
    BY DEF TypeRecv, Receptions
  <2>2. /\ read \in Int /\ b.offset \in Nat /\ b.left \in Nat
        /\ read <= b.left /\ b.offset + read \in Nat /\ read # 0
        /\ After(read) = [b EXCEPT !.offset = b.offset + read,
                                   !.left = IF read > 0 THEN b.left - read ELSE b.left]
    BY <2>1, AfterCases
  <2>3. /\ After(read).offset = b.offset + read
        /\ After(read).left = IF read > 0 THEN b.left - read ELSE b.left
    BY <2>1, <2>2
  <2>. QED
    BY <2>2, <2>3 DEF RoundsLeft
<1>. QED
  BY <1>1, Invariance, PTL DEF IInv

\* registry.c:155-197 and its callers: after the boot, a register whose writes have succeeded
\* and that one writer at a time has changed comes back from a restart as it is in memory.
THEOREM RamAndFlashAgreeAlways == Spec => []RamAndFlashAgree
BY Invariance, PTL DEF Agreed

-----------------------------------------------------------------------------
(* The refinement.                                                         *)

\* What is on its way to NVS changes only with a writer that is at its nvs_set.
LEMMA CopiesSame ==
    ASSUME \A w \in Writers :
               /\ pc'[w] = "set" <=> pc[w] = "set"
               /\ pc[w] = "set" => todo'[w] = todo[w] /\ arg'[w] = arg[w]
    PROVE  absCopies' = absCopies
<1>1. \A r \in Registers : Copying(r)' = Copying(r)
  BY DEF Copying, Current
<1>2. ASSUME NEW r \in Registers
      PROVE  {arg'[w] : w \in Copying(r)'} = {arg[w] : w \in Copying(r)}
  BY <1>1, <1>2 DEF Copying
<1>. QED
  BY <1>2 DEF absCopies

LEMMA NothingCopied ==
    ASSUME \A w \in Writers : pc[w] # "set"
    PROVE  absCopies = [r \in Registers |-> {}]
BY DEF absCopies, Copying

\* A write of one place in NVS is a change of one key of the abstract map.
LEMMA SafeAt ==
    ASSUME NEW r \in Registers,
           \A x \in Registers \ {r} : /\ written'[key_hash_str[x]] = written[key_hash_str[x]]
                                      /\ flash'[key_hash_str[x]] = flash[key_hash_str[x]]
    PROVE  absSafe' = [absSafe EXCEPT ![r] = absSafe'[r]]
BY DEF absSafe, OrDefault

LEMMA StepRefines == IInv /\ [Next]_vars => [Abstract!Next]_(Abstract!vars)
<1>. SUFFICES ASSUME TypeControl, TypeRecv, TypeValues, Places, [Next]_vars
              PROVE  Abstract!Next \/ UNCHANGED <<absMem, absCopies, absSafe>>
  BY DEF IInv, Abstract!vars
<1>. USE DEF bootVars, nvs, httpVars, writerVars
<1>1. CASE UNCHANGED vars
  BY <1>1, CopiesSame DEF vars, absMem, absSafe, OrDefault
<1>2. CASE OpenNvs
  <2>1. /\ absMem = [r \in Registers |-> None] /\ absMem' = absMem
        /\ absCopies = [r \in Registers |-> {}] /\ absCopies' = absCopies
    BY <1>2, NothingCopied, CopiesSame DEF OpenNvs, Places, absMem
  <2>2. CASE flash' = flash
    <3>1. \A r \in Registers : /\ absSafe'[r] \subseteq absSafe[r]
                               /\ absSafe'[r] # {}
      BY <1>2, <2>2 DEF OpenNvs, absSafe, OrDefault
    <3>. QED
      BY <2>1, <3>1 DEF Abstract!Next, Abstract!Restart, Abstract!Settled, absSafe
  <2>3. CASE flash' = Erased
    <3>1. absSafe' = [r \in Registers |-> {Default[r]}]
      BY <1>2, <2>3, SlotIn DEF OpenNvs, Erased, absSafe, OrDefault
    <3>. QED
      BY <2>1, <3>1 DEF Abstract!Next, Abstract!Erase
  <2>. QED
    BY <1>2, <2>2, <2>3 DEF OpenNvs
<1>3. CASE HttpInit
  BY <1>3, CopiesSame DEF HttpInit, absMem, absSafe, OrDefault
<1>4. CASE Reboot
  <2>1. absMem' = [r \in Registers |-> None]
    BY <1>4 DEF Reboot, absMem
  <2>2. absCopies' = [r \in Registers |-> {}]
    <3>1. \A w \in Writers : pc'[w] # "set"
      BY <1>4 DEF Reboot, AllIdle
    <3>. QED
      BY <3>1 DEF absCopies, Copying
  <2>3. ASSUME NEW r \in Registers
        PROVE  absSafe'[r] \subseteq absSafe[r] /\ absSafe'[r] # {}
    <3>1. /\ flash'[key_hash_str[r]] \in {flash[key_hash_str[r]], written[key_hash_str[r]]}
          /\ written' = flash'
      BY <1>4, SlotIn DEF Reboot
    <3>. QED
      BY <3>1 DEF absSafe, OrDefault
  <2>. QED
    BY <2>1, <2>2, <2>3 DEF Abstract!Next, Abstract!Restart, Abstract!Settled, absSafe
<1>5. ASSUME NEW r \in Registers, ReadRegister(r) \/ WriteDefault(r)
      PROVE  Abstract!Next
  <2>1. absMem[r] = None /\ absCopies' = absCopies
    BY <1>5, CopiesSame DEF ReadRegister, WriteDefault, absMem
  <2>2. absMem' = [absMem EXCEPT ![r] = ram'[r]]
    BY <1>5 DEF ReadRegister, WriteDefault, absMem, TypeValues
  <2>3. ram'[r] \in absSafe[r] \cup {Default[r]}
    BY <1>5, SlotIn DEF ReadRegister, WriteDefault, Places, TypeValues, Found, absSafe, OrDefault
  <2>4. absSafe' = [absSafe EXCEPT ![r] = absSafe'[r]]
    BY <1>5, OthersKept, SafeAt
  <2>5. absSafe'[r] \subseteq absSafe[r] \cup {Default[r]} /\ absSafe'[r] # {}
    BY <1>5, SlotIn
    DEF ReadRegister, WriteDefault, Committed, Places, TypeValues, NvsFits, absSafe, OrDefault
  <2>6. Abstract!Recall(r)
    BY <2>1, <2>2, <2>3, <2>4, <2>5 DEF Abstract!Recall
  <2>. QED
    BY <2>6 DEF Abstract!Next
<1>6. CASE Serving
  <2>1. UNCHANGED <<unread, ram, written, flash, todo, arg>>
    BY <1>6, ServingCases
  <2>2. \A w \in Writers : pc'[w] = "set" <=> pc[w] = "set"
    BY <1>6, ServingCases DEF TypeControl, Goto, Writers
  <2>. QED
    BY <2>1, <2>2, CopiesSame DEF absMem, absSafe, OrDefault
<1>7. ASSUME RegSet \/ \E t \in Tasks : Sample(t) PROVE Abstract!Next
  <2>1. boot = "up"
    BY <1>7 DEF RegSet, Sample, Places, Writers
  <2>2. unread = {} /\ UNCHANGED <<unread, written, flash>>
    BY <1>7, <2>1 DEF RegSet, Sample, Places
  <2>3. \A w \in Writers : /\ pc'[w] = "set" <=> pc[w] = "set"
                           /\ pc[w] = "set" => todo'[w] = todo[w] /\ arg'[w] = arg[w]
    BY <1>7 DEF TypeControl, Goto, RegSet, Sample
  <2>4. absCopies' = absCopies /\ absSafe' = absSafe
    BY <2>2, <2>3, CopiesSame DEF absSafe, OrDefault
  <2>5. TypeValues'
    BY StepValues
  <2>6. absMem' \in [Registers -> Nat]
    BY <2>2, <2>5 DEF absMem, TypeValues
  <2>7. \A r \in Registers : absMem[r] # None
    BY <2>2 DEF absMem, TypeValues
  <2>. QED
    BY <2>4, <2>6, <2>7 DEF Abstract!Next, Abstract!Put
<1>8. ASSUME NEW t \in Tasks, Calibrate(t) \/ EndCalibration(t)
      PROVE  UNCHANGED <<absMem, absCopies, absSafe>>
  <2>1. \A w \in Writers : /\ pc'[w] = "set" <=> pc[w] = "set"
                           /\ pc[w] = "set" => todo'[w] = todo[w] /\ arg'[w] = arg[w]
    BY <1>8 DEF TypeControl, Goto, Calibrate, EndCalibration
  <2>. QED
    BY <1>8, <2>1, CopiesSame DEF Calibrate, EndCalibration, absMem, absSafe, OrDefault
<1>9. ASSUME NEW w \in Writers, Write(w)
      PROVE  Abstract!Next \/ UNCHANGED <<absMem, absCopies, absSafe>>
  <2>. DEFINE cur == Current(w)
  <2>1. cur \in todo[w] /\ cur \in Registers /\ unread = {}
    BY <1>9, WriteCases, CurrentIn
    DEF Places, Saving, Load, OpenFails, SetValue, Commit, Written
  <2>2. absMem' = absMem
    BY <1>9, WriteCases DEF absMem, Load, OpenFails, SetValue, Commit, Written
  <2>3. CASE Load(w)
    <3>1. /\ pc[w] = "save" /\ pc'[w] = "set" /\ arg'[w] = ram[cur] /\ todo' = todo
          /\ \A v \in Writers \ {w} : pc'[v] = pc[v] /\ arg'[v] = arg[v]
      BY <2>3 DEF Load, Goto, TypeControl, TypeValues
    <3>2. \A v \in Writers : Current(v)' = Current(v)
      BY <3>1 DEF Current
    <3>3. \A r \in Registers : Copying(r)' = Copying(r) \cup {v \in {w} : r = cur}
      BY <3>1, <3>2 DEF Copying
    <3>4. \A r \in Registers : w \notin Copying(r)
      BY <3>1 DEF Copying
    <3>5. ASSUME NEW r \in Registers
          PROVE  {arg'[v] : v \in Copying(r)'} =
                     {arg[v] : v \in Copying(r)} \cup {x \in {ram[cur]} : r = cur}
      <4>. HIDE DEF cur
      <4>1. \A v \in Copying(r) : v \in Writers \ {w}
        BY <3>4 DEF Copying
      <4>. QED
        BY <3>1, <3>3, <4>1
    <3>6. absCopies' = [absCopies EXCEPT ![cur] = @ \cup {ram[cur]}]
      <4>. HIDE DEF cur
      <4>. QED
        BY <2>1, <3>5 DEF absCopies
    <3>7. absMem[cur] = ram[cur] /\ absSafe' = absSafe
      BY <2>1, <2>3 DEF Load, absMem, absSafe, OrDefault
    <3>8. Abstract!Copy(cur)
      BY <2>2, <3>6, <3>7 DEF Abstract!Copy
    <3>. QED
      BY <2>1, <3>8 DEF Abstract!Next
  <2>4. CASE OpenFails(w) \/ Written(w)
    <3>1. \A v \in Writers : /\ pc'[v] = "set" <=> pc[v] = "set"
                             /\ pc[v] = "set" => todo'[v] = todo[v] /\ arg'[v] = arg[v]
      BY <2>4 DEF TypeControl, Goto, OpenFails, Written
    <3>. QED
      BY <2>2, <2>4, <3>1, CopiesSame DEF OpenFails, Written, absSafe, OrDefault
  <2>5. CASE SetValue(w)
    <3>1. /\ pc[w] = "set" /\ pc'[w] = "commit" /\ todo' = todo
          /\ \A v \in Writers \ {w} : pc'[v] = pc[v] /\ arg'[v] = arg[v]
      BY <2>5 DEF SetValue, Goto, TypeControl, TypeValues
    <3>2. \A v \in Writers : Current(v)' = Current(v)
      BY <3>1 DEF Current
    <3>3. \A r \in Registers : Copying(r)' = Copying(r) \ {w}
      BY <3>1, <3>2 DEF Copying
    <3>4. w \in Copying(cur) /\ \A r \in Registers \ {cur} : w \notin Copying(r)
      BY <3>1 DEF Copying
    <3>5. ASSUME NEW r \in Registers
          PROVE  {arg'[v] : v \in Copying(r)'} = {arg[v] : v \in Copying(r) \ {w}}
      <4>1. \A v \in Copying(r) \ {w} : v \in Writers \ {w}
        BY DEF Copying
      <4>. QED
        BY <3>1, <3>3, <4>1
    <3>. HIDE DEF cur
    <3>6. arg[w] \in absCopies[cur]
      BY <2>1, <3>4 DEF absCopies
    <3>7. \E rest \in {absCopies[cur], absCopies[cur] \ {arg[w]}} :
              absCopies' = [absCopies EXCEPT ![cur] = rest]
      <4>1. absCopies' = [absCopies EXCEPT ![cur] = absCopies'[cur]]
        <5>1. ASSUME NEW r \in Registers \ {cur} PROVE absCopies'[r] = absCopies[r]
          <6>1. Copying(r) \ {w} = Copying(r)
            BY <3>4
          <6>. QED
            BY <3>5, <6>1 DEF absCopies
        <5>. QED
          BY <5>1 DEF absCopies
      <4>2. absCopies'[cur] \in {absCopies[cur], absCopies[cur] \ {arg[w]}}
        <5>1. absCopies'[cur] = {arg[v] : v \in Copying(cur) \ {w}}
          BY <2>1, <3>5 DEF absCopies
        <5>2. absCopies[cur] = {arg[v] : v \in Copying(cur)}
          BY <2>1 DEF absCopies
        <5>3. CASE \E v \in Copying(cur) \ {w} : arg[v] = arg[w]
          BY <3>4, <5>1, <5>2, <5>3
        <5>4. CASE ~ \E v \in Copying(cur) \ {w} : arg[v] = arg[w]
          BY <3>4, <5>1, <5>2, <5>4
        <5>. QED
          BY <5>3, <5>4
      <4>. QED
        BY <4>1, <4>2
    <3>8. absSafe' = [absSafe EXCEPT ![cur] = absSafe'[cur]]
      <4>. SUFFICES ASSUME NEW x \in Registers \ {cur}
                    PROVE  /\ written'[key_hash_str[x]] = written[key_hash_str[x]]
                           /\ flash'[key_hash_str[x]] = flash[key_hash_str[x]]
        BY <2>1, SafeAt
      <4>1. key_hash_str[x] \in Slots /\ key_hash_str[x] # key_hash_str[cur]
        BY <2>1, SlotIn, SlotsDistinct
      <4>. QED
        BY <2>5, <4>1 DEF SetValue, TypeValues, NvsFits, cur
    <3>9. absSafe'[cur] \subseteq absSafe[cur] \cup {arg[w]} /\ absSafe'[cur] # {}
      <4>1. arg[w] # None
        BY <3>1 DEF TypeValues, Fits
      <4>2. flash' = flash
        BY <2>5 DEF SetValue
      <4>3. written'[key_hash_str[cur]] \in {written[key_hash_str[cur]], arg[w]}
        BY <2>1, <2>5, SlotIn DEF SetValue, TypeValues, NvsFits, cur
      <4>. QED
        BY <2>1, <4>1, <4>2, <4>3 DEF absSafe, OrDefault
    <3>10. Abstract!EndCopy(cur, arg[w])
      BY <2>2, <3>6, <3>7, <3>8, <3>9 DEF Abstract!EndCopy
    <3>. QED
      BY <2>1, <3>6, <3>10 DEF Abstract!Next
  <2>6. CASE Commit(w)
    <3>1. \A v \in Writers : /\ pc'[v] = "set" <=> pc[v] = "set"
                             /\ pc[v] = "set" => todo'[v] = todo[v] /\ arg'[v] = arg[v]
      BY <2>6 DEF TypeControl, Goto, Commit
    <3>2. absSafe' = [absSafe EXCEPT ![cur] = absSafe'[cur]]
      <4>. SUFFICES ASSUME NEW x \in Registers \ {cur}
                    PROVE  /\ written'[key_hash_str[x]] = written[key_hash_str[x]]
                           /\ flash'[key_hash_str[x]] = flash[key_hash_str[x]]
        BY <2>1, SafeAt
      <4>1. key_hash_str[x] \in Slots /\ key_hash_str[x] # key_hash_str[cur]
        BY <2>1, SlotIn, SlotsDistinct
      <4>. QED
        BY <2>6, <4>1 DEF Commit, Committed, TypeValues, NvsFits
    <3>3. absSafe'[cur] \subseteq absSafe[cur] /\ absSafe'[cur] # {}
      BY <2>1, <2>6, SlotIn DEF Commit, Committed, TypeValues, NvsFits, absSafe, OrDefault
    <3>4. Abstract!Commit(cur)
      BY <2>2, <3>1, <3>2, <3>3, CopiesSame DEF Abstract!Commit
    <3>. QED
      BY <2>1, <3>4 DEF Abstract!Next
  <2>. QED
    BY <1>9, <2>3, <2>4, <2>5, <2>6, WriteCases
<1>. QED
  BY <1>1, <1>2, <1>3, <1>4, <1>5, <1>6, <1>7, <1>8, <1>9, NextCases

\* registry.c:73-197: reads, writes, failed and torn ones, and restarts keep each register's
\* value apart from the others' and bring back only what that register held.
THEOREM RegistryImplementsDurableMap == Spec => ImplementsDurableMap
<1>1. Init => Abstract!Init
  BY SlotIn, NothingCopied
  DEF Init, AllIdle, Erased, Abstract!Init, absMem, absSafe, OrDefault
<1>2. IInv /\ [Next]_vars => [Abstract!Next]_(Abstract!vars)
  BY StepRefines
<1>. QED
  BY <1>1, <1>2, Invariance, PTL DEF Spec, ImplementsDurableMap, Abstract!Spec
=============================================================================
