--------------------------- MODULE RegistryServer ---------------------------
(***************************************************************************)
(* The registry and its writers: registry.c (registers in memory, saved in *)
(* NVS under their hash), the handlers of httpserver.c, of which one       *)
(* server task runs one at a time over one heap, and the calibration       *)
(* tasks, which change and save registers of their own beside it.          *)
(***************************************************************************)
EXTENDS RegistryHash

CONSTANTS
    Registers,   \* the keys of the table
    Strangers,   \* other keys a request may name
    Calibrated,  \* the registers a calibration changes and saves
    Limit,       \* register -> how many values its type can hold
    Default,     \* register -> the value it is compiled with
    Numbers,     \* values in requests
    Lengths,     \* content lengths of requests
    HeapSize,    \* HTTPSERVER_HEAP_SIZE
    SizeMod,     \* 2^32: the values of a size_t
    Httpd,       \* the HTTP server's task
    Tasks,       \* calibration tasks
    None         \* no value, no register, nothing that parses

Keys == Registers \cup Strangers
Writers == Tasks \cup {Httpd}
ValuesOf(r) == 0 .. (Limit[r] - 1)

key_hash == [k \in Keys |-> Nibbles(reg_calc_hashcode(k))]
key_hash_str == [r \in Registers |-> reg_hashcode_tostr(key_hash[r])]
Slots == {key_hash_str[r] : r \in Registers}

\* A key is a string of the source.
ASSUME KeysAssumption == Keys \subseteq Seq(Chars)

\* No two registers have one hash; a default fits its register; special values differ.
ASSUME RegistryAssumption ==
    /\ \A r, s \in Registers : reg_calc_hashcode(r) = reg_calc_hashcode(s) => r = s
    /\ Limit \in [Registers -> Nat \ {0}]
    /\ Default \in [Registers -> Nat]
    /\ \A r \in Registers : Default[r] < Limit[r]
    /\ Numbers \subseteq Int
    /\ Lengths \subseteq Nat /\ HeapSize \in Nat /\ SizeMod \in Nat /\ HeapSize + 3 <= SizeMod
    /\ Calibrated \subseteq Registers
    /\ Httpd \notin Tasks
    /\ None \notin Nat /\ None \notin Registers

VARIABLES
    boot,     \* how far app_main has come
    unread,   \* the registers reg_init has not come to
    ram,      \* register -> its value in memory
    written,  \* NVS key -> what NVS holds
    flash,    \* NVS key -> what of it is committed
    heap,     \* the server's heap: a request body, or None if it does not parse
    op,       \* the handler that is running
    recv,     \* http_recv's content_len and offset, and how much of the body is to come
    pc,       \* writer -> where it is
    todo,     \* writer -> registers it has changed and not yet saved
    arg,      \* writer -> the value its nvs_set is called with
    suspect   \* registers since boot saved in vain or written by two at once (history)

nvs == <<written, flash>>
bootVars == <<boot, unread>>
httpVars == <<heap, op, recv>>
writerVars == <<pc, todo, arg>>
vars == <<bootVars, ram, nvs, httpVars, writerVars, suspect>>

Erased == [s \in Slots |-> None]

Bodies == [key : Keys, value : Numbers \cup {None}]

AllIdle == [w \in Writers |-> "idle"]
NoneToDo == [w \in Writers |-> {}]
NoArg == [w \in Writers |-> None]

\* Power on: memory has what the program was compiled with.
Init ==
    /\ boot = "nvs" /\ unread = Registers
    /\ ram = Default
    /\ written = Erased /\ flash = Erased
    /\ heap = None /\ op = None /\ recv = None
    /\ pc = AllIdle /\ todo = NoneToDo /\ arg = NoArg
    /\ suspect = {}

Goto(w, place) == pc' = [pc EXCEPT ![w] = place]

-----------------------------------------------------------------------------
(* registry.c                                                              *)

reg_lookup(key) ==
    IF \E r \in Registers : key_hash[r] = key_hash[key]
    THEN CHOOSE r \in Registers : key_hash[r] = key_hash[key]
    ELSE None

\* reg_init: a partition that cannot be used is erased.
OpenNvs ==
    /\ boot = "nvs" /\ boot' = "read"
    /\ flash' \in {flash, Erased} /\ written' = flash'
    /\ UNCHANGED <<unread, ram, httpVars, writerVars, suspect>>

BugFound(r) == CHOOSE s \in Slots : TRUE    \* registry[0] for registry[i]

\* The NVS key reg_read asks for.
Found(r) == key_hash_str[r]

\* reg_read is successful; it may fail also when there is a value.
ReadRegister(r) ==
    /\ boot = "read" /\ r \in unread
    /\ written[Found(r)] # None
    /\ unread' = unread \ {r}
    /\ ram' = [ram EXCEPT ![r] = written[Found(r)]]
    /\ UNCHANGED <<boot, nvs, httpVars, writerVars, suspect>>

BugCommitted(r) == UNCHANGED <<flash, suspect>>     \* nvs_close without it

\* nvs_commit, whose result is dropped, after register r was written or was to be.
Committed(r) ==
    LET s == key_hash_str[r]
    IN  \/ flash' = [flash EXCEPT ![s] = written'[s]] /\ UNCHANGED suspect
        \/ suspect' = suspect \cup {r} /\ UNCHANGED flash

\* reg_read has failed, and reg_write is called, which may fail too.
WriteDefault(r) ==
    /\ boot = "read" /\ r \in unread
    /\ unread' = unread \ {r}
    /\ LET s == key_hash_str[r]
       IN  \/ /\ suspect' = suspect \cup {r}
              /\ UNCHANGED nvs
           \/ written' = [written EXCEPT ![s] = ram[r]] /\ Committed(r)
    /\ UNCHANGED <<boot, ram, httpVars, writerVars>>

\* reg_write, called for one register after the other.
Current(w) == CHOOSE r \in todo[w] : TRUE

\* nvs_open, and the register is read to be the argument of nvs_set.
Load(w) ==
    /\ pc[w] = "save"
    /\ Goto(w, "set")
    /\ arg' = [arg EXCEPT ![w] = ram[Current(w)]]
    /\ UNCHANGED <<bootVars, ram, nvs, httpVars, todo, suspect>>

OpenFails(w) ==
    /\ pc[w] = "save"
    /\ Goto(w, "written")
    /\ suspect' = suspect \cup {Current(w)}
    /\ UNCHANGED <<bootVars, ram, nvs, httpVars, todo, arg>>

\* nvs_set succeeds or not; nvs_commit is called in both cases.
SetValue(w) ==
    /\ pc[w] = "set"
    /\ Goto(w, "commit")
    /\ arg' = [arg EXCEPT ![w] = None]
    /\ \/ /\ written' = [written EXCEPT ![key_hash_str[Current(w)]] = arg[w]]
          /\ UNCHANGED suspect
       \/ /\ suspect' = suspect \cup {Current(w)}
          /\ UNCHANGED written
    /\ UNCHANGED <<bootVars, ram, flash, httpVars, todo>>

Commit(w) ==
    /\ pc[w] = "commit"
    /\ Goto(w, "written")
    /\ UNCHANGED <<bootVars, ram, written, httpVars, todo, arg>>
    /\ Committed(Current(w))

\* reg_write has returned, to a caller that goes on whatever it says: the
\* HTTP handler answers "ok", the calibration task saves its next register.
Written(w) ==
    /\ pc[w] = "written"
    /\ todo' = [todo EXCEPT ![w] = @ \ {Current(w)}]
    /\ Goto(w, IF todo'[w] = {} THEN "idle" ELSE "save")
    /\ UNCHANGED <<bootVars, ram, nvs, httpVars, arg, suspect>>

Write(w) == Load(w) \/ OpenFails(w) \/ SetValue(w) \/ Commit(w) \/ Written(w)

-----------------------------------------------------------------------------
(* httpserver.c                                                            *)

\* Without a heap or a server http_init fails, which app_main does not look at.
HttpInit ==
    /\ boot = "read" /\ unread = {}
    /\ boot' \in {"up", "noserver"}
    /\ UNCHANGED <<unread, ram, nvs, httpVars, writerVars, suspect>>

Request(length) ==
    /\ boot = "up" /\ pc[Httpd] = "idle"
    /\ Goto(Httpd, "receive")
    /\ op' \in {"get", "set"}
    /\ recv' = [len |-> length, offset |-> 0, left |-> length, odd |-> FALSE]
    /\ UNCHANGED <<bootVars, ram, nvs, heap, todo, arg, suspect>>

\* handler_reg_list prints the table, which is not a request, into the heap.
List ==
    /\ boot = "up" /\ pc[Httpd] = "idle"
    /\ heap' = None
    /\ UNCHANGED <<bootVars, ram, nvs, op, recv, writerVars, suspect>>

\* What httpd_req_recv may return: a part of what is to come, 0 if there is no more or the
\* client has closed, or HTTPD_SOCK_ERR_FAIL, _INVALID or _TIMEOUT.
ReqRecv == 0 .. recv.left \cup {-1, -2, -3}

BugEnds(read) == FALSE      \* `read < 0'

\* `read <= 0' on a size_t, to which the errors are large numbers.
Ends(read) == read = 0

BugAfter(read) ==   \* an error is not added to the offset: the round is repeated
    [recv EXCEPT !.offset = @ + (IF read > 0 THEN read ELSE 0),
                 !.left = @ - (IF read > 0 THEN read ELSE 0)]

\* The sum of the offset and of a negative result is smaller, or wraps to the top.
After(read) ==
    [recv EXCEPT !.offset = (@ + read) % SizeMod,
                 !.left = IF read > 0 THEN @ - read ELSE @]

\* http_recv returns nothing, and the handler goes on whatever has come of the body.
Received ==
    /\ recv' = None
    /\ Goto(Httpd, "act")

\* "content length too long": the heap is as before.
TooLong ==
    /\ Received
    /\ UNCHANGED <<bootVars, ram, nvs, heap, op, todo, arg, suspect>>

\* The results that end the loop.
LastReads == {read \in ReqRecv : Ends(read) \/ After(read).offset >= recv.len}

\* Any other starts a new round: `odd' tells it from the last one, should nothing else.
RecvMore ==
    /\ \E read \in ReqRecv \ LastReads : recv' = [After(read) EXCEPT !.odd = ~@]
    /\ UNCHANGED <<bootVars, ram, nvs, heap, op, writerVars, suspect>>

\* What has come by then lies over what was there, which may read as any body or as none.
\* If nothing has, the heap is as before, but that the final NUL may cut it short.
RecvLast ==
    /\ \E something \in {After(read).left < recv.len : read \in LastReads} :
           heap' \in IF something THEN {None} \cup Bodies ELSE {heap, None}
    /\ Received
    /\ UNCHANGED <<bootVars, ram, nvs, op, todo, arg, suspect>>

HttpRecv ==
    /\ pc[Httpd] = "receive"
    /\ IF recv.len > HeapSize THEN TooLong ELSE RecvMore \/ RecvLast

\* The register and the value that the heap names.
Named == IF heap = None THEN None ELSE reg_lookup(heap.key)
Value == IF heap = None THEN None ELSE heap.value

\* The answer is printed over the request.
RegGet ==
    /\ pc[Httpd] = "act" /\ op = "get"
    /\ heap' = IF Named = None THEN heap ELSE None
    /\ op' = None /\ Goto(Httpd, "idle")
    /\ UNCHANGED <<bootVars, ram, nvs, recv, todo, arg, suspect>>

RegSetRefused ==
    /\ pc[Httpd] = "act" /\ op = "set"
    /\ Named = None \/ Value = None
    /\ op' = None /\ Goto(Httpd, "idle")
    /\ UNCHANGED <<bootVars, ram, nvs, heap, recv, todo, arg, suspect>>

BugStored(r, n) == n

\* The value is cut to the width of the register.  Of a REG_64B only the lower half would
\* be set, but DEFINE_REGISTRY has none.
Stored(r, n) == n % Limit[r]

\* Registers that some other writer has changed and not yet saved.
InUse(w) == UNION {todo[v] : v \in Writers \ {w}}

RegSet ==
    /\ pc[Httpd] = "act" /\ op = "set"
    /\ Named # None /\ Value # None
    /\ ram' = [ram EXCEPT ![Named] = Stored(Named, Value)]
    /\ todo' = [todo EXCEPT ![Httpd] = {Named}]
    /\ suspect' = suspect \cup ({Named} \cap InUse(Httpd))
    /\ op' = None /\ Goto(Httpd, "save")
    /\ UNCHANGED <<bootVars, nvs, heap, recv, arg>>

\* Between any two of these steps the task may be preempted, but it gets on.
HttpdStep == HttpRecv \/ RegGet \/ RegSetRefused \/ RegSet \/ Write(Httpd)

\* POST /mpu/calibrate: the sums grow in the registers themselves.
Calibrate(t) ==
    /\ boot = "up" /\ pc[t] = "idle" /\ Calibrated # {}
    /\ Goto(t, "sample")
    /\ todo' = [todo EXCEPT ![t] = Calibrated]
    /\ suspect' = suspect \cup (Calibrated \cap InUse(t))
    /\ UNCHANGED <<bootVars, ram, nvs, httpVars, arg>>

Sample(t) ==
    /\ pc[t] = "sample"
    /\ \E r \in Calibrated : \E v \in ValuesOf(r) : ram' = [ram EXCEPT ![r] = v]
    /\ UNCHANGED <<bootVars, nvs, httpVars, writerVars, suspect>>

\* It saves what came of it if a calibration has ever succeeded.
EndCalibration(t) ==
    /\ pc[t] = "sample"
    /\ \/ Goto(t, "save") /\ UNCHANGED <<todo, suspect>>
       \/ /\ Goto(t, "idle")
          /\ todo' = [todo EXCEPT ![t] = {}]
          /\ suspect' = suspect \cup Calibrated
    /\ UNCHANGED <<bootVars, ram, nvs, httpVars, arg>>

\* Power lost, or a fault: a string register that is sent a number, for one.  Of what
\* was not committed each value may be lost.
Reboot ==
    /\ boot' = "nvs" /\ unread' = Registers
    /\ ram' = Default
    /\ heap' = None /\ op' = None /\ recv' = None
    /\ pc' = AllIdle /\ todo' = NoneToDo /\ arg' = NoArg
    /\ suspect' = {}
    /\ flash' \in {f \in [Slots -> UNION {{flash[s], written[s]} : s \in Slots}] :
                       \A s \in Slots : f[s] \in {flash[s], written[s]}}
    /\ written' = flash'

Next ==
    \/ OpenNvs \/ HttpInit \/ Reboot
    \/ \E r \in Registers : ReadRegister(r) \/ WriteDefault(r)
    \/ \E length \in Lengths : Request(length)
    \/ List \/ HttpdStep
    \/ \E t \in Tasks : Calibrate(t) \/ Sample(t) \/ EndCalibration(t) \/ Write(t)

Spec == Init /\ [][Next]_vars

\* httpd_req_recv comes back, with HTTPD_SOCK_ERR_TIMEOUT if nothing comes, and every task
\* above the server's priority blocks in each round.
FairSpec == Spec /\ WF_vars(HttpdStep)

-----------------------------------------------------------------------------
(* Properties.                                                             *)

\* What a reception has stored and what is to come of the body fit the length it has room for.
Receptions ==
    {b \in [len : Lengths, offset : Nat, left : Nat, odd : BOOLEAN] : b.offset + b.left <= b.len}

\* Types; a register holds what its type can hold, whatever numbers requests carry.
TypeOK ==
    /\ boot \in {"nvs", "read", "up", "noserver"}
    /\ unread \subseteq Registers /\ suspect \subseteq Registers
    /\ ram \in [Registers -> Nat] /\ \A r \in Registers : ram[r] < Limit[r]
    /\ written \in [Slots -> Nat \cup {None}]
    /\ flash \in [Slots -> Nat \cup {None}]
    /\ heap \in Bodies \cup {None} /\ op \in {"get", "set", None}
    /\ recv \in IF pc[Httpd] = "receive" THEN Receptions ELSE {None}
    /\ pc \in [Writers -> {"idle", "receive", "act", "sample", "save", "set", "commit", "written"}]
    /\ todo \in [Writers -> SUBSET Registers]
    /\ arg \in [Writers -> Nat \cup {None}]

\* After boot a restart would bring back what memory holds of every register that no
\* writer is busy with, but for those a write or commit of which has failed, whose
\* calibration was given up, or that two writers were busy with at once.
RamAndFlashAgree ==
    \A r \in Registers \ (unread \cup suspect) :
        (\A w \in Writers : r \notin todo[w]) =>
            written[key_hash_str[r]] = ram[r] /\ flash[key_hash_str[r]] = ram[r]

OrDefault(r, v) == IF v = None THEN Default[r] ELSE v

absMem == [r \in Registers |-> IF r \in unread THEN None ELSE ram[r]]
Copying(r) == {w \in Writers : pc[w] = "set" /\ Current(w) = r}
absCopies == [r \in Registers |-> {arg[w] : w \in Copying(r)}]
absSafe == [r \in Registers |-> {OrDefault(r, written[key_hash_str[r]]),
                                OrDefault(r, flash[key_hash_str[r]])}]

Abstract == INSTANCE DurableMap WITH
    Keys <- Registers, Values <- Nat, Lost <- None,
    mem <- absMem, copies <- absCopies, safe <- absSafe

\* A register comes back with its default or a value it had, never with another's, however
\* requests, calibrations, failures and restarts are interleaved.
ImplementsDurableMap == Abstract!Spec

\* The most rounds http_recv can still take: one that brings n octets adds n to the offset and
\* takes n from what is to come, and one that fails takes something from the offset.
RoundsLeft(b) == b.offset + 2 * b.left

\* Whatever httpd_req_recv returns next, errors that the test of its result misses included,
\* the loop ends or has fewer rounds left.
ReceiveAdvances ==
    (pc[Httpd] = "receive" /\ recv.len <= HeapSize) =>
        \A read \in ReqRecv \ LastReads :
            RoundsLeft(After(read)) \in 0 .. RoundsLeft(recv) - 1

\* The server comes back to the next request, whatever the client and NVS do.
RequestsEnd == (pc[Httpd] # "idle") ~> (pc[Httpd] = "idle")

\* httpserver.c:177, "ensure changes saved", before the handler answers "ok".
ChangesSaved ==
    pc[Httpd] = "written" => written[key_hash_str[Current(Httpd)]] = ram[Current(Httpd)]
=============================================================================
