-------------------------------- MODULE Boot --------------------------------
(***************************************************************************)
(* app_main of hackquad_main.c and wifi.c: the registry says whether to    *)
(* join a network as a station or to open an access point; a station that  *)
(* fails falls back to the access point.  Beside app_main run the event    *)
(* loop, which calls the registered handlers in the order events were      *)
(* posted, and the wifi driver with the network at its other end.          *)
(***************************************************************************)
EXTENDS Naturals, Sequences

CONSTANTS
    Retrys,      \* values of wifi_st_max_retrys
    MaxDrops,    \* bound on how often a network that has given an address drops us
    MaxReboots   \* bound on restarts

ASSUME BootAssumption ==
    Retrys \subseteq Nat /\ MaxDrops \in Nat /\ MaxReboots \in Nat

VARIABLES
    main,      \* where app_main is
    mode,      \* wifi_mode, as reg_init has read it
    max,       \* wifi_st_max_retrys, likewise
    handlers,  \* the event classes the station's handler is registered for
    group,     \* the event group, on the stack of init_wifi_sta like retry_num
    bits,      \* ... its bits
    retry_num,
    status,    \* what the wait for them returned
    radio,     \* what the driver runs
    link,      \* the station's connection
    events,    \* posted and not yet dispatched
    attempts,  \* connects since boot (history)
    drops,     \* addresses lost since boot, up to MaxDrops
    reboots    \* restarts so far, up to MaxReboots

regVars == <<mode, max>>
staVars == <<handlers, group, bits, retry_num, status>>
netVars == <<radio, link, events, attempts, drops>>
vars == <<main, regVars, staVars, netVars, reboots>>

FAIL == "WIFI_FAIL_FLAG"
SUCCESS == "WIFI_SUCCESS_FLAG"

\* Any other value of the register acts as the station's.
Modes == {"STA", "AP", "APSTA"}

Init ==
    /\ main = "init" /\ mode \in Modes /\ max \in Retrys
    /\ handlers = {} /\ group = "none" /\ bits = {} /\ retry_num = 0 /\ status = {}
    /\ radio = "off" /\ link = "down" /\ events = <<>> /\ attempts = 0 /\ drops = 0
    /\ reboots = 0

-----------------------------------------------------------------------------
(* The wifi driver and the network, as wifi.c uses them.                   *)

Post(e) == events' = Append(events, e)

\* esp_wifi_connect, whose result the handler drops: a call that is refused, as one with
\* an empty SSID is, posts nothing.
Connect ==
    /\ link' \in {"connecting", "refused"}
    /\ attempts' = attempts + 1

Associate ==
    /\ link = "connecting"
    /\ link' = "associated"
    /\ UNCHANGED <<main, regVars, staVars, radio, events, attempts, drops, reboots>>

GotIp ==
    /\ link = "associated"
    /\ link' = "up" /\ Post("GOT_IP")
    /\ UNCHANGED <<main, regVars, staVars, radio, attempts, drops, reboots>>

Disconnected ==
    /\ link \in {"connecting", "associated"} \/ (link = "up" /\ drops < MaxDrops)
    /\ drops' = IF link = "up" THEN drops + 1 ELSE drops
    /\ link' = "down" /\ Post("STA_DISCONNECTED")
    /\ UNCHANGED <<main, regVars, staVars, radio, attempts, reboots>>

-----------------------------------------------------------------------------
(* The event loop and sta_wifi_event_handler.                              *)

Class(e) == IF e = "GOT_IP" THEN "IP_EVENT" ELSE "WIFI_EVENT"
Handled == events # <<>> /\ Class(Head(events)) \in handlers

Dispatch(e) ==
    /\ Handled /\ Head(events) = e
    /\ events' = Tail(events)
    /\ UNCHANGED <<main, regVars, handlers, group, status, radio, drops, reboots>>

OnStart ==
    /\ Dispatch("STA_START")
    /\ Connect
    /\ UNCHANGED <<bits, retry_num>>

BugRetry ==            \* one retry too many
    /\ Dispatch("STA_DISCONNECTED")
    /\ IF retry_num <= max
       THEN Connect /\ retry_num' = retry_num + 1 /\ UNCHANGED bits
       ELSE bits' = bits \cup {FAIL} /\ UNCHANGED <<retry_num, link, attempts>>

BugOnDisconnected ==   \* the last retry is not made
    /\ Dispatch("STA_DISCONNECTED")
    /\ IF retry_num + 1 < max
       THEN Connect /\ retry_num' = retry_num + 1 /\ UNCHANGED bits
       ELSE bits' = bits \cup {FAIL} /\ UNCHANGED <<retry_num, link, attempts>>

BugReconnect ==        \* the retry is counted and not made
    /\ Dispatch("STA_DISCONNECTED")
    /\ IF retry_num < max
       THEN retry_num' = retry_num + 1 /\ UNCHANGED <<bits, link, attempts>>
       ELSE bits' = bits \cup {FAIL} /\ UNCHANGED <<retry_num, link, attempts>>

OnDisconnected ==
    /\ Dispatch("STA_DISCONNECTED")
    /\ IF retry_num < max
       THEN Connect /\ retry_num' = retry_num + 1 /\ UNCHANGED bits
       ELSE bits' = bits \cup {FAIL} /\ UNCHANGED <<retry_num, link, attempts>>

OnGotIp ==
    /\ Dispatch("GOT_IP")
    /\ retry_num' = 0
    /\ bits' = bits \cup {SUCCESS}
    /\ UNCHANGED <<link, attempts>>

\* No handler, or only the access point's, which writes to the log.
Ignore ==
    /\ events # <<>> /\ ~Handled
    /\ events' = Tail(events)
    /\ UNCHANGED <<main, regVars, staVars, radio, link, attempts, drops, reboots>>

EventLoop == OnStart \/ OnDisconnected \/ OnGotIp \/ Ignore

-----------------------------------------------------------------------------
(* app_main.                                                               *)

\* Drivers, reg_init and battery_init are done; wifi_init looks at the mode.
WifiInit ==
    /\ main = "init"
    /\ main' = IF mode = "AP" THEN "ap" ELSE "sta"
    /\ UNCHANGED <<regVars, staVars, netVars, reboots>>

\* init_wifi_sta, up to the two registrations.
CreateGroup ==
    /\ main = "sta" /\ main' = "register"
    /\ group' = "alive" /\ bits' = {} /\ retry_num' = 0
    /\ UNCHANGED <<regVars, handlers, status, netVars, reboots>>

Register ==
    /\ main = "register" /\ main' = "start"
    /\ handlers' = {"WIFI_EVENT", "IP_EVENT"}
    /\ UNCHANGED <<regVars, group, bits, retry_num, status, netVars, reboots>>

StartSta ==
    /\ main = "start" /\ main' = "wait"
    /\ radio' = "sta" /\ Post("STA_START")
    /\ UNCHANGED <<regVars, staVars, link, attempts, drops, reboots>>

BugWaitBits == \* waits for success alone
    /\ main = "wait" /\ SUCCESS \in bits
    /\ main' = "unregister1"
    /\ status' = bits
    /\ UNCHANGED <<regVars, handlers, group, bits, retry_num, netVars, reboots>>

\* xEventGroupWaitBits: either bit, for ever.
WaitBits ==
    /\ main = "wait" /\ bits # {}
    /\ main' = "unregister1"
    /\ status' = bits
    /\ UNCHANGED <<regVars, handlers, group, bits, retry_num, netVars, reboots>>

UnregisterWifi ==
    /\ main = "unregister1" /\ main' = "unregister2"
    /\ handlers' = handlers \ {"WIFI_EVENT"}
    /\ UNCHANGED <<regVars, group, bits, retry_num, status, netVars, reboots>>

BugUnregisterIp ==     \* GOT_IP keeps its handler
    /\ main = "unregister2" /\ main' = "delete"
    /\ UNCHANGED <<regVars, staVars, netVars, reboots>>

UnregisterIp ==
    /\ main = "unregister2" /\ main' = "delete"
    /\ handlers' = handlers \ {"IP_EVENT"}
    /\ UNCHANGED <<regVars, group, bits, retry_num, status, netVars, reboots>>

BugDeleteGroup ==      \* the fall-back is left out
    /\ main = "delete" /\ main' = IF mode = "APSTA" THEN "ap" ELSE "services"
    /\ group' = "deleted"
    /\ UNCHANGED <<regVars, handlers, bits, retry_num, status, netVars, reboots>>

DeleteGroup ==
    /\ main = "delete"
    /\ main' = IF SUCCESS \in status /\ mode # "APSTA" THEN "services" ELSE "ap"
    /\ group' = "deleted"
    /\ UNCHANGED <<regVars, handlers, bits, retry_num, status, netVars, reboots>>

\* init_wifi_ap: esp_wifi_set_mode(WIFI_MODE_AP) ends the station.
StartAp ==
    /\ main = "ap" /\ main' = "services"
    /\ radio' = "ap" /\ link' = "down"
    /\ IF link \in {"connecting", "associated", "up"}
       THEN Post("STA_DISCONNECTED") ELSE UNCHANGED events
    /\ UNCHANGED <<regVars, staVars, attempts, drops, reboots>>

\* mDNS, the HTTP server, the flight loop, the UDP server and the status task.
Services ==
    /\ main = "services" /\ main' = "up"
    /\ UNCHANGED <<regVars, staVars, netVars, reboots>>

AppMain ==
    \/ WifiInit \/ CreateGroup \/ Register \/ StartSta \/ WaitBits
    \/ UnregisterWifi \/ UnregisterIp \/ DeleteGroup \/ StartAp \/ Services

\* ESP_ERROR_CHECK anywhere in app_main, or a loss of power.  Requests may have changed the
\* registers.
Reboot ==
    /\ reboots < MaxReboots
    /\ main' = "init" /\ mode' \in Modes /\ max' \in Retrys
    /\ handlers' = {} /\ group' = "none" /\ bits' = {} /\ retry_num' = 0 /\ status' = {}
    /\ radio' = "off" /\ link' = "down" /\ events' = <<>> /\ attempts' = 0 /\ drops' = 0
    /\ reboots' = reboots + 1

Next == AppMain \/ EventLoop \/ Associate \/ GotIp \/ Disconnected \/ Reboot

Spec == Init /\ [][Next]_vars

\* app_main and the event loop have a core to run on, and the driver gives up on a network
\* that does not answer.  Nothing makes one that has let us in give us an address.
FairSpec ==
    /\ Spec
    /\ WF_vars(AppMain) /\ WF_vars(EventLoop)
    /\ WF_vars(link = "connecting" /\ (Associate \/ Disconnected))

-----------------------------------------------------------------------------
(* Properties.                                                             *)

TypeOK ==
    /\ main \in {"init", "sta", "register", "start", "wait", "unregister1",
                 "unregister2", "delete", "ap", "services", "up"}
    /\ mode \in Modes /\ max \in Retrys
    /\ handlers \subseteq {"WIFI_EVENT", "IP_EVENT"}
    /\ group \in {"none", "alive", "deleted"}
    /\ bits \subseteq {FAIL, SUCCESS} /\ status \subseteq bits /\ retry_num \in 0 .. max
    /\ radio \in {"off", "sta", "ap"}
    /\ link \in {"down", "connecting", "associated", "up", "refused"}
    /\ events \in Seq({"STA_START", "STA_DISCONNECTED", "GOT_IP"})
    /\ attempts \in Nat /\ drops \in 0 .. MaxDrops /\ reboots \in 0 .. MaxReboots

\* The handler works on the stack of init_wifi_sta and on its event group: it is never
\* called once they are gone, whatever is still posted then.
HandlerOutlived == Handled => group = "alive"

\* The station is given up only when the first connect and every retry has been made and
\* has failed, and none is under way that the access point would cut off.
FailMeansAllTried ==
    (bits = {FAIL} /\ radio = "sta") => attempts = max + 1 /\ link = "down" /\ events = <<>>

\* While app_main waits in vain, it waits for one thing: either an event of the station is
\* posted, or one connect is out that has not been answered, never neither and never both.
WaitHasOneCause ==
    (main = "wait" /\ bits = {}) =>
        (events = <<>> <=> link \in {"connecting", "associated", "refused"})

\* Whatever is up in the end, it is not nothing: the access point if the mode asks for one or
\* the station never had an address, else the station, which did have one.
BootOutcome ==
    main = "up" =>
        /\ radio = "ap" <=> (mode \in {"AP", "APSTA"} \/ SUCCESS \notin bits)
        /\ radio = "sta" => SUCCESS \in bits
        /\ radio = "ap" => link = "down"

\* The boot ends, unless the connect was refused or the network that let us in gives no address:
\* for either of these app_main waits for ever.
BootEnds == (main # "up") ~> (main = "up" \/ link \in {"refused", "associated"})
=============================================================================
