----------------------------- MODULE BootProofs -----------------------------
(***************************************************************************)
(* Safety of Boot for any retries, drops and restarts, proved.             *)
(***************************************************************************)
EXTENDS Boot, SequenceTheorems, TLAPS

USE BootAssumption

Events == {"STA_START", "STA_DISCONNECTED", "GOT_IP"}

\* app_main is past the wait.
Waited == {"unregister1", "unregister2", "delete", "ap", "services", "up"}

\* What belongs to each place of app_main.
Stages ==
    /\ main \in {"init", "sta", "register", "start"} =>
           radio = "off" /\ handlers = (IF main = "start" THEN {"WIFI_EVENT", "IP_EVENT"} ELSE {})
    /\ main \in {"wait", "unregister1", "unregister2", "delete"} => radio = "sta"
    /\ main \in {"sta", "register", "start", "wait", "unregister1", "unregister2",
                "delete"} => mode # "AP"
    /\ main \in {"wait", "unregister1"} => handlers = {"WIFI_EVENT", "IP_EVENT"}
    /\ handlers # {} => group = "alive"
    /\ main \in {"register", "start"} => group = "alive"
    /\ main \in {"delete", "ap", "services", "up"} => handlers = {}
    /\ main = "unregister2" => handlers = {"IP_EVENT"}
    /\ main = "ap" => radio # "ap" /\ (mode \in {"AP", "APSTA"} \/ SUCCESS \notin bits)
    /\ main \in {"services", "up"} =>
           /\ radio # "off"
           /\ radio = "ap" <=> (mode \in {"AP", "APSTA"} \/ SUCCESS \notin bits)

\* Until the driver runs as a station, nothing has happened there; it is quiet again when
\* the access point runs.
Quiet ==
    /\ radio = "off" => link = "down" /\ events = <<>> /\ bits = {} /\ retry_num = 0
                        /\ attempts = 0
    /\ radio = "ap" => link = "down"

\* One connect after the other, each answered once: an attempt is either in the network or
\* its answer among the events, until an address comes.
Trying ==
    (radio = "sta" /\ SUCCESS \notin bits) =>
        \/ /\ bits = {} /\ events = <<"STA_START">> /\ link = "down"
           /\ attempts = 0 /\ retry_num = 0
        \/ /\ bits = {} /\ events = <<"STA_DISCONNECTED">> /\ link = "down"
           /\ attempts = retry_num + 1
        \/ /\ bits = {} /\ events = <<>> /\ link \in {"connecting", "associated", "refused"}
           /\ attempts = retry_num + 1
        \/ bits = {} /\ events = <<"GOT_IP">> /\ link = "up"
        \/ bits = {} /\ events = <<"GOT_IP", "STA_DISCONNECTED">> /\ link = "down"
        \/ bits = {FAIL} /\ events = <<>> /\ link = "down" /\ attempts = max + 1

\* What the wait returned decides as the bits would.
Decided ==
    (main \in Waited /\ radio = "sta") =>
        bits # {} /\ (SUCCESS \in bits <=> SUCCESS \in status)

IInv == TypeOK /\ Stages /\ Quiet /\ Trying /\ Decided

LEMMA Queues ==
    ASSUME NEW a, NEW b
    PROVE  /\ Head(<<a>>) = a /\ Tail(<<a>>) = <<>> /\ Append(<<>>, a) = <<a>>
           /\ Head(<<a, b>>) = a /\ Tail(<<a, b>>) = <<b>> /\ Append(<<a>>, b) = <<a, b>>
<1>1. Append(<<a>>, b) = <<a, b>>
  <2>. DEFINE S == {a, b}
              app == Append(<<a>>, b)
  <2>1. <<a>> \in Seq(S) /\ <<a, b>> \in Seq(S) /\ Len(<<a>>) = 1 /\ Len(<<a, b>>) = 2
    OBVIOUS
  <2>2. app \in Seq(S) /\ Len(app) = 2 /\ app[1] = a /\ app[2] = b
    BY <2>1, AppendProperties
  <2>. HIDE DEF app
  <2>3. app = <<a, b>>
    BY <2>1, <2>2, SeqEqual
  <2>. QED
    BY <2>3 DEF app
<1>. QED
  BY <1>1

LEMMA QueueTypes ==
    ASSUME events \in Seq(Events)
    PROVE  /\ events # <<>> => Head(events) \in Events /\ Tail(events) \in Seq(Events)
           /\ \A e \in Events : Append(events, e) \in Seq(Events)
<1>1. \A e \in Events : Append(events, e) \in Seq(Events)
  BY AppendProperties
<1>2. events # <<>> => Head(events) \in Events /\ Tail(events) \in Seq(Events)
  BY HeadTailProperties
<1>. QED
  BY <1>1, <1>2

LEMMA InitIInv == Init => IInv
BY DEF Init, IInv, TypeOK, Stages, Quiet, Trying, Decided, Modes

LEMMA RebootIInv == TypeOK /\ Reboot => IInv'
<1>. SUFFICES ASSUME TypeOK, Reboot PROVE IInv'
  OBVIOUS
<1>1. TypeOK'
  BY DEF Reboot, TypeOK
<1>2. Stages' /\ Quiet'
  BY DEF Reboot, Stages, Quiet
<1>3. Trying' /\ Decided'
  BY DEF Reboot, Trying, Decided, Waited
<1>. QED
  BY <1>1, <1>2, <1>3 DEF IInv

LEMMA AppMainIInv == IInv /\ AppMain => IInv'
<1>. SUFFICES ASSUME IInv, AppMain PROVE IInv'
  OBVIOUS
<1>. USE DEF IInv, TypeOK, Stages, Quiet, Trying, Decided, Modes, Waited,
             regVars, staVars, netVars, FAIL, SUCCESS
<1>1. CASE WifiInit
  BY <1>1 DEF WifiInit
<1>2. CASE CreateGroup
  BY <1>2 DEF CreateGroup
<1>3. CASE Register
  BY <1>3 DEF Register
<1>4. CASE StartSta
  BY <1>4, Queues DEF StartSta, Post
<1>5. CASE WaitBits
  BY <1>5 DEF WaitBits
<1>6. CASE UnregisterWifi \/ UnregisterIp
  BY <1>6 DEF UnregisterWifi, UnregisterIp
<1>7. CASE DeleteGroup
  BY <1>7 DEF DeleteGroup
<1>8. CASE StartAp
  BY <1>8, QueueTypes DEF StartAp, Post, Events
<1>9. CASE Services
  BY <1>9 DEF Services
<1>. QED
  BY <1>1, <1>2, <1>3, <1>4, <1>5, <1>6, <1>7, <1>8, <1>9 DEF AppMain

\* The one event the station can be at, as long as it has had no address.
LEMMA TheOneEvent ==
    ASSUME IInv, Handled, SUCCESS \notin bits
    PROVE  /\ bits = {} /\ radio = "sta" /\ main \notin Waited
           /\ Head(events) = "STA_START" =>
                  Tail(events) = <<>> /\ link = "down" /\ attempts = 0 /\ retry_num = 0
           /\ Head(events) = "STA_DISCONNECTED" =>
                  Tail(events) = <<>> /\ link = "down" /\ attempts = retry_num + 1
<1>. USE DEF IInv, TypeOK, Stages, Quiet, Handled, FAIL, SUCCESS
<1>1. radio = "sta"
  BY DEF Waited
<1>2. bits = {}
  BY <1>1 DEF Trying
<1>3. main \notin Waited
  BY <1>1, <1>2 DEF Decided
<1>4. Head(events) = "STA_START" =>
          Tail(events) = <<>> /\ link = "down" /\ attempts = 0 /\ retry_num = 0
  BY <1>1, <1>2, Queues DEF Trying
<1>5. Head(events) = "STA_DISCONNECTED" =>
          Tail(events) = <<>> /\ link = "down" /\ attempts = retry_num + 1
  <2>. SUFFICES ASSUME Head(events) = "STA_DISCONNECTED"
                PROVE  Tail(events) = <<>> /\ link = "down" /\ attempts = retry_num + 1
    OBVIOUS
  <2>1. /\ events # <<>> /\ events # <<"STA_START">> /\ events # <<"GOT_IP">>
        /\ events # <<"GOT_IP", "STA_DISCONNECTED">>
    BY Queues
  <2>2. /\ events = <<"STA_DISCONNECTED">>
        /\ link = "down" /\ attempts = retry_num + 1
    BY <1>1, <1>2, <2>1 DEF Trying
  <2>. QED
    BY <2>2, Queues
<1>. QED
  BY <1>1, <1>2, <1>3, <1>4, <1>5

LEMMA EventLoopIInv == IInv /\ EventLoop => IInv'
<1>. SUFFICES ASSUME IInv, EventLoop PROVE IInv'
  OBVIOUS
<1>. USE DEF regVars, staVars
<1>0. radio \in {"off", "ap"} => ~Handled
  BY DEF IInv, TypeOK, Stages, Quiet, Handled
<1>1. events' = Tail(events) /\ events' \in Seq(Events)
  <2>1. events # <<>> /\ events' = Tail(events)
    BY DEF EventLoop, OnStart, OnDisconnected, OnGotIp, Ignore, Dispatch, Handled
  <2>. QED
    BY <2>1, QueueTypes DEF IInv, TypeOK, Events
<1>2. TypeOK'
  <2>1. CASE OnStart
    BY <1>1, <2>1 DEF OnStart, Dispatch, Connect, IInv, TypeOK, Events
  <2>2. CASE OnDisconnected
    BY <1>1, <2>2 DEF OnDisconnected, Dispatch, Connect, IInv, TypeOK, Events
  <2>3. CASE OnGotIp
    BY <1>1, <2>3 DEF OnGotIp, Dispatch, IInv, TypeOK, Events
  <2>4. CASE Ignore
    BY <1>1, <2>4 DEF Ignore, IInv, TypeOK, Events
  <2>. QED
    BY <2>1, <2>2, <2>3, <2>4 DEF EventLoop
<1>3. CASE OnStart
  <2>1. Handled /\ Head(events) = "STA_START" /\ radio = "sta"
    BY <1>0, <1>3 DEF OnStart, Dispatch, IInv, TypeOK
  <2>2. Stages' /\ Quiet' /\ Decided'
    BY <1>3, <2>1 DEF OnStart, Dispatch, IInv, TypeOK, Stages, Quiet, Decided
  <2>3. Trying'
    BY <1>1, <1>3, <2>1, TheOneEvent DEF OnStart, Dispatch, Connect, Trying
  <2>. QED
    BY <1>2, <2>2, <2>3 DEF IInv
<1>4. CASE OnDisconnected
  <2>1. Handled /\ Head(events) = "STA_DISCONNECTED" /\ radio = "sta"
    BY <1>0, <1>4 DEF OnDisconnected, Dispatch, IInv, TypeOK
  <2>2. SUCCESS \in bits' <=> SUCCESS \in bits
    BY <1>4 DEF OnDisconnected, FAIL, SUCCESS
  <2>3. Stages' /\ Quiet'
    BY <1>4, <2>1, <2>2 DEF OnDisconnected, Dispatch, IInv, TypeOK, Stages, Quiet
  <2>4. Decided'
    BY <1>4, <2>1, <2>2 DEF OnDisconnected, Dispatch, IInv, Decided
  <2>5. Trying'
    <3>. SUFFICES ASSUME SUCCESS \notin bits PROVE Trying'
      BY <2>2 DEF Trying
    <3>1. CASE retry_num < max
      BY <1>1, <1>4, <2>1, <3>1, TheOneEvent
      DEF OnDisconnected, Dispatch, Connect, Trying, IInv, TypeOK
    <3>2. CASE ~(retry_num < max)
      <4>1. retry_num = max
        BY <3>2 DEF IInv, TypeOK
      <4>. QED
        BY <1>1, <1>4, <2>1, <3>2, <4>1, TheOneEvent
        DEF OnDisconnected, Dispatch, Trying, IInv, TypeOK
    <3>. QED
      BY <3>1, <3>2
  <2>. QED
    BY <1>2, <2>3, <2>4, <2>5 DEF IInv
<1>5. CASE OnGotIp
  <2>1. Handled /\ radio = "sta"
    BY <1>0, <1>5 DEF OnGotIp, Dispatch, IInv, TypeOK
  <2>2. Trying' /\ SUCCESS \in bits' /\ bits' # {}
    BY <1>5 DEF OnGotIp, Trying
  <2>3. main \in Waited => SUCCESS \in bits
    BY <2>1, TheOneEvent
  <2>4. Decided'
    BY <1>5, <2>1, <2>2, <2>3 DEF OnGotIp, Dispatch, IInv, Decided
  <2>5. Stages' /\ Quiet'
    BY <1>5, <2>1, <2>2, <2>3 DEF OnGotIp, Dispatch, IInv, TypeOK, Stages, Quiet, Waited
  <2>. QED
    BY <1>2, <2>2, <2>4, <2>5 DEF IInv
<1>6. CASE Ignore
  <2>1. events # <<>> /\ ~Handled
    BY <1>6 DEF Ignore
  <2>2. Stages' /\ Quiet' /\ Decided'
    BY <1>6, <2>1 DEF Ignore, IInv, TypeOK, Stages, Quiet, Decided
  <2>3. Trying'
    <3>. SUFFICES ASSUME radio = "sta", SUCCESS \notin bits PROVE FALSE
      BY <1>6 DEF Ignore, Trying
    <3>1. bits = {}
      BY <2>1 DEF IInv, Trying
    <3>2. main = "wait"
      BY <3>1 DEF IInv, TypeOK, Stages, Decided, Waited
    <3>3. Handled
      BY <2>1, <3>2 DEF IInv, Stages, Handled, Class
    <3>. QED
      BY <2>1, <3>3
  <2>. QED
    BY <1>2, <2>2, <2>3 DEF IInv
<1>. QED
  BY <1>3, <1>4, <1>5, <1>6 DEF EventLoop

LEMMA NetworkIInv == IInv /\ (Associate \/ GotIp \/ Disconnected) => IInv'
<1>. SUFFICES ASSUME IInv, Associate \/ GotIp \/ Disconnected PROVE IInv'
  OBVIOUS
<1>. USE DEF IInv, regVars, staVars
<1>1. CASE Associate
  BY <1>1 DEF Associate, TypeOK, Stages, Quiet, Trying, Decided
<1>2. CASE GotIp
  <2>1. events' \in Seq(Events)
    BY <1>2, QueueTypes DEF GotIp, Post, TypeOK, Events
  <2>2. TypeOK' /\ Stages' /\ Quiet' /\ Decided'
    BY <1>2, <2>1 DEF GotIp, TypeOK, Stages, Quiet, Decided, Events
  <2>3. Trying'
    BY <1>2, Queues DEF GotIp, Post, Trying, FAIL, SUCCESS
  <2>. QED
    BY <2>2, <2>3
<1>3. CASE Disconnected
  <2>1. events' \in Seq(Events)
    BY <1>3, QueueTypes DEF Disconnected, Post, TypeOK, Events
  <2>2. TypeOK' /\ Stages' /\ Quiet' /\ Decided'
    BY <1>3, <2>1 DEF Disconnected, TypeOK, Stages, Quiet, Decided, Events
  <2>3. Trying'
    BY <1>3, Queues DEF Disconnected, Post, Trying, FAIL, SUCCESS
  <2>. QED
    BY <2>2, <2>3
<1>. QED
  BY <1>1, <1>2, <1>3

LEMMA Invariance == Spec => []IInv
<1>1. IInv /\ UNCHANGED vars => IInv'
  BY DEF vars, regVars, staVars, netVars, IInv, TypeOK, Stages, Quiet, Trying, Decided
<1>2. IInv /\ [Next]_vars => IInv'
  BY <1>1, AppMainIInv, EventLoopIInv, NetworkIInv, RebootIInv DEF Next, IInv
<1>. QED
  BY <1>2, InitIInv, PTL DEF Spec

\* wifi.c, hackquad_main.c:301-318: every variable of the boot keeps its type; there are
\* never more retries than the register allows.
THEOREM BootTypeCorrect == Spec => []TypeOK
BY Invariance, PTL DEF IInv

\* wifi.c:118-120: the handler is not called after the event group it sets bits in is deleted.
THEOREM HandlerOutlivedAlways == Spec => []HandlerOutlived
<1>1. IInv => HandlerOutlived
  BY DEF IInv, Stages, HandlerOutlived, Handled
<1>. QED
  BY <1>1, Invariance, PTL

\* wifi.c:55-63: the station is given up only after all its attempts.
THEOREM FailMeansAllTriedAlways == Spec => []FailMeansAllTried
<1>1. IInv => FailMeansAllTried
  BY DEF IInv, Trying, FailMeansAllTried, FAIL, SUCCESS
<1>. QED
  BY <1>1, Invariance, PTL

\* wifi.c:48-70: while xEventGroupWaitBits waits, one connect or one event is outstanding, so a
\* boot that hangs hangs on a refused connect or on a network that gives no address.
THEOREM WaitHasOneCauseAlways == Spec => []WaitHasOneCause
<1>1. IInv => WaitHasOneCause
  <2>. SUFFICES ASSUME IInv, main = "wait", bits = {}
                PROVE  events = <<>> <=> link \in {"connecting", "associated", "refused"}
    BY DEF WaitHasOneCause
  <2>1. \A a, b : <<a>> # <<>> /\ <<a, b>> # <<>>
    OBVIOUS
  <2>. QED
    BY <2>1 DEF IInv, Stages, Trying
<1>. QED
  BY <1>1, Invariance, PTL

\* wifi.c:178-195: what runs after the boot is what the mode and the station's success demand.
THEOREM BootOutcomeAlways == Spec => []BootOutcome
<1>1. IInv => BootOutcome
  BY DEF IInv, TypeOK, Stages, Quiet, BootOutcome
<1>. QED
  BY <1>1, Invariance, PTL
=============================================================================
