---------------------- MODULE ControllerSessionProofs -----------------------
(***************************************************************************)
(* Safety of ControllerSession for any sessions and any threads, proved.   *)
(***************************************************************************)
EXTENDS ControllerSession, SequenceTheorems, TLAPS

USE SessionAssumption

Places == {"idle", "open", "resolve", "arm", "close", "restore", "replace", "closeOld", "install",
           "listen"}
Tasks == {"restore", "connected", "failed", "lost"}
Watches == {"new", "unset", "armed", "close", "call", "off"}
Constructing == {"resolve", "arm"}

\* A watchdog that will run has something to close; one that has told will not run again.
Watchdogs ==
    /\ \A s \in Sessions : watchdog[s] = "armed" => s \in open
    /\ \A s \in Sessions : told[s] = 0 \/ (told[s] = 1 /\ watchdog[s] = "off")

\* A session belongs to the one thread that constructs it until its watchdog is scheduled.
Made ==
    /\ \A s \in silent : watchdog[s] = "new"
    /\ hackQuad # None => watchdog[hackQuad] \notin {"new", "unset"}
    /\ \A t \in Threads :
           /\ At(t, "resolve") => threads[t].session \in silent
           /\ At(t, "arm") => threads[t].session \in open /\ watchdog[threads[t].session] = "unset"
           /\ threads[t].session # None /\ threads[t].pc \notin Constructing
                  => watchdog[threads[t].session] \notin {"new", "unset"}
    /\ \A t, u \in Threads :
           (/\ threads[t].pc \in Constructing /\ threads[u].pc \in Constructing
            /\ threads[t].session = threads[u].session) => t = u

\* As long as nothing has raced, at most one thread or watchdog runs, ...
OneActor ==
    /\ \A t, u \in Alive : t = u
    /\ Closing # {} => Alive = {}
    /\ \A s \in Closing : s = hackQuad
    /\ Alive = {} /\ hackQuad # None => hackQuad \in listening

\* ... finds what it has seen before unchanged, and hands over what it has opened.
Undisturbed ==
    \A t \in Threads :
        /\ threads[t].pc \in {"open", "resolve", "arm"} => hackQuad = None
        /\ threads[t].pc \in {"close", "restore", "closeOld"} => hackQuad # None
        /\ At(t, "install") => hackQuad \notin open
        /\ At(t, "listen") => threads[t].session = hackQuad /\ hackQuad # None
        /\ threads[t].session # None =>
               threads[t].pc \in {"resolve", "arm", "replace", "closeOld", "install", "listen"}

\* What the button will offer when the JavaFX thread has run its queue, no connect having failed.
Text(task) == IF task = "connected" THEN "Disconnect" ELSE "Connect"
Shows(text) ==
    \/ \E i \in 1 .. Len(later) :
           /\ later[i] # "lost" /\ Text(later[i]) = text
           /\ \A j \in i + 1 .. Len(later) : later[j] = "lost"
    \/ /\ enabled /\ button = text
       /\ \A j \in 1 .. Len(later) : later[j] = "lost"

\* A failed connect is the only thing going on, until the user has dismissed its alert.
Failing ==
    /\ \/ later = <<"failed">> /\ alerts = <<>>
       \/ later = <<>> /\ alerts = <<"failed">>
    /\ Alive = {} /\ hackQuad = None
NoneFailed ==
    /\ \A i \in 1 .. Len(later) : later[i] # "failed"
    /\ \A i \in 1 .. Len(alerts) : alerts[i] # "failed"
Connects(t) == threads[t].session # None \/ At(t, "open")

Shown ==
    /\ Failing \/ NoneFailed
    /\ Alive = {} => Failing \/ Shows(IF hackQuad = None THEN "Connect" ELSE "Disconnect")
    /\ \A t \in Threads :
           /\ Connects(t) => later = <<>> /\ alerts = <<>>
           /\ threads[t].pc \in {"replace", "closeOld", "install"} /\ threads[t].session = None
                  => Shows("Connect")

\* A session on its way to Controller.hackQuad is open and finds the place empty.
Handed ==
    \A t \in Threads :
        (threads[t].session # None /\ threads[t].pc \in {"arm", "replace", "closeOld", "install"}) =>
            hackQuad = None /\ threads[t].session \in open

Actors == OneActor /\ Undisturbed /\ Shown /\ Handed /\ NoStraySession

IInv ==
    /\ TypeOK /\ Watchdogs /\ Made
    /\ ~raced => Actors

LEMMA InitIInv == Init => IInv
<1>. SUFFICES ASSUME Init PROVE IInv
  OBVIOUS
<1>. USE DEF Init, Idle
<1>1. TypeOK
  <2>1. later \in Seq(Tasks) /\ alerts \in Seq({"failed", "lost"})
    BY EmptySeq
  <2>2. threads \in [Threads -> [pc : Places, session : Sessions \cup {None}]]
    BY DEF Places
  <2>3. {} \in SUBSET Sessions
    OBVIOUS
  <2>. QED
    BY <2>1, <2>2, <2>3 DEF TypeOK, Places, Tasks
<1>2. Alive = {} /\ Closing = {} /\ \A t \in Threads : At(t, "idle") /\ threads[t].session = None
  BY DEF Alive, At, Closing
<1>3. Watchdogs /\ Made /\ OneActor /\ Undisturbed /\ Handed
  BY <1>2 DEF Watchdogs, Made, OneActor, Undisturbed, Handed, At, Constructing
<1>4. Shown /\ NoStraySession
  BY <1>2, EmptySeq DEF Shown, Shows, NoneFailed, Connects, NoStraySession, At
<1>. QED
  BY <1>1, <1>3, <1>4 DEF IInv, Actors

LEMMA QueueTypes ==
    ASSUME NEW S, NEW seq \in Seq(S)
    PROVE  /\ \A task \in S : Append(seq, task) \in Seq(S)
           /\ seq # <<>> => /\ Head(seq) \in S /\ Tail(seq) \in Seq(S)
                            /\ Front(seq) \in Seq(S) /\ Last(seq) \in S
<1>1. \A task \in S : Append(seq, task) \in Seq(S)
  BY AppendProperties
<1>2. ASSUME seq # <<>>
      PROVE  /\ Head(seq) \in S /\ Tail(seq) \in Seq(S)
             /\ Front(seq) \in Seq(S) /\ Last(seq) \in S
  <2>1. Head(seq) \in S /\ Tail(seq) \in Seq(S)
    BY <1>2, HeadTailProperties
  <2>2. Len(seq) \in Nat \ {0} /\ \A i \in 1 .. Len(seq) : seq[i] \in S
    BY <1>2, EmptySeq, ElementOfSeq
  <2>3. Front(seq) \in Seq(S)
    BY <2>2, SubSeqProperties DEF Front
  <2>. QED
    BY <2>1, <2>2, <2>3 DEF Last
<1>. QED
  BY <1>1, <1>2

LEMMA StartCases ==
    ASSUME TypeOK, NEW pc \in Places, NEW busy \in BOOLEAN, Start(pc, busy)
    PROVE  \E t \in Threads :
               /\ threads[t].pc = "idle" /\ threads'[t].pc = pc /\ threads'[t].session = threads[t].session
               /\ threads' \in [Threads -> [pc : Places, session : Sessions \cup {None}]]
               /\ \A u \in Threads \ {t} : threads'[u] = threads[u]
               /\ raced' \in BOOLEAN
               /\ raced' <=> raced \/ Alive # {} \/ busy
<1>1. PICK t \in Threads \ Alive : Goto(t, pc) /\ raced' = (raced \/ Alive # {} \/ busy)
  BY DEF Start
<1>2. threads[t].pc = "idle"
  BY DEF Alive, At
<1>3. /\ threads' \in [Threads -> [pc : Places, session : Sessions \cup {None}]]
      /\ threads'[t].pc = pc /\ threads'[t].session = threads[t].session
      /\ \A u \in Threads \ {t} : threads'[u] = threads[u]
  <2>1. threads \in [Threads -> [pc : Places, session : Sessions \cup {None}]]
    BY DEF TypeOK, Places
  <2>. QED
    BY <1>1, <2>1 DEF Goto
<1>4. raced' \in BOOLEAN /\ (raced' <=> raced \/ Alive # {} \/ busy)
  BY <1>1 DEF TypeOK
<1>. QED
  BY <1>2, <1>3, <1>4

LEMMA ClickCases ==
    ASSUME TypeOK, Click
    PROVE  /\ \E pc \in {"open", "close"} : Start(pc, Busy) /\ (pc = "open" <=> hackQuad = None)
           /\ Busy \in BOOLEAN /\ enabled' = FALSE /\ button' \in {"Connecting", button}
           /\ alerts = <<>> /\ UNCHANGED <<hackQuad, silent, open, watchdog, listening, told, later, alerts>>
BY DEF Click, Connecting, Disconnecting, Busy, sessionVars

\* The types alone.
Typed ==
    /\ hackQuad \in Sessions \cup {None} /\ silent \subseteq Sessions /\ open \subseteq Sessions
    /\ listening \subseteq Sessions
    /\ watchdog \in [Sessions -> Watches] /\ told \in [Sessions -> Nat]
    /\ threads \in [Threads -> [pc : Places, session : Sessions \cup {None}]]
    /\ later \in Seq(Tasks) /\ alerts \in Seq({"failed", "lost"})
    /\ button \in {"Connect", "Connecting", "Disconnect"}
    /\ enabled \in BOOLEAN /\ raced \in BOOLEAN

\* The rest of TypeOK.
Watched ==
    \A s \in open :
        \/ watchdog[s] \in {"armed", "close"}
        \/ watchdog[s] = "unset" /\ \E t \in Threads : threads[t] = [pc |-> "arm", session |-> s]

LEMMA TypeParts == TypeOK <=> Typed /\ Watched
BY DEF TypeOK, Typed, Watched, Places, Tasks, Watches

LEMMA StepTyped == TypeOK /\ Made /\ [Next]_vars => Typed'
<1>. SUFFICES ASSUME TypeOK, Made, [Next]_vars PROVE Typed'
  OBVIOUS
<1>t. Typed
  BY TypeParts
<1>. USE <1>t DEF Typed, sessionVars, uiVars
<1>q. \A task \in Tasks : Append(later, task) \in Seq(Tasks)
  BY QueueTypes
<1>1. CASE UNCHANGED vars
  BY <1>1 DEF vars
<1>2. CASE Click
  <2>1. threads' \in [Threads -> [pc : Places, session : Sessions \cup {None}]] /\ raced' \in BOOLEAN
    BY <1>2, ClickCases, StartCases DEF Places
  <2>. QED
    BY <1>2, <2>1, ClickCases
<1>3. CASE RunQueued
  <2>1. /\ later # <<>> /\ later' = Tail(later) /\ UNCHANGED <<sessionVars, threads, raced>>
        /\ \/ button' \in {"Connect", "Disconnect"} /\ enabled' = TRUE /\ alerts' = alerts
           \/ /\ Head(later) \notin {"restore", "connected"}
              /\ alerts' = Append(alerts, Head(later)) /\ UNCHANGED <<button, enabled>>
    BY <1>3 DEF RunQueued, Enable
  <2>2. later' \in Seq(Tasks) /\ Head(later) \in Tasks
    BY <2>1, QueueTypes
  <2>3. alerts' \in Seq({"failed", "lost"})
    <3>1. \A task \in {"failed", "lost"} : Append(alerts, task) \in Seq({"failed", "lost"})
      BY QueueTypes
    <3>. QED
      BY <2>1, <2>2, <3>1 DEF Tasks
  <2>. QED
    BY <2>1, <2>2, <2>3
<1>4. CASE Dismiss
  <2>1. alerts' \in Seq({"failed", "lost"})
    BY <1>4, QueueTypes DEF Dismiss
  <2>. QED
    BY <1>4, <2>1 DEF Dismiss, Enable
<1>5. ASSUME NEW s \in Sessions, WatchdogFires(s) \/ WatchdogCloses(s) PROVE Typed'
  BY <1>5 DEF WatchdogFires, WatchdogCloses, Watches
<1>6. ASSUME NEW s \in Sessions, WatchdogCalls(s) PROVE Typed'
  <2>1. threads' \in [Threads -> [pc : Places, session : Sessions \cup {None}]] /\ raced' \in BOOLEAN
    BY <1>6, StartCases DEF WatchdogCalls, Places
  <2>2. later' \in Seq(Tasks)
    BY <1>6, <1>q DEF WatchdogCalls, RunLater, Tasks
  <2>3. enabled' \in BOOLEAN /\ UNCHANGED <<hackQuad, silent, open, listening, button, alerts>>
    BY <1>6 DEF WatchdogCalls
  <2>4. told' \in [Sessions -> Nat] /\ watchdog' \in [Sessions -> Watches]
    BY <1>6 DEF WatchdogCalls, Watches
  <2>. QED
    BY <2>1, <2>2, <2>3, <2>4
<1>7. ASSUME NEW t \in Threads, ThreadStep(t) PROVE Typed'
  <2>1. threads' \in [Threads -> [pc : Places, session : Sessions \cup {None}]]
    BY <1>7 DEF ThreadStep, SetHackQuad, Replace, CloseOld, CloseCurrent, Close, Install, Construct,
               OpenSocket, Resolve, Arm, OpenFails, Listen, Restore, Goto, End, Idle, Places
  <2>2. later' \in Seq(Tasks)
    BY <1>7, <1>q DEF ThreadStep, SetHackQuad, Replace, CloseOld, CloseCurrent, Close,
               Install, Construct, OpenSocket, Resolve, Arm, OpenFails, Listen, Restore, RunLater, Tasks
  <2>3. CASE Construct(t)
    <3>1. CASE OpenSocket(t) \/ OpenFails(t)
      BY <2>1, <2>2, <3>1 DEF OpenSocket, OpenFails
    <3>2. CASE Resolve(t)
      <4>1. threads[t].session \in silent
        BY <3>2 DEF Made, Resolve
      <4>. QED
        BY <2>1, <3>2, <4>1 DEF Resolve, Watches
    <3>3. CASE Arm(t)
      BY <2>1, <3>3 DEF Arm, Watches
    <3>. QED
      BY <2>3, <3>1, <3>2, <3>3 DEF Construct
  <2>4. CASE CloseOld(t) \/ Close(t)
    BY <2>1, <2>4 DEF CloseOld, Close, CloseCurrent, Closed, Watches
  <2>5. CASE Replace(t) \/ Install(t) \/ Listen(t) \/ Restore(t)
    BY <2>1, <2>2, <2>5 DEF Replace, Install, Listen, Restore
  <2>. QED
    BY <1>7, <2>3, <2>4, <2>5 DEF ThreadStep, SetHackQuad
<1>. QED
  BY <1>1, <1>2, <1>3, <1>4, <1>5, <1>6, <1>7 DEF Next, Watchdog

Owned == Watched /\ Watchdogs /\ Made

\* Threads that construct nothing start, move and end; a constructor that fails leaves its session.
Moved ==
    \A t \in Threads :
        \/ threads'[t] = threads[t]
        \/ /\ ~At(t, "arm") /\ threads'[t].pc \notin Constructing
           /\ threads'[t].session = None \/ (~At(t, "resolve") /\ threads'[t].session = threads[t].session)

\* What becomes of a session once its watchdog is scheduled.
Ages ==
    \A s \in Sessions :
        \/ watchdog'[s] = watchdog[s] /\ (s \in open' <=> s \in open) /\ told'[s] = told[s]
        \/ /\ watchdog[s] \notin {"new", "unset"} /\ watchdog'[s] \notin {"new", "unset"}
           /\ s \in open' => watchdog'[s] \in {"armed", "close"}
           /\ watchdog'[s] = "armed" => s \in open'
           /\ \/ told'[s] = told[s] /\ (watchdog[s] = "off" => watchdog'[s] = "off")
              \/ told'[s] = told[s] + 1 /\ watchdog[s] # "off" /\ watchdog'[s] = "off"

LEMMA MovedOwned ==
    ASSUME Typed, Owned, Typed', Moved, Ages, silent' = silent,
           hackQuad' # None => watchdog[hackQuad'] \notin {"new", "unset"}
    PROVE  Owned'
<1>. USE DEF Typed, Owned, Moved, Ages
<1>1. Watchdogs'
  BY DEF Watchdogs
<1>2. Watched'
  <2>. SUFFICES ASSUME NEW s \in open', watchdog'[s] \notin {"armed", "close"}
                PROVE  watchdog'[s] = "unset"
                       /\ \E t \in Threads : threads'[t] = [pc |-> "arm", session |-> s]
    BY DEF Watched
  <2>1. s \in open /\ watchdog'[s] = watchdog[s] /\ watchdog[s] = "unset"
    BY DEF Watched
  <2>2. PICK t \in Threads : threads[t] = [pc |-> "arm", session |-> s]
    BY <2>1 DEF Watched
  <2>. QED
    BY <2>1, <2>2 DEF At
<1>3. Made'
  <2>1. \A s \in silent' : watchdog'[s] = "new"
    BY DEF Made
  <2>2. hackQuad' # None => watchdog'[hackQuad'] \notin {"new", "unset"}
    OBVIOUS
  <2>3. ASSUME NEW t \in Threads
        PROVE  /\ threads'[t].pc = "resolve" => threads'[t].session \in silent'
               /\ threads'[t].pc = "arm" =>
                      threads'[t].session \in open' /\ watchdog'[threads'[t].session] = "unset"
               /\ threads'[t].session # None /\ threads'[t].pc \notin Constructing
                      => watchdog'[threads'[t].session] \notin {"new", "unset"}
    <3>1. CASE threads'[t] = threads[t]
      BY <3>1 DEF Made, At, Constructing
    <3>2. CASE threads'[t] # threads[t]
      BY <3>2 DEF Made, At, Constructing
    <3>. QED
      BY <3>1, <3>2
  <2>4. ASSUME NEW t \in Threads, NEW u \in Threads,
               threads'[t].pc \in Constructing, threads'[u].pc \in Constructing,
               threads'[t].session = threads'[u].session
        PROVE  t = u
    <3>1. threads'[t] = threads[t] /\ threads'[u] = threads[u]
      BY <2>4
    <3>. QED
      BY <2>4, <3>1 DEF Made
  <2>. QED
    BY <2>1, <2>2, <2>3, <2>4 DEF Made, At
<1>. QED
  BY <1>1, <1>2, <1>3

\* The steps of a constructor.
LEMMA ConstructOwned ==
    ASSUME Typed, Owned, Typed', NEW t \in Threads, OpenSocket(t) \/ Resolve(t) \/ Arm(t)
    PROVE  Owned'
<1>. USE DEF Typed, Owned
<1>1. CASE OpenSocket(t)
  <2>1. PICK s \in Sessions \ (Opened \cup silent) :
            /\ silent' = silent \cup {s}
            /\ threads' = [threads EXCEPT ![t] = [pc |-> "resolve", session |-> s]]
    BY <1>1 DEF OpenSocket
  <2>2. At(t, "open") /\ UNCHANGED <<hackQuad, open, watchdog, told>>
    BY <1>1 DEF OpenSocket
  <2>3. watchdog[s] = "new" /\ \A u \in Threads : threads[u].pc \in Constructing => threads[u].session # s
    BY <2>1 DEF Opened, Made, At, Constructing
  <2>4. Watchdogs'
    BY <2>2 DEF Watchdogs
  <2>5. Watched'
    BY <2>1, <2>2 DEF Watched, At
  <2>6. Made'
    BY <2>1, <2>2, <2>3 DEF Made, At, Constructing
  <2>. QED
    BY <2>4, <2>5, <2>6
<1>. DEFINE s == threads[t].session
<1>2. CASE Resolve(t)
  <2>1. /\ At(t, "resolve") /\ threads' = [threads EXCEPT ![t].pc = "arm"]
        /\ silent' = silent \ {s} /\ open' = open \cup {s}
        /\ watchdog' = [watchdog EXCEPT ![s] = "unset"] /\ UNCHANGED <<hackQuad, told>>
    BY <1>2 DEF Resolve, Goto
  <2>2. /\ s \in Sessions /\ watchdog[s] = "new" /\ s # hackQuad
        /\ \A u \in Threads \ {t} : threads[u].session # s
    BY <2>1 DEF Made, At, Constructing
  <2>3. threads'[t] = [pc |-> "arm", session |-> s] /\ \A u \in Threads \ {t} : threads'[u] = threads[u]
    BY <2>1
  <2>4. Watchdogs'
    BY <2>1, <2>2 DEF Watchdogs
  <2>5. Watched'
    BY <2>1, <2>2, <2>3 DEF Watched, At
  <2>6. Made'
    BY <2>1, <2>2, <2>3 DEF Made, At, Constructing
  <2>. QED
    BY <2>4, <2>5, <2>6
<1>3. CASE Arm(t)
  <2>1. /\ At(t, "arm") /\ threads' = [threads EXCEPT ![t].pc = "replace"]
        /\ watchdog' = [watchdog EXCEPT ![s] = "armed"] /\ UNCHANGED <<hackQuad, silent, open, told>>
    BY <1>3 DEF Arm, Goto
  <2>2. /\ s \in open /\ watchdog[s] = "unset" /\ s # hackQuad
        /\ \A u \in Threads \ {t} : threads[u].session # s
    BY <2>1 DEF Made, At, Constructing
  <2>3. /\ threads'[t].pc = "replace" /\ threads'[t].session = s
        /\ \A u \in Threads \ {t} : threads'[u] = threads[u]
    BY <2>1
  <2>4. Watchdogs'
    BY <2>1, <2>2 DEF Watchdogs
  <2>5. Watched'
    BY <2>1, <2>2, <2>3 DEF Watched, At
  <2>6. Made'
    BY <2>1, <2>2, <2>3 DEF Made, At, Constructing
  <2>. QED
    BY <2>4, <2>5, <2>6
<1>. QED
  BY <1>1, <1>2, <1>3

LEMMA StepOwned == TypeOK /\ Owned /\ [Next]_vars => Owned'
<1>. SUFFICES ASSUME TypeOK, Owned, [Next]_vars PROVE Owned'
  OBVIOUS
<1>t. Typed /\ Typed'
  BY TypeParts, StepTyped DEF Owned
<1>. USE <1>t DEF Typed
<1>c. hackQuad # None => watchdog[hackQuad] \notin {"new", "unset"}
  BY DEF Owned, Made
<1>1. CASE UNCHANGED vars \/ RunQueued \/ Dismiss
  <2>1. UNCHANGED <<hackQuad, silent, open, watchdog, told, threads>>
    BY <1>1 DEF vars, RunQueued, Dismiss, sessionVars
  <2>. QED
    BY <1>c, <2>1, MovedOwned DEF Moved, Ages
<1>2. CASE Click
  <2>1. UNCHANGED <<hackQuad, silent, open, watchdog, told>>
    BY <1>2, ClickCases
  <2>2. Moved
    BY <1>2, ClickCases, StartCases DEF Moved, At, Places, Constructing
  <2>. QED
    BY <1>c, <2>1, <2>2, MovedOwned DEF Ages
<1>3. ASSUME NEW s \in Sessions, WatchdogFires(s) \/ Watchdog(s) PROVE Owned'
  <2>1. CASE WatchdogFires(s)
    <3>1. Ages
      BY <2>1 DEF WatchdogFires, Ages, Owned, Watchdogs, Watched
    <3>. QED
      BY <1>c, <2>1, <3>1, MovedOwned DEF WatchdogFires, Moved
  <2>2. CASE WatchdogCloses(s)
    <3>1. Ages
      BY <2>2 DEF WatchdogCloses, Ages, Owned, Watchdogs, Watched
    <3>. QED
      BY <1>c, <2>2, <3>1, MovedOwned DEF WatchdogCloses, Moved
  <2>3. CASE WatchdogCalls(s)
    <3>1. /\ watchdog[s] = "call" /\ watchdog' = [watchdog EXCEPT ![s] = "off"]
          /\ told' = [told EXCEPT ![s] = @ + 1] /\ UNCHANGED <<hackQuad, silent, open>>
      BY <2>3 DEF WatchdogCalls
    <3>2. Ages
      BY <3>1 DEF Ages, Owned, Watchdogs, Watched
    <3>3. Moved
      <4>1. CASE s \in listening
        <5>. DEFINE busy == Closing # {s}
        <5>1. Start("close", busy) /\ busy \in BOOLEAN
          BY <2>3, <4>1 DEF WatchdogCalls
        <5>. HIDE DEF busy
        <5>. QED
          <6>1. "close" \in Places /\ "close" \notin Constructing /\ "idle" \notin Constructing \cup {"arm"}
            BY DEF Places, Constructing
          <6>2. \E t \in Threads :
                    /\ threads[t].pc = "idle" /\ threads'[t].pc = "close"
                    /\ threads'[t].session = threads[t].session
                    /\ \A u \in Threads \ {t} : threads'[u] = threads[u]
            BY <5>1, <6>1, StartCases
          <6>. QED
            BY <6>1, <6>2 DEF Moved, At
      <4>2. CASE s \notin listening
        BY <2>3, <4>2 DEF WatchdogCalls, Moved
      <4>. QED
        BY <4>1, <4>2
    <3>. QED
      BY <1>c, <3>1, <3>2, <3>3, MovedOwned
  <2>. QED
    BY <1>3, <2>1, <2>2, <2>3 DEF Watchdog
<1>4. ASSUME NEW t \in Threads, ThreadStep(t) PROVE Owned'
  <2>1. CASE OpenSocket(t) \/ Resolve(t) \/ Arm(t)
    BY <2>1, ConstructOwned
  <2>2. CASE Replace(t) \/ OpenFails(t) \/ Listen(t) \/ Restore(t) \/ Install(t)
    <3>1. UNCHANGED <<silent, open, watchdog, told>>
      BY <2>2 DEF Replace, OpenFails, Listen, Restore, Install, sessionVars
    <3>2. Moved
      BY <2>2 DEF Replace, OpenFails, Listen, Restore, Install, Goto, End, Idle, Moved, At, Constructing
    <3>3. hackQuad' # None => watchdog[hackQuad'] \notin {"new", "unset"}
      BY <1>c, <2>2 DEF Replace, OpenFails, Listen, Restore, Install, sessionVars, Owned, Made, At,
                   Constructing
    <3>. QED
      BY <3>1, <3>2, <3>3, MovedOwned DEF Ages
  <2>3. CASE CloseOld(t) \/ Close(t)
    <3>1. UNCHANGED <<hackQuad, silent, told>>
      BY <2>3 DEF CloseOld, Close, CloseCurrent
    <3>2. Moved
      BY <2>3 DEF CloseOld, Close, CloseCurrent, Goto, End, Idle, Moved, At, Constructing
    <3>3. Ages
      BY <1>c, <2>3 DEF CloseOld, Close, CloseCurrent, Closed, Ages, Owned, Watchdogs
    <3>. QED
      BY <1>c, <3>1, <3>2, <3>3, MovedOwned
  <2>. QED
    BY <1>4, <2>1, <2>2, <2>3 DEF ThreadStep, SetHackQuad, Construct
<1>. QED
  BY <1>1, <1>2, <1>3, <1>4 DEF Next

LEMMA StepTypes ==
    TypeOK /\ Watchdogs /\ Made /\ [Next]_vars => TypeOK' /\ Watchdogs' /\ Made'
<1>. SUFFICES ASSUME TypeOK, Watchdogs, Made, [Next]_vars PROVE TypeOK' /\ Watchdogs' /\ Made'
  OBVIOUS
<1>1. Owned
  BY TypeParts DEF Owned
<1>2. Typed' /\ Owned'
  BY <1>1, StepTyped, StepOwned
<1>3. TypeOK'
  BY <1>2 DEF Owned, TypeOK, Typed, Watched, Places, Tasks, Watches
<1>. QED
  BY <1>2, <1>3 DEF Owned

\* A task that is queued is the last, and those before it stay.
LEMMA Queued ==
    ASSUME NEW S, NEW seq \in Seq(S), NEW task \in S
    PROVE  LET longer == Append(seq, task)
           IN  /\ Len(longer) = Len(seq) + 1 /\ longer[Len(seq) + 1] = task
               /\ \A i \in 1 .. Len(seq) : longer[i] = seq[i]
BY AppendProperties

LEMMA Dequeued ==
    ASSUME NEW S, NEW seq \in Seq(S), seq # <<>>
    PROVE  /\ Len(seq) \in Nat \ {0} /\ Head(seq) = seq[1]
           /\ Len(Tail(seq)) = Len(seq) - 1 /\ \A i \in 1 .. Len(seq) - 1 : Tail(seq)[i] = seq[i + 1]
           /\ Len(Front(seq)) = Len(seq) - 1 /\ \A i \in 1 .. Len(seq) - 1 : Front(seq)[i] = seq[i]
<1>1. Len(seq) \in Nat \ {0} /\ Head(seq) = seq[1]
  BY EmptySeq
<1>2. Len(Tail(seq)) = Len(seq) - 1 /\ \A i \in 1 .. Len(seq) - 1 : Tail(seq)[i] = seq[i + 1]
  BY <1>1, HeadTailProperties
<1>3. Len(Front(seq)) = Len(seq) - 1 /\ \A i \in 1 .. Len(seq) - 1 : Front(seq)[i] = seq[i]
  <2>. DEFINE n == Len(seq) - 1
  <2>1. n \in Nat /\ \A i \in 1 .. n : seq[i] \in S
    BY <1>1, ElementOfSeq
  <2>2. Front(seq) = SubSeq(seq, 1, n)
    BY DEF Front
  <2>. HIDE DEF n
  <2>3. Len(Front(seq)) = n /\ \A i \in 1 .. n : Front(seq)[i] = seq[1 + i - 1]
    BY <2>1, <2>2, SubSeqProperties
  <2>4. \A i \in 1 .. n : Front(seq)[i] = seq[i]
    BY <2>1, <2>3
  <2>. QED
    BY <2>3, <2>4 DEF n
<1>. QED
  BY <1>1, <1>2, <1>3

\* What is queued last is what the button will show.
LEMMA ShowsLast ==
    ASSUME later \in Seq(Tasks), NEW task \in {"restore", "connected"}, RunLater(task)
    PROVE  Shows(Text(task))' /\ (NoneFailed /\ alerts' = alerts => NoneFailed')
<1>1. /\ Len(later') = Len(later) + 1 /\ later'[Len(later) + 1] = task
      /\ \A i \in 1 .. Len(later) : later'[i] = later[i]
  <2>1. task \in Tasks
    BY DEF Tasks
  <2>. QED
    BY <2>1, Queued DEF RunLater
<1>2. Len(later) \in Nat
  BY LenProperties
<1>. QED
  BY <1>1, <1>2 DEF Shows, Text, NoneFailed

LEMMA ShowsStill ==
    ASSUME TypeOK, NoneFailed, NEW text, Shows(text), RunQueued
    PROVE  Shows(text)'
<1>1. /\ Len(later) \in Nat \ {0} /\ Head(later) = later[1] /\ later[1] \in Tasks \ {"failed"}
      /\ Len(later') = Len(later) - 1 /\ \A i \in 1 .. Len(later) - 1 : later'[i] = later[i + 1]
  <2>1. later # <<>> /\ later' = Tail(later) /\ later \in Seq(Tasks)
    BY DEF RunQueued, TypeOK, Tasks
  <2>2. Len(later) \in Nat \ {0} /\ later[1] \in Tasks
    BY <2>1, Dequeued, ElementOfSeq
  <2>. QED
    BY <2>1, <2>2, Dequeued DEF NoneFailed
<1>2. \/ later[1] = "lost" /\ UNCHANGED <<button, enabled>>
      \/ later[1] # "lost" /\ button' = Text(later[1]) /\ enabled' = TRUE
  BY <1>1 DEF RunQueued, Enable, Text, Tasks
<1>3. CASE enabled /\ button = text /\ \A j \in 1 .. Len(later) : later[j] = "lost"
  <2>1. later[1] = "lost"
    BY <1>1, <1>3
  <2>2. \A j \in 1 .. Len(later') : later'[j] = "lost"
    BY <1>1, <1>3
  <2>. QED
    BY <1>2, <1>3, <2>1, <2>2 DEF Shows
<1>4. ASSUME NEW i \in 1 .. Len(later), later[i] # "lost", Text(later[i]) = text,
             \A j \in i + 1 .. Len(later) : later[j] = "lost"
      PROVE  Shows(text)'
  <2>1. \A j \in i .. Len(later') : later'[j] = "lost"
    BY <1>1, <1>4
  <2>2. CASE i = 1
    BY <1>1, <1>2, <1>4, <2>1, <2>2 DEF Shows
  <2>3. CASE i # 1
    <3>1. i - 1 \in 1 .. Len(later') /\ later'[i - 1] = later[i] /\ (i - 1) + 1 = i
      BY <1>1, <2>3
    <3>. QED
      BY <1>4, <2>1, <3>1 DEF Shows
  <2>. QED
    BY <2>2, <2>3
<1>. QED
  BY <1>3, <1>4 DEF Shows

\* A failed connect is shown, and dismissed, with nothing else going on.
LEMMA FailingStep ==
    ASSUME TypeOK, Failing, RunQueued \/ Dismiss, UNCHANGED <<hackQuad, threads>>
    PROVE  Failing' \/ (NoneFailed' /\ Shows("Connect")')
<1>1. Alive' = {} /\ hackQuad' = None
  BY DEF Failing, Alive, At
<1>2. CASE RunQueued
  <2>1. later = <<"failed">> /\ alerts = <<>>
    BY <1>2 DEF Failing, RunQueued
  <2>2. later' = <<>> /\ alerts' = <<"failed">>
    BY <1>2, <2>1 DEF RunQueued
  <2>. QED
    BY <1>1, <2>2 DEF Failing
<1>3. CASE Dismiss
  <2>1. later = <<>> /\ alerts = <<"failed">>
    BY <1>3 DEF Failing, Dismiss
  <2>2. Last(alerts) = "failed" /\ Front(alerts) = <<>>
    BY <2>1 DEF Last, Front
  <2>3. later' = <<>> /\ alerts' = <<>> /\ button' = "Connect" /\ enabled' = TRUE
    BY <1>3, <2>1, <2>2 DEF Dismiss, Enable
  <2>. QED
    BY <2>3 DEF NoneFailed, Shows
<1>. QED
  BY <1>2, <1>3

LEMMA NoneFailedStill ==
    ASSUME TypeOK, NoneFailed, RunQueued \/ Dismiss
    PROVE  NoneFailed'
<1>1. CASE RunQueued
  <2>1. later # <<>> /\ later' = Tail(later) /\ later \in Seq(Tasks)
    BY <1>1 DEF RunQueued, TypeOK, Tasks
  <2>2. \A i \in 1 .. Len(later') : later'[i] # "failed"
    BY <2>1, Dequeued DEF NoneFailed
  <2>3. later[1] # "failed" /\ Head(later) = later[1] /\ Head(later) \in Tasks
    BY <2>1, Dequeued, QueueTypes DEF NoneFailed
  <2>4. alerts' = alerts \/ (Head(later) = "lost" /\ alerts' = Append(alerts, "lost"))
    BY <1>1, <2>3 DEF RunQueued, Tasks
  <2>5. alerts \in Seq({"failed", "lost"}) /\ "lost" \in {"failed", "lost"}
    BY DEF TypeOK
  <2>6. \A i \in 1 .. Len(alerts') : alerts'[i] # "failed"
    BY <2>4, <2>5, Queued, LenProperties DEF NoneFailed
  <2>. QED
    BY <2>2, <2>6 DEF NoneFailed
<1>2. CASE Dismiss
  <2>1. alerts # <<>> /\ alerts' = Front(alerts) /\ alerts \in Seq({"failed", "lost"}) /\ later' = later
    BY <1>2 DEF Dismiss, TypeOK
  <2>. QED
    BY <2>1, Dequeued DEF NoneFailed
<1>. QED
  BY <1>1, <1>2

\* The alert of a timeout leaves the button alone.
LEMMA DismissShows ==
    ASSUME TypeOK, NoneFailed, NEW text, Shows(text), Dismiss
    PROVE  Shows(text)'
<1>1. alerts # <<>> /\ alerts \in Seq({"failed", "lost"})
  BY DEF Dismiss, TypeOK
<1>2. Last(alerts) # "failed"
  BY <1>1, Dequeued DEF NoneFailed, Last
<1>3. UNCHANGED <<later, button, enabled>>
  BY <1>2 DEF Dismiss
<1>. QED
  BY <1>3 DEF Shows

-----------------------------------------------------------------------------
(* As long as nothing has raced.                                           *)

\* The threads that do not run hold nothing.
LEMMA OthersIdle ==
    ASSUME TypeOK, Actors, NEW t \in Threads, ~At(t, "idle")
    PROVE  /\ Alive = {t} /\ Closing = {} /\ NoneFailed
           /\ \A u \in Threads \ {t} : threads[u].pc = "idle" /\ threads[u].session = None
<1>1. t \in Alive
  BY DEF Alive
<1>2. Alive = {t} /\ Closing = {} /\ NoneFailed
  BY <1>1 DEF Actors, OneActor, Shown, Failing
<1>. QED
  BY <1>2 DEF Alive, At, Undisturbed, Actors

LEMMA AllIdle ==
    ASSUME TypeOK, Actors, Alive = {}
    PROVE  \A t \in Threads : threads[t].pc = "idle" /\ threads[t].session = None
BY DEF Alive, At, Undisturbed, Actors

\* A thread that starts when nothing runs.
LEMMA StartActors ==
    ASSUME TypeOK, Actors, ~raced, Alive = {}, Closing' = {}, NoneFailed', UNCHANGED <<hackQuad, open>>,
           NEW pc \in {"open", "close"}, NEW busy \in BOOLEAN, Start(pc, busy),
           pc = "open" <=> hackQuad = None,
           pc = "open" => later' = <<>> /\ alerts' = <<>>
    PROVE  Actors'
<1>1. PICK t \in Threads :
          /\ threads'[t].pc = pc /\ threads'[t].session = threads[t].session
          /\ \A u \in Threads \ {t} : threads'[u] = threads[u]
  <2>1. pc \in Places
    BY DEF Places
  <2>. QED
    BY <2>1, StartCases
<1>2. \A u \in Threads : threads[u].pc = "idle" /\ threads[u].session = None
  BY AllIdle
<1>3. Alive' = {t}
  BY <1>1, <1>2 DEF Alive, At
<1>4. OneActor' /\ Undisturbed' /\ Handed'
  BY <1>1, <1>2, <1>3 DEF OneActor, Undisturbed, Handed, At
<1>5. Shown'
  BY <1>1, <1>2, <1>3 DEF Shown, Connects, At
<1>6. NoStraySession'
  BY <1>1, <1>2 DEF Actors, NoStraySession
<1>. QED
  BY <1>4, <1>5, <1>6 DEF Actors

LEMMA JavaFXActors ==
    ASSUME TypeOK, Actors, ~raced, ~raced', Click \/ RunQueued \/ Dismiss
    PROVE  Actors'
<1>1. CASE Click
  <2>1. PICK pc \in {"open", "close"} : Start(pc, Busy) /\ (pc = "open" <=> hackQuad = None)
    BY <1>1, ClickCases
  <2>2. /\ Busy \in BOOLEAN /\ alerts = <<>>
        /\ UNCHANGED <<hackQuad, open, watchdog, later, alerts>>
    BY <1>1, ClickCases
  <2>3. Alive = {} /\ ~Busy
    BY <2>1, <2>2, StartCases DEF Places
  <2>4. Closing' = {} /\ later = <<>>
    BY <2>2, <2>3 DEF Busy, Closing
  <2>5. NoneFailed'
    BY <2>2, <2>4 DEF NoneFailed
  <2>. QED
    BY <2>1, <2>2, <2>3, <2>4, <2>5, StartActors
<1>2. CASE RunQueued \/ Dismiss
  <2>1. UNCHANGED <<hackQuad, open, watchdog, listening, threads>>
    BY <1>2 DEF RunQueued, Dismiss, sessionVars
  <2>2. OneActor' /\ Undisturbed' /\ Handed' /\ NoStraySession'
    BY <2>1 DEF Actors, OneActor, Undisturbed, Handed, NoStraySession, Alive, Closing, At
  <2>3. Alive' = Alive
    BY <2>1 DEF Alive, At
  <2>4. CASE Failing
    <3>1. Alive = {} /\ hackQuad = None
      BY <2>4 DEF Failing
    <3>2. Failing' \/ (NoneFailed' /\ Shows("Connect")')
      BY <1>2, <2>1, <2>4, FailingStep
    <3>3. \A t \in Threads : threads[t].pc = "idle" /\ threads[t].session = None
      BY <3>1, AllIdle
    <3>. QED
      BY <2>1, <2>2, <2>3, <3>1, <3>2, <3>3 DEF Actors, Shown, Connects, At
  <2>5. CASE ~Failing
    <3>1. NoneFailed /\ NoneFailed'
      BY <1>2, <2>5, NoneFailedStill DEF Actors, Shown
    <3>2. \A t \in Threads : ~Connects(t)
      BY <1>2 DEF RunQueued, Dismiss, Actors, Shown
    <3>3. ASSUME NEW text, Shows(text) PROVE Shows(text)'
      BY <1>2, <3>1, <3>3, ShowsStill, DismissShows
    <3>4. Shown'
      BY <2>1, <2>3, <2>5, <3>1, <3>2, <3>3 DEF Actors, Shown, Connects, At
    <3>. QED
      BY <2>2, <3>4 DEF Actors
  <2>. QED
    BY <2>4, <2>5
<1>. QED
  BY <1>1, <1>2

LEMMA WatchdogActors ==
    ASSUME TypeOK, Watchdogs, Actors, ~raced, ~raced',
           NEW s \in Sessions, WatchdogFires(s) \/ Watchdog(s)
    PROVE  Actors'
<1>1. CASE WatchdogFires(s)
  <2>1. Alive = {} /\ Closing = {} /\ watchdog[s] = "armed"
    BY <1>1 DEF WatchdogFires, TypeOK
  <2>2. \A t \in Threads : threads[t].pc = "idle" /\ threads[t].session = None
    BY <2>1, AllIdle
  <2>3. s = hackQuad
    BY <2>1, <2>2 DEF Watchdogs, Actors, NoStraySession
  <2>4. Closing' = {s} /\ Alive' = {}
    BY <1>1, <2>1 DEF WatchdogFires, Closing, Alive, At, TypeOK
  <2>5. UNCHANGED <<hackQuad, open, listening, threads, later, button, enabled, alerts>>
    BY <1>1 DEF WatchdogFires, uiVars
  <2>6. OneActor' /\ Undisturbed' /\ Handed' /\ NoStraySession'
    BY <2>1, <2>3, <2>4, <2>5 DEF Actors, OneActor, Undisturbed, Handed, NoStraySession, At
  <2>7. Shown'
    BY <2>1, <2>4, <2>5 DEF Actors, Shown, Shows, Failing, NoneFailed, Connects, At
  <2>. QED
    BY <2>6, <2>7 DEF Actors
<1>2. CASE WatchdogCloses(s)
  <2>1. /\ open' \subseteq open /\ Closing' = Closing /\ Alive' = Alive
        /\ UNCHANGED <<hackQuad, listening, threads, later, button, enabled, alerts>>
    BY <1>2 DEF WatchdogCloses, Closing, Alive, At, TypeOK, uiVars
  <2>2. Alive = {}
    BY <1>2 DEF WatchdogCloses, Closing, Actors, OneActor
  <2>3. \A t \in Threads : threads[t].session = None
    BY <2>2, AllIdle
  <2>4. OneActor' /\ Undisturbed' /\ Handed' /\ NoStraySession'
    BY <2>1, <2>3 DEF Actors, OneActor, Undisturbed, Handed, NoStraySession, At
  <2>5. Shown'
    BY <2>1 DEF Actors, Shown, Shows, Failing, NoneFailed, Connects, At
  <2>. QED
    BY <2>4, <2>5 DEF Actors
<1>3. CASE WatchdogCalls(s)
  <2>1. s \in Closing
    BY <1>3 DEF WatchdogCalls, Closing
  <2>2. Alive = {} /\ Closing = {s} /\ s = hackQuad /\ hackQuad # None
    BY <2>1 DEF Actors, OneActor
  <2>3. s \in listening /\ NoneFailed
    BY <2>2 DEF Actors, OneActor, Shown, Failing
  <2>4. Closing' = {}
    BY <1>3, <2>2 DEF WatchdogCalls, Closing, TypeOK
  <2>. DEFINE busy == Closing # {s}
  <2>5. /\ Start("close", busy) /\ busy \in BOOLEAN /\ later' = Append(later, "lost")
        /\ UNCHANGED <<hackQuad, open, alerts>>
    BY <1>3, <2>3 DEF WatchdogCalls, RunLater
  <2>6. NoneFailed'
    <3>1. later \in Seq(Tasks) /\ "lost" \in Tasks
      BY DEF TypeOK, Tasks
    <3>2. /\ Len(later) \in Nat /\ Len(later') = Len(later) + 1 /\ later'[Len(later) + 1] = "lost"
          /\ \A i \in 1 .. Len(later) : later'[i] = later[i]
      BY <2>5, <3>1, Queued, LenProperties
    <3>. QED
      BY <2>3, <2>5, <3>2 DEF NoneFailed
  <2>. HIDE DEF busy
  <2>. QED
    BY <2>2, <2>4, <2>5, <2>6, StartActors
<1>. QED
  BY <1>1, <1>2, <1>3 DEF Watchdog

\* The steps of a thread, when no other thread or watchdog runs.
LEMMA ThreadAlone ==
    ASSUME TypeOK, Actors, NEW t \in Threads, ThreadStep(t)
    PROVE  /\ Alive = {t} /\ Closing = {} /\ Closing' = {} /\ NoneFailed
           /\ \A u \in Threads \ {t} : threads[u].pc = "idle" /\ threads[u].session = None
           /\ \A u \in Threads \ {t} : threads'[u] = threads[u]
           /\ Alive' = IF At(t, "idle")' THEN {} ELSE {t}
<1>1. /\ Alive = {t} /\ Closing = {} /\ NoneFailed
      /\ \A u \in Threads \ {t} : threads[u].pc = "idle" /\ threads[u].session = None
  BY OthersIdle DEF ThreadStep, SetHackQuad, Replace, CloseOld, CloseCurrent, Close, Install,
                    Construct, OpenSocket, Resolve, Arm, OpenFails, Listen, Restore, At
<1>2. \A u \in Threads \ {t} : threads'[u] = threads[u]
  BY DEF ThreadStep, SetHackQuad, Replace, CloseOld, CloseCurrent, Close, Install, Construct,
         OpenSocket, Resolve, Arm, OpenFails, Listen, Restore, Goto, End, TypeOK
<1>3. Alive' = IF At(t, "idle")' THEN {} ELSE {t}
  BY <1>1, <1>2 DEF Alive, At
<1>4. Closing' = {}
  BY <1>1 DEF ThreadStep, SetHackQuad, Replace, CloseOld, CloseCurrent, Closed, Close, Install,
              Construct, OpenSocket, Resolve, Arm, OpenFails, Listen, Restore, Closing, TypeOK,
              sessionVars
<1>. QED
  BY <1>1, <1>2, <1>3, <1>4

LEMMA ThreadActors ==
    ASSUME TypeOK, Watchdogs, Made, Actors, ~raced, NEW t \in Threads, ThreadStep(t)
    PROVE  Actors'
<1>1. /\ Alive = {t} /\ Closing = {} /\ Closing' = {} /\ NoneFailed
      /\ \A u \in Threads \ {t} : threads[u].pc = "idle" /\ threads[u].session = None
      /\ \A u \in Threads \ {t} : threads'[u] = threads[u]
      /\ Alive' = IF At(t, "idle")' THEN {} ELSE {t}
  BY ThreadAlone
<1>. DEFINE Held == threads[t].session
<1>2. open \subseteq Sessions /\ hackQuad \in Sessions \cup {None} /\ Held \in Sessions \cup {None}
  BY DEF TypeOK
<1>3. \A s \in open : s = hackQuad \/ s = Held
  BY <1>1, <1>2 DEF Actors, NoStraySession
<1>4. \A u \in Threads \ {t} : threads'[u].pc = "idle" /\ threads'[u].session = None
  BY <1>1
\* What is left to show of thread t and of what it leaves behind.
<1>5. ASSUME hackQuad' # None /\ threads'[t].pc = "idle" => hackQuad' \in listening',
             threads'[t].pc \in {"open", "resolve", "arm"} => hackQuad' = None,
             threads'[t].pc \in {"close", "restore", "closeOld"} => hackQuad' # None,
             threads'[t].pc = "install" => hackQuad' \notin open',
             threads'[t].pc = "listen" => threads'[t].session = hackQuad' /\ hackQuad' # None,
             threads'[t].session # None =>
                 threads'[t].pc \in {"resolve", "arm", "replace", "closeOld", "install", "listen"},
             (threads'[t].session # None /\ threads'[t].pc \in {"arm", "replace", "closeOld", "install"})
                 => hackQuad' = None /\ threads'[t].session \in open',
             \A s \in open' : s = hackQuad' \/ threads'[t].session = s,
             Failing' \/ NoneFailed',
             threads'[t].pc = "idle" =>
                 Failing' \/ Shows(IF hackQuad = None THEN "Connect" ELSE "Disconnect")',
             Connects(t)' => later' = <<>> /\ alerts' = <<>>,
             threads'[t].pc \in {"replace", "closeOld", "install"} /\ threads'[t].session = None
                 => Shows("Connect")'
      PROVE  Actors'
  <2>1. OneActor' /\ Undisturbed' /\ Handed'
    BY <1>1, <1>4, <1>5 DEF OneActor, Undisturbed, Handed, At
  <2>2. Shown'
    BY <1>1, <1>4, <1>5 DEF Shown, Connects, At
  <2>3. NoStraySession'
    BY <1>5 DEF NoStraySession
  <2>. QED
    BY <2>1, <2>2, <2>3 DEF Actors
\* What the user sees stays as it is.
<1>6. ASSUME UNCHANGED <<later, button, enabled, alerts>>
      PROVE  NoneFailed' /\ \A text \in {"Connect", "Disconnect"} : Shows(text) => Shows(text)'
  BY <1>1, <1>6 DEF NoneFailed, Shows
<1>7. CASE Replace(t)
  <2>1. /\ At(t, "replace")
        /\ threads' = [threads EXCEPT ![t].pc = IF hackQuad = None THEN "install" ELSE "closeOld"]
        /\ UNCHANGED <<hackQuad, open, listening, later, button, enabled, alerts>>
    BY <1>7 DEF Replace, Goto, sessionVars, uiVars
  <2>2. /\ threads'[t].pc = IF hackQuad = None THEN "install" ELSE "closeOld"
        /\ threads'[t].session = Held
    BY <2>1 DEF TypeOK
  <2>. QED
    BY <1>2, <1>3, <1>5, <1>6, <2>1, <2>2
       DEF Actors, Undisturbed, Handed, Shown, Connects, At
<1>8. CASE CloseOld(t)
  <2>1. At(t, "closeOld") /\ hackQuad # None
    BY <1>8 DEF CloseOld, CloseCurrent, Actors, Undisturbed, At
  <2>2. /\ open' = open \ {hackQuad}
        /\ threads' = [threads EXCEPT ![t].pc = "install"]
        /\ UNCHANGED <<hackQuad, listening, later, button, enabled, alerts>>
    BY <1>8, <2>1 DEF CloseOld, CloseCurrent, Closed, Goto, uiVars
  <2>3. threads'[t].pc = "install" /\ threads'[t].session = Held
    BY <2>2 DEF TypeOK
  <2>. QED
    BY <1>2, <1>3, <1>5, <1>6, <2>1, <2>2, <2>3
       DEF Actors, Undisturbed, Handed, Shown, Connects, At
<1>9. CASE Install(t)
  <2>1. /\ hackQuad' = Held /\ At(t, "install")
        /\ UNCHANGED <<open, listening, later, button, enabled, alerts>>
        /\ IF Held = None THEN threads' = [threads EXCEPT ![t] = Idle]
                          ELSE threads' = [threads EXCEPT ![t].pc = "listen"]
    BY <1>9 DEF Install, Goto, End, uiVars
  <2>2. /\ threads'[t].pc = IF Held = None THEN "idle" ELSE "listen"
        /\ threads'[t].session = Held
    BY <2>1 DEF TypeOK, Idle
  <2>3. hackQuad \notin open
    BY <2>1 DEF Actors, Undisturbed
  <2>4. Held = None => Shows("Connect")
    BY <2>1 DEF Actors, Shown, At
  <2>5. Held = None => Shows(IF hackQuad = None THEN "Connect" ELSE "Disconnect")'
    BY <1>6, <2>1, <2>4 DEF Shows
  <2>6. Held # None => later = <<>> /\ alerts = <<>>
    BY DEF Actors, Shown, Connects
  <2>. QED
    BY <1>2, <1>3, <1>5, <1>6, <2>1, <2>2, <2>3, <2>5, <2>6 DEF Connects, At
<1>10. CASE OpenSocket(t)
  <2>1. PICK s \in Sessions : threads' = [threads EXCEPT ![t] = [pc |-> "resolve", session |-> s]]
    BY <1>10 DEF OpenSocket
  <2>2. At(t, "open") /\ UNCHANGED <<hackQuad, open, listening, later, button, enabled, alerts>>
    BY <1>10 DEF OpenSocket, uiVars
  <2>3. threads'[t].pc = "resolve"
    BY <2>1 DEF TypeOK
  <2>4. hackQuad = None /\ Held = None /\ later = <<>> /\ alerts = <<>>
    BY <2>2 DEF Actors, Undisturbed, Shown, Connects, At
  <2>. QED
    BY <1>2, <1>3, <1>5, <1>6, <2>2, <2>3, <2>4 DEF Connects, At
<1>11. CASE Resolve(t)
  <2>1. /\ At(t, "resolve") /\ threads' = [threads EXCEPT ![t].pc = "arm"]
        /\ open' = open \cup {Held}
        /\ UNCHANGED <<hackQuad, listening, later, button, enabled, alerts>>
    BY <1>11 DEF Resolve, Goto, uiVars
  <2>2. threads'[t].pc = "arm" /\ threads'[t].session = Held
    BY <2>1 DEF TypeOK
  <2>3. hackQuad = None /\ Held # None /\ later = <<>> /\ alerts = <<>>
    BY <2>1 DEF Made, TypeOK, Actors, Undisturbed, Shown, Connects, At
  <2>. QED
    BY <1>2, <1>3, <1>5, <1>6, <2>1, <2>2, <2>3 DEF Connects, At
<1>12. CASE Arm(t)
  <2>1. /\ At(t, "arm") /\ threads' = [threads EXCEPT ![t].pc = "replace"]
        /\ UNCHANGED <<hackQuad, open, listening, later, button, enabled, alerts>>
    BY <1>12 DEF Arm, Goto, uiVars
  <2>2. threads'[t].pc = "replace" /\ threads'[t].session = Held
    BY <2>1 DEF TypeOK
  <2>3. hackQuad = None /\ Held \in open /\ later = <<>> /\ alerts = <<>>
    BY <1>2, <2>1 DEF Made, Actors, Undisturbed, Shown, Connects, At
  <2>. QED
    BY <1>2, <1>3, <1>5, <1>6, <2>1, <2>2, <2>3 DEF Connects, At
<1>13. CASE OpenFails(t)
  <2>1. At(t, "open") \/ At(t, "resolve")
    BY <1>13 DEF OpenFails
  <2>2. hackQuad = None /\ later = <<>> /\ alerts = <<>>
    BY <2>1 DEF Made, TypeOK, Actors, Undisturbed, Shown, Connects, At
  <2>3. Held \notin open
    <3>1. CASE At(t, "open")
      BY <1>2, <3>1 DEF Actors, Undisturbed, At
    <3>2. CASE At(t, "resolve")
      <4>1. Held \in silent /\ watchdog[Held] = "new"
        BY <3>2 DEF Made
      <4>. QED
        BY <4>1 DEF TypeOK
    <3>. QED
      BY <2>1, <3>1, <3>2
  <2>4. /\ later' = <<"failed">> /\ alerts' = <<>> /\ UNCHANGED <<hackQuad, open, listening>>
        /\ threads' = [threads EXCEPT ![t] = Idle]
    BY <1>13, <2>2 DEF OpenFails, RunLater, End, sessionVars
  <2>5. threads'[t].pc = "idle" /\ threads'[t].session = None
    BY <2>4 DEF Idle, TypeOK
  <2>6. Failing'
    BY <1>1, <2>2, <2>4, <2>5 DEF Failing, At
  <2>. QED
    BY <1>2, <1>3, <1>5, <2>2, <2>3, <2>4, <2>5, <2>6 DEF Connects, At
<1>14. CASE Listen(t)
  <2>1. At(t, "listen") /\ hackQuad # None /\ Held = hackQuad
    BY <1>14 DEF Listen, Actors, Undisturbed, At
  <2>2. /\ threads' = [threads EXCEPT ![t] = Idle] /\ listening' = listening \cup {hackQuad}
        /\ RunLater("connected") /\ UNCHANGED <<hackQuad, open, alerts>>
    BY <1>14, <2>1 DEF Listen, End
  <2>3. threads'[t].pc = "idle" /\ threads'[t].session = None
    BY <2>2 DEF Idle, TypeOK
  <2>4. Shows("Disconnect")' /\ NoneFailed'
    BY <1>1, <2>2, ShowsLast DEF TypeOK, Tasks, Text
  <2>5. Shows(IF hackQuad = None THEN "Connect" ELSE "Disconnect")'
    BY <2>1, <2>2, <2>4
  <2>. QED
    BY <1>2, <1>3, <1>5, <2>1, <2>2, <2>3, <2>4, <2>5 DEF Connects, At
<1>15. CASE Close(t)
  <2>1. At(t, "close") /\ hackQuad # None /\ Held = None
    BY <1>15 DEF Close, CloseCurrent, Actors, Undisturbed, At
  <2>2. /\ open' = open \ {hackQuad}
        /\ threads' = [threads EXCEPT ![t].pc = "restore"]
        /\ UNCHANGED <<hackQuad, listening, later, button, enabled, alerts>>
    BY <1>15, <2>1 DEF Close, CloseCurrent, Closed, Goto, uiVars
  <2>3. threads'[t].pc = "restore" /\ threads'[t].session = Held
    BY <2>2 DEF TypeOK
  <2>. QED
    BY <1>2, <1>3, <1>5, <1>6, <2>1, <2>2, <2>3 DEF Connects, At
<1>16. CASE Restore(t)
  <2>1. At(t, "restore") /\ hackQuad # None /\ Held = None
    BY <1>16 DEF Restore, Actors, Undisturbed, At
  <2>2. /\ threads' = [threads EXCEPT ![t].pc = "replace"] /\ RunLater("restore")
        /\ UNCHANGED <<hackQuad, open, listening, alerts>>
    BY <1>16 DEF Restore, Goto, sessionVars
  <2>3. threads'[t].pc = "replace" /\ threads'[t].session = Held
    BY <2>2 DEF TypeOK
  <2>4. Shows("Connect")' /\ NoneFailed'
    BY <1>1, <2>2, ShowsLast DEF TypeOK, Tasks, Text
  <2>. QED
    BY <1>2, <1>3, <1>5, <2>1, <2>2, <2>3, <2>4 DEF Connects, At
<1>. QED
  BY <1>7, <1>8, <1>9, <1>10, <1>11, <1>12, <1>13, <1>14, <1>15, <1>16
     DEF ThreadStep, SetHackQuad, Construct

\* A race is never forgotten.
LEMMA RacedStays == TypeOK /\ raced /\ [Next]_vars => raced'
BY StartCases DEF Next, Click, Connecting, Disconnecting, RunQueued, Dismiss, WatchdogFires, Watchdog,
   WatchdogCloses, WatchdogCalls, ThreadStep, SetHackQuad, Replace, CloseOld, CloseCurrent, Construct,
   Close, Install, OpenSocket, Resolve, Arm, OpenFails, Listen, Restore, vars, Places, Start, TypeOK

LEMMA StepIInv == IInv /\ [Next]_vars => IInv'
<1>. SUFFICES ASSUME IInv, [Next]_vars PROVE IInv'
  OBVIOUS
<1>1. TypeOK' /\ Watchdogs' /\ Made'
  BY StepTypes DEF IInv
<1>2. ASSUME ~raced' PROVE Actors'
  <2>1. ~raced /\ TypeOK /\ Watchdogs /\ Made /\ Actors
    BY <1>2, RacedStays DEF IInv
  <2>2. CASE UNCHANGED vars
    BY <2>1, <2>2 DEF vars, sessionVars, uiVars, Actors, OneActor, Undisturbed, Shown, Shows, Failing,
       NoneFailed, Connects, Handed, NoStraySession, Alive, Closing, At
  <2>. QED
    BY <1>2, <2>1, <2>2, JavaFXActors, WatchdogActors, ThreadActors DEF Next
<1>. QED
  BY <1>1, <1>2 DEF IInv

LEMMA Inductive == Spec => []IInv
BY InitIInv, StepIInv, PTL DEF Spec

\* A session that sends has a watchdog that can close it, or a thread is about to schedule one,
\* even when the socket is opened and the host is unknown, and everything has its type
\* (HackQuadImpl's constructor, close and connectionWatchdog).
THEOREM SessionTypeCorrect == Spec => []TypeOK
<1>1. IInv => TypeOK
  BY DEF IInv
<1>. QED
  BY <1>1, Inductive, PTL

\* A session that falls silent is reported once (HackQuadImpl.connectionWatchdog).
THEOREM TimeoutOnceAlways == Spec => []TimeoutOnce
<1>1. IInv => TimeoutOnce
  BY DEF IInv, Watchdogs, TimeoutOnce
<1>. QED
  BY <1>1, Inductive, PTL

\* As long as no two threads or watchdogs have run at once, every session that sends is the
\* current one or in the hands of the thread that is installing it (Controller.setHackQuad).
THEOREM NoStraySessionAlways == Spec => []NoStraySession
<1>1. IInv => NoStraySession
  BY DEF IInv, Actors, NoStraySession
<1>. QED
  BY <1>1, Inductive, PTL

\* On the same condition the button offers what a click will do (UIMain.onConnectButton).
THEOREM ButtonAgreesAlways == Spec => []ButtonAgrees
<1>1. IInv => ButtonAgrees
  <2>. SUFFICES ASSUME IInv, ~raced, Alive = {}, later = <<>>, alerts = <<>>
                PROVE  enabled /\ button = (IF hackQuad = None THEN "Connect" ELSE "Disconnect")
    BY DEF ButtonAgrees
  <2>1. Len(later) = 0 /\ ~Failing
    BY EmptySeq DEF Failing
  <2>2. Shows(IF hackQuad = None THEN "Connect" ELSE "Disconnect")
    BY <2>1 DEF IInv, Actors, Shown
  <2>. QED
    BY <2>1, <2>2 DEF Shows
<1>. QED
  BY <1>1, Inductive, PTL

-----------------------------------------------------------------------------
(* Sessions take turns, as in Connection.                                  *)

\* Whatever a close finds, it is the current session.
LEMMA CloseFinds ==
    ASSUME IInv, ~raced, NEW t \in Threads, CloseOld(t) \/ Close(t)
    PROVE  /\ hackQuad \in Sessions /\ open' = open \ {hackQuad} /\ Opened' = Opened
           /\ UNCHANGED <<hackQuad, listening, told>>
<1>1. hackQuad # None
  BY DEF CloseOld, Close, CloseCurrent, IInv, Actors, Undisturbed, At
<1>2. Closed(hackQuad) /\ UNCHANGED <<hackQuad, listening, told>>
  BY <1>1 DEF CloseOld, Close, CloseCurrent
<1>3. hackQuad \in Sessions /\ open' = open \ {hackQuad} /\ Opened' = Opened
  BY <1>1, <1>2 DEF Closed, Opened, IInv, TypeOK
<1>. QED
  BY <1>2, <1>3

\* As long as nothing has raced, at most one session is open, whatever was clicked, failed to
\* open or fell silent (Controller.setHackQuad, UIMain.onConnectButton).
THEOREM OneSessionAlways == Spec => []OneSession
<1>1. IInv => OneSession
  <2>. SUFFICES ASSUME IInv, Actors, ~raced, NEW s \in open, NEW t \in open PROVE s = t
    BY DEF IInv, OneSession
  <2>1. s # None /\ t # None
    BY DEF IInv, TypeOK
  <2>2. ASSUME NEW x \in open, x # hackQuad
        PROVE  hackQuad = None /\ \E u \in Alive : threads[u].session = x
    <3>1. PICK u \in Threads : threads[u].session = x
      BY <2>2 DEF Actors, NoStraySession
    <3>2. x # None /\ x \notin silent
      <4>1. x \in Sessions /\ watchdog[x] \in {"armed", "close", "unset"}
        BY DEF IInv, TypeOK
      <4>2. \A y \in silent : watchdog[y] = "new"
        BY DEF IInv, Made
      <4>. QED
        BY <4>1, <4>2
    <3>3. threads[u].pc \in {"arm", "replace", "closeOld", "install"}
      BY <2>2, <3>1, <3>2 DEF Actors, Undisturbed, IInv, Made, At
    <3>. QED
      BY <3>1, <3>2, <3>3 DEF Actors, Handed, Alive, At
  <2>. QED
    BY <2>1, <2>2 DEF Actors, OneActor
<1>. QED
  BY <1>1, Inductive, PTL

LEMMA StepTurns ==
    ASSUME IInv, ~raced, [Next]_vars
    PROVE  Turns!Next \/ UNCHANGED Turns!vars
<1>. USE DEF Turns!vars
<1>1. CASE UNCHANGED vars \/ Click \/ RunQueued \/ Dismiss
  BY <1>1 DEF vars, Click, RunQueued, Dismiss, sessionVars, Opened
<1>2. ASSUME NEW s \in Sessions, WatchdogFires(s) PROVE UNCHANGED Turns!vars
  BY <1>2 DEF WatchdogFires, Opened, IInv, TypeOK
<1>3. ASSUME NEW s \in Sessions, WatchdogCloses(s) PROVE Turns!Next \/ UNCHANGED Turns!vars
  <2>1. open' = open \ {s} /\ Opened' = Opened /\ UNCHANGED <<hackQuad, told>>
    BY <1>3 DEF WatchdogCloses, Opened, IInv, TypeOK
  <2>2. CASE s \in open
    BY <2>1, <2>2 DEF Turns!Close, Turns!Next
  <2>3. CASE s \notin open
    BY <2>1, <2>3
  <2>. QED
    BY <2>2, <2>3
<1>4. ASSUME NEW s \in Sessions, WatchdogCalls(s) PROVE Turns!Next
  <2>1. /\ watchdog[s] = "call" /\ told' = [told EXCEPT ![s] = @ + 1]
        /\ Opened' = Opened /\ UNCHANGED <<hackQuad, open>>
    BY <1>4 DEF WatchdogCalls, Opened, IInv, TypeOK
  <2>2. s = hackQuad /\ s \notin open /\ told[s] = 0
    BY <2>1 DEF Closing, IInv, Actors, OneActor, TypeOK, Watchdogs
  <2>3. Turns!Report(s)
    BY <2>1, <2>2 DEF Turns!Report
  <2>. QED
    BY <2>3 DEF Turns!Next
<1>5. ASSUME NEW t \in Threads, ThreadStep(t) PROVE Turns!Next \/ UNCHANGED Turns!vars
  <2>1. CASE Replace(t) \/ OpenFails(t) \/ OpenSocket(t) \/ Listen(t) \/ Restore(t)
    BY <2>1 DEF Replace, OpenFails, OpenSocket, Listen, Restore, sessionVars, Opened
  <2>2. CASE CloseOld(t) \/ Close(t)
    <3>1. /\ hackQuad \in Sessions /\ open' = open \ {hackQuad} /\ Opened' = Opened
          /\ UNCHANGED <<hackQuad, told>>
      BY <2>2, CloseFinds
    <3>2. CASE hackQuad \in open
      BY <3>1, <3>2 DEF Turns!Close, Turns!Next
    <3>3. CASE hackQuad \notin open
      BY <3>1, <3>3
    <3>. QED
      BY <3>2, <3>3
  <2>3. CASE Install(t)
    <3>1. hackQuad' = threads[t].session /\ Opened' = Opened /\ UNCHANGED <<open, told>>
      BY <2>3 DEF Install, Opened
    <3>2. CASE threads[t].session = None
      <4>1. hackQuad \notin open
        BY <2>3 DEF Install, IInv, Actors, Undisturbed
      <4>2. Turns!Drop
        BY <3>1, <3>2, <4>1 DEF Turns!Drop
      <4>. QED
        BY <4>2 DEF Turns!Next
    <3>3. CASE threads[t].session # None
      <4>1. hackQuad = None /\ threads[t].session \in open
        BY <2>3, <3>3 DEF Install, At, IInv, Actors, Handed
      <4>2. Turns!Adopt(threads[t].session) /\ threads[t].session \in Sessions
        BY <3>1, <4>1 DEF Turns!Adopt, IInv, TypeOK
      <4>. QED
        BY <4>2 DEF Turns!Next
    <3>. QED
      BY <3>2, <3>3
  <2>4. CASE Resolve(t)
    <3>. DEFINE s == threads[t].session
    <3>1. s \in silent /\ s \in Sessions /\ watchdog[s] = "new" /\ hackQuad = None
      BY <2>4 DEF Resolve, IInv, TypeOK, Made, Actors, Undisturbed, At
    <3>2. /\ open' = open \cup {s} /\ watchdog' = [watchdog EXCEPT ![s] = "unset"]
          /\ UNCHANGED <<hackQuad, told>>
      BY <2>4 DEF Resolve
    <3>3. open = {}
      <4>1. s \notin open /\ \A x \in open : x # None
        BY <3>1 DEF IInv, TypeOK
      <4>2. \A u \in Threads \ {t} : threads[u].session = None
        BY <1>5, ThreadAlone DEF IInv
      <4>. QED
        BY <3>1, <4>1, <4>2 DEF IInv, Actors, NoStraySession
    <3>4. s \notin Opened /\ Opened' = Opened \cup {s}
      BY <3>1, <3>2 DEF Opened, IInv, TypeOK
    <3>5. Turns!Open(s)
      BY <3>2, <3>3, <3>4 DEF Turns!Open
    <3>. QED
      BY <3>1, <3>5 DEF Turns!Next
  <2>5. CASE Arm(t)
    <3>1. Opened' = Opened
      BY <2>5 DEF Arm, Opened, IInv, TypeOK, Made
    <3>. QED
      BY <2>5, <3>1 DEF Arm
  <2>. QED
    BY <1>5, <2>1, <2>2, <2>3, <2>4, <2>5 DEF ThreadStep, SetHackQuad, Construct
<1>. QED
  BY <1>1, <1>2, <1>3, <1>4, <1>5 DEF Next, Watchdog

\* Every behaviour of the threads, watchdogs and the JavaFX queue is one of Connection, up to the
\* first time that two of them run at once.
THEOREM SessionsTakeTurnsAlways == Spec => SessionsTakeTurns
<1>1. Init => Turns!Init
  BY DEF Init, Turns!Init, Opened
<1>2. IInv /\ IInv' /\ [Next]_vars => [raced' \/ Turns!Next \/ UNCHANGED Turns!vars]_vars
  BY StepTurns, RacedStays DEF IInv
<1>. QED
  BY <1>1, <1>2, Inductive, PTL DEF Spec, SessionsTakeTurns
=============================================================================
