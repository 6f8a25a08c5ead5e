------------------------- MODULE ControllerSession --------------------------
(***************************************************************************)
(* Who opens, uses and closes the controller's session: Controller.java,   *)
(* HackQuadImpl.java and the connect button of UIMain.java.  The JavaFX    *)
(* thread runs clicks and what was given to runLater; each click, and each *)
(* timeout, starts a thread that connects or disconnects; every session    *)
(* has a watchdog that closes it when no status has come for two seconds.  *)
(* None of them takes a lock; each reads Controller.hackQuad again at      *)
(* every use.  An alert blocks the task that shows it until the user       *)
(* dismisses it, while a nested event loop runs the tasks behind it.       *)
(***************************************************************************)
EXTENDS Naturals, SequencesExt

CONSTANTS
    Sessions,   \* bound on the sessions ever opened
    Threads,    \* bound on connect and disconnect threads alive at once
    None        \* null

ASSUME SessionAssumption == None \notin Sessions

VARIABLES
    hackQuad,   \* Controller.hackQuad
    silent,     \* sessions whose socket is open and whose send thread has not started
    open,       \* sessions whose socket is open and whose send thread runs
    watchdog,   \* session -> what its scheduler does
    listening,  \* sessions whose events reach UIMain
    told,       \* session -> ConnectionTimeoutEvents it has called (history)
    threads,    \* thread -> where it is, and the session it is to install
    later,      \* what runLater has queued for the JavaFX thread
    button,     \* the text of the connect button
    enabled,    \* ... and whether it takes a click
    alerts,     \* alerts the user has not dismissed, the innermost last
    raced       \* two of the threads and watchdogs have run at once, or one that the
                \* user started before the effects of the last were shown (history)

sessionVars == <<hackQuad, silent, open, watchdog, listening, told>>
uiVars == <<later, button, enabled, alerts>>
vars == <<sessionVars, threads, uiVars, raced>>

Idle == [pc |-> "idle", session |-> None]
At(t, pc) == threads[t].pc = pc
Alive == {t \in Threads : ~At(t, "idle")}
Closing == {s \in Sessions : watchdog[s] \in {"close", "call"}}
Opened == {s \in Sessions : watchdog[s] # "new"}

Init ==
    /\ hackQuad = None /\ silent = {} /\ open = {} /\ listening = {}
    /\ watchdog = [s \in Sessions |-> "new"] /\ told = [s \in Sessions |-> 0]
    /\ threads = [t \in Threads |-> Idle]
    /\ later = <<>> /\ button = "Connect" /\ enabled = TRUE /\ alerts = <<>>
    /\ raced = FALSE

Goto(t, pc) == threads' = [threads EXCEPT ![t].pc = pc]
End(t) == threads' = [threads EXCEPT ![t] = Idle]
RunLater(task) == later' = Append(later, task)

\* A new thread, while something else may be going on.
Start(pc, busy) ==
    \E t \in Threads \ Alive :
        /\ Goto(t, pc)
        /\ raced' = (raced \/ Alive # {} \/ busy)

-----------------------------------------------------------------------------
(* HackQuadImpl.                                                           *)

BugClosed(s) ==     \* the socket stays open
    /\ watchdog' = [watchdog EXCEPT ![s] = IF @ = "armed" THEN "off" ELSE @]
    /\ UNCHANGED open

\* close: a watchdog that is in its run goes on, but does not run again.
Closed(s) ==
    /\ open' = open \ {s}
    /\ watchdog' = [watchdog EXCEPT ![s] = IF @ = "armed" THEN "off" ELSE @]

\* connectionWatchdog finds that the last status is too old ...
WatchdogFires(s) ==
    /\ watchdog[s] = "armed"
    /\ watchdog' = [watchdog EXCEPT ![s] = "close"]
    /\ raced' = (raced \/ Alive # {} \/ Closing # {})
    /\ UNCHANGED <<hackQuad, silent, open, listening, told, threads, uiVars>>

\* ... closes the session ...
WatchdogCloses(s) ==
    /\ watchdog[s] = "close"
    /\ open' = open \ {s}
    /\ watchdog' = [watchdog EXCEPT ![s] = "call"]
    /\ UNCHANGED <<hackQuad, silent, listening, told, threads, uiVars, raced>>

BugWatchdogCalls(s) ==  \* without scheduler.shutdown it runs again two seconds later
    /\ watchdog[s] = "call"
    /\ watchdog' = [watchdog EXCEPT ![s] = "armed"]
    /\ told' = [told EXCEPT ![s] = @ + 1]
    /\ IF s \in listening
       THEN Start("close", Closing # {s}) /\ enabled' = FALSE /\ RunLater("lost")
       ELSE UNCHANGED <<threads, later, enabled, raced>>
    /\ UNCHANGED <<hackQuad, silent, open, listening, button, alerts>>

\* ... and calls the event: UIMain.onConnectionTimeout, if registered, disconnects and
\* has an alert shown.
\* It does not run again, its scheduler being shut down.
WatchdogCalls(s) ==
    /\ watchdog[s] = "call"
    /\ watchdog' = [watchdog EXCEPT ![s] = "off"]
    /\ told' = [told EXCEPT ![s] = @ + 1]
    /\ IF s \in listening
       THEN Start("close", Closing # {s}) /\ enabled' = FALSE /\ RunLater("lost")
       ELSE UNCHANGED <<threads, later, enabled, raced>>
    /\ UNCHANGED <<hackQuad, silent, open, listening, button, alerts>>

Watchdog(s) == WatchdogCloses(s) \/ WatchdogCalls(s)

-----------------------------------------------------------------------------
(* Controller.setHackQuad, called by both kinds of thread.                 *)

Replace(t) ==
    /\ At(t, "replace")
    /\ Goto(t, IF hackQuad = None THEN "install" ELSE "closeOld")
    /\ UNCHANGED <<sessionVars, uiVars, raced>>

BugCloseCurrent(t, at, next) ==    \* nothing is closed
    /\ At(t, at)
    /\ Goto(t, next)
    /\ UNCHANGED <<sessionVars, uiVars, raced>>

\* getHackQuad().close(): with a null the thread dies of an exception.
CloseCurrent(t, at, next) ==
    /\ At(t, at)
    /\ IF hackQuad = None
       THEN End(t) /\ UNCHANGED <<open, watchdog>>
       ELSE Goto(t, next) /\ Closed(hackQuad)
    /\ UNCHANGED <<hackQuad, silent, listening, told, uiVars, raced>>

CloseOld(t) == CloseCurrent(t, "closeOld", "install")

Install(t) ==
    /\ At(t, "install")
    /\ hackQuad' = threads[t].session
    /\ IF threads[t].session = None THEN End(t) ELSE Goto(t, "listen")
    /\ UNCHANGED <<silent, open, watchdog, listening, told, uiVars, raced>>

SetHackQuad(t) == Replace(t) \/ CloseOld(t) \/ Install(t)

-----------------------------------------------------------------------------
(* UIMain: the connect thread runs the constructor of HackQuadImpl ...      *)

\* The socket comes first, and may be refused.
OpenSocket(t) ==
    /\ At(t, "open")
    /\ \E s \in Sessions \ (Opened \cup silent) :
           /\ silent' = silent \cup {s}
           /\ threads' = [threads EXCEPT ![t] = [pc |-> "resolve", session |-> s]]
    /\ UNCHANGED <<hackQuad, open, watchdog, listening, told, uiVars, raced>>

\* The host is known, and the send thread starts, ...
Resolve(t) ==
    /\ At(t, "resolve")
    /\ Goto(t, "arm")
    /\ LET s == threads[t].session
       IN  /\ silent' = silent \ {s} /\ open' = open \cup {s}
           /\ watchdog' = [watchdog EXCEPT ![s] = "unset"]
    /\ UNCHANGED <<hackQuad, listening, told, uiVars, raced>>

\* ... and the watchdog is scheduled.
Arm(t) ==
    /\ At(t, "arm")
    /\ Goto(t, "replace")
    /\ watchdog' = [watchdog EXCEPT ![threads[t].session] = "armed"]
    /\ UNCHANGED <<hackQuad, silent, open, listening, told, uiVars, raced>>

BugOpenFails(t) ==  \* the button is not restored
    /\ At(t, "open") \/ At(t, "resolve")
    /\ End(t)
    /\ UNCHANGED <<sessionVars, uiVars, raced>>

\* SocketException, or UnknownHostException, which leaves the socket open for good.
OpenFails(t) ==
    /\ At(t, "open") \/ At(t, "resolve")
    /\ End(t) /\ RunLater("failed")
    /\ UNCHANGED <<sessionVars, button, enabled, alerts, raced>>

Construct(t) == OpenSocket(t) \/ Resolve(t) \/ Arm(t) \/ OpenFails(t)

-----------------------------------------------------------------------------
(* ... and registers for its events ...                                    *)


\* The listener is registered with whatever session is current now.
Listen(t) ==
    /\ At(t, "listen")
    /\ End(t)
    /\ IF hackQuad = None
       THEN UNCHANGED <<listening, later>>
       ELSE listening' = listening \cup {hackQuad} /\ RunLater("connected")
    /\ UNCHANGED <<hackQuad, silent, open, watchdog, told, button, enabled, alerts, raced>>

-----------------------------------------------------------------------------
(* ... the disconnect thread, which gives the button back before it clears *)
(* the session ...                                                         *)

Close(t) == CloseCurrent(t, "close", "restore")

Restore(t) ==
    /\ At(t, "restore")
    /\ Goto(t, "replace") /\ RunLater("restore")
    /\ UNCHANGED <<sessionVars, button, enabled, alerts, raced>>

ThreadStep(t) == SetHackQuad(t) \/ Construct(t) \/ Listen(t) \/ Close(t) \/ Restore(t)

-----------------------------------------------------------------------------
(* ... and the JavaFX thread.                                              *)

Busy == Closing # {} \/ later # <<>>
Connecting == button' = "Connecting" /\ Start("open", Busy)
Disconnecting == UNCHANGED button /\ Start("close", Busy)

\* onConnectButton; an alert is modal.
Click ==
    /\ enabled /\ alerts = <<>> /\ enabled' = FALSE
    /\ IF hackQuad = None THEN Connecting ELSE Disconnecting
    /\ UNCHANGED <<sessionVars, later, alerts>>

Enable(text) == button' = text /\ enabled' = TRUE

\* A task that was queued; showAndWait of an alert runs those behind it.
RunQueued ==
    /\ later # <<>>
    /\ later' = Tail(later)
    /\ CASE Head(later) = "restore"   -> Enable("Connect") /\ UNCHANGED alerts
         [] Head(later) = "connected" -> Enable("Disconnect") /\ UNCHANGED alerts
         [] OTHER -> alerts' = Append(alerts, Head(later)) /\ UNCHANGED <<button, enabled>>
    /\ UNCHANGED <<sessionVars, threads, raced>>

\* showAndWait returns: the alert of a failed connect restores the button.
Dismiss ==
    /\ alerts # <<>>
    /\ alerts' = Front(alerts)
    /\ IF Last(alerts) = "failed" THEN Enable("Connect") ELSE UNCHANGED <<button, enabled>>
    /\ UNCHANGED <<sessionVars, threads, later, raced>>

Next ==
    \/ Click \/ RunQueued \/ Dismiss
    \/ \E s \in Sessions : WatchdogFires(s) \/ Watchdog(s)
    \/ \E t \in Threads : ThreadStep(t)

Spec == Init /\ [][Next]_vars

\* Threads that run go on, an open returns, and the JavaFX thread empties its queue.
\* Nothing makes the user click or dismiss an alert, or a quadcopter fall silent.
FairSpec ==
    /\ Spec
    /\ WF_vars(RunQueued)
    /\ \A s \in Sessions : WF_vars(Watchdog(s))
    /\ \A t \in Threads : WF_vars(ThreadStep(t))

-----------------------------------------------------------------------------
(* Properties.                                                             *)

\* Types; a session that sends has a watchdog that can close it or is about to, whatever has
\* raced, or a thread is about to schedule one.
TypeOK ==
    /\ hackQuad \in Sessions \cup {None} /\ silent \subseteq Sessions /\ open \subseteq Sessions
    /\ \A s \in open :
           \/ watchdog[s] \in {"armed", "close"}
           \/ watchdog[s] = "unset" /\ \E t \in Threads : threads[t] = [pc |-> "arm", session |-> s]
    /\ listening \subseteq Sessions
    /\ watchdog \in [Sessions -> {"new", "unset", "armed", "close", "call", "off"}]
    /\ told \in [Sessions -> Nat]
    /\ threads \in [Threads -> [pc : {"idle", "open", "resolve", "arm", "close", "restore",
                                      "replace", "closeOld", "install", "listen"},
                                session : Sessions \cup {None}]]
    /\ later \in Seq({"restore", "connected", "failed", "lost"})
    /\ alerts \in Seq({"failed", "lost"})
    /\ button \in {"Connect", "Connecting", "Disconnect"}
    /\ enabled \in BOOLEAN /\ raced \in BOOLEAN

\* A session that falls silent is reported once, however its watchdog races with the user.
TimeoutOnce == \A s \in Sessions : told[s] <= 1

\* A session that sends is the current one, or a thread is about to make it that, as long as
\* nothing has raced.
NoStraySession ==
    ~raced => \A s \in open : s = hackQuad \/ \E t \in Threads : threads[t].session = s

\* The quadcopter never hears two sessions of this controller, on the same condition.
OneSession == ~raced => \A s, t \in open : s = t

Turns == INSTANCE Connection WITH current <- hackQuad, opened <- Opened

\* On the same condition sessions take turns: clicks, failed opens and timeouts open, close,
\* replace and report them as Connection does, for all the threads that carry this out.
SessionsTakeTurns ==
    Turns!Init /\ [][raced' \/ Turns!Next \/ UNCHANGED Turns!vars]_vars

\* When all has come to rest the button offers what a click will do, on the same condition.
ButtonAgrees ==
    (~raced /\ Alive = {} /\ Closing = {} /\ later = <<>> /\ alerts = <<>>) =>
        enabled /\ button = (IF hackQuad = None THEN "Connect" ELSE "Disconnect")

=============================================================================
