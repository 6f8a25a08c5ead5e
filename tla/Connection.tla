----------------------------- MODULE Connection -----------------------------
(***************************************************************************)
(* What the controller promises of its sessions, with no threads, queue or *)
(* button: they take turns.  One is opened when none is open, and never    *)
(* again; the application makes an open one its own, and lets go of it     *)
(* only when it is closed; and a session is reported lost once at most,    *)
(* when it is closed.  ControllerSession is shown to implement it until    *)
(* two of its threads race.                                                *)
(***************************************************************************)
EXTENDS Integers

CONSTANTS
    Sessions,   \* sessions there may be
    None        \* no session

VARIABLES
    open,      \* sessions that are open
    opened,    \* ... or have been
    current,   \* the application's session
    told       \* session -> times it was reported lost

vars == <<open, opened, current, told>>

Init ==
    /\ open = {} /\ opened = {}
    /\ current = None
    /\ told = [s \in Sessions |-> 0]

Open(s) ==
    /\ open = {} /\ s \notin opened
    /\ open' = {s} /\ opened' = opened \cup {s}
    /\ UNCHANGED <<current, told>>

Adopt(s) ==
    /\ current = None /\ s \in open
    /\ current' = s
    /\ UNCHANGED <<open, opened, told>>

Close(s) ==
    /\ s \in open
    /\ open' = open \ {s}
    /\ UNCHANGED <<opened, current, told>>

Drop ==
    /\ current \notin open
    /\ current' = None
    /\ UNCHANGED <<open, opened, told>>

Report(s) ==
    /\ s = current /\ s \notin open /\ told[s] = 0
    /\ told' = [told EXCEPT ![s] = 1]
    /\ UNCHANGED <<open, opened, current>>

Next ==
    \/ \E s \in Sessions : Open(s) \/ Adopt(s) \/ Close(s) \/ Report(s)
    \/ Drop

Spec == Init /\ [][Next]_vars
=============================================================================
