-------------------------- MODULE ControlLinkProofs --------------------------
(***************************************************************************)
(* Theorems about ControlLink for any number of sessions, any nonce width  *)
(* and any network.                                                        *)
(***************************************************************************)
EXTENDS ControlLink, TLAPS

USE LinkAssumption

LEMMA NonceStays ==
    ASSUME NEW n \in 0 .. NonceMod - 1 PROVE IncrementNonce(n) \in 0 .. NonceMod - 1
BY DEF IncrementNonce

LEMMA StepType == TypeOK /\ [Next]_vars => TypeOK'
<1>. SUFFICES ASSUME TypeOK, [Next]_vars PROVE TypeOK'
  OBVIOUS
<1>. USE DEF TypeOK, quadVars
<1>1. CASE UNCHANGED vars
  BY <1>1 DEF vars
<1>2. ASSUME NEW s \in Sessions, Open(s) \/ Close(s) PROVE TypeOK'
  BY <1>2 DEF Open, Close
<1>3. ASSUME NEW s \in Sessions, SetControl(s) PROVE TypeOK'
  BY <1>3 DEF SetControl
<1>4. ASSUME NEW s \in Sessions, Take(s) \/ Send(s) PROVE TypeOK'
  <2>1. CASE Take(s)
    BY <2>1 DEF Take
  <2>2. CASE Send(s)
    <3>1. IncrementNonce(udpNonce[s]) \in 0 .. NonceMod - 1
      BY NonceStays
    <3>2. Datagram(s) \in Datagrams
      BY <2>2 DEF Send, Datagram, Datagrams, Nothing
    <3>. QED
      BY <2>2, <3>1, <3>2 DEF Send
  <2>. QED
    BY <1>4, <2>1, <2>2
<1>5. ASSUME NEW p \in net, Lose(p) PROVE TypeOK'
  BY <1>5 DEF Lose
<1>6. ASSUME NEW p \in net, NEW rest \in SUBSET Datagrams, Receive(p, rest)
      PROVE  TypeOK'
  BY <1>6 DEF Receive, LatestAfter, SenderAfter, Datagrams
<1>7. ASSUME NEW s \in Sessions, ReceiveOnce(s) PROVE TypeOK'
  BY <1>6, <1>7 DEF ReceiveOnce
<1>8. CASE ReceiveTwice
  <2>1. \A p \in net : {[p EXCEPT !.again = FALSE]} \in SUBSET Datagrams
    BY DEF Datagrams
  <2>. QED
    BY <1>6, <1>8, <2>1 DEF ReceiveTwice
<1>9. ASSUME NEW n \in 0 .. NonceMod - 1, ReceiveStray(n) PROVE TypeOK'
  BY <1>9 DEF ReceiveStray, LatestAfter, SenderAfter
<1>10. CASE Reboot
  BY <1>10 DEF Reboot, Initially
<1>. QED
  BY <1>1, <1>2, <1>3, <1>4, <1>5, <1>7, <1>8, <1>9, <1>10 DEF Next

\* The numbers stay in the 24 bits of the packet header, in the sender, in flight
\* and in the receiver.
THEOREM LinkTypeCorrect == Spec => []TypeOK
<1>1. Init => TypeOK
  BY DEF Init, TypeOK, Initially, Nothing
<1>. QED
  BY <1>1, StepType, PTL DEF Spec

-----------------------------------------------------------------------------
(* The order of a session's updates.                                       *)

\* The update the next datagram of session s can be about, at the earliest.
Coming(s) == IF taken[s] = Nothing THEN version[s] ELSE taken[s]

\* The send thread works through the updates in the order they are made: what a session has
\* put on the network or into force is no newer than what it sends next.
InOrder ==
    \A s \in Sessions :
        /\ Coming(s) <= version[s]
        /\ \A p \in net : p.src = s => p.version <= Coming(s)
        /\ applied.src = s => applied.version <= Coming(s)

\* A step that takes nothing back keeps the order.
LEMMA OrderStays ==
    ASSUME TypeOK, TypeOK', InOrder,
           \A s \in Sessions : Coming(s) <= Coming(s)' /\ Coming(s)' <= version'[s],
           \A q \in net' :
               \/ \E p \in net : q.src = p.src /\ q.version = p.version
               \/ q.version <= Coming(q.src)',
           \/ applied' = applied \/ applied'.src = Nobody
           \/ \E p \in net : applied' = [src |-> p.src, version |-> p.version]
    PROVE  InOrder'
<1>. SUFFICES ASSUME NEW s \in Sessions
     PROVE  /\ Coming(s)' <= version'[s]
            /\ \A p \in net' : p.src = s => p.version <= Coming(s)'
            /\ applied'.src = s => applied'.version <= Coming(s)'
  BY DEF InOrder
<1>. USE DEF InOrder
<1>1. Coming(s) \in Int /\ Coming(s)' \in Int
  BY DEF Coming, TypeOK, Nothing
<1>2. /\ Coming(s) <= Coming(s)'
      /\ \A p \in net : p.version \in Int /\ (p.src = s => p.version <= Coming(s))
      /\ applied.version \in Int
  BY DEF TypeOK, Datagrams
<1>3. \A p \in net' : p.src = s => p.version <= Coming(s)'
  BY <1>1, <1>2
<1>4. applied'.src = s => applied'.version <= Coming(s)'
  BY <1>1, <1>2, LinkAssumption DEF TypeOK
<1>. QED
  BY <1>3, <1>4

LEMMA StepOrder == TypeOK /\ InOrder /\ [Next]_vars => InOrder'
<1>. SUFFICES ASSUME TypeOK, InOrder, [Next]_vars PROVE InOrder'
  OBVIOUS
<1>. USE DEF quadVars
<1>t. TypeOK'
  BY StepType
<1>n. \A s \in Sessions : /\ taken[s] \in Int /\ version[s] \in Int /\ Coming(s) \in Int
                          /\ Coming(s) <= version[s]
  BY DEF TypeOK, InOrder, Coming, Nothing
<1>1. CASE UNCHANGED <<version, taken, net, applied>>
  BY <1>1, <1>t, <1>n, OrderStays DEF Coming
<1>2. ASSUME NEW s \in Sessions, SetControl(s) PROVE InOrder'
  <2>1. \A t \in Sessions : Coming(t) <= Coming(t)' /\ Coming(t)' <= version'[t]
    BY <1>2, <1>n DEF SetControl, Coming, TypeOK
  <2>. QED
    BY <1>2, <2>1, <1>t, OrderStays DEF SetControl
<1>3. ASSUME NEW s \in Sessions, Take(s) PROVE InOrder'
  <2>1. \A t \in Sessions : Coming(t)' = Coming(t) /\ version'[t] = version[t]
    BY <1>3 DEF Take, Coming, TypeOK
  <2>. QED
    BY <1>3, <2>1, <1>t, <1>n, OrderStays DEF Take
<1>4. ASSUME NEW s \in Sessions, Send(s) PROVE InOrder'
  <2>1. \A t \in Sessions : Coming(t) <= Coming(t)' /\ Coming(t)' <= version'[t]
    BY <1>4, <1>n DEF Send, Coming, TypeOK
  <2>2. Datagram(s).src = s /\ Datagram(s).version = Coming(s)
    BY <1>4 DEF Send, Datagram, Coming
  <2>3. \A q \in net' : q \in net \/ (q.src = s /\ q.version = Coming(s))
    BY <1>4, <2>2 DEF Send
  <2>. QED
    BY <1>4, <2>1, <2>3, <1>t, OrderStays DEF Send
<1>5. ASSUME NEW p \in net, Lose(p) PROVE InOrder'
  BY <1>5, <1>t, <1>n, OrderStays DEF Lose, Coming
<1>6. ASSUME NEW p \in net, NEW rest, Receive(p, rest),
             \A q \in rest : q.src = p.src /\ q.version = p.version
      PROVE  InOrder'
  <2>1. \A t \in Sessions : Coming(t)' = Coming(t) /\ version'[t] = version[t]
    BY <1>6 DEF Receive, Coming
  <2>2. \A q \in net' : \E r \in net : q.src = r.src /\ q.version = r.version
    BY <1>6 DEF Receive
  <2>3. applied' = applied \/ applied' = [src |-> p.src, version |-> p.version]
    BY <1>6 DEF Receive
  <2>. QED
    BY <2>1, <2>2, <2>3, <1>t, <1>n, OrderStays
<1>7. ASSUME NEW s \in Sessions, ReceiveOnce(s) PROVE InOrder'
  BY <1>6, <1>7 DEF ReceiveOnce
<1>8. CASE ReceiveTwice
  <2>. PICK p \in net : Receive(p, {[p EXCEPT !.again = FALSE]})
    BY <1>8 DEF ReceiveTwice
  <2>. DEFINE rest == {[p EXCEPT !.again = FALSE]}
  <2>1. Receive(p, rest)
    OBVIOUS
  <2>2. \A q \in rest : q.src = p.src /\ q.version = p.version
    BY DEF TypeOK, Datagrams
  <2>. HIDE DEF rest
  <2>. QED
    BY <2>1, <2>2, <1>6
<1>9. CASE Reboot
  BY <1>9, <1>t, <1>n, OrderStays DEF Reboot, Initially, Coming
<1>. QED
  BY <1>1, <1>2, <1>3, <1>4, <1>5, <1>7, <1>8, <1>9
  DEF Next, vars, Open, Close, ReceiveStray

LEMMA OrderAlways == Spec => [](TypeOK /\ InOrder)
<1>1. Init => InOrder
  BY LinkAssumption DEF Init, InOrder, Initially, Coming, Nothing
<1>. QED
  BY <1>1, StepOrder, LinkTypeCorrect, PTL DEF Spec

-----------------------------------------------------------------------------
(* The update in force.                                                    *)

\* A datagram of the current update, delivered to a settled quadcopter, changes nothing there.
LEMMA DeliveryKeepsSettled ==
    ASSUME NEW s \in Sessions, Settled(s), NEW p \in net, NEW rest, Receive(p, rest),
           \A q \in rest : q.src = p.src /\ q.version = p.version
    PROVE  Settled(s)'
<1>. USE DEF Settled, OnlyOpen
<1>1. p.src = s /\ p.version = version[s]
  OBVIOUS
<1>2. from' = s /\ applied' = applied /\ UNCHANGED <<state, version>>
  BY <1>1 DEF Receive, SenderAfter
<1>3. \A q \in net' : q.src = s /\ q.version = version[s]
  BY <1>1 DEF Receive
<1>. QED
  BY <1>2, <1>3

LEMMA StepSettled ==
    ASSUME TypeOK, InOrder, [Next]_vars, NEW s \in Sessions, Settled(s),
           UNCHANGED <<version, state>>, ~Reboot, \A n \in 0 .. NonceMod - 1 : ~ReceiveStray(n)
    PROVE  Settled(s)'
<1>. USE DEF quadVars
<1>1. CASE UNCHANGED vars
  BY <1>1 DEF vars, Settled, OnlyOpen
<1>2. ASSUME NEW t \in Sessions, Open(t) \/ Close(t) \/ SetControl(t) PROVE Settled(s)'
  BY <1>2 DEF Open, Close, SetControl, Settled, OnlyOpen
<1>3. ASSUME NEW t \in Sessions, Take(t) \/ Send(t) PROVE Settled(s)'
  <2>1. UNCHANGED <<state, version, from, applied>>
    BY <1>3 DEF Take, Send
  <2>2. ASSUME NEW q \in net' \ net PROVE q.src = s /\ q.version = version[s]
    <3>1. Send(t) /\ state[t] = "open" /\ q = Datagram(t)
      BY <1>3, <2>2 DEF Take, Send
    <3>2. t = s
      BY <3>1 DEF Settled, OnlyOpen
    <3>3. q.src = s /\ q.version = taken[s] /\ taken[s] # Nothing
      BY <3>1, <3>2 DEF Datagram, Send
    <3>4. version[s] <= taken[s] /\ taken[s] <= version[s]
      BY <3>3 DEF Settled, InOrder, Coming
    <3>. QED
      BY <3>3, <3>4 DEF TypeOK, Nothing
  <2>. QED
    BY <2>1, <2>2 DEF Settled, OnlyOpen
<1>4. ASSUME NEW p \in net, Lose(p) PROVE Settled(s)'
  BY <1>4 DEF Lose, Settled, OnlyOpen
<1>5. ASSUME NEW t \in Sessions, ReceiveOnce(t) PROVE Settled(s)'
  BY <1>5, DeliveryKeepsSettled DEF ReceiveOnce
<1>6. CASE ReceiveTwice
  <2>. PICK p \in net : Receive(p, {[p EXCEPT !.again = FALSE]})
    BY <1>6 DEF ReceiveTwice
  <2>. DEFINE rest == {[p EXCEPT !.again = FALSE]}
  <2>1. Receive(p, rest)
    OBVIOUS
  <2>2. \A q \in rest : q.src = p.src /\ q.version = p.version
    BY DEF TypeOK, Datagrams
  <2>. HIDE DEF rest
  <2>. QED
    BY <2>1, <2>2, DeliveryKeepsSettled
<1>. QED
  BY <1>1, <1>2, <1>3, <1>4, <1>5, <1>6 DEF Next

\* udp_yield has no working order check, and still an update that has left the network cannot
\* come back: once every older one is gone, the current one stays in force and its sender the
\* peer, whatever is lost, repeated or reordered.
THEOREM SettledStaysAlways == Spec => SettledStays
<1>1. TypeOK /\ InOrder /\ [Next]_vars =>
          [\A s \in Sessions :
              Settled(s) => \/ Settled(s)'
                            \/ version' # version \/ state' # state
                            \/ Reboot \/ \E n \in 0 .. NonceMod - 1 : ReceiveStray(n)]_vars
  BY StepSettled
<1>. QED
  BY <1>1, OrderAlways, PTL DEF Spec, SettledStays

\* A datagram that is still in flight is another update's.
LEMMA DeliveryKeepsGone ==
    ASSUME TypeOK, NEW s \in Sessions, NEW v \in 0 .. MaxVersion, Gone(s, v),
           NEW p \in net, NEW rest, Receive(p, rest),
           \A q \in rest : q.src = p.src /\ q.version = p.version
    PROVE  Gone(s, v)'
<1>1. applied' = applied \/ applied' = [src |-> p.src, version |-> p.version]
  BY DEF Receive
<1>2. ~(p.src = s /\ p.version = v)
  BY DEF Gone
<1>3. applied' # [src |-> s, version |-> v]
  BY <1>1, <1>2 DEF Gone
<1>4. \A q \in net' : q.src = s => q.version # v
  BY <1>2 DEF Receive, Gone
<1>5. UNCHANGED <<state, version, taken>>
  BY DEF Receive
<1>. QED
  BY <1>3, <1>4, <1>5 DEF Gone

LEMMA StepGone ==
    ASSUME TypeOK, [Next]_vars, NEW s \in Sessions, NEW v \in 0 .. MaxVersion, Gone(s, v)
    PROVE  Gone(s, v)'
<1>. USE DEF quadVars
<1>1. CASE UNCHANGED vars
  BY <1>1 DEF vars, Gone
<1>2. ASSUME NEW t \in Sessions, Open(t) \/ Close(t) PROVE Gone(s, v)'
  BY <1>2 DEF Open, Close, Gone, TypeOK
<1>3. ASSUME NEW t \in Sessions, SetControl(t) PROVE Gone(s, v)'
  BY <1>3 DEF SetControl, Gone, TypeOK
<1>4. ASSUME NEW t \in Sessions, Take(t) \/ Send(t) PROVE Gone(s, v)'
  <2>1. UNCHANGED <<state, version, applied>>
    BY <1>4 DEF Take, Send
  <2>2. (v < version[s] /\ taken'[s] # v) \/ state[s] = "closed"
    BY <1>4 DEF Take, Send, Gone, TypeOK, Nothing
  <2>3. ASSUME NEW q \in net' \ net, q.src = s PROVE q.version # v
    <3>1. Send(t) /\ state[t] = "open" /\ q = Datagram(t)
      BY <1>4, <2>3 DEF Take, Send
    <3>. QED
      BY <3>1, <2>3 DEF Datagram, Gone
  <2>. QED
    BY <2>1, <2>2, <2>3 DEF Gone
<1>5. ASSUME NEW p \in net, Lose(p) PROVE Gone(s, v)'
  BY <1>5 DEF Lose, Gone
<1>6. ASSUME NEW t \in Sessions, ReceiveOnce(t) PROVE Gone(s, v)'
  BY <1>6, DeliveryKeepsGone DEF ReceiveOnce
<1>7. CASE ReceiveTwice
  <2>. PICK p \in net : Receive(p, {[p EXCEPT !.again = FALSE]})
    BY <1>7 DEF ReceiveTwice
  <2>. DEFINE rest == {[p EXCEPT !.again = FALSE]}
  <2>1. Receive(p, rest)
    OBVIOUS
  <2>2. \A q \in rest : q.src = p.src /\ q.version = p.version
    BY DEF TypeOK, Datagrams
  <2>. HIDE DEF rest
  <2>. QED
    BY <2>1, <2>2, DeliveryKeepsGone
<1>8. ASSUME NEW n \in 0 .. NonceMod - 1, ReceiveStray(n) PROVE Gone(s, v)'
  BY <1>8 DEF ReceiveStray, Gone
<1>9. CASE Reboot
  BY <1>9 DEF Reboot, Initially, Gone
<1>. QED
  BY <1>1, <1>2, <1>3, <1>4, <1>5, <1>6, <1>7, <1>8, <1>9 DEF Next

\* What the missing order check lets back in is only what is still in flight: an update that is
\* replaced, out of force and out of the network stays so, for any nonce width, across wraps,
\* overlapping sessions, strays and reboots (udp_yield, HackQuadImpl.send).
THEOREM GoneForGoodAlways == Spec => GoneForGood
<1>1. TypeOK /\ [Next]_vars =>
          [\A s \in Sessions, v \in 0 .. MaxVersion : Gone(s, v) => Gone(s, v)']_vars
  BY StepGone
<1>. QED
  BY <1>1, LinkTypeCorrect, PTL DEF Spec, GoneForGood
=============================================================================
