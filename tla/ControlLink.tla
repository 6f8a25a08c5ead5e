---------------------------- MODULE ControlLink -----------------------------
(***************************************************************************)
(* The UDP link between the controller application and the quadcopter:     *)
(* HackQuadImpl numbers and repeats the current control update every 20    *)
(* ms, the network loses, delays, reorders and repeats datagrams, and      *)
(* udp_yield of firmware/main/hackquad/udpserver.c decides by the number   *)
(* whether to hand one to the packet handler.  The status task answers     *)
(* whoever was heard last.                                                 *)
(*                                                                         *)
(* A session is one HackQuadImpl: it is opened once and closed once, and   *)
(* sends from a port of its own.  Sessions may overlap.  A control update  *)
(* is its version number in its session: 0 is the all-zero one a session   *)
(* starts with.                                                            *)
(***************************************************************************)
EXTENDS Integers, FiniteSets

CONSTANTS
    Sessions,     \* HackQuadImpl objects
    Stranger,     \* any other source of datagrams to the port
    Nobody,       \* ctx->from before the first datagram
    NonceMod,     \* 2^24: nonces are 24 bits wide
    MaxVersion,   \* bound on the control updates of a session
    NetCap        \* bound on datagrams in flight

ASSUME LinkAssumption ==
    /\ Stranger # Nobody /\ {Stranger, Nobody} \cap Sessions = {}
    /\ NonceMod \in Nat \ {0} /\ MaxVersion \in Nat /\ NetCap \in Nat

VARIABLES
    state,      \* session -> "new", "open" or "closed" (udpSocket.isClosed)
    udpNonce,   \* session -> next nonce to send
    version,    \* session -> controlData
    taken,      \* session -> what udpSendHandler has read of it and not sent yet
    net,        \* datagrams in flight
    latest,     \* ctx->latest_recv_nonce
    from,       \* ctx->from
    applied     \* the control update last handed to the handler

quadVars == <<latest, from, applied>>
vars == <<state, udpNonce, version, taken, net, quadVars>>

\* `again': the network may still deliver this datagram once more.
Datagrams == [src : Sessions, nonce : 0 .. NonceMod - 1, version : 0 .. MaxVersion,
              again : BOOLEAN]

Nothing == -1
Initially == [src |-> Nobody, version |-> 0]

Init ==
    /\ state = [s \in Sessions |-> "new"]
    /\ udpNonce = [s \in Sessions |-> 0]
    /\ version = [s \in Sessions |-> 0] /\ taken = [s \in Sessions |-> Nothing]
    /\ net = {}
    /\ latest = 0 /\ from = Nobody /\ applied = Initially

-----------------------------------------------------------------------------
(* The controller.                                                         *)

\* HackQuad.open: a new socket, nonce zero and an all-zero control update.
Open(s) ==
    /\ state[s] = "new"
    /\ state' = [state EXCEPT ![s] = "open"]
    /\ UNCHANGED <<udpNonce, version, taken, net, quadVars>>

\* close() sends nothing: the last update stays in force on the quadcopter.
Close(s) ==
    /\ state[s] = "open"
    /\ state' = [state EXCEPT ![s] = "closed"]
    /\ UNCHANGED <<udpNonce, version, taken, net, quadVars>>

SetControl(s) ==
    /\ state[s] = "open" /\ version[s] < MaxVersion
    /\ version' = [version EXCEPT ![s] = @ + 1]
    /\ UNCHANGED <<state, udpNonce, taken, net, quadVars>>

BugIncrementNonce(n) == n + 1     \* the mask is missing

IncrementNonce(n) == (n + 1) % NonceMod

BugDatagram(s) ==   \* the send thread looked at controlData once, when it started
    [src |-> s, nonce |-> udpNonce[s], version |-> 0, again |-> TRUE]

BugPrime(s) ==      \* the datagram that restarts the numbers carries no update of its own
    [src |-> s, nonce |-> udpNonce[s],
     version |-> IF udpNonce[s] = 0 THEN 0 ELSE taken[s], again |-> TRUE]

\* send(): the header with the next nonce, then the contents.
Datagram(s) ==
    [src |-> s, nonce |-> udpNonce[s], version |-> taken[s], again |-> TRUE]

\* A round of udpSendHandler: it reads controlData ...
Take(s) ==
    /\ state[s] = "open" /\ taken[s] = Nothing
    /\ taken' = [taken EXCEPT ![s] = version[s]]
    /\ UNCHANGED <<state, udpNonce, version, net, quadVars>>

\* ... and sends what it has read.  A full network drops it, a closed socket throws.
Send(s) ==
    /\ taken[s] # Nothing
    /\ net' = IF state[s] = "open" /\ Cardinality(net) < NetCap THEN net \cup {Datagram(s)} ELSE net
    /\ udpNonce' = [udpNonce EXCEPT ![s] = IncrementNonce(@)]
    /\ taken' = [taken EXCEPT ![s] = Nothing]
    /\ UNCHANGED <<state, version, quadVars>>

-----------------------------------------------------------------------------
(* The network.                                                            *)

Lose(p) ==
    /\ p \in net
    /\ net' = net \ {p}
    /\ UNCHANGED <<state, udpNonce, version, taken, quadVars>>

-----------------------------------------------------------------------------
(* The quadcopter.                                                         *)

\* udp_yield refuses a datagram that is neither a prime nor new enough.
Accepts(nonce) == nonce = 0 \/ nonce >= latest

\* A prime nonce resets the number; no other nonce is ever stored in it.
LatestAfter(nonce) == IF nonce = 0 THEN 0 ELSE latest

BugSenderAfter(src) == IF from = Nobody THEN src ELSE from   \* keeps the first one

\* recvfrom(..., &ctx->from, ...) stores every datagram's sender.
SenderAfter(src) == src

\* udp_yield on a control update: recvfrom overwrites the sender first, then
\* the nonce decides.  The network keeps the datagram to deliver it again or not.
Receive(p, rest) ==
    /\ p \in net
    /\ net' = (net \ {p}) \cup rest
    /\ from' = SenderAfter(p.src)
    /\ IF Accepts(p.nonce)
       THEN /\ latest' = LatestAfter(p.nonce)
            /\ applied' = [src |-> p.src, version |-> p.version]
       ELSE UNCHANGED <<latest, applied>>
    /\ UNCHANGED <<state, udpNonce, version, taken>>

ReceiveOnce(s) == \E p \in net : p.src = s /\ Receive(p, {})

ReceiveTwice == \E p \in net : p.again /\ Receive(p, {[p EXCEPT !.again = FALSE]})

\* A datagram that is too short, has an unknown id or a short payload: the
\* handler does nothing with it, but recvfrom has overwritten the sender and,
\* when there is a header, a zero nonce has reset the number.
ReceiveStray(nonce) ==
    /\ from' = SenderAfter(Stranger)
    /\ latest' = IF Accepts(nonce) THEN LatestAfter(nonce) ELSE latest
    /\ UNCHANGED <<state, udpNonce, version, taken, net, applied>>

\* A reset (brown-out, failed assertion): the context is in BSS.
Reboot ==
    /\ latest' = 0 /\ from' = Nobody /\ applied' = Initially
    /\ UNCHANGED <<state, udpNonce, version, taken, net>>

Next ==
    \/ \E s \in Sessions : Open(s) \/ Close(s) \/ SetControl(s) \/ Take(s) \/ Send(s)
    \/ \E p \in net : Lose(p)
    \/ \E s \in Sessions : ReceiveOnce(s)
    \/ ReceiveTwice
    \/ \E n \in 0 .. NonceMod - 1 : ReceiveStray(n)
    \/ Reboot

Spec == Init /\ [][Next]_vars

\* udp_send_task sends for ever; a network that keeps being given datagrams of a
\* session delivers some of them.
FairSpec ==
    /\ Spec
    /\ \A s \in Sessions : WF_vars(Take(s) \/ Send(s)) /\ SF_vars(ReceiveOnce(s))

-----------------------------------------------------------------------------
(* Properties.                                                             *)

\* A nonce never outgrows the 24 bits the packet header has for it.
TypeOK ==
    /\ state \in [Sessions -> {"new", "open", "closed"}]
    /\ udpNonce \in [Sessions -> 0 .. NonceMod - 1]
    /\ version \in [Sessions -> 0 .. MaxVersion]
    /\ taken \in [Sessions -> 0 .. MaxVersion \cup {Nothing}]
    /\ net \subseteq Datagrams
    /\ latest \in 0 .. NonceMod - 1
    /\ from \in Sessions \cup {Stranger, Nobody}
    /\ applied \in [src : Sessions \cup {Nobody}, version : 0 .. MaxVersion]

OnlyOpen(s) == \A t \in Sessions : state[t] = "open" <=> t = s

\* From some time on the quadcopter stays up and only sessions send to it.
Undisturbed == <>[][~Reboot /\ \A n \in 0 .. NonceMod - 1 : ~ReceiveStray(n)]_vars

\* A single session that stays open ends up with its current control update in
\* force, although older datagrams, its own and other sessions', may arrive late.
LastUpdateWins ==
    \A s \in Sessions :
        (Undisturbed /\ <>[]OnlyOpen(s)) =>
            <>[](applied = [src |-> s, version |-> version[s]])

\* ... and is the one udp_sendp sends the status updates to: with no stray datagrams
\* the telemetry goes where the command in force comes from.
StatusFollows ==
    \A s \in Sessions : (Undisturbed /\ <>[]OnlyOpen(s)) => <>[](from = s)

\* Session s alone is open and heard, its current update is in force, and no other is in flight.
Settled(s) ==
    /\ OnlyOpen(s)
    /\ applied = [src |-> s, version |-> version[s]] /\ from = s
    /\ \A p \in net : p.src = s /\ p.version = version[s]

\* Nothing that is lost, repeated or delivered in any order brings back an update that is no
\* longer in flight, nor another peer: only a new update or session, a reboot or a stray can.
SettledStays ==
    [][\A s \in Sessions :
          Settled(s) => \/ Settled(s)'
                        \/ version' # version \/ state' # state
                        \/ Reboot \/ \E n \in 0 .. NonceMod - 1 : ReceiveStray(n)]_vars

\* Update v of session s has been replaced or its session closed, is out of force, and is neither
\* in flight any more nor in the hands of the send thread.
Gone(s, v) ==
    /\ (v < version[s] /\ taken[s] # v) \/ state[s] = "closed"
    /\ applied # [src |-> s, version |-> v]
    /\ \A p \in net : p.src = s => p.version # v

\* Such an update never comes back, although nothing refuses an old nonce: not by a wrap of the
\* nonces, another session, a stray datagram or a reboot, on either side.
GoneForGood ==
    [][\A s \in Sessions, v \in 0 .. MaxVersion : Gone(s, v) => Gone(s, v)']_vars

\* udpserver.c:55, "ensure data order, discard old packets": when a datagram p that
\* is no prime changes the update in force, it does not bring back an older update
\* of the same session.
DataOrder ==
    [][\A p \in net \ net' :
          (p.nonce # 0 /\ applied' = [src |-> p.src, version |-> p.version]
               /\ applied'.src = applied.src) => applied'.version >= applied.version]_applied
=============================================================================
