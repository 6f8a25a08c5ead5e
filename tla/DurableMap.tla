----------------------------- MODULE DurableMap -----------------------------
(***************************************************************************)
(* What the registry promises, without NVS, hashes, tasks or requests: a   *)
(* map in memory whose values are saved one key at a time.  After a        *)
(* restart a key has its default or a value that memory held for this very *)
(* key when a save of it began; a save that had not ended may count.       *)
(***************************************************************************)
CONSTANTS
    Keys, Values, Default,
    Lost     \* the value in memory between a restart and the recall

VARIABLES
    mem,     \* key -> its value in memory
    copies,  \* key -> values on their way to be saved
    safe     \* key -> values that a restart may bring back

vars == <<mem, copies, safe>>

Init ==
    /\ mem = [k \in Keys |-> Lost]
    /\ copies = [k \in Keys |-> {}]
    /\ safe = [k \in Keys |-> {Default[k]}]

\* Some of a set of possible values, or all, remain possible.
Settled(new, old) == new \subseteq old /\ new # {}

Put ==
    /\ \A k \in Keys : mem[k] # Lost
    /\ mem' \in [Keys -> Values]
    /\ UNCHANGED <<copies, safe>>

Copy(k) ==
    /\ copies' = [copies EXCEPT ![k] = @ \cup {mem[k]}]
    /\ UNCHANGED <<mem, safe>>

\* The copy of v that was on its way ends, and has become safe or not.
EndCopy(k, v) ==
    /\ v \in copies[k]
    /\ \E rest \in {copies[k], copies[k] \ {v}} : copies' = [copies EXCEPT ![k] = rest]
    /\ \E new \in SUBSET (safe[k] \cup {v}) :
           new # {} /\ safe' = [safe EXCEPT ![k] = new]
    /\ UNCHANGED mem

Commit(k) ==
    /\ \E new \in SUBSET safe[k] : new # {} /\ safe' = [safe EXCEPT ![k] = new]
    /\ UNCHANGED <<mem, copies>>

Restart ==
    /\ mem' = [k \in Keys |-> Lost]
    /\ copies' = [k \in Keys |-> {}]
    /\ DOMAIN safe' = Keys /\ \A k \in Keys : Settled(safe'[k], safe[k])

Erase ==
    /\ \A k \in Keys : mem[k] = Lost
    /\ safe' = [k \in Keys |-> {Default[k]}]
    /\ UNCHANGED <<mem, copies>>

\* A value that cannot be read back gives way to the default, in memory at least.
Recall(k) ==
    /\ mem[k] = Lost
    /\ \E v \in safe[k] \cup {Default[k]} : mem' = [mem EXCEPT ![k] = v]
    /\ \E new \in SUBSET (safe[k] \cup {Default[k]}) :
           new # {} /\ safe' = [safe EXCEPT ![k] = new]
    /\ UNCHANGED copies

Next ==
    \/ Put \/ Restart \/ Erase
    \/ \E k \in Keys : Copy(k) \/ Commit(k) \/ Recall(k)
    \/ \E k \in Keys : \E v \in copies[k] : EndCopy(k, v)

Spec == Init /\ [][Next]_vars
=============================================================================
