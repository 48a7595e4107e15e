-------------------------- MODULE OrderedDelivery --------------------------
(***************************************************************************)
(* What one simulated timestep promises about its packets, whatever the    *)
(* queueing mode: each source's packets are processed one by one in the    *)
(* order they were emitted, none lost and none twice, and the barrier is   *)
(* only passed when every emitted packet has been processed.  A run that   *)
(* reaches its event limit may halt anywhere.                              *)
(***************************************************************************)
EXTENDS Naturals

CONSTANT Lanes     \* the sources of packets

VARIABLES
    emitted,       \* packets each source has emitted
    delivered,     \* packets of each source that have been processed
    round,         \* timesteps completed
    halted         \* the run has ended

vars == <<emitted, delivered, round, halted>>

Init ==
    /\ emitted = [l \in Lanes |-> 0]
    /\ delivered = [l \in Lanes |-> 0]
    /\ round = 0
    /\ halted = FALSE

Emit(l) ==
    /\ ~halted
    /\ emitted' = [emitted EXCEPT ![l] = @ + 1]
    /\ UNCHANGED <<delivered, round, halted>>

Deliver(l) ==
    /\ ~halted
    /\ delivered[l] < emitted[l]
    /\ delivered' = [delivered EXCEPT ![l] = @ + 1]
    /\ UNCHANGED <<emitted, round, halted>>

Barrier ==
    /\ ~halted
    /\ delivered = emitted
    /\ round' = round + 1
    /\ UNCHANGED <<emitted, delivered, halted>>

Halt ==
    /\ ~halted
    /\ halted' = TRUE
    /\ UNCHANGED <<emitted, delivered, round>>

Next ==
    \/ \E l \in Lanes : Emit(l) \/ Deliver(l)
    \/ Barrier
    \/ Halt

Spec == Init /\ [][Next]_vars
=============================================================================
