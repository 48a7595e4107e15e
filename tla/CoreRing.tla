------------------------------ MODULE CoreRing ------------------------------
(***************************************************************************)
(* The delayed accumulation buffers of the cores (simulator/src/hw/core.cpp)*)
(* under the timestep loop of the simulator.  In a timestep every core     *)
(* first runs its neuron loop on the slot next_buffer_ of its ring, then   *)
(* packets arrive and add to the slot their connection's delay selects.    *)
(* Layers of multi-valued state hand their values over inside the neuron   *)
(* phase (push_local_state) and do not integrate.  Three rules make a      *)
(* neuron sit a timestep out: ST-BIF before its first frame, an unused     *)
(* neuron, and, with event_activated_catch_up, no pending input.           *)
(*                                                                         *)
(* What is accumulated is represented by when it is to be read: a slot     *)
(* holds the timesteps promised to its contributions, and a membrane the   *)
(* promises it has integrated.  A layer is one core here; a ring belongs   *)
(* to one core.                                                            *)
(***************************************************************************)
EXTENDS Integers, FiniteSets, FiniteSetsExt

CONSTANTS
    NumLayers,        \* computing layers, numbered in mapping order
    Neurons,          \* the neurons of every layer
    MultiValued,      \* layers with neuron_model multi_valued_state
    FirstFrame,       \* state_start_timestep: layer -> timestep, 0 unless ST-BIF
    Unused,           \* <<layer, neuron>> pairs that are not active_neuron
    ProcessInactive,  \* core.process_inactive_neurons_on_crossbar_event
    CatchUp,          \* core.neuron_update_mode is event_activated_catch_up
    Connections,      \* [to : layer, delay : Nat] that carry packets
    Broadcast,        \* layers whose packets activate the whole core
    LocalState,       \* <<from, to>> pairs of local_state_buffer connections
    MaxTimesteps      \* bound: timesteps of a behaviour

Layers == 1 .. NumLayers

ASSUME RingAssumption ==
    /\ NumLayers \in Nat \ {0}
    /\ MultiValued \subseteq Layers
    /\ FirstFrame \in [Layers -> Nat]
    /\ Unused \subseteq Layers \X Neurons
    /\ ProcessInactive \in BOOLEAN /\ CatchUp \in BOOLEAN
    /\ Connections \subseteq [to : Layers, delay : Nat]
    /\ IsFiniteSet(Connections)
    /\ Broadcast \subseteq Layers
    /\ LocalState \subseteq MultiValued \X Layers
    /\ MaxTimesteps \in Nat

VARIABLES
    buffer,      \* delayed_buffers_: layer -> slot -> neuron -> promises
    pending,     \* delayed_pending_
    next_buffer, \* the slot the next neuron loop reads
    processed,   \* processed_timestep_
    started,     \* state_started_
    last_state,  \* last_state_timestep_
    membrane,    \* the promises a neuron has integrated
    bias_steps,  \* the timesteps of bias it has integrated
    handing,     \* targets of the layer just processed: its push_local_state
    timestep

vars == <<buffer, pending, next_buffer, processed, started, last_state,
          membrane, bias_steps, handing, timestep>>

-----------------------------------------------------------------------------
(* Simulator::Simulator: the ring holds the longest delay of the layer's   *)
(* connections and the slot in front.  [mutant: only the longest delay]    *)
Delays(l) == {c.delay : c \in {k \in Connections : k.to = l}} \cup {0}
RingOfDelays(l) == Max(Delays(l) \cup {1})
RingSize(l) == Max(Delays(l)) + 1
Slots(l) == 0 .. RingSize(l) - 1

(* [mutant: the index does not wrap]                                       *)
SlotUnwrapped(l, delay) == next_buffer[l] + delay
Slot(l, delay) == (next_buffer[l] + delay) % RingSize(l)

(* The packets of a timestep come after the neuron loops of all layers.    *)
DataPhase == \A l \in Layers : processed[l] = timestep

Init ==
    /\ buffer = [l \in Layers |-> [s \in Slots(l) |-> [n \in Neurons |-> {}]]]
    /\ pending = [l \in Layers |-> [s \in Slots(l) |-> {}]]
    /\ next_buffer = [l \in Layers |-> 0]
    /\ processed = [l \in Layers |-> 0]
    /\ started = [l \in Layers |-> FALSE]
    /\ last_state = [l \in Layers |-> [n \in Neurons |-> 0]]
    /\ membrane = [l \in Layers |-> [n \in Neurons |-> {}]]
    /\ bias_steps = [l \in Layers |-> [n \in Neurons |-> 0]]
    /\ handing = {}
    /\ timestep = 0

StartTimestep ==
    /\ DataPhase
    /\ handing = {}
    /\ timestep < MaxTimesteps
    /\ timestep' = timestep + 1
    /\ UNCHANGED <<buffer, pending, next_buffer, processed, started,
                   last_state, membrane, bias_steps, handing>>

-----------------------------------------------------------------------------
(* process_timestep                                                        *)
Active(l, n) == <<l, n>> \notin Unused

(* The neurons that the neuron loop of this timestep visits.               *)
Visited(l) ==
    {n \in Neurons :
        /\ timestep >= FirstFrame[l]
        /\ Active(l, n) \/ ProcessInactive
        /\ CatchUp => n \in pending[l][next_buffer[l]]}

(* How many timesteps of bias a visited neuron takes.                      *)
(* [mutant: always one]                                                    *)
OneStep(l, n) == 1
Elapsed(l, n) == IF CatchUp THEN timestep - last_state[l][n] ELSE 1

(* The slot that is cleared, for the visited neurons.                      *)
(* [mutant: the ring is advanced first]                                    *)
SlotAfterAdvance(l) == Slot(l, 1)
ClearedSlot(l) == next_buffer[l]
Cleared(l, visited) ==
    [n \in Neurons |-> IF n \in visited THEN {} ELSE buffer[l][ClearedSlot(l)][n]]

Read(l, visited) ==
    /\ buffer' = [buffer EXCEPT ![l][ClearedSlot(l)] = Cleared(l, visited)]
    /\ pending' = [pending EXCEPT ![l][ClearedSlot(l)] = @ \ visited]
    /\ membrane' = [membrane EXCEPT ![l] =
           [n \in Neurons |-> IF n \in visited
                              THEN @[n] \cup buffer[l][next_buffer[l]][n]
                              ELSE @[n]]]
    /\ next_buffer' = [next_buffer EXCEPT ![l] = Slot(l, 1)]
    /\ processed' = [processed EXCEPT ![l] = timestep]

(* The layers run one after the other, each after the one before it has    *)
(* handed its local state over.                                            *)
Turn(l) ==
    /\ handing = {}
    /\ processed[l] = timestep - 1
    /\ \A k \in 1 .. l - 1 : processed[k] = timestep

ProcessSpiking(l) ==
    /\ l \notin MultiValued
    /\ Turn(l)
    /\ Read(l, Visited(l))
    /\ last_state' = [last_state EXCEPT ![l] =
           [n \in Neurons |-> IF n \in Visited(l) THEN timestep ELSE @[n]]]
    /\ bias_steps' = [bias_steps EXCEPT ![l] =
           [n \in Neurons |-> @[n] + IF n \in Visited(l) THEN Elapsed(l, n) ELSE 0]]
    /\ UNCHANGED <<started, handing, timestep>>

(* A multi-valued layer reads all neurons, but not before its first input. *)
ProcessMultiValued(l) ==
    /\ l \in MultiValued
    /\ Turn(l)
    /\ Read(l, IF started[l] THEN Neurons ELSE {})
    /\ handing' = IF started[l] THEN {c \in LocalState : c[1] = l} ELSE {}
    /\ UNCHANGED <<started, last_state, bias_steps, timestep>>

(* A contribution that is to be read in timestep due.                      *)
Accumulate(l, slot, neurons, due) ==
    buffer' = [buffer EXCEPT ![l][slot] =
                  [n \in Neurons |-> IF n \in neurons THEN @[n] \cup {due}
                                                      ELSE @[n]]]

(* push_local_state and receive_local_state for one connection: the values *)
(* are for the timestep that is being processed (simulator.cpp:169-171).   *)
LocalSlot(l) == Slot(l, 0)
HandOver(c) ==
    /\ c \in handing
    /\ handing' = handing \ {c}
    /\ Accumulate(c[2], LocalSlot(c[2]), Neurons, timestep)
    /\ pending' = [pending EXCEPT ![c[2]][LocalSlot(c[2])] = Neurons]
    /\ started' = [started EXCEPT ![c[2]] = TRUE]
    /\ UNCHANGED <<next_buffer, processed, last_state, membrane, bias_steps,
                   timestep>>

(* receive: a packet that reaches some of the neurons.  It is to be read   *)
(* delay + 1 timesteps later.                                              *)
Heartbeat(l) ==
    IF l \in Broadcast THEN {n \in Neurons : Active(l, n) \/ ProcessInactive}
                       ELSE {}
Activated(l, reached) == reached \cup Heartbeat(l)
Receive(c, reached) ==
    /\ DataPhase
    /\ handing = {}
    /\ timestep > 0
    /\ Accumulate(c.to, Slot(c.to, c.delay), reached, timestep + c.delay + 1)
    /\ pending' = [pending EXCEPT ![c.to][Slot(c.to, c.delay)] =
                      @ \cup Activated(c.to, reached)]
    /\ started' = [started EXCEPT ![c.to] = TRUE]
    /\ UNCHANGED <<next_buffer, processed, last_state, membrane, bias_steps,
                   handing, timestep>>

Next ==
    \/ StartTimestep
    \/ \E l \in Layers : ProcessSpiking(l) \/ ProcessMultiValued(l)
    \/ \E c \in LocalState : HandOver(c)
    \/ \E c \in Connections, reached \in SUBSET Neurons : Receive(c, reached)

Spec == Init /\ [][Next]_vars

-----------------------------------------------------------------------------
TypeOK ==
    /\ timestep \in 0 .. MaxTimesteps
    /\ \A l \in Layers :
          /\ next_buffer[l] \in Slots(l)
          /\ processed[l] \in {timestep, timestep - 1}
          /\ started[l] \in BOOLEAN
          /\ \A s \in Slots(l) : /\ pending[l][s] \subseteq Neurons
                                 /\ buffer[l][s] \in [Neurons -> SUBSET Nat]
          /\ last_state[l] \in [Neurons -> Nat]
          /\ membrane[l] \in [Neurons -> SUBSET Nat]
          /\ bias_steps[l] \in [Neurons -> Nat]
    /\ handing \subseteq LocalState

(* Every contribution lies in the slot whose turn comes in the timestep    *)
(* promised to it: delay k of a connection is read k + 1 timesteps later,  *)
(* local state in the same timestep, whatever slots other delays use and   *)
(* whichever neurons were skipped (NOTES.md:104, simulator.cpp:169-171).   *)
(* Neurons that are not in use are never read.                             *)
ReadOnTime ==
    \A l \in Layers : \A delay \in 0 .. RingSize(l) - 1 : \A n \in Neurons :
        Active(l, n) =>
            buffer[l][Slot(l, delay)][n] \subseteq {processed[l] + 1 + delay}

(* What leaves a buffer has been integrated by its neuron.                 *)
NothingLost ==
    [][\A l \in Layers : \A n \in Neurons :
          LET held  == UNION {buffer[l][s][n] : s \in Slots(l)}
              holds == UNION {buffer'[l][s][n] : s \in Slots(l)}
          IN  held \subseteq holds \cup membrane'[l][n]]_vars

(* A neuron that is in use has, at its last transition, taken the bias of  *)
(* every timestep so far exactly once, skipped ones included, and in       *)
(* catch-up mode it is up to date whenever it has integrated an input.     *)
BiasCaughtUp ==
    \A l \in Layers \ MultiValued : \A n \in Neurons :
        Active(l, n) =>
            /\ bias_steps[l][n] = last_state[l][n]
            /\ \A due \in membrane[l][n] : due <= last_state[l][n]
            /\ ~CatchUp => last_state[l][n] = processed[l]
=============================================================================
