-------------------------- MODULE DestinationFlow --------------------------
(***************************************************************************)
(* The destination_flow congestion model of RouterResourceTable            *)
(* (simulator/src/hw/noc/router.cpp): every destination router keeps, for  *)
(* each of its physical cores, FifoNum FIFOs of the packets on their way   *)
(* to that core.  An entry remembers when its packet leaves the FIFO (its  *)
(* processing starts) and is only looked at again when a later packet is   *)
(* sent to the same router: entries whose time has come are retired, and   *)
(* when more than the path can hold are left the sender waits.             *)
(*                                                                         *)
(* The entries live in a ring that is allocated once, with room for the    *)
(* longest XY path plus one packet; the code throws when the ring is full  *)
(* or when the releases of one FIFO are out of order.  This module is the  *)
(* promise that neither can happen.  It leaves the time a packet spends in *)
(* the network open (any member of Delays); FlowTable has the ring, the    *)
(* service statistics and the hop resources that produce that time, and    *)
(* implements this module.                                                 *)
(***************************************************************************)
EXTENDS Integers, Sequences, FiniteSets, FiniteSetsExt

CONSTANTS
    Cols, Rows,       \* the mesh; a router is a pair <<x, y>>
    CoresPerPe,       \* physical cores below one router
    FifoNum,          \* core.fifo_num_per_core
    FifoDepth,        \* core.fifo_depth_per_core
    Sources,          \* the routers packets are sent from
    Destinations,     \* the routers packets are sent to
    Delays,           \* times a packet can spend in the network
    Services,         \* axon-in plus synapse service of a packet
    SramLatencies,    \* SRAM read of a packet (0 for attention operands)
    NeuronServices,   \* services of one core's neuron loop
    SyncLatency,      \* synchronization latency of the mapped tiles
    SendSpread,       \* bound: a packet is sent this long after the start
    MaxBacklog,       \* bound: no packet is sent once the work in hand
                      \* reaches this far beyond the timestep start
    MaxTimesteps      \* bound: timesteps of a behaviour

Router == (0 .. Cols - 1) \X (0 .. Rows - 1)
CoreOffset == 0 .. CoresPerPe - 1

ASSUME MeshAssumption ==
    /\ Cols \in Nat \ {0}
    /\ Rows \in Nat \ {0}
    /\ CoresPerPe \in Nat \ {0}
    /\ FifoNum \in Nat \ {0}
    /\ FifoDepth \in Nat \ {0}
    /\ Sources \subseteq Router
    /\ Destinations \subseteq Router

ASSUME TimeAssumption ==
    /\ Delays \subseteq Nat
    /\ Services \subseteq Nat
    /\ SramLatencies \subseteq Nat
    /\ NeuronServices \subseteq Nat
    /\ SyncLatency \in Nat
    /\ SendSpread \in Nat
    /\ MaxBacklog \in Nat
    /\ MaxTimesteps \in Nat

VARIABLES
    fifo,          \* destination_flows_[router]: FIFO -> queue of entries
    next_fifo,     \* next_fifo_by_core: round-robin position of each core
    pending,       \* the packet between traverse and its record
    compute_free,  \* free time of each core's compute_pipeline_
    neurons_left,  \* cores whose neuron loop has not run in this timestep
    timestep,      \* logical timestep, 0 before the first
    now,           \* hardware time at which the timestep started
    hw_latency,    \* Statistics::hw_latency_, the latest finish so far
    fault          \* the exception that ended the run, or "none"

vars == <<fifo, next_fifo, pending, compute_free, neurons_left,
          timestep, now, hw_latency, fault>>

Core == Destinations \X CoreOffset
Fifo == CoreOffset \X (0 .. FifoNum - 1)
Entry == [release : Nat]
NoPacket == [router |-> <<>>]
Packet == [router : Destinations, core : CoreOffset,
           slot : 0 .. FifoNum - 1, arrival : Nat]
Faults == {"none", "release_order", "ring_overflow"}

-----------------------------------------------------------------------------
Distance(a, b) == IF a < b THEN b - a ELSE a - b
Hops(src, dst) == Distance(src[1], dst[1]) + Distance(src[2], dst[2])
MaxHops == (Rows - 1) + (Cols - 1)

(* What a path of that many hops holds, and the ring that is allocated.    *)
(* [mutant: a ring without the place for the packet being sent]            *)
Capacity(hops) == (hops + 1) * (FifoNum * FifoDepth)
RingWithoutSpare == Capacity(MaxHops)
RingCapacity == Capacity(MaxHops) + 1

Later(a, b) == IF a < b THEN b ELSE a

(* HardwareResource::reserve: a service starts when the work has arrived   *)
(* and the resource is free.  [mutant: the free time is ignored]           *)
StartOnArrival(arrival, free) == arrival
HwStart(arrival, free) == Later(arrival, free)

(* [mutant: the round robin of a core's FIFOs does not wrap]               *)
NextFifoUnwrapped(slot) == slot + 1
NextFifo(slot) == (slot + 1) % FifoNum

(* The slots of a flow that hold an entry; their number is the occupancy.  *)
Occupied(flow) == UNION {{<<q, k>> : k \in DOMAIN flow[q]} : q \in Fifo}
Occupancy(flow) == Cardinality(Occupied(flow))

(* Entries leave from the head while their release time is not after t.    *)
(* [mutant: an entry released exactly at t stays]                          *)
FirstLiveStrict(q, t) ==
    Min({k \in 1 .. Len(q) : q[k].release >= t} \cup {Len(q) + 1})
FirstLive(q, t) ==
    Min({k \in 1 .. Len(q) : q[k].release > t} \cup {Len(q) + 1})
Live(q, t) == SubSeq(q, FirstLive(q, t), Len(q))
Retire(flow, t) == [q \in Fifo |-> Live(flow[q], t)]

EarliestRelease(flow) ==
    Min({flow[q][1].release : q \in {p \in Fifo : flow[p] # <<>>}})

-----------------------------------------------------------------------------
Init ==
    /\ fifo = [r \in Destinations |-> [q \in Fifo |-> <<>>]]
    /\ next_fifo = [c \in Core |-> 0]
    /\ pending = NoPacket
    /\ compute_free = [c \in Core |-> 0]
    /\ neurons_left = {}
    /\ timestep = 0
    /\ now = 0
    /\ hw_latency = 0
    /\ fault = "none"

(* The barrier: the first timestep starts at 0, every other one when all   *)
(* work of the one before has finished and the tiles have synchronized.    *)
(* [mutant: the latency is counted from the start of the timestep]         *)
BarrierFromStart == IF timestep = 0 THEN 0 ELSE now + SyncLatency
Barrier == IF timestep = 0 THEN 0 ELSE hw_latency + SyncLatency

StartTimestep ==
    /\ fault = "none"
    /\ pending = NoPacket
    /\ neurons_left = {}
    /\ timestep < MaxTimesteps
    /\ timestep' = timestep + 1
    /\ now' = Barrier
    /\ hw_latency' = Later(hw_latency, now')
    /\ neurons_left' = Core
    /\ UNCHANGED <<fifo, next_fifo, pending, compute_free, fault>>

(* Core::process_timestep: the neuron loop reserves the compute pipeline.  *)
ProcessNeurons(c, service) ==
    /\ fault = "none"
    /\ c \in neurons_left
    /\ LET finish == HwStart(now, compute_free[c]) + service
       IN  /\ compute_free' = [compute_free EXCEPT ![c] = finish]
           /\ hw_latency' = Later(hw_latency, finish)
    /\ neurons_left' = neurons_left \ {c}
    /\ UNCHANGED <<fifo, next_fifo, pending, timestep, now, fault>>

(* traverse: retire what is due, wait for the earliest head if more is     *)
(* left than the path holds, cross the network, pick the core's next FIFO. *)
Traverse(src, dst, core, t, delay) ==
    /\ fault = "none"
    /\ pending = NoPacket
    /\ timestep > 0
    /\ neurons_left = {}
    /\ hw_latency <= now + MaxBacklog
    /\ LET due     == Retire(fifo[dst], t)
           blocked == Occupancy(due) > Capacity(Hops(src, dst))
           send    == IF blocked THEN Later(t, EarliestRelease(due)) ELSE t
           slot    == next_fifo[<<dst, core>>]
       IN  /\ fifo' = [fifo EXCEPT ![dst] =
                          IF blocked THEN Retire(due, send) ELSE due]
           /\ next_fifo' = [next_fifo EXCEPT ![<<dst, core>>] = NextFifo(slot)]
           /\ pending' = [router |-> dst, core |-> core, slot |-> slot,
                          arrival |-> send + delay]
    /\ UNCHANGED <<compute_free, neurons_left, timestep, now, hw_latency, fault>>

(* Core::receive followed by record_destination_processing: the packet     *)
(* takes the compute pipeline, and its FIFO entry is released when the     *)
(* axon-in and synapse service begins.                                     *)
Receive(service, sram) ==
    /\ fault = "none"
    /\ pending # NoPacket
    /\ LET r       == pending.router
           c       == <<r, pending.core>>
           i       == <<pending.core, pending.slot>>
           q       == fifo[r][i]
           release == HwStart(pending.arrival, compute_free[c]) + sram
           finish  == release + service
       IN  /\ compute_free' = [compute_free EXCEPT ![c] = finish]
           /\ \/ /\ q # <<>> /\ release < q[Len(q)].release
                 /\ fault' = "release_order"
                 /\ UNCHANGED <<fifo, pending, hw_latency>>
              \/ /\ ~(q # <<>> /\ release < q[Len(q)].release)
                 /\ Len(q) = RingCapacity
                 /\ fault' = "ring_overflow"
                 /\ UNCHANGED <<fifo, pending, hw_latency>>
              \/ /\ ~(q # <<>> /\ release < q[Len(q)].release)
                 /\ Len(q) # RingCapacity
                 /\ fifo' = [fifo EXCEPT ![r][i] =
                                Append(q, [release |-> release])]
                 /\ pending' = NoPacket
                 /\ hw_latency' = Later(hw_latency, finish)
                 /\ UNCHANGED fault
    /\ UNCHANGED <<next_fifo, neurons_left, timestep, now>>

(* A packet of a direct input layer bypasses NoC and FIFO: it only takes   *)
(* the compute pipeline, from the start of the timestep on.                *)
ReceiveDirect(c, service, sram) ==
    /\ fault = "none"
    /\ pending = NoPacket
    /\ timestep > 0
    /\ neurons_left = {}
    /\ hw_latency <= now + MaxBacklog
    /\ LET finish == HwStart(now, compute_free[c]) + sram + service
       IN  /\ compute_free' = [compute_free EXCEPT ![c] = finish]
           /\ hw_latency' = Later(hw_latency, finish)
    /\ UNCHANGED <<fifo, next_fifo, pending, neurons_left, timestep, now, fault>>

TraverseAny ==
    \E src \in Sources, dst \in Destinations, core \in CoreOffset,
       t \in now .. now + SendSpread, delay \in Delays :
        Traverse(src, dst, core, t, delay)

Next ==
    \/ StartTimestep
    \/ \E c \in Core, service \in NeuronServices : ProcessNeurons(c, service)
    \/ TraverseAny
    \/ \E service \in Services, sram \in SramLatencies :
          \/ Receive(service, sram)
          \/ \E c \in Core : ReceiveDirect(c, service, sram)

Spec == Init /\ [][Next]_vars

-----------------------------------------------------------------------------
TypeOK ==
    /\ fifo \in [Destinations -> [Fifo -> Seq(Entry)]]
    /\ next_fifo \in [Core -> 0 .. FifoNum - 1]
    /\ pending \in Packet \cup {NoPacket}
    /\ compute_free \in [Core -> Nat]
    /\ neurons_left \subseteq Core
    /\ timestep \in Nat
    /\ now \in Nat
    /\ hw_latency \in Nat
    /\ fault \in Faults

(* Neither exception of record_destination_processing is ever thrown: the  *)
(* ring allocated for the longest path is large enough for every mix of    *)
(* path lengths, and the FIFOs of a core release in the order its packets  *)
(* were sent (router.cpp:354-365).                                         *)
NoFault == fault = "none"

(* The whole flow of a router, not only one FIFO, fits the ring of one     *)
(* FIFO, and there is a place left for the packet in flight (the "+ 1" of  *)
(* router.cpp:174-177): waiting for one entry always makes room for one.   *)
RingBound ==
    \A r \in Destinations :
        /\ Occupancy(fifo[r]) <= RingCapacity
        /\ pending # NoPacket /\ pending.router = r
              => Occupancy(fifo[r]) < RingCapacity

(* Every entry leaves its FIFO no later than the entries behind it and no  *)
(* later than its core's pipeline is free, which is no later than the end  *)
(* of the work the statistics have seen.                                   *)
ReleaseOrder ==
    /\ \A r \in Destinations, i \in Fifo :
         \A k \in DOMAIN fifo[r][i] :
            /\ fifo[r][i][k].release <= compute_free[<<r, i[1]>>]
            /\ \A m \in 1 .. k : fifo[r][i][m].release <= fifo[r][i][k].release
    /\ \A c \in Core : compute_free[c] <= hw_latency

(* Backpressure does not cross the barrier: when a timestep starts, every  *)
(* entry of the earlier ones is already due, so the first packet sent to a *)
(* router finds an empty flow (simulator.cpp:436-440).                     *)
BarrierDrains ==
    [][timestep' # timestep =>
          \A r \in Destinations, i \in Fifo :
             \A k \in DOMAIN fifo[r][i] : fifo[r][i][k].release <= now']_vars
=============================================================================
