----------------------------- MODULE FlowTable -----------------------------
(***************************************************************************)
(* RouterResourceTable as it is coded for congestion_model =               *)
(* destination_flow with core.input_fifo (simulator/src/hw/noc/router.cpp):*)
(* every FIFO is a ring of entries in a flat array with a head and a size, *)
(* every router keeps the sum of the services of its entries, and the time *)
(* in the network comes from that sum and from the free times of the links *)
(* of the XY route and of the core's local ejection port.                  *)
(*                                                                         *)
(* Around it are the callers that feed it back, as in DestinationFlow: the *)
(* compute pipelines of the cores, the neuron loops and the barrier.       *)
(* With input_fifo an output port and its link are free at the same time,  *)
(* so link_free stands for both arrays.  The code allocates a flow at the  *)
(* first packet to its router; here all flows exist from the start.        *)
(***************************************************************************)
EXTENDS Integers, FiniteSets, Sequences, FiniteSetsExt

CONSTANTS
    Cols, Rows, CoresPerPe, FifoNum, FifoDepth,
    Sources, Destinations,
    RouterLatency,    \* noc.router_hw_latency()
    LinkLatency,      \* {east, west, north, south}_link_hw_latency
    LinkBusy,         \* max(link_busy_hw_latency, hw_cycle_time_ps)
    Services, SramLatencies, NeuronServices, SyncLatency,
    MaxSimTime,       \* largest SimTime
    Delays,           \* times in the network that DestinationFlow allows:
                      \* all of them, Nat, or a bound of this instance
    SendSpread, MaxBacklog, MaxTimesteps

Ports == {"east", "west", "north", "south"}

Router == (0 .. Cols - 1) \X (0 .. Rows - 1)

ASSUME FlowAssumption ==
    /\ {Cols, Rows, CoresPerPe, FifoNum, FifoDepth} \subseteq Nat \ {0}
    /\ Sources \subseteq Router /\ Destinations \subseteq Router
    /\ Delays \subseteq Nat /\ Services \subseteq Nat
    /\ SramLatencies \subseteq Nat /\ NeuronServices \subseteq Nat
    /\ {SyncLatency, SendSpread, MaxBacklog, MaxTimesteps} \subseteq Nat

ASSUME HopAssumption ==
    /\ RouterLatency \in Nat
    /\ LinkLatency \in [Ports -> Nat]
    /\ LinkBusy \in Nat
    /\ MaxSimTime \in Nat

VARIABLES
    ring,            \* fifo_entries, fifo_heads and fifo_sizes of each FIFO
    total_service,   \* total_processing_service of each router
    next_fifo, pending,
    link_free,       \* hw_output_free_time_ and hw_link_free_time_
    ejection_free,   \* local_ejection_free_time_
    compute_free, neurons_left, timestep, now, hw_latency, fault

table == <<ring, total_service, next_fifo, pending, link_free, ejection_free>>
vars == <<table, compute_free, neurons_left, timestep, now, hw_latency, fault>>

-----------------------------------------------------------------------------
(* Entry k (from 0) of a ring is at this place of its slots.               *)
(* [mutant: the index is counted from the start of the slots]              *)
PlaceFromStart(f, k) == k % Cardinality(DOMAIN f.slots)
Place(f, k) == (f.head + k) % Cardinality(DOMAIN f.slots)
At(f, k) == f.slots[Place(f, k)]

(* What DestinationFlow keeps of a ring.                                   *)
QueueOf(f) == [k \in 1 .. f.size |-> [release |-> At(f, k - 1).release]]
Queues == [r \in DOMAIN ring |-> [q \in DOMAIN ring[r] |-> QueueOf(ring[r][q])]]

DF == INSTANCE DestinationFlow
        WITH fifo <- Queues

Core == DF!Core
Fifo == DF!Fifo
Capacity(hops) == DF!Capacity(hops)
RingCapacity == DF!RingCapacity
NoPacket == DF!NoPacket
Later(a, b) == DF!Later(a, b)

Hop == Router \X Ports
RingEntry == [release : Nat, service : Nat]
Ring == [head : 0 .. RingCapacity - 1, size : 0 .. RingCapacity,
         slots : [0 .. RingCapacity - 1 -> RingEntry]]
Packet == [router : Destinations, core : DF!CoreOffset,
           slot : 0 .. FifoNum - 1, arrival : Nat]
Faults == {"none", "service_underflow", "release_order", "service_overflow",
           "ring_overflow"}

-----------------------------------------------------------------------------
(* The retire loop on one ring and on all rings of a router.               *)
Due(f, t) == Min({k \in 0 .. f.size - 1 : At(f, k).release > t} \cup {f.size})

(* [mutant: the head does not wrap]                                        *)
DropUnwrapped(f, n) == [f EXCEPT !.head = @ + n, !.size = @ - n]
Drop(f, n) == [f EXCEPT !.head = Place(f, n), !.size = @ - n]
Retire(rings, t) == [q \in Fifo |-> Drop(rings[q], Due(rings[q], t))]

ServiceOf(f, n) == MapThenSumSet(LAMBDA k : At(f, k).service, 0 .. n - 1)
ServiceDue(rings, t) ==
    MapThenSumSet(LAMBDA q : ServiceOf(rings[q], Due(rings[q], t)), Fifo)

Occupancy(rings) == MapThenSumSet(LAMBDA q : rings[q].size, Fifo)

EarliestRelease(rings) ==
    Min({At(rings[q], 0).release : q \in {p \in Fifo : rings[p].size # 0}})

(* The send time after backpressure, and the rings and the service that    *)
(* are retired on the way.                                                 *)
(* [mutant: what the second retire releases stays in the sum]              *)
ServiceOfFirstRetire(rings, t, send) == ServiceDue(rings, t)
ServiceRetired(rings, t, send) ==
    ServiceDue(rings, t) + ServiceDue(Retire(rings, t), send)
SendTime(rings, t, hops) ==
    IF Occupancy(Retire(rings, t)) > Capacity(hops)
    THEN Later(t, EarliestRelease(Retire(rings, t)))
    ELSE t

-----------------------------------------------------------------------------
(* The XY route: along the row first, then along the column.               *)
Step(a, b) == IF a < b THEN 1 ELSE -1
RowHops(src, dst) ==
    [k \in 1 .. DF!Distance(src[1], dst[1]) |->
        <<<<src[1] + Step(src[1], dst[1]) * (k - 1), src[2]>>,
          IF src[1] < dst[1] THEN "east" ELSE "west">>]
ColumnHops(src, dst) ==
    [k \in 1 .. DF!Distance(src[2], dst[2]) |->
        <<<<dst[1], src[2] + Step(src[2], dst[2]) * (k - 1)>>,
          IF src[2] < dst[2] THEN "north" ELSE "south">>]
Route(src, dst) == RowHops(src, dst) \o ColumnHops(src, dst)

HopLatency(hop) == RouterLatency + LinkLatency[hop[2]]

(* minimum_network_latency: every hop and the last router, uncontended.    *)
MinimumLatency(src, dst) ==
    LET route == Route(src, dst)
    IN  MapThenSumSet(LAMBDA k : HopLatency(route[k]), DOMAIN route)
            + RouterLatency

(* extra_network_latency: by how much the packet's share of the service in *)
(* flight, total / (hops + 1), exceeds that minimum, rounded up.           *)
ExtraLatency(total, hops, minimum) ==
    Later(0, (total - minimum * (hops + 1) + hops) \div (hops + 1))

(* traverse_hop along the route: the packet leaves hop k at HopFinish[k].  *)
HopFinish(route, at) ==
    LET finish[k \in 0 .. Len(route)] ==
            IF k = 0 THEN at
            ELSE Later(finish[k - 1], link_free[route[k]]) + HopLatency(route[k])
    IN  finish

(* The link is busy from the start of the hop on.                          *)
(* [mutant: from its end on]                                               *)
BusyFromFinish(finish, hop) == finish + LinkBusy
BusyUntil(finish, hop) == finish - HopLatency(hop) + LinkBusy

LinksAfter(route, at) ==
    [h \in Hop |->
        IF \E k \in DOMAIN route : route[k] = h
        THEN LET k == CHOOSE i \in DOMAIN route : route[i] = h
             IN  BusyUntil(HopFinish(route, at)[k], h)
        ELSE link_free[h]]

(* traverse_local of one core.                                             *)
Arrival(c, at) == Later(at, ejection_free[c]) + RouterLatency

-----------------------------------------------------------------------------
EmptyRing == [head |-> 0, size |-> 0,
              slots |-> [k \in 0 .. RingCapacity - 1 |->
                            [release |-> 0, service |-> 0]]]

Init ==
    /\ ring = [r \in Destinations |-> [q \in Fifo |-> EmptyRing]]
    /\ total_service = [r \in Destinations |-> 0]
    /\ next_fifo = [c \in Core |-> 0]
    /\ pending = NoPacket
    /\ link_free = [h \in Hop |-> 0]
    /\ ejection_free = [c \in Core |-> 0]
    /\ compute_free = [c \in Core |-> 0]
    /\ neurons_left = {}
    /\ timestep = 0
    /\ now = 0
    /\ hw_latency = 0
    /\ fault = "none"

StartTimestep == UNCHANGED table /\ DF!StartTimestep

ProcessNeurons(c, service) == UNCHANGED table /\ DF!ProcessNeurons(c, service)

(* traverse for one packet sent at t.                                      *)
Traverse(src, dst, core, t) ==
    LET hops   == DF!Hops(src, dst)
        send   == SendTime(ring[dst], t, hops)
        served == ServiceRetired(ring[dst], t, send)
        left   == total_service[dst] - served
        start  == send + ExtraLatency(left, hops, MinimumLatency(src, dst))
        route  == Route(src, dst)
        c      == <<dst, core>>
        slot   == next_fifo[c]
        arrive == Arrival(c, HopFinish(route, start)[Len(route)])
    IN  /\ fault = "none"
        /\ pending = NoPacket
        /\ timestep > 0
        /\ neurons_left = {}
        /\ hw_latency <= now + MaxBacklog
        /\ IF left < 0
           THEN fault' = "service_underflow" /\ UNCHANGED table
           ELSE /\ ring' = [ring EXCEPT ![dst] = Retire(Retire(@, t), send)]
                /\ total_service' = [total_service EXCEPT ![dst] = left]
                /\ link_free' = LinksAfter(route, start)
                /\ ejection_free' = [ejection_free EXCEPT ![c] = arrive]
                /\ next_fifo' = [next_fifo EXCEPT ![c] = DF!NextFifo(slot)]
                /\ pending' = [router |-> dst, core |-> core, slot |-> slot,
                               arrival |-> arrive]
                /\ UNCHANGED fault
        /\ UNCHANGED <<compute_free, neurons_left, timestep, now, hw_latency>>

(* Core::receive and record_destination_processing with its three checks.  *)
Back(f) == Place(f, f.size)
RecordFault(f, total, release, service) ==
    IF f.size # 0 /\ release < At(f, f.size - 1).release THEN "release_order"
    ELSE IF MaxSimTime - total < service THEN "service_overflow"
    ELSE IF f.size = RingCapacity THEN "ring_overflow"
    ELSE "none"

Receive(service, sram) ==
    /\ fault = "none"
    /\ pending # NoPacket
    /\ LET r       == pending.router
           c       == <<r, pending.core>>
           i       == <<pending.core, pending.slot>>
           f       == ring[r][i]
           release == DF!HwStart(pending.arrival, compute_free[c]) + sram
           finish  == release + service
       IN  /\ compute_free' = [compute_free EXCEPT ![c] = finish]
           /\ fault' = RecordFault(f, total_service[r], release, service)
           /\ IF fault' = "none"
              THEN /\ ring' = [ring EXCEPT
                        ![r][i].slots[Back(f)] =
                            [release |-> release, service |-> service],
                        ![r][i].size = @ + 1]
                   /\ total_service' = [total_service EXCEPT ![r] = @ + service]
                   /\ pending' = NoPacket
                   /\ hw_latency' = Later(hw_latency, finish)
              ELSE UNCHANGED <<ring, total_service, pending, hw_latency>>
    /\ UNCHANGED <<next_fifo, link_free, ejection_free, neurons_left,
                   timestep, now>>

ReceiveDirect(c, service, sram) ==
    UNCHANGED table /\ DF!ReceiveDirect(c, service, sram)

TraverseAny ==
    \E src \in Sources, dst \in Destinations, core \in DF!CoreOffset,
       t \in now .. now + SendSpread : Traverse(src, dst, core, t)

Next ==
    \/ StartTimestep
    \/ \E c \in Core, service \in NeuronServices : ProcessNeurons(c, service)
    \/ TraverseAny
    \/ \E service \in Services, sram \in SramLatencies :
          \/ Receive(service, sram)
          \/ \E c \in Core : ReceiveDirect(c, service, sram)

Spec == Init /\ [][Next]_vars

-----------------------------------------------------------------------------
TypeOK ==
    /\ ring \in [Destinations -> [Fifo -> Ring]]
    /\ total_service \in [Destinations -> 0 .. MaxSimTime]
    /\ next_fifo \in [Core -> 0 .. FifoNum - 1]
    /\ pending \in Packet \cup {NoPacket}
    /\ link_free \in [Hop -> Nat]
    /\ ejection_free \in [Core -> Nat]
    /\ compute_free \in [Core -> Nat]
    /\ neurons_left \subseteq Core
    /\ {timestep, now, hw_latency} \subseteq Nat
    /\ fault \in Faults

(* The running sum of a router is the service of exactly the entries in    *)
(* its rings, whatever was retired before and after a wait: it neither     *)
(* underflows nor drifts (router.cpp:190-193, 371).                        *)
ServiceAccounting ==
    /\ fault # "service_underflow"
    /\ \A r \in Destinations :
          total_service[r] =
              MapThenSumSet(LAMBDA q : ServiceOf(ring[r][q], ring[r][q].size), Fifo)

(* When a timestep starts nothing is left of the traffic of the one before *)
(* on an ejection port, nor on a link as long as a link is not configured  *)
(* to be busy for longer than the way through it and its two routers.      *)
NetworkDrained ==
    [][timestep' # timestep =>
          /\ \A c \in Core : ejection_free[c] <= now'
          /\ \A h \in Hop : LinkBusy <= HopLatency(h) + RouterLatency
                                => link_free[h] <= now']_vars

(* The rings with their index arithmetic, sums and hop times behave as the *)
(* FIFOs of DestinationFlow, so everything proved there holds here.        *)
Implements == DF!Spec
=============================================================================
