--------------------------- MODULE RouteDensity ----------------------------
(***************************************************************************)
(* The route_density congestion model of RouterResourceTable               *)
(* (simulator/src/hw/noc/router.cpp).  A message in flight lies on every   *)
(* port of its XY route with the weight 1 / (hops + 2) until its           *)
(* processing starts; the next packet is blocked at its source while the   *)
(* density of its route exceeds what the route's buffers hold, and slowed  *)
(* down by the density and the mean service of all messages in flight.     *)
(*                                                                         *)
(* Nothing removes a message when its time comes: the next packet does,    *)
(* before it looks at the density.  That is only right if packets look in  *)
(* the order of their send times, which the source FIFOs are for: this     *)
(* model comes only with core.source_packet_fifo (hardware_config.cpp      *)
(* 244-251), so they are part of this module.  The core is an arbitrary    *)
(* wait before the processing.  Densities, doubles in the code, are exact  *)
(* multiples of 1 / Scale here; the rounding of doubles is not modelled.   *)
(***************************************************************************)
EXTENDS Integers, Sequences, FiniteSets, FiniteSetsExt, Bags

CONSTANTS
    Cols, Rows, CoresPerPe, FifoDepth,
    Sources, Destinations,   \* routers
    RouterLatency,           \* noc.router_hw_latency()
    LinkLatency,             \* the latency of a link in each direction
    Services,                \* axon-in plus synapse service of a packet
    Waits,                   \* arrival to start of processing
    SyncLatency,             \* synchronization latency of the mapped tiles
    Scale,                   \* a multiple of hops + 2 for every route
    Trains,                  \* packets of a core in a timestep: sequences of
                             \* axon-out finish times after its start
    MaxTimesteps             \* bound: timesteps of a behaviour

Router == (0 .. Cols - 1) \X (0 .. Rows - 1)
CoreOffset == 0 .. CoresPerPe - 1
Directions == {"east", "west", "north", "south"}
Port == Router \X ((Directions \X {0}) \cup ({"core"} \X CoreOffset))

ASSUME DensityAssumption ==
    /\ {Cols, Rows, CoresPerPe, FifoDepth, Scale} \subseteq Nat \ {0}
    /\ Sources \subseteq Router /\ Destinations \subseteq Router
    /\ RouterLatency \in Nat /\ LinkLatency \in [Directions -> Nat]
    /\ Services \subseteq Nat /\ Waits \subseteq Nat
    /\ {SyncLatency, MaxTimesteps} \subseteq Nat
    /\ Trains \subseteq Seq(Nat)
    /\ \A train \in Trains : \A i, j \in DOMAIN train :
          i < j => train[i] <= train[j]
    /\ \A hops \in 0 .. Cols + Rows - 2 : Scale % (hops + 2) = 0

VARIABLES
    density,            \* route_density_, in units of 1 / Scale
    in_flight,          \* in_flight_: a bag of messages
    in_flight_service,  \* in_flight_service_
    in_flight_count,    \* in_flight_count_
    pending,            \* pending_in_flight_, or NoMessage
    train,              \* per source core: unblocked_send_time of its head
                        \* and of source_pending_packets_
    offset,             \* source_blocking_offsets_
    timestep, now, hw_latency,
    clock,              \* send time of the packet popped last (history)
    recorded            \* the messages recorded whose processing starts
                        \* after the timestep's start (history)

table == <<density, in_flight, in_flight_service, in_flight_count>>
vars == <<table, pending, train, offset, timestep, now, hw_latency, clock,
          recorded>>

SourceCore == Sources \X CoreOffset
Flow == [source : Sources, destination : Destinations, core : CoreOffset]
Message == [flow : Flow, release : Nat, service : Nat]
NoMessage == [flow |-> <<>>]

-----------------------------------------------------------------------------
Distance(a, b) == IF a < b THEN b - a ELSE a - b
Hops(flow) == Distance(flow.source[1], flow.destination[1])
                + Distance(flow.source[2], flow.destination[2])
Later(a, b) == IF a < b THEN b ELSE a
CeilDiv(a, b) == (a + b - 1) \div b

Toward(a, b, k) == IF a < b THEN a + k ELSE a - k
RowDirection(flow) ==
    IF flow.source[1] < flow.destination[1] THEN "east" ELSE "west"
ColumnDirection(flow) ==
    IF flow.source[2] < flow.destination[2] THEN "north" ELSE "south"
CorePort(flow) == <<flow.source, <<"core", flow.core>>>>

(* The ports on a message's way: its core's at the source, then at every   *)
(* router, the destination included, the direction it comes from.          *)
Route(flow) ==
    LET s == flow.source
        d == flow.destination
    IN  {CorePort(flow)}
        \cup {<<<<Toward(s[1], d[1], k), s[2]>>, <<RowDirection(flow), 0>>>> :
                 k \in 1 .. Distance(s[1], d[1])}
        \cup {<<<<d[1], Toward(s[2], d[2], k)>>, <<ColumnDirection(flow), 0>>>> :
                 k \in 1 .. Distance(s[2], d[2])}

(* adjust_density for one message.                                         *)
Weight(flow) == Scale \div (Hops(flow) + 2)

(* The weight of a bag of messages on one port.                            *)
Load(bag, port) ==
    MapThenSumSet(LAMBDA m : bag[m] * Weight(m.flow),
                  {m \in DOMAIN bag : port \in Route(m.flow)})
ServiceOf(bag) == MapThenSumSet(LAMBDA m : bag[m] * m.service, DOMAIN bag)

(* route_density                                                           *)
DensityOn(dens, flow) == MapThenSumSet(LAMBDA p : dens[p], Route(flow))

(* retire_in_flight: the messages whose processing starts by t.            *)
(* [mutant: only those whose processing starts before t]                   *)
DueBefore(t) == {m \in DOMAIN in_flight : m.release < t}
DueAt(t) == {m \in DOMAIN in_flight : m.release <= t}

MinimumLatency(flow) ==
    (Hops(flow) + 1) * RouterLatency
      + Distance(flow.source[1], flow.destination[1]) * LinkLatency[RowDirection(flow)]
      + Distance(flow.source[2], flow.destination[2]) * LinkLatency[ColumnDirection(flow)]

(* blocking: the density above the route's capacity times the mean         *)
(* service, rounded up; congestion: the whole density, per router.         *)
Blocking(flow, dens, service, count) ==
    CeilDiv(Later(0, dens - (Hops(flow) + 1) * FifoDepth * Scale) * service,
            Scale * Later(1, count))
Congestion(flow, dens, service, count) ==
    CeilDiv(dens * service, Scale * Later(1, count) * (Hops(flow) + 1))

-----------------------------------------------------------------------------
Init ==
    /\ density = [p \in Port |-> 0]
    /\ in_flight = EmptyBag
    /\ in_flight_service = 0
    /\ in_flight_count = 0
    /\ pending = NoMessage
    /\ train = [c \in SourceCore |-> <<>>]
    /\ offset = [c \in SourceCore |-> 0]
    /\ timestep = 0
    /\ now = 0
    /\ hw_latency = 0
    /\ clock = 0
    /\ recorded = EmptyBag

(* The barrier.                                                            *)
(* [mutant: the next timestep starts without waiting for the cores]        *)
StartAtClock == IF timestep = 0 THEN 0 ELSE clock + SyncLatency
NextStart == IF timestep = 0 THEN 0 ELSE hw_latency + SyncLatency

After(bag, t) == [m \in {x \in DOMAIN bag : x.release > t} |-> bag[m]]

StartTimestep ==
    /\ pending = NoMessage
    /\ \A c \in SourceCore : train[c] = <<>>
    /\ timestep < MaxTimesteps
    /\ timestep' = timestep + 1
    /\ now' = NextStart
    /\ clock' = now'
    /\ hw_latency' = Later(hw_latency, now')
    /\ \E trains \in [SourceCore -> Trains] :
          train' = [c \in SourceCore |->
                       [k \in DOMAIN trains[c] |-> now' + trains[c][k]]]
    /\ offset' = [c \in SourceCore |-> 0]
    /\ recorded' = After(recorded, now')
    /\ UNCHANGED <<table, pending>>

(* The head of a source FIFO enters the global queue with the blocking its *)
(* core has met so far.                                                    *)
HeadTime(c) == Head(train[c]) + offset[c]
IsTop(c) ==
    /\ train[c] # <<>>
    /\ \A d \in SourceCore : train[d] # <<>> => HeadTime(c) <= HeadTime(d)

(* traverse for the packet popped, and the offset of its core.             *)
Send(c, destination) ==
    LET t        == HeadTime(c)
        flow     == [source |-> c[1], core |-> c[2], destination |-> destination]
        due      == DueAt(t)
        retired  == [m \in due |-> in_flight[m]]
        rest     == [p \in Port |-> density[p] - Load(retired, p)]
        service  == in_flight_service - ServiceOf(retired)
        count    == in_flight_count - BagCardinality(retired)
        dens     == DensityOn(rest, flow)
        blocking == Blocking(flow, dens, service, count)
    IN  /\ pending = NoMessage
        /\ IsTop(c)
        /\ train' = [train EXCEPT ![c] = Tail(@)]
        /\ offset' = [offset EXCEPT ![c] = @ + blocking]
        /\ density' = rest
        /\ in_flight' = [m \in DOMAIN in_flight \ due |-> in_flight[m]]
        /\ in_flight_service' = service
        /\ in_flight_count' = count
        /\ clock' = t
        /\ pending' = [flow |-> flow,
                       arrival |-> t + blocking
                           + Later(MinimumLatency(flow),
                                   Congestion(flow, dens, service, count))]
        /\ UNCHANGED <<timestep, now, hw_latency, recorded>>

(* Core::receive and record_destination_processing                         *)
(* [mutant: only the first port of the route takes the weight]             *)
AddAtSource(m) ==
    [p \in Port |-> density[p] + IF p = CorePort(m.flow) THEN Weight(m.flow) ELSE 0]
AddMessage(m) ==
    [p \in Port |-> density[p] + IF p \in Route(m.flow) THEN Weight(m.flow) ELSE 0]

Record(wait, service) ==
    LET m == [flow |-> pending.flow, release |-> pending.arrival + wait,
              service |-> service]
    IN  /\ pending # NoMessage
        /\ density' = AddMessage(m)
        /\ in_flight' = in_flight (+) SetToBag({m})
        /\ recorded' = recorded (+) SetToBag({m})
        /\ in_flight_service' = in_flight_service + service
        /\ in_flight_count' = in_flight_count + 1
        /\ hw_latency' = Later(hw_latency, m.release + service)
        /\ pending' = NoMessage
        /\ UNCHANGED <<train, offset, timestep, now, clock>>

Next ==
    \/ StartTimestep
    \/ \E c \in SourceCore, destination \in Destinations : Send(c, destination)
    \/ \E wait \in Waits, service \in Services : Record(wait, service)

Spec == Init /\ [][Next]_vars

-----------------------------------------------------------------------------
TypeOK ==
    /\ density \in [Port -> Nat]
    /\ DOMAIN in_flight \subseteq Message /\ IsABag(in_flight)
    /\ {in_flight_service, in_flight_count, timestep, now, hw_latency, clock}
            \subseteq Nat
    /\ train \in [SourceCore -> Seq(Nat)]
    /\ offset \in [SourceCore -> Nat]
    /\ pending = NoMessage \/ (pending.flow \in Flow
                               /\ pending.arrival \in Nat)

(* The density of every port, the sum of services and the count are those  *)
(* of the messages in flight: what a message adds when it is recorded is   *)
(* what is taken away when a later packet retires it (router.cpp:26-52,    *)
(* 84-96, 337-341).                                                        *)
DensityAccounting ==
    /\ \A p \in Port : density[p] = Load(in_flight, p)
    /\ in_flight_service = ServiceOf(in_flight)
    /\ in_flight_count = BagCardinality(in_flight)

(* When a packet looks at the network, the messages in flight are exactly  *)
(* those recorded whose processing starts after its send time: the lazy    *)
(* retirement keeps none too long, and none is forgotten by a packet that  *)
(* was visited first but sent later.                                       *)
SeesTrafficInFlight ==
    pending # NoMessage => in_flight = After(recorded, clock)

(* The first packet of a timestep finds an empty network: it is neither    *)
(* blocked nor slowed down by the timestep before.                         *)
FreshTimestep ==
    [][timestep' # timestep =>
          \A m \in DOMAIN in_flight : m.release <= now']_vars
=============================================================================
