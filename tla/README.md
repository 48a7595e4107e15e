# A TLA+ verification of SOMA-Sim

SOMA-Sim is a single-threaded C++17 simulator of spiking neural network
hardware, with an MLIR compiler (`compiler/mlir-soma`) that places networks on
it and Python tools that prepare models and data.  This directory holds a
TLA+ model of the simulator and of the compiler's passes, the TLC runs that
check it on small instances, and TLAPS proofs that hold for every value of the constants.
Paths below are relative to the repository (`src/` in `PROJECT.json`).

## 1. The system

### Components, their state and their operations

| Component | Code | State | Operations |
|---|---|---|---|
| Simulation loop | `simulator/src/sim/simulator.cpp` | global queue, deque / active flag / blocking offset per source core, axon-out free times, position in the record stream, event count | `run_timestep_synchronization`, `inject_timestep`, `enqueue_next_input_record`, `process_neurons`, `push_firings`, `enqueue_packets`, `stage_source_packet`, `release_next_source_packet`, `process_data` |
| Global queue | `sim/spike_queue.*` | packets with sequence ids | `push`, `pop` by (timestep, generation time, sequence id) |
| Destination-flow table | `hw/noc/router.cpp` 141-261, 324-372 | per router: one ring of entries per FIFO of each core, round-robin position, total service in flight, one pending packet | `traverse`, `record_destination_processing` |
| Hop resources | `router.cpp` 98-139, 374-431 | free time of every output, link and local ejection | `traverse_hop`, `traverse_local`, XY and static routes |
| Route-density model | `router.cpp` 26-96, 263-343 | density of every port, messages in flight by release time | `adjust_density`, `route_density`, `retire_in_flight`, `traverse` |
| Core | `hw/core.cpp` | ring of delayed accumulation buffers, pending marks, soma state, compute pipeline | `receive`, `receive_local_state`, `process_timestep` |
| Soma | `hw/soma.cpp` | potential, tracer, counts | `process_neuron` (LIF, ST-BIF) |
| Synapse engine | `hw/synapse.hpp`, `runtime/spatial_template.cpp` | none | packets per destination core, updates per packet |
| Attention runtimes | `runtime/incremental_spike_matmul.cpp`, `timestep_spike_attention.cpp` | accumulated operands and product | `update` |
| Tile layout, configurations | `hw/tile.cpp`, `config/*.cpp` | none after load | addresses, neuron permutation, validation, synchronization table |
| Statistics | `sim/stats.cpp` | counters, `hw_latency_` | `record_*`, `begin_timestep`, `complete_timestep` |
| Readers | `runtime/npz.cpp`, `weight_store.cpp`, `config/simple_yaml.cpp`, `input_encoder.cpp` | none after load | parsing |
| Compiler passes | `compiler/mlir-soma/lib` | the IR | core mapping (first fit), model/neuron fusion, dead-neuron elimination, lowering |
| Python tools | `compiler/connectivity`, `tools` | files | offline conversion |

### How they interact

A timestep has three stages on one hardware time line.  The loop injects the
inputs of the timestep; every core runs its neuron loop, which reads what the
previous timestep accumulated and emits firings; then the global queue is
drained.  Each packet popped from the queue takes its source core's axon-out,
asks the router table for its arrival time, and is accumulated by the
destination core, whose compute pipeline decides when it is finished; that time
goes back to the router table (the FIFO entry's release) and to the statistics.
The next timestep starts at the latest time the statistics have seen plus the
synchronization latency of the mapped tiles.

Nothing runs concurrently in the program: what is concurrent is the simulated
hardware, and the program visits its events in an order of its own.  The hard
behaviours come from there.  Times are computed when a packet is *visited*, not
when simulated time reaches them: packets are sent out of time order, tables
keep entries whose time has passed, bookkeeping done for one packet is read for
another, and two operations (`traverse` and its record, a deque head and its
release, a record's last packet and the next record) must alternate although
nothing in the types enforces it.  `PROJECT.json` lists these hazards by line.

### What makes each component correct

* Simulation loop: per source, packets are processed in emission order, none
  lost or repeated, and all before the barrier; the queue never goes back in
  time; a run ends.
* Destination flow: neither exception of the table can occur; the ring suffices
  for every mix of path lengths; releases are ordered; no backpressure crosses
  the barrier; the service statistics equal the services of the entries.
* Hop resources: a resource serves one packet at a time; arrival is send time
  plus traversal plus congestion.
* Route density: every message's contribution is removed exactly.
* Core: a packet with delay k is read k+1 neuron phases later, once; skipped
  neurons catch up; local state reaches later layers in the same timestep.
* Synapse engine: the packets of a spike reach every core that holds one of its
  targets and no other, and the cores together add what the connection adds to
  an undivided layer.
* Soma: no charge is lost or made, the tracer is the net number of spikes and
  stays in its range; attention: the incremental product equals the product of
  the accumulated operands, although a core sees only a part of them.
* Tile layout and mapping: addresses and neuron orders are one-to-one.
* Core mapping: slices tile their population, no core is overloaded, every slice
  is fed by the neurons it depends on, over the right routers.
* Rewriting passes: values are defined before use, the function keeps its
  meaning, nothing dead is left for the lowering.

## 2. Modules

| Module | What it is |
|---|---|
| `DestinationFlow` | the FIFO table of the destination_flow congestion model with the pipelines it feeds back from |
| `MCDestinationFlow`, `DestinationFlow.cfg` | a line of three routers |
| `DestinationFlowProofs` | inductive invariant and theorems, for all constants |
| `FlowTable` | the same table as coded: rings in flat arrays, service sums, XY hops, links and ejection ports; implements `DestinationFlow` |
| `MCFlowTable`, `FlowTable.cfg` | two sources whose routes meet on a link, a ring that fills and wraps |
| `FlowTableProofs` | its invariants, that nothing is thrown, and the refinement of `DestinationFlow` |
| `RouteDensity` | the route_density congestion model, driven by the source FIFOs |
| `MCRouteDensity`, `RouteDensity.cfg` | two cores on one router, routes of 0 and 1 hops |
| `RouteDensityProofs` | densities and sums are those of the traffic in flight, and every packet sees it |
| `CoreRing` | the delayed accumulation rings of the cores, the activation rules and the local state handed from layer to layer |
| `MCCoreRing`, `CoreRing*.cfg` | four layers with local state, delays, broadcast and event-activated updates; two layouts in which a promise is broken |
| `CoreRingProofs` | nothing is lost, everything is read on time, the bias is caught up |
| `OrderedDelivery` | abstract: packets of each source in order, barrier when all are processed |
| `SimLoop` | the simulator's event loop in its three queueing modes; implements `OrderedDelivery` |
| `MCSimLoop`, `SimLoop*.cfg` | small traffic for source FIFOs, streamed records, and both |
| `SimLoopProofs` | the loop's invariants in all queueing modes and the refinement of `OrderedDelivery` |
| `Synapse` | neuron orders, partitions, destinations and updates of a packet, checks of weights and layers |
| `Soma` | one transition of one neuron, LIF or ST-BIF |
| `Attention` | operand buffers, incremental and one-timestep attention |
| `LayerStep` | one layer over several cores: packets, reception, neuron phase, firing trace; composes the three above |
| `MCLayerStep`, `LayerStep.cfg` | layers of four to six neurons, all kinds of connections, orders, layouts and soma modes |
| `LayerStepProofs` | the neuron orders are inverse, the firing trace names its neurons, the tracers are their spikes, the cores' attention outputs are the product of the whole operands, their inputs are those of the undivided layer, and charge is conserved |
| `CoreMapping` | the compiler's first-fit core mapping pass |
| `MCCoreMapping`, `CoreMapping.cfg` | up to three operations on four cores |
| `Lists` | selecting from a list, shared by the two models of the compiler |
| `SnnPasses` | the compiler from a NIR block to SNNExec: import, canonicalization, fusion, dead-result elimination, lowering |
| `MCSnnPasses`, `SnnPasses.cfg` | every small block, and functions written by hand |
| `CompilerProofs` | the planner, the edges and the returns of `CoreMapping` for all meshes and programs; definitions, dead results and imported blocks of `SnnPasses` for all blocks and functions |
| `SumTheorems` | lemmas about sums over finite sets and increasing lists of numbers, which `RouteDensity`, `FlowTable`, `CoreMapping` and `LayerStep` are proved with |

### DestinationFlow

State: `fifo[router][<<core, slot>>]` is the queue of one FIFO (the ring's
arrays, heads and sizes are abstracted to a sequence; an entry keeps only its
release time; `FlowTable` has the arrays); `next_fifo`, `pending` (router, FIFO and arrival of the packet
between `traverse` and its record), `compute_free` (the free time of each
core's `compute_pipeline_`), `now` (start of the timestep), `hw_latency`
(`Statistics::hw_latency_`), and `fault` for the exceptions.

Actions: `StartTimestep` is the barrier and the start of the next timestep,
`ProcessNeurons` the reservation of one core's neuron loop, `Traverse` the
whole of `traverse` (retire, wait for the earliest head if the path is full,
retire again, round robin), `Receive` the core's reservation followed by
`record_destination_processing` with its two checks in the order of the code,
and `ReceiveDirect` a direct-input packet, which bypasses the table.  The
network delay is any member of `Delays`, and the send time any time from the
start of the timestep on, in no order: that covers the axon-out, the hops and
the congestion, which only add to the time.  The third check of the record, the
overflow of a 64-bit sum of picoseconds, is in `FlowTable`.

A FIFO belongs to one core because the constructor of `Simulator` refuses two
layers on one physical core, and a core's offset is its identity below its
router (the exception, tile sizes that do not divide the chip, is a listed
hazard).

### FlowTable

State: `ring[router][<<core, slot>>]` is a record of head, size and slots, an
entry of release and service; `total_service` is each router's running sum;
`link_free` is the free time of an output port and its link, which are equal
under `input_fifo`; `ejection_free` that of a core's local port.

Nothing about the time in the network is free here: `Traverse` computes the
congestion from the sum of services (`ExtraLatency`, the rounded-up excess of
the packet's share over the uncontended latency) and walks the XY route
(`HopFinish`, `LinksAfter`, `Arrival`).  The heads wrap, entries that have been
dropped stay in the slots, and the three exceptions of the record and the
underflow of the retirement are values of `fault`.

`DF == INSTANCE DestinationFlow` maps the rings to sequences (`Queues`) and the
pending packet to the fields that module has, with the constant `Delays` for the
delays the network may take (a bound of the instance in the run, `Nat` in the
proofs): `Implements` says that every step of the table is a
step of `DestinationFlow`, so what is proved of that module is true of the
arrays.

### RouteDensity

State: `density` of every port in units of `1 / Scale` (the code has doubles;
`Scale` is a multiple of every `hops + 2`, so weights are exact), the bag
`in_flight` for the queue ordered by release, the two sums beside it, and
`pending`.  The configuration demands source FIFOs with this model, and they
are what makes it right, so each source core has its `train` of waiting packets
and its `offset`; `IsTop` is the global queue's choice among the heads.  `Send`
is the whole of `traverse` (retire, density, blocking, congestion) with the
offset's update, `Record` the core's reservation, an arbitrary wait, with
`record_destination_processing`.  `clock` and `recorded` are history variables.

### CoreRing

What a slot of `delayed_buffers_` accumulates is represented by the set of
timesteps *promised* to its contributions: `delay + 1` timesteps after a packet,
the current timestep for local state.  A neuron that integrates a slot moves the
promises to its `membrane`, so lateness and loss are visible while weights and
potentials are not needed.  `ProcessSpiking` is the neuron loop with its three
reasons to skip a neuron, `ProcessMultiValued` the other branch of
`process_timestep`, `HandOver` one connection of `push_local_state`, `Receive`
one packet.  The layers take their turns in mapping order.  The operand buffers
of attention layers have the same index and are left out.

### SimLoop

The global queue is a set of packets with the code's `sequence_id`; `IsTop` is
the priority queue's order.  `pending`, `active` and `offset` are the three
per-core vectors of the source FIFOs, `axon_free` the axon-out resources,
`records` what `input_stream_next_` has not reached, `emissions` the firings or
records whose packets are being emitted.  The program is sequential, so its
nested loops are unfolded: one action per iteration (`RunNeurons` per core, the
`Emit*` actions per packet, `Process` per popped packet, `Release*` for the call
that ends `process_data`), and no other action is enabled in between where the
code has no choice.  `process_neurons` visits the cores in mapping order; the
model visits them in any order, which only adds behaviours.  What the network
and the destination core add is a delay from `Transits`, plus a blocking of the
source from `Blockings` in source-FIFO mode.  `clock`, `emitted` and
`delivered` are history variables: nothing depends on them.

`hardware_config.cpp` 244-251 allows `source_packet_fifo` exactly with the
route_density model, so `DestinationFlow` never meets the source FIFOs.

### Synapse, Soma, Attention and LayerStep

`Synapse`, `Soma` and `Attention` are operators without state.  A layer and a
connection are records with the arrays the weight store loads; weights,
potentials and inputs are integers (the code has floats, and int32 for the
unsigned comparison, whose wrap-around `Soma` keeps).  For each kind of connection
there are two definitions: what a spike adds to a whole layer (the updates that
`SynapseEngine::apply_to_physical_range` selects, without the bounds of a core), and,
from the code's index arithmetic for one core, the partitions it is sent to
(`Destinations`) and what it adds on one of them (`Updates`).  The updates
of a spike are a family of pairs of a neuron and a weight, indexed by what the code
iterates over (an entry and a channel, a bit of a crossbar row): they are added up,
so that their order does not matter.

`LayerStep` puts them to work.  A configuration `cfg` is a layer, its
connections, its soma and its place on the chip; `Load` is what the constructors
and `validate` refuse.  `Fire` is `enqueue_packets` for one spike: one packet per
destination.  `ReceiveUpdates` and `ReceiveOperand` are `Core::receive` of any
packet under way, `LocalState` the write past the network, and `Process` the
neuron phase of all cores of the layer.  `buffer` and `neurons` are indexed by
physical neuron.  `owed` is a history variable: what the same spikes would have
done to one undivided layer in logical order, with whole operand tensors.
`ArrivesWhole`, `ProductMaintained` and `ChargeConserved` compare the two.  Inputs
have no delay here, every neuron is visited, and no layer is multi-valued: the
ring, catch-up and chained local state are in `CoreRing`.

### CoreMapping

`Import` is everything before the planner, `PlaceChunk` one round of its inner
loop with `RefuseShape`, `MeshFull` and `NextOp` as the ways out, `CreateCore` one
core operation with all its operands and their send and receive operations,
`Finish` the return and the erasure.  `program`, `hardware` and `symbols` are the
inputs.  A tensor shape appears as its population, 0 for one the pass refuses; a
core operation's `operands` hold the metadata arrays the pass writes and the
coordinates of the routers; `mapped` lists the core operations made for each
operation so far.

### SnnPasses

The IR is the sequence of operations of a function, a value the pair of an id and
a role; one action is one iteration of a pass's loop (`EmitNode`, `Canonicalize`,
`FuseOne`, `DceOne`, `LowerOne`) or its beginning or end, where the refusals are.
`stage = "dangling"` is the one exit of the code that is no diagnostic: an
`st_bif` erased while a model operation without an `st_bif` of its own uses its
result.  `Meaning` gives every value a term; `SameDataflow` compares the terms the
function returns after each pass with those before all.  Shapes, element types and
scalar attributes are left out, and `scale` is kept because `MergeRescale`
computes with it.  What diagnostics and verifiers say of them is one action:
`RefuseFunction` stops, at any point from the fusion to the end of the lowering, a
function that was written by hand; an imported one is never refused this way, since the
importer declares its arguments as spike tensors (nir-to-snnop.py:96) and the attributes
it copies from the block are taken to be valid.  `OpKinds` has one kind for operations of one arity that the passes
treat alike.  The verifiers of the dialects are predicates that
`NothingDeadLeft` and `EdgesCarryData` apply to what the passes make.  What the
passes may be handed is said by `GraphAssumption` (a block is numbered nodes and a list
of edges) and `FunctionAssumption` (what MLIR verifies of any function: one id per
operation, definitions before uses, the operands, results and attributes its operations
declare).

## 3. Runs

| Run | Question | Result |
|---|---|---|
| `destination_flow` | can the table throw, overflow, or carry backpressure over the barrier? | no |
| `flow_table` | do sums, ring indices and congestion stay right, is the network drained at the barrier, do the rings implement the FIFOs? | yes |
| `route_density` | are densities those of the traffic, does every packet see exactly the traffic in flight, does blocking end with the timestep? | yes |
| `core_ring` | is every contribution read in its timestep, once, through chained local state and with skipped neurons, and is the bias of those caught up? | yes |
| `core_ring_early` | the same for an ST-BIF layer whose input comes before its first frame? | violated |
| `core_ring_backward` | the same for local state to a layer mapped earlier? | violated |
| `sim_loop_source_fifo` | do deques, flags and offsets stay consistent with blocking and direct input, does no blocking outlive its timestep, and do time order and source order survive ties? | yes |
| `sim_loop_stream` | does the record chain survive empty records and the event limit? does every run end? | yes |
| `stream_fifo_heads` | streamed records together with source FIFOs: one head per core in the queue, as the configuration's comment says? | violated |
| `layer_step` | do the cores of a layer together do what one undivided layer would: inputs, attention, charge, names of firings? | yes |
| `core_mapping` | are slices, loads, operands, routers and returned results right, whatever the programs? | yes |
| `snn_passes` | do the passes keep definitions before uses and the function's meaning, and leave nothing dead? does what is imported compile? | yes, except attention on the block input, which `ImportedCompiles` names |

The violated runs are the `findings` of `PROJECT.json`.  Each concerns a
configuration that `validate()` accepts: streamed records with source FIFOs,
input to an ST-BIF layer before its `state_start_timestep`, and a
`local_state_buffer` to a layer listed before its source.

### Bounds

`DestinationFlow.cfg` has paths of 0 to 2 hops to one router (capacities 1 to 3,
ring 4), two cores with one FIFO each, services 0 or 2, SRAM 0 or 1, delays 0
or 1 and two timesteps.  `SendSpread` bounds how late after the start a packet
is sent and `MaxBacklog` stops sending when the work in hand is that far
beyond it; four time units already fill the ring to its last place (the mutant
with one place less overflows it) and make the short path wait on a flow filled
through the long one.  The proofs remove these bounds.

`FlowTable.cfg` has paths of 1 and 2 hops (capacities 2 and 3, ring 4) that share a
column link, which is busy for two time units, a neuron loop of 3 and services of
0 and 5, so that packets wait for the core and the share of the work exceeds the
uncontended latency or not.  With a backlog of 8 the ring fills, its head wraps,
the short path waits for the flow and the rounding of the share matters; each of
the mutants needs one of these.  `MCDelays` only has to
exceed every delay of the instance.

`RouteDensity.cfg` has two cores whose trains of one, three or four packets go to
their own router (capacity 1) or the next one (capacity 2); three messages on a
local route have a density of 1.5, so packets are blocked, and trains with pauses
let messages be retired between packets.

`CoreRing.cfg` has two neurons per layer, because a skipped neuron beside a visited
one in the same slot is what can go wrong, a layer of multi-valued state behind
another, a ring of two slots behind both, an unused neuron, and a layer without
broadcast in which a neuron can sit out up to two of the three timesteps.

`MCSimLoop` has two firing cores with three neuron loops (nothing; three firings
of which one reaches no core; two firings, the later with a fan-out of two),
one mapped input core and the direct input, over two timesteps, so that flags,
offsets and free times of the first are seen by the second.  Delays of 0 and 2
and blockings of 0 and 1 make packets overtake each other in finish time and
tie in generation time.  The event limit 7 of `SimLoopStream.cfg` lies between
the packets of one timestep and those of two.

`LayerStep.cfg` has layers of six neurons in two and three channels on cores of two,
three and four, in both orders, so that cores hold whole channels, cut them or
end inside the layer; five attention shapes with cores of one to three outputs;
operand sums bounded by 2 in place of 127, so that the exception occurs; and
membranes bounded by -2 and 2 for saturation.  One spike is enough for the index
arithmetic, which is linear in the packets; operands and somas get two or three
spikes over three timesteps.  `Far` only says which bounds never clip.

`CoreMapping.cfg` has four cores of three neurons and populations from 1 to 7, which
fill, share and overflow cores, cut producer and consumer at different places
and overflow the mesh; every exit of the pass is taken.

`SnnPasses.cfg` has every block of an input and three nodes of four kinds with any
parents, cyclic and rejected ones included, and for pairs of unary nodes the edges in reverse
order; three nodes are enough for a diamond and for an attention whose operands
come from different depths.  The functions written by hand have what the importer
never emits: dead chains, rescale of rescale, and all the fusion refuses.

### Fairness

`Terminates` assumes `WF_vars(Next)`: the one thread of the program keeps
running.  Nothing is assumed about which packet, delay or input comes next.
All other properties are safety properties of `Spec`.

Deadlock is checked in the `SimLoop` runs (the end of the run is an explicit
stuttering action).  The other modules stop, at `MaxTimesteps` or
`FinalTimestep`, or at the end of the pass.

## 4. Proofs

The theorems hold for every value of the constants that the named assumptions
allow; the assumptions say what the types of the code, the configuration checks
and the constructors leave, and TLC evaluates them in every run.  Each proof is an
inductive invariant, one lemma per action and part, and a temporal step.  The parts
of the invariants were checked by TLC on the instances of section 3 before they were
proved.  Where a theorem has a hypothesis, it is written in the theorem and
explained here.

`DestinationFlowProofs` proves, for every mesh, number of cores, FIFO number and
depth, and every set of delays and services (`MeshAssumption`,
`TimeAssumption`): the type invariant, that no exception is thrown
(`NeverThrows`), that the ring is large enough (`RingLargeEnough`), the release
order (`InReleaseOrder`), and that no backpressure crosses the barrier
(`NoBackpressureAcrossBarrier`).

The inductive invariant `IInv` is the conjunction of the type invariant, the
finiteness of every flow, `RingBound`, `ReleaseOrder`, `NoFault`, and that
nothing has happened before the first timestep.  `NoFault` in particular is not
inductive without the others.  A send keeps `RingBound` because waiting for the earliest release frees
at least one slot (`RetireEarliest`: retirement takes a prefix of each FIFO, and
the earliest release is the head of one), so that afterwards either the path's
own capacity, at most that of the longest path, or one slot less than before
bounds the flow (`SendMakesRoom`).  Recording then takes exactly one slot
(`AppendTakesOne`), and a single FIFO is no longer than its flow
(`QueueWithinFlow`).  The order of releases follows from the pipeline: a release
is no earlier than the pipeline's free time, which no entry of that core
exceeds (`ReleaseOrder`), and retirement keeps suffixes
(`RetireKeepsSuffixes`).  The barrier theorem adds that no pipeline is free
later than the recorded latency.

`FlowTableProofs` goes from those queues to the arrays.  `TableInv` (types, heads
below the capacity, a running sum equal to the services in the rings, free times no
later than the latency at the barrier) gives `SumsAreKept` and
`BarrierDrainsNetwork`; the lemmas about rings say what popping a head, dropping a
prefix and writing the next slot do to the sequence a ring stands for, with the
wrap-around of the index.  The recursive walk along a route (`HopFinish`) is shown
to exist, to be defined at every hop and to be no earlier than its start.
`ImplementsQueues` is the refinement of `DestinationFlow`: every action maps to its
namesake, with any natural number as the delay of the network (`Delays = Nat`), as
long as the sum of services has not overflowed, which is the one exception that
`DestinationFlow` does not have.  Its invariant `Q!IInv` then excludes the other
three for the arrays as well (`OnlyServiceOverflow`).  `NeverThrows` discharges the
hypothesis: the sum never exceeds a full ring of the longest services, so if that
fits `SimTime` (2^64 picoseconds in the code) no exception is thrown however long
the run is, and `ImplementsQueuesAlways` has no hypothesis about the behaviour.

`RouteDensityProofs` proves its four properties without a hypothesis.
`BagInv` (density and sums are those of the bag) and the types (`TimeInv`) give
`SumsAreKept`.  `SeesWhatIsInFlight` needs that retiring early is harmless: no
packet left in a FIFO is sent before the one popped last (`OrderInv`), so that what
was retired for one packet is due for all later ones, and what is in flight agrees
with what was recorded beyond the last send (`VisibleInv`).

`CoreRingProofs` proves `NothingIsLost` for all layers, delays and connections.
`PromiseInv`, which needs no condition, says that no contribution lies in a slot
whose turn comes before the timestep promised, and that its neuron is marked
pending; `ReadsOnTime` that it lies in exactly the slot whose turn comes then, at
all times, under the two conditions without which that is false:
local state goes to a layer mapped later (`core_ring_backward` shows the failure)
and no input comes before an ST-BIF layer's first frame (`NothingEarly`;
`core_ring_early`).  The second is a condition on the traffic and therefore a
temporal hypothesis; `ReadsOnTimeFromStart` replaces it by the configuration in
which every layer starts with the first timestep.  `BiasIsCaughtUp` needs catch-up, or that
configuration.

`SimLoopProofs` proves the loop's six invariants and that it implements
`OrderedDelivery`.  The inductive invariant is in layers, each proved with the ones
before it: the types; the phases; sequence ids; the deques
(a core is active while its head is queued or processed, and none waits without a
head); what is being emitted; the offsets; the send times and the axon-out
(`SentInv`); what has been blocked since the timestep began (`SentSince`: whatever
takes an axon-out leaves it no earlier than one axon-out into the timestep, so that the
blocking its core carries fits before the latest finish, and `BlockedSince`); the packets that pass no deque (`LaneInv`); the clock (`ClockInv`, where
it holds); the numbers of the packets (`NumberInv`: emitted but not delivered is
exactly queued and waiting, in order); and the record chain.  `HeadsOnly` and `BlockingCarried` exclude
streamed records, and `PopsOrdered` excludes them together with source FIFOs, since
`stream_fifo_heads` shows the failure.  `ImplementsOrderedDelivery` and
`CleanBarriers` hold in every mode, that one included.  `CleanBarriers` says nothing of
the offsets, which outlive the barrier until the next timestep resets them; that none
of them survives into it is the second half of `BlockingCarried`.

`CompilerProofs` proves the planner's invariants for every mesh, core
capacity and set of programs (`MappingAssumption`, `ProgramAssumption`).
`TypeCorrect` contains that no core is planned for more than its capacity: a slice
is at most the capacity (`ChunkSizeFits`) and first fit returns a core with room
or a new one (`FirstFitFits`, from the existence of a least core with room,
`LeastExists`).  `FirstFitPacks` needs no more than that: a new core is opened only
when every earlier one lacks room for the slice (`SlackPlaceChunk`), and cores only
fill up.  `SlicesTileAlways` needs the strengthening `TileInv`: the planner starts
from nothing, and never has more placed than the population, so that the loop
leaves an operation with exactly its population; a slice continues the tiling
where the last one ended (`TiledAppend`).  `CoresFitTheirLoad` is about the sum of the
slices of all operations on a core; it needs that no slice is on a core that is not
open (`OnOpenCores`), so that a core opens with a load of 0.

`EdgesAlwaysCarryData` and `ReturnsComeBackWhole` are about what is built from the
plan.  Their invariant `EdgeInv` adds to the tiling and the loads that core
operation number `mapped[o][j]` has the operation, offset, size and core of slice `j`
of `o` (`Standing`), and how far the creation has come (`Progress`).  The parts of an operation are then the positions of its core
operations in the order of their creation, the tiling of the plan is a tiling of
these parts, and selecting the parts that overlap an interval leaves consecutive
slices whose overlaps add up to the whole interval: first to last, nothing between
them missing.  For a return the same tiling gives the sum of the sizes and the
order.  What `FlattenSeq` of a list of lists contains, and in which order, follows
from its definition as the limit of a recursive function; since no induction theorem
applies, each such lemma looks at the least position that is a counterexample.

The same module proves about the passes, as `PassSpec` of `SnnPasses`, under the two
assumptions of that module.  `PassInv` is one invariant per stage of the compiler
(`StageOk`): operands resolve, ids name one operation, and

* while blocks are imported, every node visited has its value, and nodes are
  visited after their parents (`ImportOk`);
* while pairs are fused, a fused operation stands before its model operation, which
  is the only other one with its id, and that before its `st_bif`; the pairs still to
  do are untouched (`FuseOk`).  Hence every use that is redirected to the fused operation
  comes after it, and erasing the pairs leaves the ids unique;
* during the elimination, the operations visited are the later ones, and all
  results they have kept are needed (`DceOk`).  Dropping an operation that is visited next
  removes uses only of operations before it, so that what has been visited stays
  live: this is why one backward pass is enough;
* during the lowering, everything is live and has the operands and roles that the
  verifiers want (`LowerOk`).

`OperandsAlwaysDefined` and `NothingDeadIsLowered` follow.  `ImportsCompile` adds
`Imports`, again one condition per stage: every model operation of an imported
block is followed by a neuron of its own, an attention finds its operands'
tracers because the operands have been fused before it, so that after the fusion
there are only fused operations with the operands of their kind, and each of them
is lowered.  A block in which an attention reads the block input is excluded, as
in the property.

`DataflowIsKept` says that no pass changes what a function returns. Comparing two
functions operation by operation does not work, since the passes insert, erase and
rewire; comparing both with the source does. `Denotes` gives a value, by its id and
role alone, the term that the source computes for it: an `acc` the term of the model
operation with that id, a `spike` the neuron over that term. `Preserves` says that
every operation of the function as it stands computes from the terms of its operands
the term of its own id (`Faithful`). The invariant `FlowInv` keeps that, and that the
operands of the return denote what those of the source do. Each pass then has to be
right about one operation only: `MergeRescale` because two scales make one
(`MergedTerm`; this is where a rescale must have no other parameters than its scale,
as `RescaleOp` has, and where scales are integers: the rounding of a product of
doubles is left out), a fused operation because the spike recorded for an `st_bif`
denotes its `out` (`Spiked`) and tracers carry no term, dead-output elimination and
lowering because results and form are not part of the term (`Alike`). That a function
whose operations are faithful returns what it denotes is an induction over its
operations (`PreservedReturns`); the terms exist by `MeaningUnfolds`.

`LayerStepProofs` proves, for all layers, orders, sizes and places of a layer
(`ConfigurationAssumption`: what `hardware_config.cpp` 233-234, `validate` and the
integer types leave), that the two orders of the neurons are inverse to each other
(`NeuronOrdersInverse`), from which the firing trace names the neuron that fired and the
core its packets leave from (`TraceNames`), and that the tracer of an ST-BIF neuron
is the sum of its spikes in that trace and leaves 0 only within its range
(`TracersCountSpikes`).  The invariant `TraceInv` says that every record is the firing
of some neuron in some earlier phase, so that the records of a phase are new; one
phase adds at most one record per neuron (`FiringsAdded`).  The range need not hold
0, where every tracer starts, which `validate` does not ask for.

`ProductsMaintained` is the same module's theorem about attention.  Its invariant
(`AttentionInv`) says of every core, and of every operand slot that one of its outputs
depends on (`Needs`), that what the core holds and what is under way to it add up to
what the spikes have made of that operand (`OperandsOnTheirWay`), that its shadows are
the operands of the earlier steps (`ShadowIsTotal`) and the output is their product.
Two facts about index arithmetic carry it.  A source has exactly one
place [head, row or column, reduction] in its layout, and the slot that
`Core::receive` computes is the entry of that place (`EntryIsSlot`); and a core one of
whose outputs depends on a slot is among those the spike is sent to
(`NeededIsSent`).  Both come from the digits of an index in three bases
(`ThreeDigits`, `DigitsUnique`).  With everything received, a core adds
S_L R + L S_R + L R for its outputs, which is what the whole product grows by
(`MatmulGrows`).  The theorem is for configurations with `OperandsFit`: a
connection has no more sources than its operand has entries (more throw,
`core.cpp` 141, `synapse.hpp` 106), the attention layer is in logical order and
no timestep attention has `row_head_column` operands.  `validate` asks for neither of the last two; with them the
attention runtimes read physical indices or a column count that nothing set.

`InputsArrive`, `SpikesArriveWhole` and `ChargeIsConserved` continue from there to the
inputs and the membranes. For each kind of connection, the updates that a core does of
a spike are those of the undivided layer that name a neuron of that core
(`Restricts`), although the code finds them by other arithmetic: the neurons of the
core in turn (`DenseRange`), a range of channels per entry worked out from its first
and last neuron (`ChannelsOnCore`), a crossbar row. And a core with such an update is
among the destinations, and no other is (`SentWhereNeeded`, `ChannelOnCore`), even
where the code skips the search and visits every core of a layer that keeps whole
channels. `Delivered` says both. The invariant `ArrivalInv` then says of each neuron
that what its core holds and what the packets under way will add to it (`Awaited`) is
what the spikes owe the undivided layer, and that it is pending or about to be woken
exactly if it was touched. Once nothing is under way that is `InputsWhole`. An
attention core adds the change of its product to its input; the invariant of
`ProductsMaintained` is part of this one (`WholeInv`) for that reason. `BoundInv`
bounds the operand sums by the number of spikes that have arrived, since one spike
sends at most one packet to a core; hence a throw has one of the two reasons that
`ArrivesWhole` lists.

The hypotheses are about the configuration. `UpdatesFit`: the model is accepted, and
the updates of every spike name neurons of the layer with integer weights. For
identity, dense and spatial connections the checks of the weight store make the
updates name neurons of the layer; for grouped connections, local state and crossbar
rows they compare the sizes of arrays only (`weight_store.cpp` 53-60, 92-99, 105-110),
and the rest is up to whoever prepares the model. It is satisfied by every accepted
configuration of the runs. `UnitSpikes`, for the throwing half only: spikes have the
values -1, 0 and 1, which is what `process_neuron` fires with; records of an input
file may hold others, of which a single one can exceed the range of an operand sum.

`ChargeIsConserved` adds `BalanceInv`: the balance of every neuron, and that a neuron
that is not pending has no input, because `process_neuron` skips such a neuron when
its membrane and bias are 0. One transition loses nothing (`NeuronCharge`) unless the
membrane is clamped, which depends on the traffic; that no neuron phase clamps is
therefore an action hypothesis, `[][NothingClips]_vars`. TLC confirmed that all steps
of the conserving configurations satisfy it. In the property itself `Far` plays that
part, which suits the instances; the proof does not use it.

`SumTheorems` has what the models' sums over finite sets need (take one element,
split, change one summand, rename, compare, and join stretches of a sequence).
Induction theorems with an operator
parameter cannot be used here, so induction over a set is written as the choice of a
smallest subset that is a counterexample (`SmallestSubset`), which the well-founded
order of finite sets provides; the existence of recursive functions is proved
in the same way.

Only model-checked:

* `Terminates`: temporal reasoning with fairness and ENABLED is outside the prover.
* The three runs that find a violation; the hypotheses of `ReadsOnTime` and
  `PopsOrdered` exclude what they show.

## 5. Not modelled, and the plan

Next, in this order:

1. A comparison of the two ways an ST-BIF neuron without input is treated
   (`core.cpp` 341): visited every timestep, or caught up later.

Not modelled of the parts above: the table without FIFOs (`resource_table`,
shared local port), static routes, the lazy allocation of a flow, attention with
delayed operands, `post_accumulation_rounding` and the rounding of
floats and doubles, the synchronization latency table of the hardware
configuration (a constant of the loop), `final_scores` and the statistics'
counters; of the compiler, tensor shapes, element types and attributes, whose
diagnostics appear only as `RefuseFunction`.

Out of scope: text and archive parsing (`npz.cpp`, `simple_yaml.cpp`,
`input_encoder.cpp`), report writing, the command line, the memory capacity check
(one comparison), and the Python tools' numerical conversions, which hold no state
the simulator depends on; and the MLIR parsers and printers, which are boilerplate
of the framework.
