------------------------------ MODULE SimLoop ------------------------------
(***************************************************************************)
(* The event loop of the simulator (simulator/src/sim/simulator.cpp): per  *)
(* timestep the inputs are injected, every core runs its neuron loop, and  *)
(* the global queue is drained in the order of generation times; then a    *)
(* barrier.  Three ways of feeding the queue interact:                     *)
(*   - plain: a packet is queued when it is emitted and takes its source   *)
(*     core's axon-out when it is popped;                                  *)
(*   - SourceFifo (core.source_packet_fifo): the axon-out is taken on      *)
(*     emission, only one packet per source core is in the global queue,   *)
(*     the others wait in the core's deque and are pushed, delayed by the  *)
(*     blocking their predecessors met, as each head is processed;         *)
(*   - Streaming (mapping.stream_input_records): the records of a timestep *)
(*     are emitted one after the other, the next one when the last packet  *)
(*     of the previous one has been processed.                             *)
(* The network and the destination core are an arbitrary delay here.  The  *)
(* program is sequential: an action is one iteration of one of its loops.  *)
(***************************************************************************)
EXTENDS Integers, Sequences, FiniteSets

CONSTANTS
    NeuronCores,     \* physical cores of computing layers
    InputCores,      \* physical cores of mapped (not direct) input layers
    Direct,          \* the direct input: packets that come from no core
    SourceFifo,      \* core.source_packet_fifo
    Streaming,       \* mapping.stream_input_records
    MaxEvents,       \* --max-events, 0 for no limit
    FinalTimestep,   \* last_timestep + flush_timesteps
    AxonOut,         \* core.axon_out_hw_latency
    SyncLatency,     \* synchronization latency of the mapped tiles
    Inputs,          \* record lists of a timestep: Seq([source, packets])
    NeuronLoops,     \* [service, firings : Seq([delay, packets])]
    Transits,        \* send to end of the destination's processing
    Blockings        \* source blocking of the network model

Core == NeuronCores \cup InputCores
Lanes == Core \cup {Direct}
NoCore == [none |-> TRUE]

Record == [source : InputCores \cup {Direct}, packets : Nat]
Firing == [delay : Nat, packets : Nat]
Ordered(firings) ==
    \A j, k \in DOMAIN firings : j < k => firings[j].delay <= firings[k].delay

ASSUME LaneAssumption ==
    /\ NeuronCores \cap InputCores = {}
    /\ Direct \notin Core
    /\ NoCore \notin Lanes
    /\ SourceFifo \in BOOLEAN
    /\ Streaming \in BOOLEAN

ASSUME TimingAssumption ==
    /\ MaxEvents \in Nat
    /\ FinalTimestep \in Nat
    /\ AxonOut \in Nat
    /\ SyncLatency \in Nat
    /\ Transits \subseteq Nat
    /\ Blockings \subseteq Nat
    /\ ~SourceFifo => Blockings = {0}

ASSUME TrafficAssumption ==
    /\ Inputs \subseteq Seq(Record)
    /\ \A loop \in NeuronLoops :
          /\ loop.service \in Nat
          /\ loop.firings \in Seq(Firing)
          /\ Ordered(loop.firings)
          /\ \A k \in DOMAIN loop.firings : loop.firings[k].delay <= loop.service

VARIABLES
    phase,         \* where the loop is
    timestep,
    step_start,    \* hw_start_time of the timestep
    hw_latency,    \* Statistics::hw_latency_
    queue,         \* queue_: packets with their sequence_id
    next_sequence, \* SpikeQueue::next_sequence_
    pending,       \* source_pending_packets_
    active,        \* source_packet_active_
    offset,        \* source_blocking_offsets_
    axon_free,     \* free time of axon_out_resources_
    unfired,       \* cores whose neuron loop is still to run
    emissions,     \* firings and records whose packets are being emitted
    records,       \* streaming: records of the timestep not yet emitted
    releasing,     \* core whose next pending packet is to be pushed
    events,        \* packets processed
    completed,     \* not stopped by max_events
    clock,         \* history: generation time of the last packet popped
    emitted,       \* history: packets emitted by each source
    delivered      \* history: number of the last packet processed

vars == <<phase, timestep, step_start, hw_latency, queue, next_sequence,
          pending, active, offset, axon_free, unfired, emissions, records,
          releasing, events, completed, clock, emitted, delivered>>

Later(a, b) == IF a < b THEN b ELSE a

(* A packet is numbered within its source; sent is the end of its axon-out *)
(* before any blocking (unblocked_send_time).                              *)
Packet == [source : Lanes, number : Nat, sent : Nat, last : BOOLEAN]
Queued == [packet : Packet, generated : Nat, sequence : Nat]
Emission == [source : Lanes, at : Nat, packets : Nat]
Phases == {"barrier", "neurons", "drain", "done", "thrown"}

-----------------------------------------------------------------------------
(* SpikeQueue: generation time first, then the order of the pushes.        *)
(* [mutant: the order of the pushes only]                                  *)
BeforeInPushOrder(p, q) == p.sequence <= q.sequence
Before(p, q) ==
    \/ p.generated < q.generated
    \/ p.generated = q.generated /\ p.sequence <= q.sequence
IsTop(p) == p \in queue /\ \A q \in queue : Before(p, q)

Push(packet, generated) ==
    /\ queue' = queue \cup {[packet |-> packet, generated |-> generated,
                             sequence |-> next_sequence]}
    /\ next_sequence' = next_sequence + 1

(* A source whose packets pass through the deque of its core.              *)
Staged(source) == SourceFifo /\ source # Direct

Exhausted == MaxEvents # 0 /\ events >= MaxEvents

(* [mutant: the drain loop leaves the last packet behind]                  *)
AlmostDrained == Cardinality(queue) <= 1
Drained == queue = {}

(* The queue holds, or the loop is processing, the head of the core.       *)
(* [mutant: the deque is asked instead of the flag]                        *)
HasWaiting(c) == pending[c] # <<>>
HasHead(c) == active[c]

(* [mutant: back() of the deque is taken, its front removed]               *)
NewestWaiting(c) == pending[c][Len(pending[c])]
NextWaiting(c) == Head(pending[c])

(* The send time of a packet behind the blocking met so far.               *)
BlockedTime(packet) == packet.sent + offset[packet.source]

(* The core whose next packet is due once this one is processed.           *)
(* [mutant: input cores are forgotten]                                     *)
ReleasesOfNeurons(source) ==
    IF Staged(source) /\ source \in NeuronCores THEN source ELSE NoCore
Releases(source) == IF Staged(source) THEN source ELSE NoCore

(* Nothing left to do before the next packet is popped.                    *)
Idle == emissions = <<>> /\ releasing = NoCore

(* [mutant: inputs are stamped before the synchronization of the tiles]    *)
EmissionsTooEarly(recs, at) ==
    [k \in DOMAIN recs |-> [source |-> recs[k].source, at |-> at - SyncLatency,
                            packets |-> recs[k].packets]]
EmissionsOf(recs, at) ==
    [k \in DOMAIN recs |-> [source |-> recs[k].source, at |-> at,
                            packets |-> recs[k].packets]]

(* enqueue_next_input_record: the first record left, if any.               *)
(* [mutant: the position in the record list is not advanced]               *)
TakeRecordAgain(recs, at) ==
    /\ emissions' = IF recs = <<>> THEN <<>>
                    ELSE EmissionsOf(<<Head(recs)>>, at)
    /\ records' = recs
TakeRecord(recs, at) ==
    /\ emissions' = IF recs = <<>> THEN <<>>
                    ELSE EmissionsOf(<<Head(recs)>>, at)
    /\ records' = IF recs = <<>> THEN <<>> ELSE Tail(recs)

IsRecord(source) == source \notin NeuronCores
Streamed(source) == Streaming /\ IsRecord(source)

(* input_record_last of the packet about to be emitted.                    *)
(* [mutant: records of the direct input are not closed]                    *)
ClosesCoreRecord(e) == Streamed(e.source) /\ e.packets = 1 /\ e.source # Direct
ClosesRecord(e) == Streamed(e.source) /\ e.packets = 1

(* std::fill of source_blocking_offsets_ at the head of a timestep.        *)
(* [mutant: the offsets of the timestep before are kept]                   *)
StaleOffsets == offset
FreshOffsets == [c \in Core |-> 0]

-----------------------------------------------------------------------------
Init ==
    /\ phase = "barrier"
    /\ timestep = 0
    /\ step_start = 0
    /\ hw_latency = 0
    /\ queue = {}
    /\ next_sequence = 0
    /\ pending = [c \in Core |-> <<>>]
    /\ active = [c \in Core |-> FALSE]
    /\ offset = [c \in Core |-> 0]
    /\ axon_free = [c \in Core |-> 0]
    /\ unfired = {}
    /\ emissions = <<>>
    /\ records = <<>>
    /\ releasing = NoCore
    /\ events = 0
    /\ completed = TRUE
    /\ clock = 0
    /\ emitted = [l \in Lanes |-> 0]
    /\ delivered = [l \in Lanes |-> 0]

(* The head of the timestep loop and inject_timestep.  The code throws if  *)
(* a packet of the previous timestep is still queued or active.            *)
BeginTimestep(recs) ==
    /\ phase = "barrier"
    /\ timestep < FinalTimestep
    /\ ~Exhausted
    /\ phase' = IF queue # {} \/ (SourceFifo /\ \E c \in Core : active[c])
                THEN "thrown" ELSE "neurons"
    /\ timestep' = timestep + 1
    /\ step_start' = hw_latency
    /\ clock' = hw_latency
    /\ offset' = FreshOffsets
    /\ unfired' = NeuronCores
    /\ IF Streaming THEN TakeRecord(recs, hw_latency)
       ELSE emissions' = EmissionsOf(recs, hw_latency) /\ records' = <<>>
    /\ UNCHANGED <<hw_latency, queue, next_sequence, pending, active,
                   axon_free, releasing, events, completed, emitted, delivered>>

(* process_neurons for one core, and the push_firings of its result.       *)
RunNeurons(c, loop) ==
    /\ phase = "neurons"
    /\ emissions = <<>>
    /\ c \in unfired
    /\ unfired' = unfired \ {c}
    /\ hw_latency' = Later(hw_latency, step_start + loop.service)
    /\ emissions' = [k \in DOMAIN loop.firings |->
                        [source |-> c, at |-> step_start + loop.firings[k].delay,
                         packets |-> loop.firings[k].packets]]
    /\ UNCHANGED <<phase, timestep, step_start, queue, next_sequence, pending,
                   active, offset, axon_free, records, releasing, events,
                   completed, clock, emitted, delivered>>

StartDrain ==
    /\ phase = "neurons"
    /\ emissions = <<>>
    /\ unfired = {}
    /\ phase' = "drain"
    /\ UNCHANGED <<timestep, step_start, hw_latency, queue, next_sequence,
                   pending, active, offset, axon_free, unfired, emissions,
                   records, releasing, events, completed, clock, emitted,
                   delivered>>

-----------------------------------------------------------------------------
(* enqueue_packets, one packet of the first emission: with a source FIFO   *)
(* it takes the core's axon-out now.                                       *)
NewPacket ==
    LET e == Head(emissions)
    IN  [source |-> e.source,
         number |-> emitted[e.source] + 1,
         sent   |-> IF Staged(e.source)
                    THEN Later(e.at, axon_free[e.source]) + AxonOut
                    ELSE e.at,
         last   |-> ClosesRecord(e)]

EmitPacket ==
    /\ emissions # <<>>
    /\ Head(emissions).packets > 0
    /\ LET e == Head(emissions)
       IN  /\ emitted' = [emitted EXCEPT ![e.source] = @ + 1]
           /\ axon_free' = IF Staged(e.source)
                           THEN [axon_free EXCEPT ![e.source] = NewPacket.sent]
                           ELSE axon_free
           /\ emissions' = IF e.packets = 1 THEN Tail(emissions)
                           ELSE [emissions EXCEPT ![1].packets = @ - 1]
    /\ UNCHANGED <<phase, timestep, step_start, hw_latency, offset, unfired,
                   records, releasing, events, completed, clock, delivered>>

(* Streamed packets and those without a source FIFO go to the queue.       *)
EmitToQueue ==
    /\ EmitPacket
    /\ Streamed(NewPacket.source) \/ ~Staged(NewPacket.source)
    /\ Push(NewPacket, NewPacket.sent)
    /\ UNCHANGED <<pending, active>>

(* stage_source_packet: the only packet of its core becomes the head ...   *)
EmitHead ==
    /\ EmitPacket
    /\ Staged(NewPacket.source) /\ ~Streamed(NewPacket.source)
    /\ ~HasHead(NewPacket.source)
    /\ Push(NewPacket, BlockedTime(NewPacket))
    /\ active' = [active EXCEPT ![NewPacket.source] = TRUE]
    /\ UNCHANGED pending

(* ... and the others wait behind it.                                      *)
EmitPending ==
    /\ EmitPacket
    /\ Staged(NewPacket.source) /\ ~Streamed(NewPacket.source)
    /\ HasHead(NewPacket.source)
    /\ pending' = [pending EXCEPT ![NewPacket.source] = Append(@, NewPacket)]
    /\ UNCHANGED <<queue, next_sequence, active>>

(* A firing or record that reaches no core; a streamed record hands over   *)
(* to the next one at once.                                                *)
SkipEmission ==
    /\ emissions # <<>>
    /\ Head(emissions).packets = 0
    /\ IF Streamed(Head(emissions).source)
       THEN TakeRecord(records, step_start)
       ELSE emissions' = Tail(emissions) /\ UNCHANGED records
    /\ UNCHANGED <<phase, timestep, step_start, hw_latency, queue,
                   next_sequence, pending, active, offset, axon_free, unfired,
                   releasing, events, completed, clock, emitted, delivered>>

-----------------------------------------------------------------------------
(* queue_.pop and process_data up to its last two calls.                   *)
Process(p, blocking, transit) ==
    LET source  == p.packet.source
        plain   == ~SourceFifo /\ source # Direct
        sent    == IF plain THEN Later(p.generated, axon_free[source]) + AxonOut
                   ELSE p.generated
        blocked == IF Staged(source) THEN blocking ELSE 0
    IN  /\ phase = "drain"
        /\ Idle
        /\ ~Exhausted
        /\ IsTop(p)
        /\ queue' = queue \ {p}
        /\ axon_free' = IF plain THEN [axon_free EXCEPT ![source] = sent]
                        ELSE axon_free
        /\ offset' = IF Staged(source) THEN [offset EXCEPT ![source] = @ + blocked]
                     ELSE offset
        /\ hw_latency' = Later(hw_latency, sent + blocked + transit)
        /\ events' = events + 1
        /\ clock' = p.generated
        /\ delivered' = [delivered EXCEPT ![source] = p.packet.number]
        /\ IF p.packet.last THEN TakeRecord(records, step_start)
           ELSE UNCHANGED <<emissions, records>>
        /\ releasing' = Releases(source)
        /\ UNCHANGED <<phase, timestep, step_start, next_sequence, pending,
                       active, unfired, completed, emitted>>

(* release_next_source_packet, after the packets of a next record.         *)
ReleaseNext ==
    /\ releasing # NoCore
    /\ emissions = <<>>
    /\ pending[releasing] # <<>>
    /\ Push(NextWaiting(releasing), BlockedTime(NextWaiting(releasing)))
    /\ pending' = [pending EXCEPT ![releasing] = Tail(@)]
    /\ releasing' = NoCore
    /\ UNCHANGED <<phase, timestep, step_start, hw_latency, active, offset,
                   axon_free, unfired, emissions, records, events, completed,
                   clock, emitted, delivered>>

ReleaseNone ==
    /\ releasing # NoCore
    /\ emissions = <<>>
    /\ pending[releasing] = <<>>
    /\ active' = [active EXCEPT ![releasing] = FALSE]
    /\ releasing' = NoCore
    /\ UNCHANGED <<phase, timestep, step_start, hw_latency, queue,
                   next_sequence, pending, offset, axon_free, unfired,
                   emissions, records, events, completed, clock, emitted,
                   delivered>>

(* The barrier: the tiles synchronize when the queue is empty.             *)
CompleteTimestep ==
    /\ phase = "drain"
    /\ Idle
    /\ Drained
    /\ phase' = "barrier"
    /\ hw_latency' = hw_latency + SyncLatency
    /\ UNCHANGED <<timestep, step_start, queue, next_sequence, pending, active,
                   offset, axon_free, unfired, emissions, records, releasing,
                   events, completed, clock, emitted, delivered>>

(* max_events is looked at before a timestep and before a pop.             *)
StopEarly ==
    /\ Exhausted
    /\ \/ phase = "barrier" /\ timestep < FinalTimestep
       \/ phase = "drain" /\ Idle /\ ~Drained
    /\ phase' = "done"
    /\ completed' = FALSE
    /\ UNCHANGED <<timestep, step_start, hw_latency, queue, next_sequence,
                   pending, active, offset, axon_free, unfired, emissions,
                   records, releasing, events, clock, emitted, delivered>>

Finish ==
    /\ phase = "barrier"
    /\ timestep = FinalTimestep
    /\ phase' = "done"
    /\ UNCHANGED <<timestep, step_start, hw_latency, queue, next_sequence,
                   pending, active, offset, axon_free, unfired, emissions,
                   records, releasing, events, completed, clock, emitted,
                   delivered>>

Terminated == phase \in {"done", "thrown"} /\ UNCHANGED vars

Next ==
    \/ \E recs \in Inputs : BeginTimestep(recs)
    \/ \E c \in NeuronCores, loop \in NeuronLoops : RunNeurons(c, loop)
    \/ StartDrain
    \/ EmitToQueue
    \/ EmitHead
    \/ EmitPending
    \/ SkipEmission
    \/ \E p \in queue, blocking \in Blockings, transit \in Transits :
          Process(p, blocking, transit)
    \/ ReleaseNext
    \/ ReleaseNone
    \/ CompleteTimestep
    \/ StopEarly
    \/ Finish
    \/ Terminated

Spec == Init /\ [][Next]_vars

(* The program is one thread that keeps running.                           *)
FairSpec == Spec /\ WF_vars(Next)

-----------------------------------------------------------------------------
TypeOK ==
    /\ phase \in Phases
    /\ {timestep, step_start, hw_latency, next_sequence, events, clock} \subseteq Nat
    /\ queue \subseteq Queued
    /\ pending \in [Core -> Seq(Packet)]
    /\ active \in [Core -> BOOLEAN]
    /\ offset \in [Core -> Nat]
    /\ axon_free \in [Core -> Nat]
    /\ unfired \subseteq NeuronCores
    /\ emissions \in Seq(Emission)
    /\ records \in Seq(Record)
    /\ releasing \in Core \cup {NoCore}
    /\ completed \in BOOLEAN
    /\ emitted \in [Lanes -> Nat]
    /\ delivered \in [Lanes -> Nat]

(* With a source FIFO the global queue holds at most the head packet of    *)
(* each source core (hardware_config.hpp:96).                              *)
OneQueuedPerSource ==
    SourceFifo =>
        \A p, q \in queue :
            p.packet.source = q.packet.source /\ p.packet.source # Direct
                => p = q

(* A packet waits in its core's deque only while the head of that core is  *)
(* queued or being processed: processing the head will push it.            *)
NoStrandedPacket ==
    \A c \in Core :
        pending[c] # <<>> =>
            /\ active[c]
            /\ releasing = c \/ \E p \in queue : p.packet.source = c

(* The blocking of a head delays every later packet of its core in this    *)
(* timestep, and no later: the queued head was pushed with all blocking    *)
(* met before it, and what a core carries was met since the timestep       *)
(* began, so it fits between the earliest send of the timestep and the     *)
(* latest finish seen (simulator.cpp:273, 290, 325, 413).                  *)
OffsetCarried ==
    /\ \A p \in queue :
          Staged(p.packet.source) =>
              p.generated = p.packet.sent + offset[p.packet.source]
    /\ \A c \in Core :
          offset[c] > 0 => step_start + AxonOut + offset[c] <= hw_latency

(* Neither logic_error at the head of the timestep loop is thrown, and the *)
(* barrier finds nothing else left over either: no deque, no unread        *)
(* record, no packet emitted but not processed, no axon-out reservation    *)
(* that reaches past the barrier (simulator.cpp:412-421, 437-441).  The    *)
(* offsets remain until the next timestep resets them (OffsetCarried).     *)
BarrierClean ==
    /\ phase # "thrown"
    /\ phase = "barrier" =>
          /\ queue = {}
          /\ \A c \in Core : pending[c] = <<>> /\ ~active[c]
          /\ records = <<>>
          /\ delivered = emitted
          /\ \A c \in Core : axon_free[c] <= hw_latency

(* The queue interleaves all packets by generation time: nothing is queued *)
(* or can still be released before the packet popped last.                 *)
PopsInOrder ==
    /\ \A p \in queue : clock <= p.generated
    /\ \A c \in Core : \A k \in DOMAIN pending[c] :
          clock <= pending[c][k].sent + offset[c]

(* The chain of streamed records never breaks: while records are left or   *)
(* packets of one are queued, exactly one queued packet will call for the  *)
(* next record, and it is behind all other packets of its own.             *)
RecordChain ==
    LET queuedRecords == {p \in queue : IsRecord(p.packet.source)}
        calling       == {p \in queuedRecords : p.packet.last}
        emitting      == emissions # <<>> /\ IsRecord(Head(emissions).source)
    IN  Streaming /\ ~emitting /\ (records # <<>> \/ queuedRecords # {})
            => /\ Cardinality(calling) = 1
               /\ \A p \in calling : \A q \in queuedRecords : Before(q, p)

(* The packets of every source are processed in emission order, none lost  *)
(* or repeated, and all of them before the barrier.                        *)
Rounds == IF phase = "barrier" \/ (phase = "done" /\ queue = {})
          THEN timestep ELSE timestep - 1
OD == INSTANCE OrderedDelivery
        WITH round <- Rounds, halted <- phase = "done"
DeliversInOrder == OD!Spec

(* Every run comes to an end.                                              *)
Terminates == <>(phase = "done")
=============================================================================
