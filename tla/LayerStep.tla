------------------------------ MODULE LayerStep ------------------------------
(***************************************************************************)
(* One layer spread over the cores of its partitions, fed through its      *)
(* connections: the spike of a source becomes one packet per partition     *)
(* (Simulator::enqueue_packets), a core applies its packets in any order   *)
(* (Core::receive), and the neuron phase of the next timestep runs the     *)
(* attention product and every neuron of every core                        *)
(* (Core::process_timestep), and records the firings.  Inputs are          *)
(* undelayed here: the delay ring, catch-up mode and multi-valued layers   *)
(* are CoreRing's.                                                         *)
(***************************************************************************)
EXTENDS Attention, Soma

CONSTANTS
    Configurations,  \* [layer, conns, soma, threshold, initial, bias, start, first, taken,
                     \*  cores, per_tile, per_chip, values, sent]: sent bounds the
                     \*  spikes, values are those they have
    FinalTimestep,
    Transient        \* bound of an operand sum; 127 in the code

ConnectionTypes == {"identity", "local_state_buffer", "grouped_dense", "dense", "spatial",
                    "crossbar", "attention"}

(* What hardware_config.cpp:233-234, the integer types, validate and         *)
(* weight_store.cpp:114-115 leave, with integers in place of floats.        *)
ASSUME ConfigurationAssumption ==
    \A c \in Configurations :
        /\ c.layer.neurons \in Nat /\ c.layer.channels \in Nat
        /\ c.layer.max \in Nat \ {0} /\ c.layer.order \in {"logical", "channel_major"}
        /\ c.first \in Nat /\ c.per_tile \in Nat \ {0} /\ c.per_chip \in Nat \ {0}
        /\ c.soma.tracer_min \in Int /\ c.soma.tracer_max \in Int
        /\ c.values \cup {c.layer.scale} \subseteq Int
        /\ {c.soma.threshold, c.soma.scale, c.soma.step, c.soma.min, c.soma.max} \subseteq Int
        /\ \A values \in {c.threshold, c.initial, c.bias} :
              values \in [0 .. Size(values) - 1 -> Int]
        /\ \A k \in DOMAIN c.conns :
              /\ c.conns[k].sources \in Nat
              /\ c.conns[k].type \in ConnectionTypes
              /\ c.conns[k].type = "spatial" => c.conns[k].cout = c.layer.channels
        /\ c.layer.op \in {"standard", "incremental_spike_matmul", "timestep_spike_attention"}
        /\ c.layer.op # "standard" =>
              {c.layer.heads, c.layer.rows, c.layer.reduction, c.layer.columns} \subseteq Nat

ASSUME TransientAssumption == Transient \in Nat

VARIABLES
    cfg, phase, timestep, sent,
    flight,                       \* packets under way
    buffer, pending,              \* per physical neuron
    operands, attention_pending,  \* per partition
    shadow, output,               \* of IncrementalSpikeMatmul, per partition and neuron
    neurons,                      \* [voltage, tracer] per physical neuron
    trace,                        \* firing_trace_
    owed                          \* what the same spikes would have done to one
                                  \* undivided layer in logical order

vars == <<cfg, phase, timestep, sent, flight, buffer, pending, operands,
          attention_pending, shadow, output, neurons, trace, owed>>

layer == cfg.layer
Logical == 0 .. layer.neurons - 1
Cores == Partitions(layer)
IsAttention == layer.op # "standard"
Zeros(operand) == [i \in 0 .. OperandSize(layer, operand) - 1 |-> 0]
NoOperands ==
    IF ~ IsAttention THEN [b \in Buffers |-> <<>>]
    ELSE [b \in Buffers |->
            Zeros(IF layer.op = "incremental_spike_matmul" THEN b ELSE "q")]
At(values, default, logical) ==
    IF values = <<>> THEN default ELSE ValueOf(layer, values, logical)
Threshold(logical) == At(cfg.threshold, cfg.soma.threshold, logical)
Bias(logical) == At(cfg.bias, 0, logical)
Initial(logical) == At(cfg.initial, 0, logical)
NothingOwed ==
    [input |-> [l \in Logical |-> 0], touched |-> {}, now |-> NoOperands,
     total |-> NoOperands, product |-> [l \in Logical |-> 0],
     charge |-> [l \in Logical |-> 0]]

(* Constructors of Simulator and Core.                                     *)
Init ==
    /\ cfg \in Configurations
    /\ phase = "load" /\ timestep = 0 /\ sent = 0 /\ flight = {}
    /\ buffer = [n \in Logical |-> 0] /\ pending = {}
    /\ operands = [p \in Cores |-> NoOperands] /\ attention_pending = {}
    /\ shadow = [p \in Cores |-> [b \in {"lhs", "rhs"} |-> NoOperands[b]]]
    /\ output = [n \in Logical |-> 0]
    /\ neurons = [n \in Logical |->
                    [voltage |-> Initial(logical_neuron_index(layer, n)), tracer |-> 0]]
    /\ trace = {}
    /\ owed = NothingOwed

-----------------------------------------------------------------------------
(* The cores of the layer are consecutive from its first one.              *)
GlobalCore(p) == cfg.first + p
core_address(core) ==
    [core |-> core, tile |-> core \div cfg.per_tile, chip |-> core \div cfg.per_chip,
     offset |-> (core % cfg.per_chip) % cfg.per_tile]

Placed == \A p \in Cores : GlobalCore(p) < cfg.cores /\ GlobalCore(p) \notin cfg.taken

Loadable ==
    /\ LayerValid(layer)
    /\ \A k \in DOMAIN cfg.conns : ConnectionValid(layer, cfg.conns[k])
    /\ Shaped(layer, cfg.bias, FALSE)
    /\ Shaped(layer, cfg.threshold, TRUE) /\ Shaped(layer, cfg.initial, TRUE)
    /\ SomaValid(cfg.soma, cfg.threshold)
    /\ Placed

Load ==
    /\ phase = "load"
    /\ phase' = IF Loadable THEN "run" ELSE "rejected"
    /\ UNCHANGED <<cfg, timestep, sent, flight, buffer, pending, operands,
                   attention_pending, shadow, output, neurons, trace, owed>>

-----------------------------------------------------------------------------
Weights(updates) == [k \in DOMAIN updates |-> updates[k][2]]
Hitting(updates, n, index(_)) == {k \in DOMAIN updates : index(updates[k][1]) = n}
Add(values, updates, value, index(_)) ==
    [n \in DOMAIN values |->
        values[n] + value * SumFunctionOnSet(Weights(updates), Hitting(updates, n, index))]
Physical(l) == physical_neuron_index(layer, l)
Logic(l) == l

(* What a spike does to the undivided layer: the updates that              *)
(* apply_to_physical_range selects, without the bounds of a core.          *)
Whole(w, s) ==
    CASE w.type \in {"identity", "local_state_buffer"} -> IdentityUpdates(layer, w, s)
      [] w.type = "grouped_dense" -> GroupedUpdates(w, s)
      [] w.type = "dense" -> DenseUpdates(layer, w, s)
      [] w.type = "spatial" -> SpatialUpdates(w, s)
      [] w.type = "crossbar" ->
            IF w.partition[s] < 0 THEN <<>> ELSE CrossbarRange(layer, w, s, w.partition[s])
      [] w.type = "attention" -> <<>>

(* The entry of the operand tensor [head, row or column, reduction] that    *)
(* source s of the layout is.                                              *)
Entry(w, s) ==
    LET majors == IF w.operand = "rhs" THEN layer.columns ELSE layer.rows
        place(h, m, k) ==
            CASE w.layout = "row_head_reduction" -> (m * layer.heads + h) * layer.reduction + k
              [] w.layout = "row_head_column" -> (k * layer.heads + h) * layer.columns + m
              [] OTHER -> (h * majors + m) * layer.reduction + k
        at == CHOOSE x \in (0 .. layer.heads - 1) \X (0 .. majors - 1) \X Reduction(layer) :
                place(x[1], x[2], x[3]) = s
    IN  (at[1] * majors + at[2]) * layer.reduction + at[3]

Raised(tensors, b, i, v) == [tensors EXCEPT ![b][i] = @ + v]
Owe(w, s, v) ==
    [owed EXCEPT
        !.input = Add(@, Whole(w, s), v, Logic),
        !.touched = @ \cup {Whole(w, s)[k][1] : k \in DOMAIN Whole(w, s)},
        !.now = IF w.type # "attention" THEN @
                ELSE Raised(@, BufferOf(w.operand), Entry(w, s), v)]

(* enqueue_packets for one firing of the source and one connection.        *)
Fire ==
    /\ phase = "run" /\ timestep > 0 /\ sent < cfg.sent
    /\ \E k \in DOMAIN cfg.conns : LET w == cfg.conns[k] IN
       \E s \in 0 .. w.sources - 1, v \in cfg.values :
         /\ w.type # "local_state_buffer"
         /\ IF Routable(layer, w)
              THEN /\ flight' = flight \cup
                        {[conn |-> k, source |-> s, value |-> v, partition |-> p, spike |-> sent] :
                            p \in Destinations(layer, w, s)}
                   /\ owed' = Owe(w, s, v)
                   /\ UNCHANGED phase
              ELSE phase' = "thrown" /\ UNCHANGED <<flight, owed>>
    /\ sent' = sent + 1
    /\ UNCHANGED <<cfg, timestep, buffer, pending, operands, attention_pending,
                   shadow, output, neurons, trace>>

(* push_local_state for one neuron of a multi-valued layer: no packet, the  *)
(* core of the target neuron is written at once.                           *)
LocalState ==
    /\ phase = "run" /\ flight = {} /\ sent < cfg.sent
    /\ \E k \in DOMAIN cfg.conns : LET w == cfg.conns[k] IN
       \E s \in 0 .. w.sources - 1, v \in cfg.values :
         /\ w.type = "local_state_buffer"
         /\ LET updates == Updates(layer, w, s, Partition(layer, s))
            IN  /\ buffer' = Add(buffer, updates, v, Physical)
                /\ pending' = pending \cup {Physical(updates[i][1]) : i \in DOMAIN updates}
         /\ owed' = Owe(w, s, v)
    /\ sent' = sent + 1
    /\ UNCHANGED <<cfg, phase, timestep, flight, operands, attention_pending, shadow,
                   output, neurons, trace>>

(* Core::receive of a packet with numeric updates.                         *)
ReceiveUpdates ==
    /\ phase = "run"
    /\ \E packet \in flight :
         LET w == cfg.conns[packet.conn]
             updates == Updates(layer, w, packet.source, packet.partition)
         IN  /\ w.type # "attention"
             /\ flight' = flight \ {packet}
             /\ buffer' = Add(buffer, updates, packet.value, Physical)
             /\ pending' = pending \cup {Physical(updates[i][1]) : i \in DOMAIN updates}
    /\ UNCHANGED <<cfg, phase, timestep, sent, operands, attention_pending, shadow,
                   output, neurons, trace, owed>>

(* Core::receive of an attention operand.                                  *)
ReceiveOperand ==
    /\ phase = "run"
    /\ \E packet \in flight :
         LET w == cfg.conns[packet.conn]
             p == packet.partition
             i == OperandIndex(layer, w.operand, w.layout, packet.source)
             sum == operands[p][BufferOf(w.operand)][i] + packet.value
         IN  /\ w.type = "attention"
             /\ flight' = flight \ {packet}
             /\ IF sum \in -Transient .. Transient
                  THEN /\ operands' = [operands EXCEPT ![p][BufferOf(w.operand)][i] = sum]
                       /\ attention_pending' = attention_pending \cup {p}
                       /\ UNCHANGED phase
                  ELSE phase' = "thrown" /\ UNCHANGED <<operands, attention_pending>>
    /\ UNCHANGED <<cfg, timestep, sent, buffer, pending, shadow, output, neurons, trace, owed>>

-----------------------------------------------------------------------------
(* What the attention of core p adds to output g, if it has operands.      *)
Delta(p, g) ==
    IF p \notin attention_pending THEN 0
    ELSE IF layer.op = "incremental_spike_matmul"
      THEN DeltaOf(layer, shadow[p], operands[p], g)
      ELSE Attended(layer, operands[p], g)

(* The product of the operands so far, from whole tensors.                 *)
Product(g) ==
    IF ~ IsAttention THEN 0
    ELSE IF layer.op = "incremental_spike_matmul"
      THEN MapThenSumSet(LAMBDA k :
             (owed.total.lhs[LhsAt(layer, g, k)] + owed.now.lhs[LhsAt(layer, g, k)]) *
             (owed.total.rhs[RhsAt(layer, g, k)] + owed.now.rhs[RhsAt(layer, g, k)]),
             Reduction(layer))
      ELSE owed.product[g] + Attended(layer, owed.now, g)

Settle(processed) ==
    LET input(l) == owed.input[l] + layer.scale * (Product(l) - owed.product[l])
    IN  [input |-> [l \in Logical |-> IF processed THEN 0 ELSE input(l)],
         touched |-> IF processed THEN {} ELSE owed.touched,
         now |-> NoOperands,
         total |-> [b \in Buffers |-> [i \in DOMAIN owed.now[b] |-> owed.total[b][i] + owed.now[b][i]]],
         product |-> [l \in Logical |-> Product(l)],
         charge |-> [l \in Logical |->
            owed.charge[l] + IF processed THEN cfg.soma.scale * (input(l) + Bias(l)) ELSE 0]]

(* The neuron phase of the layer.  An st_bif layer before its start keeps   *)
(* its buffer.                                                             *)
Process ==
    LET delta == [n \in Logical |-> Delta(n \div layer.max, n)]
        input(n) == buffer[n] + layer.scale * delta[n]
        woken == pending \cup {n \in Logical : delta[n] # 0}
        processed == ~ (cfg.soma.model = "st_bif" /\ timestep + 1 < cfg.start)
        result == [n \in Logical |->
                    LET l == logical_neuron_index(layer, n)
                    IN  process_neuron(cfg.soma, Threshold(l), neurons[n], input(n),
                                       n \in woken, Bias(l))]
    IN  /\ phase = "run" /\ flight = {} /\ timestep < FinalTimestep
        /\ timestep' = timestep + 1
        /\ output' = [n \in Logical |-> output[n] + delta[n]]
        /\ shadow' = [p \in Cores |->
                        IF p \in attention_pending /\ layer.op = "incremental_spike_matmul"
                        THEN ShadowAfter(layer, p, shadow[p], operands[p]) ELSE shadow[p]]
        /\ operands' = [p \in Cores |-> NoOperands]
        /\ attention_pending' = {}
        /\ IF processed
             THEN /\ buffer' = [n \in Logical |-> 0] /\ pending' = {}
                  /\ neurons' = [n \in Logical |->
                        [voltage |-> result[n].voltage, tracer |-> result[n].tracer]]
                  /\ trace' = trace \cup
                        {[timestep |-> timestep + 1, core |-> GlobalCore(n \div layer.max),
                          local |-> n % layer.max, value |-> result[n].fired,
                          neuron |-> logical_neuron_index(layer, n)] :
                            n \in {m \in Logical : result[m].fired # 0}}
             ELSE /\ buffer' = [n \in Logical |-> input(n)] /\ pending' = woken
                  /\ UNCHANGED <<neurons, trace>>
        /\ owed' = Settle(processed)
        /\ UNCHANGED <<cfg, phase, sent, flight>>

(* source_core_address of a firing's packets, and the neuron that           *)
(* Statistics::write names from the core and the local index of a firing.   *)
source_core(logical) == GlobalCore(Partition(layer, logical))
TraceNeuron(f) ==
    logical_neuron_index(layer, (f.core - cfg.first) * layer.max + f.local)

Next == Load \/ Fire \/ LocalState \/ ReceiveUpdates \/ ReceiveOperand \/ Process

Spec == Init /\ [][Next]_vars

-----------------------------------------------------------------------------
(* Whatever the cut into cores, the order of the neurons and the order of   *)
(* arrival, the cores hold together exactly the input one undivided layer   *)
(* would have got, the neurons a packet touched are the pending ones and    *)
(* no packet is sent to a core it has no update for                         *)
(* (synapse.hpp:49, core.cpp:157-158).                                      *)
InputsWhole ==
    /\ phase = "run" /\ flight = {} =>
          /\ \A l \in Logical : buffer[Physical(l)] = owed.input[l]
          /\ \A l \in owed.touched : Physical(l) \in pending
          /\ ~ IsAttention => \A n \in pending : logical_neuron_index(layer, n) \in owed.touched
    /\ \A packet \in flight :
          LET w == cfg.conns[packet.conn]
          IN  w.type \notin {"attention", "crossbar"} =>
                Updates(layer, w, packet.source, packet.partition) # <<>>

(* All of that, and an accepted model throws only for an operand sum out of *)
(* range (core.cpp:146) or a layout nothing routes (synapse.hpp:104, 115).   *)
ArrivesWhole ==
    /\ InputsWhole
    /\ phase = "thrown" =>
          \/ \E k \in DOMAIN cfg.conns : ~ Routable(layer, cfg.conns[k])
          \/ IsAttention /\ sent > Transient

(* A core that is sent only the operand spikes its outputs depend on, and   *)
(* keeps only the rows and columns they use, has at every step the product  *)
(* of all operands so far (incremental_spike_matmul.cpp:59-60); a timestep  *)
(* attention has Q(K^T V) of the spikes of the step.                        *)
ProductMaintained ==
    \A l \in Logical : output[Physical(l)] = owed.product[l]

(* No charge is lost or made between the packets, the attention, the        *)
(* membranes and the spikes: where nothing leaks or clips, membrane plus    *)
(* threshold times the net spikes is the initial membrane plus all input    *)
(* and bias of that logical neuron; an st_bif tracer is its net spikes, and *)
(* leaves 0 only within its range, which need not hold 0 (soma.cpp:72-81).  *)
Far == 1000       \* beyond every membrane of the instances
Conserving ==
    /\ cfg.soma.leak = <<1, 1>> /\ cfg.soma.step <= 1
    /\ cfg.soma.min <= -Far /\ cfg.soma.max >= Far
    /\ cfg.soma.reset = "soft"
NetSpikes(l) == MapThenSumSet(LAMBDA f : f.value, {f \in trace : TraceNeuron(f) = l})
TracerIsNetSpikes ==
    Loadable /\ cfg.soma.model = "st_bif" =>
        \A l \in Logical :
            LET tracer == neurons[Physical(l)].tracer
            IN  /\ tracer = NetSpikes(l)
                /\ tracer > 0 => tracer <= cfg.soma.tracer_max
                /\ tracer < 0 => tracer >= cfg.soma.tracer_min
ChargeConserved ==
    /\ TracerIsNetSpikes
    /\ Loadable /\ Conserving => \A l \in Logical :
          neurons[Physical(l)].voltage + Threshold(l) * NetSpikes(l)
             = Initial(l) + owed.charge[l]

(* The trace file, written from the core and the local index alone, names   *)
(* the logical neuron that fired (stats.cpp:306-316), the packets of that   *)
(* neuron leave from the core that fired it (simulator.cpp:202-208), and    *)
(* two cores of the layer share a tile and offset only when a chip is not a *)
(* whole number of tiles (tile.cpp:17-31).                                  *)
TraceNamesNeuron ==
    /\ \A f \in trace :
          /\ TraceNeuron(f) = f.neuron
          /\ source_core(f.neuron) = f.core
    /\ cfg.per_chip % cfg.per_tile = 0 =>
          \A p, q \in Cores :
              LET a == core_address(GlobalCore(p))
                  b == core_address(GlobalCore(q))
              IN  a.tile = b.tile /\ a.offset = b.offset => p = q
=============================================================================
