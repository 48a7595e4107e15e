------------------------------- MODULE Synapse -------------------------------
(***************************************************************************)
(* Where the spike of a source neuron goes and what it does there          *)
(* (synapse.hpp, spatial_template.hpp, mapping_config.cpp,                 *)
(* weight_store.cpp): the logical and the physical order of a layer's      *)
(* neurons, the partitions of a layer a packet is sent to, the updates a   *)
(* packet makes on one partition, and what is checked when weights are     *)
(* loaded.                                                                 *)
(*                                                                         *)
(* A layer is a record with its neurons, output channels, order and the    *)
(* capacity max of a core; a connection w a record with its type and       *)
(* arrays.  Arrays are functions on 0 .. k - 1, a CSR pattern the sequence *)
(* of its entries, a crossbar row the set of its bits.  An update is a     *)
(* pair <<logical neuron, weight>>; the updates of a spike are a family of *)
(* them, indexed by what the code iterates over: their order does not      *)
(* matter to a sum.                                                        *)
(***************************************************************************)
EXTENDS Integers, Sequences, FiniteSets

Size(array) == Cardinality(DOMAIN array)
Ceil(a, b) == (a + b - 1) \div b
Least(a, b) == IF a <= b THEN a ELSE b

-----------------------------------------------------------------------------
(* Layout.                                                                 *)

physical_neuron_index(layer, logical) ==
    IF layer.order = "logical" THEN logical
    ELSE (logical % layer.channels) * (layer.neurons \div layer.channels)
         + logical \div layer.channels

(* Mutant of logical_neuron_index: the strides of the other direction.     *)
SameStrides(layer, physical) ==
    IF layer.order = "logical" THEN physical
    ELSE (physical % layer.channels) * (layer.neurons \div layer.channels)
         + physical \div layer.channels

logical_neuron_index(layer, physical) ==
    LET spatial == layer.neurons \div layer.channels
    IN  IF layer.order = "logical" THEN physical
        ELSE (physical % spatial) * layer.channels + physical \div spatial

Partitions(layer) == 0 .. Ceil(layer.neurons, layer.max) - 1
Begin(layer, p) == p * layer.max
End(layer, p) == Begin(layer, p) + Least(layer.max, layer.neurons - Begin(layer, p))
Neurons(layer, p) == Begin(layer, p) .. End(layer, p) - 1
Partition(layer, logical) == physical_neuron_index(layer, logical) \div layer.max
OnPartition(layer, p, updates) ==
    LET here(k) == physical_neuron_index(layer, updates[k][1]) \in Neurons(layer, p)
    IN  [k \in {j \in DOMAIN updates : here(j)} |-> updates[k]]

(* local_values, and the bias of process_timestep: scalar, per neuron or    *)
(* per channel.                                                            *)
ValueOf(layer, values, logical) ==
    IF Size(values) = 1 THEN values[0]
    ELSE IF Size(values) = layer.neurons THEN values[logical]
    ELSE values[logical % layer.channels]

-----------------------------------------------------------------------------
(* The updates of a whole layer, by the kind of connection.                *)

IdentityUpdates(layer, w, s) == <<<<s, ValueOf(layer, w.weight, s)>>>>

GroupedUpdates(w, s) ==
    LET group == s \div w.gin
    IN  [c \in 0 .. w.gout - 1 |->
            <<group * w.gout + c, w.weight[(s % w.gin) * w.gout + c]>>]

DenseUpdates(layer, w, s) ==
    [d \in 0 .. layer.neurons - 1 |-> <<d, w.weight[s * layer.neurons + d]>>]

(* The entries of the pattern of the source's place, with their target.    *)
Entries(w, s) ==
    LET spatial == s \div w.cin
        pattern == w.patterns[w.plan[spatial]]
    IN  [e \in DOMAIN pattern |->
            [spatial |-> w.base[spatial] + pattern[e].dst, weight |-> pattern[e].weight]]

(* One update per entry and output channel, or per entry and own channel.  *)
SpatialUpdates(w, s) ==
    LET channel == s % w.cin
        row == channel * (Size(w.weight) \div w.cin)
        channels == IF w.channelwise THEN {channel} ELSE 0 .. w.cout - 1
        update(e, c) == <<e.spatial * w.cout + c,
                          w.weight[IF w.channelwise THEN e.weight ELSE row + e.weight + c]>>
    IN  [x \in (DOMAIN Entries(w, s)) \X channels |-> update(Entries(w, s)[x[1]], x[2])]

-----------------------------------------------------------------------------
(* for_each_destination_partition.                                         *)
Touched(layer, logicals) == {Partition(layer, l) : l \in logicals}

(* An operand index in a layout: the head, and the row (lhs) or column (rhs)*)
(* it belongs to.                                                          *)
HeadMajor(layer, w, s) ==
    CASE w.layout = "row_head_reduction" ->
            <<(s \div layer.reduction) % layer.heads, s \div (layer.heads * layer.reduction)>>
      [] w.layout = "head_row_reduction" ->
            <<s \div (layer.rows * layer.reduction), (s \div layer.reduction) % layer.rows>>
      [] w.layout = "row_head_column" ->
            <<(s \div layer.columns) % layer.heads, s % layer.columns>>

(* The layouts this function can route; validate also lets flat_internal,   *)
(* the default, and the other operand's layout through.                    *)
Routable(layer, w) ==
    \/ w.type # "attention" \/ layer.op = "timestep_spike_attention"
    \/ w.layout \in IF w.operand = "lhs" THEN {"row_head_reduction", "head_row_reduction"}
                    ELSE {"row_head_reduction", "row_head_column"}

OutputIndex(layer, head, row, column) ==
    IF layer.output = "row_head_column"
      THEN (row * layer.heads + head) * layer.columns + column
      ELSE (head * layer.rows + row) * layer.columns + column

(* Mutant of OperandPartitions: a rhs spike goes where its column starts.   *)
OperandFirstRow(layer, w, s) ==
    LET head == HeadMajor(layer, w, s)[1]
        major == HeadMajor(layer, w, s)[2]
    IN  IF layer.op = "timestep_spike_attention" THEN Partitions(layer)
        ELSE IF w.operand = "lhs"
          THEN Touched(layer, {OutputIndex(layer, head, major, c) : c \in 0 .. layer.columns - 1})
          ELSE Touched(layer, {OutputIndex(layer, head, 0, major)})

OperandPartitions(layer, w, s) ==
    LET head == HeadMajor(layer, w, s)[1]
        major == HeadMajor(layer, w, s)[2]
    IN  IF layer.op = "timestep_spike_attention" THEN Partitions(layer)
        ELSE IF w.operand = "lhs"
          THEN Touched(layer, {OutputIndex(layer, head, major, c) : c \in 0 .. layer.columns - 1})
          ELSE Touched(layer, {OutputIndex(layer, head, r, major) : r \in 0 .. layer.rows - 1})

(* Every partition of a channel-major layer holds whole channels.          *)
WholeChannels(layer) ==
    LET spatial == layer.neurons \div layer.channels
    IN  /\ layer.order = "channel_major"
        /\ spatial <= layer.max /\ layer.max % spatial = 0

SpatialPartitions(layer, w, s) ==
    IF DOMAIN Entries(w, s) = {} THEN {}
    ELSE IF ~ w.channelwise /\ WholeChannels(layer) THEN Partitions(layer)
    ELSE Touched(layer, {SpatialUpdates(w, s)[k][1] : k \in DOMAIN SpatialUpdates(w, s)})

Destinations(layer, w, s) ==
    CASE w.type = "crossbar" -> {p \in {w.partition[s]} : p >= 0}
      [] w.type = "identity" -> {Partition(layer, s)}
      [] w.type = "grouped_dense" ->
            Touched(layer, {GroupedUpdates(w, s)[k][1] : k \in DOMAIN GroupedUpdates(w, s)})
      [] w.type = "attention" -> OperandPartitions(layer, w, s)
      [] w.type = "dense" -> Partitions(layer)
      [] w.type = "spatial" -> SpatialPartitions(layer, w, s)

-----------------------------------------------------------------------------
(* apply_to_physical_range: the updates of a packet on partition p.        *)

DenseRange(layer, w, s, p) ==
    [n \in Neurons(layer, p) |->
        LET logical == logical_neuron_index(layer, n)
        IN  <<logical, w.weight[s * layer.neurons + logical]>>]

(* Mutant of FirstChannel: the quotient is rounded down.                   *)
FirstChannelFloor(layer, w, spatial, p) ==
    LET begin == Begin(layer, p)
        from == IF layer.order = "channel_major" THEN spatial ELSE spatial * w.cout
        first == IF begin <= from THEN 0
                 ELSE IF layer.order = "channel_major"
                        THEN (begin - from) \div (layer.neurons \div w.cout)
                        ELSE begin - from
    IN  Least(first, w.cout)

(* The channels of an output place that lie on partition p.                *)
FirstChannel(layer, w, spatial, p) ==
    LET begin == Begin(layer, p)
        from == IF layer.order = "channel_major" THEN spatial ELSE spatial * w.cout
        first == IF begin <= from THEN 0
                 ELSE IF layer.order = "channel_major"
                        THEN Ceil(begin - from, layer.neurons \div w.cout)
                        ELSE begin - from
    IN  Least(first, w.cout)

LastChannel(layer, w, spatial, p) ==
    LET end == End(layer, p)
        from == IF layer.order = "channel_major" THEN spatial ELSE spatial * w.cout
        last == IF end <= from THEN 0
                ELSE IF layer.order = "channel_major"
                       THEN (end - 1 - from) \div (layer.neurons \div w.cout) + 1
                       ELSE end - from
    IN  Least(last, w.cout)

SpatialRange(layer, w, s, p) ==
    LET channels(e) ==
            FirstChannel(layer, w, e.spatial, p) .. LastChannel(layer, w, e.spatial, p) - 1
    IN  IF w.channelwise THEN OnPartition(layer, p, SpatialUpdates(w, s))
        ELSE [x \in {y \in DOMAIN SpatialUpdates(w, s) : y[2] \in channels(Entries(w, s)[y[1]])}
                |-> SpatialUpdates(w, s)[x]]

(* apply_crossbar: the bits of the axon's row, weighted by its type.       *)
CrossbarRange(layer, w, s, p) ==
    LET at == <<p, w.axon[s]>>
        weight(physical) == layer.crossbar.weight[physical * 4 + layer.crossbar.type[at]]
    IN  [bit \in layer.crossbar.row[at] |->
            LET physical == Begin(layer, p) + bit
            IN  <<logical_neuron_index(layer, physical),
                  IF layer.crossbar.binary THEN IF weight(physical) # 0 THEN 1 ELSE 0
                  ELSE weight(physical)>>]

Updates(layer, w, s, p) ==
    CASE w.type = "crossbar" -> CrossbarRange(layer, w, s, p)
      [] w.type \in {"identity", "local_state_buffer"} ->
            OnPartition(layer, p, IdentityUpdates(layer, w, s))
      [] w.type = "grouped_dense" -> OnPartition(layer, p, GroupedUpdates(w, s))
      [] w.type = "attention" -> <<>>
      [] w.type = "dense" -> DenseRange(layer, w, s, p)
      [] w.type = "spatial" -> SpatialRange(layer, w, s, p)

-----------------------------------------------------------------------------
(* What MappingConfig::validate and WeightStore::load accept.              *)

Shaped(layer, values, scalar) ==
    Size(values) \in {0, layer.channels, layer.neurons} \cup IF scalar THEN {1} ELSE {}

SpatialValid(layer, w) ==
    /\ w.cin # 0 /\ w.cout # 0 /\ w.sources % w.cin = 0
    /\ Size(w.plan) = w.sources \div w.cin /\ Size(w.base) = w.sources \div w.cin
    /\ \A x \in DOMAIN w.plan : w.plan[x] \in DOMAIN w.patterns
    /\ \A x \in DOMAIN w.plan : \A e \in DOMAIN w.patterns[w.plan[x]] :
         LET entry == w.patterns[w.plan[x]][e]
         IN  /\ w.base[x] + entry.dst >= 0
             /\ (w.base[x] + entry.dst) * w.cout < layer.neurons
             /\ entry.weight >= 0
             /\ IF w.channelwise THEN entry.weight < Size(w.weight) /\ w.cin = w.cout
                ELSE /\ Size(w.weight) % w.cin = 0
                     /\ entry.weight + w.cout <= Size(w.weight) \div w.cin

ConnectionValid(layer, w) ==
    CASE w.type = "crossbar" -> Size(w.partition) = w.sources /\ Size(w.axon) = w.sources
      [] w.type = "dense" -> Size(w.weight) = w.sources * layer.neurons
      [] w.type = "grouped_dense" ->
            w.gin # 0 /\ w.gout # 0 /\ Size(w.weight) = w.gin * w.gout
      [] w.type = "attention" ->
            w.operand \in CASE layer.op = "incremental_spike_matmul" -> {"lhs", "rhs"}
                            [] layer.op = "timestep_spike_attention" -> {"q", "k", "v"}
                            [] OTHER -> {}
      [] w.type = "identity" ->
            /\ w.sources = layer.neurons
            /\ Size(w.weight) \in {1, layer.channels, layer.neurons}
      [] w.type = "local_state_buffer" -> Size(w.weight) \in {1, layer.channels, layer.neurons}
      [] w.type = "spatial" -> SpatialValid(layer, w)

LayerValid(layer) ==
    /\ layer.neurons # 0
    /\ layer.order = "channel_major" =>
          layer.channels # 0 /\ layer.neurons % layer.channels = 0
    /\ layer.op = "incremental_spike_matmul" =>
          /\ 0 \notin {layer.heads, layer.rows, layer.reduction, layer.columns}
          /\ layer.neurons = layer.heads * layer.rows * layer.columns
    /\ layer.op = "timestep_spike_attention" =>
          /\ 0 \notin {layer.heads, layer.rows, layer.reduction}
          /\ layer.neurons = layer.heads * layer.rows * layer.reduction
=============================================================================
