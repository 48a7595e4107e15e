----------------------------- MODULE MCLayerStep -----------------------------
(* Layers of four to six neurons on two to four cores: every kind of         *)
(* connection and layout, both orders of the neurons, cores that hold whole  *)
(* channels and cores that cut them, every soma mode, and configurations     *)
(* that are refused.                                                         *)
EXTENDS LayerStep, TLC

Array(k, f(_)) == [i \in 0 .. k - 1 |-> f(i)]
Ramp(k) == Array(k, LAMBDA i : i - 1)
None == <<>>

Plain(size, channels, order, max) ==
    [neurons |-> size, channels |-> channels, order |-> order, max |-> max,
     op |-> "standard", scale |-> 1, heads |-> 0, rows |-> 0, reduction |-> 0, columns |-> 0,
     output |-> "head_row_column"]
Matmul(heads, rows, reduction, columns, out, max) ==
    [Plain(heads * rows * columns, 1, "logical", max) EXCEPT
        !.op = "incremental_spike_matmul", !.scale = 2, !.heads = heads, !.rows = rows,
        !.reduction = reduction, !.columns = columns, !.output = out]
Timestep(heads, rows, reduction, max) ==
    [Matmul(heads, rows, reduction, reduction, "row_head_column", max) EXCEPT
        !.op = "timestep_spike_attention", !.scale = 1]

Identity(to, weight) == [type |-> "identity", sources |-> to.neurons, weight |-> weight]
Grouped(to) ==
    [type |-> "grouped_dense", sources |-> 2 * (to.neurons \div to.channels), gin |-> 2,
     gout |-> to.channels, weight |-> Ramp(2 * to.channels)]
Dense(to, sources) ==
    [type |-> "dense", sources |-> sources, weight |-> Ramp(sources * to.neurons)]
(* Two or three places with two channels each; the second pattern reaches    *)
(* one place only, the third none.                                           *)
Spatial(to, channelwise) ==
    LET cout == IF channelwise THEN 2 ELSE to.channels
        step == IF channelwise THEN 1 ELSE cout
    IN  [type |-> "spatial", sources |-> 6, cin |-> 2, cout |-> cout, channelwise |-> channelwise,
         weight |-> Ramp(IF channelwise THEN 2 ELSE 4 * cout),
         plan |-> (0 :> 0 @@ 1 :> 1 @@ 2 :> 2), base |-> (0 :> 0 @@ 1 :> 1 @@ 2 :> 1),
         patterns |-> (0 :> <<[dst |-> 0, weight |-> step], [dst |-> 1, weight |-> 0]>>
                       @@ 1 :> <<[dst |-> 0, weight |-> 0]>> @@ 2 :> <<>>)]
Operand(to, operand, layout) ==
    [type |-> "attention", sources |-> OperandSize(to, operand), operand |-> operand,
     layout |-> layout]
Local(to, weight) == [Identity(to, weight) EXCEPT !.type = "local_state_buffer"]

MCLif == [model |-> "lif", threshold |-> 3, leak |-> <<1, 1>>, step |-> 0, scale |-> 1,
          min |-> -1000, max |-> 1000, reset |-> "soft", readout |-> FALSE, greater |-> FALSE,
          unsigned |-> FALSE, width |-> 8, saturation_fires |-> FALSE,
          tracer_min |-> 0, tracer_max |-> 0]
MCStBif == [MCLif EXCEPT !.model = "st_bif", !.threshold = 1, !.tracer_min = -1, !.tracer_max = 1]

Cfg(to, conns, soma, spikes) ==
    [layer |-> to, conns |-> conns, soma |-> soma, threshold |-> None, initial |-> None,
     bias |-> None, start |-> 0, first |-> 1, taken |-> {0}, cores |-> 8, per_tile |-> 2,
     per_chip |-> 4, values |-> {-1, 1}, sent |-> spikes]

Shapes == {Plain(6, channels, order, max) :
             channels \in {2, 3}, order \in {"logical", "channel_major"}, max \in {2, 3, 4}}
Connections(to) ==
    {Identity(to, Ramp(to.channels)), Grouped(to), Dense(to, 2), Spatial(to, FALSE)}
    \cup (IF to.channels = 2 THEN {Spatial(to, TRUE)} ELSE {})
Numeric ==
    UNION {{[Cfg(l, <<w>>, MCLif, 1) EXCEPT !.threshold = Array(l.channels, LAMBDA c : c + 1)] :
              w \in Connections(l)} : l \in Shapes}

Somas ==
    LET l == Plain(4, 2, "channel_major", 3)
        two == <<Identity(l, Array(4, LAMBDA i : i + 1)), Local(l, Array(2, LAMBDA i : 2 - i))>>
    IN  {[Cfg(l, two, soma, 2) EXCEPT !.initial = Ramp(4), !.bias = bias, !.start = start,
             !.threshold = Array(4, LAMBDA i : i)] :
           soma \in {MCLif, MCStBif, [MCStBif EXCEPT !.tracer_min = 0, !.scale = 2],
                     [MCLif EXCEPT !.leak = <<1, 2>>, !.step = 1, !.greater = TRUE],
                     [MCLif EXCEPT !.reset = "hard", !.unsigned = TRUE],
                     [MCLif EXCEPT !.min = -2, !.max = 2, !.saturation_fires = TRUE],
                     [MCStBif EXCEPT !.readout = TRUE]},
           bias \in {None, Array(2, LAMBDA i : i)}, start \in {2}}

Products ==
    {[Cfg(l, <<Operand(l, "lhs", x), Operand(l, "rhs", y)>>, MCStBif, 2) EXCEPT !.start = start] :
        l \in {Matmul(1, 2, 2, 2, "head_row_column", 1), Matmul(1, 2, 2, 2, "row_head_column", 3),
               Matmul(2, 1, 1, 2, "row_head_column", 2), Matmul(2, 2, 1, 1, "head_row_column", 3),
               Matmul(2, 2, 1, 1, "row_head_column", 3)},
        x \in {"row_head_reduction", "head_row_reduction"},
        y \in {"row_head_reduction", "row_head_column"}, start \in {0}}
Attentions ==
    {[Cfg(l, <<Operand(l, "q", x), Operand(l, "k", "row_head_reduction"), Operand(l, "v", x)>>,
          MCLif, 3) EXCEPT !.values = {1}] :
        l \in {Timestep(1, 2, 1, 1), Timestep(2, 1, 1, 1), Timestep(1, 1, 2, 1)},
        x \in {"row_head_reduction", "flat_internal"}}

Crossbars ==
    LET l == [neurons |-> 5, channels |-> 5, order |-> "logical", max |-> 3, op |-> "standard",
              scale |-> 1,
              crossbar |-> [type |-> (<<0, 0>> :> 1 @@ <<0, 1>> :> 0 @@ <<1, 0>> :> 3 @@ <<1, 1>> :> 2),
                            row |-> (<<0, 0>> :> {0, 2} @@ <<0, 1>> :> {} @@ <<1, 0>> :> {0, 1}
                                     @@ <<1, 1>> :> {1}),
                            weight |-> Ramp(20), binary |-> FALSE]]
        w == [type |-> "crossbar", sources |-> 4,
              partition |-> (0 :> 0 @@ 1 :> 1 @@ 2 :> -1 @@ 3 :> 1),
              axon |-> (0 :> 0 @@ 1 :> 0 @@ 2 :> 1 @@ 3 :> 1)]
    IN  {Cfg(l, <<w>>, MCLif, 2), Cfg([l EXCEPT !.crossbar.binary = TRUE], <<w>>, MCLif, 2)}

Refused ==
    LET l == Plain(4, 2, "logical", 2)
        m == Matmul(1, 2, 1, 2, "head_row_column", 2)
        good == Cfg(l, <<Dense(l, 1)>>, MCLif, 1)
    IN  {[good EXCEPT !.taken = {2}], [good EXCEPT !.cores = 2],
         [good EXCEPT !.layer.channels = 3, !.layer.order = "channel_major"],
         [good EXCEPT !.bias = Ramp(3)], [good EXCEPT !.soma = [MCStBif EXCEPT !.leak = <<1, 2>>]],
         [good EXCEPT !.conns = <<Dense(Plain(3, 1, "logical", 2), 1)>>],
         Cfg(m, <<Operand(m, "rhs", "flat_internal")>>, MCStBif, 1),
         [Cfg(m, <<Operand(m, "lhs", "row_head_reduction")>>, MCStBif, 3) EXCEPT !.values = {1}]}

MCConfigurations == Numeric \cup Somas \cup Products \cup Attentions \cup Crossbars \cup Refused
=============================================================================
