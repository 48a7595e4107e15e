------------------------------ MODULE SnnPasses ------------------------------
(***************************************************************************)
(* The compiler between a NIR block and SNNExec: the importer              *)
(* (nir-to-snnop.py) that emits a model operation and an st_bif per node   *)
(* in a stable topological order, MergeRescale, model-neuron fusion,       *)
(* dead-neuron-output elimination and the lowering to snn_exec.generic,    *)
(* each loop taking one operation at a time.                               *)
(*                                                                         *)
(* The IR is a sequence of operations.  A value is <<id, role>>: "arg" a   *)
(* function argument, "acc" the result of a model operation, "out" that of *)
(* an st_bif, "spike" and "tracer" those of a fused or lowered operation,  *)
(* which keeps the id of its model operation.  Shapes, element widths and  *)
(* scalar attributes are left out; the verifiers appear as what they say   *)
(* about roles and operand counts, the rest of them as RefuseFunction.     *)
(***************************************************************************)
EXTENDS Integers, Sequences, FiniteSets, FiniteSetsExt, SequencesExt, Lists

CONSTANTS
    Graphs,     \* NIR blocks: [nodes, kind, params, edges]; a node is its
                \* place in NODE_ORDER, 0 is block_input
    Functions   \* functions handed to soma-opt: [ir, ret]

Lowering ==
    [linear |-> "SW", norm |-> "Mul", rescale |-> "Mul", qk |-> "SS",
     qkv |-> "SS", residual |-> "Residual", pool |-> "Reduce"]
Fusible == DOMAIN Lowering
(* linear stands for conv2d, x_wq, x_wk, x_wv, z_wo and fc, norm for affine, *)
(* qkv for av: the passes treat them alike.                                  *)
OpKinds == Fusible \cup {"st_bif", "lif"}
Attention == {"qk", "qkv"}           \* needsSpikeTracerOperands
Arity(kind) == IF kind \in Attention \cup {"residual"} THEN 2 ELSE 1

VARIABLES
    graph,      \* the block, or NoGraph for a handwritten function
    ir, ret,    \* the function body and the operands of its return
    stage,
    todo,       \* what is left of the running loop: nodes or ids
    replaced,   \* replacements: st_bif ids and the fused id of each
    source      \* [ir, ret] of the function before any pass

passVars == <<graph, ir, ret, stage, todo, replaced, source>>

Roles == {"arg", "acc", "out", "spike", "tracer"}
Operations(forms) ==
    [id : Nat, form : forms, kind : OpKinds, params : SUBSET STRING, scale : Int,
     td : Int, args : Seq(Nat \X Roles), outs : SUBSET Roles]

(* A value resolves to an argument or to the result of an operation before. *)
Resolves(v, ops, before) ==
    v[2] = "arg" \/ \E j \in 1 .. before : ops[j].id = v[1] /\ v[2] \in ops[j].outs
Defined(ops, values) ==
    /\ \A k \in DOMAIN ops : \A v \in ToSet(ops[k].args) : Resolves(v, ops, k - 1)
    /\ \A v \in ToSet(values) : Resolves(v, ops, Len(ops))

(* A block as read from the archive: a node is its number.                  *)
ASSUME GraphAssumption ==
    \A g \in Graphs :
        /\ IsFiniteSet(g.nodes) /\ g.nodes \subseteq Nat
        /\ g.edges \in Seq(Nat \X Nat)
        /\ g.kind \in [g.nodes -> STRING] /\ g.params \in [g.nodes -> SUBSET STRING]

(* A function that MLIR's own verifier and the operand counts of the        *)
(* dialect's operations let through.                                        *)
ASSUME FunctionAssumption ==
    \A f \in Functions :
        /\ f.ir \in Seq(Operations({"model", "neuron"}))
        /\ f.ret \in Seq(Nat \X {"arg", "acc", "out"})
        /\ \A j, k \in DOMAIN f.ir : f.ir[j].id = f.ir[k].id => j = k
        /\ \A k \in DOMAIN f.ir : LET o == f.ir[k] IN
              /\ o.kind = "rescale" => o.params = {}     \* a scale and nothing else
              /\ o.form = "neuron" => o.outs = {"out"} /\ Len(o.args) = 1
              /\ o.form = "model" => o.outs = {"acc"}
              /\ o.form = "model" /\ o.kind \in Fusible => Len(o.args) = Arity(o.kind)
        /\ Defined(f.ir, f.ret)

NoGraph == [nodes |-> {}, kind |-> <<>>, params |-> <<>>, edges |-> <<>>]
NoSource == [ir |-> <<>>, ret |-> <<>>]

PassInit ==
    /\ \/ /\ graph \in Graphs /\ stage = "nir"
          /\ ir = <<>> /\ ret = <<>>
          /\ source = NoSource
       \/ /\ graph = NoGraph /\ stage = "model"
          /\ source \in Functions
          /\ ir = source.ir /\ ret = source.ret
    /\ todo = <<>> /\ replaced = {}

-----------------------------------------------------------------------------
(* The importer.                                                           *)

Parents(g, n) ==
    LET edges == Among(g.edges, g.nodes \X {n})
    IN  [k \in 1 .. Len(edges) |-> edges[k][1]]

(* Mutant of Ordered: by node_order_key alone.                              *)
ByKey(g) == SetToSortSeq(g.nodes, <)

(* Kahn's traversal, the ready nodes sorted by node_order_key.              *)
Ordered(g) ==
    LET upTo[k \in 0 .. Cardinality(g.nodes)] ==
            IF k = 0 THEN <<>>
            ELSE LET sofar == upTo[k - 1]
                     ready == {n \in g.nodes \ ToSet(sofar) :
                                  ToSet(Parents(g, n)) \subseteq ToSet(sofar)}
                 IN  IF ready = {} THEN sofar ELSE Append(sofar, Min(ready))
    IN  upTo[Cardinality(g.nodes)]

Terminals(g) ==
    {n \in g.nodes : g.kind[n] # "input" /\ \A k \in DOMAIN g.edges : g.edges[k][1] # n}

NodeKinds == {"linear", "norm", "qk", "qkv", "residual"}     \* SUPPORTED_NODES
BlockAccepted(g) ==
    /\ Len(Ordered(g)) = Cardinality(g.nodes)      \* no cycle
    /\ \E n \in g.nodes : Terminals(g) = {n}
    /\ \A n \in g.nodes : g.kind[n] \in NodeKinds \cup {"input"}

NodeAccepted(g, n) ==
    IF g.kind[n] = "input" THEN Parents(g, n) = <<>>
    ELSE /\ Len(Parents(g, n)) = Arity(g.kind[n])
         /\ g.kind[n] = "linear" => "weight" \in g.params[n]
         /\ g.kind[n] = "norm" => {"weight", "bias"} \subseteq g.params[n]
         /\ "threshold" \in g.params[n]     \* or metadata/multiplier

ModelId(n) == 2 * n
NeuronId(n) == 2 * n + 1
NodeValue(g, n) == IF g.kind[n] = "input" THEN <<n, "arg">> ELSE <<NeuronId(n), "out">>

Operation(id, form, kind, params, args, outs) ==
    [id |-> id, form |-> form, kind |-> kind, params |-> params, scale |-> 1,
     td |-> 0, args |-> args, outs |-> outs]

Emitted(g, n) ==
    LET parents == Parents(g, n)
    IN  IF g.kind[n] = "input" THEN <<>>
        ELSE <<Operation(ModelId(n), "model", g.kind[n], g.params[n],
                         [k \in 1 .. Len(parents) |-> NodeValue(g, parents[k])], {"acc"}),
               Operation(NeuronId(n), "neuron", "st_bif", {}, <<<<ModelId(n), "acc">>>>, {"out"})>>

ReadBlock ==
    /\ stage = "nir"
    /\ IF BlockAccepted(graph)
         THEN stage' = "import" /\ todo' = Ordered(graph)
         ELSE stage' = "rejected" /\ UNCHANGED todo
    /\ UNCHANGED <<graph, ir, ret, replaced, source>>

EmitNode ==
    /\ stage = "import" /\ todo # <<>>
    /\ IF NodeAccepted(graph, Head(todo))
         THEN /\ ir' = ir \o Emitted(graph, Head(todo))
              /\ todo' = Tail(todo) /\ UNCHANGED stage
         ELSE stage' = "rejected" /\ UNCHANGED <<ir, todo>>
    /\ UNCHANGED <<graph, ret, replaced, source>>

EmitReturn ==
    /\ stage = "import" /\ todo = <<>>
    /\ ret' = <<NodeValue(graph, CHOOSE n \in Terminals(graph) : TRUE)>>
    /\ stage' = "model"
    /\ source' = [ir |-> ir, ret |-> ret']
    /\ UNCHANGED <<graph, ir, todo, replaced>>

-----------------------------------------------------------------------------
UsedBy(ops, id) == {o \in ToSet(ops) : \E a \in ToSet(o.args) : a[1] = id /\ a[2] # "arg"}
Used(ops, values, v) == v \in ToSet(values) \/ \E o \in ToSet(ops) : v \in ToSet(o.args)
At(ops, id) == CHOOSE k \in DOMAIN ops : ops[k].id = id

(* MergeRescale on one pair.                                               *)
Merges(k) ==
    /\ ir[k].form = "model" /\ ir[k].kind = "rescale"
    /\ ir[k].args[1][2] = "acc"
    /\ LET prior == ir[At(ir, ir[k].args[1][1])]
       IN  prior.kind = "rescale" /\ prior.td = ir[k].td
Merged(k) ==
    LET prior == ir[At(ir, ir[k].args[1][1])]
    IN  [ir[k] EXCEPT !.args = prior.args, !.scale = prior.scale * ir[k].scale]

(* snnop-canonicalize may run before the fusion: the greedy driver applies  *)
(* the pattern or drops a pure operation without a use until it finds none. *)
Dead(k) == \A role \in ir[k].outs : ~ Used(ir, ret, <<ir[k].id, role>>)

StartCanonicalize ==
    /\ stage = "model"
    /\ stage' = "canonicalize"
    /\ UNCHANGED <<graph, ir, ret, todo, replaced, source>>

Canonicalize ==
    /\ stage = "canonicalize"
    /\ \E k \in DOMAIN ir :
         \/ Merges(k) /\ ir' = [ir EXCEPT ![k] = Merged(k)]
         \/ Dead(k) /\ ir' = RemoveAt(ir, k)
    /\ UNCHANGED <<graph, ret, stage, todo, replaced, source>>

(* Collecting the candidates: what every st_bif and the users of its model  *)
(* operation must be.                                                       *)
NeuronOps == Among(ir, {o \in ToSet(ir) : o.form = "neuron"})
Ids(ops) == [k \in 1 .. Len(ops) |-> ops[k].id]
Pairable(neuron) ==
    LET v == neuron.args[1]
        model == ir[At(ir, v[1])]
    IN  /\ v[2] = "acc"
        /\ model.kind \in Fusible
        /\ model.td = neuron.td
        /\ UsedBy(ir, model.id) = {neuron}
        /\ v \notin ToSet(ret)

Collect ==
    /\ stage \in {"model", "canonicalize"}
    /\ stage = "canonicalize" => \A k \in DOMAIN ir : ~ Merges(k) /\ ~ Dead(k)
    /\ IF \A n \in ToSet(NeuronOps) : Pairable(n)
         THEN stage' = "fuse" /\ todo' = Ids(NeuronOps)
         ELSE stage' = "failed" /\ UNCHANGED todo
    /\ UNCHANGED <<graph, ir, ret, replaced, source>>

FusedFor(v) == {r \in replaced : v = <<r[1], "out">>}
SpikeOf(v) == IF FusedFor(v) = {} THEN v ELSE <<(CHOOSE r \in FusedFor(v) : TRUE)[2], "spike">>

(* Mutant of FusedOperands: both tracers from the first operand.            *)
OneTracer(model) ==
    IF model.kind \in Attention
      THEN FlattenSeq([k \in 1 .. Len(model.args) |->
               <<SpikeOf(model.args[k]), <<SpikeOf(model.args[1])[1], "tracer">>>>])
      ELSE [k \in 1 .. Len(model.args) |-> SpikeOf(model.args[k])]

FusedOperands(model) ==
    IF model.kind \in Attention
      THEN FlattenSeq([k \in 1 .. Len(model.args) |->
               <<SpikeOf(model.args[k]), <<SpikeOf(model.args[k])[1], "tracer">>>>])
      ELSE [k \in 1 .. Len(model.args) |-> SpikeOf(model.args[k])]

(* One candidate: the fused operation is inserted before its model.         *)
FuseOne ==
    /\ stage = "fuse" /\ todo # <<>>
    /\ LET neuron == ir[At(ir, Head(todo))]
           k == At(ir, neuron.args[1][1])
           model == ir[k]
           refused == /\ model.kind \in Attention
                      /\ \E v \in ToSet(model.args) : FusedFor(v) = {}
           fused == [model EXCEPT !.form = "fused", !.args = FusedOperands(model),
                                  !.outs = {"spike", "tracer"}]
       IN  IF refused
             THEN stage' = "failed" /\ UNCHANGED <<ir, todo, replaced>>
             ELSE /\ ir' = InsertAt(ir, k, fused)
                  /\ replaced' = replaced \cup {<<neuron.id, model.id>>}
                  /\ todo' = Tail(todo)
                  /\ UNCHANGED stage
    /\ UNCHANGED <<graph, ret, source>>

(* Returns take both results; then every pair is erased, st_bif first.  An  *)
(* st_bif that an operation still uses is erased under it.                  *)
ReturnBoth(values) ==
    FlattenSeq([k \in 1 .. Len(values) |->
        IF FusedFor(values[k]) = {} THEN <<values[k]>>
        ELSE <<SpikeOf(values[k]), <<SpikeOf(values[k])[1], "tracer">>>>])

(* Mutant of IsPair: the model operations are left behind.                  *)
IsNeuronOfPair(o) == \E r \in replaced : o.id = r[1]
IsPair(o) == \E r \in replaced : (o.form = "model" /\ o.id = r[2]) \/ o.id = r[1]
Unpaired == Among(ir, {o \in ToSet(ir) : ~ IsPair(o)})
FinishFuse ==
    /\ stage = "fuse" /\ todo = <<>>
    /\ ret' = ReturnBoth(ret)
    /\ ir' = Unpaired
    /\ stage' = IF \E o \in ToSet(Unpaired), v \in {<<r[1], "out">> : r \in replaced} :
                      v \in ToSet(o.args)
                  THEN "dangling" ELSE "fused"
    /\ UNCHANGED <<graph, todo, replaced, source>>

-----------------------------------------------------------------------------
FusedOps == Among(ir, {o \in ToSet(ir) : o.form = "fused"})

(* Mutant of DceOrder: from the first.                                      *)
ForwardOrder == Ids(FusedOps)

(* dead-neuron-out-eliminate visits the fused operations from the last.     *)
DceOrder == Reverse(Ids(FusedOps))
StartDce ==
    /\ stage = "fused"
    /\ todo' = DceOrder
    /\ stage' = "dce"
    /\ UNCHANGED <<graph, ir, ret, replaced, source>>

LiveResults(o) == {role \in o.outs : Used(ir, ret, <<o.id, role>>)}
DceOne ==
    /\ stage = "dce" /\ todo # <<>>
    /\ LET k == At(ir, Head(todo))
           live == LiveResults(ir[k])
       IN  ir' = IF live = {} THEN RemoveAt(ir, k) ELSE [ir EXCEPT ![k].outs = live]
    /\ todo' = Tail(todo)
    /\ UNCHANGED <<graph, ret, stage, replaced, source>>

StartLowering ==
    /\ stage = "dce" /\ todo = <<>>
    /\ todo' = Ids(FusedOps)
    /\ stage' = "lower"
    /\ UNCHANGED <<graph, ir, ret, replaced, source>>

(* lowerOne: an snn_exec.generic with the operands and results of the fused *)
(* operation takes its place; Deltas are the contributions in its region.   *)
Deltas(o) ==
    CASE Lowering[o.kind] = "SS" -> <<[op |-> "SS", inputs |-> o.args]>>
      [] Lowering[o.kind] = "Residual" ->
            [k \in 1 .. 2 |-> [op |-> "SW", inputs |-> <<o.args[k]>>]]
      [] OTHER -> <<[op |-> Lowering[o.kind], inputs |-> <<o.args[1]>>]>>

-----------------------------------------------------------------------------
(* What the verifiers of the two dialects say of a fused operation, of a    *)
(* generic and of the contributions in its region.                          *)
verifyFusedResults(o) == o.outs # {} /\ o.outs \subseteq {"spike", "tracer"}
verifySpikeTracerOperands(spike, tracer) == spike[2] = "spike" /\ tracer[2] = "tracer"
AttentionVerified(o) ==
    /\ Len(o.args) = 4
    /\ \A k \in {1, 3} : verifySpikeTracerOperands(o.args[k], o.args[k + 1])
(* A function that got this far has spike tensors for arguments and, where   *)
(* a residual reads it, for the acc of an operation without an st_bif.       *)
ResidualVerified(o) == \A v \in ToSet(o.args) : v[2] \in {"spike", "arg", "acc"}
FusedVerified(o) ==
    /\ verifyFusedResults(o)
    /\ o.kind \in Attention => AttentionVerified(o)
    /\ o.kind = "residual" => ResidualVerified(o)

GenericVerified(o) == o.args # <<>> /\ Cardinality(o.outs) \in 1 .. 2
WeightedVerified(input) == input[2] \in {"spike", "arg"}
SSVerified(inputs) ==
    \A k \in {1, 3} : inputs[k][2] = "spike" /\ inputs[k + 1][2] = "tracer"
FireVerified(o) == o.outs # {} /\ o.outs \subseteq {"spike", "tracer"}
ExecVerified(o) ==
    /\ GenericVerified(o) /\ FireVerified(o)
    /\ \A d \in ToSet(Deltas(o)) :
          IF d.op = "SS" THEN SSVerified(d.inputs) ELSE WeightedVerified(d.inputs[1])

-----------------------------------------------------------------------------
LowerOne ==
    /\ stage = "lower" /\ todo # <<>>
    /\ ir' = [ir EXCEPT ![At(ir, Head(todo))].form = "exec"]
    /\ todo' = Tail(todo)
    /\ UNCHANGED <<graph, ret, stage, replaced, source>>

(* Element types, shapes and attributes are left out: the fusion, lowerOne   *)
(* or a verifier after a pass may refuse a function written by hand for them *)
(* (an argument or a residual operand that is no spike tensor, no            *)
(* voltage_dtype).  The importer declares spike tensors for arguments        *)
(* (nir-to-snnop.py:96); the attributes it copies are taken to be valid.     *)
RefuseFunction ==
    /\ graph = NoGraph /\ stage \in {"fuse", "fused", "lower"}
    /\ stage' = "failed"
    /\ UNCHANGED <<graph, ir, ret, todo, replaced, source>>

CheckLowered ==
    /\ stage = "lower" /\ todo = <<>>
    /\ stage' = IF \A o \in ToSet(ir) : o.form = "exec" THEN "exec" ELSE "failed"
    /\ UNCHANGED <<graph, ir, ret, todo, replaced, source>>

PassNext ==
    \/ ReadBlock \/ EmitNode \/ EmitReturn
    \/ StartCanonicalize \/ Canonicalize \/ Collect
    \/ FuseOne \/ FinishFuse \/ StartDce \/ DceOne
    \/ StartLowering \/ LowerOne \/ RefuseFunction \/ CheckLowered

PassSpec == PassInit /\ [][PassNext]_passVars

-----------------------------------------------------------------------------
(* What the IR computes: a value as a term, the spike and the tracer of an  *)
(* operation being those of the neuron over its model term.                 *)
Term(of, id, scale, params, args) ==
    [of |-> of, id |-> id, scale |-> scale, params |-> params, args |-> args]
ModelTerm(o, args) ==
    IF o.kind = "rescale" /\ args[1].of = "rescale"
      THEN [args[1] EXCEPT !.scale = @ * o.scale]
      ELSE Term(o.kind, 0, o.scale, o.params, args)
NeuronTerm(t) == Term("st_bif", 0, 1, {}, <<t>>)
ArgTerm(n) == Term("arg", n, 1, {}, <<>>)
Computed(o, args) ==
    CASE o.form = "neuron" -> NeuronTerm(args[1])
      [] o.form = "model" -> ModelTerm(o, args)
      [] OTHER -> NeuronTerm(ModelTerm(o, args))

(* The terms of the values that are no tracers, given those of the operations. *)
Spikes == Nat \X (Roles \ {"tracer"})
Producer(ops, v) == CHOOSE j \in DOMAIN ops : ops[j].id = v[1] /\ v[2] \in ops[j].outs
Terms(term, ops, values) ==
    LET spikes == Among(values, Spikes)
    IN  [i \in DOMAIN spikes |->
           IF spikes[i][2] = "arg" THEN ArgTerm(spikes[i][1])
           ELSE term[Producer(ops, spikes[i])]]
Meaning(ops) ==
    LET term[k \in DOMAIN ops] == Computed(ops[k], Terms(term, ops, ops[k].args))
    IN  term
Returned(ops, values) == Terms(Meaning(ops), ops, values)

(* Between the steps of every pass each operand is the result of an earlier *)
(* operation or an argument, whatever order the archive lists its nodes and *)
(* edges in and wherever the passes insert and erase.                       *)
DefBeforeUse == stage # "dangling" => Defined(ir, ret)

(* MergeRescale, fusion, dead-output elimination and lowering leave the      *)
(* function computing what it computed (ModelNeuronFusion.cpp:131-190), with *)
(* every attention operand a spike and the tracer of the same producer.      *)
SameDataflow ==
    stage \in {"model", "canonicalize", "fused", "dce", "lower", "exec"} =>
        /\ Returned(ir, ret) = Returned(source.ir, source.ret)
        /\ \A o \in ToSet(ir) : o.form \in {"fused", "exec"} /\ o.kind \in Attention =>
              /\ Len(o.args) = 4
              /\ \A k \in {1, 3} : /\ o.args[k][2] = "spike"
                                   /\ o.args[k + 1] = <<o.args[k][1], "tracer">>

(* One pass over the fused operations from the last to the first is enough: *)
(* no result of a fused or lowered operation is without a use afterwards,    *)
(* and the tracer never survives its spike, so what snn_exec integrates is   *)
(* a spike tensor; every fused operation and every generic of a function     *)
(* that gets through passes its verifiers (SNNOpDialect.cpp:307-323,         *)
(* SNNExecDialect.cpp:84-219).                                               *)
NothingDeadLeft ==
    stage \in {"lower", "exec"} =>
        \A o \in ToSet(ir) : o.form \in {"fused", "exec"} =>
            /\ \A role \in o.outs : Used(ir, ret, <<o.id, role>>)
            /\ "spike" \in o.outs /\ FusedVerified(o)
            /\ stage = "exec" => ExecVerified(o)

(* What the importer emits, with valid attributes, the passes accept, except *)
(* attention fed straight by the block input, which has no tracer.           *)
ImportedCompiles ==
    graph # NoGraph /\ stage \in {"failed", "dangling"} =>
        \E n \in graph.nodes : /\ graph.kind[n] \in Attention
                               /\ \E p \in ToSet(Parents(graph, n)) : graph.kind[p] = "input"
=============================================================================
