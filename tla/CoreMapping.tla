----------------------------- MODULE CoreMapping -----------------------------
(***************************************************************************)
(* The pass snnop-core-mapping (compiler SNNOpCoreMapping.cpp): the        *)
(* population of every fused operation is cut into slices of at most       *)
(* Capacity neurons, each slice is placed first-fit on a core of the mesh, *)
(* and one core operation per slice takes the place of the fused one, fed  *)
(* by the slices of its operands, directly on the same core and through a  *)
(* send_router / recv_router pair otherwise.                               *)
(*                                                                         *)
(* A fused operation is a record: the kind of its core mnemonic, its       *)
(* population (0: a shape getPopulationSize refuses), its number of        *)
(* results and its operands.  A value of the source is <<o, r>>, result r  *)
(* of operation o, and <<0, k>> a function argument.  Core ids count from  *)
(* 0 as in the code; used[c + 1] is usedCapacity[c].                       *)
(***************************************************************************)
EXTENDS Integers, Sequences, FiniteSetsExt, SequencesExt, Lists

CONSTANTS
    Dims,        \* dimensions of noc.network
    Capacity,    \* neuron_capacity of snn_arch.core_type
    Programs,    \* functions: [ops, returns, alien]; alien are the operations
                 \* with a use that is neither fused nor a return
    Hardware,    \* what hardware-file holds: symbols, or "unparsed"
    Symbols,     \* the symbols the input module already has
    InputSize    \* population of a function argument

CONSTANTS Kinds, AlignedKinds
NoHops == <<>>

ASSUME MappingAssumption ==
    /\ Dims \in (Nat \ {0}) \X (Nat \ {0})   \* NetworkOp::verify
    /\ Capacity \in Nat \ {0}                \* CoreTypeOp::verify
    /\ AlignedKinds \subseteq Kinds
    /\ InputSize \in Nat \ {0}

\* A module whose SSA values dominate their uses, so operands come earlier.
ASSUME ProgramAssumption ==
    \A p \in Programs :
        /\ Len(p.ops) \in Nat /\ p.returns \in Seq((0 .. Len(p.ops)) \X Nat)
        /\ \A o \in 1 .. Len(p.ops) :
              p.ops[o].pop \in Nat /\ p.ops[o].args \in Seq((0 .. o - 1) \X Nat)

MeshCapacity == Dims[1] * Dims[2]

VARIABLES
    program, hardware, symbols,
    phase,      \* "import", "plan", "create", "finish", "done" or "failed"
    op, chunk,  \* the fused operation and the slice under way
    offset,     \* neurons of op that are placed
    used,       \* usedCapacity
    plans,      \* plans: per operation the placements of its slices
    cores,      \* the core operations created
    mapped,     \* mappedResults: per operation the ones that stand for it
    returns     \* operands of func.return

created == <<cores, mapped, returns>>
vars == <<program, hardware, symbols, phase, op, chunk, offset, used, plans, created>>

Ops == 1 .. Len(program.ops)
Lesser(a, b) == IF a <= b THEN a ELSE b

Init ==
    /\ program \in Programs
    /\ hardware \in Hardware
    /\ symbols \in Symbols
    /\ phase = "import"
    /\ op = 1 /\ chunk = 1 /\ offset = 0
    /\ used = <<>>
    /\ plans = [o \in Ops |-> <<>>]
    /\ cores = <<>> /\ mapped = [o \in Ops |-> <<>>]
    /\ returns = program.returns

-----------------------------------------------------------------------------
Unsupported(p) == \E o \in 1 .. Len(p.ops) : p.ops[o].kind \notin Kinds

(* importHardware and the lookups before anything is planned. *)
Imported ==
    /\ "unparsed" \notin hardware
    /\ hardware \cap symbols = {}
    /\ {"core_type", "network"} \subseteq hardware \cup symbols
    /\ ~ Unsupported(program)
    /\ program.ops # <<>>

Import ==
    /\ phase = "import"
    /\ IF Imported
         THEN phase' = "plan" /\ symbols' = symbols \cup hardware
         ELSE phase' = "failed" /\ UNCHANGED symbols
    /\ UNCHANGED <<program, hardware, op, chunk, offset, used, plans, created>>

(* Mutants of FirstFit: any room will do; a core is never filled up.        *)
FirstRoom(size) ==
    LET room == {c \in 1 .. Len(used) : Capacity - used[c] >= 1}
    IN  IF room = {} THEN Len(used) ELSE Min(room) - 1
FirstFitStrict(size) ==
    LET room == {c \in 1 .. Len(used) : Capacity - used[c] > size}
    IN  IF room = {} THEN Len(used) ELSE Min(room) - 1

(* The first core with room for size neurons, or a new one. *)
FirstFit(size) ==
    LET room == {c \in 1 .. Len(used) : Capacity - used[c] >= size}
    IN  IF room = {} THEN Len(used) ELSE Min(room) - 1

(* Mutant of ChunkSize: the rest of the population in one slice.            *)
WholeRest == program.ops[op].pop - offset
ChunkSize == Lesser(Capacity, program.ops[op].pop - offset)

(* getPopulationSize refuses the shape of the operation. *)
RefuseShape ==
    /\ phase = "plan" /\ op \in Ops
    /\ program.ops[op].pop = 0
    /\ phase' = "failed"
    /\ UNCHANGED <<program, hardware, symbols, op, chunk, offset, used, plans, created>>

MeshFull ==
    /\ phase = "plan" /\ op \in Ops
    /\ offset < program.ops[op].pop
    /\ FirstFit(ChunkSize) >= MeshCapacity
    /\ phase' = "failed"
    /\ UNCHANGED <<program, hardware, symbols, op, chunk, offset, used, plans, created>>

(* One round of the while loop: the next slice of op gets a core. *)
PlaceChunk ==
    LET size == ChunkSize
        core == FirstFit(size)
        placement == [core |-> core, partition |-> Len(plans[op]),
                      offset |-> offset, size |-> size]
    IN  /\ phase = "plan" /\ op \in Ops
        /\ offset < program.ops[op].pop
        /\ core < MeshCapacity
        /\ used' = IF core = Len(used) THEN Append(used, size)
                   ELSE [used EXCEPT ![core + 1] = @ + size]
        /\ plans' = [plans EXCEPT ![op] = Append(@, placement)]
        /\ offset' = offset + size
        /\ UNCHANGED <<program, hardware, symbols, phase, op, chunk, created>>

(* Mutant of NextOp: the offset of the operation before stays.              *)
NextOpKeepsOffset ==
    /\ phase = "plan" /\ op \in Ops
    /\ program.ops[op].pop > 0
    /\ offset >= program.ops[op].pop
    /\ IF op + 1 \in Ops THEN op' = op + 1 /\ UNCHANGED phase
       ELSE op' = 1 /\ phase' = "create"
    /\ UNCHANGED <<program, hardware, symbols, chunk, offset, used, plans, created>>
NextOp ==
    /\ phase = "plan" /\ op \in Ops
    /\ program.ops[op].pop > 0
    /\ offset >= program.ops[op].pop
    /\ offset' = 0
    /\ IF op + 1 \in Ops THEN op' = op + 1 /\ UNCHANGED phase
       ELSE op' = 1 /\ phase' = "create"
    /\ UNCHANGED <<program, hardware, symbols, chunk, used, plans, created>>

-----------------------------------------------------------------------------
CoordFor(core) == <<core % Dims[1], core \div Dims[1]>>

(* Same core: the SSA value itself; otherwise a send at the source and a    *)
(* receive at the destination.                                              *)
Route(from, to) ==
    IF from = to THEN NoHops ELSE <<CoordFor(from), CoordFor(to)>>

(* Mutant of Overlaps: a slice that only touches counts.                    *)
Touches(part, placement) ==
    /\ part.offset <= placement.offset + placement.size
    /\ placement.offset <= part.offset + part.size

Overlaps(part, placement) ==
    /\ part.offset < placement.offset + placement.size
    /\ placement.offset < part.offset + part.size

(* The parts of operation o that a slice of an operation of this kind is    *)
(* fed from.                                                                *)
Selected(kind, o, placement) ==
    LET near == {i \in 1 .. Len(cores) : Overlaps(cores[i], placement)}
        close == Among(mapped[o], near)
    IN  IF kind \notin AlignedKinds \/ close = <<>> THEN mapped[o] ELSE close

(* The operands of the core operation for role a of the fused operation.    *)
Sources(kind, args, a, placement) ==
    LET o == args[a][1]
        feed(i) == LET part == cores[i]
                   IN  [role |-> a, partition |-> part.partition, offset |-> part.offset,
                        size |-> part.size, from |-> i, result |-> args[a][2],
                        hops |-> Route(part.core, placement.core)]
        parts == Selected(kind, o, placement)
    IN  IF o = 0
          THEN <<[role |-> a, partition |-> -1, offset |-> 0, size |-> InputSize,
                  from |-> 0, result |-> args[a][2], hops |-> NoHops]>>
          ELSE [k \in 1 .. Len(parts) |-> feed(parts[k])]

(* The core operation of the slice under way. *)
CoreOp(o, placement) ==
    LET this == program.ops[o]
    IN  [op |-> o, core |-> placement.core, coord |-> CoordFor(placement.core),
         partition |-> placement.partition, offset |-> placement.offset,
         size |-> placement.size,
         operands |-> FlattenSeq([a \in 1 .. Len(this.args) |->
                                     Sources(this.kind, this.args, a, placement)])]

CreateCore ==
    /\ phase = "create"
    /\ cores' = Append(cores, CoreOp(op, plans[op][chunk]))
    /\ mapped' = [mapped EXCEPT ![op] = Append(@, Len(cores) + 1)]
    /\ IF chunk < Len(plans[op]) THEN chunk' = chunk + 1 /\ UNCHANGED <<op, phase>>
       ELSE /\ chunk' = 1
            /\ IF op + 1 \in Ops THEN op' = op + 1 /\ UNCHANGED phase
               ELSE op' = 1 /\ phase' = "finish"
    /\ UNCHANGED <<program, hardware, symbols, offset, used, plans, returns>>

(* Mutant of PartsReturned: the first partition stands for the result.      *)
FirstReturned(values) ==
    [k \in DOMAIN values |->
        IF values[k][1] = 0 THEN values[k] ELSE <<Head(mapped[values[k][1]]), values[k][2]>>]

(* func.return returns every partition of a mapped result. *)
PartsReturned(values) ==
    LET parts(v) == [i \in 1 .. Len(mapped[v[1]]) |-> <<mapped[v[1]][i], v[2]>>]
    IN  FlattenSeq([k \in 1 .. Len(values) |->
            IF values[k][1] = 0 THEN <<values[k]>> ELSE parts(values[k])])

(* The returns are rewritten, then a use that is neither fused nor a return *)
(* is refused, and the fused operations are erased.                         *)
Finish ==
    /\ phase = "finish"
    /\ returns' = PartsReturned(returns)
    /\ phase' = IF program.alien = {} THEN "done" ELSE "failed"
    /\ UNCHANGED <<program, hardware, symbols, op, chunk, offset, used, plans, cores, mapped>>

Next ==
    \/ Import \/ RefuseShape \/ MeshFull \/ PlaceChunk \/ NextOp
    \/ CreateCore \/ Finish

Spec == Init /\ [][Next]_vars

-----------------------------------------------------------------------------
Placement == [core : Nat, partition : Nat, offset : Nat, size : Nat \ {0}]

(* The planner's variables hold what they are declared to.                  *)
TypeOK ==
    /\ program \in Programs
    /\ phase \in {"import", "plan", "create", "finish", "done", "failed"}
    /\ op \in Nat \ {0} /\ offset \in Nat
    /\ used \in Seq(1 .. Capacity)
    /\ plans \in [Ops -> Seq(Placement)]

(* A core is planned for what fits on it and no core lies outside the mesh, *)
(* whatever the slices are and however they were interleaved (the loops of  *)
(* SNNOpCoreMapping.cpp:199-220): the slices of all operations on a core    *)
(* add up to its usedCapacity.                                              *)
Load(c) ==
    MapThenSumSet(LAMBDA o :
        MapThenSumSet(LAMBDA k : IF plans[o][k].core = c THEN plans[o][k].size ELSE 0,
                      DOMAIN plans[o]), Ops)
LoadWithinCapacity ==
    /\ Len(used) <= MeshCapacity
    /\ \A c \in 1 .. Len(used) : used[c] <= Capacity /\ Load(c - 1) = used[c]

(* First fit never opens a core while an earlier one could have taken what  *)
(* it holds: any two cores together are more than one core's worth          *)
(* (SNNOP_CORE_MAPPING.md:45), so the mesh is refused only when more than   *)
(* half of it is filled.                                                    *)
NoTwoSlackCores ==
    \A i, j \in 1 .. Len(used) : i < j => used[i] + used[j] > Capacity

(* The slices of an operation are numbered from 0 and tile its population:  *)
(* none overlap, none is missing once the planner has gone on.              *)
Tiled(plan, upTo) ==
    /\ plan = <<>> => upTo = 0
    /\ \A k \in 1 .. Len(plan) :
          /\ plan[k].partition = k - 1
          /\ plan[k].offset = IF k = 1 THEN 0 ELSE plan[k - 1].offset + plan[k - 1].size
          /\ k = Len(plan) => plan[k].offset + plan[k].size = upTo
SlicesTile ==
    \A o \in Ops :
        LET planned == CASE phase \in {"import", "failed"} -> FALSE
                         [] phase = "plan" -> o < op
                         [] OTHER -> TRUE
        IN  /\ planned => Tiled(plans[o], program.ops[o].pop)
            /\ phase = "plan" /\ o = op => Tiled(plans[o], offset)
            /\ phase = "plan" /\ o > op => plans[o] = <<>>

(* The neurons of operand arg that a slice depends on: those of the slice    *)
(* for an elementwise operation, all of them otherwise.                      *)
Needed(kind, size, slice) ==
    IF kind \in AlignedKinds /\ slice.offset < size
      THEN slice.offset .. Lesser(slice.offset + slice.size, size) - 1
      ELSE 0 .. size - 1

(* What verifyModelCore says of a core operation with this many operands of  *)
(* its own, and verifyRouter of the coordinate of a send or a receive.       *)
ModelCoreVerified(core, arity) ==
    /\ core.size > 0
    /\ \A k \in 1 .. Len(core.operands) :
          /\ core.operands[k].role \in 1 .. arity
          /\ core.operands[k].partition >= -1 /\ core.operands[k].size > 0
    /\ \A a \in 1 .. arity : \E k \in 1 .. Len(core.operands) : core.operands[k].role = a
RouterVerified(coord) == coord[1] \in 0 .. Dims[1] - 1 /\ coord[2] \in 0 .. Dims[2] - 1

(* Operand a of a core operation: the neurons it depends on, once and in     *)
(* order, from slices that have one of them each.                            *)
Neurons(x) == x.offset .. x.offset + x.size - 1
FedWhole(ops, this, a) ==
    LET fused == ops[this.op]
        producer == fused.args[a][1]
        needed == Needed(fused.kind, ops[producer].pop, this)
        feeds == {k \in 1 .. Len(this.operands) : this.operands[k].role = a}
        fed(k) == Neurons(this.operands[k])
    IN  producer # 0 =>
             /\ needed \subseteq UNION {fed(k) : k \in feeds}
             /\ \A k \in feeds : fed(k) \cap needed # {}
             /\ \A k, l \in feeds : k < l => \A n \in fed(k), m \in fed(l) : n < m

(* Operand x of core operation c is an earlier one's result, with the        *)
(* metadata and the hops it is announced with.                               *)
Traced(ops, all, x, c) ==
    LET this == all[c]
        source == all[x.from]
    IN  x.from # 0 =>
             /\ x.from < c /\ ops[this.op].args[x.role] = <<source.op, x.result>>
             /\ <<source.partition, source.offset, source.size>> =
                   <<x.partition, x.offset, x.size>>
             /\ x.hops = IF source.core = this.core THEN NoHops
                         ELSE <<source.coord, this.coord>>

FedRightly(ops, all, c) ==
    LET this == all[c]
        arity == Len(ops[this.op].args)
    IN  /\ ModelCoreVerified(this, arity)
        /\ RouterVerified(this.coord)
        /\ \A a \in 1 .. arity : FedWhole(ops, this, a)
        /\ \A k \in 1 .. Len(this.operands) : Traced(ops, all, this.operands[k], c)

(* Every slice is fed, per operand, by every neuron it depends on, once and  *)
(* in order, and by no slice it does not depend on; a value of another core  *)
(* comes through a send at its producer's router and a receive at its own    *)
(* (SNNOP_CORE_MAPPING.md:36-38), and the metadata arrays pass               *)
(* verifyModelCore and verifyRouter.                                         *)
EdgesCarryData == \A c \in 1 .. Len(cores) : FedRightly(program.ops, cores, c)

(* When the pass succeeds nothing refers to an erased operation: every       *)
(* returned value is a function argument or the result of a core operation,  *)
(* and a returned result comes back whole, slice by slice.                   *)
SizeOf(v) == IF v[1] = 0 THEN 0 ELSE cores[v[1]].size
PopulationOf(v) == IF v[1] = 0 THEN 0 ELSE program.ops[v[1]].pop
ReturnsWhole ==
    phase = "done" =>
        /\ SumFunction([k \in DOMAIN returns |-> SizeOf(returns[k])])
              = SumFunction([k \in DOMAIN program.returns |-> PopulationOf(program.returns[k])])
        /\ \A k \in DOMAIN returns :
             LET b == cores[returns[k][1]]
                 a == cores[returns[k - 1][1]]
             IN  returns[k][1] # 0 =>
                   \/ b.offset = 0
                   \/ /\ k > 1 /\ returns[k - 1][1] # 0
                      /\ returns[k - 1][2] = returns[k][2]
                      /\ b.op = a.op /\ b.offset = a.offset + a.size
=============================================================================
