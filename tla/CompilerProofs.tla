--------------------------- MODULE CompilerProofs ---------------------------
(***************************************************************************)
(* Proofs about the two models of the compiler.                            *)
(*                                                                         *)
(* CoreMapping, for every mesh, capacity and program: the planner first,   *)
(* then the sequences and sums the core operations are built from, then    *)
(* what every core operation and the return carry.                         *)
(*                                                                         *)
(* SnnPasses, for every block and function: the lists its passes rewrite,  *)
(* one inductive invariant per stage, the steps from the importer to       *)
(* SNNExec, and that no pass changes what a function computes.             *)
(***************************************************************************)
EXTENDS CoreMapping, SnnPasses, SumTheorems, SequenceTheorems, FiniteSetTheorems

LEMMA Constants == Capacity \in Nat \ {0} /\ MeshCapacity \in Nat
<1>1. Capacity \in Nat \ {0} /\ Dims \in (Nat \ {0}) \X (Nat \ {0})
  BY MappingAssumption
<1>2. Dims[1] \in Nat /\ Dims[2] \in Nat
  BY <1>1
<1>3. \A x, y \in Nat : x * y \in Nat
  OBVIOUS
<1> QED
  BY <1>1, <1>2, <1>3 DEF MeshCapacity

LEMMA ProgramParts ==
  ASSUME program \in Programs
  PROVE  /\ Len(program.ops) \in Nat /\ Ops \subseteq Nat
         /\ program.returns \in Seq((0 .. Len(program.ops)) \X Nat)
         /\ \A o \in Ops : /\ program.ops[o].pop \in Nat
                           /\ program.ops[o].args \in Seq((0 .. o - 1) \X Nat)
<1>1. \A p \in Programs :
        /\ Len(p.ops) \in Nat /\ p.returns \in Seq((0 .. Len(p.ops)) \X Nat)
        /\ \A o \in 1 .. Len(p.ops) :
              p.ops[o].pop \in Nat /\ p.ops[o].args \in Seq((0 .. o - 1) \X Nat)
  BY Zenon, ProgramAssumption
<1>2. /\ Len(program.ops) \in Nat /\ program.returns \in Seq((0 .. Len(program.ops)) \X Nat)
      /\ \A o \in Ops : /\ program.ops[o].pop \in Nat
                        /\ program.ops[o].args \in Seq((0 .. o - 1) \X Nat)
  BY Zenon, <1>1 DEF Ops
<1>3. Ops \subseteq Nat
  BY <1>2 DEF Ops
<1> QED
  BY Zenon, <1>2, <1>3

(* First fit finds a core with room, or says that there is none.           *)
LEMMA FirstFitFits ==
  ASSUME TypeOK, NEW size \in Nat \ {0}
  PROVE  /\ FirstFit(size) \in 0 .. Len(used)
         /\ FirstFit(size) < Len(used) => used[FirstFit(size) + 1] + size <= Capacity
         /\ FirstFit(size) = Len(used) => \A c \in 1 .. Len(used) : used[c] + size > Capacity
<1> DEFINE room == {c \in 1 .. Len(used) : Capacity - used[c] >= size}
<1>1. /\ Len(used) \in Nat
      /\ \A c \in 1 .. Len(used) : used[c] \in 1 .. Capacity
  BY Constants, ElementOfSeq DEF TypeOK
<1>2. CASE room = {}
  <2>1. FirstFit(size) = Len(used)
    BY <1>2 DEF FirstFit
  <2>2. \A c \in 1 .. Len(used) : used[c] + size > Capacity
    BY <1>1, <1>2, Constants
  <2> QED
    BY <1>1, <2>1, <2>2
<1>3. CASE room # {}
  <2>0. room \in SUBSET Nat
    BY <1>1
  <2>2. FirstFit(size) = Min(room) - 1
    BY <1>3 DEF FirstFit
  <2> HIDE DEF room
  <2>1. Min(room) \in room
    BY <2>0, <1>3, LeastExists
  <2>3. Min(room) \in 1 .. Len(used) /\ Capacity - used[Min(room)] >= size
    BY <2>1 DEF room
  <2> QED
    BY <1>1, <2>2, <2>3, Constants
<1> QED
  BY <1>2, <1>3

(* A slice is never empty and never more than a core holds.                *)
LEMMA ChunkSizeFits ==
  ASSUME TypeOK, op \in Ops, offset < program.ops[op].pop
  PROVE  /\ program.ops[op].pop \in Nat
         /\ ChunkSize \in 1 .. Capacity
         /\ offset + ChunkSize <= program.ops[op].pop
<1>1. program.ops[op].pop \in Nat /\ offset \in Nat
  BY ProgramParts DEF TypeOK
<1> QED
  BY <1>1, Constants DEF ChunkSize, Lesser

-----------------------------------------------------------------------------
(***************************************************************************)
(* Type correctness.                                                       *)
(***************************************************************************)

LEMMA TypeInit == Init => TypeOK
<1> SUFFICES ASSUME Init PROVE TypeOK
  OBVIOUS
<1>1. plans \in [Ops -> Seq(Placement)]
  BY EmptySeq DEF Init
<1>2. used \in Seq(1 .. Capacity)
  BY EmptySeq DEF Init
<1> QED
  BY <1>1, <1>2 DEF Init, TypeOK

(* PlaceChunk adds a slice that fits to one core, and one placement.       *)
LEMMA PlaceChunkEffect ==
  ASSUME TypeOK, PlaceChunk
  PROVE  LET size == ChunkSize
             core == FirstFit(ChunkSize)
         IN  /\ size \in 1 .. Capacity
             /\ offset + size <= program.ops[op].pop
             /\ core \in 0 .. Len(used) /\ core < MeshCapacity
             /\ core = Len(used) => /\ used' = Append(used, size)
                                    /\ \A c \in 1 .. Len(used) : used[c] + size > Capacity
             /\ core # Len(used) => /\ used' = [used EXCEPT ![core + 1] = @ + size]
                                    /\ used[core + 1] + size <= Capacity
             /\ plans' = [plans EXCEPT ![op] =
                  Append(@, [core |-> core, partition |-> Len(plans[op]),
                             offset |-> offset, size |-> size])]
             /\ offset' = offset + size
             /\ UNCHANGED <<program, phase, op>>
<1> DEFINE size == ChunkSize
           core == FirstFit(size)
<1>1. /\ size \in 1 .. Capacity /\ offset + size <= program.ops[op].pop
  BY ChunkSizeFits DEF PlaceChunk
<1>2. /\ core \in 0 .. Len(used)
      /\ core < Len(used) => used[core + 1] + size <= Capacity
      /\ core = Len(used) => \A c \in 1 .. Len(used) : used[c] + size > Capacity
  BY <1>1, FirstFitFits
<1>3. Len(used) \in Nat
  BY DEF TypeOK
<1> QED
  BY <1>1, <1>2, <1>3 DEF PlaceChunk

LEMMA TypePlaceChunk == TypeOK /\ PlaceChunk => TypeOK'
<1> SUFFICES ASSUME TypeOK, PlaceChunk PROVE TypeOK'
  OBVIOUS
<1> DEFINE size == ChunkSize
           core == FirstFit(ChunkSize)
           placement == [core |-> core, partition |-> Len(plans[op]),
                         offset |-> offset, size |-> size]
<1>1. /\ size \in 1 .. Capacity /\ core \in 0 .. Len(used)
      /\ core = Len(used) => used' = Append(used, size)
      /\ core # Len(used) => /\ used' = [used EXCEPT ![core + 1] = @ + size]
                             /\ used[core + 1] + size <= Capacity
      /\ plans' = [plans EXCEPT ![op] = Append(@, placement)]
      /\ offset' = offset + size
      /\ UNCHANGED <<program, phase, op>>
  BY PlaceChunkEffect
<1> HIDE DEF size, core
<1>2. used \in Seq(1 .. Capacity) /\ Len(used) \in Nat /\ Capacity \in Nat
  BY Constants DEF TypeOK
<1> DEFINE S == 1 .. Capacity
<1>3. used' \in Seq(S)
  <2>1. used \in Seq(S) /\ size \in S
    BY <1>1, <1>2
  <2>2. CASE core = Len(used)
    <3> HIDE DEF S
    <3>1. Append(used, size) \in Seq(S)
      BY <2>1, AppendProperties
    <3> QED
      BY <1>1, <2>2, <3>1
  <2>3. CASE core # Len(used)
    <3>1. core + 1 \in 1 .. Len(used)
      BY <1>1, <1>2, <2>3
    <3>2. used[core + 1] \in S
      BY <2>1, <3>1, ElementOfSeq
    <3>3. used[core + 1] + size \in S
      BY <1>1, <1>2, <2>3, <3>2
    <3> HIDE DEF S
    <3>4. [used EXCEPT ![core + 1] = used[core + 1] + size] \in Seq(S)
      BY <2>1, <3>1, <3>3, ExceptSeq
    <3> QED
      BY <1>1, <2>3, <3>4
  <2> QED
    BY <2>2, <2>3
<1>4. op \in Ops /\ plans \in [Ops -> Seq(Placement)] /\ offset \in Nat
  BY DEF TypeOK, PlaceChunk
<1>5. placement \in Placement
  <2>1. plans[op] \in Seq(Placement)
    BY <1>4
  <2>2. Len(plans[op]) \in Nat
    BY <2>1
  <2> QED
    BY <1>1, <1>2, <1>4, <2>2 DEF Placement
<1> HIDE DEF placement
<1>6. Append(plans[op], placement) \in Seq(Placement)
  BY <1>4, <1>5, AppendProperties
<1>7. plans' \in [Ops -> Seq(Placement)]
  BY <1>1, <1>4, <1>6
<1>8. Ops' = Ops /\ offset' \in Nat
  BY <1>1, <1>2, <1>4 DEF Ops
<1> QED
  BY <1>1, <1>3, <1>7, <1>8 DEF TypeOK

LEMMA TypeOther ==
  ASSUME TypeOK, Import \/ RefuseShape \/ MeshFull \/ NextOp \/ CreateCore \/ Finish
  PROVE  TypeOK' /\ UNCHANGED <<program, used, plans>>
<1>1. UNCHANGED <<program, used, plans>> /\ Ops' = Ops
  BY DEF Import, RefuseShape, MeshFull, NextOp, CreateCore, Finish, Ops
<1>2. op' \in Nat \ {0} /\ offset' \in Nat
  BY DEF Import, RefuseShape, MeshFull, NextOp, CreateCore, Finish, TypeOK
<1>3. phase' \in {"import", "plan", "create", "finish", "done", "failed"}
  BY DEF Import, RefuseShape, MeshFull, NextOp, CreateCore, Finish, TypeOK
<1> QED
  BY <1>1, <1>2, <1>3 DEF TypeOK

LEMMA TypeStep == TypeOK /\ [Next]_vars => TypeOK'
<1> SUFFICES ASSUME TypeOK, [Next]_vars PROVE TypeOK'
  OBVIOUS
<1>1. CASE PlaceChunk
  BY <1>1, TypePlaceChunk
<1>2. CASE Import \/ RefuseShape \/ MeshFull \/ NextOp \/ CreateCore \/ Finish
  BY <1>2, TypeOther
<1>3. CASE UNCHANGED vars
  BY <1>3 DEF vars, created, TypeOK, Ops
<1> QED
  BY <1>1, <1>2, <1>3 DEF Next

(* Whatever the program, the capacity and the mesh, every core of the plan  *)
(* holds between one neuron and its capacity, and every placement is a      *)
(* nonempty slice.                                                         *)
THEOREM TypeCorrect == Spec => []TypeOK
<1> QED
  BY TypeInit, TypeStep, PTL DEF Spec

-----------------------------------------------------------------------------
(***************************************************************************)
(* First fit.  A slice opens a core only when it fits on none of the open  *)
(* ones, and a core that is open only gains neurons.                       *)
(***************************************************************************)

LEMMA SlackPlaceChunk ==
  ASSUME TypeOK, NoTwoSlackCores, PlaceChunk
  PROVE  NoTwoSlackCores'
<1> DEFINE size == ChunkSize
           core == FirstFit(ChunkSize)
<1>1. /\ size \in 1 .. Capacity /\ core \in 0 .. Len(used)
      /\ core = Len(used) => /\ used' = Append(used, size)
                             /\ \A c \in 1 .. Len(used) : used[c] + size > Capacity
      /\ core # Len(used) => used' = [used EXCEPT ![core + 1] = @ + size]
  BY PlaceChunkEffect
<1> HIDE DEF size, core
<1>2. /\ used \in Seq(1 .. Capacity) /\ Len(used) \in Nat /\ Capacity \in Nat
      /\ \A c \in 1 .. Len(used) : used[c] \in 1 .. Capacity
  BY Constants, ElementOfSeq DEF TypeOK
<1>3. CASE core = Len(used)
  <2>1. /\ Len(used') = Len(used) + 1
        /\ \A c \in 1 .. Len(used) : used'[c] = used[c]
        /\ used'[Len(used) + 1] = size
    <3> DEFINE S == 1 .. Capacity
    <3>1. used \in Seq(S) /\ size \in S
      BY <1>1, <1>2
    <3> HIDE DEF S
    <3>2. /\ Len(Append(used, size)) = Len(used) + 1
          /\ \A c \in 1 .. Len(used) : Append(used, size)[c] = used[c]
          /\ Append(used, size)[Len(used) + 1] = size
      BY <3>1, AppendProperties
    <3> QED
      BY <1>1, <1>3, <3>2
  <2> SUFFICES ASSUME NEW i \in 1 .. Len(used) + 1, NEW j \in 1 .. Len(used) + 1, i < j
               PROVE  used'[i] + used'[j] > Capacity
    BY <2>1 DEF NoTwoSlackCores
  <2>2. i \in 1 .. Len(used) /\ used'[i] = used[i]
    BY <1>2, <2>1
  <2>3. CASE j = Len(used) + 1
    BY <1>1, <1>3, <2>1, <2>2, <2>3
  <2>4. CASE j # Len(used) + 1
    <3>1. Len(used) \in Nat
      BY <1>2
    <3>2. j \in 1 .. Len(used)
      BY <2>4, <3>1
    <3>3. used'[j] = used[j]
      BY <2>1, <3>2
    <3> QED
      BY <2>2, <3>2, <3>3 DEF NoTwoSlackCores
  <2> QED
    BY <2>3, <2>4
<1>4. CASE core # Len(used)
  <2>1. used' = [used EXCEPT ![core + 1] = used[core + 1] + size]
    BY <1>1, <1>4
  <2>2. /\ Len(used') = Len(used)
        /\ \A c \in 1 .. Len(used) : used'[c] >= used[c]
    <3>1. core + 1 \in 1 .. Len(used)
      BY <1>1, <1>2, <1>4
    <3>2. Len(used') = Len(used)
      BY <1>2, <2>1, <3>1, ExceptSeq
    <3>3. \A c \in 1 .. Len(used) :
             used'[c] = IF c = core + 1 THEN used[core + 1] + size ELSE used[c]
      BY <1>2, <2>1
    <3> QED
      BY <1>1, <1>2, <3>1, <3>2, <3>3
  <2> SUFFICES ASSUME NEW i \in 1 .. Len(used), NEW j \in 1 .. Len(used), i < j
               PROVE  used'[i] + used'[j] > Capacity
    BY <2>2 DEF NoTwoSlackCores
  <2>3. used[i] + used[j] > Capacity /\ used'[i] >= used[i] /\ used'[j] >= used[j]
    BY <2>2 DEF NoTwoSlackCores
  <2>4. used'[i] \in Int /\ used'[j] \in Int
    BY <1>1, <1>2, <2>1
  <2> QED
    BY <1>2, <2>3, <2>4
<1> QED
  BY <1>3, <1>4

(* However the operations are cut, no two open cores could have shared one: *)
(* the mesh is not refused while half of it is empty                        *)
(* (SNNOpCoreMapping.cpp:200-214).                                          *)
THEOREM FirstFitPacks == Spec => []NoTwoSlackCores
<1> DEFINE PackInv == TypeOK /\ NoTwoSlackCores
<1>1. Init => PackInv
  BY TypeInit, EmptySeq DEF Init, NoTwoSlackCores
<1>2. PackInv /\ [Next]_vars => PackInv'
  <2> SUFFICES ASSUME PackInv, [Next]_vars PROVE PackInv'
    OBVIOUS
  <2>1. TypeOK'
    BY TypeStep
  <2>2. CASE PlaceChunk
    BY <2>1, <2>2, SlackPlaceChunk
  <2>3. CASE Import \/ RefuseShape \/ MeshFull \/ NextOp \/ CreateCore \/ Finish
    <3>1. used' = used
      BY <2>3, TypeOther
    <3> QED
      BY <2>1, <3>1 DEF NoTwoSlackCores
  <2>4. CASE UNCHANGED vars
    BY <2>1, <2>4 DEF vars, created, NoTwoSlackCores
  <2> QED
    BY <2>2, <2>3, <2>4 DEF Next
<1>3. PackInv => NoTwoSlackCores
  OBVIOUS
<1> QED
  BY <1>1, <1>2, <1>3, PTL DEF Spec

-----------------------------------------------------------------------------
(***************************************************************************)
(* The slices of an operation tile its population.                         *)
(***************************************************************************)

LEMMA TiledAppend ==
  ASSUME NEW plan \in Seq(Placement), NEW upTo \in Nat, Tiled(plan, upTo),
         NEW p \in Placement, p.partition = Len(plan), p.offset = upTo
  PROVE  Tiled(Append(plan, p), upTo + p.size)
<1> DEFINE next == Append(plan, p)
<1>1. /\ Len(plan) \in Nat /\ Len(next) = Len(plan) + 1
      /\ \A k \in 1 .. Len(plan) : next[k] = plan[k]
      /\ next[Len(plan) + 1] = p
  BY AppendProperties
<1> HIDE DEF next
<1>2. next # <<>>
  <2>1. Len(next) # 0
    BY <1>1
  <2>2. Len(<<>>) = 0
    OBVIOUS
  <2> QED
    BY <2>1, <2>2
<1>3. ASSUME NEW k \in 1 .. Len(plan) + 1
      PROVE  /\ next[k].partition = k - 1
             /\ next[k].offset = IF k = 1 THEN 0 ELSE next[k - 1].offset + next[k - 1].size
             /\ k = Len(next) => next[k].offset + next[k].size = upTo + p.size
  <2>1. CASE k = Len(plan) + 1
    <3>1. next[k].partition = k - 1 /\ next[k].offset = upTo /\ next[k].size = p.size
      BY <1>1, <2>1
    <3>2. CASE k = 1
      <4>1. upTo = 0
        BY <1>1, <2>1, <3>2, EmptySeq DEF Tiled
      <4> QED
        BY <3>1, <3>2, <4>1
    <3>3. CASE k # 1
      <4>1. k - 1 \in 1 .. Len(plan) /\ k - 1 = Len(plan)
        BY <1>1, <2>1, <3>3
      <4>2. next[k - 1] = plan[Len(plan)]
        BY <1>1, <4>1
      <4>3. plan[Len(plan)].offset + plan[Len(plan)].size = upTo
        BY <4>1 DEF Tiled
      <4> QED
        BY <3>1, <3>3, <4>2, <4>3
    <3> QED
      BY <3>2, <3>3
  <2>2. CASE k # Len(plan) + 1
    <3>1. k \in 1 .. Len(plan) /\ next[k] = plan[k] /\ k # Len(next)
      BY <1>1, <2>2
    <3>2. k # 1 => k - 1 \in 1 .. Len(plan)
      BY <1>1, <3>1
    <3>3. k # 1 => next[k - 1] = plan[k - 1]
      BY <1>1, <3>2
    <3> QED
      BY <3>1, <3>3 DEF Tiled
  <2> QED
    BY <2>1, <2>2
<1> QED
  BY <1>1, <1>2, <1>3 DEF Tiled, next

(* What SlicesTile needs: nothing is planned before the import is done, and *)
(* the slices of an operation never go past its population.                 *)
TileInv ==
    /\ TypeOK
    /\ SlicesTile
    /\ phase = "import" => op = 1 /\ offset = 0 /\ \A o \in Ops : plans[o] = <<>>
    /\ phase = "plan" /\ op \in Ops => offset <= program.ops[op].pop

LEMMA TileInit == Init => TileInv
<1> SUFFICES ASSUME Init PROVE TileInv
  OBVIOUS
<1>1. \A o \in Ops : plans[o] = <<>>
  BY DEF Init
<1>2. phase = "import" /\ op = 1 /\ offset = 0
  BY DEF Init
<1>3. SlicesTile
  BY <1>2 DEF SlicesTile
<1> QED
  BY <1>1, <1>2, <1>3, TypeInit DEF TileInv

LEMMA TilePlaceChunk ==
  ASSUME TileInv, PlaceChunk
  PROVE  TileInv'
<1> DEFINE size == ChunkSize
           placement == [core |-> FirstFit(ChunkSize), partition |-> Len(plans[op]),
                         offset |-> offset, size |-> size]
<1>1. TypeOK /\ TypeOK' /\ phase = "plan" /\ op \in Ops /\ Ops' = Ops
  BY TypePlaceChunk DEF TileInv, PlaceChunk, Ops
<1>2. /\ size \in 1 .. Capacity /\ FirstFit(ChunkSize) \in 0 .. Len(used)
      /\ offset + size <= program.ops[op].pop
      /\ plans' = [plans EXCEPT ![op] = Append(plans[op], placement)]
      /\ offset' = offset + size
      /\ UNCHANGED <<program, phase, op>>
  BY <1>1, PlaceChunkEffect
<1>3. /\ plans \in [Ops -> Seq(Placement)] /\ offset \in Nat /\ Len(used) \in Nat
      /\ Ops \subseteq Nat /\ Capacity \in Nat
  BY <1>1, Constants DEF TypeOK, Ops
<1>4. plans[op] \in Seq(Placement) /\ Tiled(plans[op], offset)
  BY <1>1, <1>3 DEF TileInv, SlicesTile
<1>5. Tiled(plans'[op], offset')
  <2>1. Len(plans[op]) \in Nat
    BY <1>4
  <2>2. placement \in Placement /\ placement.partition = Len(plans[op])
        /\ placement.offset = offset /\ placement.size = size
    BY <1>2, <1>3, <2>1 DEF Placement
  <2> HIDE DEF placement
  <2>3. Tiled(Append(plans[op], placement), offset + placement.size)
    BY <1>3, <1>4, <2>2, TiledAppend
  <2> QED
    BY <1>1, <1>2, <1>3, <2>2, <2>3
<1>6. \A o \in Ops : o # op => plans'[o] = plans[o]
  BY <1>2, <1>3
<1>7. SlicesTile'
  <2> SUFFICES ASSUME NEW o \in Ops
               PROVE  /\ o < op => Tiled(plans'[o], program.ops[o].pop)
                      /\ o = op => Tiled(plans'[o], offset')
                      /\ o > op => plans'[o] = <<>>
    BY <1>1, <1>2 DEF SlicesTile
  <2>1. CASE o = op
    BY <1>3, <1>5, <2>1
  <2>2. CASE o # op
    <3>1. /\ o < op => Tiled(plans[o], program.ops[o].pop)
          /\ o > op => plans[o] = <<>>
      BY <1>1 DEF TileInv, SlicesTile
    <3> QED
      BY <1>6, <2>2, <3>1
  <2> QED
    BY <2>1, <2>2
<1> QED
  BY <1>1, <1>2, <1>7 DEF TileInv

LEMMA TileImport == TileInv /\ Import => TileInv'
<1> SUFFICES ASSUME TileInv, Import PROVE TileInv'
  OBVIOUS
<1>1. TypeOK' /\ UNCHANGED <<program, plans>> /\ Ops' = Ops
  BY TypeOther DEF TileInv, Ops
<1>2. /\ op' = 1 /\ offset' = 0 /\ \A o \in Ops : plans[o] = <<>>
      /\ phase' \in {"plan", "failed"}
  BY DEF TileInv, Import
<1>3. Tiled(<<>>, 0)
  BY DEF Tiled
<1>4. \A o \in Ops : ~ (o < 1)
  BY DEF Ops
<1>5. SlicesTile'
  BY <1>1, <1>2, <1>3, <1>4 DEF SlicesTile
<1>6. 1 \in Ops => 0 <= program.ops[1].pop
  <2>1. \A o \in Ops : program.ops[o].pop \in Nat
    BY Zenon, ProgramParts DEF TileInv, TypeOK
  <2> QED
    BY <2>1
<1> QED
  BY <1>1, <1>2, <1>5, <1>6 DEF TileInv

LEMMA TileNextOp == TileInv /\ NextOp => TileInv'
<1> SUFFICES ASSUME TileInv, NextOp PROVE TileInv'
  OBVIOUS
<1>1. TypeOK' /\ UNCHANGED <<program, plans>> /\ Ops' = Ops
  BY TypeOther DEF TileInv, Ops
<1>2. /\ phase = "plan" /\ op \in Ops /\ offset' = 0
      /\ op \in Nat /\ offset \in Nat /\ program \in Programs
  BY DEF TileInv, NextOp, TypeOK
<1>3. /\ Len(program.ops) \in Nat
      /\ \A o \in Ops : program.ops[o].pop \in Nat
  BY <1>2, ProgramParts DEF Ops
<1>4. Tiled(plans[op], program.ops[op].pop)
  <2>1. offset >= program.ops[op].pop /\ offset <= program.ops[op].pop
    BY <1>2 DEF TileInv, NextOp
  <2>2. offset = program.ops[op].pop
    BY <1>2, <1>3, <2>1
  <2> QED
    BY <1>2, <2>2 DEF TileInv, SlicesTile
<1>5. \A o \in Ops : /\ o <= op => Tiled(plans[o], program.ops[o].pop)
                     /\ o > op => plans[o] = <<>>
  <2> TAKE o \in Ops
  <2>1. o \in Nat
    BY DEF Ops
  <2>2. o < op => Tiled(plans[o], program.ops[o].pop)
    BY <1>2 DEF TileInv, SlicesTile
  <2>3. o > op => plans[o] = <<>>
    BY <1>2 DEF TileInv, SlicesTile
  <2> QED
    BY <1>2, <1>4, <2>1, <2>2, <2>3
<1>6. CASE op + 1 \in Ops
  <2>1. phase' = "plan" /\ op' = op + 1
    BY <1>2, <1>6 DEF NextOp
  <2>2. \A o \in Ops : (o < op + 1 <=> o <= op) /\ (o >= op + 1 <=> o > op)
    BY <1>2 DEF Ops
  <2>3. Tiled(<<>>, 0)
    BY DEF Tiled
  <2>4. SlicesTile'
    <3> SUFFICES ASSUME NEW o \in Ops
                 PROVE  /\ o < op + 1 => Tiled(plans[o], program.ops[o].pop)
                        /\ o = op + 1 => Tiled(plans[o], 0)
                        /\ o > op + 1 => plans[o] = <<>>
      BY <1>1, <1>2, <2>1 DEF SlicesTile
    <3>1. o = op + 1 \/ o > op + 1 => o > op
      BY <1>2, <2>2 DEF Ops
    <3> QED
      BY <1>5, <2>2, <2>3, <3>1
  <2> QED
    BY <1>1, <1>2, <1>3, <1>6, <2>1, <2>4 DEF TileInv
<1>7. CASE op + 1 \notin Ops
  <2>1. phase' = "create"
    BY <1>2, <1>7 DEF NextOp
  <2>2. \A o \in Ops : o <= op
    BY <1>2, <1>3, <1>7 DEF Ops
  <2>3. SlicesTile'
    BY <1>1, <1>5, <2>1, <2>2 DEF SlicesTile
  <2> QED
    BY <1>1, <2>1, <2>3 DEF TileInv
<1> QED
  BY <1>6, <1>7

(* The actions after the planner leave the plans as they are.              *)
LEMMA TileAfter ==
  ASSUME TileInv, RefuseShape \/ MeshFull \/ CreateCore \/ Finish
  PROVE  TileInv'
<1>1. TypeOK' /\ UNCHANGED <<program, plans>> /\ Ops' = Ops
  BY TypeOther DEF TileInv, Ops
<1>2. /\ phase' \in {"create", "finish", "done", "failed"}
      /\ phase' # "failed" => phase \in {"create", "finish"}
  BY DEF RefuseShape, MeshFull, CreateCore, Finish
<1>3. phase \in {"create", "finish"} => \A o \in Ops : Tiled(plans[o], program.ops[o].pop)
  BY DEF TileInv, SlicesTile
<1>4. SlicesTile'
  BY <1>1, <1>2, <1>3 DEF SlicesTile
<1> QED
  BY <1>1, <1>2, <1>4 DEF TileInv

LEMMA TileStep == TileInv /\ [Next]_vars => TileInv'
<1> SUFFICES ASSUME TileInv, [Next]_vars PROVE TileInv'
  OBVIOUS
<1>1. CASE Import
  BY <1>1, TileImport
<1>2. CASE PlaceChunk
  BY <1>2, TilePlaceChunk
<1>3. CASE NextOp
  BY <1>3, TileNextOp
<1>4. CASE RefuseShape \/ MeshFull \/ CreateCore \/ Finish
  BY <1>4, TileAfter
<1>5. CASE UNCHANGED vars
  BY <1>5 DEF vars, created, TileInv, TypeOK, SlicesTile, Ops
<1> QED
  BY <1>1, <1>2, <1>3, <1>4, <1>5 DEF Next

(* The placements of an operation are numbered in order, overlap nowhere    *)
(* and leave no neuron out, for every program and every capacity (the       *)
(* offsets of SNNOpCoreMapping.cpp:194-220).                                *)
THEOREM SlicesTileAlways == Spec => []SlicesTile
<1>1. TileInv => SlicesTile
  BY DEF TileInv
<1> QED
  BY TileInit, TileStep, <1>1, PTL DEF Spec

-----------------------------------------------------------------------------
(***************************************************************************)
(* The load of a core: what the slices of all operations on it add up to.  *)
(***************************************************************************)
Weight(plan, c) == [k \in DOMAIN plan |-> IF plan[k].core = c THEN plan[k].size ELSE 0]
Share(plan, c) == SumFunctionOnSet(Weight(plan, c), DOMAIN plan)
LoadOf(all, c) == SumFunctionOnSet([o \in DOMAIN all |-> Share(all[o], c)], DOMAIN all)

LEMMA LoadIsSum ==
  ASSUME TypeOK, NEW c
  PROVE  Load(c) = LoadOf(plans, c)
<1>1. \A o \in Ops : MapThenSumSet(LAMBDA k : IF plans[o][k].core = c
                                              THEN plans[o][k].size ELSE 0, DOMAIN plans[o])
                        = Share(plans[o], c)
  BY Zenon DEF Share, Weight, SumFunctionOnSet, FoldFunctionOnSet, MapThenFoldSet,
               MapThenSumSet
<1>2. DOMAIN plans = Ops
  BY DEF TypeOK
<1> DEFINE inner(o) == MapThenSumSet(LAMBDA k : IF plans[o][k].core = c
                                                THEN plans[o][k].size ELSE 0, DOMAIN plans[o])
           f == [o \in Ops |-> inner(o)]
           g == [o \in Ops |-> Share(plans[o], c)]
<1>3. f = g
  BY Zenon, <1>1
<1>4. Load(c) = SumFunctionOnSet(f, Ops)
  <2>1. Load(c) = MapThenSumSet(inner, Ops)
    BY Zenon DEF Load
  <2> HIDE DEF inner
  <2> QED
    BY ZenonT(40), <2>1 DEF SumFunctionOnSet, FoldFunctionOnSet, MapThenFoldSet,
                           MapThenSumSet
<1>5. LoadOf(plans, c) = SumFunctionOnSet(g, Ops)
  BY Zenon, <1>2 DEF LoadOf
<1> QED
  BY Zenon, <1>3, <1>4, <1>5

LEMMA PlanParts ==
  ASSUME NEW plan \in Seq(Placement), NEW c
  PROVE  /\ Len(plan) \in Nat /\ DOMAIN plan = 1 .. Len(plan)
         /\ IsFiniteSet(DOMAIN plan)
         /\ \A k \in DOMAIN plan : plan[k] \in Placement /\ Weight(plan, c)[k] \in Nat
         /\ Share(plan, c) \in Nat
<1>1. Len(plan) \in Nat /\ DOMAIN plan = 1 .. Len(plan)
  OBVIOUS
<1>2. IsFiniteSet(DOMAIN plan)
  <2>1. 1 \in Int /\ Len(plan) \in Int
    BY <1>1
  <2> QED
    BY <1>1, <2>1, FS_Interval
<1>3. \A k \in DOMAIN plan : plan[k] \in Placement
  BY ElementOfSeq
<1>4. \A k \in DOMAIN plan : Weight(plan, c)[k] \in Nat
  BY <1>3 DEF Weight, Placement
<1>5. Share(plan, c) \in Nat
  BY <1>2, <1>4, SumNat DEF Share
<1> QED
  BY <1>1, <1>2, <1>3, <1>4, <1>5

(* One placement more adds its size to its core and to no other.           *)
LEMMA ShareAppend ==
  ASSUME NEW plan \in Seq(Placement), NEW p \in Placement, NEW c
  PROVE  Share(Append(plan, p), c) = Share(plan, c) + (IF p.core = c THEN p.size ELSE 0)
<1> DEFINE next == Append(plan, p)
           n == Len(plan) + 1
           v == Weight(plan, c)
           w == Weight(next, c)
           D == DOMAIN plan
           N == DOMAIN next
<1>1. /\ next \in Seq(Placement) /\ Len(next) = n
      /\ \A k \in 1 .. Len(plan) : next[k] = plan[k]
      /\ next[n] = p
  BY AppendProperties
<1>2. /\ Len(plan) \in Nat /\ D = 1 .. Len(plan) /\ IsFiniteSet(D)
      /\ \A k \in D : v[k] \in Nat
      /\ Share(plan, c) = SumFunctionOnSet(v, D) /\ Share(plan, c) \in Nat
  BY PlanParts DEF Share
<1>3. /\ N = 1 .. n /\ IsFiniteSet(N) /\ \A k \in N : w[k] \in Int
      /\ Share(next, c) = SumFunctionOnSet(w, N)
  <2>1. /\ DOMAIN next = 1 .. Len(next) /\ IsFiniteSet(DOMAIN next)
        /\ \A k \in DOMAIN next : Weight(next, c)[k] \in Nat
    <3> HIDE DEF next
    <3> QED
      BY <1>1, PlanParts
  <2>2. Share(next, c) = SumFunctionOnSet(w, N)
    BY DEF Share
  <2> QED
    BY <1>1, <2>1, <2>2
<1>4. n \in N /\ N \ {n} = D
  BY <1>2, <1>3
<1>5. w[n] = IF p.core = c THEN p.size ELSE 0
  BY <1>1, <1>4 DEF Weight
<1>6. \A k \in D : w[k] = v[k]
  BY <1>1, <1>2, <1>4 DEF Weight
<1> HIDE DEF v, w, D, N, n
<1>7. SumFunctionOnSet(w, N) = w[n] + SumFunctionOnSet(w, D)
  BY <1>3, <1>4, SumTake
<1>8. SumFunctionOnSet(w, D) = SumFunctionOnSet(v, D)
  BY <1>2, <1>6, SumCongruence
<1>9. w[n] \in Int
  BY <1>3, <1>4
<1> HIDE DEF next
<1>10. Share(next, c) = Share(plan, c) + w[n]
  BY <1>2, <1>3, <1>7, <1>8, <1>9
<1> QED
  BY <1>5, <1>10 DEF next

LEMMA OpsFinite == ASSUME TypeOK PROVE IsFiniteSet(Ops)
<1>1. 1 \in Int /\ Len(program.ops) \in Int
  BY ProgramParts DEF TypeOK
<1> QED
  BY <1>1, FS_Interval DEF Ops

LEMMA LoadAfter ==
  ASSUME TypeOK, NEW o \in Ops, NEW p \in Placement, NEW c
  PROVE  LoadOf([plans EXCEPT ![o] = Append(@, p)], c)
            = LoadOf(plans, c) + (IF p.core = c THEN p.size ELSE 0)
         /\ LoadOf(plans, c) \in Nat
<1> DEFINE more == [plans EXCEPT ![o] = Append(@, p)]
           f == [x \in Ops |-> Share(plans[x], c)]
           g == [x \in Ops |-> Share(more[x], c)]
           e == IF p.core = c THEN p.size ELSE 0
<1>1. /\ DOMAIN plans = Ops /\ DOMAIN more = Ops
      /\ \A x \in Ops : plans[x] \in Seq(Placement)
      /\ \A x \in Ops \ {o} : more[x] = plans[x]
      /\ more[o] = Append(plans[o], p)
  BY DEF TypeOK
<1>2. \A x \in Ops : f[x] \in Nat
  BY <1>1, PlanParts
<1>3. \A x \in Ops \ {o} : g[x] = f[x]
  BY <1>1
<1>4. g[o] = f[o] + e /\ e \in Nat
  <2>1. Share(Append(plans[o], p), c) = Share(plans[o], c) + e
    BY <1>1, ShareAppend
  <2>2. e \in Nat
    BY DEF Placement
  <2> QED
    BY <1>1, <2>1, <2>2
<1>5. LoadOf(plans, c) = SumFunctionOnSet(f, Ops)
      /\ LoadOf(more, c) = SumFunctionOnSet(g, Ops)
  BY Zenon, <1>1 DEF LoadOf
<1>6. SumFunctionOnSet(f, Ops) \in Nat
  <2> HIDE DEF f
  <2> QED
    BY <1>2, OpsFinite, SumNat
<1> HIDE DEF f, g, e, more
<1>7. SumFunctionOnSet(g, Ops) = SumFunctionOnSet(f, Ops) - f[o] + g[o]
  <2>1. (\A x \in Ops : f[x] \in Int) /\ g[o] \in Int /\ IsFiniteSet(Ops)
    BY <1>2, <1>4, OpsFinite
  <2> QED
    BY <1>3, <2>1, SumChange
<1>8. LoadOf(more, c) = LoadOf(plans, c) + e
  BY <1>2, <1>4, <1>5, <1>6, <1>7
<1> QED
  BY <1>5, <1>6, <1>8 DEF more, e

(* No slice is on a core that is not open, so a core opens empty.          *)
OnOpenCores == \A o \in Ops : \A k \in DOMAIN plans[o] : plans[o][k].core < Len(used)
LoadInv ==
    /\ TypeOK
    /\ OnOpenCores
    /\ Len(used) <= MeshCapacity
    /\ \A c \in 1 .. Len(used) : LoadOf(plans, c - 1) = used[c]

LEMMA LoadOfUnopened ==
  ASSUME TypeOK, OnOpenCores
  PROVE  LoadOf(plans, Len(used)) = 0
<1> DEFINE c == Len(used)
           f == [o \in Ops |-> Share(plans[o], c)]
<1>1. ASSUME NEW o \in Ops PROVE Share(plans[o], c) = 0
  <2> DEFINE plan == plans[o]
             v == Weight(plan, c)
             D == DOMAIN plan
  <2>1. plan \in Seq(Placement) /\ c \in Nat
    BY DEF TypeOK
  <2>2. IsFiniteSet(D) /\ \A k \in D : plan[k].core < c /\ plan[k].core \in Nat
    <3>1. IsFiniteSet(D) /\ \A k \in D : plan[k] \in Placement
      <4> HIDE DEF plan, c
      <4> QED
        BY <2>1, PlanParts
    <3> QED
      BY <3>1 DEF OnOpenCores, Placement
  <2>3. \A k \in D : v[k] = 0
    BY <2>1, <2>2 DEF Weight
  <2>4. Share(plan, c) = SumFunctionOnSet(v, D)
    BY DEF Share
  <2> HIDE DEF v, D
  <2> QED
    BY <2>2, <2>3, <2>4, SumZero
<1>2. LoadOf(plans, c) = SumFunctionOnSet(f, Ops)
  <2>1. DOMAIN plans = Ops
    BY DEF TypeOK
  <2> QED
    BY Zenon, <2>1 DEF LoadOf
<1>3. \A o \in Ops : f[o] = 0
  BY <1>1
<1> HIDE DEF f, c
<1>4. LoadOf(plans, c) = 0
  BY <1>2, <1>3, OpsFinite, SumZero
<1> QED
  BY <1>4 DEF c

LEMMA LoadPlaceChunk ==
  ASSUME LoadInv, PlaceChunk
  PROVE  LoadInv'
<1> DEFINE size == ChunkSize
           core == FirstFit(ChunkSize)
           p == [core |-> core, partition |-> Len(plans[op]),
                 offset |-> offset, size |-> size]
<1>1. /\ size \in 1 .. Capacity /\ core \in 0 .. Len(used) /\ core < MeshCapacity
      /\ core = Len(used) => used' = Append(used, size)
      /\ core # Len(used) => used' = [used EXCEPT ![core + 1] = @ + size]
      /\ plans' = [plans EXCEPT ![op] = Append(@, p)]
      /\ UNCHANGED program
  BY PlaceChunkEffect DEF LoadInv
<1>2. /\ TypeOK /\ TypeOK' /\ op \in Ops /\ Ops' = Ops
      /\ plans \in [Ops -> Seq(Placement)] /\ offset \in Nat
      /\ used \in Seq(1 .. Capacity) /\ Len(used) \in Nat
      /\ Capacity \in Nat /\ MeshCapacity \in Nat
      /\ \A c \in 1 .. Len(used) : used[c] \in 1 .. Capacity
  <2>1. TypeOK /\ TypeOK' /\ op \in Ops /\ Ops' = Ops
    BY <1>1, TypePlaceChunk DEF LoadInv, PlaceChunk, Ops
  <2>2. used \in Seq(1 .. Capacity) /\ Len(used) \in Nat
        /\ plans \in [Ops -> Seq(Placement)] /\ offset \in Nat
    BY <2>1 DEF TypeOK
  <2>3. \A c \in 1 .. Len(used) : used[c] \in 1 .. Capacity
    BY <2>2, ElementOfSeq
  <2> QED
    BY <2>1, <2>2, <2>3, Constants
<1>3. p \in Placement /\ p.core = core /\ p.size = size
  <2>1. Len(plans[op]) \in Nat
    BY <1>2
  <2> QED
    BY <1>1, <1>2, <2>1 DEF Placement
<1> HIDE DEF p, size, core
<1>4. \A c : /\ LoadOf(plans', c) = LoadOf(plans, c) + (IF core = c THEN size ELSE 0)
             /\ LoadOf(plans, c) \in Nat
  <2> SUFFICES ASSUME NEW c
               PROVE  /\ LoadOf(plans', c) = LoadOf(plans, c) + (IF core = c THEN size ELSE 0)
                      /\ LoadOf(plans, c) \in Nat
    OBVIOUS
  <2>1. TypeOK /\ op \in Ops /\ p \in Placement
    BY <1>2, <1>3
  <2>2. /\ LoadOf([plans EXCEPT ![op] = Append(@, p)], c)
              = LoadOf(plans, c) + (IF p.core = c THEN p.size ELSE 0)
        /\ LoadOf(plans, c) \in Nat
    BY <2>1, LoadAfter
  <2> QED
    BY <1>1, <1>3, <2>2
<1>5. CASE core = Len(used)
  <2>1. /\ Len(used') = Len(used) + 1
        /\ \A c \in 1 .. Len(used) : used'[c] = used[c]
        /\ used'[Len(used) + 1] = size
    <3> DEFINE S == 1 .. Capacity
               more == Append(used, size)
    <3>1. used \in Seq(S) /\ size \in S /\ used' = more
      BY <1>1, <1>2, <1>5
    <3> HIDE DEF S
    <3>2. /\ Len(more) = Len(used) + 1 /\ more[Len(used) + 1] = size
          /\ \A c \in 1 .. Len(used) : more[c] = used[c]
      BY <3>1, AppendProperties
    <3> HIDE DEF more
    <3> QED
      BY <3>1, <3>2
  <2>2. LoadOf(plans, core) = 0
    BY <1>2, <1>5, LoadOfUnopened DEF LoadInv
  <2>3. ASSUME NEW c \in 1 .. Len(used')
        PROVE  LoadOf(plans', c - 1) = used'[c]
    <3>1. CASE c = Len(used) + 1
      <4>1. c - 1 = core /\ size \in Nat
        BY <1>1, <1>2, <1>5, <3>1
      <4>2. LoadOf(plans', core) = 0 + size
        BY <1>4, <2>2
      <4>3. used'[c] = size
        BY <2>1, <3>1
      <4> QED
        BY <4>1, <4>2, <4>3
    <3>2. CASE c # Len(used) + 1
      <4>1. c \in 1 .. Len(used) /\ c - 1 # core
        BY <1>2, <1>5, <2>1, <3>2
      <4>2. LoadOf(plans, c - 1) = used[c]
        BY <4>1 DEF LoadInv
      <4>3. LoadOf(plans', c - 1) = LoadOf(plans, c - 1) + 0
        BY <1>4, <4>1
      <4> QED
        BY <1>2, <2>1, <4>1, <4>2, <4>3
    <3> QED
      BY <3>1, <3>2
  <2>4. Len(used') <= MeshCapacity
    BY <1>1, <1>2, <1>5, <2>1
  <2>5. OnOpenCores'
    <3> SUFFICES ASSUME NEW o \in Ops, NEW k \in DOMAIN plans'[o]
                 PROVE  plans'[o][k].core < Len(used')
      BY <1>2 DEF OnOpenCores
    <3>1. CASE k \in DOMAIN plans[o] /\ plans'[o][k] = plans[o][k]
      <4>1. plans[o][k].core < Len(used) /\ plans[o][k].core \in Nat
        <5>1. plans[o][k] \in Placement
          BY <1>2, <3>1, ElementOfSeq
        <5> QED
          BY <3>1, <5>1 DEF LoadInv, OnOpenCores, Placement
      <4> QED
        BY <1>2, <2>1, <3>1, <4>1
    <3>2. CASE plans'[o][k] = p
      BY <1>2, <1>3, <1>5, <2>1, <3>2
    <3>3. (k \in DOMAIN plans[o] /\ plans'[o][k] = plans[o][k]) \/ plans'[o][k] = p
      BY <1>1, <1>2, <1>3, AppendProperties
    <3> QED
      BY <3>1, <3>2, <3>3
  <2> QED
    BY <1>2, <2>3, <2>4, <2>5 DEF LoadInv
<1>6. CASE core # Len(used)
  <2>1. core + 1 \in 1 .. Len(used)
    BY <1>1, <1>2, <1>6
  <2>2. /\ Len(used') = Len(used)
        /\ used'[core + 1] = used[core + 1] + size
        /\ \A c \in 1 .. Len(used) : c # core + 1 => used'[c] = used[c]
    BY <1>1, <1>2, <1>6, <2>1
  <2>3. ASSUME NEW c \in 1 .. Len(used')
        PROVE  LoadOf(plans', c - 1) = used'[c]
    <3>1. LoadOf(plans, c - 1) = used[c] /\ c \in 1 .. Len(used)
      BY <2>2 DEF LoadInv
    <3>2. CASE c = core + 1
      <4>1. c - 1 = core
        BY <1>1, <1>2, <3>2
      <4> QED
        BY <1>4, <2>2, <3>1, <3>2, <4>1
    <3>3. CASE c # core + 1
      <4>1. c - 1 # core
        BY <1>1, <1>2, <3>1, <3>3
      <4>2. LoadOf(plans', c - 1) = LoadOf(plans, c - 1) + 0
        BY <1>4, <4>1
      <4> QED
        BY <1>2, <2>2, <3>1, <3>3, <4>2
    <3> QED
      BY <3>2, <3>3
  <2>4. Len(used') <= MeshCapacity
    BY <2>2 DEF LoadInv
  <2>5. OnOpenCores'
    <3> SUFFICES ASSUME NEW o \in Ops, NEW k \in DOMAIN plans'[o]
                 PROVE  plans'[o][k].core < Len(used')
      BY <1>2 DEF OnOpenCores
    <3>1. CASE k \in DOMAIN plans[o] /\ plans'[o][k] = plans[o][k]
      BY <2>2, <3>1 DEF LoadInv, OnOpenCores
    <3>2. CASE plans'[o][k] = p
      <4>1. p.core = core /\ core + 1 \in 1 .. Len(used) /\ Len(used) \in Nat
        BY <1>2, <1>3, <2>1
      <4>2. core < Len(used)
        BY <1>1, <4>1
      <4> QED
        BY <2>2, <3>2, <4>1, <4>2
    <3>3. (k \in DOMAIN plans[o] /\ plans'[o][k] = plans[o][k]) \/ plans'[o][k] = p
      BY <1>1, <1>2, <1>3, AppendProperties
    <3> QED
      BY <3>1, <3>2, <3>3
  <2> QED
    BY <1>2, <2>3, <2>4, <2>5 DEF LoadInv
<1> QED
  BY <1>5, <1>6

LEMMA InitLoadInv == Init => LoadInv
<1> SUFFICES ASSUME Init PROVE LoadInv
  OBVIOUS
<1>1. TypeOK
  BY TypeInit
<1>2. OnOpenCores
  BY DEF Init, OnOpenCores
<1>3. Len(used) = 0 /\ MeshCapacity \in Nat
  BY Constants DEF Init
<1> QED
  BY <1>1, <1>2, <1>3 DEF LoadInv

LEMMA LoadStep == LoadInv /\ [Next]_vars => LoadInv'
<1> SUFFICES ASSUME LoadInv, [Next]_vars PROVE LoadInv'
  OBVIOUS
<1>1. CASE PlaceChunk
  BY <1>1, LoadPlaceChunk
<1>2. CASE Import \/ RefuseShape \/ MeshFull \/ NextOp \/ CreateCore \/ Finish
  <2>1. TypeOK' /\ UNCHANGED <<program, used, plans>>
    BY <1>2, TypeOther DEF LoadInv
  <2> QED
    BY <2>1 DEF LoadInv, OnOpenCores, Ops
<1>3. CASE UNCHANGED vars
  <2>1. TypeOK' /\ UNCHANGED <<program, used, plans>>
    BY <1>3, TypeStep DEF LoadInv, vars, created
  <2> QED
    BY <2>1 DEF LoadInv, OnOpenCores, Ops
<1> QED
  BY <1>1, <1>2, <1>3 DEF Next

(* A core is planned for what fits on it and no core lies outside the mesh: *)
(* the slices of all operations on a core add up to its usedCapacity, in    *)
(* whatever order first fit has mixed them (SNNOpCoreMapping.cpp:199-220).  *)
THEOREM CoresFitTheirLoad == Spec => []LoadWithinCapacity
<1>1. LoadInv => LoadWithinCapacity
  <2> SUFFICES ASSUME LoadInv PROVE LoadWithinCapacity
    OBVIOUS
  <2>1. TypeOK
    BY DEF LoadInv
  <2>2. \A c \in 1 .. Len(used) : used[c] \in 1 .. Capacity /\ Capacity \in Nat
    BY <2>1, Constants, ElementOfSeq DEF TypeOK
  <2>3. \A c \in 1 .. Len(used) : Load(c - 1) = used[c]
    BY <2>1, LoadIsSum DEF LoadInv
  <2> QED
    BY <2>2, <2>3 DEF LoadInv, LoadWithinCapacity
<1> QED
  BY InitLoadInv, LoadStep, <1>1, PTL DEF Spec

-----------------------------------------------------------------------------
(***************************************************************************)
(* Sequences: the concatenation of a sequence of sequences.                *)
(***************************************************************************)
(* FlattenSeq: the sequence of the concatenations of the first i sequences. *)
Flattens(f, s) ==
    /\ f[0] = <<>>
    /\ \A i \in 1 .. Len(s) : f[i] = f[i - 1] \o s[i]

LEMMA FlattenUnfold ==
  ASSUME NEW X, NEW s \in Seq(Seq(X))
  PROVE  \E f \in [0 .. Len(s) -> Seq(X)] : Flattens(f, s) /\ FlattenSeq(s) = f[Len(s)]
<1> DEFINE n == Len(s)
           IsFlat(g, m) == g = [i \in 1 .. m |-> IF i = 1 THEN s[i] ELSE g[i - 1] \o s[i]]
           S == {m \in 0 .. n : \E g : IsFlat(g, m)}
<1>1. n \in Nat /\ \A i \in 1 .. n : s[i] \in Seq(X)
  BY ElementOfSeq
<1>2. \A m \in 0 .. n : m \in S
  <2>1. 0 \in S
    <3>1. IsFlat(<<>>, 0)
      OBVIOUS
    <3> HIDE DEF IsFlat
    <3> QED
      BY <1>1, <3>1
  <2>2. ASSUME NEW m \in 0 .. n - 1, m \in S PROVE m + 1 \in S
    <3>1. PICK g : IsFlat(g, m)
      BY <2>2
    <3> DEFINE h == [i \in 1 .. m + 1 |-> IF i <= m THEN g[i]
                                          ELSE IF i = 1 THEN s[i] ELSE g[i - 1] \o s[i]]
    <3>2. \A i \in 1 .. m : g[i] = IF i = 1 THEN s[i] ELSE g[i - 1] \o s[i]
      BY Zenon, <3>1
    <3>3. ASSUME NEW i \in 1 .. m + 1
          PROVE  h[i] = IF i = 1 THEN s[i] ELSE h[i - 1] \o s[i]
      <4>1. CASE i \in 1 .. m
        <5>1. i # 1 => i - 1 \in 1 .. m
          BY <1>1, <4>1
        <5>2. i # 1 => h[i - 1] = g[i - 1]
          BY <5>1
        <5>3. h[i] = g[i]
          BY <4>1
        <5> HIDE DEF h
        <5> QED
          BY Zenon, <3>2, <4>1, <5>2, <5>3
      <4>2. CASE i = m + 1
        <5>1. h[i] = IF i = 1 THEN s[i] ELSE g[i - 1] \o s[i]
          BY <1>1, <4>2
        <5>2. i # 1 => i - 1 \in 1 .. m
          BY <1>1, <4>2
        <5>3. i # 1 => h[i - 1] = g[i - 1]
          BY <5>2
        <5> HIDE DEF h
        <5> QED
          BY Zenon, <5>1, <5>3
      <4> QED
        BY <1>1, <4>1, <4>2
    <3>4. IsFlat(h, m + 1)
      <4>1. h = [i \in 1 .. m + 1 |-> h[i]]
        OBVIOUS
      <4> HIDE DEF h
      <4> QED
        BY Zenon, <3>3, <4>1
    <3>5. m + 1 \in 0 .. n
      BY <1>1
    <3> HIDE DEF IsFlat
    <3> QED
      BY Zenon, <3>4, <3>5
  <2> HIDE DEF S
  <2> QED
    BY <1>1, <2>1, <2>2, CountUp
<1>3. PICK g : IsFlat(g, n)
  <2>1. n \in S
    <3> HIDE DEF S
    <3>1. n \in 0 .. n
      BY <1>1
    <3> QED
      BY <1>2, <3>1
  <2> QED
    BY <2>1
<1> DEFINE flat == CHOOSE g1 : IsFlat(g1, n)
<1>4. IsFlat(flat, n)
  <2> HIDE DEF IsFlat
  <2> QED
    BY Zenon, <1>3
<1>5. n # 0 => FlattenSeq(s) = flat[n]
  BY Zenon DEF FlattenSeq
<1> HIDE DEF flat
<1> DEFINE f == [i \in 0 .. n |-> IF i = 0 THEN <<>> ELSE flat[i]]
<1>6. \A i \in 1 .. n : flat[i] = IF i = 1 THEN s[i] ELSE flat[i - 1] \o s[i]
  BY Zenon, <1>4
<1>7. ASSUME NEW i \in 1 .. n PROVE f[i] = f[i - 1] \o s[i]
  <2>1. f[i] = flat[i]
    BY <1>1
  <2>2. CASE i = 1
    <3>1. f[i - 1] = <<>>
      BY <1>1, <2>2
    <3>2. <<>> \o s[i] = s[i]
      BY <1>1, ConcatEmptySeq
    <3> QED
      BY <1>6, <2>1, <2>2, <3>1, <3>2
  <2>3. CASE i # 1
    <3>1. f[i - 1] = flat[i - 1]
      BY <1>1, <2>3
    <3> QED
      BY <1>6, <2>1, <2>3, <3>1
  <2> QED
    BY <2>2, <2>3
<1>8. \A i \in 0 .. n : i \in {k \in 0 .. n : f[k] \in Seq(X)}
  <2> DEFINE T == {k \in 0 .. n : f[k] \in Seq(X)}
  <2>1. 0 \in T
    BY <1>1
  <2>2. ASSUME NEW k \in 0 .. n - 1, k \in T PROVE k + 1 \in T
    <3> DEFINE i == k + 1
    <3>1. i \in 1 .. n /\ i \in 0 .. n /\ i - 1 = k /\ f[k] \in Seq(X)
      BY <1>1, <2>2
    <3> HIDE DEF f, i
    <3>2. f[i] = f[k] \o s[i]
      <4>1. f[i] = f[i - 1] \o s[i]
        BY <1>7, <3>1
      <4> QED
        BY <3>1, <4>1
    <3>3. f[i] \in Seq(X)
      BY <1>1, <3>1, <3>2, ConcatProperties
    <3> QED
      BY <3>1, <3>3 DEF i
  <2> HIDE DEF T
  <2> QED
    BY <1>1, <2>1, <2>2, CountUp DEF T
<1>9. FlattenSeq(s) = f[n]
  <2>1. CASE n = 0
    <3>1. s = <<>>
      BY <2>1, EmptySeq
    <3>2. FlattenSeq(s) = s
      BY <2>1 DEF FlattenSeq
    <3> QED
      BY <1>1, <2>1, <3>1, <3>2
  <2>2. CASE n # 0
    BY <1>1, <1>5, <2>2
  <2> QED
    BY <2>1, <2>2
<1>10. f \in [0 .. n -> Seq(X)] /\ f[0] = <<>>
  <2>1. \A i \in 0 .. n : f[i] \in Seq(X)
    BY <1>8
  <2> QED
    BY <1>1, <2>1
<1> HIDE DEF f
<1> QED
  BY <1>7, <1>9, <1>10 DEF Flattens

(* Where the elements of the i-th sequence lie in the concatenation: after  *)
(* base[i - 1] others.                                                      *)
Blocks(s, base) ==
    /\ base[0] = 0
    /\ \A i \in 1 .. Len(s) : base[i] = base[i - 1] + Len(s[i])
    /\ \A i, k \in 0 .. Len(s) : i <= k => base[i] <= base[k]
    /\ Len(FlattenSeq(s)) = base[Len(s)]
    /\ \A i \in 1 .. Len(s) : \A j \in 1 .. Len(s[i]) :
          /\ base[i - 1] + j \in 1 .. Len(FlattenSeq(s))
          /\ FlattenSeq(s)[base[i - 1] + j] = s[i][j]
    /\ \A p \in 1 .. Len(FlattenSeq(s)) :
          \E i \in 1 .. Len(s) : p - base[i - 1] \in 1 .. Len(s[i])

LEMMA FlattenBlocks ==
  ASSUME NEW X, NEW s \in Seq(Seq(X))
  PROVE  /\ FlattenSeq(s) \in Seq(X)
         /\ \E base \in [0 .. Len(s) -> Nat] : Blocks(s, base)
<1> DEFINE n == Len(s)
           flat == FlattenSeq(s)
<1>1. n \in Nat /\ \A i \in 1 .. n : s[i] \in Seq(X) /\ Len(s[i]) \in Nat
  <2>1. \A i \in 1 .. n : s[i] \in Seq(X)
    BY ElementOfSeq
  <2> QED
    BY <2>1
<1>2. PICK f \in [0 .. n -> Seq(X)] : Flattens(f, s) /\ flat = f[n]
  <2> HIDE DEF flat
  <2> QED
    BY FlattenUnfold DEF flat
<1> DEFINE base == [i \in 0 .. n |-> Len(f[i])]
<1> HIDE DEF flat
<1>3. \A i \in 0 .. n : f[i] \in Seq(X) /\ base[i] = Len(f[i]) /\ base[i] \in Nat
  <2> TAKE i \in 0 .. n
  <2>1. f[i] \in Seq(X)
    BY <1>2
  <2> QED
    BY <2>1
<1> HIDE DEF base
<1>4. ASSUME NEW i \in 1 .. n
      PROVE  /\ i - 1 \in 0 .. n /\ i \in 0 .. n
             /\ base[i] = base[i - 1] + Len(s[i])
             /\ \A p \in 1 .. base[i - 1] : f[i][p] = f[i - 1][p]
             /\ \A j \in 1 .. Len(s[i]) : f[i][base[i - 1] + j] = s[i][j]
  <2>1. i - 1 \in 0 .. n /\ i \in 0 .. n
    BY <1>1
  <2>2. f[i] = f[i - 1] \o s[i]
    BY <1>2 DEF Flattens
  <2>3. f[i - 1] \in Seq(X) /\ s[i] \in Seq(X)
    BY <1>1, <1>3, <2>1
  <2> DEFINE g == f[i - 1]
             t == s[i]
  <2>4. g \in Seq(X) /\ t \in Seq(X) /\ Len(g) \in Nat /\ Len(t) \in Nat
    BY <2>3
  <2>5. base[i - 1] = Len(g) /\ base[i] = Len(f[i]) /\ f[i] = g \o t
    BY <1>3, <2>1, <2>2
  <2> HIDE DEF g, t
  <2>6. /\ Len(g \o t) = Len(g) + Len(t)
        /\ \A p \in 1 .. Len(g) + Len(t) :
              (g \o t)[p] = IF p <= Len(g) THEN g[p] ELSE t[p - Len(g)]
    BY <2>4, ConcatProperties
  <2>7. \A p \in 1 .. Len(g) : f[i][p] = g[p]
    BY <2>4, <2>5, <2>6
  <2>8. \A j \in 1 .. Len(t) : f[i][Len(g) + j] = t[j]
    <3> TAKE j \in 1 .. Len(t)
    <3>1. Len(g) + j \in 1 .. Len(g) + Len(t) /\ ~ (Len(g) + j <= Len(g))
          /\ Len(g) + j - Len(g) = j
      BY <2>4
    <3> DEFINE p == Len(g) + j
    <3>2. (g \o t)[p] = IF p <= Len(g) THEN g[p] ELSE t[p - Len(g)]
      BY <2>6, <3>1
    <3>3. (g \o t)[p] = t[j]
      BY <3>1, <3>2
    <3> QED
      BY <2>5, <3>3
  <2> QED
    BY <2>1, <2>5, <2>6, <2>7, <2>8 DEF g, t
<1>5. base[0] = 0
  BY <1>1, <1>2, <1>3 DEF Flattens
<1>6. ASSUME NEW i \in 0 .. n
      PROVE  \A k \in 0 .. n : k >= i =>
                base[i] <= base[k] /\ \A p \in 1 .. base[i] : f[k][p] = f[i][p]
  <2> DEFINE S == {k \in 0 .. n : k >= i =>
                     base[i] <= base[k] /\ \A p \in 1 .. base[i] : f[k][p] = f[i][p]}
  <2>1. 0 \in S
    BY <1>1, <1>3
  <2>2. ASSUME NEW k \in 0 .. n - 1, k \in S PROVE k + 1 \in S
    <3> DEFINE m == k + 1
    <3>1. m \in 1 .. n /\ m \in 0 .. n /\ m - 1 = k /\ k \in 0 .. n
      BY <1>1
    <3>2. k >= i => base[i] <= base[k] /\ \A p \in 1 .. base[i] : f[k][p] = f[i][p]
      BY <2>2
    <3> HIDE DEF m
    <3>3. /\ base[m] = base[k] + Len(s[m]) /\ Len(s[m]) \in Nat
          /\ \A p \in 1 .. base[k] : f[m][p] = f[k][p]
      BY <1>1, <1>4, <3>1
    <3>4. base[i] \in Nat /\ base[k] \in Nat /\ base[m] \in Nat
      BY <1>3, <3>1
    <3>5. m >= i => base[i] <= base[m] /\ \A p \in 1 .. base[i] : f[m][p] = f[i][p]
      <4>1. CASE k >= i
        BY <3>2, <3>3, <3>4, <4>1
      <4>2. CASE ~ (k >= i)
        <5>1. m >= i => m = i
          BY <3>1, <4>2
        <5> QED
          BY <3>4, <5>1
      <4> QED
        BY <4>1, <4>2
    <3> QED
      BY <3>1, <3>5 DEF m
  <2> HIDE DEF S
  <2>3. \A k \in 0 .. n : k \in S
    BY <1>1, <2>1, <2>2, CountUp
  <2> QED
    BY <2>3 DEF S
<1>7. n \in 0 .. n /\ Len(flat) = base[n]
  BY <1>1, <1>2, <1>3
<1>8. ASSUME NEW i \in 1 .. n, NEW j \in 1 .. Len(s[i])
      PROVE  base[i - 1] + j \in 1 .. Len(flat) /\ flat[base[i - 1] + j] = s[i][j]
  <2>1. /\ i - 1 \in 0 .. n /\ i \in 0 .. n /\ n >= i
        /\ base[i] = base[i - 1] + Len(s[i])
        /\ f[i][base[i - 1] + j] = s[i][j]
    BY <1>1, <1>4
  <2>2. base[i - 1] \in Nat /\ base[i] \in Nat /\ base[n] \in Nat /\ Len(s[i]) \in Nat
    BY <1>1, <1>3, <1>7, <2>1
  <2>3. base[i - 1] + j \in 1 .. base[i]
    BY <2>1, <2>2
  <2>4. base[i] <= base[n] /\ f[n][base[i - 1] + j] = f[i][base[i - 1] + j]
    BY <1>6, <1>7, <2>1, <2>3
  <2> QED
    BY <1>2, <1>7, <2>1, <2>2, <2>3, <2>4
<1>9. ASSUME NEW p \in 1 .. Len(flat)
      PROVE  \E i \in 1 .. n : p - base[i - 1] \in 1 .. Len(s[i])
  <2> DEFINE S == {k \in 0 .. n : p <= base[k] =>
                                  \E i \in 1 .. n : p - base[i - 1] \in 1 .. Len(s[i])}
  <2>1. 0 \in S
    BY <1>1, <1>5
  <2>2. ASSUME NEW k \in 0 .. n - 1, k \in S PROVE k + 1 \in S
    <3> DEFINE m == k + 1
    <3>1. m \in 1 .. n /\ m \in 0 .. n /\ m - 1 = k /\ k \in 0 .. n
      BY <1>1
    <3>2. p <= base[k] => \E i \in 1 .. n : p - base[i - 1] \in 1 .. Len(s[i])
      BY <2>2
    <3> HIDE DEF m
    <3>3. base[m] = base[k] + Len(s[m]) /\ Len(s[m]) \in Nat /\ base[k] \in Nat
      BY <1>1, <1>3, <1>4, <3>1
    <3>4. ASSUME p <= base[m], ~ (p <= base[k])
          PROVE  \E i \in 1 .. n : p - base[i - 1] \in 1 .. Len(s[i])
      <4>1. p - base[k] \in 1 .. Len(s[m])
        BY <3>3, <3>4
      <4>2. base[m - 1] = base[k]
        BY <3>1
      <4> QED
        BY <3>1, <4>1, <4>2
    <3>5. m \in S
      BY <3>1, <3>2, <3>4
    <3> HIDE DEF S
    <3> QED
      BY <3>5 DEF m
  <2> HIDE DEF S
  <2>3. n \in S
    BY <1>1, <1>7, <2>1, <2>2, CountUp
  <2>4. p <= base[n]
    BY <1>7
  <2> QED
    BY <2>3, <2>4 DEF S
<1>10. base \in [0 .. n -> Nat]
  <2>1. \A i \in 0 .. n : base[i] \in Nat
    BY <1>3
  <2> QED
    BY <2>1 DEF base
<1>11. \A i, k \in 0 .. n : i <= k => base[i] <= base[k]
  BY <1>6
<1>12. flat \in Seq(X)
  BY <1>1, <1>2
<1>13. Blocks(s, base)
  BY <1>4, <1>5, <1>7, <1>8, <1>9, <1>11 DEF Blocks, flat
<1> QED
  BY <1>10, <1>12, <1>13 DEF flat

(* The i-th element kept is the g[i]-th of the sequence.                    *)
Keeps(s, T, kept, g) ==
    /\ \A i \in 1 .. Len(kept) : kept[i] = s[g[i]] /\ s[g[i]] \in T
    /\ \A i, k \in 1 .. Len(kept) : i < k => g[i] < g[k]
    /\ \A p \in 1 .. Len(s) : s[p] \in T => \E i \in 1 .. Len(kept) : g[i] = p

LEMMA AmongPlaces ==
  ASSUME NEW X, NEW s \in Seq(X), NEW T
  PROVE  /\ Among(s, T) \in Seq(X)
         /\ \E g \in [1 .. Len(Among(s, T)) -> 1 .. Len(s)] : Keeps(s, T, Among(s, T), g)
<1> DEFINE n == Len(s)
           t == [k \in 1 .. n |-> IF s[k] \in T THEN <<s[k]>> ELSE <<>>]
           kept == FlattenSeq(t)
<1>1. n \in Nat /\ \A k \in 1 .. n : s[k] \in X
  BY ElementOfSeq
<1>2. /\ t \in Seq(Seq(X)) /\ Len(t) = n
      /\ \A k \in 1 .. n : IF s[k] \in T THEN t[k] = <<s[k]>> /\ Len(t[k]) = 1
                                         ELSE Len(t[k]) = 0
  <2>1. \A k \in 1 .. n : t[k] \in Seq(X)
    BY <1>1
  <2> QED
    BY <1>1, <2>1
<1>3. kept = Among(s, T)
  BY DEF Among
<1> HIDE DEF t
<1>4. kept \in Seq(X) /\ \E base \in [0 .. Len(t) -> Nat] : Blocks(t, base)
  BY <1>2, FlattenBlocks
<1>5. PICK base \in [0 .. n -> Nat] : Blocks(t, base)
  BY <1>2, <1>4
<1> HIDE DEF kept
<1>6. /\ \A i, k \in 0 .. n : i <= k => base[i] <= base[k]
      /\ \A i \in 1 .. n : base[i] = base[i - 1] + Len(t[i])
      /\ \A i \in 1 .. n : \A j \in 1 .. Len(t[i]) :
            base[i - 1] + j \in 1 .. Len(kept) /\ kept[base[i - 1] + j] = t[i][j]
      /\ \A p \in 1 .. Len(kept) : \E i \in 1 .. n : p - base[i - 1] \in 1 .. Len(t[i])
  BY <1>2, <1>5 DEF Blocks, kept
<1> DEFINE in(i, k) == i - base[k - 1] \in 1 .. Len(t[k])
           g == [i \in 1 .. Len(kept) |-> CHOOSE k \in 1 .. n : in(i, k)]
<1>7. ASSUME NEW i \in 1 .. Len(kept)
      PROVE  g[i] \in 1 .. n /\ s[g[i]] \in T /\ i = base[g[i]] /\ kept[i] = s[g[i]]
  <2>1. \E k \in 1 .. n : in(i, k)
    BY <1>6
  <2>2. g[i] \in 1 .. n /\ in(i, g[i])
    BY <2>1
  <2> DEFINE k == g[i]
  <2>3. k \in 1 .. n /\ k - 1 \in 0 .. n /\ k \in 0 .. n
    BY <1>1, <2>2
  <2>4. i - base[k - 1] \in 1 .. Len(t[k])
    BY <2>2
  <2> HIDE DEF g, k
  <2>5. s[k] \in T /\ t[k] = <<s[k]>> /\ Len(t[k]) = 1
    BY <1>2, <2>3, <2>4
  <2>6. base[k - 1] \in Nat /\ base[k] = base[k - 1] + 1 /\ i = base[k - 1] + 1
    <3>1. base[k - 1] \in Nat
      BY <2>3
    <3>2. base[k] = base[k - 1] + Len(t[k])
      BY <1>6, <2>3
    <3> QED
      BY <2>4, <2>5, <3>1, <3>2
  <2>7. kept[base[k - 1] + 1] = t[k][1]
    <3>1. 1 \in 1 .. Len(t[k])
      BY <2>5
    <3> QED
      BY <1>6, <2>3, <3>1
  <2> QED
    BY <2>3, <2>5, <2>6, <2>7 DEF k
<1> HIDE DEF g
<1>8. g \in [1 .. Len(kept) -> 1 .. n]
  BY <1>7 DEF g
<1>9. ASSUME NEW i \in 1 .. Len(kept), NEW k \in 1 .. Len(kept), i < k
      PROVE  g[i] < g[k]
  <2>1. g[i] \in 1 .. n /\ g[k] \in 1 .. n /\ i = base[g[i]] /\ k = base[g[k]]
    BY <1>7
  <2>2. g[k] <= g[i] => base[g[k]] <= base[g[i]]
    <3> DEFINE a == g[k]
               b == g[i]
    <3>1. a \in 0 .. n /\ b \in 0 .. n
      BY <1>1, <2>1
    <3> HIDE DEF a, b
    <3>2. a <= b => base[a] <= base[b]
      BY Zenon, <1>6, <3>1
    <3> QED
      BY Zenon, <3>2 DEF a, b
  <2>3. i \in Nat /\ k \in Nat /\ ~ (k <= i)
    BY <1>9
  <2> QED
    BY <2>1, <2>2, <2>3
<1>10. ASSUME NEW p \in 1 .. n, s[p] \in T
       PROVE  \E i \in 1 .. Len(kept) : g[i] = p
  <2> DEFINE i == base[p - 1] + 1
  <2>1. Len(t[p]) = 1 /\ p - 1 \in 0 .. n /\ p \in 0 .. n
    BY <1>1, <1>2, <1>10
  <2>2. i \in 1 .. Len(kept) /\ base[p - 1] \in Nat /\ base[p] = i
    <3>1. 1 \in 1 .. Len(t[p])
      BY <2>1
    <3>2. base[p - 1] + 1 \in 1 .. Len(kept)
      BY <1>6, <3>1
    <3>3. base[p] = base[p - 1] + Len(t[p])
      BY <1>6
    <3> QED
      BY <2>1, <3>2, <3>3
  <2>3. g[i] \in 1 .. n /\ s[g[i]] \in T /\ i = base[g[i]]
    BY <1>7, <2>2
  <2> HIDE DEF i
  <2> DEFINE q == g[i]
  <2>4. q \in 1 .. n /\ base[q] = i /\ Len(t[q]) = 1
    BY <1>2, <2>3
  <2>5. q - 1 \in 0 .. n /\ q \in 0 .. n /\ base[q - 1] \in Nat /\ base[q] = base[q - 1] + 1
    <3>1. q - 1 \in 0 .. n /\ q \in 0 .. n
      BY <1>1, <2>4
    <3> QED
      BY <1>6, <2>4, <3>1
  <2>6. ~ (q < p)
    <3> SUFFICES ASSUME q < p PROVE FALSE
      OBVIOUS
    <3>1. q <= p - 1
      BY <2>4
    <3>2. base[q] <= base[p - 1]
      BY <1>6, <2>1, <2>5, <3>1
    <3> QED
      BY <2>2, <2>4, <3>2 DEF i
  <2>7. ~ (p < q)
    <3> SUFFICES ASSUME p < q PROVE FALSE
      OBVIOUS
    <3>1. p <= q - 1
      BY <2>4
    <3>2. base[p] <= base[q - 1]
      BY <1>6, <2>1, <2>5, <3>1
    <3> QED
      BY <2>2, <2>4, <2>5, <3>2
  <2>8. q = p
    BY <2>4, <2>6, <2>7
  <2> QED
    BY <2>2, <2>8
<1>11. Keeps(s, T, kept, g)
  BY <1>7, <1>9, <1>10 DEF Keeps
<1>12. Among(s, T) \in Seq(X)
  BY <1>3, <1>4
<1>13. \E h \in [1 .. Len(kept) -> 1 .. n] : Keeps(s, T, kept, h)
  BY <1>8, <1>11
<1> QED
  BY <1>3, <1>12, <1>13

-----------------------------------------------------------------------------
(***************************************************************************)
(* The operands of a slice.                                                *)
(***************************************************************************)
EndOf(p) == p.offset + p.size

(* What tiles a population covers it, in order and without overlap.        *)
LEMMA TiledCovers ==
  ASSUME NEW plan \in Seq(Placement), NEW upTo \in Nat, Tiled(plan, upTo)
  PROVE  /\ \A k, l \in 1 .. Len(plan) : k < l => EndOf(plan[k]) <= plan[l].offset
         /\ \A k \in 1 .. Len(plan) : EndOf(plan[k]) <= upTo
         /\ \A n \in 0 .. upTo - 1 : \E k \in 1 .. Len(plan) : n \in Neurons(plan[k])
<1> DEFINE m == Len(plan)
<1>1. m \in Nat /\ \A k \in 1 .. m : plan[k] \in Placement
  BY ElementOfSeq
<1>2. \A k \in 1 .. m : /\ plan[k].offset \in Nat /\ plan[k].size \in Nat \ {0}
                        /\ EndOf(plan[k]) \in Nat /\ plan[k].offset < EndOf(plan[k])
                        /\ EndOf(plan[k]) = plan[k].offset + plan[k].size
  BY <1>1 DEF Placement, EndOf
<1>3. ASSUME NEW k \in 1 .. m
      PROVE  /\ plan[k].offset = IF k = 1 THEN 0 ELSE EndOf(plan[k - 1])
             /\ k = m => EndOf(plan[k]) = upTo
  BY <1>3 DEF Tiled, EndOf
<1>4. ASSUME NEW k \in 1 .. m
      PROVE  \A l \in 1 .. m : k < l => EndOf(plan[k]) <= plan[l].offset
  <2> DEFINE S == {l \in 0 .. m : k < l => EndOf(plan[k]) <= plan[l].offset}
  <2>1. 0 \in S
    BY <1>1
  <2>2. ASSUME NEW i \in 0 .. m - 1, i \in S PROVE i + 1 \in S
    <3> DEFINE l == i + 1
    <3>1. l \in 1 .. m /\ l \in 0 .. m /\ l - 1 = i
      BY <1>1
    <3>2. k < i => EndOf(plan[k]) <= plan[i].offset
      BY <2>2
    <3> HIDE DEF l
    <3>3. ASSUME k < l PROVE EndOf(plan[k]) <= plan[l].offset
      <4>1. l # 1 /\ i \in 1 .. m /\ k <= i
        BY <1>1, <3>1, <3>3
      <4>2. plan[l].offset = EndOf(plan[i])
        BY <1>3, <3>1, <4>1
      <4>3. CASE k = i
        BY <1>2, <4>1, <4>2, <4>3
      <4>4. CASE k # i
        <5>1. EndOf(plan[k]) <= plan[i].offset
          BY <1>1, <3>2, <4>1, <4>4
        <5> QED
          BY <1>2, <4>1, <4>2, <5>1
      <4> QED
        BY <4>3, <4>4
    <3> QED
      BY <3>1, <3>3 DEF l
  <2> HIDE DEF S
  <2>3. \A l \in 0 .. m : l \in S
    BY <1>1, <2>1, <2>2, CountUp
  <2> QED
    BY <1>1, <2>3 DEF S
<1>5. ASSUME NEW k \in 1 .. m PROVE EndOf(plan[k]) <= upTo
  <2>1. m \in 1 .. m /\ EndOf(plan[m]) = upTo
    BY <1>1, <1>3
  <2>2. CASE k = m
    BY <1>2, <2>1, <2>2
  <2>3. CASE k # m
    <3>1. EndOf(plan[k]) <= plan[m].offset
      BY <1>1, <1>4, <2>1, <2>3
    <3> QED
      BY <1>2, <2>1, <3>1
  <2> QED
    BY <2>2, <2>3
<1>6. ASSUME NEW n \in 0 .. upTo - 1
      PROVE  \E k \in 1 .. m : n \in Neurons(plan[k])
  <2> DEFINE S == {l \in 0 .. m : l = 0 \/ n >= EndOf(plan[l])
                                  \/ \E k \in 1 .. m : n \in Neurons(plan[k])}
  <2>1. 0 \in S
    BY <1>1
  <2>2. ASSUME NEW i \in 0 .. m - 1, i \in S PROVE i + 1 \in S
    <3> DEFINE l == i + 1
    <3>1. l \in 1 .. m /\ l \in 0 .. m /\ l - 1 = i
      BY <1>1
    <3>2. i = 0 \/ n >= EndOf(plan[i]) \/ \E k \in 1 .. m : n \in Neurons(plan[k])
      BY <2>2
    <3> HIDE DEF l
    <3>3. ASSUME ~ (n >= EndOf(plan[l])), i = 0 \/ n >= EndOf(plan[i])
          PROVE  n \in Neurons(plan[l])
      <4>1. plan[l].offset = IF i = 0 THEN 0 ELSE EndOf(plan[i])
        BY <1>1, <1>3, <3>1
      <4>2. n >= plan[l].offset
        BY <3>3, <4>1
      <4> QED
        BY <1>2, <3>1, <3>3, <4>2 DEF Neurons
    <3>4. l \in S
      BY <3>1, <3>2, <3>3
    <3> HIDE DEF S
    <3> QED
      BY <3>4 DEF l
  <2> HIDE DEF S
  <2>3. m \in S
    <3>1. \A l \in 0 .. m : l \in S
      BY <1>1, <2>1, <2>2, CountUp
    <3> QED
      BY <1>1, <3>1
  <2>4. m # 0
    BY <1>1, EmptySeq DEF Tiled
  <2>5. EndOf(plan[m]) = upTo
    BY <1>1, <1>3, <2>4
  <2> QED
    BY <1>1, <2>3, <2>4, <2>5 DEF S
<1> QED
  BY <1>4, <1>5, <1>6

-----------------------------------------------------------------------------
Coord == Nat \X Nat
Operand == [role : Nat, partition : Int, offset : Nat, size : Nat, from : Nat,
            result : Nat, hops : Seq(Coord)]
CoreRecord == [op : Nat, core : Nat, coord : Coord, partition : Nat, offset : Nat,
               size : Nat \ {0}, operands : Seq(Operand)]

(* A core operation and the slice of the plan it was created for.           *)
StandsFor(core, o, placement) ==
    /\ core.op = o /\ core.core = placement.core /\ core.coord = CoordFor(placement.core)
    /\ core.partition = placement.partition /\ core.offset = placement.offset
    /\ core.size = placement.size

(* What is mapped so far stands for the first slices of each operation.     *)
Standing ==
    /\ cores \in Seq(CoreRecord)
    /\ mapped \in [Ops -> Seq(Nat)]
    /\ \A o \in Ops : \A k \in 1 .. Len(mapped[o]) :
          /\ mapped[o][k] \in 1 .. Len(cores) /\ k \in 1 .. Len(plans[o])
          /\ StandsFor(cores[mapped[o][k]], o, plans[o][k])

(* All of operation o has been planned and mapped.                          *)
Ready(o) ==
    /\ o \in Ops /\ program.ops[o].pop \in Nat \ {0}
    /\ plans[o] \in Seq(Placement) /\ Tiled(plans[o], program.ops[o].pop)
    /\ Len(mapped[o]) = Len(plans[o])

(* The slices parts[k] = g[k] of a plan that cover what a slice needs.      *)
Feeds(parts, o, g, needed) ==
    /\ Len(parts) # 0
    /\ \A k \in 1 .. Len(parts) :
          /\ g[k] \in 1 .. Len(plans[o]) /\ parts[k] = mapped[o][g[k]]
          /\ Neurons(plans[o][g[k]]) \cap needed # {}
    /\ \A k, l \in 1 .. Len(parts) : k < l => g[k] < g[l]
    /\ \A n \in needed : \E k \in 1 .. Len(parts) : n \in Neurons(plans[o][g[k]])

LEMMA ReadyParts ==
  ASSUME Standing, NEW o, Ready(o)
  PROVE  /\ Len(plans[o]) \in Nat /\ Len(plans[o]) # 0
         /\ mapped[o] \in Seq(Nat) /\ Len(mapped[o]) = Len(plans[o])
         /\ \A k \in 1 .. Len(plans[o]) :
               /\ plans[o][k].offset \in Nat /\ plans[o][k].size \in Nat \ {0}
               /\ plans[o][k].offset \in Neurons(plans[o][k])
               /\ EndOf(plans[o][k]) <= program.ops[o].pop
               /\ Neurons(plans[o][k]) \subseteq 0 .. program.ops[o].pop - 1
         /\ \A n \in 0 .. program.ops[o].pop - 1 :
               \E k \in 1 .. Len(plans[o]) : n \in Neurons(plans[o][k])
<1> DEFINE plan == plans[o]
           pop == program.ops[o].pop
<1>1. /\ plan \in Seq(Placement) /\ pop \in Nat \ {0} /\ Tiled(plan, pop)
      /\ mapped[o] \in Seq(Nat) /\ Len(mapped[o]) = Len(plan)
  BY DEF Ready, Standing
<1> HIDE DEF plan, pop
<1>2. Len(plan) \in Nat
  BY <1>1
<1>3. Len(plan) # 0
  BY <1>1, EmptySeq DEF Tiled
<1>4. /\ \A k \in 1 .. Len(plan) : EndOf(plan[k]) <= pop
      /\ \A n \in 0 .. pop - 1 : \E k \in 1 .. Len(plan) : n \in Neurons(plan[k])
  BY <1>1, TiledCovers
<1>5. ASSUME NEW k \in 1 .. Len(plan)
      PROVE  /\ plan[k].offset \in Nat /\ plan[k].size \in Nat \ {0}
             /\ plan[k].offset \in Neurons(plan[k])
             /\ Neurons(plan[k]) \subseteq 0 .. pop - 1
  <2>1. plan[k] \in Placement
    BY <1>1, ElementOfSeq
  <2>2. plan[k].offset \in Nat /\ plan[k].size \in Nat \ {0}
    BY <2>1 DEF Placement
  <2>3. plan[k].offset + plan[k].size <= pop
    BY <1>4 DEF EndOf
  <2> QED
    BY <1>1, <2>2, <2>3 DEF Neurons
<1> QED
  BY <1>1, <1>2, <1>3, <1>4, <1>5 DEF plan, pop

(* Every neuron of an operand that a slice depends on comes with the slices  *)
(* that are selected, in order, and every selected slice has such a neuron. *)
LEMMA SelectedFeeds ==
  ASSUME Standing, NEW o, Ready(o), NEW kind, NEW slice \in Placement
  PROVE  /\ Selected(kind, o, slice) \in Seq(Nat)
         /\ \E g \in [1 .. Len(Selected(kind, o, slice)) -> Nat] :
               Feeds(Selected(kind, o, slice), o, g,
                     Needed(kind, program.ops[o].pop, slice))
<1> DEFINE plan == plans[o]
           pop == program.ops[o].pop
           m == Len(plans[o])
           needed == Needed(kind, pop, slice)
           all == mapped[o]
           near == {i \in 1 .. Len(cores) : Overlaps(cores[i], slice)}
           close == Among(all, near)
           parts == Selected(kind, o, slice)
<1>1. /\ m \in Nat /\ m # 0 /\ all \in Seq(Nat) /\ Len(all) = m /\ pop \in Nat \ {0}
      /\ \A k \in 1 .. m :
               /\ plan[k].offset \in Nat /\ plan[k].size \in Nat \ {0}
               /\ plan[k].offset \in Neurons(plan[k])
               /\ EndOf(plan[k]) <= pop
               /\ Neurons(plan[k]) \subseteq 0 .. pop - 1
      /\ \A n \in 0 .. pop - 1 : \E k \in 1 .. m : n \in Neurons(plan[k])
  BY ReadyParts DEF Ready
<1>2. \A k \in 1 .. m : /\ all[k] \in 1 .. Len(cores)
                        /\ cores[all[k]].offset = plan[k].offset
                        /\ cores[all[k]].size = plan[k].size
  BY <1>1 DEF Standing, StandsFor, Ready
<1>3. slice.offset \in Nat /\ slice.size \in Nat \ {0}
  BY DEF Placement
<1>4. parts = IF kind \notin AlignedKinds \/ close = <<>> THEN all ELSE close
  BY DEF Selected
<1>5. ASSUME NEW k \in 1 .. m
      PROVE  all[k] \in near <=> /\ plan[k].offset < slice.offset + slice.size
                                 /\ slice.offset < EndOf(plan[k])
  BY <1>2 DEF Overlaps, EndOf
<1> HIDE DEF near, parts, all
<1>6. PICK h \in [1 .. Len(close) -> 1 .. m] : Keeps(all, near, close, h)
  <2>1. \E h \in [1 .. Len(Among(all, near)) -> 1 .. Len(all)] :
           Keeps(all, near, Among(all, near), h)
    BY <1>1, AmongPlaces
  <2> QED
    BY <1>1, <2>1
<1>7. close \in Seq(Nat) /\ Len(close) \in Nat
  <2>1. close \in Seq(Nat)
    BY <1>1, AmongPlaces
  <2> QED
    BY <2>1
<1> HIDE DEF close, plan, m, pop
<1>8. kind \in AlignedKinds /\ slice.offset < pop =>
         needed = slice.offset .. Lesser(slice.offset + slice.size, pop) - 1
  BY DEF Needed
<1>9. ~ (kind \in AlignedKinds /\ slice.offset < pop) => needed = 0 .. pop - 1
  BY DEF Needed
<1> HIDE DEF needed
<1>10. CASE parts = all /\ needed = 0 .. pop - 1
  <2> DEFINE g == [k \in 1 .. m |-> k]
  <2>1. \A k \in 1 .. m : g[k] = k /\ Neurons(plan[k]) \cap needed # {}
    BY <1>1, <1>10
  <2>2. g \in [1 .. Len(parts) -> Nat] /\ Len(parts) = m
    BY <1>1, <1>10
  <2> HIDE DEF g
  <2>3. Feeds(parts, o, g, needed)
    BY <1>1, <1>10, <2>1, <2>2 DEF Feeds, m, plan, all
  <2> QED
    BY <1>1, <1>10, <2>2, <2>3 DEF parts, needed, pop
<1>11. ASSUME kind \in AlignedKinds, slice.offset < pop, NEW n \in needed
       PROVE  \E i \in 1 .. Len(close) : n \in Neurons(plan[h[i]])
  <2>1. n \in 0 .. pop - 1 /\ n >= slice.offset /\ n < slice.offset + slice.size
    <3>1. n \in slice.offset .. Lesser(slice.offset + slice.size, pop) - 1
      BY Zenon, <1>8, <1>11
    <3>2. pop \in Nat
      BY <1>1
    <3> QED
      BY <1>3, <3>1, <3>2 DEF Lesser
  <2>2. PICK k \in 1 .. m : n \in Neurons(plan[k])
    BY <1>1, <2>1
  <2>3. plan[k].offset <= n /\ n < EndOf(plan[k]) /\ EndOf(plan[k]) \in Nat
        /\ plan[k].offset \in Nat /\ n \in Nat
    <3>1. plan[k].offset \in Nat /\ plan[k].size \in Nat
      BY <1>1
    <3>2. n \in plan[k].offset .. plan[k].offset + plan[k].size - 1
      BY <2>2 DEF Neurons
    <3> QED
      BY <3>1, <3>2 DEF EndOf
  <2>4. all[k] \in near
    <3>1. plan[k].offset < slice.offset + slice.size /\ slice.offset < EndOf(plan[k])
      BY <1>3, <2>1, <2>3
    <3> QED
      BY <1>5, <3>1
  <2> QED
    BY <1>1, <1>6, <2>2, <2>4 DEF Keeps
<1>12. CASE kind \in AlignedKinds /\ slice.offset < pop
  <2>1. slice.offset \in needed
    BY <1>1, <1>3, <1>8, <1>12 DEF Lesser
  <2>2. Len(close) # 0
    <3>1. \E i \in 1 .. Len(close) : slice.offset \in Neurons(plan[h[i]])
      BY <1>11, <1>12, <2>1
    <3> QED
      BY <1>7, <3>1
  <2>3. parts = close
    BY <1>4, <1>12, <2>2, EmptySeq
  <2>4. ASSUME NEW i \in 1 .. Len(close)
        PROVE  h[i] \in 1 .. m /\ close[i] = all[h[i]] /\ Neurons(plan[h[i]]) \cap needed # {}
    <3> DEFINE k == h[i]
    <3>1. k \in 1 .. m /\ close[i] = all[k] /\ all[k] \in near
      BY <1>6 DEF Keeps
    <3> HIDE DEF k
    <3>2. plan[k].offset < slice.offset + slice.size /\ slice.offset < EndOf(plan[k])
      BY <1>5, <3>1
    <3> DEFINE n == IF plan[k].offset <= slice.offset THEN slice.offset ELSE plan[k].offset
    <3>3. n \in Neurons(plan[k]) /\ n \in needed
      <4>1. plan[k].offset \in Nat /\ plan[k].size \in Nat \ {0} /\ EndOf(plan[k]) <= pop
            /\ EndOf(plan[k]) = plan[k].offset + plan[k].size
        BY <1>1, <3>1 DEF EndOf
      <4>2. n \in Nat /\ n >= slice.offset /\ n >= plan[k].offset
            /\ n < EndOf(plan[k]) /\ n < slice.offset + slice.size /\ n < pop
        <5> DEFINE a == plan[k].offset
                   b == plan[k].size
                   e == EndOf(plan[k])
                   c == slice.offset
                   d == slice.size
        <5>1. /\ a \in Nat /\ b \in Nat \ {0} /\ e <= pop /\ e = a + b /\ pop \in Nat
              /\ c \in Nat /\ d \in Nat \ {0} /\ c < pop /\ a < c + d /\ c < e
              /\ n = IF a <= c THEN c ELSE a
          BY <1>1, <1>3, <1>12, <3>2, <4>1
        <5> HIDE DEF a, b, c, d, e, n
        <5>2. n \in Nat /\ n >= c /\ n >= a /\ n < e /\ n < c + d /\ n < pop
          BY <5>1
        <5> QED
          BY <5>2 DEF a, c, d, e
      <4> HIDE DEF n
      <4>3. n \in Neurons(plan[k])
        BY <4>1, <4>2 DEF Neurons
      <4>4. n \in slice.offset .. Lesser(slice.offset + slice.size, pop) - 1
        BY <1>1, <1>3, <4>2 DEF Lesser
      <4> QED
        BY <1>8, <1>12, <4>3, <4>4
    <3> QED
      BY <3>1, <3>3 DEF k
  <2>5. h \in [1 .. Len(parts) -> Nat]
    BY <1>1, <1>6, <2>3
  <2>6. Feeds(parts, o, h, needed)
    <3>1. \A i, k \in 1 .. Len(close) : i < k => h[i] < h[k]
      BY <1>6 DEF Keeps
    <3> QED
      BY <1>11, <1>12, <2>2, <2>3, <2>4, <3>1 DEF Feeds, m, plan, all
  <2> QED
    BY <1>7, <2>3, <2>5, <2>6 DEF parts, needed, pop
<1>13. CASE kind \in AlignedKinds /\ ~ (slice.offset < pop)
  <2>1. close = <<>>
    <3> SUFFICES ASSUME Len(close) # 0 PROVE FALSE
      BY <1>7, EmptySeq
    <3>1. 1 \in 1 .. Len(close)
      BY <1>7
    <3>2. h[1] \in 1 .. m /\ all[h[1]] \in near
      BY <1>6, <3>1 DEF Keeps
    <3>3. slice.offset < EndOf(plan[h[1]]) /\ EndOf(plan[h[1]]) <= pop
      BY <1>1, <1>5, <3>2
    <3>4. EndOf(plan[h[1]]) \in Nat
      <4> DEFINE k == h[1]
      <4>1. k \in 1 .. m
        BY <3>2
      <4> HIDE DEF k
      <4>2. plan[k].offset \in Nat /\ plan[k].size \in Nat
        BY <1>1, <4>1
      <4>3. EndOf(plan[k]) \in Nat
        BY <4>2 DEF EndOf
      <4> QED
        BY Zenon, <4>3 DEF k
    <3> QED
      BY <1>1, <1>3, <1>13, <3>3, <3>4
  <2> QED
    BY <1>4, <1>9, <1>10, <1>13, <2>1
<1> QED
  BY <1>4, <1>9, <1>10, <1>12, <1>13

-----------------------------------------------------------------------------
(* A core inside the mesh has coordinates inside it.                        *)
LEMMA CoordInMesh ==
  ASSUME NEW core \in Nat, core < MeshCapacity
  PROVE  CoordFor(core) \in Coord /\ RouterVerified(CoordFor(core))
<1> DEFINE w == Dims[1]
           h == Dims[2]
           x == core % w
           y == core \div w
<1>1. w \in Nat \ {0} /\ h \in Nat \ {0} /\ core < w * h
  BY MappingAssumption DEF MeshCapacity
<1> HIDE DEF w, h
<1>2. core = w * y + x /\ x \in 0 .. w - 1 /\ y \in Nat
  BY <1>1
<1> HIDE DEF x, y
<1>3. y < h
  <2> SUFFICES ASSUME y >= h PROVE FALSE
    BY <1>1, <1>2
  <2>1. w * y >= w * h
    BY <1>1, <1>2
  <2>2. w * y \in Nat /\ w * h \in Nat
    BY <1>1, <1>2
  <2> QED
    BY <1>1, <1>2, <2>1, <2>2
<1>4. CoordFor(core) = <<x, y>>
  BY DEF CoordFor, w, x, y
<1> QED
  BY <1>1, <1>2, <1>3, <1>4 DEF Coord, RouterVerified, w, h

(* What one operand of a core operation carries.                            *)
Carries(x, args, slice) ==
    /\ x \in Operand /\ x.size # 0 /\ x.partition >= -1
    /\ x.from # 0 =>
          /\ x.from \in 1 .. Len(cores) /\ args[x.role] = <<cores[x.from].op, x.result>>
          /\ cores[x.from].partition = x.partition /\ cores[x.from].offset = x.offset
          /\ cores[x.from].size = x.size
          /\ x.hops = IF cores[x.from].core = slice.core THEN NoHops
                      ELSE <<cores[x.from].coord, CoordFor(slice.core)>>

Supplied(kind, args, a, slice) ==
    LET s == Sources(kind, args, a, slice)
        o == args[a][1]
        parts == Selected(kind, o, slice)
    IN  /\ s \in Seq(Operand) /\ Len(s) # 0
        /\ \A k \in 1 .. Len(s) : s[k].role = a /\ Carries(s[k], args, slice)
        /\ o # 0 => /\ Len(s) = Len(parts)
                    /\ \A k \in 1 .. Len(s) : /\ s[k].from = parts[k]
                                              /\ s[k].offset = cores[parts[k]].offset
                                              /\ s[k].size = cores[parts[k]].size

LEMMA SourcesCarry ==
  ASSUME Standing, NEW slice \in Placement, CoordFor(slice.core) \in Coord,
         NEW kind, NEW n \in Nat, NEW args \in Seq((0 .. n) \X Nat),
         NEW a \in 1 .. Len(args), args[a][1] # 0 => Ready(args[a][1])
  PROVE  Supplied(kind, args, a, slice)
<1> DEFINE s == Sources(kind, args, a, slice)
           o == args[a][1]
           r == args[a][2]
           parts == Selected(kind, o, slice)
           feed(i) == [role |-> a, partition |-> cores[i].partition,
                       offset |-> cores[i].offset, size |-> cores[i].size, from |-> i,
                       result |-> r, hops |-> Route(cores[i].core, slice.core)]
<1>1. o \in 0 .. n /\ r \in Nat /\ a \in Nat /\ Len(args) \in Nat /\ args[a] = <<o, r>>
  <2>1. args[a] \in (0 .. n) \X Nat
    BY ElementOfSeq
  <2>2. Len(args) \in Nat
    OBVIOUS
  <2> QED
    BY <2>1, <2>2
<1>2. CASE o = 0
  <2> DEFINE x == [role |-> a, partition |-> -1, offset |-> 0, size |-> InputSize,
                   from |-> 0, result |-> r, hops |-> NoHops]
  <2>1. s = <<x>>
    BY <1>2 DEF Sources
  <2>2. x \in Operand /\ x.size # 0 /\ x.role = a /\ x.from = 0 /\ x.partition >= -1
    <3>1. InputSize \in Nat \ {0}
      BY MappingAssumption
    <3>2. NoHops \in Seq(Coord)
      BY DEF NoHops
    <3> QED
      BY <1>1, <3>1, <3>2 DEF Operand
  <2> HIDE DEF x
  <2>3. s \in Seq(Operand) /\ Len(s) = 1 /\ s[1] = x
    BY <2>1, <2>2
  <2>4. \A k \in 1 .. Len(s) : s[k] = x
    BY <2>3
  <2> QED
    BY <1>2, <2>2, <2>3, <2>4 DEF Carries, Supplied
<1>3. CASE o # 0
  <2>1. parts \in Seq(Nat) /\ Len(parts) \in Nat /\ Ready(o)
        /\ \E g \in [1 .. Len(parts) -> Nat] :
              Feeds(parts, o, g, Needed(kind, program.ops[o].pop, slice))
    <3>1. Ready(o)
      BY <1>3
    <3>2. parts \in Seq(Nat)
          /\ \E g \in [1 .. Len(parts) -> Nat] :
                Feeds(parts, o, g, Needed(kind, program.ops[o].pop, slice))
      BY <3>1, SelectedFeeds
    <3> QED
      BY <3>1, <3>2
  <2>2. PICK g \in [1 .. Len(parts) -> Nat] :
                Feeds(parts, o, g, Needed(kind, program.ops[o].pop, slice))
    BY <2>1
  <2>3. s = [k \in 1 .. Len(parts) |-> feed(parts[k])]
    BY <1>3 DEF Sources
  <2> HIDE DEF parts, s
  <2>4. \A k \in 1 .. Len(parts) :
           /\ parts[k] \in 1 .. Len(cores) /\ parts[k] \in Nat \ {0}
           /\ cores[parts[k]] \in CoreRecord
           /\ cores[parts[k]].op = o
    <3> SUFFICES ASSUME NEW k \in 1 .. Len(parts)
                 PROVE  /\ parts[k] \in 1 .. Len(cores) /\ parts[k] \in Nat \ {0}
                        /\ cores[parts[k]] \in CoreRecord
                        /\ cores[parts[k]].op = o
      OBVIOUS
    <3>1. g[k] \in 1 .. Len(plans[o]) /\ parts[k] = mapped[o][g[k]]
          /\ Len(mapped[o]) = Len(plans[o]) /\ o \in Ops
      BY <2>1, <2>2 DEF Feeds, Ready
    <3>2. mapped[o][g[k]] \in 1 .. Len(cores) /\ cores[mapped[o][g[k]]].op = o
      <4> PICK q \in 1 .. Len(mapped[o]) : q = g[k]
        BY <3>1
      <4>1. mapped[o][q] \in 1 .. Len(cores) /\ StandsFor(cores[mapped[o][q]], o, plans[o][q])
        BY Zenon, <3>1 DEF Standing
      <4> QED
        BY <4>1 DEF StandsFor
    <3>3. cores[parts[k]] \in CoreRecord
      BY <3>1, <3>2, ElementOfSeq DEF Standing
    <3>4. Len(cores) \in Nat
      BY DEF Standing
    <3> DEFINE i == parts[k]
    <3>5. i \in 1 .. Len(cores)
      BY <3>1, <3>2
    <3> HIDE DEF i
    <3>6. i \in Nat \ {0}
      BY <3>4, <3>5
    <3> QED
      BY <3>1, <3>2, <3>3, <3>5, <3>6 DEF i
  <2>5. ASSUME NEW k \in 1 .. Len(parts)
        PROVE  feed(parts[k]) \in Operand /\ Carries(feed(parts[k]), args, slice)
    <3> DEFINE i == parts[k]
               c == cores[i]
    <3>1. c \in CoreRecord /\ i \in 1 .. Len(cores) /\ i \in Nat \ {0} /\ c.op = o
      BY <2>4
    <3> HIDE DEF i
    <3>2. /\ c.partition \in Nat /\ c.offset \in Nat /\ c.size \in Nat \ {0}
          /\ c.core \in Nat /\ c.coord \in Coord
      BY <3>1 DEF CoreRecord
    <3>3. Route(c.core, slice.core) = IF c.core = slice.core THEN NoHops
                                      ELSE <<c.coord, CoordFor(slice.core)>>
      <4>1. c.coord = CoordFor(c.core)
        <5>1. g[k] \in 1 .. Len(plans[o]) /\ i = mapped[o][g[k]]
              /\ Len(mapped[o]) = Len(plans[o]) /\ o \in Ops
          BY <2>1, <2>2 DEF Feeds, Ready, i
        <5> DEFINE d == cores[mapped[o][g[k]]]
        <5>4. g[k] \in 1 .. Len(mapped[o])
          BY <5>1
        <5>5. StandsFor(d, o, plans[o][g[k]])
          BY Zenon, <5>1, <5>4 DEF Standing
        <5> HIDE DEF d
        <5>2. d.coord = CoordFor(plans[o][g[k]].core) /\ d.core = plans[o][g[k]].core
          BY Zenon, <5>5 DEF StandsFor
        <5>3. d = c
          BY Zenon, <5>1 DEF d
        <5> QED
          BY Zenon, <5>2, <5>3
      <4> QED
        BY <4>1 DEF Route
    <3>4. Route(c.core, slice.core) \in Seq(Coord)
      <4>1. NoHops \in Seq(Coord)
        BY DEF NoHops
      <4>2. \A u, v \in Coord : <<u, v>> \in Seq(Coord)
        OBVIOUS
      <4> QED
        BY <3>2, <3>3, <4>1, <4>2
    <3> DEFINE y == feed(i)
    <3>5. y \in Operand
      <4> DEFINE way == Route(c.core, slice.core)
                 p == c.partition
                 from == c.offset
                 many == c.size
      <4>1. y = [role |-> a, partition |-> p, offset |-> from, size |-> many, from |-> i,
                 result |-> r, hops |-> way]
        BY Zenon
      <4>2. way \in Seq(Coord)
        BY Zenon, <3>4
      <4> HIDE DEF y, way, r
      <4>3. a \in Nat /\ p \in Int /\ from \in Nat /\ many \in Nat
        BY <1>1, <3>2
      <4>4. i \in Nat /\ r \in Nat
        BY <1>1, <3>1
      <4> HIDE DEF p, from, many
      <4>5. [role |-> a, partition |-> p, offset |-> from, size |-> many, from |-> i,
             result |-> r, hops |-> way] \in Operand
        BY <4>2, <4>3, <4>4 DEF Operand
      <4> QED
        BY Zenon, <4>1, <4>5
    <3>6. /\ y.role = a /\ y.partition = c.partition /\ y.offset = c.offset
          /\ y.size = c.size /\ y.from = i /\ y.result = r
          /\ y.hops = Route(c.core, slice.core)
      BY Zenon
    <3> HIDE DEF y, c
    <3>7. Carries(y, args, slice)
      <4>1. y.size # 0 /\ y.partition >= -1
        BY <3>2, <3>6
      <4>2. args[y.role] = <<c.op, y.result>>
        BY Zenon, <1>1, <3>1, <3>6
      <4>3. y.from \in 1 .. Len(cores) /\ cores[y.from] = c
        BY <3>1, <3>6 DEF c
      <4>4. y.hops = IF c.core = slice.core THEN NoHops ELSE <<c.coord, CoordFor(slice.core)>>
        BY Zenon, <3>3, <3>6
      <4> QED
        BY Zenon, <3>5, <3>6, <4>1, <4>2, <4>3, <4>4 DEF Carries
    <3> QED
      BY <3>5, <3>7 DEF y, i
  <2>6. /\ Len(s) = Len(parts)
        /\ \A k \in 1 .. Len(s) : s[k] = feed(parts[k])
    BY <2>1, <2>3
  <2>7. s \in Seq(Operand)
    <3>1. \A k \in 1 .. Len(s) : s[k] \in Operand
      BY <2>5, <2>6
    <3>2. s = [k \in 1 .. Len(s) |-> s[k]]
      BY <2>1, <2>3
    <3>3. Len(s) \in Nat
      BY <2>1, <2>6
    <3>4. [k \in 1 .. Len(s) |-> s[k]] \in Seq(Operand)
      BY <3>1, <3>3
    <3> QED
      BY Zenon, <3>2, <3>4
  <2>8. \A k \in 1 .. Len(s) : /\ s[k].role = a /\ s[k].from = parts[k]
                               /\ s[k].offset = cores[parts[k]].offset
                               /\ s[k].size = cores[parts[k]].size
    <3> TAKE k \in 1 .. Len(s)
    <3> DEFINE i == parts[k]
    <3>1. s[k] = feed(i)
      BY <2>6
    <3> HIDE DEF i
    <3>2. /\ feed(i).role = a /\ feed(i).from = i
          /\ feed(i).offset = cores[i].offset /\ feed(i).size = cores[i].size
      OBVIOUS
    <3> HIDE DEF feed
    <3> QED
      BY Zenon, <3>1, <3>2 DEF i
  <2>9. \A k \in 1 .. Len(s) : Carries(s[k], args, slice)
    BY <2>5, <2>6
  <2>10. Len(s) # 0
    BY <2>2, <2>6 DEF Feeds
  <2> QED
    BY <2>6, <2>7, <2>8, <2>9, <2>10 DEF s, parts, Supplied
<1> QED
  BY <1>2, <1>3

(* A slice's core operation is fed right: what CoreOp builds for one slice,  *)
(* when every operation it takes an operand from is mapped.                 *)
LEMMA CoreOpFed ==
  ASSUME Standing, program \in Programs, NEW o \in Ops, NEW slice \in Placement,
         slice.core < MeshCapacity,
         \A a \in 1 .. Len(program.ops[o].args) :
            program.ops[o].args[a][1] # 0 => Ready(program.ops[o].args[a][1])
  PROVE  LET this == CoreOp(o, slice)
             args == program.ops[o].args
         IN  /\ this \in CoreRecord /\ StandsFor(this, o, slice)
             /\ ModelCoreVerified(this, Len(args)) /\ RouterVerified(this.coord)
             /\ \A a \in 1 .. Len(args) : FedWhole(program.ops, this, a)
             /\ \A p \in 1 .. Len(this.operands) : Carries(this.operands[p], args, slice)
<1> DEFINE this == CoreOp(o, slice)
           args == program.ops[o].args
           kind == program.ops[o].kind
           n == Len(args)
           s(a) == Sources(kind, args, a, slice)
           t == [a \in 1 .. n |-> s(a)]
           flat == FlattenSeq(t)
           from(a) == args[a][1]
           parts(a) == Selected(kind, from(a), slice)
           needed(a) == Needed(kind, program.ops[from(a)].pop, slice)
<1>1. args \in Seq((0 .. o - 1) \X Nat) /\ n \in Nat /\ o \in Nat
  <2>1. args \in Seq((0 .. o - 1) \X Nat)
    BY ProgramParts
  <2>2. n \in Nat
    BY <2>1
  <2> QED
    BY <2>1, <2>2, ProgramParts
<1>2. slice.core \in Nat /\ slice.partition \in Nat /\ slice.offset \in Nat
      /\ slice.size \in Nat \ {0}
  BY DEF Placement
<1>3. CoordFor(slice.core) \in Coord /\ RouterVerified(CoordFor(slice.core))
  BY <1>2, CoordInMesh
<1>4. this = [op |-> o, core |-> slice.core, coord |-> CoordFor(slice.core),
              partition |-> slice.partition, offset |-> slice.offset,
              size |-> slice.size, operands |-> flat]
  BY Zenon DEF CoreOp
<1> HIDE DEF s
<1>5. ASSUME NEW a \in 1 .. n
      PROVE  /\ s(a) \in Seq(Operand) /\ Len(s(a)) # 0
             /\ \A k \in 1 .. Len(s(a)) : s(a)[k].role = a /\ Carries(s(a)[k], args, slice)
             /\ from(a) # 0 =>
                  /\ Len(s(a)) = Len(parts(a))
                  /\ \A k \in 1 .. Len(s(a)) : /\ s(a)[k].from = parts(a)[k]
                                               /\ s(a)[k].offset = cores[parts(a)[k]].offset
                                               /\ s(a)[k].size = cores[parts(a)[k]].size
  <2>1. from(a) # 0 => Ready(from(a))
    OBVIOUS
  <2>2. o - 1 \in Nat
    BY <1>1 DEF Ops
  <2> DEFINE m == o - 1
  <2>3. m \in Nat /\ args \in Seq((0 .. m) \X Nat)
    BY <1>1, <2>2
  <2> HIDE DEF m, args, kind
  <2>4. Supplied(kind, args, a, slice)
    BY <1>3, <2>1, <2>3, SourcesCarry
  <2> QED
    BY Zenon, <2>4 DEF s, Supplied
<1> HIDE DEF args, kind, parts, needed
<1>6. /\ t \in Seq(Seq(Operand)) /\ Len(t) = n /\ \A a \in 1 .. n : t[a] = s(a)
  BY <1>1, <1>5
<1> HIDE DEF t
<1>19. ASSUME NEW a \in 1 .. n
      PROVE  /\ t[a] \in Seq(Operand) /\ Len(t[a]) # 0
             /\ \A k \in 1 .. Len(t[a]) : t[a][k].role = a /\ Carries(t[a][k], args, slice)
             /\ from(a) # 0 =>
                  /\ Len(t[a]) = Len(parts(a))
                  /\ \A k \in 1 .. Len(t[a]) : /\ t[a][k].from = parts(a)[k]
                                               /\ t[a][k].offset = cores[parts(a)[k]].offset
                                               /\ t[a][k].size = cores[parts(a)[k]].size
  <2> DEFINE x == s(a)
             y == t[a]
             f == from(a)
             q == parts(a)
  <2>1. x = y
    BY <1>6
  <2>2. /\ x \in Seq(Operand) /\ Len(x) # 0
        /\ \A k \in 1 .. Len(x) : x[k].role = a /\ Carries(x[k], args, slice)
        /\ f # 0 => /\ Len(x) = Len(q)
                    /\ \A k \in 1 .. Len(x) : /\ x[k].from = q[k]
                                              /\ x[k].offset = cores[q[k]].offset
                                              /\ x[k].size = cores[q[k]].size
    BY <1>5
  <2> HIDE DEF x, y, f, q
  <2>3. /\ y \in Seq(Operand) /\ Len(y) # 0
        /\ \A k \in 1 .. Len(y) : y[k].role = a /\ Carries(y[k], args, slice)
        /\ f # 0 => /\ Len(y) = Len(q)
                    /\ \A k \in 1 .. Len(y) : /\ y[k].from = q[k]
                                              /\ y[k].offset = cores[q[k]].offset
                                              /\ y[k].size = cores[q[k]].size
    BY Zenon, <2>1, <2>2
  <2> QED
    BY <2>3 DEF y, f, q
<1>7. flat \in Seq(Operand) /\ \E base \in [0 .. Len(t) -> Nat] : Blocks(t, base)
  BY <1>6, FlattenBlocks
<1>8. PICK base \in [0 .. n -> Nat] : Blocks(t, base)
  BY <1>6, <1>7
<1> HIDE DEF flat
<1>9. /\ \A i, k \in 0 .. n : i <= k => base[i] <= base[k]
      /\ \A a \in 1 .. n : base[a] = base[a - 1] + Len(t[a])
      /\ \A a \in 1 .. n : \A j \in 1 .. Len(t[a]) :
            base[a - 1] + j \in 1 .. Len(flat) /\ flat[base[a - 1] + j] = t[a][j]
      /\ \A p \in 1 .. Len(flat) : \E a \in 1 .. n : p - base[a - 1] \in 1 .. Len(t[a])
  <2>1. /\ \A i, k \in 0 .. Len(t) : i <= k => base[i] <= base[k]
        /\ \A a \in 1 .. Len(t) : base[a] = base[a - 1] + Len(t[a])
        /\ \A a \in 1 .. Len(t) : \A j \in 1 .. Len(t[a]) :
              base[a - 1] + j \in 1 .. Len(flat) /\ flat[base[a - 1] + j] = t[a][j]
        /\ \A p \in 1 .. Len(flat) : \E a \in 1 .. Len(t) : p - base[a - 1] \in 1 .. Len(t[a])
    BY Zenon, <1>8 DEF Blocks, flat
  <2> QED
    BY <1>6, <2>1
<1>10. ASSUME NEW p \in 1 .. Len(flat), NEW a \in 1 .. n,
              p - base[a - 1] \in 1 .. Len(t[a])
       PROVE  flat[p] = t[a][p - base[a - 1]]
  <2>1. base[a - 1] \in Nat /\ p \in Nat
    <3>1. a - 1 \in 0 .. n
      BY <1>1
    <3>2. Len(flat) \in Nat
      BY <1>7
    <3> QED
      BY <1>8, <3>1, <3>2
  <2> DEFINE j == p - base[a - 1]
  <2>2. j \in 1 .. Len(t[a]) /\ p = base[a - 1] + j
    BY <1>10, <2>1
  <2> HIDE DEF j
  <2>3. flat[p] = t[a][j]
    BY <1>9, <2>2
  <2> QED
    BY <2>3 DEF j
<1>11. ASSUME NEW p \in 1 .. Len(flat)
       PROVE  flat[p].role \in 1 .. n /\ Carries(flat[p], args, slice)
  <2>1. PICK a \in 1 .. n : p - base[a - 1] \in 1 .. Len(t[a])
    BY <1>9
  <2> DEFINE j == p - base[a - 1]
  <2>2. j \in 1 .. Len(t[a]) /\ flat[p] = t[a][j]
    BY <1>10, <2>1
  <2> HIDE DEF j
  <2>3. t[a][j].role = a /\ Carries(t[a][j], args, slice)
    BY <1>19, <2>2
  <2> QED
    BY <2>2, <2>3
<1>12. ASSUME NEW p \in 1 .. Len(flat), NEW a \in 1 .. n, flat[p].role = a
       PROVE  /\ p - base[a - 1] \in 1 .. Len(t[a])
              /\ flat[p] = t[a][p - base[a - 1]]
  <2>1. PICK b \in 1 .. n : p - base[b - 1] \in 1 .. Len(t[b])
    BY <1>9
  <2> DEFINE j == p - base[b - 1]
  <2>2. j \in 1 .. Len(t[b]) /\ flat[p] = t[b][j]
    BY <1>10, <2>1
  <2>3. a = b
    <3> HIDE DEF j
    <3>1. t[b][j].role = b
      BY <1>19, <2>2
    <3> QED
      BY <1>12, <2>2, <3>1
  <2> QED
    BY <2>2, <2>3
<1>13. this \in CoreRecord
  <2>1. /\ o \in Nat /\ slice.core \in Nat /\ CoordFor(slice.core) \in Coord
        /\ slice.partition \in Nat /\ slice.offset \in Nat /\ slice.size \in Nat \ {0}
        /\ flat \in Seq(Operand)
    BY <1>1, <1>2, <1>3, <1>7
  <2> QED
    BY <1>4, <2>1 DEF CoreRecord
<1>14. StandsFor(this, o, slice) /\ this.operands = flat /\ this.op = o
       /\ this.offset = slice.offset /\ this.size = slice.size
       /\ this.coord = CoordFor(slice.core)
  BY <1>4 DEF StandsFor
<1> HIDE DEF this
<1>15. ModelCoreVerified(this, n)
  <2>1. ASSUME NEW p \in 1 .. Len(flat)
        PROVE  flat[p].role \in 1 .. n /\ flat[p].partition >= -1 /\ flat[p].size > 0
    <3>1. flat[p].role \in 1 .. n /\ Carries(flat[p], args, slice)
      BY <1>11
    <3>2. flat[p] \in Operand /\ flat[p].size # 0 /\ flat[p].partition >= -1
      BY <3>1 DEF Carries
    <3>3. flat[p].size \in Nat
      BY <3>2 DEF Operand
    <3> QED
      BY <3>1, <3>2, <3>3
  <2>2. ASSUME NEW a \in 1 .. n
        PROVE  \E p \in 1 .. Len(flat) : flat[p].role = a
    <3>1. Len(t[a]) \in Nat
      BY <1>19
    <3>2. 1 \in 1 .. Len(t[a])
      BY <1>19, <3>1
    <3>3. base[a - 1] + 1 \in 1 .. Len(flat) /\ flat[base[a - 1] + 1] = t[a][1]
          /\ t[a][1].role = a
      BY <1>19, <1>9, <3>2
    <3> QED
      BY <3>3
  <2>3. this.size > 0
    BY <1>2, <1>14
  <2> QED
    BY <1>14, <2>1, <2>2, <2>3 DEF ModelCoreVerified
<1>16. ASSUME NEW a \in 1 .. n PROVE FedWhole(program.ops, this, a)
  <2>1. CASE from(a) = 0
    BY <1>14, <2>1 DEF FedWhole, args
  <2>2. CASE from(a) # 0
    <3> DEFINE u == from(a)
               q == parts(a)
               need == needed(a)
    <3>1. Ready(u)
      BY <2>2 DEF args
    <3>2. q \in Seq(Nat) /\ \E g \in [1 .. Len(q) -> Nat] : Feeds(q, u, g, need)
      <4> HIDE DEF u
      <4> QED
        BY <3>1, SelectedFeeds DEF u, parts, needed
    <3>3. PICK g \in [1 .. Len(q) -> Nat] : Feeds(q, u, g, need)
      BY <3>2
    <3>4. /\ Len(t[a]) = Len(q)
          /\ \A k \in 1 .. Len(t[a]) : /\ t[a][k].offset = cores[q[k]].offset
                                       /\ t[a][k].size = cores[q[k]].size
      BY <1>19, <2>2
    <3>5. u \in Ops /\ Len(mapped[u]) = Len(plans[u])
          /\ \A i, j \in 1 .. Len(plans[u]) : i < j => EndOf(plans[u][i]) <= plans[u][j].offset
      <4>1. /\ u \in Ops /\ Len(mapped[u]) = Len(plans[u])
            /\ plans[u] \in Seq(Placement) /\ Tiled(plans[u], program.ops[u].pop)
            /\ program.ops[u].pop \in Nat
        BY <3>1 DEF Ready
      <4> HIDE DEF u
      <4> QED
        BY <4>1, TiledCovers
    <3> HIDE DEF q, need
    <3>6. ASSUME NEW k \in 1 .. Len(q)
          PROVE  /\ g[k] \in 1 .. Len(plans[u])
                 /\ t[a][k].offset = plans[u][g[k]].offset
                 /\ t[a][k].size = plans[u][g[k]].size
                 /\ Neurons(t[a][k]) = Neurons(plans[u][g[k]])
      <4>1. g[k] \in 1 .. Len(plans[u]) /\ q[k] = mapped[u][g[k]]
        BY <3>3 DEF Feeds
      <4>2. StandsFor(cores[mapped[u][g[k]]], u, plans[u][g[k]])
        BY <3>5, <4>1 DEF Standing
      <4> DEFINE i == mapped[u][g[k]]
      <4>3. cores[i].offset = plans[u][g[k]].offset /\ cores[i].size = plans[u][g[k]].size
        BY Zenon, <4>2 DEF StandsFor
      <4> HIDE DEF i
      <4>4. q[k] = i
        BY Zenon, <4>1 DEF i
      <4>5. t[a][k].offset = cores[i].offset /\ t[a][k].size = cores[i].size
        BY <3>4, <4>4
      <4>6. t[a][k].offset = plans[u][g[k]].offset /\ t[a][k].size = plans[u][g[k]].size
        BY Zenon, <4>3, <4>5
      <4>7. Neurons(t[a][k]) = Neurons(plans[u][g[k]])
        BY Zenon, <4>6 DEF Neurons
      <4> QED
        BY <4>1, <4>6, <4>7
    <3> DEFINE feeds == {p \in 1 .. Len(flat) : flat[p].role = a}
               at(p) == p - base[a - 1]
    <3>7. ASSUME NEW p \in feeds
          PROVE  at(p) \in 1 .. Len(q) /\ flat[p] = t[a][at(p)]
      BY <1>12, <3>4
    <3>8. ASSUME NEW k \in 1 .. Len(q)
          PROVE  \E p \in feeds : flat[p] = t[a][k]
      <4>1. base[a - 1] + k \in 1 .. Len(flat) /\ flat[base[a - 1] + k] = t[a][k]
            /\ t[a][k].role = a
        BY <1>19, <1>9, <3>4
      <4> QED
        BY <4>1
    <3>9. ASSUME NEW x \in need PROVE \E p \in feeds : x \in Neurons(flat[p])
      <4>1. PICK k \in 1 .. Len(q) : x \in Neurons(plans[u][g[k]])
        BY <3>3 DEF Feeds
      <4>2. x \in Neurons(t[a][k])
        BY <3>6, <4>1
      <4>3. PICK p \in feeds : flat[p] = t[a][k]
        BY <3>8
      <4> QED
        BY <4>2, <4>3
    <3>10. ASSUME NEW p \in feeds PROVE Neurons(flat[p]) \cap need # {}
      <4> DEFINE k == at(p)
      <4>1. k \in 1 .. Len(q) /\ flat[p] = t[a][k]
        BY <3>7
      <4> HIDE DEF k
      <4>2. Neurons(plans[u][g[k]]) \cap need # {}
        BY <3>3, <4>1 DEF Feeds
      <4> QED
        BY <3>6, <4>1, <4>2
    <3>11. ASSUME NEW p \in feeds, NEW r \in feeds, p < r,
                  NEW x \in Neurons(flat[p]), NEW y \in Neurons(flat[r])
           PROVE  x < y
      <4> DEFINE k == at(p)
                 l == at(r)
      <4>1. k < l
        <5>1. p \in Nat /\ r \in Nat /\ base[a - 1] \in Nat
          <6>1. a - 1 \in 0 .. n /\ Len(flat) \in Nat
            BY <1>1, <1>7
          <6>2. base[a - 1] \in Nat
            BY <1>8, <6>1
          <6> QED
            BY <6>1, <6>2
        <5> QED
          BY <3>11, <5>1
      <4>2. k \in 1 .. Len(q) /\ flat[p] = t[a][k] /\ l \in 1 .. Len(q) /\ flat[r] = t[a][l]
        BY <3>7
      <4> HIDE DEF k, l
      <4>3. g[k] < g[l]
        BY <3>3, <4>1, <4>2 DEF Feeds
      <4>4. g[k] \in 1 .. Len(plans[u]) /\ g[l] \in 1 .. Len(plans[u])
            /\ x \in Neurons(plans[u][g[k]]) /\ y \in Neurons(plans[u][g[l]])
        BY <3>6, <4>2
      <4>5. EndOf(plans[u][g[k]]) <= plans[u][g[l]].offset
        BY <3>5, <4>3, <4>4
      <4>6. plans[u][g[k]] \in Placement /\ plans[u][g[l]] \in Placement
        <5>1. plans[u] \in Seq(Placement)
          BY <3>1 DEF Ready
        <5> QED
          BY <4>4, <5>1, ElementOfSeq
      <4> DEFINE v == plans[u][g[k]]
                 w == plans[u][g[l]]
      <4>7. v.offset \in Nat /\ v.size \in Nat /\ w.offset \in Nat /\ w.size \in Nat
        BY <4>6 DEF Placement
      <4>8. x \in v.offset .. v.offset + v.size - 1 /\ y \in w.offset .. w.offset + w.size - 1
        BY Zenon, <4>4 DEF Neurons
      <4>9. v.offset + v.size <= w.offset
        BY Zenon, <4>5 DEF EndOf
      <4> HIDE DEF v, w
      <4>10. x \in Int /\ x <= v.offset + v.size - 1
        BY <4>7, <4>8
      <4>11. y \in Int /\ y >= w.offset
        BY <4>7, <4>8
      <4> QED
        BY <4>7, <4>9, <4>10, <4>11
    <3>12. program.ops[this.op].args[a][1] = u /\ program.ops[this.op].kind = kind
      BY <1>14 DEF args, kind
    <3>13. Needed(program.ops[this.op].kind,
                  program.ops[program.ops[this.op].args[a][1]].pop, this) = need
      BY Zenon, <1>14, <3>12 DEF Needed, need, needed
    <3> HIDE DEF at, u, feeds
    <3>14. need \subseteq UNION {Neurons(flat[p]) : p \in feeds}
      BY Zenon, <3>9
    <3> QED
      BY Zenon, <1>14, <3>10, <3>11, <3>13, <3>14 DEF FedWhole, feeds
  <2> QED
    BY <2>1, <2>2
<1>17. RouterVerified(this.coord)
  BY <1>3, <1>14
<1> QED
  BY <1>11, <1>13, <1>14, <1>15, <1>16, <1>17 DEF this, args, n

-----------------------------------------------------------------------------
(***************************************************************************)
(* The core operations one after the other.                                *)
(***************************************************************************)

(* How much of every operation is mapped.                                   *)
Progress ==
    /\ phase \in {"import", "plan"} =>
          /\ chunk = 1 /\ cores = <<>> /\ \A o \in Ops : mapped[o] = <<>>
          /\ returns = program.returns
    /\ phase = "plan" => \A o \in Ops : o < op => program.ops[o].pop # 0
    /\ phase \in {"create", "finish", "done"} => \A o \in Ops : program.ops[o].pop # 0
    /\ phase = "create" =>
          /\ op \in Ops /\ chunk \in 1 .. Len(plans[op]) /\ returns = program.returns
          /\ \A o \in Ops : Len(mapped[o]) = IF o < op THEN Len(plans[o])
                                              ELSE IF o = op THEN chunk - 1 ELSE 0
    /\ phase = "finish" => returns = program.returns
    /\ phase \in {"finish", "done"} => \A o \in Ops : Len(mapped[o]) = Len(plans[o])

EdgeInv == TileInv /\ LoadInv /\ Standing /\ Progress /\ EdgesCarryData

LEMMA EdgeInit == Init => EdgeInv
<1> SUFFICES ASSUME Init PROVE EdgeInv
  OBVIOUS
<1>1. TileInv /\ LoadInv
  BY TileInit, InitLoadInv
<1>2. /\ cores = <<>> /\ chunk = 1 /\ phase = "import" /\ returns = program.returns
      /\ \A o \in Ops : mapped[o] = <<>>
  BY DEF Init
<1>3. Standing
  <2>1. cores \in Seq(CoreRecord) /\ mapped \in [Ops -> Seq(Nat)]
    BY EmptySeq DEF Init
  <2> QED
    BY <1>2, <2>1 DEF Standing
<1>4. Progress
  BY <1>2 DEF Progress
<1>5. EdgesCarryData
  BY <1>2 DEF EdgesCarryData
<1> QED
  BY <1>1, <1>3, <1>4, <1>5 DEF EdgeInv

(* An action that creates no core operation leaves those there are as they  *)
(* are.                                                                     *)
LEMMA EdgesKept ==
  ASSUME EdgesCarryData, UNCHANGED <<program, cores>>
  PROVE  EdgesCarryData'
BY DEF EdgesCarryData

LEMMA TiledNonempty ==
  ASSUME NEW plan \in Seq(Placement), NEW pop \in Nat, pop # 0, Tiled(plan, pop)
  PROVE  Len(plan) \in Nat /\ 1 \in 1 .. Len(plan)
<1>1. plan # <<>> /\ Len(plan) \in Nat
  BY DEF Tiled
<1>2. Len(plan) # 0
  BY <1>1, EmptySeq
<1> QED
  BY <1>1, <1>2

LEMMA EdgePlaceChunk ==
  ASSUME EdgeInv, PlaceChunk
  PROVE  EdgeInv'
<1>1. TileInv' /\ LoadInv'
  BY TilePlaceChunk, LoadPlaceChunk DEF EdgeInv
<1>2. /\ phase = "plan" /\ Ops' = Ops
      /\ UNCHANGED <<program, phase, op, chunk, cores, mapped, returns>>
  BY DEF PlaceChunk, Ops, created
<1>3. Progress'
  BY <1>2 DEF EdgeInv, Progress
<1>4. Standing'
  <2>1. cores' \in Seq(CoreRecord) /\ mapped' \in [Ops -> Seq(Nat)]
    BY <1>2 DEF EdgeInv, Standing
  <2>2. \A o \in Ops : mapped'[o] = <<>>
    BY <1>2 DEF EdgeInv, Progress
  <2> QED
    BY <1>2, <2>1, <2>2 DEF Standing
<1>5. EdgesCarryData'
  BY <1>2, EdgesKept DEF EdgeInv
<1> QED
  BY <1>1, <1>3, <1>4, <1>5 DEF EdgeInv

LEMMA EdgeOther ==
  ASSUME EdgeInv, Import \/ RefuseShape \/ MeshFull \/ NextOp \/ Finish
  PROVE  EdgeInv'
<1>1. TileInv' /\ LoadInv'
  <2>1. TileInv /\ LoadInv /\ [Next]_vars
    BY DEF EdgeInv, Next
  <2> QED
    BY <2>1, TileStep, LoadStep
<1>2. UNCHANGED <<program, plans, cores, mapped, chunk>> /\ Ops' = Ops
  BY DEF Import, RefuseShape, MeshFull, NextOp, Finish, Ops, created
<1>3. Standing'
  BY <1>2 DEF EdgeInv, Standing, StandsFor
<1>4. EdgesCarryData'
  BY <1>2, EdgesKept DEF EdgeInv
<1>5. Progress'
  <2>1. CASE Import
    <3>1. /\ phase = "import" /\ phase' \in {"plan", "failed"} /\ op' = op /\ op = 1
          /\ returns' = returns
      BY <2>1 DEF Import, EdgeInv, TileInv, created
    <3>2. \A o \in Ops : ~ (o < op)
      BY <3>1 DEF Ops
    <3> QED
      BY <1>2, <3>1, <3>2 DEF EdgeInv, Progress
  <2>2. CASE RefuseShape \/ MeshFull
    <3>1. phase' = "failed"
      BY <2>2 DEF RefuseShape, MeshFull
    <3> QED
      BY <3>1 DEF Progress
  <2>3. CASE NextOp
    <3>1. /\ phase = "plan" /\ op \in Ops /\ program.ops[op].pop > 0 /\ returns' = returns
          /\ IF op + 1 \in Ops THEN op' = op + 1 /\ phase' = phase
             ELSE op' = 1 /\ phase' = "create"
      BY <2>3 DEF NextOp, created
    <3>2. /\ op \in Nat \ {0} /\ program \in Programs /\ plans \in [Ops -> Seq(Placement)]
      BY DEF EdgeInv, TileInv, TypeOK
    <3>3. /\ Len(program.ops) \in Nat /\ \A o \in Ops : program.ops[o].pop \in Nat
      BY <3>2, ProgramParts
    <3>4. \A o \in Ops : o <= op => program.ops[o].pop # 0
      <4>1. \A o \in Ops : o < op => program.ops[o].pop # 0
        BY <3>1 DEF EdgeInv, Progress
      <4>2. program.ops[op].pop # 0
        BY <3>1, <3>3
      <4>3. \A o \in Ops : o <= op => o < op \/ o = op
        BY <3>2 DEF Ops
      <4> QED
        BY <4>1, <4>2, <4>3
    <3>5. CASE op + 1 \in Ops
      <4>1. \A o \in Ops : o < op + 1 => o <= op
        BY <3>2 DEF Ops
      <4> QED
        BY <1>2, <3>1, <3>4, <3>5, <4>1 DEF EdgeInv, Progress
    <3>6. CASE op + 1 \notin Ops
      <4>1. phase' = "create" /\ op' = 1 /\ 1 \in Ops /\ \A o \in Ops : o <= op
        BY <3>1, <3>2, <3>3, <3>6 DEF Ops
      <4>2. \A o \in Ops : program.ops[o].pop # 0
        BY <3>4, <4>1
      <4>3. chunk = 1 /\ \A o \in Ops : mapped[o] = <<>>
        BY <3>1 DEF EdgeInv, Progress
      <4>4. Tiled(plans[1], program.ops[1].pop)
        BY <1>1, <1>2, <4>1 DEF TileInv, SlicesTile
      <4>5. 1 \in 1 .. Len(plans[1])
        <5>1. plans[1] \in Seq(Placement) /\ program.ops[1].pop \in Nat
              /\ program.ops[1].pop # 0
          BY <3>2, <3>3, <4>1, <4>2
        <5> QED
          BY <4>4, <5>1, TiledNonempty
      <4>6. \A o \in Ops : ~ (o < 1)
        BY DEF Ops
      <4>7. \A o \in Ops : Len(mapped[o]) = 0
        BY <4>3
      <4> QED
        BY <1>2, <3>1, <4>1, <4>2, <4>3, <4>5, <4>6, <4>7 DEF EdgeInv, Progress
    <3> QED
      BY <3>5, <3>6
  <2>4. CASE Finish
    <3>1. phase = "finish" /\ phase' \in {"done", "failed"}
      BY <2>4 DEF Finish
    <3> QED
      BY <1>2, <3>1 DEF EdgeInv, Progress
  <2> QED
    BY <2>1, <2>2, <2>3, <2>4
<1> QED
  BY <1>1, <1>3, <1>4, <1>5 DEF EdgeInv

(* The slice under way gets its core operation; the earlier ones stay.      *)
LEMMA EdgeCreateCore ==
  ASSUME EdgeInv, CreateCore
  PROVE  EdgeInv'
<1> DEFINE slice == plans[op][chunk]
           this == CoreOp(op, slice)
           n == Len(cores)
           more == Append(cores, this)
<1>1. TileInv' /\ LoadInv'
  <2>1. TileInv /\ LoadInv /\ [Next]_vars
    BY DEF EdgeInv, Next
  <2> QED
    BY <2>1, TileStep, LoadStep
<1>2. /\ phase = "create" /\ UNCHANGED <<program, plans, returns>> /\ Ops' = Ops
      /\ cores' = more
      /\ mapped' = [mapped EXCEPT ![op] = Append(@, n + 1)]
  BY DEF CreateCore, Ops
<1>3. /\ TypeOK /\ Standing /\ EdgesCarryData /\ Progress /\ TileInv /\ LoadInv
  BY DEF EdgeInv, TileInv
<1>4. /\ program \in Programs /\ op \in Ops /\ chunk \in 1 .. Len(plans[op])
      /\ returns = program.returns
      /\ plans \in [Ops -> Seq(Placement)] /\ plans[op] \in Seq(Placement)
      /\ Len(program.ops) \in Nat /\ Ops \subseteq Nat
      /\ \A o \in Ops : /\ program.ops[o].pop \in Nat /\ program.ops[o].pop # 0
                        /\ Tiled(plans[o], program.ops[o].pop)
                        /\ program.ops[o].args \in Seq((0 .. o - 1) \X Nat)
      /\ \A o \in Ops : Len(mapped[o]) = IF o < op THEN Len(plans[o])
                                          ELSE IF o = op THEN chunk - 1 ELSE 0
  <2>1. program \in Programs /\ plans \in [Ops -> Seq(Placement)]
    BY <1>3 DEF TypeOK
  <2>2. /\ Len(program.ops) \in Nat /\ Ops \subseteq Nat
        /\ \A o \in Ops : /\ program.ops[o].pop \in Nat
                          /\ program.ops[o].args \in Seq((0 .. o - 1) \X Nat)
    BY <2>1, ProgramParts
  <2>3. /\ op \in Ops /\ chunk \in 1 .. Len(plans[op]) /\ returns = program.returns
        /\ \A o \in Ops : program.ops[o].pop # 0
        /\ \A o \in Ops : Len(mapped[o]) = IF o < op THEN Len(plans[o])
                                            ELSE IF o = op THEN chunk - 1 ELSE 0
    BY <1>2, <1>3 DEF Progress
  <2>4. \A o \in Ops : Tiled(plans[o], program.ops[o].pop)
    BY <1>2, <1>3 DEF TileInv, SlicesTile
  <2> QED
    BY <2>1, <2>2, <2>3, <2>4
<1>5. slice \in Placement /\ slice.core < MeshCapacity /\ Len(plans[op]) \in Nat
  <2>1. slice \in Placement /\ Len(plans[op]) \in Nat
    BY <1>4, ElementOfSeq
  <2>2. chunk \in DOMAIN plans[op]
    BY <1>4
  <2>3. slice.core < Len(used) /\ Len(used) <= MeshCapacity
    BY <1>3, <1>4, <2>2 DEF LoadInv, OnOpenCores
  <2>4. slice.core \in Nat /\ Len(used) \in Nat /\ MeshCapacity \in Nat
    BY <1>3, <2>1, Constants DEF Placement, TypeOK
  <2> HIDE DEF slice
  <2> QED
    BY <2>1, <2>3, <2>4
<1>6. ASSUME NEW a \in 1 .. Len(program.ops[op].args), program.ops[op].args[a][1] # 0
      PROVE  Ready(program.ops[op].args[a][1])
  <2> DEFINE o == program.ops[op].args[a][1]
  <2>1. program.ops[op].args[a] \in (0 .. op - 1) \X Nat
    BY <1>4, ElementOfSeq
  <2>2. o \in 0 .. op - 1 /\ o # 0
    BY <1>6, <2>1
  <2> HIDE DEF o
  <2>3. o \in Ops /\ o < op
    BY <1>4, <2>2 DEF Ops
  <2>4. Ready(o)
    BY <1>4, <2>3 DEF Ready
  <2> QED
    BY <2>4 DEF o
<1>7. /\ this \in CoreRecord /\ StandsFor(this, op, slice)
      /\ ModelCoreVerified(this, Len(program.ops[op].args)) /\ RouterVerified(this.coord)
      /\ \A a \in 1 .. Len(program.ops[op].args) : FedWhole(program.ops, this, a)
      /\ \A p \in 1 .. Len(this.operands) :
            Carries(this.operands[p], program.ops[op].args, slice)
  <2> HIDE DEF slice
  <2> QED
    BY <1>3, <1>4, <1>5, <1>6, CoreOpFed
<1> HIDE DEF this
<1>8. /\ n \in Nat /\ more \in Seq(CoreRecord) /\ Len(more) = n + 1
      /\ \A c \in 1 .. n : more[c] = cores[c]
      /\ more[n + 1] = this
  <2>1. cores \in Seq(CoreRecord)
    BY <1>3 DEF Standing
  <2> QED
    BY <1>7, <2>1, AppendProperties
<1> HIDE DEF more, n
<1>9. /\ mapped \in [Ops -> Seq(Nat)] /\ mapped' \in [Ops -> Seq(Nat)]
      /\ \A o \in Ops : o # op => mapped'[o] = mapped[o]
      /\ Len(mapped[op]) = chunk - 1 /\ chunk \in Nat
      /\ Len(mapped'[op]) = chunk /\ mapped'[op][chunk] = n + 1
      /\ \A k \in 1 .. chunk - 1 : mapped'[op][k] = mapped[op][k]
  <2>1. mapped \in [Ops -> Seq(Nat)]
    BY <1>3 DEF Standing
  <2>2. mapped[op] \in Seq(Nat) /\ n + 1 \in Nat
    BY <1>4, <1>8, <2>1
  <2>3. Len(mapped[op]) = chunk - 1 /\ chunk \in Nat
    BY <1>4, <1>5
  <2>4. mapped'[op] = Append(mapped[op], n + 1)
    BY <1>2, <1>4, <2>1
  <2>5. /\ mapped'[op] \in Seq(Nat) /\ Len(mapped'[op]) = Len(mapped[op]) + 1
        /\ \A k \in 1 .. Len(mapped[op]) : mapped'[op][k] = mapped[op][k]
        /\ mapped'[op][Len(mapped[op]) + 1] = n + 1
    BY <2>2, <2>4, AppendProperties
  <2>6. \A o \in Ops : o # op => mapped'[o] = mapped[o]
    BY <1>2, <2>1
  <2>7. mapped' \in [Ops -> Seq(Nat)]
    BY <1>2, <1>4, <2>1, <2>4, <2>5
  <2> QED
    BY <2>1, <2>3, <2>5, <2>6, <2>7
<1>10. Standing'
  <2>1. ASSUME NEW o \in Ops, NEW k \in 1 .. Len(mapped'[o])
        PROVE  /\ mapped'[o][k] \in 1 .. Len(more) /\ k \in 1 .. Len(plans[o])
               /\ StandsFor(more[mapped'[o][k]], o, plans[o][k])
    <3>1. CASE o = op /\ k = chunk
      <4>1. mapped'[o][k] = n + 1 /\ n + 1 \in 1 .. Len(more)
        BY <1>8, <1>9, <3>1
      <4>2. more[n + 1] = this /\ StandsFor(this, o, plans[o][k])
        BY <1>7, <1>8, <3>1
      <4> QED
        BY <1>4, <3>1, <4>1, <4>2
    <3>2. CASE ~ (o = op /\ k = chunk)
      <4>1. k \in 1 .. Len(mapped[o]) /\ mapped'[o][k] = mapped[o][k]
        <5>1. CASE o = op
          BY <1>9, <3>2, <5>1
        <5>2. CASE o # op
          BY <1>9, <5>2
        <5> QED
          BY <5>1, <5>2
      <4> DEFINE i == mapped[o][k]
      <4>2. i \in 1 .. Len(cores) /\ k \in 1 .. Len(plans[o]) /\ StandsFor(cores[i], o, plans[o][k])
        BY <1>3, <4>1 DEF Standing
      <4> HIDE DEF i
      <4>3. more[i] = cores[i] /\ i \in 1 .. Len(more)
        BY <1>8, <4>2 DEF n
      <4> QED
        BY <4>1, <4>2, <4>3 DEF i
    <3> QED
      BY <3>1, <3>2
  <2>2. \A o \in Ops : \A k \in 1 .. Len(mapped'[o]) :
          /\ mapped'[o][k] \in 1 .. Len(cores') /\ k \in 1 .. Len(plans'[o])
          /\ StandsFor(cores'[mapped'[o][k]], o, plans'[o][k])
    BY <1>2, <2>1
  <2> QED
    BY <1>2, <1>8, <1>9, <2>2 DEF Standing, StandsFor
<1>11. Progress'
  <2>1. \A o \in Ops : Len(mapped'[o]) = IF o < op THEN Len(plans[o])
                                          ELSE IF o = op THEN chunk ELSE 0
    BY <1>4, <1>9
  <2>2. CASE chunk < Len(plans[op])
    <3>1. phase' = "create" /\ op' = op /\ chunk' = chunk + 1
      BY <1>2, <2>2 DEF CreateCore
    <3>2. chunk + 1 \in 1 .. Len(plans[op]) /\ (chunk + 1) - 1 = chunk
      BY <1>5, <1>9, <2>2
    <3> QED
      BY <1>2, <1>4, <2>1, <3>1, <3>2 DEF Progress
  <2>3. CASE ~ (chunk < Len(plans[op]))
    <3>1. chunk = Len(plans[op]) /\ chunk' = 1
      BY <1>2, <1>4, <1>5, <2>3 DEF CreateCore
    <3>2. CASE op + 1 \in Ops
      <4>1. phase' = "create" /\ op' = op + 1
        BY <1>2, <2>3, <3>2 DEF CreateCore
      <4>2. 1 \in 1 .. Len(plans[op + 1])
        <5>1. plans[op + 1] \in Seq(Placement)
          BY <1>4, <3>2
        <5> QED
          BY <1>4, <3>2, <5>1, TiledNonempty
      <4>3. \A o \in Ops : Len(mapped'[o]) = IF o < op + 1 THEN Len(plans[o])
                                              ELSE IF o = op + 1 THEN 1 - 1 ELSE 0
        <5> TAKE o \in Ops
        <5>1. o \in Nat /\ op \in Nat
          BY <1>4
        <5> QED
          BY <2>1, <3>1, <5>1
      <4> QED
        BY <1>2, <1>4, <3>1, <3>2, <4>1, <4>2, <4>3 DEF Progress
    <3>3. CASE op + 1 \notin Ops
      <4>1. phase' = "finish"
        BY <1>2, <2>3, <3>3 DEF CreateCore
      <4>2. \A o \in Ops : o <= op
        BY <1>4, <3>3 DEF Ops
      <4>3. \A o \in Ops : Len(mapped'[o]) = Len(plans[o])
        <5> TAKE o \in Ops
        <5>1. o \in Nat /\ op \in Nat /\ o <= op
          BY <1>4, <4>2
        <5> QED
          BY <2>1, <3>1, <5>1
      <4> QED
        BY <1>2, <1>4, <4>1, <4>3 DEF Progress
    <3> QED
      BY <3>2, <3>3
  <2> QED
    BY <2>2, <2>3
<1>12. ASSUME NEW c \in 1 .. n PROVE FedRightly(program.ops, more, c)
  <2> DEFINE ops == program.ops
             old == cores[c]
  <2>1. FedRightly(ops, cores, c)
    BY <1>3 DEF EdgesCarryData, n
  <2>2. old \in CoreRecord /\ more[c] = old
    <3>1. old \in CoreRecord
      BY <1>3, ElementOfSeq DEF Standing, n
    <3> QED
      BY <1>8, <3>1
  <2>3. old.operands \in Seq(Operand)
    BY <2>2 DEF CoreRecord
  <2>4. ASSUME NEW k \in 1 .. Len(old.operands)
        PROVE  Traced(ops, more, old.operands[k], c)
    <3> DEFINE x == old.operands[k]
    <3>1. Traced(ops, cores, x, c)
      BY Zenon, <2>1 DEF FedRightly
    <3>2. x \in Operand
      BY <2>3, ElementOfSeq
    <3>3. x.from \in Nat
      BY <3>2 DEF Operand
    <3> HIDE DEF x
    <3>4. x.from # 0 => x.from < c
      BY Zenon, <3>1 DEF Traced
    <3>5. x.from # 0 => more[x.from] = cores[x.from]
      <4>1. x.from # 0 => x.from \in 1 .. n
        BY <1>8, <3>3, <3>4
      <4> QED
        BY <1>8, <4>1
    <3>6. Traced(ops, more, x, c)
      BY Zenon, <2>2, <3>1, <3>5 DEF Traced
    <3> QED
      BY <3>6 DEF x
  <2> QED
    BY Zenon, <2>1, <2>2, <2>4 DEF FedRightly
<1>13. FedRightly(program.ops, more, n + 1)
  <2> DEFINE ops == program.ops
             args == ops[op].args
  <2>1. more[n + 1] = this /\ this.op = op /\ this.core = slice.core
        /\ this.coord = CoordFor(slice.core)
    BY <1>7, <1>8 DEF StandsFor
  <2>2. ASSUME NEW p \in 1 .. Len(this.operands)
        PROVE  Traced(ops, more, this.operands[p], n + 1)
    <3> DEFINE x == this.operands[p]
    <3>1. Carries(x, args, slice)
      BY <1>7
    <3> HIDE DEF x
    <3> DEFINE s == cores[x.from]
    <3>2. x.from # 0 => /\ x.from \in 1 .. Len(cores) /\ args[x.role] = <<s.op, x.result>>
                        /\ s.partition = x.partition /\ s.offset = x.offset /\ s.size = x.size
                        /\ x.hops = IF s.core = slice.core THEN NoHops
                                    ELSE <<s.coord, CoordFor(slice.core)>>
      BY Zenon, <3>1 DEF Carries
    <3>3. x.from # 0 => x.from < n + 1 /\ more[x.from] = s
      BY <1>8, <3>2 DEF n
    <3> HIDE DEF s
    <3>4. x.from # 0 => /\ ops[this.op].args[x.role] = <<s.op, x.result>>
                        /\ <<s.partition, s.offset, s.size>> = <<x.partition, x.offset, x.size>>
                        /\ x.hops = IF s.core = this.core THEN NoHops
                                    ELSE <<s.coord, this.coord>>
      BY Zenon, <2>1, <3>2
    <3>5. Traced(ops, more, x, n + 1)
      BY Zenon, <2>1, <3>3, <3>4 DEF Traced
    <3> QED
      BY <3>5 DEF x
  <2> QED
    BY Zenon, <1>7, <2>1, <2>2 DEF FedRightly
<1>14. EdgesCarryData'
  <2>1. \A c \in 1 .. n + 1 : c \in 1 .. n \/ c = n + 1
    BY <1>8
  <2>2. \A c \in 1 .. n + 1 : FedRightly(program.ops, more, c)
    BY Zenon, <1>12, <1>13, <2>1
  <2> QED
    BY <1>2, <1>8, <2>2 DEF EdgesCarryData
<1> QED
  BY <1>1, <1>10, <1>11, <1>14 DEF EdgeInv

LEMMA EdgeStep == EdgeInv /\ [Next]_vars => EdgeInv'
<1> SUFFICES ASSUME EdgeInv, [Next]_vars PROVE EdgeInv'
  OBVIOUS
<1>1. CASE PlaceChunk
  BY <1>1, EdgePlaceChunk
<1>2. CASE CreateCore
  BY <1>2, EdgeCreateCore
<1>3. CASE Import \/ RefuseShape \/ MeshFull \/ NextOp \/ Finish
  BY <1>3, EdgeOther
<1>4. CASE UNCHANGED vars
  <2>1. TileInv' /\ LoadInv'
    BY TileStep, LoadStep DEF EdgeInv
  <2>2. UNCHANGED <<program, phase, op, chunk, plans, cores, mapped, returns>> /\ Ops' = Ops
    BY <1>4 DEF vars, created, Ops
  <2>3. Standing' /\ Progress'
    BY <2>2 DEF EdgeInv, Standing, StandsFor, Progress
  <2>4. EdgesCarryData'
    BY <2>2, EdgesKept DEF EdgeInv
  <2> QED
    BY <2>1, <2>3, <2>4 DEF EdgeInv
<1> QED
  BY <1>1, <1>2, <1>3, <1>4 DEF Next

(* Every core operation the pass creates gets, for each operand of the fused *)
(* operation, all the neurons its slice depends on, once and in order, from  *)
(* core operations that exist already, through the routers of both cores     *)
(* (SNNOpCoreMapping.cpp:249-303), whatever the program, the capacity and    *)
(* the mesh.                                                                *)
THEOREM EdgesAlwaysCarryData == Spec => []EdgesCarryData
<1>1. EdgeInv => EdgesCarryData
  BY DEF EdgeInv
<1> QED
  BY EdgeInit, EdgeStep, <1>1, PTL DEF Spec

-----------------------------------------------------------------------------
(* The sum over a concatenation is the sum of the sums.                     *)
Weighs(s, f, g, h) ==
    /\ \A p \in 1 .. Len(FlattenSeq(s)) : f[p] \in Int
    /\ \A i \in 1 .. Len(s) :
          /\ g[i] = SumFunctionOnSet(h[i], 1 .. Len(s[i])) /\ g[i] \in Int
          /\ \A p \in 1 .. Len(FlattenSeq(s)) : \A j \in 1 .. Len(s[i]) :
                FlattenSeq(s)[p] = s[i][j] => h[i][j] = f[p]

LEMMA FlattenSum ==
  ASSUME NEW X, NEW s \in Seq(Seq(X)), NEW f, NEW g, NEW h, Weighs(s, f, g, h)
  PROVE  SumFunctionOnSet(f, 1 .. Len(FlattenSeq(s))) = SumFunctionOnSet(g, 1 .. Len(s))
<1> DEFINE n == Len(s)
           flat == FlattenSeq(s)
           all == Len(flat)
<1>1. PICK base \in [0 .. n -> Nat] : Blocks(s, base)
  BY FlattenBlocks
<1>2. n \in Nat /\ \A i \in 1 .. n : Len(s[i]) \in Nat
  <2>1. \A i \in 1 .. n : s[i] \in Seq(X)
    BY ElementOfSeq
  <2> QED
    BY <2>1
<1>3. /\ base[0] = 0 /\ all = base[n]
      /\ \A i \in 1 .. n : base[i] = base[i - 1] + Len(s[i])
      /\ \A i, k \in 0 .. n : i <= k => base[i] <= base[k]
      /\ \A i \in 1 .. n : \A j \in 1 .. Len(s[i]) :
            base[i - 1] + j \in 1 .. all /\ flat[base[i - 1] + j] = s[i][j]
  BY Zenon, <1>1 DEF Blocks
<1>4. n \in 0 .. n /\ \A i \in 0 .. n : base[i] \in Nat /\ base[i] <= all
  <2>1. n \in 0 .. n
    BY <1>2
  <2>2. \A i \in 0 .. n : base[i] \in Nat /\ i <= n
    BY <1>2
  <2>3. \A i \in 0 .. n : base[i] <= base[n]
    BY <1>3, <2>1, <2>2
  <2> QED
    BY <1>3, <2>1, <2>2, <2>3
<1>5. \A p \in 1 .. all : f[p] \in Int
  BY DEF Weighs
<1>6. ASSUME NEW i \in 1 .. n, NEW j \in 1 .. Len(s[i])
      PROVE  h[i][j] = f[base[i - 1] + j]
  BY <1>3 DEF Weighs
<1>7. \A i \in 1 .. n : g[i] = SumFunctionOnSet(h[i], 1 .. Len(s[i])) /\ g[i] \in Int
  BY DEF Weighs
<1> HIDE DEF n, all, flat
<1> DEFINE S == {k \in 0 .. n : SumFunctionOnSet(f, 1 .. base[k]) = SumFunctionOnSet(g, 1 .. k)}
<1>8. 0 \in S
  <2>1. SumFunctionOnSet(f, 1 .. 0) = SumFunctionOnSet(g, 1 .. 0)
    <3>1. 1 .. 0 = {}
      OBVIOUS
    <3> QED
      BY <3>1, SumEmpty
  <2> QED
    BY <1>2, <1>3, <2>1
<1>9. ASSUME NEW k \in 0 .. n - 1, k \in S PROVE k + 1 \in S
  <2> DEFINE m == k + 1
             a == base[k]
             b == Len(s[m])
  <2>1. m \in 1 .. n /\ m \in 0 .. n /\ k \in 0 .. n /\ m - 1 = k /\ k \in Nat
    BY <1>2
  <2>2. SumFunctionOnSet(f, 1 .. a) = SumFunctionOnSet(g, 1 .. k)
    BY <1>9
  <2> HIDE DEF m
  <2>3. a \in Nat /\ b \in Nat /\ base[m] = a + b /\ a + b <= all /\ all \in Nat
    BY <1>2, <1>3, <1>4, <2>1
  <2>4. \A p \in 1 .. a + b : f[p] \in Int
    BY <1>5, <2>3
  <2>5. \A j \in 1 .. b : h[m][j] = f[a + j]
    BY <1>6, <2>1
  <2> HIDE DEF a, b
  <2>6. SumFunctionOnSet(f, 1 .. a + b)
           = SumFunctionOnSet(f, 1 .. a) + SumFunctionOnSet(h[m], 1 .. b)
    <3> DEFINE hm == h[m]
    <3>1. \A j \in 1 .. b : hm[j] = f[a + j]
      BY <2>5
    <3> HIDE DEF hm
    <3>2. SumFunctionOnSet(f, 1 .. a + b)
             = SumFunctionOnSet(f, 1 .. a) + SumFunctionOnSet(hm, 1 .. b)
      BY <2>3, <2>4, <3>1, SumStretch
    <3> QED
      BY <3>2 DEF hm
  <2>7. SumFunctionOnSet(g, 1 .. k + 1) = SumFunctionOnSet(g, 1 .. k) + g[k + 1]
    <3>1. \A i \in 1 .. k + 1 : g[i] \in Int
      <4>1. \A i \in 1 .. k + 1 : i \in 1 .. n
        BY <1>2, <2>1 DEF m
      <4> QED
        BY <1>7, <4>1
    <3> QED
      BY <2>1, <3>1, SumNext
  <2>8. g[m] = SumFunctionOnSet(h[m], 1 .. b)
    BY <1>7, <2>1 DEF b
  <2>9. SumFunctionOnSet(f, 1 .. base[m]) = SumFunctionOnSet(g, 1 .. m)
    BY <2>2, <2>3, <2>6, <2>7, <2>8 DEF m
  <2>10. m \in S
    BY <2>1, <2>9
  <2> QED
    BY <2>10 DEF m
<1> HIDE DEF S
<1>10. n \in S
  <2>1. \A k \in 0 .. n : k \in S
    BY <1>2, <1>8, <1>9, CountUp
  <2> QED
    BY <1>4, <2>1
<1> QED
  BY <1>3, <1>10 DEF S, n, all, flat

(* The slices of a tiled population add up to it.                           *)
LEMMA TiledSum ==
  ASSUME NEW plan \in Seq(Placement), NEW upTo \in Nat, Tiled(plan, upTo),
         NEW f, \A k \in 1 .. Len(plan) : f[k] = plan[k].size
  PROVE  SumFunctionOnSet(f, 1 .. Len(plan)) = upTo
<1> DEFINE n == Len(plan)
           S == {k \in 0 .. n : SumFunctionOnSet(f, 1 .. k) = IF k = 0 THEN 0 ELSE EndOf(plan[k])}
<1>1. n \in Nat /\ \A k \in 1 .. n : plan[k] \in Placement
  BY ElementOfSeq
<1>2. \A k \in 1 .. n : /\ plan[k].offset \in Nat /\ plan[k].size \in Nat /\ f[k] \in Int
                        /\ EndOf(plan[k]) = plan[k].offset + plan[k].size
                        /\ EndOf(plan[k]) \in Nat
  BY <1>1 DEF Placement, EndOf
<1>3. 0 \in S
  <2>1. 1 .. 0 = {} /\ 0 \in 0 .. n
    BY <1>1
  <2>2. SumFunctionOnSet(f, 1 .. 0) = 0
    BY <2>1, SumEmpty
  <2> QED
    BY <2>1, <2>2
<1>4. ASSUME NEW k \in 0 .. n - 1, k \in S PROVE k + 1 \in S
  <2>1. k + 1 \in 1 .. n /\ k + 1 \in 0 .. n /\ k \in Nat /\ (k + 1) - 1 = k /\ k + 1 # 0
    BY <1>1
  <2>2. SumFunctionOnSet(f, 1 .. k + 1) = SumFunctionOnSet(f, 1 .. k) + f[k + 1]
    <3>1. \A i \in 1 .. k + 1 : f[i] \in Int
      BY <1>1, <1>2, <2>1
    <3> QED
      BY <2>1, <3>1, SumNext
  <2>3. SumFunctionOnSet(f, 1 .. k) = IF k = 0 THEN 0 ELSE EndOf(plan[k])
    BY <1>4
  <2>4. plan[k + 1].offset = IF k = 0 THEN 0 ELSE EndOf(plan[k])
    <3>1. plan[k + 1].offset = IF k + 1 = 1 THEN 0
                               ELSE plan[(k + 1) - 1].offset + plan[(k + 1) - 1].size
      BY <2>1 DEF Tiled
    <3> QED
      BY <2>1, <3>1 DEF EndOf
  <2>5. SumFunctionOnSet(f, 1 .. k + 1) = EndOf(plan[k + 1])
    BY <1>2, <2>1, <2>2, <2>3, <2>4
  <2> QED
    BY <2>1, <2>5
<1> HIDE DEF S
<1>5. n \in S
  <2>1. \A k \in 0 .. n : k \in S
    BY <1>1, <1>3, <1>4, CountUp
  <2> QED
    BY <1>1, <2>1
<1>6. CASE n = 0
  <2>1. upTo = 0
    BY <1>6, EmptySeq DEF Tiled
  <2> QED
    BY <1>5, <1>6, <2>1 DEF S
<1>7. CASE n # 0
  <2>1. EndOf(plan[n]) = upTo
    BY <1>1, <1>7 DEF Tiled, EndOf
  <2> QED
    BY <1>5, <1>7, <2>1 DEF S
<1> QED
  BY <1>6, <1>7

-----------------------------------------------------------------------------
(***************************************************************************)
(* What comes back from the function.                                      *)
(***************************************************************************)

(* The sizes of a list of returned values, and that each is the first part  *)
(* of a result or follows the part before it.                               *)
Sizes(values) ==
    [k \in DOMAIN values |-> IF values[k][1] = 0 THEN 0 ELSE cores[values[k][1]].size]
Populations(values) ==
    [k \in DOMAIN values |-> IF values[k][1] = 0 THEN 0 ELSE program.ops[values[k][1]].pop]
Continues(values, k) ==
    LET b == cores[values[k][1]]
        a == cores[values[k - 1][1]]
    IN  values[k][1] # 0 =>
          \/ b.offset = 0
          \/ /\ k > 1 /\ values[k - 1][1] # 0
             /\ values[k - 1][2] = values[k][2]
             /\ b.op = a.op /\ b.offset = a.offset + a.size

LEMMA ReturnedParts ==
  ASSUME EdgeInv, phase = "finish"
  PROVE  LET flat == PartsReturned(returns)
         IN  /\ DOMAIN flat = 1 .. Len(flat)
             /\ SumFunction(Sizes(flat)) = SumFunction(Populations(program.returns))
             /\ \A k \in DOMAIN flat : Continues(flat, k)
<1> DEFINE v == program.returns
           n == Len(v)
           X == Nat \X Nat
           parts(w) == [i \in 1 .. Len(mapped[w[1]]) |-> <<mapped[w[1]][i], w[2]>>]
           t == [k \in 1 .. n |-> IF v[k][1] = 0 THEN <<v[k]>> ELSE parts(v[k])]
           flat == FlattenSeq(t)
<1>1. /\ program \in Programs /\ Standing /\ returns = v
      /\ v \in Seq((0 .. Len(program.ops)) \X Nat)
      /\ Len(program.ops) \in Nat
      /\ plans \in [Ops -> Seq(Placement)]
      /\ \A o \in Ops : /\ program.ops[o].pop \in Nat
                        /\ Tiled(plans[o], program.ops[o].pop)
                        /\ Len(mapped[o]) = Len(plans[o])
  <2>1. program \in Programs /\ Standing /\ returns = v /\ plans \in [Ops -> Seq(Placement)]
        /\ \A o \in Ops : Len(mapped[o]) = Len(plans[o])
    BY DEF EdgeInv, Progress, TileInv, TypeOK
  <2>2. \A o \in Ops : Tiled(plans[o], program.ops[o].pop)
    BY DEF EdgeInv, TileInv, SlicesTile
  <2>3. /\ v \in Seq((0 .. Len(program.ops)) \X Nat)
        /\ Len(program.ops) \in Nat
        /\ \A o \in Ops : program.ops[o].pop \in Nat
    BY <2>1, ProgramParts
  <2> QED
    BY <2>1, <2>2, <2>3
<1>2. PartsReturned(returns) = flat
  BY Zenon, <1>1 DEF PartsReturned
<1>3. n \in Nat /\ DOMAIN v = 1 .. n
      /\ \A k \in 1 .. n : /\ v[k] \in X /\ v[k][2] \in Nat
                           /\ v[k][1] # 0 => v[k][1] \in Ops
  <2>1. \A k \in 1 .. n : v[k] \in (0 .. Len(program.ops)) \X Nat
    BY <1>1, ElementOfSeq
  <2> QED
    BY <1>1, <2>1 DEF Ops
<1>4. ASSUME NEW o \in Ops, NEW j \in 1 .. Len(mapped[o])
      PROVE  /\ mapped[o][j] \in Nat \ {0} /\ j \in 1 .. Len(plans[o])
             /\ cores[mapped[o][j]].op = o
             /\ cores[mapped[o][j]].offset = plans[o][j].offset
             /\ cores[mapped[o][j]].size = plans[o][j].size
             /\ plans[o][j].offset \in Nat /\ plans[o][j].size \in Nat
  <2>1. /\ mapped[o][j] \in 1 .. Len(cores) /\ j \in 1 .. Len(plans[o])
        /\ StandsFor(cores[mapped[o][j]], o, plans[o][j]) /\ Len(cores) \in Nat
    BY <1>1 DEF Standing
  <2>2. plans[o][j] \in Placement
    BY <1>1, <2>1, ElementOfSeq
  <2>3. mapped[o][j] \in Nat \ {0}
    <3> DEFINE i == mapped[o][j]
    <3>1. i \in 1 .. Len(cores) /\ Len(cores) \in Nat
      BY <2>1
    <3> HIDE DEF i
    <3>2. i \in Nat \ {0}
      BY <3>1
    <3> QED
      BY <3>2 DEF i
  <2> QED
    BY <2>1, <2>2, <2>3 DEF StandsFor, Placement
<1>5. ASSUME NEW k \in 1 .. n, v[k][1] = 0
      PROVE  t[k] = <<v[k]>> /\ t[k] \in Seq(X) /\ Len(t[k]) = 1 /\ t[k][1] = v[k]
  <2>1. t[k] = <<v[k]>>
    BY <1>5
  <2>2. v[k] \in X
    BY <1>3
  <2> HIDE DEF t, X, v
  <2> QED
    BY <2>1, <2>2
<1>6. ASSUME NEW k \in 1 .. n, v[k][1] # 0
      PROVE  /\ t[k] \in Seq(X) /\ Len(t[k]) = Len(mapped[v[k][1]])
             /\ \A j \in 1 .. Len(t[k]) : /\ t[k][j][1] = mapped[v[k][1]][j]
                                          /\ t[k][j][2] = v[k][2]
  <2> DEFINE o == v[k][1]
             r == v[k][2]
             m == mapped[o]
  <2>1. t[k] = [i \in 1 .. Len(m) |-> <<m[i], r>>]
    <3>1. t[k] = IF v[k][1] = 0 THEN <<v[k]>> ELSE [i \in 1 .. Len(m) |-> <<m[i], r>>]
      BY Zenon
    <3> QED
      BY Zenon, <1>6, <3>1
  <2>2. o \in Ops /\ r \in Nat /\ m \in Seq(Nat)
    BY <1>1, <1>3, <1>6 DEF Standing
  <2> HIDE DEF t, m, r, o
  <2>3. Len(m) \in Nat /\ \A i \in 1 .. Len(m) : m[i] \in Nat
    BY <2>2, ElementOfSeq
  <2>4. \A i \in 1 .. Len(m) : <<m[i], r>> \in X
    BY <2>2, <2>3
  <2> HIDE DEF X
  <2> QED
    BY <2>1, <2>3, <2>4 DEF m, r, o
<1>7. t \in Seq(Seq(X)) /\ Len(t) = n
  <2>1. \A k \in 1 .. n : t[k] \in Seq(X)
    BY <1>5, <1>6
  <2>2. t = [k \in 1 .. n |-> t[k]]
    OBVIOUS
  <2> HIDE DEF t, n, X
  <2> QED
    BY <1>3, <2>1, <2>2
<1> HIDE DEF t
<1>8. flat \in Seq(X) /\ \E base \in [0 .. Len(t) -> Nat] : Blocks(t, base)
  BY <1>7, FlattenBlocks
<1>9. PICK base \in [0 .. n -> Nat] : Blocks(t, base)
  BY <1>7, <1>8
<1>10. Len(flat) \in Nat /\ DOMAIN flat = 1 .. Len(flat)
  BY <1>8
<1> HIDE DEF X
<1>11. ASSUME NEW p \in 1 .. Len(flat) PROVE Continues(flat, p)
  <2>1. PICK k \in 1 .. n : p - base[k - 1] \in 1 .. Len(t[k])
    <3>1. \A q \in 1 .. Len(flat) : \E k \in 1 .. Len(t) : q - base[k - 1] \in 1 .. Len(t[k])
      BY <1>9 DEF Blocks
    <3> QED
      BY <1>7, <3>1
  <2> DEFINE b == base[k - 1]
             j == p - b
  <2>2. b \in Nat /\ p \in Nat /\ j \in 1 .. Len(t[k]) /\ p = b + j
    <3>1. k - 1 \in 0 .. n
      BY <1>3
    <3>2. b \in Nat /\ p \in Nat
      BY <1>9, <1>10, <3>1
    <3> QED
      BY <2>1, <3>2
  <2>3. \A i \in 1 .. Len(t[k]) : b + i \in 1 .. Len(flat) /\ flat[b + i] = t[k][i]
    BY <1>7, <1>9 DEF Blocks
  <2> HIDE DEF b, j, flat
  <2>4. flat[p] = t[k][j]
    BY <2>2, <2>3
  <2>5. CASE v[k][1] = 0
    <3>1. Len(t[k]) = 1 /\ t[k][1] = v[k]
      BY <1>5, <2>5
    <3>2. j = 1
      BY <2>2, <3>1
    <3> QED
      BY <2>4, <2>5, <3>1, <3>2 DEF Continues
  <2>6. CASE v[k][1] # 0
    <3> DEFINE o == v[k][1]
               m == mapped[o]
    <3>1. /\ o \in Ops /\ Len(t[k]) = Len(m)
          /\ \A i \in 1 .. Len(m) : t[k][i][1] = m[i] /\ t[k][i][2] = v[k][2]
      BY <1>3, <1>6, <2>6
    <3>2. \A i \in 1 .. Len(m) : /\ m[i] # 0 /\ i \in 1 .. Len(plans[o])
                                 /\ cores[m[i]].op = o /\ cores[m[i]].offset = plans[o][i].offset
                                 /\ cores[m[i]].size = plans[o][i].size
      <4> TAKE i \in 1 .. Len(m)
      <4>1. /\ mapped[o][i] \in Nat \ {0} /\ i \in 1 .. Len(plans[o])
            /\ cores[mapped[o][i]].op = o
            /\ cores[mapped[o][i]].offset = plans[o][i].offset
            /\ cores[mapped[o][i]].size = plans[o][i].size
        <5>1. o \in Ops /\ i \in 1 .. Len(mapped[o])
          BY <3>1
        <5> HIDE DEF o
        <5> QED
          BY <1>4, <5>1
      <4>2. mapped[o][i] # 0
        BY <4>1
      <4> QED
        BY Zenon, <4>1, <4>2
    <3>3. j \in 1 .. Len(m) /\ flat[p][1] = m[j] /\ flat[p][2] = v[k][2]
      BY <2>2, <2>4, <3>1
    <3>4. plans[o][j].offset = IF j = 1 THEN 0
                               ELSE plans[o][j - 1].offset + plans[o][j - 1].size
      <4>1. Tiled(plans[o], program.ops[o].pop) /\ j \in 1 .. Len(plans[o])
        BY <1>1, <3>1, <3>2, <3>3
      <4> HIDE DEF o
      <4> QED
        BY <4>1 DEF Tiled
    <3> HIDE DEF o, m, v
    <3>5. CASE j = 1
      <4>1. cores[flat[p][1]].offset = 0
        BY <3>2, <3>3, <3>4, <3>5
      <4> QED
        BY <4>1 DEF Continues
    <3>6. CASE j # 1
      <4>1. Len(m) \in Nat
        BY <1>1, <3>1 DEF Standing, m
      <4>2. j - 1 \in 1 .. Len(m) /\ p - 1 = b + (j - 1) /\ p > 1
        BY <2>2, <3>3, <3>6, <4>1
      <4>3. flat[p - 1][1] = m[j - 1] /\ flat[p - 1][2] = v[k][2]
        <5>1. flat[p - 1] = t[k][j - 1]
          BY <2>3, <3>1, <4>2
        <5> QED
          BY <3>1, <4>2, <5>1
      <4>4. /\ cores[m[j]].op = cores[m[j - 1]].op /\ m[j - 1] # 0
            /\ cores[m[j]].offset = cores[m[j - 1]].offset + cores[m[j - 1]].size
        BY <3>2, <3>3, <3>4, <3>6, <4>2
      <4> QED
        BY Zenon, <3>3, <4>2, <4>3, <4>4 DEF Continues
    <3> QED
      BY <3>5, <3>6
  <2> QED
    BY <2>5, <2>6
<1>12. SumFunction(Sizes(flat)) = SumFunction(Populations(v))
  <2> DEFINE f == Sizes(flat)
             g == Populations(v)
             h == [k \in 1 .. n |-> Sizes(t[k])]
  <2>1. /\ DOMAIN f = 1 .. Len(flat) /\ DOMAIN g = 1 .. n
        /\ \A p \in 1 .. Len(flat) : f[p] = IF flat[p][1] = 0 THEN 0 ELSE cores[flat[p][1]].size
        /\ \A k \in 1 .. n : g[k] = IF v[k][1] = 0 THEN 0 ELSE program.ops[v[k][1]].pop
    BY <1>3, <1>10 DEF Sizes, Populations
  <2>2. ASSUME NEW k \in 1 .. n
        PROVE  /\ t[k] \in Seq(X)
               /\ \A j \in 1 .. Len(t[k]) :
                     h[k][j] = IF t[k][j][1] = 0 THEN 0 ELSE cores[t[k][j][1]].size
    <3>1. t[k] \in Seq(X)
      BY <1>5, <1>6
    <3>2. DOMAIN t[k] = 1 .. Len(t[k])
      BY <3>1
    <3> QED
      BY <3>1, <3>2 DEF Sizes
  <2> HIDE DEF f, g, h, flat
  <2>3. ASSUME NEW k \in 1 .. n
        PROVE  /\ SumFunctionOnSet(h[k], 1 .. Len(t[k])) = g[k] /\ g[k] \in Nat
               /\ \A j \in 1 .. Len(t[k]) : h[k][j] \in Nat
    <3>1. CASE v[k][1] = 0
      <4>1. Len(t[k]) = 1 /\ t[k][1] = v[k] /\ g[k] = 0
        BY <1>5, <2>1, <3>1
      <4>2. \A j \in 1 .. Len(t[k]) : h[k][j] = 0
        BY <2>2, <3>1, <4>1
      <4>3. IsFiniteSet(1 .. Len(t[k]))
        BY <4>1, PlacesFinite
      <4>4. SumFunctionOnSet(h[k], 1 .. Len(t[k])) = 0
        BY <4>2, <4>3, SumZero
      <4> QED
        BY <4>1, <4>2, <4>4
    <3>2. CASE v[k][1] # 0
      <4> DEFINE o == v[k][1]
                 w == h[k]
                 pop == program.ops[o].pop
      <4>1. /\ o \in Ops /\ Len(t[k]) = Len(mapped[o]) /\ Len(mapped[o]) = Len(plans[o])
            /\ \A j \in 1 .. Len(mapped[o]) : t[k][j][1] = mapped[o][j]
            /\ plans[o] \in Seq(Placement) /\ pop \in Nat /\ Tiled(plans[o], pop)
        BY <1>1, <1>3, <1>6, <3>2
      <4>2. \A j \in 1 .. Len(plans[o]) : w[j] = plans[o][j].size /\ w[j] \in Nat
        <5> TAKE j \in 1 .. Len(plans[o])
        <5>1. mapped[o][j] # 0 /\ cores[mapped[o][j]].size = plans[o][j].size
              /\ plans[o][j].size \in Nat
          BY <1>4, <4>1
        <5>2. h[k][j] = IF t[k][j][1] = 0 THEN 0 ELSE cores[t[k][j][1]].size
          BY <2>2, <4>1
        <5>3. t[k][j][1] = mapped[o][j]
          BY <4>1
        <5> QED
          BY Zenon, <5>1, <5>2, <5>3
      <4>3. g[k] = pop
        BY <2>1, <3>2
      <4> HIDE DEF o, w, pop
      <4>4. SumFunctionOnSet(w, 1 .. Len(plans[o])) = pop
        BY <4>1, <4>2, TiledSum
      <4> QED
        BY <4>1, <4>2, <4>3, <4>4 DEF w
    <3> QED
      BY <3>1, <3>2
  <2>4. ASSUME NEW p \in 1 .. Len(flat) PROVE f[p] \in Int
    <3>1. PICK k \in 1 .. n : p - base[k - 1] \in 1 .. Len(t[k])
      <4>1. \A q \in 1 .. Len(flat) : \E k \in 1 .. Len(t) : q - base[k - 1] \in 1 .. Len(t[k])
        BY <1>9 DEF Blocks, flat
      <4> QED
        BY <1>7, <4>1
    <3> DEFINE j == p - base[k - 1]
    <3>2. flat[base[k - 1] + j] = t[k][j]
      BY <1>7, <1>9, <3>1 DEF Blocks, flat
    <3>3. base[k - 1] + j = p
      <4>1. k - 1 \in 0 .. n
        BY <1>3
      <4>2. base[k - 1] \in Nat /\ p \in Nat
        BY <1>9, <1>10, <4>1 DEF flat
      <4> QED
        BY <4>2
    <3>4. j \in 1 .. Len(t[k])
      BY <3>1
    <3> HIDE DEF j
    <3>5. flat[p] = t[k][j]
      BY <3>2, <3>3
    <3>6. f[p] = h[k][j]
      BY Zenon, <2>1, <2>2, <3>4, <3>5
    <3> QED
      BY <2>3, <3>4, <3>6
  <2>5. ASSUME NEW k \in 1 .. Len(t)
        PROVE  /\ g[k] = SumFunctionOnSet(h[k], 1 .. Len(t[k])) /\ g[k] \in Int
               /\ \A p \in 1 .. Len(FlattenSeq(t)) : \A j \in 1 .. Len(t[k]) :
                     FlattenSeq(t)[p] = t[k][j] => h[k][j] = f[p]
    <3>1. k \in 1 .. n
      BY <1>7
    <3>2. g[k] = SumFunctionOnSet(h[k], 1 .. Len(t[k])) /\ g[k] \in Int
      BY <2>3, <3>1
    <3>3. \A p \in 1 .. Len(flat) : \A j \in 1 .. Len(t[k]) : flat[p] = t[k][j] => h[k][j] = f[p]
      <4>1. \A j \in 1 .. Len(t[k]) :
               h[k][j] = IF t[k][j][1] = 0 THEN 0 ELSE cores[t[k][j][1]].size
        BY Zenon, <2>2, <3>1
      <4> SUFFICES ASSUME NEW p \in 1 .. Len(flat), NEW j \in 1 .. Len(t[k]), flat[p] = t[k][j]
                   PROVE  h[k][j] = f[p]
        OBVIOUS
      <4>2. f[p] = IF flat[p][1] = 0 THEN 0 ELSE cores[flat[p][1]].size
        BY Zenon, <2>1
      <4> QED
        BY Zenon, <4>1, <4>2
    <3> QED
      BY <3>2, <3>3 DEF flat
  <2>6. SumFunctionOnSet(f, 1 .. Len(FlattenSeq(t))) = SumFunctionOnSet(g, 1 .. Len(t))
    <3>1. \A p \in 1 .. Len(FlattenSeq(t)) : f[p] \in Int
      BY <2>4 DEF flat
    <3> QED
      <4>1. Weighs(t, f, g, h)
        BY Zenon, <2>5, <3>1 DEF Weighs
      <4> QED
        BY <1>7, <4>1, FlattenSum
  <2>7. SumFunctionOnSet(f, DOMAIN f) = SumFunctionOnSet(g, DOMAIN g)
    BY Zenon, <1>7, <2>1, <2>6 DEF flat
  <2> QED
    BY Zenon, <2>7 DEF SumFunction, f, g
<1> QED
  BY Zenon, <1>2, <1>10, <1>11, <1>12

LEMMA WholeFinish ==
  ASSUME EdgeInv, Finish
  PROVE  ReturnsWhole'
<1>1. PICK flat : flat = PartsReturned(returns)
  OBVIOUS
<1>2. returns' = flat /\ cores' = cores /\ program' = program /\ phase = "finish"
  BY <1>1 DEF Finish
<1>3. /\ DOMAIN flat = 1 .. Len(flat)
      /\ SumFunction(Sizes(flat)) = SumFunction(Populations(program.returns))
      /\ \A k \in DOMAIN flat : Continues(flat, k)
  BY <1>1, <1>2, ReturnedParts
<1>4. [k \in DOMAIN flat |-> SizeOf(flat[k])'] = Sizes(flat)
  BY Zenon, <1>2 DEF SizeOf, Sizes
<1>5. [k \in DOMAIN program.returns |-> PopulationOf(program.returns[k])] = Populations(program.returns)
  BY Zenon DEF PopulationOf, Populations
<1> QED
  BY Zenon, <1>2, <1>3, <1>4, <1>5 DEF ReturnsWhole, SizeOf, PopulationOf, Continues


(* A value returned from the function is an argument or comes back part by   *)
(* part, in order and with as many neurons as the erased operation had: the  *)
(* returns that SNNOpCoreMapping.cpp:306-324 rewrites, for every program.    *)
THEOREM ReturnsComeBackWhole == Spec => []ReturnsWhole
<1> DEFINE WholeInv == EdgeInv /\ ReturnsWhole
<1>1. Init => WholeInv
  <2>1. Init => phase # "done"
    BY DEF Init
  <2> QED
    BY <2>1, EdgeInit DEF ReturnsWhole
<1>2. WholeInv /\ [Next]_vars => WholeInv'
  <2> SUFFICES ASSUME WholeInv, [Next]_vars PROVE WholeInv'
    OBVIOUS
  <2>1. EdgeInv'
    BY EdgeStep
  <2>2. CASE Finish
    BY <2>1, <2>2, WholeFinish
  <2>3. CASE Import \/ RefuseShape \/ MeshFull \/ PlaceChunk \/ NextOp \/ CreateCore
    <3>1. phase' # "done"
      BY <2>3 DEF Import, RefuseShape, MeshFull, PlaceChunk, NextOp, CreateCore
    <3> QED
      BY <2>1, <3>1 DEF ReturnsWhole
  <2>4. CASE UNCHANGED vars
    <3>1. UNCHANGED <<program, phase, cores, returns>>
      BY <2>4 DEF vars, created
    <3> QED
      BY <2>1, <3>1 DEF ReturnsWhole, SizeOf, PopulationOf
  <2> QED
    BY <2>2, <2>3, <2>4 DEF Next
<1>3. WholeInv => ReturnsWhole
  OBVIOUS
<1> QED
  BY <1>1, <1>2, <1>3, PTL DEF Spec

-----------------------------------------------------------------------------
(* The passes between a NIR block and SNNExec.                              *)
LEMMA PassSet ==
  ASSUME NEW s, NEW x
  PROVE  x \in ToSet(s) <=> \E i \in DOMAIN s : s[i] = x
BY DEF ToSet

(* An element taken out of a sequence, or put before its k-th.              *)
LEMMA Removed ==
  ASSUME NEW X, NEW s \in Seq(X), NEW k \in 1 .. Len(s)
  PROVE  /\ RemoveAt(s, k) \in Seq(X)
         /\ Len(RemoveAt(s, k)) = Len(s) - 1
         /\ \A i \in 1 .. Len(s) - 1 :
               RemoveAt(s, k)[i] = IF i < k THEN s[i] ELSE s[i + 1]
<1> DEFINE a == SubSeq(s, 1, k - 1)
           b == SubSeq(s, k + 1, Len(s))
<1>1. /\ a \in Seq(X) /\ Len(a) = k - 1 /\ \A i \in 1 .. k - 1 : a[i] = s[i]
  BY SubSeqProperties
<1>2. /\ b \in Seq(X) /\ Len(b) = Len(s) - k /\ \A i \in 1 .. Len(s) - k : b[i] = s[k + i]
  <2>1. \A i \in 1 .. Len(s) - k : k + 1 + i - 1 = k + i
    OBVIOUS
  <2> QED
    BY <2>1, SubSeqProperties
<1>3. RemoveAt(s, k) = a \o b
  BY DEF RemoveAt
<1> HIDE DEF a, b
<1>4. a \o b \in Seq(X) /\ Len(a \o b) = Len(s) - 1
  BY <1>1, <1>2, ConcatProperties
<1>5. ASSUME NEW i \in 1 .. Len(s) - 1
      PROVE  (a \o b)[i] = IF i < k THEN s[i] ELSE s[i + 1]
  <2>1. i \in 1 .. Len(a) + Len(b)
    BY <1>1, <1>2
  <2>2. (a \o b)[i] = IF i <= Len(a) THEN a[i] ELSE b[i - Len(a)]
    BY <1>1, <1>2, <2>1, ConcatProperties
  <2> QED
    BY <1>1, <1>2, <2>2
<1> QED
  BY <1>3, <1>4, <1>5

(* t is s with e put in at position k.                                      *)
Spread(X, s, t, k, e) ==
    /\ t \in Seq(X) /\ Len(t) = Len(s) + 1
    /\ \A i \in 1 .. Len(s) + 1 : t[i] = IF i < k THEN s[i] ELSE IF i = k THEN e ELSE s[i - 1]

LEMMA Inserted ==
  ASSUME NEW X, NEW s \in Seq(X), NEW k \in 1 .. Len(s), NEW e \in X
  PROVE  Spread(X, s, InsertAt(s, k, e), k, e)
<1> DEFINE a == SubSeq(s, 1, k - 1)
           b == SubSeq(s, k, Len(s))
           c == a \o <<e>>
<1>1. /\ a \in Seq(X) /\ Len(a) = k - 1 /\ \A i \in 1 .. k - 1 : a[i] = s[i]
  BY SubSeqProperties
<1>2. /\ b \in Seq(X) /\ Len(b) = Len(s) - k + 1
      /\ \A i \in 1 .. Len(s) - k + 1 : b[i] = s[k + i - 1]
  BY SubSeqProperties
<1>3. InsertAt(s, k, e) = c \o b
  BY DEF InsertAt
<1> HIDE DEF a, b
<1>4. c \in Seq(X) /\ Len(c) = k /\ \A i \in 1 .. k : c[i] = IF i < k THEN s[i] ELSE e
  <2>1. <<e>> \in Seq(X) /\ Len(<<e>>) = 1 /\ <<e>>[1] = e
    OBVIOUS
  <2>2. c \in Seq(X) /\ Len(c) = k
    BY <1>1, <2>1, ConcatProperties
  <2>3. ASSUME NEW i \in 1 .. k PROVE c[i] = IF i < k THEN s[i] ELSE e
    <3>1. c[i] = IF i <= Len(a) THEN a[i] ELSE <<e>>[i - Len(a)]
      BY <1>1, <2>1, ConcatProperties
    <3> QED
      BY <1>1, <2>1, <3>1
  <2> QED
    BY <2>2, <2>3
<1> HIDE DEF c
<1>5. c \o b \in Seq(X) /\ Len(c \o b) = Len(s) + 1
  BY <1>2, <1>4, ConcatProperties
<1>6. ASSUME NEW i \in 1 .. Len(s) + 1
      PROVE  (c \o b)[i] = IF i < k THEN s[i] ELSE IF i = k THEN e ELSE s[i - 1]
  <2>1. (c \o b)[i] = IF i <= Len(c) THEN c[i] ELSE b[i - Len(c)]
    BY <1>2, <1>4, ConcatProperties
  <2> QED
    BY <1>2, <1>4, <2>1
<1> HIDE DEF c
<1>7. Spread(X, s, c \o b, k, e)
  BY Zenon, <1>5, <1>6 DEF Spread
<1> QED
  BY Zenon, <1>3, <1>7

-----------------------------------------------------------------------------
(* The order the importer visits a block in: every node once, after its     *)
(* parents, as far as the traversal gets.                                   *)
Topological(g, s) ==
    /\ s \in Seq(g.nodes)
    /\ \A i, j \in 1 .. Len(s) : s[i] = s[j] => i = j
    /\ \A i \in 1 .. Len(s) : \A p \in ToSet(Parents(g, s[i])) :
          \E j \in 1 .. i - 1 : s[j] = p

ReadyNodes(g, s) ==
    {n \in g.nodes \ ToSet(s) : ToSet(Parents(g, n)) \subseteq ToSet(s)}
Extended(g, s) == IF ReadyNodes(g, s) = {} THEN s ELSE Append(s, Min(ReadyNodes(g, s)))

LEMMA ExtendedTopological ==
  ASSUME NEW g, g.nodes \subseteq Nat, NEW s, Topological(g, s)
  PROVE  Topological(g, Extended(g, s))
<1>1. CASE ReadyNodes(g, s) = {}
  BY <1>1 DEF Extended
<1>2. CASE ReadyNodes(g, s) # {}
  <2> DEFINE n == Min(ReadyNodes(g, s))
             t == Append(s, n)
  <2>1. ReadyNodes(g, s) \subseteq Nat
    BY DEF ReadyNodes
  <2>2. n \in ReadyNodes(g, s)
    BY <1>2, <2>1, LeastExists
  <2>3. /\ n \in g.nodes /\ \A i \in 1 .. Len(s) : s[i] # n
        /\ \A p \in ToSet(Parents(g, n)) : \E j \in 1 .. Len(s) : s[j] = p
    <3>1. DOMAIN s = 1 .. Len(s)
      BY DEF Topological
    <3>2. \A x : x \in ToSet(s) <=> \E j \in 1 .. Len(s) : s[j] = x
      BY Zenon, <3>1 DEF ToSet
    <3>3. n \in g.nodes /\ n \notin ToSet(s)
          /\ ToSet(Parents(g, n)) \subseteq ToSet(s)
      BY Zenon, <2>2 DEF ReadyNodes
    <3> QED
      BY Zenon, <3>2, <3>3
  <2>4. s \in Seq(g.nodes) /\ Len(s) \in Nat
    BY DEF Topological
  <2> HIDE DEF n
  <2>5. /\ t \in Seq(g.nodes) /\ Len(t) = Len(s) + 1 /\ t[Len(s) + 1] = n
        /\ \A i \in 1 .. Len(s) : t[i] = s[i]
    BY <2>3, <2>4
  <2> HIDE DEF t
  <2>6. ASSUME NEW i \in 1 .. Len(t), NEW j \in 1 .. Len(t), t[i] = t[j] PROVE i = j
    <3>1. /\ i \in 1 .. Len(s) \/ i = Len(s) + 1
          /\ j \in 1 .. Len(s) \/ j = Len(s) + 1
      BY <2>4, <2>5
    <3>2. CASE i \in 1 .. Len(s) /\ j \in 1 .. Len(s)
      <4>1. s[i] = s[j]
        BY Zenon, <2>5, <2>6, <3>2
      <4> QED
        BY Zenon, <3>2, <4>1 DEF Topological
    <3>3. ~(i \in 1 .. Len(s) /\ j = Len(s) + 1)
      BY Zenon, <2>3, <2>5, <2>6
    <3>4. ~(i = Len(s) + 1 /\ j \in 1 .. Len(s))
      BY Zenon, <2>3, <2>5, <2>6
    <3> QED
      BY Zenon, <3>1, <3>2, <3>3, <3>4
  <2>7. ASSUME NEW i \in 1 .. Len(t), NEW p \in ToSet(Parents(g, t[i]))
        PROVE  \E j \in 1 .. i - 1 : t[j] = p
    <3>1. CASE i \in 1 .. Len(s)
      <4>0. t[i] = s[i] /\ p \in ToSet(Parents(g, s[i]))
        BY Zenon, <2>5, <2>7, <3>1
      <4>1. PICK j \in 1 .. i - 1 : s[j] = p
        BY Zenon, <3>1, <4>0 DEF Topological
      <4>2. j \in 1 .. Len(s)
        BY <2>4, <3>1
      <4>3. t[j] = p
        BY Zenon, <2>5, <4>1, <4>2
      <4> QED
        BY Zenon, <4>3
    <3>2. CASE i = Len(s) + 1
      <4>0. t[i] = n
        BY Zenon, <2>5, <3>2
      <4>1. PICK j \in 1 .. Len(s) : s[j] = p
        BY Zenon, <2>3, <2>7, <4>0
      <4> QED
        BY <2>4, <2>5, <3>2, <4>1
    <3> QED
      BY <2>4, <2>5, <3>1, <3>2
  <2> QED
    BY <1>2, <2>5, <2>6, <2>7 DEF Topological, Extended, t, n
<1> QED
  BY <1>1, <1>2

LEMMA OrderedTopological ==
  ASSUME NEW g, g.nodes \subseteq Nat, IsFiniteSet(g.nodes)
  PROVE  Topological(g, Ordered(g))
<1> DEFINE N == Cardinality(g.nodes)
           IsOrder(h, m) == h = [k \in 0 .. m |-> IF k = 0 THEN <<>> ELSE Extended(g, h[k - 1])]
           E == {m \in 0 .. N : \E h : IsOrder(h, m)}
<1>1. N \in Nat
  <2>1. N = Cardinality(g.nodes)
    BY DEF Cardinality, Cardinality
  <2> QED
    BY <2>1, FS_CardinalityType
<1>2. Ordered(g) = (CHOOSE h : IsOrder(h, N))[N]
  BY DEF Ordered, Extended, ReadyNodes
<1> HIDE DEF N
<1>3. \E h : IsOrder(h, N)
  <2>1. 0 \in E
    <3>1. IsOrder([k \in {0} |-> <<>>], 0)
      OBVIOUS
    <3> HIDE DEF IsOrder
    <3> QED
      BY <1>1, <3>1
  <2>2. ASSUME NEW m \in 0 .. N - 1, m \in E PROVE m + 1 \in E
    <3>1. PICK h : IsOrder(h, m)
      BY <2>2
    <3> DEFINE f == [k \in 0 .. m + 1 |-> IF k = m + 1 THEN Extended(g, h[m]) ELSE h[k]]
    <3>2. \A k \in 0 .. m : h[k] = IF k = 0 THEN <<>> ELSE Extended(g, h[k - 1])
      BY <3>1
    <3>3. ASSUME NEW k \in 0 .. m + 1
          PROVE  f[k] = IF k = 0 THEN <<>> ELSE Extended(g, f[k - 1])
      <4>1. CASE k = m + 1
        BY <4>1
      <4>2. CASE k # m + 1 /\ k # 0
        <5>1. k \in 0 .. m /\ k - 1 \in 0 .. m + 1 /\ k - 1 # m + 1
          BY <4>2
        <5> QED
          BY <3>2, <4>2, <5>1
      <4>3. CASE k = 0
        BY <3>2, <4>3
      <4> QED
        BY <4>1, <4>2, <4>3
    <3>4. f = [k \in 0 .. m + 1 |-> f[k]]
      OBVIOUS
    <3> HIDE DEF f
    <3>5. IsOrder(f, m + 1)
      BY Zenon, <3>3, <3>4
    <3> HIDE DEF IsOrder
    <3> QED
      BY <1>1, <3>5
  <2> HIDE DEF E
  <2>3. \A m \in 0 .. N : m \in E
    BY <1>1, <2>1, <2>2, CountUp
  <2> QED
    BY <1>1, <2>3 DEF E
<1>4. PICK h : IsOrder(h, N) /\ Ordered(g) = h[N]
  <2> HIDE DEF IsOrder
  <2> QED
    BY <1>2, <1>3
<1>5. \A k \in 0 .. N : h[k] = IF k = 0 THEN <<>> ELSE Extended(g, h[k - 1])
  BY <1>4
<1> DEFINE T == {k \in 0 .. N : Topological(g, h[k])}
<1>6. 0 \in T
  <2>1. h[0] = <<>> /\ 0 \in 0 .. N
    BY <1>1, <1>5
  <2>2. Topological(g, <<>>)
    BY DEF Topological
  <2> QED
    BY <2>1, <2>2
<1>7. ASSUME NEW k \in 0 .. N - 1, k \in T PROVE k + 1 \in T
  <2>1. h[k + 1] = Extended(g, h[k])
    BY <1>1, <1>5
  <2> QED
    BY <1>1, <1>7, <2>1, ExtendedTopological
<1> HIDE DEF T
<1>8. \A k \in 0 .. N : k \in T
  BY <1>1, <1>6, <1>7, CountUp
<1> QED
  BY <1>1, <1>4, <1>8 DEF T

(* A traversal as long as there are nodes has visited them all.             *)
LEMMA OrderedAll ==
  ASSUME NEW g, IsFiniteSet(g.nodes), NEW s, Topological(g, s),
         Len(s) = Cardinality(g.nodes)
  PROVE  g.nodes = ToSet(s)
<1> DEFINE T == ToSet(s)
<1>1. Cardinality(g.nodes) = Cardinality(g.nodes)
  BY DEF Cardinality, Cardinality
<1>2. s \in Seq(g.nodes) /\ Len(s) \in Nat /\ \A i, j \in 1 .. Len(s) : s[i] = s[j] => i = j
  BY DEF Topological
<1>3. T \subseteq g.nodes /\ T = {s[i] : i \in 1 .. Len(s)}
  BY <1>2 DEF ToSet
<1>4. ExistsBijection(1 .. Len(s), T)
  <2>1. s \in Bijection(1 .. Len(s), T)
    <3>1. s \in [1 .. Len(s) -> T]
      BY <1>2, <1>3
    <3> QED
      BY <1>2, <1>3, <3>1 DEF Bijection, Injection, Surjection, IsInjective
  <2> QED
    BY <2>1 DEF ExistsBijection
<1>5. IsFiniteSet(T) /\ Cardinality(T) = Len(s)
  BY <1>2, <1>4, FS_CountingElements, FS_NatBijection
<1> QED
  BY <1>1, <1>3, <1>5, FS_Subset

-----------------------------------------------------------------------------
(* The IR.                                                                 *)
Value == Nat \X Roles
IROps == Operations({"model", "neuron", "fused", "exec"})

(* No two operations have one id; while the pass fuses, a fused operation   *)
(* stands before the model operation whose id it has.                       *)
Unique(ops) == \A a, b \in 1 .. Len(ops) : ops[a].id = ops[b].id => a = b
Distinct(ops) ==
    \A a, b \in 1 .. Len(ops) :
        a < b /\ ops[a].id = ops[b].id => ops[a].form = "fused" /\ ops[b].form = "model"

(* t is s without some operations, and with some results gone.              *)
Thinned(s, t, g) ==
    /\ g \in [1 .. Len(t) -> 1 .. Len(s)]
    /\ \A i, j \in 1 .. Len(t) : i < j => g[i] < g[j]
    /\ \A i \in 1 .. Len(t) : t[i].id = s[g[i]].id /\ t[i].args = s[g[i]].args

Needs(ops, values, v) ==
    v \in ToSet(values) \/ \E i \in 1 .. Len(ops) : v \in ToSet(ops[i].args)

LEMMA UsedNeeds ==
  ASSUME NEW ops \in Seq(IROps), NEW values, NEW v
  PROVE  Used(ops, values, v) <=> Needs(ops, values, v)
<1>1. DOMAIN ops = 1 .. Len(ops)
  OBVIOUS
<1>2. \A o : o \in ToSet(ops) <=> \E i \in 1 .. Len(ops) : ops[i] = o
  BY Zenon, <1>1 DEF ToSet
<1> QED
  BY Zenon, <1>2 DEF Used, Needs

LEMMA OpFields ==
  ASSUME NEW o \in IROps
  PROVE  /\ o.id \in Nat /\ o.form \in {"model", "neuron", "fused", "exec"}
         /\ o.args \in Seq(Value) /\ o.outs \subseteq Roles
BY DEF IROps, Value, Operations

LEMMA PairOf ==
  ASSUME NEW vs \in Seq(Value), NEW v \in ToSet(vs)
  PROVE  v = <<v[1], v[2]>> /\ v[1] \in Nat /\ v[2] \in Roles
<1>1. PICK i \in DOMAIN vs : vs[i] = v
  BY PassSet
<1>2. v \in Value
  BY <1>1
<1> QED
  BY <1>2 DEF Value

LEMMA DefinedThinned ==
  ASSUME NEW s \in Seq(IROps), NEW t \in Seq(IROps), NEW values \in Seq(Value), NEW g,
         Thinned(s, t, g), Defined(s, values),
         \A j \in 1 .. Len(s) : \A role \in s[j].outs :
            Needs(t, values, <<s[j].id, role>>) =>
               \E i \in 1 .. Len(t) : g[i] = j /\ role \in t[i].outs
  PROVE  Defined(t, values)
<1>1. DOMAIN s = 1 .. Len(s) /\ DOMAIN t = 1 .. Len(t) /\ Len(s) \in Nat /\ Len(t) \in Nat
  OBVIOUS
<1>2. ASSUME NEW k \in 1 .. Len(t), NEW v \in ToSet(t[k].args)
      PROVE  Resolves(v, t, k - 1)
  <2>1. g[k] \in 1 .. Len(s) /\ t[k].args = s[g[k]].args /\ t[k] \in IROps
    BY DEF Thinned
  <2>2. v \in ToSet(s[g[k]].args)
    BY Zenon, <2>1
  <2>3. v = <<v[1], v[2]>>
    BY <2>1, OpFields, PairOf
  <2>4. Resolves(v, s, g[k] - 1)
    BY Zenon, <1>1, <2>1, <2>2 DEF Defined
  <2>5. CASE v[2] = "arg"
    BY <2>5 DEF Resolves
  <2>6. CASE v[2] # "arg"
    <3>1. PICK j \in 1 .. g[k] - 1 : s[j].id = v[1] /\ v[2] \in s[j].outs
      BY Zenon, <2>4, <2>6 DEF Resolves
    <3>2. j \in 1 .. Len(s) /\ j < g[k]
      BY <1>1, <2>1
    <3>3. v = <<s[j].id, v[2]>>
      BY Zenon, <2>3, <3>1
    <3>4. Needs(t, values, <<s[j].id, v[2]>>)
      BY Zenon, <3>3, <1>2 DEF Needs
    <3>5. PICK i \in 1 .. Len(t) : g[i] = j /\ v[2] \in t[i].outs
      BY <3>1, <3>2, <3>4
    <3>6. t[i].id = v[1]
      BY Zenon, <3>1, <3>5 DEF Thinned
    <3>7. i \in 1 .. k - 1
      <4>1. ~ (k < i)
        <5>1. k < i => g[k] < g[i]
          BY Zenon DEF Thinned
        <5> QED
          BY <1>1, <2>1, <3>2, <3>5, <5>1
      <4>2. i # k
        BY <1>1, <2>1, <3>2, <3>5
      <4> QED
        BY <1>1, <4>1, <4>2
    <3> QED
      BY Zenon, <3>5, <3>6, <3>7 DEF Resolves
  <2> QED
    BY <2>5, <2>6
<1>3. ASSUME NEW v \in ToSet(values)
      PROVE  Resolves(v, t, Len(t))
  <2>3. v = <<v[1], v[2]>>
    BY PairOf
  <2>4. Resolves(v, s, Len(s))
    BY Zenon DEF Defined
  <2>5. CASE v[2] = "arg"
    BY <2>5 DEF Resolves
  <2>6. CASE v[2] # "arg"
    <3>1. PICK j \in 1 .. Len(s) : s[j].id = v[1] /\ v[2] \in s[j].outs
      BY Zenon, <2>4, <2>6 DEF Resolves
    <3>3. v = <<s[j].id, v[2]>>
      BY Zenon, <2>3, <3>1
    <3>4. Needs(t, values, <<s[j].id, v[2]>>)
      BY Zenon, <3>3, <1>3 DEF Needs
    <3>5. PICK i \in 1 .. Len(t) : g[i] = j /\ v[2] \in t[i].outs
      BY Zenon, <3>1, <3>4
    <3>6. t[i].id = v[1]
      BY Zenon, <3>1, <3>5 DEF Thinned
    <3> QED
      BY Zenon, <3>5, <3>6 DEF Resolves
  <2> QED
    BY <2>5, <2>6
<1> QED
  BY Zenon, <1>1, <1>2, <1>3 DEF Defined

LEMMA UniqueThinned ==
  ASSUME NEW s \in Seq(IROps), NEW t \in Seq(IROps), NEW g, Thinned(s, t, g), Unique(s)
  PROVE  Unique(t)
<1> SUFFICES ASSUME NEW a \in 1 .. Len(t), NEW b \in 1 .. Len(t), t[a].id = t[b].id
             PROVE  a = b
  BY DEF Unique
<1>1. g[a] \in 1 .. Len(s) /\ g[b] \in 1 .. Len(s) /\ g[a] = g[b]
  <2>1. g[a] \in 1 .. Len(s) /\ g[b] \in 1 .. Len(s)
    BY DEF Thinned
  <2>2. s[g[a]].id = s[g[b]].id
    BY Zenon DEF Thinned
  <2> QED
    BY Zenon, <2>1, <2>2 DEF Unique
<1>2. ~ (a < b) /\ ~ (b < a)
  BY <1>1 DEF Thinned
<1> QED
  BY <1>2

LEMMA AtUnique ==
  ASSUME NEW ops \in Seq(IROps), NEW j \in 1 .. Len(ops), NEW id, ops[j].id = id,
         \A i \in 1 .. Len(ops) : ops[i].id = id => i = j
  PROVE  At(ops, id) = j
<1>1. DOMAIN ops = 1 .. Len(ops)
  OBVIOUS
<1> QED
  BY Zenon, <1>1 DEF At

-----------------------------------------------------------------------------
(* What the verifiers and the passes see to, operation by operation.        *)
Roled(values, roles) == \A v \in ToSet(values) : v[2] \in roles
Paired(o) ==
    /\ Len(o.args) = 4
    /\ \A k \in {1, 3} : o.args[k][2] = "spike" /\ o.args[k + 1] = <<o.args[k][1], "tracer">>
Shaped(o) ==
    /\ o.form = "neuron" => o.outs = {"out"} /\ Len(o.args) = 1
    /\ o.form = "model" => o.outs = {"acc"}
    /\ o.form = "model" /\ o.kind \in Fusible => Len(o.args) = Arity(o.kind)
    /\ o.form \in {"model", "neuron"} => Roled(o.args, {"arg", "acc", "out"})
    /\ o.form \in {"fused", "exec"} =>
          /\ o.outs \subseteq {"spike", "tracer"} /\ o.kind \in Fusible
          /\ o.kind \in Attention => Paired(o)
          /\ o.kind \notin Attention =>
                Len(o.args) = Arity(o.kind) /\ Roled(o.args, {"arg", "acc", "spike"})

Sound(ops, values, forms) ==
    /\ ops \in Seq(IROps) /\ values \in Seq(Value)
    /\ Defined(ops, values)
    /\ \A i \in 1 .. Len(ops) : Shaped(ops[i]) /\ ops[i].form \in forms

Skip(n, k) == [i \in 1 .. n - 1 |-> IF i < k THEN i ELSE i + 1]

(* An operation none of whose results is used can go.                       *)
LEMMA RemoveSound ==
  ASSUME NEW ops, NEW values, NEW forms, Sound(ops, values, forms), Unique(ops),
         NEW k \in 1 .. Len(ops),
         \A role \in ops[k].outs : ~ Needs(ops, values, <<ops[k].id, role>>)
  PROVE  /\ Sound(RemoveAt(ops, k), values, forms)
         /\ Unique(RemoveAt(ops, k))
         /\ Len(RemoveAt(ops, k)) = Len(ops) - 1
         /\ \A i \in 1 .. Len(ops) - 1 :
               /\ Skip(Len(ops), k)[i] = IF i < k THEN i ELSE i + 1
               /\ Skip(Len(ops), k)[i] \in 1 .. Len(ops)
               /\ RemoveAt(ops, k)[i] = ops[Skip(Len(ops), k)[i]]
<1> DEFINE t == RemoveAt(ops, k)
           n == Len(ops)
           g == Skip(n, k)
<1>1. ops \in Seq(IROps) /\ values \in Seq(Value) /\ n \in Nat /\ Defined(ops, values)
  BY DEF Sound
<1>2. /\ t \in Seq(IROps) /\ Len(t) = n - 1
      /\ \A i \in 1 .. n - 1 : t[i] = IF i < k THEN ops[i] ELSE ops[i + 1]
  BY <1>1, Removed
<1> HIDE DEF t, n
<1>3. \A i \in 1 .. n - 1 : g[i] = (IF i < k THEN i ELSE i + 1) /\ g[i] \in 1 .. n
  BY <1>1 DEF Skip, n
<1>4. g \in [1 .. Len(t) -> 1 .. n]
  BY <1>1, <1>2, <1>3 DEF Skip
<1> HIDE DEF g
<1>5. \A i \in 1 .. n - 1 : t[i] = ops[g[i]]
  BY <1>2, <1>3
<1>6. Thinned(ops, t, g)
  <2>1. \A i, j \in 1 .. Len(t) : i < j => g[i] < g[j]
    BY <1>1, <1>2, <1>3
  <2> QED
    BY <1>2, <1>4, <1>5, <2>1 DEF Thinned, n
<1>7. ASSUME NEW j \in 1 .. n, NEW role \in ops[j].outs,
             Needs(t, values, <<ops[j].id, role>>)
      PROVE  \E i \in 1 .. Len(t) : g[i] = j /\ role \in t[i].outs
  <2>1. Needs(ops, values, <<ops[j].id, role>>)
    BY <1>2, <1>3, <1>5, <1>7 DEF Needs, n
  <2>2. j # k
    BY <2>1
  <2>3. CASE j < k
    <3>1. j \in 1 .. n - 1 /\ g[j] = j
      BY <1>1, <1>3, <2>3 DEF n
    <3> QED
      BY <1>2, <1>5, <3>1
  <2>4. CASE j > k
    <3>1. j - 1 \in 1 .. n - 1 /\ g[j - 1] = j
      BY <1>1, <1>3, <2>4 DEF n
    <3> QED
      BY <1>2, <1>5, <3>1
  <2> QED
    BY <1>1, <2>2, <2>3, <2>4 DEF n
<1>8. Defined(t, values)
  BY <1>1, <1>2, <1>6, <1>7, DefinedThinned DEF n
<1>9. Unique(t)
  BY <1>1, <1>2, <1>6, UniqueThinned
<1>10. \A i \in 1 .. Len(t) : Shaped(t[i]) /\ t[i].form \in forms
  BY <1>2, <1>3, <1>5 DEF Sound, n
<1> QED
  BY <1>1, <1>2, <1>3, <1>5, <1>8, <1>9, <1>10 DEF Sound, t, n, g

(* The same results, whatever else changes.                                 *)
SameResults(s, t) ==
    Len(t) = Len(s) /\ \A i \in 1 .. Len(s) : t[i].id = s[i].id /\ t[i].outs = s[i].outs

LEMMA ResolvesSame ==
  ASSUME NEW s, NEW t, SameResults(s, t), Len(s) \in Nat, NEW b \in 0 .. Len(s), NEW c \in b .. Len(s),
         NEW v, Resolves(v, s, b)
  PROVE  Resolves(v, t, c)
<1>1. CASE v[2] = "arg"
  BY <1>1 DEF Resolves
<1>2. CASE v[2] # "arg"
  <2>1. PICK j \in 1 .. b : s[j].id = v[1] /\ v[2] \in s[j].outs
    BY Zenon, <1>2 DEF Resolves
  <2>2. j \in 1 .. c /\ j \in 1 .. Len(s)
    OBVIOUS
  <2>3. t[j].id = v[1] /\ v[2] \in t[j].outs
    BY <2>1, <2>2 DEF SameResults
  <2> QED
    BY Zenon, <2>2, <2>3 DEF Resolves
<1> QED
  BY <1>1, <1>2

LEMMA SameSound ==
  ASSUME NEW s, NEW values, NEW forms, Sound(s, values, forms), NEW t \in Seq(IROps), SameResults(s, t),
         NEW more, \A i \in 1 .. Len(t) : Shaped(t[i]) /\ t[i].form \in more,
         \A i \in 1 .. Len(t) : \A v \in ToSet(t[i].args) :
            \E j \in 1 .. i : v \in ToSet(s[j].args)
  PROVE  Sound(t, values, more) /\ (Unique(s) => Unique(t))
<1>1. s \in Seq(IROps) /\ values \in Seq(Value) /\ Defined(s, values)
  BY DEF Sound
<1>2. /\ Len(t) = Len(s) /\ Len(s) \in Nat /\ DOMAIN s = 1 .. Len(s) /\ DOMAIN t = 1 .. Len(s)
      /\ \A i \in 1 .. Len(s) : t[i].id = s[i].id
  BY <1>1 DEF SameResults
<1>3. ASSUME NEW i \in 1 .. Len(s), NEW v \in ToSet(t[i].args)
      PROVE  Resolves(v, t, i - 1)
  <2>1. PICK j \in 1 .. i : v \in ToSet(s[j].args)
    BY <1>2, <1>3
  <2>2. j \in 1 .. Len(s)
    BY <1>2
  <2>3. Resolves(v, s, j - 1)
    BY Zenon, <1>1, <1>2, <2>1, <2>2 DEF Defined
  <2> QED
    BY <1>2, <2>2, <2>3, ResolvesSame
<1>4. ASSUME NEW v \in ToSet(values)
      PROVE  Resolves(v, t, Len(t))
  <2>1. Resolves(v, s, Len(s))
    BY Zenon, <1>1 DEF Defined
  <2> QED
    BY <1>2, <2>1, ResolvesSame
<1>5. Defined(t, values)
  BY Zenon, <1>2, <1>3, <1>4 DEF Defined
<1>6. Unique(s) => Unique(t)
  BY <1>2 DEF Unique
<1> QED
  BY <1>1, <1>5, <1>6 DEF Sound

(* MergeRescale: the arguments of an earlier operation replace an operand.  *)
LEMMA MergeSound ==
  ASSUME NEW forms, forms = {"model", "neuron"}, Sound(ir, ret, forms), Unique(ir),
         NEW k \in 1 .. Len(ir), Merges(k)
  PROVE  LET t == [ir EXCEPT ![k] = Merged(k)]
         IN  Sound(t, ret, forms) /\ Unique(t)
<1> DEFINE t == [ir EXCEPT ![k] = Merged(k)]
           v == ir[k].args[1]
<1>1. /\ ir \in Seq(IROps) /\ Len(ir) \in Nat /\ DOMAIN ir = 1 .. Len(ir) /\ ir[k] \in IROps
      /\ Defined(ir, ret) /\ Shaped(ir[k])
  BY DEF Sound
<1>2. ir[k].form = "model" /\ ir[k].kind = "rescale" /\ v[2] = "acc"
  BY DEF Merges
<1>3. "rescale" \in Fusible /\ Arity("rescale") = 1
  BY DEF Fusible, Lowering, Arity, Attention
<1>4. Len(ir[k].args) = 1 /\ ir[k].args \in Seq(Value)
  BY <1>1, <1>2, <1>3, OpFields DEF Shaped
<1>5. v \in ToSet(ir[k].args)
  <2>1. 1 \in DOMAIN ir[k].args
    BY <1>4
  <2> QED
    BY Zenon, <2>1 DEF ToSet
<1>6. Resolves(v, ir, k - 1)
  BY Zenon, <1>1, <1>5 DEF Defined
<1>7. PICK j \in 1 .. k - 1 : ir[j].id = v[1] /\ "acc" \in ir[j].outs
  BY Zenon, <1>2, <1>6 DEF Resolves
<1>8. j \in 1 .. Len(ir) /\ j < k
  BY <1>1
<1>9. At(ir, v[1]) = j
  BY <1>1, <1>7, <1>8, AtUnique DEF Unique
<1>10. /\ ir[j] \in IROps /\ ir[j].kind = "rescale" /\ ir[j].form = "model" /\ Shaped(ir[j])
  <2>1. ir[j].kind = "rescale"
    BY <1>9 DEF Merges
  <2>2. ir[j].form # "neuron"
    BY <1>7, <1>8 DEF Sound, Shaped
  <2> QED
    BY <1>1, <1>8, <2>1, <2>2 DEF Sound
<1> DEFINE o == Merged(k)
<1>11. /\ o \in IROps /\ o.id = ir[k].id /\ o.form = "model" /\ o.kind = "rescale"
       /\ o.outs = ir[k].outs /\ o.args = ir[j].args
  <2>1. o = [ir[k] EXCEPT !.args = ir[j].args, !.scale = ir[j].scale * ir[k].scale]
    BY <1>9 DEF Merged
  <2>2. ir[j].args \in Seq(Nat \X Roles) /\ ir[j].scale \in Int /\ ir[k].scale \in Int
    BY <1>1, <1>10 DEF IROps, Operations
  <2>3. ir[j].scale * ir[k].scale \in Int
    BY <2>2
  <2> HIDE DEF o
  <2> QED
    BY <1>1, <1>2, <2>1, <2>2, <2>3 DEF IROps, Operations
<1>12. Shaped(o)
  BY <1>1, <1>2, <1>10, <1>11 DEF Shaped
<1> HIDE DEF o
<1>13. /\ t \in Seq(IROps) /\ Len(t) = Len(ir) /\ t[k] = o
       /\ \A i \in 1 .. Len(ir) : i # k => t[i] = ir[i]
  <2>1. t = [ir EXCEPT ![k] = o]
    BY DEF o
  <2> QED
    BY <1>1, <1>11, <2>1
<1> HIDE DEF t
<1>14. SameResults(ir, t)
  BY <1>11, <1>13 DEF SameResults
<1>15. \A i \in 1 .. Len(t) : Shaped(t[i]) /\ t[i].form \in forms
  BY <1>11, <1>12, <1>13 DEF Sound
<1>16. ASSUME NEW i \in 1 .. Len(t), NEW w \in ToSet(t[i].args)
       PROVE  \E m \in 1 .. i : w \in ToSet(ir[m].args)
  <2>1. CASE i = k
    <3>1. w \in ToSet(ir[j].args) /\ j \in 1 .. i
      BY <1>8, <1>11, <1>13, <1>16, <2>1
    <3> QED
      BY Zenon, <3>1
  <2>2. CASE i # k
    <3>1. w \in ToSet(ir[i].args) /\ i \in 1 .. i
      BY <1>1, <1>13, <1>16, <2>2
    <3> QED
      BY Zenon, <3>1
  <2> QED
    BY <2>1, <2>2
<1>17. Sound(t, ret, forms) /\ (Unique(ir) => Unique(t))
  BY Zenon, <1>13, <1>14, <1>15, <1>16, SameSound
<1> QED
  BY <1>17 DEF t

-----------------------------------------------------------------------------
(* What the fusion knows of its candidates: each neuron is the only use of  *)
(* its model operation; those not fused yet come later than those fused;    *)
(* and a fused operation stands before its model and its neuron.            *)
PairedUp(ops, values) ==
    \A j \in 1 .. Len(ops) : ops[j].form = "neuron" =>
        /\ ops[j].args[1][2] = "acc" /\ ops[j].args[1] \notin ToSet(values)
        /\ \E k \in 1 .. Len(ops) : /\ ops[k].form = "model" /\ ops[k].id = ops[j].args[1][1]
                                    /\ ops[k].kind \in Fusible
        /\ \A i \in 1 .. Len(ops) : ops[j].args[1] \in ToSet(ops[i].args) => i = j
Candidate(ops, j, id) == ops[j].form = "neuron" /\ ops[j].id = id
Waiting(ops, ids, done) ==
    /\ \A i \in 1 .. Len(ids) : \E j \in 1 .. Len(ops) : Candidate(ops, j, ids[i])
    /\ \A i \in 1 .. Len(ids) : \A r \in done : r[1] # ids[i]
    /\ \A i, l \in 1 .. Len(ids) : \A j, k \in 1 .. Len(ops) :
          i < l /\ Candidate(ops, j, ids[i]) /\ Candidate(ops, k, ids[l]) => j < k
    /\ \A j \in 1 .. Len(ops) : ops[j].form = "neuron" =>
          \/ \E i \in 1 .. Len(ids) : ids[i] = ops[j].id
          \/ \E r \in done : r[1] = ops[j].id
Replaced(ops, f, m, n, r) ==
    /\ f < m /\ m < n
    /\ ops[f].form = "fused" /\ ops[f].id = r[2] /\ ops[f].outs = {"spike", "tracer"}
    /\ ops[m].form = "model" /\ ops[m].id = r[2]
    /\ ops[n].form = "neuron" /\ ops[n].id = r[1] /\ ops[n].args[1] = <<r[2], "acc">>
FusedPairs(ops, done) ==
    /\ \A r \in done : \E f, m, n \in 1 .. Len(ops) : Replaced(ops, f, m, n, r)
    /\ \A f \in 1 .. Len(ops) : ops[f].form = "fused" => \E r \in done : r[2] = ops[f].id

FuseForms == {"model", "neuron", "fused"}
FuseOk(ops, values, ids, done) ==
    /\ Sound(ops, values, FuseForms) /\ Distinct(ops) /\ Roled(values, {"arg", "acc", "out"})
    /\ ids \in Seq(Nat) /\ done \subseteq Nat \X Nat
    /\ PairedUp(ops, values) /\ Waiting(ops, ids, done) /\ FusedPairs(ops, done)
FuseInv == FuseOk(ir, ret, todo, replaced)

LEMMA FirstArg ==
  ASSUME NEW o \in IROps, Len(o.args) >= 1
  PROVE  o.args[1] \in ToSet(o.args)
<1>1. 1 \in DOMAIN o.args
  BY OpFields
<1> QED
  BY Zenon, <1>1 DEF ToSet

LEMMA CollectedPairs ==
  ASSUME Sound(ir, ret, {"model", "neuron"}), Unique(ir),
         \A n \in ToSet(NeuronOps) : Pairable(n),
         \A i \in 1 .. Len(ir) : ir[i].form = "neuron" => ir[i] \in ToSet(NeuronOps)
  PROVE  PairedUp(ir, ret)
<1>1. ir \in Seq(IROps) /\ Defined(ir, ret) /\ Len(ir) \in Nat /\ DOMAIN ir = 1 .. Len(ir)
  BY DEF Sound
<1> SUFFICES ASSUME NEW j \in 1 .. Len(ir), ir[j].form = "neuron"
             PROVE  /\ ir[j].args[1][2] = "acc" /\ ir[j].args[1] \notin ToSet(ret)
                    /\ \E k \in 1 .. Len(ir) :
                          /\ ir[k].form = "model" /\ ir[k].id = ir[j].args[1][1]
                          /\ ir[k].kind \in Fusible
                    /\ \A i \in 1 .. Len(ir) : ir[j].args[1] \in ToSet(ir[i].args) => i = j
  BY DEF PairedUp
<1> DEFINE v == ir[j].args[1]
<1>2. Pairable(ir[j])
  OBVIOUS
<1>3. v[2] = "acc" /\ v \notin ToSet(ret)
  BY <1>2 DEF Pairable
<1>4. v \in ToSet(ir[j].args)
  <2>1. Len(ir[j].args) = 1 /\ ir[j] \in IROps
    BY <1>1 DEF Sound, Shaped
  <2> QED
    BY <2>1, FirstArg
<1>5. Resolves(v, ir, j - 1)
  BY Zenon, <1>1, <1>4 DEF Defined
<1>6. PICK k \in 1 .. j - 1 : ir[k].id = v[1] /\ "acc" \in ir[k].outs
  BY Zenon, <1>3, <1>5 DEF Resolves
<1>7. k \in 1 .. Len(ir) /\ At(ir, v[1]) = k
  <2>1. k \in 1 .. Len(ir)
    BY <1>1
  <2> QED
    BY <1>1, <1>6, <2>1, AtUnique DEF Unique
<1>8. /\ ir[k].form = "model" /\ ir[k].kind \in Fusible
      /\ UsedBy(ir, ir[k].id) = {ir[j]}
  <2>1. ir[k].form = "model"
    BY <1>6, <1>7 DEF Sound, Shaped
  <2> QED
    BY <1>2, <1>7, <2>1 DEF Pairable
<1>9. ASSUME NEW i \in 1 .. Len(ir), v \in ToSet(ir[i].args) PROVE i = j
  <2>1. ir[i] \in ToSet(ir)
    BY Zenon, <1>1 DEF ToSet
  <2>2. ir[i] \in UsedBy(ir, ir[k].id)
    BY Zenon, <1>3, <1>6, <1>9, <2>1 DEF UsedBy
  <2>3. ir[i] = ir[j]
    BY Zenon, <1>8, <2>2
  <2> QED
    BY <2>3 DEF Unique
<1> QED
  BY <1>3, <1>6, <1>7, <1>8, <1>9

LEMMA CollectedWaiting ==
  ASSUME Sound(ir, ret, {"model", "neuron"}), Unique(ir)
  PROVE  /\ Ids(NeuronOps) \in Seq(Nat)
         /\ Waiting(ir, Ids(NeuronOps), {})
         /\ \A i \in 1 .. Len(ir) : ir[i].form = "neuron" => ir[i] \in ToSet(NeuronOps)
<1> DEFINE T == {o \in ToSet(ir) : o.form = "neuron"}
           ns == NeuronOps
           ids == Ids(ns)
<1>1. ir \in Seq(IROps) /\ Len(ir) \in Nat /\ DOMAIN ir = 1 .. Len(ir)
  BY DEF Sound
<1>2. \A i \in 1 .. Len(ir) : ir[i] \in T <=> ir[i].form = "neuron"
  BY <1>1 DEF ToSet
<1>3. ns = Among(ir, T)
  BY DEF NeuronOps
<1> HIDE DEF T, ns
<1>4. ns \in Seq(IROps)
  BY <1>1, <1>3, AmongPlaces
<1>5. PICK g \in [1 .. Len(ns) -> 1 .. Len(ir)] : Keeps(ir, T, ns, g)
  BY <1>1, <1>3, AmongPlaces
<1>6. Len(ns) \in Nat /\ Len(ids) = Len(ns) /\ ids \in Seq(Nat)
      /\ \A i \in 1 .. Len(ns) : ids[i] = ns[i].id
  <2>1. \A i \in 1 .. Len(ns) : ns[i].id \in Nat
    BY <1>4, OpFields
  <2> QED
    BY <1>4, <2>1 DEF Ids
<1> HIDE DEF ids
<1>7. \A i \in 1 .. Len(ids) : /\ g[i] \in 1 .. Len(ir) /\ ids[i] = ir[g[i]].id
                               /\ ir[g[i]].form = "neuron" /\ ns[i] = ir[g[i]]
  BY <1>2, <1>5, <1>6 DEF Keeps
<1>8. \A i \in 1 .. Len(ids) : \E j \in 1 .. Len(ir) : Candidate(ir, j, ids[i])
  BY <1>7 DEF Candidate
<1>9. ASSUME NEW i \in 1 .. Len(ids), NEW l \in 1 .. Len(ids),
             NEW j \in 1 .. Len(ir), NEW k \in 1 .. Len(ir),
             i < l, Candidate(ir, j, ids[i]), Candidate(ir, k, ids[l])
      PROVE  j < k
  <2>0. ir[j].id = ir[g[i]].id /\ ir[k].id = ir[g[l]].id
    BY <1>7, <1>9 DEF Candidate
  <2>1. j = g[i] /\ k = g[l]
    BY <1>7, <2>0 DEF Unique
  <2> QED
    BY <1>5, <1>6, <1>9, <2>1 DEF Keeps
<1>10. ASSUME NEW j \in 1 .. Len(ir), ir[j].form = "neuron"
       PROVE  \E i \in 1 .. Len(ids) : ids[i] = ir[j].id /\ ns[i] = ir[j]
  <2>1. PICK i \in 1 .. Len(ns) : g[i] = j
    BY <1>2, <1>5, <1>10 DEF Keeps
  <2> QED
    BY <1>6, <1>7, <2>1
<1>11. Waiting(ir, ids, {})
  BY <1>8, <1>9, <1>10 DEF Waiting
<1>12. ASSUME NEW j \in 1 .. Len(ir), ir[j].form = "neuron"
       PROVE  ir[j] \in ToSet(ns)
  BY <1>4, <1>6, <1>10, <1>12 DEF ToSet
<1> QED
  BY <1>6, <1>11, <1>12 DEF ids, ns

(* The pair of the next candidate.                                          *)
Target(n, k) ==
    /\ n \in 1 .. Len(ir) /\ k \in 1 .. Len(ir) /\ k < n
    /\ ir[n].form = "neuron" /\ ir[n].id = Head(todo) /\ ir[n].args[1] = <<ir[k].id, "acc">>
    /\ ir[k].form = "model" /\ ir[k].kind \in Fusible
    /\ At(ir, Head(todo)) = n /\ At(ir, ir[k].id) = k
    /\ \A r \in replaced : r[1] # ir[n].id /\ r[2] # ir[k].id
    /\ \A j \in 1 .. n : ir[j].form = "neuron" /\ j # n => \E r \in replaced : r[1] = ir[j].id

LEMMA TargetExists ==
  ASSUME FuseInv, todo # <<>>
  PROVE  \E n, k : Target(n, k)
<1>1. /\ ir \in Seq(IROps) /\ Defined(ir, ret) /\ Len(ir) \in Nat /\ DOMAIN ir = 1 .. Len(ir)
      /\ Distinct(ir) /\ todo \in Seq(Nat) /\ PairedUp(ir, ret)
      /\ Waiting(ir, todo, replaced) /\ FusedPairs(ir, replaced)
  BY DEF FuseInv, FuseOk, Sound
<1>2. 1 \in 1 .. Len(todo) /\ Head(todo) = todo[1] /\ Len(todo) \in Nat
  BY <1>1
<1>3. PICK n \in 1 .. Len(ir) : Candidate(ir, n, Head(todo))
  BY <1>1, <1>2 DEF Waiting
<1>4. ir[n].form = "neuron" /\ ir[n].id = Head(todo) /\ ir[n] \in IROps
  BY <1>1, <1>3 DEF Candidate
<1>5. \A j \in 1 .. Len(ir) : ir[j].id = Head(todo) => j = n
  BY <1>1, <1>4 DEF Distinct
<1>6. At(ir, Head(todo)) = n
  BY <1>1, <1>4, <1>5, AtUnique
<1> DEFINE v == ir[n].args[1]
<1>7. /\ v[2] = "acc"
      /\ \A i \in 1 .. Len(ir) : v \in ToSet(ir[i].args) => i = n
  BY <1>1, <1>4 DEF PairedUp
<1>8. PICK k \in 1 .. Len(ir) : ir[k].form = "model" /\ ir[k].id = v[1] /\ ir[k].kind \in Fusible
  BY <1>1, <1>4 DEF PairedUp
<1>9. v \in ToSet(ir[n].args) /\ v = <<ir[k].id, "acc">>
  <2>1. Len(ir[n].args) = 1
    BY <1>1, <1>4 DEF FuseInv, FuseOk, Sound, Shaped
  <2>2. v \in ToSet(ir[n].args)
    BY <1>4, <2>1, FirstArg
  <2>3. v = <<v[1], v[2]>>
    BY <1>4, <2>2, OpFields, PairOf
  <2> QED
    BY <1>7, <1>8, <2>2, <2>3
<1>10. \A r \in replaced : r[1] # ir[n].id
  BY <1>1, <1>2, <1>4 DEF Waiting
<1>11. ASSUME NEW r \in replaced PROVE r[2] # ir[k].id
  <2>1. PICK f, m, l \in 1 .. Len(ir) : Replaced(ir, f, m, l, r)
    BY <1>1 DEF FusedPairs
  <2>2. SUFFICES ASSUME r[2] = ir[k].id PROVE FALSE
    OBVIOUS
  <2>3. ir[l].args[1] = v /\ ir[l].form = "neuron" /\ ir[l].id = r[1]
    BY <1>9, <2>1, <2>2 DEF Replaced
  <2>4. v \in ToSet(ir[l].args)
    <3>1. Len(ir[l].args) = 1 /\ ir[l] \in IROps
      BY <1>1, <2>3 DEF FuseInv, FuseOk, Sound, Shaped
    <3> QED
      BY <2>3, <3>1, FirstArg
  <2>5. l = n
    BY <1>7, <2>4
  <2> QED
    BY <1>10, <2>3, <2>5
<1>12. ASSUME NEW i \in 1 .. Len(ir), ir[i].id = ir[k].id PROVE i = k
  <2>1. CASE ir[i].form = "fused"
    <3>1. PICK r \in replaced : r[2] = ir[i].id
      BY <1>1, <2>1 DEF FusedPairs
    <3> QED
      BY <1>11, <1>12, <3>1
  <2>2. CASE ir[i].form # "fused"
    BY <1>1, <1>8, <1>12, <2>2 DEF Distinct
  <2> QED
    BY <2>1, <2>2
<1>13. At(ir, ir[k].id) = k
  BY <1>1, <1>12, AtUnique
<1>14. k < n
  <2>1. Resolves(v, ir, n - 1)
    BY Zenon, <1>1, <1>9 DEF Defined
  <2>2. PICK j \in 1 .. n - 1 : ir[j].id = v[1]
    BY Zenon, <1>7, <2>1 DEF Resolves
  <2>3. j \in 1 .. Len(ir) /\ j < n
    BY <1>1
  <2> QED
    BY <1>8, <1>12, <2>2, <2>3
<1>15. ASSUME NEW j \in 1 .. n, ir[j].form = "neuron", j # n
       PROVE  \E r \in replaced : r[1] = ir[j].id
  <2>1. j \in 1 .. Len(ir) /\ j < n
    BY <1>1, <1>15
  <2>2. SUFFICES ASSUME NEW i \in 1 .. Len(todo), todo[i] = ir[j].id PROVE FALSE
    BY <1>1, <1>15, <2>1 DEF Waiting
  <2>3. i # 1
    BY <1>2, <1>5, <2>1, <2>2
  <2>4. 1 < i
    BY <1>2, <2>3
  <2>5. Candidate(ir, j, todo[i]) /\ Candidate(ir, n, todo[1])
    BY <1>2, <1>3, <1>15, <2>2 DEF Candidate
  <2>6. n < j
    BY <1>1, <1>2, <2>1, <2>4, <2>5 DEF Waiting
  <2> QED
    BY <1>1, <2>1, <2>6
<1> QED
  BY <1>4, <1>6, <1>8, <1>9, <1>10, <1>11, <1>13, <1>14, <1>15 DEF Target

(* What an operand of a model operation becomes.                            *)
LEMMA SpikeResolves ==
  ASSUME FuseInv, NEW k \in 1 .. Len(ir), ir[k].form = "model",
         \A j \in 1 .. k : ir[j].form = "neuron" => \E r \in replaced : r[1] = ir[j].id,
         NEW v \in ToSet(ir[k].args)
  PROVE  /\ SpikeOf(v) \in Value /\ SpikeOf(v)[2] \in {"arg", "acc", "spike"}
         /\ Resolves(SpikeOf(v), ir, k - 1)
         /\ SpikeOf(v)[2] = "acc" => SpikeOf(v) = v
         /\ FusedFor(v) # {} =>
               /\ SpikeOf(v)[2] = "spike"
               /\ <<SpikeOf(v)[1], "tracer">> \in Value
               /\ Resolves(<<SpikeOf(v)[1], "tracer">>, ir, k - 1)
<1>1. /\ ir \in Seq(IROps) /\ Defined(ir, ret) /\ Len(ir) \in Nat /\ DOMAIN ir = 1 .. Len(ir)
      /\ Distinct(ir) /\ FusedPairs(ir, replaced) /\ replaced \subseteq Nat \X Nat
      /\ ir[k] \in IROps /\ Shaped(ir[k])
  BY DEF FuseInv, FuseOk, Sound
<1>2. v = <<v[1], v[2]>> /\ v \in Value /\ v[2] \in {"arg", "acc", "out"}
  <2>1. v = <<v[1], v[2]>> /\ v[1] \in Nat /\ v[2] \in Roles
    BY <1>1, OpFields, PairOf
  <2>2. v \in Value
    BY <2>1 DEF Value
  <2> QED
    BY <1>1, <2>1, <2>2 DEF Shaped, Roled
<1>3. Resolves(v, ir, k - 1)
  BY Zenon, <1>1 DEF Defined
<1>4. CASE FusedFor(v) = {}
  <2>1. SpikeOf(v) = v
    BY <1>4 DEF SpikeOf
  <2>2. v[2] # "out"
    <3>1. SUFFICES ASSUME v[2] = "out" PROVE FALSE
      OBVIOUS
    <3>2. PICK j \in 1 .. k - 1 : ir[j].id = v[1] /\ "out" \in ir[j].outs
      BY Zenon, <1>3, <3>1 DEF Resolves
    <3>3. j \in 1 .. Len(ir) /\ j \in 1 .. k
      BY <1>1
    <3>4. ir[j].form = "neuron"
      <4>1. ir[j].form \in FuseForms /\ Shaped(ir[j])
        BY <3>3 DEF FuseInv, FuseOk, Sound
      <4> QED
        BY <3>2, <4>1 DEF Shaped, FuseForms
    <3>5. PICK r \in replaced : r[1] = ir[j].id
      BY <3>3, <3>4
    <3>6. r \in FusedFor(v)
      BY <1>2, <3>1, <3>2, <3>5 DEF FusedFor
    <3> QED
      BY <1>4, <3>6
  <2> QED
    BY <1>2, <1>3, <1>4, <2>1, <2>2
<1>5. CASE FusedFor(v) # {}
  <2>1. PICK r : r \in FusedFor(v) /\ SpikeOf(v) = <<r[2], "spike">>
    BY <1>5 DEF SpikeOf
  <2>2. r \in replaced /\ v = <<r[1], "out">> /\ r[2] \in Nat
    BY <1>1, <2>1 DEF FusedFor
  <2>3. PICK f, m, n \in 1 .. Len(ir) : Replaced(ir, f, m, n, r)
    BY <1>1, <2>2 DEF FusedPairs
  <2>4. PICK j \in 1 .. k - 1 : ir[j].id = v[1] /\ "out" \in ir[j].outs
    BY Zenon, <1>2, <1>3, <2>2 DEF Resolves
  <2>5. j \in 1 .. Len(ir) /\ j < k
    BY <1>1
  <2>6. j = n
    BY <1>1, <2>2, <2>3, <2>4, <2>5 DEF Distinct, Replaced
  <2>7. f \in 1 .. k - 1 /\ ir[f].id = r[2] /\ ir[f].outs = {"spike", "tracer"}
    BY <1>1, <2>3, <2>5, <2>6 DEF Replaced
  <2>8. Resolves(<<r[2], "spike">>, ir, k - 1) /\ Resolves(<<r[2], "tracer">>, ir, k - 1)
    BY <2>7 DEF Resolves
  <2> QED
    BY <2>1, <2>2, <2>8 DEF Value, Roles
<1> QED
  BY <1>4, <1>5

TwoPairs(s, X, a, b, c, d) ==
    s \in Seq(Seq(X)) /\ Len(s) = 2 /\ s[1] = <<a, b>> /\ s[2] = <<c, d>>

LEMMA FlattenTwo ==
  ASSUME NEW X, NEW a \in X, NEW b \in X, NEW c \in X, NEW d \in X,
         NEW s, TwoPairs(s, X, a, b, c, d)
  PROVE  FlattenSeq(s) = <<a, b, c, d>>
<1> DEFINE t == FlattenSeq(s)
<1>0. s \in Seq(Seq(X)) /\ Len(s) = 2 /\ s[1] = <<a, b>> /\ s[2] = <<c, d>>
  BY DEF TwoPairs
<1>1. t \in Seq(X)
  BY <1>0, FlattenBlocks
<1>2. PICK base \in [0 .. Len(s) -> Nat] : Blocks(s, base)
  BY <1>0, FlattenBlocks
<1> HIDE DEF t
<1>3. base[0] = 0 /\ base[1] = 2 /\ base[2] = 4 /\ Len(t) = base[2]
  <2>1. Len(s[1]) = 2 /\ Len(s[2]) = 2
    BY <1>0
  <2>2. base[0] = 0 /\ base[1] = base[0] + Len(s[1]) /\ base[2] = base[1] + Len(s[2])
        /\ Len(t) = base[2]
    <3>1. /\ base[0] = 0 /\ Len(t) = base[Len(s)]
          /\ \A i \in 1 .. Len(s) : base[i] = base[i - 1] + Len(s[i])
      BY Zenon, <1>2 DEF Blocks, t
    <3>2. 1 \in 1 .. Len(s) /\ 2 \in 1 .. Len(s) /\ 1 - 1 = 0 /\ 2 - 1 = 1
      BY <1>0
    <3> QED
      BY <1>0, <3>1, <3>2
  <2> QED
    BY <2>1, <2>2
<1>4. \A i \in 1 .. 2 : \A j \in 1 .. 2 : t[base[i - 1] + j] = s[i][j]
  <2>1. \A i \in 1 .. Len(s) : \A j \in 1 .. Len(s[i]) : t[base[i - 1] + j] = s[i][j]
    BY Zenon, <1>2 DEF Blocks, t
  <2>2. \A i \in 1 .. 2 : i \in 1 .. Len(s) /\ Len(s[i]) = 2
    BY <1>0
  <2> QED
    BY Zenon, <2>1, <2>2
<1>5. t[1] = a /\ t[2] = b /\ t[3] = c /\ t[4] = d
  <2>1. t[base[0] + 1] = s[1][1] /\ t[base[0] + 2] = s[1][2]
        /\ t[base[1] + 1] = s[2][1] /\ t[base[1] + 2] = s[2][2]
    BY <1>4
  <2> QED
    BY <1>0, <1>3, <2>1
<1>6. t = <<a, b, c, d>>
  BY <1>0, <1>1, <1>3, <1>5
<1> QED
  BY <1>6 DEF t

FusedFrom(new, o, args, outs) ==
    new = [o EXCEPT !.form = "fused", !.args = args, !.outs = outs]

Made(new, o, args, outs) ==
    /\ new \in IROps /\ new.id = o.id /\ new.form = "fused" /\ new.kind = o.kind
    /\ new.args = args /\ new.outs = outs
Makes(o, args, outs) == o \in IROps /\ args \in Seq(Value) /\ outs \subseteq Roles

LEMMA OpMade ==
  ASSUME NEW o, NEW args, NEW outs, Makes(o, args, outs), NEW new, FusedFrom(new, o, args, outs)
  PROVE  Made(new, o, args, outs)
<1> DEFINE R == [id |-> o.id, form |-> "fused", kind |-> o.kind, params |-> o.params,
                 scale |-> o.scale, td |-> o.td, args |-> args, outs |-> outs]
<1>1. new = R
  BY DEF IROps, Operations, FusedFrom, Makes
<1>2. /\ R.id = o.id /\ R.form = "fused" /\ R.kind = o.kind /\ R.args = args /\ R.outs = outs
  OBVIOUS
<1>3. R \in IROps
  BY DEF IROps, Operations, Value, Makes
<1> QED
  BY <1>1, <1>2, <1>3 DEF Made

(* The operands of a fused operation.                                       *)
LEMMA FusedArgs ==
  ASSUME FuseInv, NEW k \in 1 .. Len(ir), ir[k].form = "model", ir[k].kind \in Fusible,
         \A j \in 1 .. k : ir[j].form = "neuron" => \E r \in replaced : r[1] = ir[j].id,
         ir[k].kind \in Attention => \A v \in ToSet(ir[k].args) : FusedFor(v) # {},
         NEW new, new = [ir[k] EXCEPT !.form = "fused", !.args = FusedOperands(ir[k]),
                                      !.outs = {"spike", "tracer"}]
  PROVE  /\ new \in IROps /\ Shaped(new) /\ new.id = ir[k].id /\ new.form = "fused"
         /\ new.outs = {"spike", "tracer"}
         /\ Roled(new.args, {"arg", "acc", "spike", "tracer"})
         /\ \A w \in ToSet(new.args) :
               /\ Resolves(w, ir, k - 1)
               /\ w[2] = "acc" => w \in ToSet(ir[k].args)
<1> DEFINE vs == ir[k].args
           args == FusedOperands(ir[k])
<1>1. /\ ir \in Seq(IROps) /\ ir[k] \in IROps /\ Shaped(ir[k]) /\ vs \in Seq(Value)
      /\ Len(vs) = Arity(ir[k].kind) /\ Len(vs) \in Nat
  <2>1. ir \in Seq(IROps) /\ ir[k] \in IROps /\ Shaped(ir[k])
    BY DEF FuseInv, FuseOk, Sound
  <2>2. vs \in Seq(Value)
    BY <2>1, OpFields
  <2> QED
    BY <2>1, <2>2 DEF Shaped
<1>2. \A i \in 1 .. Len(vs) : vs[i] \in ToSet(vs)
  BY <1>1 DEF ToSet
<1>3. \A i \in 1 .. Len(vs) :
         LET w == SpikeOf(vs[i])
         IN  /\ w \in Value /\ w[2] \in {"arg", "acc", "spike"} /\ Resolves(w, ir, k - 1)
             /\ w[2] = "acc" => w = vs[i]
             /\ FusedFor(vs[i]) # {} =>
                   w[2] = "spike" /\ <<w[1], "tracer">> \in Value
                   /\ Resolves(<<w[1], "tracer">>, ir, k - 1)
  BY <1>2, SpikeResolves
<1>4. \A i \in 1 .. Len(vs) :
         /\ SpikeOf(vs[i]) \in Value /\ SpikeOf(vs[i])[2] \in {"arg", "acc", "spike"}
         /\ Resolves(SpikeOf(vs[i]), ir, k - 1)
         /\ SpikeOf(vs[i])[2] = "acc" => SpikeOf(vs[i]) \in ToSet(vs)
  BY <1>2, <1>3
<1>5. /\ args \in Seq(Value)
      /\ \A w \in ToSet(args) : /\ Resolves(w, ir, k - 1)
                                /\ w[2] \in {"arg", "acc", "spike", "tracer"}
                                /\ w[2] = "acc" => w \in ToSet(vs)
      /\ ir[k].kind \in Attention =>
            /\ Len(args) = 4
            /\ \A i \in {1, 3} : args[i][2] = "spike" /\ args[i + 1] = <<args[i][1], "tracer">>
      /\ ir[k].kind \notin Attention =>
            Len(args) = Len(vs) /\ \A w \in ToSet(args) : w[2] \in {"arg", "acc", "spike"}
  <2>1. CASE ir[k].kind \notin Attention
    <3>1. args = [i \in 1 .. Len(vs) |-> SpikeOf(vs[i])]
      BY <2>1 DEF FusedOperands
    <3>2. args \in Seq(Value) /\ Len(args) = Len(vs)
          /\ \A i \in 1 .. Len(vs) : args[i] = SpikeOf(vs[i])
      BY <1>1, <1>4, <3>1
    <3> HIDE DEF args, vs
    <3>3. ASSUME NEW w \in ToSet(args)
          PROVE  /\ Resolves(w, ir, k - 1) /\ w[2] \in {"arg", "acc", "spike"}
                 /\ w[2] = "acc" => w \in ToSet(vs)
      <4>1. PICK i \in 1 .. Len(vs) : args[i] = w
        BY <3>2, PassSet
      <4> QED
        BY <1>4, <3>2, <4>1
    <3> QED
      BY <2>1, <3>2, <3>3
  <2>2. CASE ir[k].kind \in Attention
    <3>1. Len(vs) = 2
      BY <1>1, <2>2 DEF Arity
    <3> DEFINE s(i) == SpikeOf(vs[i])
               t(i) == <<SpikeOf(vs[i])[1], "tracer">>
               two == [i \in 1 .. Len(vs) |-> <<s(i), t(i)>>]
    <3>2. \A i \in 1 .. 2 : /\ s(i) \in Value /\ t(i) \in Value /\ s(i)[2] = "spike"
                            /\ Resolves(s(i), ir, k - 1) /\ Resolves(t(i), ir, k - 1)
      BY <1>2, <1>3, <2>2, <3>1
    <3>3. args = FlattenSeq(two)
      BY <2>2 DEF FusedOperands
    <3>4. \A i \in 1 .. 2 : t(i) = <<s(i)[1], "tracer">>
      OBVIOUS
    <3> HIDE DEF s, t, args
    <3>5. two \in Seq(Seq(Value)) /\ Len(two) = 2 /\ two[1] = <<s(1), t(1)>> /\ two[2] = <<s(2), t(2)>>
      BY <3>1, <3>2
    <3> HIDE DEF two
    <3>6. args = <<s(1), t(1), s(2), t(2)>>
      <4>1. PICK a \in Value, b \in Value, c \in Value, d \in Value :
                a = s(1) /\ b = t(1) /\ c = s(2) /\ d = t(2)
        BY <3>2
      <4>2. TwoPairs(two, Value, a, b, c, d)
        BY <3>5, <4>1 DEF TwoPairs
      <4>3. FlattenSeq(two) = <<a, b, c, d>>
        BY <4>2, FlattenTwo
      <4> QED
        BY <3>3, <4>1, <4>3
    <3>7. args \in Seq(Value) /\ Len(args) = 4 /\ args[1] = s(1) /\ args[2] = t(1)
          /\ args[3] = s(2) /\ args[4] = t(2)
      BY <3>2, <3>6
    <3>8. ASSUME NEW w \in ToSet(args)
          PROVE  Resolves(w, ir, k - 1) /\ w[2] \in {"spike", "tracer"}
      <4>1. PICK i \in 1 .. 4 : args[i] = w
        BY <3>7, PassSet
      <4>2. w = s(1) \/ w = t(1) \/ w = s(2) \/ w = t(2)
        BY <3>7, <4>1
      <4> QED
        BY <3>2, <3>4, <4>2
    <3>9. \A w \in ToSet(args) :
             /\ Resolves(w, ir, k - 1) /\ w[2] \in {"arg", "acc", "spike", "tracer"}
             /\ w[2] = "acc" => w \in ToSet(vs)
      BY <3>8
    <3> QED
      BY <2>2, <3>2, <3>4, <3>7, <3>9
  <2> QED
    BY <2>1, <2>2
<1> HIDE DEF args
<1>6. /\ new \in IROps /\ new.id = ir[k].id /\ new.form = "fused" /\ new.kind = ir[k].kind
      /\ new.args = args /\ new.outs = {"spike", "tracer"}
  <2>1. new = [ir[k] EXCEPT !.form = "fused", !.args = args, !.outs = {"spike", "tracer"}]
    BY DEF args
  <2>2. {"spike", "tracer"} \in SUBSET Roles
    BY DEF Roles
  <2>3. FusedFrom(new, ir[k], args, {"spike", "tracer"})
    BY Zenon, <2>1 DEF FusedFrom
  <2>4. Makes(ir[k], args, {"spike", "tracer"})
    BY <1>1, <1>5, <2>2 DEF Makes
  <2>5. Made(new, ir[k], args, {"spike", "tracer"})
    BY Zenon, <2>3, <2>4, OpMade
  <2> QED
    BY Zenon, <2>5 DEF Made
<1>7. /\ Roled(args, {"arg", "acc", "spike", "tracer"})
      /\ ir[k].kind \in Attention => Paired(new)
      /\ ir[k].kind \notin Attention => Len(args) = Len(vs)
                                         /\ Roled(args, {"arg", "acc", "spike"})
  <2>1. ASSUME ir[k].kind \in Attention PROVE Paired(new)
    <3>1. new.args = args
      BY <1>6
    <3>2. Len(args) = 4 /\ \A i \in {1, 3} : args[i][2] = "spike"
                                            /\ args[i + 1] = <<args[i][1], "tracer">>
      BY Zenon, <1>5, <2>1
    <3>3. Len(new.args) = 4 /\ \A i \in {1, 3} : new.args[i][2] = "spike"
                                     /\ new.args[i + 1] = <<new.args[i][1], "tracer">>
      BY <3>1, <3>2
    <3> QED
      BY Zenon, <3>3 DEF Paired
  <2> HIDE DEF vs
  <2>2. Roled(args, {"arg", "acc", "spike", "tracer"})
    BY <1>5 DEF Roled
  <2>3. ir[k].kind \notin Attention => Len(args) = Len(vs)
                                       /\ Roled(args, {"arg", "acc", "spike"})
    BY <1>5 DEF Roled
  <2> QED
    BY Zenon, <2>1, <2>2, <2>3
<1>8. Shaped(new)
  <2>1. new.form \notin {"model", "neuron"} /\ new.outs \subseteq {"spike", "tracer"}
    BY <1>6
  <2>2. ir[k].kind \notin Attention =>
          Len(new.args) = Arity(new.kind) /\ Roled(new.args, {"arg", "acc", "spike"})
    BY Zenon, <1>1, <1>6, <1>7
  <2>3. new.kind \in Fusible /\ (new.kind \in Attention => Paired(new))
    BY Zenon, <1>6, <1>7
  <2>4. /\ new.form = "neuron" => new.outs = {"out"} /\ Len(new.args) = 1
        /\ new.form = "model" => new.outs = {"acc"}
        /\ new.form = "model" /\ new.kind \in Fusible => Len(new.args) = Arity(new.kind)
        /\ new.form \in {"model", "neuron"} => Roled(new.args, {"arg", "acc", "out"})
    BY Zenon, <2>1
  <2>5. /\ new.outs \subseteq {"spike", "tracer"} /\ new.kind \in Fusible
        /\ new.kind \in Attention => Paired(new)
        /\ new.kind \notin Attention =>
              Len(new.args) = Arity(new.kind) /\ Roled(new.args, {"arg", "acc", "spike"})
    BY Zenon, <1>6, <2>1, <2>2, <2>3
  <2> QED
    BY Zenon, <2>4, <2>5 DEF Shaped
<1>9. \A w \in ToSet(new.args) : /\ Resolves(w, ir, k - 1)
                                 /\ w[2] = "acc" => w \in ToSet(vs)
  <2> HIDE DEF vs
  <2>1. \A w \in ToSet(args) : Resolves(w, ir, k - 1) /\ (w[2] = "acc" => w \in ToSet(vs))
    BY <1>5
  <2>2. new.args = args
    BY <1>6
  <2> QED
    BY Zenon, <2>1, <2>2
<1>10. Roled(new.args, {"arg", "acc", "spike", "tracer"})
  BY Zenon, <1>6, <1>7
<1> QED
  BY Zenon, <1>6, <1>8, <1>9, <1>10


(* t is s with e put before its k-th operation.                             *)
Shift(k, i) == IF i < k THEN i ELSE i + 1
InsertedAt(s, t, k, e) ==
    /\ s \in Seq(IROps) /\ t \in Seq(IROps) /\ k \in 1 .. Len(s) /\ Len(t) = Len(s) + 1
    /\ t[k] = e
    /\ \A i \in 1 .. Len(s) : t[Shift(k, i)] = s[i]

LEMMA InsertedFacts ==
  ASSUME NEW s, NEW t, NEW k, NEW e, InsertedAt(s, t, k, e)
  PROVE  /\ Len(s) \in Nat /\ k \in 1 .. Len(t) /\ DOMAIN t = 1 .. Len(t) /\ DOMAIN s = 1 .. Len(s)
         /\ \A i \in 1 .. Len(s) : Shift(k, i) \in 1 .. Len(t) /\ Shift(k, i) # k
         /\ \A i, j \in 1 .. Len(s) : i < j => Shift(k, i) < Shift(k, j)
         /\ \A i, j \in 1 .. Len(s) : Shift(k, i) < Shift(k, j) => i < j
         /\ \A i \in 1 .. Len(s) : i < k => Shift(k, i) < k
         /\ \A i \in 1 .. Len(s) : ~ (i < k) => k < Shift(k, i)
         /\ \A i \in 1 .. Len(s) : i <= Shift(k, i)
         /\ \A j \in 1 .. Len(t) : j = k \/ \E i \in 1 .. Len(s) : j = Shift(k, i)
<1>1. /\ s \in Seq(IROps) /\ t \in Seq(IROps) /\ k \in 1 .. Len(s) /\ Len(t) = Len(s) + 1
  BY DEF InsertedAt
<1>2. Len(s) \in Nat /\ DOMAIN t = 1 .. Len(t) /\ DOMAIN s = 1 .. Len(s)
  BY <1>1
<1>3. ASSUME NEW j \in 1 .. Len(t), j # k PROVE \E i \in 1 .. Len(s) : j = Shift(k, i)
  <2>1. CASE j < k
    <3>1. j \in 1 .. Len(s) /\ j = Shift(k, j)
      BY <1>1, <1>2, <2>1 DEF Shift
    <3> QED
      BY Zenon, <3>1
  <2>2. CASE k < j
    <3>1. j - 1 \in 1 .. Len(s) /\ j = Shift(k, j - 1)
      BY <1>1, <1>2, <2>2 DEF Shift
    <3> QED
      BY Zenon, <3>1
  <2> QED
    BY <1>1, <1>2, <1>3, <2>1, <2>2
<1> QED
  BY <1>1, <1>2, <1>3 DEF Shift

LEMMA ResolvesInserted ==
  ASSUME NEW s, NEW t, NEW k, NEW e, InsertedAt(s, t, k, e), NEW v,
         NEW b \in 0 .. Len(s), NEW c \in Nat,
         Resolves(v, s, b), \A i \in 1 .. b : Shift(k, i) <= c
  PROVE  Resolves(v, t, c)
<1>1. CASE v[2] = "arg"
  BY <1>1 DEF Resolves
<1>2. CASE v[2] # "arg"
  <2>1. PICK j \in 1 .. b : s[j].id = v[1] /\ v[2] \in s[j].outs
    BY Zenon, <1>2 DEF Resolves
  <2>2. Len(s) \in Nat /\ j \in 1 .. Len(s) /\ Shift(k, j) \in 1 .. Len(t) /\ Len(t) \in Nat
    <3>1. Len(s) \in Nat /\ Len(t) \in Nat
      BY DEF InsertedAt
    <3>2. j \in 1 .. Len(s)
      BY <3>1
    <3> QED
      BY <3>1, <3>2, InsertedFacts
  <2>3. Shift(k, j) \in 1 .. c
    BY <2>2
  <2>4. t[Shift(k, j)] = s[j]
    BY <2>2 DEF InsertedAt
  <2>5. t[Shift(k, j)].id = v[1] /\ v[2] \in t[Shift(k, j)].outs
    BY <2>1, <2>4
  <2> QED
    BY Zenon, <2>3, <2>5 DEF Resolves
<1> QED
  BY <1>1, <1>2

LEMMA InsertedDefined ==
  ASSUME NEW s, NEW t, NEW k, NEW e, InsertedAt(s, t, k, e), NEW values,
         Defined(s, values), \A w \in ToSet(e.args) : Resolves(w, s, k - 1)
  PROVE  Defined(t, values)
<1>1. /\ Len(s) \in Nat /\ k \in 1 .. Len(t) /\ DOMAIN t = 1 .. Len(t) /\ DOMAIN s = 1 .. Len(s)
      /\ \A i \in 1 .. Len(s) : Shift(k, i) \in 1 .. Len(t)
      /\ \A i, j \in 1 .. Len(s) : i < j => Shift(k, i) < Shift(k, j)
      /\ \A i \in 1 .. Len(s) : i < k => Shift(k, i) < k
      /\ \A j \in 1 .. Len(t) : j = k \/ \E i \in 1 .. Len(s) : j = Shift(k, i)
  BY InsertedFacts
<1>2. k \in 1 .. Len(s) /\ Len(t) = Len(s) + 1
  BY DEF InsertedAt
<1>3. ASSUME NEW j \in 1 .. Len(t), NEW v \in ToSet(t[j].args)
      PROVE  Resolves(v, t, j - 1)
  <2>1. CASE j = k
    <3>1. Resolves(v, s, k - 1)
      BY <1>3, <2>1 DEF InsertedAt
    <3>2. k - 1 \in 0 .. Len(s) /\ k - 1 \in Nat /\ \A i \in 1 .. k - 1 : Shift(k, i) <= k - 1
      BY <1>1, <1>2 DEF Shift
    <3> QED
      BY <2>1, <3>1, <3>2, ResolvesInserted
  <2>2. CASE j # k
    <3>1. PICK i \in 1 .. Len(s) : j = Shift(k, i)
      BY <1>1, <2>2
    <3>2. v \in ToSet(s[i].args)
      BY <1>3, <3>1 DEF InsertedAt
    <3>3. Resolves(v, s, i - 1)
      BY Zenon, <1>1, <3>2 DEF Defined
    <3>4. i - 1 \in 0 .. Len(s) /\ j - 1 \in Nat /\ \A m \in 1 .. i - 1 : Shift(k, m) <= j - 1
      BY <1>1, <1>2, <3>1 DEF Shift
    <3> QED
      BY <3>3, <3>4, ResolvesInserted
  <2> QED
    BY <2>1, <2>2
<1>4. ASSUME NEW v \in ToSet(values) PROVE Resolves(v, t, Len(t))
  <2>1. Resolves(v, s, Len(s))
    BY Zenon DEF Defined
  <2>2. Len(s) \in 0 .. Len(s) /\ Len(t) \in Nat /\ \A i \in 1 .. Len(s) : Shift(k, i) <= Len(t)
    BY <1>1, <1>2
  <2> QED
    BY <2>1, <2>2, ResolvesInserted
<1> QED
  BY Zenon, <1>1, <1>3, <1>4 DEF Defined

(* What the step leaves, for a fused operation e of the pair n, k.          *)
Fuses(t, n, k, e) ==
    /\ Target(n, k) /\ InsertedAt(ir, t, k, e)
    /\ Shaped(e) /\ e.id = ir[k].id /\ e.form = "fused" /\ e.outs = {"spike", "tracer"}
    /\ \A w \in ToSet(e.args) :
          /\ Resolves(w, ir, k - 1)
          /\ w[2] = "acc" => w \in ToSet(ir[k].args)
(* The same position by position.                                          *)
Told(t, n, k, e) ==
    /\ ir \in Seq(IROps) /\ t \in Seq(IROps) /\ Len(ir) \in Nat /\ Len(t) = Len(ir) + 1
    /\ k \in 1 .. Len(ir) /\ n \in 1 .. Len(ir) /\ k < n /\ k \in 1 .. Len(t)
    /\ t[k] = e /\ \A i \in 1 .. Len(ir) : t[Shift(k, i)] = ir[i]
    /\ \A i \in 1 .. Len(ir) : Shift(k, i) \in 1 .. Len(t) /\ Shift(k, i) # k
    /\ \A i, j \in 1 .. Len(ir) : i < j => Shift(k, i) < Shift(k, j)
    /\ \A i, j \in 1 .. Len(ir) : Shift(k, i) < Shift(k, j) => i < j
    /\ \A j \in 1 .. Len(t) : j = k \/ \E i \in 1 .. Len(ir) : j = Shift(k, i)
    /\ ir[k].form = "model" /\ ir[n].form = "neuron" /\ ir[n].id = Head(todo)
    /\ ir[n].args[1] = <<ir[k].id, "acc">>
    /\ e.id = ir[k].id /\ e.form = "fused" /\ e.outs = {"spike", "tracer"}

LEMMA FusesTells ==
  ASSUME FuseInv, NEW t, NEW n, NEW k, NEW e, Fuses(t, n, k, e)
  PROVE  Told(t, n, k, e)
<1>1. InsertedAt(ir, t, k, e) /\ Target(n, k)
  BY DEF Fuses
<1>2. InsertedAt(ir, t, k, e) => /\ ir \in Seq(IROps) /\ t \in Seq(IROps) /\ k \in 1 .. Len(ir)
                                 /\ Len(t) = Len(ir) + 1 /\ t[k] = e
                                 /\ \A i \in 1 .. Len(ir) : t[Shift(k, i)] = ir[i]
  BY Zenon DEF InsertedAt
<1>3. /\ Len(ir) \in Nat /\ k \in 1 .. Len(t)
      /\ \A i \in 1 .. Len(ir) : Shift(k, i) \in 1 .. Len(t) /\ Shift(k, i) # k
      /\ \A i, j \in 1 .. Len(ir) : i < j => Shift(k, i) < Shift(k, j)
      /\ \A i, j \in 1 .. Len(ir) : Shift(k, i) < Shift(k, j) => i < j
      /\ \A j \in 1 .. Len(t) : j = k \/ \E i \in 1 .. Len(ir) : j = Shift(k, i)
  BY <1>1, InsertedFacts
<1> QED
  BY Zenon, <1>1, <1>2, <1>3 DEF Fuses, Target, Told

LEMMA FuseSound ==
  ASSUME FuseInv, NEW t, NEW n, NEW k, NEW e, Fuses(t, n, k, e)
  PROVE  Sound(t, ret, FuseForms)
<1>1. /\ t \in Seq(IROps) /\ t[k] = e /\ \A i \in 1 .. Len(ir) : t[Shift(k, i)] = ir[i]
      /\ \A j \in 1 .. Len(t) : j = k \/ \E i \in 1 .. Len(ir) : j = Shift(k, i)
  <2>1. Told(t, n, k, e)
    BY Zenon, FusesTells
  <2> QED
    BY Zenon, <2>1 DEF Told
<1>2. /\ ret \in Seq(Value) /\ Defined(ir, ret)
      /\ \A i \in 1 .. Len(ir) : Shaped(ir[i]) /\ ir[i].form \in FuseForms
  BY DEF FuseInv, FuseOk, Sound
<1>3. InsertedAt(ir, t, k, e) /\ \A w \in ToSet(e.args) : Resolves(w, ir, k - 1)
  BY DEF Fuses
<1>4. Defined(t, ret)
  BY Zenon, <1>2, <1>3, InsertedDefined
<1>5. Shaped(e) /\ e.form \in FuseForms
  BY DEF Fuses, FuseForms
<1>6. ASSUME NEW j \in 1 .. Len(t) PROVE Shaped(t[j]) /\ t[j].form \in FuseForms
  <2>1. CASE j = k
    BY Zenon, <1>1, <1>5, <2>1
  <2>2. CASE j # k
    <3>1. PICK i \in 1 .. Len(ir) : j = Shift(k, i)
      BY Zenon, <1>1, <2>2
    <3>2. t[j] = ir[i]
      BY Zenon, <1>1, <3>1
    <3> QED
      BY Zenon, <1>2, <3>2
  <2> QED
    BY Zenon, <2>1, <2>2
<1> QED
  BY Zenon, <1>1, <1>2, <1>4, <1>6 DEF Sound

LEMMA FuseDistinct ==
  ASSUME FuseInv, NEW t, NEW n, NEW k, NEW e, Fuses(t, n, k, e)
  PROVE  Distinct(t)
<1>1. /\ ir \in Seq(IROps) /\ Len(ir) \in Nat /\ Len(t) = Len(ir) + 1 /\ k \in 1 .. Len(ir)
      /\ t[k] = e /\ \A i \in 1 .. Len(ir) : t[Shift(k, i)] = ir[i]
      /\ \A i, j \in 1 .. Len(ir) : Shift(k, i) < Shift(k, j) => i < j
      /\ \A j \in 1 .. Len(t) : j = k \/ \E i \in 1 .. Len(ir) : j = Shift(k, i)
      /\ ir[k].form = "model" /\ e.id = ir[k].id /\ e.form = "fused"
  <2>1. Told(t, n, k, e)
    BY Zenon, FusesTells
  <2> QED
    BY Zenon, <2>1 DEF Told
<1>2. Distinct(ir) /\ FusedPairs(ir, replaced)
  BY DEF FuseInv, FuseOk
<1>3. \A r \in replaced : r[2] # ir[k].id
  BY DEF Fuses, Target
<1> SUFFICES ASSUME NEW a \in 1 .. Len(t), NEW b \in 1 .. Len(t), a < b, t[a].id = t[b].id
             PROVE  t[a].form = "fused" /\ t[b].form = "model"
  BY DEF Distinct
<1>4. CASE a # k /\ b # k
  <2>1. PICK i \in 1 .. Len(ir) : a = Shift(k, i)
    BY Zenon, <1>1, <1>4
  <2>2. PICK j \in 1 .. Len(ir) : b = Shift(k, j)
    BY Zenon, <1>1, <1>4
  <2>3. t[a] = ir[i] /\ t[b] = ir[j] /\ i < j
    BY Zenon, <1>1, <2>1, <2>2
  <2>4. ir[i].id = ir[j].id
    BY Zenon, <2>3
  <2>5. ir[i].form = "fused" /\ ir[j].form = "model"
    BY Zenon, <1>2, <2>3, <2>4 DEF Distinct
  <2> QED
    BY Zenon, <2>3, <2>5
<1>5. CASE a = k
  <2>1. b # k
    BY <1>5
  <2>2. PICK j \in 1 .. Len(ir) : b = Shift(k, j)
    BY Zenon, <1>1, <2>1
  <2>3. t[a] = e /\ t[b] = ir[j] /\ ir[j].id = ir[k].id
    <3>1. t[a] = e /\ t[b] = ir[j]
      BY Zenon, <1>1, <1>5, <2>2
    <3>2. t[a].id = t[b].id
      OBVIOUS
    <3> QED
      BY Zenon, <1>1, <3>1, <3>2
  <2>4. j = k \/ k < j
    BY <1>1, <1>5, <2>2 DEF Shift
  <2>5. ~ (k < j)
    <3>1. SUFFICES ASSUME k < j PROVE FALSE
      OBVIOUS
    <3>2. ir[k].form = "fused"
      BY <1>1, <1>2, <2>3, <3>1 DEF Distinct
    <3> QED
      BY <1>1, <3>2
  <2>6. t[b] = ir[k]
    BY Zenon, <2>3, <2>4, <2>5
  <2> QED
    BY <1>1, <2>3, <2>6
<1>6. CASE b = k
  <2>1. a # k
    BY <1>6
  <2>2. PICK i \in 1 .. Len(ir) : a = Shift(k, i)
    BY Zenon, <1>1, <2>1
  <2>3. t[b] = e /\ t[a] = ir[i] /\ ir[i].id = ir[k].id
    <3>1. t[b] = e /\ t[a] = ir[i]
      BY Zenon, <1>1, <1>6, <2>2
    <3>2. t[a].id = t[b].id
      OBVIOUS
    <3> QED
      BY Zenon, <1>1, <3>1, <3>2
  <2>4. i < k
    BY <1>1, <1>6, <2>2 DEF Shift
  <2>5. ir[i].form = "fused"
    BY <1>1, <1>2, <2>3, <2>4 DEF Distinct
  <2>6. PICK r \in replaced : r[2] = ir[i].id
    BY Zenon, <1>2, <2>5 DEF FusedPairs
  <2> QED
    BY Zenon, <1>3, <2>3, <2>6
<1> QED
  BY <1>4, <1>5, <1>6

LEMMA FusePairedUp ==
  ASSUME FuseInv, NEW t, NEW n, NEW k, NEW e, Fuses(t, n, k, e)
  PROVE  PairedUp(t, ret)
<1>1. /\ k \in 1 .. Len(ir) /\ t[k] = e /\ \A i \in 1 .. Len(ir) : t[Shift(k, i)] = ir[i]
      /\ \A i \in 1 .. Len(ir) : Shift(k, i) \in 1 .. Len(t)
      /\ \A j \in 1 .. Len(t) : j = k \/ \E i \in 1 .. Len(ir) : j = Shift(k, i)
      /\ ir[k].form = "model" /\ e.form = "fused"
  <2>1. Told(t, n, k, e)
    BY Zenon, FusesTells
  <2> QED
    BY Zenon, <2>1 DEF Told
<1>2. PairedUp(ir, ret)
  BY DEF FuseInv, FuseOk
<1>3. \A w \in ToSet(e.args) : w[2] = "acc" => w \in ToSet(ir[k].args)
  BY DEF Fuses
<1> SUFFICES ASSUME NEW b \in 1 .. Len(t), t[b].form = "neuron"
             PROVE  /\ t[b].args[1][2] = "acc" /\ t[b].args[1] \notin ToSet(ret)
                    /\ \E m \in 1 .. Len(t) : /\ t[m].form = "model" /\ t[m].id = t[b].args[1][1]
                                              /\ t[m].kind \in Fusible
                    /\ \A i \in 1 .. Len(t) : t[b].args[1] \in ToSet(t[i].args) => i = b
  BY DEF PairedUp
<1>4. b # k
  BY <1>1
<1>5. PICK j \in 1 .. Len(ir) : b = Shift(k, j)
  BY Zenon, <1>1, <1>4
<1>6. t[b] = ir[j]
  BY Zenon, <1>1, <1>5
<1>7. ir[j].form = "neuron"
  BY Zenon, <1>6
<1>8. /\ ir[j].args[1][2] = "acc" /\ ir[j].args[1] \notin ToSet(ret)
      /\ \A i \in 1 .. Len(ir) : ir[j].args[1] \in ToSet(ir[i].args) => i = j
  BY Zenon, <1>2, <1>7 DEF PairedUp
<1>9. PICK m \in 1 .. Len(ir) : /\ ir[m].form = "model" /\ ir[m].id = ir[j].args[1][1]
                                /\ ir[m].kind \in Fusible
  BY Zenon, <1>2, <1>7 DEF PairedUp
<1>10. Shift(k, m) \in 1 .. Len(t) /\ t[Shift(k, m)] = ir[m]
  BY Zenon, <1>1
<1>11. ASSUME NEW i \in 1 .. Len(t), ir[j].args[1] \in ToSet(t[i].args) PROVE i = b
  <2>1. i # k
    <3>1. SUFFICES ASSUME i = k PROVE FALSE
      OBVIOUS
    <3>2. ir[j].args[1] \in ToSet(e.args)
      BY Zenon, <1>1, <1>11, <3>1
    <3>3. ir[j].args[1] \in ToSet(ir[k].args)
      BY Zenon, <1>3, <1>8, <3>2
    <3>4. k = j
      BY Zenon, <1>1, <1>8, <3>3
    <3> QED
      BY <1>1, <1>7, <3>4
  <2>2. PICK l \in 1 .. Len(ir) : i = Shift(k, l)
    BY Zenon, <1>1, <2>1
  <2>3. ir[j].args[1] \in ToSet(ir[l].args)
    BY Zenon, <1>1, <1>11, <2>2
  <2>4. l = j
    BY Zenon, <1>8, <2>3
  <2> QED
    BY Zenon, <1>5, <2>2, <2>4
<1>12. \E i \in 1 .. Len(t) : /\ t[i].form = "model" /\ t[i].id = t[b].args[1][1]
                              /\ t[i].kind \in Fusible
  BY Zenon, <1>6, <1>9, <1>10
<1> QED
  BY Zenon, <1>6, <1>8, <1>11, <1>12

LEMMA TailFacts ==
  ASSUME NEW X, NEW ids \in Seq(X), ids # <<>>
  PROVE  /\ Tail(ids) \in Seq(X) /\ Len(ids) \in Nat /\ Len(Tail(ids)) = Len(ids) - 1
         /\ 1 \in 1 .. Len(ids) /\ Head(ids) = ids[1]
         /\ \A i \in 1 .. Len(ids) - 1 : i + 1 \in 1 .. Len(ids) /\ Tail(ids)[i] = ids[i + 1]
OBVIOUS

LEMMA FuseWaiting ==
  ASSUME FuseInv, todo # <<>>, NEW t, NEW n, NEW k, NEW e, Fuses(t, n, k, e)
  PROVE  Waiting(t, Tail(todo), replaced \cup {<<ir[n].id, ir[k].id>>})
<1> DEFINE ids == Tail(todo)
           new == <<ir[n].id, ir[k].id>>
           done == replaced \cup {new}
<1>1. /\ Len(ir) \in Nat /\ n \in 1 .. Len(ir) /\ t[k] = e
      /\ \A i \in 1 .. Len(ir) : t[Shift(k, i)] = ir[i]
      /\ \A i \in 1 .. Len(ir) : Shift(k, i) \in 1 .. Len(t)
      /\ \A i, j \in 1 .. Len(ir) : i < j => Shift(k, i) < Shift(k, j)
      /\ \A j \in 1 .. Len(t) : j = k \/ \E i \in 1 .. Len(ir) : j = Shift(k, i)
      /\ ir[n].form = "neuron" /\ ir[n].id = Head(todo) /\ e.form = "fused"
  <2>1. Told(t, n, k, e)
    BY Zenon, FusesTells
  <2> QED
    BY Zenon, <2>1 DEF Told
<1>2. todo \in Seq(Nat) /\ Waiting(ir, todo, replaced)
  BY DEF FuseInv, FuseOk
<1>3. /\ Len(todo) \in Nat /\ Len(ids) = Len(todo) - 1 /\ 1 \in 1 .. Len(todo) /\ Head(todo) = todo[1]
      /\ \A i \in 1 .. Len(ids) : i + 1 \in 1 .. Len(todo) /\ ids[i] = todo[i + 1]
  BY <1>2, TailFacts
<1> HIDE DEF ids
<1>4. Candidate(ir, n, todo[1])
  BY <1>1, <1>3 DEF Candidate
<1>5. new[1] = todo[1]
  BY <1>1, <1>3
<1> HIDE DEF new
<1>6. ASSUME NEW j \in 1 .. Len(t), NEW id, Candidate(t, j, id)
      PROVE  \E i \in 1 .. Len(ir) : j = Shift(k, i) /\ Candidate(ir, i, id)
  <2>1. j # k
    BY <1>1, <1>6 DEF Candidate
  <2>2. PICK i \in 1 .. Len(ir) : j = Shift(k, i)
    BY Zenon, <1>1, <2>1
  <2>3. t[j] = ir[i]
    BY Zenon, <1>1, <2>2
  <2>4. Candidate(ir, i, id)
    BY Zenon, <1>6, <2>3 DEF Candidate
  <2> QED
    BY Zenon, <2>2, <2>4
<1>7. ASSUME NEW i \in 1 .. Len(ids) PROVE \E j \in 1 .. Len(t) : Candidate(t, j, ids[i])
  <2>1. i + 1 \in 1 .. Len(todo) /\ ids[i] = todo[i + 1]
    BY <1>3
  <2>2. PICK j \in 1 .. Len(ir) : Candidate(ir, j, todo[i + 1])
    BY Zenon, <1>2, <2>1 DEF Waiting
  <2>3. Shift(k, j) \in 1 .. Len(t) /\ t[Shift(k, j)] = ir[j]
    BY Zenon, <1>1
  <2>4. Candidate(t, Shift(k, j), ids[i])
    BY Zenon, <2>1, <2>2, <2>3 DEF Candidate
  <2> QED
    BY Zenon, <2>3, <2>4
<1>8. ASSUME NEW i \in 1 .. Len(ids), NEW r \in done PROVE r[1] # ids[i]
  <2>1. i + 1 \in 1 .. Len(todo) /\ ids[i] = todo[i + 1] /\ 1 < i + 1
    BY <1>3
  <2>2. CASE r \in replaced
    BY Zenon, <1>2, <2>1, <2>2 DEF Waiting
  <2>3. CASE r = new
    <3>1. SUFFICES ASSUME todo[i + 1] = todo[1] PROVE FALSE
      BY Zenon, <1>5, <2>1, <2>3
    <3>2. Candidate(ir, n, todo[i + 1])
      BY Zenon, <1>4, <3>1
    <3>3. n < n
      BY Zenon, <1>1, <1>2, <1>3, <1>4, <2>1, <3>2 DEF Waiting
    <3> QED
      BY <1>1, <3>3
  <2> QED
    BY Zenon, <2>2, <2>3
<1>9. ASSUME NEW i \in 1 .. Len(ids), NEW l \in 1 .. Len(ids), NEW a \in 1 .. Len(t), NEW b \in 1 .. Len(t),
             i < l, Candidate(t, a, ids[i]), Candidate(t, b, ids[l])
      PROVE  a < b
  <2>1. i + 1 \in 1 .. Len(todo) /\ ids[i] = todo[i + 1] /\ l + 1 \in 1 .. Len(todo)
        /\ ids[l] = todo[l + 1] /\ i + 1 < l + 1
    BY <1>3, <1>9
  <2>2. PICK x \in 1 .. Len(ir) : a = Shift(k, x) /\ Candidate(ir, x, ids[i])
    BY Zenon, <1>6, <1>9
  <2>3. PICK y \in 1 .. Len(ir) : b = Shift(k, y) /\ Candidate(ir, y, ids[l])
    BY Zenon, <1>6, <1>9
  <2>4. Candidate(ir, x, todo[i + 1]) /\ Candidate(ir, y, todo[l + 1])
    BY Zenon, <2>1, <2>2, <2>3
  <2>5. x < y
    BY Zenon, <1>2, <2>1, <2>4 DEF Waiting
  <2> QED
    BY Zenon, <1>1, <2>2, <2>3, <2>5
<1>10. ASSUME NEW j \in 1 .. Len(t), t[j].form = "neuron"
       PROVE  (\E i \in 1 .. Len(ids) : ids[i] = t[j].id) \/ \E r \in done : r[1] = t[j].id
  <2>1. PICK x \in 1 .. Len(ir) : j = Shift(k, x) /\ Candidate(ir, x, t[j].id)
    BY Zenon, <1>6, <1>10 DEF Candidate
  <2>2. ir[x].form = "neuron" /\ ir[x].id = t[j].id
    BY Zenon, <2>1 DEF Candidate
  <2>3. CASE \E r \in replaced : r[1] = t[j].id
    BY Zenon, <2>3
  <2>4. CASE \E l \in 1 .. Len(todo) : todo[l] = t[j].id
    <3>1. PICK l \in 1 .. Len(todo) : todo[l] = t[j].id
      BY <2>4
    <3>2. CASE l = 1
      BY Zenon, <1>5, <3>1, <3>2
    <3>3. CASE l # 1
      <4>1. l - 1 \in 1 .. Len(ids) /\ l - 1 + 1 = l
        BY <1>3, <3>3
      <4>2. ids[l - 1] = t[j].id
        BY <1>3, <3>1, <4>1
      <4> QED
        BY Zenon, <4>1, <4>2
    <3> QED
      BY <3>2, <3>3
  <2> QED
    BY Zenon, <1>2, <2>2, <2>3, <2>4 DEF Waiting
<1>11. Waiting(t, ids, done)
  BY Zenon, <1>7, <1>8, <1>9, <1>10 DEF Waiting
<1> QED
  BY Zenon, <1>11 DEF ids, new

LEMMA FuseFusedPairs ==
  ASSUME FuseInv, NEW t, NEW n, NEW k, NEW e, Fuses(t, n, k, e)
  PROVE  FusedPairs(t, replaced \cup {<<ir[n].id, ir[k].id>>})
<1> DEFINE new == <<ir[n].id, ir[k].id>>
           done == replaced \cup {new}
<1>1. /\ Len(ir) \in Nat /\ k \in 1 .. Len(ir) /\ n \in 1 .. Len(ir) /\ k < n /\ k \in 1 .. Len(t)
      /\ t[k] = e /\ \A i \in 1 .. Len(ir) : t[Shift(k, i)] = ir[i]
      /\ \A i \in 1 .. Len(ir) : Shift(k, i) \in 1 .. Len(t)
      /\ \A i, j \in 1 .. Len(ir) : i < j => Shift(k, i) < Shift(k, j)
      /\ \A j \in 1 .. Len(t) : j = k \/ \E i \in 1 .. Len(ir) : j = Shift(k, i)
      /\ ir[k].form = "model" /\ ir[n].form = "neuron"
      /\ ir[n].args[1] = <<ir[k].id, "acc">>
      /\ e.id = ir[k].id /\ e.form = "fused" /\ e.outs = {"spike", "tracer"}
  <2>1. Told(t, n, k, e)
    BY Zenon, FusesTells
  <2> QED
    BY Zenon, <2>1 DEF Told
<1>2. FusedPairs(ir, replaced)
  BY DEF FuseInv, FuseOk
<1>3. new[1] = ir[n].id /\ new[2] = ir[k].id
  OBVIOUS
<1> HIDE DEF new
<1>4. ASSUME NEW r \in replaced PROVE \E a, b, c \in 1 .. Len(t) : Replaced(t, a, b, c, r)
  <2>1. PICK f, m, l \in 1 .. Len(ir) : Replaced(ir, f, m, l, r)
    BY <1>2 DEF FusedPairs
  <2>2. /\ Shift(k, f) \in 1 .. Len(t) /\ Shift(k, m) \in 1 .. Len(t) /\ Shift(k, l) \in 1 .. Len(t)
        /\ t[Shift(k, f)] = ir[f] /\ t[Shift(k, m)] = ir[m] /\ t[Shift(k, l)] = ir[l]
    BY Zenon, <1>1
  <2>3. Shift(k, f) < Shift(k, m) /\ Shift(k, m) < Shift(k, l)
    BY Zenon, <1>1, <2>1 DEF Replaced
  <2>4. Replaced(t, Shift(k, f), Shift(k, m), Shift(k, l), r)
    BY Zenon, <2>1, <2>2, <2>3 DEF Replaced
  <2> QED
    BY Zenon, <2>2, <2>4
<1>5. \E a, b, c \in 1 .. Len(t) : Replaced(t, a, b, c, new)
  <2>1. /\ Shift(k, k) \in 1 .. Len(t) /\ Shift(k, n) \in 1 .. Len(t)
        /\ t[Shift(k, k)] = ir[k] /\ t[Shift(k, n)] = ir[n] /\ Shift(k, k) < Shift(k, n)
    BY Zenon, <1>1
  <2>2. k < Shift(k, k)
    BY <1>1 DEF Shift
  <2>3. Replaced(t, k, Shift(k, k), Shift(k, n), new)
    BY Zenon, <1>1, <1>3, <2>1, <2>2 DEF Replaced
  <2> QED
    BY Zenon, <1>1, <2>1, <2>3
<1>6. ASSUME NEW f \in 1 .. Len(t), t[f].form = "fused" PROVE \E r \in done : r[2] = t[f].id
  <2>1. CASE f = k
    BY Zenon, <1>1, <1>3, <2>1
  <2>2. CASE f # k
    <3>1. PICK i \in 1 .. Len(ir) : f = Shift(k, i)
      BY Zenon, <1>1, <2>2
    <3>2. t[f] = ir[i]
      BY Zenon, <1>1, <3>1
    <3>3. PICK r \in replaced : r[2] = ir[i].id
      BY Zenon, <1>2, <1>6, <3>2 DEF FusedPairs
    <3> QED
      BY Zenon, <3>2, <3>3
  <2> QED
    BY <2>1, <2>2
<1>7. FusedPairs(t, done)
  BY Zenon, <1>4, <1>5, <1>6 DEF FusedPairs
<1> QED
  BY Zenon, <1>7 DEF new

LEMMA InsertMakes ==
  ASSUME NEW s \in Seq(IROps), NEW k \in 1 .. Len(s), NEW e \in IROps
  PROVE  InsertedAt(s, InsertAt(s, k, e), k, e)
<1>1. PICK t : t = InsertAt(s, k, e)
  OBVIOUS
<1>2. Spread(IROps, s, t, k, e)
  BY Zenon, <1>1, Inserted
<1>3. /\ t \in Seq(IROps) /\ Len(t) = Len(s) + 1
      /\ \A i \in 1 .. Len(s) + 1 : t[i] = IF i < k THEN s[i] ELSE IF i = k THEN e ELSE s[i - 1]
  BY Zenon, <1>2 DEF Spread
<1>5. t[k] = e
  BY <1>3
<1>6. \A i \in 1 .. Len(s) : t[Shift(k, i)] = s[i]
  BY <1>3 DEF Shift
<1>4. InsertedAt(s, t, k, e)
  BY <1>1, <1>3, <1>5, <1>6 DEF InsertedAt
<1> QED
  BY <1>1, <1>4

(* What FuseOne does: nothing when an attention operand has no tracer, or   *)
(* the fused operation in front of its model operation.                     *)
Refused(k) ==
    /\ ir[k].kind \in Attention
    /\ \E v \in ToSet(ir[k].args) : FusedFor(v) = {}
Fusing(n, k) ==
    /\ todo # <<>> /\ ret' = ret
    /\ \/ Refused(k) /\ stage' = "failed" /\ UNCHANGED <<ir, todo, replaced>>
       \/ /\ ~ Refused(k) /\ stage' = "fuse" /\ todo' = Tail(todo)
          /\ replaced' = replaced \cup {<<ir[n].id, ir[k].id>>}
          /\ \E t, e : ir' = t /\ Fuses(t, n, k, e)

LEMMA FuseMakes ==
  ASSUME FuseInv, FuseOne
  PROVE  \E n, k : Target(n, k) /\ Fusing(n, k)
<1>1. stage = "fuse" /\ todo # <<>> /\ ret' = ret
  BY DEF FuseOne
<1>2. PICK n, k : Target(n, k)
  BY <1>1, TargetExists
<1> DEFINE model == ir[k]
           refused == /\ model.kind \in Attention
                      /\ \E v \in ToSet(model.args) : FusedFor(v) = {}
           e == [model EXCEPT !.form = "fused", !.args = FusedOperands(model),
                              !.outs = {"spike", "tracer"}]
           t == InsertAt(ir, k, e)
           done == replaced \cup {<<ir[n].id, ir[k].id>>}
<1>3. At(ir, Head(todo)) = n /\ ir[n].args[1] = <<ir[k].id, "acc">>
      /\ At(ir, ir[n].args[1][1]) = k
  BY <1>2 DEF Target
<1>4. IF refused
        THEN stage' = "failed" /\ UNCHANGED <<ir, todo, replaced>>
        ELSE ir' = t /\ replaced' = done /\ todo' = Tail(todo) /\ stage' = stage
  BY Zenon, <1>3 DEF FuseOne
<1>5. CASE refused
  <2>1. Refused(k)
    BY Zenon, <1>5 DEF Refused
  <2>2. Fusing(n, k)
    BY Zenon, <1>1, <1>4, <1>5, <2>1 DEF Fusing
  <2> QED
    BY Zenon, <1>2, <2>2
<1>6. CASE ~ refused
  <2>1. ir' = t /\ replaced' = done /\ todo' = Tail(todo) /\ stage' = "fuse" /\ ~ Refused(k)
    <3>1. ~ Refused(k)
      BY Zenon, <1>6 DEF Refused
    <3> QED
      BY Zenon, <1>1, <1>4, <1>6, <3>1
  <2>2. /\ ir \in Seq(IROps) /\ Len(ir) \in Nat /\ n \in 1 .. Len(ir) /\ k \in 1 .. Len(ir) /\ k < n
        /\ ir[k].form = "model" /\ ir[k].kind \in Fusible
    BY <1>2 DEF FuseInv, FuseOk, Sound, Target
  <2>3. \A j \in 1 .. k : ir[j].form = "neuron" => \E r \in replaced : r[1] = ir[j].id
    <3>1. \A j \in 1 .. k : j \in 1 .. n /\ j # n
      BY <2>2
    <3> QED
      BY Zenon, <1>2, <3>1 DEF Target
  <2>4. ir[k].kind \in Attention => \A v \in ToSet(ir[k].args) : FusedFor(v) # {}
    BY Zenon, <1>6
  <2>5. /\ e \in IROps /\ Shaped(e) /\ e.id = ir[k].id /\ e.form = "fused"
        /\ e.outs = {"spike", "tracer"}
        /\ \A w \in ToSet(e.args) :
              /\ Resolves(w, ir, k - 1)
              /\ w[2] = "acc" => w \in ToSet(ir[k].args)
    BY Zenon, <2>2, <2>3, <2>4, FusedArgs
  <2> HIDE DEF e
  <2>6. InsertedAt(ir, t, k, e)
    BY Zenon, <2>2, <2>5, InsertMakes
  <2> HIDE DEF t
  <2>7. Fuses(t, n, k, e)
    BY Zenon, <1>2, <2>5, <2>6 DEF Fuses
  <2>8. \E u, f : ir' = u /\ Fuses(u, n, k, f)
    BY Zenon, <2>1, <2>7
  <2>9. Fusing(n, k)
    BY Zenon, <1>1, <2>1, <2>8 DEF Fusing
  <2> QED
    BY Zenon, <1>2, <2>9
<1> QED
  BY <1>5, <1>6

(* FuseOne keeps the invariant of the fusion or gives up.                   *)
LEMMA FuseStep ==
  ASSUME FuseInv, FuseOne
  PROVE  \/ stage' = "failed" /\ UNCHANGED <<ir, ret, todo, replaced>>
         \/ stage' = "fuse" /\ FuseInv'
<1>1. PICK n, k : Target(n, k) /\ Fusing(n, k)
  BY FuseMakes
<1>2. CASE Refused(k)
  BY <1>1, <1>2 DEF Fusing
<1>3. CASE ~ Refused(k)
  <2> DEFINE done == replaced \cup {<<ir[n].id, ir[k].id>>}
  <2>1. /\ todo # <<>> /\ ret' = ret /\ stage' = "fuse" /\ todo' = Tail(todo) /\ replaced' = done
        /\ \E t, e : ir' = t /\ Fuses(t, n, k, e)
    BY Zenon, <1>1, <1>3 DEF Fusing
  <2>2. PICK t, e : ir' = t /\ Fuses(t, n, k, e)
    BY Zenon, <2>1
  <2>3. Sound(t, ret, FuseForms) /\ Distinct(t) /\ PairedUp(t, ret)
        /\ Waiting(t, Tail(todo), done) /\ FusedPairs(t, done)
    BY Zenon, <2>1, <2>2, FuseSound, FuseDistinct, FusePairedUp, FuseWaiting, FuseFusedPairs
  <2>4. Roled(ret, {"arg", "acc", "out"}) /\ Tail(todo) \in Seq(Nat) /\ done \subseteq Nat \X Nat
    <3>1. ir[n].id \in Nat /\ ir[k].id \in Nat
      <4>1. ir \in Seq(IROps) /\ n \in 1 .. Len(ir) /\ k \in 1 .. Len(ir)
        BY <1>1 DEF FuseInv, FuseOk, Sound, Target
      <4> QED
        BY <4>1, OpFields
    <3>2. Roled(ret, {"arg", "acc", "out"}) /\ todo \in Seq(Nat) /\ replaced \subseteq Nat \X Nat
      BY DEF FuseInv, FuseOk
    <3> QED
      BY <2>1, <3>1, <3>2, TailFacts
  <2>5. FuseOk(t, ret, Tail(todo), done)
    BY Zenon, <2>3, <2>4 DEF FuseOk
  <2> HIDE DEF done
  <2>6. FuseOk(ir', ret', todo', replaced')
    BY Zenon, <2>1, <2>2, <2>5
  <2> QED
    BY <2>1, <2>6 DEF FuseInv
<1> QED
  BY <1>2, <1>3


-----------------------------------------------------------------------------
(* The end of the fusion: returns take both results, pairs are erased.       *)
One(s, a) == s = <<a>>
Two(s, a, b) == s = <<a, b>>

LEMMA OneMember ==
  ASSUME NEW s, NEW a, One(s, a)
  PROVE  \A w : w \in ToSet(s) <=> w = a
<1>1. DOMAIN s = {1} /\ s[1] = a
  BY DEF One
<1> QED
  BY Zenon, <1>1 DEF ToSet

LEMMA TwoMembers ==
  ASSUME NEW s, NEW a, NEW b, Two(s, a, b)
  PROVE  \A w : w \in ToSet(s) <=> w = a \/ w = b
<1>1. DOMAIN s = {1, 2} /\ s[1] = a /\ s[2] = b
  BY DEF Two
<1> QED
  BY Zenon, <1>1 DEF ToSet

LEMMA FlattenMembers ==
  ASSUME NEW X, NEW s \in Seq(Seq(X)), NEW w
  PROVE  /\ FlattenSeq(s) \in Seq(X)
         /\ w \in ToSet(FlattenSeq(s)) <=> \E i \in 1 .. Len(s) : w \in ToSet(s[i])
<1> DEFINE t == FlattenSeq(s)
<1>1. t \in Seq(X) /\ FlattenSeq(s) = t
  BY FlattenBlocks
<1>2. PICK base \in [0 .. Len(s) -> Nat] : Blocks(s, base)
  BY FlattenBlocks
<1>3. DOMAIN t = 1 .. Len(t) /\ \A i \in 1 .. Len(s) : DOMAIN s[i] = 1 .. Len(s[i])
  <2>1. \A i \in 1 .. Len(s) : s[i] \in Seq(X)
    BY ElementOfSeq
  <2> QED
    BY <1>1, <2>1
<1> HIDE DEF t
<1>4. /\ \A i \in 1 .. Len(s) : \A j \in 1 .. Len(s[i]) :
            base[i - 1] + j \in 1 .. Len(t) /\ t[base[i - 1] + j] = s[i][j]
      /\ \A p \in 1 .. Len(t) : \E i \in 1 .. Len(s) : p - base[i - 1] \in 1 .. Len(s[i])
  BY Zenon, <1>2 DEF Blocks, t
<1>5. ASSUME w \in ToSet(t) PROVE \E i \in 1 .. Len(s) : w \in ToSet(s[i])
  <2>1. PICK p \in 1 .. Len(t) : t[p] = w
    BY Zenon, <1>3, <1>5 DEF ToSet
  <2>2. PICK i \in 1 .. Len(s) : p - base[i - 1] \in 1 .. Len(s[i])
    BY Zenon, <1>4
  <2>3. PICK j \in 1 .. Len(s[i]) : p = base[i - 1] + j
    <3>1. i - 1 \in 0 .. Len(s) /\ Len(t) \in Nat
      BY <1>1 DEF t
    <3>2. base[i - 1] \in Nat
      BY <3>1
    <3>3. p = base[i - 1] + (p - base[i - 1])
      BY <3>1, <3>2
    <3> QED
      BY Zenon, <2>2, <3>3
  <2>4. s[i][j] = w
    BY Zenon, <1>4, <2>1, <2>3
  <2> QED
    BY Zenon, <1>3, <2>4 DEF ToSet
<1>6. ASSUME NEW i \in 1 .. Len(s), w \in ToSet(s[i]) PROVE w \in ToSet(t)
  <2>1. PICK j \in 1 .. Len(s[i]) : s[i][j] = w
    BY Zenon, <1>3, <1>6 DEF ToSet
  <2>2. base[i - 1] + j \in 1 .. Len(t) /\ t[base[i - 1] + j] = w
    BY Zenon, <1>4, <2>1
  <2> QED
    BY Zenon, <1>3, <2>2 DEF ToSet
<1> QED
  BY Zenon, <1>1, <1>5, <1>6

Followed(values) ==
    \A w \in ToSet(values) : w[2] = "tracer" => <<w[1], "spike">> \in ToSet(values)

LEMMA ReturnBothValues ==
  ASSUME FuseInv
  PROVE  /\ ReturnBoth(ret) \in Seq(Value) /\ Followed(ReturnBoth(ret))
         /\ \A w \in ToSet(ReturnBoth(ret)) :
               \/ w \in ToSet(ret) /\ FusedFor(w) = {}
               \/ \E r \in replaced : w = <<r[2], "spike">> \/ w = <<r[2], "tracer">>
<1> DEFINE both == [k \in 1 .. Len(ret) |->
                      IF FusedFor(ret[k]) = {} THEN <<ret[k]>>
                      ELSE <<SpikeOf(ret[k]), <<SpikeOf(ret[k])[1], "tracer">>>>]
           all == ReturnBoth(ret)
<1>1. ret \in Seq(Value) /\ replaced \subseteq Nat \X Nat /\ Roled(ret, {"arg", "acc", "out"})
  BY DEF FuseInv, FuseOk, Sound
<1>2. Len(ret) \in Nat /\ \A k \in 1 .. Len(ret) : ret[k] \in Value /\ ret[k] \in ToSet(ret)
  BY <1>1 DEF ToSet
<1>3. all = FlattenSeq(both)
  BY DEF ReturnBoth
<1> HIDE DEF all
<1>4. ASSUME NEW k \in 1 .. Len(ret), FusedFor(ret[k]) # {}
      PROVE  \E r \in replaced : SpikeOf(ret[k]) = <<r[2], "spike">>
  <2>1. PICK r : r \in FusedFor(ret[k]) /\ SpikeOf(ret[k]) = <<r[2], "spike">>
    BY Zenon, <1>4 DEF SpikeOf
  <2>2. r \in replaced
    BY <2>1 DEF FusedFor
  <2> QED
    BY Zenon, <2>1, <2>2
<1>5. ASSUME NEW k \in 1 .. Len(ret)
      PROVE  \/ both[k] = <<ret[k]>> /\ FusedFor(ret[k]) = {}
             \/ \E r \in replaced : both[k] = <<<<r[2], "spike">>, <<r[2], "tracer">>>>
  <2>1. CASE FusedFor(ret[k]) = {}
    BY <2>1
  <2>2. CASE FusedFor(ret[k]) # {}
    <3>1. PICK r \in replaced : SpikeOf(ret[k]) = <<r[2], "spike">>
      BY Zenon, <1>4, <2>2
    <3>2. both[k] = <<SpikeOf(ret[k]), <<SpikeOf(ret[k])[1], "tracer">>>>
      BY <2>2
    <3>3. SpikeOf(ret[k])[1] = r[2]
      BY <3>1
    <3>4. both[k] = <<<<r[2], "spike">>, <<r[2], "tracer">>>>
      BY Zenon, <3>1, <3>2, <3>3
    <3> QED
      BY Zenon, <3>4
  <2> QED
    BY <2>1, <2>2
<1>6. Len(both) = Len(ret) /\ DOMAIN both = 1 .. Len(ret)
  BY <1>2
<1>7. both = [k \in 1 .. Len(ret) |-> both[k]]
  OBVIOUS
<1> HIDE DEF both
<1>8. \A r \in replaced : r[2] \in Nat
  BY <1>1
<1>9. \A r \in replaced : <<r[2], "spike">> \in Value /\ <<r[2], "tracer">> \in Value
  BY <1>8 DEF Value, Roles
<1>10. ASSUME NEW k \in 1 .. Len(ret) PROVE both[k] \in Seq(Value)
  <2>1. \A a \in Value : <<a>> \in Seq(Value)
    OBVIOUS
  <2>2. \A a, b \in Value : <<a, b>> \in Seq(Value)
    OBVIOUS
  <2> QED
    BY Zenon, <1>2, <1>5, <1>9, <2>1, <2>2
<1>11. both \in Seq(Seq(Value))
  BY <1>2, <1>7, <1>10
<1>12. /\ all \in Seq(Value)
       /\ \A w : w \in ToSet(all) <=> \E i \in 1 .. Len(ret) : w \in ToSet(both[i])
  BY <1>3, <1>6, <1>11, FlattenMembers
<1>15. ASSUME NEW w \in ToSet(all)
       PROVE  \/ w \in ToSet(ret) /\ FusedFor(w) = {}
              \/ \E r \in replaced : /\ w = <<r[2], "spike">> \/ w = <<r[2], "tracer">>
                                     /\ <<r[2], "spike">> \in ToSet(all)
  <2>1. PICK i \in 1 .. Len(ret) : w \in ToSet(both[i])
    BY Zenon, <1>12
  <2>2. CASE both[i] = <<ret[i]>> /\ FusedFor(ret[i]) = {}
    <3>1. One(both[i], ret[i])
      BY Zenon, <2>2 DEF One
    <3>2. w = ret[i]
      BY Zenon, <2>1, <3>1, OneMember
    <3> QED
      BY Zenon, <1>2, <2>2, <3>2
  <2>3. ASSUME NEW r \in replaced, both[i] = <<<<r[2], "spike">>, <<r[2], "tracer">>>>
        PROVE  /\ w = <<r[2], "spike">> \/ w = <<r[2], "tracer">>
               /\ <<r[2], "spike">> \in ToSet(all)
    <3>0. Two(both[i], <<r[2], "spike">>, <<r[2], "tracer">>)
      BY Zenon, <2>3 DEF Two
    <3>1. w = <<r[2], "spike">> \/ w = <<r[2], "tracer">>
      BY <2>1, <3>0, TwoMembers
    <3>2. <<r[2], "spike">> \in ToSet(both[i])
      BY <3>0, TwoMembers
    <3> QED
      BY Zenon, <1>12, <3>1, <3>2
  <2> QED
    BY Zenon, <1>5, <2>2, <2>3
<1>16. ASSUME NEW w \in ToSet(all), w[2] = "tracer"
       PROVE  <<w[1], "spike">> \in ToSet(all)
  <2>1. ~ (w \in ToSet(ret))
    BY <1>1, <1>16 DEF Roled
  <2>2. PICK r \in replaced : /\ w = <<r[2], "spike">> \/ w = <<r[2], "tracer">>
                              /\ <<r[2], "spike">> \in ToSet(all)
    BY Zenon, <1>15, <2>1
  <2>3. w[1] = r[2]
    BY <2>2
  <2> QED
    BY Zenon, <2>2, <2>3
<1>17. Followed(all)
  BY Zenon, <1>16 DEF Followed
<1> QED
  BY Zenon, <1>12, <1>15, <1>17 DEF all

(* What is left when every pair is erased.                                  *)
Leaves(s, T, t, g) ==
    /\ t \in Seq(IROps) /\ Thinned(s, t, g)
    /\ \A i \in 1 .. Len(t) : t[i] = s[g[i]] /\ t[i] \in T
    /\ \A p \in 1 .. Len(s) : s[p] \in T => \E i \in 1 .. Len(t) : g[i] = p

LEMMA AmongLeaves ==
  ASSUME NEW s \in Seq(IROps), NEW T
  PROVE  \E g : Leaves(s, T, Among(s, T), g)
<1> DEFINE t == Among(s, T)
<1>1. t \in Seq(IROps)
  BY AmongPlaces
<1>2. PICK g \in [1 .. Len(t) -> 1 .. Len(s)] : Keeps(s, T, t, g)
  BY AmongPlaces
<1> HIDE DEF t
<1>3. \A i \in 1 .. Len(t) : t[i] = s[g[i]] /\ s[g[i]] \in T
  BY Zenon, <1>2 DEF Keeps
<1>4. \A i \in 1 .. Len(t) : t[i] = s[g[i]] /\ t[i] \in T
  BY Zenon, <1>3
<1>5. \A i, j \in 1 .. Len(t) : i < j => g[i] < g[j]
  BY Zenon, <1>2 DEF Keeps
<1>6. \A p \in 1 .. Len(s) : s[p] \in T => \E i \in 1 .. Len(t) : g[i] = p
  BY Zenon, <1>2 DEF Keeps
<1>7. \A i \in 1 .. Len(t) : t[i].id = s[g[i]].id /\ t[i].args = s[g[i]].args
  BY Zenon, <1>3
<1>8. Thinned(s, t, g)
  BY Zenon, <1>2, <1>5, <1>7 DEF Thinned
<1>9. Leaves(s, T, t, g)
  BY Zenon, <1>1, <1>4, <1>6, <1>8 DEF Leaves
<1> QED
  BY Zenon, <1>9 DEF t

LEMMA PairForms ==
  ASSUME FuseInv, todo = <<>>, NEW j \in 1 .. Len(ir)
  PROVE  /\ ir[j].form = "neuron" => /\ IsPair(ir[j])
                                     /\ \E r \in replaced : r[1] = ir[j].id
         /\ ir[j].form = "fused" => ~ IsPair(ir[j])
         /\ ir[j].form = "model" => (IsPair(ir[j]) <=> \E r \in replaced : r[2] = ir[j].id)
<1>1. /\ Distinct(ir) /\ Waiting(ir, todo, replaced) /\ FusedPairs(ir, replaced) /\ Len(todo) = 0
      /\ ir \in Seq(IROps) /\ Len(ir) \in Nat
  BY DEF FuseInv, FuseOk, Sound
<1>2. ASSUME ir[j].form = "neuron" PROVE \E r \in replaced : r[1] = ir[j].id
  <2>1. \A i : i \notin 1 .. Len(todo)
    BY <1>1
  <2> QED
    BY Zenon, <1>1, <1>2, <2>1 DEF Waiting
<1>3. ASSUME ir[j].form # "neuron", NEW r \in replaced PROVE ir[j].id # r[1]
  <2>1. PICK f, m, n \in 1 .. Len(ir) : Replaced(ir, f, m, n, r)
    BY <1>1 DEF FusedPairs
  <2>2. ir[n].form = "neuron" /\ ir[n].id = r[1]
    BY <2>1 DEF Replaced
  <2>3. SUFFICES ASSUME ir[j].id = ir[n].id PROVE FALSE
    BY <2>2
  <2>4. j # n
    BY <1>3, <2>2
  <2>5. j < n \/ n < j
    BY <1>1, <2>4
  <2> QED
    BY <1>1, <2>2, <2>3, <2>5 DEF Distinct
<1>4. IsPair(ir[j]) <=> \E r \in replaced :
         (ir[j].form = "model" /\ ir[j].id = r[2]) \/ ir[j].id = r[1]
  BY DEF IsPair
<1> QED
  BY <1>2, <1>3, <1>4

LEMMA UnpairedUnique ==
  ASSUME FuseInv, todo = <<>>, NEW g, Leaves(ir, {o \in ToSet(ir) : ~ IsPair(o)}, Unpaired, g)
  PROVE  Unique(Unpaired)
<1> DEFINE t == Unpaired
<1>1. /\ Distinct(ir) /\ FusedPairs(ir, replaced) /\ ir \in Seq(IROps) /\ Len(ir) \in Nat
  BY DEF FuseInv, FuseOk, Sound
<1>2. /\ t \in Seq(IROps) /\ Thinned(ir, t, g)
      /\ \A i \in 1 .. Len(t) : t[i] = ir[g[i]] /\ ~ IsPair(t[i])
  BY DEF Leaves
<1> HIDE DEF t
<1>3. /\ Len(t) \in Nat /\ \A i \in 1 .. Len(t) : g[i] \in 1 .. Len(ir)
      /\ \A i, j \in 1 .. Len(t) : i < j => g[i] < g[j]
  BY <1>2 DEF Thinned
<1>4. ASSUME NEW a \in 1 .. Len(t), NEW b \in 1 .. Len(t), a < b, t[a].id = t[b].id PROVE FALSE
  <2>1. g[a] < g[b] /\ ir[g[a]].id = ir[g[b]].id /\ ~ IsPair(ir[g[b]])
    BY Zenon, <1>2, <1>3, <1>4
  <2>2. ir[g[a]].form = "fused" /\ ir[g[b]].form = "model"
    BY Zenon, <1>1, <1>3, <2>1 DEF Distinct
  <2>3. PICK r \in replaced : r[2] = ir[g[a]].id
    BY Zenon, <1>1, <1>3, <2>2 DEF FusedPairs
  <2>4. g[b] \in 1 .. Len(ir)
    BY Zenon, <1>3
  <2>5. IsPair(ir[g[b]])
    BY Zenon, <2>1, <2>2, <2>3, <2>4, PairForms
  <2> QED
    BY <2>1, <2>5
<1>5. \A a, b \in 1 .. Len(t) : a < b \/ b < a \/ a = b
  BY <1>3
<1>6. Unique(t)
  BY Zenon, <1>4, <1>5 DEF Unique
<1> QED
  BY <1>6 DEF t

LEMMA FinishSound ==
  ASSUME FuseInv, todo = <<>>,
         ~ \E o \in ToSet(Unpaired), v \in {<<r[1], "out">> : r \in replaced} :
              v \in ToSet(o.args)
  PROVE  /\ Sound(Unpaired, ReturnBoth(ret), {"model", "fused"})
         /\ Unique(Unpaired) /\ Followed(ReturnBoth(ret))
<1> DEFINE T == {o \in ToSet(ir) : ~ IsPair(o)}
           t == Unpaired
           all == ReturnBoth(ret)
<1>1. /\ Distinct(ir) /\ FusedPairs(ir, replaced) /\ PairedUp(ir, ret) /\ ir \in Seq(IROps)
      /\ Len(ir) \in Nat /\ DOMAIN ir = 1 .. Len(ir) /\ Defined(ir, ret)
      /\ \A j \in 1 .. Len(ir) : Shaped(ir[j]) /\ ir[j].form \in FuseForms
      /\ replaced \subseteq Nat \X Nat
  BY DEF FuseInv, FuseOk, Sound
<1>2. PICK g : Leaves(ir, T, t, g)
  BY <1>1, AmongLeaves DEF Unpaired
<1>3. Unique(t)
  BY <1>2, UnpairedUnique
<1>4. /\ all \in Seq(Value) /\ Followed(all)
      /\ \A w \in ToSet(all) :
            \/ w \in ToSet(ret) /\ FusedFor(w) = {}
            \/ \E r \in replaced : w = <<r[2], "spike">> \/ w = <<r[2], "tracer">>
  BY ReturnBothValues
<1>5. /\ t \in Seq(IROps) /\ Thinned(ir, t, g) /\ Len(t) \in Nat /\ DOMAIN t = 1 .. Len(t)
      /\ \A i \in 1 .. Len(t) : t[i] = ir[g[i]] /\ t[i] \in T /\ g[i] \in 1 .. Len(ir)
      /\ \A p \in 1 .. Len(ir) : ir[p] \in T => \E i \in 1 .. Len(t) : g[i] = p
  <2> HIDE DEF t, T
  <2>1. /\ t \in Seq(IROps) /\ Thinned(ir, t, g)
        /\ \A i \in 1 .. Len(t) : t[i] = ir[g[i]] /\ t[i] \in T
        /\ \A p \in 1 .. Len(ir) : ir[p] \in T => \E i \in 1 .. Len(t) : g[i] = p
    BY Zenon, <1>2 DEF Leaves
  <2>2. \A i \in 1 .. Len(t) : g[i] \in 1 .. Len(ir)
    BY <2>1 DEF Thinned
  <2>3. Len(t) \in Nat /\ DOMAIN t = 1 .. Len(t)
    BY <2>1
  <2> QED
    BY Zenon, <2>1, <2>2, <2>3
<1>6. \A i \in 1 .. Len(t) : \A v \in ToSet(t[i].args) : \A r \in replaced : v # <<r[1], "out">>
  <2>1. \A i \in 1 .. Len(t) : t[i] \in ToSet(t)
    BY Zenon, <1>5 DEF ToSet
  <2> QED
    BY Zenon, <2>1
<1> HIDE DEF t, all
<1>7. \A p \in 1 .. Len(ir) : ir[p] \in T <=> ~ IsPair(ir[p])
  BY Zenon, <1>1 DEF ToSet
<1> HIDE DEF T
<1>8. ASSUME NEW i \in 1 .. Len(t) PROVE Shaped(t[i]) /\ t[i].form \in {"model", "fused"}
  <2>1. Shaped(ir[g[i]]) /\ ir[g[i]].form \in FuseForms /\ ~ IsPair(ir[g[i]])
    BY Zenon, <1>1, <1>5, <1>7
  <2>2. ir[g[i]].form # "neuron"
    BY Zenon, <1>5, <2>1, PairForms
  <2>3. t[i] = ir[g[i]]
    BY Zenon, <1>5
  <2> QED
    BY <2>1, <2>2, <2>3 DEF FuseForms
<1>9. Defined(ir, all)
  <2>1. ASSUME NEW w \in ToSet(all) PROVE Resolves(w, ir, Len(ir))
    <3>1. CASE w \in ToSet(ret)
      BY Zenon, <1>1, <3>1 DEF Defined
    <3>2. CASE \E r \in replaced : w = <<r[2], "spike">> \/ w = <<r[2], "tracer">>
      <4>1. PICK r \in replaced : w = <<r[2], "spike">> \/ w = <<r[2], "tracer">>
        BY <3>2
      <4>2. PICK f, m, n \in 1 .. Len(ir) : Replaced(ir, f, m, n, r)
        BY <1>1 DEF FusedPairs
      <4>3. ir[f].id = r[2] /\ ir[f].outs = {"spike", "tracer"}
        BY <4>2 DEF Replaced
      <4>4. w[1] = r[2] /\ w[2] \in {"spike", "tracer"}
        BY <4>1
      <4> QED
        BY Zenon, <4>3, <4>4 DEF Resolves
    <3> QED
      BY Zenon, <1>4, <3>1, <3>2
  <2> QED
    BY Zenon, <1>1, <2>1 DEF Defined
<1>10. ASSUME NEW j \in 1 .. Len(ir), NEW role \in ir[j].outs, Needs(t, all, <<ir[j].id, role>>)
       PROVE  \E i \in 1 .. Len(t) : g[i] = j /\ role \in t[i].outs
  <2>1. SUFFICES ~ IsPair(ir[j])
    <3>1. PICK i \in 1 .. Len(t) : g[i] = j
      BY Zenon, <1>5, <1>7, <2>1
    <3>2. t[i] = ir[j]
      BY Zenon, <1>5, <3>1
    <3> QED
      BY Zenon, <3>1, <3>2
  <2>2. SUFFICES ASSUME IsPair(ir[j]) PROVE FALSE
    OBVIOUS
  <2> DEFINE v == <<ir[j].id, role>>
  <2>3. v[1] = ir[j].id /\ v[2] = role
    OBVIOUS
  <2>4. CASE ir[j].form = "neuron"
    <3>1. PICK r \in replaced : r[1] = ir[j].id
      BY <2>4, PairForms
    <3>2. role = "out"
      BY <1>1, <2>4 DEF Shaped
    <3>3. v = <<r[1], "out">>
      BY <3>1, <3>2
    <3> HIDE DEF v
    <3>4. v \in ToSet(all)
      <4>1. Needs(t, all, v)
        BY Zenon, <1>10 DEF v
      <4> QED
        BY Zenon, <1>6, <3>3, <4>1 DEF Needs
    <3>5. r \in FusedFor(v)
      BY <3>3 DEF FusedFor
    <3>6. PICK q \in replaced : v = <<q[2], "spike">> \/ v = <<q[2], "tracer">>
      BY Zenon, <1>4, <3>4, <3>5
    <3> QED
      BY <2>3, <3>2, <3>6 DEF v
  <2>5. CASE ir[j].form = "model"
    <3>1. PICK r \in replaced : r[2] = ir[j].id
      BY <2>2, <2>5, PairForms
    <3>2. role = "acc"
      BY <1>1, <2>5 DEF Shaped
    <3>3. PICK f, m, n \in 1 .. Len(ir) : Replaced(ir, f, m, n, r)
      BY <1>1 DEF FusedPairs
    <3>4. ir[n].form = "neuron" /\ ir[n].args[1] = v
      BY <3>1, <3>2, <3>3 DEF Replaced
    <3> HIDE DEF v
    <3>5. v \notin ToSet(ret) /\ \A i \in 1 .. Len(ir) : v \in ToSet(ir[i].args) => i = n
      BY Zenon, <1>1, <3>4 DEF PairedUp
    <3>6. v \notin ToSet(all)
      <4>1. SUFFICES ASSUME NEW q \in replaced, v = <<q[2], "spike">> \/ v = <<q[2], "tracer">>
                     PROVE  FALSE
        BY Zenon, <1>4, <3>5
      <4> QED
        BY <2>3, <3>2, <4>1 DEF v
    <3>7. Needs(t, all, v)
      BY Zenon, <1>10 DEF v
    <3>8. PICK i \in 1 .. Len(t) : v \in ToSet(t[i].args)
      BY Zenon, <3>6, <3>7 DEF Needs
    <3>9. t[i] = ir[g[i]] /\ g[i] \in 1 .. Len(ir) /\ ~ IsPair(ir[g[i]])
      BY Zenon, <1>5, <1>7
    <3>10. g[i] = n
      BY Zenon, <3>5, <3>8, <3>9
    <3> QED
      BY Zenon, <3>4, <3>9, <3>10, PairForms
  <2>6. CASE ir[j].form = "fused"
    BY <2>2, <2>6, PairForms
  <2> QED
    BY <1>1, <2>4, <2>5, <2>6 DEF FuseForms
<1>11. Defined(t, all)
  BY <1>1, <1>4, <1>5, <1>9, <1>10, DefinedThinned
<1>12. Sound(t, all, {"model", "fused"})
  BY Zenon, <1>4, <1>5, <1>8, <1>11 DEF Sound
<1> QED
  BY Zenon, <1>3, <1>4, <1>12 DEF t, all


(* FinishFuse leaves a sound function unless a use hangs.                    *)
LEMMA FinishStep ==
  ASSUME FuseInv, FinishFuse
  PROVE  \/ stage' = "dangling"
         \/ /\ stage' = "fused" /\ todo' = todo
            /\ Sound(ir', ret', {"model", "fused"}) /\ Unique(ir') /\ Followed(ret')
<1> DEFINE hangs == \E o \in ToSet(Unpaired), v \in {<<r[1], "out">> : r \in replaced} :
                       v \in ToSet(o.args)
<1>1. /\ todo = <<>> /\ todo' = todo /\ ret' = ReturnBoth(ret) /\ ir' = Unpaired
      /\ stage' = IF hangs THEN "dangling" ELSE "fused"
  BY Zenon DEF FinishFuse
<1>2. CASE hangs
  BY Zenon, <1>1, <1>2
<1>3. CASE ~ hangs
  <2>1. /\ Sound(Unpaired, ReturnBoth(ret), {"model", "fused"})
        /\ Unique(Unpaired) /\ Followed(ReturnBoth(ret))
    BY Zenon, <1>1, <1>3, FinishSound
  <2> HIDE DEF hangs
  <2> QED
    BY Zenon, <1>1, <1>3, <2>1
<1> QED
  BY <1>2, <1>3

-----------------------------------------------------------------------------
(* Dead-output elimination.  A fused operation that was visited is live;    *)
(* it stands after all those to visit, which are visited from the last.     *)
Live(ops, values, d) ==
    /\ ops[d].outs # {}
    /\ \A role \in ops[d].outs : Needs(ops, values, <<ops[d].id, role>>)
Stands(ops, j, id) == ops[j].form = "fused" /\ ops[j].id = id
InTurn(ops, ids) ==
    /\ \A i \in 1 .. Len(ids) : \E j \in 1 .. Len(ops) : Stands(ops, j, ids[i])
    /\ \A i, l \in 1 .. Len(ids) : \A j, k \in 1 .. Len(ops) :
          i < l /\ Stands(ops, j, ids[i]) /\ Stands(ops, k, ids[l]) => k < j
Visited(ops, values, ids) ==
    \A d \in 1 .. Len(ops) : ops[d].form = "fused" =>
        \/ \E i \in 1 .. Len(ids) : ids[i] = ops[d].id
        \/ /\ Live(ops, values, d)
           /\ \A i \in 1 .. Len(ids) : \A j \in 1 .. Len(ops) : Stands(ops, j, ids[i]) => j < d
DceOk(ops, values, ids) ==
    /\ Sound(ops, values, {"model", "fused"}) /\ Unique(ops) /\ Followed(values)
    /\ ids \in Seq(Nat) /\ InTurn(ops, ids) /\ Visited(ops, values, ids)

(* The ids of the fused operations, in the order of the operations.         *)
LEMMA FusedIds ==
  ASSUME ir \in Seq(IROps), Unique(ir)
  PROVE  LET ids == Ids(FusedOps)
         IN  /\ ids \in Seq(Nat)
             /\ \A i \in 1 .. Len(ids) : \E j \in 1 .. Len(ir) : Stands(ir, j, ids[i])
             /\ \A i, l \in 1 .. Len(ids) : \A j, k \in 1 .. Len(ir) :
                   i < l /\ Stands(ir, j, ids[i]) /\ Stands(ir, k, ids[l]) => j < k
             /\ \A d \in 1 .. Len(ir) : ir[d].form = "fused" =>
                   \E i \in 1 .. Len(ids) : ids[i] = ir[d].id
<1> DEFINE T == {o \in ToSet(ir) : o.form = "fused"}
           ns == FusedOps
           ids == Ids(ns)
<1>1. PICK g : Leaves(ir, T, ns, g)
  BY AmongLeaves DEF FusedOps
<1>2. DOMAIN ir = 1 .. Len(ir) /\ Len(ir) \in Nat
  OBVIOUS
<1>3. \A i \in 1 .. Len(ir) : ir[i] \in T <=> ir[i].form = "fused"
  BY <1>2 DEF ToSet
<1> HIDE DEF T, ns
<1>4. /\ ns \in Seq(IROps) /\ Thinned(ir, ns, g)
      /\ \A i \in 1 .. Len(ns) : ns[i] = ir[g[i]] /\ ns[i] \in T
      /\ \A p \in 1 .. Len(ir) : ir[p] \in T => \E i \in 1 .. Len(ns) : g[i] = p
  BY Zenon, <1>1 DEF Leaves
<1>5. /\ Len(ns) \in Nat /\ \A i \in 1 .. Len(ns) : g[i] \in 1 .. Len(ir)
      /\ \A i, j \in 1 .. Len(ns) : i < j => g[i] < g[j]
  BY <1>4 DEF Thinned
<1>6. /\ ids \in Seq(Nat) /\ Len(ids) = Len(ns) /\ \A i \in 1 .. Len(ns) : ids[i] = ns[i].id
  <2>1. \A i \in 1 .. Len(ns) : ns[i].id \in Nat
    BY <1>4, OpFields
  <2> QED
    BY <1>4, <1>5, <2>1 DEF Ids
<1> HIDE DEF ids
<1>7. ASSUME NEW i \in 1 .. Len(ids) PROVE g[i] \in 1 .. Len(ir) /\ Stands(ir, g[i], ids[i])
  <2>1. /\ ns[i] = ir[g[i]] /\ ir[g[i]] \in T /\ g[i] \in 1 .. Len(ir) /\ ids[i] = ns[i].id
    BY <1>4, <1>5, <1>6
  <2>2. ir[g[i]].form = "fused"
    BY Zenon, <1>3, <2>1
  <2> QED
    BY Zenon, <2>1, <2>2 DEF Stands
<1>8. ASSUME NEW i \in 1 .. Len(ids), NEW l \in 1 .. Len(ids), NEW j \in 1 .. Len(ir), NEW k \in 1 .. Len(ir),
             i < l, Stands(ir, j, ids[i]), Stands(ir, k, ids[l])
      PROVE  j < k
  <2>1. g[i] \in 1 .. Len(ir) /\ ir[g[i]].id = ids[i] /\ g[l] \in 1 .. Len(ir) /\ ir[g[l]].id = ids[l]
    BY Zenon, <1>7 DEF Stands
  <2>2. ir[j].id = ids[i] /\ ir[k].id = ids[l]
    BY Zenon, <1>8 DEF Stands
  <2>3. j = g[i]
    BY Zenon, <2>1, <2>2 DEF Unique
  <2>4. k = g[l]
    BY Zenon, <2>1, <2>2 DEF Unique
  <2>5. g[i] < g[l]
    BY <1>5, <1>6, <1>8
  <2> QED
    BY Zenon, <2>3, <2>4, <2>5
<1>9. ASSUME NEW d \in 1 .. Len(ir), ir[d].form = "fused"
      PROVE  \E i \in 1 .. Len(ids) : ids[i] = ir[d].id
  <2>1. PICK i \in 1 .. Len(ns) : g[i] = d
    BY Zenon, <1>3, <1>4, <1>9
  <2>2. i \in 1 .. Len(ids) /\ ids[i] = ir[d].id
    BY <1>4, <1>6, <2>1
  <2> QED
    BY Zenon, <2>2
<1> QED
  BY Zenon, <1>6, <1>7, <1>8, <1>9 DEF ids, ns

LEMMA DceStart ==
  ASSUME Sound(ir, ret, {"model", "fused"}), Unique(ir), Followed(ret), StartDce
  PROVE  DceOk(ir', ret', todo') /\ stage' = "dce"
<1> DEFINE ids == Ids(FusedOps)
           rev == Reverse(ids)
<1>1. ir' = ir /\ ret' = ret /\ todo' = rev /\ stage' = "dce"
  BY DEF StartDce, DceOrder
<1>2. ir \in Seq(IROps)
  BY DEF Sound
<1>3. /\ ids \in Seq(Nat)
      /\ \A i \in 1 .. Len(ids) : \E j \in 1 .. Len(ir) : Stands(ir, j, ids[i])
      /\ \A i, l \in 1 .. Len(ids) : \A j, k \in 1 .. Len(ir) :
            i < l /\ Stands(ir, j, ids[i]) /\ Stands(ir, k, ids[l]) => j < k
      /\ \A d \in 1 .. Len(ir) : ir[d].form = "fused" =>
            \E i \in 1 .. Len(ids) : ids[i] = ir[d].id
  BY Zenon, <1>2, FusedIds
<1> HIDE DEF ids
<1> DEFINE n == Len(ids)
<1>4. /\ rev \in Seq(Nat) /\ Len(rev) = n /\ n \in Nat
      /\ \A i \in 1 .. n : n - i + 1 \in 1 .. n /\ rev[i] = ids[n - i + 1]
  BY <1>3 DEF Reverse
<1> HIDE DEF rev
<1>5. \A i \in 1 .. Len(rev) : \E j \in 1 .. Len(ir) : Stands(ir, j, rev[i])
  BY Zenon, <1>3, <1>4
<1>6. ASSUME NEW i \in 1 .. Len(rev), NEW l \in 1 .. Len(rev), NEW j \in 1 .. Len(ir), NEW k \in 1 .. Len(ir),
             i < l, Stands(ir, j, rev[i]), Stands(ir, k, rev[l])
      PROVE  k < j
  <2>1. /\ n - i + 1 \in 1 .. n /\ rev[i] = ids[n - i + 1] /\ n - l + 1 \in 1 .. n
        /\ rev[l] = ids[n - l + 1] /\ n - l + 1 < n - i + 1
    <3>1. i \in 1 .. n /\ l \in 1 .. n
      BY Zenon, <1>4
    <3>2. n - l + 1 < n - i + 1
      <4> HIDE DEF n
      <4> QED
        BY <1>4, <1>6, <3>1
    <3> QED
      BY Zenon, <1>4, <3>1, <3>2
  <2> HIDE DEF n
  <2>2. Stands(ir, j, ids[n - i + 1]) /\ Stands(ir, k, ids[n - l + 1])
    BY Zenon, <1>6, <2>1
  <2>3. \A d, e \in 1 .. Len(ir) :
          Stands(ir, d, ids[n - l + 1]) /\ Stands(ir, e, ids[n - i + 1]) => d < e
    <3>1. PICK f \in 1 .. n, h \in 1 .. n : f = n - l + 1 /\ h = n - i + 1
      BY Zenon, <2>1
    <3>2. f < h /\ f \in 1 .. Len(ids) /\ h \in 1 .. Len(ids)
      BY Zenon, <2>1, <3>1 DEF n
    <3>3. \A d, e \in 1 .. Len(ir) : Stands(ir, d, ids[f]) /\ Stands(ir, e, ids[h]) => d < e
      BY Zenon, <1>3, <3>2
    <3> QED
      BY Zenon, <3>1, <3>3
  <2> QED
    BY Zenon, <2>2, <2>3
<1>7. ASSUME NEW d \in 1 .. Len(ir), ir[d].form = "fused"
      PROVE  \E i \in 1 .. Len(rev) : rev[i] = ir[d].id
  <2>1. PICK i \in 1 .. n : ids[i] = ir[d].id
    BY Zenon, <1>3, <1>7
  <2> HIDE DEF n
  <2>2. n - i + 1 \in 1 .. Len(rev) /\ n - (n - i + 1) + 1 = i
    BY <1>4
  <2>3. rev[n - i + 1] = ids[i]
    BY <1>4, <2>2
  <2> QED
    BY Zenon, <2>1, <2>2, <2>3
<1>8. DceOk(ir, ret, rev)
  BY Zenon, <1>4, <1>5, <1>6, <1>7 DEF DceOk, InTurn, Visited
<1> QED
  BY Zenon, <1>1, <1>8

LEMMA UsesLater ==
  ASSUME NEW ops, NEW values, NEW forms, Sound(ops, values, forms), Unique(ops),
         NEW d \in 1 .. Len(ops), NEW m \in 1 .. Len(ops), NEW role, role # "arg",
         <<ops[d].id, role>> \in ToSet(ops[m].args)
  PROVE  d < m
<1>1. ops \in Seq(IROps) /\ DOMAIN ops = 1 .. Len(ops) /\ Len(ops) \in Nat /\ Defined(ops, values)
  BY DEF Sound
<1> DEFINE v == <<ops[d].id, role>>
<1>2. v[1] = ops[d].id /\ v[2] = role
  OBVIOUS
<1> HIDE DEF v
<1>3. Resolves(v, ops, m - 1)
  BY Zenon, <1>1 DEF Defined, v
<1>4. PICK j \in 1 .. m - 1 : ops[j].id = v[1]
  BY Zenon, <1>2, <1>3 DEF Resolves
<1>5. j \in 1 .. Len(ops) /\ j < m
  BY <1>1
<1>6. j = d
  BY Zenon, <1>2, <1>4, <1>5 DEF Unique
<1> QED
  BY <1>5, <1>6

(* The next operation to visit.                                             *)
TurnOf(k) ==
    /\ k \in 1 .. Len(ir) /\ Stands(ir, k, Head(todo)) /\ At(ir, Head(todo)) = k
    /\ \A i \in 1 .. Len(Tail(todo)) :
          \E j \in 1 .. Len(ir) : j < k /\ Stands(ir, j, Tail(todo)[i])
    /\ \A d \in 1 .. Len(ir) : ir[d].form = "fused" =>
          \/ d = k
          \/ \E i \in 1 .. Len(Tail(todo)) : Tail(todo)[i] = ir[d].id
          \/ Live(ir, ret, d) /\ k < d

LEMMA NextToVisit ==
  ASSUME DceOk(ir, ret, todo), todo # <<>>
  PROVE  \E k : TurnOf(k)
<1> DEFINE ids == Tail(todo)
<1>1. /\ ir \in Seq(IROps) /\ Unique(ir) /\ todo \in Seq(Nat) /\ InTurn(ir, todo)
      /\ Visited(ir, ret, todo)
  BY DEF DceOk, Sound
<1>2. /\ Len(ids) = Len(todo) - 1 /\ 1 \in 1 .. Len(todo) /\ Head(todo) = todo[1] /\ Len(todo) \in Nat
      /\ \A i \in 1 .. Len(ids) : i + 1 \in 1 .. Len(todo) /\ ids[i] = todo[i + 1]
  BY <1>1, TailFacts
<1> HIDE DEF ids
<1>3. PICK k \in 1 .. Len(ir) : Stands(ir, k, todo[1])
  BY Zenon, <1>1, <1>2 DEF InTurn
<1>4. At(ir, Head(todo)) = k
  BY <1>1, <1>2, <1>3, AtUnique DEF Stands, Unique
<1>5. ASSUME NEW i \in 1 .. Len(ids)
      PROVE  \E j \in 1 .. Len(ir) : j < k /\ Stands(ir, j, ids[i])
  <2>1. i + 1 \in 1 .. Len(todo) /\ ids[i] = todo[i + 1] /\ 1 < i + 1
    BY <1>2
  <2>2. PICK j \in 1 .. Len(ir) : Stands(ir, j, todo[i + 1])
    BY Zenon, <1>1, <2>1 DEF InTurn
  <2>3. j < k
    BY Zenon, <1>1, <1>2, <1>3, <2>1, <2>2 DEF InTurn
  <2> QED
    BY Zenon, <2>1, <2>2, <2>3
<1>6. ASSUME NEW d \in 1 .. Len(ir), ir[d].form = "fused", d # k,
             ~ \E i \in 1 .. Len(ids) : ids[i] = ir[d].id
      PROVE  Live(ir, ret, d) /\ k < d
  <2>1. ASSUME NEW i \in 1 .. Len(todo), todo[i] = ir[d].id PROVE FALSE
    <3>1. i # 1
      BY Zenon, <1>1, <1>3, <1>6, <2>1 DEF Stands, Unique
    <3>2. i - 1 \in 1 .. Len(ids) /\ i - 1 + 1 = i
      BY <1>2, <3>1
    <3>3. ids[i - 1] = todo[i]
      BY <1>2, <3>2
    <3> QED
      BY Zenon, <1>6, <2>1, <3>2, <3>3
  <2> QED
    BY Zenon, <1>1, <1>2, <1>3, <1>6, <2>1 DEF Visited
<1>7. TurnOf(k)
  BY Zenon, <1>2, <1>3, <1>4, <1>5, <1>6 DEF TurnOf, ids
<1> QED
  BY <1>7

(* An operation without a use is dropped.                                   *)
LEMMA DceDrops ==
  ASSUME DceOk(ir, ret, todo), todo # <<>>, NEW k, TurnOf(k),
         \A role \in ir[k].outs : ~ Needs(ir, ret, <<ir[k].id, role>>)
  PROVE  DceOk(RemoveAt(ir, k), ret, Tail(todo))
<1> DEFINE t == RemoveAt(ir, k)
           h == Skip(Len(ir), k)
           ids == Tail(todo)
<1>1. /\ Sound(ir, ret, {"model", "fused"}) /\ Unique(ir) /\ Followed(ret) /\ todo \in Seq(Nat)
      /\ InTurn(ir, todo) /\ ir \in Seq(IROps) /\ Len(ir) \in Nat /\ k \in 1 .. Len(ir)
  BY DEF DceOk, Sound, TurnOf
<1>2. /\ Sound(t, ret, {"model", "fused"}) /\ Unique(t) /\ Len(t) = Len(ir) - 1
      /\ \A i \in 1 .. Len(ir) - 1 :
            /\ h[i] = IF i < k THEN i ELSE i + 1
            /\ h[i] \in 1 .. Len(ir)
            /\ t[i] = ir[h[i]]
  BY Zenon, <1>1, RemoveSound
<1> HIDE DEF t, h
<1>3. /\ ids \in Seq(Nat) /\ Len(ids) = Len(todo) - 1 /\ Len(todo) \in Nat
      /\ \A i \in 1 .. Len(ids) : i + 1 \in 1 .. Len(todo) /\ ids[i] = todo[i + 1]
  BY <1>1, TailFacts
<1> HIDE DEF ids
<1>4. /\ \A i \in 1 .. Len(ids) : \E j \in 1 .. Len(ir) : j < k /\ Stands(ir, j, ids[i])
      /\ \A d \in 1 .. Len(ir) : ir[d].form = "fused" =>
            \/ d = k
            \/ \E i \in 1 .. Len(ids) : ids[i] = ir[d].id
            \/ Live(ir, ret, d) /\ k < d
  BY Zenon DEF TurnOf, ids
<1>5. /\ \A i \in 1 .. Len(t) : h[i] \in 1 .. Len(ir) /\ t[i] = ir[h[i]] /\ h[i] # k
      /\ \A i, j \in 1 .. Len(t) : h[i] < h[j] => i < j
      /\ \A m \in 1 .. Len(ir) : m # k => \E i \in 1 .. Len(t) : h[i] = m
      /\ \A m \in 1 .. Len(ir) : m < k => m \in 1 .. Len(t) /\ h[m] = m
  <2>1. \A i \in 1 .. Len(t) : h[i] \in 1 .. Len(ir) /\ t[i] = ir[h[i]] /\ h[i] # k
    BY <1>1, <1>2
  <2>2. \A i, j \in 1 .. Len(t) : h[i] < h[j] => i < j
    BY <1>1, <1>2
  <2>3. \A m \in 1 .. Len(ir) : m < k => m \in 1 .. Len(t) /\ h[m] = m
    BY <1>1, <1>2
  <2>4. ASSUME NEW m \in 1 .. Len(ir), k < m PROVE m - 1 \in 1 .. Len(t) /\ h[m - 1] = m
    BY <1>1, <1>2, <2>4
  <2>5. \A m \in 1 .. Len(ir) : m # k => m < k \/ k < m
    BY <1>1
  <2> QED
    BY Zenon, <2>1, <2>2, <2>3, <2>4, <2>5
<1>6. ASSUME NEW i \in 1 .. Len(ids) PROVE \E j \in 1 .. Len(t) : Stands(t, j, ids[i])
  <2>1. PICK j \in 1 .. Len(ir) : j < k /\ Stands(ir, j, ids[i])
    BY Zenon, <1>4
  <2>2. j \in 1 .. Len(t) /\ t[j] = ir[j]
    BY Zenon, <1>5, <2>1
  <2>3. Stands(t, j, ids[i])
    BY Zenon, <2>1, <2>2 DEF Stands
  <2> QED
    BY Zenon, <2>2, <2>3
<1>7. ASSUME NEW j \in 1 .. Len(t), NEW id, Stands(t, j, id)
      PROVE  h[j] \in 1 .. Len(ir) /\ Stands(ir, h[j], id)
  BY Zenon, <1>5, <1>7 DEF Stands
<1>8. ASSUME NEW i \in 1 .. Len(ids), NEW l \in 1 .. Len(ids), NEW a \in 1 .. Len(t), NEW b \in 1 .. Len(t),
             i < l, Stands(t, a, ids[i]), Stands(t, b, ids[l])
      PROVE  b < a
  <2>1. /\ i + 1 \in 1 .. Len(todo) /\ ids[i] = todo[i + 1] /\ l + 1 \in 1 .. Len(todo)
        /\ ids[l] = todo[l + 1] /\ i + 1 < l + 1
    BY <1>3, <1>8
  <2>2. /\ h[a] \in 1 .. Len(ir) /\ Stands(ir, h[a], todo[i + 1])
        /\ h[b] \in 1 .. Len(ir) /\ Stands(ir, h[b], todo[l + 1])
    BY Zenon, <1>7, <1>8, <2>1
  <2>3. h[b] < h[a]
    BY Zenon, <1>1, <2>1, <2>2 DEF InTurn
  <2> QED
    BY Zenon, <1>5, <2>3
<1>9. ASSUME NEW d \in 1 .. Len(t), t[d].form = "fused", ~ \E i \in 1 .. Len(ids) : ids[i] = t[d].id
      PROVE  /\ Live(t, ret, d)
             /\ \A i \in 1 .. Len(ids) : \A j \in 1 .. Len(t) : Stands(t, j, ids[i]) => j < d
  <2> DEFINE p == h[d]
  <2>1. p \in 1 .. Len(ir) /\ t[d] = ir[p] /\ p # k
    BY Zenon, <1>5
  <2> HIDE DEF p
  <2>2. Live(ir, ret, p) /\ k < p /\ ir[p].form = "fused"
    BY Zenon, <1>4, <1>9, <2>1
  <2>3. ASSUME NEW role \in t[d].outs PROVE Needs(t, ret, <<t[d].id, role>>)
    <3>1. Needs(ir, ret, <<ir[p].id, role>>)
      BY Zenon, <2>1, <2>2, <2>3 DEF Live
    <3>2. CASE <<ir[p].id, role>> \in ToSet(ret)
      BY Zenon, <2>1, <3>2 DEF Needs
    <3>3. ASSUME NEW m \in 1 .. Len(ir), <<ir[p].id, role>> \in ToSet(ir[m].args)
          PROVE  Needs(t, ret, <<t[d].id, role>>)
      <4>1. role # "arg"
        <5>1. Shaped(ir[p])
          BY <1>1, <2>1 DEF Sound
        <5> QED
          BY <2>1, <2>2, <2>3, <5>1 DEF Shaped
      <4>2. p < m
        BY Zenon, <1>1, <2>1, <3>3, <4>1, UsesLater
      <4>3. m # k
        BY <1>1, <2>1, <2>2, <4>2
      <4>4. PICK i \in 1 .. Len(t) : h[i] = m
        BY Zenon, <1>5, <4>3
      <4>5. t[i] = ir[m]
        BY Zenon, <1>5, <4>4
      <4> QED
        BY Zenon, <2>1, <3>3, <4>5 DEF Needs
    <3> QED
      BY Zenon, <3>1, <3>2, <3>3 DEF Needs
  <2>4. Live(t, ret, d)
    BY Zenon, <2>1, <2>2, <2>3 DEF Live
  <2>5. ASSUME NEW i \in 1 .. Len(ids), NEW j \in 1 .. Len(t), Stands(t, j, ids[i]) PROVE j < d
    <3>1. PICK m \in 1 .. Len(ir) : m < k /\ Stands(ir, m, ids[i])
      BY Zenon, <1>4
    <3>2. h[j] \in 1 .. Len(ir) /\ Stands(ir, h[j], ids[i])
      BY Zenon, <1>7, <2>5
    <3>3. h[j] = m
      BY Zenon, <1>1, <3>1, <3>2 DEF Stands, Unique
    <3>4. h[j] < h[d]
      BY <1>1, <2>1, <2>2, <3>1, <3>3 DEF p
    <3> QED
      BY Zenon, <1>5, <3>4
  <2> QED
    BY Zenon, <2>4, <2>5
<1>10. DceOk(t, ret, ids)
  BY Zenon, <1>1, <1>2, <1>3, <1>6, <1>8, <1>9 DEF DceOk, InTurn, Visited
<1> QED
  BY Zenon, <1>10 DEF t, ids

Shrunk(o, live) == [o EXCEPT !.outs = live]
PutAt(s, t, k, o) == t = [s EXCEPT ![k] = o]

LEMMA OpReplaced ==
  ASSUME NEW s \in Seq(IROps), NEW k \in 1 .. Len(s), NEW o \in IROps, NEW t, PutAt(s, t, k, o)
  PROVE  /\ t \in Seq(IROps) /\ Len(t) = Len(s) /\ t[k] = o
         /\ \A i \in 1 .. Len(s) : i # k => t[i] = s[i]
BY DEF PutAt

(* An operation keeps the results that are used.                            *)
LEMMA DceShrinks ==
  ASSUME DceOk(ir, ret, todo), todo # <<>>, NEW k, TurnOf(k), NEW live, live # {},
         live = {role \in ir[k].outs : Needs(ir, ret, <<ir[k].id, role>>)},
         NEW t, PutAt(ir, t, k, Shrunk(ir[k], live))
  PROVE  DceOk(t, ret, Tail(todo))
<1> DEFINE ids == Tail(todo)
           g == [i \in 1 .. Len(ir) |-> i]
<1>1. /\ Sound(ir, ret, {"model", "fused"}) /\ Unique(ir) /\ Followed(ret) /\ todo \in Seq(Nat)
      /\ InTurn(ir, todo) /\ ir \in Seq(IROps) /\ Len(ir) \in Nat /\ k \in 1 .. Len(ir)
      /\ ret \in Seq(Value) /\ Defined(ir, ret)
      /\ \A i \in 1 .. Len(ir) : Shaped(ir[i]) /\ ir[i].form \in {"model", "fused"}
      /\ ir[k].form = "fused" /\ ir[k] \in IROps
  BY DEF DceOk, Sound, TurnOf, Stands
<1>2. /\ ids \in Seq(Nat) /\ Len(ids) = Len(todo) - 1 /\ Len(todo) \in Nat
      /\ \A i \in 1 .. Len(ids) : i + 1 \in 1 .. Len(todo) /\ ids[i] = todo[i + 1]
  BY <1>1, TailFacts
<1> HIDE DEF ids
<1>3. /\ \A i \in 1 .. Len(ids) : \E j \in 1 .. Len(ir) : j < k /\ Stands(ir, j, ids[i])
      /\ \A d \in 1 .. Len(ir) : ir[d].form = "fused" =>
            \/ d = k
            \/ \E i \in 1 .. Len(ids) : ids[i] = ir[d].id
            \/ Live(ir, ret, d) /\ k < d
  BY Zenon DEF TurnOf, ids
<1>4. live \subseteq ir[k].outs
  OBVIOUS
<1> DEFINE o == Shrunk(ir[k], live)
<1>5. /\ o \in IROps /\ o.id = ir[k].id /\ o.args = ir[k].args /\ o.outs = live
      /\ o.form = "fused" /\ Shaped(o)
  <2>1. o \in IROps /\ o.id = ir[k].id /\ o.args = ir[k].args /\ o.outs = live
        /\ o.form = "fused" /\ o.kind = ir[k].kind
    BY <1>1, <1>4 DEF IROps, Operations, Shrunk
  <2>2. Shaped(ir[k])
    BY Zenon, <1>1
  <2> HIDE DEF o
  <2> QED
    BY <1>1, <1>4, <2>1, <2>2 DEF Shaped, Paired
<1>6. PutAt(ir, t, k, o)
  OBVIOUS
<1> HIDE DEF o
<1>7. /\ t \in Seq(IROps) /\ Len(t) = Len(ir) /\ t[k] = o
      /\ \A i \in 1 .. Len(ir) : i # k => t[i] = ir[i]
  <2>1. ir \in Seq(IROps) /\ k \in 1 .. Len(ir) /\ o \in IROps
    BY Zenon, <1>1, <1>5
  <2> QED
    BY <1>6, <2>1, OpReplaced
<1>8. \A i \in 1 .. Len(ir) : t[i].id = ir[i].id /\ t[i].args = ir[i].args /\ t[i].form = ir[i].form
  BY Zenon, <1>1, <1>5, <1>7
<1>9. \A v : Needs(t, ret, v) <=> Needs(ir, ret, v)
  BY Zenon, <1>7, <1>8 DEF Needs
<1>10. Sound(t, ret, {"model", "fused"}) /\ Unique(t)
  <2>1. Thinned(ir, t, g)
    BY <1>1, <1>7, <1>8 DEF Thinned
  <2>2. ASSUME NEW j \in 1 .. Len(ir), NEW role \in ir[j].outs, Needs(t, ret, <<ir[j].id, role>>)
        PROVE  \E i \in 1 .. Len(t) : g[i] = j /\ role \in t[i].outs
    <3>1. g[j] = j /\ j \in 1 .. Len(t)
      BY <1>7
    <3>2. Needs(ir, ret, <<ir[j].id, role>>)
      BY Zenon, <1>9, <2>2
    <3>3. role \in t[j].outs
      BY Zenon, <1>5, <1>7, <2>2, <3>2
    <3> QED
      BY Zenon, <3>1, <3>3
  <2> HIDE DEF g
  <2>3. Defined(t, ret)
    BY <1>1, <1>7, <2>1, <2>2, DefinedThinned
  <2>4. Unique(t)
    BY Zenon, <1>1, <1>7, <2>1, UniqueThinned
  <2>5. \A i \in 1 .. Len(t) : Shaped(t[i]) /\ t[i].form \in {"model", "fused"}
    BY Zenon, <1>1, <1>5, <1>7, <1>8
  <2> QED
    BY Zenon, <1>1, <1>7, <2>3, <2>4, <2>5 DEF Sound
<1>11. \A j, id : j \in 1 .. Len(ir) => (Stands(t, j, id) <=> Stands(ir, j, id))
  BY Zenon, <1>8 DEF Stands
<1>12. ASSUME NEW i \in 1 .. Len(ids), NEW l \in 1 .. Len(ids), NEW a \in 1 .. Len(t), NEW b \in 1 .. Len(t),
              i < l, Stands(t, a, ids[i]), Stands(t, b, ids[l])
       PROVE  b < a
  <2>1. /\ i + 1 \in 1 .. Len(todo) /\ ids[i] = todo[i + 1] /\ l + 1 \in 1 .. Len(todo)
        /\ ids[l] = todo[l + 1] /\ i + 1 < l + 1
    <3>1. i \in Nat /\ l \in Nat
      BY <1>2
    <3>2. i + 1 < l + 1
      BY <1>12, <3>1
    <3> QED
      BY Zenon, <1>2, <3>2
  <2>2. /\ a \in 1 .. Len(ir) /\ Stands(ir, a, todo[i + 1])
        /\ b \in 1 .. Len(ir) /\ Stands(ir, b, todo[l + 1])
    BY Zenon, <1>7, <1>11, <1>12, <2>1
  <2> QED
    BY Zenon, <1>1, <2>1, <2>2 DEF InTurn
<1>13. ASSUME NEW i \in 1 .. Len(ids) PROVE \E j \in 1 .. Len(t) : Stands(t, j, ids[i])
  BY Zenon, <1>3, <1>7, <1>11
<1>14. ASSUME NEW d \in 1 .. Len(t), t[d].form = "fused", ~ \E i \in 1 .. Len(ids) : ids[i] = t[d].id
       PROVE  /\ Live(t, ret, d)
              /\ \A i \in 1 .. Len(ids) : \A j \in 1 .. Len(t) : Stands(t, j, ids[i]) => j < d
  <2>0. d \in 1 .. Len(ir) /\ t[d].id = ir[d].id /\ ir[d].form = "fused"
    BY Zenon, <1>7, <1>8, <1>14
  <2>1. CASE d = k
    <3>1. Live(t, ret, d)
      BY Zenon, <1>5, <1>7, <1>9, <2>1 DEF Live
    <3>2. ASSUME NEW i \in 1 .. Len(ids), NEW j \in 1 .. Len(t), Stands(t, j, ids[i]) PROVE j < d
      <4>1. PICK m \in 1 .. Len(ir) : m < k /\ Stands(ir, m, ids[i])
        BY Zenon, <1>3
      <4>2. j \in 1 .. Len(ir) /\ Stands(ir, j, ids[i])
        BY Zenon, <1>7, <1>11, <3>2
      <4>3. j = m
        BY Zenon, <1>1, <4>1, <4>2 DEF Stands, Unique
      <4> QED
        BY Zenon, <2>1, <4>1, <4>3
    <3> QED
      BY Zenon, <3>1, <3>2
  <2>2. CASE d # k
    <3>0. Live(ir, ret, d) /\ k < d
      BY Zenon, <1>3, <1>14, <2>0, <2>2
    <3>1. Live(t, ret, d)
      <4>1. t[d] = ir[d]
        BY Zenon, <1>7, <2>0, <2>2
      <4> QED
        BY Zenon, <1>9, <3>0, <4>1 DEF Live
    <3>2. ASSUME NEW i \in 1 .. Len(ids), NEW j \in 1 .. Len(t), Stands(t, j, ids[i]) PROVE j < d
      <4>1. PICK m \in 1 .. Len(ir) : m < k /\ Stands(ir, m, ids[i])
        BY Zenon, <1>3
      <4>2. j \in 1 .. Len(ir) /\ Stands(ir, j, ids[i])
        BY Zenon, <1>7, <1>11, <3>2
      <4>3. j = m
        BY Zenon, <1>1, <4>1, <4>2 DEF Stands, Unique
      <4>4. j < k
        BY Zenon, <4>1, <4>3
      <4> QED
        BY <1>1, <2>0, <3>0, <4>2, <4>4
    <3> QED
      BY Zenon, <3>1, <3>2
  <2> QED
    BY <2>1, <2>2
<1>15. DceOk(t, ret, ids)
  BY Zenon, <1>1, <1>2, <1>10, <1>12, <1>13, <1>14 DEF DceOk, InTurn, Visited
<1> QED
  BY Zenon, <1>15 DEF ids

LEMMA DceStep ==
  ASSUME DceOk(ir, ret, todo), DceOne
  PROVE  DceOk(ir', ret', todo') /\ stage' = stage
<1>1. todo # <<>> /\ ret' = ret /\ todo' = Tail(todo) /\ stage' = stage
  BY DEF DceOne
<1>2. PICK k : TurnOf(k)
  BY <1>1, NextToVisit
<1>3. At(ir, Head(todo)) = k /\ ir \in Seq(IROps)
  BY <1>2 DEF TurnOf, DceOk, Sound
<1> DEFINE live == LiveResults(ir[k])
<1>4. ir' = IF live = {} THEN RemoveAt(ir, k) ELSE [ir EXCEPT ![k].outs = live]
  BY <1>3 DEF DceOne
<1>5. live = {role \in ir[k].outs : Needs(ir, ret, <<ir[k].id, role>>)}
  <2>1. ret \in Seq(Value)
    BY DEF DceOk, Sound
  <2> QED
    BY <1>3, UsedNeeds DEF LiveResults
<1> HIDE DEF live
<1>6. CASE live = {}
  <2>1. \A role \in ir[k].outs : ~ Needs(ir, ret, <<ir[k].id, role>>)
    BY <1>5, <1>6
  <2>2. DceOk(RemoveAt(ir, k), ret, Tail(todo))
    BY Zenon, <1>1, <1>2, <2>1, DceDrops
  <2> QED
    BY Zenon, <1>1, <1>4, <1>6, <2>2
<1>7. CASE live # {}
  <2>1. PICK t : t = [ir EXCEPT ![k] = Shrunk(ir[k], live)]
    OBVIOUS
  <2>0. PutAt(ir, t, k, Shrunk(ir[k], live))
    BY Zenon, <2>1 DEF PutAt
  <2>2. DceOk(t, ret, Tail(todo))
    BY Zenon, <1>1, <1>2, <1>5, <1>7, <2>0, DceShrinks
  <2>3. ir' = t
    BY <1>4, <1>7, <2>1 DEF Shrunk
  <2> QED
    BY Zenon, <1>1, <2>2, <2>3
<1> QED
  BY <1>6, <1>7


-----------------------------------------------------------------------------
(* The lowering: the fused operations still to lower, all results in use.    *)
LoweringForms == {"model", "fused", "exec"}
LowerOk(ops, values, ids, forms) ==
    /\ Sound(ops, values, forms) /\ Unique(ops) /\ Followed(values)
    /\ \A d \in 1 .. Len(ops) : ops[d].form \in {"fused", "exec"} => Live(ops, values, d)
    /\ ids \in Seq(Nat)
    /\ \A i \in 1 .. Len(ids) : \E j \in 1 .. Len(ops) : Stands(ops, j, ids[i])
    /\ \A i, l \in 1 .. Len(ids) : ids[i] = ids[l] => i = l

LEMMA LowerStart ==
  ASSUME DceOk(ir, ret, todo), StartLowering
  PROVE  LowerOk(ir', ret', todo', LoweringForms) /\ stage' = "lower"
<1> DEFINE ids == Ids(FusedOps)
<1>1. todo = <<>> /\ ir' = ir /\ ret' = ret /\ todo' = ids /\ stage' = "lower"
  BY DEF StartLowering
<1>2. /\ Sound(ir, ret, {"model", "fused"}) /\ Unique(ir) /\ Followed(ret) /\ ir \in Seq(IROps)
      /\ Visited(ir, ret, todo) /\ Len(todo) = 0
  BY <1>1 DEF DceOk, Sound
<1>3. /\ ids \in Seq(Nat)
      /\ \A i \in 1 .. Len(ids) : \E j \in 1 .. Len(ir) : Stands(ir, j, ids[i])
      /\ \A i, l \in 1 .. Len(ids) : \A j, k \in 1 .. Len(ir) :
            i < l /\ Stands(ir, j, ids[i]) /\ Stands(ir, k, ids[l]) => j < k
  BY Zenon, <1>2, FusedIds
<1> HIDE DEF ids
<1>4. ASSUME NEW i \in 1 .. Len(ids), NEW l \in 1 .. Len(ids), ids[i] = ids[l] PROVE i = l
  <2>1. PICK j \in 1 .. Len(ir) : Stands(ir, j, ids[i])
    BY Zenon, <1>3
  <2>2. Stands(ir, j, ids[l])
    BY Zenon, <1>4, <2>1
  <2>3. ~ (j < j) /\ (i < l \/ l < i \/ i = l)
    BY <1>2, <1>3
  <2> QED
    BY Zenon, <1>3, <2>1, <2>2, <2>3
<1>5. ASSUME NEW d \in 1 .. Len(ir), ir[d].form \in {"fused", "exec"} PROVE Live(ir, ret, d)
  <2>1. ir[d].form = "fused"
    BY <1>2, <1>5 DEF Sound
  <2>2. \A i : i \notin 1 .. Len(todo)
    BY <1>2
  <2> QED
    BY Zenon, <1>2, <2>1, <2>2 DEF Visited
<1>6. Sound(ir, ret, LoweringForms)
  BY <1>2 DEF Sound, LoweringForms
<1>7. LowerOk(ir, ret, ids, LoweringForms)
  BY Zenon, <1>2, <1>3, <1>4, <1>5, <1>6 DEF LowerOk
<1> QED
  BY Zenon, <1>1, <1>7

Lowered(o) == [o EXCEPT !.form = "exec"]

LEMMA LowerStep ==
  ASSUME LowerOk(ir, ret, todo, LoweringForms), LowerOne
  PROVE  LowerOk(ir', ret', todo', LoweringForms) /\ stage' = stage
<1> DEFINE ids == Tail(todo)
<1>1. /\ todo # <<>> /\ ret' = ret /\ todo' = ids /\ stage' = stage
      /\ ir' = [ir EXCEPT ![At(ir, Head(todo))] = Lowered(ir[At(ir, Head(todo))])]
  BY DEF LowerOne, Lowered
<1>2. /\ Sound(ir, ret, LoweringForms) /\ Unique(ir) /\ Followed(ret) /\ todo \in Seq(Nat)
      /\ ir \in Seq(IROps) /\ Len(ir) \in Nat
      /\ \A d \in 1 .. Len(ir) : ir[d].form \in {"fused", "exec"} => Live(ir, ret, d)
      /\ \A i \in 1 .. Len(todo) : \E j \in 1 .. Len(ir) : Stands(ir, j, todo[i])
      /\ \A i, l \in 1 .. Len(todo) : todo[i] = todo[l] => i = l
  BY DEF LowerOk, Sound
<1>3. /\ ids \in Seq(Nat) /\ Len(ids) = Len(todo) - 1 /\ 1 \in 1 .. Len(todo) /\ Head(todo) = todo[1]
      /\ Len(todo) \in Nat
      /\ \A i \in 1 .. Len(ids) : i + 1 \in 1 .. Len(todo) /\ ids[i] = todo[i + 1]
  BY <1>1, <1>2, TailFacts
<1> HIDE DEF ids
<1>4. PICK k \in 1 .. Len(ir) : Stands(ir, k, Head(todo))
  <2>1. PICK k \in 1 .. Len(ir) : Stands(ir, k, todo[1])
    BY Zenon, <1>2, <1>3
  <2>2. Stands(ir, k, Head(todo))
    BY Zenon, <1>3, <2>1
  <2> QED
    BY Zenon, <2>2
<1>5. At(ir, Head(todo)) = k
  BY <1>2, <1>4, AtUnique DEF Stands, Unique
<1>6. PICK o : o = Lowered(ir[k])
  OBVIOUS
<1>7. ir[k] \in IROps /\ ir[k].form = "fused" /\ Shaped(ir[k])
  BY <1>2, <1>4 DEF Stands, Sound
<1>8. /\ o \in IROps /\ o.id = ir[k].id /\ o.form = "exec" /\ o.kind = ir[k].kind
      /\ o.args = ir[k].args /\ o.outs = ir[k].outs
  BY <1>6, <1>7 DEF IROps, Operations, Lowered
<1>9. Shaped(o)
  BY <1>7, <1>8 DEF Shaped, Paired
<1>10. PICK t : PutAt(ir, t, k, o) /\ ir' = t
  BY <1>1, <1>5, <1>6 DEF PutAt
<1>11. /\ t \in Seq(IROps) /\ Len(t) = Len(ir) /\ t[k] = o
       /\ \A i \in 1 .. Len(ir) : i # k => t[i] = ir[i]
  <2>1. ir \in Seq(IROps) /\ k \in 1 .. Len(ir) /\ o \in IROps
    BY Zenon, <1>2, <1>8
  <2> QED
    BY <1>10, <2>1, OpReplaced
<1>12. \A i \in 1 .. Len(ir) : t[i].id = ir[i].id /\ t[i].args = ir[i].args /\ t[i].outs = ir[i].outs
  BY Zenon, <1>8, <1>11
<1>13. SameResults(ir, t)
  BY Zenon, <1>11, <1>12 DEF SameResults
<1>14. \A i \in 1 .. Len(t) : Shaped(t[i]) /\ t[i].form \in LoweringForms
  <2>1. o.form \in LoweringForms
    BY <1>8 DEF LoweringForms
  <2>2. \A i \in 1 .. Len(ir) : Shaped(ir[i]) /\ ir[i].form \in LoweringForms
    BY Zenon, <1>2 DEF Sound
  <2> QED
    BY Zenon, <1>9, <1>11, <2>1, <2>2
<1>15. ASSUME NEW i \in 1 .. Len(t), NEW v \in ToSet(t[i].args)
       PROVE  \E j \in 1 .. i : v \in ToSet(ir[j].args)
  <2>1. i \in 1 .. i /\ i \in 1 .. Len(ir)
    BY <1>2, <1>11
  <2> QED
    BY Zenon, <1>12, <2>1
<1>16. Sound(t, ret, LoweringForms) /\ Unique(t)
  BY Zenon, <1>2, <1>11, <1>13, <1>14, <1>15, SameSound
<1>17. \A v : Needs(t, ret, v) <=> Needs(ir, ret, v)
  BY Zenon, <1>11, <1>12 DEF Needs
<1>18. ASSUME NEW d \in 1 .. Len(t), t[d].form \in {"fused", "exec"} PROVE Live(t, ret, d)
  <2>1. d \in 1 .. Len(ir)
    BY Zenon, <1>11
  <2>2. ir[d].form \in {"fused", "exec"}
    BY <1>7, <1>11, <1>18, <2>1
  <2>3. Live(ir, ret, d)
    BY Zenon, <1>2, <2>1, <2>2
  <2>4. t[d].id = ir[d].id /\ t[d].outs = ir[d].outs
    BY Zenon, <1>12, <2>1
  <2> QED
    BY Zenon, <1>17, <2>3, <2>4 DEF Live
<1>19. ASSUME NEW i \in 1 .. Len(ids) PROVE \E j \in 1 .. Len(t) : Stands(t, j, ids[i])
  <2>1. i + 1 \in 1 .. Len(todo) /\ ids[i] = todo[i + 1] /\ i + 1 # 1
    BY <1>3
  <2>2. PICK j \in 1 .. Len(ir) : Stands(ir, j, todo[i + 1])
    BY Zenon, <1>2, <2>1
  <2>3. j # k
    BY Zenon, <1>2, <1>3, <1>4, <2>1, <2>2 DEF Stands
  <2>4. t[j] = ir[j] /\ j \in 1 .. Len(t)
    BY Zenon, <1>11, <2>3
  <2>5. Stands(t, j, ids[i])
    BY Zenon, <2>1, <2>2, <2>4 DEF Stands
  <2> QED
    BY Zenon, <2>4, <2>5
<1>20. ASSUME NEW i \in 1 .. Len(ids), NEW l \in 1 .. Len(ids), ids[i] = ids[l] PROVE i = l
  <2>1. i + 1 \in 1 .. Len(todo) /\ ids[i] = todo[i + 1] /\ l + 1 \in 1 .. Len(todo) /\ ids[l] = todo[l + 1]
    BY <1>3
  <2>2. i + 1 = l + 1
    BY Zenon, <1>2, <1>20, <2>1
  <2> QED
    BY <1>3, <2>2
<1>21. LowerOk(t, ret, ids, LoweringForms)
  BY Zenon, <1>2, <1>3, <1>16, <1>18, <1>19, <1>20 DEF LowerOk
<1> QED
  BY Zenon, <1>1, <1>10, <1>21

LEMMA LowerCheck ==
  ASSUME LowerOk(ir, ret, todo, LoweringForms), CheckLowered
  PROVE  \/ stage' = "failed" /\ UNCHANGED <<ir, ret>>
         \/ stage' = "exec" /\ LowerOk(ir', ret', todo', {"exec"})
<1>1. /\ ir' = ir /\ ret' = ret /\ todo' = todo
      /\ stage' = IF \A o \in ToSet(ir) : o.form = "exec" THEN "exec" ELSE "failed"
  BY DEF CheckLowered
<1>2. CASE ~ \A o \in ToSet(ir) : o.form = "exec"
  BY Zenon, <1>1, <1>2
<1>3. CASE \A o \in ToSet(ir) : o.form = "exec"
  <2>1. ir \in Seq(IROps)
    BY DEF LowerOk, Sound
  <2>2. \A i \in 1 .. Len(ir) : ir[i].form = "exec"
    <3>1. DOMAIN ir = 1 .. Len(ir)
      BY <2>1
    <3> QED
      BY Zenon, <1>3, <3>1 DEF ToSet
  <2>3. Sound(ir, ret, {"exec"})
    BY <2>2 DEF LowerOk, Sound
  <2>4. LowerOk(ir, ret, todo, {"exec"})
    BY Zenon, <2>3 DEF LowerOk
  <2> QED
    BY Zenon, <1>1, <1>3, <2>4
<1> QED
  BY <1>2, <1>3

-----------------------------------------------------------------------------
(* A tracer is never used without the spike of its producer.                *)
LEMMA TracerArgs ==
  ASSUME NEW o \in IROps, Shaped(o), NEW id, <<id, "tracer">> \in ToSet(o.args)
  PROVE  <<id, "spike">> \in ToSet(o.args)
<1>1. o.args \in Seq(Value) /\ o.form \in {"model", "neuron", "fused", "exec"}
  BY OpFields
<1>2. o.form \in {"fused", "exec"} /\ o.kind \in Attention
  BY <1>1 DEF Shaped, Roled
<1>3. Len(o.args) = 4 /\ o.args[1][2] = "spike" /\ o.args[3][2] = "spike"
      /\ o.args[2] = <<o.args[1][1], "tracer">> /\ o.args[4] = <<o.args[3][1], "tracer">>
  BY <1>2 DEF Shaped, Paired
<1>4. DOMAIN o.args = 1 .. 4
  BY <1>1, <1>3
<1>5. PICK i \in 1 .. 4 : o.args[i] = <<id, "tracer">>
  BY Zenon, <1>4 DEF ToSet
<1>6. i # 1 /\ i # 3
  BY <1>3, <1>5
<1>7. o.args[1] = <<o.args[1][1], "spike">> /\ o.args[3] = <<o.args[3][1], "spike">>
  <2>1. o.args[1] \in Value /\ o.args[3] \in Value
    BY <1>1, <1>3
  <2> QED
    BY <1>3, <2>1 DEF Value
<1>8. o.args[1] = <<id, "spike">> \/ o.args[3] = <<id, "spike">>
  <2>1. i = 2 \/ i = 4
    BY <1>6
  <2>2. o.args[1][1] = id \/ o.args[3][1] = id
    BY <1>3, <1>5, <2>1
  <2> QED
    BY <1>7, <2>2
<1>9. 1 \in DOMAIN o.args /\ 3 \in DOMAIN o.args
  BY <1>4
<1> QED
  BY Zenon, <1>8, <1>9 DEF ToSet

LEMMA SpikeKept ==
  ASSUME NEW ops, NEW values, NEW forms, Sound(ops, values, forms), Unique(ops), Followed(values),
         NEW d \in 1 .. Len(ops), ops[d].form \in {"fused", "exec"}, Live(ops, values, d)
  PROVE  "spike" \in ops[d].outs
<1>1. /\ ops \in Seq(IROps) /\ Len(ops) \in Nat /\ DOMAIN ops = 1 .. Len(ops) /\ Defined(ops, values)
      /\ \A i \in 1 .. Len(ops) : ops[i] \in IROps /\ Shaped(ops[i])
  BY DEF Sound
<1>2. ops[d].outs # {} /\ ops[d].outs \subseteq {"spike", "tracer"}
  BY <1>1 DEF Live, Shaped
<1> SUFFICES ASSUME "tracer" \in ops[d].outs PROVE "spike" \in ops[d].outs
  BY <1>2
<1> DEFINE v == <<ops[d].id, "tracer">>
           w == <<ops[d].id, "spike">>
<1>3. /\ w[1] = ops[d].id /\ w[2] = "spike" /\ v[1] = ops[d].id /\ v[2] = "tracer"
  OBVIOUS
<1>4. Needs(ops, values, v)
  BY Zenon DEF Live
<1>5. ASSUME NEW b \in 0 .. Len(ops), Resolves(w, ops, b) PROVE "spike" \in ops[d].outs
  <2> HIDE DEF w
  <2>0. w[2] # "arg"
    BY <1>3
  <2>1. PICK j \in 1 .. b : ops[j].id = w[1] /\ w[2] \in ops[j].outs
    BY Zenon, <1>5, <2>0 DEF Resolves
  <2>2. j \in 1 .. Len(ops)
    BY <1>1
  <2>3. j = d
    BY Zenon, <1>3, <2>1, <2>2 DEF Unique
  <2> QED
    BY Zenon, <1>3, <2>1, <2>3
<1>6. CASE v \in ToSet(values)
  <2>1. w \in ToSet(values)
    <3>1. <<v[1], "spike">> \in ToSet(values)
      BY Zenon, <1>3, <1>6 DEF Followed
    <3> QED
      BY <1>3, <3>1
  <2>2. Resolves(w, ops, Len(ops))
    BY Zenon, <1>1, <2>1 DEF Defined
  <2>3. Len(ops) \in 0 .. Len(ops)
    BY <1>1
  <2> QED
    BY Zenon, <1>5, <2>2, <2>3
<1>7. ASSUME NEW i \in 1 .. Len(ops), v \in ToSet(ops[i].args) PROVE "spike" \in ops[d].outs
  <2>1. w \in ToSet(ops[i].args)
    BY <1>1, <1>7, TracerArgs
  <2>2. Resolves(w, ops, i - 1)
    BY Zenon, <1>1, <2>1 DEF Defined
  <2>3. i - 1 \in 0 .. Len(ops)
    BY <1>1
  <2> QED
    BY Zenon, <1>5, <2>2, <2>3
<1> QED
  BY Zenon, <1>4, <1>6, <1>7 DEF Needs


-----------------------------------------------------------------------------
(* The importer.                                                             *)
(* The importer has emitted what the first m nodes of the order need.       *)
Emits(g, ops, n) ==
    g.kind[n] # "input" =>
        \E j \in 1 .. Len(ops) : ops[j].id = NeuronId(n) /\ "out" \in ops[j].outs
ImportAt(g, ops, order, ids, m) ==
    /\ Topological(g, order) /\ m \in 0 .. Len(order)
    /\ Len(ids) = Len(order) - m /\ \A i \in 1 .. Len(ids) : ids[i] = order[m + i]
    /\ \A i \in 1 .. m : Emits(g, ops, order[i])
    /\ \A j \in 1 .. Len(ops) : \E i \in 1 .. m :
          ops[j].id \in {ModelId(order[i]), NeuronId(order[i])}
ImportOk(g, ops, values, ids) ==
    /\ g \in Graphs /\ values = <<>> /\ g.nodes = ToSet(Ordered(g))
    /\ \A n \in g.nodes : g.kind[n] \in Fusible \cup {"input"}
    /\ \E n \in g.nodes : Terminals(g) = {n}
    /\ Sound(ops, values, {"model", "neuron"}) /\ Unique(ops)
    /\ ids \in Seq(Nat)
    /\ \E m : ImportAt(g, ops, Ordered(g), ids, m)

GraphFacts(g) ==
    /\ IsFiniteSet(g.nodes) /\ g.nodes \subseteq Nat /\ g.edges \in Seq(Nat \X Nat)
    /\ g.kind \in [g.nodes -> STRING] /\ g.params \in [g.nodes -> SUBSET STRING]

LEMMA GraphGiven ==
  ASSUME NEW g \in Graphs
  PROVE  GraphFacts(g)
<1>1. /\ IsFiniteSet(g.nodes) /\ g.nodes \subseteq Nat /\ g.edges \in Seq(Nat \X Nat)
      /\ g.kind \in [g.nodes -> STRING] /\ g.params \in [g.nodes -> SUBSET STRING]
  BY Zenon, GraphAssumption
<1>2. IsFiniteSet(g.nodes)
  BY <1>1 DEF IsFiniteSet, IsFiniteSet
<1> QED
  BY Zenon, <1>1, <1>2 DEF GraphFacts

LEMMA EmptySound ==
  ASSUME NEW forms
  PROVE  Sound(<<>>, <<>>, forms) /\ Unique(<<>>)
BY DEF Sound, Unique, Defined, ToSet

LEMMA ImportStart ==
  ASSUME graph \in Graphs, ir = <<>>, ret = <<>>, ReadBlock
  PROVE  /\ ir' = ir /\ ret' = ret /\ graph' = graph
         /\ \/ stage' = "rejected"
            \/ stage' = "import" /\ ImportOk(graph, <<>>, <<>>, todo')
<1> DEFINE order == Ordered(graph)
<1>1. /\ ir' = ir /\ ret' = ret /\ graph' = graph
      /\ IF BlockAccepted(graph) THEN stage' = "import" /\ todo' = order
                                      ELSE stage' = "rejected"
  BY DEF ReadBlock
<1>2. SUFFICES ASSUME BlockAccepted(graph) PROVE ImportOk(graph, <<>>, <<>>, order)
  BY <1>1
<1>3. GraphFacts(graph)
  BY GraphGiven
<1>4. Topological(graph, order)
  BY <1>3, OrderedTopological DEF GraphFacts
<1>5. /\ Len(order) = Cardinality(graph.nodes)
      /\ \E n \in graph.nodes : Terminals(graph) = {n}
      /\ \A n \in graph.nodes : graph.kind[n] \in NodeKinds \cup {"input"}
  BY <1>2 DEF BlockAccepted
<1>11. \A n \in graph.nodes : graph.kind[n] \in Fusible \cup {"input"}
  BY <1>5 DEF NodeKinds, Fusible, Lowering
<1>6. graph.nodes = ToSet(order)
  BY <1>3, <1>4, <1>5, OrderedAll DEF GraphFacts
<1> HIDE DEF order
<1>7. order \in Seq(graph.nodes) /\ Len(order) \in Nat
  BY <1>4 DEF Topological
<1>8. order \in Seq(Nat)
  BY <1>3, <1>7 DEF GraphFacts
<1>9. ImportAt(graph, <<>>, order, order, 0)
  BY <1>4, <1>7 DEF ImportAt
<1>10. Sound(<<>>, <<>>, {"model", "neuron"}) /\ Unique(<<>>)
  BY EmptySound
<1> QED
  BY <1>5, <1>6, <1>8, <1>9, <1>10, <1>11 DEF ImportOk, order

(* Two operations at the end.                                               *)
Grown(s, t, a, b) ==
    /\ s \in Seq(IROps) /\ t \in Seq(IROps) /\ Len(t) = Len(s) + 2
    /\ \A i \in 1 .. Len(s) : t[i] = s[i]
    /\ t[Len(s) + 1] = a /\ t[Len(s) + 2] = b

LEMMA GrownBy ==
  ASSUME NEW s \in Seq(IROps), NEW a \in IROps, NEW b \in IROps
  PROVE  Grown(s, s \o <<a, b>>, a, b)
<1>1. <<a, b>> \in Seq(IROps) /\ Len(<<a, b>>) = 2 /\ <<a, b>>[1] = a /\ <<a, b>>[2] = b
  OBVIOUS
<1>2. /\ s \o <<a, b>> \in Seq(IROps) /\ Len(s \o <<a, b>>) = Len(s) + 2 /\ Len(s) \in Nat
      /\ \A i \in 1 .. Len(s) + 2 :
            (s \o <<a, b>>)[i] = IF i <= Len(s) THEN s[i] ELSE <<a, b>>[i - Len(s)]
  BY <1>1, ConcatProperties
<1>3. \A i \in 1 .. Len(s) : (s \o <<a, b>>)[i] = s[i]
  BY <1>2
<1>4. (s \o <<a, b>>)[Len(s) + 1] = a /\ (s \o <<a, b>>)[Len(s) + 2] = b
  BY <1>1, <1>2
<1> QED
  BY <1>2, <1>3, <1>4 DEF Grown

LEMMA ResolvesGrown ==
  ASSUME NEW s, NEW t, NEW n \in Nat, NEW v, NEW b \in 0 .. n, NEW c \in Nat, b <= c,
         \A i \in 1 .. n : t[i] = s[i], Resolves(v, s, b)
  PROVE  Resolves(v, t, c)
<1>1. CASE v[2] = "arg"
  BY <1>1 DEF Resolves
<1>2. CASE v[2] # "arg"
  <2>1. PICK j \in 1 .. b : s[j].id = v[1] /\ v[2] \in s[j].outs
    BY Zenon, <1>2 DEF Resolves
  <2>2. j \in 1 .. c /\ j \in 1 .. n
    OBVIOUS
  <2>3. t[j] = s[j]
    BY Zenon, <2>2
  <2> QED
    BY Zenon, <2>1, <2>2, <2>3 DEF Resolves
<1> QED
  BY <1>1, <1>2

(* A model operation whose operands resolve, and the neuron over it.        *)
LEMMA GrownSound ==
  ASSUME NEW s, NEW values, NEW t, NEW a, NEW b, Grown(s, t, a, b),
         Sound(s, values, {"model", "neuron"}), Unique(s),
         Shaped(a), a.form = "model", Shaped(b), b.form = "neuron",
         \A v \in ToSet(a.args) : Resolves(v, s, Len(s)),
         b.args = <<<<a.id, "acc">>>>, a.id # b.id,
         \A i \in 1 .. Len(s) : s[i].id # a.id /\ s[i].id # b.id
  PROVE  Sound(t, values, {"model", "neuron"}) /\ Unique(t)
<1> DEFINE n == Len(s)
<1>1. /\ s \in Seq(IROps) /\ t \in Seq(IROps) /\ n \in Nat /\ Len(t) = n + 2
      /\ DOMAIN s = 1 .. n /\ DOMAIN t = 1 .. Len(t)
      /\ \A i \in 1 .. n : t[i] = s[i]
      /\ t[n + 1] = a /\ t[n + 2] = b
      /\ values \in Seq(Value) /\ Defined(s, values)
      /\ \A i \in 1 .. n : Shaped(s[i]) /\ s[i].form \in {"model", "neuron"}
  BY DEF Grown, Sound
<1> HIDE DEF n
<1>2. \A i \in 1 .. Len(t) : i \in 1 .. n \/ i = n + 1 \/ i = n + 2
  BY <1>1
<1>3. ASSUME NEW v, NEW k \in 0 .. n, NEW c \in Nat, k <= c, Resolves(v, s, k)
      PROVE  Resolves(v, t, c)
  BY <1>1, <1>3, ResolvesGrown
<1>4. ASSUME NEW i \in 1 .. Len(t), NEW v \in ToSet(t[i].args)
      PROVE  Resolves(v, t, i - 1)
  <2>1. CASE i \in 1 .. n
    <3>1. v \in ToSet(s[i].args)
      BY Zenon, <1>1, <1>4, <2>1
    <3>2. Resolves(v, s, i - 1)
      BY Zenon, <1>1, <2>1, <3>1 DEF Defined
    <3>3. i - 1 \in 0 .. n /\ i - 1 \in Nat /\ i - 1 <= i - 1
      BY <1>1, <2>1
    <3> QED
      BY Zenon, <1>3, <3>2, <3>3
  <2>2. CASE i = n + 1
    <3>1. v \in ToSet(a.args)
      BY Zenon, <1>1, <1>4, <2>2
    <3>2. Resolves(v, s, n)
      BY Zenon, <3>1 DEF n
    <3>3. n \in 0 .. n /\ i - 1 \in Nat /\ n <= i - 1
      BY <1>1, <2>2
    <3> QED
      BY Zenon, <1>3, <3>2, <3>3
  <2>3. CASE i = n + 2
    <3>1. v \in ToSet(b.args)
      BY Zenon, <1>1, <1>4, <2>3
    <3>2. v = <<a.id, "acc">>
      <4>1. One(b.args, <<a.id, "acc">>)
        BY Zenon DEF One
      <4> QED
        BY <3>1, <4>1, OneMember
    <3>3. a.outs = {"acc"}
      BY DEF Shaped
    <3>4. n + 1 \in 1 .. i - 1 /\ t[n + 1].id = v[1] /\ v[2] \in t[n + 1].outs
      BY <1>1, <2>3, <3>2, <3>3
    <3> QED
      BY Zenon, <3>4 DEF Resolves
  <2> QED
    BY Zenon, <1>2, <2>1, <2>2, <2>3
<1>5. ASSUME NEW v \in ToSet(values) PROVE Resolves(v, t, Len(t))
  <2>1. Resolves(v, s, n)
    BY Zenon, <1>1 DEF Defined, n
  <2>2. n \in 0 .. n /\ Len(t) \in Nat /\ n <= Len(t)
    BY <1>1
  <2> QED
    BY Zenon, <1>3, <2>1, <2>2
<1>6. Defined(t, values)
  BY Zenon, <1>1, <1>4, <1>5 DEF Defined
<1>7. \A i \in 1 .. Len(t) : Shaped(t[i]) /\ t[i].form \in {"model", "neuron"}
  <2>1. a.form \in {"model", "neuron"} /\ b.form \in {"model", "neuron"}
    OBVIOUS
  <2> QED
    BY Zenon, <1>1, <1>2, <2>1
<1>8. Unique(t)
  <2>1. ASSUME NEW i \in 1 .. Len(t), NEW j \in 1 .. Len(t), t[i].id = t[j].id PROVE i = j
    <3>1. \A k \in 1 .. n : s[k].id # a.id /\ s[k].id # b.id
      BY DEF n
    <3>2. \A k, l \in 1 .. n : s[k].id = s[l].id => k = l
      BY DEF Unique, n
    <3> QED
      BY Zenon, <1>1, <1>2, <2>1, <3>1, <3>2
  <2> QED
    BY Zenon, <2>1 DEF Unique
<1> QED
  BY Zenon, <1>1, <1>6, <1>7, <1>8 DEF Sound

LEMMA ParentsType ==
  ASSUME NEW g, GraphFacts(g), NEW n
  PROVE  Parents(g, n) \in Seq(g.nodes)
<1> DEFINE es == Among(g.edges, g.nodes \X {n})
<1>1. g.edges \in Seq(Nat \X Nat)
  BY DEF GraphFacts
<1>2. es \in Seq(Nat \X Nat)
  BY <1>1, AmongPlaces
<1>3. PICK h \in [1 .. Len(es) -> 1 .. Len(g.edges)] : Keeps(g.edges, g.nodes \X {n}, es, h)
  BY <1>1, AmongPlaces
<1>4. Parents(g, n) = [k \in 1 .. Len(es) |-> es[k][1]]
  BY DEF Parents
<1> HIDE DEF es
<1>5. \A k \in 1 .. Len(es) : es[k] \in g.nodes \X {n}
  BY Zenon, <1>3 DEF Keeps
<1>6. \A k \in 1 .. Len(es) : es[k][1] \in g.nodes
  BY <1>5
<1>7. Len(es) \in Nat
  BY <1>2
<1> DEFINE ps == [k \in 1 .. Len(es) |-> es[k][1]]
           N == g.nodes
<1>8. \A k \in 1 .. Len(es) : es[k][1] \in N
  BY <1>6
<1> HIDE DEF N
<1>9. ps \in Seq(N)
  BY <1>7, <1>8
<1> QED
  BY <1>4, <1>9 DEF N

(* The value of a visited node resolves.                                    *)
LEMMA NodeResolves ==
  ASSUME NEW g, NEW ops, NEW n, n \in Nat, Emits(g, ops, n)
  PROVE  LET v == NodeValue(g, n)
         IN  v \in Value /\ v[2] \in {"arg", "out"} /\ Resolves(v, ops, Len(ops))
<1> DEFINE v == NodeValue(g, n)
<1>1. CASE g.kind[n] = "input"
  <2>1. v = <<n, "arg">>
    BY <1>1 DEF NodeValue
  <2> QED
    BY <2>1 DEF Value, Roles, Resolves
<1>2. CASE g.kind[n] # "input"
  <2>1. v = <<NeuronId(n), "out">> /\ NeuronId(n) \in Nat
    BY <1>2 DEF NodeValue, NeuronId
  <2>2. v[1] = NeuronId(n) /\ v[2] = "out"
    BY <2>1
  <2>3. v \in Value
    BY <2>1 DEF Value, Roles
  <2>4. PICK j \in 1 .. Len(ops) : ops[j].id = NeuronId(n) /\ "out" \in ops[j].outs
    BY Zenon, <1>2 DEF Emits
  <2> HIDE DEF v
  <2>5. Resolves(v, ops, Len(ops))
    BY Zenon, <2>2, <2>4 DEF Resolves
  <2> QED
    BY <2>2, <2>3, <2>5 DEF v
<1> QED
  BY <1>1, <1>2

(* What is emitted for a node.                                              *)
ModelOf(g, n) ==
    Operation(ModelId(n), "model", g.kind[n], g.params[n],
        [k \in 1 .. Len(Parents(g, n)) |-> NodeValue(g, Parents(g, n)[k])], {"acc"})
NeuronOf(n) ==
    Operation(NeuronId(n), "neuron", "st_bif", {}, <<<<ModelId(n), "acc">>>>, {"out"})

OperationFrom(o, id, form, kind, params, args, outs) ==
    o = Operation(id, form, kind, params, args, outs)

OperationFields(id, form, kind, params, args, outs) ==
    /\ id \in Nat /\ form \in {"model", "neuron"} /\ kind \in OpKinds
    /\ params \in SUBSET STRING /\ args \in Seq(Value) /\ outs \in SUBSET Roles

OperationIs(o, id, form, kind, args, outs) ==
    /\ o \in IROps /\ o.id = id /\ o.form = form /\ o.kind = kind
    /\ o.args = args /\ o.outs = outs

LEMMA OperationMade ==
  ASSUME NEW id, NEW form, NEW kind, NEW params, NEW args, NEW outs,
         OperationFields(id, form, kind, params, args, outs),
         NEW o, OperationFrom(o, id, form, kind, params, args, outs)
  PROVE  OperationIs(o, id, form, kind, args, outs)
BY DEF OperationFields, OperationFrom, OperationIs, Operation, IROps, Operations, Value

LEMMA EmittedOps ==
  ASSUME NEW g, GraphFacts(g), NEW ops, NEW n \in g.nodes, g.kind[n] # "input",
         g.kind[n] \in Fusible, NodeAccepted(g, n),
         \A p \in ToSet(Parents(g, n)) : Emits(g, ops, p)
  PROVE  LET a == ModelOf(g, n)
             b == NeuronOf(n)
         IN  /\ Emitted(g, n) = <<a, b>>
             /\ a \in IROps /\ Shaped(a) /\ a.form = "model" /\ a.id = ModelId(n)
             /\ \A v \in ToSet(a.args) : Resolves(v, ops, Len(ops))
             /\ b \in IROps /\ Shaped(b) /\ b.form = "neuron" /\ b.id = NeuronId(n)
             /\ b.args = <<<<a.id, "acc">>>> /\ b.outs = {"out"}
<1> DEFINE ps == Parents(g, n)
           vs == [k \in 1 .. Len(ps) |-> NodeValue(g, ps[k])]
           a == ModelOf(g, n)
           b == NeuronOf(n)
<1>1. ps \in Seq(g.nodes) /\ g.nodes \subseteq Nat /\ g.kind[n] \in OpKinds /\ g.params[n] \in SUBSET STRING
  BY ParentsType DEF GraphFacts, OpKinds
<1>2. Len(ps) = Arity(g.kind[n])
  BY DEF NodeAccepted
<1>3. Emitted(g, n) = <<a, b>>
  BY DEF Emitted, ModelOf, NeuronOf
<1> HIDE DEF ps
<1>4. \A k \in 1 .. Len(ps) : ps[k] \in ToSet(ps) /\ ps[k] \in Nat
  BY <1>1 DEF ToSet
<1>5. \A k \in 1 .. Len(ps) :
         /\ NodeValue(g, ps[k]) \in Value /\ NodeValue(g, ps[k])[2] \in {"arg", "out"}
         /\ Resolves(NodeValue(g, ps[k]), ops, Len(ops))
  BY <1>4, NodeResolves DEF ps
<1>6. /\ vs \in Seq(Value) /\ Len(vs) = Len(ps) /\ DOMAIN vs = 1 .. Len(ps)
      /\ \A k \in 1 .. Len(ps) : vs[k] = NodeValue(g, ps[k])
  BY <1>1, <1>5
<1> HIDE DEF vs
<1>7. \A v \in ToSet(vs) : v[2] \in {"arg", "out"} /\ Resolves(v, ops, Len(ops))
  BY <1>5, <1>6 DEF ToSet
<1>8. a = Operation(ModelId(n), "model", g.kind[n], g.params[n], vs, {"acc"})
  BY DEF ModelOf, vs, ps
<1>9. n \in Nat /\ ModelId(n) \in Nat /\ NeuronId(n) \in Nat
  BY <1>1 DEF ModelId, NeuronId
<1>10. /\ a \in IROps /\ a.form = "model" /\ a.id = ModelId(n) /\ a.args = vs
       /\ a.outs = {"acc"} /\ a.kind = g.kind[n]
  BY <1>1, <1>6, <1>8, <1>9 DEF Operation, IROps, Operations, Value, Roles
<1>11. Shaped(a)
  BY <1>2, <1>6, <1>7, <1>10 DEF Shaped, Roled
<1>12. /\ b \in IROps /\ b.form = "neuron" /\ b.id = NeuronId(n)
       /\ b.args = <<<<ModelId(n), "acc">>>> /\ b.outs = {"out"}
  <2> DEFINE as == <<<<ModelId(n), "acc">>>>
             outs == {"out"}
             none == {}
  <2>1. as \in Seq(Value)
    <3>1. <<ModelId(n), "acc">> \in Value
      BY <1>9 DEF Value, Roles
    <3>2. \A v \in Value : <<v>> \in Seq(Value)
      OBVIOUS
    <3> QED
      BY Zenon, <3>1, <3>2
  <2>2. outs \in SUBSET Roles /\ none \in SUBSET STRING
    BY DEF Roles
  <2>3. b = Operation(NeuronId(n), "neuron", "st_bif", none, as, outs)
    BY DEF NeuronOf
  <2> HIDE DEF as, outs, none, b
  <2>4. "neuron" \in {"model", "neuron"} /\ "st_bif" \in OpKinds
    BY DEF OpKinds
  <2>5. OperationFrom(b, NeuronId(n), "neuron", "st_bif", none, as, outs)
    BY <2>3 DEF OperationFrom
  <2>7. OperationFields(NeuronId(n), "neuron", "st_bif", none, as, outs)
    BY <1>9, <2>1, <2>2, <2>4 DEF OperationFields
  <2>6. OperationIs(b, NeuronId(n), "neuron", "st_bif", as, outs)
    BY Zenon, <2>5, <2>7, OperationMade
  <2> QED
    BY <2>6 DEF OperationIs, as, outs
<1> HIDE DEF a, b
<1>13. Shaped(b)
  <2>1. One(b.args, <<ModelId(n), "acc">>) /\ Len(b.args) = 1
    BY <1>12 DEF One
  <2>2. \A w \in ToSet(b.args) : w = <<ModelId(n), "acc">>
    BY <2>1, OneMember
  <2>3. Roled(b.args, {"arg", "acc", "out"})
    BY <2>2 DEF Roled
  <2> QED
    BY <1>12, <2>1, <2>3 DEF Shaped
<1> QED
  BY <1>3, <1>7, <1>10, <1>11, <1>12, <1>13 DEF a, b


(* The node that is emitted next.                                           *)
ToEmit(g, ops, ids, order, m, n) ==
    /\ m \in Nat /\ m + 1 \in 1 .. Len(order) /\ Len(order) \in Nat /\ order[m + 1] = n /\ n = Head(ids)
    /\ n \in g.nodes /\ n \in Nat
    /\ \A p \in ToSet(Parents(g, n)) : Emits(g, ops, p)
    /\ \A j \in 1 .. Len(ops) : ops[j].id # ModelId(n) /\ ops[j].id # NeuronId(n)

LEMMA ImportNext ==
  ASSUME NEW g, g.nodes \subseteq Nat, NEW ops, NEW order, NEW ids \in Seq(Nat), ids # <<>>,
         NEW m, ImportAt(g, ops, order, ids, m)
  PROVE  ToEmit(g, ops, ids, order, m, Head(ids))
<1> DEFINE n == Head(ids)
<1>1. /\ Topological(g, order) /\ m \in 0 .. Len(order) /\ Len(ids) = Len(order) - m
      /\ \A i \in 1 .. Len(ids) : ids[i] = order[m + i]
      /\ \A i \in 1 .. m : Emits(g, ops, order[i])
      /\ \A j \in 1 .. Len(ops) : \E i \in 1 .. m :
            ops[j].id \in {ModelId(order[i]), NeuronId(order[i])}
  BY DEF ImportAt
<1>2. /\ order \in Seq(g.nodes) /\ Len(order) \in Nat
      /\ \A i, j \in 1 .. Len(order) : order[i] = order[j] => i = j
      /\ \A i \in 1 .. Len(order) : \A p \in ToSet(Parents(g, order[i])) :
            \E j \in 1 .. i - 1 : order[j] = p
  BY <1>1 DEF Topological
<1>3. 1 \in 1 .. Len(ids) /\ Len(ids) \in Nat /\ ids[1] = Head(ids)
  BY TailFacts
<1>4. n = order[m + 1] /\ m \in Nat /\ m + 1 \in 1 .. Len(order) /\ m + 1 - 1 = m
  BY <1>1, <1>2, <1>3
<1> HIDE DEF n
<1>5. n \in g.nodes /\ n \in Nat
  BY <1>2, <1>4
<1>6. ASSUME NEW p \in ToSet(Parents(g, n)) PROVE Emits(g, ops, p)
  <2>1. p \in ToSet(Parents(g, order[m + 1]))
    BY Zenon, <1>4, <1>6
  <2> PICK q \in 1 .. Len(order) : q = m + 1
    BY <1>4
  <2>2. PICK j \in 1 .. q - 1 : order[j] = p
    BY <1>2, <2>1
  <2>3. j \in 1 .. m
    BY <1>4, <2>2
  <2>4. Emits(g, ops, order[j])
    BY Zenon, <1>1, <2>3
  <2> QED
    BY Zenon, <2>2, <2>4
<1>7. ASSUME NEW j \in 1 .. Len(ops)
      PROVE  ops[j].id # ModelId(n) /\ ops[j].id # NeuronId(n)
  <2>1. PICK i \in 1 .. m : ops[j].id \in {ModelId(order[i]), NeuronId(order[i])}
    BY Zenon, <1>1
  <2>2. i \in 1 .. Len(order) /\ i # m + 1
    BY <1>2, <1>4
  <2>3. order[i] # n
    BY <1>2, <1>4, <2>2
  <2>4. order[i] \in Nat
    BY <1>2, <2>2
  <2> DEFINE k == order[i]
  <2>5. k \in Nat /\ n \in Nat /\ k # n /\ ops[j].id \in {ModelId(k), NeuronId(k)}
    BY <1>5, <2>1, <2>3, <2>4
  <2> HIDE DEF k
  <2>6. ops[j].id = 2 * k \/ ops[j].id = 2 * k + 1
    BY <2>5 DEF ModelId, NeuronId
  <2>7. 2 * k # 2 * n /\ 2 * k + 1 # 2 * n + 1 /\ 2 * k # 2 * n + 1 /\ 2 * k + 1 # 2 * n
    BY <2>5
  <2> QED
    BY <2>6, <2>7 DEF ModelId, NeuronId
<1>8. n = Head(ids)
  BY DEF n
<1>9. ToEmit(g, ops, ids, order, m, n)
  BY Zenon, <1>2, <1>4, <1>5, <1>6, <1>7, <1>8 DEF ToEmit
<1> QED
  BY <1>9 DEF n

(* t is ops and what was emitted for n.                                     *)
EmittedFor(ops, t, n) ==
    /\ Len(ops) \in Nat /\ Len(t) \in Nat /\ Len(ops) <= Len(t)
    /\ \A i \in 1 .. Len(ops) : t[i] = ops[i]
    /\ \A i \in 1 .. Len(t) : i \in 1 .. Len(ops) \/ t[i].id \in {ModelId(n), NeuronId(n)}

LEMMA ImportAdvances ==
  ASSUME NEW g, g.nodes \subseteq Nat, NEW ops, NEW order, NEW ids \in Seq(Nat), ids # <<>>,
         NEW m, ImportAt(g, ops, order, ids, m),
         NEW t, NEW n, n = Head(ids), EmittedFor(ops, t, n), Emits(g, t, n)
  PROVE  ImportAt(g, t, order, Tail(ids), m + 1)
<1>1. ToEmit(g, ops, ids, order, m, n)
  BY ImportNext
<1>2. /\ m \in Nat /\ m + 1 \in 1 .. Len(order) /\ Len(order) \in Nat /\ order[m + 1] = n
  BY <1>1 DEF ToEmit
<1>3. /\ Topological(g, order) /\ Len(ids) = Len(order) - m
      /\ \A i \in 1 .. Len(ids) : ids[i] = order[m + i]
      /\ \A i \in 1 .. m : Emits(g, ops, order[i])
      /\ \A j \in 1 .. Len(ops) : \E i \in 1 .. m :
            ops[j].id \in {ModelId(order[i]), NeuronId(order[i])}
  BY DEF ImportAt
<1>4. /\ Len(Tail(ids)) = Len(ids) - 1 /\ Len(ids) \in Nat
      /\ \A i \in 1 .. Len(ids) - 1 : i + 1 \in 1 .. Len(ids) /\ Tail(ids)[i] = ids[i + 1]
  BY TailFacts
<1>5. Len(Tail(ids)) = Len(order) - (m + 1)
  BY <1>2, <1>3, <1>4
<1>6. ASSUME NEW i \in 1 .. Len(Tail(ids)) PROVE Tail(ids)[i] = order[m + 1 + i]
  <2>1. i \in 1 .. Len(ids) - 1 /\ i + 1 \in 1 .. Len(ids) /\ m + (i + 1) = m + 1 + i
    BY <1>2, <1>4
  <2>2. Tail(ids)[i] = ids[i + 1] /\ ids[i + 1] = order[m + (i + 1)]
    BY Zenon, <1>3, <1>4, <2>1
  <2> QED
    BY <2>1, <2>2
<1>7. ASSUME NEW k, Emits(g, ops, k) PROVE Emits(g, t, k)
  <2>1. CASE g.kind[k] = "input"
    BY <2>1 DEF Emits
  <2>2. CASE g.kind[k] # "input"
    <3>1. PICK j \in 1 .. Len(ops) : ops[j].id = NeuronId(k) /\ "out" \in ops[j].outs
      BY Zenon, <1>7, <2>2 DEF Emits
    <3>2. j \in 1 .. Len(t) /\ t[j] = ops[j]
      BY DEF EmittedFor
    <3> QED
      BY Zenon, <3>1, <3>2 DEF Emits
  <2> QED
    BY <2>1, <2>2
<1>8. \A i \in 1 .. m + 1 : i \in 1 .. m \/ i = m + 1
  BY <1>2
<1>9. \A i \in 1 .. m + 1 : Emits(g, t, order[i])
  BY Zenon, <1>2, <1>3, <1>7, <1>8
<1>10. \A i \in 1 .. m : i \in 1 .. m + 1
  BY <1>2
<1>11. m + 1 \in 1 .. m + 1 /\ m + 1 \in 0 .. Len(order)
  BY <1>2
<1>12. ASSUME NEW j \in 1 .. Len(t)
       PROVE  \E i \in 1 .. m + 1 : t[j].id \in {ModelId(order[i]), NeuronId(order[i])}
  <2>1. CASE j \in 1 .. Len(ops)
    <3>1. t[j] = ops[j]
      BY Zenon, <2>1 DEF EmittedFor
    <3> QED
      BY Zenon, <1>3, <1>10, <2>1, <3>1
  <2>2. CASE t[j].id \in {ModelId(n), NeuronId(n)}
    BY Zenon, <1>2, <1>11, <2>2
  <2> QED
    BY Zenon, <2>1, <2>2 DEF EmittedFor
<1> QED
  BY Zenon, <1>3, <1>5, <1>6, <1>9, <1>11, <1>12 DEF ImportAt

LEMMA EmitStep ==
  ASSUME ImportOk(graph, ir, ret, todo), EmitNode
  PROVE  /\ graph' = graph /\ ret' = ret
         /\ \/ stage' = "rejected" /\ ir' = ir
            \/ stage' = stage /\ ImportOk(graph, ir', ret', todo')
<1> DEFINE n == Head(todo)
           order == Ordered(graph)
           t == ir \o Emitted(graph, n)
<1>1. /\ todo # <<>> /\ graph' = graph /\ ret' = ret
      /\ IF NodeAccepted(graph, n)
           THEN ir' = t /\ todo' = Tail(todo) /\ stage' = stage
           ELSE stage' = "rejected" /\ ir' = ir
  BY DEF EmitNode
<1> SUFFICES ASSUME NodeAccepted(graph, n) PROVE ImportOk(graph, t, ret, Tail(todo))
  BY <1>1
<1>2. /\ graph \in Graphs /\ ret = <<>> /\ graph.nodes = ToSet(order)
      /\ \A k \in graph.nodes : graph.kind[k] \in Fusible \cup {"input"}
      /\ \E k \in graph.nodes : Terminals(graph) = {k}
      /\ Sound(ir, ret, {"model", "neuron"}) /\ Unique(ir)
      /\ todo \in Seq(Nat)
  BY DEF ImportOk
<1>3. PICK m : ImportAt(graph, ir, order, todo, m)
  BY Zenon DEF ImportOk
<1>4. GraphFacts(graph) /\ graph.nodes \subseteq Nat
  BY <1>2, GraphGiven DEF GraphFacts
<1>5. ToEmit(graph, ir, todo, order, m, n)
  BY <1>1, <1>2, <1>3, <1>4, ImportNext
<1>6. /\ n \in graph.nodes /\ n \in Nat
      /\ \A p \in ToSet(Parents(graph, n)) : Emits(graph, ir, p)
      /\ \A j \in 1 .. Len(ir) : ir[j].id # ModelId(n) /\ ir[j].id # NeuronId(n)
  BY <1>5 DEF ToEmit
<1>7. Tail(todo) \in Seq(Nat) /\ ir \in Seq(IROps) /\ Len(ir) \in Nat
  BY <1>1, <1>2, TailFacts DEF Sound
<1>8. n = Head(todo)
  OBVIOUS
<1> HIDE DEF n, order
<1>9. Sound(t, ret, {"model", "neuron"}) /\ Unique(t) /\ EmittedFor(ir, t, n) /\ Emits(graph, t, n)
  <2>1. CASE graph.kind[n] = "input"
    <3>1. t = ir
      BY <1>7, <2>1 DEF Emitted
    <3>2. EmittedFor(ir, ir, n)
      BY <1>7 DEF EmittedFor
    <3>3. Emits(graph, ir, n)
      BY <2>1 DEF Emits
    <3> QED
      BY <1>2, <3>1, <3>2, <3>3
  <2>2. CASE graph.kind[n] # "input"
    <3>1. PICK a, b : a = ModelOf(graph, n) /\ b = NeuronOf(n)
      OBVIOUS
    <3>2. graph.kind[n] \in Fusible
      BY <1>2, <1>6, <2>2
    <3>3. /\ Emitted(graph, n) = <<a, b>>
          /\ a \in IROps /\ Shaped(a) /\ a.form = "model" /\ a.id = ModelId(n)
          /\ \A v \in ToSet(a.args) : Resolves(v, ir, Len(ir))
          /\ b \in IROps /\ Shaped(b) /\ b.form = "neuron" /\ b.id = NeuronId(n)
          /\ b.args = <<<<a.id, "acc">>>> /\ b.outs = {"out"}
      BY <1>4, <1>6, <2>2, <3>1, <3>2, EmittedOps
    <3>4. Grown(ir, t, a, b)
      BY <1>7, <3>3, GrownBy
    <3>5. a.id # b.id
      BY <1>6, <3>3 DEF ModelId, NeuronId
    <3>6. \A i \in 1 .. Len(ir) : ir[i].id # a.id /\ ir[i].id # b.id
      BY Zenon, <1>6, <3>3
    <3> HIDE DEF t
    <3>7. Sound(t, ret, {"model", "neuron"}) /\ Unique(t)
      BY <1>2, <3>3, <3>4, <3>5, <3>6, GrownSound
    <3>8. /\ Len(t) = Len(ir) + 2 /\ \A i \in 1 .. Len(ir) : t[i] = ir[i]
          /\ t[Len(ir) + 1] = a /\ t[Len(ir) + 2] = b
      BY <3>4 DEF Grown
    <3>9. /\ Len(t) \in Nat /\ Len(ir) <= Len(t) /\ Len(ir) + 2 \in 1 .. Len(t)
          /\ \A i \in 1 .. Len(t) : i \in 1 .. Len(ir) \/ i = Len(ir) + 1 \/ i = Len(ir) + 2
      BY <1>7, <3>8
    <3>10. \A i \in 1 .. Len(t) :
              i \in 1 .. Len(ir) \/ t[i].id \in {ModelId(n), NeuronId(n)}
      BY Zenon, <3>3, <3>8, <3>9
    <3>11. EmittedFor(ir, t, n)
      BY Zenon, <1>7, <3>8, <3>9, <3>10 DEF EmittedFor
    <3>12. "out" \in b.outs
      BY <3>3
    <3>13. Emits(graph, t, n)
      BY Zenon, <3>3, <3>8, <3>9, <3>12 DEF Emits
    <3> QED
      BY <3>7, <3>11, <3>13
  <2> QED
    BY <2>1, <2>2
<1> HIDE DEF t
<1>10. ImportAt(graph, t, order, Tail(todo), m + 1)
  BY <1>1, <1>2, <1>3, <1>4, <1>8, <1>9, ImportAdvances
<1> QED
  BY Zenon, <1>2, <1>7, <1>9, <1>10 DEF ImportOk, order

(* The whole block as a function of model operations and neurons.           *)
ModelOk(ops, values) ==
    /\ Sound(ops, values, {"model", "neuron"}) /\ Unique(ops) /\ Roled(values, {"arg", "acc", "out"})

LEMMA ReturnStep ==
  ASSUME ImportOk(graph, ir, ret, todo), EmitReturn
  PROVE  /\ stage' = "model" /\ ModelOk(ir', ret') /\ UNCHANGED <<todo, replaced, graph>>
<1> DEFINE n == CHOOSE n \in Terminals(graph) : TRUE
           v == NodeValue(graph, n)
           order == Ordered(graph)
<1>1. /\ todo = <<>> /\ stage' = "model" /\ ret' = <<v>> /\ ir' = ir
      /\ UNCHANGED <<todo, replaced, graph>>
  BY DEF EmitReturn
<1>2. /\ graph \in Graphs /\ graph.nodes = ToSet(order)
      /\ \E k \in graph.nodes : Terminals(graph) = {k}
      /\ Sound(ir, ret, {"model", "neuron"}) /\ Unique(ir)
  BY DEF ImportOk
<1>3. PICK m : ImportAt(graph, ir, order, todo, m)
  BY Zenon DEF ImportOk
<1>4. graph.nodes \subseteq Nat
  BY <1>2, GraphGiven DEF GraphFacts
<1>5. n \in graph.nodes
  BY <1>2
<1> HIDE DEF n, order
<1>6. /\ Topological(graph, order) /\ m = Len(order)
      /\ \A i \in 1 .. m : Emits(graph, ir, order[i])
  BY <1>1, <1>3 DEF ImportAt, Topological
<1>7. PICK i \in 1 .. Len(order) : order[i] = n
  BY <1>2, <1>5, <1>6 DEF ToSet, Topological
<1>8. Emits(graph, ir, n)
  BY Zenon, <1>6, <1>7
<1>9. n \in Nat
  BY <1>4, <1>5
<1>10. v \in Value /\ v[2] \in {"arg", "out"} /\ Resolves(v, ir, Len(ir))
  BY <1>8, <1>9, NodeResolves
<1> HIDE DEF v
<1>11. <<v>> \in Seq(Value) /\ One(<<v>>, v)
  BY <1>10 DEF One
<1>12. \A w \in ToSet(<<v>>) : w = v
  BY <1>11, OneMember
<1>13. Defined(ir, <<v>>)
  BY Zenon, <1>2, <1>10, <1>12 DEF Sound, Defined
<1>14. Sound(ir, <<v>>, {"model", "neuron"})
  BY Zenon, <1>2, <1>11, <1>13 DEF Sound
<1>15. Roled(<<v>>, {"arg", "acc", "out"})
  BY <1>10, <1>12 DEF Roled
<1> QED
  BY <1>1, <1>2, <1>14, <1>15 DEF ModelOk


-----------------------------------------------------------------------------
(* A function before the fusion, imported or written by hand.                *)
LEMMA FunctionStart ==
  ASSUME NEW f \in Functions
  PROVE  ModelOk(f.ir, f.ret)
<1> DEFINE ops == f.ir
           values == f.ret
<1>1. /\ ops \in Seq(Operations({"model", "neuron"}))
      /\ values \in Seq(Nat \X {"arg", "acc", "out"})
      /\ \A j, k \in DOMAIN ops : ops[j].id = ops[k].id => j = k
      /\ Defined(ops, values)
  BY Zenon, FunctionAssumption
<1>2. \A k \in DOMAIN ops :
         /\ ops[k].form = "neuron" => ops[k].outs = {"out"} /\ Len(ops[k].args) = 1
         /\ ops[k].form = "model" => ops[k].outs = {"acc"}
         /\ ops[k].form = "model" /\ ops[k].kind \in Fusible =>
               Len(ops[k].args) = Arity(ops[k].kind)
  BY FunctionAssumption
<1> HIDE DEF ops, values
<1>3. DOMAIN ops = 1 .. Len(ops) /\ \A k \in 1 .. Len(ops) : ops[k] \in Operations({"model", "neuron"})
  BY <1>1
<1>4. /\ \A o \in Operations({"model", "neuron"}) : o \in IROps
      /\ \A o \in Operations({"model", "neuron"}) : o.form \in {"model", "neuron"}
  BY DEF Operations, IROps
<1>5. ops \in Seq(IROps)
  BY <1>1, <1>4
<1>6. values \in Seq(Value) /\ \A i \in 1 .. Len(values) : values[i][2] \in {"arg", "acc", "out"}
  BY <1>1 DEF Value, Roles
<1>7. Roled(values, {"arg", "acc", "out"})
  BY <1>6 DEF Roled, ToSet
<1>8. ASSUME NEW j, NEW role, NEW k \in 1 .. Len(ops), role \in ops[k].outs
      PROVE  role \in {"arg", "acc", "out"}
  BY <1>2, <1>3, <1>4, <1>8
<1>9. ASSUME NEW k \in 1 .. Len(ops) PROVE Roled(ops[k].args, {"arg", "acc", "out"})
  <2>1. ASSUME NEW v \in ToSet(ops[k].args) PROVE v[2] \in {"arg", "acc", "out"}
    <3>1. Resolves(v, ops, k - 1)
      BY <1>1, <1>3, <2>1 DEF Defined
    <3>2. CASE v[2] = "arg"
      BY <3>2
    <3>3. CASE v[2] # "arg"
      <4>1. PICK j \in 1 .. k - 1 : v[2] \in ops[j].outs
        BY <3>1, <3>3 DEF Resolves
      <4>2. j \in 1 .. Len(ops)
        BY <1>1
      <4> QED
        BY Zenon, <1>8, <4>1, <4>2
    <3> QED
      BY <3>2, <3>3
  <2> QED
    BY <2>1 DEF Roled
<1>10. ASSUME NEW k \in 1 .. Len(ops) PROVE Shaped(ops[k]) /\ ops[k].form \in {"model", "neuron"}
  <2>1. ops[k].form \in {"model", "neuron"}
    BY Zenon, <1>3, <1>4
  <2>2. ops[k].form \notin {"fused", "exec"}
    BY <2>1
  <2> QED
    BY Zenon, <1>2, <1>3, <1>9, <2>1, <2>2 DEF Shaped
<1>11. Sound(ops, values, {"model", "neuron"})
  BY Zenon, <1>1, <1>5, <1>6, <1>10 DEF Sound
<1>12. Unique(ops)
  BY <1>1, <1>3 DEF Unique
<1>13. ModelOk(ops, values)
  BY <1>7, <1>11, <1>12 DEF ModelOk
<1> QED
  BY <1>13 DEF ops, values

(* A rescale merged or an unused operation dropped.                          *)
LEMMA CanonicalizeStep ==
  ASSUME ModelOk(ir, ret), Canonicalize
  PROVE  ModelOk(ir', ret') /\ UNCHANGED <<graph, ret, stage, todo, replaced>>
<1>1. /\ UNCHANGED <<graph, ret, stage, todo, replaced>>
      /\ Sound(ir, ret, {"model", "neuron"}) /\ Unique(ir) /\ Roled(ret, {"arg", "acc", "out"})
      /\ ir \in Seq(IROps) /\ DOMAIN ir = 1 .. Len(ir)
  BY DEF Canonicalize, ModelOk, Sound
<1>2. PICK k \in 1 .. Len(ir) :
         \/ Merges(k) /\ ir' = [ir EXCEPT ![k] = Merged(k)]
         \/ Dead(k) /\ ir' = RemoveAt(ir, k)
  BY <1>1 DEF Canonicalize
<1>3. CASE Merges(k) /\ ir' = [ir EXCEPT ![k] = Merged(k)]
  <2>1. Sound(ir', ret, {"model", "neuron"}) /\ Unique(ir')
    BY <1>1, <1>3, MergeSound
  <2> QED
    BY <1>1, <2>1 DEF ModelOk
<1>4. CASE Dead(k) /\ ir' = RemoveAt(ir, k)
  <2>1. \A role \in ir[k].outs : ~ Needs(ir, ret, <<ir[k].id, role>>)
    BY <1>1, <1>4, UsedNeeds DEF Dead
  <2>2. Sound(ir', ret, {"model", "neuron"}) /\ Unique(ir')
    BY <1>1, <1>4, <2>1, RemoveSound
  <2> QED
    BY <1>1, <2>2 DEF ModelOk
<1> QED
  BY <1>2, <1>3, <1>4

(* The candidates of the fusion, in the order of the neurons.                *)
LEMMA CollectStep ==
  ASSUME ModelOk(ir, ret), replaced = {}, Collect
  PROVE  \/ stage' = "failed" /\ UNCHANGED <<ir, ret>>
         \/ stage' = "fuse" /\ FuseInv'
<1> DEFINE neurons == NeuronOps
           ids == Ids(neurons)
<1>1. /\ UNCHANGED <<ir, ret, replaced>>
      /\ IF \A n \in ToSet(neurons) : Pairable(n)
           THEN stage' = "fuse" /\ todo' = ids ELSE stage' = "failed"
  BY DEF Collect
<1> SUFFICES ASSUME \A n \in ToSet(neurons) : Pairable(n) PROVE FuseOk(ir, ret, ids, {})
  BY <1>1 DEF FuseInv
<1>2. Sound(ir, ret, {"model", "neuron"}) /\ Unique(ir) /\ Roled(ret, {"arg", "acc", "out"})
  BY DEF ModelOk
<1>3. /\ ids \in Seq(Nat) /\ Waiting(ir, ids, {})
      /\ \A i \in 1 .. Len(ir) : ir[i].form = "neuron" => ir[i] \in ToSet(neurons)
  BY <1>2, CollectedWaiting
<1>4. PairedUp(ir, ret)
  BY <1>2, <1>3, CollectedPairs
<1> HIDE DEF ids, neurons
<1>5. Sound(ir, ret, FuseForms)
  BY <1>2 DEF Sound, FuseForms
<1>6. Distinct(ir)
  BY <1>2 DEF Unique, Distinct, Sound
<1>7. FusedPairs(ir, {})
  BY <1>2 DEF FusedPairs, Sound
<1> QED
  BY <1>2, <1>3, <1>4, <1>5, <1>6, <1>7 DEF FuseOk


-----------------------------------------------------------------------------
(* What holds in every stage of the compiler.                               *)
StageOk(st, g, ops, values, ids, done) ==
    \/ st = "nir" /\ g \in Graphs /\ ops = <<>> /\ values = <<>> /\ done = {}
    \/ st = "import" /\ ImportOk(g, ops, values, ids) /\ done = {}
    \/ st \in {"model", "canonicalize"} /\ ModelOk(ops, values) /\ done = {}
    \/ st = "fuse" /\ FuseOk(ops, values, ids, done)
    \/ st = "fused" /\ Sound(ops, values, {"model", "fused"}) /\ Unique(ops) /\ Followed(values)
    \/ st = "dce" /\ DceOk(ops, values, ids)
    \/ st = "lower" /\ LowerOk(ops, values, ids, LoweringForms)
    \/ st = "exec" /\ LowerOk(ops, values, ids, {"exec"})
    \/ st \in {"failed", "rejected"} /\ Defined(ops, values)
    \/ st = "dangling"
PassInv == StageOk(stage, graph, ir, ret, todo, replaced)

LEMMA PassInvInit ==
  ASSUME PassInit
  PROVE  PassInv
<1>1. CASE graph \in Graphs /\ stage = "nir" /\ ir = <<>> /\ ret = <<>>
  BY <1>1 DEF PassInit, PassInv, StageOk
<1>2. CASE stage = "model" /\ source \in Functions /\ ir = source.ir /\ ret = source.ret
  <2>1. ModelOk(ir, ret)
    BY <1>2, FunctionStart
  <2> QED
    BY <1>2, <2>1 DEF PassInit, PassInv, StageOk
<1> QED
  BY <1>1, <1>2 DEF PassInit

LEMMA StageDefined ==
  ASSUME PassInv, stage # "dangling"
  PROVE  Defined(ir, ret)
<1>1. \/ ir = <<>> /\ ret = <<>>
      \/ \E forms : Sound(ir, ret, forms)
      \/ Defined(ir, ret)
  BY DEF PassInv, StageOk, ImportOk, ModelOk, FuseOk, DceOk, LowerOk
<1>2. Defined(<<>>, <<>>)
  BY DEF Defined, ToSet
<1> QED
  BY Zenon, <1>1, <1>2 DEF Sound

LEMMA PassInvNext ==
  ASSUME PassInv, PassNext
  PROVE  PassInv'
<1>1. CASE ReadBlock
  <2>1. stage = "nir" /\ replaced' = replaced
    BY <1>1 DEF ReadBlock
  <2>2. graph \in Graphs /\ ir = <<>> /\ ret = <<>> /\ replaced = {}
    BY <2>1 DEF PassInv, StageOk
  <2>3. /\ ir' = <<>> /\ ret' = <<>> /\ graph' = graph
        /\ \/ stage' = "rejected"
           \/ stage' = "import" /\ ImportOk(graph, <<>>, <<>>, todo')
    BY <1>1, <2>2, ImportStart
  <2>4. Defined(<<>>, <<>>)
    BY DEF Defined, ToSet
  <2> QED
    BY <2>1, <2>2, <2>3, <2>4 DEF PassInv, StageOk
<1>2. CASE EmitNode
  <2>1. stage = "import" /\ replaced' = replaced
    BY <1>2 DEF EmitNode
  <2>2. ImportOk(graph, ir, ret, todo) /\ replaced = {}
    BY <2>1 DEF PassInv, StageOk
  <2>3. /\ graph' = graph /\ ret' = ret
        /\ \/ stage' = "rejected" /\ ir' = ir
           \/ stage' = stage /\ ImportOk(graph, ir', ret', todo')
    BY <1>2, <2>2, EmitStep
  <2>4. Defined(ir, ret)
    BY <2>2 DEF ImportOk, Sound
  <2> QED
    BY <2>1, <2>2, <2>3, <2>4 DEF PassInv, StageOk
<1>3. CASE EmitReturn
  <2>1. stage = "import"
    BY <1>3 DEF EmitReturn
  <2>2. ImportOk(graph, ir, ret, todo) /\ replaced = {}
    BY <2>1 DEF PassInv, StageOk
  <2>3. stage' = "model" /\ ModelOk(ir', ret') /\ replaced' = replaced
    BY <1>3, <2>2, ReturnStep
  <2> QED
    BY <2>2, <2>3 DEF PassInv, StageOk
<1>4. CASE StartCanonicalize
  <2>1. stage = "model" /\ stage' = "canonicalize" /\ UNCHANGED <<ir, ret, replaced>>
    BY <1>4 DEF StartCanonicalize
  <2>2. ModelOk(ir, ret) /\ replaced = {}
    BY <2>1 DEF PassInv, StageOk
  <2> QED
    BY <2>1, <2>2 DEF PassInv, StageOk
<1>5. CASE Canonicalize
  <2>1. stage = "canonicalize"
    BY <1>5 DEF Canonicalize
  <2>2. ModelOk(ir, ret) /\ replaced = {}
    BY <2>1 DEF PassInv, StageOk
  <2>3. ModelOk(ir', ret') /\ UNCHANGED <<stage, replaced>>
    BY <1>5, <2>2, CanonicalizeStep
  <2> QED
    BY <2>1, <2>2, <2>3 DEF PassInv, StageOk
<1>6. CASE Collect
  <2>1. stage \in {"model", "canonicalize"}
    BY <1>6 DEF Collect
  <2>2. ModelOk(ir, ret) /\ replaced = {}
    BY <2>1 DEF PassInv, StageOk
  <2>3. \/ stage' = "failed" /\ UNCHANGED <<ir, ret>>
        \/ stage' = "fuse" /\ FuseInv'
    BY <1>6, <2>2, CollectStep
  <2>4. Defined(ir, ret)
    BY <2>2 DEF ModelOk, Sound
  <2> QED
    BY <2>3, <2>4 DEF PassInv, StageOk, FuseInv
<1>7. CASE FuseOne
  <2>1. stage = "fuse"
    BY <1>7 DEF FuseOne
  <2>2. FuseInv
    BY <2>1 DEF PassInv, StageOk, FuseInv
  <2>3. \/ stage' = "failed" /\ UNCHANGED <<ir, ret, todo, replaced>>
        \/ stage' = "fuse" /\ FuseInv'
    BY <1>7, <2>2, FuseStep
  <2>4. Defined(ir, ret)
    BY <2>2 DEF FuseInv, FuseOk, Sound
  <2> QED
    BY <2>3, <2>4 DEF PassInv, StageOk, FuseInv
<1>8. CASE FinishFuse
  <2>1. stage = "fuse"
    BY <1>8 DEF FinishFuse
  <2>2. FuseInv
    BY <2>1 DEF PassInv, StageOk, FuseInv
  <2>3. \/ stage' = "dangling"
        \/ /\ stage' = "fused" /\ todo' = todo
           /\ Sound(ir', ret', {"model", "fused"}) /\ Unique(ir') /\ Followed(ret')
    BY <1>8, <2>2, FinishStep
  <2> QED
    BY <2>3 DEF PassInv, StageOk
<1>9. CASE StartDce
  <2>1. stage = "fused"
    BY <1>9 DEF StartDce
  <2>2. Sound(ir, ret, {"model", "fused"}) /\ Unique(ir) /\ Followed(ret)
    BY <2>1 DEF PassInv, StageOk
  <2>3. DceOk(ir', ret', todo') /\ stage' = "dce"
    BY <1>9, <2>2, DceStart
  <2> QED
    BY <2>3 DEF PassInv, StageOk
<1>10. CASE DceOne
  <2>1. stage = "dce"
    BY <1>10 DEF DceOne
  <2>2. DceOk(ir, ret, todo)
    BY <2>1 DEF PassInv, StageOk
  <2>3. DceOk(ir', ret', todo') /\ stage' = stage
    BY <1>10, <2>2, DceStep
  <2> QED
    BY <2>1, <2>3 DEF PassInv, StageOk
<1>11. CASE StartLowering
  <2>1. stage = "dce"
    BY <1>11 DEF StartLowering
  <2>2. DceOk(ir, ret, todo)
    BY <2>1 DEF PassInv, StageOk
  <2>3. LowerOk(ir', ret', todo', LoweringForms) /\ stage' = "lower"
    BY <1>11, <2>2, LowerStart
  <2> QED
    BY <2>3 DEF PassInv, StageOk
<1>12. CASE LowerOne
  <2>1. stage = "lower"
    BY <1>12 DEF LowerOne
  <2>2. LowerOk(ir, ret, todo, LoweringForms)
    BY <2>1 DEF PassInv, StageOk
  <2>3. LowerOk(ir', ret', todo', LoweringForms) /\ stage' = stage
    BY <1>12, <2>2, LowerStep
  <2> QED
    BY <2>1, <2>3 DEF PassInv, StageOk
<1>13. CASE CheckLowered
  <2>1. stage = "lower"
    BY <1>13 DEF CheckLowered
  <2>2. LowerOk(ir, ret, todo, LoweringForms)
    BY <2>1 DEF PassInv, StageOk
  <2>3. \/ stage' = "failed" /\ UNCHANGED <<ir, ret>>
        \/ stage' = "exec" /\ LowerOk(ir', ret', todo', {"exec"})
    BY <1>13, <2>2, LowerCheck
  <2>4. Defined(ir, ret)
    BY <2>2 DEF LowerOk, Sound
  <2> QED
    BY <2>3, <2>4 DEF PassInv, StageOk
<1>14. CASE RefuseFunction
  <2>1. stage \in {"fuse", "fused", "lower"} /\ stage' = "failed" /\ UNCHANGED <<ir, ret>>
    BY <1>14 DEF RefuseFunction
  <2>2. Defined(ir, ret)
    BY <2>1, StageDefined
  <2> QED
    BY <2>1, <2>2 DEF PassInv, StageOk
<1> QED
  BY <1>1, <1>2, <1>3, <1>4, <1>5, <1>6, <1>7, <1>8, <1>9, <1>10, <1>11, <1>12, <1>13, <1>14
  DEF PassNext

LEMMA PassInductive == PassSpec => []PassInv
<1>1. PassInit => PassInv
  BY PassInvInit
<1>2. PassInv /\ [PassNext]_passVars => PassInv'
  <2>1. CASE PassNext
    BY <2>1, PassInvNext
  <2>2. CASE UNCHANGED passVars
    BY <2>2 DEF passVars, PassInv
  <2> QED
    BY <2>1, <2>2
<1> QED
  BY <1>1, <1>2, PTL DEF PassSpec

(* Between the steps of the importer and of every pass each operand and each *)
(* returned value is an argument or the result of an earlier operation, for  *)
(* every block and every function, unless the fusion erased an st_bif in use.*)
THEOREM OperandsAlwaysDefined == PassSpec => []DefBeforeUse
<1>1. PassInv => DefBeforeUse
  BY StageDefined DEF DefBeforeUse
<1> QED
  BY <1>1, PassInductive, PTL


-----------------------------------------------------------------------------
(* What the verifiers ask of the results.                                    *)
LEMMA ResultCount ==
  ASSUME NEW outs, outs \subseteq {"spike", "tracer"}, outs # {}
  PROVE  Cardinality(outs) \in 1 .. 2
<1>1. Cardinality(outs) = Cardinality(outs)
  BY DEF Cardinality, Cardinality, IsFiniteSet, IsFiniteSet
<1>2. outs = {"spike"} \/ outs = {"tracer"} \/ outs = {"spike", "tracer"}
  OBVIOUS
<1>3. Cardinality({"spike"}) = 1 /\ Cardinality({"tracer"}) = 1
  BY FS_Singleton
<1>4. IsFiniteSet({"spike"}) /\ "tracer" \notin {"spike"}
  BY FS_Singleton
<1>5. Cardinality({"spike"} \cup {"tracer"}) = Cardinality({"spike"}) + 1
  BY <1>4, FS_AddElement
<1>6. {"spike"} \cup {"tracer"} = {"spike", "tracer"}
  OBVIOUS
<1> QED
  BY <1>1, <1>2, <1>3, <1>5, <1>6

(* The verifiers of the fused operations and of fire.                        *)
LEMMA FusedShape ==
  ASSUME NEW o, Shaped(o), o.form \in {"fused", "exec"}, o.outs # {}
  PROVE  FusedVerified(o) /\ FireVerified(o)
<1>1. /\ o.outs \subseteq {"spike", "tracer"}
      /\ o.kind \in Attention => Paired(o)
      /\ o.kind \notin Attention => Roled(o.args, {"arg", "acc", "spike"})
  BY DEF Shaped
<1>2. verifyFusedResults(o) /\ FireVerified(o)
  BY <1>1 DEF verifyFusedResults, FireVerified
<1>3. ASSUME o.kind \in Attention PROVE AttentionVerified(o)
  BY <1>1, <1>3 DEF Paired, AttentionVerified, verifySpikeTracerOperands
<1>4. ASSUME o.kind = "residual" PROVE ResidualVerified(o)
  <2>1. Roled(o.args, {"arg", "acc", "spike"})
    BY <1>1, <1>4 DEF Attention
  <2> QED
    BY <2>1 DEF Roled, ResidualVerified
<1> QED
  BY Zenon, <1>2, <1>3, <1>4 DEF FusedVerified

(* In a lowered function an operand is an argument or the spike of a generic. *)
LEMMA ExecShape ==
  ASSUME NEW ops, NEW values, Sound(ops, values, {"exec"}), NEW d \in 1 .. Len(ops), ops[d].outs # {}
  PROVE  ExecVerified(ops[d])
<1> DEFINE o == ops[d]
<1>1. /\ Shaped(o) /\ o.form = "exec" /\ o.args \in Seq(Value) /\ ops \in Seq(IROps)
      /\ \A i \in 1 .. Len(ops) : ops[i].outs \subseteq {"spike", "tracer"}
  <2>1. \A i \in 1 .. Len(ops) : Shaped(ops[i]) /\ ops[i].form = "exec"
    BY DEF Sound
  <2>2. \A i \in 1 .. Len(ops) : ops[i].outs \subseteq {"spike", "tracer"}
    BY <2>1 DEF Shaped
  <2>3. ops \in Seq(IROps) /\ o \in IROps
    BY DEF Sound
  <2>4. o.args \in Seq(Value)
    BY <2>3, OpFields
  <2> QED
    BY <2>1, <2>2, <2>3, <2>4
<1>2. \A v \in ToSet(o.args) : v[2] \in {"arg", "spike", "tracer"}
  <2>1. ASSUME NEW v \in ToSet(o.args) PROVE v[2] \in {"arg", "spike", "tracer"}
    <3>1. Resolves(v, ops, d - 1)
      BY <2>1 DEF Sound, Defined
    <3>2. CASE v[2] = "arg"
      BY <3>2
    <3>3. CASE v[2] # "arg"
      <4>1. PICK j \in 1 .. d - 1 : v[2] \in ops[j].outs
        BY <3>1, <3>3 DEF Resolves
      <4>2. j \in 1 .. Len(ops)
        BY <1>1
      <4> QED
        BY <1>1, <4>1, <4>2
    <3> QED
      BY <3>2, <3>3
  <2> QED
    BY <2>1
<1>3. FireVerified(o) /\ Cardinality(o.outs) \in 1 .. 2
  <2>1. o.outs \subseteq {"spike", "tracer"}
    BY <1>1
  <2> QED
    BY <1>1, <2>1, FusedShape, ResultCount
<1> SUFFICES ExecVerified(o)
  OBVIOUS
<1>4. /\ o.kind \in Fusible
      /\ o.kind \in Attention => Paired(o)
      /\ o.kind \notin Attention =>
            Len(o.args) = Arity(o.kind) /\ Roled(o.args, {"arg", "acc", "spike"})
  BY <1>1 DEF Shaped
<1> HIDE DEF o
<1>5. \A k \in 1 .. Len(o.args) : o.args[k] \in ToSet(o.args)
  BY <1>1 DEF ToSet
<1>6. Len(o.args) >= 1
  BY <1>4 DEF Paired, Arity
<1>7. o.args # <<>>
  BY <1>6
<1>8. ASSUME NEW e \in ToSet(Deltas(o))
      PROVE  IF e.op = "SS" THEN SSVerified(e.inputs) ELSE WeightedVerified(e.inputs[1])
  <2>1. CASE o.kind \in Attention
    <3>1. Lowering[o.kind] = "SS"
      BY <2>1 DEF Lowering, Attention
    <3>2. One(Deltas(o), [op |-> "SS", inputs |-> o.args])
      BY <3>1 DEF Deltas, One
    <3>3. e = [op |-> "SS", inputs |-> o.args]
      BY <1>8, <3>2, OneMember
    <3>4. \A k \in {1, 3} : o.args[k][2] = "spike" /\ o.args[k + 1][2] = "tracer"
      BY <1>4, <2>1 DEF Paired
    <3> QED
      BY <3>3, <3>4 DEF SSVerified
  <2>2. CASE o.kind \notin Attention
    <3>1. \A k \in 1 .. Len(o.args) : o.args[k][2] \in {"arg", "spike"}
      BY <1>2, <1>4, <1>5, <2>2 DEF Roled
    <3>2. e.op # "SS" /\ e.inputs[1] \in ToSet(o.args)
      <4>1. CASE o.kind = "residual"
        <5>1. Lowering[o.kind] = "Residual" /\ Len(o.args) = 2
          BY <1>4, <2>2, <4>1 DEF Lowering, Arity
        <5>2. Deltas(o) = [k \in 1 .. 2 |-> [op |-> "SW", inputs |-> <<o.args[k]>>]]
          BY <5>1 DEF Deltas
        <5>3. PICK k \in 1 .. 2 : e = [op |-> "SW", inputs |-> <<o.args[k]>>]
          BY <1>8, <5>2 DEF ToSet
        <5> QED
          BY <1>5, <5>1, <5>3
      <4>2. CASE o.kind # "residual"
        <5>1. Lowering[o.kind] \in {"SW", "Mul", "Reduce"}
          BY <1>4, <2>2, <4>2 DEF Lowering, Attention, Fusible
        <5>2. One(Deltas(o), [op |-> Lowering[o.kind], inputs |-> <<o.args[1]>>])
          BY <5>1 DEF Deltas, One
        <5>3. e = [op |-> Lowering[o.kind], inputs |-> <<o.args[1]>>]
          BY <1>8, <5>2, OneMember
        <5> QED
          BY <1>1, <1>5, <1>6, <5>1, <5>3
      <4> QED
        BY <4>1, <4>2
    <3>3. e.inputs[1][2] \in {"arg", "spike"}
      <4>1. \A v \in ToSet(o.args) : v[2] \in {"arg", "spike"}
        BY <1>2, <1>4, <2>2 DEF Roled
      <4> QED
        BY <3>2, <4>1
    <3> QED
      BY <3>2, <3>3 DEF WeightedVerified
  <2> QED
    BY <2>1, <2>2
<1> QED
  BY <1>3, <1>7, <1>8 DEF ExecVerified, GenericVerified

(* Every result in use, the spike among them.                                *)
LEMMA LoweredLive ==
  ASSUME NEW forms, LowerOk(ir, ret, todo, forms), NEW o \in ToSet(ir), o.form \in {"fused", "exec"}
  PROVE  /\ \A role \in o.outs : Used(ir, ret, <<o.id, role>>)
         /\ "spike" \in o.outs /\ FusedVerified(o)
         /\ forms = {"exec"} => ExecVerified(o)
<1>1. /\ Sound(ir, ret, forms) /\ Unique(ir) /\ Followed(ret) /\ ir \in Seq(IROps)
      /\ \A d \in 1 .. Len(ir) : ir[d].form \in {"fused", "exec"} => Live(ir, ret, d)
  BY DEF LowerOk, Sound
<1>2. PICK d \in 1 .. Len(ir) : ir[d] = o
  BY <1>1 DEF ToSet
<1>3. Live(ir, ret, d) /\ Shaped(ir[d])
  BY <1>1, <1>2 DEF Sound
<1>4. "spike" \in ir[d].outs
  BY <1>1, <1>2, <1>3, SpikeKept
<1>5. \A role \in o.outs : Used(ir, ret, <<o.id, role>>)
  BY <1>1, <1>2, <1>3, UsedNeeds DEF Live
<1>6. FusedVerified(o)
  BY <1>2, <1>3, <1>4, FusedShape
<1>7. forms = {"exec"} => ExecVerified(o)
  BY <1>1, <1>2, <1>4, ExecShape
<1> QED
  BY <1>2, <1>4, <1>5, <1>6, <1>7

(* One backward pass of the elimination leaves no unused result to lower and *)
(* no tracer without its spike, and what is fused or lowered passes the      *)
(* verifiers of its dialect, for every block and function.                   *)
THEOREM NothingDeadIsLowered == PassSpec => []NothingDeadLeft
<1>1. PassInv => NothingDeadLeft
  <2>1. ASSUME PassInv, stage \in {"lower", "exec"}, NEW o \in ToSet(ir), o.form \in {"fused", "exec"}
        PROVE  /\ \A role \in o.outs : Used(ir, ret, <<o.id, role>>)
               /\ "spike" \in o.outs /\ FusedVerified(o)
               /\ stage = "exec" => ExecVerified(o)
    <3>1. CASE stage = "lower"
      <4>1. LowerOk(ir, ret, todo, LoweringForms)
        BY <2>1, <3>1 DEF PassInv, StageOk
      <4> QED
        BY <2>1, <3>1, <4>1, LoweredLive
    <3>2. CASE stage = "exec"
      <4>1. LowerOk(ir, ret, todo, {"exec"})
        BY <2>1, <3>2 DEF PassInv, StageOk
      <4> QED
        BY <2>1, <4>1, LoweredLive
    <3> QED
      BY <2>1, <3>1, <3>2
  <2> QED
    BY <2>1 DEF NothingDeadLeft
<1> QED
  BY <1>1, PassInductive, PTL


-----------------------------------------------------------------------------
(* Attention on the block input, which no pass accepts.                     *)
Fed(g) ==
    \E n \in g.nodes : /\ g.kind[n] \in Attention
                       /\ \E p \in ToSet(Parents(g, n)) : g.kind[p] = "input"

(* What the importer makes, and that every model operation has its neuron.  *)
EmittedForm(o) ==
    /\ o.td = 0
    /\ o.form = "model" =>
          /\ o.kind \in Fusible /\ Roled(o.args, {"arg", "out"})
          /\ o.kind \in Attention => Roled(o.args, {"out"})
    /\ o.form = "neuron" => o.args[1] = <<o.id - 1, "acc">>
AsEmitted(ops) == \A k \in 1 .. Len(ops) : EmittedForm(ops[k])
Fires(ops, j, id) == ops[j].form = "neuron" /\ ops[j].args[1] = <<id, "acc">>
NeuronEach(ops) ==
    \A k \in 1 .. Len(ops) : ops[k].form = "model" =>
        \E j \in 1 .. Len(ops) : Fires(ops, j, ops[k].id)

LEMMA EmittedForms ==
  ASSUME NEW g, GraphFacts(g), ~ Fed(g), NEW n \in g.nodes,
         g.kind[n] \in Fusible
  PROVE  EmittedForm(ModelOf(g, n)) /\ EmittedForm(NeuronOf(n))
<1> DEFINE ps == Parents(g, n)
           vs == [k \in 1 .. Len(ps) |-> NodeValue(g, ps[k])]
           a == ModelOf(g, n)
           b == NeuronOf(n)
<1>1. ps \in Seq(g.nodes) /\ n \in Nat
  BY ParentsType DEF GraphFacts
<1>2. /\ a.td = 0 /\ a.form = "model" /\ a.kind = g.kind[n] /\ a.args = vs
      /\ b.td = 0 /\ b.form = "neuron" /\ b.id = 2 * n + 1
      /\ b.args[1] = <<2 * n, "acc">>
  BY DEF ModelOf, NeuronOf, Operation, ModelId, NeuronId
<1> HIDE DEF a, b, ps
<1>3. /\ DOMAIN vs = 1 .. Len(ps)
      /\ \A k \in 1 .. Len(ps) : ps[k] \in ToSet(ps) /\ vs[k] = NodeValue(g, ps[k])
  BY <1>1 DEF ToSet
<1> HIDE DEF vs
<1>4. \A p : NodeValue(g, p)[2] \in {"arg", "out"}
  BY DEF NodeValue
<1>5. \A p : g.kind[p] # "input" => NodeValue(g, p)[2] = "out"
  BY DEF NodeValue
<1>6. Roled(vs, {"arg", "out"})
  BY <1>3, <1>4 DEF Roled, ToSet
<1>7. ASSUME g.kind[n] \in Attention PROVE Roled(vs, {"out"})
  <2>1. \A k \in 1 .. Len(ps) : g.kind[ps[k]] # "input"
    BY Zenon, <1>3, <1>7 DEF Fed, ps
  <2> QED
    BY <1>3, <1>5, <2>1 DEF Roled, ToSet
<1>8. EmittedForm(a)
  BY <1>2, <1>6, <1>7 DEF EmittedForm
<1>9. b.id - 1 = 2 * n
  BY <1>1, <1>2
<1>10. EmittedForm(b)
  BY <1>2, <1>9 DEF EmittedForm
<1> QED
  BY <1>8, <1>10 DEF a, b

LEMMA EmitCompiles ==
  ASSUME ImportOk(graph, ir, ret, todo), ~ Fed(graph),
         AsEmitted(ir), NeuronEach(ir), EmitNode
  PROVE  \/ stage' = "rejected"
         \/ stage' = stage /\ AsEmitted(ir') /\ NeuronEach(ir')
<1> DEFINE n == Head(todo)
           t == ir \o Emitted(graph, n)
<1>1. /\ todo # <<>>
      /\ IF NodeAccepted(graph, n)
           THEN ir' = t /\ stage' = stage
           ELSE stage' = "rejected"
  BY DEF EmitNode
<1> SUFFICES ASSUME NodeAccepted(graph, n) PROVE AsEmitted(t) /\ NeuronEach(t)
  BY <1>1
<1>2. /\ graph \in Graphs /\ todo \in Seq(Nat) /\ Sound(ir, ret, {"model", "neuron"})
      /\ \A k \in graph.nodes : graph.kind[k] \in Fusible \cup {"input"}
      /\ \E m : ImportAt(graph, ir, Ordered(graph), todo, m)
  BY Zenon DEF ImportOk
<1>3. PICK m : ImportAt(graph, ir, Ordered(graph), todo, m)
  BY Zenon, <1>2
<1>4. GraphFacts(graph) /\ graph.nodes \subseteq Nat
  BY <1>2, GraphGiven DEF GraphFacts
<1>5. ToEmit(graph, ir, todo, Ordered(graph), m, n)
  BY <1>1, <1>2, <1>3, <1>4, ImportNext
<1>6. n \in graph.nodes /\ \A p \in ToSet(Parents(graph, n)) : Emits(graph, ir, p)
  BY <1>5 DEF ToEmit
<1>7. ir \in Seq(IROps) /\ Len(ir) \in Nat
  BY <1>2 DEF Sound
<1> HIDE DEF n
<1>8. CASE graph.kind[n] = "input"
  <2>1. t = ir
    BY <1>7, <1>8 DEF Emitted
  <2> QED
    BY <2>1
<1>9. CASE graph.kind[n] # "input"
  <2>1. PICK a, b : a = ModelOf(graph, n) /\ b = NeuronOf(n)
    OBVIOUS
  <2>2. graph.kind[n] \in Fusible
    BY <1>2, <1>6, <1>9
  <2>3. /\ Emitted(graph, n) = <<a, b>>
        /\ a \in IROps /\ a.form = "model" /\ b \in IROps /\ b.form = "neuron"
        /\ b.args = <<<<a.id, "acc">>>>
    BY <1>4, <1>6, <1>9, <2>1, <2>2, EmittedOps
  <2>4. EmittedForm(a) /\ EmittedForm(b)
    BY <1>4, <1>6, <2>1, <2>2, EmittedForms
  <2>5. Grown(ir, t, a, b)
    BY <1>7, <2>3, GrownBy
  <2> HIDE DEF t
  <2>6. /\ Len(t) = Len(ir) + 2 /\ \A i \in 1 .. Len(ir) : t[i] = ir[i]
        /\ t[Len(ir) + 1] = a /\ t[Len(ir) + 2] = b
    BY <2>5 DEF Grown
  <2>7. /\ \A i \in 1 .. Len(t) : i \in 1 .. Len(ir) \/ i = Len(ir) + 1 \/ i = Len(ir) + 2
        /\ \A i \in 1 .. Len(ir) : i \in 1 .. Len(t)
        /\ Len(ir) + 2 \in 1 .. Len(t)
    BY <1>7, <2>6
  <2>8. AsEmitted(t)
    BY Zenon, <2>4, <2>6, <2>7 DEF AsEmitted
  <2>9. ASSUME NEW k \in 1 .. Len(t), t[k].form = "model"
        PROVE  \E j \in 1 .. Len(t) : Fires(t, j, t[k].id)
    <3>1. CASE k \in 1 .. Len(ir)
      <4>1. PICK j \in 1 .. Len(ir) : Fires(ir, j, ir[k].id)
        BY Zenon, <2>6, <2>9, <3>1 DEF NeuronEach
      <4>2. j \in 1 .. Len(t) /\ t[j] = ir[j] /\ t[k] = ir[k]
        BY Zenon, <2>6, <2>7, <3>1
      <4>3. Fires(t, j, t[k].id)
        BY Zenon, <4>1, <4>2 DEF Fires
      <4> QED
        BY Zenon, <4>2, <4>3
    <3>2. CASE k = Len(ir) + 1
      <4>1. b.args[1] = <<a.id, "acc">>
        BY <2>3
      <4>2. Fires(t, Len(ir) + 2, t[k].id)
        BY Zenon, <2>3, <2>6, <3>2, <4>1 DEF Fires
      <4> QED
        BY Zenon, <2>7, <4>2
    <3>3. CASE k = Len(ir) + 2
      <4>1. t[k].form = "neuron"
        BY Zenon, <2>3, <2>6, <3>3
      <4> QED
        BY <2>9, <4>1
    <3> QED
      BY Zenon, <2>7, <3>1, <3>2, <3>3
  <2> QED
    BY Zenon, <2>8, <2>9 DEF NeuronEach
<1> QED
  BY <1>8, <1>9

LEMMA ReturnCompiles ==
  ASSUME EmitReturn
  PROVE  Roled(ret', {"arg", "out"})
<1> DEFINE v == NodeValue(graph, CHOOSE n \in Terminals(graph) : TRUE)
<1>1. ret' = <<v>>
  BY DEF EmitReturn
<1>2. v[2] \in {"arg", "out"}
  BY DEF NodeValue
<1> HIDE DEF v
<1>3. One(ret', v)
  BY <1>1 DEF One
<1> QED
  BY <1>2, <1>3, OneMember DEF Roled

LEMMA CanonicalCompiles ==
  ASSUME ModelOk(ir, ret), AsEmitted(ir), Canonicalize
  PROVE  AsEmitted(ir')
<1>1. ir \in Seq(IROps) /\ DOMAIN ir = 1 .. Len(ir) /\ Len(ir) \in Nat /\ \A i \in 1 .. Len(ir) : Shaped(ir[i])
  BY DEF ModelOk, Sound
<1>2. PICK k \in 1 .. Len(ir) :
         \/ Merges(k) /\ ir' = [ir EXCEPT ![k] = Merged(k)]
         \/ Dead(k) /\ ir' = RemoveAt(ir, k)
  BY <1>1 DEF Canonicalize
<1>3. ~ Merges(k)
  <2>1. SUFFICES ASSUME Merges(k) PROVE FALSE
    OBVIOUS
  <2>2. ir[k].form = "model" /\ ir[k].kind = "rescale" /\ ir[k].args[1][2] = "acc"
    BY <2>1 DEF Merges
  <2>3. Roled(ir[k].args, {"arg", "out"})
    BY <2>2 DEF AsEmitted, EmittedForm
  <2>4. Len(ir[k].args) = 1
    BY <1>1, <2>2 DEF Shaped, Fusible, Lowering, Arity, Attention
  <2>5. ir[k].args[1] \in ToSet(ir[k].args)
    BY <1>1, <2>4, FirstArg
  <2> QED
    BY <2>2, <2>3, <2>5 DEF Roled
<1>4. ir' = RemoveAt(ir, k)
  BY <1>2, <1>3
<1>5. Len(ir') = Len(ir) - 1 /\ \A i \in 1 .. Len(ir) - 1 : ir'[i] = IF i < k THEN ir[i] ELSE ir[i + 1]
  BY <1>1, <1>4, Removed
<1>6. ASSUME NEW i \in 1 .. Len(ir') PROVE EmittedForm(ir'[i])
  <2>1. PICK j \in 1 .. Len(ir) : ir'[i] = ir[j]
    <3>1. i \in 1 .. Len(ir) /\ i + 1 \in 1 .. Len(ir) /\ i \in 1 .. Len(ir) - 1
      BY <1>1, <1>5
    <3> QED
      BY <1>5, <3>1
  <2> QED
    BY <2>1 DEF AsEmitted
<1> QED
  BY <1>6 DEF AsEmitted


(* The neuron of an imported pair is the one user of its model operation.   *)
LEMMA ImportedPairs ==
  ASSUME ModelOk(ir, ret), AsEmitted(ir), Roled(ret, {"arg", "out"}),
         NEW n \in ToSet(ir), n.form = "neuron"
  PROVE  Pairable(n)
<1>1. /\ ir \in Seq(IROps) /\ DOMAIN ir = 1 .. Len(ir) /\ Len(ir) \in Nat /\ Unique(ir)
      /\ Defined(ir, ret)
      /\ \A i \in 1 .. Len(ir) : Shaped(ir[i]) /\ ir[i].form \in {"model", "neuron"}
      /\ \A i \in 1 .. Len(ir) : EmittedForm(ir[i])
  BY DEF ModelOk, Sound, AsEmitted
<1>2. PICK j \in 1 .. Len(ir) : ir[j] = n
  BY <1>1 DEF ToSet
<1>3. n \in IROps /\ n.td = 0 /\ Len(n.args) = 1 /\ n.args[1] = <<n.id - 1, "acc">> /\ n.id \in Nat
  <2>1. n \in IROps
    BY <1>1, <1>2
  <2>2. EmittedForm(n) /\ Shaped(n)
    BY Zenon, <1>1, <1>2
  <2> QED
    BY <2>1, <2>2, OpFields DEF EmittedForm, Shaped
<1>4. n.args[1] \in ToSet(n.args)
  BY <1>3, FirstArg
<1> DEFINE v == n.args[1]
           id == n.id - 1
<1>5. v[1] = id /\ v[2] = "acc"
  BY <1>3
<1> HIDE DEF v, id
<1>6. PICK k \in 1 .. Len(ir) : ir[k].id = id /\ "acc" \in ir[k].outs
  <2>1. Resolves(v, ir, j - 1)
    BY Zenon, <1>1, <1>2, <1>4 DEF Defined, v
  <2>2. PICK k \in 1 .. j - 1 : ir[k].id = v[1] /\ v[2] \in ir[k].outs
    BY <1>5, <2>1 DEF Resolves
  <2>3. k \in 1 .. Len(ir)
    BY <1>1
  <2> QED
    BY Zenon, <1>5, <2>2, <2>3
<1>7. ir[k].form = "model"
  BY <1>1, <1>6 DEF Shaped
<1>8. ir[k].kind \in Fusible /\ ir[k].td = 0
  BY <1>1, <1>7 DEF EmittedForm
<1>9. At(ir, id) = k
  BY <1>1, <1>6, AtUnique DEF Unique
<1>10. v \notin ToSet(ret)
  BY <1>5 DEF Roled
<1>11. n \in UsedBy(ir, id)
  BY <1>2, <1>4, <1>5 DEF UsedBy, v
<1>12. ASSUME NEW o \in UsedBy(ir, id) PROVE o = n
  <2>0. PICK i \in 1 .. Len(ir) :
           ir[i] = o /\ \E a \in ToSet(ir[i].args) : a[1] = id /\ a[2] # "arg"
    <3>1. o \in ToSet(ir) /\ \E a \in ToSet(o.args) : a[1] = id /\ a[2] # "arg"
      BY Zenon, <1>12 DEF UsedBy
    <3>2. PICK i \in 1 .. Len(ir) : ir[i] = o
      BY <1>1, <3>1 DEF ToSet
    <3> QED
      BY Zenon, <3>1, <3>2
  <2>1. PICK a \in ToSet(ir[i].args) : ir[i] = o /\ a[1] = id /\ a[2] # "arg"
    BY Zenon, <2>0
  <2>2. a[2] = "acc"
    <3>1. Resolves(a, ir, i - 1)
      BY <1>1, <2>1 DEF Defined
    <3>2. PICK l \in 1 .. i - 1 : ir[l].id = a[1] /\ a[2] \in ir[l].outs
      BY <2>1, <3>1 DEF Resolves
    <3>3. l = k
      BY <1>1, <1>6, <2>1, <3>2 DEF Unique
    <3> QED
      BY <1>1, <1>7, <3>2, <3>3 DEF Shaped
  <2>3. ir[i].form = "neuron"
    <3>1. ir[i].form = "model" => Roled(ir[i].args, {"arg", "out"})
      BY <1>1 DEF EmittedForm
    <3> QED
      BY <1>1, <2>1, <2>2, <3>1 DEF Roled
  <2>4. Len(ir[i].args) = 1 /\ ir[i].args[1] = <<ir[i].id - 1, "acc">> /\ ir[i].id \in Nat
    <3>1. ir[i] \in IROps
      BY <1>1
    <3> QED
      BY <1>1, <2>3, <3>1, OpFields DEF EmittedForm, Shaped
  <2>5. a = ir[i].args[1]
    <3>1. ir[i].args \in Seq(Value)
      BY <1>1, OpFields
    <3> PICK as : as = ir[i].args
      OBVIOUS
    <3>2. a \in ToSet(as)
      BY Zenon, <2>1
    <3>3. DOMAIN as = 1 .. 1
      BY <2>4, <3>1
    <3>4. a = as[1]
      BY <3>2, <3>3, PassSet
    <3> QED
      BY Zenon, <3>4
  <2>6. ir[i].id = ir[j].id
    <3>1. a[1] = ir[i].id - 1
      BY <2>4, <2>5
    <3>2. id = n.id - 1
      BY DEF id
    <3> PICK x, y : x = ir[i].id /\ y = n.id
      OBVIOUS
    <3>3. x \in Nat /\ y \in Nat /\ x - 1 = y - 1
      BY <1>3, <2>1, <2>4, <3>1, <3>2
    <3>4. x = y
      BY <3>3
    <3> QED
      BY Zenon, <1>2, <3>4
  <2>7. i = j
    BY Zenon, <1>1, <2>6 DEF Unique
  <2> QED
    BY Zenon, <1>2, <2>1, <2>7
<1>13. UsedBy(ir, id) = {n}
  BY <1>11, <1>12
<1> PICK m : m = ir[k]
  OBVIOUS
<1>14. m.kind \in Fusible /\ m.td = n.td /\ UsedBy(ir, m.id) = {n} /\ m = ir[At(ir, v[1])]
  BY <1>3, <1>5, <1>6, <1>8, <1>9, <1>13
<1>15. n.args[1] = v
  BY DEF v
<1> QED
  BY Zenon, <1>5, <1>10, <1>14, <1>15 DEF Pairable


(* Before the fusion of an attention its operands come from neurons.        *)
AfterAttention(ops) ==
    \A k \in 1 .. Len(ops) :
        ops[k].form = "model" /\ ops[k].kind \in Attention => Roled(ops[k].args, {"out"})

LEMMA CollectCompiles ==
  ASSUME ModelOk(ir, ret), AsEmitted(ir), Roled(ret, {"arg", "out"}),
         stage = "model" => NeuronEach(ir), Collect
  PROVE  stage' = "fuse" /\ AfterAttention(ir') /\ NeuronEach(ir')
<1>1. /\ stage \in {"model", "canonicalize"} /\ ir' = ir
      /\ stage = "canonicalize" => \A k \in DOMAIN ir : ~ Dead(k)
      /\ IF \A n \in ToSet(NeuronOps) : Pairable(n)
           THEN stage' = "fuse" ELSE stage' = "failed"
  BY DEF Collect
<1>2. /\ ir \in Seq(IROps) /\ DOMAIN ir = 1 .. Len(ir) /\ Len(ir) \in Nat
      /\ \A i \in 1 .. Len(ir) : Shaped(ir[i]) /\ ir[i].form \in {"model", "neuron"}
      /\ \A i \in 1 .. Len(ir) : EmittedForm(ir[i])
  BY DEF ModelOk, Sound, AsEmitted
<1>3. ASSUME NEW n \in ToSet(NeuronOps) PROVE Pairable(n)
  <2> DEFINE T == {o \in ToSet(ir) : o.form = "neuron"}
  <2>1. PICK g : Leaves(ir, T, Among(ir, T), g)
    BY Zenon, <1>2, AmongLeaves
  <2>2. NeuronOps = Among(ir, T)
    BY DEF NeuronOps
  <2>3. n \in T
    <3>1. Among(ir, T) \in Seq(IROps) /\ \A i \in 1 .. Len(Among(ir, T)) : Among(ir, T)[i] \in T
      BY Zenon, <2>1 DEF Leaves
    <3>2. PICK i \in DOMAIN Among(ir, T) : Among(ir, T)[i] = n
      BY Zenon, <1>3, <2>2, PassSet
    <3> HIDE DEF T
    <3>3. i \in 1 .. Len(Among(ir, T))
      BY <3>1, <3>2
    <3> QED
      BY Zenon, <3>1, <3>2, <3>3
  <2> QED
    BY <2>3, ImportedPairs
<1>4. stage' = "fuse"
  BY Zenon, <1>1, <1>3
<1>5. AfterAttention(ir)
  BY <1>2 DEF AfterAttention, EmittedForm
<1>6. ASSUME stage = "canonicalize", NEW k \in 1 .. Len(ir), ir[k].form = "model"
      PROVE  \E j \in 1 .. Len(ir) : Fires(ir, j, ir[k].id)
  <2> DEFINE v == <<ir[k].id, "acc">>
  <2>1. ~ Dead(k) /\ ir[k].outs = {"acc"}
    BY <1>1, <1>2, <1>6 DEF Shaped
  <2>2. Used(ir, ret, v)
    BY <2>1 DEF Dead
  <2>3. Needs(ir, ret, v)
    BY <1>2, <2>2, UsedNeeds
  <2>4. v[2] = "acc"
    OBVIOUS
  <2> HIDE DEF v
  <2>5. v \notin ToSet(ret)
    BY <2>4 DEF Roled
  <2>6. PICK j \in 1 .. Len(ir) : v \in ToSet(ir[j].args)
    BY Zenon, <2>3, <2>5 DEF Needs
  <2>7. ir[j].form = "neuron"
    <3>1. ir[j].form = "model" => Roled(ir[j].args, {"arg", "out"})
      BY <1>2 DEF EmittedForm
    <3> QED
      BY <1>2, <2>4, <2>6, <3>1 DEF Roled
  <2>8. v = ir[j].args[1]
    <3>1. ir[j].args \in Seq(Value) /\ Len(ir[j].args) = 1
      BY <1>2, <2>7, OpFields DEF Shaped
    <3> PICK as : as = ir[j].args
      OBVIOUS
    <3>2. v \in ToSet(as)
      BY Zenon, <2>6
    <3>3. DOMAIN as = 1 .. 1
      BY <3>1
    <3>4. v = as[1]
      BY <3>2, <3>3, PassSet
    <3> QED
      BY Zenon, <3>4
  <2>9. Fires(ir, j, ir[k].id)
    BY Zenon, <2>7, <2>8 DEF Fires, v
  <2> QED
    BY Zenon, <2>9
<1>7. NeuronEach(ir)
  BY <1>1, <1>6 DEF NeuronEach
<1> QED
  BY <1>1, <1>4, <1>5, <1>7

(* The neurons before the model operation to fuse are fused already, so no  *)
(* attention is refused.                                                    *)
LEMMA FuseCompiles ==
  ASSUME FuseInv, AfterAttention(ir), NeuronEach(ir), FuseOne
  PROVE  stage' = "fuse" /\ AfterAttention(ir') /\ NeuronEach(ir')
<1>1. PICK n, k : Target(n, k) /\ Fusing(n, k)
  BY FuseMakes
<1>2. /\ ir \in Seq(IROps) /\ Len(ir) \in Nat /\ Defined(ir, ret) /\ DOMAIN ir = 1 .. Len(ir)
      /\ \A i \in 1 .. Len(ir) : Shaped(ir[i]) /\ ir[i].form \in FuseForms
  BY DEF FuseInv, FuseOk, Sound
<1>3. /\ k \in 1 .. Len(ir) /\ n \in 1 .. Len(ir) /\ k < n /\ ir[k].form = "model"
      /\ \A j \in 1 .. n : ir[j].form = "neuron" /\ j # n => \E r \in replaced : r[1] = ir[j].id
  BY <1>1 DEF Target
<1>4. ~ Refused(k)
  <2>1. SUFFICES ASSUME ir[k].kind \in Attention, NEW v \in ToSet(ir[k].args)
                 PROVE  FusedFor(v) # {}
    BY Zenon DEF Refused
  <2>2. v[2] = "out"
    BY <1>3, <2>1 DEF AfterAttention, Roled
  <2>3. Resolves(v, ir, k - 1)
    BY <1>2, <1>3, <2>1 DEF Defined
  <2>4. PICK j \in 1 .. k - 1 : ir[j].id = v[1] /\ v[2] \in ir[j].outs
    BY <2>2, <2>3 DEF Resolves
  <2>5. j \in 1 .. Len(ir) /\ j \in 1 .. n /\ j # n
    BY <1>2, <1>3
  <2>6. ir[j].form = "neuron"
    BY <1>2, <2>2, <2>4, <2>5 DEF Shaped, FuseForms
  <2>7. PICK r \in replaced : r[1] = ir[j].id
    BY Zenon, <1>3, <2>5, <2>6
  <2>8. v = <<r[1], "out">>
    <3>1. ir[k].args \in Seq(Value)
      BY <1>2, <1>3, OpFields
    <3>2. v = <<v[1], v[2]>>
      BY Zenon, <2>1, <3>1, PairOf
    <3> QED
      BY <2>2, <2>4, <2>7, <3>2
  <2> QED
    BY Zenon, <2>7, <2>8 DEF FusedFor
<1>5. stage' = "fuse" /\ \E t, e : ir' = t /\ Fuses(t, n, k, e)
  BY Zenon, <1>1, <1>4 DEF Fusing
<1>6. PICK t, e : ir' = t /\ Fuses(t, n, k, e)
  BY Zenon, <1>5
<1>7. /\ t[k] = e /\ e.form = "fused" /\ \A i \in 1 .. Len(ir) : t[Shift(k, i)] = ir[i]
      /\ \A i \in 1 .. Len(ir) : Shift(k, i) \in 1 .. Len(t)
      /\ \A j \in 1 .. Len(t) : j = k \/ \E i \in 1 .. Len(ir) : j = Shift(k, i)
  <2>1. Told(t, n, k, e)
    BY Zenon, <1>6, FusesTells
  <2> QED
    BY Zenon, <2>1 DEF Told
<1>8. ASSUME NEW j \in 1 .. Len(t), t[j].form = "model"
      PROVE  \E i \in 1 .. Len(ir) : t[j] = ir[i]
  <2>1. j # k
    BY <1>7, <1>8
  <2> QED
    BY Zenon, <1>7, <2>1
<1>9. AfterAttention(t)
  BY Zenon, <1>8 DEF AfterAttention
<1>10. ASSUME NEW j \in 1 .. Len(t), t[j].form = "model"
       PROVE  \E l \in 1 .. Len(t) : Fires(t, l, t[j].id)
  <2>1. PICK i \in 1 .. Len(ir) : t[j] = ir[i]
    BY Zenon, <1>8, <1>10
  <2>2. ir[i].form = "model"
    BY Zenon, <1>10, <2>1
  <2>3. PICK l \in 1 .. Len(ir) : Fires(ir, l, ir[i].id)
    BY Zenon, <2>2 DEF NeuronEach
  <2>4. t[Shift(k, l)] = ir[l] /\ Shift(k, l) \in 1 .. Len(t)
    BY Zenon, <1>7
  <2>5. Fires(t, Shift(k, l), t[j].id)
    BY Zenon, <2>1, <2>3, <2>4 DEF Fires
  <2> QED
    BY Zenon, <2>4, <2>5
<1>11. NeuronEach(t)
  BY Zenon, <1>10 DEF NeuronEach
<1> QED
  BY Zenon, <1>5, <1>6, <1>9, <1>11

OnlyFused(ops) == \A d \in 1 .. Len(ops) : ops[d].form = "fused"

LEMMA FinishCompiles ==
  ASSUME FuseInv, NeuronEach(ir), FinishFuse
  PROVE  stage' = "fused" /\ OnlyFused(ir')
<1> DEFINE hangs == \E o \in ToSet(Unpaired), v \in {<<r[1], "out">> : r \in replaced} :
                       v \in ToSet(o.args)
           T == {o \in ToSet(ir) : ~ IsPair(o)}
           t == Among(ir, T)
<1>1. /\ todo = <<>> /\ ir' = Unpaired /\ stage' = IF hangs THEN "dangling" ELSE "fused"
  BY Zenon DEF FinishFuse
<1>2. /\ ir \in Seq(IROps) /\ Len(ir) \in Nat /\ Distinct(ir) /\ FusedPairs(ir, replaced)
      /\ \A i \in 1 .. Len(ir) : Shaped(ir[i]) /\ ir[i].form \in FuseForms
  BY DEF FuseInv, FuseOk, Sound
<1>3. PICK g : Leaves(ir, T, t, g)
  BY Zenon, <1>2, AmongLeaves
<1>4. Unpaired = t
  BY DEF Unpaired
<1>5. ASSUME NEW j \in 1 .. Len(ir), ~ IsPair(ir[j]) PROVE ir[j].form = "fused"
  <2>1. ir[j].form # "neuron"
    BY <1>1, <1>5, PairForms
  <2>2. ASSUME ir[j].form = "model" PROVE FALSE
    <3>1. PICK l \in 1 .. Len(ir) : Fires(ir, l, ir[j].id)
      BY Zenon, <2>2 DEF NeuronEach
    <3>2. PICK r \in replaced : r[1] = ir[l].id
      BY <1>1, <3>1, PairForms DEF Fires
    <3>3. PICK f, m, n \in 1 .. Len(ir) : Replaced(ir, f, m, n, r)
      BY Zenon, <1>2 DEF FusedPairs
    <3>4. ir[n].form = "neuron" /\ ir[n].id = r[1] /\ ir[n].args[1] = <<r[2], "acc">>
      BY <3>3 DEF Replaced
    <3>5. n = l
      <4>1. n < l \/ l < n \/ n = l
        BY <1>2
      <4>2. ir[n].form # "fused" /\ ir[l].form # "fused" /\ ir[n].id = ir[l].id
        BY <3>1, <3>2, <3>4 DEF Fires
      <4> QED
        BY Zenon, <1>2, <4>1, <4>2 DEF Distinct
    <3>6. r[2] = ir[j].id
      BY <3>1, <3>4, <3>5 DEF Fires
    <3> QED
      BY <1>1, <1>5, <2>2, <3>6, PairForms
  <2> QED
    BY <1>2, <2>1, <2>2 DEF FuseForms
<1> HIDE DEF T, t
<1>6. \A i \in 1 .. Len(t) : \E j \in 1 .. Len(ir) : t[i] = ir[j] /\ ir[j].form = "fused"
  <2>1. ASSUME NEW i \in 1 .. Len(t) PROVE \E j \in 1 .. Len(ir) : t[i] = ir[j] /\ ir[j].form = "fused"
    <3>1. g[i] \in 1 .. Len(ir) /\ t[i] = ir[g[i]] /\ t[i] \in T
      BY <1>3 DEF Leaves, Thinned
    <3>2. ~ IsPair(ir[g[i]])
      BY Zenon, <3>1 DEF T
    <3> QED
      BY Zenon, <1>5, <3>1, <3>2
  <2> QED
    BY Zenon, <2>1
<1>7. t \in Seq(IROps) /\ OnlyFused(t) /\ \A i \in 1 .. Len(t) : Shaped(t[i])
  <2>1. t \in Seq(IROps)
    BY <1>3 DEF Leaves
  <2> QED
    BY Zenon, <1>2, <1>6, <2>1 DEF OnlyFused
<1>8. ~ hangs
  <2>1. SUFFICES ASSUME NEW o \in ToSet(t), NEW v \in {<<r[1], "out">> : r \in replaced},
                        v \in ToSet(o.args)
                 PROVE  FALSE
    BY Zenon, <1>4
  <2>2. PICK i \in 1 .. Len(t) : t[i] = o
    BY <1>7 DEF ToSet
  <2>3. Shaped(o) /\ o.form = "fused" /\ o \in IROps
    BY <1>7, <2>2 DEF OnlyFused
  <2>4. v[2] = "out"
    OBVIOUS
  <2>5. o.args \in Seq(Value)
    BY <2>3, OpFields
  <2>6. CASE o.kind \in Attention
    <3>1. Paired(o)
      BY <2>3, <2>6 DEF Shaped
    <3>2. PICK x \in DOMAIN o.args : o.args[x] = v
      BY <2>1, PassSet
    <3>3. x \in {1, 2, 3, 4}
      BY <2>5, <3>1, <3>2 DEF Paired
    <3>4. o.args[x][2] \in {"spike", "tracer"}
      BY <3>1, <3>3 DEF Paired
    <3> QED
      BY <2>4, <3>2, <3>4
  <2>7. CASE o.kind \notin Attention
    BY <2>1, <2>3, <2>4, <2>7 DEF Shaped, Roled
  <2> QED
    BY <2>6, <2>7
<1> QED
  BY Zenon, <1>1, <1>4, <1>7, <1>8


LEMMA DceCompiles ==
  ASSUME DceOk(ir, ret, todo), OnlyFused(ir), DceOne
  PROVE  OnlyFused(ir')
<1>1. todo # <<>> /\ ir \in Seq(IROps) /\ Len(ir) \in Nat
  BY DEF DceOne, DceOk, Sound
<1>2. PICK k : TurnOf(k)
  BY <1>1, NextToVisit
<1>3. At(ir, Head(todo)) = k /\ k \in 1 .. Len(ir)
  BY <1>2 DEF TurnOf
<1> DEFINE live == LiveResults(ir[k])
<1>4. ir' = IF live = {} THEN RemoveAt(ir, k) ELSE [ir EXCEPT ![k].outs = live]
  BY <1>3 DEF DceOne
<1> HIDE DEF live
<1>5. CASE live = {}
  <2>1. /\ Len(ir') = Len(ir) - 1
        /\ \A i \in 1 .. Len(ir) - 1 : ir'[i] = IF i < k THEN ir[i] ELSE ir[i + 1]
    BY <1>1, <1>3, <1>4, <1>5, Removed
  <2>2. ASSUME NEW i \in 1 .. Len(ir') PROVE ir'[i].form = "fused"
    <3>1. i \in 1 .. Len(ir) /\ i + 1 \in 1 .. Len(ir) /\ i \in 1 .. Len(ir) - 1
      BY <1>1, <2>1
    <3> QED
      BY <2>1, <3>1 DEF OnlyFused
  <2> QED
    BY <2>2 DEF OnlyFused
<1>6. CASE live # {}
  <2>1. ir' = [ir EXCEPT ![k] = Shrunk(ir[k], live)]
    BY <1>4, <1>6 DEF Shrunk
  <2>2. Shrunk(ir[k], live).form = ir[k].form
    <3>1. ir[k] \in IROps
      BY <1>1, <1>3
    <3> QED
      BY <3>1 DEF Shrunk, IROps, Operations
  <2>3. Len(ir') = Len(ir) /\ \A i \in 1 .. Len(ir) : ir'[i].form = ir[i].form
    BY <1>1, <1>3, <2>1, <2>2
  <2> QED
    BY <2>3 DEF OnlyFused
<1> QED
  BY <1>5, <1>6

(* Every fused operation is lowered or waits for it.                        *)
ToLower(ops, ids) ==
    \A d \in 1 .. Len(ops) : \/ ops[d].form = "exec"
                             \/ \E i \in 1 .. Len(ids) : ids[i] = ops[d].id

LEMMA LoweringCompiles ==
  ASSUME DceOk(ir, ret, todo), OnlyFused(ir), StartLowering
  PROVE  ToLower(ir', todo')
<1>1. ir' = ir /\ todo' = Ids(FusedOps)
  BY DEF StartLowering
<1>2. ir \in Seq(IROps) /\ Unique(ir)
  BY DEF DceOk, Sound
<1>3. \A d \in 1 .. Len(ir) : ir[d].form = "fused" =>
         \E i \in 1 .. Len(todo') : todo'[i] = ir[d].id
  BY <1>1, <1>2, FusedIds
<1> QED
  BY Zenon, <1>1, <1>3 DEF ToLower, OnlyFused

LEMMA LowerCompiles ==
  ASSUME LowerOk(ir, ret, todo, LoweringForms), ToLower(ir, todo), LowerOne
  PROVE  ToLower(ir', todo')
<1> DEFINE ids == Tail(todo)
<1>1. /\ todo # <<>> /\ todo' = ids
      /\ ir' = [ir EXCEPT ![At(ir, Head(todo))] = Lowered(ir[At(ir, Head(todo))])]
  BY DEF LowerOne, Lowered
<1>2. /\ Unique(ir) /\ todo \in Seq(Nat) /\ ir \in Seq(IROps) /\ Len(ir) \in Nat
      /\ \A i \in 1 .. Len(todo) : \E j \in 1 .. Len(ir) : Stands(ir, j, todo[i])
  BY DEF LowerOk, Sound
<1>3. /\ Len(ids) = Len(todo) - 1 /\ 1 \in 1 .. Len(todo) /\ Head(todo) = todo[1] /\ Len(todo) \in Nat
      /\ \A i \in 1 .. Len(ids) : i + 1 \in 1 .. Len(todo) /\ ids[i] = todo[i + 1]
  BY <1>1, <1>2, TailFacts
<1> HIDE DEF ids
<1>4. PICK k \in 1 .. Len(ir) : Stands(ir, k, todo[1])
  BY Zenon, <1>2, <1>3
<1>5. At(ir, Head(todo)) = k /\ ir[k].id = todo[1]
  BY <1>2, <1>3, <1>4, AtUnique DEF Stands, Unique
<1>6. ir[k] \in IROps
  BY <1>2
<1>7. Lowered(ir[k]).form = "exec"
  BY <1>6 DEF Lowered, IROps, Operations
<1>8. /\ Len(ir') = Len(ir) /\ ir'[k].form = "exec"
      /\ \A i \in 1 .. Len(ir) : i # k => ir'[i] = ir[i]
  BY <1>1, <1>2, <1>5, <1>7
<1>9. ASSUME NEW d \in 1 .. Len(ir), d # k, NEW i \in 1 .. Len(todo), todo[i] = ir[d].id
      PROVE  \E l \in 1 .. Len(ids) : ids[l] = ir[d].id
  <2>1. i # 1
    BY Zenon, <1>2, <1>5, <1>9 DEF Unique
  <2>2. i - 1 \in 1 .. Len(ids) /\ i - 1 + 1 = i
    BY <1>3, <2>1
  <2>3. ids[i - 1] = todo[i]
    BY <1>3, <2>2
  <2> QED
    BY Zenon, <1>9, <2>2, <2>3
<1>10. ASSUME NEW d \in 1 .. Len(ir)
       PROVE  \/ ir'[d].form = "exec"
              \/ \E l \in 1 .. Len(ids) : ids[l] = ir'[d].id
  <2>1. CASE d = k
    BY Zenon, <1>8, <2>1
  <2>2. CASE d # k
    BY Zenon, <1>8, <1>9, <2>2 DEF ToLower
  <2> QED
    BY <2>1, <2>2
<1> QED
  BY Zenon, <1>1, <1>8, <1>10 DEF ToLower

LEMMA CheckCompiles ==
  ASSUME LowerOk(ir, ret, todo, LoweringForms), ToLower(ir, todo), CheckLowered
  PROVE  stage' = "exec"
<1>1. todo = <<>> /\ stage' = IF \A o \in ToSet(ir) : o.form = "exec" THEN "exec" ELSE "failed"
  BY DEF CheckLowered
<1>2. ir \in Seq(IROps) /\ DOMAIN ir = 1 .. Len(ir)
  BY DEF LowerOk, Sound
<1>3. \A i : i \notin 1 .. Len(todo)
  BY <1>1
<1>4. \A d \in 1 .. Len(ir) : ir[d].form = "exec"
  BY Zenon, <1>3 DEF ToLower
<1>5. \A o \in ToSet(ir) : o.form = "exec"
  BY <1>2, <1>4 DEF ToSet
<1> QED
  BY <1>1, <1>5

(* A block without such an attention, stage by stage.                       *)
CompilesAt(st, ops, values, ids) ==
    \/ st = "nir" /\ ops = <<>>
    \/ st = "import" /\ AsEmitted(ops) /\ NeuronEach(ops)
    \/ st = "model" /\ AsEmitted(ops) /\ NeuronEach(ops) /\ Roled(values, {"arg", "out"})
    \/ st = "canonicalize" /\ AsEmitted(ops) /\ Roled(values, {"arg", "out"})
    \/ st = "fuse" /\ AfterAttention(ops) /\ NeuronEach(ops)
    \/ st \in {"fused", "dce"} /\ OnlyFused(ops)
    \/ st = "lower" /\ ToLower(ops, ids)
    \/ st \in {"rejected", "exec"}
Imports == graph # NoGraph /\ ~ Fed(graph) => CompilesAt(stage, ir, ret, todo)

LEMMA ImportsInit == PassInit => Imports
BY DEF PassInit, Imports, CompilesAt

LEMMA ImportsNext ==
  ASSUME PassInv, Imports, PassNext
  PROVE  Imports'
<1>1. graph' = graph
  BY DEF PassNext, ReadBlock, EmitNode, EmitReturn, StartCanonicalize,
     Canonicalize, Collect, FuseOne, FinishFuse, StartDce, DceOne,
     StartLowering, LowerOne, RefuseFunction, CheckLowered
<1> SUFFICES ASSUME graph # NoGraph, ~ Fed(graph)
             PROVE  CompilesAt(stage', ir', ret', todo')
  BY Zenon, <1>1 DEF Imports
<1>0. CompilesAt(stage, ir, ret, todo)
  BY Zenon DEF Imports
<1>2. CASE ReadBlock
  <2>1. stage = "nir" /\ ir' = ir /\ stage' \in {"import", "rejected"}
    BY <1>2 DEF ReadBlock
  <2>2. ir' = <<>>
    BY <1>0, <2>1 DEF CompilesAt
  <2>3. AsEmitted(<<>>) /\ NeuronEach(<<>>)
    BY DEF AsEmitted, NeuronEach
  <2> QED
    BY <2>1, <2>2, <2>3 DEF CompilesAt
<1>3. CASE EmitNode
  <2>1. stage = "import"
    BY <1>3 DEF EmitNode
  <2>2. ImportOk(graph, ir, ret, todo) /\ AsEmitted(ir) /\ NeuronEach(ir)
    BY <1>0, <2>1 DEF PassInv, StageOk, CompilesAt
  <2>3. \/ stage' = "rejected"
        \/ stage' = stage /\ AsEmitted(ir') /\ NeuronEach(ir')
    BY <1>3, <2>2, EmitCompiles
  <2> QED
    BY <2>1, <2>3 DEF CompilesAt
<1>4. CASE EmitReturn
  <2>1. stage = "import" /\ stage' = "model" /\ ir' = ir
    BY <1>4 DEF EmitReturn
  <2>2. AsEmitted(ir) /\ NeuronEach(ir)
    BY <1>0, <2>1 DEF CompilesAt
  <2> QED
    BY <1>4, <2>1, <2>2, ReturnCompiles DEF CompilesAt
<1>5. CASE StartCanonicalize
  <2>1. stage = "model" /\ stage' = "canonicalize" /\ ir' = ir /\ ret' = ret
    BY <1>5 DEF StartCanonicalize
  <2> QED
    BY <1>0, <2>1 DEF CompilesAt
<1>6. CASE Canonicalize
  <2>1. stage = "canonicalize" /\ stage' = stage /\ ret' = ret
    BY <1>6 DEF Canonicalize
  <2>2. ModelOk(ir, ret) /\ AsEmitted(ir) /\ Roled(ret, {"arg", "out"})
    BY <1>0, <2>1 DEF PassInv, StageOk, CompilesAt
  <2> QED
    BY <1>6, <2>1, <2>2, CanonicalCompiles DEF CompilesAt
<1>7. CASE Collect
  <2>1. stage \in {"model", "canonicalize"}
    BY <1>7 DEF Collect
  <2>2. ModelOk(ir, ret) /\ AsEmitted(ir) /\ Roled(ret, {"arg", "out"})
    BY <1>0, <2>1 DEF PassInv, StageOk, CompilesAt
  <2>3. stage = "model" => NeuronEach(ir)
    BY <1>0 DEF CompilesAt
  <2>4. stage' = "fuse" /\ AfterAttention(ir') /\ NeuronEach(ir')
    BY <1>7, <2>2, <2>3, CollectCompiles
  <2> QED
    BY <2>4 DEF CompilesAt
<1>8. CASE FuseOne
  <2>1. stage = "fuse"
    BY <1>8 DEF FuseOne
  <2>2. FuseInv /\ AfterAttention(ir) /\ NeuronEach(ir)
    BY <1>0, <2>1 DEF PassInv, StageOk, FuseInv, CompilesAt
  <2>3. stage' = "fuse" /\ AfterAttention(ir') /\ NeuronEach(ir')
    BY <1>8, <2>2, FuseCompiles
  <2> QED
    BY <2>3 DEF CompilesAt
<1>9. CASE FinishFuse
  <2>1. stage = "fuse"
    BY <1>9 DEF FinishFuse
  <2>2. FuseInv /\ NeuronEach(ir)
    BY <1>0, <2>1 DEF PassInv, StageOk, FuseInv, CompilesAt
  <2>3. stage' = "fused" /\ OnlyFused(ir')
    BY <1>9, <2>2, FinishCompiles
  <2> QED
    BY <2>3 DEF CompilesAt
<1>10. CASE StartDce
  <2>1. stage = "fused" /\ stage' = "dce" /\ ir' = ir
    BY <1>10 DEF StartDce
  <2> QED
    BY <1>0, <2>1 DEF CompilesAt
<1>11. CASE DceOne
  <2>1. stage = "dce" /\ stage' = stage
    BY <1>11 DEF DceOne
  <2>2. DceOk(ir, ret, todo) /\ OnlyFused(ir)
    BY <1>0, <2>1 DEF PassInv, StageOk, CompilesAt
  <2> QED
    BY <1>11, <2>1, <2>2, DceCompiles DEF CompilesAt
<1>12. CASE StartLowering
  <2>1. stage = "dce" /\ stage' = "lower"
    BY <1>12 DEF StartLowering
  <2>2. DceOk(ir, ret, todo) /\ OnlyFused(ir)
    BY <1>0, <2>1 DEF PassInv, StageOk, CompilesAt
  <2> QED
    BY <1>12, <2>1, <2>2, LoweringCompiles DEF CompilesAt
<1>13. CASE LowerOne
  <2>1. stage = "lower" /\ stage' = stage
    BY <1>13 DEF LowerOne
  <2>2. LowerOk(ir, ret, todo, LoweringForms) /\ ToLower(ir, todo)
    BY <1>0, <2>1 DEF PassInv, StageOk, CompilesAt
  <2> QED
    BY <1>13, <2>1, <2>2, LowerCompiles DEF CompilesAt
<1>14. CASE CheckLowered
  <2>1. stage = "lower"
    BY <1>14 DEF CheckLowered
  <2>2. LowerOk(ir, ret, todo, LoweringForms) /\ ToLower(ir, todo)
    BY <1>0, <2>1 DEF PassInv, StageOk, CompilesAt
  <2>3. stage' = "exec"
    BY <1>14, <2>2, CheckCompiles
  <2> QED
    BY <2>3 DEF CompilesAt
<1>15. CASE RefuseFunction
  BY <1>15 DEF RefuseFunction
<1> QED
  BY <1>2, <1>3, <1>4, <1>5, <1>6, <1>7, <1>8, <1>9, <1>10, <1>11, <1>12, <1>13, <1>14, <1>15
  DEF PassNext

(* Whatever block the importer takes over the passes compile, or an         *)
(* attention of it reads the block input.                                   *)
THEOREM ImportsCompile == PassSpec => []ImportedCompiles
<1>1. PassInit => Imports
  BY ImportsInit
<1>2. PassInv /\ Imports /\ [PassNext]_passVars => Imports'
  <2>1. CASE PassNext
    BY <2>1, ImportsNext
  <2>2. CASE UNCHANGED passVars
    BY <2>2 DEF passVars, Imports
  <2> QED
    BY <2>1, <2>2
<1>3. Imports => ImportedCompiles
  BY DEF Imports, CompilesAt, Fed, ImportedCompiles
<1> QED
  BY <1>1, <1>2, <1>3, PassInductive, PTL DEF PassSpec

-----------------------------------------------------------------------------
(* What the function computes.                                              *)

(* What Among keeps, told by where it stands.                               *)
Picks(s, T, n, h) ==
    /\ n \in Nat /\ h \in [1 .. n -> 1 .. Len(s)] /\ Increasing(h, n)
    /\ \A p \in 1 .. Len(s) : s[p] \in T <=> \E i \in 1 .. n : h[i] = p

LEMMA AmongIs ==
  ASSUME NEW X, NEW s \in Seq(X), NEW T, NEW n, NEW h, Picks(s, T, n, h)
  PROVE  /\ Among(s, T) \in Seq(X) /\ Len(Among(s, T)) = n
         /\ \A i \in 1 .. n : Among(s, T)[i] = s[h[i]]
<1> DEFINE t == Among(s, T)
<1>1. t \in Seq(X) /\ Len(t) \in Nat
  BY AmongPlaces
<1>2. PICK g \in [1 .. Len(t) -> 1 .. Len(s)] : Keeps(s, T, t, g)
  BY AmongPlaces
<1> HIDE DEF t
<1>3. /\ \A i \in 1 .. Len(t) : t[i] = s[g[i]] /\ s[g[i]] \in T
      /\ \A i, k \in 1 .. Len(t) : i < k => g[i] < g[k]
      /\ \A p \in 1 .. Len(s) : s[p] \in T => \E i \in 1 .. Len(t) : g[i] = p
  BY Zenon, <1>2 DEF Keeps
<1>4. /\ n \in Nat /\ h \in [1 .. n -> 1 .. Len(s)] /\ Increasing(h, n)
      /\ \A p \in 1 .. Len(s) : s[p] \in T <=> \E i \in 1 .. n : h[i] = p
  BY Zenon DEF Picks
<1>5. \A i \in 1 .. n : h[i] \in 1 .. Len(s) /\ s[h[i]] \in T
  <2>1. \A i \in 1 .. n : h[i] \in 1 .. Len(s)
    BY <1>4
  <2> QED
    BY Zenon, <1>4, <2>1
<1>6. g \in [1 .. Len(t) -> Nat] /\ h \in [1 .. n -> Nat]
  BY <1>2, <1>4
<1>7. Increasing(g, Len(t))
  BY Zenon, <1>3 DEF Increasing
<1>8. \A i \in 1 .. Len(t) : \E j \in 1 .. n : h[j] = g[i]
  <2>1. \A i \in 1 .. Len(t) : g[i] \in 1 .. Len(s)
    BY <1>2
  <2> QED
    BY Zenon, <1>3, <1>4, <2>1
<1>9. \A j \in 1 .. n : \E i \in 1 .. Len(t) : g[i] = h[j]
  BY Zenon, <1>3, <1>5
<1>10. Len(t) <= n /\ \A i \in 1 .. Len(t) : g[i] = h[i]
  BY <1>1, <1>4, <1>6, <1>7, <1>8, <1>9, NoLonger
<1>11. n <= Len(t)
  BY <1>1, <1>4, <1>6, <1>7, <1>8, <1>9, NoLonger
<1>12. Len(t) = n
  BY <1>1, <1>4, <1>10, <1>11
<1>13. \A i \in 1 .. n : t[i] = s[h[i]]
  BY Zenon, <1>3, <1>10, <1>12
<1> QED
  BY <1>1, <1>12, <1>13 DEF t

LEMMA AmongAll ==
  ASSUME NEW X, NEW s \in Seq(X), NEW T, \A i \in 1 .. Len(s) : s[i] \in T
  PROVE  Among(s, T) = s
<1> DEFINE h == [i \in 1 .. Len(s) |-> i]
           t == Among(s, T)
<1>1. Picks(s, T, Len(s), h)
  BY DEF Picks, Increasing
<1>2. t \in Seq(X) /\ Len(t) = Len(s) /\ \A i \in 1 .. Len(s) : t[i] = s[h[i]]
  <2> HIDE DEF h
  <2> QED
    BY <1>1, AmongIs
<1>3. \A i \in 1 .. Len(s) : t[i] = s[i]
  BY <1>2
<1> HIDE DEF t, h
<1>4. t = s
  BY <1>2, <1>3
<1> QED
  BY <1>4 DEF t

(* The values that are no tracers.                                           *)
LEMMA SpikesAmong ==
  ASSUME NEW values \in Seq(Value)
  PROVE  /\ Among(values, Spikes) \in Seq(Value)
         /\ \A i \in DOMAIN Among(values, Spikes) :
               LET v == Among(values, Spikes)[i]
               IN  v \in ToSet(values) /\ v \in Value /\ v[2] # "tracer"
<1> DEFINE s == Among(values, Spikes)
<1>1. s \in Seq(Value)
  BY AmongPlaces
<1>2. PICK g \in [1 .. Len(s) -> 1 .. Len(values)] : Keeps(values, Spikes, s, g)
  BY AmongPlaces
<1> HIDE DEF s
<1>3. DOMAIN s = 1 .. Len(s) /\ DOMAIN values = 1 .. Len(values)
  BY <1>1
<1>4. ASSUME NEW i \in DOMAIN s PROVE s[i] \in ToSet(values) /\ s[i] \in Value /\ s[i][2] # "tracer"
  <2>1. s[i] = values[g[i]] /\ values[g[i]] \in Spikes /\ g[i] \in DOMAIN values
    BY <1>2, <1>3 DEF Keeps
  <2>2. s[i] \in ToSet(values)
    BY Zenon, <2>1 DEF ToSet
  <2>3. s[i] \in Spikes
    BY <2>1
  <2>4. s[i] \in Value /\ s[i][2] # "tracer"
    BY <2>3 DEF Spikes, Value
  <2> QED
    BY <2>2, <2>4
<1> QED
  BY <1>1, <1>4 DEF s

LEMMA ProducerEarlier ==
  ASSUME NEW ops \in Seq(IROps), Unique(ops), NEW b \in 0 .. Len(ops),
         NEW v, Resolves(v, ops, b), v[2] # "arg"
  PROVE  /\ Producer(ops, v) \in 1 .. b
         /\ ops[Producer(ops, v)].id = v[1] /\ v[2] \in ops[Producer(ops, v)].outs
         /\ Producer(ops, v) = At(ops, v[1])
<1>1. DOMAIN ops = 1 .. Len(ops) /\ Len(ops) \in Nat
  OBVIOUS
<1>2. PICK j \in 1 .. b : ops[j].id = v[1] /\ v[2] \in ops[j].outs
  BY Zenon DEF Resolves
<1>3. j \in DOMAIN ops
  BY <1>1
<1>4. \A i \in DOMAIN ops : ops[i].id = v[1] => i = j
  BY Zenon, <1>1, <1>2, <1>3 DEF Unique
<1>5. Producer(ops, v) = j
  BY Zenon, <1>2, <1>3, <1>4 DEF Producer
<1>6. At(ops, v[1]) = j
  BY Zenon, <1>2, <1>3, <1>4 DEF At
<1> QED
  BY Zenon, <1>2, <1>5, <1>6

LEMMA TermsAgree ==
  ASSUME NEW ops, NEW values \in Seq(Value), NEW f, NEW g,
         \A v \in ToSet(values) : v[2] # "arg" => f[Producer(ops, v)] = g[Producer(ops, v)]
  PROVE  Terms(f, ops, values) = Terms(g, ops, values)
<1> DEFINE s == Among(values, Spikes)
           one(h, i) == IF s[i][2] = "arg" THEN ArgTerm(s[i][1]) ELSE h[Producer(ops, s[i])]
<1>1. \A i \in DOMAIN s : s[i] \in ToSet(values)
  BY SpikesAmong
<1>2. \A i \in DOMAIN s : one(f, i) = one(g, i)
  BY Zenon, <1>1
<1>3. /\ Terms(f, ops, values) = [i \in DOMAIN s |-> one(f, i)]
      /\ Terms(g, ops, values) = [i \in DOMAIN s |-> one(g, i)]
  BY Zenon DEF Terms
<1> HIDE DEF s, one
<1> QED
  BY Zenon, <1>2, <1>3

(* The terms of the operations of a function exist.                         *)
LEMMA MeaningUnfolds ==
  ASSUME NEW ops \in Seq(IROps), Unique(ops), NEW values, Defined(ops, values),
         NEW k \in 1 .. Len(ops)
  PROVE  Meaning(ops)[k] = Computed(ops[k], Terms(Meaning(ops), ops, ops[k].args))
<1> DEFINE n == Len(ops)
           IsMeaning(f, D) == f = [i \in D |-> Computed(ops[i], Terms(f, ops, ops[i].args))]
           S == {m \in 0 .. n : \E f : IsMeaning(f, 1 .. m)}
<1>1. /\ n \in Nat /\ DOMAIN ops = 1 .. n
      /\ \A i \in 1 .. n : ops[i] \in IROps /\ ops[i].args \in Seq(Value)
  <2>1. n \in Nat /\ DOMAIN ops = 1 .. n /\ \A i \in 1 .. n : ops[i] \in IROps
    OBVIOUS
  <2> QED
    BY <2>1, OpFields
<1>2. ASSUME NEW i \in 1 .. n, NEW v \in ToSet(ops[i].args), v[2] # "arg"
      PROVE  Producer(ops, v) \in 1 .. i - 1
  <2>1. Resolves(v, ops, i - 1)
    BY Zenon, <1>1 DEF Defined
  <2>2. i - 1 \in 0 .. Len(ops)
    BY <1>1
  <2> QED
    BY Zenon, <1>2, <2>1, <2>2, ProducerEarlier
<1>3. 0 \in S
  <2>1. IsMeaning(<<>>, 1 .. 0)
    OBVIOUS
  <2> HIDE DEF IsMeaning
  <2> QED
    BY <1>1, <2>1
<1>4. ASSUME NEW m \in 0 .. n - 1, m \in S PROVE m + 1 \in S
  <2>1. PICK f : IsMeaning(f, 1 .. m)
    BY <1>4
  <2>2. \A i \in 1 .. m : f[i] = Computed(ops[i], Terms(f, ops, ops[i].args))
    BY Zenon, <2>1
  <2> DEFINE g == [i \in 1 .. m + 1 |-> Computed(ops[i], Terms(f, ops, ops[i].args))]
  <2>3. m + 1 \in 1 .. n /\ m \in Nat /\ \A i \in 1 .. m + 1 : i \in 1 .. n
    BY <1>1
  <2>4. \A i \in 1 .. m : g[i] = f[i]
    <3>1. \A i \in 1 .. m : i \in 1 .. m + 1
      BY <2>3
    <3> QED
      BY Zenon, <2>2, <3>1
  <2>5. \A i \in 1 .. m + 1 : g[i] = Computed(ops[i], Terms(f, ops, ops[i].args))
    BY Zenon
  <2> HIDE DEF IsMeaning
  <2>6. g = [i \in 1 .. m + 1 |-> g[i]]
    OBVIOUS
  <2> HIDE DEF g
  <2>7. ASSUME NEW i \in 1 .. m + 1 PROVE g[i] = Computed(ops[i], Terms(g, ops, ops[i].args))
    <3>1. ASSUME NEW v \in ToSet(ops[i].args), v[2] # "arg"
          PROVE  f[Producer(ops, v)] = g[Producer(ops, v)]
      <4>1. Producer(ops, v) \in 1 .. i - 1
        BY Zenon, <1>2, <2>3, <3>1
      <4>2. Producer(ops, v) \in 1 .. m
        BY <2>3, <4>1
      <4> QED
        BY Zenon, <2>4, <4>2
    <3>2. ops[i].args \in Seq(Value)
      BY <1>1, <2>3
    <3>3. Terms(f, ops, ops[i].args) = Terms(g, ops, ops[i].args)
      BY Zenon, <3>1, <3>2, TermsAgree
    <3> QED
      BY Zenon, <2>5, <3>3
  <2>8. IsMeaning(g, 1 .. m + 1)
    BY Zenon, <2>6, <2>7 DEF IsMeaning
  <2>9. m + 1 \in 0 .. n
    BY <1>1
  <2> QED
    BY Zenon, <2>8, <2>9
<1>5. \E f : IsMeaning(f, 1 .. n)
  <2> HIDE DEF S
  <2>1. n \in 0 .. n
    BY <1>1
  <2>2. n \in S
    BY <1>1, <1>3, <1>4, <2>1, CountUp
  <2> HIDE DEF n
  <2> QED
    BY Zenon, <2>2 DEF S
<1>6. \E f : IsMeaning(f, DOMAIN ops)
  <2> HIDE DEF IsMeaning
  <2> QED
    BY Zenon, <1>1, <1>5
<1> DEFINE all == CHOOSE f : IsMeaning(f, DOMAIN ops)
<1>7. IsMeaning(all, DOMAIN ops)
  <2> HIDE DEF IsMeaning
  <2> QED
    BY Zenon, <1>6
<1>8. Meaning(ops) = all
  BY Zenon DEF Meaning
<1> HIDE DEF all
<1>9. \A i \in DOMAIN ops : all[i] = Computed(ops[i], Terms(all, ops, ops[i].args))
  BY Zenon, <1>7
<1>10. k \in DOMAIN ops
  BY <1>1
<1> QED
  BY Zenon, <1>8, <1>9, <1>10

-----------------------------------------------------------------------------
(* The term the source gives a value, whatever passes have run.             *)
Main(o) == IF o.form = "neuron" THEN "out" ELSE IF o.form = "model" THEN "acc" ELSE "spike"
Denotes(src, v) ==
    IF v[2] = "arg" THEN ArgTerm(v[1])
    ELSE IF v[2] = "spike" THEN NeuronTerm(Meaning(src)[At(src, v[1])])
    ELSE Meaning(src)[At(src, v[1])]
Denoted(src, values) ==
    [i \in DOMAIN Among(values, Spikes) |-> Denotes(src, Among(values, Spikes)[i])]

IsTerm(t) ==
    \E of, id, scale, params, args :
        t = Term(of, id, scale, params, args) /\ (of = "rescale" => scale \in Int)
Plain(o) == o.kind = "rescale" => o.params = {}
Faithful(src, o) ==
    /\ Denotes(src, <<o.id, Main(o)>>) = Computed(o, Denoted(src, o.args))
    /\ IsTerm(Denotes(src, <<o.id, Main(o)>>))
Preserves(src, ops) == \A k \in 1 .. Len(ops) : Faithful(src, ops[k]) /\ Plain(ops[k])

LEMMA MadeTerms ==
  /\ \A t : IsTerm(NeuronTerm(t))
  /\ \A n : IsTerm(ArgTerm(n))
<1>1. \A of, id, scale, params, args :
        of # "rescale" => IsTerm(Term(of, id, scale, params, args))
  BY Zenon DEF IsTerm
<1>2. "st_bif" # "rescale" /\ "arg" # "rescale"
  OBVIOUS
<1> QED
  BY Zenon, <1>1, <1>2 DEF NeuronTerm, ArgTerm

(* A rescale over a rescale is one rescale.                                  *)
LEMMA Rescaled ==
  ASSUME NEW t, IsTerm(t), t.of = "rescale", NEW s \in Int
  PROVE  LET u == [t EXCEPT !.scale = @ * s]
         IN  u = Term("rescale", t.id, t.scale * s, t.params, t.args) /\ t.scale \in Int
<1>1. PICK of, id, scale, params, args :
         t = Term(of, id, scale, params, args) /\ (of = "rescale" => scale \in Int)
  BY Zenon DEF IsTerm
<1>2. t.of = of /\ t.id = id /\ t.scale = scale /\ t.params = params /\ t.args = args
  BY <1>1 DEF Term
<1>3. [t EXCEPT !.scale = @ * s] = Term(of, id, scale * s, params, args)
  BY <1>1 DEF Term
<1> QED
  BY <1>1, <1>2, <1>3

LEMMA TermFields ==
  ASSUME NEW of, NEW id, NEW scale, NEW params, NEW args
  PROVE  LET t == Term(of, id, scale, params, args)
         IN  t.of = of /\ t.id = id /\ t.scale = scale /\ t.params = params /\ t.args = args
BY DEF Term

LEMMA ModelTermIs ==
  ASSUME NEW o \in IROps, NEW args, o.kind = "rescale" => IsTerm(args[1])
  PROVE  IsTerm(ModelTerm(o, args))
<1>1. o.scale \in Int
  BY DEF IROps, Operations
<1>2. CASE o.kind = "rescale" /\ args[1].of = "rescale"
  <2>1. ModelTerm(o, args) = [args[1] EXCEPT !.scale = @ * o.scale]
    BY Zenon, <1>2 DEF ModelTerm
  <2>2. PICK t : t = args[1]
    OBVIOUS
  <2>3. IsTerm(t) /\ t.of = "rescale" /\ ModelTerm(o, args) = [t EXCEPT !.scale = @ * o.scale]
    BY Zenon, <1>2, <2>1, <2>2
  <2>4. /\ [t EXCEPT !.scale = @ * o.scale] = Term("rescale", t.id, t.scale * o.scale, t.params, t.args)
        /\ t.scale \in Int
    BY <1>1, <2>3, Rescaled
  <2>5. t.scale * o.scale \in Int
    BY <1>1, <2>4
  <2>6. ModelTerm(o, args) = Term("rescale", t.id, t.scale * o.scale, t.params, t.args)
    BY Zenon, <2>3, <2>4
  <2> QED
    BY Zenon, <2>5, <2>6 DEF IsTerm
<1>3. CASE ~ (o.kind = "rescale" /\ args[1].of = "rescale")
  <2>1. ModelTerm(o, args) = Term(o.kind, 0, o.scale, o.params, args)
    BY Zenon, <1>3 DEF ModelTerm
  <2> QED
    BY Zenon, <1>1, <2>1 DEF IsTerm
<1> QED
  BY <1>2, <1>3

(* MergeRescale: b over a is c.                                              *)
LEMMA MergedTerm ==
  ASSUME NEW a \in IROps, NEW b \in IROps, NEW c \in IROps,
         a.kind = "rescale", b.kind = "rescale", c.kind = "rescale",
         Plain(a), Plain(b), Plain(c), c.scale = a.scale * b.scale,
         NEW d, IsTerm(d[1]), NEW e, e[1] = ModelTerm(a, d)
  PROVE  ModelTerm(b, e) = ModelTerm(c, d)
<1>1. a.scale \in Int /\ b.scale \in Int /\ c.scale \in Int
  BY DEF IROps, Operations
<1>2. a.params = {} /\ b.params = {} /\ c.params = {}
  BY Zenon DEF Plain
<1>3. CASE d[1].of = "rescale"
  <2>1. PICK t : t = d[1]
    OBVIOUS
  <2>2. IsTerm(t) /\ t.of = "rescale"
    BY Zenon, <1>3, <2>1
  <2>3. ModelTerm(a, d) = [t EXCEPT !.scale = @ * a.scale]
    BY Zenon, <1>3, <2>1 DEF ModelTerm
  <2>4. ModelTerm(c, d) = [t EXCEPT !.scale = @ * c.scale]
    BY Zenon, <1>3, <2>1 DEF ModelTerm
  <2>5. /\ t.scale \in Int
        /\ ModelTerm(a, d) = Term("rescale", t.id, t.scale * a.scale, t.params, t.args)
    BY <1>1, <2>2, <2>3, Rescaled
  <2>6. ModelTerm(c, d) = Term("rescale", t.id, t.scale * c.scale, t.params, t.args)
    BY <1>1, <2>2, <2>4, Rescaled
  <2>7. PICK u : u = ModelTerm(a, d)
    OBVIOUS
  <2>8. /\ u.of = "rescale" /\ u.id = t.id /\ u.scale = t.scale * a.scale
        /\ u.params = t.params /\ u.args = t.args
    BY <2>5, <2>7, TermFields
  <2>9. IsTerm(u)
    <3>1. t.scale * a.scale \in Int
      BY <1>1, <2>5
    <3> QED
      BY Zenon, <2>5, <2>7, <3>1 DEF IsTerm
  <2>10. ModelTerm(b, e) = [u EXCEPT !.scale = @ * b.scale]
    BY Zenon, <2>7, <2>8 DEF ModelTerm
  <2>11. ModelTerm(b, e) = Term("rescale", u.id, u.scale * b.scale, u.params, u.args)
    BY <1>1, <2>8, <2>9, <2>10, Rescaled
  <2>12. (t.scale * a.scale) * b.scale = t.scale * (a.scale * b.scale)
    <3>1. \A x, y, z \in Int : (x * y) * z = x * (y * z)
      OBVIOUS
    <3> QED
      BY Zenon, <1>1, <2>5, <3>1
  <2> QED
    BY Zenon, <2>6, <2>8, <2>11, <2>12
<1>4. CASE d[1].of # "rescale"
  <2>1. /\ ModelTerm(a, d) = Term("rescale", 0, a.scale, {}, d)
        /\ ModelTerm(c, d) = Term("rescale", 0, c.scale, {}, d)
    BY Zenon, <1>2, <1>4 DEF ModelTerm
  <2>2. PICK u : u = ModelTerm(a, d)
    OBVIOUS
  <2>3. u.of = "rescale" /\ u.id = 0 /\ u.scale = a.scale /\ u.params = {} /\ u.args = d
    BY <2>1, <2>2, TermFields
  <2>4. IsTerm(u)
    BY Zenon, <1>1, <2>1, <2>2 DEF IsTerm
  <2>5. ModelTerm(b, e) = [u EXCEPT !.scale = @ * b.scale]
    BY Zenon, <2>2, <2>3 DEF ModelTerm
  <2>6. ModelTerm(b, e) = Term("rescale", u.id, u.scale * b.scale, u.params, u.args)
    BY <1>1, <2>3, <2>4, <2>5, Rescaled
  <2> QED
    BY Zenon, <2>1, <2>3, <2>6
<1> QED
  BY <1>3, <1>4

(* The one operand of a rescale.                                             *)
LEMMA RescaleArg ==
  ASSUME NEW o \in IROps, Shaped(o), o.form = "model", o.kind = "rescale"
  PROVE  /\ Among(o.args, Spikes) = o.args /\ 1 \in DOMAIN o.args
         /\ o.args[1] \in ToSet(o.args) /\ o.args[1] \in Value /\ o.args[1][2] # "tracer"
<1>1. o.args \in Seq(Value) /\ Len(o.args) = 1 /\ Roled(o.args, {"arg", "acc", "out"})
  BY OpFields DEF Shaped, Fusible, Lowering, Arity, Attention
<1>2. DOMAIN o.args = {1} /\ o.args[1] \in Value
  BY <1>1
<1>3. o.args[1] \in ToSet(o.args)
  BY Zenon, <1>2 DEF ToSet
<1>4. o.args[1][2] \in {"arg", "acc", "out"}
  BY Zenon, <1>1, <1>3 DEF Roled
<1>5. o.args[1] \in Spikes
  BY <1>2, <1>4 DEF Spikes, Value
<1>6. \A i \in 1 .. Len(o.args) : o.args[i] \in Spikes
  BY <1>1, <1>5
<1>7. Among(o.args, Spikes) = o.args
  BY <1>1, <1>6, AmongAll
<1> QED
  BY <1>2, <1>3, <1>4, <1>7

(* A value that is no tracer is the main result of its operation.            *)
LEMMA MainResult ==
  ASSUME NEW o \in IROps, Shaped(o), NEW role \in o.outs, role \notin {"arg", "tracer"}
  PROVE  role = Main(o)
BY OpFields DEF Shaped, Main

LEMMA TermsDenoted ==
  ASSUME NEW src, NEW ops, NEW values \in Seq(Value), NEW f,
         \A v \in ToSet(values) :
            v \in Value /\ v[2] \notin {"arg", "tracer"} => f[Producer(ops, v)] = Denotes(src, v)
  PROVE  Terms(f, ops, values) = Denoted(src, values)
<1> DEFINE s == Among(values, Spikes)
           one(i) == IF s[i][2] = "arg" THEN ArgTerm(s[i][1]) ELSE f[Producer(ops, s[i])]
           two(i) == Denotes(src, s[i])
<1>1. \A i \in DOMAIN s : s[i] \in ToSet(values) /\ s[i] \in Value /\ s[i][2] # "tracer"
  BY SpikesAmong
<1>2. ASSUME NEW i \in DOMAIN s PROVE one(i) = two(i)
  <2> HIDE DEF s
  <2>1. CASE s[i][2] = "arg"
    BY Zenon, <2>1 DEF Denotes
  <2>2. CASE s[i][2] # "arg"
    <3>1. s[i][2] \notin {"arg", "tracer"}
      BY <1>1, <2>2
    <3>2. f[Producer(ops, s[i])] = Denotes(src, s[i])
      BY Zenon, <1>1, <3>1
    <3> QED
      BY Zenon, <2>2, <3>2
  <2> QED
    BY Zenon, <2>1, <2>2
<1>3. /\ Terms(f, ops, values) = [i \in DOMAIN s |-> one(i)]
      /\ Denoted(src, values) = [i \in DOMAIN s |-> two(i)]
  BY Zenon DEF Terms, Denoted
<1> HIDE DEF s, one, two
<1> QED
  BY Zenon, <1>2, <1>3

(* What a value with a producer denotes is a term.                           *)
LEMMA TermOfValue ==
  ASSUME NEW src, NEW ops, NEW values, NEW forms, Sound(ops, values, forms), Preserves(src, ops),
         NEW b \in 0 .. Len(ops), NEW v \in Value, Resolves(v, ops, b), v[2] # "tracer"
  PROVE  IsTerm(Denotes(src, v))
<1>1. CASE v[2] = "arg"
  BY Zenon, <1>1, MadeTerms DEF Denotes
<1>2. CASE v[2] # "arg"
  <2>1. PICK j \in 1 .. b : ops[j].id = v[1] /\ v[2] \in ops[j].outs
    BY Zenon, <1>2 DEF Resolves
  <2>2. j \in 1 .. Len(ops) /\ ops \in Seq(IROps)
    BY DEF Sound
  <2>3. ops[j] \in IROps /\ Shaped(ops[j])
    BY <2>2 DEF Sound
  <2>4. v[2] = Main(ops[j])
    BY <1>2, <2>1, <2>3, MainResult
  <2>5. v = <<v[1], v[2]>>
    BY DEF Value
  <2>6. v = <<ops[j].id, Main(ops[j])>>
    BY Zenon, <2>1, <2>4, <2>5
  <2> QED
    BY Zenon, <2>2, <2>6 DEF Preserves, Faithful
<1> QED
  BY <1>1, <1>2

(* The source is faithful to itself.                                         *)
LEMMA SourceTerms ==
  ASSUME NEW ops, NEW values, ModelOk(ops, values), NEW k \in 1 .. Len(ops)
  PROVE  /\ Denotes(ops, <<ops[k].id, Main(ops[k])>>) = Meaning(ops)[k]
         /\ Meaning(ops)[k] = Computed(ops[k], Denoted(ops, ops[k].args))
<1>1. /\ ops \in Seq(IROps) /\ Unique(ops) /\ Defined(ops, values) /\ Len(ops) \in Nat
      /\ DOMAIN ops = 1 .. Len(ops)
  BY DEF ModelOk, Sound
<1>2. ops[k] \in IROps /\ Shaped(ops[k]) /\ ops[k].form \in {"model", "neuron"}
  BY <1>1 DEF ModelOk, Sound
<1>3. /\ ops[k].args \in Seq(Value) /\ Roled(ops[k].args, {"arg", "acc", "out"})
  BY <1>2, OpFields DEF Shaped
<1>4. At(ops, ops[k].id) = k
  BY <1>1, AtUnique DEF Unique
<1> DEFINE v == <<ops[k].id, Main(ops[k])>>
<1>5. v[1] = ops[k].id /\ v[2] \in {"acc", "out"}
  BY <1>2 DEF Main
<1> HIDE DEF v
<1>6. v[2] # "arg" /\ v[2] # "spike"
  BY <1>5
<1>7. Denotes(ops, v) = Meaning(ops)[k]
  BY Zenon, <1>4, <1>5, <1>6 DEF Denotes
<1>8. ASSUME NEW w \in ToSet(ops[k].args), w[2] \notin {"arg", "tracer"}
      PROVE  Meaning(ops)[Producer(ops, w)] = Denotes(ops, w)
  <2>1. w[2] \in {"acc", "out"}
    BY <1>3, <1>8 DEF Roled
  <2>2. Resolves(w, ops, k - 1) /\ k - 1 \in 0 .. Len(ops)
    BY <1>1 DEF Defined
  <2>3. w[2] # "arg" /\ w[2] # "spike"
    BY <2>1
  <2>4. Producer(ops, w) = At(ops, w[1])
    BY Zenon, <1>1, <2>2, <2>3, ProducerEarlier
  <2> QED
    BY Zenon, <2>3, <2>4 DEF Denotes
<1>9. Terms(Meaning(ops), ops, ops[k].args) = Denoted(ops, ops[k].args)
  BY Zenon, <1>3, <1>8, TermsDenoted
<1>10. Meaning(ops)[k] = Computed(ops[k], Terms(Meaning(ops), ops, ops[k].args))
  BY Zenon, <1>1, MeaningUnfolds
<1> QED
  BY Zenon, <1>7, <1>9, <1>10 DEF v

LEMMA SourceIsTerms ==
  ASSUME NEW ops, NEW values, ModelOk(ops, values)
  PROVE  \A k \in 1 .. Len(ops) : IsTerm(Meaning(ops)[k])
<1> DEFINE n == Len(ops)
           S == {m \in 0 .. n : \A k \in 1 .. m : IsTerm(Meaning(ops)[k])}
<1>1. /\ ops \in Seq(IROps) /\ Unique(ops) /\ Defined(ops, values) /\ n \in Nat
      /\ DOMAIN ops = 1 .. n
  BY DEF ModelOk, Sound
<1>2. 0 \in S
  BY <1>1
<1>3. ASSUME NEW m \in 0 .. n - 1, m \in S PROVE m + 1 \in S
  <2>1. /\ m + 1 \in 1 .. n /\ m + 1 \in 0 .. n /\ m \in 0 .. n
        /\ \A k \in 1 .. m : IsTerm(Meaning(ops)[k])
        /\ \A k \in 1 .. m + 1 : k \in 1 .. m \/ k = m + 1
    BY <1>1, <1>3
  <2>2. PICK k \in 1 .. n : k = m + 1
    BY <2>1
  <2> DEFINE o == ops[k]
             d == Denoted(ops, o.args)
  <2>3. o \in IROps /\ Shaped(o) /\ o.form \in {"model", "neuron"}
    BY <1>1 DEF ModelOk, Sound
  <2>4. Meaning(ops)[k] = Computed(o, d)
    BY Zenon, SourceTerms
  <2>5. IsTerm(Meaning(ops)[k])
    <3>1. CASE o.form = "neuron"
      BY Zenon, <2>4, <3>1, MadeTerms DEF Computed
    <3>2. CASE o.form # "neuron"
      <4>1. o.form = "model"
        BY <2>3, <3>2
      <4>2. Meaning(ops)[k] = ModelTerm(o, d)
        BY Zenon, <2>4, <3>2, <4>1 DEF Computed
      <4>3. ASSUME o.kind = "rescale" PROVE IsTerm(d[1])
        <5> DEFINE v == o.args[1]
        <5>1. /\ Among(o.args, Spikes) = o.args /\ 1 \in DOMAIN o.args
              /\ v \in ToSet(o.args) /\ v \in Value /\ v[2] # "tracer"
          BY Zenon, <2>3, <4>1, <4>3, RescaleArg
        <5>2. d[1] = Denotes(ops, v)
          BY Zenon, <5>1 DEF Denoted
        <5>3. Resolves(v, ops, k - 1) /\ k - 1 \in 0 .. Len(ops) /\ k - 1 = m
          <6>1. Resolves(v, ops, k - 1)
            BY Zenon, <1>1, <5>1 DEF Defined
          <6>2. k - 1 \in 0 .. Len(ops) /\ k - 1 = m
            <7> HIDE DEF o, d, v
            <7> QED
              BY <1>1, <1>3, <2>1, <2>2
          <6> QED
            BY Zenon, <6>1, <6>2
        <5>4. Roled(o.args, {"arg", "acc", "out"})
          BY <2>3 DEF Shaped
        <5>5. v[2] \in {"arg", "acc", "out"}
          BY Zenon, <5>1, <5>4 DEF Roled
        <5> HIDE DEF v
        <5>6. CASE v[2] = "arg"
          BY Zenon, <5>2, <5>6, MadeTerms DEF Denotes
        <5>7. CASE v[2] # "arg"
          <6>1. v[2] # "spike"
            BY <5>5
          <6>2. Producer(ops, v) \in 1 .. k - 1 /\ Producer(ops, v) = At(ops, v[1])
            BY Zenon, <1>1, <5>3, <5>7, ProducerEarlier
          <6>3. At(ops, v[1]) \in 1 .. m
            BY Zenon, <5>3, <6>2
          <6> QED
            BY Zenon, <2>1, <5>2, <5>7, <6>1, <6>3 DEF Denotes
        <5> QED
          BY <5>6, <5>7
      <4> QED
        BY Zenon, <2>3, <4>2, <4>3, ModelTermIs
    <3> QED
      BY Zenon, <3>1, <3>2
  <2>7. IsTerm(Meaning(ops)[m + 1])
    BY Zenon, <2>2, <2>5
  <2>8. \A i \in 1 .. m + 1 : IsTerm(Meaning(ops)[i])
    BY Zenon, <2>1, <2>7
  <2> QED
    BY Zenon, <2>1, <2>8
<1> HIDE DEF S
<1>4. n \in 0 .. n /\ \A m \in 0 .. n : m \in S
  BY <1>1, <1>2, <1>3, CountUp
<1>5. n \in S
  BY Zenon, <1>4
<1> QED
  BY Zenon, <1>5 DEF S

LEMMA SourcePreserved ==
  ASSUME NEW ops, NEW values, ModelOk(ops, values), \A k \in 1 .. Len(ops) : Plain(ops[k])
  PROVE  Preserves(ops, ops)
<1> SUFFICES ASSUME NEW k \in 1 .. Len(ops) PROVE Faithful(ops, ops[k])
  BY Zenon DEF Preserves
<1>1. /\ Denotes(ops, <<ops[k].id, Main(ops[k])>>) = Meaning(ops)[k]
      /\ Meaning(ops)[k] = Computed(ops[k], Denoted(ops, ops[k].args))
  BY Zenon, SourceTerms
<1>2. IsTerm(Meaning(ops)[k])
  BY Zenon, SourceIsTerms
<1> QED
  BY Zenon, <1>1, <1>2 DEF Faithful

(* A function that preserves the terms returns the terms of the source.      *)
LEMMA PreservedReturns ==
  ASSUME NEW src, NEW ops, NEW values, NEW forms, Sound(ops, values, forms), Unique(ops),
         Preserves(src, ops)
  PROVE  Returned(ops, values) = Denoted(src, values)
<1> DEFINE n == Len(ops)
           Same(k) == Meaning(ops)[k] = Denotes(src, <<ops[k].id, Main(ops[k])>>)
           S == {m \in 0 .. n : \A k \in 1 .. m : Same(k)}
<1>1. /\ ops \in Seq(IROps) /\ Defined(ops, values) /\ n \in Nat /\ values \in Seq(Value)
      /\ DOMAIN ops = 1 .. n /\ \A k \in 1 .. n : ops[k] \in IROps /\ Shaped(ops[k])
  BY DEF Sound
<1>2. ASSUME NEW b \in 0 .. n, \A k \in 1 .. b : Same(k), NEW v \in Value,
             Resolves(v, ops, b), v[2] \notin {"arg", "tracer"}
      PROVE  Meaning(ops)[Producer(ops, v)] = Denotes(src, v)
  <2>1. v[2] # "arg" /\ v = <<v[1], v[2]>>
    BY <1>2 DEF Value
  <2>2. PICK j \in 1 .. b : j = Producer(ops, v) /\ ops[j].id = v[1] /\ v[2] \in ops[j].outs
    BY Zenon, <1>1, <1>2, <2>1, ProducerEarlier
  <2>3. j \in 1 .. n
    BY <1>1
  <2>4. v[2] = Main(ops[j])
    BY Zenon, <1>1, <1>2, <2>2, <2>3, MainResult
  <2>5. v = <<ops[j].id, Main(ops[j])>>
    BY Zenon, <2>1, <2>2, <2>4
  <2> QED
    BY Zenon, <1>2, <2>2, <2>5
<1>3. 0 \in S
  BY <1>1
<1>4. ASSUME NEW m \in 0 .. n - 1, m \in S PROVE m + 1 \in S
  <2>1. /\ m + 1 \in 1 .. n /\ m + 1 \in 0 .. n /\ m \in 0 .. n
        /\ \A k \in 1 .. m : Same(k)
        /\ \A k \in 1 .. m + 1 : k \in 1 .. m \/ k = m + 1
    BY <1>1, <1>4
  <2>2. PICK k \in 1 .. n : k = m + 1
    BY <2>1
  <2>3. k - 1 = m /\ ops[k].args \in Seq(Value)
    BY <1>1, <2>1, <2>2, OpFields
  <2>4. ASSUME NEW v \in ToSet(ops[k].args), v \in Value, v[2] \notin {"arg", "tracer"}
        PROVE  Meaning(ops)[Producer(ops, v)] = Denotes(src, v)
    <3>1. Resolves(v, ops, m)
      BY Zenon, <1>1, <2>3 DEF Defined
    <3> QED
      BY Zenon, <1>2, <2>1, <2>4, <3>1
  <2>5. Terms(Meaning(ops), ops, ops[k].args) = Denoted(src, ops[k].args)
    BY Zenon, <2>3, <2>4, TermsDenoted
  <2>6. Meaning(ops)[k] = Computed(ops[k], Terms(Meaning(ops), ops, ops[k].args))
    BY Zenon, <1>1, MeaningUnfolds
  <2>7. Same(k)
    BY Zenon, <2>5, <2>6 DEF Preserves, Faithful
  <2>8. \A i \in 1 .. m + 1 : Same(i)
    BY Zenon, <2>1, <2>2, <2>7
  <2> QED
    BY Zenon, <2>1, <2>8
<1>5. n \in 0 .. n /\ \A k \in 1 .. n : Same(k)
  <2> HIDE DEF S
  <2>1. n \in 0 .. n /\ \A m \in 0 .. n : m \in S
    BY <1>1, <1>3, <1>4, CountUp
  <2>2. n \in S
    BY Zenon, <2>1
  <2> QED
    BY Zenon, <2>1, <2>2 DEF S
<1>6. \A v \in ToSet(values) : Resolves(v, ops, n)
  BY Zenon, <1>1 DEF Defined
<1> HIDE DEF Same
<1>7. \A v \in ToSet(values) :
        v \in Value /\ v[2] \notin {"arg", "tracer"} => Meaning(ops)[Producer(ops, v)] = Denotes(src, v)
  BY Zenon, <1>2, <1>5, <1>6
<1> QED
  BY Zenon, <1>1, <1>7, TermsDenoted DEF Returned

LEMMA ComputedIs ==
  ASSUME NEW o, NEW args
  PROVE  /\ o.form = "neuron" => Computed(o, args) = NeuronTerm(args[1])
         /\ o.form = "model" => Computed(o, args) = ModelTerm(o, args)
         /\ o.form \in {"fused", "exec"} => Computed(o, args) = NeuronTerm(ModelTerm(o, args))
<1>1. "neuron" # "model" /\ "fused" # "neuron" /\ "fused" # "model" /\ "exec" # "neuron" /\ "exec" # "model"
  OBVIOUS
<1>2. o.form = "neuron" => Computed(o, args) = NeuronTerm(args[1])
  BY Zenon, <1>1 DEF Computed
<1>3. o.form = "model" => Computed(o, args) = ModelTerm(o, args)
  BY Zenon, <1>1 DEF Computed
<1>4. o.form = "fused" \/ o.form = "exec" => Computed(o, args) = NeuronTerm(ModelTerm(o, args))
  BY Zenon, <1>1 DEF Computed
<1> QED
  BY Zenon, <1>2, <1>3, <1>4

(* Another list of results and the lowering do not change what an operation *)
(* computes.                                                                *)
Alike(o, p) ==
    /\ o.id = p.id /\ o.kind = p.kind /\ o.params = p.params /\ o.scale = p.scale
    /\ o.args = p.args
    /\ o.form = p.form \/ (o.form \in {"fused", "exec"} /\ p.form \in {"fused", "exec"})

LEMMA AlikeFaithful ==
  ASSUME NEW src, NEW o, NEW p, Alike(o, p), Faithful(src, p), Plain(p)
  PROVE  Faithful(src, o) /\ Plain(o)
<1> DEFINE d == Denoted(src, p.args)
<1>1. o.id = p.id /\ o.args = p.args /\ Main(o) = Main(p)
  BY DEF Alike, Main
<1>2. ModelTerm(o, d) = ModelTerm(p, d)
  BY Zenon DEF ModelTerm, Alike
<1>3. Computed(o, d) = Computed(p, d)
  <2>1. CASE o.form = p.form
    BY Zenon, <1>2, <2>1 DEF Computed
  <2>2. CASE o.form \in {"fused", "exec"} /\ p.form \in {"fused", "exec"}
    BY Zenon, <1>2, <2>2, ComputedIs
  <2> QED
    BY Zenon, <2>1, <2>2 DEF Alike
<1>4. Plain(o)
  BY Zenon DEF Plain, Alike
<1> QED
  BY Zenon, <1>1, <1>3, <1>4 DEF Faithful

LEMMA PartPreserves ==
  ASSUME NEW src, NEW s, Preserves(src, s), NEW t,
         \A i \in 1 .. Len(t) : \E j \in 1 .. Len(s) : Alike(t[i], s[j])
  PROVE  Preserves(src, t)
<1> SUFFICES ASSUME NEW i \in 1 .. Len(t) PROVE Faithful(src, t[i]) /\ Plain(t[i])
  BY Zenon DEF Preserves
<1>1. PICK j \in 1 .. Len(s) : Alike(t[i], s[j])
  BY Zenon
<1>2. Faithful(src, s[j]) /\ Plain(s[j])
  BY Zenon DEF Preserves
<1> QED
  BY Zenon, <1>1, <1>2, AlikeFaithful

(* MergeRescale.                                                             *)
LEMMA MergePreserves ==
  ASSUME NEW src, Sound(ir, ret, {"model", "neuron"}), Unique(ir), Preserves(src, ir),
         NEW k \in 1 .. Len(ir), Merges(k)
  PROVE  Preserves(src, [ir EXCEPT ![k] = Merged(k)])
<1> DEFINE t == [ir EXCEPT ![k] = Merged(k)]
           v == ir[k].args[1]
<1>1. /\ ir \in Seq(IROps) /\ Len(ir) \in Nat /\ DOMAIN ir = 1 .. Len(ir) /\ ir[k] \in IROps
      /\ Defined(ir, ret) /\ Shaped(ir[k])
  BY DEF Sound
<1>2. ir[k].form = "model" /\ ir[k].kind = "rescale" /\ v[2] = "acc"
  BY DEF Merges
<1>3. /\ Among(ir[k].args, Spikes) = ir[k].args /\ 1 \in DOMAIN ir[k].args
      /\ v \in ToSet(ir[k].args) /\ v \in Value
  BY Zenon, <1>1, <1>2, RescaleArg
<1>4. Resolves(v, ir, k - 1)
  BY Zenon, <1>1, <1>3 DEF Defined
<1>5. PICK j \in 1 .. k - 1 : ir[j].id = v[1] /\ "acc" \in ir[j].outs
  BY Zenon, <1>2, <1>4 DEF Resolves
<1>6. j \in 1 .. Len(ir)
  BY <1>1
<1>7. At(ir, v[1]) = j
  BY <1>1, <1>5, <1>6, AtUnique DEF Unique
<1>8. ir[j] \in IROps /\ ir[j].kind = "rescale" /\ ir[j].form = "model" /\ Shaped(ir[j])
  <2>1. ir[j].kind = "rescale"
    BY <1>7 DEF Merges
  <2>2. ir[j].form # "neuron"
    BY <1>5, <1>6 DEF Sound, Shaped
  <2> QED
    BY <1>1, <1>6, <2>1, <2>2 DEF Sound
<1> DEFINE o == Merged(k)
           a == ir[j]
           b == ir[k]
<1>9. /\ o \in IROps /\ o.id = b.id /\ o.form = "model" /\ o.kind = "rescale"
      /\ o.args = a.args /\ o.scale = a.scale * b.scale /\ o.params = b.params
  <2>1. o = [b EXCEPT !.args = a.args, !.scale = a.scale * b.scale]
    BY <1>7 DEF Merged
  <2>2. a.args \in Seq(Nat \X Roles) /\ a.scale \in Int /\ b.scale \in Int
    BY <1>1, <1>8 DEF IROps, Operations
  <2>3. a.scale * b.scale \in Int
    BY <2>2
  <2> HIDE DEF o
  <2> QED
    BY <1>1, <1>2, <2>1, <2>2, <2>3 DEF IROps, Operations
<1> HIDE DEF o
<1>10. Faithful(src, a) /\ Plain(a) /\ Faithful(src, b) /\ Plain(b)
  BY Zenon, <1>6 DEF Preserves
<1> DEFINE d == Denoted(src, a.args)
           e == Denoted(src, b.args)
<1>11. IsTerm(d[1])
  <2>1. /\ Among(a.args, Spikes) = a.args /\ 1 \in DOMAIN a.args
        /\ a.args[1] \in ToSet(a.args) /\ a.args[1] \in Value /\ a.args[1][2] # "tracer"
    BY Zenon, <1>8, RescaleArg
  <2>2. d[1] = Denotes(src, a.args[1])
    BY Zenon, <2>1 DEF Denoted
  <2>3. Resolves(a.args[1], ir, j - 1)
    BY Zenon, <1>1, <1>6, <2>1 DEF Defined
  <2>4. j - 1 \in 0 .. Len(ir)
    BY <1>1, <1>6
  <2>5. IsTerm(Denotes(src, a.args[1]))
    BY Zenon, <2>1, <2>3, <2>4, TermOfValue
  <2> QED
    BY Zenon, <2>2, <2>5
<1>12. e[1] = ModelTerm(a, d)
  <2>1. e[1] = Denotes(src, v)
    BY Zenon, <1>3 DEF Denoted
  <2>2. v = <<a.id, "acc">>
    <3>1. v = <<v[1], v[2]>>
      BY <1>3 DEF Value
    <3> QED
      BY Zenon, <1>2, <1>5, <3>1
  <2>3. Main(a) = "acc"
    BY <1>8 DEF Main
  <2>4. Denotes(src, v) = Computed(a, d)
    BY Zenon, <1>10, <2>2, <2>3 DEF Faithful
  <2> QED
    BY Zenon, <1>8, <2>1, <2>4, ComputedIs
<1>13. Plain(o)
  BY Zenon, <1>9, <1>10, <1>2 DEF Plain
<1>14. ModelTerm(b, e) = ModelTerm(o, d)
  <2> HIDE DEF a, b, d, e
  <2>1. a \in IROps /\ b \in IROps /\ a.kind = "rescale" /\ b.kind = "rescale"
    BY <1>1, <1>2, <1>8 DEF a, b
  <2> QED
    BY <1>9, <1>10, <1>11, <1>12, <1>13, <2>1, MergedTerm
<1>15. Faithful(src, o)
  <2>1. Main(o) = Main(b)
    BY <1>2, <1>9 DEF Main
  <2>2. Computed(o, d) = Computed(b, e)
    BY Zenon, <1>2, <1>9, <1>14, ComputedIs
  <2> QED
    BY Zenon, <1>9, <1>10, <2>1, <2>2 DEF Faithful
<1>16. PutAt(ir, t, k, o)
  BY Zenon DEF PutAt, o
<1>17. Len(t) = Len(ir) /\ t[k] = o /\ \A i \in 1 .. Len(ir) : i # k => t[i] = ir[i]
  BY <1>1, <1>9, <1>16, OpReplaced
<1>18. ASSUME NEW i \in 1 .. Len(t) PROVE Faithful(src, t[i]) /\ Plain(t[i])
  <2> HIDE DEF t, a, b, d, e, v
  <2>1. CASE i = k
    BY Zenon, <1>13, <1>15, <1>17, <2>1
  <2>2. CASE i # k
    BY Zenon, <1>17, <2>2 DEF Preserves
  <2> QED
    BY <2>1, <2>2
<1> QED
  BY Zenon, <1>18 DEF Preserves

-----------------------------------------------------------------------------
(* The fusion: the spike of a fused operation stands for the out of the      *)
(* neuron it replaces.                                                       *)
Spiked(src, done) ==
    \A r \in done : Denotes(src, <<r[1], "out">>) = Denotes(src, <<r[2], "spike">>)

LEMMA SpikeDenotes ==
  ASSUME NEW src, Spiked(src, replaced), NEW v
  PROVE  Denotes(src, SpikeOf(v)) = Denotes(src, v)
<1>1. CASE FusedFor(v) = {}
  BY Zenon, <1>1 DEF SpikeOf
<1>2. CASE FusedFor(v) # {}
  <2>1. PICK r : r \in FusedFor(v) /\ SpikeOf(v) = <<r[2], "spike">>
    BY Zenon, <1>2 DEF SpikeOf
  <2>2. r \in replaced /\ v = <<r[1], "out">>
    BY <2>1 DEF FusedFor
  <2> QED
    BY Zenon, <2>1, <2>2 DEF Spiked
<1> QED
  BY <1>1, <1>2

LEMMA NoTracers ==
  ASSUME NEW w \in Value
  PROVE  w \in Spikes <=> w[2] # "tracer"
BY DEF Value, Spikes

(* The values that are no tracers of two lists, one by one.                  *)
LEMMA DenotedBy ==
  ASSUME NEW src, NEW s \in Seq(Value), NEW t \in Seq(Value),
         \A i \in 1 .. Len(s) : s[i] \in Spikes,
         NEW h, Picks(t, Spikes, Len(s), h),
         \A i \in 1 .. Len(s) : Denotes(src, t[h[i]]) = Denotes(src, s[i])
  PROVE  Denoted(src, t) = Denoted(src, s)
<1> DEFINE u == Among(t, Spikes)
<1>1. Among(s, Spikes) = s
  BY AmongAll
<1>2. u \in Seq(Value) /\ Len(u) = Len(s) /\ \A i \in 1 .. Len(s) : u[i] = t[h[i]]
  BY AmongIs
<1> HIDE DEF u
<1>3. DOMAIN u = DOMAIN s /\ DOMAIN s = 1 .. Len(s)
  BY <1>2
<1>4. \A i \in DOMAIN s : Denotes(src, u[i]) = Denotes(src, s[i])
  BY Zenon, <1>2, <1>3
<1>5. /\ Denoted(src, t) = [i \in DOMAIN u |-> Denotes(src, u[i])]
      /\ Denoted(src, s) = [i \in DOMAIN s |-> Denotes(src, s[i])]
  BY Zenon, <1>1 DEF Denoted, u
<1> QED
  BY Zenon, <1>3, <1>4, <1>5

LEMMA FusedDenoted ==
  ASSUME NEW src, Spiked(src, replaced), NEW o \in IROps, Shaped(o), o.form = "model",
         o.kind \in Fusible, FusedOperands(o) \in Seq(Value),
         \A i \in 1 .. Len(o.args) : SpikeOf(o.args[i]) \in Spikes
  PROVE  Denoted(src, FusedOperands(o)) = Denoted(src, o.args)
<1> DEFINE vs == o.args
           args == FusedOperands(o)
           n == Len(vs)
<1>1. vs \in Seq(Value) /\ n \in Nat /\ Roled(vs, {"arg", "acc", "out"}) /\ n = Arity(o.kind)
  BY OpFields DEF Shaped
<1>2. \A i \in 1 .. n : vs[i] \in Spikes
  <2>1. ASSUME NEW i \in 1 .. n PROVE vs[i] \in Value /\ vs[i][2] # "tracer"
    <3>1. vs[i] \in ToSet(vs) /\ vs[i] \in Value
      BY <1>1 DEF ToSet
    <3> QED
      BY <1>1, <3>1 DEF Roled
  <2> QED
    BY Zenon, <2>1, NoTracers
<1>3. \A i \in 1 .. n : Denotes(src, SpikeOf(vs[i])) = Denotes(src, vs[i])
  BY Zenon, SpikeDenotes
<1>4. CASE o.kind \notin Attention
  <2>1. args = [i \in 1 .. n |-> SpikeOf(vs[i])]
    BY <1>4 DEF FusedOperands
  <2> DEFINE h == [i \in 1 .. n |-> i]
  <2> HIDE DEF args, vs, n
  <2>2. Len(args) = n /\ \A i \in 1 .. n : args[i] = SpikeOf(vs[i])
    BY <1>1, <2>1 DEF args
  <2>3. \A i \in 1 .. Len(args) : args[i] \in Spikes
    BY Zenon, <2>2 DEF vs, n
  <2>4. Picks(args, Spikes, n, h)
    BY <1>1, <2>2, <2>3 DEF Picks, Increasing
  <2>5. \A i \in 1 .. n : h[i] = i
    OBVIOUS
  <2> HIDE DEF h
  <2>6. \A i \in 1 .. n : Denotes(src, args[h[i]]) = Denotes(src, vs[i])
    BY Zenon, <1>3, <2>2, <2>5
  <2>7. args \in Seq(Value)
    BY DEF args
  <2>8. Denoted(src, args) = Denoted(src, vs)
    <3> USE DEF n
    <3> QED
      BY <1>1, <1>2, <2>4, <2>6, <2>7, DenotedBy
  <2> QED
    BY <2>8 DEF args, vs
<1>5. CASE o.kind \in Attention
  <2>1. n = 2
    BY <1>1, <1>5 DEF Arity
  <2> DEFINE s(i) == SpikeOf(vs[i])
             t(i) == <<SpikeOf(vs[i])[1], "tracer">>
             two == [i \in 1 .. n |-> <<s(i), t(i)>>]
             h == [i \in 1 .. 2 |-> 2 * i - 1]
  <2>2. args = FlattenSeq(two)
    BY <1>5 DEF FusedOperands
  <2>3. \A i \in 1 .. 2 : s(i) \in Spikes /\ s(i) \in Value /\ t(i) \in Value /\ t(i) \notin Spikes
    <3>1. \A i \in 1 .. 2 : s(i) \in Spikes
      BY <2>1
    <3>2. \A w \in Spikes : w \in Value /\ <<w[1], "tracer">> \in Value /\ <<w[1], "tracer">> \notin Spikes
      BY DEF Spikes, Value, Roles
    <3> QED
      BY Zenon, <3>1, <3>2
  <2> HIDE DEF s, t, args
  <2>4. two \in Seq(Seq(Value)) /\ Len(two) = 2 /\ two[1] = <<s(1), t(1)>> /\ two[2] = <<s(2), t(2)>>
    BY <2>1, <2>3
  <2> HIDE DEF two
  <2>5. PICK a \in Value, b \in Value, c \in Value, d \in Value :
            a = s(1) /\ b = t(1) /\ c = s(2) /\ d = t(2)
    BY <2>3
  <2>6. TwoPairs(two, Value, a, b, c, d)
    BY <2>4, <2>5 DEF TwoPairs
  <2>7. args = <<a, b, c, d>>
    BY <2>2, <2>6, FlattenTwo
  <2>8. Len(args) = 4 /\ args[1] = a /\ args[2] = b /\ args[3] = c /\ args[4] = d
    BY <2>7
  <2>9. a \in Spikes /\ b \notin Spikes /\ c \in Spikes /\ d \notin Spikes
    <3>1. 1 \in 1 .. 2 /\ 2 \in 1 .. 2
      OBVIOUS
    <3> QED
      BY Zenon, <2>3, <2>5, <3>1
  <2>10. h \in [1 .. 2 -> 1 .. 4] /\ h[1] = 1 /\ h[2] = 3 /\ Increasing(h, 2)
    BY DEF Increasing
  <2> HIDE DEF h
  <2>11. ASSUME NEW p \in 1 .. 4 PROVE args[p] \in Spikes <=> \E i \in 1 .. 2 : h[i] = p
    <3>1. p = 1 \/ p = 2 \/ p = 3 \/ p = 4
      OBVIOUS
    <3>2. (\E i \in 1 .. 2 : h[i] = p) <=> p = 1 \/ p = 3
      BY <2>10
    <3>3. 1 # 2 /\ 1 # 4 /\ 2 # 3 /\ 3 # 4
      OBVIOUS
    <3> QED
      BY Zenon, <2>8, <2>9, <3>1, <3>2, <3>3
  <2>12. Picks(args, Spikes, 2, h)
    BY <2>8, <2>10, <2>11 DEF Picks
  <2>13. \A i \in 1 .. 2 : Denotes(src, args[h[i]]) = Denotes(src, vs[i])
    <3>1. /\ Denotes(src, args[h[1]]) = Denotes(src, vs[1])
          /\ Denotes(src, args[h[2]]) = Denotes(src, vs[2])
      <4>1. 1 \in 1 .. n /\ 2 \in 1 .. n
        BY <2>1
      <4> QED
        BY Zenon, <1>3, <2>5, <2>8, <2>10, <4>1 DEF s
    <3>2. \A i \in 1 .. 2 : i = 1 \/ i = 2
      OBVIOUS
    <3> QED
      BY Zenon, <3>1, <3>2
  <2>14. args \in Seq(Value)
    BY DEF args
  <2> HIDE DEF vs
  <2>15. Denoted(src, args) = Denoted(src, vs)
    BY <1>1, <1>2, <2>1, <2>12, <2>13, <2>14, DenotedBy
  <2> QED
    BY <2>15 DEF args, vs
<1> QED
  BY <1>4, <1>5

LEMMA SameTerm ==
  ASSUME NEW o, NEW p, o.kind = p.kind, o.params = p.params, o.scale = p.scale, NEW d
  PROVE  ModelTerm(o, d) = ModelTerm(p, d)
BY Zenon DEF ModelTerm

(* The fused operation of a pair.                                            *)
LEMMA FusedFaithful ==
  ASSUME NEW src, FuseInv, Preserves(src, ir), Spiked(src, replaced),
         NEW k \in 1 .. Len(ir), ir[k].form = "model", ir[k].kind \in Fusible,
         \A j \in 1 .. k : ir[j].form = "neuron" => \E r \in replaced : r[1] = ir[j].id,
         ir[k].kind \in Attention => \A v \in ToSet(ir[k].args) : FusedFor(v) # {},
         NEW new, new = [ir[k] EXCEPT !.form = "fused", !.args = FusedOperands(ir[k]),
                                      !.outs = {"spike", "tracer"}]
  PROVE  new \in IROps /\ Faithful(src, new) /\ Plain(new)
<1> DEFINE o == ir[k]
           d == Denoted(src, o.args)
<1>1. ir \in Seq(IROps) /\ o \in IROps /\ Shaped(o) /\ Faithful(src, o) /\ Plain(o)
  BY DEF FuseInv, FuseOk, Sound, Preserves
<1>2. new \in IROps /\ new.id = o.id /\ new.form = "fused"
  BY FusedArgs
<1>3. /\ new.args = FusedOperands(o) /\ new.kind = o.kind /\ new.params = o.params
      /\ new.scale = o.scale
  BY <1>1 DEF IROps, Operations
<1>4. new.args \in Seq(Value)
  BY <1>2, OpFields
<1>5. \A i \in 1 .. Len(o.args) : SpikeOf(o.args[i]) \in Spikes
  <2>1. ASSUME NEW i \in 1 .. Len(o.args) PROVE SpikeOf(o.args[i]) \in Spikes
    <3>1. o.args[i] \in ToSet(o.args)
      BY <1>1, OpFields DEF ToSet
    <3>2. /\ SpikeOf(o.args[i]) \in Value
          /\ SpikeOf(o.args[i])[2] \in {"arg", "acc", "spike"}
      BY <3>1, SpikeResolves
    <3>3. SpikeOf(o.args[i])[2] # "tracer"
      BY <3>2
    <3> QED
      BY Zenon, <3>2, <3>3, NoTracers
  <2> QED
    BY <2>1
<1> HIDE DEF o, d
<1>6. Denoted(src, new.args) = d
  <2>1. o.form = "model" /\ o.kind \in Fusible /\ FusedOperands(o) \in Seq(Value)
    BY Zenon, <1>3, <1>4 DEF o
  <2>2. Denoted(src, FusedOperands(o)) = Denoted(src, o.args)
    BY Zenon, <1>1, <1>5, <2>1, FusedDenoted
  <2> QED
    BY Zenon, <1>3, <2>2 DEF d
<1>7. ModelTerm(new, d) = ModelTerm(o, d)
  BY Zenon, <1>3, SameTerm
<1>8. Main(o) = "acc" /\ Main(new) = "spike"
  BY <1>2 DEF Main, o
<1>9. Denotes(src, <<o.id, "acc">>) = ModelTerm(o, d)
  <2>1. Denotes(src, <<o.id, "acc">>) = Computed(o, d)
    BY Zenon, <1>1, <1>8 DEF Faithful, d
  <2> QED
    BY Zenon, <2>1, ComputedIs DEF o
<1>10. Denotes(src, <<o.id, "spike">>) = NeuronTerm(ModelTerm(o, d))
  <2>1. Denotes(src, <<o.id, "spike">>) = NeuronTerm(Denotes(src, <<o.id, "acc">>))
    BY DEF Denotes
  <2> QED
    BY Zenon, <1>9, <2>1
<1>11. Computed(new, Denoted(src, new.args)) = NeuronTerm(ModelTerm(o, d))
  BY Zenon, <1>2, <1>6, <1>7, ComputedIs
<1>12. Plain(new)
  BY Zenon, <1>1, <1>3 DEF Plain
<1> QED
  BY Zenon, <1>2, <1>8, <1>10, <1>11, <1>12, MadeTerms DEF Faithful

(* The pair that is recorded.                                                *)
LEMMA PairSpiked ==
  ASSUME NEW src, NEW o \in IROps, Shaped(o), o.form = "neuron", Faithful(src, o),
         NEW id, o.args[1] = <<id, "acc">>
  PROVE  Denotes(src, <<o.id, "out">>) = Denotes(src, <<id, "spike">>)
<1>1. o.args \in Seq(Value) /\ Len(o.args) = 1
  BY OpFields DEF Shaped
<1>2. o.args[1] \in Value /\ o.args[1][2] # "tracer" /\ DOMAIN o.args = {1}
  BY <1>1
<1>3. \A i \in 1 .. Len(o.args) : o.args[i] \in Spikes
  <2>1. \A i \in 1 .. Len(o.args) : i = 1
    BY <1>1
  <2> QED
    BY Zenon, <1>2, <2>1, NoTracers
<1>4. Among(o.args, Spikes) = o.args
  BY <1>1, <1>3, AmongAll
<1>5. 1 \in DOMAIN o.args
  BY <1>2
<1>6. Denoted(src, o.args)[1] = Denotes(src, <<id, "acc">>)
  BY Zenon, <1>4, <1>5 DEF Denoted
<1>7. Main(o) = "out"
  BY DEF Main
<1>8. Denotes(src, <<o.id, "out">>) = NeuronTerm(Denotes(src, <<id, "acc">>))
  BY Zenon, <1>6, <1>7, ComputedIs DEF Faithful
<1>9. Denotes(src, <<id, "spike">>) = NeuronTerm(Denotes(src, <<id, "acc">>))
  BY DEF Denotes
<1> QED
  BY Zenon, <1>8, <1>9

LEMMA FusePreserves ==
  ASSUME NEW src, FuseInv, FuseOne, Preserves(src, ir), Spiked(src, replaced)
  PROVE  \/ stage' = "failed"
         \/ Preserves(src, ir') /\ Spiked(src, replaced')
<1>1. todo # <<>>
  BY DEF FuseOne
<1>2. PICK n, k : Target(n, k)
  BY <1>1, TargetExists
<1> DEFINE model == ir[k]
           refused == /\ model.kind \in Attention
                      /\ \E v \in ToSet(model.args) : FusedFor(v) = {}
           e == [model EXCEPT !.form = "fused", !.args = FusedOperands(model),
                              !.outs = {"spike", "tracer"}]
           t == InsertAt(ir, k, e)
           done == replaced \cup {<<ir[n].id, ir[k].id>>}
<1>3. At(ir, Head(todo)) = n /\ ir[n].args[1] = <<ir[k].id, "acc">>
      /\ At(ir, ir[n].args[1][1]) = k
  BY <1>2 DEF Target
<1>4. IF refused THEN stage' = "failed" ELSE ir' = t /\ replaced' = done
  BY Zenon, <1>3 DEF FuseOne
<1> SUFFICES ASSUME ~ refused PROVE Preserves(src, t) /\ Spiked(src, done)
  BY Zenon, <1>4
<1>5. /\ ir \in Seq(IROps) /\ Len(ir) \in Nat /\ n \in 1 .. Len(ir) /\ k \in 1 .. Len(ir) /\ k < n
      /\ ir[k].form = "model" /\ ir[k].kind \in Fusible
      /\ ir[n] \in IROps /\ Shaped(ir[n]) /\ ir[n].form = "neuron"
  BY <1>2 DEF FuseInv, FuseOk, Sound, Target
<1>6. \A j \in 1 .. k : ir[j].form = "neuron" => \E r \in replaced : r[1] = ir[j].id
  <2>1. \A j \in 1 .. k : j \in 1 .. n /\ j # n
    BY <1>5
  <2> QED
    BY Zenon, <1>2, <2>1 DEF Target
<1>7. ir[k].kind \in Attention => \A v \in ToSet(ir[k].args) : FusedFor(v) # {}
  BY Zenon
<1>8. e \in IROps /\ Faithful(src, e) /\ Plain(e)
  BY Zenon, <1>5, <1>6, <1>7, FusedFaithful
<1> HIDE DEF e
<1>9. InsertedAt(ir, t, k, e)
  BY Zenon, <1>5, <1>8, InsertMakes
<1> HIDE DEF t
<1>10. /\ t[k] = e /\ \A i \in 1 .. Len(ir) : t[Shift(k, i)] = ir[i]
       /\ \A j \in 1 .. Len(t) : j = k \/ \E i \in 1 .. Len(ir) : j = Shift(k, i)
  <2>1. \A j \in 1 .. Len(t) : j = k \/ \E i \in 1 .. Len(ir) : j = Shift(k, i)
    BY <1>9, InsertedFacts
  <2> QED
    BY Zenon, <1>9, <2>1 DEF InsertedAt
<1>11. ASSUME NEW j \in 1 .. Len(t) PROVE Faithful(src, t[j]) /\ Plain(t[j])
  <2>1. CASE j = k
    BY Zenon, <1>8, <1>10, <2>1
  <2>2. CASE j # k
    <3>1. PICK i \in 1 .. Len(ir) : t[j] = ir[i]
      BY Zenon, <1>10, <2>2
    <3> QED
      BY Zenon, <3>1 DEF Preserves
  <2> QED
    BY <2>1, <2>2
<1>12. Faithful(src, ir[n])
  BY Zenon, <1>5 DEF Preserves
<1>13. Denotes(src, <<ir[n].id, "out">>) = Denotes(src, <<ir[k].id, "spike">>)
  BY Zenon, <1>3, <1>5, <1>12, PairSpiked
<1>14. ASSUME NEW r \in done PROVE Denotes(src, <<r[1], "out">>) = Denotes(src, <<r[2], "spike">>)
  <2>1. CASE r \in replaced
    BY Zenon, <2>1 DEF Spiked
  <2>2. CASE r = <<ir[n].id, ir[k].id>>
    <3>1. r[1] = ir[n].id /\ r[2] = ir[k].id
      BY <2>2
    <3> QED
      BY Zenon, <1>13, <3>1
  <2> QED
    BY <2>1, <2>2
<1> QED
  BY Zenon, <1>11, <1>14 DEF Preserves, Spiked

(* The returns of both results.                                              *)
LEMMA ReturnBothDenoted ==
  ASSUME NEW src, FuseInv, Spiked(src, replaced)
  PROVE  Denoted(src, ReturnBoth(ret)) = Denoted(src, ret)
<1> DEFINE both == [k \in 1 .. Len(ret) |->
                      IF FusedFor(ret[k]) = {} THEN <<ret[k]>>
                      ELSE <<SpikeOf(ret[k]), <<SpikeOf(ret[k])[1], "tracer">>>>]
           all == ReturnBoth(ret)
           n == Len(ret)
<1>1. ret \in Seq(Value) /\ replaced \subseteq Nat \X Nat /\ Roled(ret, {"arg", "acc", "out"})
  BY DEF FuseInv, FuseOk, Sound
<1>2. /\ n \in Nat
      /\ \A k \in 1 .. n : ret[k] \in Value /\ ret[k] \in Spikes
  <2>1. ASSUME NEW k \in 1 .. n PROVE ret[k] \in Value /\ ret[k][2] # "tracer"
    <3>1. ret[k] \in ToSet(ret) /\ ret[k] \in Value
      BY <1>1 DEF ToSet
    <3> QED
      BY <1>1, <3>1 DEF Roled
  <2>2. n \in Nat
    BY <1>1
  <2> QED
    BY Zenon, <2>1, <2>2, NoTracers
<1>3. all = FlattenSeq(both)
  BY DEF ReturnBoth
<1>4. ASSUME NEW k \in 1 .. n
      PROVE  SpikeOf(ret[k]) \in Spikes /\ SpikeOf(ret[k]) \in Value
  <2>1. CASE FusedFor(ret[k]) = {}
    BY Zenon, <1>2, <2>1 DEF SpikeOf
  <2>2. CASE FusedFor(ret[k]) # {}
    <3>1. PICK r : r \in FusedFor(ret[k]) /\ SpikeOf(ret[k]) = <<r[2], "spike">>
      BY Zenon, <2>2 DEF SpikeOf
    <3>2. r[2] \in Nat
      BY <1>1, <3>1 DEF FusedFor
    <3>3. <<r[2], "spike">> \in Spikes /\ <<r[2], "spike">> \in Value
      BY <3>2 DEF Spikes, Value, Roles
    <3> QED
      BY Zenon, <3>1, <3>3
  <2> QED
    BY <2>1, <2>2
<1>5. ASSUME NEW k \in 1 .. n
      PROVE  \/ both[k] = <<SpikeOf(ret[k])>>
             \/ both[k] = <<SpikeOf(ret[k]), <<SpikeOf(ret[k])[1], "tracer">>>>
  BY Zenon DEF SpikeOf
<1>6. Len(both) = n /\ DOMAIN both = 1 .. n /\ both = [k \in 1 .. n |-> both[k]]
  BY <1>2
<1> HIDE DEF all, both
<1>7. ASSUME NEW k \in 1 .. n
      PROVE  /\ both[k] \in Seq(Value) /\ Len(both[k]) \in {1, 2} /\ both[k][1] = SpikeOf(ret[k])
             /\ Len(both[k]) = 2 => both[k][2] \notin Spikes
  <2>1. \A v \in Value : <<v>> \in Seq(Value) /\ Len(<<v>>) = 1 /\ <<v>>[1] = v
    OBVIOUS
  <2>2. \A v, w \in Value : /\ <<v, w>> \in Seq(Value) /\ Len(<<v, w>>) = 2
                            /\ <<v, w>>[1] = v /\ <<v, w>>[2] = w
    OBVIOUS
  <2>3. \A v \in Value : <<v[1], "tracer">> \in Value /\ <<v[1], "tracer">> \notin Spikes
    BY DEF Value, Roles, Spikes
  <2>4. CASE both[k] = <<SpikeOf(ret[k])>>
    <3>1. both[k] \in Seq(Value) /\ Len(both[k]) = 1 /\ both[k][1] = SpikeOf(ret[k])
      BY Zenon, <1>4, <2>1, <2>4
    <3> QED
      BY <3>1
  <2>5. CASE both[k] = <<SpikeOf(ret[k]), <<SpikeOf(ret[k])[1], "tracer">>>>
    <3>0. PICK w \in Value : w = SpikeOf(ret[k])
      BY Zenon, <1>4
    <3>2. PICK x \in Value : x = <<w[1], "tracer">> /\ x \notin Spikes
      BY Zenon, <2>3
    <3>1. both[k] = <<w, x>>
      BY Zenon, <2>5, <3>0, <3>2
    <3>3. /\ both[k] \in Seq(Value) /\ Len(both[k]) = 2 /\ both[k][1] = w
          /\ both[k][2] = x
      BY <3>1
    <3>4. both[k][1] = SpikeOf(ret[k]) /\ both[k][2] \notin Spikes
      BY Zenon, <3>0, <3>2, <3>3
    <3> QED
      BY <3>3, <3>4
  <2> QED
    BY Zenon, <1>5, <2>4, <2>5
<1>8. both \in Seq(Seq(Value))
  BY <1>2, <1>6, <1>7
<1>9. all \in Seq(Value)
  BY <1>3, <1>8, FlattenBlocks
<1>10. PICK base \in [0 .. Len(both) -> Nat] : Blocks(both, base)
  BY <1>8, FlattenBlocks
<1>11. /\ \A i \in 1 .. n : base[i] = base[i - 1] + Len(both[i])
       /\ \A i, k \in 0 .. n : i <= k => base[i] <= base[k]
       /\ \A i \in 1 .. n : \A j \in 1 .. Len(both[i]) :
             base[i - 1] + j \in 1 .. Len(all) /\ all[base[i - 1] + j] = both[i][j]
       /\ \A p \in 1 .. Len(all) : \E i \in 1 .. n : p - base[i - 1] \in 1 .. Len(both[i])
  BY Zenon, <1>3, <1>6, <1>10 DEF Blocks
<1>12. \A i \in 0 .. n : base[i] \in Nat
  BY <1>6, <1>10
<1> DEFINE h == [i \in 1 .. n |-> base[i - 1] + 1]
<1>13. \A i \in 1 .. n : h[i] = base[i - 1] + 1
  OBVIOUS
<1>14. \A i \in 1 .. n : 1 \in 1 .. Len(both[i]) /\ i - 1 \in 0 .. n /\ i \in 0 .. n
  BY <1>2, <1>7
<1>15. \A i \in 1 .. n : h[i] \in 1 .. Len(all) /\ all[h[i]] = SpikeOf(ret[i])
  BY Zenon, <1>7, <1>11, <1>13, <1>14
<1>16. h \in [1 .. n -> 1 .. Len(all)]
  BY Zenon, <1>15
<1> HIDE DEF h
<1>17. ASSUME NEW i \in 1 .. n, NEW k \in 1 .. n, i < k PROVE h[i] < h[k]
  <2>1. base[i] <= base[k - 1]
    <3>1. i \in 0 .. n /\ k - 1 \in 0 .. n /\ i <= k - 1
      BY <1>2, <1>17
    <3> QED
      BY Zenon, <1>11, <3>1
  <2>2. base[i - 1] + 1 <= base[i]
    <3>1. base[i] = base[i - 1] + Len(both[i]) /\ Len(both[i]) \in {1, 2} /\ base[i - 1] \in Nat
      BY Zenon, <1>7, <1>11, <1>12, <1>14
    <3>2. \A x \in Nat : \A y \in {1, 2} : x + 1 <= x + y
      OBVIOUS
    <3> QED
      BY Zenon, <3>1, <3>2
  <2>3. h[i] = base[i - 1] + 1 /\ h[k] = base[k - 1] + 1
    BY Zenon, <1>13
  <2>4. base[i - 1] \in Nat /\ base[i] \in Nat /\ base[k - 1] \in Nat
    BY Zenon, <1>12, <1>14
  <2> QED
    BY <2>1, <2>2, <2>3, <2>4
<1>18. ASSUME NEW p \in 1 .. Len(all), all[p] \in Spikes PROVE \E i \in 1 .. n : h[i] = p
  <2>1. PICK i \in 1 .. n : p - base[i - 1] \in 1 .. Len(both[i])
    BY Zenon, <1>11
  <2>2. base[i - 1] \in Nat /\ Len(both[i]) \in {1, 2}
    BY Zenon, <1>7, <1>12, <1>14
  <2>3. PICK j \in 1 .. Len(both[i]) : j = p - base[i - 1]
    BY Zenon, <2>1
  <2>4. p = base[i - 1] + j /\ (j = 1 \/ (j = 2 /\ Len(both[i]) = 2))
    <3>1. \A b \in Nat, x \in {1, 2} : \A q \in 1 .. x :
             q = p - b => p = b + q /\ (q = 1 \/ (q = 2 /\ x = 2))
      BY <1>9
    <3> QED
      BY Zenon, <2>2, <2>3, <3>1
  <2>5. all[p] = both[i][j]
    BY Zenon, <1>11, <2>4
  <2>6. j = 1
    BY Zenon, <1>7, <1>18, <2>4, <2>5
  <2>7. h[i] = p
    BY Zenon, <1>13, <2>4, <2>6
  <2> QED
    BY Zenon, <2>7
<1>19. ASSUME NEW p \in 1 .. Len(all), NEW i \in 1 .. n, h[i] = p PROVE all[p] \in Spikes
  BY Zenon, <1>4, <1>15, <1>19
<1>20. Picks(all, Spikes, n, h)
  BY Zenon, <1>2, <1>16, <1>17, <1>18, <1>19 DEF Picks, Increasing
<1>21. \A i \in 1 .. n : Denotes(src, all[h[i]]) = Denotes(src, ret[i])
  BY Zenon, <1>15, SpikeDenotes
<1>22. Denoted(src, all) = Denoted(src, ret)
  BY <1>1, <1>2, <1>9, <1>20, <1>21, DenotedBy
<1> QED
  BY <1>22 DEF all

LEMMA AlikeItself == ASSUME NEW o PROVE Alike(o, o)
BY DEF Alike

LEMMA FinishPreserves ==
  ASSUME NEW src, FuseInv, FinishFuse, Preserves(src, ir), Spiked(src, replaced)
  PROVE  Preserves(src, ir') /\ Denoted(src, ret') = Denoted(src, ret)
<1> DEFINE T == {o \in ToSet(ir) : ~ IsPair(o)}
           t == Among(ir, T)
<1>1. ret' = ReturnBoth(ret) /\ ir' = t
  BY Zenon DEF FinishFuse, Unpaired
<1>2. ir \in Seq(IROps)
  BY DEF FuseInv, FuseOk, Sound
<1> HIDE DEF T
<1>3. PICK g : Leaves(ir, T, t, g)
  BY Zenon, <1>2, AmongLeaves
<1> HIDE DEF t
<1>4. \A i \in 1 .. Len(t) : t[i] = ir[g[i]] /\ g[i] \in 1 .. Len(ir)
  <2>1. Thinned(ir, t, g) /\ \A i \in 1 .. Len(t) : t[i] = ir[g[i]]
    BY Zenon, <1>3 DEF Leaves
  <2>2. \A i \in 1 .. Len(t) : g[i] \in 1 .. Len(ir)
    BY <2>1 DEF Thinned
  <2> QED
    BY Zenon, <2>1, <2>2
<1>5. Preserves(src, t)
  BY Zenon, <1>4 DEF Preserves
<1> QED
  BY Zenon, <1>1, <1>5, ReturnBothDenoted

(* An operation that is dropped.                                             *)
LEMMA DropPreserves ==
  ASSUME NEW src, NEW s \in Seq(IROps), Preserves(src, s), NEW k \in 1 .. Len(s)
  PROVE  Preserves(src, RemoveAt(s, k))
<1> DEFINE t == RemoveAt(s, k)
<1>1. /\ Len(t) = Len(s) - 1 /\ Len(s) \in Nat
      /\ \A i \in 1 .. Len(s) - 1 : t[i] = IF i < k THEN s[i] ELSE s[i + 1]
  BY Removed
<1> HIDE DEF t
<1>2. ASSUME NEW i \in 1 .. Len(t) PROVE \E j \in 1 .. Len(s) : t[i] = s[j]
  <2>1. i \in 1 .. Len(s) - 1 /\ i \in 1 .. Len(s) /\ i + 1 \in 1 .. Len(s)
    BY <1>1
  <2> QED
    BY Zenon, <1>1, <2>1
<1>3. Preserves(src, t)
  BY Zenon, <1>2 DEF Preserves
<1> QED
  BY <1>3 DEF t

LEMMA PutPreserves ==
  ASSUME NEW src, NEW s \in Seq(IROps), Preserves(src, s), NEW k \in 1 .. Len(s),
         NEW o, Alike(o, s[k])
  PROVE  Preserves(src, [s EXCEPT ![k] = o])
<1> DEFINE t == [s EXCEPT ![k] = o]
<1>1. Len(t) = Len(s) /\ t[k] = o /\ \A i \in 1 .. Len(s) : i # k => t[i] = s[i]
  OBVIOUS
<1> HIDE DEF t
<1>2. \A i \in 1 .. Len(t) : Alike(t[i], s[i]) /\ i \in 1 .. Len(s)
  BY Zenon, <1>1, AlikeItself
<1>3. Preserves(src, t)
  BY Zenon, <1>2, PartPreserves
<1> QED
  BY <1>3 DEF t

LEMMA CanonicalizePreserves ==
  ASSUME NEW src, ModelOk(ir, ret), Canonicalize, Preserves(src, ir)
  PROVE  Preserves(src, ir') /\ ret' = ret
<1>1. /\ ret' = ret /\ ir \in Seq(IROps) /\ DOMAIN ir = 1 .. Len(ir)
      /\ Sound(ir, ret, {"model", "neuron"}) /\ Unique(ir)
  BY DEF Canonicalize, ModelOk, Sound
<1>2. PICK k \in 1 .. Len(ir) :
         \/ Merges(k) /\ ir' = [ir EXCEPT ![k] = Merged(k)]
         \/ Dead(k) /\ ir' = RemoveAt(ir, k)
  BY <1>1 DEF Canonicalize
<1>3. CASE Merges(k) /\ ir' = [ir EXCEPT ![k] = Merged(k)]
  BY Zenon, <1>1, <1>3, MergePreserves
<1>4. CASE Dead(k) /\ ir' = RemoveAt(ir, k)
  BY Zenon, <1>1, <1>4, DropPreserves
<1> QED
  BY <1>2, <1>3, <1>4

LEMMA DcePreserves ==
  ASSUME NEW src, DceOk(ir, ret, todo), DceOne, Preserves(src, ir)
  PROVE  Preserves(src, ir') /\ ret' = ret
<1>1. todo # <<>> /\ ret' = ret
  BY DEF DceOne
<1>2. PICK k : TurnOf(k)
  BY <1>1, NextToVisit
<1>3. At(ir, Head(todo)) = k /\ k \in 1 .. Len(ir) /\ ir \in Seq(IROps) /\ ir[k] \in IROps
  BY <1>2 DEF TurnOf, DceOk, Sound
<1> DEFINE live == LiveResults(ir[k])
           o == [ir[k] EXCEPT !.outs = live]
<1>4. ir' = IF live = {} THEN RemoveAt(ir, k) ELSE [ir EXCEPT ![k].outs = live]
  BY <1>3 DEF DceOne
<1> HIDE DEF live
<1>5. CASE live = {}
  <2>1. ir' = RemoveAt(ir, k)
    BY Zenon, <1>4, <1>5
  <2> QED
    BY Zenon, <1>1, <1>3, <2>1, DropPreserves
<1>6. CASE live # {}
  <2>1. ir' = [ir EXCEPT ![k] = o]
    BY <1>4, <1>6
  <2>2. Alike(o, ir[k])
    BY <1>3 DEF Alike, IROps, Operations
  <2> HIDE DEF o
  <2> QED
    BY Zenon, <1>1, <1>3, <2>1, <2>2, PutPreserves
<1> QED
  BY <1>5, <1>6

LEMMA LowerPreserves ==
  ASSUME NEW src, LowerOk(ir, ret, todo, LoweringForms), LowerOne, Preserves(src, ir)
  PROVE  Preserves(src, ir') /\ ret' = ret
<1>1. todo # <<>> /\ ret' = ret /\ todo \in Seq(Nat) /\ ir \in Seq(IROps) /\ Unique(ir)
  BY DEF LowerOne, LowerOk, Sound
<1>2. 1 \in 1 .. Len(todo) /\ Head(todo) = todo[1]
  BY <1>1
<1>3. PICK k \in 1 .. Len(ir) : Stands(ir, k, todo[1])
  BY <1>2 DEF LowerOk
<1>4. ir[k].id = Head(todo) /\ ir[k].form = "fused" /\ ir[k] \in IROps
  BY <1>1, <1>2, <1>3 DEF Stands
<1>5. At(ir, Head(todo)) = k
  BY <1>1, <1>4, AtUnique DEF Unique
<1> DEFINE o == [ir[k] EXCEPT !.form = "exec"]
<1>6. ir' = [ir EXCEPT ![k] = o]
  BY <1>5 DEF LowerOne
<1>7. Alike(o, ir[k])
  BY <1>4 DEF Alike, IROps, Operations
<1> HIDE DEF o
<1> QED
  BY Zenon, <1>1, <1>6, <1>7, PutPreserves

-----------------------------------------------------------------------------
(* The invariant: from the import to snn_exec the function computes what its *)
(* source does.                                                              *)
FromGraph(g, ops) ==
    /\ \A n \in g.nodes : g.kind[n] \in NodeKinds \cup {"input"}
    /\ \A k \in 1 .. Len(ops) : Plain(ops[k])
Computes(src, ops, values) ==
    /\ ModelOk(src.ir, src.ret) /\ Preserves(src.ir, src.ir)
    /\ Preserves(src.ir, ops)
    /\ Denoted(src.ir, values) = Denoted(src.ir, src.ret)
FlowStages == {"model", "canonicalize", "fuse", "fused", "dce", "lower", "exec"}
FlowAt(st, g, src, ops, values, done) ==
    /\ st = "import" => FromGraph(g, ops)
    /\ st \in FlowStages => Computes(src, ops, values)
    /\ st = "fuse" => Spiked(src.ir, done)
FlowInv == FlowAt(stage, graph, source, ir, ret, replaced)

LEMMA EmittedPlain ==
  ASSUME NEW g, NEW n, g.kind[n] \in NodeKinds
  PROVE  Plain(ModelOf(g, n)) /\ Plain(NeuronOf(n))
<1>1. ModelOf(g, n).kind = g.kind[n] /\ NeuronOf(n).kind = "st_bif"
  BY DEF ModelOf, NeuronOf, Operation
<1>2. ModelOf(g, n).kind # "rescale" /\ NeuronOf(n).kind # "rescale"
  BY <1>1 DEF NodeKinds
<1> QED
  BY Zenon, <1>2 DEF Plain

LEMMA EmitPlain ==
  ASSUME ImportOk(graph, ir, ret, todo), FromGraph(graph, ir), EmitNode
  PROVE  \/ stage' = "rejected"
         \/ stage' = stage /\ FromGraph(graph', ir')
<1> DEFINE n == Head(todo)
           t == ir \o Emitted(graph, n)
<1>1. /\ todo # <<>> /\ graph' = graph
      /\ IF NodeAccepted(graph, n)
           THEN ir' = t /\ stage' = stage
           ELSE stage' = "rejected"
  BY DEF EmitNode
<1> SUFFICES ASSUME NodeAccepted(graph, n) PROVE FromGraph(graph, t)
  BY <1>1
<1>2. /\ graph \in Graphs /\ todo \in Seq(Nat) /\ Sound(ir, ret, {"model", "neuron"})
      /\ \A k \in graph.nodes : graph.kind[k] \in Fusible \cup {"input"}
      /\ \E m : ImportAt(graph, ir, Ordered(graph), todo, m)
  BY Zenon DEF ImportOk
<1>3. PICK m : ImportAt(graph, ir, Ordered(graph), todo, m)
  BY Zenon, <1>2
<1>4. GraphFacts(graph) /\ graph.nodes \subseteq Nat
  BY <1>2, GraphGiven DEF GraphFacts
<1>5. ToEmit(graph, ir, todo, Ordered(graph), m, n)
  BY <1>1, <1>2, <1>3, <1>4, ImportNext
<1>6. n \in graph.nodes /\ \A p \in ToSet(Parents(graph, n)) : Emits(graph, ir, p)
  BY <1>5 DEF ToEmit
<1>7. ir \in Seq(IROps) /\ Len(ir) \in Nat
  BY <1>2 DEF Sound
<1>8. /\ \A k \in graph.nodes : graph.kind[k] \in NodeKinds \cup {"input"}
      /\ \A k \in 1 .. Len(ir) : Plain(ir[k])
  BY Zenon DEF FromGraph
<1> HIDE DEF n
<1>9. CASE graph.kind[n] = "input"
  <2>1. t = ir
    BY <1>7, <1>9 DEF Emitted
  <2> QED
    BY <2>1
<1>10. CASE graph.kind[n] # "input"
  <2>1. PICK a, b : a = ModelOf(graph, n) /\ b = NeuronOf(n)
    OBVIOUS
  <2>2. graph.kind[n] \in Fusible /\ graph.kind[n] \in NodeKinds
    BY <1>2, <1>6, <1>8, <1>10
  <2>3. Emitted(graph, n) = <<a, b>> /\ a \in IROps /\ b \in IROps
    BY <1>4, <1>6, <1>10, <2>1, <2>2, EmittedOps
  <2>4. Plain(a) /\ Plain(b)
    BY Zenon, <2>1, <2>2, EmittedPlain
  <2>5. Grown(ir, t, a, b)
    BY <1>7, <2>3, GrownBy
  <2> HIDE DEF t
  <2>6. /\ Len(t) = Len(ir) + 2 /\ \A i \in 1 .. Len(ir) : t[i] = ir[i]
        /\ t[Len(ir) + 1] = a /\ t[Len(ir) + 2] = b
    BY <2>5 DEF Grown
  <2>7. \A i \in 1 .. Len(t) : i \in 1 .. Len(ir) \/ i = Len(ir) + 1 \/ i = Len(ir) + 2
    BY <1>7, <2>6
  <2>8. \A i \in 1 .. Len(t) : Plain(t[i])
    BY Zenon, <1>8, <2>4, <2>6, <2>7
  <2> QED
    BY Zenon, <1>8, <2>8 DEF FromGraph
<1> QED
  BY <1>9, <1>10

(* A function is its own source.                                             *)
LEMMA ComputesItself ==
  ASSUME NEW src, ModelOk(src.ir, src.ret), \A k \in 1 .. Len(src.ir) : Plain(src.ir[k])
  PROVE  Computes(src, src.ir, src.ret)
<1>1. Preserves(src.ir, src.ir)
  BY Zenon, SourcePreserved
<1> QED
  BY Zenon, <1>1 DEF Computes

LEMMA FlowInit == PassInit => FlowInv
<1> SUFFICES ASSUME PassInit PROVE FlowInv
  OBVIOUS
<1>1. CASE stage = "nir"
  BY <1>1 DEF FlowInv, FlowAt, FlowStages
<1>2. CASE stage = "model" /\ source \in Functions /\ ir = source.ir /\ ret = source.ret
  <2>1. ModelOk(source.ir, source.ret)
    BY <1>2, FunctionStart
  <2>2. \A k \in DOMAIN source.ir : source.ir[k].kind = "rescale" => source.ir[k].params = {}
    BY <1>2, FunctionAssumption
  <2>3. DOMAIN source.ir = 1 .. Len(source.ir)
    BY <2>1 DEF ModelOk, Sound
  <2>4. \A k \in 1 .. Len(source.ir) : Plain(source.ir[k])
    BY Zenon, <2>2, <2>3 DEF Plain
  <2>5. Computes(source, ir, ret)
    BY Zenon, <1>2, <2>1, <2>4, ComputesItself
  <2> QED
    BY <1>2, <2>5 DEF FlowInv, FlowAt
<1> QED
  BY <1>1, <1>2 DEF PassInit

(* A step that leaves the source and what each operation computes.           *)
LEMMA StillComputes ==
  ASSUME NEW src, NEW ops, NEW values, Computes(src, ops, values), NEW t, Preserves(src.ir, t),
         NEW others, Denoted(src.ir, others) = Denoted(src.ir, values)
  PROVE  Computes(src, t, others)
BY Zenon DEF Computes

LEMMA FlowReturn ==
  ASSUME ImportOk(graph, ir, ret, todo), FromGraph(graph, ir), EmitReturn
  PROVE  stage' = "model" /\ Computes(source', ir', ret')
<1>1. stage' = "model" /\ ModelOk(ir', ret')
  BY ReturnStep
<1>2. ir' = ir /\ source' = [ir |-> ir, ret |-> ret']
  BY DEF EmitReturn
<1>3. source'.ir = ir /\ source'.ret = ret'
  BY <1>2
<1>4. ModelOk(source'.ir, source'.ret)
  BY Zenon, <1>1, <1>2, <1>3
<1>5. \A k \in 1 .. Len(source'.ir) : Plain(source'.ir[k])
  BY Zenon, <1>3 DEF FromGraph
<1>6. Computes(source', source'.ir, source'.ret)
  BY Zenon, <1>4, <1>5, ComputesItself
<1> QED
  BY Zenon, <1>1, <1>2, <1>3, <1>6

LEMMA FlowNext ==
  ASSUME PassInv, FlowInv, PassNext
  PROVE  FlowInv'
<1>1. CASE ReadBlock
  <2>1. stage = "nir" /\ stage' \in {"import", "rejected"} /\ graph' = graph
        /\ ir' = ir /\ (stage' = "import" => BlockAccepted(graph))
    BY <1>1 DEF ReadBlock
  <2>2. ir = <<>>
    BY <2>1 DEF PassInv, StageOk
  <2>3. BlockAccepted(graph) => FromGraph(graph, <<>>)
    BY DEF BlockAccepted, FromGraph
  <2> QED
    BY <2>1, <2>2, <2>3 DEF FlowInv, FlowAt, FlowStages
<1>2. CASE EmitNode
  <2>1. stage = "import"
    BY <1>2 DEF EmitNode
  <2>2. ImportOk(graph, ir, ret, todo) /\ FromGraph(graph, ir)
    BY <2>1 DEF PassInv, StageOk, FlowInv, FlowAt
  <2>3. \/ stage' = "rejected"
        \/ stage' = stage /\ FromGraph(graph', ir')
    BY <1>2, <2>2, EmitPlain
  <2> QED
    BY <2>1, <2>3 DEF FlowInv, FlowAt, FlowStages
<1>3. CASE EmitReturn
  <2>1. stage = "import"
    BY <1>3 DEF EmitReturn
  <2>2. ImportOk(graph, ir, ret, todo) /\ FromGraph(graph, ir)
    BY <2>1 DEF PassInv, StageOk, FlowInv, FlowAt
  <2>3. stage' = "model" /\ Computes(source', ir', ret')
    BY <1>3, <2>2, FlowReturn
  <2> QED
    BY <2>3 DEF FlowInv, FlowAt
<1>4. CASE StartCanonicalize
  <2>1. stage = "model" /\ stage' = "canonicalize" /\ UNCHANGED <<ir, ret, source>>
    BY <1>4 DEF StartCanonicalize
  <2>2. Computes(source, ir, ret)
    BY <2>1 DEF FlowInv, FlowAt, FlowStages
  <2> QED
    BY <2>1, <2>2 DEF FlowInv, FlowAt
<1>5. CASE Canonicalize
  <2>1. stage = "canonicalize" /\ stage' = stage /\ source' = source
    BY <1>5 DEF Canonicalize
  <2>2. ModelOk(ir, ret) /\ Computes(source, ir, ret)
    BY <2>1 DEF PassInv, StageOk, FlowInv, FlowAt, FlowStages
  <2>3. Preserves(source.ir, ir') /\ ret' = ret
    BY <1>5, <2>2, CanonicalizePreserves DEF Computes
  <2>4. Computes(source, ir', ret')
    BY Zenon, <2>2, <2>3, StillComputes
  <2> QED
    BY <2>1, <2>4 DEF FlowInv, FlowAt
<1>6. CASE Collect
  <2>1. /\ stage \in {"model", "canonicalize"} /\ stage' \in {"fuse", "failed"}
        /\ UNCHANGED <<ir, ret, replaced, source>>
    BY <1>6 DEF Collect
  <2>2. Computes(source, ir, ret) /\ replaced = {}
    BY <2>1 DEF PassInv, StageOk, FlowInv, FlowAt, FlowStages
  <2>3. Spiked(source.ir, {})
    BY DEF Spiked
  <2> QED
    BY <2>1, <2>2, <2>3 DEF FlowInv, FlowAt, FlowStages
<1>7. CASE FuseOne
  <2>1. stage = "fuse" /\ stage' \in {"fuse", "failed"} /\ ret' = ret /\ source' = source
    BY <1>7 DEF FuseOne
  <2>2. FuseInv /\ Computes(source, ir, ret) /\ Spiked(source.ir, replaced)
    BY <2>1 DEF PassInv, StageOk, FuseInv, FlowInv, FlowAt, FlowStages
  <2>3. \/ stage' = "failed"
        \/ Preserves(source.ir, ir') /\ Spiked(source.ir, replaced')
    BY <1>7, <2>2, FusePreserves DEF Computes
  <2>4. CASE stage' = "failed"
    BY <2>4 DEF FlowInv, FlowAt, FlowStages
  <2>5. CASE stage' # "failed"
    <3>1. Preserves(source.ir, ir') /\ Spiked(source.ir, replaced')
      BY <2>3, <2>5
    <3>2. Computes(source, ir', ret')
      BY Zenon, <2>1, <2>2, <3>1, StillComputes
    <3> QED
      BY <2>1, <2>5, <3>1, <3>2 DEF FlowInv, FlowAt
  <2> QED
    BY <2>4, <2>5
<1>8. CASE FinishFuse
  <2>1. stage = "fuse" /\ stage' \in {"dangling", "fused"} /\ source' = source
    BY <1>8 DEF FinishFuse
  <2>2. FuseInv /\ Computes(source, ir, ret) /\ Spiked(source.ir, replaced)
    BY <2>1 DEF PassInv, StageOk, FuseInv, FlowInv, FlowAt, FlowStages
  <2>3. Preserves(source.ir, ir') /\ Denoted(source.ir, ret') = Denoted(source.ir, ret)
    BY <1>8, <2>2, FinishPreserves DEF Computes
  <2>4. Computes(source, ir', ret')
    BY Zenon, <2>2, <2>3, StillComputes
  <2> QED
    BY <2>1, <2>4 DEF FlowInv, FlowAt
<1>9. CASE StartDce
  <2>1. stage = "fused" /\ stage' = "dce" /\ UNCHANGED <<ir, ret, source>>
    BY <1>9 DEF StartDce
  <2>2. Computes(source, ir, ret)
    BY <2>1 DEF FlowInv, FlowAt, FlowStages
  <2> QED
    BY <2>1, <2>2 DEF FlowInv, FlowAt
<1>10. CASE DceOne
  <2>1. stage = "dce" /\ stage' = stage /\ source' = source
    BY <1>10 DEF DceOne
  <2>2. DceOk(ir, ret, todo) /\ Computes(source, ir, ret)
    BY <2>1 DEF PassInv, StageOk, FlowInv, FlowAt, FlowStages
  <2>3. Preserves(source.ir, ir') /\ ret' = ret
    BY <1>10, <2>2, DcePreserves DEF Computes
  <2>4. Computes(source, ir', ret')
    BY Zenon, <2>2, <2>3, StillComputes
  <2> QED
    BY <2>1, <2>4 DEF FlowInv, FlowAt
<1>11. CASE StartLowering
  <2>1. stage = "dce" /\ stage' = "lower" /\ UNCHANGED <<ir, ret, source>>
    BY <1>11 DEF StartLowering
  <2>2. Computes(source, ir, ret)
    BY <2>1 DEF FlowInv, FlowAt, FlowStages
  <2> QED
    BY <2>1, <2>2 DEF FlowInv, FlowAt
<1>12. CASE LowerOne
  <2>1. stage = "lower" /\ stage' = stage /\ source' = source
    BY <1>12 DEF LowerOne
  <2>2. LowerOk(ir, ret, todo, LoweringForms) /\ Computes(source, ir, ret)
    BY <2>1 DEF PassInv, StageOk, FlowInv, FlowAt, FlowStages
  <2>3. Preserves(source.ir, ir') /\ ret' = ret
    BY <1>12, <2>2, LowerPreserves DEF Computes
  <2>4. Computes(source, ir', ret')
    BY Zenon, <2>2, <2>3, StillComputes
  <2> QED
    BY <2>1, <2>4 DEF FlowInv, FlowAt
<1>13. CASE CheckLowered
  <2>1. stage = "lower" /\ stage' \in {"exec", "failed"} /\ UNCHANGED <<ir, ret, source>>
    BY <1>13 DEF CheckLowered
  <2>2. Computes(source, ir, ret)
    BY <2>1 DEF FlowInv, FlowAt, FlowStages
  <2> QED
    BY <2>1, <2>2 DEF FlowInv, FlowAt, FlowStages
<1>14. CASE RefuseFunction
  BY <1>14 DEF RefuseFunction, FlowInv, FlowAt, FlowStages
<1> QED
  BY <1>1, <1>2, <1>3, <1>4, <1>5, <1>6, <1>7, <1>8, <1>9, <1>10, <1>11, <1>12, <1>13, <1>14
  DEF PassNext

LEMMA FlowHolds ==
  ASSUME PassInv, FlowInv
  PROVE  SameDataflow
<1> SUFFICES ASSUME stage \in {"model", "canonicalize", "fused", "dce", "lower", "exec"}
             PROVE  /\ Returned(ir, ret) = Returned(source.ir, source.ret)
                    /\ \A o \in ToSet(ir) : o.form \in {"fused", "exec"} /\ o.kind \in Attention =>
                          /\ Len(o.args) = 4
                          /\ \A k \in {1, 3} : /\ o.args[k][2] = "spike"
                                               /\ o.args[k + 1] = <<o.args[k][1], "tracer">>
  BY DEF SameDataflow
<1>1. Computes(source, ir, ret)
  BY DEF FlowInv, FlowAt, FlowStages
<1>2. PICK forms : Sound(ir, ret, forms) /\ Unique(ir)
  <2>1. \/ ModelOk(ir, ret)
        \/ Sound(ir, ret, {"model", "fused"}) /\ Unique(ir)
        \/ DceOk(ir, ret, todo)
        \/ LowerOk(ir, ret, todo, LoweringForms)
        \/ LowerOk(ir, ret, todo, {"exec"})
    BY DEF PassInv, StageOk
  <2> QED
    BY Zenon, <2>1 DEF ModelOk, DceOk, LowerOk
<1>3. Returned(ir, ret) = Denoted(source.ir, ret)
  BY Zenon, <1>1, <1>2, PreservedReturns DEF Computes
<1>4. Returned(source.ir, source.ret) = Denoted(source.ir, source.ret)
  BY Zenon, <1>1, PreservedReturns DEF Computes, ModelOk
<1>5. Returned(ir, ret) = Returned(source.ir, source.ret)
  BY Zenon, <1>1, <1>3, <1>4 DEF Computes
<1>6. ASSUME NEW o \in ToSet(ir), o.form \in {"fused", "exec"}, o.kind \in Attention PROVE Paired(o)
  <2>1. PICK i \in 1 .. Len(ir) : ir[i] = o
    <3>1. DOMAIN ir = 1 .. Len(ir)
      BY <1>2 DEF Sound
    <3> QED
      BY Zenon, <3>1, PassSet
  <2>2. Shaped(o)
    BY Zenon, <1>2, <2>1 DEF Sound
  <2> QED
    BY Zenon, <1>6, <2>2 DEF Shaped
<1> QED
  BY Zenon, <1>5, <1>6 DEF Paired

(* MergeRescale, the fusion, dead-output elimination and the lowering leave  *)
(* every function, imported or written by hand, returning the terms it       *)
(* returned before them, and every attention operand a spike with the tracer *)
(* of its own producer (ModelNeuronFusion.cpp:131-190).                      *)
THEOREM DataflowIsKept == PassSpec => []SameDataflow
<1>1. PassInit => FlowInv
  BY FlowInit
<1>2. PassInv /\ FlowInv /\ [PassNext]_passVars => FlowInv'
  <2>1. ASSUME PassInv, FlowInv, UNCHANGED passVars PROVE FlowInv'
    BY <2>1 DEF passVars, FlowInv
  <2> QED
    BY <2>1, FlowNext
<1>3. PassInv /\ FlowInv => SameDataflow
  BY FlowHolds
<1> QED
  BY <1>1, <1>2, <1>3, PassInductive, PTL DEF PassSpec
=============================================================================
