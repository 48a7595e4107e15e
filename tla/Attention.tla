------------------------------ MODULE Attention ------------------------------
(***************************************************************************)
(* Spike attention on a core: the place of an operand spike in its buffer  *)
(* (Core::receive), the incremental product of two spike streams           *)
(* (incremental_spike_matmul.cpp) and Q(K^T V) of one timestep             *)
(* (timestep_spike_attention.cpp).  Every partition keeps its own operand  *)
(* buffers and, of the accumulated operands, the rows and columns its      *)
(* outputs use.                                                            *)
(***************************************************************************)
EXTENDS Synapse, FiniteSetsExt

Buffers == {"lhs", "rhs", "third"}
BufferOf(operand) ==
    CASE operand \in {"lhs", "q"} -> "lhs" [] operand \in {"rhs", "k"} -> "rhs"
      [] operand = "v" -> "third"

OperandSize(layer, operand) ==
    layer.heads * layer.reduction * (IF operand = "rhs" THEN layer.columns ELSE layer.rows)

OperandIndex(layer, operand, layout, s) ==
    LET perRow == layer.heads * (IF layout = "row_head_column" THEN layer.columns
                                 ELSE layer.reduction)
        within == s % perRow
        major == IF operand = "rhs" THEN layer.columns ELSE layer.rows
    IN  CASE layout = "row_head_reduction" ->
                ((within \div layer.reduction) * major + s \div perRow) * layer.reduction
                + (within % layer.reduction)
          [] layout = "row_head_column" ->
                within * layer.reduction + s \div perRow
          [] OTHER -> s

HeadOf(layer, g) ==
    IF layer.output = "row_head_column" THEN (g \div layer.columns) % layer.heads
    ELSE g \div (layer.rows * layer.columns)
RowOf(layer, g) ==
    IF layer.output = "row_head_column" THEN g \div (layer.heads * layer.columns)
    ELSE (g % (layer.rows * layer.columns)) \div layer.columns

(* The operand entries output g is a sum over.                             *)
LhsAt(layer, g, k) ==
    (HeadOf(layer, g) * layer.rows + RowOf(layer, g)) * layer.reduction + k
RhsAt(layer, g, k) ==
    (HeadOf(layer, g) * layer.columns + (g % layer.columns)) * layer.reduction + k
Reduction(layer) == 0 .. layer.reduction - 1

(* shadow_lhs_ and shadow_rhs_: the slots partition p has, others stay 0.   *)
Used(layer, p, buffer) ==
    {IF buffer = "lhs" THEN LhsAt(layer, g, k) ELSE RhsAt(layer, g, k) :
        g \in Neurons(layer, p), k \in Reduction(layer)}

(* S_L R + L S_R + L R, for one output.                                    *)
DeltaOf(layer, shadow, now, g) ==
    MapThenSumSet(LAMBDA k :
        LET i == LhsAt(layer, g, k)
            j == RhsAt(layer, g, k)
        IN  shadow.lhs[i] * now.rhs[j] + now.lhs[i] * shadow.rhs[j] + now.lhs[i] * now.rhs[j],
        Reduction(layer))

ShadowAfter(layer, p, shadow, now) ==
    [b \in {"lhs", "rhs"} |->
        [i \in DOMAIN shadow[b] |->
            shadow[b][i] + IF i \in Used(layer, p, b) THEN now[b][i] ELSE 0]]

(* Q(K^T V): output g is row, head, column; operands are head, row, column. *)
Attended(layer, now, g) ==
    LET d == layer.reduction
        c == g % d
        h == (g \div d) % layer.heads
        r == g \div (layer.heads * d)
        at(row, a) == (h * layer.rows + row) * d + a
        kv(a) == MapThenSumSet(LAMBDA row : now.rhs[at(row, a)] * now.third[at(row, c)],
                               0 .. layer.rows - 1)
    IN  MapThenSumSet(LAMBDA a : now.lhs[at(r, a)] * kv(a), Reduction(layer))
=============================================================================
