---------------------------- MODULE MCSnnPasses -----------------------------
(* Every block over the input and three nodes, with the parents and kinds    *)
(* below and the edges listed in both orders, cyclic and rejected ones       *)
(* included; and handwritten functions with dead pairs, chains of rescale,   *)
(* lone operations and what the fusion refuses.                              *)
EXTENDS SnnPasses

Unary(n) == [kind : {"linear", "norm"}, parents : {<<p>> : p \in (0 .. 3) \ {n}}]
Binary(n) == [kind : {"qk", "residual"},
              parents : {<<p, q>> : p \in (0 .. 3) \ {n}, q \in (0 .. 2) \ {n}}]
Node(n) == Unary(n) \cup Binary(n)
Edges(n, node) == [k \in DOMAIN node.parents |-> <<node.parents[k], n>>]

Block(a, b, c, flip) ==
    LET edges == Edges(1, a) \o Edges(2, b) \o Edges(3, c)
    IN  [nodes |-> 0 .. 3,
         kind |-> [n \in 0 .. 3 |-> CASE n = 0 -> "input" [] n = 1 -> a.kind
                                      [] n = 2 -> b.kind [] n = 3 -> c.kind],
         params |-> [n \in 0 .. 3 |-> IF n = 2 THEN {"weight", "threshold"}
                                   ELSE {"weight", "bias", "threshold"}],
         edges |-> IF flip THEN Reverse(edges) ELSE edges]
MCGraphs ==
    {Block(a, b, c, FALSE) : a \in Node(1), b \in Node(2), c \in Node(3)}
    \cup {Block(a, b, c, TRUE) : a \in Unary(1), b \in Unary(2), c \in Binary(3)}
    \cup {[Block(a, b, c, FALSE) EXCEPT !.params[3] = {"weight"}] :
             a \in Unary(1), b \in Unary(2), c \in Unary(3)}

Model(id, kind, arg) ==
    Operation(id, "model", kind, IF kind = "rescale" THEN {} ELSE {"weight"}, <<arg>>, {"acc"})
Neuron(id) == Operation(id + 1, "neuron", "st_bif", {}, <<<<id, "acc">>>>, {"out"})
In == <<0, "arg">>
Out(id) == <<id + 1, "out">>
Pair(id, kind, arg) == <<Model(id, kind, arg), Neuron(id)>>
Scaled(id, scale, arg) == [Model(id, "rescale", arg) EXCEPT !.scale = scale]
MCFunctions == {
    \* a chain of dead pairs
    [ir |-> Pair(2, "linear", In) \o Pair(4, "pool", Out(2)) \o Pair(6, "norm", Out(4))
            \o Pair(8, "linear", In), ret |-> <<Out(8)>>],
    \* rescale of rescale, the first with and without another user
    [ir |-> <<Scaled(2, 2, In), Scaled(4, 3, <<2, "acc">>), Neuron(4)>>, ret |-> <<Out(4)>>],
    [ir |-> <<Scaled(2, 2, In), Scaled(4, 3, <<2, "acc">>), Neuron(4), Scaled(6, 5, <<2, "acc">>),
              Neuron(6)>>, ret |-> <<Out(4), Out(6), In>>],
    \* an operation without an st_bif: after a pair, before one, as the result
    [ir |-> Pair(2, "linear", In) \o <<Model(4, "pool", Out(2))>>, ret |-> <<<<4, "acc">>>>],
    [ir |-> <<Model(2, "pool", In)>> \o Pair(4, "linear", <<2, "acc">>), ret |-> <<Out(4)>>],
    [ir |-> Pair(2, "linear", In), ret |-> <<<<2, "acc">>>>],
    \* an unknown producer, two st_bif on one operation, another time_dim
    [ir |-> Pair(2, "lif", In), ret |-> <<Out(2)>>],
    [ir |-> Pair(2, "linear", In) \o <<[Neuron(2) EXCEPT !.id = 5]>>, ret |-> <<Out(2)>>],
    [ir |-> <<[Model(2, "linear", In) EXCEPT !.td = 1], Neuron(2)>>, ret |-> <<Out(2)>>]}
=============================================================================
