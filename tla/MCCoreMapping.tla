--------------------------- MODULE MCCoreMapping ----------------------------
(* Up to three operations on a mesh of two by two cores of three neurons:    *)
(* populations that fill, share and overflow a core, elementwise and dense   *)
(* operations, spike and tracer operands, shared operands, and programs the  *)
(* pass refuses at each of its exits.                                        *)
EXTENDS CoreMapping

MCKinds == {"linear", "norm", "qk"}
MCAligned == {"norm"}
MCDims == <<2, 2>>
MCHardware == {{}, {"core_type", "network"}, {"network"}, {"unparsed"}}
MCSymbols == {{}, {"core_type", "network"}}

Op(kinds, pops, results, args) ==
    [kind : kinds, pop : pops, results : results, args : args]
First == Op({"linear", "norm"}, {2, 3, 4, 5}, {2}, {<<<<0, 1>>>>})
Second == Op({"linear", "norm"}, {1, 2, 4, 7}, {2}, {<<<<0, 1>>>>, <<<<1, 1>>>>})
Third == Op({"norm"}, {1, 2, 4}, {1}, {<<<<2, 1>>, <<1, 1>>>>}) \cup
         Op({"qk"}, {2, 3}, {1}, {<<<<1, 1>>, <<1, 2>>, <<2, 1>>, <<2, 2>>>>})
Returns == {<<<<3, 1>>>>, <<<<2, 2>>, <<0, 1>>, <<3, 1>>>>}

MCPrograms ==
    {[ops |-> <<a, b, c>>, returns |-> r, alien |-> {}] :
        a \in First, b \in Second, c \in Third, r \in Returns}
    \cup {[ops |-> s, returns |-> <<>>, alien |-> x] :
        s \in {<<>>} \cup {<<a>> : a \in Op({"linear", "spmv"}, {0, 2}, {1}, {<<<<0, 1>>>>})},
        x \in {{}, {1}}}
=============================================================================
