---------------------------- MODULE MCFlowTable ----------------------------
(* Two sources, one and two hops from the destination, whose routes meet on *)
(* a column link: capacities 2 and 3, and a ring of 4 that fills and wraps. *)
EXTENDS FlowTable

MCSources == {<<0, 1>>, <<1, 1>>}
MCDestinations == {<<1, 0>>}
MCLinkLatency == [east |-> 0, west |-> 1, north |-> 2, south |-> 0]
MCServices == {0, 5}
MCSramLatencies == {0}
MCNeuronServices == {3}
MCDelays == 0 .. 30
=============================================================================
