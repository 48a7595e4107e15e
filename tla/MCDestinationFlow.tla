------------------------- MODULE MCDestinationFlow -------------------------
(* A line of three routers; packets to the middle one travel 0 or 1 hops    *)
(* and those to the end up to 2.  Path capacities 1, 2, 3 and a ring of 4.  *)
EXTENDS DestinationFlow

MCSources == {<<0, 0>>, <<2, 0>>}
MCDestinations == {<<2, 0>>}
MCDelays == {0, 1}
MCServices == {0, 2}
MCSramLatencies == {0, 1}
MCNeuronServices == {1}
=============================================================================
