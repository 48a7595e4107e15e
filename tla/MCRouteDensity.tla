--------------------------- MODULE MCRouteDensity ---------------------------
(* Two routers; routes of 0 and 1 hops that share the port of the source    *)
(* core.  Three local messages in flight exceed the capacity of a route.    *)
EXTENDS RouteDensity

MCSources == {<<0, 0>>}
MCDestinations == {<<0, 0>>, <<1, 0>>}
MCLinkLatency == [east |-> 1, west |-> 1, north |-> 2, south |-> 2]
MCServices == {2}
MCTrains == {<<2>>, <<0, 1, 3>>, <<0, 0, 0, 0>>}
MCWaits == {1}
=============================================================================
