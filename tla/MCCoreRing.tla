----------------------------- MODULE MCCoreRing -----------------------------
(* Layers 1 and 2 pass local state on to layer 3, which packets of delay 1  *)
(* reach as well and wake its whole core, except for a neuron that is not   *)
(* used.  Layer 4 is reached by packets that wake only their targets.   *)
(* Early: an ST-BIF layer whose first input comes before its first frame.   *)
(* Backward: local state for a layer that is mapped earlier.                *)
EXTENDS CoreRing

NoFirstFrame == [l \in Layers |-> 0]

MCConnections == {[to |-> 1, delay |-> 0],
                  [to |-> 3, delay |-> 1], [to |-> 4, delay |-> 0]}
MCLocalState == {<<1, 2>>, <<2, 3>>, <<1, 3>>}
MCUnused == {<<3, "b">>}

SpikingConnections == {[to |-> 1, delay |-> 0], [to |-> 1, delay |-> 2]}
LateFirstFrame == [l \in Layers |-> 3]

BackwardConnections == {[to |-> 2, delay |-> 0]}
BackwardLocalState == {<<2, 1>>}
=============================================================================
