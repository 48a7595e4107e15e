----------------------------- MODULE MCSimLoop -----------------------------
(* Two firing cores, one mapped input core and the direct input.  A core's  *)
(* neuron loop may fire nothing or at several times, with and without       *)
(* packets; two loops fire at the same time and so compete for the queue.   *)
EXTENDS SimLoop, TLC

CONSTANTS a, b, i, j, d

MCNeuronCores == {a, b}
MCInputCores == {i}
MCTwoInputCores == {i, j}

Rec(source, packets) == [source |-> source, packets |-> packets]
MCInputs == {<<>>, <<Rec(i, 2), Rec(d, 1)>>, <<Rec(i, 1), Rec(i, 1)>>}
MCStreams == {<<Rec(i, 2), Rec(d, 0), Rec(d, 1), Rec(i, 1)>>,
              <<Rec(d, 0)>>, <<Rec(d, 2), Rec(i, 1)>>}
MCTwoLayerStreams == {<<Rec(i, 2), Rec(j, 1)>>, <<Rec(d, 1), Rec(i, 2)>>}

Fire(delay, packets) == [delay |-> delay, packets |-> packets]
MCNeuronLoops ==
    {[service |-> 1, firings |-> <<>>],
     [service |-> 2, firings |-> <<Fire(0, 0), Fire(1, 1), Fire(2, 1)>>],
     [service |-> 1, firings |-> <<Fire(0, 1), Fire(1, 2)>>]}
=============================================================================
