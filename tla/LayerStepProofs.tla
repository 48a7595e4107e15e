--------------------------- MODULE LayerStepProofs ---------------------------
(***************************************************************************)
(* Theorems about LayerStep for all layers, neuron orders, sizes of cores, *)
(* tiles and chips, connections and somas: the two orders of the neurons   *)
(* are inverse to each other, the firing trace names the neuron that       *)
(* fired, the tracer of an ST-BIF neuron is the sum of its spikes, the     *)
(* attention output kept by the cores is the product of the whole          *)
(* operands, the input the cores hold between them is the one the spikes   *)
(* would have brought to the undivided layer, and what comes in as input   *)
(* is in the membranes or has left in spikes.                              *)
(***************************************************************************)
EXTENDS LayerStep, SumTheorems

(***************************************************************************)
(* Division.                                                               *)
(***************************************************************************)
LEMMA DivMod ==
  ASSUME NEW a \in Nat, NEW b \in Nat \ {0}
  PROVE  /\ a \div b \in Nat /\ a % b \in 0 .. b - 1
         /\ a = (a \div b) * b + (a % b)
<1> DEFINE q == a \div b
           r == a % b
<1>1. q \in Int /\ r \in 0 .. b - 1 /\ a = b * q + r
  OBVIOUS
<1> HIDE DEF q, r
<1>2. q >= 0
  <2> SUFFICES ASSUME ~(q >= 0) PROVE FALSE
    OBVIOUS
  <2>1. PICK d \in Nat : q = -1 - d
    <3>1. -1 - q \in Nat /\ q = -1 - (-1 - q)
      BY <1>1
    <3> QED
      BY <3>1
  <2>2. b * q = 0 - b - b * d
    BY <2>1
  <2>3. b * d \in Nat
    OBVIOUS
  <2> QED
    BY <1>1, <2>2, <2>3
<1>3. b * q = q * b
  BY <1>1
<1>4. q \in Nat /\ r \in 0 .. b - 1 /\ a = q * b + r
  BY <1>1, <1>2, <1>3
<1> QED
  BY <1>4 DEF q, r

LEMMA ProductBelow ==
  ASSUME NEW p \in Nat, NEW q \in Nat, NEW b \in Nat, p < q
  PROVE  p * b + b <= q * b
<1>1. PICK d \in Nat : q = p + 1 + d
  <2>1. q - p - 1 \in Nat /\ q = p + 1 + (q - p - 1)
    OBVIOUS
  <2> QED
    BY <2>1
<1>2. q * b = p * b + b + d * b
  BY <1>1
<1>3. d * b \in Nat /\ p * b \in Nat
  OBVIOUS
<1> QED
  BY <1>2, <1>3

LEMMA DivUnique ==
  ASSUME NEW q \in Nat, NEW b \in Nat \ {0}, NEW r \in 0 .. b - 1
  PROVE  (q * b + r) \div b = q /\ (q * b + r) % b = r
<1> DEFINE a == q * b + r
           p == a \div b
           s == a % b
<1>1. a \in Nat
  <2>1. q * b \in Nat
    OBVIOUS
  <2> QED
    BY <2>1
<1>2. p \in Nat /\ s \in 0 .. b - 1 /\ a = p * b + s
  <2> HIDE DEF a
  <2> QED
    BY <1>1, DivMod
<1>3. p * b \in Nat /\ q * b \in Nat
  <2> HIDE DEF p
  <2> QED
    BY <1>2
<1>4. ~(p < q)
  <2> SUFFICES ASSUME p < q PROVE FALSE
    OBVIOUS
  <2>1. p * b + b <= q * b
    <3> HIDE DEF p
    <3> QED
      BY <1>2, ProductBelow
  <2> DEFINE x == p * b
             y == q * b
  <2>2. x + s = y + r /\ x + b <= y /\ x \in Nat /\ y \in Nat
    BY <1>2, <1>3, <2>1
  <2> HIDE DEF x, y, s
  <2> QED
    BY <1>2, <2>2
<1>5. ~(q < p)
  <2> SUFFICES ASSUME q < p PROVE FALSE
    OBVIOUS
  <2>1. q * b + b <= p * b
    <3> HIDE DEF p
    <3> QED
      BY <1>2, ProductBelow
  <2> DEFINE x == p * b
             y == q * b
  <2>2. x + s = y + r /\ y + b <= x /\ x \in Nat /\ y \in Nat
    BY <1>2, <1>3, <2>1
  <2> HIDE DEF x, y, s
  <2> QED
    BY <1>2, <2>2
<1>6. p = q
  <2> HIDE DEF p
  <2> QED
    BY <1>2, <1>4, <1>5
<1>7. s = r
  <2> DEFINE y == q * b
  <2>1. y + s = y + r /\ y \in Nat
    BY <1>2, <1>3, <1>6
  <2> HIDE DEF y, s
  <2> QED
    BY <1>2, <2>1
<1> QED
  BY <1>6, <1>7

(* What is below a product has its quotient below the factor.              *)
LEMMA DivBelow ==
  ASSUME NEW a \in Nat, NEW b \in Nat \ {0}, NEW c \in Nat, a < c * b
  PROVE  a \div b < c
<1> DEFINE q == a \div b
           s == a % b
<1>1. q \in Nat /\ s \in 0 .. b - 1 /\ a = q * b + s
  BY DivMod
<1> HIDE DEF q, s
<1> SUFFICES ASSUME ~(q < c) PROVE FALSE
  BY DEF q
<1>2. c * b <= q * b
  <2>1. CASE c = q
    <3>1. c * b \in Nat
      OBVIOUS
    <3> QED
      BY <2>1, <3>1
  <2>2. CASE c < q
    <3>1. c * b + b <= q * b
      BY <1>1, <2>2, ProductBelow
    <3>2. c * b \in Nat /\ q * b \in Nat
      BY <1>1
    <3> QED
      BY <3>1, <3>2
  <2> QED
    BY <1>1, <2>1, <2>2
<1>3. q * b \in Nat /\ c * b \in Nat
  BY <1>1
<1> QED
  BY <1>1, <1>2, <1>3


(***************************************************************************)
(* The two orders of the neurons.                                          *)
(***************************************************************************)
Sized(l) ==
    /\ l.neurons \in Nat /\ l.channels \in Nat /\ l.max \in Nat \ {0}
    /\ l.order \in {"logical", "channel_major"}

LEMMA Channels ==
  ASSUME NEW l, Sized(l), LayerValid(l), l.order = "channel_major"
  PROVE  /\ l.channels \in Nat \ {0} /\ l.neurons \div l.channels \in Nat \ {0}
         /\ l.neurons = (l.neurons \div l.channels) * l.channels
<1>1. /\ l.neurons \in Nat \ {0} /\ l.channels \in Nat \ {0}
      /\ l.neurons % l.channels = 0
  BY DEF Sized, LayerValid
<1> DEFINE n == l.neurons
           c == l.channels
           q == n \div c
<1>2. n \in Nat \ {0} /\ c \in Nat \ {0} /\ n % c = 0
  BY <1>1
<1> HIDE DEF n, c
<1>3. q \in Nat /\ n = q * c + (n % c)
  BY <1>2, DivMod
<1> HIDE DEF q
<1>4. q * c \in Nat
  BY <1>2, <1>3
<1>5. n = q * c
  BY <1>2, <1>3, <1>4
<1>6. q # 0
  BY <1>2, <1>5
<1> QED
  BY <1>2, <1>3, <1>5, <1>6 DEF n, c, q

(* Digits a < s and b < c make one index below s * c, from which both are  *)
(* found again.                                                            *)
LEMMA Digits ==
  ASSUME NEW s \in Nat \ {0}, NEW c \in Nat \ {0}, NEW a \in 0 .. s - 1, NEW b \in 0 .. c - 1
  PROVE  /\ a * c + b \in 0 .. s * c - 1
         /\ (a * c + b) \div c = a /\ (a * c + b) % c = b
<1>1. a * c + c <= s * c
  BY ProductBelow
<1>2. a * c \in Nat /\ s * c \in Nat
  OBVIOUS
<1>3. a * c + b \in 0 .. s * c - 1
  BY <1>1, <1>2
<1>4. (a * c + b) \div c = a /\ (a * c + b) % c = b
  BY DivUnique
<1> QED
  BY <1>3, <1>4

(* Physical and logical index are inverse to each other and stay below the *)
(* number of neurons (mapping_config.cpp).                                 *)
THEOREM NeuronOrdersInverse ==
  ASSUME NEW l, Sized(l), LayerValid(l), NEW n \in 0 .. l.neurons - 1
  PROVE  /\ logical_neuron_index(l, n) \in 0 .. l.neurons - 1
         /\ physical_neuron_index(l, n) \in 0 .. l.neurons - 1
         /\ physical_neuron_index(l, logical_neuron_index(l, n)) = n
         /\ logical_neuron_index(l, physical_neuron_index(l, n)) = n
<1>1. CASE l.order = "logical"
  BY <1>1 DEF logical_neuron_index, physical_neuron_index
<1>2. CASE l.order = "channel_major"
  <2> DEFINE c == l.channels
             s == l.neurons \div l.channels
             N == l.neurons
  <2>1. c \in Nat \ {0} /\ s \in Nat \ {0} /\ N = s * c /\ n \in 0 .. N - 1 /\ N \in Nat
    BY <1>2, Channels DEF Sized
  <2>2. /\ \A x : logical_neuron_index(l, x) = (x % s) * c + x \div s
        /\ \A x : physical_neuron_index(l, x) = (x % c) * s + x \div c
    BY <1>2 DEF logical_neuron_index, physical_neuron_index
  <2> HIDE DEF c, s, N
  <2>3. n \in Nat /\ n < s * c /\ n < c * s /\ s * c = c * s
    BY <2>1
  <2>4. /\ n % s \in 0 .. s - 1 /\ n \div s \in 0 .. c - 1 /\ n = (n \div s) * s + (n % s)
    <3>1. /\ n % s \in 0 .. s - 1 /\ n \div s \in Nat /\ n = (n \div s) * s + (n % s)
      BY <2>1, <2>3, DivMod
    <3>2. n \div s < c
      BY <2>1, <2>3, DivBelow
    <3> DEFINE q == n \div s
    <3>3. q \in Nat /\ q < c
      BY <3>1, <3>2
    <3> HIDE DEF q
    <3>4. q \in 0 .. c - 1
      BY <2>1, <3>3
    <3> QED
      BY <3>1, <3>4 DEF q
  <2>5. /\ n % c \in 0 .. c - 1 /\ n \div c \in 0 .. s - 1 /\ n = (n \div c) * c + (n % c)
    <3>1. /\ n % c \in 0 .. c - 1 /\ n \div c \in Nat /\ n = (n \div c) * c + (n % c)
      BY <2>1, <2>3, DivMod
    <3>2. n \div c < s
      BY <2>1, <2>3, DivBelow
    <3> DEFINE q == n \div c
    <3>3. q \in Nat /\ q < s
      BY <3>1, <3>2
    <3> HIDE DEF q
    <3>4. q \in 0 .. s - 1
      BY <2>1, <3>3
    <3> QED
      BY <3>1, <3>4 DEF q
  <2>6. /\ logical_neuron_index(l, n) \in 0 .. N - 1
        /\ physical_neuron_index(l, logical_neuron_index(l, n)) = n
    <3> DEFINE a == n % s
               b == n \div s
               x == a * c + b
    <3>1. a \in 0 .. s - 1 /\ b \in 0 .. c - 1 /\ n = b * s + a /\ logical_neuron_index(l, n) = x
      <4>1. logical_neuron_index(l, n) = x
        BY <2>2
      <4> QED
        BY Zenon, <2>4, <4>1
    <3> HIDE DEF a, b
    <3>2. x \in 0 .. s * c - 1 /\ x \div c = a /\ x % c = b
      <4>1. /\ s \in Nat \ {0} /\ c \in Nat \ {0}
            /\ a \in 0 .. s - 1 /\ b \in 0 .. c - 1
        BY <2>1, <3>1
      <4> QED
        BY <4>1, Digits
    <3> HIDE DEF x
    <3>3. physical_neuron_index(l, x) = b * s + a
      BY <2>2, <3>2
    <3> QED
      BY <2>1, <3>1, <3>2, <3>3
  <2>7. /\ physical_neuron_index(l, n) \in 0 .. N - 1
        /\ logical_neuron_index(l, physical_neuron_index(l, n)) = n
    <3> DEFINE a == n % c
               b == n \div c
               x == a * s + b
    <3>1. a \in 0 .. c - 1 /\ b \in 0 .. s - 1 /\ n = b * c + a /\ physical_neuron_index(l, n) = x
      <4>1. physical_neuron_index(l, n) = x
        BY <2>2
      <4> QED
        BY Zenon, <2>5, <4>1
    <3> HIDE DEF a, b
    <3>2. x \in 0 .. c * s - 1 /\ x \div s = a /\ x % s = b
      <4>1. /\ s \in Nat \ {0} /\ c \in Nat \ {0}
            /\ a \in 0 .. c - 1 /\ b \in 0 .. s - 1
        BY <2>1, <3>1
      <4> QED
        BY <4>1, Digits
    <3> HIDE DEF x
    <3>3. logical_neuron_index(l, x) = b * c + a
      BY <2>2, <3>2
    <3> QED
      BY <2>1, <2>3, <3>1, <3>2, <3>3
  <2> QED
    BY <2>6, <2>7 DEF N
<1> QED
  BY <1>1, <1>2 DEF Sized


(***************************************************************************)
(* The record of a firing of physical neuron n, and what every record of   *)
(* the trace is.                                                           *)
(***************************************************************************)
Firing(n, t, v) ==
    [timestep |-> t, core |-> GlobalCore(n \div layer.max), local |-> n % layer.max,
     value |-> v, neuron |-> logical_neuron_index(layer, n)]
TraceInv ==
    /\ cfg \in Configurations /\ timestep \in Nat
    /\ phase = "run" => Loadable
    /\ \A f \in trace :
          /\ Loadable
          /\ \E n \in Logical, t \in 1 .. timestep, v \in {-1, 1} : f = Firing(n, t, v)

LEMMA Layout ==
  ASSUME cfg \in Configurations
  PROVE  /\ Sized(layer) /\ cfg.first \in Nat
         /\ cfg.per_tile \in Nat \ {0} /\ cfg.per_chip \in Nat \ {0}
         /\ cfg.soma.tracer_min \in Int /\ cfg.soma.tracer_max \in Int
BY ConfigurationAssumption DEF Sized, layer

(* A record of the trace leads back to its neuron and its core.            *)
LEMMA FiringNames ==
  ASSUME cfg \in Configurations, Loadable, NEW n \in Logical, NEW t, NEW v
  PROVE  /\ Firing(n, t, v).timestep = t /\ Firing(n, t, v).value = v
         /\ Firing(n, t, v).neuron = logical_neuron_index(layer, n)
         /\ TraceNeuron(Firing(n, t, v)) = logical_neuron_index(layer, n)
         /\ source_core(logical_neuron_index(layer, n)) = Firing(n, t, v).core
<1>1. /\ Sized(layer) /\ LayerValid(layer) /\ cfg.first \in Nat
      /\ n \in 0 .. layer.neurons - 1
  BY Layout DEF Loadable, Logical
<1>2. physical_neuron_index(layer, logical_neuron_index(layer, n)) = n
  BY <1>1, NeuronOrdersInverse
<1> DEFINE m == layer.max
           q == n \div m
           r == n % m
<1>3. m \in Nat \ {0} /\ n \in Nat
  BY <1>1 DEF Sized
<1>4. q \in Nat /\ r \in 0 .. m - 1 /\ n = q * m + r
  <2> HIDE DEF m
  <2> QED
    BY <1>3, DivMod
<1>5. source_core(logical_neuron_index(layer, n)) = cfg.first + q
  BY <1>2 DEF source_core, Partition, GlobalCore
<1>6. /\ Firing(n, t, v).core = cfg.first + q /\ Firing(n, t, v).local = r
      /\ Firing(n, t, v).timestep = t /\ Firing(n, t, v).value = v
      /\ Firing(n, t, v).neuron = logical_neuron_index(layer, n)
  BY DEF Firing, GlobalCore
<1> DEFINE f == Firing(n, t, v)
<1>7. TraceNeuron(f) = logical_neuron_index(layer, (f.core - cfg.first) * m + f.local)
  BY DEF TraceNeuron
<1>8. f.core - cfg.first = q
  <2> DEFINE first == cfg.first
  <2>1. first \in Nat /\ f.core = first + q
    BY <1>1, <1>6
  <2> HIDE DEF first, q
  <2>2. f.core - first = q
    BY <1>4, <2>1
  <2> QED
    BY <2>2 DEF first
<1>9. (f.core - cfg.first) * m + f.local = n
  BY <1>4, <1>6, <1>8
<1> QED
  BY <1>5, <1>6, <1>7, <1>9

LEMMA SameConfiguration ==
  ASSUME cfg' = cfg
  PROVE  /\ Loadable' <=> Loadable
         /\ Logical' = Logical /\ layer' = layer
         /\ \A n, t, v : Firing(n, t, v)' = Firing(n, t, v)
<1>1. layer' = layer /\ Logical' = Logical
  BY DEF layer, Logical
<1>2. Placed' <=> Placed
  BY <1>1 DEF Placed, Cores, GlobalCore
<1>3. Loadable' <=> Loadable
  BY <1>1, <1>2 DEF Loadable
<1>4. \A n, t, v : Firing(n, t, v)' = Firing(n, t, v)
  BY <1>1 DEF Firing, GlobalCore
<1> QED
  BY <1>1, <1>3, <1>4

(***************************************************************************)
(* What process_neuron does to the tracer.                                 *)
(***************************************************************************)
LEMMA NeuronTransition ==
  ASSUME NEW soma, NEW threshold, NEW neuron, NEW input, NEW woken, NEW bias
  PROVE  LET r == process_neuron(soma, threshold, neuron, input, woken, bias)
         IN  /\ r.fired \in {-1, 0, 1}
             /\ soma.model # "st_bif" => r.tracer = neuron.tracer
             /\ soma.model = "st_bif" /\ neuron.tracer \in Int =>
                  /\ r.tracer = neuron.tracer + r.fired
                  /\ r.fired = 1 => neuron.tracer < soma.tracer_max
                  /\ r.fired = -1 => neuron.tracer > soma.tracer_min
<1> DEFINE r == process_neuron(soma, threshold, neuron, input, woken, bias)
           raw == Leaked(soma, neuron.voltage) + soma.scale * (input + bias)
           v == Clamped(soma, raw)
<1>1. CASE ~ woken /\ bias = 0 /\ neuron.voltage = 0
  <2>1. r = [voltage |-> 0, tracer |-> neuron.tracer, fired |-> 0]
    BY <1>1 DEF process_neuron
  <2> QED
    BY <2>1
<1>2. CASE ~(~ woken /\ bias = 0 /\ neuron.voltage = 0) /\ soma.model = "st_bif"
  <2>1. r = StBif(soma, threshold, v, neuron.tracer)
    BY <1>2 DEF process_neuron
  <2> HIDE DEF v, r
  <2>2. PICK k \in {-1, 0, 1} :
            /\ r.fired = k /\ r.tracer = neuron.tracer + k
            /\ k = 1 => neuron.tracer < soma.tracer_max
            /\ k = -1 => neuron.tracer > soma.tracer_min
    BY <2>1 DEF StBif
  <2>3. /\ r.fired \in {-1, 0, 1} /\ r.tracer = neuron.tracer + r.fired
        /\ r.fired = 1 => neuron.tracer < soma.tracer_max
        /\ r.fired = -1 => neuron.tracer > soma.tracer_min
    BY <2>2
  <2> QED
    BY <1>2, <2>3 DEF r
<1>3. CASE ~(~ woken /\ bias = 0 /\ neuron.voltage = 0) /\ soma.model # "st_bif"
  <2>1. r = Lif(soma, threshold, v, neuron.tracer, raw > soma.max)
    BY <1>3 DEF process_neuron
  <2> HIDE DEF v, raw
  <2>2. r.fired \in {0, 1} /\ r.tracer = neuron.tracer
    BY <2>1 DEF Lif
  <2> QED
    BY <1>3, <2>2
<1> QED
  BY <1>1, <1>2, <1>3


(***************************************************************************)
(* The trace.                                                              *)
(***************************************************************************)
(* Only Process writes the trace and the neurons.                          *)
QuietStep ==
    /\ UNCHANGED <<cfg, timestep, neurons, trace>>
    /\ phase' = phase \/ phase' \in {"thrown", "rejected"} \/ Loadable

LEMMA QuietSteps ==
  Load \/ Fire \/ LocalState \/ ReceiveUpdates \/ ReceiveOperand \/ UNCHANGED vars
    => QuietStep
<1>1. Load => QuietStep
  BY DEF Load, QuietStep
<1>2. Fire => QuietStep
  BY DEF Fire, QuietStep
<1>3. LocalState => QuietStep
  BY DEF LocalState, QuietStep
<1>4. ReceiveUpdates => QuietStep
  BY DEF ReceiveUpdates, QuietStep
<1>5. ReceiveOperand => QuietStep
  BY DEF ReceiveOperand, QuietStep
<1>6. UNCHANGED vars => QuietStep
  BY DEF vars, QuietStep
<1> QED
  BY <1>1, <1>2, <1>3, <1>4, <1>5, <1>6

(* The neuron phase, as far as trace and tracers go: whether the layer is  *)
(* waiting for its start, the value that neuron n fires with, the neuron    *)
(* after it, and the records added.                                        *)
Waits == cfg.soma.model = "st_bif" /\ timestep + 1 < cfg.start
Result(n) ==
    LET delta == [k \in Logical |-> Delta(k \div layer.max, k)]
        woken == pending \cup {k \in Logical : delta[k] # 0}
        l == logical_neuron_index(layer, n)
    IN  process_neuron(cfg.soma, Threshold(l), neurons[n], buffer[n] + layer.scale * delta[n],
                       n \in woken, Bias(l))
Fires == {n \in Logical : Result(n).fired # 0}
NewFirings == {Firing(n, timestep + 1, Result(n).fired) : n \in Fires}

LEMMA ProcessEffect ==
  ASSUME Process
  PROVE  /\ phase = "run" /\ UNCHANGED <<cfg, phase>> /\ timestep' = timestep + 1
         /\ IF Waits THEN UNCHANGED <<neurons, trace>>
            ELSE /\ neurons' = [n \in Logical |-> [voltage |-> Result(n).voltage,
                                                   tracer |-> Result(n).tracer]]
                 /\ trace' = trace \cup NewFirings
<1> DEFINE delta == [n \in Logical |-> Delta(n \div layer.max, n)]
           input(n) == buffer[n] + layer.scale * delta[n]
           woken == pending \cup {n \in Logical : delta[n] # 0}
           result == [n \in Logical |->
                    LET l == logical_neuron_index(layer, n)
                    IN  process_neuron(cfg.soma, Threshold(l), neurons[n], input(n),
                                       n \in woken, Bias(l))]
           record(n) ==
                [timestep |-> timestep + 1, core |-> GlobalCore(n \div layer.max),
                 local |-> n % layer.max, value |-> result[n].fired,
                 neuron |-> logical_neuron_index(layer, n)]
<1>1. \A n \in Logical : result[n] = Result(n)
  BY DEF Result
<1>2. /\ phase = "run" /\ UNCHANGED <<cfg, phase>> /\ timestep' = timestep + 1
      /\ IF Waits THEN UNCHANGED <<neurons, trace>>
         ELSE /\ neurons' = [n \in Logical |-> [voltage |-> result[n].voltage,
                                                tracer |-> result[n].tracer]]
              /\ trace' = trace \cup {record(n) : n \in {m \in Logical : result[m].fired # 0}}
  BY Zenon DEF Process, Waits
<1> HIDE DEF delta, input, woken, result
<1>3. [n \in Logical |-> [voltage |-> result[n].voltage, tracer |-> result[n].tracer]]
         = [n \in Logical |-> [voltage |-> Result(n).voltage, tracer |-> Result(n).tracer]]
  BY <1>1
<1>4. {m \in Logical : result[m].fired # 0} = Fires
  BY <1>1 DEF Fires
<1>5. \A n \in Fires : record(n) = Firing(n, timestep + 1, Result(n).fired)
  BY <1>1 DEF Fires, Firing
<1>6. {record(n) : n \in Fires} = NewFirings
  <2> HIDE DEF record
  <2> QED
    BY <1>5 DEF NewFirings
<1> QED
  BY <1>2, <1>3, <1>4, <1>6

LEMMA FiredValues ==
  \A n : Result(n).fired \in {-1, 0, 1}
BY NeuronTransition DEF Result

LEMMA InitTraceInv ==
  Init => TraceInv
BY DEF Init, TraceInv

LEMMA NextTraceInv ==
  ASSUME TraceInv, [Next]_vars
  PROVE  TraceInv'
<1>1. CASE QuietStep
  <2>1. cfg' = cfg /\ timestep' = timestep /\ trace' = trace
    BY <1>1 DEF QuietStep
  <2>2. phase' = "run" => Loadable
    BY <1>1 DEF QuietStep, TraceInv
  <2> QED
    BY <2>1, <2>2, SameConfiguration DEF TraceInv
<1>2. CASE Process
  <2>1. phase = "run" /\ cfg' = cfg /\ timestep' = timestep + 1
        /\ (trace' = trace \cup NewFirings \/ trace' = trace)
    BY <1>2, ProcessEffect
  <2>2. /\ Loadable /\ Loadable' /\ cfg' \in Configurations /\ timestep' \in Nat
        /\ Logical' = Logical /\ \A n, t, v : Firing(n, t, v)' = Firing(n, t, v)
    BY <2>1, SameConfiguration DEF TraceInv
  <2>3. \A f \in trace : \E n \in Logical, t \in 1 .. timestep + 1, v \in {-1, 1} :
                              f = Firing(n, t, v)
    <3> SUFFICES ASSUME NEW f \in trace
                 PROVE  \E n \in Logical, t \in 1 .. timestep + 1, v \in {-1, 1} :
                              f = Firing(n, t, v)
      OBVIOUS
    <3>1. PICK n \in Logical, t \in 1 .. timestep, v \in {-1, 1} : f = Firing(n, t, v)
      BY DEF TraceInv
    <3>2. t \in 1 .. timestep + 1
      BY DEF TraceInv
    <3> QED
      BY <3>1, <3>2
  <2>4. \A f \in NewFirings : \E n \in Logical, t \in 1 .. timestep + 1, v \in {-1, 1} :
                              f = Firing(n, t, v)
    <3> SUFFICES ASSUME NEW f \in NewFirings
                 PROVE  \E n \in Logical, t \in 1 .. timestep + 1, v \in {-1, 1} :
                              f = Firing(n, t, v)
      OBVIOUS
    <3>1. PICK n \in Fires : f = Firing(n, timestep + 1, Result(n).fired)
      BY DEF NewFirings
    <3>2. n \in Logical /\ Result(n).fired \in {-1, 1}
      BY FiredValues DEF Fires
    <3>3. timestep + 1 \in 1 .. timestep + 1
      BY DEF TraceInv
    <3> QED
      BY <3>1, <3>2, <3>3
  <2>5. \A f \in trace' : \E n \in Logical, t \in 1 .. timestep', v \in {-1, 1} :
                              f = Firing(n, t, v)
    BY <2>1, <2>3, <2>4
  <2> QED
    BY <2>2, <2>5 DEF TraceInv
<1> QED
  BY <1>1, <1>2, QuietSteps DEF Next

(* Two cores of whole tiles with the same tile and offset are the same.    *)
LEMMA AddressesDiffer ==
  ASSUME NEW a \in Nat, NEW b \in Nat, NEW tile \in Nat \ {0}, NEW chip \in Nat \ {0},
         chip % tile = 0, a \div tile = b \div tile, (a % chip) % tile = (b % chip) % tile
  PROVE  a = b
<1> DEFINE tiles == chip \div tile
<1>1. tiles \in Nat /\ chip = tiles * tile
  <2>1. tiles \in Nat /\ chip = tiles * tile + (chip % tile)
    BY DivMod
  <2> HIDE DEF tiles
  <2> QED
    BY <2>1
<1>2. ASSUME NEW x \in Nat
      PROVE  x % tile = (x % chip) % tile
  <2> DEFINE q == x \div chip
             r == x % chip
             p == r \div tile
             s == r % tile
  <2>1. q \in Nat /\ r \in Nat /\ x = q * chip + r
    BY DivMod
  <2>2. p \in Nat /\ s \in 0 .. tile - 1 /\ r = p * tile + s
    <3> HIDE DEF r
    <3> QED
      BY <2>1, DivMod
  <2> HIDE DEF q, r, p, s, tiles
  <2>3. x = (q * tiles + p) * tile + s
    <3>1. x = q * (tiles * tile) + (p * tile + s)
      BY <1>1, <2>1, <2>2
    <3> QED
      BY <3>1, <1>1, <2>1, <2>2
  <2>4. q * tiles + p \in Nat
    BY <1>1, <2>1, <2>2
  <2> DEFINE k == q * tiles + p
  <2>5. k \in Nat /\ x = k * tile + s
    BY <2>3, <2>4
  <2> HIDE DEF k
  <2>6. x % tile = s
    BY <2>2, <2>5, DivUnique
  <2> QED
    BY <2>6 DEF s, r
<1>3. a % tile = b % tile
  BY <1>2
<1>4. a = (a \div tile) * tile + (a % tile) /\ b = (b \div tile) * tile + (b % tile)
  BY DivMod
<1> QED
  BY <1>3, <1>4

LEMMA NamesFromTrace ==
  TraceInv => TraceNamesNeuron
<1> SUFFICES ASSUME TraceInv PROVE TraceNamesNeuron
  OBVIOUS
<1>1. ASSUME NEW f \in trace
      PROVE  TraceNeuron(f) = f.neuron /\ source_core(f.neuron) = f.core
  <2>1. Loadable /\ cfg \in Configurations
    BY <1>1 DEF TraceInv
  <2>2. PICK n \in Logical, t \in 1 .. timestep, v \in {-1, 1} : f = Firing(n, t, v)
    BY <1>1 DEF TraceInv
  <2> QED
    BY <2>1, <2>2, FiringNames
<1>2. ASSUME cfg.per_chip % cfg.per_tile = 0, NEW p \in Cores, NEW q \in Cores,
             core_address(GlobalCore(p)).tile = core_address(GlobalCore(q)).tile,
             core_address(GlobalCore(p)).offset = core_address(GlobalCore(q)).offset
      PROVE  p = q
  <2>1. /\ cfg.first \in Nat /\ cfg.per_tile \in Nat \ {0} /\ cfg.per_chip \in Nat \ {0}
    BY Layout DEF TraceInv
  <2>2. p \in Nat /\ q \in Nat
    BY DEF Cores, Partitions
  <2> DEFINE a == GlobalCore(p)
             b == GlobalCore(q)
             first == cfg.first
  <2>3. a = first + p /\ b = first + q
    BY DEF GlobalCore
  <2>4. a \in Nat /\ b \in Nat
    BY <2>1, <2>2, <2>3
  <2>5. a \div cfg.per_tile = b \div cfg.per_tile
        /\ (a % cfg.per_chip) % cfg.per_tile = (b % cfg.per_chip) % cfg.per_tile
    BY <1>2 DEF core_address
  <2> HIDE DEF a, b
  <2>6. a = b
    BY <1>2, <2>1, <2>4, <2>5, AddressesDiffer
  <2>7. first \in Nat
    BY <2>1
  <2> HIDE DEF first
  <2> QED
    BY <2>2, <2>3, <2>6, <2>7
<1> QED
  BY <1>1, <1>2 DEF TraceNamesNeuron

(* The trace file names the neuron that fired, its packets leave from the  *)
(* core that fired it, and with whole tiles no two cores of a layer share  *)
(* an address (stats.cpp:306-316, simulator.cpp:202-208, tile.cpp:17-31).  *)
THEOREM TraceNames == Spec => []TraceNamesNeuron
<1>1. Init => TraceInv
  BY InitTraceInv
<1>2. TraceInv /\ [Next]_vars => TraceInv'
  BY NextTraceInv
<1>3. TraceInv => TraceNamesNeuron
  BY NamesFromTrace
<1> QED
  BY <1>1, <1>2, <1>3, PTL DEF Spec


(***************************************************************************)
(* The tracers.                                                            *)
(***************************************************************************)
SpikesIn(S) == MapThenSumSet(LAMBDA f : f.value, S)
FiringsOf(l) == {f \in trace : TraceNeuron(f) = l}

LEMMA SpikesAreSum ==
  ASSUME NEW S
  PROVE  SpikesIn(S) = SumFunctionOnSet([f \in S |-> f.value], S)
BY ZenonT(80) DEF SpikesIn, SumFunctionOnSet, FoldFunctionOnSet, MapThenFoldSet, MapThenSumSet

LEMMA SpikesOfNone ==
  SpikesIn({}) = 0
BY SpikesAreSum, SumEmpty

LEMMA SpikesPlusOne ==
  ASSUME NEW S, IsFiniteSet(S), \A f \in S : f.value \in Int,
         NEW x, x \notin S, x.value \in Int
  PROVE  SpikesIn(S \cup {x}) = SpikesIn(S) + x.value
<1> DEFINE T == S \cup {x}
           g == [f \in T |-> f.value]
           h == [f \in S |-> f.value]
<1>1. IsFiniteSet(T) /\ x \in T /\ T \ {x} = S
  BY FS_AddElement
<1>2. \A f \in T : g[f] \in Int
  OBVIOUS
<1>3. \A f \in S : g[f] = h[f]
  OBVIOUS
<1>4. g[x] = x.value /\ \A f \in S : h[f] \in Int
  OBVIOUS
<1>5. SpikesIn(T) = SumFunctionOnSet(g, T) /\ SpikesIn(S) = SumFunctionOnSet(h, S)
  BY SpikesAreSum
<1> HIDE DEF T, g, h
<1>6. SumFunctionOnSet(g, T) = g[x] + SumFunctionOnSet(g, S)
  BY <1>1, <1>2, SumTake
<1>7. SumFunctionOnSet(g, S) = SumFunctionOnSet(h, S)
  BY <1>3, SumCongruence
<1>8. SumFunctionOnSet(h, S) \in Int
  BY <1>4, SumInt
<1>9. SpikesIn(T) = SpikesIn(S) + x.value
  BY <1>4, <1>5, <1>6, <1>7, <1>8
<1> QED
  BY <1>9 DEF T

NetSpikesAreSpikes == \A l : NetSpikes(l) = SpikesIn(FiringsOf(l))
LEMMA NetSpikesOf ==
  NetSpikesAreSpikes
BY Zenon DEF NetSpikesAreSpikes, NetSpikes, SpikesIn, FiringsOf
LEMMA NetSpikesOfNext ==
  NetSpikesAreSpikes'
BY NetSpikesOf, PTL

TracerInv ==
    /\ IsFiniteSet(trace)
    /\ \A n \in Logical : neurons[n].tracer \in Int
    /\ TracerIsNetSpikes

LEMMA InitTracerInv ==
  ASSUME Init
  PROVE  TracerInv
<1>1. cfg \in Configurations /\ trace = {} /\ \A n \in Logical : neurons[n].tracer = 0
  BY DEF Init
<1>2. \A l : NetSpikes(l) = 0
  BY <1>1, NetSpikesOf, SpikesOfNone DEF FiringsOf, NetSpikesAreSpikes
<1>3. Loadable => \A l \in Logical : Physical(l) \in Logical
  BY <1>1, Layout, NeuronOrdersInverse DEF Loadable, Logical, Physical
<1>4. TracerIsNetSpikes
  BY <1>1, <1>2, <1>3 DEF TracerIsNetSpikes
<1> QED
  BY <1>1, <1>4, FS_EmptySet DEF TracerInv

(* The records a neuron phase adds for one neuron: its firing, or none.    *)
LEMMA FiringsAdded ==
  ASSUME cfg \in Configurations, Loadable, NEW l \in Logical
  PROVE  /\ Physical(l) \in Logical
         /\ {f \in NewFirings : TraceNeuron(f) = l}
               = IF Result(Physical(l)).fired = 0 THEN {}
                 ELSE {Firing(Physical(l), timestep + 1, Result(Physical(l)).fired)}
<1> DEFINE n == Physical(l)
           rec(m) == Firing(m, timestep + 1, Result(m).fired)
<1>1. Sized(layer) /\ LayerValid(layer)
  BY Layout DEF Loadable
<1>2. n \in Logical /\ logical_neuron_index(layer, n) = l
  BY <1>1, NeuronOrdersInverse DEF Logical, Physical
<1>3. \A m \in Logical : logical_neuron_index(layer, m) = l => m = n
  <2> SUFFICES ASSUME NEW m \in Logical, logical_neuron_index(layer, m) = l
               PROVE  m = n
    OBVIOUS
  <2>1. physical_neuron_index(layer, logical_neuron_index(layer, m)) = m
    BY <1>1, NeuronOrdersInverse DEF Logical
  <2> QED
    BY <2>1 DEF Physical
<1> HIDE DEF n
<1>4. \A m \in Logical : TraceNeuron(rec(m)) = logical_neuron_index(layer, m)
  BY FiringNames
<1>5. NewFirings = {rec(m) : m \in Fires} /\ Fires \subseteq Logical
  BY DEF NewFirings, Fires
<1> HIDE DEF rec
<1>6. {f \in NewFirings : TraceNeuron(f) = l} = {rec(m) : m \in Fires \cap {n}}
  BY <1>2, <1>3, <1>4, <1>5
<1>7. n \in Fires <=> Result(n).fired # 0
  BY <1>2 DEF Fires
<1>8. {f \in NewFirings : TraceNeuron(f) = l}
         = IF Result(n).fired = 0 THEN {} ELSE {rec(n)}
  BY <1>6, <1>7
<1> QED
  BY <1>2, <1>8 DEF n, rec

LEMMA NewFiringsFinite ==
  ASSUME cfg \in Configurations
  PROVE  IsFiniteSet(NewFirings)
<1>1. layer.neurons \in Nat
  BY Layout DEF Sized
<1>2. IsFiniteSet(Logical)
  <2> DEFINE top == layer.neurons - 1
  <2>1. top \in Int
    BY <1>1
  <2> HIDE DEF top
  <2>2. IsFiniteSet(0 .. top)
    BY <2>1, FS_Interval
  <2> QED
    BY <2>2 DEF top, Logical
<1>3. IsFiniteSet(Fires)
  BY <1>2, FS_Subset DEF Fires
<1> DEFINE b == [n \in Fires |-> Firing(n, timestep + 1, Result(n).fired)]
<1>4. b \in Surjection(Fires, NewFirings)
  BY DEF Surjection, NewFirings
<1> HIDE DEF b
<1> QED
  BY <1>3, <1>4, FS_Surjection

(* The spikes of a neuron depend on the configuration and the trace.        *)
LEMMA SameNetSpikes ==
  ASSUME cfg' = cfg, trace' = trace
  PROVE  \A l : NetSpikes(l)' = NetSpikes(l)
<1>1. \A f : TraceNeuron(f)' = TraceNeuron(f)
  BY SameConfiguration DEF TraceNeuron
<1>2. \A l : FiringsOf(l)' = FiringsOf(l)
  BY <1>1 DEF FiringsOf
<1>3. \A l : NetSpikes(l)' = SpikesIn(FiringsOf(l)')
  BY NetSpikesOfNext DEF NetSpikesAreSpikes
<1> QED
  BY <1>2, <1>3, NetSpikesOf DEF NetSpikesAreSpikes

LEMMA SameTracerInv ==
  ASSUME TracerInv, cfg' = cfg, trace' = trace, neurons' = neurons
  PROVE  TracerInv'
<1>1. cfg' = cfg /\ trace' = trace /\ neurons' = neurons
  OBVIOUS
<1>2. Logical' = Logical /\ (Loadable' <=> Loadable) /\ layer' = layer
  BY <1>1, SameConfiguration
<1>3. \A l : NetSpikes(l)' = NetSpikes(l)
  BY <1>1, SameNetSpikes
<1>4. \A l : Physical(l)' = Physical(l)
  BY <1>2 DEF Physical
<1> QED
  BY <1>1, <1>2, <1>3, <1>4 DEF TracerInv, TracerIsNetSpikes


(* A firing of this neuron phase is new: the records have earlier steps.   *)
LEMMA FiringsAreNew ==
  ASSUME TraceInv, Loadable, NEW n \in Logical, NEW v
  PROVE  Firing(n, timestep + 1, v) \notin trace
<1> SUFFICES ASSUME Firing(n, timestep + 1, v) \in trace PROVE FALSE
  OBVIOUS
<1>1. PICK m \in Logical, t \in 1 .. timestep, w \in {-1, 1} :
          Firing(n, timestep + 1, v) = Firing(m, t, w)
  BY DEF TraceInv
<1>2. Firing(n, timestep + 1, v).timestep = timestep + 1 /\ Firing(m, t, w).timestep = t
  BY DEF Firing
<1> QED
  BY <1>1, <1>2 DEF TraceInv

(* The spikes of a neuron, and those a phase adds to them.                  *)
LEMMA NetSpikesInt ==
  ASSUME TraceInv, IsFiniteSet(trace), NEW l
  PROVE  /\ NetSpikes(l) = SpikesIn(FiringsOf(l)) /\ NetSpikes(l) \in Int
         /\ IsFiniteSet(FiringsOf(l)) /\ \A f \in FiringsOf(l) : f.value \in Int
<1>1. IsFiniteSet(FiringsOf(l)) /\ FiringsOf(l) \subseteq trace
  BY FS_Subset DEF FiringsOf
<1>2. ASSUME NEW f \in trace PROVE f.value \in Int
  <2>1. PICK m \in Logical, t \in 1 .. timestep, w \in {-1, 1} : f = Firing(m, t, w)
    BY DEF TraceInv
  <2>2. f.value = w
    BY <2>1 DEF Firing
  <2> QED
    BY <2>2
<1>3. \A f \in FiringsOf(l) : f.value \in Int
  BY <1>1, <1>2
<1>4. NetSpikes(l) = SpikesIn(FiringsOf(l))
  BY NetSpikesOf DEF NetSpikesAreSpikes
<1> DEFINE h == [f \in FiringsOf(l) |-> f.value]
<1>5. SpikesIn(FiringsOf(l)) = SumFunctionOnSet(h, FiringsOf(l))
  BY SpikesAreSum
<1>6. \A f \in FiringsOf(l) : h[f] \in Int
  BY <1>3
<1> HIDE DEF h
<1>7. SumFunctionOnSet(h, FiringsOf(l)) \in Int
  BY <1>1, <1>6, SumInt
<1> QED
  BY <1>1, <1>3, <1>4, <1>5, <1>7

(* A neuron phase adds one firing at most to those of a neuron.            *)
LEMMA NetSpikesGrow ==
  ASSUME TraceInv, IsFiniteSet(trace), Loadable, cfg' = cfg, trace' = trace \cup NewFirings,
         NEW l \in Logical
  PROVE  /\ Physical(l) \in Logical /\ Result(Physical(l)).fired \in {-1, 0, 1}
         /\ NetSpikes(l)' = NetSpikes(l) + Result(Physical(l)).fired
<1> DEFINE n == Physical(l)
           k == Result(n).fired
           old == FiringsOf(l)
           new == {f \in NewFirings : TraceNeuron(f) = l}
           x == Firing(n, timestep + 1, k)
<1>1. n \in Logical /\ new = IF k = 0 THEN {} ELSE {x}
  BY FiringsAdded DEF TraceInv
<1>2. k \in {-1, 0, 1}
  BY NeuronTransition DEF Result
<1>3. FiringsOf(l)' = old \cup new
  <2>1. \A f : TraceNeuron(f)' = TraceNeuron(f)
    BY SameConfiguration DEF TraceNeuron
  <2> QED
    BY <2>1 DEF FiringsOf
<1>4. x \notin old /\ x.value = k
  <2>1. x \notin trace
    BY <1>1, FiringsAreNew
  <2> QED
    BY <2>1 DEF Firing, FiringsOf
<1>5. /\ NetSpikes(l) = SpikesIn(old) /\ SpikesIn(old) \in Int
      /\ IsFiniteSet(old) /\ \A f \in old : f.value \in Int
  BY NetSpikesInt
<1>6. NetSpikes(l)' = SpikesIn(FiringsOf(l)')
  BY NetSpikesOfNext DEF NetSpikesAreSpikes
<1> HIDE DEF old, new, x, k
<1>7. SpikesIn(old \cup new) = SpikesIn(old) + k
  <2>1. CASE k = 0
    <3>1. old \cup new = old
      BY <1>1, <2>1
    <3> QED
      BY <1>5, <2>1, <3>1
  <2>2. CASE k # 0
    <3>1. new = {x}
      BY <1>1, <2>2
    <3>2. SpikesIn(old \cup {x}) = SpikesIn(old) + x.value
      BY <1>2, <1>4, <1>5, SpikesPlusOne
    <3> QED
      BY <1>4, <3>1, <3>2
  <2> QED
    BY <2>1, <2>2
<1> QED
  BY <1>1, <1>2, <1>3, <1>5, <1>6, <1>7 DEF k

LEMMA ProcessTracerInv ==
  ASSUME TraceInv, TracerInv, Process
  PROVE  TracerInv'
<1>1. /\ cfg' = cfg /\ cfg \in Configurations /\ Loadable /\ timestep \in Nat
      /\ \/ /\ neurons' = [n \in Logical |-> [voltage |-> Result(n).voltage,
                                              tracer |-> Result(n).tracer]]
            /\ trace' = trace \cup NewFirings
         \/ UNCHANGED <<neurons, trace>>
  BY ProcessEffect DEF TraceInv
<1>2. CASE UNCHANGED <<neurons, trace>>
  <2>1. cfg' = cfg /\ trace' = trace /\ neurons' = neurons
    BY <1>1, <1>2
  <2> QED
    BY <2>1, SameTracerInv
<1>3. CASE /\ neurons' = [n \in Logical |-> [voltage |-> Result(n).voltage,
                                             tracer |-> Result(n).tracer]]
           /\ trace' = trace \cup NewFirings
  <2>1. Logical' = Logical /\ (Loadable' <=> Loadable) /\ layer' = layer
    BY <1>1, SameConfiguration
  <2>2. IsFiniteSet(trace')
    BY <1>1, <1>3, NewFiringsFinite, FS_Union DEF TracerInv
  <2> DEFINE fired(n) == Result(n).fired
             lif == cfg.soma.model # "st_bif"
  <2>3. \A n \in Logical : neurons'[n].tracer = Result(n).tracer
    BY <1>3
  <2>4. ASSUME NEW n \in Logical, ~lif
        PROVE  /\ fired(n) \in {-1, 0, 1} /\ neurons[n].tracer \in Int
               /\ neurons'[n].tracer = neurons[n].tracer + fired(n)
               /\ fired(n) = 1 => neurons[n].tracer < cfg.soma.tracer_max
               /\ fired(n) = -1 => neurons[n].tracer > cfg.soma.tracer_min
    <3>1. neurons[n].tracer \in Int
      BY DEF TracerInv
    <3> QED
      BY <2>3, <2>4, <3>1, NeuronTransition DEF Result
  <2>5. ASSUME NEW n \in Logical, lif
        PROVE  neurons'[n].tracer = neurons[n].tracer
    <3>1. Result(n).tracer = neurons[n].tracer
      BY <2>5, NeuronTransition DEF Result
    <3> QED
      BY <2>3, <3>1
  <2>6. \A n \in Logical' : neurons'[n].tracer \in Int
    <3>1. \A n \in Logical : neurons[n].tracer \in Int
      BY DEF TracerInv
    <3> HIDE DEF fired, lif
    <3>2. \A n \in Logical : neurons'[n].tracer \in Int
      BY <2>4, <2>5, <3>1
    <3> QED
      BY <2>1, <3>2
  <2>7. ASSUME ~lif, NEW l \in Logical
        PROVE  /\ neurons'[Physical(l)].tracer = NetSpikes(l)'
               /\ neurons'[Physical(l)].tracer > 0
                     => neurons'[Physical(l)].tracer <= cfg.soma.tracer_max
               /\ neurons'[Physical(l)].tracer < 0
                     => neurons'[Physical(l)].tracer >= cfg.soma.tracer_min
    <3> DEFINE n == Physical(l)
               k == fired(n)
               before == neurons[n].tracer
               after == neurons'[n].tracer
               top == cfg.soma.tracer_max
               bottom == cfg.soma.tracer_min
    <3>1. /\ n \in Logical /\ NetSpikes(l) \in Int
          /\ NetSpikes(l)' = NetSpikes(l) + k
      BY <1>1, <1>3, NetSpikesInt, NetSpikesGrow DEF TracerInv
    <3>2. /\ before = NetSpikes(l)
          /\ before > 0 => before <= top
          /\ before < 0 => before >= bottom
      BY <1>1, <2>7 DEF TracerInv, TracerIsNetSpikes
    <3>3. /\ k \in {-1, 0, 1} /\ before \in Int /\ after = before + k
          /\ k = 1 => before < top
          /\ k = -1 => before > bottom
      BY <2>4, <2>7, <3>1
    <3>4. top \in Int /\ bottom \in Int
      BY <1>1, Layout
    <3> HIDE DEF k, before, after, top, bottom
    <3>5. after = NetSpikes(l)'
      BY <3>1, <3>2, <3>3
    <3>6. (after > 0 => after <= top) /\ (after < 0 => after >= bottom)
      BY <3>2, <3>3, <3>4
    <3> QED
      BY <3>5, <3>6 DEF after, top, bottom
  <2>8. TracerIsNetSpikes'
    <3>1. \A l : Physical(l)' = Physical(l)
      BY <2>1 DEF Physical
    <3> QED
      BY <1>1, <2>1, <2>7, <3>1 DEF TracerIsNetSpikes
  <2> QED
    BY <2>2, <2>6, <2>8 DEF TracerInv
<1> QED
  BY <1>1, <1>2, <1>3

(* The tracer of an ST-BIF neuron is the sum of the spikes the trace file   *)
(* has for it, wherever the neuron lies, and moves away from 0 only within *)
(* the layer's range (soma.cpp:70-81).                                     *)
THEOREM TracersCountSpikes == Spec => []TracerIsNetSpikes
<1> DEFINE Inv == TraceInv /\ TracerInv
<1>1. Init => Inv
  BY InitTraceInv, InitTracerInv
<1>2. Inv /\ [Next]_vars => Inv'
  <2> SUFFICES ASSUME TraceInv, TracerInv, [Next]_vars PROVE TraceInv' /\ TracerInv'
    OBVIOUS
  <2>1. CASE QuietStep
    <3>1. cfg' = cfg /\ trace' = trace /\ neurons' = neurons
      BY <2>1 DEF QuietStep
    <3> QED
      BY <3>1, SameTracerInv, NextTraceInv
  <2>2. CASE Process
    BY <2>2, ProcessTracerInv, NextTraceInv
  <2> QED
    BY <2>1, <2>2, QuietSteps DEF Next
<1>3. Inv => TracerIsNetSpikes
  BY DEF TracerInv
<1> QED
  BY <1>1, <1>2, <1>3, PTL DEF Spec

(***************************************************************************)
(* An index of three digits.                                               *)
(***************************************************************************)
Index(A, B, C, x) == (x[1] * B + x[2]) * C + x[3]
Triples(A, B, C) == (0 .. A - 1) \X (0 .. B - 1) \X (0 .. C - 1)

(* The digits of s are a, b and c.                                         *)
Decoded(A, B, C, s, a, b, c) ==
    /\ s \in 0 .. (A * B) * C - 1
    /\ s \div (B * C) = a /\ s % (B * C) = b * C + c
    /\ (b * C + c) \div C = b /\ (b * C + c) % C = c
    /\ (s \div C) % B = b /\ s % C = c /\ s \div C = a * B + b

LEMMA ThreeDigits ==
  ASSUME NEW A \in Nat \ {0}, NEW B \in Nat \ {0}, NEW C \in Nat \ {0},
         NEW a \in 0 .. A - 1, NEW b \in 0 .. B - 1, NEW c \in 0 .. C - 1,
         NEW s, s = Index(A, B, C, <<a, b, c>>)
  PROVE  Decoded(A, B, C, s, a, b, c)
<1> USE DEF Index
<1>1. a * B + b \in 0 .. A * B - 1 /\ (a * B + b) % B = b
  BY Digits
<1> DEFINE ab == a * B + b
           AB == A * B
<1>2. AB \in Nat \ {0}
  BY <1>1
<1>3. ab \in 0 .. AB - 1
  BY <1>1
<1>4. s \in 0 .. AB * C - 1 /\ s \div C = ab /\ s % C = c
  <2>1. s = ab * C + c
    OBVIOUS
  <2> HIDE DEF ab, AB
  <2> QED
    BY <1>2, <1>3, <2>1, Digits
<1>5. b * C + c \in 0 .. B * C - 1 /\ (b * C + c) \div C = b /\ (b * C + c) % C = c
  BY Digits
<1>6. s \div (B * C) = a /\ s % (B * C) = b * C + c
  <2> DEFINE bc == b * C + c
             BC == B * C
  <2>1. BC \in Nat \ {0} /\ bc \in 0 .. BC - 1
    BY <1>5
  <2>2. s = a * BC + bc
    <3>1. (a * B + b) * C = a * (B * C) + b * C
      OBVIOUS
    <3>2. a * (B * C) \in Nat /\ b * C \in Nat
      OBVIOUS
    <3> QED
      BY <3>1, <3>2
  <2> HIDE DEF bc, BC
  <2>3. s \div BC = a /\ s % BC = bc
    BY <2>1, <2>2, DivUnique
  <2> QED
    BY <2>3 DEF bc, BC
<1> QED
  BY <1>1, <1>4, <1>5, <1>6 DEF Decoded

HasDigits(A, B, C, s) == \E x \in Triples(A, B, C) : Index(A, B, C, x) = s

LEMMA DigitsOf ==
  ASSUME NEW A \in Nat \ {0}, NEW B \in Nat \ {0}, NEW C \in Nat \ {0},
         NEW s \in 0 .. (A * B) * C - 1
  PROVE  HasDigits(A, B, C, s)
<1> DEFINE AB == A * B
           q == s \div C
           c == s % C
           a == q \div B
           b == q % B
<1>1. AB \in Nat
  OBVIOUS
<1>2. q \in Nat /\ c \in 0 .. C - 1 /\ s = q * C + c
  <2>1. s \in Nat
    BY <1>1
  <2> QED
    BY <2>1, DivMod
<1>3. q < AB
  <2>1. s \in Nat /\ s < AB * C
    BY <1>1
  <2> HIDE DEF AB, q
  <2> QED
    BY <1>1, <2>1, DivBelow DEF q
<1>4. a \in Nat /\ b \in 0 .. B - 1 /\ q = a * B + b
  <2> HIDE DEF q
  <2> QED
    BY <1>2, DivMod
<1>5. a < A
  <2> HIDE DEF q
  <2> QED
    BY <1>2, <1>3, DivBelow
<1>6. <<a, b, c>> \in Triples(A, B, C)
  <2> HIDE DEF a, b, c
  <2> QED
    BY <1>2, <1>4, <1>5 DEF Triples
<1>7. Index(A, B, C, <<a, b, c>>) = s
  <2> HIDE DEF a, b, c, q
  <2> QED
    BY <1>2, <1>4 DEF Index
<1> QED
  BY <1>6, <1>7 DEF HasDigits

LEMMA DigitsUnique ==
  ASSUME NEW A \in Nat \ {0}, NEW B \in Nat \ {0}, NEW C \in Nat \ {0},
         NEW x \in Triples(A, B, C), NEW y \in Triples(A, B, C),
         Index(A, B, C, x) = Index(A, B, C, y)
  PROVE  x = y
<1>1. PICK a \in 0 .. A - 1, b \in 0 .. B - 1, c \in 0 .. C - 1 : x = <<a, b, c>>
  BY DEF Triples
<1>2. PICK d \in 0 .. A - 1, e \in 0 .. B - 1, f \in 0 .. C - 1 : y = <<d, e, f>>
  BY DEF Triples
<1>3. PICK s : s = Index(A, B, C, x)
  OBVIOUS
<1>4. s = Index(A, B, C, <<a, b, c>>) /\ s = Index(A, B, C, <<d, e, f>>)
  BY <1>1, <1>2, <1>3
<1>5. Decoded(A, B, C, s, a, b, c) /\ Decoded(A, B, C, s, d, e, f)
  BY Zenon, <1>4, ThreeDigits
<1> QED
  BY Zenon, <1>1, <1>2, <1>5 DEF Decoded

(***************************************************************************)
(* Attention layers.  A model is in scope when its operand sources are     *)
(* entries of the operand tensors (a larger source throws, core.cpp:141,   *)
(* synapse.hpp:106), no timestep attention has a column layout, which its  *)
(* runtime reads with a column count that validate leaves alone, and the   *)
(* neurons of the attention are in logical order, as every exporter writes *)
(* them.                                                                   *)
(***************************************************************************)
Incremental == layer.op = "incremental_spike_matmul"
OperandFits(w) ==
    /\ w.sources <= OperandSize(layer, w.operand)
    /\ layer.op = "timestep_spike_attention" => w.layout # "row_head_column"
OperandsFit ==
    /\ Loadable
    /\ IsAttention =>
          /\ layer.order = "logical"
          /\ \A k \in DOMAIN cfg.conns :
                cfg.conns[k].type = "attention" => OperandFits(cfg.conns[k])

(* The slots of an operand buffer, the slot of a source, the packets under  *)
(* way to a slot of core p, and the slots the outputs of p depend on.      *)
Slots(b) == 0 .. OperandSize(layer, IF Incremental THEN b ELSE "q") - 1
SlotOf(w, s) == OperandIndex(layer, w.operand, w.layout, s)
Aims(x, p, b, i) ==
    LET w == cfg.conns[x.conn]
    IN  /\ w.type = "attention" /\ x.partition = p
        /\ BufferOf(w.operand) = b /\ SlotOf(w, x.source) = i
Coming(p, b, i) == {x \in flight : Aims(x, p, b, i)}
Needs(p, b, i) ==
    IF Incremental THEN b \in {"lhs", "rhs"} /\ i \in Used(layer, p, b)
    ELSE b \in Buffers /\ i \in Slots(b)

Majors(operand) == IF operand = "rhs" THEN layer.columns ELSE layer.rows
WellShaped ==
    /\ layer.heads \in Nat \ {0} /\ layer.rows \in Nat \ {0} /\ layer.reduction \in Nat \ {0}
    /\ layer.max \in Nat \ {0} /\ layer.order = "logical" /\ layer.neurons \in Nat \ {0}
    /\ Incremental =>
          layer.columns \in Nat \ {0} /\ layer.neurons = (layer.heads * layer.rows) * layer.columns
    /\ ~ Incremental =>
          /\ layer.op = "timestep_spike_attention"
          /\ layer.neurons = (layer.heads * layer.rows) * layer.reduction

LEMMA AttentionShape ==
  ASSUME cfg \in Configurations, OperandsFit, IsAttention
  PROVE  WellShaped
<1>1. /\ layer.op \in {"incremental_spike_matmul", "timestep_spike_attention"}
      /\ layer.heads \in Nat /\ layer.rows \in Nat /\ layer.reduction \in Nat
      /\ layer.columns \in Nat /\ layer.neurons \in Nat /\ layer.max \in Nat \ {0}
  BY ConfigurationAssumption DEF IsAttention, layer
<1>2. LayerValid(layer) /\ layer.order = "logical"
  BY DEF OperandsFit, Loadable
<1>3. layer.neurons # 0
  BY <1>2 DEF LayerValid
<1>4. layer.op = "incremental_spike_matmul" =>
          /\ 0 \notin {layer.heads, layer.rows, layer.reduction, layer.columns}
          /\ layer.neurons = layer.heads * layer.rows * layer.columns
  BY <1>2 DEF LayerValid
<1>5. layer.op = "timestep_spike_attention" =>
          /\ 0 \notin {layer.heads, layer.rows, layer.reduction}
          /\ layer.neurons = layer.heads * layer.rows * layer.reduction
  BY <1>2 DEF LayerValid
<1>6. CASE Incremental
  BY <1>1, <1>2, <1>3, <1>4, <1>6 DEF Incremental, WellShaped
<1>7. CASE ~ Incremental
  BY <1>1, <1>2, <1>3, <1>5, <1>7 DEF Incremental, WellShaped
<1> QED
  BY <1>6, <1>7

(* A connection of the layer whose spikes are packets of operands.         *)
Carries(w) ==
    /\ w.type = "attention"
    /\ w.operand \in IF Incremental THEN {"lhs", "rhs"} ELSE {"q", "k", "v"}
    /\ Incremental =>
          w.layout \in IF w.operand = "lhs" THEN {"row_head_reduction", "head_row_reduction"}
                       ELSE {"row_head_reduction", "row_head_column"}
    /\ ~ Incremental => w.layout # "row_head_column"

(* The entry of head h, row or column m and reduction index k, and the      *)
(* source that is it.                                                      *)
EntryOf(operand, h, m, k) == (h * Majors(operand) + m) * layer.reduction + k
SourceOf(w, h, m, k) ==
    CASE w.layout = "row_head_reduction" -> (m * layer.heads + h) * layer.reduction + k
      [] w.layout = "row_head_column" -> (k * layer.heads + h) * layer.columns + m
      [] OTHER -> (h * Majors(w.operand) + m) * layer.reduction + k
EntryDigits(operand) == Triples(layer.heads, Majors(operand), layer.reduction)

(* The entry and the slot of source s, and its head and major index.       *)
Located(w, s, x) ==
    /\ x \in EntryDigits(w.operand)
    /\ SourceOf(w, x[1], x[2], x[3]) = s
    /\ \A y \in EntryDigits(w.operand) : SourceOf(w, y[1], y[2], y[3]) = s => y = x
    /\ SlotOf(w, s) = EntryOf(w.operand, x[1], x[2], x[3])
    /\ Incremental => HeadMajor(layer, w, s) = <<x[1], x[2]>>

LEMMA LocatedRows ==
  ASSUME WellShaped, NEW w, Carries(w), w.layout = "row_head_reduction",
         NEW s \in 0 .. OperandSize(layer, w.operand) - 1
  PROVE  \E x : Located(w, s, x)
<1> DEFINE H == layer.heads
           M == Majors(w.operand)
           K == layer.reduction
<1>1. H \in Nat \ {0} /\ M \in Nat \ {0} /\ K \in Nat \ {0}
  BY DEF WellShaped, Majors, Carries
<1>2. OperandSize(layer, w.operand) = H * K * M
  BY DEF OperandSize, Majors
<1>3. /\ \A h, m, k : SourceOf(w, h, m, k) = Index(M, H, K, <<m, h, k>>)
      /\ \A h, m, k : EntryOf(w.operand, h, m, k) = Index(H, M, K, <<h, m, k>>)
      /\ EntryDigits(w.operand) = Triples(H, M, K)
  BY DEF SourceOf, EntryOf, Index, EntryDigits
<1>4. /\ SlotOf(w, s) = (((s % (H * K)) \div K) * M + s \div (H * K)) * K + ((s % (H * K)) % K)
      /\ Incremental => HeadMajor(layer, w, s) = <<(s \div K) % H, s \div (H * K)>>
  BY DEF SlotOf, OperandIndex, HeadMajor, Majors
<1> HIDE DEF H, M, K
<1>5. s \in 0 .. (M * H) * K - 1
  <2>1. H * K * M = (M * H) * K
    BY <1>1
  <2> QED
    BY <1>2, <2>1
<1>6. PICK y \in Triples(M, H, K) : Index(M, H, K, y) = s
  <2>1. M \in Nat \ {0} /\ H \in Nat \ {0} /\ K \in Nat \ {0}
    BY <1>1
  <2>2. HasDigits(M, H, K, s)
    BY Zenon, <2>1, <1>5, DigitsOf
  <2> QED
    BY Zenon, <2>2 DEF HasDigits
<1>7. PICK m \in 0 .. M - 1, h \in 0 .. H - 1, k \in 0 .. K - 1 : y = <<m, h, k>>
  BY DEF Triples
<1>8. Decoded(M, H, K, s, m, h, k)
  <2>1. s = Index(M, H, K, <<m, h, k>>)
    BY <1>6, <1>7
  <2> QED
    BY Zenon, <1>1, <2>1, ThreeDigits
<1> DEFINE x == <<h, m, k>>
<1>9. x \in EntryDigits(w.operand) /\ x[1] = h /\ x[2] = m /\ x[3] = k
  BY <1>3 DEF Triples
<1>10. SourceOf(w, h, m, k) = s
  BY <1>3, <1>6, <1>7
<1>11. ASSUME NEW z \in EntryDigits(w.operand), SourceOf(w, z[1], z[2], z[3]) = s
       PROVE  z = x
  <2>1. PICK a \in 0 .. H - 1, b \in 0 .. M - 1, c \in 0 .. K - 1 : z = <<a, b, c>>
    BY <1>3 DEF Triples
  <2>2. <<b, a, c>> \in Triples(M, H, K) /\ Index(M, H, K, <<b, a, c>>) = s
    <3>1. Index(M, H, K, <<b, a, c>>) = s
      <4>1. z[1] = a /\ z[2] = b /\ z[3] = c
        BY <2>1
      <4>2. SourceOf(w, a, b, c) = s
        BY Zenon, <1>11, <4>1
      <4>3. SourceOf(w, a, b, c) = Index(M, H, K, <<b, a, c>>)
        BY <1>3
      <4> QED
        BY Zenon, <4>2, <4>3
    <3> QED
      BY <3>1 DEF Triples
  <2>3. <<b, a, c>> = <<m, h, k>>
    BY Zenon, <1>1, <1>6, <1>7, <2>2, DigitsUnique
  <2> QED
    BY <2>1, <2>3
<1>12. SlotOf(w, s) = EntryOf(w.operand, h, m, k)
  <2>1. EntryOf(w.operand, h, m, k) = (h * M + m) * K + k
    BY <1>3 DEF Index
  <2>2. s % (H * K) = h * K + k /\ s \div (H * K) = m
        /\ (h * K + k) \div K = h /\ (h * K + k) % K = k
    BY <1>8 DEF Decoded
  <2> QED
    BY Zenon, <1>4, <2>1, <2>2
<1>13. Incremental => HeadMajor(layer, w, s) = <<h, m>>
  BY Zenon, <1>4, <1>8 DEF Decoded
<1> HIDE DEF x
<1>14. Located(w, s, x)
  BY Zenon, <1>9, <1>10, <1>11, <1>12, <1>13 DEF Located
<1> QED
  BY <1>14

LEMMA LocatedColumns ==
  ASSUME WellShaped, NEW w, Carries(w), w.layout = "row_head_column",
         NEW s \in 0 .. OperandSize(layer, w.operand) - 1
  PROVE  \E x : Located(w, s, x)
<1> DEFINE H == layer.heads
           M == Majors(w.operand)
           K == layer.reduction
<1>1. H \in Nat \ {0} /\ M \in Nat \ {0} /\ K \in Nat \ {0}
      /\ M = layer.columns
  BY DEF WellShaped, Majors, Carries
<1>2. OperandSize(layer, w.operand) = H * K * M
  BY DEF OperandSize, Majors
<1>3. /\ \A h, m, k : SourceOf(w, h, m, k) = Index(K, H, M, <<k, h, m>>)
      /\ \A h, m, k : EntryOf(w.operand, h, m, k) = Index(H, M, K, <<h, m, k>>)
      /\ EntryDigits(w.operand) = Triples(H, M, K)
  BY <1>1 DEF SourceOf, EntryOf, Index, EntryDigits
<1>4. /\ SlotOf(w, s) = (s % (H * M)) * K + s \div (H * M)
      /\ Incremental => HeadMajor(layer, w, s) = <<(s \div M) % H, s % M>>
  BY <1>1 DEF SlotOf, OperandIndex, HeadMajor, Majors
<1> HIDE DEF H, M, K
<1>5. s \in 0 .. (K * H) * M - 1
  <2>1. H * K * M = (K * H) * M
    BY <1>1
  <2> QED
    BY <1>2, <2>1
<1>6. PICK y \in Triples(K, H, M) : Index(K, H, M, y) = s
  <2>1. M \in Nat \ {0} /\ H \in Nat \ {0} /\ K \in Nat \ {0}
    BY <1>1
  <2>2. HasDigits(K, H, M, s)
    BY Zenon, <2>1, <1>5, DigitsOf
  <2> QED
    BY Zenon, <2>2 DEF HasDigits
<1>7. PICK k \in 0 .. K - 1, h \in 0 .. H - 1, m \in 0 .. M - 1 : y = <<k, h, m>>
  BY DEF Triples
<1>8. Decoded(K, H, M, s, k, h, m)
  <2>1. s = Index(K, H, M, <<k, h, m>>)
    BY <1>6, <1>7
  <2> QED
    BY Zenon, <1>1, <2>1, ThreeDigits
<1> DEFINE x == <<h, m, k>>
<1>9. x \in EntryDigits(w.operand) /\ x[1] = h /\ x[2] = m /\ x[3] = k
  BY <1>3 DEF Triples
<1>10. SourceOf(w, h, m, k) = s
  BY <1>3, <1>6, <1>7
<1>11. ASSUME NEW z \in EntryDigits(w.operand), SourceOf(w, z[1], z[2], z[3]) = s
       PROVE  z = x
  <2>1. PICK a \in 0 .. H - 1, b \in 0 .. M - 1, c \in 0 .. K - 1 : z = <<a, b, c>>
    BY <1>3 DEF Triples
  <2>2. <<c, a, b>> \in Triples(K, H, M) /\ Index(K, H, M, <<c, a, b>>) = s
    <3>1. Index(K, H, M, <<c, a, b>>) = s
      <4>1. z[1] = a /\ z[2] = b /\ z[3] = c
        BY <2>1
      <4>2. SourceOf(w, a, b, c) = s
        BY Zenon, <1>11, <4>1
      <4>3. SourceOf(w, a, b, c) = Index(K, H, M, <<c, a, b>>)
        BY <1>3
      <4> QED
        BY Zenon, <4>2, <4>3
    <3> QED
      BY <3>1 DEF Triples
  <2>3. <<c, a, b>> = <<k, h, m>>
    BY Zenon, <1>1, <1>6, <1>7, <2>2, DigitsUnique
  <2> QED
    BY <2>1, <2>3
<1>12. SlotOf(w, s) = EntryOf(w.operand, h, m, k)
  <2>1. EntryOf(w.operand, h, m, k) = (h * M + m) * K + k
    BY <1>3 DEF Index
  <2>2. s % (H * M) = h * M + m /\ s \div (H * M) = k
    BY <1>8 DEF Decoded
  <2> QED
    BY Zenon, <1>4, <2>1, <2>2
<1>13. Incremental => HeadMajor(layer, w, s) = <<h, m>>
  BY Zenon, <1>4, <1>8 DEF Decoded
<1> HIDE DEF x
<1>14. Located(w, s, x)
  BY Zenon, <1>9, <1>10, <1>11, <1>12, <1>13 DEF Located
<1> QED
  BY <1>14
LEMMA LocatedRest ==
  ASSUME WellShaped, NEW w, Carries(w), w.layout \notin {"row_head_reduction", "row_head_column"},
         NEW s \in 0 .. OperandSize(layer, w.operand) - 1
  PROVE  \E x : Located(w, s, x)
<1> DEFINE H == layer.heads
           M == Majors(w.operand)
           K == layer.reduction
<1>1. H \in Nat \ {0} /\ M \in Nat \ {0} /\ K \in Nat \ {0}
  BY DEF WellShaped, Majors, Carries
<1>2. OperandSize(layer, w.operand) = H * K * M
  BY DEF OperandSize, Majors
<1>3. /\ \A h, m, k : SourceOf(w, h, m, k) = Index(H, M, K, <<h, m, k>>)
      /\ \A h, m, k : EntryOf(w.operand, h, m, k) = Index(H, M, K, <<h, m, k>>)
      /\ EntryDigits(w.operand) = Triples(H, M, K)
  BY DEF SourceOf, EntryOf, Index, EntryDigits
<1>4. /\ SlotOf(w, s) = s
      /\ Incremental => HeadMajor(layer, w, s) = <<s \div (M * K), (s \div K) % M>>
  <2>1. SlotOf(w, s) = s
    BY DEF SlotOf, OperandIndex
  <2>2. ASSUME Incremental
        PROVE  HeadMajor(layer, w, s) = <<s \div (M * K), (s \div K) % M>>
    <3>1. w.layout = "head_row_reduction" /\ w.operand = "lhs" /\ M = layer.rows
      BY <2>2 DEF Carries, Majors
    <3> HIDE DEF M
    <3> QED
      BY <3>1 DEF HeadMajor
  <2> QED
    BY <2>1, <2>2
<1> HIDE DEF H, M, K
<1>5. s \in 0 .. (H * M) * K - 1
  <2>1. H * K * M = (H * M) * K
    BY <1>1
  <2> QED
    BY <1>2, <2>1
<1>6. PICK y \in Triples(H, M, K) : Index(H, M, K, y) = s
  <2>1. M \in Nat \ {0} /\ H \in Nat \ {0} /\ K \in Nat \ {0}
    BY <1>1
  <2>2. HasDigits(H, M, K, s)
    BY Zenon, <2>1, <1>5, DigitsOf
  <2> QED
    BY Zenon, <2>2 DEF HasDigits
<1>7. PICK h \in 0 .. H - 1, m \in 0 .. M - 1, k \in 0 .. K - 1 : y = <<h, m, k>>
  BY DEF Triples
<1>8. Decoded(H, M, K, s, h, m, k)
  <2>1. s = Index(H, M, K, <<h, m, k>>)
    BY <1>6, <1>7
  <2> QED
    BY Zenon, <1>1, <2>1, ThreeDigits
<1> DEFINE x == <<h, m, k>>
<1>9. x \in EntryDigits(w.operand) /\ x[1] = h /\ x[2] = m /\ x[3] = k
  BY <1>3 DEF Triples
<1>10. SourceOf(w, h, m, k) = s
  BY <1>3, <1>6, <1>7
<1>11. ASSUME NEW z \in EntryDigits(w.operand), SourceOf(w, z[1], z[2], z[3]) = s
       PROVE  z = x
  <2>1. PICK a \in 0 .. H - 1, b \in 0 .. M - 1, c \in 0 .. K - 1 : z = <<a, b, c>>
    BY <1>3 DEF Triples
  <2>2. <<a, b, c>> \in Triples(H, M, K) /\ Index(H, M, K, <<a, b, c>>) = s
    <3>1. Index(H, M, K, <<a, b, c>>) = s
      <4>1. z[1] = a /\ z[2] = b /\ z[3] = c
        BY <2>1
      <4>2. SourceOf(w, a, b, c) = s
        BY Zenon, <1>11, <4>1
      <4>3. SourceOf(w, a, b, c) = Index(H, M, K, <<a, b, c>>)
        BY <1>3
      <4> QED
        BY Zenon, <4>2, <4>3
    <3> QED
      BY <3>1 DEF Triples
  <2>3. <<a, b, c>> = <<h, m, k>>
    BY Zenon, <1>1, <1>6, <1>7, <2>2, DigitsUnique
  <2> QED
    BY <2>1, <2>3
<1>12. SlotOf(w, s) = EntryOf(w.operand, h, m, k)
  <2>1. EntryOf(w.operand, h, m, k) = (h * M + m) * K + k
    BY <1>3 DEF Index
  <2>2. s = (h * M + m) * K + k
    BY <1>6, <1>7, <1>9, <1>3 DEF Index
  <2> QED
    BY Zenon, <1>4, <2>1, <2>2
<1>13. Incremental => HeadMajor(layer, w, s) = <<h, m>>
  BY Zenon, <1>4, <1>8 DEF Decoded
<1> HIDE DEF x
<1>14. Located(w, s, x)
  BY Zenon, <1>9, <1>10, <1>11, <1>12, <1>13 DEF Located
<1> QED
  BY <1>14

(* Every source has one place in the tensor.                               *)
LEMMA Places ==
  ASSUME WellShaped, NEW w, Carries(w), NEW s \in 0 .. OperandSize(layer, w.operand) - 1
  PROVE  \E x : Located(w, s, x)
<1>1. CASE w.layout = "row_head_reduction"
  BY Zenon, <1>1, LocatedRows
<1>2. CASE w.layout = "row_head_column"
  BY Zenon, <1>2, LocatedColumns
<1>3. CASE w.layout \notin {"row_head_reduction", "row_head_column"}
  BY Zenon, <1>3, LocatedRest
<1> QED
  BY <1>1, <1>2, <1>3

(* Core::receive puts a source in the slot of its entry of the tensor.     *)
LEMMA EntryIsSlot ==
  ASSUME WellShaped, NEW w, Carries(w), NEW s \in 0 .. OperandSize(layer, w.operand) - 1
  PROVE  /\ Entry(w, s) = SlotOf(w, s)
         /\ BufferOf(w.operand) \in Buffers /\ SlotOf(w, s) \in Slots(BufferOf(w.operand))
<1>1. PICK x : Located(w, s, x)
  BY Zenon, Places
<1> DEFINE S == EntryDigits(w.operand)
           at == CHOOSE y \in S : SourceOf(w, y[1], y[2], y[3]) = s
<1>2. Entry(w, s) = EntryOf(w.operand, at[1], at[2], at[3])
  BY DEF Entry, EntryOf, Majors, SourceOf, EntryDigits, Triples, Reduction
<1>3. at = x
  <2>1. at \in S /\ SourceOf(w, at[1], at[2], at[3]) = s
    BY Zenon, <1>1 DEF Located
  <2> QED
    BY Zenon, <1>1, <2>1 DEF Located
<1>4. Entry(w, s) = SlotOf(w, s)
  BY Zenon, <1>1, <1>2, <1>3 DEF Located
<1> HIDE DEF at, S
<1>5. BufferOf(w.operand) \in Buffers
  BY DEF BufferOf, Buffers, Carries
<1> DEFINE H == layer.heads
           M == Majors(w.operand)
           K == layer.reduction
<1>6. /\ H \in Nat \ {0} /\ M \in Nat \ {0} /\ K \in Nat \ {0}
      /\ Slots(BufferOf(w.operand)) = 0 .. H * K * M - 1
  <2>1. H \in Nat \ {0} /\ M \in Nat \ {0} /\ K \in Nat \ {0}
    BY DEF WellShaped, Majors, Carries
  <2>2. CASE Incremental
    <3>1. BufferOf(w.operand) = w.operand
      BY <2>2 DEF Carries, BufferOf
    <3> QED
      BY <2>1, <2>2, <3>1 DEF Slots, OperandSize, Majors
  <2>3. CASE ~ Incremental
    <3>1. w.operand # "rhs" /\ M = layer.rows
      BY <2>3 DEF Carries, Majors
    <3> QED
      BY <2>1, <2>3, <3>1 DEF Slots, OperandSize
  <2> QED
    BY <2>1, <2>2, <2>3
<1>7. PICK h \in 0 .. H - 1, m \in 0 .. M - 1, k \in 0 .. K - 1 : x = <<h, m, k>>
  BY <1>1 DEF Located, EntryDigits, Triples
<1>8. SlotOf(w, s) = Index(H, M, K, <<h, m, k>>)
  <2>1. x[1] = h /\ x[2] = m /\ x[3] = k
    BY <1>7
  <2>2. SlotOf(w, s) = EntryOf(w.operand, h, m, k)
    BY Zenon, <1>1, <2>1 DEF Located
  <2> QED
    BY <2>2 DEF EntryOf, Index
<1> HIDE DEF H, M, K
<1>9. Decoded(H, M, K, SlotOf(w, s), h, m, k)
  BY Zenon, <1>6, <1>8, ThreeDigits
<1>10. SlotOf(w, s) \in 0 .. (H * M) * K - 1
  BY Zenon, <1>9 DEF Decoded
<1>11. (H * M) * K = H * K * M
  BY <1>6
<1> QED
  BY <1>4, <1>5, <1>6, <1>10, <1>11

(***************************************************************************)
(* The outputs and the cores.                                              *)
(***************************************************************************)
LEMMA OutputDigits ==
  ASSUME WellShaped, Incremental, NEW g \in Logical
  PROVE  /\ HeadOf(layer, g) \in 0 .. layer.heads - 1
         /\ RowOf(layer, g) \in 0 .. layer.rows - 1
         /\ g % layer.columns \in 0 .. layer.columns - 1
         /\ g = OutputIndex(layer, HeadOf(layer, g), RowOf(layer, g), g % layer.columns)
<1> DEFINE H == layer.heads
           R == layer.rows
           C == layer.columns
<1>1. H \in Nat \ {0} /\ R \in Nat \ {0} /\ C \in Nat \ {0} /\ g \in 0 .. (H * R) * C - 1
  BY DEF WellShaped, Logical
<1>2. CASE layer.output = "row_head_column"
  <2>1. /\ HeadOf(layer, g) = (g \div C) % H /\ RowOf(layer, g) = g \div (H * C)
        /\ \A h, r, c : OutputIndex(layer, h, r, c) = Index(R, H, C, <<r, h, c>>)
    BY <1>2 DEF HeadOf, RowOf, OutputIndex, Index
  <2> HIDE DEF H, R, C
  <2>2. g \in 0 .. (R * H) * C - 1
    <3>1. (H * R) * C = (R * H) * C
      BY <1>1
    <3> QED
      BY <1>1, <3>1
  <2>3. HasDigits(R, H, C, g)
    BY Zenon, <1>1, <2>2, DigitsOf
  <2>4. PICK r \in 0 .. R - 1, h \in 0 .. H - 1, c \in 0 .. C - 1 : Index(R, H, C, <<r, h, c>>) = g
    BY <2>3 DEF HasDigits, Triples
  <2>5. Decoded(R, H, C, g, r, h, c)
    BY Zenon, <1>1, <2>4, ThreeDigits
  <2>6. HeadOf(layer, g) = h /\ RowOf(layer, g) = r /\ g % C = c
    BY Zenon, <2>1, <2>5 DEF Decoded
  <2>7. g = OutputIndex(layer, h, r, c)
    BY Zenon, <2>1, <2>4
  <2> QED
    BY <2>4, <2>6, <2>7 DEF H, R, C
<1>3. CASE layer.output # "row_head_column"
  <2>1. /\ HeadOf(layer, g) = g \div (R * C) /\ RowOf(layer, g) = (g % (R * C)) \div C
        /\ \A h, r, c : OutputIndex(layer, h, r, c) = Index(H, R, C, <<h, r, c>>)
    BY <1>3 DEF HeadOf, RowOf, OutputIndex, Index
  <2> HIDE DEF H, R, C
  <2>3. HasDigits(H, R, C, g)
    BY Zenon, <1>1, DigitsOf
  <2>4. PICK h \in 0 .. H - 1, r \in 0 .. R - 1, c \in 0 .. C - 1 : Index(H, R, C, <<h, r, c>>) = g
    BY <2>3 DEF HasDigits, Triples
  <2>5. Decoded(H, R, C, g, h, r, c)
    BY Zenon, <1>1, <2>4, ThreeDigits
  <2>6. HeadOf(layer, g) = h /\ RowOf(layer, g) = r /\ g % C = c
    <3>1. g \div (R * C) = h /\ g % (R * C) = r * C + c /\ (r * C + c) \div C = r /\ g % C = c
      BY Zenon, <2>5 DEF Decoded
    <3> QED
      BY Zenon, <2>1, <3>1
  <2>7. g = OutputIndex(layer, h, r, c)
    BY Zenon, <2>1, <2>4
  <2> QED
    BY <2>4, <2>6, <2>7 DEF H, R, C
<1> QED
  BY <1>2, <1>3

(* Core p has the neurons whose quotient by the core size is p.            *)
Cut == layer.max \in Nat \ {0} /\ layer.neurons \in Nat \ {0}

LEMMA OnCore ==
  ASSUME Cut, NEW p \in Cores, NEW g \in Neurons(layer, p)
  PROVE  g \in Logical /\ g \div layer.max = p
<1> DEFINE b == layer.max
           N == layer.neurons
           base == p * b
           r == g - base
<1>1. b \in Nat \ {0} /\ N \in Nat /\ p \in Nat
  BY DEF Cut, Cores, Partitions
<1>2. g \in base .. (base + Least(b, N - base)) - 1
  BY DEF Neurons, Begin, End
<1>3. base \in Nat
  BY <1>1
<1> HIDE DEF b, N
<1>4. /\ g \in Nat /\ g < N /\ r \in 0 .. b - 1 /\ g = base + r
  <2> HIDE DEF base
  <2>1. g \in Int /\ base <= g /\ g < base + Least(b, N - base)
    BY <1>1, <1>2, <1>3 DEF Least
  <2>2. Least(b, N - base) <= b /\ Least(b, N - base) <= N - base /\ Least(b, N - base) \in Int
    BY <1>1, <1>3 DEF Least
  <2> QED
    BY <1>1, <1>3, <2>1, <2>2
<1> HIDE DEF r
<1>5. g \div b = p
  BY <1>1, <1>4, DivUnique
<1> QED
  BY <1>1, <1>4, <1>5 DEF b, N, Logical

LEMMA HasCore ==
  ASSUME Cut, NEW g \in Logical
  PROVE  g \div layer.max \in Cores /\ g \in Neurons(layer, g \div layer.max)
<1> DEFINE b == layer.max
           N == layer.neurons
           q == g \div b
           r == g % b
           top == N + b - 1
           Q == top \div b
           R == top % b
<1>1. b \in Nat \ {0} /\ N \in Nat \ {0} /\ g \in Nat /\ g < N
  BY DEF Cut, Logical
<1>2. Cores = 0 .. Q - 1
  BY DEF Cores, Partitions, Ceil
<1>3. Neurons(layer, q) = q * b .. (q * b + Least(b, N - q * b)) - 1
  BY DEF Neurons, Begin, End
<1> HIDE DEF b, N
<1>4. q \in Nat /\ r \in 0 .. b - 1 /\ g = q * b + r
  BY <1>1, DivMod
<1>5. top \in Nat
  BY <1>1
<1>6. Q \in Nat /\ R \in 0 .. b - 1 /\ top = Q * b + R
  <2> HIDE DEF top
  <2> QED
    BY <1>1, <1>5, DivMod
<1> HIDE DEF q, r, Q, R
<1>7. q * b \in Nat /\ Q * b \in Nat
  BY <1>1, <1>4, <1>6
<1>8. q < Q
  <2> SUFFICES ASSUME ~(q < Q) PROVE FALSE
    OBVIOUS
  <2>1. Q * b <= q * b
    <3>1. CASE Q = q
      BY <1>7, <3>1
    <3>2. CASE Q < q
      <4>1. Q * b + b <= q * b
        BY <1>1, <1>4, <1>6, <3>2, ProductBelow
      <4> QED
        BY <1>1, <1>7, <4>1
    <3> QED
      BY <1>4, <1>6, <3>1, <3>2
  <2> DEFINE x == q * b
             y == Q * b
  <2>2. x \in Nat /\ y \in Nat /\ y <= x /\ g = x + r /\ N + b - 1 = y + R
    BY <1>4, <1>6, <1>7, <2>1 DEF top
  <2> HIDE DEF x, y
  <2> QED
    BY <1>1, <1>4, <1>6, <2>2
<1>9. q \in Cores
  BY <1>2, <1>4, <1>6, <1>8
<1>10. g \in Neurons(layer, q)
  <2> DEFINE x == q * b
  <2>1. x \in Nat /\ g = x + r
    BY <1>4, <1>7
  <2>2. Neurons(layer, q) = x .. (x + Least(b, N - x)) - 1
    BY <1>3
  <2> HIDE DEF x
  <2> QED
    BY <1>1, <1>4, <2>1, <2>2 DEF Least
<1> QED
  BY <1>9, <1>10 DEF q, b

LEMMA NeuronsOf ==
  ASSUME WellShaped, NEW p \in Cores, NEW g \in Neurons(layer, p)
  PROVE  g \in Logical /\ g \div layer.max = p
<1>1. Cut
  BY DEF WellShaped, Cut
<1> QED
  BY <1>1, OnCore

LEMMA OwnCore ==
  ASSUME WellShaped, NEW g \in Logical
  PROVE  g \div layer.max \in Cores /\ g \in Neurons(layer, g \div layer.max)
<1>1. Cut
  BY DEF WellShaped, Cut
<1> QED
  BY <1>1, HasCore

(* A core is sent every operand spike that one of its outputs depends on   *)
(* (for_each_destination_partition).                                       *)
LEMMA NeededIsSent ==
  ASSUME WellShaped, NEW w, Carries(w), NEW s \in 0 .. OperandSize(layer, w.operand) - 1,
         NEW p \in Cores, Needs(p, BufferOf(w.operand), SlotOf(w, s))
  PROVE  p \in Destinations(layer, w, s)
<1>1. Destinations(layer, w, s) = OperandPartitions(layer, w, s)
  BY DEF Destinations, Carries
<1>2. CASE ~ Incremental
  BY <1>1, <1>2 DEF OperandPartitions, WellShaped, Cores
<1>3. CASE Incremental
  <2> DEFINE H == layer.heads
             M == Majors(w.operand)
             K == layer.reduction
  <2>1. H \in Nat \ {0} /\ M \in Nat \ {0} /\ K \in Nat \ {0}
    BY DEF WellShaped, Majors, Carries
  <2>2. BufferOf(w.operand) = w.operand /\ w.operand \in {"lhs", "rhs"}
    BY <1>3 DEF Carries, BufferOf
  <2>3. PICK x : Located(w, s, x)
    BY Zenon, Places
  <2>4. PICK h \in 0 .. H - 1, m \in 0 .. M - 1, k \in 0 .. K - 1 : x = <<h, m, k>>
    BY <2>3 DEF Located, EntryDigits, Triples
  <2>5. SlotOf(w, s) = Index(H, M, K, <<h, m, k>>) /\ HeadMajor(layer, w, s) = <<h, m>>
    <3>1. x[1] = h /\ x[2] = m /\ x[3] = k
      BY <2>4
    <3>2. SlotOf(w, s) = EntryOf(w.operand, h, m, k) /\ HeadMajor(layer, w, s) = <<h, m>>
      BY Zenon, <1>3, <2>3, <3>1 DEF Located
    <3> QED
      BY <3>2 DEF EntryOf, Index
  <2>6. PICK g \in Neurons(layer, p), j \in Reduction(layer) :
            SlotOf(w, s) = IF w.operand = "lhs" THEN LhsAt(layer, g, j) ELSE RhsAt(layer, g, j)
    <3>1. SlotOf(w, s) \in Used(layer, p, w.operand)
      BY <1>3, <2>2 DEF Needs
    <3> QED
      BY <3>1 DEF Used
  <2>7. g \in Logical /\ g \div layer.max = p
    BY NeuronsOf
  <2> DEFINE major == IF w.operand = "lhs" THEN RowOf(layer, g) ELSE g % layer.columns
  <2>8. /\ HeadOf(layer, g) \in 0 .. H - 1 /\ major \in 0 .. M - 1 /\ j \in 0 .. K - 1
        /\ RowOf(layer, g) \in 0 .. layer.rows - 1
        /\ g % layer.columns \in 0 .. layer.columns - 1
        /\ g = OutputIndex(layer, HeadOf(layer, g), RowOf(layer, g), g % layer.columns)
    BY <1>3, <2>2, <2>7, OutputDigits DEF Majors, Reduction
  <2>9. SlotOf(w, s) = Index(H, M, K, <<HeadOf(layer, g), major, j>>)
    BY <2>2, <2>6 DEF LhsAt, RhsAt, Index, Majors
  <2>10. HeadOf(layer, g) = h /\ major = m
    <3> HIDE DEF H, M, K, major
    <3>1. PICK e : e = HeadOf(layer, g)
      OBVIOUS
    <3>2. <<e, major, j>> \in Triples(H, M, K) /\ <<h, m, k>> \in Triples(H, M, K)
      BY <2>8, <3>1 DEF Triples
    <3>3. Index(H, M, K, <<e, major, j>>) = Index(H, M, K, <<h, m, k>>)
      BY Zenon, <2>5, <2>9, <3>1
    <3>4. <<e, major, j>> = <<h, m, k>>
      BY Zenon, <2>1, <3>2, <3>3, DigitsUnique
    <3> QED
      BY <3>1, <3>4
  <2>11. Partition(layer, g) = p
    BY <2>7 DEF Partition, physical_neuron_index, WellShaped
  <2>12. OperandPartitions(layer, w, s) =
           IF w.operand = "lhs"
           THEN Touched(layer, {OutputIndex(layer, h, m, c) : c \in 0 .. layer.columns - 1})
           ELSE Touched(layer, {OutputIndex(layer, h, r, m) : r \in 0 .. layer.rows - 1})
    BY <1>3, <2>5 DEF OperandPartitions, Incremental
  <2>13. CASE w.operand = "lhs"
    <3>1. g \in {OutputIndex(layer, h, m, c) : c \in 0 .. layer.columns - 1}
      BY Zenon, <2>8, <2>10, <2>13
    <3> QED
      BY Zenon, <1>1, <2>11, <2>12, <2>13, <3>1 DEF Touched
  <2>14. CASE w.operand # "lhs"
    <3>1. g \in {OutputIndex(layer, h, r, m) : r \in 0 .. layer.rows - 1}
      BY Zenon, <2>8, <2>10, <2>14
    <3> QED
      BY Zenon, <1>1, <2>11, <2>12, <2>14, <3>1 DEF Touched
  <2> QED
    BY <2>13, <2>14
<1> QED
  BY <1>2, <1>3

(***************************************************************************)
(* The products.                                                           *)
(***************************************************************************)
Tensors(t) ==
    /\ t = [b \in Buffers |-> t[b]]
    /\ \A b \in Buffers : t[b] \in [Slots(b) -> Int]

Accumulated(g) ==
    MapThenSumSet(LAMBDA k :
        owed.total.lhs[LhsAt(layer, g, k)] * owed.total.rhs[RhsAt(layer, g, k)],
        Reduction(layer))

LEMMA ReductionFinite ==
  ASSUME WellShaped
  PROVE  IsFiniteSet(Reduction(layer))
BY FS_Interval DEF WellShaped, Reduction

LEMMA OutputSlots ==
  ASSUME WellShaped, Incremental, NEW g \in Logical, NEW k \in Reduction(layer)
  PROVE  LhsAt(layer, g, k) \in Slots("lhs") /\ RhsAt(layer, g, k) \in Slots("rhs")
<1> DEFINE H == layer.heads
           R == layer.rows
           C == layer.columns
           K == layer.reduction
           h == HeadOf(layer, g)
           r == RowOf(layer, g)
           c == g % C
<1>1. /\ H \in Nat \ {0} /\ R \in Nat \ {0} /\ C \in Nat \ {0} /\ K \in Nat \ {0}
      /\ h \in 0 .. H - 1 /\ r \in 0 .. R - 1 /\ c \in 0 .. C - 1 /\ k \in 0 .. K - 1
  BY OutputDigits DEF WellShaped, Reduction
<1>2. /\ LhsAt(layer, g, k) = Index(H, R, K, <<h, r, k>>)
      /\ RhsAt(layer, g, k) = Index(H, C, K, <<h, c, k>>)
      /\ Slots("lhs") = 0 .. H * K * R - 1 /\ Slots("rhs") = 0 .. H * K * C - 1
  BY DEF LhsAt, RhsAt, Index, Slots, OperandSize
<1> HIDE DEF H, R, C, K, h, r, c
<1>3. Decoded(H, R, K, LhsAt(layer, g, k), h, r, k)
  BY Zenon, <1>1, <1>2, ThreeDigits
<1>4. Decoded(H, C, K, RhsAt(layer, g, k), h, c, k)
  BY Zenon, <1>1, <1>2, ThreeDigits
<1>5. LhsAt(layer, g, k) \in 0 .. (H * R) * K - 1 /\ RhsAt(layer, g, k) \in 0 .. (H * C) * K - 1
  BY Zenon, <1>3, <1>4 DEF Decoded
<1>6. (H * R) * K = H * K * R /\ (H * C) * K = H * K * C
  BY <1>1
<1> QED
  BY <1>2, <1>5, <1>6

(* S_L S_R, its change and (S_L + L)(S_R + R), as sums of functions.       *)
Before(g, k) == owed.total.lhs[LhsAt(layer, g, k)] * owed.total.rhs[RhsAt(layer, g, k)]
Change(s, t, g, k) ==
    LET i == LhsAt(layer, g, k)
        j == RhsAt(layer, g, k)
    IN  s.lhs[i] * t.rhs[j] + t.lhs[i] * s.rhs[j] + t.lhs[i] * t.rhs[j]
After(g, k) ==
    (owed.total.lhs[LhsAt(layer, g, k)] + owed.now.lhs[LhsAt(layer, g, k)]) *
    (owed.total.rhs[RhsAt(layer, g, k)] + owed.now.rhs[RhsAt(layer, g, k)])

LEMMA AccumulatedIsSum ==
  ASSUME NEW g
  PROVE  Accumulated(g)
            = SumFunctionOnSet([k \in Reduction(layer) |-> Before(g, k)], Reduction(layer))
BY ZenonT(80) DEF Accumulated, Before, SumFunctionOnSet, FoldFunctionOnSet,
                  MapThenFoldSet, MapThenSumSet

LEMMA DeltaIsSum ==
  ASSUME NEW s, NEW t, NEW g
  PROVE  DeltaOf(layer, s, t, g)
            = SumFunctionOnSet([k \in Reduction(layer) |-> Change(s, t, g, k)], Reduction(layer))
BY ZenonT(80) DEF DeltaOf, Change, SumFunctionOnSet, FoldFunctionOnSet,
                  MapThenFoldSet, MapThenSumSet

LEMMA ProductIsSum ==
  ASSUME Incremental, NEW g
  PROVE  Product(g) = SumFunctionOnSet([k \in Reduction(layer) |-> After(g, k)], Reduction(layer))
<1>1. IsAttention /\ layer.op = "incremental_spike_matmul"
  BY DEF Incremental, IsAttention
<1> QED
  BY ZenonT(80), <1>1 DEF Product, After, SumFunctionOnSet, FoldFunctionOnSet,
                          MapThenFoldSet, MapThenSumSet

(* Operands that are all 0 change nothing.                                 *)
LEMMA NoChange ==
  ASSUME WellShaped, Incremental, NEW g \in Logical, NEW s, NEW t, Tensors(t),
         \A b \in Buffers : \A i \in Slots(b) : t[b][i] = 0,
         \A k \in Reduction(layer) :
            s.lhs[LhsAt(layer, g, k)] \in Int /\ s.rhs[RhsAt(layer, g, k)] \in Int
  PROVE  DeltaOf(layer, s, t, g) = 0
<1> DEFINE f == [k \in Reduction(layer) |-> Change(s, t, g, k)]
<1>1. ASSUME NEW k \in Reduction(layer)
      PROVE  Change(s, t, g, k) = 0
  <2>1. PICK i \in Slots("lhs"), j \in Slots("rhs") : i = LhsAt(layer, g, k) /\ j = RhsAt(layer, g, k)
    BY Zenon, <1>1, OutputSlots
  <2>2. t.lhs[i] = 0 /\ t.rhs[j] = 0 /\ s.lhs[i] \in Int /\ s.rhs[j] \in Int
    BY <2>1 DEF Buffers
  <2>3. Change(s, t, g, k) = s.lhs[i] * t.rhs[j] + t.lhs[i] * s.rhs[j] + t.lhs[i] * t.rhs[j]
    BY Zenon, <2>1 DEF Change
  <2> QED
    BY <2>2, <2>3
<1>2. \A k \in Reduction(layer) : f[k] = 0
  BY <1>1
<1>3. DeltaOf(layer, s, t, g) = SumFunctionOnSet(f, Reduction(layer))
  BY DeltaIsSum
<1> HIDE DEF f
<1> QED
  BY <1>2, <1>3, ReductionFinite, SumZero

(* Where shadow and operands of a core are the whole tensors, its change    *)
(* is the one of the whole product.                                        *)
LEMMA ProductGrows ==
  ASSUME WellShaped, Incremental, NEW g \in Logical, NEW s, NEW t,
         Tensors(owed.now), Tensors(owed.total),
         \A k \in Reduction(layer) :
            /\ s.lhs[LhsAt(layer, g, k)] = owed.total.lhs[LhsAt(layer, g, k)]
            /\ s.rhs[RhsAt(layer, g, k)] = owed.total.rhs[RhsAt(layer, g, k)]
            /\ t.lhs[LhsAt(layer, g, k)] = owed.now.lhs[LhsAt(layer, g, k)]
            /\ t.rhs[RhsAt(layer, g, k)] = owed.now.rhs[RhsAt(layer, g, k)]
  PROVE  /\ Product(g) = Accumulated(g) + DeltaOf(layer, s, t, g)
         /\ Accumulated(g) \in Int /\ DeltaOf(layer, s, t, g) \in Int
<1> DEFINE S == Reduction(layer)
           f == [k \in S |-> Before(g, k)]
           d == [k \in S |-> Change(s, t, g, k)]
           h == [k \in S |-> After(g, k)]
<1>1. ASSUME NEW k \in S
      PROVE  h[k] = f[k] + d[k] /\ f[k] \in Int /\ d[k] \in Int
  <2>1. PICK i \in Slots("lhs"), j \in Slots("rhs") : i = LhsAt(layer, g, k) /\ j = RhsAt(layer, g, k)
    BY Zenon, <1>1, OutputSlots
  <2> DEFINE a == owed.total.lhs[i]
             b == owed.total.rhs[j]
             c == owed.now.lhs[i]
             e == owed.now.rhs[j]
  <2>2. a \in Int /\ b \in Int /\ c \in Int /\ e \in Int
    BY DEF Tensors, Buffers
  <2>3. f[k] = a * b /\ h[k] = (a + c) * (b + e)
    BY Zenon, <1>1, <2>1 DEF Before, After
  <2>4. d[k] = a * e + c * b + c * e
    BY Zenon, <1>1, <2>1 DEF Change
  <2> HIDE DEF a, b, c, e, f, d, h
  <2> QED
    BY <2>2, <2>3, <2>4
<1>2. /\ Accumulated(g) = SumFunctionOnSet(f, S) /\ DeltaOf(layer, s, t, g) = SumFunctionOnSet(d, S)
      /\ Product(g) = SumFunctionOnSet(h, S)
  BY AccumulatedIsSum, DeltaIsSum, ProductIsSum
<1> HIDE DEF f, d, h
<1>3. IsFiniteSet(S)
  BY ReductionFinite
<1> HIDE DEF S
<1>4. SumFunctionOnSet(h, S) = SumFunctionOnSet(f, S) + SumFunctionOnSet(d, S)
  BY <1>1, <1>3, SumPlus
<1>5. SumFunctionOnSet(f, S) \in Int /\ SumFunctionOnSet(d, S) \in Int
  BY <1>1, <1>3, SumInt
<1> QED
  BY <1>2, <1>4, <1>5

(* Q(K^T V) of one timestep.                                               *)
KeyValue(t, h, c, a) ==
    MapThenSumSet(LAMBDA row :
        t.rhs[(h * layer.rows + row) * layer.reduction + a] *
        t.third[(h * layer.rows + row) * layer.reduction + c], 0 .. layer.rows - 1)

LEMMA KeyValueIsSum ==
  ASSUME NEW t, NEW h, NEW c, NEW a
  PROVE  KeyValue(t, h, c, a) =
           SumFunctionOnSet([row \in 0 .. layer.rows - 1 |->
                t.rhs[(h * layer.rows + row) * layer.reduction + a] *
                t.third[(h * layer.rows + row) * layer.reduction + c]], 0 .. layer.rows - 1)
BY ZenonT(80) DEF KeyValue, SumFunctionOnSet, FoldFunctionOnSet, MapThenFoldSet, MapThenSumSet

Weighted(t, g, a) ==
    LET d == layer.reduction
        h == (g \div d) % layer.heads
        r == g \div (layer.heads * d)
    IN  t.lhs[(h * layer.rows + r) * d + a] * KeyValue(t, h, g % d, a)

LEMMA AttendedIsSum ==
  ASSUME NEW t, NEW g
  PROVE  Attended(layer, t, g)
            = SumFunctionOnSet([a \in Reduction(layer) |-> Weighted(t, g, a)], Reduction(layer))
BY ZenonT(80) DEF Attended, Weighted, KeyValue, SumFunctionOnSet, FoldFunctionOnSet,
                  MapThenFoldSet, MapThenSumSet

(* Output g of a timestep attention: head, row, column, and the slots of    *)
(* the row of a head.                                                      *)
LEMMA AttentionSlots ==
  ASSUME WellShaped, ~ Incremental, NEW b \in Buffers,
         NEW h \in 0 .. layer.heads - 1, NEW r \in 0 .. layer.rows - 1,
         NEW a \in 0 .. layer.reduction - 1
  PROVE  (h * layer.rows + r) * layer.reduction + a \in Slots(b)
<1> DEFINE H == layer.heads
           R == layer.rows
           K == layer.reduction
           s == (h * R + r) * K + a
<1>1. /\ H \in Nat \ {0} /\ R \in Nat \ {0} /\ K \in Nat \ {0}
      /\ h \in 0 .. H - 1 /\ r \in 0 .. R - 1 /\ a \in 0 .. K - 1
  BY DEF WellShaped
<1>2. s = Index(H, R, K, <<h, r, a>>) /\ Slots(b) = 0 .. H * K * R - 1
  BY DEF Index, Slots, OperandSize
<1> HIDE DEF H, R, K, s
<1>3. Decoded(H, R, K, s, h, r, a)
  BY Zenon, <1>1, <1>2, ThreeDigits
<1>4. s \in 0 .. (H * R) * K - 1
  BY Zenon, <1>3 DEF Decoded
<1>5. (H * R) * K = H * K * R
  BY <1>1
<1>6. s \in Slots(b)
  BY <1>2, <1>4, <1>5
<1> QED
  BY <1>6 DEF s, R, K

LEMMA AttentionDigits ==
  ASSUME WellShaped, ~ Incremental, NEW g \in Logical
  PROVE  /\ (g \div layer.reduction) % layer.heads \in 0 .. layer.heads - 1
         /\ g \div (layer.heads * layer.reduction) \in 0 .. layer.rows - 1
         /\ g % layer.reduction \in 0 .. layer.reduction - 1
<1> DEFINE H == layer.heads
           R == layer.rows
           K == layer.reduction
<1>1. H \in Nat \ {0} /\ R \in Nat \ {0} /\ K \in Nat \ {0} /\ g \in 0 .. (H * R) * K - 1
  BY DEF WellShaped, Logical
<1> HIDE DEF H, R, K
<1>2. g \in 0 .. (R * H) * K - 1
  <2>1. (H * R) * K = (R * H) * K
    BY <1>1
  <2> QED
    BY <1>1, <2>1
<1>3. HasDigits(R, H, K, g)
  BY Zenon, <1>1, <1>2, DigitsOf
<1>4. PICK r \in 0 .. R - 1, h \in 0 .. H - 1, a \in 0 .. K - 1 : Index(R, H, K, <<r, h, a>>) = g
  BY <1>3 DEF HasDigits, Triples
<1>5. Decoded(R, H, K, g, r, h, a)
  BY Zenon, <1>1, <1>4, ThreeDigits
<1>6. (g \div K) % H = h /\ g \div (H * K) = r /\ g % K = a
  BY Zenon, <1>5 DEF Decoded
<1> QED
  BY <1>4, <1>6 DEF H, R, K

LEMMA AttendedInt ==
  ASSUME WellShaped, ~ Incremental, NEW g \in Logical, NEW t, Tensors(t)
  PROVE  /\ Attended(layer, t, g) \in Int
         /\ (\A b \in Buffers : \A i \in Slots(b) : t[b][i] = 0) => Attended(layer, t, g) = 0
<1> DEFINE S == Reduction(layer)
           R == 0 .. layer.rows - 1
           h == (g \div layer.reduction) % layer.heads
           r == g \div (layer.heads * layer.reduction)
           c == g % layer.reduction
           at(row, a) == (h * layer.rows + row) * layer.reduction + a
           zero == \A b \in Buffers : \A i \in Slots(b) : t[b][i] = 0
           f == [a \in S |-> Weighted(t, g, a)]
<1>1. h \in 0 .. layer.heads - 1 /\ r \in R /\ c \in 0 .. layer.reduction - 1
  BY AttentionDigits
<1>2. /\ \A row \in R, a \in S, b \in Buffers : at(row, a) \in Slots(b)
      /\ \A row \in R, b \in Buffers : at(row, c) \in Slots(b)
  <2> HIDE DEF h, r, c
  <2> QED
    BY <1>1, AttentionSlots DEF Reduction
<1>3. /\ \A row \in R, a \in S : t.rhs[at(row, a)] \in Int /\ t.lhs[at(row, a)] \in Int
      /\ \A row \in R : t.third[at(row, c)] \in Int
      /\ zero => \A row \in R, a \in S : t.rhs[at(row, a)] = 0 /\ t.lhs[at(row, a)] = 0
  <2> HIDE DEF at, c
  <2> QED
    BY <1>2 DEF Tensors, Buffers
<1>4. IsFiniteSet(S) /\ IsFiniteSet(R)
  BY ReductionFinite, FS_Interval DEF WellShaped
<1>5. ASSUME NEW a \in S
      PROVE  KeyValue(t, h, c, a) \in Int
  <2> DEFINE k == [row \in R |-> t.rhs[at(row, a)] * t.third[at(row, c)]]
  <2>1. KeyValue(t, h, c, a) = SumFunctionOnSet(k, R)
    BY KeyValueIsSum
  <2>2. \A row \in R : k[row] \in Int
    <3> HIDE DEF at, c, R
    <3> QED
      BY <1>3, <1>5
  <2> HIDE DEF k, R
  <2> QED
    BY <1>4, <2>1, <2>2, SumInt
<1>6. ASSUME NEW a \in S
      PROVE  f[a] \in Int /\ (zero => f[a] = 0)
  <2>1. f[a] = t.lhs[at(r, a)] * KeyValue(t, h, c, a)
    BY <1>6 DEF Weighted
  <2>2. t.lhs[at(r, a)] \in Int /\ (zero => t.lhs[at(r, a)] = 0)
    <3> HIDE DEF at, R, r, zero
    <3> QED
      BY <1>1, <1>3, <1>6
  <2>3. KeyValue(t, h, c, a) \in Int
    BY <1>5, <1>6
  <2> HIDE DEF at, f, zero, h, c, r
  <2> QED
    BY <2>1, <2>2, <2>3
<1>7. Attended(layer, t, g) = SumFunctionOnSet(f, S)
  BY AttendedIsSum
<1> HIDE DEF f, S, zero
<1>8. SumFunctionOnSet(f, S) \in Int
  BY <1>4, <1>6, SumInt
<1>9. zero => SumFunctionOnSet(f, S) = 0
  BY <1>4, <1>6, SumZero
<1> QED
  BY <1>7, <1>8, <1>9 DEF zero

(***************************************************************************)
(* The inductive invariant.  What a core holds of an operand and what is   *)
(* under way to it is what the spikes have made of that operand, wherever  *)
(* an output of the core needs it; the shadows are the operands of the     *)
(* earlier steps, and the output is their product.                         *)
(***************************************************************************)
OwedFields == {"input", "touched", "now", "total", "product", "charge"}

FlightOK ==
    /\ sent \in Nat
    /\ \A p, b, i : IsFiniteSet(Coming(p, b, i))
    /\ \A x \in flight :
          /\ x.value \in Int /\ x.spike \in 0 .. sent - 1
          /\ x.conn \in DOMAIN cfg.conns
          /\ x.source \in 0 .. cfg.conns[x.conn].sources - 1
          /\ cfg.conns[x.conn].type = "attention" => Routable(layer, cfg.conns[x.conn])
TensorsOK ==
    /\ operands = [p \in Cores |-> operands[p]] /\ shadow = [p \in Cores |-> shadow[p]]
    /\ \A p \in Cores :
          Tensors(operands[p]) /\ (p \notin attention_pending => operands[p] = NoOperands)
    /\ Tensors(owed.now) /\ Tensors(owed.total)
ShadowIsTotal ==
    \A p \in Cores : \A b \in {"lhs", "rhs"} :
        /\ shadow[p][b] \in [Slots(b) -> Int]
        /\ \A i \in Slots(b) : i \in Used(layer, p, b) => shadow[p][b][i] = owed.total[b][i]
ProductAccumulated == \A g \in Logical : owed.product[g] = Accumulated(g)
OperandsOnTheirWay ==
    \A p \in Cores, b \in Buffers : \A i \in Slots(b) :
        Needs(p, b, i) => operands[p][b][i] + SpikesIn(Coming(p, b, i)) = owed.now[b][i]
AttentionInv ==
    /\ FlightOK /\ TensorsOK /\ OperandsOnTheirWay
    /\ Incremental => ShadowIsTotal /\ ProductAccumulated
StandardInv ==
    /\ attention_pending = {} /\ output = [n \in Logical |-> 0]
    /\ \A x \in flight : x.conn \in DOMAIN cfg.conns /\ cfg.conns[x.conn].type # "attention"
OutputIsProduct ==
    DOMAIN owed = OwedFields /\ output \in [Logical -> Int] /\ owed.product = output
ProductInv ==
    /\ cfg \in Configurations
    /\ OperandsFit =>
          /\ OutputIsProduct
          /\ IF IsAttention THEN phase # "thrown" => AttentionInv ELSE StandardInv

(* All of this but the tensors and the packets is fixed by the             *)
(* configuration.                                                          *)
SameShape ==
    /\ layer' = layer /\ Logical' = Logical /\ Cores' = Cores
    /\ (IsAttention' <=> IsAttention) /\ (Incremental' <=> Incremental)
    /\ (OperandsFit' <=> OperandsFit)
    /\ NoOperands' = NoOperands /\ Reduction(layer)' = Reduction(layer)
    /\ \A b : Slots(b)' = Slots(b)
    /\ \A t : Tensors(t)' <=> Tensors(t)
    /\ \A p, b, i : Needs(p, b, i)' <=> Needs(p, b, i)
    /\ \A w, s : SlotOf(w, s)' = SlotOf(w, s)
    /\ \A w : Routable(layer, w)' <=> Routable(layer, w)
    /\ \A p, b : Used(layer, p, b)' = Used(layer, p, b)
    /\ \A x, p, b, i : Aims(x, p, b, i)' <=> Aims(x, p, b, i)
    /\ \A p, b, i : Coming(p, b, i)' = {x \in flight' : Aims(x, p, b, i)}

LEMMA SameShapes ==
  ASSUME cfg' = cfg
  PROVE  SameShape
<1>1. layer' = layer /\ Logical' = Logical /\ Cores' = Cores /\ (Loadable' <=> Loadable)
  <2>1. layer' = layer /\ Logical' = Logical
    BY DEF layer, Logical
  <2>2. (Loadable' <=> Loadable)
    BY SameConfiguration
  <2> QED
    BY <2>1, <2>2 DEF Cores
<1>2. (IsAttention' <=> IsAttention) /\ (Incremental' <=> Incremental)
  BY <1>1 DEF IsAttention, Incremental
<1>3. (OperandsFit' <=> OperandsFit)
  BY <1>1, <1>2 DEF OperandsFit, OperandFits
<1>4. \A b : Zeros(b)' = Zeros(b)
  BY <1>1 DEF Zeros
<1>5. NoOperands' = NoOperands
  BY <1>1, <1>2, <1>4 DEF NoOperands
<1>6. /\ Reduction(layer)' = Reduction(layer) /\ \A b : Slots(b)' = Slots(b)
      /\ \A w : Routable(layer, w)' <=> Routable(layer, w)
      /\ \A p, b : Used(layer, p, b)' = Used(layer, p, b)
      /\ \A w, s : SlotOf(w, s)' = SlotOf(w, s)
  BY <1>1, <1>2 DEF Slots, SlotOf
<1>7. \A t : Tensors(t)' <=> Tensors(t)
  BY <1>6 DEF Tensors
<1>8. \A p, b, i : Needs(p, b, i)' <=> Needs(p, b, i)
  BY <1>2, <1>6 DEF Needs
<1>9. \A x, p, b, i : Aims(x, p, b, i)' <=> Aims(x, p, b, i)
  BY <1>6 DEF Aims
<1>10. \A p, b, i : Coming(p, b, i)' = {x \in flight' : Aims(x, p, b, i)}
  BY <1>9 DEF Coming
<1> QED
  BY Zenon, <1>1, <1>2, <1>3, <1>5, <1>6, <1>7, <1>8, <1>9, <1>10 DEF SameShape

(* AccumulatedIsSum for a state and the next one.                          *)
AccumulatedAreSums ==
    \A g : Accumulated(g)
              = SumFunctionOnSet([k \in Reduction(layer) |-> Before(g, k)], Reduction(layer))
LEMMA AccumulatedSums ==
  AccumulatedAreSums
BY AccumulatedIsSum DEF AccumulatedAreSums
LEMMA AccumulatedSumsNext ==
  AccumulatedAreSums'
BY AccumulatedSums, PTL

(* The product goes with the operands so far.                              *)
LEMMA SameAccumulated ==
  ASSUME cfg' = cfg, owed'.total = owed.total, NEW g
  PROVE  Accumulated(g)' = Accumulated(g)
<1>1. Reduction(layer)' = Reduction(layer) /\ layer' = layer
  BY SameShapes DEF SameShape
<1>2. \A k : Before(g, k)' = Before(g, k)
  BY <1>1 DEF Before
<1>3. Accumulated(g)'
        = SumFunctionOnSet([k \in Reduction(layer) |-> Before(g, k)'], Reduction(layer))
  BY <1>1, AccumulatedSumsNext DEF AccumulatedAreSums
<1>4. Accumulated(g)
        = SumFunctionOnSet([k \in Reduction(layer) |-> Before(g, k)], Reduction(layer))
  BY AccumulatedSums DEF AccumulatedAreSums
<1> QED
  BY <1>2, <1>3, <1>4

(* An operand connection of a loaded model carries entries of a tensor.     *)
LEMMA Carried ==
  ASSUME cfg \in Configurations, OperandsFit, IsAttention,
         NEW k \in DOMAIN cfg.conns, cfg.conns[k].type = "attention",
         Routable(layer, cfg.conns[k]), NEW s \in 0 .. cfg.conns[k].sources - 1
  PROVE  /\ WellShaped /\ Carries(cfg.conns[k])
         /\ s \in 0 .. OperandSize(layer, cfg.conns[k].operand) - 1
<1> DEFINE w == cfg.conns[k]
<1>1. WellShaped
  BY AttentionShape
<1>2. OperandFits(w) /\ ConnectionValid(layer, w) /\ w.type = "attention" /\ w.sources \in Nat
  BY ConfigurationAssumption DEF OperandsFit, Loadable
<1>3. s \in 0 .. w.sources - 1 /\ Routable(layer, w)
  OBVIOUS
<1> HIDE DEF w
<1>4. w.operand \in CASE layer.op = "incremental_spike_matmul" -> {"lhs", "rhs"}
                      [] layer.op = "timestep_spike_attention" -> {"q", "k", "v"}
                      [] OTHER -> {}
  BY <1>2 DEF ConnectionValid
<1>5. CASE Incremental
  <2>1. w.operand \in {"lhs", "rhs"}
    BY <1>4, <1>5 DEF Incremental
  <2>2. Carries(w)
    BY <1>2, <1>3, <1>5, <2>1 DEF Carries, Routable, Incremental
  <2>3. OperandSize(layer, w.operand) \in Nat
    BY <1>1, <1>5 DEF WellShaped, OperandSize
  <2> QED
    BY <1>1, <1>2, <1>3, <2>2, <2>3 DEF OperandFits, w
<1>6. CASE ~ Incremental
  <2>1. w.operand \in {"q", "k", "v"} /\ layer.op = "timestep_spike_attention"
    BY <1>1, <1>4, <1>6 DEF WellShaped
  <2>2. Carries(w)
    BY <1>2, <1>6, <2>1 DEF Carries, OperandFits
  <2>3. OperandSize(layer, w.operand) \in Nat
    BY <1>1, <2>1 DEF WellShaped, OperandSize
  <2> QED
    BY <1>1, <1>2, <1>3, <2>2, <2>3 DEF OperandFits, w
<1> QED
  BY <1>5, <1>6

(* Steps that move no operand and owe none.                                *)
LEMMA QuietOperands ==
  ASSUME AttentionInv, cfg' = cfg, UNCHANGED <<operands, attention_pending, shadow>>,
         owed'.now = owed.now, owed'.total = owed.total, owed'.product = owed.product,
         FlightOK', \A p, b, i : Coming(p, b, i)' = Coming(p, b, i)
  PROVE  AttentionInv'
<1> USE SameShapes
<1>1. TensorsOK'
  BY DEF AttentionInv, TensorsOK, SameShape
<1>2. OperandsOnTheirWay'
  <2>1. SUFFICES ASSUME NEW p \in Cores, NEW b \in Buffers, NEW i \in Slots(b), Needs(p, b, i)
                 PROVE  operands[p][b][i] + SpikesIn(Coming(p, b, i)) = owed.now[b][i]
    BY DEF OperandsOnTheirWay, SameShape
  <2> QED
    BY <2>1 DEF AttentionInv, OperandsOnTheirWay
<1>3. Incremental' => ShadowIsTotal' /\ ProductAccumulated'
  <2>1. SUFFICES ASSUME Incremental
                 PROVE  ShadowIsTotal' /\ ProductAccumulated'
    BY DEF SameShape
  <2>2. ShadowIsTotal'
    BY <2>1 DEF AttentionInv, ShadowIsTotal, SameShape
  <2>3. \A g : Accumulated(g)' = Accumulated(g)
    BY SameAccumulated
  <2>4. ProductAccumulated'
    BY <2>1, <2>3 DEF AttentionInv, ProductAccumulated, SameShape
  <2> QED
    BY <2>2, <2>4
<1> QED
  BY <1>1, <1>2, <1>3 DEF AttentionInv

LEMMA OweEffect ==
  ASSUME DOMAIN owed = OwedFields, NEW w, NEW s, NEW v
  PROVE  LET o == Owe(w, s, v)
         IN  /\ DOMAIN o = OwedFields /\ o.total = owed.total /\ o.product = owed.product
             /\ o.now = IF w.type # "attention" THEN owed.now
                        ELSE Raised(owed.now, BufferOf(w.operand), Entry(w, s), v)
<1>1. DOMAIN Owe(w, s, v) = OwedFields
  BY Zenon DEF Owe
<1>2. Owe(w, s, v).total = owed.total /\ Owe(w, s, v).product = owed.product
  BY Zenon DEF OwedFields, Owe
<1>3. Owe(w, s, v).now = IF w.type # "attention" THEN owed.now
                         ELSE Raised(owed.now, BufferOf(w.operand), Entry(w, s), v)
  BY Zenon DEF OwedFields, Owe
<1> QED
  BY <1>1, <1>2, <1>3

(* More spikes counted, and no packet of an operand added or lost.          *)
LEMMA FewerPackets ==
  ASSUME FlightOK, cfg' = cfg, sent' \in {sent, sent + 1}, flight' \subseteq flight,
         \A x \in flight \ flight' : cfg.conns[x.conn].type # "attention"
  PROVE  FlightOK' /\ \A p, b, i : Coming(p, b, i)' = Coming(p, b, i)
<1> USE SameShapes
<1>1. \A p, b, i : Coming(p, b, i)' = Coming(p, b, i)
  BY DEF SameShape, Coming, Aims
<1>2. FlightOK'
  <2>1. sent' \in Nat
    BY DEF FlightOK
  <2>2. \A p, b, i : IsFiniteSet(Coming(p, b, i)')
    BY <1>1 DEF FlightOK
  <2>3. ASSUME NEW x \in flight'
        PROVE  /\ x.value \in Int /\ x.spike \in 0 .. sent' - 1
               /\ x.conn \in DOMAIN cfg.conns
               /\ x.source \in 0 .. cfg.conns[x.conn].sources - 1
               /\ cfg.conns[x.conn].type = "attention" => Routable(layer, cfg.conns[x.conn])
    BY <2>3 DEF FlightOK
  <2> QED
    BY <2>1, <2>2, <2>3 DEF FlightOK, SameShape
<1> QED
  BY <1>1, <1>2

LEMMA LoadOperands ==
  ASSUME AttentionInv, Load \/ UNCHANGED vars
  PROVE  AttentionInv'
<1>1. /\ cfg' = cfg /\ sent' = sent /\ flight' = flight /\ owed' = owed
      /\ UNCHANGED <<operands, attention_pending, shadow>>
  BY DEF Load, vars
<1>2. FlightOK' /\ \A p, b, i : Coming(p, b, i)' = Coming(p, b, i)
  BY <1>1, FewerPackets DEF AttentionInv
<1> QED
  BY <1>1, <1>2, QuietOperands

LEMMA LocalStateOperands ==
  ASSUME AttentionInv, DOMAIN owed = OwedFields, LocalState
  PROVE  AttentionInv'
<1>0. PICK k \in DOMAIN cfg.conns : \E s, v :
          cfg.conns[k].type = "local_state_buffer" /\ owed' = Owe(cfg.conns[k], s, v)
  BY DEF LocalState
<1>1. PICK s, v :
          cfg.conns[k].type = "local_state_buffer" /\ owed' = Owe(cfg.conns[k], s, v)
  BY <1>0
<1>2. /\ cfg' = cfg /\ sent' = sent + 1 /\ flight' = flight
      /\ UNCHANGED <<operands, attention_pending, shadow>>
  BY DEF LocalState
<1>3. owed'.now = owed.now /\ owed'.total = owed.total /\ owed'.product = owed.product
  <2> DEFINE w == cfg.conns[k]
  <2>1. w.type # "attention" /\ owed' = Owe(w, s, v)
    BY <1>1
  <2> HIDE DEF w
  <2>2. /\ owed'.total = owed.total /\ owed'.product = owed.product
        /\ owed'.now = IF w.type # "attention" THEN owed.now
                       ELSE Raised(owed.now, BufferOf(w.operand), Entry(w, s), v)
    BY Zenon, <2>1, OweEffect
  <2> QED
    BY <2>1, <2>2
<1>4. FlightOK' /\ \A p, b, i : Coming(p, b, i)' = Coming(p, b, i)
  BY <1>2, FewerPackets DEF AttentionInv
<1> QED
  BY <1>2, <1>3, <1>4, QuietOperands

LEMMA ReceiveUpdatesOperands ==
  ASSUME AttentionInv, ReceiveUpdates
  PROVE  AttentionInv'
<1>1. PICK packet \in flight :
          cfg.conns[packet.conn].type # "attention" /\ flight' = flight \ {packet}
  BY DEF ReceiveUpdates
<1>2. /\ cfg' = cfg /\ sent' = sent /\ owed' = owed
      /\ UNCHANGED <<operands, attention_pending, shadow>>
  BY DEF ReceiveUpdates
<1>3. FlightOK' /\ \A p, b, i : Coming(p, b, i)' = Coming(p, b, i)
  BY <1>1, <1>2, FewerPackets DEF AttentionInv
<1> QED
  BY <1>2, <1>3, QuietOperands

Packet(k, s, v, p) ==
    [conn |-> k, source |-> s, value |-> v, partition |-> p, spike |-> sent]

LEMMA FireEffect ==
  ASSUME Fire, phase' # "thrown"
  PROVE  /\ cfg' = cfg /\ sent' = sent + 1
         /\ UNCHANGED <<operands, attention_pending, shadow, output>>
         /\ \E k \in DOMAIN cfg.conns : \E s \in 0 .. cfg.conns[k].sources - 1, v \in cfg.values :
              /\ cfg.conns[k].type # "local_state_buffer" /\ Routable(layer, cfg.conns[k])
              /\ owed' = Owe(cfg.conns[k], s, v)
              /\ flight' = flight \cup
                    {Packet(k, s, v, p) : p \in Destinations(layer, cfg.conns[k], s)}
BY DEF Fire, Packet

(* A spike of an operand is owed once and sent to every core that needs it. *)
LEMMA FireOperands ==
  ASSUME cfg \in Configurations, OperandsFit, IsAttention, AttentionInv,
         DOMAIN owed = OwedFields, Fire, phase' # "thrown"
  PROVE  AttentionInv'
<1> USE SameShapes
<1>1. cfg' = cfg /\ sent' = sent + 1 /\ UNCHANGED <<operands, attention_pending, shadow>>
  BY FireEffect
<1>2. PICK k \in DOMAIN cfg.conns : \E s \in 0 .. cfg.conns[k].sources - 1, v \in cfg.values :
              /\ cfg.conns[k].type # "local_state_buffer" /\ Routable(layer, cfg.conns[k])
              /\ owed' = Owe(cfg.conns[k], s, v)
              /\ flight' = flight \cup
                    {Packet(k, s, v, p) : p \in Destinations(layer, cfg.conns[k], s)}
  BY Zenon, FireEffect
<1> DEFINE w == cfg.conns[k]
<1>3. PICK s \in 0 .. w.sources - 1, v \in cfg.values :
              /\ Routable(layer, w) /\ owed' = Owe(w, s, v)
              /\ flight' = flight \cup {Packet(k, s, v, p) : p \in Destinations(layer, w, s)}
  BY Zenon, <1>2
<1>4. /\ owed'.total = owed.total /\ owed'.product = owed.product
      /\ owed'.now = IF w.type # "attention" THEN owed.now
                     ELSE Raised(owed.now, BufferOf(w.operand), Entry(w, s), v)
  <2> HIDE DEF w
  <2>1. DOMAIN owed = OwedFields /\ owed' = Owe(w, s, v)
    BY <1>3
  <2> QED
    BY Zenon, <2>1, OweEffect
<1>5. v \in Int /\ sent \in Nat
  BY ConfigurationAssumption DEF AttentionInv, FlightOK
<1>6. \A p : /\ Packet(k, s, v, p).value = v /\ Packet(k, s, v, p).spike = sent
             /\ Packet(k, s, v, p).conn = k /\ Packet(k, s, v, p).source = s
             /\ Packet(k, s, v, p).partition = p
  BY DEF Packet
<1>7. \A p : Packet(k, s, v, p) \notin flight
  BY <1>5, <1>6 DEF AttentionInv, FlightOK
<1>8. \A x \in flight' : x \in flight \/ \E p \in Destinations(layer, w, s) : x = Packet(k, s, v, p)
  BY <1>3
<1>9. \A p, b, i, q : Aims(Packet(k, s, v, q), p, b, i) <=>
          w.type = "attention" /\ q = p /\ BufferOf(w.operand) = b /\ SlotOf(w, s) = i
  BY <1>6 DEF Aims
<1> DEFINE Gains(p, b, i) ==
        /\ w.type = "attention" /\ BufferOf(w.operand) = b /\ SlotOf(w, s) = i
        /\ p \in Destinations(layer, w, s)
<1>10. \A p, b, i : Coming(p, b, i)' = {x \in flight' : Aims(x, p, b, i)}
  BY <1>1 DEF SameShape
<1>11. \A p, b, i : ~ Gains(p, b, i) => Coming(p, b, i)' = Coming(p, b, i)
  <2> TAKE p, b, i
  <2> HAVE ~ Gains(p, b, i)
  <2> HIDE DEF w
  <2> QED
    BY <1>3, <1>8, <1>9, <1>10 DEF Coming
<1>12. \A p, b, i : Gains(p, b, i) => Coming(p, b, i)' = Coming(p, b, i) \cup {Packet(k, s, v, p)}
  <2> TAKE p, b, i
  <2> HAVE Gains(p, b, i)
  <2> HIDE DEF w
  <2>1. Packet(k, s, v, p) \in flight' /\ Aims(Packet(k, s, v, p), p, b, i)
    BY <1>3, <1>9
  <2> QED
    BY <1>3, <1>8, <1>9, <1>10, <2>1 DEF Coming
<1>13. FlightOK'
  <2>1. sent' \in Nat
    BY <1>1, <1>5
  <2>2. \A p, b, i : IsFiniteSet(Coming(p, b, i)')
    <3> TAKE p, b, i
    <3>1. IsFiniteSet(Coming(p, b, i))
      BY DEF AttentionInv, FlightOK
    <3>2. IsFiniteSet(Coming(p, b, i) \cup {Packet(k, s, v, p)})
      BY <3>1, FS_AddElement
    <3> HIDE DEF Gains
    <3> QED
      BY <1>11, <1>12, <3>1, <3>2
  <2>3. ASSUME NEW x \in flight'
        PROVE  /\ x.value \in Int /\ x.spike \in 0 .. sent' - 1
               /\ x.conn \in DOMAIN cfg.conns
               /\ x.source \in 0 .. cfg.conns[x.conn].sources - 1
               /\ cfg.conns[x.conn].type = "attention" => Routable(layer, cfg.conns[x.conn])
    <3>1. CASE x \in flight
      BY <1>1, <1>5, <3>1 DEF AttentionInv, FlightOK
    <3>2. CASE \E p : x = Packet(k, s, v, p)
      BY <1>1, <1>3, <1>5, <1>6, <3>2
    <3> QED
      BY <1>8, <2>3, <3>1, <3>2
  <2> QED
    BY <1>1, <2>1, <2>2, <2>3 DEF FlightOK, SameShape
<1>14. CASE w.type # "attention"
  <2>1. \A p, b, i : Coming(p, b, i)' = Coming(p, b, i)
    BY <1>11, <1>14
  <2> HIDE DEF w
  <2>2. owed'.now = owed.now
    BY <1>4, <1>14
  <2> QED
    BY <1>1, <1>4, <1>13, <2>1, <2>2, QuietOperands
<1>15. CASE w.type = "attention"
  <2>1. WellShaped /\ Carries(w) /\ s \in 0 .. OperandSize(layer, w.operand) - 1
    BY <1>3, <1>15, Carried
  <2> DEFINE B == BufferOf(w.operand)
             I == SlotOf(w, s)
  <2>2. B \in Buffers /\ I \in Slots(B) /\ Entry(w, s) = I
    <3> HIDE DEF w
    <3> QED
      BY <2>1, EntryIsSlot
  <2>3. owed'.now = [owed.now EXCEPT ![B][I] = @ + v]
    BY <1>4, <1>15, <2>2 DEF Raised
  <2>4. Tensors(owed.now) /\ owed.now[B][I] \in Int
    BY <2>2 DEF AttentionInv, TensorsOK, Tensors
  <2>5. \A p \in Cores : Needs(p, B, I) => Gains(p, B, I)
    <3> HIDE DEF w
    <3> QED
      BY <1>15, <2>1, NeededIsSent
  <2>6. \A p, b, i : Gains(p, b, i) => b = B /\ i = I
    OBVIOUS
  <2> HIDE DEF B, I, w, Gains
  <2>7. TensorsOK'
    <3>1. Tensors(owed'.now)
      BY <1>5, <2>2, <2>3, <2>4 DEF Tensors
    <3> QED
      BY <1>1, <1>4, <3>1 DEF AttentionInv, TensorsOK, SameShape
  <2>8. OperandsOnTheirWay'
    <3>1. SUFFICES ASSUME NEW p \in Cores, NEW b \in Buffers, NEW i \in Slots(b), Needs(p, b, i)
                   PROVE  operands[p][b][i] + SpikesIn(Coming(p, b, i)') = owed'.now[b][i]
      BY <1>1 DEF OperandsOnTheirWay, SameShape
    <3>2. operands[p][b][i] + SpikesIn(Coming(p, b, i)) = owed.now[b][i]
      BY <3>1 DEF AttentionInv, OperandsOnTheirWay
    <3>3. CASE b = B /\ i = I
      <4>1. Gains(p, b, i)
        BY <2>5, <3>1, <3>3
      <4> DEFINE S == Coming(p, b, i)
                 x == Packet(k, s, v, p)
      <4>2. Coming(p, b, i)' = S \cup {x}
        BY <1>12, <4>1
      <4>3. IsFiniteSet(S) /\ (\A f \in S : f.value \in Int) /\ x \notin S /\ x.value = v
        <5>1. IsFiniteSet(S)
          BY DEF AttentionInv, FlightOK
        <5>2. S \subseteq flight
          BY DEF Coming
        <5>3. \A f \in flight : f.value \in Int
          BY DEF AttentionInv, FlightOK
        <5>4. x \notin flight /\ x.value = v
          BY <1>6, <1>7
        <5> HIDE DEF S, x
        <5> QED
          BY <5>1, <5>2, <5>3, <5>4
      <4> HIDE DEF S, x
      <4>4. SpikesIn(S \cup {x}) = SpikesIn(S) + v
        BY <1>5, <4>3, SpikesPlusOne
      <4>5. SpikesIn(S) \in Int
        <5> DEFINE h == [f \in S |-> f.value]
        <5>1. \A f \in S : h[f] \in Int
          BY <4>3
        <5>2. SpikesIn(S) = SumFunctionOnSet(h, S)
          BY SpikesAreSum
        <5> HIDE DEF h
        <5> QED
          BY <4>3, <5>1, <5>2, SumInt
      <4>6. owed'.now[b][i] = owed.now[b][i] + v
        BY <2>2, <2>3, <2>4, <3>3 DEF Tensors
      <4>7. operands[p][b][i] \in Int
        BY <3>1 DEF AttentionInv, TensorsOK, Tensors
      <4>8. operands[p][b][i] + SpikesIn(S) = owed.now[b][i]
        BY <3>2 DEF S
      <4> QED
        BY <1>5, <4>2, <4>4, <4>5, <4>6, <4>7, <4>8
    <3>4. CASE ~(b = B /\ i = I)
      <4>1. Coming(p, b, i)' = Coming(p, b, i)
        BY <1>11, <2>6, <3>4
      <4>2. owed'.now[b][i] = owed.now[b][i]
        BY <2>2, <2>3, <2>4, <3>1, <3>4 DEF Tensors
      <4> QED
        BY <3>2, <4>1, <4>2
    <3> QED
      BY <3>3, <3>4
  <2>9. Incremental' => ShadowIsTotal' /\ ProductAccumulated'
    <3>1. SUFFICES ASSUME Incremental
                   PROVE  ShadowIsTotal' /\ ProductAccumulated'
      BY <1>1 DEF SameShape
    <3>2. ShadowIsTotal'
      BY <1>1, <1>4, <3>1 DEF AttentionInv, ShadowIsTotal, SameShape
    <3>3. \A g : Accumulated(g)' = Accumulated(g)
      BY <1>1, <1>4, SameAccumulated
    <3>4. ProductAccumulated'
      BY <1>1, <1>4, <3>1, <3>3 DEF AttentionInv, ProductAccumulated, SameShape
    <3> QED
      BY <3>2, <3>4
  <2> QED
    BY <1>13, <2>7, <2>8, <2>9 DEF AttentionInv
<1> QED
  BY <1>14, <1>15

LEMMA NoneComing ==
  ASSUME flight = {}, NEW p, NEW b, NEW i
  PROVE  Coming(p, b, i) = {} /\ SpikesIn(Coming(p, b, i)) = 0
<1>1. Coming(p, b, i) = {}
  BY DEF Coming
<1> QED
  BY <1>1, SpikesOfNone

LEMMA TensorChange ==
  ASSUME NEW t, Tensors(t), NEW B \in Buffers, NEW I \in Slots(B), NEW u \in Int
  PROVE  /\ Tensors([t EXCEPT ![B][I] = u])
         /\ [t EXCEPT ![B][I] = u][B][I] = u
         /\ \A b \in Buffers : \A i \in Slots(b) :
              b # B \/ i # I => [t EXCEPT ![B][I] = u][b][i] = t[b][i]
<1>1. Tensors([t EXCEPT ![B][I] = u])
  BY DEF Tensors
<1>2. [t EXCEPT ![B][I] = u][B][I] = u
  BY DEF Tensors
<1>3. ASSUME NEW b \in Buffers, NEW i \in Slots(b), b # B \/ i # I
      PROVE  [t EXCEPT ![B][I] = u][b][i] = t[b][i]
  <2>1. CASE b # B
    BY <2>1 DEF Tensors
  <2>2. CASE b = B /\ i # I
    BY <2>2 DEF Tensors
  <2> QED
    BY <1>3, <2>1, <2>2
<1> QED
  BY <1>1, <1>2, <1>3

LEMMA ReceiveEffect ==
  ASSUME ReceiveOperand, phase' # "thrown"
  PROVE  /\ UNCHANGED <<cfg, sent, shadow, output, owed>>
         /\ \E packet \in flight : \E w, p, b, i :
              /\ w = cfg.conns[packet.conn] /\ p = packet.partition
              /\ b = BufferOf(w.operand) /\ i = SlotOf(w, packet.source)
              /\ w.type = "attention" /\ flight' = flight \ {packet}
              /\ operands' = [operands EXCEPT ![p][b][i] = operands[p][b][i] + packet.value]
              /\ attention_pending' = attention_pending \cup {p}
<1>1. UNCHANGED <<cfg, sent, shadow, output, owed>>
  BY DEF ReceiveOperand
<1>2. PICK packet \in flight :
         LET w == cfg.conns[packet.conn]
             p == packet.partition
             i == OperandIndex(layer, w.operand, w.layout, packet.source)
             sum == operands[p][BufferOf(w.operand)][i] + packet.value
         IN  /\ w.type = "attention"
             /\ flight' = flight \ {packet}
             /\ IF sum \in -Transient .. Transient
                  THEN /\ operands' = [operands EXCEPT ![p][BufferOf(w.operand)][i] = sum]
                       /\ attention_pending' = attention_pending \cup {p}
                       /\ UNCHANGED phase
                  ELSE phase' = "thrown" /\ UNCHANGED <<operands, attention_pending>>
  BY DEF ReceiveOperand
<1> DEFINE w == cfg.conns[packet.conn]
           p == packet.partition
           b == BufferOf(w.operand)
           i == SlotOf(w, packet.source)
<1>3. /\ w.type = "attention" /\ flight' = flight \ {packet}
      /\ operands' = [operands EXCEPT ![p][b][i] = operands[p][b][i] + packet.value]
      /\ attention_pending' = attention_pending \cup {p}
  BY <1>2 DEF SlotOf
<1> HIDE DEF w, p, b, i
<1>4. w = cfg.conns[packet.conn] /\ p = packet.partition /\ b = BufferOf(w.operand)
      /\ i = SlotOf(w, packet.source)
  BY DEF w, p, b, i
<1> QED
  BY Zenon, <1>1, <1>3, <1>4

LEMMA ReceiveOperands ==
  ASSUME cfg \in Configurations, OperandsFit, IsAttention, AttentionInv,
         ReceiveOperand, phase' # "thrown"
  PROVE  AttentionInv'
<1> USE SameShapes
<1>1. /\ cfg' = cfg /\ sent' = sent /\ shadow' = shadow /\ owed' = owed
      /\ owed'.total = owed.total
  BY ReceiveEffect
<1>2. PICK packet \in flight : \E w, p, b, i :
              /\ w = cfg.conns[packet.conn] /\ p = packet.partition
              /\ b = BufferOf(w.operand) /\ i = SlotOf(w, packet.source)
              /\ w.type = "attention" /\ flight' = flight \ {packet}
              /\ operands' = [operands EXCEPT ![p][b][i] = operands[p][b][i] + packet.value]
              /\ attention_pending' = attention_pending \cup {p}
  BY Zenon, ReceiveEffect
<1>3. PICK w, p, B, I :
              /\ w = cfg.conns[packet.conn] /\ p = packet.partition
              /\ B = BufferOf(w.operand) /\ I = SlotOf(w, packet.source)
              /\ w.type = "attention" /\ flight' = flight \ {packet}
              /\ operands' = [operands EXCEPT ![p][B][I] = operands[p][B][I] + packet.value]
              /\ attention_pending' = attention_pending \cup {p}
  BY Zenon, <1>2
<1>4. packet.value \in Int /\ B \in Buffers /\ I \in Slots(B)
  <2>1. /\ packet.value \in Int /\ packet.conn \in DOMAIN cfg.conns
        /\ packet.source \in 0 .. cfg.conns[packet.conn].sources - 1
        /\ Routable(layer, cfg.conns[packet.conn]) /\ cfg.conns[packet.conn].type = "attention"
    BY <1>3 DEF AttentionInv, FlightOK
  <2>2. WellShaped /\ Carries(w) /\ packet.source \in 0 .. OperandSize(layer, w.operand) - 1
    BY <1>3, <2>1, Carried
  <2>3. BufferOf(w.operand) \in Buffers /\ SlotOf(w, packet.source) \in Slots(BufferOf(w.operand))
    BY <2>2, EntryIsSlot
  <2> QED
    BY <1>3, <2>1, <2>3
<1>5. \A q, b, i : Aims(packet, q, b, i) <=> q = p /\ b = B /\ i = I
  BY <1>3 DEF Aims
<1>6. \A q, b, i : Coming(q, b, i)' = Coming(q, b, i) \ {packet}
  BY <1>1, <1>3 DEF Coming, SameShape
<1>7. FlightOK'
  <2>1. \A q, b, i : IsFiniteSet(Coming(q, b, i)')
    <3> TAKE q, b, i
    <3>1. IsFiniteSet(Coming(q, b, i))
      BY DEF AttentionInv, FlightOK
    <3>2. IsFiniteSet(Coming(q, b, i) \ {packet})
      BY <3>1, FS_RemoveElement
    <3> QED
      BY <1>6, <3>2
  <2>2. \A x \in flight' : x \in flight
    BY <1>3
  <2> QED
    BY <1>1, <2>1, <2>2 DEF AttentionInv, FlightOK, SameShape
<1>8. /\ operands = [q \in Cores |-> operands[q]]
      /\ \A q \in Cores : Tensors(operands[q])
  BY DEF AttentionInv, TensorsOK
<1>9. ASSUME NEW q \in Cores
      PROVE  /\ q # p => operands'[q] = operands[q]
             /\ q = p => operands'[q] = [operands[q] EXCEPT ![B][I] = operands[q][B][I] + packet.value]
  BY <1>3, <1>8
<1>10. TensorsOK'
  <2>1. operands' = [q \in Cores |-> operands'[q]]
    BY <1>3, <1>8
  <2>2. ASSUME NEW q \in Cores
        PROVE  Tensors(operands'[q]) /\ (q \notin attention_pending' => operands'[q] = NoOperands)
    <3>1. CASE q = p
      <4>1. operands[q][B][I] + packet.value \in Int
        BY <1>4, <1>8 DEF Tensors
      <4>2. PICK u \in Int : operands'[q] = [operands[q] EXCEPT ![B][I] = u]
        BY <1>9, <3>1, <4>1
      <4>3. Tensors(operands'[q])
        BY <1>4, <1>8, <4>2 DEF Tensors
      <4> QED
        BY <1>3, <3>1, <4>3
    <3>2. CASE q # p
      BY <1>3, <1>9, <3>2 DEF AttentionInv, TensorsOK
    <3> QED
      BY <3>1, <3>2
  <2> QED
    BY <1>1, <2>1, <2>2 DEF AttentionInv, TensorsOK, SameShape
<1>11. OperandsOnTheirWay'
  <2>1. SUFFICES ASSUME NEW q \in Cores, NEW b \in Buffers, NEW i \in Slots(b), Needs(q, b, i)
                 PROVE  operands'[q][b][i] + SpikesIn(Coming(q, b, i)') = owed.now[b][i]
    BY <1>1 DEF OperandsOnTheirWay, SameShape
  <2>2. operands[q][b][i] + SpikesIn(Coming(q, b, i)) = owed.now[b][i]
    BY <2>1 DEF AttentionInv, OperandsOnTheirWay
  <2>3. CASE q = p /\ b = B /\ i = I
    <3> DEFINE T == Coming(q, b, i)
               S == T \ {packet}
    <3>1. packet \in T /\ Coming(q, b, i)' = S
      BY <1>5, <1>6, <2>3 DEF Coming
    <3>2. IsFiniteSet(T) /\ \A f \in T : f.value \in Int
      BY DEF AttentionInv, FlightOK, Coming
    <3>3. operands'[q][b][i] = operands[q][b][i] + packet.value /\ operands[q][b][i] \in Int
      <4>1. PICK t : t = operands[q]
        OBVIOUS
      <4>2. Tensors(t) /\ t[B][I] \in Int
        BY <1>4, <1>8, <4>1 DEF Tensors
      <4>3. PICK u \in Int : u = t[B][I] + packet.value
        BY <1>4, <4>2
      <4>4. operands'[q] = [t EXCEPT ![B][I] = u]
        BY <1>9, <2>3, <4>1, <4>3
      <4>5. operands'[q][B][I] = u
        BY <1>4, <4>2, <4>4, TensorChange
      <4> QED
        BY <2>3, <4>1, <4>2, <4>3, <4>5
    <3>4. operands[q][b][i] + SpikesIn(T) = owed.now[b][i]
      BY <2>2
    <3> HIDE DEF T
    <3>5. /\ IsFiniteSet(S) /\ (\A f \in S : f.value \in Int) /\ packet \notin S
          /\ S \cup {packet} = T
      BY <3>1, <3>2, FS_RemoveElement
    <3> HIDE DEF S
    <3>6. SpikesIn(T) = SpikesIn(S) + packet.value
      <4>1. SpikesIn(S \cup {packet}) = SpikesIn(S) + packet.value
        BY <1>4, <3>5, SpikesPlusOne
      <4> QED
        BY Zenon, <3>5, <4>1
    <3>7. SpikesIn(S) \in Int
      <4> DEFINE h == [f \in S |-> f.value]
      <4>1. \A f \in S : h[f] \in Int
        BY <3>5
      <4>2. SpikesIn(S) = SumFunctionOnSet(h, S)
        BY SpikesAreSum
      <4> HIDE DEF h
      <4> QED
        BY <3>5, <4>1, <4>2, SumInt
    <3>8. PICK rest \in Int, value \in Int, held \in Int :
              rest = SpikesIn(S) /\ value = packet.value /\ held = operands[q][b][i]
      BY <1>4, <3>3, <3>7
    <3>9. held + (rest + value) = owed.now[b][i]
      BY Zenon, <3>4, <3>6, <3>8
    <3>10. SpikesIn(Coming(q, b, i)') = rest /\ operands'[q][b][i] = held + value
      BY Zenon, <3>1, <3>3, <3>8
    <3>11. (held + value) + rest = held + (rest + value)
      OBVIOUS
    <3> QED
      BY Zenon, <3>9, <3>10, <3>11
  <2>4. CASE ~(q = p /\ b = B /\ i = I)
    <3>1. Coming(q, b, i)' = Coming(q, b, i)
      BY <1>5, <1>6, <2>4 DEF Coming
    <3>2. operands'[q][b][i] = operands[q][b][i]
      <4>1. CASE q = p
        <5>1. PICK t : t = operands[q]
          OBVIOUS
        <5>2. Tensors(t) /\ t[B][I] \in Int
          BY <1>4, <1>8, <5>1 DEF Tensors
        <5>3. PICK u \in Int : u = t[B][I] + packet.value
          BY <1>4, <5>2
        <5>4. operands'[q] = [t EXCEPT ![B][I] = u]
          BY <1>9, <4>1, <5>1, <5>3
        <5>5. operands'[q][b][i] = t[b][i]
          BY <1>4, <2>1, <2>4, <4>1, <5>2, <5>4, TensorChange
        <5> QED
          BY <5>1, <5>5
      <4>2. CASE q # p
        BY <1>9, <4>2
      <4> QED
        BY <4>1, <4>2
    <3> QED
      BY <2>2, <3>1, <3>2
  <2> QED
    BY <2>3, <2>4
<1>12. Incremental' => ShadowIsTotal' /\ ProductAccumulated'
  <2>1. SUFFICES ASSUME Incremental
                 PROVE  ShadowIsTotal' /\ ProductAccumulated'
    BY <1>1 DEF SameShape
  <2>2. ShadowIsTotal'
    BY <1>1, <2>1 DEF AttentionInv, ShadowIsTotal, SameShape
  <2>3. \A g : Accumulated(g)' = Accumulated(g)
    BY <1>1, SameAccumulated
  <2>4. ProductAccumulated'
    BY <1>1, <2>1, <2>3 DEF AttentionInv, ProductAccumulated, SameShape
  <2> QED
    BY <2>2, <2>4
<1> QED
  BY <1>7, <1>10, <1>11, <1>12 DEF AttentionInv

LEMMA NothingHeld ==
  ASSUME IsAttention
  PROVE  Tensors(NoOperands) /\ \A b \in Buffers : \A i \in Slots(b) : NoOperands[b][i] = 0
<1>1. NoOperands = [b \in Buffers |-> [i \in Slots(b) |-> 0]]
  BY DEF NoOperands, Slots, Zeros, Incremental
<1> QED
  BY <1>1 DEF Tensors

Summed == [b \in Buffers |-> [i \in DOMAIN owed.now[b] |-> owed.total[b][i] + owed.now[b][i]]]

LEMMA ProcessOperands ==
  ASSUME Process
  PROVE  /\ flight = {} /\ phase = "run" /\ UNCHANGED <<cfg, phase, sent, flight>>
         /\ output' = [n \in Logical |-> output[n] + Delta(n \div layer.max, n)]
         /\ shadow' = [p \in Cores |->
                        IF p \in attention_pending /\ Incremental
                        THEN ShadowAfter(layer, p, shadow[p], operands[p]) ELSE shadow[p]]
         /\ operands' = [p \in Cores |-> NoOperands] /\ attention_pending' = {}
         /\ DOMAIN owed' = OwedFields /\ owed'.now = NoOperands /\ owed'.total = Summed
         /\ owed'.product = [l \in Logical |-> Product(l)]
<1>1. /\ flight = {} /\ phase = "run" /\ UNCHANGED <<cfg, phase, sent, flight>>
      /\ operands' = [p \in Cores |-> NoOperands] /\ attention_pending' = {}
      /\ shadow' = [p \in Cores |->
                        IF p \in attention_pending /\ Incremental
                        THEN ShadowAfter(layer, p, shadow[p], operands[p]) ELSE shadow[p]]
  BY DEF Process, Incremental
<1>2. output' = [n \in Logical |-> output[n] + Delta(n \div layer.max, n)]
  <2> DEFINE delta == [n \in Logical |-> Delta(n \div layer.max, n)]
  <2>1. output' = [n \in Logical |-> output[n] + delta[n]]
    BY DEF Process
  <2>2. \A n \in Logical : delta[n] = Delta(n \div layer.max, n)
    OBVIOUS
  <2> HIDE DEF delta
  <2> QED
    BY <2>1, <2>2
<1>3. PICK processed : owed' = Settle(processed)
  BY DEF Process
<1>4. /\ DOMAIN Settle(processed) = OwedFields /\ Settle(processed).now = NoOperands
      /\ Settle(processed).total = Summed
      /\ Settle(processed).product = [l \in Logical |-> Product(l)]
  BY DEF Settle, OwedFields, Summed
<1> QED
  BY <1>1, <1>2, <1>3, <1>4

(* With every packet received, a core holds what it needs of the operands.  *)
LEMMA AllArrived ==
  ASSUME AttentionInv, flight = {}, NEW p \in Cores, NEW b \in Buffers, NEW i \in Slots(b),
         Needs(p, b, i)
  PROVE  operands[p][b][i] = owed.now[b][i]
<1>1. operands[p][b][i] + SpikesIn(Coming(p, b, i)) = owed.now[b][i]
  BY DEF AttentionInv, OperandsOnTheirWay
<1>2. SpikesIn(Coming(p, b, i)) = 0
  BY NoneComing
<1>3. operands[p][b][i] \in Int
  BY DEF AttentionInv, TensorsOK, Tensors
<1> QED
  BY <1>1, <1>2, <1>3

LEMMA UsedByOutput ==
  ASSUME WellShaped, Incremental, NEW g \in Logical, NEW k \in Reduction(layer)
  PROVE  LET p == g \div layer.max
         IN  /\ p \in Cores
             /\ LhsAt(layer, g, k) \in Used(layer, p, "lhs") /\ LhsAt(layer, g, k) \in Slots("lhs")
             /\ RhsAt(layer, g, k) \in Used(layer, p, "rhs") /\ RhsAt(layer, g, k) \in Slots("rhs")
<1> DEFINE p == g \div layer.max
<1>1. p \in Cores /\ g \in Neurons(layer, p)
  BY OwnCore
<1> HIDE DEF p
<1>2. LhsAt(layer, g, k) \in Used(layer, p, "lhs") /\ RhsAt(layer, g, k) \in Used(layer, p, "rhs")
  BY <1>1 DEF Used
<1> QED
  BY <1>1, <1>2, OutputSlots DEF p

(* What a core adds to an output is what the operands of the step add to    *)
(* the product, for both kinds of attention.                               *)
LEMMA MatmulGrows ==
  ASSUME WellShaped, Incremental, IsAttention, AttentionInv, flight = {}, NEW g \in Logical
  PROVE  LET p == g \div layer.max
         IN  /\ Product(g) = owed.product[g] + Delta(p, g)
             /\ Delta(p, g) \in Int /\ owed.product[g] \in Int
<1> DEFINE p == g \div layer.max
<1>1. ASSUME NEW k \in Reduction(layer)
      PROVE  /\ LhsAt(layer, g, k) \in Slots("lhs") /\ RhsAt(layer, g, k) \in Slots("rhs")
             /\ shadow[p].lhs[LhsAt(layer, g, k)] = owed.total.lhs[LhsAt(layer, g, k)]
             /\ shadow[p].rhs[RhsAt(layer, g, k)] = owed.total.rhs[RhsAt(layer, g, k)]
             /\ operands[p].lhs[LhsAt(layer, g, k)] = owed.now.lhs[LhsAt(layer, g, k)]
             /\ operands[p].rhs[RhsAt(layer, g, k)] = owed.now.rhs[RhsAt(layer, g, k)]
  <2>1. PICK i, j : i = LhsAt(layer, g, k) /\ j = RhsAt(layer, g, k)
    OBVIOUS
  <2>2. /\ p \in Cores /\ i \in Used(layer, p, "lhs") /\ i \in Slots("lhs")
        /\ j \in Used(layer, p, "rhs") /\ j \in Slots("rhs")
    BY <1>1, <2>1, UsedByOutput
  <2> HIDE DEF p
  <2>3. shadow[p].lhs[i] = owed.total.lhs[i] /\ shadow[p].rhs[j] = owed.total.rhs[j]
    <3>1. /\ shadow[p]["lhs"][i] = owed.total["lhs"][i]
          /\ shadow[p]["rhs"][j] = owed.total["rhs"][j]
      BY <2>2 DEF AttentionInv, ShadowIsTotal
    <3> QED
      BY <3>1
  <2>4. operands[p].lhs[i] = owed.now.lhs[i] /\ operands[p].rhs[j] = owed.now.rhs[j]
    <3>1. /\ "lhs" \in Buffers /\ "rhs" \in Buffers
          /\ Needs(p, "lhs", i) /\ Needs(p, "rhs", j)
      BY <2>2 DEF Needs, Buffers
    <3>2. operands[p]["lhs"][i] = owed.now["lhs"][i] /\ operands[p]["rhs"][j] = owed.now["rhs"][j]
      BY <2>2, <3>1, AllArrived
    <3> QED
      BY <3>2
  <2> QED
    BY <2>1, <2>2, <2>3, <2>4
<1>2. p \in Cores
  BY OwnCore
<1> HIDE DEF p
<1>3. Tensors(operands[p]) /\ Tensors(owed.now) /\ Tensors(owed.total)
  BY <1>2 DEF AttentionInv, TensorsOK
<1>4. /\ Product(g) = Accumulated(g) + DeltaOf(layer, shadow[p], operands[p], g)
      /\ Accumulated(g) \in Int /\ DeltaOf(layer, shadow[p], operands[p], g) \in Int
  <2>1. \A k \in Reduction(layer) :
            /\ shadow[p].lhs[LhsAt(layer, g, k)] = owed.total.lhs[LhsAt(layer, g, k)]
            /\ shadow[p].rhs[RhsAt(layer, g, k)] = owed.total.rhs[RhsAt(layer, g, k)]
            /\ operands[p].lhs[LhsAt(layer, g, k)] = owed.now.lhs[LhsAt(layer, g, k)]
            /\ operands[p].rhs[RhsAt(layer, g, k)] = owed.now.rhs[RhsAt(layer, g, k)]
    BY <1>1
  <2> QED
    BY Zenon, <1>3, <2>1, ProductGrows
<1>5. owed.product[g] = Accumulated(g)
  BY DEF AttentionInv, ProductAccumulated
<1>6. Delta(p, g) = DeltaOf(layer, shadow[p], operands[p], g)
  <2>1. CASE p \in attention_pending
    BY <2>1 DEF Delta, Incremental
  <2>2. CASE p \notin attention_pending
    <3>1. operands[p] = NoOperands
      BY <1>2, <2>2 DEF AttentionInv, TensorsOK
    <3>2. \A b \in Buffers : \A i \in Slots(b) : operands[p][b][i] = 0
      BY <3>1, NothingHeld
    <3>3. \A k \in Reduction(layer) :
            /\ shadow[p].lhs[LhsAt(layer, g, k)] \in Int
            /\ shadow[p].rhs[RhsAt(layer, g, k)] \in Int
      <4> TAKE k \in Reduction(layer)
      <4>1. PICK i, j : i = LhsAt(layer, g, k) /\ j = RhsAt(layer, g, k)
        OBVIOUS
      <4>2. /\ i \in Slots("lhs") /\ j \in Slots("rhs")
            /\ shadow[p].lhs[i] = owed.total.lhs[i] /\ shadow[p].rhs[j] = owed.total.rhs[j]
        BY Zenon, <1>1, <4>1
      <4>3. owed.total.lhs[i] \in Int /\ owed.total.rhs[j] \in Int
        BY <1>3, <4>2 DEF Tensors, Buffers
      <4> QED
        BY Zenon, <4>1, <4>2, <4>3
    <3>4. DeltaOf(layer, shadow[p], operands[p], g) = 0
      BY Zenon, <1>3, <3>2, <3>3, NoChange
    <3> QED
      BY <2>2, <3>4 DEF Delta
  <2> QED
    BY <2>1, <2>2
<1> QED
  BY <1>4, <1>5, <1>6 DEF p

LEMMA AttentionGrows ==
  ASSUME WellShaped, ~ Incremental, IsAttention, AttentionInv, flight = {}, NEW g \in Logical
  PROVE  LET p == g \div layer.max
         IN  Product(g) = owed.product[g] + Delta(p, g) /\ Delta(p, g) \in Int
<1> DEFINE p == g \div layer.max
<1>1. p \in Cores
  BY OwnCore
<1> HIDE DEF p
<1>2. Tensors(operands[p]) /\ Tensors(owed.now)
  BY <1>1 DEF AttentionInv, TensorsOK
<1>3. operands[p] = owed.now
  <2>1. \A b \in Buffers : \A i \in Slots(b) : operands[p][b][i] = owed.now[b][i]
    BY <1>1, AllArrived DEF Needs
  <2>2. \A b \in Buffers : operands[p][b] = owed.now[b]
    BY <1>2, <2>1 DEF Tensors
  <2> QED
    BY <1>2, <2>2 DEF Tensors
<1>4. Product(g) = owed.product[g] + Attended(layer, owed.now, g)
  BY DEF Product, Incremental
<1>5. Attended(layer, owed.now, g) \in Int
  BY <1>2, AttendedInt
<1>6. Delta(p, g) = Attended(layer, owed.now, g)
  <2>1. CASE p \in attention_pending
    BY <1>3, <2>1 DEF Delta, Incremental
  <2>2. CASE p \notin attention_pending
    <3>1. operands[p] = NoOperands
      BY <1>1, <2>2 DEF AttentionInv, TensorsOK
    <3>2. \A b \in Buffers : \A i \in Slots(b) : owed.now[b][i] = 0
      BY <1>3, <3>1, NothingHeld
    <3>3. Attended(layer, owed.now, g) = 0
      BY <1>2, <3>2, AttendedInt
    <3> QED
      BY <2>2, <3>3 DEF Delta
  <2> QED
    BY <2>1, <2>2
<1> QED
  BY <1>4, <1>5, <1>6 DEF p

LEMMA SummedTensors ==
  ASSUME Tensors(owed.now), Tensors(owed.total)
  PROVE  /\ Tensors(Summed)
         /\ \A b \in Buffers : \A i \in Slots(b) : Summed[b][i] = owed.total[b][i] + owed.now[b][i]
<1>1. ASSUME NEW b \in Buffers
      PROVE  Summed[b] = [i \in Slots(b) |-> owed.total[b][i] + owed.now[b][i]]
  BY DEF Summed, Tensors
<1>2. ASSUME NEW b \in Buffers
      PROVE  Summed[b] \in [Slots(b) -> Int]
  <2>1. \A i \in Slots(b) : owed.total[b][i] + owed.now[b][i] \in Int
    BY DEF Tensors
  <2> QED
    BY <1>1, <2>1
<1>3. Summed = [b \in Buffers |-> Summed[b]]
  BY DEF Summed
<1> QED
  BY <1>1, <1>2, <1>3 DEF Tensors

(* The product of the tensors with the operands of the step added.          *)
LEMMA AccumulatedNext ==
  ASSUME WellShaped, Incremental, cfg' = cfg, owed'.total = Summed,
         Tensors(owed.now), Tensors(owed.total), NEW g \in Logical
  PROVE  Accumulated(g)' = Product(g)
<1>1. Reduction(layer)' = Reduction(layer) /\ layer' = layer
  BY SameShapes DEF SameShape
<1>2. ASSUME NEW k \in Reduction(layer)
      PROVE  Before(g, k)' = After(g, k)
  <2>1. PICK i \in Slots("lhs"), j \in Slots("rhs") : i = LhsAt(layer, g, k) /\ j = RhsAt(layer, g, k)
    BY Zenon, OutputSlots
  <2>2. /\ Summed["lhs"][i] = owed.total["lhs"][i] + owed.now["lhs"][i]
        /\ Summed["rhs"][j] = owed.total["rhs"][j] + owed.now["rhs"][j]
    BY SummedTensors DEF Buffers
  <2>3. Before(g, k)' = Summed.lhs[i] * Summed.rhs[j]
    BY <1>1, <2>1 DEF Before
  <2>4. After(g, k) = (owed.total.lhs[i] + owed.now.lhs[i]) * (owed.total.rhs[j] + owed.now.rhs[j])
    BY <2>1 DEF After
  <2> QED
    BY <2>2, <2>3, <2>4
<1>3. Accumulated(g)'
        = SumFunctionOnSet([k \in Reduction(layer) |-> Before(g, k)'], Reduction(layer))
  BY <1>1, AccumulatedSumsNext DEF AccumulatedAreSums
<1>4. Product(g) = SumFunctionOnSet([k \in Reduction(layer) |-> After(g, k)], Reduction(layer))
  BY ProductIsSum
<1>5. [k \in Reduction(layer) |-> Before(g, k)'] = [k \in Reduction(layer) |-> After(g, k)]
  BY <1>2
<1> QED
  BY <1>3, <1>4, <1>5

LEMMA ProcessShadow ==
  ASSUME Incremental, IsAttention, AttentionInv, Process
  PROVE  ShadowIsTotal'
<1> USE SameShapes
<1>1. /\ cfg' = cfg /\ flight = {} /\ owed'.total = Summed
      /\ shadow' = [p \in Cores |->
                        IF p \in attention_pending /\ Incremental
                        THEN ShadowAfter(layer, p, shadow[p], operands[p]) ELSE shadow[p]]
  BY ProcessOperands
<1>2. SUFFICES ASSUME NEW p \in Cores, NEW b \in {"lhs", "rhs"}
               PROVE  /\ shadow'[p][b] \in [Slots(b) -> Int]
                      /\ \A i \in Slots(b) : i \in Used(layer, p, b) =>
                            shadow'[p][b][i] = Summed[b][i]
  BY <1>1 DEF ShadowIsTotal, SameShape
<1>3. /\ shadow[p][b] \in [Slots(b) -> Int] /\ Tensors(operands[p]) /\ b \in Buffers
      /\ operands[p][b] \in [Slots(b) -> Int]
      /\ \A i \in Slots(b) : i \in Used(layer, p, b) => shadow[p][b][i] = owed.total[b][i]
  BY DEF AttentionInv, ShadowIsTotal, TensorsOK, Tensors, Buffers
<1>4. \A i \in Slots(b) : /\ Summed[b][i] = owed.total[b][i] + owed.now[b][i]
                          /\ owed.total[b][i] \in Int /\ owed.now[b][i] \in Int
  BY <1>3, SummedTensors DEF AttentionInv, TensorsOK, Tensors
<1>5. \A i \in Slots(b) : i \in Used(layer, p, b) => operands[p][b][i] = owed.now[b][i]
  BY <1>1, <1>3, AllArrived DEF Needs
<1>6. CASE p \in attention_pending
  <2>1. shadow'[p] = ShadowAfter(layer, p, shadow[p], operands[p])
    BY <1>1, <1>6
  <2>2. shadow'[p][b] = [i \in Slots(b) |->
            shadow[p][b][i] + IF i \in Used(layer, p, b) THEN operands[p][b][i] ELSE 0]
    BY <1>3, <2>1 DEF ShadowAfter
  <2>3. \A i \in Slots(b) : shadow[p][b][i] \in Int /\ operands[p][b][i] \in Int
    BY <1>3
  <2>4. \A i \in Slots(b) :
            shadow[p][b][i] + (IF i \in Used(layer, p, b) THEN operands[p][b][i] ELSE 0) \in Int
    BY <2>3
  <2>5. shadow'[p][b] \in [Slots(b) -> Int]
    BY <2>2, <2>4
  <2>6. ASSUME NEW i \in Slots(b), i \in Used(layer, p, b)
        PROVE  shadow'[p][b][i] = Summed[b][i]
    BY <1>3, <1>4, <1>5, <2>2, <2>6
  <2> QED
    BY <2>5, <2>6
<1>7. CASE p \notin attention_pending
  <2>1. shadow'[p] = shadow[p] /\ operands[p] = NoOperands
    BY <1>1, <1>7 DEF AttentionInv, TensorsOK
  <2>2. \A i \in Slots(b) : operands[p][b][i] = 0
    BY <1>3, <2>1, NothingHeld
  <2>3. ASSUME NEW i \in Slots(b), i \in Used(layer, p, b)
        PROVE  shadow'[p][b][i] = Summed[b][i]
    BY <1>3, <1>4, <1>5, <2>1, <2>2, <2>3
  <2> QED
    BY <1>3, <2>1, <2>3
<1> QED
  BY <1>6, <1>7

LEMMA ProcessAttention ==
  ASSUME WellShaped, IsAttention, AttentionInv, OutputIsProduct, Process
  PROVE  AttentionInv' /\ OutputIsProduct'
<1> USE SameShapes
<1>1. /\ cfg' = cfg /\ flight = {} /\ flight' = flight /\ sent' = sent
      /\ operands' = [p \in Cores |-> NoOperands] /\ attention_pending' = {}
      /\ DOMAIN owed' = OwedFields /\ owed'.now = NoOperands /\ owed'.total = Summed
      /\ owed'.product = [l \in Logical |-> Product(l)]
      /\ output' = [n \in Logical |-> output[n] + Delta(n \div layer.max, n)]
  BY ProcessOperands
<1>2. ASSUME NEW g \in Logical
      PROVE  /\ Product(g) = output[g] + Delta(g \div layer.max, g)
             /\ Product(g) \in Int
  <2>1. output[g] = owed.product[g] /\ output[g] \in Int
    BY DEF OutputIsProduct
  <2>2. Product(g) = owed.product[g] + Delta(g \div layer.max, g) /\ Delta(g \div layer.max, g) \in Int
    <3>1. CASE Incremental
      BY <1>1, <3>1, MatmulGrows
    <3>2. CASE ~ Incremental
      BY <1>1, <3>2, AttentionGrows
    <3> QED
      BY <3>1, <3>2
  <2> QED
    BY <2>1, <2>2
<1>3. OutputIsProduct'
  <2>1. output' = [n \in Logical |-> Product(n)]
    BY <1>1, <1>2
  <2>2. output' \in [Logical -> Int]
    BY <1>2, <2>1
  <2> QED
    BY <1>1, <2>1, <2>2 DEF OutputIsProduct, SameShape
<1>4. FlightOK'
  <2>1. FlightOK' /\ \A p, b, i : Coming(p, b, i)' = Coming(p, b, i)
    BY <1>1, FewerPackets DEF AttentionInv
  <2> QED
    BY <2>1
<1>5. Tensors(owed.now) /\ Tensors(owed.total) /\ Tensors(NoOperands)
  BY NothingHeld DEF AttentionInv, TensorsOK
<1>6. TensorsOK'
  <2>1. Tensors(Summed)
    BY <1>5, SummedTensors
  <2>2. operands' = [p \in Cores |-> operands'[p]] /\ \A p \in Cores : operands'[p] = NoOperands
    BY <1>1
  <2>3. shadow' = [p \in Cores |-> shadow'[p]]
    BY ProcessOperands
  <2> QED
    BY <1>1, <1>5, <2>1, <2>2, <2>3 DEF TensorsOK, SameShape
<1>7. OperandsOnTheirWay'
  <2>1. SUFFICES ASSUME NEW p \in Cores, NEW b \in Buffers, NEW i \in Slots(b)
                 PROVE  NoOperands[b][i] + SpikesIn(Coming(p, b, i)') = NoOperands[b][i]
    BY <1>1 DEF OperandsOnTheirWay, SameShape
  <2>2. Coming(p, b, i)' = {}
    BY <1>1 DEF SameShape
  <2>3. SpikesIn(Coming(p, b, i)') = 0
    BY <2>2, SpikesOfNone
  <2>4. NoOperands[b][i] = 0
    BY NothingHeld
  <2> QED
    BY <2>3, <2>4
<1>8. Incremental' => ShadowIsTotal' /\ ProductAccumulated'
  <2>1. SUFFICES ASSUME Incremental
                 PROVE  ShadowIsTotal' /\ ProductAccumulated'
    BY <1>1 DEF SameShape
  <2>2. ShadowIsTotal'
    BY <2>1, ProcessShadow
  <2>3. \A g \in Logical : Accumulated(g)' = Product(g)
    BY <1>1, <1>5, <2>1, AccumulatedNext
  <2>4. ProductAccumulated'
    BY <1>1, <2>3 DEF ProductAccumulated, SameShape
  <2> QED
    BY <2>2, <2>4
<1> QED
  BY <1>3, <1>4, <1>6, <1>7, <1>8 DEF AttentionInv

(***************************************************************************)
(* Layers without attention have no operands and no product.               *)
(***************************************************************************)
LEMMA NoAttention ==
  ASSUME cfg \in Configurations, OperandsFit, ~ IsAttention, NEW k \in DOMAIN cfg.conns
  PROVE  cfg.conns[k].type # "attention"
<1> DEFINE w == cfg.conns[k]
<1>1. ConnectionValid(layer, w) /\ layer.op = "standard"
  BY DEF OperandsFit, Loadable, IsAttention
<1> HIDE DEF w
<1> SUFFICES ASSUME w.type = "attention" PROVE FALSE
  BY DEF w
<1>2. w.operand \in CASE layer.op = "incremental_spike_matmul" -> {"lhs", "rhs"}
                      [] layer.op = "timestep_spike_attention" -> {"q", "k", "v"}
                      [] OTHER -> {}
  BY <1>1 DEF ConnectionValid
<1> QED
  BY <1>1, <1>2

LEMMA StandardStep ==
  ASSUME cfg \in Configurations, OperandsFit, ~ IsAttention, OutputIsProduct, StandardInv,
         [Next]_vars
  PROVE  StandardInv'
<1> USE SameShapes
<1>1. CASE Load \/ LocalState \/ UNCHANGED vars
  <2>1. cfg' = cfg /\ flight' = flight /\ UNCHANGED <<attention_pending, output>>
    BY <1>1 DEF Load, LocalState, vars
  <2> QED
    BY <2>1 DEF StandardInv, SameShape
<1>2. CASE Fire
  <2>1. cfg' = cfg /\ UNCHANGED <<attention_pending, output>>
    BY <1>2 DEF Fire
  <2>2. ASSUME NEW x \in flight'
        PROVE  x.conn \in DOMAIN cfg.conns
    <3>0. CASE phase' = "thrown"
      <4>1. flight' = flight
        BY <1>2, <3>0 DEF Fire
      <4> QED
        BY <2>2, <4>1 DEF StandardInv
    <3> SUFFICES ASSUME phase' # "thrown"
                 PROVE  x.conn \in DOMAIN cfg.conns
      BY <3>0
    <3>1. PICK k \in DOMAIN cfg.conns : \E s \in 0 .. cfg.conns[k].sources - 1, v \in cfg.values :
              /\ cfg.conns[k].type # "local_state_buffer" /\ Routable(layer, cfg.conns[k])
              /\ owed' = Owe(cfg.conns[k], s, v)
              /\ flight' = flight \cup
                    {Packet(k, s, v, p) : p \in Destinations(layer, cfg.conns[k], s)}
      BY Zenon, <1>2, FireEffect
    <3>2. x \in flight \/ \E s, v, p : x = Packet(k, s, v, p)
      BY <2>2, <3>1
    <3> QED
      BY <3>2 DEF Packet, StandardInv
  <2> QED
    BY <2>1, <2>2, NoAttention DEF StandardInv, SameShape
<1>3. CASE ReceiveUpdates
  <2>1. cfg' = cfg /\ flight' \subseteq flight /\ UNCHANGED <<attention_pending, output>>
    BY <1>3 DEF ReceiveUpdates
  <2> QED
    BY <2>1 DEF StandardInv, SameShape
<1>4. CASE ReceiveOperand
  BY <1>4 DEF ReceiveOperand, StandardInv
<1>5. CASE Process
  <2>1. /\ cfg' = cfg /\ flight' = flight /\ attention_pending' = {}
        /\ output' = [n \in Logical |-> output[n] + Delta(n \div layer.max, n)]
    BY <1>5, ProcessOperands
  <2>2. \A n \in Logical : output[n] + Delta(n \div layer.max, n) = 0
    BY DEF StandardInv, Delta
  <2> QED
    BY <2>1, <2>2 DEF StandardInv, SameShape
<1> QED
  BY <1>1, <1>2, <1>3, <1>4, <1>5 DEF Next

LEMMA QuietProduct ==
  ASSUME OutputIsProduct,
         Load \/ Fire \/ LocalState \/ ReceiveUpdates \/ ReceiveOperand \/ UNCHANGED vars
  PROVE  OutputIsProduct'
<1> USE SameShapes
<1>1. cfg' = cfg /\ output' = output
  BY DEF Load, Fire, LocalState, ReceiveUpdates, ReceiveOperand, vars
<1>2. DOMAIN owed' = OwedFields /\ owed'.product = owed.product
  <2>1. CASE owed' = owed
    BY <2>1 DEF OutputIsProduct
  <2>2. CASE \E k, s, v : owed' = Owe(cfg.conns[k], s, v)
    <3>1. PICK k, s, v : owed' = Owe(cfg.conns[k], s, v)
      BY <2>2
    <3> DEFINE w == cfg.conns[k]
    <3>2. DOMAIN owed = OwedFields /\ owed' = Owe(w, s, v)
      BY <3>1 DEF OutputIsProduct
    <3> HIDE DEF w
    <3> QED
      BY Zenon, <3>2, OweEffect
  <2>3. owed' = owed \/ \E k, s, v : owed' = Owe(cfg.conns[k], s, v)
    BY DEF Load, Fire, LocalState, ReceiveUpdates, ReceiveOperand, vars
  <2> QED
    BY <2>1, <2>2, <2>3
<1> QED
  BY <1>1, <1>2 DEF OutputIsProduct, SameShape

LEMMA ProductInvNext ==
  ASSUME ProductInv, [Next]_vars
  PROVE  ProductInv'
<1> USE SameShapes
<1>1. cfg' = cfg
  BY DEF Next, Load, Fire, LocalState, ReceiveUpdates, ReceiveOperand, Process, vars
<1>2. SUFFICES ASSUME OperandsFit
               PROVE  /\ OutputIsProduct'
                      /\ IsAttention => (phase' # "thrown" => AttentionInv')
                      /\ ~ IsAttention => StandardInv'
  BY <1>1 DEF ProductInv, SameShape
<1>3. cfg \in Configurations /\ OutputIsProduct
  BY <1>2 DEF ProductInv
<1>4. phase = "thrown" => UNCHANGED vars
  BY DEF Next, Load, Fire, LocalState, ReceiveUpdates, ReceiveOperand, Process
<1>5. /\ IsAttention => (phase # "thrown" => AttentionInv)
      /\ ~ IsAttention => StandardInv
  BY <1>2 DEF ProductInv
<1>6. phase' # "thrown" => phase # "thrown"
  BY <1>4 DEF vars
<1>7. CASE ~ Process
  <2>1. OutputIsProduct'
    BY <1>3, <1>7, QuietProduct DEF Next
  <2>2. ASSUME phase' # "thrown", IsAttention
        PROVE  AttentionInv'
    <3>1. AttentionInv /\ DOMAIN owed = OwedFields
      BY <1>3, <1>5, <1>6, <2>2 DEF OutputIsProduct
    <3>2. CASE Load \/ UNCHANGED vars
      BY <3>1, <3>2, LoadOperands
    <3>3. CASE Fire
      BY <1>2, <1>3, <2>2, <3>1, <3>3, FireOperands
    <3>4. CASE LocalState
      BY <3>1, <3>4, LocalStateOperands
    <3>5. CASE ReceiveUpdates
      BY <3>1, <3>5, ReceiveUpdatesOperands
    <3>6. CASE ReceiveOperand
      BY <1>2, <1>3, <2>2, <3>1, <3>6, ReceiveOperands
    <3> QED
      BY <1>7, <3>2, <3>3, <3>4, <3>5, <3>6 DEF Next
  <2>3. ASSUME ~ IsAttention
        PROVE  StandardInv'
    BY <1>2, <1>3, <1>5, <2>3, StandardStep
  <2> QED
    BY <2>1, <2>2, <2>3
<1>8. CASE Process
  <2>1. phase = "run" /\ phase' = phase
    BY <1>8, ProcessOperands
  <2>2. CASE IsAttention
    <3>1. WellShaped
      BY <1>2, <1>3, <2>2, AttentionShape
    <3> QED
      BY <1>3, <1>5, <1>8, <2>1, <2>2, <3>1, ProcessAttention
  <2>3. CASE ~ IsAttention
    <3>1. StandardInv'
      BY <1>2, <1>3, <1>5, <2>3, StandardStep
    <3>2. OutputIsProduct'
      <4>1. /\ DOMAIN owed' = OwedFields /\ owed'.product = [l \in Logical |-> Product(l)]
        BY <1>8, ProcessOperands
      <4>2. owed'.product = [l \in Logical |-> 0]
        BY <2>3, <4>1 DEF Product
      <4>3. output' = [l \in Logical |-> 0]
        BY <1>1, <3>1 DEF StandardInv, SameShape
      <4> QED
        BY <1>1, <4>1, <4>2, <4>3 DEF OutputIsProduct, SameShape
    <3> QED
      BY <2>3, <3>1, <3>2
  <2> QED
    BY <2>2, <2>3
<1> QED
  BY <1>7, <1>8

LEMMA ProductInvInit ==
  ASSUME Init
  PROVE  ProductInv
<1>1. /\ cfg \in Configurations /\ phase = "load" /\ sent = 0 /\ flight = {}
      /\ operands = [p \in Cores |-> NoOperands] /\ attention_pending = {}
      /\ shadow = [p \in Cores |-> [b \in {"lhs", "rhs"} |-> NoOperands[b]]]
      /\ output = [n \in Logical |-> 0] /\ owed = NothingOwed
  BY DEF Init
<1>2. /\ DOMAIN owed = OwedFields /\ owed.now = NoOperands /\ owed.total = NoOperands
      /\ owed.product = [l \in Logical |-> 0]
  BY <1>1 DEF NothingOwed, OwedFields
<1>3. OutputIsProduct
  BY <1>1, <1>2 DEF OutputIsProduct
<1>4. StandardInv
  BY <1>1 DEF StandardInv
<1>5. ASSUME OperandsFit, IsAttention
      PROVE  AttentionInv
  <2>1. Tensors(NoOperands) /\ \A b \in Buffers : \A i \in Slots(b) : NoOperands[b][i] = 0
    BY <1>5, NothingHeld
  <2>2. FlightOK
    <3>1. \A p, b, i : IsFiniteSet(Coming(p, b, i))
      BY <1>1, NoneComing, FS_EmptySet
    <3> QED
      BY <1>1, <3>1 DEF FlightOK
  <2>3. TensorsOK
    BY <1>1, <1>2, <2>1 DEF TensorsOK
  <2>4. OperandsOnTheirWay
    <3>1. SUFFICES ASSUME NEW p \in Cores, NEW b \in Buffers, NEW i \in Slots(b)
                   PROVE  operands[p][b][i] + SpikesIn(Coming(p, b, i)) = owed.now[b][i]
      BY DEF OperandsOnTheirWay
    <3>2. SpikesIn(Coming(p, b, i)) = 0
      BY <1>1, NoneComing
    <3>3. operands[p][b][i] = 0 /\ owed.now[b][i] = 0
      BY <1>1, <1>2, <2>1
    <3> QED
      BY <3>2, <3>3
  <2>5. ASSUME Incremental
        PROVE  ShadowIsTotal /\ ProductAccumulated
    <3>1. ShadowIsTotal
      BY <1>1, <1>2, <2>1 DEF ShadowIsTotal, Tensors, Buffers
    <3>2. ASSUME NEW g \in Logical
          PROVE  Accumulated(g) = 0
      <4> DEFINE f == [k \in Reduction(layer) |-> Before(g, k)]
      <4>1. WellShaped
        BY <1>1, <1>5, AttentionShape
      <4>2. ASSUME NEW k \in Reduction(layer)
            PROVE  Before(g, k) = 0
        <5>1. PICK i \in Slots("lhs"), j \in Slots("rhs") :
                  i = LhsAt(layer, g, k) /\ j = RhsAt(layer, g, k)
          BY Zenon, <2>5, <4>1, OutputSlots
        <5>2. NoOperands["lhs"][i] = 0 /\ NoOperands["rhs"][j] = 0
          BY <2>1 DEF Buffers
        <5>3. Before(g, k) = NoOperands.lhs[i] * NoOperands.rhs[j]
          BY <1>2, <5>1 DEF Before
        <5> QED
          BY <5>2, <5>3
      <4>3. \A k \in Reduction(layer) : f[k] = 0
        BY <4>2
      <4>4. Accumulated(g) = SumFunctionOnSet(f, Reduction(layer))
        BY AccumulatedIsSum
      <4> HIDE DEF f
      <4> QED
        BY <4>1, <4>3, <4>4, ReductionFinite, SumZero
    <3> QED
      BY <1>2, <3>1, <3>2 DEF ProductAccumulated
  <2> QED
    BY <2>2, <2>3, <2>4, <2>5 DEF AttentionInv
<1> QED
  BY <1>1, <1>3, <1>4, <1>5 DEF ProductInv

LEMMA ProductFromInv ==
  ASSUME ProductInv, OperandsFit
  PROVE  ProductMaintained
<1>1. /\ cfg \in Configurations /\ OutputIsProduct
      /\ ~ IsAttention => StandardInv
  BY DEF ProductInv
<1>2. CASE IsAttention
  <2>1. \A l \in Logical : Physical(l) = l
    BY <1>2 DEF Physical, physical_neuron_index, OperandsFit
  <2> QED
    BY <1>1, <2>1 DEF OutputIsProduct, ProductMaintained
<1>3. CASE ~ IsAttention
  <2>1. \A l \in Logical : Physical(l) \in Logical
    BY <1>1, Layout, NeuronOrdersInverse DEF Loadable, Logical, Physical, OperandsFit
  <2>2. \A l \in Logical : output[l] = 0 /\ owed.product[l] = 0
    BY <1>1, <1>3 DEF StandardInv, OutputIsProduct
  <2> QED
    BY <2>1, <2>2 DEF ProductMaintained
<1> QED
  BY <1>2, <1>3

(* The output of the attention, kept core by core from the operands that    *)
(* each core was sent, is the product of the whole operand tensors, for     *)
(* every shape, layout, cut into cores and order of arrival                 *)
(* (incremental_spike_matmul.cpp:59-60, timestep_spike_attention.cpp).      *)
THEOREM ProductsMaintained == Spec => [](OperandsFit => ProductMaintained)
<1>1. Init => ProductInv
  BY ProductInvInit
<1>2. ProductInv /\ [Next]_vars => ProductInv'
  BY ProductInvNext
<1>3. ProductInv => (OperandsFit => ProductMaintained)
  BY ProductFromInv
<1> QED
  BY <1>1, <1>2, <1>3, PTL DEF Spec

(***************************************************************************)
(* What the updates of a spike come to.  Gain is the weight they add to a  *)
(* logical neuron; a family restricts another to a core if it hits the     *)
(* neurons of the core as that does, and no other.                         *)
(***************************************************************************)
Laid == Sized(layer) /\ LayerValid(layer)
Targets(u) == {u[k][1] : k \in DOMAIN u}
Gain(u, l) == SumFunctionOnSet(Weights(u), Hitting(u, l, Logic))
FamilyFits(u) == IsFiniteSet(DOMAIN u) /\ \A k \in DOMAIN u : u[k][1] \in Logical /\ u[k][2] \in Int
SameFor(u, v, l) == (l \in Targets(u) <=> l \in Targets(v)) /\ Gain(u, l) = Gain(v, l)
Restricts(u, v, p) ==
    /\ FamilyFits(u)
    /\ \A l \in Logical : IF Partition(layer, l) = p THEN SameFor(u, v, l) ELSE l \notin Targets(u)

(* The updates of a spike that name neuron l.                              *)
LEMMA HitsAre ==
  ASSUME NEW u, NEW l
  PROVE  Hitting(u, l, Logic) = {k \in DOMAIN u : u[k][1] = l}
BY DEF Hitting, Logic

(* A neuron no update names gains nothing.                                 *)
LEMMA Untouched ==
  ASSUME NEW u, NEW l, l \notin Targets(u)
  PROVE  Gain(u, l) = 0
<1>1. Hitting(u, l, Logic) = {}
  BY HitsAre DEF Targets
<1> QED
  BY <1>1, SumEmpty DEF Gain

(* What a neuron gains of finitely many integer weights is an integer.     *)
LEMMA GainInt ==
  ASSUME NEW u, FamilyFits(u), NEW l
  PROVE  Gain(u, l) \in Int
<1> DEFINE H == Hitting(u, l, Logic)
           f == Weights(u)
<1>1. H \subseteq DOMAIN u /\ IsFiniteSet(H)
  <2>1. H \subseteq DOMAIN u
    BY HitsAre
  <2> QED
    BY <2>1, FS_Subset DEF FamilyFits
<1>2. \A k \in H : f[k] \in Int
  BY <1>1 DEF Weights, FamilyFits
<1> HIDE DEF H, f
<1>3. SumFunctionOnSet(f, H) \in Int
  BY <1>1, <1>2, SumInt
<1> QED
  BY <1>3 DEF Gain, H, f

(* A neuron belongs to one core, the one of its physical place.            *)
LEMMA CoreOf ==
  ASSUME Laid, NEW l \in Logical
  PROVE  /\ Physical(l) \in Logical /\ Partition(layer, l) \in Cores
         /\ logical_neuron_index(layer, Physical(l)) = l
         /\ \A p \in Cores : Physical(l) \in Neurons(layer, p) <=> p = Partition(layer, l)
<1>1. Cut
  BY DEF Laid, Cut, Sized, LayerValid
<1>2. l \in 0 .. layer.neurons - 1 /\ Sized(layer) /\ LayerValid(layer)
  BY DEF Laid, Logical
<1>3. Physical(l) \in Logical /\ logical_neuron_index(layer, Physical(l)) = l
  BY <1>2, NeuronOrdersInverse DEF Physical, Logical
<1> DEFINE n == Physical(l)
<1>4. n \div layer.max = Partition(layer, l)
  BY DEF Partition, Physical
<1> HIDE DEF n
<1>5. n \in Logical
  BY <1>3 DEF n
<1>6. n \div layer.max \in Cores /\ n \in Neurons(layer, n \div layer.max)
  BY <1>1, <1>5, HasCore
<1>7. ASSUME NEW p \in Cores
      PROVE  n \in Neurons(layer, p) <=> p = n \div layer.max
  <2>1. ASSUME n \in Neurons(layer, p) PROVE p = n \div layer.max
    BY <1>1, <2>1, OnCore
  <2> QED
    BY <1>6, <2>1
<1> QED
  BY <1>3, <1>4, <1>6, <1>7 DEF n

(* Two families that hit l at the same indices with the same weights.      *)
LEMMA SameHits ==
  ASSUME NEW u, NEW v, NEW l, FamilyFits(v),
         {k \in DOMAIN u : u[k][1] = l} = {k \in DOMAIN v : v[k][1] = l},
         \A k \in DOMAIN u : u[k][1] = l => u[k][2] = v[k][2]
  PROVE  SameFor(u, v, l)
<1> DEFINE H == {k \in DOMAIN u : u[k][1] = l}
<1>1. IsFiniteSet(H)
  <2>1. H \subseteq DOMAIN v
    OBVIOUS
  <2> QED
    BY <2>1, FS_Subset DEF FamilyFits
<1>2. \A k \in H : k \in DOMAIN u /\ k \in DOMAIN v /\ u[k][2] = v[k][2]
  OBVIOUS
<1>3. Gain(u, l) = SumFunctionOnSet(Weights(u), H) /\ Gain(v, l) = SumFunctionOnSet(Weights(v), H)
  BY HitsAre DEF Gain
<1>4. \A k \in H : Weights(u)[k] = Weights(v)[k]
  BY <1>2 DEF Weights
<1>5. l \in Targets(u) <=> l \in Targets(v)
  <2>1. l \in Targets(u) <=> H # {}
    BY DEF Targets
  <2>2. l \in Targets(v) <=> H # {}
    BY DEF Targets
  <2> QED
    BY <2>1, <2>2
<1> HIDE DEF H
<1>6. SumFunctionOnSet(Weights(u), H) = SumFunctionOnSet(Weights(v), H)
  BY <1>1, <1>4, SumCongruence
<1> QED
  BY <1>3, <1>5, <1>6 DEF SameFor

(* The updates a core filters out of the whole are its share of them.      *)
LEMMA OnPartitionRestricts ==
  ASSUME Laid, NEW v, FamilyFits(v), NEW p \in Cores
  PROVE  Restricts(OnPartition(layer, p, v), v, p)
<1> DEFINE u == OnPartition(layer, p, v)
<1>1. DOMAIN u = {j \in DOMAIN v : Physical(v[j][1]) \in Neurons(layer, p)}
  BY DEF OnPartition, Physical
<1>2. \A k \in DOMAIN u : u[k] = v[k]
  BY DEF OnPartition
<1> HIDE DEF u
<1>3. \A k \in DOMAIN v : k \in DOMAIN u <=> Partition(layer, v[k][1]) = p
  BY <1>1, CoreOf DEF FamilyFits
<1>4. FamilyFits(u)
  <2>1. IsFiniteSet(DOMAIN u)
    BY <1>1, FS_Subset DEF FamilyFits
  <2> QED
    BY <1>1, <1>2, <2>1 DEF FamilyFits
<1>5. ASSUME NEW l \in Logical, Partition(layer, l) = p
      PROVE  SameFor(u, v, l)
  <2>1. {k \in DOMAIN u : u[k][1] = l} = {k \in DOMAIN v : v[k][1] = l}
    BY <1>1, <1>2, <1>3, <1>5
  <2> QED
    BY <1>2, <2>1, SameHits
<1>6. ASSUME NEW l \in Logical, Partition(layer, l) # p
      PROVE  l \notin Targets(u)
  BY <1>1, <1>2, <1>3, <1>6 DEF Targets
<1> QED
  BY <1>4, <1>5, <1>6 DEF Restricts, u

(* A core that walks its own neurons (synapse.cpp, dense) does its share.  *)
LEMMA DenseRestricts ==
  ASSUME Laid, NEW w, NEW s, FamilyFits(DenseUpdates(layer, w, s)), NEW p \in Cores
  PROVE  Restricts(DenseRange(layer, w, s, p), DenseUpdates(layer, w, s), p)
<1> DEFINE u == DenseRange(layer, w, s, p)
           v == DenseUpdates(layer, w, s)
           log(n) == logical_neuron_index(layer, n)
<1>1. DOMAIN v = Logical /\ \A l \in Logical : v[l] = <<l, w.weight[s * layer.neurons + l]>>
  BY DEF DenseUpdates, Logical
<1>2. /\ DOMAIN u = Neurons(layer, p)
      /\ \A n \in Neurons(layer, p) : u[n] = <<log(n), w.weight[s * layer.neurons + log(n)]>>
  BY DEF DenseRange
<1>3. \A n \in Neurons(layer, p) :
          n \in Logical /\ log(n) \in Logical /\ Physical(log(n)) = n
  <2> TAKE n \in Neurons(layer, p)
  <2>1. n \in Logical
    <3>1. Cut
      BY DEF Laid, Cut, Sized, LayerValid
    <3> QED
      BY <3>1, OnCore
  <2> QED
    BY <2>1, NeuronOrdersInverse DEF Laid, Logical, Physical
<1> HIDE DEF u, v, log
<1>4. \A n \in Neurons(layer, p) : u[n] = v[log(n)] /\ u[n][1] = log(n)
  BY <1>1, <1>2, <1>3
<1>5. FamilyFits(u)
  <2>1. IsFiniteSet(DOMAIN u)
    <3>1. Neurons(layer, p) \subseteq DOMAIN v
      BY <1>1, <1>3
    <3> QED
      BY <1>2, <3>1, FS_Subset DEF FamilyFits, v
  <2>2. \A n \in DOMAIN u : u[n][1] \in Logical /\ u[n][2] \in Int
    BY <1>1, <1>2, <1>3, <1>4 DEF FamilyFits, v
  <2> QED
    BY <2>1, <2>2 DEF FamilyFits
<1>6. ASSUME NEW l \in Logical, Partition(layer, l) = p
      PROVE  SameFor(u, v, l)
  <2> DEFINE n == Physical(l)
  <2>1. n \in Neurons(layer, p) /\ log(n) = l
    BY <1>6, CoreOf DEF log
  <2> HIDE DEF n
  <2>2. {k \in DOMAIN u : u[k][1] = l} = {n} /\ {k \in DOMAIN v : v[k][1] = l} = {l}
    <3>1. \A k \in DOMAIN u : u[k][1] = l => k = n
      BY <1>2, <1>3, <1>4, <2>1
    <3>2. n \in DOMAIN u /\ u[n][1] = l
      BY <1>2, <1>4, <2>1
    <3>3. \A k \in DOMAIN v : v[k][1] = k
      BY <1>1
    <3> QED
      BY <1>1, <3>1, <3>2, <3>3
  <2>3. l \in Targets(u) /\ l \in Targets(v)
    BY <2>2 DEF Targets
  <2>4. Weights(u)[n] = u[n][2] /\ Weights(v)[l] = v[l][2] /\ u[n] = v[l]
    BY <1>1, <1>2, <1>4, <2>1 DEF Weights
  <2>5. Gain(u, l) = SumFunctionOnSet(Weights(u), {n})
        /\ Gain(v, l) = SumFunctionOnSet(Weights(v), {l})
    <3>1. Hitting(u, l, Logic) = {n} /\ Hitting(v, l, Logic) = {l}
      BY <2>2, HitsAre
    <3> QED
      BY Zenon, <3>1 DEF Gain
  <2>6. /\ SumFunctionOnSet(Weights(u), {n}) = Weights(u)[n]
        /\ SumFunctionOnSet(Weights(v), {l}) = Weights(v)[l]
    <3>1. ASSUME NEW f, NEW x, f[x] \in Int
          PROVE  SumFunctionOnSet(f, {x}) = f[x]
      <4>1. SumFunctionOnSet(f, {x}) = f[x] + SumFunctionOnSet(f, {x} \ {x})
        BY <3>1, SumTake, FS_Singleton
      <4>2. {x} \ {x} = {}
        OBVIOUS
      <4>3. SumFunctionOnSet(f, {}) = 0
        BY SumEmpty
      <4> QED
        BY <3>1, <4>1, <4>2, <4>3
    <3>2. v[l][2] \in Int
      BY <1>1 DEF FamilyFits, v
    <3> QED
      BY <2>4, <3>1, <3>2
  <2> QED
    BY <2>3, <2>4, <2>5, <2>6 DEF SameFor
<1>7. ASSUME NEW l \in Logical, Partition(layer, l) # p
      PROVE  l \notin Targets(u)
  <2>1. SUFFICES ASSUME NEW n \in Neurons(layer, p), log(n) = l PROVE FALSE
    BY <1>2, <1>4 DEF Targets
  <2>2. Physical(l) = n
    BY <1>3, <2>1
  <2> QED
    BY <1>7, <2>1, <2>2, CoreOf
<1> QED
  BY <1>5, <1>6, <1>7 DEF Restricts, u, v

(* The channels that SpatialRange goes over are those that lie on the core: *)
(* in channel-major order the places of one channel follow each other, so   *)
(* that the channels at a place are a neuron every `places` apart.          *)
LEMMA CeilBelow ==
  ASSUME NEW a \in Nat, NEW b \in Nat \ {0}, NEW c \in Nat
  PROVE  Ceil(a, b) \in Int /\ (Ceil(a, b) <= c <=> a <= c * b)
<1> DEFINE q == (a + b - 1) \div b
           r == (a + b - 1) % b
           x == q * b
           y == c * b
<1>1. a + b - 1 \in Nat
  OBVIOUS
<1>2. q \in Nat /\ r \in 0 .. b - 1 /\ a + b - 1 = x + r
  BY <1>1, DivMod
<1>3. Ceil(a, b) = q
  BY DEF Ceil
<1> HIDE DEF q, r
<1>4. x \in Nat /\ y \in Nat
  BY <1>2
<1>5. q <= c => x <= y
  <2>1. CASE q = c
    BY <1>4, <2>1
  <2>2. CASE q < c
    <3>1. x + b <= y
      BY <1>2, <2>2, ProductBelow
    <3> QED
      BY <1>4, <3>1
  <2> QED
    BY <1>2, <2>1, <2>2
<1>6. c < q => y + b <= x
  BY <1>2, ProductBelow
<1> HIDE DEF x, y
<1>7. q <= c => a <= y
  BY <1>2, <1>4, <1>5
<1>8. c < q => ~(a <= y)
  BY <1>2, <1>4, <1>6
<1> QED
  BY <1>2, <1>3, <1>7, <1>8 DEF y

(* A quotient is the last multiple that is not above.                      *)
LEMMA DivFrom ==
  ASSUME NEW a \in Nat, NEW b \in Nat \ {0}, NEW c \in Nat
  PROVE  a \div b \in Nat /\ (c < a \div b + 1 <=> c * b <= a)
<1> DEFINE q == a \div b
           r == a % b
           x == q * b
           y == c * b
<1>1. q \in Nat /\ r \in 0 .. b - 1 /\ a = x + r
  BY DivMod
<1> HIDE DEF q, r
<1>2. x \in Nat /\ y \in Nat
  BY <1>1
<1>3. c < q + 1 => y <= x
  <2>1. CASE q = c
    BY <1>2, <2>1
  <2>2. CASE c < q
    <3>1. y + b <= x
      BY <1>1, <2>2, ProductBelow
    <3> QED
      BY <1>2, <3>1
  <2> QED
    BY <1>1, <2>1, <2>2
<1>4. q < c => x + b <= y
  BY <1>1, ProductBelow
<1> HIDE DEF x, y
<1>5. c < q + 1 => y <= a
  BY <1>1, <1>2, <1>3
<1>6. ~(c < q + 1) => ~(y <= a)
  BY <1>1, <1>2, <1>4
<1> QED
  BY <1>1, <1>5, <1>6 DEF q, y

(* Where the channel c at place x is.                                      *)
LEMMA PlaceOf ==
  ASSUME Laid, NEW w, w.cout = layer.channels, w.cout # 0, NEW x \in Nat, NEW c \in 0 .. w.cout - 1
  PROVE  LET n == Physical(x * w.cout + c)
         IN  IF layer.order = "channel_major" THEN n = c * (layer.neurons \div w.cout) + x
             ELSE n = x * w.cout + c
<1> DEFINE C == w.cout
           l == x * C + c
<1>1. C \in Nat \ {0} /\ c \in 0 .. C - 1
  BY DEF Laid, Sized
<1>2. l \div C = x /\ l % C = c
  <2> HIDE DEF C
  <2> QED
    BY <1>1, DivUnique
<1> HIDE DEF l
<1>3. layer.order \in {"logical", "channel_major"}
  BY DEF Laid, Sized
<1>4. Physical(l) = IF layer.order = "logical" THEN l
                    ELSE (l % C) * (layer.neurons \div C) + l \div C
  BY DEF Physical, physical_neuron_index
<1> QED
  BY <1>2, <1>3, <1>4 DEF l

(* The range of channels a core works out for a place holds exactly the    *)
(* channels whose neuron it has.                                           *)
LEMMA ChannelsOnCore ==
  ASSUME Laid, NEW w, w.cout = layer.channels, w.cout # 0, NEW p \in Cores,
         NEW x \in Nat, NEW c \in 0 .. w.cout - 1
  PROVE  c \in FirstChannel(layer, w, x, p) .. LastChannel(layer, w, x, p) - 1
            <=> Physical(x * w.cout + c) \in Neurons(layer, p)
<1> DEFINE C == w.cout
           S == layer.neurons \div C
           b == Begin(layer, p)
           e == End(layer, p)
           n == Physical(x * C + c)
           major == layer.order = "channel_major"
           from == IF major THEN x ELSE x * C
           low == IF b <= from THEN 0 ELSE IF major THEN Ceil(b - from, S) ELSE b - from
           high == IF e <= from THEN 0 ELSE IF major THEN (e - 1 - from) \div S + 1 ELSE e - from
<1>1. C \in Nat \ {0} /\ b \in Nat /\ e \in Int /\ x * C \in Nat
  <2>1. p \in Nat /\ layer.max \in Nat \ {0} /\ layer.neurons \in Nat
    BY DEF Laid, Sized, Cores, Partitions
  <2>2. p * layer.max \in Nat
    BY <2>1
  <2>3. C \in Nat \ {0}
    BY DEF Laid, Sized
  <2>4. x * C \in Nat
    BY <2>3
  <2> HIDE DEF C
  <2> QED
    BY <2>1, <2>2, <2>3, <2>4 DEF Begin, End, Least
<1>2. /\ FirstChannel(layer, w, x, p) = Least(low, C)
      /\ LastChannel(layer, w, x, p) = Least(high, C)
  BY DEF FirstChannel, LastChannel
<1>3. Neurons(layer, p) = b .. e - 1
  BY DEF Neurons
<1>4. major => S \in Nat \ {0}
  BY Channels DEF Laid
<1>5. n = IF major THEN c * S + x ELSE x * C + c
  BY PlaceOf
<1> HIDE DEF C, S, b, e, n
<1>6. from \in Nat
  BY <1>1
<1>7. ASSUME major
      PROVE  /\ low \in Int /\ high \in Int
             /\ low <= c <=> b <= n
             /\ c < high <=> n < e
  <2> DEFINE y == c * S
  <2>1. y \in Nat /\ n = y + x /\ from = x
    BY <1>4, <1>5, <1>7
  <2>2. low \in Int /\ (low <= c <=> b <= n)
    <3>1. CASE b <= x
      <4>1. low = 0
        BY <2>1, <3>1
      <4> HIDE DEF low, y
      <4> QED
        BY <1>1, <2>1, <3>1, <4>1
    <3>2. CASE ~(b <= x)
      <4>1. low = Ceil(b - x, S) /\ b - x \in Nat
        BY <1>1, <1>7, <2>1, <3>2
      <4>2. low \in Int /\ (low <= c <=> b - x <= c * S)
        BY <1>4, <1>7, <4>1, CeilBelow
      <4>3. low \in Int /\ (low <= c <=> b - x <= y)
        BY <4>2
      <4> HIDE DEF low, y
      <4> QED
        BY <1>1, <2>1, <4>3
    <3> QED
      BY <3>1, <3>2
  <2>3. high \in Int /\ (c < high <=> n < e)
    <3>1. CASE e <= x
      <4>1. high = 0
        BY <2>1, <3>1
      <4> HIDE DEF high, y
      <4> QED
        BY <1>1, <2>1, <3>1, <4>1
    <3>2. CASE ~(e <= x)
      <4>1. high = (e - 1 - x) \div S + 1 /\ e - 1 - x \in Nat
        BY <1>1, <1>7, <2>1, <3>2
      <4>2. high \in Int /\ (c < high <=> c * S <= e - 1 - x)
        <5> DEFINE a == e - 1 - x
        <5>1. a \in Nat /\ high = a \div S + 1
          BY <4>1
        <5> HIDE DEF a, high
        <5>2. a \div S \in Nat /\ (c < a \div S + 1 <=> c * S <= a)
          BY <1>4, <1>7, <5>1, DivFrom
        <5> QED
          BY <5>1, <5>2 DEF a
      <4>3. high \in Int /\ (c < high <=> y <= e - 1 - x)
        BY <4>2
      <4> HIDE DEF high, y
      <4> QED
        BY <1>1, <2>1, <4>3
    <3> QED
      BY <3>1, <3>2
  <2> QED
    BY <2>2, <2>3
<1>8. ASSUME ~ major
      PROVE  /\ low \in Int /\ high \in Int
             /\ low <= c <=> b <= n
             /\ c < high <=> n < e
  <2> DEFINE y == x * C
  <2>1. y \in Nat /\ n = y + c /\ from = y
    BY <1>1, <1>5, <1>8
  <2>2. /\ low = IF b <= y THEN 0 ELSE b - y
        /\ high = IF e <= y THEN 0 ELSE e - y
    BY <1>8, <2>1
  <2> HIDE DEF y, low, high
  <2> QED
    BY <1>1, <2>1, <2>2
<1> HIDE DEF low, high, major
<1>9. /\ low \in Int /\ high \in Int
      /\ low <= c <=> b <= n
      /\ c < high <=> n < e
  BY <1>7, <1>8
<1>10. n \in Int
  <2>1. major => c * S \in Int
    BY <1>4
  <2> QED
    BY <1>1, <1>5, <2>1
<1>11. c \in Int /\ c < C
  BY <1>1 DEF C
<1>12. /\ Least(low, C) \in Int /\ Least(high, C) \in Int
       /\ Least(low, C) <= c <=> low <= c
       /\ c < Least(high, C) <=> c < high
  <2>1. \A a \in Int : /\ Least(a, C) \in Int
                       /\ \A d \in Int : /\ d < Least(a, C) <=> d < a /\ d < C
                                         /\ Least(a, C) <= d <=> a <= d \/ C <= d
    BY <1>1 DEF Least
  <2>2. ~(C <= c)
    BY <1>1, <1>11
  <2> QED
    BY <1>9, <1>11, <2>1, <2>2
<1>13. c \in Least(low, C) .. Least(high, C) - 1 <=> n \in b .. e - 1
  BY <1>1, <1>9, <1>10, <1>11, <1>12
<1> QED
  BY <1>2, <1>3, <1>13 DEF C, n

(***************************************************************************)
(* A connection of a loaded model, and a spike whose updates are for       *)
(* neurons of the layer.                                                   *)
(***************************************************************************)
SpikeFits(w, s) ==
    /\ FamilyFits(Whole(w, s))
    /\ w.type = "spatial" => \A e \in DOMAIN Entries(w, s) : Entries(w, s)[e].spatial \in Nat
    /\ w.type = "crossbar" => w.partition[s] \in Int
Accepted(w) ==
    /\ w.type \in ConnectionTypes
    /\ w.type = "spatial" => w.cout = layer.channels /\ w.cout # 0

(* A spatial update names the channel-th neuron of its place.              *)
LEMMA SpatialFamily ==
  ASSUME NEW w, NEW s, ~ w.channelwise
  PROVE  /\ DOMAIN SpatialUpdates(w, s) = (DOMAIN Entries(w, s)) \X (0 .. w.cout - 1)
         /\ \A e \in DOMAIN Entries(w, s) : \A c \in 0 .. w.cout - 1 :
               SpatialUpdates(w, s)[<<e, c>>][1] = Entries(w, s)[e].spatial * w.cout + c
<1> DEFINE row == (s % w.cin) * (Size(w.weight) \div w.cin)
           E == Entries(w, s)
           D == DOMAIN Entries(w, s)
           R == 0 .. w.cout - 1
<1>1. SpatialUpdates(w, s) = [x \in D \X R |->
            <<E[x[1]].spatial * w.cout + x[2], w.weight[row + E[x[1]].weight + x[2]]>>]
  BY Zenon DEF SpatialUpdates
<1> HIDE DEF row, E, D, R
<1>2. ASSUME NEW e \in D, NEW c \in R
      PROVE  SpatialUpdates(w, s)[<<e, c>>][1] = E[e].spatial * w.cout + c
  <2> DEFINE x == <<e, c>>
  <2>1. x \in D \X R /\ x[1] = e /\ x[2] = c
    OBVIOUS
  <2> HIDE DEF x
  <2>2. SpatialUpdates(w, s)[x]
          = <<E[x[1]].spatial * w.cout + x[2], w.weight[row + E[x[1]].weight + x[2]]>>
    BY <1>1, <2>1
  <2>3. SpatialUpdates(w, s)[x][1] = E[x[1]].spatial * w.cout + x[2]
    BY <2>2
  <2> QED
    BY <2>1, <2>3 DEF x
<1>3. DOMAIN SpatialUpdates(w, s) = D \X R
  BY <1>1
<1> QED
  BY <1>2, <1>3 DEF D, R, E

(* A core that cuts the channel range of each entry does its share.        *)
LEMMA SpatialRestricts ==
  ASSUME Laid, NEW w, NEW s, w.type = "spatial", Accepted(w), SpikeFits(w, s), NEW p \in Cores
  PROVE  SpatialRange(layer, w, s, p) = OnPartition(layer, p, SpatialUpdates(w, s))
<1>1. CASE w.channelwise
  BY <1>1 DEF SpatialRange
<1>2. CASE ~ w.channelwise
  <2> DEFINE U == SpatialUpdates(w, s)
             E == Entries(w, s)
             In(y) == y[2] \in FirstChannel(layer, w, E[y[1]].spatial, p)
                                 .. LastChannel(layer, w, E[y[1]].spatial, p) - 1
             Here(y) == Physical(U[y][1]) \in Neurons(layer, p)
  <2>1. SpatialRange(layer, w, s, p) = [x \in {y \in DOMAIN U : In(y)} |-> U[x]]
    BY <1>2, Zenon DEF SpatialRange
  <2>2. OnPartition(layer, p, U) = [x \in {y \in DOMAIN U : Here(y)} |-> U[x]]
    BY DEF OnPartition, Physical
  <2>3. ASSUME NEW y \in DOMAIN U
        PROVE  In(y) <=> Here(y)
    <3>1. y \in (DOMAIN E) \X (0 .. w.cout - 1)
      BY <1>2, SpatialFamily
    <3>2. PICK e \in DOMAIN E, c \in 0 .. w.cout - 1 : y = <<e, c>>
      BY <3>1
    <3>3. PICK x : x = E[e].spatial
      OBVIOUS
    <3>4. x \in Nat /\ U[y][1] = x * w.cout + c
      BY <1>2, <3>2, <3>3, SpatialFamily DEF SpikeFits
    <3>5. w.cout = layer.channels /\ w.cout # 0
      BY DEF Accepted
    <3>6. c \in FirstChannel(layer, w, x, p) .. LastChannel(layer, w, x, p) - 1
            <=> Physical(x * w.cout + c) \in Neurons(layer, p)
      BY <3>4, <3>5, ChannelsOnCore
    <3>7. y[1] = e /\ y[2] = c
      BY <3>2
    <3> HIDE DEF E, U
    <3> QED
      BY Zenon, <3>3, <3>4, <3>6, <3>7
  <2>4. {y \in DOMAIN U : In(y)} = {y \in DOMAIN U : Here(y)}
    BY <2>3
  <2> QED
    BY Zenon, <2>1, <2>2, <2>4
<1> QED
  BY <1>1, <1>2

(* On each core, the updates of a spike are those of the whole layer that   *)
(* are for its neurons.                                                     *)
LEMMA RangeRestricts ==
  ASSUME Laid, NEW w, NEW s, Accepted(w), SpikeFits(w, s), w.type \notin {"crossbar", "attention"},
         NEW p \in Cores
  PROVE  Restricts(Updates(layer, w, s, p), Whole(w, s), p)
<1>1. FamilyFits(Whole(w, s))
  BY DEF SpikeFits
<1>2. CASE w.type \in {"identity", "local_state_buffer"}
  <2>1. /\ Updates(layer, w, s, p) = OnPartition(layer, p, IdentityUpdates(layer, w, s))
        /\ Whole(w, s) = IdentityUpdates(layer, w, s)
    BY <1>2 DEF Updates, Whole
  <2> QED
    BY <1>1, <2>1, OnPartitionRestricts
<1>3. CASE w.type = "grouped_dense"
  <2>1. /\ Updates(layer, w, s, p) = OnPartition(layer, p, GroupedUpdates(w, s))
        /\ Whole(w, s) = GroupedUpdates(w, s)
    BY <1>3 DEF Updates, Whole
  <2> QED
    BY <1>1, <2>1, OnPartitionRestricts
<1>4. CASE w.type = "dense"
  <2>1. /\ Updates(layer, w, s, p) = DenseRange(layer, w, s, p)
        /\ Whole(w, s) = DenseUpdates(layer, w, s)
    BY <1>4 DEF Updates, Whole
  <2> QED
    BY <1>1, <2>1, DenseRestricts
<1>5. CASE w.type = "spatial"
  <2>1. /\ Updates(layer, w, s, p) = SpatialRange(layer, w, s, p)
        /\ Whole(w, s) = SpatialUpdates(w, s)
    BY <1>5 DEF Updates, Whole
  <2>2. Updates(layer, w, s, p) = OnPartition(layer, p, SpatialUpdates(w, s))
    BY <1>5, <2>1, SpatialRestricts
  <2> QED
    BY <1>1, <2>1, <2>2, OnPartitionRestricts
<1> QED
  BY <1>2, <1>3, <1>4, <1>5 DEF Accepted, ConnectionTypes

(* No core is empty.                                                       *)
LEMMA FirstNeuron ==
  ASSUME Laid, NEW q \in Cores
  PROVE  q \in Nat /\ q * layer.max \in Nat /\ q * layer.max < layer.neurons
<1>1. /\ layer.neurons \in Nat /\ layer.max \in Nat \ {0}
      /\ q \in 0 .. Ceil(layer.neurons, layer.max) - 1
  BY DEF Laid, Sized, Cores, Partitions
<1>2. /\ Ceil(layer.neurons, layer.max) \in Int
      /\ q \in Nat => (Ceil(layer.neurons, layer.max) <= q <=> layer.neurons <= q * layer.max)
  BY <1>1, CeilBelow
<1>3. q \in Nat /\ ~(Ceil(layer.neurons, layer.max) <= q)
  BY <1>1, <1>2
<1>4. q * layer.max \in Nat
  BY <1>1, <1>3
<1> QED
  BY <1>1, <1>2, <1>3, <1>4

(* With whole channels on every core, each core has a channel of any place. *)
LEMMA ChannelOnCore ==
  ASSUME Laid, NEW w, w.cout = layer.channels, w.cout # 0, WholeChannels(layer), NEW q \in Cores,
         NEW x \in Nat, \A c \in 0 .. w.cout - 1 : x * w.cout + c \in Logical
  PROVE  \E c \in 0 .. w.cout - 1 : Partition(layer, x * w.cout + c) = q
<1> DEFINE C == w.cout
           S == layer.neurons \div C
           M == layer.max
           m == M \div S
           c == q * m
<1>1. /\ layer.order = "channel_major" /\ C = layer.channels
      /\ S <= M /\ M % S = 0 /\ M \in Nat \ {0}
  BY DEF WholeChannels, Laid, Sized
<1>2. C \in Nat \ {0} /\ S \in Nat \ {0} /\ layer.neurons = S * C
  BY <1>1, Channels DEF Laid
<1>3. q \in Nat /\ q * M \in Nat /\ q * M < S * C
  BY <1>2, FirstNeuron
<1>4. x * C + 0 \in 0 .. S * C - 1
  <2>1. 0 \in 0 .. C - 1
    BY <1>2
  <2> QED
    BY <1>2, <2>1 DEF Logical
<1>5. \A d \in 0 .. C - 1 : Partition(layer, x * C + d) = (d * S + x) \div M
  <2> TAKE d \in 0 .. C - 1
  <2>1. Physical(x * C + d) = d * S + x
    BY <1>1, PlaceOf
  <2> QED
    BY <2>1 DEF Partition, Physical
<1> HIDE DEF C, S, M
<1>6. m \in Nat /\ M = m * S
  <2>1. m \in Nat /\ M = m * S + (M % S)
    BY <1>1, <1>2, DivMod
  <2>2. m * S \in Nat
    BY <1>2, <2>1
  <2> HIDE DEF m
  <2> QED
    BY <1>1, <2>1, <2>2
<1> HIDE DEF m
<1>7. x < S
  <2> SUFFICES ASSUME ~(x < S) PROVE FALSE
    OBVIOUS
  <2>1. x * C \in Nat /\ S * C \in Nat /\ x * C < S * C
    <3>1. x * C \in Nat /\ S * C \in Nat
      BY <1>2
    <3> QED
      BY <1>4, <3>1
  <2>2. CASE x = S
    BY <2>1, <2>2
  <2>3. CASE S < x
    <3>1. S * C + C <= x * C
      BY <1>2, <2>3, ProductBelow
    <3> QED
      BY <1>2, <2>1, <3>1
  <2> QED
    BY <1>2, <2>2, <2>3
<1>8. c \in Nat /\ c * S = q * M
  BY <1>2, <1>3, <1>6
<1> HIDE DEF c
<1>9. c < C
  <2> SUFFICES ASSUME ~(c < C) PROVE FALSE
    OBVIOUS
  <2>1. c * S \in Nat /\ C * S \in Nat /\ C * S = S * C
    BY <1>2, <1>8
  <2>2. CASE c = C
    BY <1>3, <1>8, <2>1, <2>2
  <2>3. CASE C < c
    <3>1. C * S + S <= c * S
      BY <1>2, <1>8, <2>3, ProductBelow
    <3> QED
      BY <1>2, <1>3, <1>8, <2>1, <3>1
  <2> QED
    BY <1>2, <1>8, <2>2, <2>3
<1>10. c \in 0 .. C - 1
  BY <1>2, <1>8, <1>9
<1>11. (q * M + x) \div M = q
  <2>1. x \in 0 .. M - 1
    BY <1>1, <1>2, <1>7
  <2> QED
    BY <1>1, <1>3, <2>1, DivUnique
<1>12. Partition(layer, x * C + c) = q
  BY <1>5, <1>8, <1>10, <1>11
<1> QED
  BY <1>10, <1>12 DEF C

(* A spike is sent to the cores it has an update for, and to no other       *)
(* (for_each_destination_partition).                                        *)
LEMMA SentWhereNeeded ==
  ASSUME Laid, NEW w, NEW s, Accepted(w), SpikeFits(w, s),
         w.type \in {"identity", "grouped_dense", "dense", "spatial"}
  PROVE  /\ \A t \in Targets(Whole(w, s)) : Partition(layer, t) \in Destinations(layer, w, s)
         /\ \A q \in Destinations(layer, w, s) :
               /\ q \in Cores
               /\ \E t \in Targets(Whole(w, s)) : Partition(layer, t) = q
<1> DEFINE T == Targets(Whole(w, s))
           D == Destinations(layer, w, s)
<1>1. \A t \in T : t \in Logical /\ Partition(layer, t) \in Cores
  <2>1. T \subseteq Logical
    BY DEF SpikeFits, FamilyFits, Targets
  <2> QED
    BY <2>1, CoreOf
<1>2. ASSUME D = {Partition(layer, t) : t \in T}
      PROVE  /\ \A t \in T : Partition(layer, t) \in D
             /\ \A q \in D : q \in Cores /\ \E t \in T : Partition(layer, t) = q
  <2> HIDE DEF T, D
  <2> QED
    BY <1>1, <1>2
<1>3. CASE w.type = "identity"
  <2>1. D = {Partition(layer, s)}
    BY <1>3 DEF Destinations
  <2>2. T = {s}
    <3>1. Whole(w, s) = <<<<s, ValueOf(layer, w.weight, s)>>>>
      BY <1>3 DEF Whole, IdentityUpdates
    <3> QED
      BY <3>1 DEF Targets
  <2> QED
    BY <1>2, <2>1, <2>2
<1>4. CASE w.type = "grouped_dense"
  <2>1. D = {Partition(layer, t) : t \in T}
    BY <1>4 DEF Destinations, Touched, Targets, Whole
  <2> QED
    BY <1>2, <2>1
<1>5. CASE w.type = "dense"
  <2>1. D = Cores
    BY <1>5 DEF Destinations, Cores
  <2>2. T = Logical
    BY <1>5 DEF Targets, Whole, DenseUpdates, Logical
  <2>3. ASSUME NEW q \in Cores
        PROVE  \E t \in Logical : Partition(layer, t) = q
    <3> DEFINE n == q * layer.max
               t == logical_neuron_index(layer, n)
    <3>1. n \in 0 .. layer.neurons - 1 /\ q \in Nat /\ layer.max \in Nat \ {0}
      BY FirstNeuron DEF Laid, Sized
    <3>2. t \in Logical /\ physical_neuron_index(layer, t) = n
      <4> HIDE DEF n
      <4> QED
        BY <3>1, NeuronOrdersInverse DEF Laid, Logical
    <3>3. n \div layer.max = q
      <4>1. (q * layer.max + 0) \div layer.max = q
        <5>1. 0 \in 0 .. layer.max - 1
          BY <3>1
        <5> QED
          BY <3>1, <5>1, DivUnique
      <4>2. n + 0 = n
        BY <3>1
      <4> QED
        BY <4>1, <4>2
    <3> HIDE DEF t, n
    <3> QED
      BY <3>2, <3>3 DEF Partition
  <2> QED
    BY <1>1, <2>1, <2>2, <2>3
<1>6. CASE w.type = "spatial"
  <2> DEFINE U == SpatialUpdates(w, s)
             E == Entries(w, s)
  <2>1. Whole(w, s) = U /\ D = SpatialPartitions(layer, w, s) /\ T = {U[k][1] : k \in DOMAIN U}
    BY <1>6 DEF Whole, Destinations, Targets
  <2>2. CASE DOMAIN E = {}
    <3>1. D = {}
      BY <2>1, <2>2 DEF SpatialPartitions
    <3>2. DOMAIN U = {}
      BY <2>2 DEF SpatialUpdates
    <3> QED
      BY <2>1, <3>1, <3>2
  <2>3. CASE DOMAIN E # {} /\ ~ w.channelwise /\ WholeChannels(layer)
    <3>1. D = Cores
      BY <2>1, <2>3 DEF SpatialPartitions, Cores
    <3>2. PICK e \in DOMAIN E : TRUE
      BY <2>3
    <3>3. PICK x \in Nat : x = E[e].spatial
      BY <1>6 DEF SpikeFits
    <3>4. \A c \in 0 .. w.cout - 1 : x * w.cout + c \in T
      <4> TAKE c \in 0 .. w.cout - 1
      <4>1. <<e, c>> \in DOMAIN U /\ U[<<e, c>>][1] = E[e].spatial * w.cout + c
        BY <2>3, SpatialFamily
      <4> QED
        BY <2>1, <3>3, <4>1
    <3>5. ASSUME NEW q \in Cores
          PROVE  \E t \in T : Partition(layer, t) = q
      <4>1. \A c \in 0 .. w.cout - 1 : x * w.cout + c \in Logical
        BY <1>1, <3>4
      <4>2. w.cout = layer.channels /\ w.cout # 0
        BY <1>6 DEF Accepted
      <4>3. \E c \in 0 .. w.cout - 1 : Partition(layer, x * w.cout + c) = q
        BY <2>3, <4>1, <4>2, ChannelOnCore
      <4> QED
        BY <3>4, <4>3
    <3> QED
      BY <1>1, <3>1, <3>5
  <2>4. CASE DOMAIN E # {} /\ ~(~ w.channelwise /\ WholeChannels(layer))
    <3>1. D = {Partition(layer, t) : t \in {U[k][1] : k \in DOMAIN U}}
      BY <2>1, <2>4 DEF SpatialPartitions, Touched
    <3> QED
      BY <1>2, <2>1, <3>1
  <2> QED
    BY <2>2, <2>3, <2>4
<1> QED
  BY <1>3, <1>4, <1>5, <1>6

(* The core that serves neuron l for a spike is one at most, and it does    *)
(* for l what the spike does to the whole layer; a core that is sent the    *)
(* spike and does not serve l leaves it alone, and has something to do.     *)
Serving(w, p, l) == w.type = "crossbar" \/ p = Partition(layer, l)
DeliveredTo(w, s, l) ==
    /\ \A p \in Destinations(layer, w, s) :
          IF Serving(w, p, l) THEN SameFor(Updates(layer, w, s, p), Whole(w, s), l)
          ELSE l \notin Targets(Updates(layer, w, s, p))
    /\ \A p, q \in Destinations(layer, w, s) : Serving(w, p, l) /\ Serving(w, q, l) => p = q
    /\ l \in Targets(Whole(w, s)) => \E p \in Destinations(layer, w, s) : Serving(w, p, l)

(* No updates fit, and name no neuron.                                     *)
LEMMA NoUpdates ==
  FamilyFits(<<>>) /\ Targets(<<>>) = {}
<1>1. DOMAIN <<>> = {}
  OBVIOUS
<1> QED
  BY <1>1, FS_EmptySet DEF FamilyFits, Targets

(* The destinations of a spike do together, and each in its share, what one *)
(* undivided layer would do.                                               *)
LEMMA Delivered ==
  ASSUME Laid, NEW w, NEW s, Accepted(w), SpikeFits(w, s), w.type # "local_state_buffer"
  PROVE  /\ \A l \in Logical : DeliveredTo(w, s, l)
         /\ \A p \in Destinations(layer, w, s) :
               /\ FamilyFits(Updates(layer, w, s, p))
               /\ Targets(Updates(layer, w, s, p)) \subseteq Targets(Whole(w, s))
               /\ w.type \notin {"attention", "crossbar"} => DOMAIN Updates(layer, w, s, p) # {}
<1> DEFINE D == Destinations(layer, w, s)
           U(p) == Updates(layer, w, s, p)
           V == Whole(w, s)
<1>0. FamilyFits(V)
  BY DEF SpikeFits
<1>1. CASE w.type = "attention"
  <2>1. V = <<>> /\ \A p : U(p) = <<>>
    BY <1>1 DEF Whole, Updates
  <2>2. \A l, p : Serving(w, p, l) <=> p = Partition(layer, l)
    BY <1>1 DEF Serving
  <2> HIDE DEF D, U, V
  <2>3. \A p \in D : FamilyFits(U(p)) /\ Targets(U(p)) \subseteq Targets(V)
    BY <2>1, NoUpdates
  <2>4. ASSUME NEW l \in Logical
        PROVE  DeliveredTo(w, s, l)
    <3>1. \A p : SameFor(U(p), V, l) /\ l \notin Targets(U(p))
      BY <2>1, NoUpdates DEF SameFor
    <3>2. l \notin Targets(V)
      BY <2>1, NoUpdates
    <3> QED
      BY <2>2, <3>1, <3>2 DEF DeliveredTo, D, U, V
  <2> QED
    BY <1>1, <2>3, <2>4 DEF D, U, V
<1>2. CASE w.type = "crossbar"
  <2>1. PICK q : q = w.partition[s]
    OBVIOUS
  <2>2. /\ q \in Int /\ D = {p \in {q} : p >= 0}
        /\ V = IF q < 0 THEN <<>> ELSE CrossbarRange(layer, w, s, q)
        /\ \A p : U(p) = CrossbarRange(layer, w, s, p)
    BY <1>2, <2>1 DEF SpikeFits, Whole, Updates, Destinations
  <2>3. \A l, p : Serving(w, p, l)
    BY <1>2 DEF Serving
  <2> HIDE DEF D, U, V
  <2>4. \A p \in D : U(p) = V /\ p = q
    BY <2>2
  <2>5. D = {} => V = <<>>
    BY <2>2
  <2>6. ASSUME NEW l \in Logical
        PROVE  DeliveredTo(w, s, l)
    <3>1. \A p \in D : SameFor(U(p), V, l)
      BY <2>4 DEF SameFor
    <3>2. l \in Targets(V) => D # {}
      BY <2>5, NoUpdates
    <3> QED
      BY <2>3, <2>4, <3>1, <3>2 DEF DeliveredTo, D, U, V
  <2> QED
    BY <1>0, <1>2, <2>4, <2>6 DEF D, U, V
<1>3. CASE w.type \notin {"attention", "crossbar"}
  <2>1. /\ \A t \in Targets(V) : Partition(layer, t) \in D
        /\ \A q \in D : q \in Cores /\ \E t \in Targets(V) : Partition(layer, t) = q
    <3>1. w.type \in {"identity", "grouped_dense", "dense", "spatial"}
      BY <1>3 DEF Accepted, ConnectionTypes
    <3> QED
      BY <3>1, SentWhereNeeded
  <2>2. \A p \in D : Restricts(U(p), V, p)
    BY <1>3, <2>1, RangeRestricts
  <2>3. \A l, p : Serving(w, p, l) <=> p = Partition(layer, l)
    BY <1>3 DEF Serving
  <2>4. Targets(V) \subseteq Logical
    BY <1>0 DEF FamilyFits, Targets
  <2> HIDE DEF D, U, V
  <2>5. ASSUME NEW l \in Logical
        PROVE  DeliveredTo(w, s, l)
    <3>1. \A p \in D : IF Partition(layer, l) = p THEN SameFor(U(p), V, l) ELSE l \notin Targets(U(p))
      BY <2>2 DEF Restricts
    <3> QED
      BY <2>1, <2>3, <3>1 DEF DeliveredTo, D, U, V
  <2>6. ASSUME NEW p \in D
        PROVE  /\ FamilyFits(U(p)) /\ Targets(U(p)) \subseteq Targets(V) /\ DOMAIN U(p) # {}
    <3>1. FamilyFits(U(p))
      BY <2>2 DEF Restricts
    <3>2. Targets(U(p)) \subseteq Targets(V)
      <4>1. SUFFICES ASSUME NEW t \in Targets(U(p)) PROVE t \in Targets(V)
        OBVIOUS
      <4>2. t \in Logical
        BY <3>1 DEF FamilyFits, Targets
      <4> QED
        BY <2>2, <4>1, <4>2 DEF Restricts, SameFor
    <3>3. DOMAIN U(p) # {}
      <4>1. PICK t \in Targets(V) : Partition(layer, t) = p
        BY <2>1
      <4>2. t \in Targets(U(p))
        BY <2>2, <2>4, <4>1 DEF Restricts, SameFor
      <4> QED
        BY <4>2 DEF Targets
    <3> QED
      BY <3>1, <3>2, <3>3
  <2> QED
    BY <2>5, <2>6 DEF D, U, V
<1> QED
  BY <1>1, <1>2, <1>3

(* What Add does to the input of a neuron, in either order.                 *)
LEMMA AddLogic ==
  ASSUME NEW input \in [Logical -> Int], NEW u, FamilyFits(u), NEW v \in Int
  PROVE  /\ Add(input, u, v, Logic) \in [Logical -> Int]
         /\ \A l \in Logical : Add(input, u, v, Logic)[l] = input[l] + v * Gain(u, l)
<1> DEFINE r == Add(input, u, v, Logic)
<1>1. r = [l \in Logical |-> input[l] + v * Gain(u, l)]
  BY DEF Add, Gain
<1>2. \A l \in Logical : Gain(u, l) \in Int
  BY GainInt
<1> HIDE DEF r
<1> QED
  BY <1>1, <1>2 DEF r

(* Every neuron of the cores is one of the layer.                          *)
LEMMA PhysicalOnto ==
  ASSUME Laid, NEW n \in Logical
  PROVE  \E l \in Logical : Physical(l) = n
<1>1. n \in 0 .. layer.neurons - 1 /\ Sized(layer) /\ LayerValid(layer)
  BY DEF Laid, Logical
<1>2. /\ logical_neuron_index(layer, n) \in Logical
      /\ Physical(logical_neuron_index(layer, n)) = n
  BY <1>1, NeuronOrdersInverse DEF Physical, Logical
<1> QED
  BY <1>2

(* The updates of a packet, done by a core.                                *)
LEMMA AddPhysical ==
  ASSUME Laid, NEW values \in [Logical -> Int], NEW u, FamilyFits(u), NEW v \in Int
  PROVE  /\ Add(values, u, v, Physical) \in [Logical -> Int]
         /\ \A l \in Logical :
               Add(values, u, v, Physical)[Physical(l)] = values[Physical(l)] + v * Gain(u, l)
<1> DEFINE r == Add(values, u, v, Physical)
           hit(n) == SumFunctionOnSet(Weights(u), Hitting(u, n, Physical))
<1>1. r = [n \in Logical |-> values[n] + v * hit(n)]
  BY DEF Add
<1>2. ASSUME NEW l \in Logical
      PROVE  Physical(l) \in Logical /\ hit(Physical(l)) = Gain(u, l)
  <2>1. \A k \in DOMAIN u : u[k][1] \in Logical
    BY DEF FamilyFits
  <2>2. \A m \in Logical : Physical(m) = Physical(l) => m = l
    BY CoreOf
  <2>3. {k \in DOMAIN u : Physical(u[k][1]) = Physical(l)} = {k \in DOMAIN u : u[k][1] = l}
    BY <2>1, <2>2
  <2>4. Hitting(u, l, Logic) = {k \in DOMAIN u : u[k][1] = l}
    BY HitsAre
  <2>5. Hitting(u, Physical(l), Physical) = {k \in DOMAIN u : Physical(u[k][1]) = Physical(l)}
    BY DEF Hitting
  <2>6. Hitting(u, Physical(l), Physical) = Hitting(u, l, Logic)
    BY <2>3, <2>4, <2>5
  <2> QED
    BY <2>6, CoreOf DEF Gain
<1>3. \A n \in Logical : hit(n) \in Int
  <2> TAKE n \in Logical
  <2>1. PICK l \in Logical : Physical(l) = n
    BY PhysicalOnto
  <2>2. hit(n) = Gain(u, l)
    BY <1>2, <2>1
  <2> HIDE DEF hit
  <2> QED
    BY <2>2, GainInt
<1> HIDE DEF r, hit
<1>4. r \in [Logical -> Int]
  BY <1>1, <1>3
<1>5. \A l \in Logical : r[Physical(l)] = values[Physical(l)] + v * Gain(u, l)
  BY <1>1, <1>2
<1> QED
  BY <1>4, <1>5 DEF r

(* What a spike owes, in the terms of the updates of the whole layer.      *)
LEMMA OweInput ==
  ASSUME DOMAIN owed = OwedFields, NEW w, NEW s, NEW v
  PROVE  /\ Owe(w, s, v).input = Add(owed.input, Whole(w, s), v, Logic)
         /\ Owe(w, s, v).touched = owed.touched \cup Targets(Whole(w, s))
<1>1. Owe(w, s, v).input = Add(owed.input, Whole(w, s), v, Logic)
  BY Zenon DEF OwedFields, Owe
<1>2. Owe(w, s, v).touched
        = owed.touched \cup {Whole(w, s)[k][1] : k \in DOMAIN Whole(w, s)}
  BY Zenon DEF OwedFields, Owe
<1> QED
  BY <1>1, <1>2 DEF Targets

(* One more term of a sum.                                                  *)
LEMMA SumOneMore ==
  ASSUME NEW S, IsFiniteSet(S), NEW x, x \notin S, NEW f, NEW g,
         \A y \in S : g[y] = f[y] /\ f[y] \in Int, g[x] \in Int
  PROVE  SumFunctionOnSet(g, S \cup {x}) = SumFunctionOnSet(f, S) + g[x]
<1> DEFINE T == S \cup {x}
<1>1. IsFiniteSet(T) /\ x \in T /\ T \ {x} = S /\ \A y \in T : g[y] \in Int
  BY FS_AddElement
<1> HIDE DEF T
<1>2. SumFunctionOnSet(g, T) = g[x] + SumFunctionOnSet(g, T \ {x})
  BY <1>1, SumTake
<1>3. SumFunctionOnSet(g, S) = SumFunctionOnSet(f, S)
  BY SumCongruence
<1>4. SumFunctionOnSet(f, S) \in Int
  BY SumInt
<1>5. PICK a \in Int, b \in Int : a = g[x] /\ b = SumFunctionOnSet(f, S)
  BY <1>1, <1>4
<1>6. SumFunctionOnSet(g, T) = a + b
  BY Zenon, <1>1, <1>2, <1>3, <1>5
<1>7. a + b = b + a
  OBVIOUS
<1> QED
  BY Zenon, <1>5, <1>6, <1>7 DEF T

(***************************************************************************)
(* The inductive invariant.  What a core holds of the input of a neuron    *)
(* and what is under way to it is what the spikes have made of that input; *)
(* a neuron is pending, or about to be, if a spike has touched it.         *)
(***************************************************************************)
UpdatesFit ==
    /\ Loadable
    /\ \A k \in DOMAIN cfg.conns : \A s \in 0 .. cfg.conns[k].sources - 1 :
          SpikeFits(cfg.conns[k], s)

Ups(x) == Updates(layer, cfg.conns[x.conn], x.source, x.partition)
Reaches(x, l) == Serving(cfg.conns[x.conn], x.partition, l)
Toward(l) == {x \in flight : Reaches(x, l)}
Shares(l) == [x \in flight |-> x.value * Gain(Ups(x), l)]
Awaited(l) == SumFunctionOnSet(Shares(l), Toward(l))
Woken(l) == Physical(l) \in pending \/ \E x \in flight : l \in Targets(Ups(x))

PacketFits(x) ==
    /\ x.conn \in DOMAIN cfg.conns /\ cfg.conns[x.conn].type # "local_state_buffer"
    /\ x.source \in 0 .. cfg.conns[x.conn].sources - 1 /\ x.value \in Int
    /\ x.partition \in Destinations(layer, cfg.conns[x.conn], x.source)
PacketsFit ==
    /\ sent \in Nat
    /\ \A x \in flight : PacketFits(x) /\ x.spike \in 0 .. sent - 1
    /\ \A l \in Logical : IsFiniteSet(Toward(l))
InputOnItsWay ==
    /\ buffer \in [Logical -> Int] /\ owed.input \in [Logical -> Int]
    /\ \A l \in Logical : buffer[Physical(l)] + Awaited(l) = owed.input[l]
TouchedOnTheirWay ==
    /\ pending \subseteq Logical /\ owed.touched \subseteq Logical
    /\ \A l \in Logical :
          /\ l \in owed.touched => Woken(l)
          /\ ~ IsAttention => (Woken(l) => l \in owed.touched)
ArrivalInv == PacketsFit /\ InputOnItsWay /\ TouchedOnTheirWay

(* What the hypotheses say of the layer and of each spike.                 *)
LEMMA FitsLaid ==
  ASSUME cfg \in Configurations, UpdatesFit
  PROVE  /\ Laid
         /\ \A k \in DOMAIN cfg.conns :
               /\ Accepted(cfg.conns[k]) /\ cfg.conns[k].sources \in Nat
               /\ \A s \in 0 .. cfg.conns[k].sources - 1 : SpikeFits(cfg.conns[k], s)
<1>1. Laid
  BY Layout DEF Laid, UpdatesFit, Loadable
<1>2. ASSUME NEW k \in DOMAIN cfg.conns
      PROVE  Accepted(cfg.conns[k]) /\ cfg.conns[k].sources \in Nat
  <2> DEFINE w == cfg.conns[k]
  <2>1. /\ w.sources \in Nat /\ w.type \in ConnectionTypes
        /\ w.type = "spatial" => w.cout = layer.channels
    BY ConfigurationAssumption DEF layer
  <2>2. ConnectionValid(layer, w)
    BY DEF UpdatesFit, Loadable
  <2> HIDE DEF w
  <2>3. w.type = "spatial" => w.cout # 0
    BY <2>2 DEF ConnectionValid, SpatialValid
  <2> QED
    BY <2>1, <2>3 DEF Accepted, w
<1> QED
  BY <1>1, <1>2 DEF UpdatesFit

(* What the updates of a packet under way can be.                           *)
PacketActs(x) ==
    /\ FamilyFits(Ups(x))
    /\ \A l \in Logical : ~ Reaches(x, l) => l \notin Targets(Ups(x))
    /\ Targets(Ups(x)) \subseteq Targets(Whole(cfg.conns[x.conn], x.source))
    /\ cfg.conns[x.conn].type \notin {"attention", "crossbar"} => DOMAIN Ups(x) # {}
(* What a packet does when it arrives.                                     *)
LEMMA PacketArrives ==
  ASSUME cfg \in Configurations, UpdatesFit, NEW x, PacketFits(x)
  PROVE  PacketActs(x)
<1>1. PICK w, s, p : w = cfg.conns[x.conn] /\ s = x.source /\ p = x.partition
  OBVIOUS
<1>2. /\ Laid /\ Accepted(w) /\ SpikeFits(w, s) /\ w.type # "local_state_buffer"
      /\ p \in Destinations(layer, w, s)
  BY <1>1, FitsLaid DEF PacketFits
<1>3. /\ \A l \in Logical : DeliveredTo(w, s, l)
      /\ FamilyFits(Updates(layer, w, s, p))
      /\ Targets(Updates(layer, w, s, p)) \subseteq Targets(Whole(w, s))
      /\ w.type \notin {"attention", "crossbar"} => DOMAIN Updates(layer, w, s, p) # {}
  BY <1>2, Delivered
<1>4. \A l \in Logical : ~ Serving(w, p, l) => l \notin Targets(Updates(layer, w, s, p))
  BY <1>2, <1>3 DEF DeliveredTo
<1> QED
  BY Zenon, <1>1, <1>3, <1>4 DEF PacketActs, Ups, Reaches

(* Nothing above depends on more than the configuration and the flight.    *)
LEMMA SameArrival ==
  ASSUME cfg' = cfg
  PROVE  /\ layer' = layer /\ Logical' = Logical /\ (IsAttention' <=> IsAttention)
         /\ (UpdatesFit' <=> UpdatesFit)
         /\ \A x : Ups(x)' = Ups(x) /\ (PacketFits(x)' <=> PacketFits(x))
         /\ \A x, l : Reaches(x, l)' <=> Reaches(x, l)
         /\ \A u, l : Gain(u, l)' = Gain(u, l)
         /\ \A l : /\ Physical(l)' = Physical(l)
                   /\ Toward(l)' = {x \in flight' : Reaches(x, l)}
                   /\ Shares(l)' = [x \in flight' |-> x.value * Gain(Ups(x), l)]
<1>1. layer' = layer /\ Logical' = Logical /\ (IsAttention' <=> IsAttention)
  BY DEF layer, Logical, IsAttention
<1>2. \A x : Ups(x)' = Ups(x) /\ (PacketFits(x)' <=> PacketFits(x))
  BY <1>1 DEF Ups, PacketFits
<1>3. \A x, l : Reaches(x, l)' <=> Reaches(x, l)
  BY <1>1 DEF Reaches, Serving
<1>4. \A u, l : Gain(u, l)' = Gain(u, l)
  OBVIOUS
<1>5. \A l : Physical(l)' = Physical(l)
  BY <1>1 DEF Physical
<1>6. \A l : Toward(l)' = {x \in flight' : Reaches(x, l)}
  BY <1>3 DEF Toward
<1>7. \A l : Shares(l)' = [x \in flight' |-> x.value * Gain(Ups(x), l)]
  BY <1>2, <1>4 DEF Shares
<1>8. (UpdatesFit' <=> UpdatesFit)
  <2>1. (Loadable' <=> Loadable)
    BY SameConfiguration
  <2>2. \A w, s : SpikeFits(w, s)' <=> SpikeFits(w, s)
    <3>1. \A u : FamilyFits(u)' <=> FamilyFits(u)
      BY <1>1 DEF FamilyFits
    <3>2. \A w, s : Whole(w, s)' = Whole(w, s)
      BY <1>1 DEF Whole
    <3> QED
      BY <3>1, <3>2 DEF SpikeFits
  <2> QED
    BY <2>1, <2>2 DEF UpdatesFit
<1> QED
  BY Zenon, <1>1, <1>2, <1>3, <1>4, <1>5, <1>6, <1>7, <1>8

(* A packet brings an integer to every neuron.                             *)
LEMMA SharesInt ==
  ASSUME cfg \in Configurations, UpdatesFit, PacketsFit
  PROVE  \A y \in flight, l \in Logical : Shares(l)[y] \in Int
<1> TAKE y \in flight, l \in Logical
<1>1. PacketFits(y) /\ y.value \in Int
  BY DEF PacketsFit, PacketFits
<1>2. FamilyFits(Ups(y))
  BY <1>1, PacketArrives DEF PacketActs
<1>3. PICK a \in Int, b \in Int : a = y.value /\ b = Gain(Ups(y), l)
  BY <1>1, <1>2, GainInt
<1>4. Shares(l)[y] = a * b
  BY <1>3 DEF Shares
<1> QED
  BY <1>4

(* A neuron wakes if an update names it, or is awake already.              *)
LEMMA SameWoken ==
  ASSUME Laid, NEW u, FamilyFits(u), pending \subseteq Logical, NEW l \in Logical
  PROVE  Physical(l) \in pending \cup {Physical(t) : t \in Targets(u)}
            <=> Physical(l) \in pending \/ l \in Targets(u)
<1>1. Targets(u) \subseteq Logical
  BY DEF FamilyFits, Targets
<1>2. \A t \in Targets(u) : Physical(t) = Physical(l) => t = l
  BY <1>1, CoreOf
<1> QED
  BY <1>2

(* A packet has done its updates, or had none to do.                        *)
LEMMA Applied ==
  ASSUME cfg \in Configurations, UpdatesFit, ArrivalInv, NEW x \in flight,
         cfg' = cfg, sent' = sent, owed' = owed, flight' = flight \ {x},
         buffer' \in [Logical -> Int],
         \A l \in Logical :
            buffer'[Physical(l)] = buffer[Physical(l)] + x.value * Gain(Ups(x), l),
         pending' = pending \cup {Physical(t) : t \in Targets(Ups(x))}
  PROVE  ArrivalInv'
<1> USE SameArrival
<1>1. PacketFits(x) /\ Laid
  BY FitsLaid DEF ArrivalInv, PacketsFit
<1>2. PacketActs(x) /\ x.value \in Int
  BY <1>1, PacketArrives DEF PacketFits
<1>3. FamilyFits(Ups(x)) /\ \A l \in Logical : ~ Reaches(x, l) => l \notin Targets(Ups(x))
  BY <1>2 DEF PacketActs
<1>4. \A l : Toward(l)' = Toward(l) \ {x}
  BY DEF Toward
<1>5. PacketsFit'
  <2>1. \A l \in Logical : IsFiniteSet(Toward(l)')
    BY <1>4, FS_RemoveElement DEF ArrivalInv, PacketsFit
  <2>2. \A y \in flight' : PacketFits(y)' /\ y.spike \in 0 .. sent' - 1
    BY DEF ArrivalInv, PacketsFit
  <2> QED
    BY <2>1, <2>2 DEF ArrivalInv, PacketsFit
<1>6. ASSUME NEW l \in Logical
      PROVE  buffer'[Physical(l)] + Awaited(l)' = owed.input[l]
  <2> DEFINE T == Toward(l)
             f == Shares(l)
             g == Shares(l)'
  <2>1. IsFiniteSet(T) /\ T \subseteq flight /\ IsFiniteSet(T \ {x})
    BY FS_RemoveElement DEF ArrivalInv, PacketsFit, Toward
  <2>2. \A y \in T : f[y] \in Int
    BY <2>1, SharesInt DEF ArrivalInv
  <2>3. \A y \in T \ {x} : g[y] = f[y]
    BY <2>1 DEF Shares
  <2>4. f[x] = x.value * Gain(Ups(x), l) /\ f[x] \in Int
    BY SharesInt DEF Shares, ArrivalInv
  <2>5. PICK old \in Int, input \in Int : old = buffer[Physical(l)] /\ input = owed.input[l]
    BY <1>1, CoreOf DEF ArrivalInv, InputOnItsWay
  <2>6. old + SumFunctionOnSet(f, T) = input
    BY <2>5 DEF ArrivalInv, InputOnItsWay, Awaited
  <2>7. Awaited(l)' = SumFunctionOnSet(g, T \ {x})
    BY <1>4 DEF Awaited
  <2>8. buffer'[Physical(l)] = old + f[x]
    BY <2>4, <2>5
  <2> HIDE DEF T, f, g
  <2>9. SumFunctionOnSet(g, T \ {x}) = SumFunctionOnSet(f, T \ {x})
    BY <2>1, <2>3, SumCongruence
  <2>10. SumFunctionOnSet(f, T \ {x}) \in Int
    BY <2>1, <2>2, SumInt
  <2>11. SumFunctionOnSet(f, T) = f[x] + SumFunctionOnSet(f, T \ {x})
    <3>1. CASE x \in T
      BY <2>1, <2>2, <3>1, SumTake
    <3>2. CASE x \notin T
      <4>1. l \notin Targets(Ups(x))
        BY <1>3, <3>2 DEF T, Toward
      <4>2. f[x] = 0
        BY <1>2, <2>4, <4>1, Untouched
      <4>3. T \ {x} = T
        BY <3>2
      <4>4. PICK c \in Int : c = SumFunctionOnSet(f, T)
        BY <2>10, <4>3
      <4>5. 0 + c = c
        OBVIOUS
      <4> QED
        BY Zenon, <4>2, <4>3, <4>4, <4>5
    <3> QED
      BY <3>1, <3>2
  <2>12. PICK a \in Int, b \in Int : a = f[x] /\ b = SumFunctionOnSet(f, T \ {x})
    BY <2>4, <2>10
  <2>13. old + (a + b) = input
    BY Zenon, <2>6, <2>11, <2>12
  <2>14. buffer'[Physical(l)] = old + a /\ Awaited(l)' = b
    BY Zenon, <2>7, <2>8, <2>9, <2>12
  <2>15. (old + a) + b = input
    BY <2>13
  <2> QED
    BY Zenon, <2>5, <2>14, <2>15
<1>7. InputOnItsWay'
  BY <1>6 DEF ArrivalInv, InputOnItsWay
<1>8. TouchedOnTheirWay'
  <2>1. pending' \subseteq Logical
    <3>1. Targets(Ups(x)) \subseteq Logical
      BY <1>3 DEF FamilyFits, Targets
    <3> QED
      BY <1>1, <3>1, CoreOf DEF ArrivalInv, TouchedOnTheirWay
  <2>2. ASSUME NEW l \in Logical
        PROVE  Woken(l)' <=> Woken(l)
    <3>1. Physical(l) \in pending' <=> Physical(l) \in pending \/ l \in Targets(Ups(x))
      BY <1>1, <1>3, SameWoken DEF ArrivalInv, TouchedOnTheirWay
    <3>2. \A y : Targets(Ups(y))' = Targets(Ups(y))
      BY DEF Targets
    <3> QED
      BY <3>1, <3>2 DEF Woken
  <2> QED
    BY <2>1, <2>2 DEF ArrivalInv, TouchedOnTheirWay
<1> QED
  BY <1>5, <1>7, <1>8 DEF ArrivalInv

(* Receiving the updates of a packet keeps the arrival invariant.          *)
LEMMA UpdatesArrive ==
  ASSUME cfg \in Configurations, UpdatesFit, ArrivalInv, ReceiveUpdates
  PROVE  ArrivalInv'
<1>1. PICK x \in flight :
         /\ flight' = flight \ {x}
         /\ buffer' = Add(buffer, Ups(x), x.value, Physical)
         /\ pending' = pending \cup {Physical(Ups(x)[i][1]) : i \in DOMAIN Ups(x)}
  BY DEF ReceiveUpdates, Ups
<1>2. cfg' = cfg /\ sent' = sent /\ owed' = owed
  BY DEF ReceiveUpdates
<1>3. Laid /\ PacketFits(x) /\ x.value \in Int
  BY FitsLaid DEF ArrivalInv, PacketsFit, PacketFits
<1>4. FamilyFits(Ups(x))
  BY <1>3, PacketArrives DEF PacketActs
<1>5. /\ buffer' \in [Logical -> Int]
      /\ \A l \in Logical :
            buffer'[Physical(l)] = buffer[Physical(l)] + x.value * Gain(Ups(x), l)
  <2>1. PICK u, v : u = Ups(x) /\ v = x.value
    OBVIOUS
  <2>2. /\ FamilyFits(u) /\ buffer \in [Logical -> Int] /\ buffer' = Add(buffer, u, v, Physical)
          /\ v \in Int
    BY <1>1, <1>3, <1>4, <2>1 DEF ArrivalInv, InputOnItsWay
  <2>3. /\ Add(buffer, u, v, Physical) \in [Logical -> Int]
        /\ \A l \in Logical :
              Add(buffer, u, v, Physical)[Physical(l)] = buffer[Physical(l)] + v * Gain(u, l)
    BY <1>3, <2>2, AddPhysical
  <2> QED
    BY Zenon, <2>1, <2>2, <2>3
<1>6. pending' = pending \cup {Physical(t) : t \in Targets(Ups(x))}
  BY <1>1 DEF Targets
<1> QED
  BY <1>1, <1>2, <1>5, <1>6, Applied

(* An operand packet brings no input.                                      *)
LEMMA OperandArrives ==
  ASSUME cfg \in Configurations, UpdatesFit, ArrivalInv, ReceiveOperand
  PROVE  ArrivalInv'
<1>1. PICK x \in flight : cfg.conns[x.conn].type = "attention" /\ flight' = flight \ {x}
  BY DEF ReceiveOperand
<1>2. cfg' = cfg /\ sent' = sent /\ owed' = owed /\ buffer' = buffer /\ pending' = pending
  BY DEF ReceiveOperand
<1>3. Ups(x) = <<>> /\ x.value \in Int
  BY <1>1 DEF Ups, Updates, ArrivalInv, PacketsFit, PacketFits
<1>4. Targets(Ups(x)) = {} /\ \A l : Gain(Ups(x), l) = 0
  BY <1>3, NoUpdates, Untouched
<1>5. /\ buffer' \in [Logical -> Int]
      /\ \A l \in Logical :
            buffer'[Physical(l)] = buffer[Physical(l)] + x.value * Gain(Ups(x), l)
  <2>1. buffer \in [Logical -> Int] /\ \A l \in Logical : Physical(l) \in Logical
    BY FitsLaid, CoreOf DEF ArrivalInv, InputOnItsWay
  <2>2. x.value * 0 = 0
    BY <1>3
  <2>3. \A l \in Logical : buffer[Physical(l)] \in Int
    BY <2>1
  <2> QED
    BY <1>2, <1>4, <2>1, <2>2, <2>3
<1>6. pending' = pending \cup {Physical(t) : t \in Targets(Ups(x))}
  BY <1>2, <1>4
<1> QED
  BY <1>1, <1>2, <1>5, <1>6, Applied

(* A step that leaves the packets and the inputs alone.                    *)
LEMMA Unmoved ==
  ASSUME ArrivalInv, UNCHANGED <<cfg, flight, buffer, pending, owed>>, sent' \in {sent, sent + 1}
  PROVE  ArrivalInv'
<1> USE SameArrival
<1>1. \A l : Toward(l)' = Toward(l) /\ Shares(l)' = Shares(l)
  BY DEF Toward, Shares
<1>2. PacketsFit'
  <2>1. sent' \in Nat /\ \A y \in flight : y.spike \in 0 .. sent' - 1
    BY DEF ArrivalInv, PacketsFit
  <2> QED
    BY <1>1, <2>1 DEF ArrivalInv, PacketsFit
<1>3. InputOnItsWay'
  <2>1. \A l : Awaited(l)' = Awaited(l)
    BY <1>1 DEF Awaited
  <2> QED
    BY <2>1 DEF ArrivalInv, InputOnItsWay
<1>4. TouchedOnTheirWay'
  <2>1. \A y : Targets(Ups(y))' = Targets(Ups(y))
    BY DEF Targets
  <2>2. \A l : Woken(l)' <=> Woken(l)
    BY <2>1 DEF Woken
  <2> QED
    BY <2>2 DEF ArrivalInv, TouchedOnTheirWay
<1> QED
  BY <1>2, <1>3, <1>4 DEF ArrivalInv

(* A spike is owed once, and each neuron has at most one packet of it on    *)
(* its way.                                                                *)
LEMMA FireArrives ==
  ASSUME cfg \in Configurations, UpdatesFit, ArrivalInv, DOMAIN owed = OwedFields,
         Fire, phase' # "thrown"
  PROVE  ArrivalInv'
<1> USE SameArrival
<1>1. cfg' = cfg /\ sent' = sent + 1 /\ buffer' = buffer /\ pending' = pending
  BY DEF Fire
<1>2. PICK k \in DOMAIN cfg.conns : \E s \in 0 .. cfg.conns[k].sources - 1, v \in cfg.values :
              /\ cfg.conns[k].type # "local_state_buffer" /\ Routable(layer, cfg.conns[k])
              /\ owed' = Owe(cfg.conns[k], s, v)
              /\ flight' = flight \cup
                    {Packet(k, s, v, p) : p \in Destinations(layer, cfg.conns[k], s)}
  BY Zenon, FireEffect
<1>3. PICK s \in 0 .. cfg.conns[k].sources - 1, v \in cfg.values :
              /\ cfg.conns[k].type # "local_state_buffer"
              /\ owed' = Owe(cfg.conns[k], s, v)
              /\ flight' = flight \cup
                    {Packet(k, s, v, p) : p \in Destinations(layer, cfg.conns[k], s)}
  BY Zenon, <1>2
<1>4. PICK w : w = cfg.conns[k]
  OBVIOUS
<1> DEFINE D == Destinations(layer, w, s)
           V == Whole(w, s)
           U(p) == Updates(layer, w, s, p)
           new(p) == Packet(k, s, v, p)
<1>5. /\ Laid /\ Accepted(w) /\ SpikeFits(w, s) /\ w.type # "local_state_buffer"
      /\ FamilyFits(V) /\ v \in Int /\ sent \in Nat
  BY <1>3, <1>4, FitsLaid, ConfigurationAssumption DEF SpikeFits, ArrivalInv, PacketsFit
<1>6. /\ \A l \in Logical : DeliveredTo(w, s, l)
      /\ \A p \in D : FamilyFits(U(p)) /\ Targets(U(p)) \subseteq Targets(V)
  BY <1>5, Delivered
<1>7. \A p : /\ new(p).value = v /\ new(p).spike = sent /\ new(p).conn = k
             /\ new(p).source = s /\ new(p).partition = p
  BY DEF Packet
<1>8. /\ \A p : new(p) \notin flight /\ Ups(new(p)) = U(p)
      /\ \A p, l : Reaches(new(p), l) <=> Serving(w, p, l)
  BY <1>4, <1>5, <1>7 DEF ArrivalInv, PacketsFit, Ups, Reaches
<1>9. flight' = flight \cup {new(p) : p \in D}
  BY <1>3, <1>4
<1>10. /\ \A p \in D : PacketFits(new(p)) /\ new(p).spike \in 0 .. sent' - 1
       /\ \A y \in flight : PacketFits(y) /\ y.spike \in 0 .. sent' - 1
  <2>1. \A p \in D : PacketFits(new(p)) /\ new(p).spike \in 0 .. sent' - 1
    <3> HIDE DEF new
    <3> QED
      BY <1>1, <1>4, <1>5, <1>7 DEF PacketFits
  <2>2. \A y \in flight : PacketFits(y) /\ y.spike \in 0 .. sent' - 1
    BY <1>1, <1>5 DEF ArrivalInv, PacketsFit
  <2> QED
    BY <2>1, <2>2
<1>11. /\ owed'.touched = owed.touched \cup Targets(V)
       /\ owed'.input \in [Logical -> Int]
       /\ \A l \in Logical : owed'.input[l] = owed.input[l] + v * Gain(V, l)
  <2>1. owed' = Owe(w, s, v) /\ owed.input \in [Logical -> Int]
    BY <1>3, <1>4 DEF ArrivalInv, InputOnItsWay
  <2>2. owed'.input = Add(owed.input, V, v, Logic) /\ owed'.touched = owed.touched \cup Targets(V)
    BY Zenon, <2>1, OweInput
  <2> HIDE DEF V
  <2>3. PICK input \in [Logical -> Int] : input = owed.input
    BY <2>1
  <2>4. /\ Add(input, V, v, Logic) \in [Logical -> Int]
        /\ \A l \in Logical : Add(input, V, v, Logic)[l] = input[l] + v * Gain(V, l)
    BY <1>5, AddLogic DEF V
  <2> QED
    BY Zenon, <2>2, <2>3, <2>4
<1> HIDE DEF D, V, U, new
<1>12. ASSUME NEW l \in Logical
       PROVE  IF \E q \in D : Serving(w, q, l)
                THEN \E q \in D : /\ Serving(w, q, l) /\ Toward(l)' = Toward(l) \cup {new(q)}
                                  /\ Gain(U(q), l) = Gain(V, l)
                ELSE Toward(l)' = Toward(l) /\ Gain(V, l) = 0
  <2>1. DeliveredTo(w, s, l)
    BY <1>6
  <2>2. /\ \A p \in D : Serving(w, p, l) => Gain(U(p), l) = Gain(V, l)
        /\ \A p, q \in D : Serving(w, p, l) /\ Serving(w, q, l) => p = q
        /\ l \in Targets(V) => \E p \in D : Serving(w, p, l)
    BY <2>1 DEF DeliveredTo, SameFor, D, V, U
  <2>3. Toward(l)' = Toward(l) \cup {new(p) : p \in {q \in D : Serving(w, q, l)}}
    BY <1>1, <1>8, <1>9 DEF Toward
  <2>4. CASE \E q \in D : Serving(w, q, l)
    <3>1. PICK q \in D : Serving(w, q, l)
      BY <2>4
    <3>2. {p \in D : Serving(w, p, l)} = {q}
      BY <2>2, <3>1
    <3>3. Toward(l)' = Toward(l) \cup {new(q)}
      BY <2>3, <3>2
    <3> QED
      BY <2>2, <2>4, <3>1, <3>3
  <2>5. CASE ~ \E q \in D : Serving(w, q, l)
    <3>1. {p \in D : Serving(w, p, l)} = {}
      BY <2>5
    <3>2. Toward(l)' = Toward(l)
      BY <2>3, <3>1
    <3>3. Gain(V, l) = 0
      BY <2>2, <2>5, Untouched
    <3> QED
      BY <2>5, <3>2, <3>3
  <2> QED
    BY <2>4, <2>5
<1>13. PacketsFit'
  <2>1. \A l \in Logical : IsFiniteSet(Toward(l)')
    <3> TAKE l \in Logical
    <3>1. IsFiniteSet(Toward(l))
      BY DEF ArrivalInv, PacketsFit
    <3>2. Toward(l)' = Toward(l) \/ \E q : Toward(l)' = Toward(l) \cup {new(q)}
      BY <1>12
    <3> QED
      BY <3>1, <3>2, FS_AddElement
  <2>2. \A y \in flight' : PacketFits(y)' /\ y.spike \in 0 .. sent' - 1
    BY <1>1, <1>9, <1>10
  <2>3. sent' \in Nat
    BY <1>1, <1>5
  <2> QED
    BY <1>1, <2>1, <2>2, <2>3 DEF PacketsFit
<1>14. ASSUME NEW l \in Logical
       PROVE  buffer[Physical(l)] + Awaited(l)' = owed'.input[l]
  <2> DEFINE T == Toward(l)
             f == Shares(l)
             g == Shares(l)'
  <2>1. /\ IsFiniteSet(T) /\ T \subseteq flight
        /\ \A y \in T : g[y] = f[y] /\ f[y] \in Int
    <3>1. IsFiniteSet(T) /\ T \subseteq flight
      BY DEF ArrivalInv, PacketsFit, Toward
    <3>2. \A y \in flight : g[y] = f[y]
      BY <1>1, <1>9 DEF Shares
    <3> QED
      BY <3>1, <3>2, SharesInt DEF ArrivalInv
  <2>2. PICK old \in Int, gain \in Int : old = buffer[Physical(l)] /\ gain = Gain(V, l)
    BY <1>5, CoreOf, GainInt DEF ArrivalInv, InputOnItsWay
  <2>3. PICK awaited \in Int : awaited = SumFunctionOnSet(f, T)
    BY <2>1, SumInt
  <2>4. owed.input[l] = old + awaited /\ owed'.input[l] = owed.input[l] + v * gain
    BY <1>11, <2>2, <2>3 DEF ArrivalInv, InputOnItsWay, Awaited
  <2>5. Awaited(l)' = awaited + v * gain
    <3>1. Awaited(l)' = SumFunctionOnSet(g, Toward(l)')
      BY DEF Awaited
    <3>2. CASE \E q \in D : Serving(w, q, l)
      <4>1. PICK q \in D : Toward(l)' = T \cup {new(q)} /\ Gain(U(q), l) = gain
        BY <1>12, <2>2, <3>2
      <4>2. new(q) \notin T /\ new(q) \in flight'
        BY <1>8, <1>9, <2>1
      <4>3. g[new(q)] = v * gain
        <5>1. Ups(new(q)) = U(q) /\ new(q).value = v
          BY <1>7, <1>8 DEF new
        <5>2. g[new(q)] = new(q).value * Gain(Ups(new(q)), l)
          BY <1>1, <4>2
        <5> QED
          BY <4>1, <5>1, <5>2
      <4>4. PICK a \in Int : a = v * gain
        BY <1>5
      <4> HIDE DEF T, f, g
      <4>5. SumFunctionOnSet(g, T \cup {new(q)}) = SumFunctionOnSet(f, T) + g[new(q)]
        <5>1. PICK x : x = new(q)
          OBVIOUS
        <5>2. x \notin T /\ g[x] \in Int
          BY <4>2, <4>3, <4>4, <5>1
        <5>3. SumFunctionOnSet(g, T \cup {x}) = SumFunctionOnSet(f, T) + g[x]
          BY <2>1, <5>2, SumOneMore
        <5> QED
          BY <5>1, <5>3
      <4> QED
        BY Zenon, <2>3, <3>1, <4>1, <4>3, <4>5
    <3>3. CASE ~ \E q \in D : Serving(w, q, l)
      <4>1. Toward(l)' = T /\ gain = 0
        BY <1>12, <2>2, <3>3
      <4> HIDE DEF T, f, g
      <4>2. SumFunctionOnSet(g, T) = awaited
        BY <2>1, <2>3, SumCongruence
      <4>3. awaited + v * gain = awaited
        <5>1. v * 0 = 0
          BY <1>5
        <5> QED
          BY <4>1, <5>1
      <4> QED
        BY <3>1, <4>1, <4>2, <4>3
    <3> QED
      BY <3>2, <3>3
  <2>6. PICK a \in Int : a = v * gain
    BY <1>5
  <2>7. old + (awaited + a) = (old + awaited) + a
    OBVIOUS
  <2> QED
    BY Zenon, <2>2, <2>4, <2>5, <2>6, <2>7
<1>15. InputOnItsWay'
  BY <1>1, <1>11, <1>14 DEF ArrivalInv, InputOnItsWay
<1>16. TouchedOnTheirWay'
  <2>1. Targets(V) \subseteq Logical
    BY <1>5 DEF V, FamilyFits, Targets
  <2>2. ASSUME NEW l \in Logical
        PROVE  Woken(l)' <=> Woken(l) \/ l \in Targets(V)
    <3>1. l \in Targets(V) <=> \E p \in D : l \in Targets(U(p))
      <4>1. DeliveredTo(w, s, l)
        BY <1>6
      <4>2. l \in Targets(V) => \E p \in D : l \in Targets(U(p))
        BY <4>1 DEF DeliveredTo, SameFor, D, V, U
      <4> QED
        BY <1>6, <4>2 DEF D, V, U
    <3>2. \A y : Targets(Ups(y))' = Targets(Ups(y))
      BY <1>1 DEF Targets
    <3>3. Woken(l)' <=> Physical(l) \in pending \/ \E y \in flight' : l \in Targets(Ups(y))
      BY <1>1, <3>2 DEF Woken
    <3> QED
      BY <1>8, <1>9, <3>1, <3>3 DEF Woken
  <2> QED
    BY <1>1, <1>11, <2>1, <2>2 DEF ArrivalInv, TouchedOnTheirWay
<1> QED
  BY <1>13, <1>15, <1>16 DEF ArrivalInv

(* The core of a local state's neuron does all of its update.               *)
LEMMA LocalWhole ==
  ASSUME Laid, NEW w, NEW s, SpikeFits(w, s), w.type = "local_state_buffer"
  PROVE  LET u == Updates(layer, w, s, Partition(layer, s))
         IN  FamilyFits(u) /\ \A l \in Logical : SameFor(u, Whole(w, s), l)
<1> DEFINE V == IdentityUpdates(layer, w, s)
           p == Partition(layer, s)
           u == OnPartition(layer, p, V)
<1>1. Whole(w, s) = V /\ Updates(layer, w, s, p) = u
  BY DEF Whole, Updates
<1>2. FamilyFits(V) /\ Targets(V) = {s}
  <2>1. V = <<<<s, ValueOf(layer, w.weight, s)>>>>
    BY DEF IdentityUpdates
  <2>2. FamilyFits(V)
    BY <1>1 DEF SpikeFits
  <2> QED
    BY <2>1, <2>2 DEF Targets
<1>3. s \in Logical /\ p \in Cores
  <2>1. s \in Logical
    BY <1>2 DEF FamilyFits, Targets
  <2> QED
    BY <2>1, CoreOf
<1>4. Restricts(u, V, p)
  <2> HIDE DEF V, p
  <2> QED
    BY <1>2, <1>3, OnPartitionRestricts
<1> HIDE DEF V, u
<1>5. ASSUME NEW l \in Logical
      PROVE  SameFor(u, V, l)
  <2>1. CASE Partition(layer, l) = p
    BY <1>4, <2>1 DEF Restricts
  <2>2. CASE Partition(layer, l) # p
    <3>1. l \notin Targets(u) /\ l \notin Targets(V)
      BY <1>2, <1>4, <2>2 DEF Restricts
    <3> QED
      BY <3>1, Untouched DEF SameFor
  <2> QED
    BY <2>1, <2>2
<1>6. FamilyFits(u)
  BY <1>4 DEF Restricts
<1> QED
  BY <1>1, <1>5, <1>6

(* A local state goes to its core at once, as it is owed.                  *)
LEMMA LocalArrives ==
  ASSUME cfg \in Configurations, UpdatesFit, ArrivalInv, DOMAIN owed = OwedFields, LocalState
  PROVE  ArrivalInv'
<1> USE SameArrival
<1>1. cfg' = cfg /\ sent' = sent + 1 /\ flight' = flight
  BY DEF LocalState
<1>2. PICK k \in DOMAIN cfg.conns : LET w == cfg.conns[k] IN
       \E s \in 0 .. w.sources - 1, v \in cfg.values :
         /\ w.type = "local_state_buffer"
         /\ LET updates == Updates(layer, w, s, Partition(layer, s))
            IN  /\ buffer' = Add(buffer, updates, v, Physical)
                /\ pending' = pending \cup {Physical(updates[i][1]) : i \in DOMAIN updates}
         /\ owed' = Owe(w, s, v)
  BY DEF LocalState
<1>3. PICK s \in 0 .. cfg.conns[k].sources - 1, v \in cfg.values :
         /\ cfg.conns[k].type = "local_state_buffer"
         /\ LET updates == Updates(layer, cfg.conns[k], s, Partition(layer, s))
            IN  /\ buffer' = Add(buffer, updates, v, Physical)
                /\ pending' = pending \cup {Physical(updates[i][1]) : i \in DOMAIN updates}
         /\ owed' = Owe(cfg.conns[k], s, v)
  BY Zenon, <1>2
<1>4. PICK w : w = cfg.conns[k] /\ w.type = "local_state_buffer"
  BY <1>3
<1>5. PICK u, V : u = Updates(layer, w, s, Partition(layer, s)) /\ V = Whole(w, s)
  OBVIOUS
<1>6. /\ buffer' = Add(buffer, u, v, Physical)
      /\ pending' = pending \cup {Physical(t) : t \in Targets(u)}
      /\ owed' = Owe(w, s, v)
  BY <1>3, <1>4, <1>5 DEF Targets
<1>7. /\ Laid /\ SpikeFits(w, s) /\ v \in Int /\ FamilyFits(V)
      /\ buffer \in [Logical -> Int] /\ owed.input \in [Logical -> Int]
      /\ pending \subseteq Logical
  BY <1>3, <1>4, <1>5, FitsLaid, ConfigurationAssumption
     DEF SpikeFits, ArrivalInv, InputOnItsWay, TouchedOnTheirWay
<1>8. FamilyFits(u) /\ \A l \in Logical : SameFor(u, V, l)
  BY <1>4, <1>5, <1>7, LocalWhole
<1>9. /\ buffer' \in [Logical -> Int]
      /\ \A l \in Logical : buffer'[Physical(l)] = buffer[Physical(l)] + v * Gain(u, l)
  BY <1>6, <1>7, <1>8, AddPhysical
<1>10. /\ owed'.touched = owed.touched \cup Targets(V)
       /\ owed'.input \in [Logical -> Int]
       /\ \A l \in Logical : owed'.input[l] = owed.input[l] + v * Gain(V, l)
  <2>1. owed'.input = Add(owed.input, V, v, Logic) /\ owed'.touched = owed.touched \cup Targets(V)
    BY Zenon, <1>5, <1>6, OweInput
  <2>2. PICK input \in [Logical -> Int] : input = owed.input
    BY <1>7
  <2>3. /\ Add(input, V, v, Logic) \in [Logical -> Int]
        /\ \A l \in Logical : Add(input, V, v, Logic)[l] = input[l] + v * Gain(V, l)
    BY <1>7, AddLogic
  <2> QED
    BY Zenon, <2>1, <2>2, <2>3
<1>11. \A l : Toward(l)' = Toward(l) /\ Awaited(l)' = Awaited(l)
  BY <1>1 DEF Toward, Shares, Awaited
<1>12. PacketsFit'
  <2>1. sent' \in Nat /\ \A y \in flight : y.spike \in 0 .. sent' - 1
    BY <1>1 DEF ArrivalInv, PacketsFit
  <2> QED
    BY <1>1, <1>11, <2>1 DEF ArrivalInv, PacketsFit
<1>13. InputOnItsWay'
  <2>1. ASSUME NEW l \in Logical
        PROVE  buffer'[Physical(l)] + Awaited(l)' = owed'.input[l]
    <3>1. PICK old \in Int, a \in Int :
              /\ old = buffer[Physical(l)] /\ a = v * Gain(u, l) /\ a = v * Gain(V, l)
      <4>1. buffer[Physical(l)] \in Int
        BY <1>7, CoreOf
      <4>2. Gain(u, l) \in Int /\ Gain(V, l) = Gain(u, l)
        BY <1>8, GainInt DEF SameFor
      <4>3. v * Gain(u, l) \in Int
        BY <1>7, <4>2
      <4> QED
        BY <4>1, <4>2, <4>3
    <3>2. old + Awaited(l) = owed.input[l] /\ owed.input[l] \in Int
      BY <1>7, <3>1 DEF ArrivalInv, InputOnItsWay
    <3>3. Awaited(l) \in Int
      <4>1. \A y \in Toward(l) : Shares(l)[y] \in Int
        BY SharesInt DEF ArrivalInv, Toward
      <4>2. IsFiniteSet(Toward(l))
        BY DEF ArrivalInv, PacketsFit
      <4> QED
        BY <4>1, <4>2, SumInt DEF Awaited
    <3>4. PICK b \in Int : b = Awaited(l)
      BY <3>3
    <3>5. owed'.input[l] = (old + b) + a
      BY Zenon, <1>10, <3>1, <3>2, <3>4
    <3>6. buffer'[Physical(l)] + Awaited(l)' = (old + a) + b
      BY Zenon, <1>9, <1>11, <3>1, <3>4
    <3> QED
      BY <3>5, <3>6
  <2> QED
    BY <1>1, <1>9, <1>10, <2>1 DEF InputOnItsWay
<1>14. TouchedOnTheirWay'
  <2>1. Targets(u) \subseteq Logical /\ Targets(V) \subseteq Logical
    BY <1>7, <1>8 DEF FamilyFits, Targets
  <2>2. pending' \subseteq Logical
    BY <1>6, <1>7, <2>1, CoreOf
  <2>3. ASSUME NEW l \in Logical
        PROVE  Woken(l)' <=> Woken(l) \/ l \in Targets(V)
    <3>1. Physical(l) \in pending' <=> Physical(l) \in pending \/ l \in Targets(u)
      BY <1>6, <1>7, <1>8, SameWoken
    <3>2. l \in Targets(u) <=> l \in Targets(V)
      BY <1>8 DEF SameFor
    <3>3. \A y : Targets(Ups(y))' = Targets(Ups(y))
      BY <1>1 DEF Targets
    <3> QED
      BY <1>1, <3>1, <3>2, <3>3 DEF Woken
  <2> QED
    BY <1>1, <1>10, <2>1, <2>2, <2>3 DEF ArrivalInv, TouchedOnTheirWay
<1> QED
  BY <1>12, <1>13, <1>14 DEF ArrivalInv

(* The neuron phase, as far as the inputs go.                               *)
Added(n) == Delta(n \div layer.max, n)
Due(l) == owed.input[l] + layer.scale * (Product(l) - owed.product[l])
(* Both forms of the neuron phase, for the inputs and what they owe.       *)
LEMMA ProcessInput ==
  ASSUME Process
  PROVE  IF Waits
         THEN /\ buffer' = [n \in Logical |-> buffer[n] + layer.scale * Added(n)]
              /\ pending' = pending \cup {n \in Logical : Added(n) # 0}
              /\ owed'.input = [l \in Logical |-> Due(l)]
              /\ owed'.touched = owed.touched
              /\ owed'.charge = [l \in Logical |-> owed.charge[l] + 0]
         ELSE /\ buffer' = [n \in Logical |-> 0] /\ pending' = {}
              /\ owed'.input = [l \in Logical |-> 0] /\ owed'.touched = {}
              /\ owed'.charge = [l \in Logical |->
                    owed.charge[l] + cfg.soma.scale * (Due(l) + Bias(l))]
<1> DEFINE delta == [n \in Logical |-> Delta(n \div layer.max, n)]
           input(n) == buffer[n] + layer.scale * delta[n]
           woken == pending \cup {n \in Logical : delta[n] # 0}
           processed == ~ Waits
           result == [n \in Logical |->
                    LET l == logical_neuron_index(layer, n)
                    IN  process_neuron(cfg.soma, Threshold(l), neurons[n], input(n),
                                       n \in woken, Bias(l))]
<1>1. /\ IF processed
             THEN /\ buffer' = [n \in Logical |-> 0] /\ pending' = {}
                  /\ neurons' = [n \in Logical |->
                        [voltage |-> result[n].voltage, tracer |-> result[n].tracer]]
                  /\ trace' = trace \cup
                        {[timestep |-> timestep + 1, core |-> GlobalCore(n \div layer.max),
                          local |-> n % layer.max, value |-> result[n].fired,
                          neuron |-> logical_neuron_index(layer, n)] :
                            n \in {m \in Logical : result[m].fired # 0}}
             ELSE /\ buffer' = [n \in Logical |-> input(n)] /\ pending' = woken
                  /\ UNCHANGED <<neurons, trace>>
      /\ owed' = Settle(processed)
  BY Zenon DEF Process, Waits
<1> HIDE DEF processed, result
<1>2. IF processed THEN buffer' = [n \in Logical |-> 0] /\ pending' = {}
      ELSE buffer' = [n \in Logical |-> input(n)] /\ pending' = woken
  BY <1>1
<1>3. owed' = Settle(processed)
  BY <1>1
<1>4. \A n \in Logical : delta[n] = Added(n)
  BY DEF Added
<1> HIDE DEF delta
<1>5. /\ [n \in Logical |-> input(n)] = [n \in Logical |-> buffer[n] + layer.scale * Added(n)]
      /\ woken = pending \cup {n \in Logical : Added(n) # 0}
  BY <1>4
<1>6. CASE processed
  <2>1. /\ Settle(processed).input = [l \in Logical |-> 0]
        /\ Settle(processed).touched = {}
        /\ Settle(processed).charge = [l \in Logical |->
              owed.charge[l] + cfg.soma.scale * (Due(l) + Bias(l))]
    BY <1>6 DEF Settle, Due
  <2>2. ~ Waits
    BY <1>6 DEF processed
  <2> QED
    BY <1>2, <1>3, <1>6, <2>1, <2>2
<1>7. CASE ~ processed
  <2>1. /\ Settle(processed).input = [l \in Logical |-> Due(l)]
        /\ Settle(processed).touched = owed.touched
        /\ Settle(processed).charge = [l \in Logical |-> owed.charge[l] + 0]
    BY <1>7 DEF Settle, Due
  <2>2. Waits
    BY <1>7 DEF processed
  <2> HIDE DEF input, woken
  <2> QED
    BY Zenon, <1>2, <1>3, <1>5, <1>7, <2>1, <2>2
<1> QED
  BY <1>6, <1>7

LEMMA AddedGrows ==
  ASSUME cfg \in Configurations, OperandsFit, Laid, OutputIsProduct, flight = {},
         IF IsAttention THEN AttentionInv ELSE StandardInv, NEW l \in Logical
  PROVE  /\ Added(Physical(l)) \in Int
         /\ Product(l) - owed.product[l] = Added(Physical(l))
         /\ ~ IsAttention => Added(Physical(l)) = 0
<1>1. CASE IsAttention
  <2>1. Physical(l) = l /\ WellShaped
    BY <1>1, AttentionShape DEF Physical, physical_neuron_index, OperandsFit
  <2>2. owed.product[l] \in Int
    BY DEF OutputIsProduct
  <2>3. Product(l) = owed.product[l] + Added(l) /\ Added(l) \in Int
    <3>1. CASE Incremental
      BY <1>1, <2>1, <3>1, MatmulGrows DEF Added
    <3>2. CASE ~ Incremental
      BY <1>1, <2>1, <3>2, AttentionGrows DEF Added
    <3> QED
      BY <3>1, <3>2
  <2> QED
    BY <1>1, <2>1, <2>2, <2>3
<1>2. CASE ~ IsAttention
  <2>1. Added(Physical(l)) = 0
    BY <1>2 DEF Added, Delta, StandardInv
  <2>2. Product(l) = 0 /\ owed.product[l] = 0
    BY <1>2 DEF Product, StandardInv, OutputIsProduct
  <2> QED
    BY <1>2, <2>1, <2>2
<1> QED
  BY <1>1, <1>2

(* The neuron phase keeps the arrival invariant: both sides are cleared, or *)
(* both get the change of the attention product.                           *)
LEMMA ProcessArrives ==
  ASSUME cfg \in Configurations, OperandsFit, UpdatesFit, OutputIsProduct, ArrivalInv,
         IF IsAttention THEN AttentionInv ELSE StandardInv, Process
  PROVE  ArrivalInv'
<1> USE SameArrival
<1>1. cfg' = cfg /\ sent' = sent /\ flight = {} /\ flight' = {} /\ Laid
  BY ProcessOperands, FitsLaid
<1>2. \A l : Toward(l) = {} /\ Toward(l)' = {} /\ Awaited(l) = 0 /\ Awaited(l)' = 0
  <2>1. \A l : Toward(l) = {} /\ Toward(l)' = {}
    BY <1>1 DEF Toward
  <2> QED
    BY <2>1, SumEmpty DEF Awaited
<1>3. PacketsFit'
  BY <1>1, <1>2, FS_EmptySet DEF ArrivalInv, PacketsFit
<1>4. \A l \in Logical : Woken(l) <=> Physical(l) \in pending
  BY <1>1 DEF Woken
<1>5. \A l \in Logical : Woken(l)' <=> Physical(l) \in pending'
  BY <1>1 DEF Woken
<1>6. ASSUME NEW l \in Logical
      PROVE  /\ Physical(l) \in Logical /\ buffer[Physical(l)] = owed.input[l]
             /\ owed.input[l] \in Int
  <2>1. Physical(l) \in Logical
    BY <1>1, CoreOf
  <2>2. /\ buffer[Physical(l)] + 0 = owed.input[l] /\ owed.input[l] \in Int
        /\ buffer[Physical(l)] \in Int
    BY <1>2, <2>1 DEF ArrivalInv, InputOnItsWay
  <2> QED
    BY <2>1, <2>2
<1>7. CASE /\ buffer' = [n \in Logical |-> 0] /\ pending' = {}
           /\ owed'.input = [l \in Logical |-> 0] /\ owed'.touched = {}
  <2>1. InputOnItsWay'
    BY <1>1, <1>2, <1>6, <1>7 DEF InputOnItsWay
  <2>2. TouchedOnTheirWay'
    BY <1>1, <1>5, <1>7 DEF TouchedOnTheirWay
  <2> QED
    BY <1>3, <2>1, <2>2 DEF ArrivalInv
<1>8. CASE /\ buffer' = [n \in Logical |-> buffer[n] + layer.scale * Added(n)]
           /\ pending' = pending \cup {n \in Logical : Added(n) # 0}
           /\ owed'.input = [l \in Logical |-> Due(l)]
           /\ owed'.touched = owed.touched
  <2>1. PICK scale \in Int : scale = layer.scale
    BY ConfigurationAssumption DEF layer
  <2>2. ASSUME NEW l \in Logical
        PROVE  /\ buffer'[Physical(l)] \in Int /\ owed'.input[l] = buffer'[Physical(l)]
               /\ buffer'[Physical(l)] + 0 = owed'.input[l]
    <3>1. PICK a \in Int : a = Added(Physical(l)) /\ a = Product(l) - owed.product[l]
      BY <1>1, AddedGrows
    <3>2. PICK old \in Int : old = buffer[Physical(l)] /\ old = owed.input[l]
      BY <1>6
    <3>3. buffer'[Physical(l)] = old + scale * a
      BY <1>6, <1>8, <2>1, <3>1, <3>2
    <3>4. owed'.input[l] = old + scale * a
      BY <1>8, <2>1, <3>1, <3>2 DEF Due
    <3>5. PICK b \in Int : b = old + scale * a
      OBVIOUS
    <3> QED
      BY <3>3, <3>4, <3>5
  <2>3. InputOnItsWay'
    <3>1. buffer' \in [Logical -> Int]
      <4>1. \A n \in Logical : buffer'[n] \in Int
        BY <1>1, <2>2, PhysicalOnto
      <4> QED
        BY <1>8, <4>1
    <3>2. owed'.input \in [Logical -> Int]
      <4>1. \A l \in Logical : owed'.input[l] \in Int
        BY <2>2
      <4> QED
        BY <1>8, <4>1
    <3>3. \A l \in Logical : buffer'[Physical(l)] + Awaited(l)' = owed'.input[l]
      BY <1>2, <2>2
    <3> QED
      BY <1>1, <3>1, <3>2, <3>3 DEF InputOnItsWay
  <2>4. TouchedOnTheirWay'
    <3>1. pending' \subseteq Logical /\ owed'.touched \subseteq Logical
      BY <1>8 DEF ArrivalInv, TouchedOnTheirWay
    <3>2. ASSUME NEW l \in Logical
          PROVE  /\ Woken(l) => Woken(l)'
                 /\ ~ IsAttention => (Woken(l)' => Woken(l))
      BY <1>1, <1>4, <1>5, <1>8, AddedGrows
    <3> QED
      BY <1>1, <1>8, <3>1, <3>2 DEF ArrivalInv, TouchedOnTheirWay
  <2> QED
    BY <1>3, <2>3, <2>4 DEF ArrivalInv
<1> QED
  BY <1>7, <1>8, ProcessInput

(* Nothing is owed and nothing is under way at first.                      *)
LEMMA ArrivalInit ==
  ASSUME Init, UpdatesFit
  PROVE  ArrivalInv
<1>1. /\ cfg \in Configurations /\ sent = 0 /\ flight = {}
      /\ buffer = [n \in Logical |-> 0] /\ pending = {} /\ owed = NothingOwed
  BY DEF Init
<1>2. owed.input = [l \in Logical |-> 0] /\ owed.touched = {}
  BY <1>1 DEF NothingOwed
<1>3. \A l : Toward(l) = {} /\ Awaited(l) = 0
  BY <1>1, SumEmpty DEF Toward, Awaited
<1>4. PacketsFit
  BY <1>1, <1>3, FS_EmptySet DEF PacketsFit
<1>5. \A l \in Logical : Physical(l) \in Logical
  BY <1>1, FitsLaid, CoreOf
<1>6. InputOnItsWay
  BY <1>1, <1>2, <1>3, <1>5 DEF InputOnItsWay
<1>7. TouchedOnTheirWay
  BY <1>1, <1>2 DEF TouchedOnTheirWay, Woken
<1> QED
  BY <1>4, <1>6, <1>7 DEF ArrivalInv

(***************************************************************************)
(* The operand sums.  A spike sends one packet at most to a core, so that  *)
(* no operand is further from 0 than the spikes that are not on their way. *)
(***************************************************************************)
UnitSpikes == cfg.values \subseteq {-1, 0, 1}
SentTo(p) == {x \in flight : x.partition = p}
Settled(p) == sent - Cardinality(SentTo(p))
Within(n, v) == -n <= v /\ v <= n
SumsBounded ==
    /\ \A x \in flight : x.value \in cfg.values
    /\ \A p \in Cores :
          /\ IsFiniteSet(SentTo(p)) /\ Settled(p) \in Nat
          /\ IsAttention =>
                \A b \in Buffers : \A i \in Slots(b) : Within(Settled(p), operands[p][b][i])
ThrownForReason ==
    \/ \E k \in DOMAIN cfg.conns : ~ Routable(layer, cfg.conns[k])
    \/ IsAttention /\ sent > Transient
BoundInv == IF phase = "thrown" THEN ThrownForReason ELSE SumsBounded

(* The cores that are sent an operand are cores of the layer.               *)
LEMMA OperandCores ==
  ASSUME WellShaped, NEW w, Carries(w), NEW s \in 0 .. OperandSize(layer, w.operand) - 1,
         NEW p \in Destinations(layer, w, s)
  PROVE  p \in Cores
<1>1. p \in OperandPartitions(layer, w, s)
  BY DEF Destinations, Carries
<1>2. CASE ~ Incremental
  BY <1>1, <1>2 DEF OperandPartitions, WellShaped, Cores
<1>3. CASE Incremental
  <2> DEFINE H == layer.heads
             R == layer.rows
             C == layer.columns
             M == Majors(w.operand)
  <2>1. /\ H \in Nat \ {0} /\ R \in Nat \ {0} /\ C \in Nat \ {0}
        /\ layer.neurons = (H * R) * C /\ layer.order = "logical"
    BY <1>3 DEF WellShaped
  <2>2. PICK x : Located(w, s, x)
    BY Zenon, Places
  <2>3. PICK h \in 0 .. H - 1, m \in 0 .. M - 1 : HeadMajor(layer, w, s) = <<h, m>>
    BY <1>3, <2>2 DEF Located, EntryDigits, Triples
  <2>4. \E r \in 0 .. R - 1, c \in 0 .. C - 1 : p = Partition(layer, OutputIndex(layer, h, r, c))
    <3>1. CASE w.operand = "lhs"
      <4>1. p \in Touched(layer, {OutputIndex(layer, h, m, c) : c \in 0 .. C - 1})
        BY <1>1, <1>3, <2>3, <3>1 DEF OperandPartitions, Incremental
      <4>2. m \in 0 .. R - 1
        BY <3>1 DEF Majors
      <4> QED
        BY <4>1, <4>2 DEF Touched
    <3>2. CASE w.operand # "lhs"
      <4>1. p \in Touched(layer, {OutputIndex(layer, h, r, m) : r \in 0 .. R - 1})
        BY <1>1, <1>3, <2>3, <3>2 DEF OperandPartitions, Incremental
      <4>2. m \in 0 .. C - 1
        BY <1>3, <3>2 DEF Majors, Carries
      <4> QED
        BY <4>1, <4>2 DEF Touched
    <3> QED
      BY <3>1, <3>2
  <2>5. PICK r \in 0 .. R - 1, c \in 0 .. C - 1 : p = Partition(layer, OutputIndex(layer, h, r, c))
    BY <2>4
  <2>6. PICK g : g = OutputIndex(layer, h, r, c)
    OBVIOUS
  <2> HIDE DEF H, R, C, M
  <2>7. g \in 0 .. (H * R) * C - 1
    <3>1. CASE layer.output = "row_head_column"
      <4>1. g = Index(R, H, C, <<r, h, c>>)
        BY <2>6, <3>1 DEF OutputIndex, Index, H, C
      <4>2. Decoded(R, H, C, g, r, h, c)
        BY Zenon, <2>1, <4>1, ThreeDigits
      <4>3. (R * H) * C = (H * R) * C
        BY <2>1
      <4>4. g \in 0 .. (R * H) * C - 1
        BY Zenon, <4>2 DEF Decoded
      <4> QED
        BY <4>3, <4>4
    <3>2. CASE layer.output # "row_head_column"
      <4>1. g = Index(H, R, C, <<h, r, c>>)
        BY <2>6, <3>2 DEF OutputIndex, Index, R, C
      <4>2. Decoded(H, R, C, g, h, r, c)
        BY Zenon, <2>1, <4>1, ThreeDigits
      <4> QED
        BY Zenon, <4>2 DEF Decoded
    <3> QED
      BY <3>1, <3>2
  <2>8. g \in Logical
    BY <2>1, <2>7 DEF Logical
  <2>9. p = g \div layer.max
    BY <2>1, <2>5, <2>6 DEF Partition, physical_neuron_index
  <2> QED
    BY <2>8, <2>9, OwnCore
<1> QED
  BY <1>2, <1>3

(* A bound may be raised.                                                  *)
LEMMA WithinMore ==
  ASSUME NEW m \in Int, NEW n \in Int, m <= n, NEW v \in Int, Within(m, v)
  PROVE  Within(n, v)
BY DEF Within

(* The shapes and the bounds of the sums depend on the configuration.      *)
LEMMA SameBounds ==
  ASSUME cfg' = cfg
  PROVE  /\ Cores' = Cores /\ (IsAttention' <=> IsAttention)
         /\ \A b : Slots(b)' = Slots(b)
         /\ \A p : SentTo(p)' = {x \in flight' : x.partition = p}
         /\ (UnitSpikes' <=> UnitSpikes)
<1>1. Cores' = Cores /\ (IsAttention' <=> IsAttention) /\ \A b : Slots(b)' = Slots(b)
  BY SameShapes DEF SameShape
<1> QED
  BY <1>1 DEF SentTo, UnitSpikes

(* Steps that add no operand: a core gets one packet of a spike at most.    *)
LEMMA QuietBounds ==
  ASSUME SumsBounded, IsAttention => TensorsOK, cfg' = cfg, sent \in Nat,
         operands' = operands \/ operands' = [p \in Cores |-> NoOperands],
         \A x \in flight' : x.value \in cfg.values,
         \/ sent' \in {sent, sent + 1} /\ flight' \subseteq flight
         \/ sent' = sent + 1 /\ \A p \in Cores : \E x : SentTo(p)' \subseteq SentTo(p) \cup {x}
  PROVE  SumsBounded'
<1> USE SameBounds
<1>1. ASSUME NEW p \in Cores
      PROVE  IsFiniteSet(SentTo(p)') /\ Settled(p)' \in Nat /\ Settled(p) <= Settled(p)'
  <2> DEFINE S == SentTo(p)
             T == SentTo(p)'
  <2>1. IsFiniteSet(S) /\ Cardinality(S) \in Nat /\ sent - Cardinality(S) \in Nat
    BY FS_CardinalityType DEF SumsBounded, Settled
  <2>2. ASSUME NEW U, IsFiniteSet(U), T \subseteq U
        PROVE  IsFiniteSet(T) /\ Cardinality(T) \in Nat /\ Cardinality(T) <= Cardinality(U)
    BY <2>2, FS_Subset, FS_CardinalityType
  <2>3. IsFiniteSet(T) /\ Cardinality(T) \in Nat /\ Cardinality(T) - Cardinality(S) <= sent' - sent
    <3>1. CASE sent' \in {sent, sent + 1} /\ flight' \subseteq flight
      <4>1. T \subseteq S
        BY <3>1 DEF SentTo
      <4>2. IsFiniteSet(T) /\ Cardinality(T) \in Nat /\ Cardinality(T) <= Cardinality(S)
        BY <2>1, <2>2, <4>1
      <4> HIDE DEF S, T
      <4> QED
        BY <2>1, <3>1, <4>2
    <3>2. CASE sent' = sent + 1 /\ \A q \in Cores : \E x : SentTo(q)' \subseteq SentTo(q) \cup {x}
      <4>1. PICK x : T \subseteq S \cup {x}
        BY <3>2
      <4>2. /\ IsFiniteSet(S \cup {x}) /\ Cardinality(S \cup {x}) <= Cardinality(S) + 1
            /\ Cardinality(S \cup {x}) \in Nat
        <5> HIDE DEF S
        <5>1. /\ IsFiniteSet(S \cup {x})
              /\ Cardinality(S \cup {x}) = IF x \in S THEN Cardinality(S) ELSE Cardinality(S) + 1
          BY <2>1, FS_AddElement
        <5> QED
          BY <2>1, <5>1
      <4>3. IsFiniteSet(T) /\ Cardinality(T) \in Nat /\ Cardinality(T) <= Cardinality(S \cup {x})
        BY <2>2, <4>1, <4>2
      <4> HIDE DEF S, T
      <4> QED
        BY <2>1, <3>2, <4>2, <4>3
    <3> QED
      BY <3>1, <3>2
  <2>4. sent' \in Nat /\ Settled(p) = sent - Cardinality(S) /\ Settled(p)' = sent' - Cardinality(T)
    BY DEF Settled
  <2> HIDE DEF S, T
  <2>5. Settled(p)' \in Nat /\ Settled(p) <= Settled(p)'
    BY <2>1, <2>3, <2>4
  <2> QED
    BY <2>3, <2>5 DEF T
<1>2. ASSUME IsAttention, NEW p \in Cores, NEW b \in Buffers, NEW i \in Slots(b)
      PROVE  Within(Settled(p)', operands'[p][b][i])
  <2>1. PICK m \in Nat, n \in Nat : m = Settled(p) /\ n = Settled(p)' /\ m <= n
    BY <1>1 DEF SumsBounded
  <2>2. CASE operands' = operands
    <3>1. Within(m, operands[p][b][i]) /\ operands[p][b][i] \in Int
      BY <1>2, <2>1 DEF SumsBounded, TensorsOK, Tensors
    <3>2. Within(n, operands[p][b][i])
      BY <2>1, <3>1, WithinMore
    <3> QED
      BY Zenon, <2>1, <2>2, <3>2
  <2>3. CASE operands' = [q \in Cores |-> NoOperands]
    <3>1. operands'[p][b][i] = 0
      BY <1>2, <2>3, NothingHeld
    <3>2. Within(n, 0)
      BY DEF Within
    <3> QED
      BY Zenon, <2>1, <3>1, <3>2
  <2> QED
    BY <2>2, <2>3
<1> QED
  BY <1>1, <1>2 DEF SumsBounded

(* An operand that arrives moves one sum by one, and is no longer under way. *)
LEMMA OperandBounds ==
  ASSUME cfg \in Configurations, OperandsFit, UnitSpikes, IsAttention, AttentionInv, PacketsFit,
         SumsBounded, ReceiveOperand
  PROVE  IF phase' = "thrown" THEN ThrownForReason' ELSE SumsBounded'
<1> USE SameBounds
<1>1. PICK x \in flight :
         LET w == cfg.conns[x.conn]
             p == x.partition
             i == OperandIndex(layer, w.operand, w.layout, x.source)
             sum == operands[p][BufferOf(w.operand)][i] + x.value
         IN  /\ w.type = "attention"
             /\ flight' = flight \ {x}
             /\ IF sum \in -Transient .. Transient
                  THEN /\ operands' = [operands EXCEPT ![p][BufferOf(w.operand)][i] = sum]
                       /\ attention_pending' = attention_pending \cup {p}
                       /\ UNCHANGED phase
                  ELSE phase' = "thrown" /\ UNCHANGED <<operands, attention_pending>>
  BY DEF ReceiveOperand
<1>2. cfg' = cfg /\ sent' = sent /\ phase = "run"
  BY DEF ReceiveOperand
<1>3. PICK w, p, B, I :
         w = cfg.conns[x.conn] /\ p = x.partition /\ B = BufferOf(w.operand) /\ I = SlotOf(w, x.source)
  OBVIOUS
<1>4. p \in Cores /\ B \in Buffers /\ I \in Slots(B)
  <2>1. /\ x.conn \in DOMAIN cfg.conns /\ x.source \in 0 .. cfg.conns[x.conn].sources - 1
        /\ Routable(layer, cfg.conns[x.conn]) /\ cfg.conns[x.conn].type = "attention"
    BY <1>1 DEF AttentionInv, FlightOK
  <2>2. WellShaped /\ Carries(w) /\ x.source \in 0 .. OperandSize(layer, w.operand) - 1
    BY <1>3, <2>1, Carried
  <2>3. BufferOf(w.operand) \in Buffers /\ SlotOf(w, x.source) \in Slots(BufferOf(w.operand))
    BY <2>2, EntryIsSlot
  <2>4. p \in Destinations(layer, w, x.source)
    BY <1>3 DEF PacketsFit, PacketFits
  <2> QED
    BY <1>3, <2>2, <2>3, <2>4, OperandCores
<1>5. /\ operands = [q \in Cores |-> operands[q]]
      /\ \A q \in Cores : Tensors(operands[q])
  BY DEF AttentionInv, TensorsOK
<1>6. PICK t : t = operands[p] /\ Tensors(t)
  BY <1>4, <1>5
<1>7. PICK old \in Int, value \in {-1, 0, 1} : old = t[B][I] /\ value = x.value
  BY <1>4, <1>6 DEF Tensors, UnitSpikes, SumsBounded
<1>8. PICK sum \in Int : sum = old + value
  OBVIOUS
<1>9. /\ flight' = flight \ {x}
      /\ IF sum \in -Transient .. Transient
           THEN operands' = [operands EXCEPT ![p][B][I] = sum] /\ phase' = phase
           ELSE phase' = "thrown"
  BY <1>1, <1>3, <1>6, <1>7, <1>8 DEF SlotOf
<1>10. PICK n \in Nat : n = Settled(p) /\ n + 1 <= sent /\ Settled(p)' = n + 1
                        /\ IsFiniteSet(SentTo(p)')
  <2>1. /\ IsFiniteSet(SentTo(p)) /\ Settled(p) \in Nat /\ x \in SentTo(p)
        /\ SentTo(p)' = SentTo(p) \ {x} /\ sent \in Nat
    BY <1>2, <1>3, <1>4, <1>9 DEF SumsBounded, SentTo, PacketsFit
  <2>2. PICK c \in Nat : c = Cardinality(SentTo(p))
    BY <2>1, FS_CardinalityType
  <2>3. c # 0
    BY <2>1, <2>2, FS_EmptySet
  <2>4. IsFiniteSet(SentTo(p) \ {x}) /\ Cardinality(SentTo(p) \ {x}) = c - 1
    BY <2>1, <2>2, FS_RemoveElement
  <2>5. Settled(p) = sent - c /\ Settled(p)' = sent - (c - 1)
    BY <1>2, <2>1, <2>2, <2>4 DEF Settled
  <2> QED
    BY <2>1, <2>2, <2>3, <2>4, <2>5
<1>11. Within(n + 1, sum) /\ sent \in Nat /\ Transient \in Nat
  <2>1. Within(n, old)
    BY <1>4, <1>6, <1>7, <1>10 DEF SumsBounded
  <2> QED
    BY <1>8, <2>1, TransientAssumption DEF Within, PacketsFit
<1>12. CASE sum \notin -Transient .. Transient
  <2>1. sent > Transient
    BY <1>10, <1>11, <1>12 DEF Within
  <2>2. phase' = "thrown"
    BY <1>9, <1>12
  <2> QED
    BY <1>2, <2>1, <2>2 DEF ThrownForReason
<1>13. CASE sum \in -Transient .. Transient
  <2>1. operands' = [operands EXCEPT ![p][B][I] = sum] /\ phase' # "thrown"
    BY <1>2, <1>9, <1>13
  <2>2. ASSUME NEW q \in Cores
        PROVE  /\ q # p => operands'[q] = operands[q]
               /\ q = p => operands'[q] = [t EXCEPT ![B][I] = sum]
    BY <1>5, <1>6, <2>1
  <2>3. ASSUME NEW q \in Cores, q # p
        PROVE  SentTo(q)' = SentTo(q) /\ Settled(q)' = Settled(q)
    <3>1. SentTo(q)' = SentTo(q)
      BY <1>2, <1>3, <1>9, <2>3 DEF SentTo
    <3> QED
      BY <1>2, <3>1 DEF Settled
  <2>4. \A y \in flight' : y.value \in cfg.values
    BY <1>9 DEF SumsBounded
  <2>5. ASSUME NEW q \in Cores
        PROVE  IsFiniteSet(SentTo(q)') /\ Settled(q)' \in Nat
    BY <1>10, <2>3 DEF SumsBounded
  <2>6. ASSUME NEW q \in Cores, NEW b \in Buffers, NEW i \in Slots(b)
        PROVE  Within(Settled(q)', operands'[q][b][i])
    <3>1. CASE q # p
      BY <2>2, <2>3, <3>1 DEF SumsBounded
    <3>2. CASE q = p /\ b = B /\ i = I
      <4>1. operands'[q] = [t EXCEPT ![B][I] = sum]
        BY <2>2, <3>2
      <4>2. operands'[q][B][I] = sum
        BY <1>4, <1>6, <4>1, TensorChange
      <4> QED
        BY Zenon, <1>10, <1>11, <3>2, <4>2
    <3>3. CASE q = p /\ ~(b = B /\ i = I)
      <4>1. [t EXCEPT ![B][I] = sum][b][i] = t[b][i]
        BY <1>4, <1>6, <3>3, TensorChange
      <4>2. Within(n, t[b][i]) /\ t[b][i] \in Int
        BY <1>4, <1>6, <1>10, <2>6 DEF SumsBounded, Tensors
      <4>3. Within(n + 1, t[b][i])
        BY <4>2, WithinMore
      <4> QED
        BY Zenon, <1>10, <2>2, <3>3, <4>1, <4>3
    <3> QED
      BY <3>1, <3>2, <3>3
  <2>7. SumsBounded'
    BY <1>2, <2>4, <2>5, <2>6 DEF SumsBounded
  <2> QED
    BY <2>1, <2>7
<1> QED
  BY <1>12, <1>13

(* A spike adds to no core more than one packet, or throws for a reason.   *)
LEMMA FireBounds ==
  ASSUME cfg \in Configurations, IsAttention => TensorsOK, PacketsFit, SumsBounded, Fire
  PROVE  IF phase' = "thrown" THEN ThrownForReason' ELSE SumsBounded'
<1> USE SameBounds
<1>1. cfg' = cfg /\ sent' = sent + 1 /\ operands' = operands /\ sent \in Nat
  BY DEF Fire, PacketsFit
<1>2. CASE phase' # "thrown"
  <2>1. PICK k \in DOMAIN cfg.conns : \E s \in 0 .. cfg.conns[k].sources - 1, v \in cfg.values :
              /\ cfg.conns[k].type # "local_state_buffer" /\ Routable(layer, cfg.conns[k])
              /\ owed' = Owe(cfg.conns[k], s, v)
              /\ flight' = flight \cup
                    {Packet(k, s, v, p) : p \in Destinations(layer, cfg.conns[k], s)}
    BY Zenon, <1>2, FireEffect
  <2>2. PICK s \in 0 .. cfg.conns[k].sources - 1, v \in cfg.values :
              flight' = flight \cup
                    {Packet(k, s, v, p) : p \in Destinations(layer, cfg.conns[k], s)}
    BY Zenon, <2>1
  <2>3. \A p : Packet(k, s, v, p).value = v /\ Packet(k, s, v, p).partition = p
    BY DEF Packet
  <2>4. \A x \in flight' : x.value \in cfg.values
    BY <2>2, <2>3 DEF SumsBounded
  <2>5. \A p \in Cores : SentTo(p)' \subseteq SentTo(p) \cup {Packet(k, s, v, p)}
    BY <2>2, <2>3 DEF SentTo
  <2>6. \A p \in Cores : \E x : SentTo(p)' \subseteq SentTo(p) \cup {x}
    BY Zenon, <2>5
  <2> QED
    BY <1>1, <1>2, <2>4, <2>6, QuietBounds
<1>3. CASE phase' = "thrown"
  <2>1. phase # "thrown"
    BY DEF Fire
  <2>2. \E k \in DOMAIN cfg.conns : ~ Routable(layer, cfg.conns[k])
    BY <1>3, <2>1 DEF Fire
  <2>3. \E k \in DOMAIN cfg.conns : ~ Routable(layer, cfg.conns[k])'
    BY <1>1, <2>2, SameShapes DEF SameShape
  <2> QED
    BY <1>1, <1>3, <2>3 DEF ThrownForReason
<1> QED
  BY <1>2, <1>3

(* The inductive invariant of both halves of ArrivesWhole; that of the      *)
(* product is part of it, because an attention core adds the change of the *)
(* product to its inputs.                                                  *)
WholeInv ==
    /\ ProductInv
    /\ OperandsFit /\ UpdatesFit => ArrivalInv /\ (UnitSpikes => BoundInv)

(* Every step keeps the sums bounded, or has thrown for a reason.          *)
LEMMA BoundInvNext ==
  ASSUME ProductInv, OperandsFit, UpdatesFit, UnitSpikes, ArrivalInv, BoundInv, [Next]_vars
  PROVE  BoundInv'
<1> USE SameBounds
<1>1. CASE phase = "thrown"
  <2>1. UNCHANGED vars
    BY <1>1 DEF Next, Load, Fire, LocalState, ReceiveUpdates, ReceiveOperand, Process
  <2>2. cfg' = cfg /\ sent' = sent /\ phase' = phase
    BY <2>1 DEF vars
  <2>3. ThrownForReason
    BY <1>1 DEF BoundInv
  <2>4. \A k \in DOMAIN cfg.conns : Routable(layer, cfg.conns[k])' <=> Routable(layer, cfg.conns[k])
    BY <2>2, SameShapes DEF SameShape
  <2>5. ThrownForReason'
    BY <2>2, <2>3, <2>4 DEF ThrownForReason
  <2> QED
    BY <1>1, <2>2, <2>5 DEF BoundInv
<1>2. CASE phase # "thrown"
  <2>1. /\ cfg \in Configurations /\ SumsBounded /\ PacketsFit /\ sent \in Nat
        /\ IsAttention => AttentionInv /\ TensorsOK
        /\ ~ IsAttention => StandardInv
    BY <1>2 DEF ProductInv, BoundInv, ArrivalInv, PacketsFit, AttentionInv
  <2>2. CASE Load \/ LocalState \/ ReceiveUpdates \/ Process \/ UNCHANGED vars
    <3>1. /\ cfg' = cfg /\ phase' # "thrown" /\ flight' \subseteq flight /\ sent' \in {sent, sent + 1}
          /\ operands' = operands \/ operands' = [p \in Cores |-> NoOperands]
      <4>1. CASE Load \/ LocalState \/ ReceiveUpdates \/ UNCHANGED vars
        BY <1>2, <4>1 DEF Load, LocalState, ReceiveUpdates, vars
      <4>2. CASE Process
        BY <1>2, <4>2, ProcessOperands
      <4> QED
        BY <2>2, <4>1, <4>2
    <3>2. \A x \in flight' : x.value \in cfg.values
      BY <2>1, <3>1 DEF SumsBounded
    <3>3. SumsBounded'
      BY <2>1, <3>1, <3>2, QuietBounds
    <3> QED
      BY <3>1, <3>3 DEF BoundInv
  <2>3. CASE Fire
    <3>1. IF phase' = "thrown" THEN ThrownForReason' ELSE SumsBounded'
      BY <2>1, <2>3, FireBounds
    <3> QED
      BY <3>1 DEF BoundInv
  <2>4. CASE ReceiveOperand
    <3>1. IsAttention
      BY <2>1, <2>4 DEF ReceiveOperand, StandardInv
    <3>2. IF phase' = "thrown" THEN ThrownForReason' ELSE SumsBounded'
      BY <2>1, <2>4, <3>1, OperandBounds
    <3> QED
      BY <3>2 DEF BoundInv
  <2> QED
    BY <2>2, <2>3, <2>4 DEF Next
<1> QED
  BY <1>1, <1>2

(* Every step keeps the arrival invariant.                                 *)
LEMMA ArrivalInvNext ==
  ASSUME ProductInv, OperandsFit, UpdatesFit, ArrivalInv, [Next]_vars
  PROVE  ArrivalInv'
<1>1. cfg \in Configurations /\ OutputIsProduct /\ DOMAIN owed = OwedFields
  BY DEF ProductInv, OutputIsProduct
<1>2. CASE Load \/ UNCHANGED vars
  <2>1. UNCHANGED <<cfg, flight, buffer, pending, owed>> /\ sent' = sent
    BY <1>2 DEF Load, vars
  <2> QED
    BY <2>1, Unmoved
<1>3. CASE Fire
  <2>1. CASE phase' # "thrown"
    BY <1>1, <1>3, <2>1, FireArrives
  <2>2. CASE phase' = "thrown"
    <3>1. UNCHANGED <<cfg, flight, buffer, pending, owed>> /\ sent' = sent + 1
      BY <1>3, <2>2 DEF Fire
    <3> QED
      BY <3>1, Unmoved
  <2> QED
    BY <2>1, <2>2
<1>4. CASE LocalState
  BY <1>1, <1>4, LocalArrives
<1>5. CASE ReceiveUpdates
  BY <1>1, <1>5, UpdatesArrive
<1>6. CASE ReceiveOperand
  BY <1>1, <1>6, OperandArrives
<1>7. CASE Process
  <2>1. phase = "run"
    BY <1>7, ProcessOperands
  <2>2. IF IsAttention THEN AttentionInv ELSE StandardInv
    BY <2>1 DEF ProductInv
  <2> QED
    BY <1>1, <1>7, <2>2, ProcessArrives
<1> QED
  BY <1>2, <1>3, <1>4, <1>5, <1>6, <1>7 DEF Next

(* Every step keeps the whole of it.                                       *)
LEMMA WholeInvNext ==
  ASSUME WholeInv, [Next]_vars
  PROVE  WholeInv'
<1>1. ProductInv /\ ProductInv'
  BY ProductInvNext DEF WholeInv
<1>2. cfg' = cfg
  BY DEF Next, Load, Fire, LocalState, ReceiveUpdates, ReceiveOperand, Process, vars
<1>3. (OperandsFit' <=> OperandsFit) /\ (UpdatesFit' <=> UpdatesFit) /\ (UnitSpikes' <=> UnitSpikes)
  BY <1>2, SameShapes, SameArrival, SameBounds DEF SameShape
<1>4. SUFFICES ASSUME OperandsFit, UpdatesFit
               PROVE  ArrivalInv' /\ (UnitSpikes => BoundInv')
  BY <1>1, <1>3 DEF WholeInv
<1>5. ArrivalInv'
  BY <1>1, <1>4, ArrivalInvNext DEF WholeInv
<1>6. UnitSpikes => BoundInv'
  BY <1>1, <1>4, BoundInvNext DEF WholeInv
<1> QED
  BY <1>5, <1>6

(* The initial states have it.                                             *)
LEMMA WholeInvInit ==
  ASSUME Init
  PROVE  WholeInv
<1>1. ProductInv
  BY ProductInvInit
<1>2. ASSUME OperandsFit, UpdatesFit
      PROVE  ArrivalInv /\ (UnitSpikes => BoundInv)
  <2>1. ArrivalInv
    BY <1>2, ArrivalInit
  <2>2. /\ phase = "load" /\ sent = 0 /\ flight = {}
        /\ operands = [p \in Cores |-> NoOperands]
    BY DEF Init
  <2>3. \A p : SentTo(p) = {} /\ Settled(p) = 0
    <3>1. \A p : SentTo(p) = {}
      BY <2>2 DEF SentTo
    <3> QED
      BY <2>2, <3>1, FS_EmptySet DEF Settled
  <2>4. ASSUME IsAttention, NEW p \in Cores, NEW b \in Buffers, NEW i \in Slots(b)
        PROVE  Within(Settled(p), operands[p][b][i])
    <3>1. operands[p][b][i] = 0 /\ Settled(p) = 0
      BY <2>2, <2>3, <2>4, NothingHeld
    <3>2. Within(0, 0)
      BY DEF Within
    <3> QED
      BY Zenon, <3>1, <3>2
  <2>5. SumsBounded
    BY <2>2, <2>3, <2>4, FS_EmptySet DEF SumsBounded
  <2> QED
    BY <2>1, <2>2, <2>5 DEF BoundInv
<1> QED
  BY <1>1, <1>2 DEF WholeInv

(* Once the packets are in, nothing is awaited: the inputs are whole.      *)
LEMMA InputsFromInv ==
  ASSUME WholeInv, OperandsFit, UpdatesFit
  PROVE  InputsWhole
<1>1. cfg \in Configurations /\ ArrivalInv /\ Laid
  BY FitsLaid DEF WholeInv, ProductInv
<1>2. ASSUME flight = {}
      PROVE  /\ \A l \in Logical : buffer[Physical(l)] = owed.input[l]
             /\ \A l \in owed.touched : Physical(l) \in pending
             /\ ~ IsAttention => \A n \in pending : logical_neuron_index(layer, n) \in owed.touched
  <2>1. ASSUME NEW l \in Logical
        PROVE  buffer[Physical(l)] = owed.input[l]
    <3>1. Toward(l) = {}
      BY <1>2 DEF Toward
    <3>2. Awaited(l) = 0
      BY <3>1, SumEmpty DEF Awaited
    <3>3. buffer[Physical(l)] \in Int /\ buffer[Physical(l)] + Awaited(l) = owed.input[l]
      BY <1>1, CoreOf DEF ArrivalInv, InputOnItsWay
    <3> QED
      BY <3>2, <3>3
  <2>2. /\ pending \subseteq Logical /\ owed.touched \subseteq Logical
        /\ \A l \in Logical :
              /\ l \in owed.touched => Physical(l) \in pending
              /\ ~ IsAttention => (Physical(l) \in pending => l \in owed.touched)
    BY <1>1, <1>2 DEF ArrivalInv, TouchedOnTheirWay, Woken
  <2>3. ASSUME ~ IsAttention, NEW n \in pending
        PROVE  logical_neuron_index(layer, n) \in owed.touched
    <3>1. PICK l \in Logical : Physical(l) = n
      BY <1>1, <2>2, PhysicalOnto
    <3>2. logical_neuron_index(layer, n) = l
      BY <1>1, <3>1, CoreOf
    <3> QED
      BY <2>2, <2>3, <3>1, <3>2
  <2> QED
    BY <2>1, <2>2, <2>3
<1>3. ASSUME NEW x \in flight, cfg.conns[x.conn].type \notin {"attention", "crossbar"}
      PROVE  Updates(layer, cfg.conns[x.conn], x.source, x.partition) # <<>>
  <2>1. PacketFits(x)
    BY <1>1 DEF ArrivalInv, PacketsFit
  <2>2. DOMAIN Ups(x) # {}
    BY <1>1, <1>3, <2>1, PacketArrives DEF PacketActs
  <2>3. DOMAIN <<>> = {}
    OBVIOUS
  <2> QED
    BY <2>2, <2>3 DEF Ups
<1> QED
  BY <1>2, <1>3 DEF InputsWhole

(* What the spikes of a step do to the cores of a layer is, once they have  *)
(* arrived, what they would have done to the undivided layer, for every     *)
(* shape, order, kind of connection, cut into cores and order of arrival    *)
(* (synapse.hpp, core.cpp:157-158).                                         *)
THEOREM InputsArrive == Spec => [](OperandsFit /\ UpdatesFit => InputsWhole)
<1>1. Init => WholeInv
  BY WholeInvInit
<1>2. WholeInv /\ [Next]_vars => WholeInv'
  BY WholeInvNext
<1>3. WholeInv => (OperandsFit /\ UpdatesFit => InputsWhole)
  BY InputsFromInv
<1> QED
  BY <1>1, <1>2, <1>3, PTL DEF Spec

(* And with spikes of -1, 0 and 1, which are those process_neuron makes, an *)
(* accepted model throws only where a layout has no route or an operand was *)
(* sent more spikes in a run than its buffer counts (core.cpp:146).         *)
THEOREM SpikesArriveWhole ==
  Spec => [](OperandsFit /\ UpdatesFit /\ UnitSpikes => ArrivesWhole)
<1>1. Init => WholeInv
  BY WholeInvInit
<1>2. WholeInv /\ [Next]_vars => WholeInv'
  BY WholeInvNext
<1>3. WholeInv => (OperandsFit /\ UpdatesFit /\ UnitSpikes => ArrivesWhole)
  BY InputsFromInv DEF WholeInv, BoundInv, ThrownForReason, ArrivesWhole
<1> QED
  BY <1>1, <1>2, <1>3, PTL DEF Spec

(***************************************************************************)
(* Charge.  Without leak, what process_neuron adds to a membrane and what  *)
(* it takes for a spike is all that changes it.                            *)
(***************************************************************************)
LEMMA NothingLeaks ==
  ASSUME NEW soma, soma.leak = <<1, 1>>, soma.step \in {0, 1}, NEW v \in Int
  PROVE  Leaked(soma, v) = v
<1>1. soma.leak[1] = 1 /\ soma.leak[2] = 1
  OBVIOUS
<1>2. CASE soma.step = 0
  BY <1>2 DEF Leaked
<1>3. CASE soma.step = 1
  <2>1. Leaked(soma, v) = Truncated(v * 1, 1 * 1) * 1
    BY <1>1, <1>3 DEF Leaked
  <2>2. Truncated(v * 1, 1 * 1) = v
    BY DEF Truncated
  <2> QED
    BY <2>1, <2>2
<1> QED
  BY <1>2, <1>3

NoLoss(soma) ==
    /\ soma.leak = <<1, 1>> /\ soma.step \in {0, 1} /\ soma.reset = "soft"
    /\ soma.scale \in Int /\ soma.min \in Int /\ soma.max \in Int
Fits(soma, raw) == soma.min <= raw /\ raw <= soma.max
Charged(soma, threshold, neuron, input, woken, bias) ==
    LET r == process_neuron(soma, threshold, neuron, input, woken, bias)
    IN  /\ r.voltage \in Int
        /\ r.voltage + threshold * r.fired = neuron.voltage + soma.scale * (input + bias)
(* One transition: what it adds to the membrane and what a spike takes.    *)
LEMMA NeuronCharge ==
  ASSUME NEW soma, NoLoss(soma), NEW threshold \in Int, NEW neuron, neuron.voltage \in Int,
         NEW input \in Int, NEW woken, ~ woken => input = 0, NEW bias \in Int,
         Fits(soma, Leaked(soma, neuron.voltage) + soma.scale * (input + bias))
  PROVE  Charged(soma, threshold, neuron, input, woken, bias)
<1> USE DEF Charged
<1> DEFINE r == process_neuron(soma, threshold, neuron, input, woken, bias)
           raw == Leaked(soma, neuron.voltage) + soma.scale * (input + bias)
           v == Clamped(soma, raw)
<1>1. PICK k \in Int : k = soma.scale * (input + bias)
  BY DEF NoLoss
<1>2. PICK u \in Int : u = neuron.voltage
  OBVIOUS
<1>3. raw = u + k /\ raw \in Int
  BY <1>1, <1>2, NothingLeaks DEF NoLoss
<1>4. Fits(soma, raw)
  OBVIOUS
<1> HIDE DEF raw
<1>5. v = u + k /\ ~(raw > soma.max)
  BY <1>3, <1>4 DEF Clamped, Fits, NoLoss
<1>6. CASE ~ woken /\ bias = 0 /\ neuron.voltage = 0
  <2>1. r = [voltage |-> 0, tracer |-> neuron.tracer, fired |-> 0]
    BY <1>6 DEF process_neuron
  <2>2. k = 0 /\ u = 0
    BY <1>1, <1>2, <1>6 DEF NoLoss
  <2>3. r.voltage = 0 /\ r.fired = 0
    BY <2>1
  <2> QED
    BY <1>1, <1>2, <2>2, <2>3
<1>7. CASE ~(~ woken /\ bias = 0 /\ neuron.voltage = 0) /\ soma.model = "st_bif"
  <2>1. r = StBif(soma, threshold, v, neuron.tracer)
    BY <1>7 DEF process_neuron, raw
  <2> HIDE DEF v, r
  <2>2. PICK f \in {-1, 0, 1} : r.voltage = v - f * threshold /\ r.fired = f
    BY <2>1 DEF StBif
  <2>3. r.voltage = (u + k) - f * threshold /\ r.fired = f
    BY <1>5, <2>2
  <2>4. r.voltage \in Int /\ r.voltage + threshold * r.fired = u + k
    BY <2>3
  <2> QED
    BY <1>1, <1>2, <2>4 DEF r
<1>8. CASE ~(~ woken /\ bias = 0 /\ neuron.voltage = 0) /\ soma.model # "st_bif"
  <2>1. r = Lif(soma, threshold, v, neuron.tracer, raw > soma.max)
    BY <1>8 DEF process_neuron, raw
  <2>2. ~(raw > soma.max) /\ soma.reset = "soft"
    BY <1>5 DEF NoLoss
  <2> DEFINE fires == ~ soma.readout /\ Reached(soma, v, threshold)
  <2> HIDE DEF v, r
  <2>3. r = [voltage |-> IF ~ fires THEN v ELSE v - threshold, tracer |-> neuron.tracer,
             fired |-> IF fires THEN 1 ELSE 0]
    BY <2>1, <2>2 DEF Lif
  <2> HIDE DEF fires
  <2>4. r.voltage = (IF fires THEN (u + k) - threshold ELSE u + k)
        /\ r.fired = IF fires THEN 1 ELSE 0
    BY <1>5, <2>3
  <2>5. r.voltage \in Int /\ r.voltage + threshold * r.fired = u + k
    BY <2>4
  <2> QED
    BY <1>1, <1>2, <2>5 DEF r
<1> QED
  BY <1>6, <1>7, <1>8

(* The value a neuron has of an array that fits the layer.                 *)
LEMMA ValueInt ==
  ASSUME Sized(layer), NEW values, values \in [0 .. Size(values) - 1 -> Int], values # <<>>,
         Shaped(layer, values, TRUE), NEW l \in Logical
  PROVE  ValueOf(layer, values, l) \in Int
<1>1. Size(values) \in {0, 1, layer.channels, layer.neurons}
  BY DEF Shaped
<1>2. PICK size \in Nat : size = Size(values)
  BY <1>1 DEF Sized
<1>3. values \in [0 .. size - 1 -> Int]
  BY <1>2
<1>4. size # 0
  <2> SUFFICES ASSUME size = 0 PROVE FALSE
    OBVIOUS
  <2>1. 0 .. size - 1 = {}
    OBVIOUS
  <2>2. values = [x \in {} |-> values[x]]
    BY <1>3, <2>1
  <2>3. <<>> = [x \in {} |-> values[x]]
    OBVIOUS
  <2> QED
    BY <2>2, <2>3
<1>5. layer.neurons \in Nat /\ layer.channels \in Nat /\ l \in 0 .. layer.neurons - 1
  BY DEF Sized, Logical
<1>6. CASE size = 1
  <2>1. ValueOf(layer, values, l) = values[0]
    BY <1>2, <1>6 DEF ValueOf
  <2>2. 0 \in 0 .. size - 1
    BY <1>6
  <2> QED
    BY <1>3, <2>1, <2>2
<1>7. CASE size # 1 /\ size = layer.neurons
  <2>1. ValueOf(layer, values, l) = values[l]
    BY <1>2, <1>7 DEF ValueOf
  <2> QED
    BY <1>3, <1>5, <1>7, <2>1
<1>8. CASE size # 1 /\ size # layer.neurons
  <2>1. ValueOf(layer, values, l) = values[l % layer.channels]
    BY <1>2, <1>8 DEF ValueOf
  <2>2. size = layer.channels
    BY <1>1, <1>2, <1>4, <1>8
  <2>3. l % layer.channels \in 0 .. size - 1
    BY <1>4, <1>5, <2>2
  <2> QED
    BY <1>3, <2>1, <2>3
<1> QED
  BY <1>6, <1>7, <1>8

(* The numbers of the membranes are integers.                              *)
LEMMA SomaNumbers ==
  ASSUME cfg \in Configurations, Loadable, NEW l \in Logical
  PROVE  Threshold(l) \in Int /\ Bias(l) \in Int /\ Initial(l) \in Int
<1>1. Sized(layer)
  BY Layout
<1>2. /\ cfg.threshold \in [0 .. Size(cfg.threshold) - 1 -> Int]
      /\ cfg.initial \in [0 .. Size(cfg.initial) - 1 -> Int]
      /\ cfg.bias \in [0 .. Size(cfg.bias) - 1 -> Int]
      /\ cfg.soma.threshold \in Int
  BY ConfigurationAssumption
<1>3. /\ Shaped(layer, cfg.threshold, TRUE) /\ Shaped(layer, cfg.initial, TRUE)
      /\ Shaped(layer, cfg.bias, TRUE)
  BY DEF Loadable, Shaped
<1>4. cfg.threshold = <<>> \/ ValueOf(layer, cfg.threshold, l) \in Int
  BY <1>1, <1>2, <1>3, ValueInt
<1>5. cfg.initial = <<>> \/ ValueOf(layer, cfg.initial, l) \in Int
  BY <1>1, <1>2, <1>3, ValueInt
<1>6. cfg.bias = <<>> \/ ValueOf(layer, cfg.bias, l) \in Int
  BY <1>1, <1>2, <1>3, ValueInt
<1> QED
  BY <1>2, <1>4, <1>5, <1>6 DEF Threshold, Bias, Initial, At

(* The raw membrane of a neuron, before it is clamped, and a neuron phase   *)
(* that clamps none.                                                        *)
Raw(n) ==
    Leaked(cfg.soma, neurons[n].voltage)
        + cfg.soma.scale * (buffer[n] + layer.scale * Added(n)
                              + Bias(logical_neuron_index(layer, n)))
NothingClips == Process => \A n \in Logical : Fits(cfg.soma, Raw(n))

(* The balance of every neuron; one that is not awake has no input.         *)
Balanced(l) ==
    neurons[Physical(l)].voltage + Threshold(l) * NetSpikes(l) = Initial(l) + owed.charge[l]
Idle == \A n \in Logical : n \notin pending => buffer[n] = 0
ChargeInv ==
    /\ \A n \in Logical : neurons[n].voltage \in Int
    /\ \A l \in Logical : owed.charge[l] \in Int
    /\ \A l \in Logical : Balanced(l)
    /\ Idle

(* Thresholds and initial membranes depend on the configuration.           *)
LEMMA SameSoma ==
  ASSUME cfg' = cfg
  PROVE  /\ (Conserving' <=> Conserving) /\ Logical' = Logical
         /\ \A l : /\ Physical(l)' = Physical(l) /\ Threshold(l)' = Threshold(l)
                   /\ Initial(l)' = Initial(l)
<1>1. layer' = layer /\ Logical' = Logical
  BY DEF layer, Logical
<1>2. Conserving' <=> Conserving
  BY DEF Conserving
<1> QED
  BY <1>1, <1>2 DEF Physical, Threshold, Initial, At

(* An update wakes the neuron it names.                                    *)
LEMMA WakesNamed ==
  ASSUME Laid, buffer \in [Logical -> Int], Idle, NEW u, FamilyFits(u), NEW v \in Int,
         cfg' = cfg, buffer' = Add(buffer, u, v, Physical),
         pending' = pending \cup {Physical(u[i][1]) : i \in DOMAIN u}
  PROVE  Idle'
<1>1. SUFFICES ASSUME NEW n \in Logical, n \notin pending'
               PROVE  buffer'[n] = 0
  BY SameSoma DEF Idle
<1>2. PICK l \in Logical : Physical(l) = n
  BY PhysicalOnto
<1>3. l \notin Targets(u)
  BY <1>1, <1>2 DEF Targets
<1>4. Gain(u, l) = 0
  BY <1>3, Untouched
<1>5. buffer'[n] = buffer[n] + v * Gain(u, l)
  BY <1>2, AddPhysical
<1>6. buffer[n] = 0
  BY <1>1 DEF Idle
<1>7. buffer'[n] = 0 + v * 0
  BY <1>4, <1>5, <1>6
<1> QED
  BY <1>7

(* A step that moves no membrane and owes no charge.                        *)
LEMMA QuietCharge ==
  ASSUME ChargeInv, UNCHANGED <<cfg, neurons, trace>>, owed'.charge = owed.charge, Idle'
  PROVE  ChargeInv'
<1>1. cfg' = cfg /\ neurons' = neurons /\ trace' = trace
  OBVIOUS
<1>2. /\ Logical' = Logical
      /\ \A l : /\ Physical(l)' = Physical(l) /\ Threshold(l)' = Threshold(l)
                /\ Initial(l)' = Initial(l)
  BY <1>1, SameSoma
<1>3. \A l : NetSpikes(l)' = NetSpikes(l)
  BY <1>1, SameNetSpikes
<1>4. \A l \in Logical : Balanced(l)'
  BY <1>1, <1>2, <1>3 DEF ChargeInv, Balanced
<1> QED
  BY <1>1, <1>2, <1>4 DEF ChargeInv

(* A spike owes no charge before the neuron phase takes its input.         *)
LEMMA OweCharge ==
  ASSUME DOMAIN owed = OwedFields, NEW w, NEW s, NEW v
  PROVE  Owe(w, s, v).charge = owed.charge
BY Zenon DEF OwedFields, Owe

(* Every step but the neuron phase.                                        *)
LEMMA QuietStepsCharge ==
  ASSUME cfg \in Configurations, UpdatesFit, ArrivalInv, DOMAIN owed = OwedFields, ChargeInv,
         Load \/ Fire \/ LocalState \/ ReceiveUpdates \/ ReceiveOperand \/ UNCHANGED vars
  PROVE  ChargeInv'
<1>1. UNCHANGED <<cfg, neurons, trace>> /\ cfg' = cfg
  BY QuietSteps DEF QuietStep
<1>2. Laid /\ buffer \in [Logical -> Int] /\ Idle
  BY FitsLaid DEF ArrivalInv, InputOnItsWay, ChargeInv
<1>3. owed'.charge = owed.charge
  <2>1. CASE Load \/ ReceiveUpdates \/ ReceiveOperand \/ UNCHANGED vars
    <3>1. owed' = owed
      BY <2>1 DEF Load, ReceiveUpdates, ReceiveOperand, vars
    <3> QED
      BY <3>1
  <2>2. CASE Fire
    <3>1. owed' = owed \/ \E w, s, v : owed' = Owe(w, s, v)
      BY <2>2 DEF Fire
    <3> QED
      BY <3>1, OweCharge
  <2>3. CASE LocalState
    <3>1. \E w, s, v : owed' = Owe(w, s, v)
      BY <2>3 DEF LocalState
    <3> QED
      BY <3>1, OweCharge
  <2> QED
    BY <2>1, <2>2, <2>3
<1>4. Idle'
  <2>1. CASE Load \/ Fire \/ ReceiveOperand \/ UNCHANGED vars
    <3>1. buffer' = buffer /\ pending' = pending
      BY <2>1 DEF Load, Fire, ReceiveOperand, vars
    <3> QED
      BY <1>1, <1>2, <3>1, SameSoma DEF Idle
  <2>2. CASE LocalState
    <3>1. PICK k \in DOMAIN cfg.conns : LET w == cfg.conns[k] IN
            \E s \in 0 .. w.sources - 1, v \in cfg.values :
              /\ w.type = "local_state_buffer"
              /\ LET updates == Updates(layer, w, s, Partition(layer, s))
                 IN  /\ buffer' = Add(buffer, updates, v, Physical)
                     /\ pending' = pending \cup {Physical(updates[i][1]) : i \in DOMAIN updates}
      BY <2>2 DEF LocalState
    <3>2. PICK s \in 0 .. cfg.conns[k].sources - 1, v \in cfg.values :
            /\ cfg.conns[k].type = "local_state_buffer"
            /\ LET updates == Updates(layer, cfg.conns[k], s, Partition(layer, s))
               IN  /\ buffer' = Add(buffer, updates, v, Physical)
                   /\ pending' = pending \cup {Physical(updates[i][1]) : i \in DOMAIN updates}
      BY Zenon, <3>1
    <3>3. PICK w, u : /\ w = cfg.conns[k] /\ w.type = "local_state_buffer"
                      /\ u = Updates(layer, w, s, Partition(layer, s))
      BY <3>2
    <3>4. /\ buffer' = Add(buffer, u, v, Physical)
          /\ pending' = pending \cup {Physical(u[i][1]) : i \in DOMAIN u}
      BY <3>2, <3>3
    <3>5. v \in Int /\ SpikeFits(w, s)
      BY <3>2, <3>3, FitsLaid, ConfigurationAssumption
    <3>6. FamilyFits(u)
      BY <1>2, <3>3, <3>5, LocalWhole
    <3> QED
      BY <1>1, <1>2, <3>4, <3>5, <3>6, WakesNamed
  <2>3. CASE ReceiveUpdates
    <3>1. PICK x \in flight :
            /\ buffer' = Add(buffer, Ups(x), x.value, Physical)
            /\ pending' = pending \cup {Physical(Ups(x)[i][1]) : i \in DOMAIN Ups(x)}
      BY <2>3 DEF ReceiveUpdates, Ups
    <3>2. PacketFits(x) /\ x.value \in Int
      BY DEF ArrivalInv, PacketsFit, PacketFits
    <3>3. FamilyFits(Ups(x))
      BY <3>2, PacketArrives DEF PacketActs
    <3> QED
      BY <1>1, <1>2, <3>1, <3>2, <3>3, WakesNamed
  <2> QED
    BY <2>1, <2>2, <2>3
<1> QED
  BY <1>1, <1>3, <1>4, QuietCharge

(* What a neuron phase does to one neuron: it adds what is due and takes    *)
(* what the spike carries.                                                  *)
LEMMA PhaseCharge ==
  ASSUME cfg \in Configurations, OperandsFit, UpdatesFit, OutputIsProduct, ArrivalInv,
         IF IsAttention THEN AttentionInv ELSE StandardInv, Conserving, Process,
         NothingClips, \A n \in Logical : neurons[n].voltage \in Int, Idle,
         NEW l \in Logical
  PROVE  LET r == Result(Physical(l))
         IN  /\ Due(l) \in Int /\ Due(l) = buffer[Physical(l)] + layer.scale * Added(Physical(l))
             /\ r.voltage \in Int
             /\ r.voltage + Threshold(l) * r.fired
                  = neurons[Physical(l)].voltage + cfg.soma.scale * (Due(l) + Bias(l))
<1> DEFINE n == Physical(l)
           r == Result(n)
           input == buffer[n] + layer.scale * Added(n)
           woken == n \in pending \cup {k \in Logical : Added(k) # 0}
<1>1. flight = {} /\ Laid /\ Loadable
  BY ProcessOperands, FitsLaid DEF UpdatesFit
<1>2. n \in Logical /\ logical_neuron_index(layer, n) = l
  BY <1>1, CoreOf
<1>3. Added(n) \in Int /\ Product(l) - owed.product[l] = Added(n)
  BY <1>1, AddedGrows
<1>4. buffer[n] = owed.input[l] /\ buffer[n] \in Int
  <2>1. Awaited(l) = 0
    BY <1>1, SumEmpty DEF Awaited, Toward
  <2>2. /\ buffer[n] + 0 = owed.input[l] /\ owed.input[l] \in Int /\ buffer[n] \in Int
    BY <1>2, <2>1 DEF ArrivalInv, InputOnItsWay
  <2> QED
    BY <2>2
<1>5. layer.scale \in Int /\ Threshold(l) \in Int /\ Bias(l) \in Int
  BY <1>1, SomaNumbers, ConfigurationAssumption DEF layer
<1>6. input \in Int
  BY <1>3, <1>4, <1>5
<1>7. Due(l) = input
  BY <1>3, <1>4 DEF Due
<1>8. ~ woken => input = 0
  <2> SUFFICES ASSUME ~ woken PROVE input = 0
    OBVIOUS
  <2>1. Added(n) = 0 /\ n \notin pending
    BY <1>2
  <2>2. buffer[n] = 0
    BY <1>2, <2>1 DEF Idle
  <2> QED
    BY <1>5, <2>1, <2>2
<1>9. NoLoss(cfg.soma)
  <2>1. /\ cfg.soma.scale \in Int /\ cfg.soma.min \in Int /\ cfg.soma.max \in Int
        /\ cfg.soma.step \in Int
    BY ConfigurationAssumption
  <2>2. cfg.soma.step >= 0
    BY <1>1 DEF Loadable, SomaValid
  <2> QED
    BY <2>1, <2>2 DEF Conserving, NoLoss
<1>10. r = process_neuron(cfg.soma, Threshold(l), neurons[n], input, woken, Bias(l))
  <2> DEFINE delta == [k \in Logical |-> Delta(k \div layer.max, k)]
  <2>1. \A k \in Logical : delta[k] = Added(k)
    BY DEF Added
  <2> HIDE DEF delta
  <2>2. {k \in Logical : delta[k] # 0} = {k \in Logical : Added(k) # 0} /\ delta[n] = Added(n)
    BY <1>2, <2>1
  <2>3. r = process_neuron(cfg.soma, Threshold(l), neurons[n], buffer[n] + layer.scale * delta[n],
                           n \in pending \cup {k \in Logical : delta[k] # 0}, Bias(l))
    BY <1>2 DEF Result, delta
  <2> QED
    BY <2>2, <2>3
<1>11. Fits(cfg.soma, Leaked(cfg.soma, neurons[n].voltage) + cfg.soma.scale * (input + Bias(l)))
  BY <1>2 DEF NothingClips, Raw
<1>12. neurons[n].voltage \in Int
  BY <1>2
<1> HIDE DEF n, input, woken, r
<1>13. /\ r.voltage \in Int
       /\ r.voltage + Threshold(l) * r.fired
            = neurons[n].voltage + cfg.soma.scale * (input + Bias(l))
  <2>1. PICK neuron, t, b : neuron = neurons[n] /\ t = Threshold(l) /\ b = Bias(l)
    OBVIOUS
  <2>2. /\ NoLoss(cfg.soma) /\ t \in Int /\ neuron.voltage \in Int /\ input \in Int /\ b \in Int
        /\ ~ woken => input = 0
        /\ Fits(cfg.soma, Leaked(cfg.soma, neuron.voltage) + cfg.soma.scale * (input + b))
    BY <1>5, <1>6, <1>8, <1>9, <1>11, <1>12, <2>1
  <2>3. Charged(cfg.soma, t, neuron, input, woken, b)
    BY Zenon, <2>2, NeuronCharge
  <2>4. r = process_neuron(cfg.soma, t, neuron, input, woken, b)
    BY <1>10, <2>1
  <2> QED
    BY <2>1, <2>3, <2>4 DEF Charged
<1> QED
  BY <1>6, <1>7, <1>13 DEF n, r, input

(* The neuron phase keeps the balance.                                      *)
LEMMA ProcessCharge ==
  ASSUME TraceInv, TracerInv, OperandsFit, UpdatesFit, OutputIsProduct, ArrivalInv,
         IF IsAttention THEN AttentionInv ELSE StandardInv, Conserving, Process,
         NothingClips, ChargeInv
  PROVE  ChargeInv'
<1>1. /\ cfg \in Configurations /\ Loadable /\ Laid /\ cfg' = cfg
      /\ IsFiniteSet(trace) /\ \A n \in Logical : neurons[n].voltage \in Int
      /\ Idle
  BY ProcessEffect, FitsLaid DEF TraceInv, TracerInv, UpdatesFit, ChargeInv
<1>2. /\ Logical' = Logical
      /\ \A l : /\ Physical(l)' = Physical(l) /\ Threshold(l)' = Threshold(l)
                /\ Initial(l)' = Initial(l)
  BY <1>1, SameSoma
<1>3. CASE Waits
  <2>1. neurons' = neurons /\ trace' = trace
    BY <1>3, ProcessEffect
  <2>2. owed'.charge = [l \in Logical |-> owed.charge[l] + 0]
    BY <1>3, ProcessInput
  <2>3. \A l \in Logical : owed'.charge[l] = owed.charge[l]
    BY <2>2 DEF ChargeInv
  <2>4. \A l \in Logical : Balanced(l)'
    BY <1>1, <1>2, <2>1, <2>3, SameNetSpikes DEF ChargeInv, Balanced
  <2>5. Idle'
    <3>1. SUFFICES ASSUME NEW n \in Logical, n \notin pending'
                   PROVE  buffer'[n] = 0
      BY <1>2 DEF Idle
    <3>2. /\ buffer' = [k \in Logical |-> buffer[k] + layer.scale * Added(k)]
          /\ pending' = pending \cup {k \in Logical : Added(k) # 0}
      BY <1>3, ProcessInput
    <3>3. Added(n) = 0 /\ buffer[n] = 0
      BY <1>1, <3>1, <3>2 DEF Idle
    <3>4. layer.scale \in Int
      BY <1>1, ConfigurationAssumption DEF layer
    <3>5. buffer'[n] = 0 + layer.scale * 0
      BY <3>2, <3>3
    <3> QED
      BY <3>4, <3>5
  <2> QED
    BY <1>2, <2>1, <2>3, <2>4, <2>5 DEF ChargeInv
<1>4. CASE ~ Waits
  <2>1. /\ neurons' = [n \in Logical |-> [voltage |-> Result(n).voltage,
                                          tracer |-> Result(n).tracer]]
        /\ trace' = trace \cup NewFirings
    BY <1>4, ProcessEffect
  <2>2. /\ buffer' = [n \in Logical |-> 0]
        /\ owed'.charge = [l \in Logical |->
              owed.charge[l] + cfg.soma.scale * (Due(l) + Bias(l))]
    BY <1>4, ProcessInput
  <2>3. ASSUME NEW l \in Logical
        PROVE  /\ neurons'[Physical(l)].voltage \in Int /\ owed'.charge[l] \in Int
               /\ Balanced(l)'
    <3>1. PICK n \in Logical : n = Physical(l)
      BY <1>1, CoreOf
    <3>2. /\ Due(l) \in Int /\ Result(n).voltage \in Int
          /\ Result(n).voltage + Threshold(l) * Result(n).fired
               = neurons[n].voltage + cfg.soma.scale * (Due(l) + Bias(l))
      BY <1>1, <3>1, PhaseCharge
    <3>3. /\ Result(n).fired \in {-1, 0, 1} /\ NetSpikes(l) \in Int
          /\ NetSpikes(l)' = NetSpikes(l) + Result(n).fired
      BY <1>1, <2>1, <3>1, NetSpikesGrow, NetSpikesInt
    <3>4. /\ Threshold(l) \in Int /\ Bias(l) \in Int /\ Initial(l) \in Int
          /\ cfg.soma.scale \in Int
      BY <1>1, SomaNumbers, ConfigurationAssumption
    <3>5. neurons'[n].voltage = Result(n).voltage
      BY <2>1
    <3>6. owed'.charge[l] = owed.charge[l] + cfg.soma.scale * (Due(l) + Bias(l))
      BY <2>2
    <3>7. /\ neurons[n].voltage + Threshold(l) * NetSpikes(l) = Initial(l) + owed.charge[l]
          /\ neurons[n].voltage \in Int /\ owed.charge[l] \in Int
      BY <3>1 DEF ChargeInv, Balanced
    <3>8. PICK add \in Int : add = cfg.soma.scale * (Due(l) + Bias(l))
      BY <3>2, <3>4
    <3>9. PICK T \in Int, N \in Int, f \in Int, v \in Int, w \in Int, c \in Int, i \in Int :
              /\ T = Threshold(l) /\ N = NetSpikes(l) /\ f = Result(n).fired
              /\ v = neurons[n].voltage /\ w = Result(n).voltage
              /\ c = owed.charge[l] /\ i = Initial(l)
      <4>1. Result(n).fired \in Int
        BY <3>3
      <4> QED
        BY Zenon, <3>2, <3>3, <3>4, <3>7, <4>1
    <3>10. w + T * f = v + add /\ v + T * N = i + c
      BY <3>2, <3>7, <3>8, <3>9
    <3>11. T * (N + f) = T * N + T * f
      OBVIOUS
    <3>12. w + T * (N + f) = i + (c + add)
      <4>1. PICK a \in Int, b \in Int, d \in Int : a = T * N /\ b = T * f /\ d = T * (N + f)
        OBVIOUS
      <4>2. d = a + b
        BY <3>11, <4>1
      <4>3. w + b = v + add /\ v + a = i + c
        BY <3>10, <4>1
      <4>4. w + d = i + (c + add)
        BY <4>2, <4>3
      <4> QED
        BY <4>1, <4>4
    <3>13. /\ neurons'[Physical(l)].voltage = w /\ Threshold(l)' = T
           /\ NetSpikes(l)' = N + f /\ Initial(l)' = i /\ owed'.charge[l] = c + add
           /\ Physical(l)' = Physical(l)
      BY <1>2, <3>1, <3>3, <3>5, <3>6, <3>8, <3>9
    <3> QED
      BY <3>12, <3>13 DEF Balanced
  <2>4. \A n \in Logical : neurons'[n].voltage \in Int
    BY <1>1, <2>3, PhysicalOnto
  <2>5. Idle'
    BY <1>2, <2>2 DEF Idle
  <2> QED
    BY <1>2, <2>3, <2>4, <2>5 DEF ChargeInv
<1> QED
  BY <1>3, <1>4

(* The balance holds before the first step.                                *)
LEMMA InitCharge ==
  ASSUME Init, UpdatesFit
  PROVE  ChargeInv
<1>1. /\ cfg \in Configurations /\ Loadable /\ Laid
      /\ trace = {} /\ pending = {} /\ buffer = [n \in Logical |-> 0] /\ owed = NothingOwed
      /\ neurons = [n \in Logical |->
                     [voltage |-> Initial(logical_neuron_index(layer, n)), tracer |-> 0]]
  BY FitsLaid DEF Init, UpdatesFit
<1>2. ASSUME NEW l \in Logical
      PROVE  /\ neurons[Physical(l)].voltage = Initial(l) /\ Initial(l) \in Int
             /\ owed.charge[l] = 0 /\ Balanced(l)
  <2>1. neurons[Physical(l)].voltage = Initial(l) /\ Initial(l) \in Int /\ Threshold(l) \in Int
    BY <1>1, CoreOf, SomaNumbers
  <2>2. NetSpikes(l) = 0
    BY <1>1, NetSpikesOf, SpikesOfNone DEF FiringsOf, NetSpikesAreSpikes
  <2>3. owed.charge[l] = 0
    BY <1>1 DEF NothingOwed
  <2>4. Initial(l) + Threshold(l) * 0 = Initial(l) + 0
    BY <2>1
  <2> QED
    BY <2>1, <2>2, <2>3, <2>4 DEF Balanced
<1>3. \A n \in Logical : neurons[n].voltage \in Int
  BY <1>1, <1>2, PhysicalOnto
<1>4. Idle
  BY <1>1 DEF Idle
<1> QED
  BY <1>2, <1>3, <1>4 DEF ChargeInv

(* The inductive invariant: the balance needs the tracers' records, the     *)
(* input of WholeInv and the product of the attention.                      *)
BalanceInv ==
    /\ WholeInv /\ TraceInv /\ TracerInv
    /\ OperandsFit /\ UpdatesFit /\ Conserving => ChargeInv

(* Every step that clamps nothing keeps it.                                *)
LEMMA BalanceInvNext ==
  ASSUME BalanceInv, [Next]_vars, [NothingClips]_vars
  PROVE  BalanceInv'
<1>1. WholeInv' /\ TraceInv'
  BY WholeInvNext, NextTraceInv DEF BalanceInv
<1>2. TracerInv'
  <2>1. CASE QuietStep
    <3>1. cfg' = cfg /\ trace' = trace /\ neurons' = neurons
      BY <2>1 DEF QuietStep
    <3> QED
      BY <3>1, SameTracerInv DEF BalanceInv
  <2>2. CASE Process
    BY <2>2, ProcessTracerInv DEF BalanceInv
  <2> QED
    BY <2>1, <2>2, QuietSteps DEF Next
<1>3. cfg' = cfg
  BY DEF Next, Load, Fire, LocalState, ReceiveUpdates, ReceiveOperand, Process, vars
<1>4. /\ OperandsFit' <=> OperandsFit
      /\ UpdatesFit' <=> UpdatesFit
      /\ Conserving' <=> Conserving
  BY <1>3, SameShapes, SameArrival, SameSoma DEF SameShape
<1>5. SUFFICES ASSUME OperandsFit, UpdatesFit, Conserving
               PROVE  ChargeInv'
  BY <1>1, <1>2, <1>4 DEF BalanceInv
<1>6. /\ ChargeInv /\ ArrivalInv /\ ProductInv /\ TraceInv /\ TracerInv
      /\ cfg \in Configurations /\ OutputIsProduct /\ DOMAIN owed = OwedFields
  BY <1>5 DEF BalanceInv, WholeInv, ProductInv, OutputIsProduct
<1>7. CASE Load \/ Fire \/ LocalState \/ ReceiveUpdates \/ ReceiveOperand \/ UNCHANGED vars
  BY <1>5, <1>6, <1>7, QuietStepsCharge
<1>8. CASE Process /\ ~ UNCHANGED vars
  <2>1. NothingClips
    BY <1>8
  <2>2. phase = "run"
    BY <1>8, ProcessOperands
  <2>3. IF IsAttention THEN AttentionInv ELSE StandardInv
    <3>1. ProductInv
      BY <1>6
    <3> QED
      BY <1>5, <2>2, <3>1 DEF ProductInv
  <2> QED
    BY <1>5, <1>6, <1>8, <2>1, <2>3, ProcessCharge
<1> QED
  BY <1>7, <1>8 DEF Next

(* Charge is conserved from the weights of the packets to the spikes: as    *)
(* long as no membrane is clamped (soma.cpp), each neuron's membrane and    *)
(* the spikes of its trace hold what the packets of the undivided layer,    *)
(* its attention and its bias have brought it, whatever the cut into cores, *)
(* the order of the neurons and the order of arrival.                       *)
THEOREM ChargeIsConserved ==
  Spec /\ [][NothingClips]_vars => [](OperandsFit /\ UpdatesFit => ChargeConserved)
<1>1. Init => BalanceInv
  BY WholeInvInit, InitTraceInv, InitTracerInv, InitCharge DEF BalanceInv
<1>2. BalanceInv /\ [Next]_vars /\ [NothingClips]_vars => BalanceInv'
  BY BalanceInvNext
<1>3. BalanceInv => (OperandsFit /\ UpdatesFit => ChargeConserved)
  BY DEF BalanceInv, ChargeConserved, ChargeInv, Balanced, TracerInv
<1> QED
  BY <1>1, <1>2, <1>3, PTL DEF Spec
=============================================================================
