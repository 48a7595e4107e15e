--------------------------- MODULE CoreRingProofs ---------------------------
(***************************************************************************)
(* Proofs about the delay rings of CoreRing, for every set of connections, *)
(* every length of the rings and both neuron update modes.                 *)
(***************************************************************************)
EXTENDS CoreRing, FiniteSetTheorems, WellFoundedInduction, TLAPS

(***************************************************************************)
(* Lengths and indices of a ring.                                          *)
(***************************************************************************)

(* A finite set of integers has a maximum: a smallest nonempty subset      *)
(* without one would lose an element and keep having none.                 *)
LEMMA MaxProperties ==
  ASSUME NEW S, IsFiniteSet(S), S # {}, S \subseteq Int
  PROVE  /\ Max(S) \in S
         /\ \A y \in S : y <= Max(S)
<1> DEFINE HasMax(T) == \E x \in T : \A y \in T : x >= y
           Without == {T \in SUBSET S : T # {} /\ ~HasMax(T)}
<1>1. Without = {}
  <2> SUFFICES ASSUME Without # {} PROVE FALSE
    OBVIOUS
  <2>1. IsWellFoundedOn(StrictSubsetOrdering(S), SUBSET S)
    BY FS_StrictSubsetOrderingWellFounded, FS_FiniteSubsetsOfFinite
  <2>2. PICK T \in Without :
               \A U \in Without : <<U, T>> \notin StrictSubsetOrdering(S)
    <3> HIDE DEF Without
    <3>1. Without \subseteq SUBSET S
      BY DEF Without
    <3> QED
      BY <2>1, <3>1, WFMin
  <2>3. PICK x \in T : TRUE
    BY <2>2
  <2> DEFINE U == T \ {x}
  <2>4. CASE U = {}
    BY <2>2, <2>3, <2>4
  <2>5. CASE U # {}
    <3>1. <<U, T>> \in StrictSubsetOrdering(S)
      BY <2>2, <2>3 DEF StrictSubsetOrdering
    <3>2. HasMax(U)
      BY <2>2, <2>5, <3>1
    <3>3. PICK m \in U : \A y \in U : m >= y
      BY <3>2
    <3>4. m \in Int /\ x \in Int /\ T \subseteq Int
      BY <2>2, <2>3, <3>3
    <3>5. CASE x >= m
      <4>1. \A y \in T : x >= y
        BY <3>3, <3>4, <3>5
      <4> QED
        BY <2>2, <2>3, <4>1
    <3>6. CASE m >= x
      <4>1. \A y \in T : m >= y
        BY <3>3, <3>4, <3>6
      <4> QED
        BY <2>2, <3>3, <4>1
    <3> QED
      BY <3>4, <3>5, <3>6
  <2> QED
    BY <2>4, <2>5
<1>2. \E x \in S : \A y \in S : x >= y
  BY <1>1
<1>3. /\ Max(S) \in S
      /\ \A y \in S : Max(S) >= y
  BY <1>2 DEF Max
<1> QED
  BY <1>3

(* Every ring has a slot and room for the delay of each connection that    *)
(* reaches its layer.                                                      *)
LEMMA RingSizeProperties ==
  ASSUME NEW l \in Layers
  PROVE  /\ RingSize(l) \in Nat \ {0}
         /\ \A c \in Connections : c.to = l => c.delay \in 0 .. RingSize(l) - 1
<1> DEFINE into == {k \in Connections : k.to = l}
           f == [c \in into |-> c.delay]
           ds == {c.delay : c \in into}
<1>1. IsFiniteSet(into)
  BY FS_Subset, RingAssumption
<1>2. f \in Surjection(into, ds)
  BY DEF Surjection
<1>3. IsFiniteSet(ds)
  BY <1>1, <1>2, FS_Surjection
<1>4. IsFiniteSet(Delays(l))
  BY <1>3, FS_AddElement DEF Delays
<1>5. Delays(l) \subseteq Nat /\ 0 \in Delays(l)
  BY RingAssumption DEF Delays
<1>6. Max(Delays(l)) \in Nat /\ \A y \in Delays(l) : y <= Max(Delays(l))
  BY <1>4, <1>5, MaxProperties
<1>7. \A c \in Connections : c.to = l => c.delay \in Delays(l)
  BY DEF Delays
<1> QED
  BY <1>5, <1>6, <1>7 DEF RingSize

(* The slot a distance d behind slot a of a ring of length r.              *)
LEMMA Wrap ==
  ASSUME NEW r \in Nat \ {0}, NEW a \in 0 .. r - 1, NEW d \in 0 .. r - 1
  PROVE  (a + d) % r = IF a + d < r THEN a + d ELSE a + d - r
<1>1. CASE a + d < r
  BY <1>1
<1>2. CASE a + d >= r
  <2> DEFINE b == a + d - r
  <2>1. b \in 0 .. r - 1 /\ a + d = b + r
    BY <1>2
  <2>2. (b + r) % r = b
    <3> HIDE DEF b
    <3> QED
      BY <2>1
  <2> QED
    BY <1>2, <2>1, <2>2
<1> QED
  BY <1>1, <1>2

(* Different delays select different slots.                                *)
LEMMA WrapInjective ==
  ASSUME NEW r \in Nat \ {0}, NEW a \in 0 .. r - 1,
         NEW d \in 0 .. r - 1, NEW e \in 0 .. r - 1,
         (a + d) % r = (a + e) % r
  PROVE  d = e
<1>1. (a + d) % r = IF a + d < r THEN a + d ELSE a + d - r
  BY Wrap
<1>2. (a + e) % r = IF a + e < r THEN a + e ELSE a + e - r
  BY Wrap
<1> QED
  BY <1>1, <1>2

(* Every slot is selected by a delay.                                      *)
LEMMA WrapSurjective ==
  ASSUME NEW r \in Nat \ {0}, NEW a \in 0 .. r - 1, NEW s \in 0 .. r - 1
  PROVE  \E d \in 0 .. r - 1 : s = (a + d) % r
<1>1. CASE s >= a
  <2>1. s - a \in 0 .. r - 1 /\ (a + (s - a)) % r = s
    BY <1>1
  <2> QED
    BY <2>1
<1>2. CASE s < a
  <2>1. s + r - a \in 0 .. r - 1 /\ a + (s + r - a) = s + r
    BY <1>2
  <2>2. (a + (s + r - a)) % r = s
    BY <2>1, <1>2, Wrap
  <2> QED
    BY <2>1, <2>2
<1> QED
  BY <1>1, <1>2

(* When the ring moves on by one slot, the slot d behind is the one that   *)
(* was d + 1 behind; behind them all is the slot it has left.              *)
LEMMA WrapNext ==
  ASSUME NEW r \in Nat \ {0}, NEW a \in 0 .. r - 1, NEW d \in 0 .. r - 1
  PROVE  /\ (a + 1) % r \in 0 .. r - 1
         /\ (((a + 1) % r) + d) % r = IF d = r - 1 THEN a ELSE (a + (d + 1)) % r
<1> DEFINE b == IF a = r - 1 THEN 0 ELSE a + 1
           e == IF d = r - 1 THEN 0 ELSE d + 1
<1>1. b \in 0 .. r - 1 /\ e \in 0 .. r - 1
  OBVIOUS
<1>2. (a + 1) % r = b
  <2>1. CASE r = 1
    <3>1. a = 0 /\ (0 + 1) % 1 = 0
      BY <2>1
    <3> QED
      BY <2>1, <3>1
  <2>2. CASE r # 1
    <3>1. 1 \in 0 .. r - 1
      BY <2>2
    <3>2. (a + 1) % r = IF a + 1 < r THEN a + 1 ELSE a + 1 - r
      BY <3>1, Wrap
    <3> QED
      BY <3>2
  <2> QED
    BY <2>1, <2>2
<1>3. (b + d) % r = IF b + d < r THEN b + d ELSE b + d - r
  <2> HIDE DEF b, e
  <2> QED
    BY <1>1, Wrap
<1>4. (a + e) % r = IF a + e < r THEN a + e ELSE a + e - r
  <2> HIDE DEF b, e
  <2> QED
    BY <1>1, Wrap
<1>5. (b + d) % r = IF d = r - 1 THEN a ELSE (a + e) % r
  BY <1>3, <1>4
<1> QED
  BY <1>1, <1>2, <1>5


(***************************************************************************)
(* The types of the state.  TypeOK says what the rings hold; the steps     *)
(* also need that they are functions of the layers and slots, that         *)
(* timesteps are processed one after the other, and that a transition is   *)
(* never ahead of its layer: only then is Elapsed a natural number.        *)
(***************************************************************************)
Shape ==
    /\ buffer = [l \in Layers |-> buffer[l]]
    /\ \A l \in Layers : buffer[l] \in [Slots(l) -> [Neurons -> SUBSET Nat]]
    /\ pending = [l \in Layers |-> pending[l]]
    /\ \A l \in Layers : pending[l] \in [Slots(l) -> SUBSET Neurons]
    /\ next_buffer \in [Layers -> Nat]
    /\ \A l \in Layers : next_buffer[l] \in Slots(l)
    /\ processed \in [Layers -> Nat]
    /\ \A l \in Layers : processed[l] \in {timestep, timestep - 1}
    /\ started \in [Layers -> BOOLEAN]
    /\ last_state \in [Layers -> [Neurons -> Nat]]
    /\ \A l \in Layers : \A n \in Neurons : last_state[l][n] <= processed[l]
    /\ membrane \in [Layers -> [Neurons -> SUBSET Nat]]
    /\ bias_steps \in [Layers -> [Neurons -> Nat]]
    /\ handing \subseteq LocalState
    /\ timestep \in 0 .. MaxTimesteps

LEMMA SlotsProperties ==
  ASSUME NEW l \in Layers
  PROVE  /\ RingSize(l) \in Nat \ {0}
         /\ 0 \in Slots(l)
         /\ Slots(l) \subseteq Nat
BY RingSizeProperties DEF Slots

(* Slot selects a slot of the ring, and Slot(l, 0) is the one in front.    *)
LEMMA SlotProperties ==
  ASSUME Shape, NEW l \in Layers, NEW delay \in 0 .. RingSize(l) - 1
  PROVE  /\ Slot(l, delay) \in Slots(l)
         /\ Slot(l, 0) = next_buffer[l]
<1>1. /\ RingSize(l) \in Nat \ {0} /\ next_buffer[l] \in 0 .. RingSize(l) - 1
      /\ 0 \in 0 .. RingSize(l) - 1
  BY SlotsProperties DEF Shape, Slots
<1> DEFINE r == RingSize(l)
           a == next_buffer[l]
<1>2. (a + delay) % r = IF a + delay < r THEN a + delay ELSE a + delay - r
  BY <1>1, Wrap
<1>3. (a + 0) % r = IF a + 0 < r THEN a + 0 ELSE a + 0 - r
  BY <1>1, Wrap
<1> QED
  BY <1>1, <1>2, <1>3 DEF Slot, Slots

(* The slot the ring moves on to.                                          *)
LEMMA AdvanceProperties ==
  ASSUME Shape, NEW l \in Layers
  PROVE  Slot(l, 1) \in Slots(l)
<1>1. RingSize(l) \in Nat \ {0} /\ next_buffer[l] \in 0 .. RingSize(l) - 1
      /\ 0 \in 0 .. RingSize(l) - 1
  BY SlotsProperties DEF Shape, Slots
<1> QED
  BY <1>1, WrapNext DEF Slot, Slots

(* Reading clears the visited neurons in one row of one ring.              *)
LEMMA ReadRows ==
  ASSUME Shape, NEW l \in Layers, NEW visited \in SUBSET Neurons,
         Read(l, visited)
  PROVE  /\ next_buffer[l] \in Slots(l)
         /\ buffer[l] \in [Slots(l) -> [Neurons -> SUBSET Nat]]
         /\ pending[l] \in [Slots(l) -> SUBSET Neurons]
         /\ Cleared(l, visited) \in [Neurons -> SUBSET Nat]
         /\ \A n \in Neurons : Cleared(l, visited)[n] =
               IF n \in visited THEN {} ELSE buffer[l][next_buffer[l]][n]
         /\ buffer' = [k \in Layers |-> buffer'[k]]
         /\ pending' = [k \in Layers |-> pending'[k]]
         /\ buffer'[l] = [buffer[l] EXCEPT ![next_buffer[l]] = Cleared(l, visited)]
         /\ pending'[l] = [pending[l] EXCEPT ![next_buffer[l]] = @ \ visited]
         /\ \A k \in Layers : k # l => /\ buffer'[k] = buffer[k]
                                       /\ pending'[k] = pending[k]
<1> DEFINE s0 == next_buffer[l]
<1>1. s0 \in Slots(l) /\ buffer[l] \in [Slots(l) -> [Neurons -> SUBSET Nat]]
      /\ pending[l] \in [Slots(l) -> SUBSET Neurons]
  BY DEF Shape
<1>2. Cleared(l, visited) \in [Neurons -> SUBSET Nat]
      /\ \A n \in Neurons : Cleared(l, visited)[n] =
            IF n \in visited THEN {} ELSE buffer[l][s0][n]
  BY <1>1 DEF Cleared, ClearedSlot
<1>3. buffer' = [buffer EXCEPT ![l] = [buffer[l] EXCEPT ![s0] = Cleared(l, visited)]]
      /\ pending' = [pending EXCEPT ![l] = [pending[l] EXCEPT ![s0] = @ \ visited]]
  BY DEF Read, ClearedSlot
<1>4. /\ buffer' = [k \in Layers |-> buffer'[k]]
      /\ pending' = [k \in Layers |-> pending'[k]]
      /\ buffer'[l] = [buffer[l] EXCEPT ![s0] = Cleared(l, visited)]
      /\ pending'[l] = [pending[l] EXCEPT ![s0] = @ \ visited]
      /\ \A k \in Layers : k # l => /\ buffer'[k] = buffer[k]
                                    /\ pending'[k] = pending[k]
  BY <1>3 DEF Shape
<1> QED
  BY <1>1, <1>2, <1>4

(* Reading keeps the types, and the ring moves on by one slot.             *)
LEMMA ReadProperties ==
  ASSUME Shape, NEW l \in Layers, NEW visited \in SUBSET Neurons,
         Read(l, visited)
  PROVE  /\ buffer' = [k \in Layers |-> buffer'[k]]
         /\ pending' = [k \in Layers |-> pending'[k]]
         /\ \A k \in Layers :
               /\ buffer'[k] \in [Slots(k) -> [Neurons -> SUBSET Nat]]
               /\ pending'[k] \in [Slots(k) -> SUBSET Neurons]
         /\ membrane' \in [Layers -> [Neurons -> SUBSET Nat]]
         /\ next_buffer' = [next_buffer EXCEPT ![l] = Slot(l, 1)]
         /\ processed' = [processed EXCEPT ![l] = timestep]
<1>1. ASSUME NEW k \in Layers
      PROVE  /\ buffer'[k] \in [Slots(k) -> [Neurons -> SUBSET Nat]]
             /\ pending'[k] \in [Slots(k) -> SUBSET Neurons]
  <2>1. CASE k = l
    <3> DEFINE s0 == next_buffer[l]
               row == Cleared(l, visited)
    <3>1. /\ s0 \in Slots(l) /\ row \in [Neurons -> SUBSET Nat]
          /\ buffer[l] \in [Slots(l) -> [Neurons -> SUBSET Nat]]
          /\ pending[l] \in [Slots(l) -> SUBSET Neurons]
          /\ buffer'[l] = [buffer[l] EXCEPT ![s0] = row]
          /\ pending'[l] = [pending[l] EXCEPT ![s0] = @ \ visited]
      BY ReadRows
    <3>2. pending[l][s0] \ visited \in SUBSET Neurons
      BY <3>1
    <3> DEFINE left == pending[l][s0] \ visited
    <3>3. left \in SUBSET Neurons /\ pending'[l] = [pending[l] EXCEPT ![s0] = left]
      BY <3>1, <3>2
    <3> HIDE DEF s0, row, left
    <3>4. buffer'[l] \in [Slots(l) -> [Neurons -> SUBSET Nat]]
      BY <3>1
    <3>5. pending'[l] \in [Slots(l) -> SUBSET Neurons]
      BY <3>1, <3>3
    <3> QED
      BY Zenon, <2>1, <3>4, <3>5
  <2>2. CASE k # l
    <3>1. \A j \in Layers : j # l => buffer'[j] = buffer[j] /\ pending'[j] = pending[j]
      BY ReadRows
    <3> QED
      BY <2>2, <3>1 DEF Shape
  <2> QED
    BY <2>1, <2>2
<1>2. membrane' \in [Layers -> [Neurons -> SUBSET Nat]]
  <2> DEFINE row == [n \in Neurons |-> IF n \in visited
                        THEN membrane[l][n] \cup buffer[l][next_buffer[l]][n]
                        ELSE membrane[l][n]]
  <2>1. membrane \in [Layers -> [Neurons -> SUBSET Nat]]
        /\ next_buffer[l] \in Slots(l)
        /\ buffer[l] \in [Slots(l) -> [Neurons -> SUBSET Nat]]
    BY DEF Shape
  <2>2. row \in [Neurons -> SUBSET Nat]
    BY <2>1
  <2>3. membrane' = [membrane EXCEPT ![l] = row]
    BY DEF Read
  <2> HIDE DEF row
  <2> QED
    BY <2>1, <2>2, <2>3
<1> QED
  BY <1>1, <1>2, ReadRows DEF Read

(* Reading moves the slot in front into the membranes of the visited       *)
(* neurons and touches nothing else.                                       *)
LEMMA ReadSlot ==
  ASSUME Shape, NEW l \in Layers, NEW visited \in SUBSET Neurons,
         Read(l, visited),
         NEW k \in Layers, NEW s \in Slots(k), NEW n \in Neurons
  PROVE  /\ buffer'[k][s][n] = IF k = l /\ s = next_buffer[l] /\ n \in visited
                               THEN {} ELSE buffer[k][s][n]
         /\ n \in pending'[k][s] <=>
               n \in pending[k][s] /\ ~(k = l /\ s = next_buffer[l] /\ n \in visited)
<1> DEFINE s0 == next_buffer[l]
           row == Cleared(l, visited)
<1>1. /\ s0 \in Slots(l) /\ row \in [Neurons -> SUBSET Nat]
      /\ row[n] = IF n \in visited THEN {} ELSE buffer[l][s0][n]
      /\ buffer[l] \in [Slots(l) -> [Neurons -> SUBSET Nat]]
      /\ pending[l] \in [Slots(l) -> SUBSET Neurons]
      /\ buffer'[l] = [buffer[l] EXCEPT ![s0] = row]
      /\ pending'[l] = [pending[l] EXCEPT ![s0] = @ \ visited]
  BY ReadRows
<1>2. k # l => buffer'[k] = buffer[k] /\ pending'[k] = pending[k]
  BY ReadRows
<1> HIDE DEF s0, row
<1>3. CASE k = l /\ s = s0
  BY <1>1, <1>3 DEF s0
<1>4. CASE k = l /\ s # s0
  BY <1>1, <1>4 DEF s0
<1>5. CASE k # l
  BY <1>2, <1>5
<1> QED
  BY <1>3, <1>4, <1>5

LEMMA ReadMembrane ==
  ASSUME Shape, NEW l \in Layers, NEW visited \in SUBSET Neurons,
         Read(l, visited), NEW k \in Layers, NEW n \in Neurons, NEW due
  PROVE  due \in membrane'[k][n] <=>
            \/ due \in membrane[k][n]
            \/ k = l /\ n \in visited /\ due \in buffer[l][next_buffer[l]][n]
<1> DEFINE row == [m \in Neurons |-> IF m \in visited
                      THEN membrane[l][m] \cup buffer[l][next_buffer[l]][m]
                      ELSE membrane[l][m]]
<1>1. membrane \in [Layers -> [Neurons -> SUBSET Nat]]
  BY DEF Shape
<1>2. membrane' = [membrane EXCEPT ![l] = row]
  BY DEF Read
<1>3. CASE k = l
  <2>1. membrane'[k][n] = row[n]
    BY <1>1, <1>2, <1>3
  <2> QED
    BY <1>3, <2>1
<1>4. CASE k # l
  <2>1. membrane'[k] = membrane[k]
    BY <1>1, <1>2, <1>4
  <2> QED
    BY <1>4, <2>1
<1> QED
  BY <1>3, <1>4

(* Accumulating keeps the types.                                           *)
LEMMA AccumulateProperties ==
  ASSUME Shape, NEW l \in Layers, NEW slot \in Slots(l),
         NEW neurons \in SUBSET Neurons, NEW due \in Nat,
         Accumulate(l, slot, neurons, due)
  PROVE  /\ buffer' = [k \in Layers |-> buffer'[k]]
         /\ \A k \in Layers :
               buffer'[k] \in [Slots(k) -> [Neurons -> SUBSET Nat]]
<1> DEFINE row == [n \in Neurons |-> IF n \in neurons
                                     THEN buffer[l][slot][n] \cup {due}
                                     ELSE buffer[l][slot][n]]
<1>1. buffer[l] \in [Slots(l) -> [Neurons -> SUBSET Nat]]
  BY DEF Shape
<1>2. row \in [Neurons -> SUBSET Nat]
  BY <1>1
<1>3. buffer' = [buffer EXCEPT ![l] = [buffer[l] EXCEPT ![slot] = row]]
  BY DEF Accumulate
<1> HIDE DEF row
<1>4. /\ buffer' = [k \in Layers |-> buffer'[k]]
      /\ buffer'[l] = [buffer[l] EXCEPT ![slot] = row]
      /\ \A k \in Layers : k # l => buffer'[k] = buffer[k]
  BY <1>3 DEF Shape
<1>5. buffer'[l] \in [Slots(l) -> [Neurons -> SUBSET Nat]]
  BY <1>1, <1>2, <1>4
<1> QED
  BY <1>4, <1>5 DEF Shape

(* It adds the promise to the reached neurons of one slot.                 *)
LEMMA AccumulateSlot ==
  ASSUME Shape, NEW l \in Layers, NEW slot \in Slots(l),
         NEW neurons \in SUBSET Neurons, NEW due \in Nat,
         Accumulate(l, slot, neurons, due),
         NEW k \in Layers, NEW s \in Slots(k), NEW n \in Neurons, NEW d
  PROVE  d \in buffer'[k][s][n] <=>
            \/ d \in buffer[k][s][n]
            \/ k = l /\ s = slot /\ n \in neurons /\ d = due
<1> DEFINE row == [m \in Neurons |-> IF m \in neurons
                                     THEN buffer[l][slot][m] \cup {due}
                                     ELSE buffer[l][slot][m]]
<1>1. buffer[l] \in [Slots(l) -> [Neurons -> SUBSET Nat]]
  BY DEF Shape
<1>2. d \in row[n] <=> \/ d \in buffer[l][slot][n]
                       \/ n \in neurons /\ d = due
  OBVIOUS
<1>3. buffer' = [buffer EXCEPT ![l] = [buffer[l] EXCEPT ![slot] = row]]
  BY DEF Accumulate
<1> HIDE DEF row
<1>4. /\ buffer'[l] = [buffer[l] EXCEPT ![slot] = row]
      /\ \A j \in Layers : j # l => buffer'[j] = buffer[j]
  BY <1>3 DEF Shape
<1>5. CASE k = l /\ s = slot
  BY <1>1, <1>2, <1>4, <1>5
<1>6. CASE k = l /\ s # slot
  BY <1>1, <1>4, <1>6
<1>7. CASE k # l
  BY <1>4, <1>7
<1> QED
  BY <1>5, <1>6, <1>7

(***************************************************************************)
(* The two kinds of step that change a ring.                               *)
(***************************************************************************)

(* A neuron loop: the layer's turn, with the neurons it visits.            *)
Loop(l, visited) ==
    /\ Turn(l)
    /\ Read(l, visited)
    /\ l \notin MultiValued => visited = Visited(l)
    /\ l \in MultiValued => visited = IF started[l] THEN Neurons ELSE {}
    /\ last_state' = IF l \in MultiValued THEN last_state
                     ELSE [last_state EXCEPT ![l] =
           [n \in Neurons |-> IF n \in visited THEN timestep ELSE @[n]]]
    /\ bias_steps' = IF l \in MultiValued THEN bias_steps
                     ELSE [bias_steps EXCEPT ![l] =
           [n \in Neurons |-> @[n] + IF n \in visited THEN Elapsed(l, n) ELSE 0]]
    /\ handing' \subseteq {c \in LocalState : c[1] = l}
    /\ UNCHANGED <<started, timestep>>

(* Local state or a packet: the neurons become pending, and the layer has  *)
(* started.                                                                *)
Contribution(l, delay, neurons, due) ==
    /\ Accumulate(l, Slot(l, delay), neurons, due)
    /\ pending' = [k \in Layers |-> pending'[k]]
    /\ \A k \in Layers : /\ pending'[k] \in [Slots(k) -> SUBSET Neurons]
                         /\ \A s \in Slots(k) : pending[k][s] \subseteq pending'[k][s]
    /\ neurons \subseteq pending'[l][Slot(l, delay)]
    /\ started' = [started EXCEPT ![l] = TRUE]
    /\ handing' \subseteq handing
    /\ UNCHANGED <<next_buffer, processed, last_state, membrane, bias_steps,
                   timestep>>

LEMMA LoopProperties ==
  ASSUME Shape, NEW l \in Layers, ProcessSpiking(l) \/ ProcessMultiValued(l)
  PROVE  \E visited \in SUBSET Neurons : Loop(l, visited)
<1>1. CASE ProcessSpiking(l)
  <2>1. Visited(l) \in SUBSET Neurons
    BY DEF Visited
  <2>2. Loop(l, Visited(l))
    BY <1>1 DEF ProcessSpiking, Loop, Turn
  <2> QED
    BY <2>1, <2>2
<1>2. CASE ProcessMultiValued(l)
  <2> DEFINE visited == IF started[l] THEN Neurons ELSE {}
  <2>1. visited \in SUBSET Neurons
    OBVIOUS
  <2>2. Loop(l, visited)
    BY <1>2 DEF ProcessMultiValued, Loop, Turn
  <2> QED
    BY <2>1, <2>2
<1> QED
  BY <1>1, <1>2

(* A layer's turn comes once in each timestep.                             *)
LEMMA TurnProperties ==
  ASSUME Shape, NEW l \in Layers, Turn(l)
  PROVE  /\ timestep \in Nat \ {0}
         /\ timestep = processed[l] + 1
BY DEF Shape, Turn

(* What is pending can only grow by writing a larger set to one slot.      *)
Written(l, slot, more) == pending' = [pending EXCEPT ![l][slot] = more]
PendingGrows ==
    /\ pending' = [k \in Layers |-> pending'[k]]
    /\ \A k \in Layers :
          /\ pending'[k] \in [Slots(k) -> SUBSET Neurons]
          /\ \A s \in Slots(k) : pending[k][s] \subseteq pending'[k][s]

LEMMA PendingProperties ==
  ASSUME Shape, NEW l \in Layers, NEW slot \in Slots(l),
         NEW more \in SUBSET Neurons, pending[l][slot] \subseteq more,
         Written(l, slot, more)
  PROVE  PendingGrows /\ pending'[l][slot] = more
<1>1. pending[l] \in [Slots(l) -> SUBSET Neurons]
  BY DEF Shape
<1>2. /\ pending' = [k \in Layers |-> pending'[k]]
      /\ pending'[l] = [pending[l] EXCEPT ![slot] = more]
      /\ \A k \in Layers : k # l => pending'[k] = pending[k]
  BY DEF Shape, Written
<1>3. /\ pending'[l] \in [Slots(l) -> SUBSET Neurons]
      /\ \A s \in Slots(l) : pending[l][s] \subseteq pending'[l][s]
      /\ pending'[l][slot] = more
  BY <1>1, <1>2
<1>4. ASSUME NEW k \in Layers, k # l
      PROVE  /\ pending'[k] \in [Slots(k) -> SUBSET Neurons]
             /\ \A s \in Slots(k) : pending[k][s] \subseteq pending'[k][s]
  BY <1>2, <1>4 DEF Shape
<1> QED
  BY <1>2, <1>3, <1>4 DEF PendingGrows

(* A handover contributes to the slot in front, for the timestep that is   *)
(* being processed.                                                        *)
LEMMA HandOverProperties ==
  ASSUME Shape, NEW c \in LocalState, HandOver(c)
  PROVE  /\ c \in handing /\ c[2] \in Layers
         /\ Contribution(c[2], 0, Neurons, timestep)
<1> DEFINE l == c[2]
<1>1. c \in handing /\ l \in Layers
  BY RingAssumption DEF HandOver
<1>2. 0 \in 0 .. RingSize(l) - 1
  BY <1>1, SlotsProperties DEF Slots
<1>3. Slot(l, 0) \in Slots(l)
  BY <1>1, <1>2, SlotProperties
<1>4. pending[l][Slot(l, 0)] \subseteq Neurons
      /\ Written(l, Slot(l, 0), Neurons)
  <2>1. pending[l][Slot(l, 0)] \subseteq Neurons
    BY <1>1, <1>3 DEF Shape
  <2>2. pending' = [pending EXCEPT ![l][Slot(l, 0)] = Neurons]
    BY <1>1, <1>3 DEF HandOver, LocalSlot, Shape
  <2> QED
    BY <2>1, <2>2 DEF Written
<1>5. PendingGrows /\ pending'[l][Slot(l, 0)] = Neurons
  <2> DEFINE slot == Slot(l, 0)
             more == Neurons
  <2>1. /\ l \in Layers /\ slot \in Slots(l) /\ more \in SUBSET Neurons
        /\ pending[l][slot] \subseteq more /\ Written(l, slot, more)
    BY <1>1, <1>3, <1>4
  <2>2. PendingGrows /\ pending'[l][slot] = more
    <3> HIDE DEF l, slot, more
    <3> QED
      BY <2>1, PendingProperties
  <2> QED
    BY <2>2
<1>6. handing' \subseteq handing
  BY DEF HandOver
<1> QED
  BY <1>1, <1>5, <1>6 DEF HandOver, LocalSlot, Contribution, PendingGrows

(* A packet contributes to the slot its delay selects, for the timestep    *)
(* in which that slot is in front.                                         *)
LEMMA ReceiveProperties ==
  ASSUME Shape, NEW c \in Connections, NEW reached \in SUBSET Neurons,
         Receive(c, reached)
  PROVE  /\ c.to \in Layers /\ c.delay \in 0 .. RingSize(c.to) - 1
         /\ timestep = processed[c.to] /\ handing = {}
         /\ Contribution(c.to, c.delay, reached, timestep + c.delay + 1)
<1> DEFINE l == c.to
           slot == Slot(l, c.delay)
           more == pending[l][slot] \cup Activated(l, reached)
<1>1. l \in Layers
  BY RingAssumption
<1>2. c.delay \in 0 .. RingSize(l) - 1
  BY <1>1, RingSizeProperties
<1>3. slot \in Slots(l)
  BY <1>1, <1>2, SlotProperties
<1>4. timestep = processed[l] /\ handing = {}
  BY <1>1 DEF Receive, DataPhase
<1>5. reached \subseteq Activated(l, reached)
      /\ Activated(l, reached) \subseteq Neurons
  BY DEF Activated, Heartbeat
<1>6. more \in SUBSET Neurons /\ pending[l][slot] \subseteq more
      /\ Written(l, slot, more)
  <2>1. pending[l][slot] \in SUBSET Neurons
    BY <1>1, <1>3 DEF Shape
  <2>2. pending = [k \in Layers |-> pending[k]]
        /\ pending[l] \in [Slots(l) -> SUBSET Neurons]
    BY <1>1 DEF Shape
  <2>3. pending' = [pending EXCEPT ![l][slot] = more]
    BY <2>2 DEF Receive
  <2>4. Written(l, slot, more)
    BY <2>3 DEF Written
  <2> QED
    BY <1>5, <2>1, <2>4
<1>7. PendingGrows /\ pending'[l][slot] = more
  <2> HIDE DEF l, slot, more
  <2> QED
    BY <1>1, <1>3, <1>6, PendingProperties
<1> QED
  BY <1>1, <1>2, <1>4, <1>5, <1>7 DEF Receive, Contribution, PendingGrows

(* The steps of the rings.                                                 *)
LEMMA StepCases ==
  ASSUME Shape, [Next]_vars
  PROVE  \/ StartTimestep
         \/ \E l \in Layers, visited \in SUBSET Neurons : Loop(l, visited)
         \/ \E c \in LocalState : HandOver(c)
         \/ \E c \in Connections, reached \in SUBSET Neurons : Receive(c, reached)
         \/ UNCHANGED vars
BY LoopProperties DEF Next


(* TypeOK strengthened is kept by every step.                              *)
LEMMA ShapeInvariant == Spec => []Shape
<1>1. Init => Shape
  <2> SUFFICES ASSUME Init PROVE Shape
    OBVIOUS
  <2>1. \A l \in Layers : 0 \in Slots(l)
    BY SlotsProperties
  <2>2. /\ buffer = [l \in Layers |-> buffer[l]]
        /\ \A l \in Layers : buffer[l] \in [Slots(l) -> [Neurons -> SUBSET Nat]]
        /\ pending = [l \in Layers |-> pending[l]]
        /\ \A l \in Layers : pending[l] \in [Slots(l) -> SUBSET Neurons]
    BY DEF Init
  <2>3. /\ timestep \in 0 .. MaxTimesteps
        /\ next_buffer \in [Layers -> Nat] /\ processed \in [Layers -> Nat]
        /\ \A l \in Layers : next_buffer[l] = 0 /\ processed[l] = timestep
        /\ started \in [Layers -> BOOLEAN]
    BY RingAssumption DEF Init
  <2>4. /\ last_state \in [Layers -> [Neurons -> Nat]]
        /\ membrane \in [Layers -> [Neurons -> SUBSET Nat]]
        /\ bias_steps \in [Layers -> [Neurons -> Nat]]
        /\ \A l \in Layers : \A n \in Neurons : last_state[l][n] <= processed[l]
    BY DEF Init
  <2>5. handing \subseteq LocalState
    BY DEF Init
  <2> QED
    BY <2>1, <2>2, <2>3, <2>4, <2>5 DEF Shape
<1>2. Shape /\ [Next]_vars => Shape'
  <2> SUFFICES ASSUME Shape, [Next]_vars PROVE Shape'
    OBVIOUS
  <2>1. CASE StartTimestep
    <3>1. timestep' \in 0 .. MaxTimesteps
          /\ \A l \in Layers : processed[l] = timestep' - 1
      <4>1. timestep \in Nat /\ MaxTimesteps \in Nat
        BY RingAssumption DEF Shape
      <4>2. timestep' = timestep + 1 /\ timestep < MaxTimesteps
            /\ \A l \in Layers : processed[l] = timestep
        BY <2>1 DEF StartTimestep, DataPhase
      <4> QED
        BY <4>1, <4>2
    <3>2. UNCHANGED <<buffer, pending, next_buffer, processed, started,
                      last_state, membrane, bias_steps, handing>>
      BY <2>1 DEF StartTimestep
    <3> QED
      BY <3>1, <3>2 DEF Shape
  <2>2. ASSUME NEW l \in Layers, NEW visited \in SUBSET Neurons,
               Loop(l, visited)
        PROVE  Shape'
    <3>1. timestep \in Nat \ {0} /\ timestep = processed[l] + 1
      BY <2>2, TurnProperties DEF Loop
    <3>2. /\ buffer' = [k \in Layers |-> buffer'[k]]
          /\ \A k \in Layers : buffer'[k] \in [Slots(k) -> [Neurons -> SUBSET Nat]]
          /\ pending' = [k \in Layers |-> pending'[k]]
          /\ \A k \in Layers : pending'[k] \in [Slots(k) -> SUBSET Neurons]
          /\ membrane' \in [Layers -> [Neurons -> SUBSET Nat]]
          /\ next_buffer' = [next_buffer EXCEPT ![l] = Slot(l, 1)]
          /\ processed' = [processed EXCEPT ![l] = timestep]
      BY <2>2, ReadProperties DEF Loop
    <3>3. /\ next_buffer' \in [Layers -> Nat]
          /\ \A k \in Layers : next_buffer'[k] \in Slots(k)
      BY <3>2, AdvanceProperties, SlotsProperties DEF Shape
    <3>4. /\ processed' \in [Layers -> Nat] /\ timestep' = timestep
          /\ \A k \in Layers : /\ processed'[k] \in {timestep, timestep - 1}
                               /\ processed[k] <= processed'[k]
                               /\ k = l => processed'[k] = timestep
      BY <2>2, <3>1, <3>2 DEF Shape, Loop
    <3>5. /\ last_state' \in [Layers -> [Neurons -> Nat]]
          /\ \A k \in Layers : \A n \in Neurons :
                \/ last_state'[k][n] = last_state[k][n]
                \/ k = l /\ last_state'[k][n] = timestep
      <4>1. last_state \in [Layers -> [Neurons -> Nat]]
        BY DEF Shape
      <4> DEFINE row == [n \in Neurons |-> IF n \in visited THEN timestep
                                                            ELSE last_state[l][n]]
      <4>2. row \in [Neurons -> Nat]
            /\ \A n \in Neurons : row[n] \in {timestep, last_state[l][n]}
        BY <3>1, <4>1
      <4>3. last_state' = last_state \/ last_state' = [last_state EXCEPT ![l] = row]
        BY <2>2 DEF Loop
      <4> HIDE DEF row
      <4> QED
        BY <4>1, <4>2, <4>3
    <3>6. \A k \in Layers : \A n \in Neurons : last_state'[k][n] <= processed'[k]
      <4> SUFFICES ASSUME NEW k \in Layers, NEW n \in Neurons
                   PROVE  last_state'[k][n] <= processed'[k]
        OBVIOUS
      <4>1. /\ last_state[k][n] \in Nat /\ processed[k] \in Nat
            /\ last_state[k][n] <= processed[k]
        BY DEF Shape
      <4>2. processed'[k] \in Nat
        BY <3>4
      <4> QED
        BY <3>1, <3>4, <3>5, <4>1, <4>2
    <3>7. bias_steps' \in [Layers -> [Neurons -> Nat]]
      <4>1. /\ bias_steps \in [Layers -> [Neurons -> Nat]]
            /\ last_state \in [Layers -> [Neurons -> Nat]]
        BY DEF Shape
      <4>2. \A n \in Neurons : Elapsed(l, n) \in Nat
        <5> SUFFICES ASSUME NEW n \in Neurons PROVE Elapsed(l, n) \in Nat
          OBVIOUS
        <5>1. last_state[l][n] \in Nat /\ last_state[l][n] <= processed[l]
              /\ processed[l] \in Nat
          BY DEF Shape
        <5> QED
          BY <3>1, <5>1 DEF Elapsed
      <4> DEFINE row == [n \in Neurons |-> bias_steps[l][n]
                            + IF n \in visited THEN Elapsed(l, n) ELSE 0]
      <4>3. row \in [Neurons -> Nat]
        BY <4>1, <4>2
      <4>4. bias_steps' = bias_steps \/ bias_steps' = [bias_steps EXCEPT ![l] = row]
        BY <2>2 DEF Loop
      <4> HIDE DEF row
      <4> QED
        BY <4>1, <4>3, <4>4
    <3>8. started' = started /\ handing' \subseteq LocalState
      BY <2>2 DEF Loop
    <3> QED
      BY <3>2, <3>3, <3>4, <3>5, <3>6, <3>7, <3>8 DEF Shape
  <2>3. ASSUME NEW l \in Layers, NEW delay \in 0 .. RingSize(l) - 1,
               NEW neurons \in SUBSET Neurons, NEW due \in Nat,
               Contribution(l, delay, neurons, due)
        PROVE  Shape'
    <3>1. Slot(l, delay) \in Slots(l)
      BY SlotProperties
    <3>2. /\ buffer' = [k \in Layers |-> buffer'[k]]
          /\ \A k \in Layers : buffer'[k] \in [Slots(k) -> [Neurons -> SUBSET Nat]]
      BY <2>3, <3>1, AccumulateProperties DEF Contribution
    <3> QED
      BY <2>3, <3>2 DEF Shape, Contribution
  <2>4. ASSUME NEW c \in LocalState, HandOver(c) PROVE Shape'
    <3>1. c[2] \in Layers /\ Contribution(c[2], 0, Neurons, timestep)
      BY <2>4, HandOverProperties
    <3>2. 0 \in 0 .. RingSize(c[2]) - 1 /\ timestep \in Nat
      BY <3>1, SlotsProperties DEF Slots, Shape
    <3> QED
      BY <2>3, <3>1, <3>2
  <2>5. ASSUME NEW c \in Connections, NEW reached \in SUBSET Neurons,
               Receive(c, reached)
        PROVE  Shape'
    <3>1. /\ c.to \in Layers /\ c.delay \in 0 .. RingSize(c.to) - 1
          /\ Contribution(c.to, c.delay, reached, timestep + c.delay + 1)
      BY <2>5, ReceiveProperties
    <3>2. timestep \in Nat /\ c.delay \in Nat
      BY RingAssumption DEF Shape
    <3>3. timestep + c.delay + 1 \in Nat
      BY <3>2
    <3> QED
      BY <2>3, <3>1, <3>3
  <2>6. CASE UNCHANGED vars
    BY <2>6 DEF vars, Shape
  <2> QED
    BY <2>1, <2>2, <2>4, <2>5, <2>6, StepCases
<1> QED
  BY <1>1, <1>2, PTL DEF Spec

(* The state of the rings keeps its types: every index is a slot of its    *)
(* ring, no layer falls behind the timestep by more than one and no neuron *)
(* is ahead of its layer (core.cpp, process_timestep).                     *)
THEOREM TypeCorrect == Spec => []TypeOK
<1>1. Shape => TypeOK
  BY DEF Shape, TypeOK
<1> QED
  BY <1>1, ShapeInvariant, PTL

(* No step drops a contribution: what leaves a slot has been integrated by *)
(* its neuron, whichever neurons the loop skips (core.cpp, the loops over  *)
(* delayed_pending_).                                                      *)
THEOREM NothingIsLost == Spec => NothingLost
<1>1. Shape /\ [Next]_vars =>
        [\A l \in Layers : \A n \in Neurons :
            LET held  == UNION {buffer[l][s][n] : s \in Slots(l)}
                holds == UNION {buffer'[l][s][n] : s \in Slots(l)}
            IN  held \subseteq holds \cup membrane'[l][n]]_vars
  <2> SUFFICES ASSUME Shape, [Next]_vars, NEW l \in Layers, NEW n \in Neurons,
                      NEW s \in Slots(l), NEW due \in buffer[l][s][n]
               PROVE  \/ \E t \in Slots(l) : due \in buffer'[l][t][n]
                      \/ due \in membrane'[l][n]
                      \/ UNCHANGED vars
    OBVIOUS
  <2>1. ASSUME NEW k \in Layers, NEW visited \in SUBSET Neurons,
               Loop(k, visited)
        PROVE  due \in buffer'[l][s][n] \/ due \in membrane'[l][n]
    <3>1. Read(k, visited)
      BY <2>1 DEF Loop
    <3>2. CASE l = k /\ s = next_buffer[k] /\ n \in visited
      BY <3>1, <3>2, ReadSlot, ReadMembrane
    <3>3. CASE ~(l = k /\ s = next_buffer[k] /\ n \in visited)
      BY <3>1, <3>3, ReadSlot
    <3> QED
      BY <3>2, <3>3
  <2>2. ASSUME NEW k \in Layers, NEW delay \in 0 .. RingSize(k) - 1,
               NEW neurons \in SUBSET Neurons, NEW at \in Nat,
               Contribution(k, delay, neurons, at)
        PROVE  due \in buffer'[l][s][n]
    <3>1. Slot(k, delay) \in Slots(k)
      BY SlotProperties
    <3>2. Accumulate(k, Slot(k, delay), neurons, at)
      BY <2>2 DEF Contribution
    <3> QED
      BY <3>1, <3>2, AccumulateSlot
  <2>3. ASSUME NEW c \in LocalState, HandOver(c)
        PROVE  due \in buffer'[l][s][n]
    <3>1. c[2] \in Layers /\ Contribution(c[2], 0, Neurons, timestep)
      BY <2>3, HandOverProperties
    <3>2. 0 \in 0 .. RingSize(c[2]) - 1 /\ timestep \in Nat
      BY <3>1, SlotsProperties DEF Slots, Shape
    <3> QED
      BY <2>2, <3>1, <3>2
  <2>4. ASSUME NEW c \in Connections, NEW reached \in SUBSET Neurons,
               Receive(c, reached)
        PROVE  due \in buffer'[l][s][n]
    <3>1. /\ c.to \in Layers /\ c.delay \in 0 .. RingSize(c.to) - 1
          /\ Contribution(c.to, c.delay, reached, timestep + c.delay + 1)
      BY <2>4, ReceiveProperties
    <3>2. timestep \in Nat /\ c.delay \in Nat
      BY RingAssumption DEF Shape
    <3>3. timestep + c.delay + 1 \in Nat
      BY <3>2
    <3> QED
      BY <2>2, <3>1, <3>3
  <2>5. CASE StartTimestep
    BY <2>5 DEF StartTimestep
  <2> QED
    BY <2>1, <2>3, <2>4, <2>5, StepCases
<1> QED
  BY <1>1, ShapeInvariant, PTL DEF Spec, NothingLost


(***************************************************************************)
(* What a slot behind the front holds, and how a step changes it.          *)
(***************************************************************************)
Held(l, delay, n) == buffer[l][Slot(l, delay)][n]

(* After a neuron loop the contributions of its layer are one slot closer  *)
(* to the front.  Behind them all lies what the loop has left over.        *)
LEMMA LoopHeld ==
  ASSUME Shape, NEW l \in Layers, NEW visited \in SUBSET Neurons,
         Loop(l, visited),
         NEW k \in Layers, NEW d \in 0 .. RingSize(k) - 1, NEW n \in Neurons,
         NEW due \in Held(k, d, n)'
  PROVE  /\ k # l => due \in Held(k, d, n)
         /\ k = l /\ d # RingSize(l) - 1 => due \in Held(l, d + 1, n)
         /\ k = l /\ d = RingSize(l) - 1 =>
               n \notin visited /\ due \in Held(l, 0, n)
<1>1. RingSize(k) \in Nat \ {0} /\ next_buffer[k] \in 0 .. RingSize(k) - 1
  BY SlotsProperties DEF Shape, Slots
<1>2. Read(l, visited) /\ next_buffer' = [next_buffer EXCEPT ![l] = Slot(l, 1)]
  BY DEF Loop, Read
<1>3. due \in buffer'[k][Slot(k, d)'][n]
  BY DEF Held
<1>4. CASE k # l
  <2>1. Slot(k, d)' = Slot(k, d)
    BY <1>2, <1>4 DEF Slot, Shape
  <2>2. Slot(k, d) \in Slots(k)
    BY SlotProperties
  <2>3. buffer'[k][Slot(k, d)][n] = buffer[k][Slot(k, d)][n]
    BY <1>2, <1>4, <2>2, ReadSlot
  <2> QED
    BY <1>3, <1>4, <2>1, <2>3 DEF Held
<1>5. CASE k = l
  <2> DEFINE r == RingSize(l)
             a == next_buffer[l]
  <2>1. next_buffer'[l] = (a + 1) % r
    BY <1>2 DEF Slot, Shape
  <2>2. (((a + 1) % r) + d) % r = IF d = r - 1 THEN a ELSE (a + (d + 1)) % r
    BY <1>1, <1>5, WrapNext
  <2>3. Slot(l, d)' = IF d = r - 1 THEN a ELSE Slot(l, d + 1)
    BY <2>1, <2>2 DEF Slot
  <2>4. CASE d = r - 1
    <3>1. a \in Slots(l) /\ Slot(l, 0) = a
      BY <1>1, <1>5, SlotProperties DEF Slots
    <3>2. buffer'[l][a][n] = IF n \in visited THEN {} ELSE buffer[l][a][n]
      BY <1>2, <3>1, ReadSlot
    <3>3. due \in buffer'[l][a][n]
      BY <1>3, <1>5, <2>3, <2>4
    <3> QED
      BY <1>5, <2>4, <3>1, <3>2, <3>3 DEF Held
  <2>5. CASE d # r - 1
    <3>1. d + 1 \in 0 .. r - 1
      BY <1>1, <1>5, <2>5
    <3>2. Slot(l, d + 1) \in Slots(l)
      BY <3>1, SlotProperties
    <3>3. \/ buffer'[l][Slot(l, d + 1)][n] = {}
          \/ buffer'[l][Slot(l, d + 1)][n] = buffer[l][Slot(l, d + 1)][n]
      BY <1>2, <3>2, ReadSlot
    <3>4. due \in buffer'[l][Slot(l, d + 1)][n]
      BY <1>3, <1>5, <2>3, <2>5
    <3> QED
      BY <1>5, <2>5, <3>3, <3>4 DEF Held
  <2> QED
    BY <2>4, <2>5
<1> QED
  BY <1>4, <1>5

(* A contribution adds its promise behind its delay and nowhere else.      *)
LEMMA ContributionHeld ==
  ASSUME Shape, NEW l \in Layers, NEW delay \in 0 .. RingSize(l) - 1,
         NEW neurons \in SUBSET Neurons, NEW at \in Nat,
         Contribution(l, delay, neurons, at),
         NEW k \in Layers, NEW d \in 0 .. RingSize(k) - 1, NEW n \in Neurons,
         NEW due \in Held(k, d, n)'
  PROVE  \/ due \in Held(k, d, n)
         \/ k = l /\ d = delay /\ due = at
<1>1. Slot(l, delay) \in Slots(l) /\ Slot(k, d) \in Slots(k)
  BY SlotProperties
<1>2. Slot(k, d)' = Slot(k, d) /\ Accumulate(l, Slot(l, delay), neurons, at)
  BY DEF Contribution, Slot
<1>3. due \in buffer'[k][Slot(k, d)][n]
  BY <1>2 DEF Held
<1>4. \/ due \in buffer[k][Slot(k, d)][n]
      \/ k = l /\ Slot(k, d) = Slot(l, delay) /\ due = at
  <2> DEFINE slot == Slot(l, delay)
             t == Slot(k, d)
  <2>1. slot \in Slots(l) /\ t \in Slots(k) /\ due \in buffer'[k][t][n]
        /\ Accumulate(l, slot, neurons, at)
    BY <1>1, <1>2, <1>3
  <2> HIDE DEF slot, t
  <2>2. due \in buffer'[k][t][n] <=>
           \/ due \in buffer[k][t][n]
           \/ k = l /\ t = slot /\ n \in neurons /\ due = at
    BY <2>1, AccumulateSlot
  <2> QED
    BY <2>1, <2>2 DEF slot, t
<1>5. k = l /\ Slot(k, d) = Slot(l, delay) => d = delay
  <2> SUFFICES ASSUME k = l, Slot(k, d) = Slot(l, delay) PROVE d = delay
    OBVIOUS
  <2>1. RingSize(l) \in Nat \ {0} /\ next_buffer[l] \in 0 .. RingSize(l) - 1
    BY SlotsProperties DEF Shape, Slots
  <2> QED
    BY <2>1, WrapInjective DEF Slot
<1> QED
  BY <1>4, <1>5 DEF Held

(***************************************************************************)
(* The order of the layers.  Within a timestep they are processed from the *)
(* first on, and while one hands its local state over none behind it has   *)
(* had its turn.                                                           *)
(***************************************************************************)
OrderInv ==
    /\ \A j, k \in Layers : j < k /\ processed[k] = timestep => processed[j] = timestep
    /\ \A c \in handing :
          /\ timestep > 0
          /\ \A k \in Layers : c[1] < k => processed[k] = timestep - 1

LEMMA OrderInvariant == Spec => []OrderInv
<1>1. Init => OrderInv
  BY DEF Init, OrderInv
<1>2. Shape /\ OrderInv /\ [Next]_vars => OrderInv'
  <2> SUFFICES ASSUME Shape, OrderInv, [Next]_vars PROVE OrderInv'
    OBVIOUS
  <2>1. CASE StartTimestep
    <3>1. /\ timestep \in Nat /\ timestep' = timestep + 1
          /\ processed' = processed /\ handing' = {}
          /\ \A k \in Layers : processed[k] = timestep
      BY <2>1 DEF StartTimestep, DataPhase, Shape
    <3> QED
      BY <3>1 DEF OrderInv
  <2>2. ASSUME NEW l \in Layers, NEW visited \in SUBSET Neurons,
               Loop(l, visited)
        PROVE  OrderInv'
    <3>1. timestep \in Nat \ {0} /\ timestep = processed[l] + 1
      BY <2>2, TurnProperties DEF Loop
    <3>2. /\ timestep' = timestep /\ processed \in [Layers -> Nat]
          /\ \A k \in Layers : processed[k] \in {timestep, timestep - 1}
          /\ processed' = [processed EXCEPT ![l] = timestep]
      BY <2>2 DEF Loop, Read, Shape
    <3>3. Layers \subseteq Nat
      BY DEF Layers
    <3>4. \A j \in Layers : j < l => processed[j] = timestep
      BY <2>2, <3>3 DEF Loop, Turn, Layers
    <3>5. \A k \in Layers : l < k => processed[k] = timestep - 1
      BY <3>1, <3>2 DEF OrderInv
    <3>6. \A c \in handing' : c[1] = l
      BY <2>2 DEF Loop
    <3>7. ASSUME NEW j \in Layers, NEW k \in Layers, j < k,
                 processed'[k] = timestep
          PROVE  processed'[j] = timestep
      <4>1. CASE k = l \/ j = l
        BY <3>2, <3>3, <3>4, <3>7, <4>1
      <4>2. CASE k # l /\ j # l
        BY <3>2, <3>7, <4>2 DEF OrderInv
      <4> QED
        BY <4>1, <4>2
    <3>8. ASSUME NEW c \in handing', NEW k \in Layers, c[1] < k
          PROVE  processed'[k] = timestep - 1
      BY <3>2, <3>3, <3>5, <3>6, <3>8
    <3> QED
      BY <3>1, <3>2, <3>7, <3>8 DEF OrderInv
  <2>3. ASSUME handing' \subseteq handing, UNCHANGED <<processed, timestep>>
        PROVE  OrderInv'
    BY <2>3 DEF OrderInv
  <2> QED
    BY <2>1, <2>2, <2>3, StepCases DEF HandOver, Receive, vars
<1> QED
  BY <1>1, <1>2, ShapeInvariant, PTL DEF Spec

(* Every contribution is a handover of the timestep being processed, or a  *)
(* packet for a timestep of its delay, and in either case its promise is   *)
(* positive and not behind the turn of its slot.                           *)
LEMMA ContributionCases ==
  ASSUME Shape, OrderInv, (\E c \in LocalState : HandOver(c)) \/
         (\E c \in Connections, reached \in SUBSET Neurons : Receive(c, reached))
  PROVE  \E l \in Layers : \E delay \in 0 .. RingSize(l) - 1 :
         \E neurons \in SUBSET Neurons : \E at \in Nat :
            /\ Contribution(l, delay, neurons, at)
            /\ at > 0 /\ at <= processed[l] + 1 + delay
            /\ \/ at = processed[l] + 1 + delay
               \/ \E c \in handing : c \in LocalState /\ l = c[2] /\ delay = 0
                                     /\ at = timestep
<1>1. ASSUME NEW c \in LocalState, HandOver(c)
      PROVE  /\ c[2] \in Layers /\ 0 \in 0 .. RingSize(c[2]) - 1
             /\ Contribution(c[2], 0, Neurons, timestep)
             /\ c \in handing
             /\ timestep \in Nat
             /\ timestep > 0 /\ timestep <= processed[c[2]] + 1 + 0
  <2>1. c[2] \in Layers /\ c \in handing
        /\ Contribution(c[2], 0, Neurons, timestep)
    BY <1>1, HandOverProperties
  <2>2. 0 \in 0 .. RingSize(c[2]) - 1
    BY <2>1, SlotsProperties DEF Slots
  <2>3. processed[c[2]] \in {timestep, timestep - 1} /\ timestep \in Nat
        /\ timestep > 0
    BY <2>1 DEF Shape, OrderInv
  <2> QED
    BY <2>1, <2>2, <2>3
<1>2. ASSUME NEW c \in Connections, NEW reached \in SUBSET Neurons,
             Receive(c, reached)
      PROVE  /\ c.to \in Layers /\ c.delay \in 0 .. RingSize(c.to) - 1
             /\ timestep + c.delay + 1 \in Nat
             /\ Contribution(c.to, c.delay, reached, timestep + c.delay + 1)
             /\ timestep + c.delay + 1 = processed[c.to] + 1 + c.delay
             /\ timestep + c.delay + 1 > 0
  <2>1. /\ c.to \in Layers /\ c.delay \in 0 .. RingSize(c.to) - 1
        /\ timestep = processed[c.to]
        /\ Contribution(c.to, c.delay, reached, timestep + c.delay + 1)
    BY <1>2, ReceiveProperties
  <2>2. timestep \in Nat /\ c.delay \in Nat
    BY RingAssumption DEF Shape
  <2> QED
    BY <2>1, <2>2
<1>3. CASE \E c \in LocalState : HandOver(c)
  BY <1>1, <1>3
<1>4. CASE \E c \in Connections, reached \in SUBSET Neurons : Receive(c, reached)
  <2>1. PICK c \in Connections, reached \in SUBSET Neurons : Receive(c, reached)
    BY <1>4
  <2> DEFINE at == timestep + c.delay + 1
  <2>2. /\ c.to \in Layers /\ c.delay \in 0 .. RingSize(c.to) - 1
        /\ at \in Nat /\ at > 0
        /\ Contribution(c.to, c.delay, reached, at)
        /\ at = processed[c.to] + 1 + c.delay
    BY <1>2, <2>1
  <2>3. at <= processed[c.to] + 1 + c.delay
    BY <2>2
  <2> HIDE DEF at
  <2> QED
    BY <2>2, <2>3
<1> QED
  BY <1>3, <1>4


(***************************************************************************)
(* Promises: they are positive, never behind the turn of the slot they lie *)
(* in, and who holds one is pending and belongs to a layer that has        *)
(* started.  The neuron loop that skips a neuron without pending input, or *)
(* a layer that has not started, therefore skips nothing.                  *)
(***************************************************************************)
PromiseInv ==
    /\ \A l \in Layers : \A delay \in 0 .. RingSize(l) - 1 : \A n \in Neurons :
          \A due \in Held(l, delay, n) :
             due \in Nat /\ due > 0 /\ due <= processed[l] + 1 + delay
    /\ \A l \in Layers : \A s \in Slots(l) : \A n \in Neurons :
          buffer[l][s][n] # {} => n \in pending[l][s] /\ started[l]

LEMMA PromiseInvariant == Spec => []PromiseInv
<1>1. Init => PromiseInv
  <2> SUFFICES ASSUME Init PROVE PromiseInv
    OBVIOUS
  <2>1. ASSUME NEW l \in Layers, NEW delay \in 0 .. RingSize(l) - 1,
               NEW n \in Neurons
        PROVE  Held(l, delay, n) = {}
    <3>1. Slot(l, delay) \in Slots(l)
      <4>1. RingSize(l) \in Nat \ {0} /\ next_buffer[l] = 0
        BY SlotsProperties DEF Init
      <4>2. (0 + delay) % RingSize(l) = delay
        BY <4>1
      <4> QED
        BY <4>1, <4>2 DEF Slot, Slots
    <3> QED
      BY <3>1 DEF Init, Held
  <2>2. \A l \in Layers : \A s \in Slots(l) : \A n \in Neurons :
           buffer[l][s][n] = {}
    BY DEF Init
  <2> QED
    BY <2>1, <2>2 DEF PromiseInv
<1>2. Shape /\ OrderInv /\ PromiseInv /\ [Next]_vars => PromiseInv'
  <2> SUFFICES ASSUME Shape, OrderInv, PromiseInv, [Next]_vars
               PROVE  PromiseInv'
    OBVIOUS
  <2>1. ASSUME NEW l \in Layers, NEW visited \in SUBSET Neurons,
               Loop(l, visited)
        PROVE  PromiseInv'
    <3>1. /\ timestep \in Nat \ {0} /\ timestep = processed[l] + 1
          /\ Read(l, visited) /\ started' = started
      BY <2>1, TurnProperties DEF Loop
    <3>2. processed \in [Layers -> Nat]
          /\ processed' = [processed EXCEPT ![l] = timestep]
      BY <3>1 DEF Read, Shape
    <3>3. ASSUME NEW k \in Layers, NEW d \in 0 .. RingSize(k) - 1,
                 NEW n \in Neurons, NEW due \in Held(k, d, n)'
          PROVE  due \in Nat /\ due > 0 /\ due <= processed'[k] + 1 + d
      <4>1. RingSize(k) \in Nat \ {0} /\ processed[k] \in Nat /\ d \in Nat
        BY <3>2, SlotsProperties
      <4>2. CASE k # l
        <5>1. due \in Held(k, d, n)
          BY <2>1, <4>2, LoopHeld
        <5> QED
          BY <3>2, <4>2, <5>1 DEF PromiseInv
      <4>3. CASE k = l /\ d # RingSize(k) - 1
        <5>1. due \in Held(k, d + 1, n)
          BY <2>1, <4>3, LoopHeld
        <5>2. d + 1 \in 0 .. RingSize(k) - 1
          BY <4>1, <4>3
        <5>3. due \in Nat /\ due > 0 /\ due <= processed[k] + 1 + (d + 1)
          BY <5>1, <5>2 DEF PromiseInv
        <5>4. processed'[k] = processed[k] + 1
          BY <3>1, <3>2, <4>3
        <5> QED
          BY <4>1, <5>3, <5>4
      <4>4. CASE k = l /\ d = RingSize(k) - 1
        <5>1. due \in Held(k, 0, n)
          BY <2>1, <4>4, LoopHeld
        <5>2. 0 \in 0 .. RingSize(k) - 1
          BY <4>1
        <5>3. due \in Nat /\ due > 0 /\ due <= processed[k] + 1 + 0
          BY <5>1, <5>2 DEF PromiseInv
        <5>4. processed'[k] = processed[k] + 1
          BY <3>1, <3>2, <4>4
        <5> QED
          BY <4>1, <5>3, <5>4
      <4> QED
        BY <4>2, <4>3, <4>4
    <3>4. ASSUME NEW k \in Layers, NEW s \in Slots(k), NEW n \in Neurons,
                 buffer'[k][s][n] # {}
          PROVE  n \in pending'[k][s] /\ started'[k]
      <4>1. ~(k = l /\ s = next_buffer[l] /\ n \in visited)
            /\ buffer[k][s][n] # {}
        BY <3>1, <3>4, ReadSlot
      <4>2. n \in pending[k][s] /\ started[k]
        BY <4>1 DEF PromiseInv
      <4>3. n \in pending'[k][s]
        BY <3>1, <4>1, <4>2, ReadSlot
      <4> QED
        BY <3>1, <4>2, <4>3
    <3> QED
      BY <3>3, <3>4 DEF PromiseInv
  <2>2. ASSUME NEW l \in Layers, NEW delay \in 0 .. RingSize(l) - 1,
               NEW neurons \in SUBSET Neurons, NEW at \in Nat,
               Contribution(l, delay, neurons, at),
               at > 0, at <= processed[l] + 1 + delay
        PROVE  PromiseInv'
    <3>1. processed' = processed
      BY <2>2 DEF Contribution
    <3>2. ASSUME NEW k \in Layers, NEW d \in 0 .. RingSize(k) - 1,
                 NEW n \in Neurons, NEW due \in Held(k, d, n)'
          PROVE  due \in Nat /\ due > 0 /\ due <= processed'[k] + 1 + d
      <4>1. due \in Held(k, d, n) \/ (k = l /\ d = delay /\ due = at)
        BY <2>2, ContributionHeld
      <4> QED
        BY <2>2, <3>1, <4>1 DEF PromiseInv
    <3>3. ASSUME NEW k \in Layers, NEW s \in Slots(k), NEW n \in Neurons,
                 buffer'[k][s][n] # {}
          PROVE  n \in pending'[k][s] /\ started'[k]
      <4> DEFINE slot == Slot(l, delay)
      <4>1. /\ slot \in Slots(l) /\ Accumulate(l, slot, neurons, at)
            /\ neurons \subseteq pending'[l][slot]
            /\ pending[k][s] \subseteq pending'[k][s]
            /\ started' = [started EXCEPT ![l] = TRUE]
        BY <2>2, SlotProperties DEF Contribution
      <4> HIDE DEF slot
      <4>2. buffer[k][s][n] # {} \/ (k = l /\ s = slot /\ n \in neurons)
        <5>1. PICK d : d \in buffer'[k][s][n]
          BY <3>3
        <5>2. d \in buffer'[k][s][n] <=>
                 \/ d \in buffer[k][s][n]
                 \/ k = l /\ s = slot /\ n \in neurons /\ d = at
          BY <4>1, AccumulateSlot
        <5> QED
          BY <5>1, <5>2
      <4>3. CASE buffer[k][s][n] # {}
        <5>1. n \in pending[k][s] /\ started[k] /\ started \in [Layers -> BOOLEAN]
          BY <4>3 DEF PromiseInv, Shape
        <5> QED
          BY <4>1, <5>1
      <4>4. CASE k = l /\ s = slot /\ n \in neurons
        <5>1. started \in [Layers -> BOOLEAN]
          BY DEF Shape
        <5> QED
          BY <4>1, <4>4, <5>1
      <4> QED
        BY <4>2, <4>3, <4>4
    <3> QED
      BY <3>2, <3>3 DEF PromiseInv
  <2>3. CASE UNCHANGED <<buffer, pending, started, processed, next_buffer>>
    BY <2>3 DEF PromiseInv, Held, Slot
  <2>4. CASE (\E c \in LocalState : HandOver(c)) \/
             (\E c \in Connections, reached \in SUBSET Neurons : Receive(c, reached))
    BY <2>2, <2>4, ContributionCases
  <2> QED
    BY <2>1, <2>3, <2>4, StepCases DEF StartTimestep, vars
<1> QED
  BY <1>1, <1>2, ShapeInvariant, OrderInvariant, PTL DEF Spec


(* A neuron in use that a loop skips has nothing in the slot in front: its *)
(* layer has started and it is pending if it has, so only the first frame  *)
(* of an ST-BIF layer could keep it from reading.                          *)
LEMMA SkippedIsEmpty ==
  ASSUME Shape, PromiseInv, NEW l \in Layers, NEW visited \in SUBSET Neurons,
         Loop(l, visited), NEW n \in Neurons, Active(l, n), n \notin visited,
         timestep >= FirstFrame[l]
  PROVE  Held(l, 0, n) = {}
<1> SUFFICES ASSUME Held(l, 0, n) # {} PROVE FALSE
  OBVIOUS
<1>1. 0 \in 0 .. RingSize(l) - 1
  BY SlotsProperties DEF Slots
<1>2. next_buffer[l] \in Slots(l) /\ Slot(l, 0) = next_buffer[l]
  BY <1>1, SlotProperties DEF Shape
<1>3. n \in pending[l][next_buffer[l]] /\ started[l]
  BY <1>2 DEF PromiseInv, Held
<1>4. CASE l \in MultiValued
  BY <1>3, <1>4 DEF Loop
<1>5. CASE l \notin MultiValued
  BY <1>3, <1>5 DEF Loop, Visited
<1> QED
  BY <1>4, <1>5

(***************************************************************************)
(* The two conditions the code leaves to the model that is mapped: local   *)
(* state goes to layers mapped later, and an ST-BIF layer has no input     *)
(* that is to be read before its first frame.  CoreRingBackward and        *)
(* CoreRingEarly show what happens without them.                           *)
(***************************************************************************)
LocalStateForward == \A c \in LocalState : c[1] < c[2]
NothingEarly ==
    \A l \in Layers : \A delay \in 0 .. RingSize(l) - 1 : \A n \in Neurons :
        \A due \in Held(l, delay, n) : FirstFrame[l] <= due

(* Under these conditions every contribution to a neuron in use lies, at   *)
(* all times, in the slot whose turn comes in the timestep promised to it: *)
(* whatever delays share the ring and whichever neurons the loops skip     *)
(* (core.cpp, the slot arithmetic of receive and process_timestep).        *)
THEOREM ReadsOnTime ==
  ASSUME LocalStateForward
  PROVE  Spec /\ []NothingEarly => []ReadOnTime
<1> DEFINE OnTime == \A l \in Layers : \A delay \in 0 .. RingSize(l) - 1 :
                     \A n \in Neurons : Active(l, n) =>
                        \A due \in Held(l, delay, n) :
                           due = processed[l] + 1 + delay
<1>1. Init => OnTime
  <2> SUFFICES ASSUME Init, NEW l \in Layers,
                      NEW delay \in 0 .. RingSize(l) - 1, NEW n \in Neurons
               PROVE  Held(l, delay, n) = {}
    OBVIOUS
  <2>1. RingSize(l) \in Nat \ {0} /\ next_buffer[l] = 0
    BY SlotsProperties DEF Init
  <2>2. (0 + delay) % RingSize(l) = delay
    BY <2>1
  <2> QED
    BY <2>1, <2>2 DEF Init, Held, Slot, Slots
<1>2. Shape /\ OrderInv /\ PromiseInv /\ NothingEarly /\ OnTime /\ [Next]_vars
        => OnTime'
  <2> SUFFICES ASSUME Shape, OrderInv, PromiseInv, NothingEarly, OnTime,
                      [Next]_vars,
                      NEW k \in Layers, NEW d \in 0 .. RingSize(k) - 1,
                      NEW n \in Neurons, Active(k, n),
                      NEW due \in Held(k, d, n)'
               PROVE  due = processed'[k] + 1 + d
    BY DEF Active
  <2>1. RingSize(k) \in Nat \ {0} /\ processed[k] \in Nat /\ d \in Nat
        /\ timestep \in Nat
    BY SlotsProperties DEF Shape
  <2>2. ASSUME NEW l \in Layers, NEW visited \in SUBSET Neurons,
               Loop(l, visited)
        PROVE  due = processed'[k] + 1 + d
    <3>1. /\ timestep = processed[l] + 1
          /\ processed' = [processed EXCEPT ![l] = timestep]
          /\ processed \in [Layers -> Nat]
      BY <2>2, TurnProperties DEF Loop, Read, Shape
    <3>2. CASE k # l
      <4>1. due \in Held(k, d, n)
        BY <2>2, <3>2, LoopHeld
      <4> QED
        BY <3>1, <3>2, <4>1
    <3>3. CASE k = l /\ d # RingSize(k) - 1
      <4>1. due \in Held(k, d + 1, n)
        BY <2>2, <3>3, LoopHeld
      <4>2. d + 1 \in 0 .. RingSize(k) - 1
        BY <2>1, <3>3
      <4>3. due = processed[k] + 1 + (d + 1)
        BY <4>1, <4>2
      <4>4. processed'[k] = processed[k] + 1
        BY <3>1, <3>3
      <4> QED
        BY <2>1, <4>3, <4>4
    <3>4. CASE k = l /\ d = RingSize(k) - 1
      <4>1. n \notin visited /\ due \in Held(k, 0, n)
        BY <2>2, <3>4, LoopHeld
      <4>2. 0 \in 0 .. RingSize(k) - 1
        BY <2>1
      <4>3. due = processed[k] + 1 + 0 /\ FirstFrame[k] <= due
        BY <4>1, <4>2 DEF NothingEarly
      <4>4. timestep >= FirstFrame[k]
        BY <2>1, <3>1, <3>4, <4>3
      <4>5. Held(k, 0, n) = {}
        BY <2>2, <3>4, <4>1, <4>4, SkippedIsEmpty
      <4> QED
        BY <4>1, <4>5
    <3> QED
      BY <3>2, <3>3, <3>4
  <2>3. CASE (\E c \in LocalState : HandOver(c)) \/
             (\E c \in Connections, reached \in SUBSET Neurons : Receive(c, reached))
    <3>1. PICK l \in Layers : \E delay \in 0 .. RingSize(l) - 1 :
             \E neurons \in SUBSET Neurons : \E at \in Nat :
                /\ Contribution(l, delay, neurons, at)
                /\ \/ at = processed[l] + 1 + delay
                   \/ \E c \in handing : c \in LocalState /\ l = c[2]
                                         /\ delay = 0 /\ at = timestep
      BY <2>3, ContributionCases
    <3>2. PICK delay \in 0 .. RingSize(l) - 1, neurons \in SUBSET Neurons,
               at \in Nat :
             /\ Contribution(l, delay, neurons, at)
             /\ \/ at = processed[l] + 1 + delay
                \/ \E c \in handing : c \in LocalState /\ l = c[2]
                                      /\ delay = 0 /\ at = timestep
      BY <3>1
    <3>3. at = processed[l] + 1 + delay
      <4> SUFFICES ASSUME NEW c \in handing, c \in LocalState, l = c[2],
                          delay = 0, at = timestep
                   PROVE  at = processed[l] + 1 + delay
        BY <3>2
      <4>1. c[1] < l
        BY DEF LocalStateForward
      <4>2. processed[l] = timestep - 1
        BY <4>1 DEF OrderInv
      <4> QED
        BY <2>1, <4>2
    <3>4. processed' = processed
      BY <3>2 DEF Contribution
    <3>5. due \in Held(k, d, n) \/ (k = l /\ d = delay /\ due = at)
      BY <3>2, ContributionHeld
    <3> QED
      BY <3>3, <3>4, <3>5
  <2>4. CASE UNCHANGED <<buffer, processed, next_buffer>>
    <3>1. due \in Held(k, d, n)
      BY <2>4 DEF Held, Slot
    <3> QED
      BY <2>4, <3>1
  <2> QED
    BY <2>2, <2>3, <2>4, StepCases DEF StartTimestep, vars
<1>3. OnTime => ReadOnTime
  BY DEF ReadOnTime, Held
<1> HIDE DEF OnTime
<1> QED
  BY <1>1, <1>2, <1>3, ShapeInvariant, OrderInvariant, PromiseInvariant,
     PTL DEF Spec

(* Where no layer waits for a first frame later than timestep 1 the second *)
(* condition is met by itself.                                             *)
THEOREM ReadsOnTimeFromStart ==
  ASSUME LocalStateForward, \A l \in Layers : FirstFrame[l] <= 1
  PROVE  Spec => []ReadOnTime
<1>1. PromiseInv => NothingEarly
  <2> SUFFICES ASSUME PromiseInv, NEW l \in Layers,
                      NEW delay \in 0 .. RingSize(l) - 1, NEW n \in Neurons,
                      NEW due \in Held(l, delay, n)
               PROVE  FirstFrame[l] <= due
    BY DEF NothingEarly
  <2>1. due \in Nat /\ due > 0
    BY DEF PromiseInv
  <2>2. FirstFrame[l] \in Nat /\ FirstFrame[l] <= 1
    BY RingAssumption
  <2> QED
    BY <2>1, <2>2
<1> QED
  BY <1>1, PromiseInvariant, ReadsOnTime, PTL

(* Whatever the connections, a neuron in use has at its last transition    *)
(* taken the bias of every timestep so far exactly once, and no input it   *)
(* has integrated is ahead of its bias.  Without catch-up this needs that  *)
(* no spiking layer waits for its first frame: core.cpp then takes one     *)
(* step's bias for all the frames that were skipped.                       *)
THEOREM BiasIsCaughtUp ==
  ASSUME CatchUp \/ \A l \in Layers \ MultiValued : FirstFrame[l] <= 1
  PROVE  Spec => []BiasCaughtUp
<1>1. Init => BiasCaughtUp
  BY DEF Init, BiasCaughtUp
<1>2. Shape /\ PromiseInv /\ BiasCaughtUp /\ [Next]_vars => BiasCaughtUp'
  <2> SUFFICES ASSUME Shape, PromiseInv, BiasCaughtUp, [Next]_vars,
                      NEW k \in Layers \ MultiValued, NEW n \in Neurons,
                      Active(k, n)
               PROVE  /\ bias_steps'[k][n] = last_state'[k][n]
                      /\ \A due \in membrane'[k][n] : due <= last_state'[k][n]
                      /\ ~CatchUp => last_state'[k][n] = processed'[k]
    BY DEF BiasCaughtUp, Active
  <2>1. /\ bias_steps[k][n] = last_state[k][n]
        /\ \A due \in membrane[k][n] : due <= last_state[k][n]
        /\ ~CatchUp => last_state[k][n] = processed[k]
    BY DEF BiasCaughtUp
  <2>2. /\ last_state \in [Layers -> [Neurons -> Nat]]
        /\ bias_steps \in [Layers -> [Neurons -> Nat]]
        /\ membrane \in [Layers -> [Neurons -> SUBSET Nat]]
        /\ processed \in [Layers -> Nat] /\ timestep \in Nat
        /\ last_state[k][n] <= processed[k]
    BY DEF Shape
  <2>3. CASE UNCHANGED <<bias_steps, last_state, membrane, processed>>
    BY <2>1, <2>3
  <2>4. ASSUME NEW l \in Layers, NEW visited \in SUBSET Neurons,
               Loop(l, visited)
        PROVE  /\ bias_steps'[k][n] = last_state'[k][n]
               /\ \A due \in membrane'[k][n] : due <= last_state'[k][n]
               /\ ~CatchUp => last_state'[k][n] = processed'[k]
    <3>1. /\ timestep \in Nat \ {0} /\ timestep = processed[l] + 1
          /\ Read(l, visited)
          /\ processed' = [processed EXCEPT ![l] = timestep]
      BY <2>4, TurnProperties DEF Loop, Read
    <3>2. CASE k # l
      <4>1. /\ bias_steps'[k][n] = bias_steps[k][n]
            /\ last_state'[k][n] = last_state[k][n]
            /\ processed'[k] = processed[k]
        BY <2>2, <2>4, <3>1, <3>2 DEF Loop
      <4>2. \A due \in membrane'[k][n] : due \in membrane[k][n]
        BY <3>1, <3>2, ReadMembrane
      <4> QED
        BY <2>1, <4>1, <4>2
    <3>3. CASE k = l
      <4>1. /\ last_state'[k][n] = IF n \in visited THEN timestep
                                   ELSE last_state[k][n]
            /\ bias_steps'[k][n] = bias_steps[k][n]
                                   + IF n \in visited THEN Elapsed(k, n) ELSE 0
            /\ processed'[k] = timestep
        BY <2>2, <2>4, <3>1, <3>3 DEF Loop
      <4>2. CASE n \in visited
        <5>1. Elapsed(k, n) = timestep - last_state[k][n]
          BY <2>1, <2>2, <3>1, <3>3 DEF Elapsed
        <5>2. bias_steps'[k][n] = timestep
          BY <2>1, <2>2, <4>1, <4>2, <5>1
        <5>3. ASSUME NEW due \in membrane'[k][n]
              PROVE  due <= timestep
          <6>1. CASE due \in membrane[k][n]
            BY <2>1, <2>2, <3>1, <3>3, <6>1
          <6>2. CASE due \in buffer[l][next_buffer[l]][n]
            <7>1. 0 \in 0 .. RingSize(l) - 1
              BY SlotsProperties DEF Slots
            <7>2. due \in Held(l, 0, n)
              BY <6>2, <7>1, SlotProperties DEF Held
            <7> QED
              BY <2>2, <3>1, <7>1, <7>2 DEF PromiseInv
          <6> QED
            BY <3>1, <6>1, <6>2, ReadMembrane
        <5> QED
          BY <4>1, <4>2, <5>2, <5>3
      <4>3. CASE n \notin visited
        <5>1. CatchUp
          <6> SUFFICES ASSUME ~CatchUp PROVE FALSE
            OBVIOUS
          <6>1. FirstFrame[k] \in Nat /\ FirstFrame[k] <= 1
            BY RingAssumption
          <6>2. timestep >= FirstFrame[k]
            BY <3>1, <6>1
          <6> QED
            BY <2>4, <3>3, <4>3, <6>2 DEF Loop, Visited
        <5>2. \A due \in membrane'[k][n] : due \in membrane[k][n]
          BY <3>1, <4>3, ReadMembrane
        <5> QED
          BY <2>1, <2>2, <4>1, <4>3, <5>1, <5>2
      <4> QED
        BY <4>2, <4>3
    <3> QED
      BY <3>2, <3>3
  <2> QED
    BY <2>3, <2>4, StepCases DEF StartTimestep, HandOver, Receive, vars
<1> QED
  BY <1>1, <1>2, ShapeInvariant, PromiseInvariant, PTL DEF Spec
=============================================================================
