-------------------------- MODULE FlowTableProofs ---------------------------
(***************************************************************************)
(* The table with its rings, sums and hop times, for every mesh, FIFO      *)
(* geometry, latency and traffic: the sums are kept, the network drains at *)
(* the barrier, and the rings behave as the queues of DestinationFlow.     *)
(* What is proved of the queues in DestinationFlowProofs carries over.     *)
(***************************************************************************)
EXTENDS FlowTable, SumTheorems, SequenceTheorems

(* DestinationFlow with every time in the network.                         *)
Q == INSTANCE DestinationFlowProofs WITH fifo <- Queues, Delays <- Nat

LEMMA QueueAssumptions == Q!MeshAssumption /\ Q!TimeAssumption
BY FlowAssumption DEF Q!MeshAssumption, Q!TimeAssumption, Q!Router, Router

(* The same constants, seen from both modules.                             *)
LEMMA SameConstants ==
  /\ Q!Router = Router /\ Q!Core = Core /\ Q!Fifo = Fifo
  /\ Q!CoreOffset = DF!CoreOffset /\ Q!RingCapacity = RingCapacity
  /\ Q!NoPacket = NoPacket /\ Q!Packet = Packet /\ Q!MaxHops = DF!MaxHops
  /\ \A hops : Q!Capacity(hops) = Capacity(hops)
BY Zenon DEF Q!Router, Router, Q!Core, Core, DF!Core, Q!Fifo, Fifo, DF!Fifo,
   Q!CoreOffset, DF!CoreOffset, Q!RingCapacity, RingCapacity, DF!RingCapacity,
   Q!NoPacket, NoPacket, DF!NoPacket, Q!Packet, Packet, Q!MaxHops, DF!MaxHops,
   Q!Capacity, Capacity, DF!Capacity

LEMMA CapacityNat == RingCapacity \in Nat \ {0}
<1>1. Q!MaxHops \in Nat /\ Q!RingCapacity = Q!Capacity(Q!MaxHops) + 1
      /\ Q!RingCapacity \in Nat
  BY QueueAssumptions, Q!CapacityFacts
<1>2. FifoNum * FifoDepth \in Nat
  BY FlowAssumption
<1>3. Q!Capacity(Q!MaxHops) \in Nat
  <2> DEFINE h == Q!MaxHops + 1
             w == FifoNum * FifoDepth
  <2>1. h \in Nat /\ w \in Nat
    BY <1>1, <1>2
  <2> HIDE DEF h, w
  <2>2. h * w \in Nat
    BY <2>1
  <2> QED
    BY <2>2 DEF Q!Capacity, h, w
<1> QED
  BY <1>1, <1>3, SameConstants

(***************************************************************************)
(* One ring.                                                               *)
(***************************************************************************)
LEMMA Wrap ==
  ASSUME NEW r \in Nat \ {0}, NEW a \in 0 .. r - 1, NEW d \in 0 .. r
  PROVE  (a + d) % r = IF a + d < r THEN a + d ELSE a + d - r
<1>1. CASE a + d < r
  BY <1>1
<1>2. CASE a + d >= r
  <2> DEFINE b == a + d - r
  <2>1. b \in 0 .. r - 1 /\ a + d = b + r
    BY <1>2
  <2>2. (b + r) % r = b
    <3> HIDE DEF b
    <3> QED
      BY <2>1
  <2> QED
    BY <1>2, <2>1, <2>2
<1> QED
  BY <1>1, <1>2

LEMMA RingParts ==
  ASSUME NEW f \in Ring
  PROVE  /\ f.head \in 0 .. RingCapacity - 1 /\ f.size \in 0 .. RingCapacity
         /\ f.size \in Nat
         /\ f.slots \in [0 .. RingCapacity - 1 -> RingEntry]
         /\ Cardinality(DOMAIN f.slots) = RingCapacity
<1>1. /\ f.head \in 0 .. RingCapacity - 1 /\ f.size \in 0 .. RingCapacity
      /\ f.slots \in [0 .. RingCapacity - 1 -> RingEntry]
  BY DEF Ring
<1>2. Cardinality(0 .. RingCapacity - 1) = RingCapacity
  BY CapacityNat, FS_Interval
<1> QED
  BY <1>1, <1>2, CapacityNat

LEMMA PlaceIs ==
  ASSUME NEW f \in Ring, NEW k \in 0 .. RingCapacity
  PROVE  /\ Place(f, k) = IF f.head + k < RingCapacity THEN f.head + k
                          ELSE f.head + k - RingCapacity
         /\ Place(f, k) \in 0 .. RingCapacity - 1
<1> DEFINE r == RingCapacity
           a == f.head
<1>1. r \in Nat \ {0} /\ a \in 0 .. r - 1 /\ k \in 0 .. r
      /\ Place(f, k) = (a + k) % r
  BY CapacityNat, RingParts DEF Place
<1> HIDE DEF r, a
<1>2. Place(f, k) = IF a + k < r THEN a + k ELSE a + k - r
  BY <1>1, Wrap
<1>3. Place(f, k) \in 0 .. r - 1
  BY <1>1, <1>2
<1> QED
  BY <1>2, <1>3 DEF r, a

(* Different entries are at different places.                              *)
LEMMA PlacesDiffer ==
  ASSUME NEW f \in Ring, NEW j \in 0 .. RingCapacity - 1,
         NEW k \in 0 .. RingCapacity - 1, j # k
  PROVE  Place(f, j) # Place(f, k)
<1>1. /\ f.head \in 0 .. RingCapacity - 1 /\ RingCapacity \in Nat
  BY RingParts, CapacityNat
<1>2. j \in 0 .. RingCapacity /\ k \in 0 .. RingCapacity
  BY <1>1
<1>3. /\ Place(f, j) = IF f.head + j < RingCapacity THEN f.head + j
                       ELSE f.head + j - RingCapacity
      /\ Place(f, k) = IF f.head + k < RingCapacity THEN f.head + k
                       ELSE f.head + k - RingCapacity
  BY <1>2, PlaceIs
<1> QED
  BY <1>1, <1>3

LEMMA EntryAt ==
  ASSUME NEW f \in Ring, NEW k \in 0 .. RingCapacity
  PROVE  /\ At(f, k) \in RingEntry
         /\ At(f, k).release \in Nat /\ At(f, k).service \in Nat
<1>1. At(f, k) \in RingEntry
  BY PlaceIs, RingParts DEF At
<1> QED
  BY <1>1 DEF RingEntry

(* Dropping n entries makes entry n the first one.                         *)
LEMMA DropShifts ==
  ASSUME NEW f \in Ring, NEW n \in 0 .. f.size
  PROVE  /\ Drop(f, n) \in Ring
         /\ Drop(f, n).size = f.size - n
         /\ \A k \in 0 .. f.size - n : At(Drop(f, n), k) = At(f, k + n)
<1> DEFINE g == Drop(f, n)
           r == RingCapacity
<1>1. /\ r \in Nat \ {0} /\ f.head \in 0 .. r - 1 /\ f.size \in 0 .. r
      /\ n \in 0 .. r /\ f.size - n \in 0 .. r
  BY RingParts, CapacityNat
<1>2. Place(f, n) \in 0 .. r - 1
  BY <1>1, PlaceIs
<1>3. g.head = Place(f, n) /\ g.size = f.size - n /\ g.slots = f.slots
  BY DEF Drop, Ring
<1>4. g \in Ring
  BY <1>1, <1>2 DEF Drop, Ring
<1>5. \A k \in 0 .. f.size - n : At(g, k) = At(f, k + n)
  <2> TAKE k \in 0 .. f.size - n
  <2>1. k \in 0 .. r /\ k + n \in 0 .. r
    BY <1>1
  <2>2. Place(g, k) = IF g.head + k < r THEN g.head + k ELSE g.head + k - r
    BY <1>4, <2>1, PlaceIs
  <2>3. Place(f, n) = IF f.head + n < r THEN f.head + n ELSE f.head + n - r
    BY <1>1, PlaceIs
  <2>4. Place(f, k + n) = IF f.head + (k + n) < r THEN f.head + (k + n)
                          ELSE f.head + (k + n) - r
    BY <2>1, PlaceIs
  <2>5. Place(g, k) = Place(f, k + n)
    <3> HIDE DEF g, r
    <3> QED
      BY <1>1, <1>3, <2>1, <2>2, <2>3, <2>4
  <2> QED
    BY <1>3, <2>5 DEF At
<1> QED
  BY <1>3, <1>4, <1>5

(* A new entry takes the place behind the last one and leaves the others   *)
(* where they are.                                                         *)
With(f, e) == [f EXCEPT !.slots = [@ EXCEPT ![Back(f)] = e], !.size = @ + 1]

LEMMA WithAppends ==
  ASSUME NEW f \in Ring, f.size # RingCapacity, NEW e \in RingEntry
  PROVE  /\ With(f, e) \in Ring /\ With(f, e).size = f.size + 1
         /\ \A k \in 0 .. f.size - 1 : At(With(f, e), k) = At(f, k)
         /\ At(With(f, e), f.size) = e
<1> DEFINE g == With(f, e)
           r == RingCapacity
<1>1. /\ r \in Nat \ {0} /\ f.size \in 0 .. r - 1
      /\ f.slots \in [0 .. r - 1 -> RingEntry]
  BY RingParts, CapacityNat
<1>2. Back(f) \in 0 .. r - 1 /\ Back(f) = Place(f, f.size)
  BY <1>1, PlaceIs DEF Back
<1>3. g.head = f.head /\ g.size = f.size + 1
      /\ g.slots = [f.slots EXCEPT ![Back(f)] = e]
  BY DEF With, Ring
<1>4. f.size + 1 \in 0 .. r
  BY <1>1
<1>5. g \in Ring
  <2>1. [f.slots EXCEPT ![Back(f)] = e] \in [0 .. r - 1 -> RingEntry]
    BY <1>1, <1>2
  <2> QED
    BY <1>4, <2>1 DEF With, Ring
<1>6. \A k \in 0 .. r : Place(g, k) = Place(f, k)
  <2> TAKE k \in 0 .. r
  <2> QED
    BY <1>3, <1>5, RingParts DEF Place
<1>7. \A k \in 0 .. f.size - 1 : At(g, k) = At(f, k)
  <2> TAKE k \in 0 .. f.size - 1
  <2>1. k \in 0 .. r - 1 /\ k \in 0 .. r /\ k # f.size
    BY <1>1
  <2>2. Place(f, k) # Back(f) /\ Place(f, k) \in 0 .. r - 1
    BY <1>1, <1>2, <2>1, PlaceIs, PlacesDiffer
  <2>3. Place(g, k) = Place(f, k)
    BY <1>6, <2>1
  <2> QED
    BY <1>1, <1>3, <2>2, <2>3 DEF At
<1>8. At(g, f.size) = e
  <2>1. Place(g, f.size) = Back(f)
    BY <1>1, <1>2, <1>6
  <2> QED
    BY <1>1, <1>2, <1>3, <2>1 DEF At
<1> QED
  BY <1>3, <1>5, <1>7, <1>8

(***************************************************************************)
(* A ring as a queue: retiring drops the same entries.                     *)
(***************************************************************************)
LEMMA MinOfNat ==
  ASSUME NEW S \in SUBSET Nat, S # {}
  PROVE  Min(S) \in S /\ \A y \in S : Min(S) <= y
<1>1. Q!Min(S) \in S /\ \A y \in S : Q!Min(S) <= y
  BY QueueAssumptions, Q!MinOfNat
<1>2. Q!Min(S) = Min(S)
  BY Zenon DEF Q!Min, Min
<1> QED
  BY <1>1, <1>2

LEMMA SameFinite ==
  /\ \A S : Q!IsFiniteSet(S) <=> IsFiniteSet(S)
  /\ \A S : Q!Cardinality(S) = Cardinality(S)
BY Zenon DEF Q!IsFiniteSet, IsFiniteSet, Q!Cardinality, Cardinality

LEMMA DueFacts ==
  ASSUME NEW f \in Ring, NEW t \in Nat
  PROVE  /\ Due(f, t) \in 0 .. f.size
         /\ \A k \in 0 .. f.size - 1 : At(f, k).release > t => Due(f, t) <= k
         /\ Due(f, t) < f.size => At(f, Due(f, t)).release > t
<1> DEFINE S == {k \in 0 .. f.size - 1 : At(f, k).release > t} \cup {f.size}
<1>1. f.size \in Nat
  BY RingParts
<1>2. S \in SUBSET Nat /\ S # {}
  BY <1>1
<1>3. Due(f, t) \in S /\ \A y \in S : Due(f, t) <= y
  BY <1>2, MinOfNat DEF Due
<1>4. Due(f, t) \in 0 .. f.size
  BY <1>1, <1>3
<1> QED
  BY <1>1, <1>3, <1>4

LEMMA QueueFacts ==
  ASSUME NEW f \in Ring
  PROVE  /\ QueueOf(f) \in Seq(Q!Entry) /\ Len(QueueOf(f)) = f.size
         /\ DOMAIN QueueOf(f) = 1 .. f.size
         /\ \A k \in 1 .. f.size : QueueOf(f)[k].release = At(f, k - 1).release
         /\ QueueOf(f) = <<>> <=> f.size = 0
<1>1. f.size \in Nat /\ f.size \in 0 .. RingCapacity /\ RingCapacity \in Nat
  BY RingParts, CapacityNat
<1>2. \A k \in 1 .. f.size : [release |-> At(f, k - 1).release] \in Q!Entry
  <2> TAKE k \in 1 .. f.size
  <2>1. k - 1 \in 0 .. RingCapacity
    BY <1>1
  <2> QED
    BY <2>1, EntryAt DEF Q!Entry
<1>3. QueueOf(f) \in [1 .. f.size -> Q!Entry]
  BY <1>2 DEF QueueOf
<1>4. QueueOf(f) \in Seq(Q!Entry) /\ Len(QueueOf(f)) = f.size
  BY <1>1, <1>3, IsASeq, LenProperties
<1>5. \A k \in 1 .. f.size : QueueOf(f)[k].release = At(f, k - 1).release
  BY DEF QueueOf
<1>6. QueueOf(f) = <<>> <=> f.size = 0
  BY <1>4
<1> QED
  BY <1>3, <1>4, <1>5, <1>6

LEMMA SameFirst ==
  ASSUME NEW f \in Ring, NEW t \in Nat
  PROVE  Q!FirstLive(QueueOf(f), t) = Due(f, t) + 1
<1> DEFINE q == QueueOf(f)
           S == {k \in 1 .. Len(q) : q[k].release > t} \cup {Len(q) + 1}
           m == Q!FirstLive(q, t)
           d == Due(f, t)
<1>1. /\ Len(q) = f.size /\ f.size \in Nat
      /\ \A k \in 1 .. f.size : q[k].release = At(f, k - 1).release
  BY QueueFacts, RingParts
<1>2. m \in S /\ \A y \in S : m <= y
  <2>1. S \in SUBSET Nat /\ S # {}
    BY <1>1
  <2>2. m = Min(S)
    BY Zenon DEF Q!FirstLive, Q!Min, Min
  <2> HIDE DEF S, m
  <2> QED
    BY <2>1, <2>2, MinOfNat
<1>3. /\ d \in 0 .. f.size
      /\ \A k \in 0 .. f.size - 1 : At(f, k).release > t => d <= k
      /\ d < f.size => At(f, d).release > t
  BY DueFacts
<1> HIDE DEF m, d, q
<1>4. d + 1 \in S
  <2>1. CASE d = f.size
    BY <1>1, <2>1
  <2>2. CASE d # f.size
    <3>1. d + 1 \in 1 .. f.size /\ (d + 1) - 1 = d /\ d < f.size
      BY <1>1, <1>3, <2>2
    <3>2. q[d + 1].release = At(f, d).release
      BY <1>1, <3>1
    <3>3. q[d + 1].release > t
      BY <1>3, <3>1, <3>2
    <3> QED
      BY <1>1, <3>1, <3>3
  <2> QED
    BY <2>1, <2>2
<1>5. m \in 1 .. f.size + 1
  BY <1>1, <1>2
<1>6. d <= m - 1
  <2>1. CASE m = f.size + 1
    BY <1>1, <1>3, <2>1
  <2>2. CASE m # f.size + 1
    <3>1. m \in 1 .. f.size /\ q[m].release > t
      BY <1>1, <1>2, <2>2
    <3>2. m - 1 \in 0 .. f.size - 1 /\ At(f, m - 1).release > t
      BY <1>1, <3>1
    <3> QED
      BY <1>3, <3>2
  <2> QED
    BY <2>1, <2>2
<1>7. m <= d + 1
  BY <1>2, <1>4
<1>8. m = d + 1
  BY <1>1, <1>3, <1>5, <1>6, <1>7
<1> QED
  BY <1>8 DEF m, d, q

LEMMA QueueOfDrop ==
  ASSUME NEW f \in Ring, NEW n \in 0 .. f.size
  PROVE  QueueOf(Drop(f, n)) = SubSeq(QueueOf(f), n + 1, Len(QueueOf(f)))
<1> DEFINE g == Drop(f, n)
           q == QueueOf(f)
           s == f.size
<1>1. /\ g \in Ring /\ g.size = s - n /\ s \in Nat
      /\ \A k \in 0 .. s - n : At(g, k) = At(f, k + n)
  BY DropShifts, RingParts
<1>2. Len(q) = s
  BY QueueFacts
<1>3. QueueOf(g) = [k \in 1 .. s - n |-> [release |-> At(g, k - 1).release]]
  BY <1>1 DEF QueueOf
<1>4. \A k \in 1 .. s - n : At(g, k - 1) = At(f, (k + n) - 1)
  <2> TAKE k \in 1 .. s - n
  <2>1. k - 1 \in 0 .. s - n /\ (k - 1) + n = (k + n) - 1
    BY <1>1
  <2>2. At(g, k - 1) = At(f, (k - 1) + n)
    BY <1>1, <2>1
  <2> QED
    BY <2>1, <2>2
<1>5. \A k \in 1 .. s - n : q[k + n] = [release |-> At(f, (k + n) - 1).release]
  <2> TAKE k \in 1 .. s - n
  <2>1. k + n \in 1 .. s
    BY <1>1
  <2> QED
    BY <2>1 DEF QueueOf
<1>6. SubSeq(q, n + 1, s) = [k \in 1 .. s - n |-> q[k + n]]
  <2>1. SubSeq(q, n + 1, s) = [k \in 1 .. s - (n + 1) + 1 |-> q[k + (n + 1) - 1]]
    <3>1. q \in Seq(Q!Entry) /\ n + 1 \in 1 .. Len(q) + 1 /\ s = Len(q)
      BY <1>1, <1>2, QueueFacts
    <3> HIDE DEF q
    <3> QED
      BY <3>1
  <2>2. s - (n + 1) + 1 = s - n /\ \A k \in 1 .. s - n : k + (n + 1) - 1 = k + n
    BY <1>1
  <2> QED
    BY <2>1, <2>2
<1>7. [k \in 1 .. s - n |-> [release |-> At(g, k - 1).release]]
         = [k \in 1 .. s - n |-> q[k + n]]
  <2> HIDE DEF g, q, s
  <2> QED
    BY <1>4, <1>5
<1> HIDE DEF g, q, s
<1>8. QueueOf(g) = SubSeq(q, n + 1, Len(q))
  BY <1>2, <1>3, <1>6, <1>7
<1> QED
  BY <1>8 DEF g, q

(* The retire loop on one ring is Live on its queue.                       *)
LEMMA RetireOne ==
  ASSUME NEW f \in Ring, NEW t \in Nat
  PROVE  QueueOf(Drop(f, Due(f, t))) = Q!Live(QueueOf(f), t)
<1>1. Due(f, t) \in 0 .. f.size
  BY DueFacts
<1>2. QueueOf(Drop(f, Due(f, t))) = SubSeq(QueueOf(f), Due(f, t) + 1, Len(QueueOf(f)))
  BY <1>1, QueueOfDrop
<1> QED
  BY <1>2, SameFirst DEF Q!Live

LEMMA QueueOfWith ==
  ASSUME NEW f \in Ring, f.size # RingCapacity, NEW e \in RingEntry
  PROVE  QueueOf(With(f, e)) = Append(QueueOf(f), [release |-> e.release])
<1> DEFINE g == With(f, e)
           s == f.size
           v(k) == [release |-> At(f, k - 1).release]
           w == [release |-> e.release]
<1>1. /\ g \in Ring /\ g.size = s + 1 /\ s \in Nat
      /\ \A k \in 0 .. s - 1 : At(g, k) = At(f, k)
      /\ At(g, s) = e
  BY WithAppends, RingParts
<1>2. QueueOf(f) = [k \in 1 .. s |-> v(k)]
  BY DEF QueueOf
<1>3. QueueOf(g) = [k \in 1 .. s + 1 |-> [release |-> At(g, k - 1).release]]
  BY <1>1 DEF QueueOf
<1>4. \A k \in 1 .. s + 1 : [release |-> At(g, k - 1).release]
                               = IF k = s + 1 THEN w ELSE v(k)
  <2> TAKE k \in 1 .. s + 1
  <2>1. CASE k = s + 1
    <3>1. k - 1 = s
      BY <1>1, <2>1
    <3> QED
      BY <1>1, <2>1, <3>1
  <2>2. CASE k # s + 1
    <3>1. k - 1 \in 0 .. s - 1
      BY <1>1, <2>2
    <3>2. At(g, k - 1) = At(f, k - 1)
      BY <1>1, <3>1
    <3> QED
      BY <2>2, <3>2
  <2> QED
    BY <2>1, <2>2
<1>5. /\ QueueOf(f) \in Seq(Q!Entry) /\ Len(QueueOf(f)) = s
      /\ QueueOf(g) \in Seq(Q!Entry) /\ Len(QueueOf(g)) = s + 1
      /\ w \in Q!Entry
  BY <1>1, QueueFacts DEF RingEntry, Q!Entry
<1>6. \A k \in 1 .. s : QueueOf(f)[k] = v(k)
  BY <1>2
<1> DEFINE q == QueueOf(f)
<1>7. \A k \in 1 .. s + 1 : QueueOf(g)[k] = IF k = s + 1 THEN w ELSE q[k]
  <2> TAKE k \in 1 .. s + 1
  <2>1. QueueOf(g)[k] = IF k = s + 1 THEN w ELSE v(k)
    BY <1>3, <1>4
  <2>2. k # s + 1 => k \in 1 .. s
    BY <1>1
  <2> HIDE DEF g, s, v, w
  <2> QED
    BY <1>6, <2>1, <2>2
<1> HIDE DEF g, s, v, w, q
<1>8. /\ Append(q, w) \in Seq(Q!Entry) /\ Len(Append(q, w)) = s + 1
      /\ \A k \in 1 .. s : Append(q, w)[k] = q[k]
      /\ Append(q, w)[s + 1] = w
  BY <1>5, AppendProperties DEF q
<1>9. \A k \in 1 .. s + 1 : QueueOf(g)[k] = Append(q, w)[k]
  <2> TAKE k \in 1 .. s + 1
  <2>1. k # s + 1 => k \in 1 .. s
    BY <1>1
  <2> QED
    BY <1>7, <1>8, <2>1
<1>10. QueueOf(g) = Append(q, w)
  BY <1>5, <1>8, <1>9, SeqEqual
<1> QED
  BY <1>10 DEF g, q, w

(***************************************************************************)
(* All rings of a router.                                                  *)
(***************************************************************************)
Rings == [Fifo -> Ring]
QueuesOf(rings) == [q \in Fifo |-> QueueOf(rings[q])]

LEMMA FifoFinite == IsFiniteSet(Fifo)
<1>1. CoresPerPe \in Nat /\ FifoNum \in Nat
  BY FlowAssumption
<1>2. IsFiniteSet(0 .. CoresPerPe - 1) /\ IsFiniteSet(0 .. FifoNum - 1)
  BY <1>1, FS_Interval
<1>3. IsFiniteSet((0 .. CoresPerPe - 1) \X (0 .. FifoNum - 1))
  BY <1>2, FS_Product
<1> QED
  BY <1>3 DEF Fifo, DF!Fifo, DF!CoreOffset

LEMMA RetireRings ==
  ASSUME NEW rings \in Rings, NEW t \in Nat
  PROVE  /\ Retire(rings, t) \in Rings
         /\ QueuesOf(Retire(rings, t)) = Q!Retire(QueuesOf(rings), t)
<1>1. \A q \in Fifo : rings[q] \in Ring
  BY DEF Rings
<1>2. \A q \in Fifo : Drop(rings[q], Due(rings[q], t)) \in Ring
  BY <1>1, DueFacts, DropShifts
<1>3. \A q \in Fifo : QueueOf(Drop(rings[q], Due(rings[q], t)))
                         = Q!Live(QueueOf(rings[q]), t)
  BY <1>1, RetireOne
<1>4. Retire(rings, t) \in Rings
  BY <1>2 DEF Retire, Rings
<1>5. QueuesOf(Retire(rings, t)) = [q \in Fifo |-> Q!Live(QueueOf(rings[q]), t)]
  BY <1>3 DEF QueuesOf, Retire
<1>6. Q!Retire(QueuesOf(rings), t) = [q \in Fifo |-> Q!Live(QueueOf(rings[q]), t)]
  BY SameConstants DEF Q!Retire, QueuesOf
<1> QED
  BY <1>4, <1>5, <1>6

(* Once the rings are retired, nothing is due.                             *)
LEMMA RetireAgain ==
  ASSUME NEW rings \in Rings, NEW t \in Nat
  PROVE  Retire(Retire(rings, t), t) = Retire(rings, t)
<1>1. ASSUME NEW f \in Ring
      PROVE  LET g == Drop(f, Due(f, t)) IN Drop(g, Due(g, t)) = g
  <2> DEFINE d == Due(f, t)
             g == Drop(f, d)
  <2>1. /\ d \in 0 .. f.size /\ f.size \in Nat
        /\ d < f.size => At(f, d).release > t
    BY DueFacts, RingParts
  <2>2. /\ g \in Ring /\ g.size = f.size - d
        /\ \A k \in 0 .. f.size - d : At(g, k) = At(f, k + d)
    BY <2>1, DropShifts
  <2> HIDE DEF g, d
  <2>3. Due(g, t) = 0
    <3>1. /\ Due(g, t) \in 0 .. g.size
          /\ \A k \in 0 .. g.size - 1 : At(g, k).release > t => Due(g, t) <= k
      BY <2>2, DueFacts
    <3>2. CASE g.size = 0
      BY <3>1, <3>2
    <3>3. CASE g.size # 0
      <4>1. 0 \in 0 .. g.size - 1 /\ 0 \in 0 .. f.size - d /\ d < f.size /\ 0 + d = d
        BY <2>1, <2>2, <3>3
      <4>2. At(g, 0) = At(f, d)
        BY <2>2, <4>1
      <4>3. Due(g, t) <= 0
        BY <2>1, <3>1, <4>1, <4>2
      <4> QED
        BY <2>1, <2>2, <3>1, <4>3
    <3> QED
      BY <3>2, <3>3
  <2>4. Drop(g, 0) = g
    <3>1. g.head \in 0 .. RingCapacity - 1 /\ g.size \in Nat /\ RingCapacity \in Nat
      BY <2>2, RingParts, CapacityNat
    <3>2. 0 \in 0 .. RingCapacity
      BY <3>1
    <3>3. Place(g, 0) = IF g.head + 0 < RingCapacity THEN g.head + 0
                        ELSE g.head + 0 - RingCapacity
      BY <2>2, <3>2, PlaceIs
    <3>4. Place(g, 0) = g.head /\ g.size - 0 = g.size
      BY <3>1, <3>3
    <3> QED
      BY <2>2, <3>4 DEF Drop, Ring
  <2> QED
    BY <2>3, <2>4 DEF g, d
<1>2. \A q \in Fifo : rings[q] \in Ring
  BY DEF Rings
<1> QED
  BY <1>1, <1>2 DEF Retire

LEMMA SameOccupancy ==
  ASSUME NEW rings \in Rings
  PROVE  /\ Q!Occupancy(QueuesOf(rings)) = Occupancy(rings)
         /\ Q!IsFiniteSet(Q!Occupied(QueuesOf(rings)))
         /\ Occupancy(rings) \in Nat
         /\ QueuesOf(rings) \in Q!FlowType
<1> DEFINE size == [q \in Fifo |-> rings[q].size]
           flow == QueuesOf(rings)
<1>1. \A q \in Fifo : rings[q] \in Ring
  BY DEF Rings
<1>2. Occupancy(rings) = SumFunctionOnSet(size, Fifo)
  BY Zenon DEF Occupancy, SumFunctionOnSet, FoldFunctionOnSet, MapThenFoldSet,
               MapThenSumSet
<1>3. \A q \in Fifo : size[q] \in Nat /\ DOMAIN flow[q] = 1 .. size[q]
                      /\ flow[q] \in Seq(Q!Entry)
  BY <1>1, QueueFacts, RingParts DEF QueuesOf
<1>4. Q!Occupied(flow) = Below(size, Fifo)
  <2> HIDE DEF size, flow
  <2> QED
    BY <1>3, SameConstants DEF Q!Occupied, Below
<1>5. /\ IsFiniteSet(Below(size, Fifo))
      /\ Cardinality(Below(size, Fifo)) = SumFunctionOnSet(size, Fifo)
  <2> HIDE DEF size
  <2> QED
    BY <1>3, FifoFinite, SumCounts
<1>6. SumFunctionOnSet(size, Fifo) \in Nat
  <2> HIDE DEF size
  <2> QED
    BY <1>3, FifoFinite, SumNat
<1>7. flow \in Q!FlowType
  BY <1>3, SameConstants DEF QueuesOf, Q!FlowType
<1> QED
  BY <1>2, <1>4, <1>5, <1>6, <1>7, SameFinite DEF Q!Occupancy

LEMMA SameEarliest ==
  ASSUME NEW rings \in Rings
  PROVE  Q!EarliestRelease(QueuesOf(rings)) = EarliestRelease(rings)
<1> DEFINE flow == QueuesOf(rings)
           A == {p \in Fifo : rings[p].size # 0}
           B == {p \in Q!Fifo : flow[p] # <<>>}
           X == {At(rings[q], 0).release : q \in A}
           Y == {flow[q][1].release : q \in B}
<1>1. \A q \in Fifo : /\ rings[q].size \in Nat
                      /\ flow[q] = <<>> <=> rings[q].size = 0
                      /\ rings[q].size # 0 =>
                            flow[q][1].release = At(rings[q], 0).release
  <2> TAKE q \in Fifo
  <2>1. rings[q] \in Ring
    BY DEF Rings
  <2>2. /\ \A k \in 1 .. rings[q].size :
              QueueOf(rings[q])[k].release = At(rings[q], k - 1).release
        /\ QueueOf(rings[q]) = <<>> <=> rings[q].size = 0
        /\ rings[q].size \in Nat
    BY <2>1, QueueFacts, RingParts
  <2>3. flow[q] = QueueOf(rings[q])
    BY DEF QueuesOf
  <2>4. ASSUME rings[q].size # 0
        PROVE  QueueOf(rings[q])[1].release = At(rings[q], 0).release
    <3>1. 1 \in 1 .. rings[q].size
      BY <2>2, <2>4
    <3> QED
      BY <2>2, <3>1
  <2> QED
    BY <2>2, <2>3, <2>4
<1>2. A = B
  <2> HIDE DEF flow
  <2> QED
    BY <1>1, SameConstants
<1>3. X = Y
  <2>1. \A q \in A : flow[q][1].release = At(rings[q], 0).release
    BY <1>1
  <2> HIDE DEF A, B, flow
  <2> QED
    BY <1>2, <2>1
<1>4. Q!EarliestRelease(flow) = Q!Min(Y) /\ EarliestRelease(rings) = Min(X)
  BY DEF Q!EarliestRelease, EarliestRelease
<1>5. Q!Min(Y) = Min(Y)
  BY Zenon DEF Q!Min, Min
<1> HIDE DEF X, Y, flow
<1> QED
  BY <1>3, <1>4, <1>5 DEF flow

(* The wait for room is the same wait.                                     *)
LEMMA SameSend ==
  ASSUME NEW rings \in Rings, NEW t \in Nat, NEW hops,
         Capacity(hops) \in Nat
  PROVE  LET due     == Q!Retire(QueuesOf(rings), t)
             blocked == Q!Occupancy(due) > Q!Capacity(hops)
             send    == IF blocked THEN Q!Later(t, Q!EarliestRelease(due)) ELSE t
         IN  /\ SendTime(rings, t, hops) = send
             /\ send \in Nat /\ t <= send
             /\ Retire(Retire(rings, t), send) \in Rings
             /\ QueuesOf(Retire(Retire(rings, t), send))
                   = IF blocked THEN Q!Retire(due, send) ELSE due
<1> DEFINE first   == Retire(rings, t)
           due     == Q!Retire(QueuesOf(rings), t)
           blocked == Q!Occupancy(due) > Q!Capacity(hops)
           send    == IF blocked THEN Q!Later(t, Q!EarliestRelease(due)) ELSE t
<1>1. first \in Rings /\ due = QueuesOf(first)
  BY RetireRings
<1>2. /\ Q!Occupancy(due) = Occupancy(first)
      /\ Q!IsFiniteSet(Q!Occupied(due)) /\ due \in Q!FlowType
      /\ Occupancy(first) \in Nat
      /\ Q!EarliestRelease(due) = EarliestRelease(first)
  <2> HIDE DEF first, due
  <2> QED
    BY <1>1, SameOccupancy, SameEarliest
<1>3. Q!Capacity(hops) = Capacity(hops)
  BY SameConstants
<1>4. SendTime(rings, t, hops) = send
  <2>1. \A a, b : Q!Later(a, b) = Later(a, b)
    BY Zenon DEF Q!Later, Later, DF!Later
  <2> HIDE DEF due
  <2> QED
    BY <1>2, <1>3, <2>1 DEF SendTime, first
<1>5. send \in Nat /\ t <= send
  <2>1. CASE blocked
    <3>1. Occupancy(first) # 0 /\ Q!Cardinality(Q!Occupied(due)) # 0
      <4> HIDE DEF first, due
      <4> QED
        BY <1>2, <1>3, <2>1 DEF Q!Occupancy
    <3>2. Q!Occupied(due) # {}
      <4> HIDE DEF due
      <4> QED
        BY <3>1, FS_EmptySet, SameFinite
    <3>3. Q!EarliestRelease(due) \in Nat
      <4> HIDE DEF due
      <4> QED
        BY <1>2, <3>2, QueueAssumptions, Q!RetireEarliest
    <3> HIDE DEF due
    <3> QED
      BY <2>1, <3>3 DEF Q!Later
  <2>2. CASE ~blocked
    BY <2>2
  <2> QED
    BY <2>1, <2>2
<1> HIDE DEF send
<1>6. Retire(first, send) \in Rings
      /\ QueuesOf(Retire(first, send)) = Q!Retire(due, send)
  <2> HIDE DEF first, due
  <2> QED
    BY <1>1, <1>5, RetireRings
<1>7. ASSUME ~blocked PROVE Q!Retire(due, send) = due
  <2>1. send = t
    BY <1>7 DEF send
  <2>2. Retire(first, t) = first
    BY RetireAgain
  <2> HIDE DEF first, due
  <2> QED
    BY <1>1, <1>6, <2>1, <2>2
<1> QED
  BY <1>4, <1>5, <1>6, <1>7 DEF send

(***************************************************************************)
(* Sums of services.                                                       *)
(***************************************************************************)
LEMMA IndicesFinite ==
  ASSUME NEW n \in Int
  PROVE  IsFiniteSet(0 .. n - 1) /\ IsFiniteSet(0 .. n)
<1>1. 0 \in Int /\ n - 1 \in Int
  OBVIOUS
<1> QED
  BY <1>1, FS_Interval

LEMMA ServiceIsSum ==
  ASSUME NEW f \in Ring, NEW n \in 0 .. f.size
  PROVE  /\ ServiceOf(f, n)
               = SumFunctionOnSet([k \in 0 .. f.size - 1 |-> At(f, k).service], 0 .. n - 1)
         /\ ServiceOf(f, n) \in Nat
         /\ \A k \in 0 .. f.size - 1 : At(f, k).service \in Nat
<1> DEFINE T == 0 .. n - 1
           small == [k \in T |-> At(f, k).service]
           all == [k \in 0 .. f.size - 1 |-> At(f, k).service]
<1>1. f.size \in Nat /\ f.size \in 0 .. RingCapacity /\ RingCapacity \in Nat
  BY RingParts, CapacityNat
<1>2. \A k \in 0 .. f.size - 1 : At(f, k).service \in Nat
  <2> TAKE k \in 0 .. f.size - 1
  <2>1. k \in 0 .. RingCapacity
    BY <1>1
  <2> QED
    BY <2>1, EntryAt
<1>3. T \subseteq 0 .. f.size - 1 /\ IsFiniteSet(T)
  <2>1. n \in Int
    BY <1>1
  <2> QED
    BY <1>1, <2>1, IndicesFinite
<1>4. ServiceOf(f, n) = SumFunctionOnSet(small, T)
  BY Zenon DEF ServiceOf, SumFunctionOnSet, FoldFunctionOnSet, MapThenFoldSet,
               MapThenSumSet
<1>5. \A k \in T : small[k] = all[k] /\ small[k] \in Nat
  BY <1>2, <1>3
<1>6. SumFunctionOnSet(small, T) = SumFunctionOnSet(all, T)
      /\ SumFunctionOnSet(small, T) \in Nat
  <2> HIDE DEF small, all, T
  <2> QED
    BY <1>3, <1>5, SumCongruence, SumNat
<1> QED
  BY <1>2, <1>4, <1>6

LEMMA ServiceOfDrop ==
  ASSUME NEW f \in Ring, NEW n \in 0 .. f.size
  PROVE  ServiceOf(Drop(f, n), Drop(f, n).size) = ServiceOf(f, f.size) - ServiceOf(f, n)
<1> DEFINE g == Drop(f, n)
           s == f.size
           S == 0 .. s - 1
           T == 0 .. n - 1
           U == 0 .. s - n - 1
           v == [k \in S |-> At(f, k).service]
           w == [k \in U |-> At(g, k).service]
           b == [k \in U |-> k + n]
<1>1. /\ s \in Nat /\ n \in Nat /\ n <= s
      /\ g \in Ring /\ g.size = s - n
      /\ \A k \in 0 .. s - n : At(g, k) = At(f, k + n)
  BY RingParts, DropShifts
<1>2. /\ ServiceOf(f, s) = SumFunctionOnSet(v, S)
      /\ ServiceOf(f, n) = SumFunctionOnSet(v, T)
      /\ \A k \in S : v[k] \in Int
  <2>1. s \in 0 .. s
    BY <1>1
  <2> QED
    BY <2>1, ServiceIsSum
<1>3. ServiceOf(g, s - n) = SumFunctionOnSet(w, U)
  <2>1. s - n \in 0 .. g.size
    BY <1>1
  <2>2. ServiceOf(g, s - n)
           = SumFunctionOnSet([k \in 0 .. g.size - 1 |-> At(g, k).service], U)
    <3> HIDE DEF g
    <3> QED
      BY <1>1, <2>1, ServiceIsSum
  <2> QED
    BY <1>1, <2>2
<1>4. /\ IsFiniteSet(S) /\ IsFiniteSet(T) /\ IsFiniteSet(U) /\ T \subseteq S
  <2>1. s \in Int /\ n \in Int /\ s - n \in Int
    BY <1>1
  <2>2. T \subseteq S
    BY <1>1
  <2> HIDE DEF s
  <2> QED
    BY <2>1, <2>2, IndicesFinite
<1>5. SumFunctionOnSet(v, S) = SumFunctionOnSet(v, T) + SumFunctionOnSet(v, S \ T)
  <2> HIDE DEF S, T, v
  <2> QED
    BY <1>2, <1>4, SumSplit
<1>6. S \ T = {b[k] : k \in U}
  <2>1. \A k \in U : k + n \in S \ T
    BY <1>1
  <2>2. \A i \in S \ T : i - n \in U /\ b[i - n] = i
    BY <1>1
  <2> QED
    BY <2>1, <2>2
<1>7. \A k \in U : w[k] = v[b[k]] /\ v[b[k]] \in Int
  <2> TAKE k \in U
  <2>1. k \in 0 .. s - n /\ k + n \in S /\ b[k] = k + n
    BY <1>1
  <2>2. At(g, k) = At(f, k + n)
    BY <1>1, <2>1
  <2>3. v[b[k]] = At(f, k + n).service
    BY <2>1
  <2>4. v[k + n] \in Int
    BY <1>2, <2>1
  <2> QED
    BY <2>1, <2>2, <2>3, <2>4
<1>8. SumFunctionOnSet(w, U) = SumFunctionOnSet(v, S \ T)
  <2> DEFINE I == S \ T
  <2>1. \A x \in U : \A y \in U : b[x] = b[y] => x = y
    BY <1>1
  <2>2. /\ \A k \in U : b[k] \in I
        /\ \A i \in I : \E k \in U : b[k] = i
    <3> HIDE DEF b, U
    <3> QED
      BY <1>6
  <2>3. \A i \in I : v[i] \in Int
    BY <1>2
  <2>4. \A k \in U : w[k] = v[b[k]]
    BY <1>7
  <2> HIDE DEF w, v, b, U, I
  <2>5. SumFunctionOnSet(w, U) = SumFunctionOnSet(v, I)
    BY SMT, <1>4, <2>1, <2>2, <2>3, <2>4, SumRename
  <2> QED
    BY <2>5 DEF I
<1>9. ServiceOf(g, s - n) \in Nat /\ ServiceOf(f, n) \in Nat
  <2>1. s - n \in 0 .. g.size
    BY <1>1
  <2> HIDE DEF g, s
  <2> QED
    BY <1>1, <2>1, ServiceIsSum
<1> HIDE DEF g, s, S, T, U, v, w, b
<1>10. ServiceOf(g, s - n) = ServiceOf(f, s) - ServiceOf(f, n)
  BY <1>2, <1>3, <1>5, <1>8, <1>9
<1> QED
  BY <1>1, <1>10 DEF g, s

LEMMA ServiceOfWith ==
  ASSUME NEW f \in Ring, f.size # RingCapacity, NEW e \in RingEntry
  PROVE  ServiceOf(With(f, e), With(f, e).size) = ServiceOf(f, f.size) + e.service
<1> DEFINE g == With(f, e)
           s == f.size
           S == 0 .. s - 1
           R == 0 .. s
           v == [k \in S |-> At(f, k).service]
           w == [k \in R |-> At(g, k).service]
<1>1. /\ s \in Nat /\ g \in Ring /\ g.size = s + 1
      /\ \A k \in 0 .. s - 1 : At(g, k) = At(f, k)
      /\ At(g, s) = e
  BY RingParts, WithAppends
<1>2. /\ ServiceOf(f, s) = SumFunctionOnSet(v, S) /\ ServiceOf(f, s) \in Nat
      /\ \A k \in S : v[k] \in Int
  <2>1. s \in 0 .. s
    BY <1>1
  <2> QED
    BY <2>1, ServiceIsSum
<1>3. /\ ServiceOf(g, s + 1) = SumFunctionOnSet(w, R)
      /\ \A k \in R : w[k] \in Int
  <2>1. s + 1 \in 0 .. g.size /\ g.size - 1 = s /\ (s + 1) - 1 = s
    BY <1>1
  <2>2. /\ ServiceOf(g, s + 1) = SumFunctionOnSet(
              [k \in 0 .. g.size - 1 |-> At(g, k).service], 0 .. (s + 1) - 1)
        /\ \A k \in 0 .. g.size - 1 : At(g, k).service \in Nat
    <3> HIDE DEF g, s
    <3> QED
      BY <1>1, <2>1, ServiceIsSum
  <2> QED
    BY <2>1, <2>2
<1>4. s \in R /\ R \ {s} = S /\ IsFiniteSet(R) /\ IsFiniteSet(S)
  <2>1. s \in Nat
    BY <1>1
  <2> HIDE DEF s
  <2>2. s \in R /\ R \ {s} = S
    BY <2>1
  <2>3. IsFiniteSet(R) /\ IsFiniteSet(S)
    BY <2>1, IndicesFinite
  <2> QED
    BY <2>2, <2>3
<1>5. SumFunctionOnSet(w, R) = w[s] + SumFunctionOnSet(w, S)
  <2> HIDE DEF w, R, S
  <2>1. SumFunctionOnSet(w, R) = w[s] + SumFunctionOnSet(w, R \ {s})
    BY <1>3, <1>4, SumTake
  <2> QED
    BY <1>4, <2>1
<1>6. SumFunctionOnSet(w, S) = SumFunctionOnSet(v, S)
  <2>1. \A k \in S : w[k] = v[k]
    BY <1>1
  <2> HIDE DEF w, v, S
  <2> QED
    BY <1>4, <2>1, SumCongruence
<1>7. w[s] = e.service /\ e.service \in Nat
  BY <1>1 DEF RingEntry
<1> HIDE DEF g, s, S, R, v, w
<1>8. ServiceOf(g, s + 1) = ServiceOf(f, s) + e.service
  BY <1>2, <1>3, <1>5, <1>6, <1>7
<1> QED
  BY <1>1, <1>8 DEF g, s

(* The service of all entries of a router's rings.                         *)
RouterService(rings) ==
    MapThenSumSet(LAMBDA q : ServiceOf(rings[q], rings[q].size), Fifo)

LEMMA RouterServiceIsSum ==
  ASSUME NEW rings \in Rings
  PROVE  /\ RouterService(rings)
               = SumFunctionOnSet([q \in Fifo |-> ServiceOf(rings[q], rings[q].size)], Fifo)
         /\ \A q \in Fifo : ServiceOf(rings[q], rings[q].size) \in Nat
         /\ RouterService(rings) \in Nat
<1> DEFINE v == [q \in Fifo |-> ServiceOf(rings[q], rings[q].size)]
<1>1. RouterService(rings) = SumFunctionOnSet(v, Fifo)
  BY Zenon DEF RouterService, SumFunctionOnSet, FoldFunctionOnSet, MapThenFoldSet,
               MapThenSumSet
<1>2. \A q \in Fifo : v[q] \in Nat
  <2> TAKE q \in Fifo
  <2>1. rings[q] \in Ring
    BY DEF Rings
  <2>2. rings[q].size \in 0 .. rings[q].size
    BY <2>1, RingParts
  <2> QED
    BY <2>1, <2>2, ServiceIsSum
<1>3. SumFunctionOnSet(v, Fifo) \in Nat
  <2> HIDE DEF v
  <2> QED
    BY <1>2, FifoFinite, SumNat
<1> QED
  BY <1>1, <1>2, <1>3

(* What retire subtracts is what it removes.                               *)
LEMMA RetireService ==
  ASSUME NEW rings \in Rings, NEW t \in Nat
  PROVE  RouterService(Retire(rings, t)) = RouterService(rings) - ServiceDue(rings, t)
<1> DEFINE after == Retire(rings, t)
           all  == [q \in Fifo |-> ServiceOf(rings[q], rings[q].size)]
           left == [q \in Fifo |-> ServiceOf(after[q], after[q].size)]
           gone == [q \in Fifo |-> ServiceOf(rings[q], Due(rings[q], t))]
<1>1. after \in Rings
  BY RetireRings
<1>2. /\ RouterService(rings) = SumFunctionOnSet(all, Fifo)
      /\ RouterService(rings) \in Nat
  BY RouterServiceIsSum
<1>3. /\ RouterService(after) = SumFunctionOnSet(left, Fifo)
      /\ RouterService(after) \in Nat
      /\ \A q \in Fifo : left[q] \in Int
  <2> HIDE DEF after
  <2> QED
    BY <1>1, RouterServiceIsSum
<1>4. ServiceDue(rings, t) = SumFunctionOnSet(gone, Fifo)
  BY Zenon DEF ServiceDue, SumFunctionOnSet, FoldFunctionOnSet, MapThenFoldSet,
               MapThenSumSet
<1>5. \A q \in Fifo : gone[q] \in Int /\ all[q] = left[q] + gone[q]
  <2> TAKE q \in Fifo
  <2> DEFINE f == rings[q]
             d == Due(f, t)
  <2>1. f \in Ring /\ f.size \in 0 .. f.size
    <3>1. f \in Ring
      BY DEF Rings
    <3> HIDE DEF f
    <3> QED
      BY <3>1, RingParts
  <2>2. d \in 0 .. f.size
    BY <2>1, DueFacts
  <2>3. after[q] = Drop(f, d)
    BY DEF Retire
  <2> HIDE DEF f, d
  <2>4. ServiceOf(Drop(f, d), Drop(f, d).size) = ServiceOf(f, f.size) - ServiceOf(f, d)
    BY <2>1, <2>2, ServiceOfDrop
  <2>5. ServiceOf(f, f.size) \in Nat /\ ServiceOf(f, d) \in Nat
    BY <2>1, <2>2, ServiceIsSum
  <2>6. /\ gone[q] = ServiceOf(f, d) /\ all[q] = ServiceOf(f, f.size)
        /\ left[q] = ServiceOf(Drop(f, d), Drop(f, d).size)
    BY <2>3 DEF f, d
  <2> HIDE DEF all, left, gone
  <2> QED
    BY <2>4, <2>5, <2>6
<1>6. SumFunctionOnSet(all, Fifo)
         = SumFunctionOnSet(left, Fifo) + SumFunctionOnSet(gone, Fifo)
  <2> HIDE DEF all, left, gone
  <2> QED
    BY <1>3, <1>5, FifoFinite, SumPlus
<1>7. SumFunctionOnSet(gone, Fifo) \in Int
  <2> HIDE DEF gone
  <2> QED
    BY <1>5, FifoFinite, SumInt
<1> HIDE DEF after, all, left, gone
<1>8. RouterService(after) = RouterService(rings) - ServiceDue(rings, t)
  BY <1>2, <1>3, <1>4, <1>6, <1>7
<1> QED
  BY <1>8 DEF after

(* A router's rings with one entry more.                                   *)
LEMMA RecordService ==
  ASSUME NEW rings \in Rings, NEW i \in Fifo, rings[i].size # RingCapacity,
         NEW e \in RingEntry
  PROVE  LET more == [rings EXCEPT ![i] = With(@, e)]
         IN  /\ more \in Rings
             /\ RouterService(more) = RouterService(rings) + e.service
             /\ QueuesOf(more) = [QueuesOf(rings) EXCEPT
                                     ![i] = Append(@, [release |-> e.release])]
<1> DEFINE more == [rings EXCEPT ![i] = With(@, e)]
           v == [q \in Fifo |-> ServiceOf(rings[q], rings[q].size)]
           w == [q \in Fifo |-> ServiceOf(more[q], more[q].size)]
<1>1. rings[i] \in Ring /\ With(rings[i], e) \in Ring
  <2>1. rings[i] \in Ring
    BY DEF Rings
  <2> QED
    BY <2>1, WithAppends
<1>2. /\ more \in Rings /\ more[i] = With(rings[i], e)
      /\ \A q \in Fifo \ {i} : more[q] = rings[q]
  BY <1>1 DEF Rings
<1> HIDE DEF more
<1>3. /\ RouterService(rings) = SumFunctionOnSet(v, Fifo)
      /\ \A q \in Fifo : v[q] \in Nat
      /\ RouterService(rings) \in Nat
  BY RouterServiceIsSum
<1>4. /\ RouterService(more) = SumFunctionOnSet(w, Fifo)
      /\ \A q \in Fifo : w[q] \in Nat
  BY <1>2, RouterServiceIsSum
<1>5. w[i] = v[i] + e.service /\ e.service \in Nat
  <2>1. ServiceOf(With(rings[i], e), With(rings[i], e).size)
           = ServiceOf(rings[i], rings[i].size) + e.service
    BY <1>1, ServiceOfWith
  <2> QED
    BY <1>2, <2>1 DEF RingEntry
<1>6. \A q \in Fifo \ {i} : w[q] = v[q]
  BY <1>2
<1>7. RouterService(more) = RouterService(rings) + e.service
  <2>1. SumFunctionOnSet(w, Fifo) = SumFunctionOnSet(v, Fifo) - v[i] + w[i]
    <3>1. \A q \in Fifo : v[q] \in Int
      BY <1>3
    <3>2. w[i] \in Int
      BY <1>4
    <3> DEFINE F == Fifo
    <3>3. IsFiniteSet(F) /\ i \in F
      BY FifoFinite
    <3>4. (\A q \in F \ {i} : w[q] = v[q]) /\ \A q \in F : v[q] \in Int
      BY <1>6, <3>1
    <3> HIDE DEF v, w, F
    <3>5. SumFunctionOnSet(w, F) = SumFunctionOnSet(v, F) - v[i] + w[i]
      BY SMTT(20), <3>2, <3>3, <3>4, SumChange
    <3> QED
      BY <3>5 DEF F
  <2>2. v[i] \in Nat
    BY <1>3
  <2> HIDE DEF v, w
  <2> QED
    BY <1>3, <1>4, <1>5, <2>1, <2>2
<1>8. QueuesOf(more) = [QueuesOf(rings) EXCEPT ![i] = Append(@, [release |-> e.release])]
  <2>1. QueueOf(more[i]) = Append(QueueOf(rings[i]), [release |-> e.release])
    BY <1>1, <1>2, QueueOfWith
  <2>2. \A q \in Fifo \ {i} : QueueOf(more[q]) = QueueOf(rings[q])
    BY <1>2
  <2> QED
    BY <2>1, <2>2 DEF QueuesOf
<1> QED
  BY <1>2, <1>7, <1>8 DEF more


(***************************************************************************)
(* The way through the network.                                            *)
(***************************************************************************)
LEMMA RowHopsTyped ==
  ASSUME NEW src \in Router, NEW dst \in Router
  PROVE  RowHops(src, dst) \in Seq(Hop)
<1> DEFINE a == src[1]
           b == dst[1]
           y == src[2]
           d == DF!Distance(a, b)
<1>1. /\ a \in 0 .. Cols - 1 /\ b \in 0 .. Cols - 1 /\ y \in 0 .. Rows - 1
      /\ Cols \in Nat /\ Rows \in Nat
  BY FlowAssumption DEF Router
<1>2. d \in Nat /\ d = (IF a < b THEN b - a ELSE a - b)
  BY <1>1 DEF DF!Distance
<1>3. ASSUME NEW k \in 1 .. d
      PROVE  a + Step(a, b) * (k - 1) \in 0 .. Cols - 1
  <2>1. k \in Int
    BY <1>2
  <2>2. CASE a < b
    <3>1. Step(a, b) * (k - 1) = k - 1
      BY <2>1, <2>2 DEF Step
    <3> HIDE DEF a, b, d
    <3> QED
      BY <1>1, <1>2, <2>1, <2>2, <3>1
  <2>3. CASE ~(a < b)
    <3>1. Step(a, b) * (k - 1) = 1 - k
      BY <2>1, <2>3 DEF Step
    <3> HIDE DEF a, b, d
    <3> QED
      BY <1>1, <1>2, <2>1, <2>3, <3>1
  <2> QED
    BY <2>2, <2>3
<1>4. ASSUME NEW k \in 1 .. d
      PROVE  <<<<a + Step(a, b) * (k - 1), y>>,
               IF a < b THEN "east" ELSE "west">> \in Hop
  <2> DEFINE x == a + Step(a, b) * (k - 1)
  <2>1. x \in 0 .. Cols - 1
    BY <1>3
  <2> HIDE DEF x, a, b, y
  <2>2. <<x, y>> \in Router
    BY <1>1, <2>1 DEF Router
  <2> QED
    BY <2>2 DEF Hop, Ports, x
<1>5. RowHops(src, dst) \in [1 .. d -> Hop]
  BY <1>4 DEF RowHops
<1> QED
  BY <1>2, <1>5, IsASeq

LEMMA ColumnHopsTyped ==
  ASSUME NEW src \in Router, NEW dst \in Router
  PROVE  ColumnHops(src, dst) \in Seq(Hop)
<1> DEFINE a == src[2]
           b == dst[2]
           x == dst[1]
           d == DF!Distance(a, b)
<1>1. /\ a \in 0 .. Rows - 1 /\ b \in 0 .. Rows - 1 /\ x \in 0 .. Cols - 1
      /\ Cols \in Nat /\ Rows \in Nat
  BY FlowAssumption DEF Router
<1>2. d \in Nat /\ d = (IF a < b THEN b - a ELSE a - b)
  BY <1>1 DEF DF!Distance
<1>3. ASSUME NEW k \in 1 .. d
      PROVE  a + Step(a, b) * (k - 1) \in 0 .. Rows - 1
  <2>1. k \in Int
    BY <1>2
  <2>2. CASE a < b
    <3>1. Step(a, b) * (k - 1) = k - 1
      BY <2>1, <2>2 DEF Step
    <3> HIDE DEF a, b, d
    <3> QED
      BY <1>1, <1>2, <2>1, <2>2, <3>1
  <2>3. CASE ~(a < b)
    <3>1. Step(a, b) * (k - 1) = 1 - k
      BY <2>1, <2>3 DEF Step
    <3> HIDE DEF a, b, d
    <3> QED
      BY <1>1, <1>2, <2>1, <2>3, <3>1
  <2> QED
    BY <2>2, <2>3
<1>4. ASSUME NEW k \in 1 .. d
      PROVE  <<<<x, a + Step(a, b) * (k - 1)>>,
               IF a < b THEN "north" ELSE "south">> \in Hop
  <2> DEFINE y == a + Step(a, b) * (k - 1)
  <2>1. y \in 0 .. Rows - 1
    BY <1>3
  <2> HIDE DEF x, a, b, y
  <2>2. <<x, y>> \in Router
    BY <1>1, <2>1 DEF Router
  <2> QED
    BY <2>2 DEF Hop, Ports, y
<1>5. ColumnHops(src, dst) \in [1 .. d -> Hop]
  BY <1>4 DEF ColumnHops
<1> QED
  BY <1>2, <1>5, IsASeq

LEMMA RouteTyped ==
  ASSUME NEW src \in Router, NEW dst \in Router
  PROVE  Route(src, dst) \in Seq(Hop)
BY RowHopsTyped, ColumnHopsTyped, ConcatProperties DEF Route

LEMMA HopLatencyNat ==
  ASSUME NEW h \in Hop
  PROVE  HopLatency(h) \in Nat
BY HopAssumption DEF HopLatency, Hop

LEMMA MinimumLatencyNat ==
  ASSUME NEW src \in Router, NEW dst \in Router
  PROVE  MinimumLatency(src, dst) \in Nat
<1> DEFINE route == Route(src, dst)
           v == [k \in DOMAIN route |-> HopLatency(route[k])]
           S == DOMAIN route
<1>1. route \in Seq(Hop)
  BY RouteTyped
<1> HIDE DEF route
<1>2. Len(route) \in Nat /\ S = 1 .. Len(route) /\ route \in [1 .. Len(route) -> Hop]
  BY <1>1, LenProperties
<1>3. IsFiniteSet(S)
  BY <1>2, FS_Interval
<1>4. \A k \in S : v[k] \in Nat
  BY <1>2, HopLatencyNat
<1>5. SumFunctionOnSet(v, S) \in Nat
  <2> HIDE DEF v, S
  <2> QED
    BY <1>3, <1>4, SumNat
<1>6. MapThenSumSet(LAMBDA k : HopLatency(route[k]), S) = SumFunctionOnSet(v, S)
  BY Zenon DEF SumFunctionOnSet, FoldFunctionOnSet, MapThenFoldSet, MapThenSumSet
<1> QED
  BY <1>5, <1>6, HopAssumption DEF MinimumLatency, route


LEMMA ExtraLatencyNat ==
  ASSUME NEW total \in Int, NEW hops \in Nat, NEW minimum \in Nat
  PROVE  ExtraLatency(total, hops, minimum) \in Nat
<1> DEFINE n == hops + 1
           p == minimum * n
           d == (total - p + hops) \div n
<1>1. n \in Nat \ {0} /\ p \in Int
  BY DEF n
<1> HIDE DEF n, p
<1>2. total - p + hops \in Int
  BY <1>1
<1>3. d \in Int
  BY <1>1, <1>2
<1> HIDE DEF d
<1>4. Later(0, d) \in Nat
  BY <1>3 DEF Later, DF!Later
<1> QED
  BY <1>4 DEF ExtraLatency, d, p, n

(* The recursive definition of the hop times has a solution.               *)
IsFinish(f, route, at, n) ==
    f = [k \in 0 .. n |->
            IF k = 0 THEN at
            ELSE Later(f[k - 1], link_free[route[k]]) + HopLatency(route[k])]

LEMMA FinishExists ==
  ASSUME NEW route, NEW at, NEW n \in Nat
  PROVE  \E f : IsFinish(f, route, at, n)
<1> DEFINE Bad == {m \in Nat : ~\E f : IsFinish(f, route, at, m)}
<1> SUFFICES ASSUME Bad # {} PROVE FALSE
  OBVIOUS
<1>1. Bad \in SUBSET Nat
  OBVIOUS
<1>2. PICK m \in Bad : \A y \in Bad : m <= y
  <2> HIDE DEF Bad
  <2> QED
    BY <1>1, MinOfNat
<1>3. CASE m = 0
  <2> DEFINE f == [k \in 0 .. 0 |-> at]
  <2>1. IsFinish(f, route, at, 0)
    BY DEF IsFinish
  <2> QED
    BY <1>3, <2>1
<1>4. CASE m # 0
  <2>1. m - 1 \in Nat /\ m - 1 \notin Bad
    <3>1. m \in Nat
      OBVIOUS
    <3> HIDE DEF Bad
    <3> QED
      BY <1>2, <1>4, <3>1
  <2>2. PICK g : IsFinish(g, route, at, m - 1)
    BY <2>1
  <2> DEFINE val(f, k) == IF k = 0 THEN at
                          ELSE Later(f[k - 1], link_free[route[k]]) + HopLatency(route[k])
             h == [k \in 0 .. m |-> val(g, k)]
  <2>3. \A k \in 0 .. m - 1 : g[k] = val(g, k)
    BY <2>2 DEF IsFinish
  <2>4. \A k \in 0 .. m - 1 : h[k] = g[k]
    <3> HIDE DEF val
    <3> QED
      BY <2>1, <2>3
  <2>5. \A k \in 0 .. m : val(g, k) = val(h, k)
    <3> TAKE k \in 0 .. m
    <3>1. CASE k = 0
      BY <3>1
    <3>2. CASE k # 0
      <4>1. k - 1 \in 0 .. m - 1
        BY <2>1, <3>2
      <4>2. h[k - 1] = g[k - 1]
        BY <2>4, <4>1
      <4> HIDE DEF h
      <4> QED
        BY <4>2
    <3> QED
      BY <3>1, <3>2
  <2>6. h = [k \in 0 .. m |-> val(h, k)]
    <3>1. h = [k \in 0 .. m |-> h[k]] /\ \A k \in 0 .. m : h[k] = val(g, k)
      OBVIOUS
    <3> HIDE DEF h, val
    <3> QED
      BY <2>5, <3>1
  <2>7. IsFinish(h, route, at, m)
    <3> HIDE DEF h
    <3> QED
      BY <2>6 DEF IsFinish
  <2> QED
    BY <2>7
<1> QED
  BY <1>3, <1>4

LEMMA LaterOf ==
  ASSUME NEW a \in Nat, NEW b \in Nat
  PROVE  Later(a, b) \in Nat /\ a <= Later(a, b) /\ b <= Later(a, b)
         /\ (Later(a, b) = a \/ Later(a, b) = b)
BY DEF Later, DF!Later

(* The packet leaves its hops one after the other, each at least the time  *)
(* the hop takes after it was entered.                                     *)
LEMMA FinishTimes ==
  ASSUME link_free \in [Hop -> Nat], NEW route \in Seq(Hop), NEW at \in Nat
  PROVE  LET finish == HopFinish(route, at)
         IN  /\ \A k \in 0 .. Len(route) : finish[k] \in Nat
                     /\ at <= finish[k] /\ finish[k] <= finish[Len(route)]
             /\ \A k \in 1 .. Len(route) : HopLatency(route[k]) <= finish[k]
<1> DEFINE n == Len(route)
           F == HopFinish(route, at)
           free(k) == link_free[route[k]]
           lat(k) == HopLatency(route[k])
<1>1. n \in Nat /\ route \in [1 .. n -> Hop]
  BY LenProperties
<1>2. IsFinish(F, route, at, n)
  <2>1. F = CHOOSE f : IsFinish(f, route, at, n)
    BY Zenon DEF HopFinish, IsFinish
  <2>2. \E f : IsFinish(f, route, at, n)
    BY <1>1, FinishExists
  <2> QED
    BY <2>1, <2>2
<1>3. \A k \in 1 .. n : free(k) \in Nat /\ lat(k) \in Nat
  BY <1>1, HopLatencyNat
<1> HIDE DEF F, n
<1>4. F[0] = at
  BY <1>1, <1>2 DEF IsFinish
<1>5. \A k \in 1 .. n : F[k] = Later(F[k - 1], free(k)) + lat(k)
  <2> TAKE k \in 1 .. n
  <2>1. k \in 0 .. n /\ k # 0
    BY <1>1
  <2> QED
    BY <1>2, <2>1 DEF IsFinish
<1> HIDE DEF free, lat
<1>6. ASSUME NEW k \in 1 .. n, F[k - 1] \in Nat
      PROVE  F[k] \in Nat /\ F[k - 1] <= F[k] /\ lat(k) <= F[k]
  <2> DEFINE l == Later(F[k - 1], free(k))
  <2>1. l \in Nat /\ F[k - 1] <= l
    BY <1>3, <1>6, LaterOf
  <2>2. F[k] = l + lat(k) /\ lat(k) \in Nat
    BY <1>3, <1>5
  <2> HIDE DEF l
  <2> QED
    BY <1>6, <2>1, <2>2
<1>7. \A k \in 0 .. n : F[k] \in Nat /\ at <= F[k]
  <2> DEFINE Bad == {k \in Nat : k <= n /\ ~(F[k] \in Nat /\ at <= F[k])}
  <2> SUFFICES ASSUME Bad # {} PROVE FALSE
    BY <1>1
  <2>1. Bad \in SUBSET Nat
    OBVIOUS
  <2>2. PICK m \in Bad : \A y \in Bad : m <= y
    <3> HIDE DEF Bad
    <3> QED
      BY <2>1, MinOfNat
  <2>3. m \in Nat /\ m <= n /\ m # 0
    BY <1>4, <1>1
  <2>4. m - 1 \in Nat /\ m - 1 <= n /\ m - 1 \notin Bad
    <3> HIDE DEF Bad
    <3> QED
      BY <1>1, <2>2, <2>3
  <2>5. F[m - 1] \in Nat /\ at <= F[m - 1]
    BY <2>4
  <2>6. m \in 1 .. n
    BY <1>1, <2>3
  <2>7. F[m] \in Nat /\ F[m - 1] <= F[m]
    BY <1>6, <2>5, <2>6
  <2> QED
    BY <2>5, <2>7
<1>8. \A k \in 0 .. n : F[k] <= F[n]
  <2> DEFINE Bad == {j \in Nat : j <= n /\ ~(F[n - j] <= F[n])}
  <2>0. ASSUME Bad # {} PROVE FALSE
    <3>1. Bad \in SUBSET Nat
      OBVIOUS
    <3>2. PICK j \in Bad : \A y \in Bad : j <= y
      <4> HIDE DEF Bad
      <4> QED
        BY <2>0, <3>1, MinOfNat
    <3>3. F[n] \in Nat
      BY <1>1, <1>7
    <3>4. j \in Nat /\ j <= n /\ j # 0
      BY <1>1, <3>3
    <3>5. j - 1 \in Nat /\ j - 1 <= n /\ j - 1 \notin Bad
      <4> HIDE DEF Bad
      <4> QED
        BY <1>1, <3>2, <3>4
    <3>6. F[n - (j - 1)] <= F[n]
      BY <3>5
    <3> DEFINE k == n - j
    <3>7. k \in 0 .. n /\ k + 1 \in 1 .. n /\ n - (j - 1) = k + 1 /\ (k + 1) - 1 = k
      BY <1>1, <3>4
    <3>8. ~(F[k] <= F[n])
      OBVIOUS
    <3> HIDE DEF k, Bad
    <3>9. F[k] \in Nat /\ F[k + 1] \in Nat
      BY <1>1, <1>7, <3>7
    <3>10. F[k] <= F[k + 1]
      BY <1>6, <3>7, <3>9
    <3> QED
      BY <3>3, <3>6, <3>7, <3>8, <3>9, <3>10
  <2> TAKE k \in 0 .. n
  <2>1. n - k \in Nat /\ n - k <= n /\ n - (n - k) = k
    BY <1>1
  <2> DEFINE j == n - k
  <2>2. j \in Nat /\ j <= n /\ n - j = k /\ j \notin Bad
    BY <2>0, <2>1
  <2> HIDE DEF j
  <2> QED
    BY <2>2
<1>9. \A k \in 1 .. n : lat(k) <= F[k]
  <2> TAKE k \in 1 .. n
  <2>1. k - 1 \in 0 .. n
    BY <1>1
  <2> QED
    BY <1>6, <1>7, <2>1
<1> QED
  BY <1>7, <1>8, <1>9 DEF F, n, lat


LEMMA LinksTimes ==
  ASSUME link_free \in [Hop -> Nat], NEW route \in Seq(Hop), NEW at \in Nat
  PROVE  LET links == LinksAfter(route, at)
             end   == HopFinish(route, at)[Len(route)]
         IN  /\ end \in Nat /\ at <= end
             /\ links \in [Hop -> Nat]
             /\ \A h \in Hop : LinkBusy <= HopLatency(h) + RouterLatency
                     => links[h] = link_free[h] \/ links[h] <= end + RouterLatency
<1> DEFINE n == Len(route)
           F == HopFinish(route, at)
           links == LinksAfter(route, at)
           on(h) == \E k \in DOMAIN route : route[k] = h
           first(h) == CHOOSE i \in DOMAIN route : route[i] = h
<1>1. n \in Nat /\ DOMAIN route = 1 .. n
  BY LenProperties
<1>2. /\ \A k \in 0 .. n : F[k] \in Nat /\ at <= F[k] /\ F[k] <= F[n]
      /\ \A k \in 1 .. n : HopLatency(route[k]) <= F[k]
  BY FinishTimes
<1> HIDE DEF n, F
<1>3. F[n] \in Nat /\ at <= F[n]
  BY <1>1, <1>2
<1>4. \A h \in Hop : on(h) => /\ first(h) \in 1 .. n
                              /\ route[first(h)] = h
  BY <1>1
<1>5. links = [h \in Hop |-> IF on(h) THEN BusyUntil(F[first(h)], h)
                             ELSE link_free[h]]
  BY Zenon DEF LinksAfter, F
<1> HIDE DEF on, first, links
<1>6. ASSUME NEW h \in Hop, on(h)
      PROVE  /\ links[h] \in Nat
             /\ LinkBusy <= HopLatency(h) + RouterLatency => links[h] <= F[n] + RouterLatency
  <2> DEFINE f == F[first(h)]
             l == HopLatency(h)
  <2>1. first(h) \in 1 .. n /\ first(h) \in 0 .. n /\ route[first(h)] = h
    BY <1>1, <1>4, <1>6
  <2>2. f \in Nat /\ f <= F[n] /\ l <= f
    BY <1>2, <2>1
  <2>3. l \in Nat /\ LinkBusy \in Nat /\ RouterLatency \in Nat
    BY HopLatencyNat, HopAssumption
  <2>4. links[h] = f - l + LinkBusy
    BY <1>5, <1>6 DEF BusyUntil
  <2> HIDE DEF f, l
  <2>5. links[h] \in Nat /\ (LinkBusy <= l + RouterLatency => links[h] <= F[n] + RouterLatency)
    BY <1>3, <2>2, <2>3, <2>4
  <2> QED
    BY <2>5 DEF l
<1>7. ASSUME NEW h \in Hop, ~on(h)
      PROVE  links[h] = link_free[h] /\ links[h] \in Nat
  BY <1>5, <1>7
<1>8. links \in [Hop -> Nat]
  BY <1>5, <1>6, <1>7
<1> QED
  BY <1>3, <1>6, <1>7, <1>8 DEF F, n, links

LEMMA ServiceDueNat ==
  ASSUME NEW rings \in Rings, NEW t \in Nat
  PROVE  ServiceDue(rings, t) \in Nat
<1> DEFINE gone == [q \in Fifo |-> ServiceOf(rings[q], Due(rings[q], t))]
<1>1. ServiceDue(rings, t) = SumFunctionOnSet(gone, Fifo)
  BY Zenon DEF ServiceDue, SumFunctionOnSet, FoldFunctionOnSet, MapThenFoldSet,
               MapThenSumSet
<1>2. \A q \in Fifo : gone[q] \in Nat
  <2> TAKE q \in Fifo
  <2>1. rings[q] \in Ring
    BY DEF Rings
  <2>2. ServiceOf(rings[q], Due(rings[q], t)) \in Nat
    BY <2>1, DueFacts, ServiceIsSum
  <2> QED
    BY <2>2
<1> HIDE DEF gone
<1> QED
  BY <1>1, <1>2, FifoFinite, SumNat

(***************************************************************************)
(* The invariant.  A free time of the network has passed when all the work *)
(* the statistics have seen is done, or when the packet in flight is there.*)
(***************************************************************************)
Passed(time) ==
    time <= hw_latency \/ (pending # NoPacket /\ time <= pending.arrival)

Accounted == \A r \in Destinations : total_service[r] = RouterService(ring[r])

PortsPassed ==
    /\ \A c \in Core : Passed(ejection_free[c])
    /\ \A h \in Hop : LinkBusy <= HopLatency(h) + RouterLatency
                          => Passed(link_free[h])

BeforeFirst ==
    timestep = 0 => pending = NoPacket /\ neurons_left = {} /\ hw_latency = 0

TableInv ==
    /\ TypeOK
    /\ fault # "service_underflow"
    /\ Accounted
    /\ PortsPassed
    /\ BeforeFirst

LEMMA TableInvImplies ==
  ASSUME TableInv
  PROVE  TypeOK /\ ServiceAccounting
<1>1. ASSUME NEW r \in Destinations
      PROVE  total_service[r] =
                MapThenSumSet(LAMBDA q : ServiceOf(ring[r][q], ring[r][q].size), Fifo)
  <2>1. total_service[r] = RouterService(ring[r])
    BY DEF TableInv, Accounted
  <2> QED
    BY Zenon, <2>1 DEF RouterService
<1> QED
  BY Zenon, <1>1 DEF TableInv, ServiceAccounting

LEMMA PendingFields ==
  ASSUME pending \in Packet \cup {NoPacket}, pending # NoPacket
  PROVE  /\ pending.router \in Destinations
         /\ <<pending.router, pending.core>> \in Core
         /\ <<pending.core, pending.slot>> \in Fifo
         /\ pending.arrival \in Nat
BY DEF Packet, Core, DF!Core, Fifo, DF!Fifo

(* What only moves the clocks of the cores and of the run.                 *)
LEMMA ClocksOnlyInv ==
  ASSUME TableInv, UNCHANGED table, UNCHANGED fault,
         hw_latency <= hw_latency', hw_latency' \in Nat,
         compute_free' \in [Core -> Nat], neurons_left' \subseteq Core,
         timestep' \in Nat, now' \in Nat, BeforeFirst'
  PROVE  TableInv'
<1>1. TypeOK'
  BY DEF TableInv, TypeOK, table
<1>2. Accounted' /\ fault' # "service_underflow"
  BY DEF TableInv, Accounted, table
<1>3. PortsPassed'
  <2>1. ASSUME NEW time \in Nat, Passed(time)
        PROVE  Passed(time)'
    BY <2>1 DEF TableInv, TypeOK, Passed, table
  <2>2. \A c \in Core : ejection_free[c] \in Nat /\ ejection_free'[c] = ejection_free[c]
    BY DEF TableInv, TypeOK, table
  <2>3. \A h \in Hop : link_free[h] \in Nat /\ link_free'[h] = link_free[h]
    BY DEF TableInv, TypeOK, table
  <2> QED
    BY <2>1, <2>2, <2>3 DEF TableInv, PortsPassed, Passed, table
<1> QED
  BY <1>1, <1>2, <1>3 DEF TableInv


(* The times and sums of one traverse.                                     *)
LEMMA TraverseFacts ==
  ASSUME TableInv, NEW src \in Sources, NEW dst \in Destinations,
         NEW core \in DF!CoreOffset, NEW t \in Nat
  PROVE  LET hops   == DF!Hops(src, dst)
             send   == SendTime(ring[dst], t, hops)
             left   == total_service[dst] - ServiceRetired(ring[dst], t, send)
             start  == send + ExtraLatency(left, hops, MinimumLatency(src, dst))
             route  == Route(src, dst)
             arrive == Arrival(<<dst, core>>, HopFinish(route, start)[Len(route)])
             after  == Retire(Retire(ring[dst], t), send)
         IN  /\ send \in Nat /\ t <= send /\ after \in Rings
             /\ left = RouterService(after) /\ left \in 0 .. MaxSimTime
             /\ arrive \in Nat /\ send <= arrive
             /\ ejection_free[<<dst, core>>] <= arrive
             /\ LinksAfter(route, start) \in [Hop -> Nat]
             /\ \A h \in Hop : LinkBusy <= HopLatency(h) + RouterLatency
                     => \/ LinksAfter(route, start)[h] = link_free[h]
                        \/ LinksAfter(route, start)[h] <= arrive
<1> DEFINE hops   == DF!Hops(src, dst)
           rings  == ring[dst]
           first  == Retire(rings, t)
           send   == SendTime(rings, t, hops)
           after  == Retire(first, send)
           served == ServiceRetired(rings, t, send)
           left   == total_service[dst] - served
           start  == send + ExtraLatency(left, hops, MinimumLatency(src, dst))
           route  == Route(src, dst)
           c      == <<dst, core>>
           end    == HopFinish(route, start)[Len(route)]
           links  == LinksAfter(route, start)
           arrive == Arrival(c, end)
<1>1. src \in Router /\ dst \in Router /\ c \in Core
  BY FlowAssumption DEF Core, DF!Core
<1>2. hops \in Nat /\ Capacity(hops) \in Nat
  <2>1. src \in Q!Router /\ dst \in Q!Router
    BY <1>1, SameConstants
  <2>2. Q!Capacity(Q!Hops(src, dst)) \in Nat
    BY <2>1, QueueAssumptions, Q!CapacityFacts
  <2>3. Q!Hops(src, dst) = hops
    BY Zenon DEF Q!Hops, DF!Hops, Q!Distance, DF!Distance
  <2>4. hops \in Nat
    BY <1>1, FlowAssumption DEF DF!Hops, DF!Distance, Router
  <2> QED
    BY <2>2, <2>3, <2>4, SameConstants
<1>3. rings \in Rings /\ total_service[dst] \in 0 .. MaxSimTime
      /\ total_service[dst] = RouterService(rings) /\ MaxSimTime \in Nat
  BY HopAssumption DEF TableInv, TypeOK, Rings, Accounted
<1> HIDE DEF rings, hops
<1>4. send \in Nat /\ t <= send /\ after \in Rings /\ first \in Rings
  BY <1>2, <1>3, SameSend, RetireRings
<1> HIDE DEF send, first
<1>5. left = RouterService(after) /\ left \in 0 .. MaxSimTime
  <2> DEFINE x == ServiceDue(rings, t)
             y == ServiceDue(first, send)
             total == total_service[dst]
  <2>1. x \in Nat /\ y \in Nat /\ RouterService(after) \in Nat
    BY <1>3, <1>4, ServiceDueNat, RouterServiceIsSum
  <2>2. RouterService(first) = total - x
    BY <1>3, RetireService DEF first
  <2>3. RouterService(after) = RouterService(first) - y
    BY <1>4, RetireService
  <2>4. left = total - (x + y)
    BY DEF ServiceRetired, first
  <2>5. total \in 0 .. MaxSimTime /\ MaxSimTime \in Nat
    BY <1>3
  <2> HIDE DEF x, y, total, left, after
  <2> QED
    BY <2>1, <2>2, <2>3, <2>4, <2>5
<1> HIDE DEF left, after
<1>6. start \in Nat /\ send <= start
  <2> DEFINE extra == ExtraLatency(left, hops, MinimumLatency(src, dst))
  <2>1. extra \in Nat
    <3>1. left \in Int /\ MinimumLatency(src, dst) \in Nat
      BY <1>1, <1>3, <1>5, MinimumLatencyNat
    <3> QED
      BY <1>2, <3>1, ExtraLatencyNat
  <2>2. start = send + extra
    OBVIOUS
  <2> HIDE DEF extra, start
  <2> QED
    BY <1>4, <2>1, <2>2
<1> HIDE DEF start
<1>7. link_free \in [Hop -> Nat] /\ ejection_free[c] \in Nat /\ RouterLatency \in Nat
  BY <1>1, HopAssumption DEF TableInv, TypeOK
<1>8. /\ end \in Nat /\ start <= end /\ links \in [Hop -> Nat]
      /\ \A h \in Hop : LinkBusy <= HopLatency(h) + RouterLatency
              => links[h] = link_free[h] \/ links[h] <= end + RouterLatency
  <2>1. route \in Seq(Hop)
    BY <1>1, RouteTyped
  <2> HIDE DEF route
  <2> QED
    BY <1>6, <1>7, <2>1, LinksTimes
<1> HIDE DEF end, links, c
<1>9. /\ arrive \in Nat /\ end + RouterLatency <= arrive /\ ejection_free[c] <= arrive
  <2> DEFINE l == Later(end, ejection_free[c])
  <2>1. l \in Nat /\ end <= l /\ ejection_free[c] <= l /\ arrive = l + RouterLatency
    BY <1>7, <1>8, LaterOf DEF Arrival
  <2> HIDE DEF l, arrive
  <2> QED
    BY <1>7, <1>8, <2>1
<1> HIDE DEF arrive
<1>10. send <= arrive
  BY <1>4, <1>6, <1>7, <1>8, <1>9
<1>11. \A h \in Hop : LinkBusy <= HopLatency(h) + RouterLatency
          => links[h] = link_free[h] \/ links[h] <= arrive
  <2> TAKE h \in Hop
  <2> HAVE LinkBusy <= HopLatency(h) + RouterLatency
  <2>1. links[h] \in Nat
    BY <1>8
  <2>2. links[h] = link_free[h] \/ links[h] <= end + RouterLatency
    BY <1>8
  <2> QED
    BY <1>7, <1>8, <1>9, <2>1, <2>2
<1> QED
  BY <1>4, <1>5, <1>8, <1>9, <1>10, <1>11
     DEF rings, hops, first, send, after, left, start, end, links, arrive, c


LEMMA InitTableInv == Init => TableInv
<1> SUFFICES ASSUME Init PROVE TableInv
  OBVIOUS
<1>1. \A q \in Fifo : EmptyRing \in Ring /\ EmptyRing.size = 0
  <2>1. 0 \in 0 .. RingCapacity - 1 /\ 0 \in 0 .. RingCapacity
    BY CapacityNat
  <2>2. [release |-> 0, service |-> 0] \in RingEntry
    BY DEF RingEntry
  <2> QED
    BY <2>1, <2>2 DEF EmptyRing, Ring
<1>2. TypeOK
  <2>1. ring \in [Destinations -> [Fifo -> Ring]]
    BY <1>1 DEF Init
  <2>2. total_service \in [Destinations -> 0 .. MaxSimTime]
    BY HopAssumption DEF Init
  <2>3. next_fifo \in [Core -> 0 .. FifoNum - 1]
    BY FlowAssumption DEF Init
  <2> QED
    BY <2>1, <2>2, <2>3 DEF Init, TypeOK, Faults
<1>3. Accounted
  <2> SUFFICES ASSUME NEW r \in Destinations
               PROVE  total_service[r] = RouterService(ring[r])
    BY DEF Accounted
  <2> DEFINE rings == ring[r]
             v == [q \in Fifo |-> ServiceOf(rings[q], rings[q].size)]
  <2>1. rings \in Rings /\ \A q \in Fifo : rings[q] = EmptyRing
    BY <1>1 DEF Init, Rings
  <2>2. \A q \in Fifo : v[q] = 0
    <3> TAKE q \in Fifo
    <3>1. rings[q] \in Ring /\ rings[q].size = 0
      BY <1>1, <2>1
    <3> HIDE DEF rings
    <3> DEFINE f == rings[q]
               all == [k \in 0 .. f.size - 1 |-> At(f, k).service]
    <3>2. f \in Ring /\ 0 \in 0 .. f.size
      BY <3>1
    <3> HIDE DEF f
    <3>3. ServiceOf(f, 0) = SumFunctionOnSet(all, 0 .. 0 - 1)
      BY <3>2, ServiceIsSum
    <3>4. 0 .. 0 - 1 = {}
      OBVIOUS
    <3>5. ServiceOf(f, 0) = 0
      <4> HIDE DEF all
      <4> QED
        BY <3>3, <3>4, SumEmpty
    <3> QED
      BY <3>1, <3>5 DEF f
  <2> HIDE DEF rings
  <2>3. RouterService(rings) = SumFunctionOnSet(v, Fifo)
    BY <2>1, RouterServiceIsSum
  <2> HIDE DEF v
  <2>4. SumFunctionOnSet(v, Fifo) = 0
    BY <2>2, FifoFinite, SumZero
  <2>5. total_service[r] = 0
    BY DEF Init
  <2> QED
    BY <2>3, <2>4, <2>5 DEF rings
<1>4. PortsPassed /\ BeforeFirst /\ fault # "service_underflow"
  BY DEF Init, PortsPassed, BeforeFirst, Passed
<1> QED
  BY <1>2, <1>3, <1>4 DEF TableInv

LEMMA StartTimestepTable ==
  ASSUME TableInv, StartTimestep
  PROVE  TableInv' /\ (/\ \A c \in Core : ejection_free[c] <= now'
                       /\ \A h \in Hop : LinkBusy <= HopLatency(h) + RouterLatency
                                             => link_free[h] <= now')
<1>1. /\ UNCHANGED table /\ UNCHANGED fault /\ UNCHANGED compute_free
      /\ pending = NoPacket
      /\ timestep' = timestep + 1
      /\ now' = (IF timestep = 0 THEN 0 ELSE hw_latency + SyncLatency)
      /\ hw_latency' = Later(hw_latency, now')
      /\ neurons_left' = Core
  BY Zenon DEF StartTimestep, DF!StartTimestep, DF!Barrier, Later, Core, NoPacket
<1>2. /\ timestep \in Nat /\ hw_latency \in Nat /\ SyncLatency \in Nat
      /\ compute_free \in [Core -> Nat]
      /\ timestep = 0 => hw_latency = 0
  BY FlowAssumption DEF TableInv, TypeOK, BeforeFirst
<1>3. now' \in Nat /\ hw_latency <= now' /\ timestep' \in Nat /\ timestep' # 0
  BY <1>1, <1>2
<1>4. hw_latency' \in Nat /\ hw_latency <= hw_latency'
  BY <1>1, <1>2, <1>3, LaterOf
<1>5. TableInv'
  BY <1>1, <1>2, <1>3, <1>4, ClocksOnlyInv DEF BeforeFirst
<1>6. ASSUME NEW time \in Nat, Passed(time)
      PROVE  time <= now'
  BY <1>1, <1>2, <1>3, <1>6 DEF Passed
<1>7. \A c \in Core : ejection_free[c] \in Nat
  BY DEF TableInv, TypeOK
<1>8. \A h \in Hop : link_free[h] \in Nat
  BY DEF TableInv, TypeOK
<1> QED
  BY <1>5, <1>6, <1>7, <1>8 DEF TableInv, PortsPassed

LEMMA ReservationTable ==
  ASSUME TableInv, UNCHANGED table, UNCHANGED <<fault, timestep, now>>,
         timestep # 0, NEW c \in Core, NEW finish \in Nat,
         compute_free' = [compute_free EXCEPT ![c] = finish],
         hw_latency' = Later(hw_latency, finish), neurons_left' \subseteq Core
  PROVE  TableInv'
<1>1. /\ timestep \in Nat /\ now \in Nat /\ hw_latency \in Nat
      /\ compute_free' \in [Core -> Nat]
  BY DEF TableInv, TypeOK
<1>2. hw_latency' \in Nat /\ hw_latency <= hw_latency'
  BY <1>1, LaterOf
<1> QED
  BY <1>1, <1>2, ClocksOnlyInv DEF BeforeFirst

LEMMA ProcessNeuronsTable ==
  ASSUME TableInv, NEW c \in Core, NEW service \in NeuronServices,
         ProcessNeurons(c, service)
  PROVE  TableInv' /\ timestep' = timestep
<1> DEFINE finish == Later(now, compute_free[c]) + service
<1>1. /\ UNCHANGED table /\ UNCHANGED <<fault, timestep, now>>
      /\ c \in neurons_left
      /\ compute_free' = [compute_free EXCEPT ![c] = finish]
      /\ hw_latency' = Later(hw_latency, finish)
      /\ neurons_left' = neurons_left \ {c}
  BY Zenon DEF ProcessNeurons, DF!ProcessNeurons, DF!HwStart, Later
<1>2. now \in Nat /\ compute_free[c] \in Nat /\ service \in Nat /\ neurons_left \subseteq Core
  BY FlowAssumption DEF TableInv, TypeOK
<1>3. finish \in Nat
  <2> DEFINE l == Later(now, compute_free[c])
  <2>1. l \in Nat
    BY <1>2, LaterOf
  <2> HIDE DEF l
  <2>2. l + service \in Nat
    BY <1>2, <2>1
  <2> QED
    BY <2>2 DEF l
<1>4. timestep # 0
  BY <1>1 DEF TableInv, BeforeFirst
<1> HIDE DEF finish
<1> QED
  BY <1>1, <1>2, <1>3, <1>4, ReservationTable

LEMMA ReceiveDirectTable ==
  ASSUME TableInv, NEW c \in Core, NEW service \in Services, NEW sram \in SramLatencies,
         ReceiveDirect(c, service, sram)
  PROVE  TableInv' /\ timestep' = timestep
<1> DEFINE finish == Later(now, compute_free[c]) + sram + service
<1>1. /\ UNCHANGED table /\ UNCHANGED <<fault, timestep, now, neurons_left>>
      /\ timestep > 0
      /\ compute_free' = [compute_free EXCEPT ![c] = finish]
      /\ hw_latency' = Later(hw_latency, finish)
  BY Zenon DEF ReceiveDirect, DF!ReceiveDirect, DF!HwStart, Later
<1>2. /\ now \in Nat /\ compute_free[c] \in Nat /\ service \in Nat /\ sram \in Nat
      /\ neurons_left' \subseteq Core /\ timestep \in Nat
  BY <1>1, FlowAssumption DEF TableInv, TypeOK
<1>3. finish \in Nat
  <2> DEFINE l == Later(now, compute_free[c])
  <2>1. l \in Nat
    BY <1>2, LaterOf
  <2> HIDE DEF l
  <2>2. l + sram + service \in Nat
    BY <1>2, <2>1
  <2> QED
    BY <2>2 DEF l
<1>4. timestep # 0
  BY <1>1, <1>2
<1> HIDE DEF finish
<1> QED
  BY <1>1, <1>2, <1>3, <1>4, ReservationTable

LEMMA StutterTable ==
  ASSUME TableInv, UNCHANGED vars
  PROVE  TableInv'
<1>1. hw_latency \in Nat /\ hw_latency' = hw_latency /\ hw_latency <= hw_latency'
  BY DEF TableInv, TypeOK, vars
<1> QED
  BY <1>1, ClocksOnlyInv DEF TableInv, TypeOK, BeforeFirst, vars, table


LEMMA TraverseTable ==
  ASSUME TableInv, NEW src \in Sources, NEW dst \in Destinations,
         NEW core \in DF!CoreOffset, NEW t \in Nat, Traverse(src, dst, core, t)
  PROVE  TableInv' /\ timestep' = timestep
<1> DEFINE hops   == DF!Hops(src, dst)
           send   == SendTime(ring[dst], t, hops)
           left   == total_service[dst] - ServiceRetired(ring[dst], t, send)
           start  == send + ExtraLatency(left, hops, MinimumLatency(src, dst))
           route  == Route(src, dst)
           c      == <<dst, core>>
           slot   == next_fifo[c]
           links  == LinksAfter(route, start)
           arrive == Arrival(c, HopFinish(route, start)[Len(route)])
           after  == Retire(Retire(ring[dst], t), send)
           packet == [router |-> dst, core |-> core, slot |-> slot, arrival |-> arrive]
<1>1. /\ send \in Nat /\ after \in Rings
      /\ left = RouterService(after) /\ left \in 0 .. MaxSimTime
      /\ arrive \in Nat /\ ejection_free[c] <= arrive
      /\ links \in [Hop -> Nat]
      /\ \A h \in Hop : LinkBusy <= HopLatency(h) + RouterLatency
              => links[h] = link_free[h] \/ links[h] <= arrive
  BY TraverseFacts
<1>2. /\ pending = NoPacket /\ timestep > 0
      /\ IF left < 0
         THEN fault' = "service_underflow" /\ UNCHANGED table
         ELSE /\ ring' = [ring EXCEPT ![dst] = Retire(Retire(@, t), send)]
              /\ total_service' = [total_service EXCEPT ![dst] = left]
              /\ link_free' = links
              /\ ejection_free' = [ejection_free EXCEPT ![c] = arrive]
              /\ next_fifo' = [next_fifo EXCEPT ![c] = DF!NextFifo(slot)]
              /\ pending' = packet
              /\ UNCHANGED fault
      /\ UNCHANGED <<compute_free, neurons_left, timestep, now, hw_latency>>
  BY DEF Traverse
<1> HIDE DEF links, arrive, left, send, hops
<1>3. ~(left < 0)
  BY <1>1, HopAssumption
<1>4. /\ ring' = [ring EXCEPT ![dst] = after]
      /\ total_service' = [total_service EXCEPT ![dst] = left]
      /\ link_free' = links
      /\ ejection_free' = [ejection_free EXCEPT ![c] = arrive]
      /\ next_fifo' = [next_fifo EXCEPT ![c] = DF!NextFifo(slot)]
      /\ pending' = packet
      /\ UNCHANGED fault
      /\ UNCHANGED <<compute_free, neurons_left, timestep, now, hw_latency>>
  BY <1>2, <1>3
<1> HIDE DEF after
<1>5. c \in Core /\ slot \in 0 .. FifoNum - 1 /\ DF!NextFifo(slot) \in 0 .. FifoNum - 1
  <2>1. c \in Core
    BY DEF Core, DF!Core
  <2>2. slot \in 0 .. FifoNum - 1
    BY <2>1 DEF TableInv, TypeOK
  <2>3. FifoNum \in Nat \ {0}
    BY FlowAssumption
  <2> QED
    BY <2>1, <2>2, <2>3 DEF DF!NextFifo
<1> HIDE DEF slot
<1>6. packet \in Packet /\ packet # NoPacket /\ packet.arrival = arrive
  <2>1. packet \in Packet
    BY <1>1, <1>5 DEF Packet
  <2>2. packet # NoPacket
    <3>1. "core" \in DOMAIN packet /\ "core" \notin DOMAIN NoPacket
      BY DEF NoPacket, DF!NoPacket
    <3> QED
      BY <3>1
  <2> QED
    BY <2>1, <2>2
<1> HIDE DEF packet
<1>7. TypeOK'
  <2>1. ring' \in [Destinations -> [Fifo -> Ring]]
    BY <1>1, <1>4 DEF TableInv, TypeOK, Rings
  <2>2. total_service' \in [Destinations -> 0 .. MaxSimTime]
    BY <1>1, <1>4 DEF TableInv, TypeOK
  <2>3. next_fifo' \in [Core -> 0 .. FifoNum - 1]
    BY <1>4, <1>5 DEF TableInv, TypeOK
  <2>4. ejection_free' \in [Core -> Nat]
    BY <1>1, <1>4 DEF TableInv, TypeOK
  <2> QED
    BY <1>1, <1>4, <1>6, <2>1, <2>2, <2>3, <2>4 DEF TableInv, TypeOK
<1>8. Accounted'
  <2> SUFFICES ASSUME NEW r \in Destinations
               PROVE  total_service'[r] = RouterService(ring'[r])
    BY DEF Accounted
  <2>1. ring'[r] = IF r = dst THEN after ELSE ring[r]
    BY <1>4 DEF TableInv, TypeOK
  <2>2. total_service'[r] = IF r = dst THEN left ELSE total_service[r]
    BY <1>4 DEF TableInv, TypeOK
  <2> QED
    BY <1>1, <2>1, <2>2 DEF TableInv, Accounted
<1>9. PortsPassed'
  <2>1. ASSUME NEW d \in Core PROVE Passed(ejection_free[d])'
    <3>1. ejection_free'[d] = IF d = c THEN arrive ELSE ejection_free[d]
      BY <1>4 DEF TableInv, TypeOK
    <3>2. ejection_free[d] <= hw_latency
      BY <1>2 DEF TableInv, PortsPassed, Passed
    <3>3. arrive <= pending'.arrival /\ pending' # NoPacket
      BY <1>1, <1>4, <1>6
    <3> QED
      BY <1>4, <3>1, <3>2, <3>3 DEF Passed
  <2>2. ASSUME NEW h \in Hop, LinkBusy <= HopLatency(h) + RouterLatency
        PROVE  Passed(link_free[h])'
    <3>1. link_free'[h] = link_free[h] \/ link_free'[h] <= arrive
      BY <1>1, <1>4, <2>2
    <3>2. link_free[h] <= hw_latency
      BY <1>2, <2>2 DEF TableInv, PortsPassed, Passed
    <3>3. pending'.arrival = arrive /\ pending' # NoPacket
      BY <1>4, <1>6
    <3> QED
      BY <1>4, <3>1, <3>2, <3>3 DEF Passed
  <2> QED
    BY <2>1, <2>2 DEF PortsPassed
<1>10. BeforeFirst'
  <2>1. timestep' # 0
    BY <1>2, <1>4 DEF TableInv, TypeOK
  <2> QED
    BY <2>1 DEF BeforeFirst
<1> QED
  BY <1>4, <1>7, <1>8, <1>9, <1>10 DEF TableInv

LEMMA ReceiveTable ==
  ASSUME TableInv, NEW service \in Services, NEW sram \in SramLatencies,
         Receive(service, sram)
  PROVE  TableInv' /\ timestep' = timestep
<1> DEFINE r       == pending.router
           c       == <<r, pending.core>>
           i       == <<pending.core, pending.slot>>
           f       == ring[r][i]
           release == DF!HwStart(pending.arrival, compute_free[c]) + sram
           finish  == release + service
           e       == [release |-> release, service |-> service]
<1>1. /\ pending # NoPacket
      /\ compute_free' = [compute_free EXCEPT ![c] = finish]
      /\ fault' = RecordFault(f, total_service[r], release, service)
      /\ IF fault' = "none"
         THEN /\ ring' = [ring EXCEPT
                   ![r][i].slots[Back(f)] = [release |-> release, service |-> service],
                   ![r][i].size = @ + 1]
              /\ total_service' = [total_service EXCEPT ![r] = @ + service]
              /\ pending' = NoPacket
              /\ hw_latency' = Later(hw_latency, finish)
         ELSE UNCHANGED <<ring, total_service, pending, hw_latency>>
      /\ UNCHANGED <<next_fifo, link_free, ejection_free, neurons_left, timestep, now>>
  BY DEF Receive
<1>2. /\ r \in Destinations /\ c \in Core /\ i \in Fifo /\ pending.arrival \in Nat
  BY <1>1, PendingFields DEF TableInv, TypeOK
<1>3. /\ compute_free[c] \in Nat /\ service \in Nat /\ sram \in Nat
      /\ ring[r] \in Rings /\ f \in Ring
      /\ total_service[r] \in 0 .. MaxSimTime /\ MaxSimTime \in Nat
      /\ total_service[r] = RouterService(ring[r])
      /\ hw_latency \in Nat /\ timestep \in Nat
  BY <1>2, FlowAssumption, HopAssumption DEF TableInv, TypeOK, Rings, Accounted
<1> HIDE DEF c, f
<1>4. release \in Nat /\ pending.arrival <= release
  <2> DEFINE l == Later(pending.arrival, compute_free[c])
  <2>1. l \in Nat /\ pending.arrival <= l
    BY <1>2, <1>3, LaterOf
  <2>2. release = l + sram
    BY Zenon DEF DF!HwStart, Later
  <2> HIDE DEF l, release
  <2> QED
    BY <1>2, <1>3, <2>1, <2>2
<1> HIDE DEF release
<1>5. finish \in Nat /\ pending.arrival <= finish
  BY <1>2, <1>3, <1>4
<1>6. e \in RingEntry /\ e.service = service
  BY <1>3, <1>4 DEF RingEntry
<1>7. timestep # 0 /\ timestep' = timestep
  BY <1>1 DEF TableInv, BeforeFirst
<1>8. CASE fault' = "none"
  <2>1. ~(MaxSimTime - total_service[r] < service) /\ f.size # RingCapacity
    BY <1>1, <1>8 DEF RecordFault
  <2> DEFINE more == [ring[r] EXCEPT ![i] = With(@, e)]
  <2>2. more \in Rings /\ RouterService(more) = RouterService(ring[r]) + service
    <3>1. ring[r][i].size # RingCapacity
      BY <2>1 DEF f
    <3> HIDE DEF r, i, e
    <3> QED
      BY <1>2, <1>3, <1>6, <3>1, RecordService
  <2>3. ring' = [ring EXCEPT ![r] = more]
    <3>1. ring' = [ring EXCEPT ![r][i].slots[Back(f)] = e, ![r][i].size = @ + 1]
      BY <1>1, <1>8
    <3>2. With(f, e) = [f EXCEPT !.slots[Back(f)] = e, !.size = @ + 1]
      BY DEF With
    <3>3. ring' = [ring EXCEPT ![r] = [ring[r] EXCEPT ![i] = With(f, e)]]
      <4> HIDE DEF e
      <4> QED
        BY <1>2, <1>3, <3>1, <3>2 DEF f, Rings
    <3>4. more = [ring[r] EXCEPT ![i] = With(f, e)]
      BY DEF f
    <3> QED
      BY <3>3, <3>4
  <2>4. total_service' = [total_service EXCEPT ![r] = @ + service]
        /\ pending' = NoPacket /\ hw_latency' = Later(hw_latency, finish)
    BY <1>1, <1>8
  <2> HIDE DEF more, finish, e
  <2>5. total_service[r] + service \in 0 .. MaxSimTime
    BY <1>3, <2>1
  <2>6. hw_latency' \in Nat /\ hw_latency <= hw_latency' /\ finish <= hw_latency'
    BY <1>3, <1>5, <2>4, LaterOf
  <2>7. TypeOK'
    <3>1. ring' \in [Destinations -> [Fifo -> Ring]]
      BY <1>2, <2>2, <2>3 DEF TableInv, TypeOK, Rings
    <3>2. total_service' \in [Destinations -> 0 .. MaxSimTime]
      BY <1>2, <2>4, <2>5 DEF TableInv, TypeOK
    <3>3. compute_free' \in [Core -> Nat]
      BY <1>1, <1>2, <1>5 DEF TableInv, TypeOK
    <3> QED
      BY <1>1, <1>8, <2>4, <2>6, <3>1, <3>2, <3>3 DEF TableInv, TypeOK, Faults
  <2>8. Accounted'
    <3> SUFFICES ASSUME NEW x \in Destinations
                 PROVE  total_service'[x] = RouterService(ring'[x])
      BY DEF Accounted
    <3>1. ring'[x] = IF x = r THEN more ELSE ring[x]
      BY <2>3 DEF TableInv, TypeOK
    <3>2. total_service'[x] = IF x = r THEN total_service[r] + service ELSE total_service[x]
      BY <2>4 DEF TableInv, TypeOK
    <3> QED
      BY <1>3, <2>2, <3>1, <3>2 DEF TableInv, Accounted
  <2>9. PortsPassed'
    <3>1. ASSUME NEW time \in Nat, Passed(time)
          PROVE  time <= hw_latency'
      BY <1>2, <1>3, <1>5, <2>6, <3>1 DEF Passed
    <3>2. \A d \in Core : ejection_free[d] \in Nat /\ ejection_free'[d] = ejection_free[d]
      BY <1>1 DEF TableInv, TypeOK
    <3>3. \A h \in Hop : link_free[h] \in Nat /\ link_free'[h] = link_free[h]
      BY <1>1 DEF TableInv, TypeOK
    <3> QED
      BY <3>1, <3>2, <3>3 DEF TableInv, PortsPassed, Passed
  <2> QED
    BY <1>7, <1>8, <2>7, <2>8, <2>9 DEF TableInv, BeforeFirst
<1>9. CASE fault' # "none"
  <2>1. UNCHANGED <<ring, total_service, pending, hw_latency>>
    BY <1>1, <1>9
  <2>2. fault' \in Faults /\ fault' # "service_underflow"
    BY <1>1 DEF RecordFault, Faults
  <2>3. compute_free' \in [Core -> Nat]
    BY <1>1, <1>2, <1>5 DEF TableInv, TypeOK
  <2>4. TypeOK'
    BY <1>1, <2>1, <2>2, <2>3 DEF TableInv, TypeOK
  <2>5. Accounted' /\ PortsPassed' /\ BeforeFirst'
    BY <1>1, <2>1 DEF TableInv, Accounted, PortsPassed, Passed, BeforeFirst
  <2> QED
    BY <1>7, <2>2, <2>4, <2>5 DEF TableInv
<1> QED
  BY <1>8, <1>9


(* Every step keeps the invariant, and only the barrier starts a timestep, *)
(* when everything has passed.                                             *)
LEMMA NextTableInv ==
  ASSUME TableInv, [Next]_vars
  PROVE  TableInv' /\ (timestep' # timestep =>
             /\ \A c \in Core : ejection_free[c] <= now'
             /\ \A h \in Hop : LinkBusy <= HopLatency(h) + RouterLatency
                                   => link_free[h] <= now')
<1>1. CASE StartTimestep
  BY <1>1, StartTimestepTable
<1>2. ASSUME NEW c \in Core, NEW service \in NeuronServices, ProcessNeurons(c, service)
      PROVE  TableInv' /\ timestep' = timestep
  BY <1>2, ProcessNeuronsTable
<1>3. ASSUME TraverseAny
      PROVE  TableInv' /\ timestep' = timestep
  <2>1. PICK src \in Sources, dst \in Destinations, core \in DF!CoreOffset,
             t \in now .. now + SendSpread : Traverse(src, dst, core, t)
    BY <1>3 DEF TraverseAny
  <2>2. t \in Nat
    BY FlowAssumption DEF TableInv, TypeOK
  <2> QED
    BY <2>1, <2>2, TraverseTable
<1>4. ASSUME NEW service \in Services, NEW sram \in SramLatencies, Receive(service, sram)
      PROVE  TableInv' /\ timestep' = timestep
  BY <1>4, ReceiveTable
<1>5. ASSUME NEW service \in Services, NEW sram \in SramLatencies, NEW c \in Core,
             ReceiveDirect(c, service, sram)
      PROVE  TableInv' /\ timestep' = timestep
  BY <1>5, ReceiveDirectTable
<1>6. ASSUME UNCHANGED vars
      PROVE  TableInv' /\ timestep' = timestep
  <2>1. timestep' = timestep
    BY <1>6 DEF vars
  <2> QED
    BY <1>6, <2>1, StutterTable
<1> QED
  BY <1>1, <1>2, <1>3, <1>4, <1>5, <1>6 DEF Next

THEOREM TableInvariant == Spec => []TableInv
<1>1. TableInv /\ [Next]_vars => TableInv'
  BY NextTableInv
<1> QED
  BY <1>1, InitTableInv, PTL DEF Spec

(* Rings, sums, round robins, free times and clocks keep their types: the  *)
(* sum of services never leaves the range of SimTime.                      *)
THEOREM TypeCorrect == Spec => []TypeOK
<1>1. TableInv => TypeOK
  BY DEF TableInv
<1> QED
  BY <1>1, TableInvariant, PTL

(* The running sum of a router is the service of exactly the entries in    *)
(* its rings, and subtracting what is retired never underflows             *)
(* (router.cpp:190-193, 371).                                              *)
THEOREM SumsAreKept == Spec => []ServiceAccounting
<1>1. TableInv => ServiceAccounting
  BY TableInvImplies
<1> QED
  BY <1>1, TableInvariant, PTL

(* When a timestep starts, no ejection port and no link (of a sane busy    *)
(* time) is still taken by the traffic of the one before.                  *)
THEOREM BarrierDrainsNetwork == Spec => NetworkDrained
<1>1. TableInv /\ [Next]_vars =>
        [timestep' # timestep =>
            /\ \A c \in Core : ejection_free[c] <= now'
            /\ \A h \in Hop : LinkBusy <= HopLatency(h) + RouterLatency
                                  => link_free[h] <= now']_vars
  BY NextTableInv
<1> QED
  BY <1>1, TableInvariant, PTL DEF Spec, NetworkDrained


(***************************************************************************)
(* Every step is a step of the queues, unless the service overflows.       *)
(***************************************************************************)
LEMMA QueuesAre ==
  ASSUME ring \in [Destinations -> Rings]
  PROVE  Queues = [r \in Destinations |-> QueuesOf(ring[r])]
<1>1. ASSUME NEW r \in Destinations
      PROVE  [q \in DOMAIN ring[r] |-> QueueOf(ring[r][q])] = QueuesOf(ring[r])
  BY DEF QueuesOf, Rings
<1> QED
  BY <1>1 DEF Queues

LEMMA QueuesAfter ==
  ASSUME ring' \in [Destinations -> Rings]
  PROVE  Queues' = [r \in Destinations |-> QueuesOf(ring'[r])]
<1>1. ASSUME NEW r \in Destinations
      PROVE  [q \in DOMAIN ring'[r] |-> QueueOf(ring'[r][q])] = QueuesOf(ring'[r])
  BY DEF QueuesOf, Rings
<1> QED
  BY <1>1 DEF Queues

LEMMA InitMaps == Init => Q!Init
<1> SUFFICES ASSUME Init PROVE Q!Init
  OBVIOUS
<1>1. TableInv
  BY InitTableInv
<1>2. Queues = [r \in Destinations |-> QueuesOf(ring[r])]
  BY <1>1, QueuesAre DEF TableInv, TypeOK, Rings
<1>3. ASSUME NEW r \in Destinations
      PROVE  QueuesOf(ring[r]) = [q \in Fifo |-> <<>>]
  <2>1. ASSUME NEW q \in Fifo
        PROVE  QueueOf(ring[r][q]) = <<>>
    <3>1. ring[r][q] \in Ring
      BY <1>1 DEF TableInv, TypeOK
    <3>2. ring[r][q].size = 0
      BY DEF Init, EmptyRing
    <3> QED
      BY <3>1, <3>2, QueueFacts
  <2> QED
    BY <2>1 DEF QueuesOf
<1>4. Queues = [r \in Destinations |-> [q \in Fifo |-> <<>>]]
  BY <1>2, <1>3
<1> QED
  BY <1>4, SameConstants DEF Init, Q!Init

LEMMA StartTimestepMaps ==
  ASSUME StartTimestep
  PROVE  Q!StartTimestep
BY Zenon DEF StartTimestep, DF!StartTimestep, Q!StartTimestep, DF!Barrier, Q!Barrier,
   DF!Later, Q!Later, DF!Core, Q!Core, DF!CoreOffset, Q!CoreOffset,
   DF!NoPacket, Q!NoPacket

LEMMA ProcessNeuronsMaps ==
  ASSUME NEW c, NEW service, ProcessNeurons(c, service)
  PROVE  Q!ProcessNeurons(c, service)
BY Zenon DEF ProcessNeurons, DF!ProcessNeurons, Q!ProcessNeurons, DF!HwStart,
   Q!HwStart, DF!Later, Q!Later

LEMMA ReceiveDirectMaps ==
  ASSUME NEW c, NEW service, NEW sram, ReceiveDirect(c, service, sram)
  PROVE  Q!ReceiveDirect(c, service, sram)
BY Zenon DEF ReceiveDirect, DF!ReceiveDirect, Q!ReceiveDirect, DF!HwStart,
   Q!HwStart, DF!Later, Q!Later, DF!NoPacket, Q!NoPacket

LEMMA StutterMaps ==
  ASSUME UNCHANGED vars
  PROVE  UNCHANGED Q!vars
<1>1. Queues' = Queues
  BY DEF vars, table, Queues
<1> QED
  BY <1>1 DEF vars, table, Q!vars


LEMMA TraverseMaps ==
  ASSUME TableInv, NEW src \in Sources, NEW dst \in Destinations,
         NEW core \in DF!CoreOffset, NEW t \in Nat, Traverse(src, dst, core, t)
  PROVE  \E delay \in Nat : Q!Traverse(src, dst, core, t, delay)
<1> DEFINE hops   == DF!Hops(src, dst)
           rings  == ring[dst]
           send   == SendTime(rings, t, hops)
           left   == total_service[dst] - ServiceRetired(rings, t, send)
           start  == send + ExtraLatency(left, hops, MinimumLatency(src, dst))
           route  == Route(src, dst)
           c      == <<dst, core>>
           slot   == next_fifo[c]
           links  == LinksAfter(route, start)
           arrive == Arrival(c, HopFinish(route, start)[Len(route)])
           after  == Retire(Retire(rings, t), send)
           delay  == arrive - send
           due     == Q!Retire(Queues[dst], t)
           blocked == Q!Occupancy(due) > Q!Capacity(Q!Hops(src, dst))
           wait    == IF blocked THEN Q!Later(t, Q!EarliestRelease(due)) ELSE t
           kept    == IF blocked THEN Q!Retire(due, wait) ELSE due
<1>1. /\ send \in Nat /\ after \in Rings /\ left \in 0 .. MaxSimTime
      /\ arrive \in Nat /\ send <= arrive
  BY TraverseFacts
<1>2. ~(left < 0)
  <2> HIDE DEF left
  <2> QED
    BY <1>1, HopAssumption
<1>3. /\ fault = "none" /\ pending = NoPacket /\ timestep > 0 /\ neurons_left = {}
      /\ hw_latency <= now + MaxBacklog
      /\ IF left < 0
         THEN fault' = "service_underflow" /\ UNCHANGED table
         ELSE /\ ring' = [ring EXCEPT ![dst] = Retire(Retire(@, t), send)]
              /\ next_fifo' = [next_fifo EXCEPT ![c] = DF!NextFifo(slot)]
              /\ pending' = [router |-> dst, core |-> core, slot |-> slot,
                             arrival |-> arrive]
              /\ UNCHANGED fault
      /\ UNCHANGED <<compute_free, neurons_left, timestep, now, hw_latency>>
  BY DEF Traverse
<1> HIDE DEF arrive, left
<1>4. /\ ring' = [ring EXCEPT ![dst] = after]
      /\ next_fifo' = [next_fifo EXCEPT ![c] = DF!NextFifo(slot)]
      /\ pending' = [router |-> dst, core |-> core, slot |-> slot, arrival |-> arrive]
      /\ UNCHANGED fault
  BY <1>2, <1>3
(* The wait and what is left are those of the queues.                      *)
<1>5. rings \in Rings /\ ring \in [Destinations -> Rings]
  BY DEF TableInv, TypeOK, Rings
<1>6. Queues = [r \in Destinations |-> QueuesOf(ring[r])] /\ Queues[dst] = QueuesOf(rings)
  BY <1>5, QueuesAre
<1>7. Q!Hops(src, dst) = hops
  BY Zenon DEF Q!Hops, DF!Hops, Q!Distance, DF!Distance
<1>8. Capacity(hops) \in Nat
  <2>1. src \in Q!Router /\ dst \in Q!Router
    BY FlowAssumption, SameConstants
  <2>2. Q!Capacity(Q!Hops(src, dst)) \in Nat
    BY <2>1, QueueAssumptions, Q!CapacityFacts
  <2> QED
    BY <1>7, <2>2, SameConstants
<1> HIDE DEF hops, rings
<1>9. send = wait /\ QueuesOf(after) = kept
  <2>1. LET d == Q!Retire(QueuesOf(rings), t)
            b == Q!Occupancy(d) > Q!Capacity(hops)
            s == IF b THEN Q!Later(t, Q!EarliestRelease(d)) ELSE t
        IN  /\ SendTime(rings, t, hops) = s
            /\ QueuesOf(Retire(Retire(rings, t), s)) = IF b THEN Q!Retire(d, s) ELSE d
    BY <1>5, <1>8, SameSend
  <2>2. due = Q!Retire(QueuesOf(rings), t)
    BY <1>6
  <2> HIDE DEF due
  <2> QED
    BY <1>7, <2>1, <2>2
<1> HIDE DEF send, after, wait, kept
<1>10. Queues' = [Queues EXCEPT ![dst] = kept]
  <2>1. ring' \in [Destinations -> Rings]
    BY <1>1, <1>4, <1>5
  <2>2. Queues' = [r \in Destinations |-> QueuesOf(ring'[r])]
    BY <2>1, QueuesAfter
  <2>3. ASSUME NEW r \in Destinations
        PROVE  QueuesOf(ring'[r]) = IF r = dst THEN kept ELSE QueuesOf(ring[r])
    <3>1. ring'[r] = IF r = dst THEN after ELSE ring[r]
      BY <1>4, <1>5
    <3> QED
      BY <1>9, <3>1
  <2> QED
    BY <1>6, <2>2, <2>3
<1>11. delay \in Nat /\ arrive = send + delay
  BY <1>1
<1> HIDE DEF delay
<1>12. Q!NextFifo(slot) = DF!NextFifo(slot) /\ Q!NoPacket = NoPacket
  BY SameConstants DEF Q!NextFifo, DF!NextFifo
<1>13. pending' = [router |-> dst, core |-> core, slot |-> slot, arrival |-> wait + delay]
  BY <1>4, <1>9, <1>11
<1>14. Q!Traverse(src, dst, core, t, delay)
  <2>1. /\ Queues' = [Queues EXCEPT ![dst] =
                         IF blocked THEN Q!Retire(due, wait) ELSE due]
        /\ next_fifo' = [next_fifo EXCEPT ![<<dst, core>>] = Q!NextFifo(next_fifo[<<dst, core>>])]
        /\ pending' = [router |-> dst, core |-> core, slot |-> next_fifo[<<dst, core>>],
                       arrival |-> wait + delay]
    BY <1>4, <1>10, <1>12, <1>13 DEF kept
  <2>2. /\ fault = "none" /\ pending = Q!NoPacket /\ timestep > 0 /\ neurons_left = {}
        /\ hw_latency <= now + MaxBacklog
        /\ UNCHANGED <<compute_free, neurons_left, timestep, now, hw_latency, fault>>
    BY <1>3, <1>4, <1>12
  <2> QED
    BY Zenon, <2>1, <2>2 DEF Q!Traverse, wait
<1> QED
  BY <1>11, <1>14


LEMMA ReceiveMaps ==
  ASSUME TableInv, TableInv', NEW service \in Services, NEW sram \in SramLatencies,
         Receive(service, sram), fault' # "service_overflow"
  PROVE  Q!Receive(service, sram)
<1> DEFINE r       == pending.router
           c       == <<r, pending.core>>
           i       == <<pending.core, pending.slot>>
           f       == ring[r][i]
           q       == Queues[r][i]
           release == DF!HwStart(pending.arrival, compute_free[c]) + sram
           finish  == release + service
           e       == [release |-> release, service |-> service]
           early   == q # <<>> /\ release < q[Len(q)].release
<1>1. /\ fault = "none" /\ pending # NoPacket
      /\ compute_free' = [compute_free EXCEPT ![c] = finish]
      /\ fault' = RecordFault(f, total_service[r], release, service)
      /\ IF fault' = "none"
         THEN /\ ring' = [ring EXCEPT
                   ![r][i].slots[Back(f)] = [release |-> release, service |-> service],
                   ![r][i].size = @ + 1]
              /\ total_service' = [total_service EXCEPT ![r] = @ + service]
              /\ pending' = NoPacket
              /\ hw_latency' = Later(hw_latency, finish)
         ELSE UNCHANGED <<ring, total_service, pending, hw_latency>>
      /\ UNCHANGED <<next_fifo, link_free, ejection_free, neurons_left, timestep, now>>
  BY DEF Receive
<1>2. /\ r \in Destinations /\ c \in Core /\ i \in Fifo /\ pending.arrival \in Nat
  BY <1>1, PendingFields DEF TableInv, TypeOK
<1>3. /\ compute_free[c] \in Nat /\ service \in Nat /\ sram \in Nat
      /\ ring \in [Destinations -> Rings] /\ ring[r] \in Rings /\ f \in Ring
      /\ ring' \in [Destinations -> Rings]
  BY <1>2, FlowAssumption DEF TableInv, TypeOK, Rings
<1> HIDE DEF c
<1>4. release \in Nat
  <2> DEFINE l == Later(pending.arrival, compute_free[c])
  <2>1. l \in Nat
    BY <1>2, <1>3, LaterOf
  <2>2. release = l + sram
    BY Zenon DEF DF!HwStart, Later
  <2> HIDE DEF l, release
  <2> QED
    BY <1>3, <2>1, <2>2
<1>5. release = Q!HwStart(pending.arrival, compute_free[c]) + sram
  BY Zenon DEF DF!HwStart, Q!HwStart, DF!Later, Q!Later
<1> HIDE DEF release
<1>6. Queues = [x \in Destinations |-> QueuesOf(ring[x])] /\ q = QueueOf(f)
  <2>1. Queues = [x \in Destinations |-> QueuesOf(ring[x])]
    BY <1>3, QueuesAre
  <2> QED
    BY <1>2, <2>1 DEF QueuesOf
<1>7. /\ Len(q) = f.size /\ f.size \in Nat /\ (q = <<>> <=> f.size = 0)
      /\ \A k \in 1 .. f.size : q[k].release = At(f, k - 1).release
  <2> HIDE DEF q, f
  <2> QED
    BY <1>3, <1>6, QueueFacts, RingParts
<1> HIDE DEF q, f
<1>8. early <=> f.size # 0 /\ release < At(f, f.size - 1).release
  <2>1. ASSUME f.size # 0 PROVE q[Len(q)].release = At(f, f.size - 1).release
    <3>1. f.size \in 1 .. f.size
      BY <1>7, <2>1
    <3> QED
      BY <1>7, <3>1
  <2> QED
    BY <1>7, <2>1
<1>9. fault' = IF early THEN "release_order"
               ELSE IF Len(q) = RingCapacity THEN "ring_overflow" ELSE "none"
  <2>1. fault' = IF early THEN "release_order"
                 ELSE IF MaxSimTime - total_service[r] < service THEN "service_overflow"
                 ELSE IF f.size = RingCapacity THEN "ring_overflow" ELSE "none"
    BY <1>1, <1>8 DEF RecordFault
  <2> HIDE DEF early
  <2> QED
    BY <1>7, <2>1
<1>10. /\ Q!NoPacket = NoPacket /\ Q!RingCapacity = RingCapacity
       /\ Q!Later(hw_latency, finish) = Later(hw_latency, finish)
  BY SameConstants DEF Q!Later, Later, DF!Later
<1>11. CASE fault' # "none"
  <2>1. UNCHANGED <<ring, pending, hw_latency>>
    BY <1>1, <1>11
  <2>2. Queues' = Queues
    BY <2>1 DEF Queues
  <2>3. UNCHANGED <<next_fifo, neurons_left, timestep, now>>
    BY <1>1
  <2>4. \/ /\ early /\ fault' = "release_order"
        \/ /\ ~early /\ Len(q) = Q!RingCapacity /\ fault' = "ring_overflow"
    BY <1>9, <1>10, <1>11
  <2>5. UNCHANGED <<Queues, pending, hw_latency>>
    BY <2>1, <2>2
  <2>6. fault = "none" /\ pending # Q!NoPacket
        /\ compute_free' = [compute_free EXCEPT ![c] = finish]
    BY <1>1, <1>10
  <2> QED
    BY Zenon, <1>5, <2>3, <2>4, <2>5, <2>6 DEF Q!Receive, q, c
<1>12. CASE fault' = "none"
  <2>1. ~early /\ Len(q) # RingCapacity /\ f.size # RingCapacity
    BY <1>7, <1>9, <1>12
  <2> DEFINE more == [ring[r] EXCEPT ![i] = With(@, e)]
  <2>2. QueuesOf(more) = [QueuesOf(ring[r]) EXCEPT ![i] = Append(q, [release |-> release])]
    <3>1. e \in RingEntry /\ e.release = release
      BY <1>3, <1>4 DEF RingEntry
    <3> HIDE DEF e
    <3>2. QueueOf(With(f, e)) = Append(q, [release |-> release])
      BY <1>3, <1>6, <2>1, <3>1, QueueOfWith
    <3>3. \A y \in Fifo : more[y] = IF y = i THEN With(f, e) ELSE ring[r][y]
      BY <1>2, <1>3 DEF f, Rings
    <3> HIDE DEF more, r, i
    <3> QED
      BY <3>2, <3>3 DEF QueuesOf
  <2>3. ring' = [ring EXCEPT ![r] = more]
    <3>1. ring' = [ring EXCEPT ![r][i].slots[Back(f)] = e, ![r][i].size = @ + 1]
      BY <1>1, <1>12
    <3>2. With(f, e) = [f EXCEPT !.slots[Back(f)] = e, !.size = @ + 1]
      BY DEF With
    <3>3. ring' = [ring EXCEPT ![r] = [ring[r] EXCEPT ![i] = With(f, e)]]
      <4> HIDE DEF e
      <4> QED
        BY <1>2, <1>3, <3>1, <3>2 DEF f, Rings
    <3>4. more = [ring[r] EXCEPT ![i] = With(f, e)]
      BY DEF f
    <3> QED
      BY <3>3, <3>4
  <2> HIDE DEF more, e
  <2>4. Queues' = [Queues EXCEPT ![r][i] = Append(q, [release |-> release])]
    <3>1. Queues' = [x \in Destinations |-> QueuesOf(ring'[x])]
      BY <1>3, QueuesAfter
    <3>2. \A x \in Destinations : ring'[x] = IF x = r THEN more ELSE ring[x]
      BY <1>3, <2>3
    <3>3. Queues[r] = QueuesOf(ring[r]) /\ Queues[r][i] = q
      BY <1>2, <1>6 DEF q
    <3>4. QueuesOf(more) = [Queues[r] EXCEPT ![i] = Append(q, [release |-> release])]
      BY <2>2, <3>3
    <3> HIDE DEF r, i
    <3>5. Queues' = [Queues EXCEPT ![r] = [Queues[r] EXCEPT ![i] = Append(q, [release |-> release])]]
      BY <1>2, <1>6, <3>1, <3>2, <3>4
    <3> QED
      BY <3>5
  <2>5. pending' = NoPacket /\ hw_latency' = Later(hw_latency, finish) /\ UNCHANGED fault
    BY <1>1, <1>12
  <2>6. UNCHANGED <<next_fifo, neurons_left, timestep, now>>
    BY <1>1
  <2>7. /\ fault = "none" /\ pending # Q!NoPacket /\ pending' = Q!NoPacket
        /\ hw_latency' = Q!Later(hw_latency, finish)
        /\ Len(q) # Q!RingCapacity
        /\ compute_free' = [compute_free EXCEPT ![c] = finish]
    BY <1>1, <1>10, <2>1, <2>5
  <2> QED
    BY Zenon, <1>5, <2>1, <2>4, <2>5, <2>6, <2>7 DEF Q!Receive, q, c
<1> QED
  BY <1>11, <1>12


LEMMA NextMaps ==
  ASSUME TableInv, TableInv', [Next]_vars, fault' # "service_overflow"
  PROVE  [Q!Next]_(Q!vars)
<1>1. CASE StartTimestep
  BY <1>1, StartTimestepMaps DEF Q!Next
<1>2. ASSUME NEW c \in Core, NEW service \in NeuronServices, ProcessNeurons(c, service)
      PROVE  Q!Next
  <2>1. c \in Q!Core /\ Q!ProcessNeurons(c, service)
    BY <1>2, SameConstants, ProcessNeuronsMaps
  <2> QED
    BY <2>1 DEF Q!Next
<1>3. CASE TraverseAny
  <2>1. PICK src \in Sources, dst \in Destinations, core \in DF!CoreOffset,
             t \in now .. now + SendSpread : Traverse(src, dst, core, t)
    BY <1>3 DEF TraverseAny
  <2>2. t \in Nat /\ core \in Q!CoreOffset
    BY FlowAssumption, SameConstants DEF TableInv, TypeOK
  <2>3. \E delay \in Nat : Q!Traverse(src, dst, core, t, delay)
    BY <2>1, <2>2, TraverseMaps
  <2>4. Q!TraverseAny
    BY <2>1, <2>2, <2>3 DEF Q!TraverseAny
  <2> QED
    BY <2>4 DEF Q!Next
<1>4. ASSUME NEW service \in Services, NEW sram \in SramLatencies, Receive(service, sram)
      PROVE  Q!Next
  <2>1. Q!Receive(service, sram)
    BY <1>4, ReceiveMaps
  <2> QED
    BY <2>1 DEF Q!Next
<1>5. ASSUME NEW service \in Services, NEW sram \in SramLatencies, NEW c \in Core,
             ReceiveDirect(c, service, sram)
      PROVE  Q!Next
  <2>1. c \in Q!Core /\ Q!ReceiveDirect(c, service, sram)
    BY <1>5, SameConstants, ReceiveDirectMaps
  <2> QED
    BY <2>1 DEF Q!Next
<1>6. CASE UNCHANGED vars
  BY <1>6, StutterMaps
<1> QED
  BY <1>1, <1>2, <1>3, <1>4, <1>5, <1>6 DEF Next

(* Nothing happens after an exception.                                     *)
LEMMA FaultStays ==
  ASSUME [Next]_vars, fault # "none"
  PROVE  fault' = fault
<1>1. ~StartTimestep
  BY DEF StartTimestep, DF!StartTimestep
<1>2. \A c, service : ~ProcessNeurons(c, service)
  BY DEF ProcessNeurons, DF!ProcessNeurons
<1>3. ~TraverseAny
  <2>1. ASSUME NEW src, NEW dst, NEW core, NEW t, Traverse(src, dst, core, t)
        PROVE  FALSE
    BY <2>1 DEF Traverse
  <2> QED
    BY <2>1 DEF TraverseAny
<1>4. \A service, sram : ~Receive(service, sram)
  BY DEF Receive
<1>5. \A c, service, sram : ~ReceiveDirect(c, service, sram)
  BY DEF ReceiveDirect, DF!ReceiveDirect
<1> QED
  BY <1>1, <1>2, <1>3, <1>4, <1>5 DEF Next, vars

(* What is proved of the queues holds of the rings: of the four exceptions *)
(* of the table only that of the service sum can be thrown; a ring never   *)
(* overflows and its releases are in order, for the times in the network   *)
(* that the hops really produce (router.cpp:354-371).                      *)
THEOREM OnlyServiceOverflow == Spec => [](fault \in {"none", "service_overflow"})
<1> DEFINE QueueInv == TableInv /\ (fault # "service_overflow" => Q!IInv)
<1>1. Init => QueueInv
  BY InitTableInv, InitMaps, QueueAssumptions, Q!InitIInv
<1>2. ASSUME QueueInv, [Next]_vars PROVE QueueInv'
  <2>1. TableInv'
    BY <1>2, NextTableInv
  <2>2. ASSUME fault' # "service_overflow" PROVE Q!IInv'
    <3>1. fault # "service_overflow"
      BY <1>2, <2>2, FaultStays
    <3>2. [Q!Next]_(Q!vars)
      BY <1>2, <2>1, <2>2, NextMaps
    <3> QED
      BY <1>2, <3>1, <3>2, QueueAssumptions, Q!NextIInv
  <2> QED
    BY <2>1, <2>2
<1>3. QueueInv => fault \in {"none", "service_overflow"}
  BY DEF Q!IInv, Q!NoFault
<1> HIDE DEF QueueInv
<1> QED
  BY <1>1, <1>2, <1>3, PTL DEF Spec

(* The abstract queues in both instances: every time in the network.       *)
LEMMA SameRetire ==
  /\ \A flow, t : Q!Retire(flow, t) = DF!Retire(flow, t)
  /\ \A flow : Q!Occupancy(flow) = DF!Occupancy(flow)
  /\ \A flow : Q!EarliestRelease(flow) = DF!EarliestRelease(flow)
  /\ \A hops : Q!Capacity(hops) = DF!Capacity(hops)
  /\ \A src, dst : Q!Hops(src, dst) = DF!Hops(src, dst)
  /\ \A a, b : Q!Later(a, b) = DF!Later(a, b) /\ Q!HwStart(a, b) = DF!HwStart(a, b)
  /\ \A slot : Q!NextFifo(slot) = DF!NextFifo(slot)
  /\ Q!Fifo = DF!Fifo /\ Q!Core = DF!Core /\ Q!CoreOffset = DF!CoreOffset
  /\ Q!NoPacket = DF!NoPacket /\ Q!RingCapacity = DF!RingCapacity
  /\ Q!Barrier = DF!Barrier
<1>1. \A S : Q!Min(S) = DF!Min(S)
  BY Zenon DEF Q!Min, DF!Min
<1>2. Q!Fifo = DF!Fifo /\ Q!Core = DF!Core /\ Q!CoreOffset = DF!CoreOffset
  BY Zenon DEF Q!Fifo, DF!Fifo, Q!Core, DF!Core, Q!CoreOffset, DF!CoreOffset
<1>3. \A q, t : Q!Live(q, t) = DF!Live(q, t)
  BY Zenon, <1>1 DEF Q!Live, DF!Live, Q!FirstLive, DF!FirstLive
<1>4. \A flow, t : Q!Retire(flow, t) = DF!Retire(flow, t)
  BY Zenon, <1>2, <1>3 DEF Q!Retire, DF!Retire
<1>5. \A flow : Q!Occupancy(flow) = DF!Occupancy(flow)
  BY Zenon DEF Q!Occupancy, DF!Occupancy, Q!Occupied, DF!Occupied, Q!Fifo, DF!Fifo,
     Q!CoreOffset, DF!CoreOffset, Q!Cardinality, DF!Cardinality
<1>6. \A flow : Q!EarliestRelease(flow) = DF!EarliestRelease(flow)
  BY Zenon, <1>1 DEF Q!EarliestRelease, DF!EarliestRelease, Q!Fifo, DF!Fifo,
     Q!CoreOffset, DF!CoreOffset
<1>7. /\ \A hops : Q!Capacity(hops) = DF!Capacity(hops)
      /\ \A src, dst : Q!Hops(src, dst) = DF!Hops(src, dst)
      /\ \A a, b : Q!Later(a, b) = DF!Later(a, b) /\ Q!HwStart(a, b) = DF!HwStart(a, b)
      /\ \A slot : Q!NextFifo(slot) = DF!NextFifo(slot)
      /\ Q!NoPacket = DF!NoPacket /\ Q!RingCapacity = DF!RingCapacity
      /\ Q!Barrier = DF!Barrier
  BY Zenon DEF Q!Capacity, DF!Capacity, Q!Hops, DF!Hops, Q!Distance, DF!Distance,
     Q!Later, DF!Later, Q!HwStart, DF!HwStart, Q!NextFifo, DF!NextFifo,
     Q!NoPacket, DF!NoPacket, Q!RingCapacity, DF!RingCapacity, Q!MaxHops, DF!MaxHops,
     Q!Barrier, DF!Barrier
<1> QED
  BY <1>2, <1>4, <1>5, <1>6, <1>7

LEMMA SameNext ==
  ASSUME Delays = Nat
  PROVE  /\ Q!Init => DF!Init
         /\ [Q!Next]_(Q!vars) => [DF!Next]_(DF!vars)
<1>1. Q!Init => DF!Init
  BY SameRetire DEF Q!Init, DF!Init
<1>2. Q!StartTimestep => DF!StartTimestep
  BY SameRetire DEF Q!StartTimestep, DF!StartTimestep, Q!Barrier, DF!Barrier
<1>3. ASSUME NEW c \in Q!Core, NEW service \in NeuronServices, Q!ProcessNeurons(c, service)
      PROVE  DF!Next
  <2>1. c \in DF!Core /\ DF!ProcessNeurons(c, service)
    BY <1>3, SameRetire DEF Q!ProcessNeurons, DF!ProcessNeurons
  <2> QED
    BY <2>1 DEF DF!Next
<1>4. ASSUME Q!TraverseAny PROVE DF!Next
  <2>1. PICK src \in Sources, dst \in Destinations, core \in DF!CoreOffset,
             t \in now .. now + SendSpread, delay \in Delays :
                Q!Traverse(src, dst, core, t, delay)
    BY <1>4, SameRetire DEF Q!TraverseAny
  <2>2. DF!Traverse(src, dst, core, t, delay)
    BY <2>1, SameRetire DEF Q!Traverse, DF!Traverse
  <2>3. DF!TraverseAny
    BY <2>1, <2>2 DEF DF!TraverseAny
  <2> QED
    BY <2>3 DEF DF!Next
<1>5. ASSUME NEW service \in Services, NEW sram \in SramLatencies, Q!Receive(service, sram)
      PROVE  DF!Next
  <2>1. DF!Receive(service, sram)
    BY Zenon, <1>5, SameRetire DEF Q!Receive, DF!Receive
  <2> QED
    BY <2>1 DEF DF!Next
<1>6. ASSUME NEW service \in Services, NEW sram \in SramLatencies, NEW c \in Q!Core,
             Q!ReceiveDirect(c, service, sram)
      PROVE  DF!Next
  <2>1. c \in DF!Core /\ DF!ReceiveDirect(c, service, sram)
    BY <1>6, SameRetire DEF Q!ReceiveDirect, DF!ReceiveDirect
  <2> QED
    BY <2>1 DEF DF!Next
<1>7. Q!vars = DF!vars /\ (Q!vars)' = (DF!vars)'
  BY DEF Q!vars, DF!vars
<1>8. Q!Next => DF!Next
  BY <1>2, <1>3, <1>4, <1>5, <1>6 DEF Q!Next, DF!Next
<1> QED
  BY <1>1, <1>7, <1>8

(* The rings with their index arithmetic, sums and hop times implement the *)
(* queues of DestinationFlow, as long as the sum of services fits SimTime. *)
THEOREM ImplementsQueues ==
  ASSUME Delays = Nat
  PROVE  Spec /\ [](fault # "service_overflow") => Implements
<1>1. Init => DF!Init
  BY InitMaps, SameNext
<1> DEFINE Fits == fault # "service_overflow"
<1>2. TableInv /\ TableInv' /\ Fits' /\ [Next]_vars => [DF!Next]_(DF!vars)
  BY NextMaps, SameNext
<1>3. Spec /\ []Fits => DF!Spec
  <2> HIDE DEF Fits
  <2> QED
    BY <1>1, <1>2, TableInvariant, PTL DEF Spec, DF!Spec
<1> QED
  BY <1>3 DEF Implements

(***************************************************************************)
(* The sum of services fits SimTime when SimTime holds a full ring of the  *)
(* longest services: no more entries than that are ever in a router.       *)
(***************************************************************************)
UpTo(f, longest) == \A k \in 0 .. f.size - 1 : At(f, k).service <= longest
AllUpTo(rings, longest) == \A q \in Fifo : UpTo(rings[q], longest)

LEMMA UpToDrop ==
  ASSUME NEW f \in Ring, NEW n \in 0 .. f.size, NEW longest, UpTo(f, longest)
  PROVE  UpTo(Drop(f, n), longest)
<1>1. /\ f.size \in Nat
      /\ Drop(f, n).size = f.size - n
      /\ \A k \in 0 .. f.size - n : At(Drop(f, n), k) = At(f, k + n)
  BY RingParts, DropShifts
<1> SUFFICES ASSUME NEW k \in 0 .. Drop(f, n).size - 1
             PROVE  At(Drop(f, n), k).service <= longest
  BY DEF UpTo
<1>2. k \in 0 .. f.size - n /\ k + n \in 0 .. f.size - 1
  BY <1>1
<1> QED
  BY <1>1, <1>2 DEF UpTo

LEMMA UpToWith ==
  ASSUME NEW f \in Ring, f.size # RingCapacity, NEW e \in RingEntry,
         NEW longest, UpTo(f, longest), e.service <= longest
  PROVE  UpTo(With(f, e), longest)
<1>1. /\ f.size \in Nat /\ With(f, e).size = f.size + 1
      /\ \A k \in 0 .. f.size - 1 : At(With(f, e), k) = At(f, k)
      /\ At(With(f, e), f.size) = e
  BY RingParts, WithAppends
<1> SUFFICES ASSUME NEW k \in 0 .. With(f, e).size - 1
             PROVE  At(With(f, e), k).service <= longest
  BY DEF UpTo
<1>2. k = f.size \/ k \in 0 .. f.size - 1
  BY <1>1
<1> QED
  BY <1>1, <1>2 DEF UpTo

LEMMA UpToRetire ==
  ASSUME NEW rings \in Rings, NEW t \in Nat, NEW longest, AllUpTo(rings, longest)
  PROVE  AllUpTo(Retire(rings, t), longest)
<1> SUFFICES ASSUME NEW q \in Fifo PROVE UpTo(Retire(rings, t)[q], longest)
  BY DEF AllUpTo
<1>1. rings[q] \in Ring /\ UpTo(rings[q], longest)
  BY DEF Rings, AllUpTo
<1>2. Due(rings[q], t) \in 0 .. rings[q].size
  BY <1>1, DueFacts
<1>3. UpTo(Drop(rings[q], Due(rings[q], t)), longest)
  BY <1>1, <1>2, UpToDrop
<1> QED
  BY <1>3 DEF Retire

LEMMA ServiceUpTo ==
  ASSUME NEW f \in Ring, NEW longest \in Nat, UpTo(f, longest)
  PROVE  ServiceOf(f, f.size) <= f.size * longest
<1> DEFINE s == f.size
           S == 0 .. s - 1
           v == [k \in S |-> At(f, k).service]
<1>1. s \in Nat /\ s \in 0 .. s
  BY RingParts
<1>2. ServiceOf(f, s) = SumFunctionOnSet(v, S) /\ \A k \in S : v[k] \in Nat
  BY <1>1, ServiceIsSum
<1>3. \A k \in S : v[k] <= longest
  BY DEF UpTo
<1>4. IsFiniteSet(S) /\ Cardinality(S) = s
  <2> HIDE DEF s
  <2>1. 0 \in Int /\ s - 1 \in Int /\ (s - 1) - 0 + 1 = s /\ (0 > s - 1 <=> s = 0)
    BY <1>1
  <2> QED
    BY <1>1, <2>1, FS_Interval
<1>5. SumFunctionOnSet(v, S) <= Cardinality(S) * longest
  <2> HIDE DEF v, S
  <2> QED
    BY <1>2, <1>3, <1>4, SumAtMost
<1> HIDE DEF v, S, s
<1>6. ServiceOf(f, s) <= s * longest
  BY <1>2, <1>4, <1>5
<1> QED
  BY <1>6 DEF s

LEMMA RouterServiceUpTo ==
  ASSUME NEW rings \in Rings, NEW longest \in Nat, AllUpTo(rings, longest)
  PROVE  RouterService(rings) <= Occupancy(rings) * longest
<1> DEFINE v == [q \in Fifo |-> ServiceOf(rings[q], rings[q].size)]
           size == [q \in Fifo |-> rings[q].size]
<1>1. RouterService(rings) = SumFunctionOnSet(v, Fifo) /\ \A q \in Fifo : v[q] \in Nat
  BY RouterServiceIsSum
<1>2. Occupancy(rings) = SumFunctionOnSet(size, Fifo)
  BY Zenon DEF Occupancy, SumFunctionOnSet, FoldFunctionOnSet, MapThenFoldSet,
               MapThenSumSet
<1>3. \A q \in Fifo : size[q] \in Nat /\ v[q] <= size[q] * longest
  <2> TAKE q \in Fifo
  <2>1. rings[q] \in Ring /\ UpTo(rings[q], longest)
    BY DEF Rings, AllUpTo
  <2>2. rings[q].size \in Nat
    BY <2>1, RingParts
  <2>3. ServiceOf(rings[q], rings[q].size) <= rings[q].size * longest
    BY <2>1, ServiceUpTo
  <2> QED
    BY <2>2, <2>3
<1>4. SumFunctionOnSet(v, Fifo) <= SumFunctionOnSet(size, Fifo) * longest
  <2> HIDE DEF v, size
  <2> QED
    BY <1>1, <1>3, FifoFinite, SumScaled
<1> HIDE DEF v, size
<1> QED
  BY <1>1, <1>2, <1>4

RingsUpTo(longest) == \A r \in Destinations : AllUpTo(ring[r], longest)

LEMMA TraverseUpTo ==
  ASSUME TableInv, NEW src \in Sources, NEW dst \in Destinations,
         NEW core \in DF!CoreOffset, NEW t \in Nat, Traverse(src, dst, core, t),
         NEW longest, RingsUpTo(longest)
  PROVE  RingsUpTo(longest)' /\ fault' # "service_overflow"
<1> DEFINE send == SendTime(ring[dst], t, DF!Hops(src, dst))
           left == total_service[dst] - ServiceRetired(ring[dst], t, send)
           after == Retire(Retire(ring[dst], t), send)
<1>1. send \in Nat
  BY TraverseFacts
<1>2. /\ fault = "none"
      /\ \/ fault' = "service_underflow" /\ UNCHANGED ring
         \/ fault' = fault /\ ring' = [ring EXCEPT ![dst] = after]
  <2>1. /\ fault = "none"
        /\ IF left < 0 THEN fault' = "service_underflow" /\ UNCHANGED table
           ELSE ring' = [ring EXCEPT ![dst] = Retire(Retire(@, t), send)]
                /\ UNCHANGED fault
    BY DEF Traverse
  <2> QED
    BY <2>1 DEF table
<1>3. AllUpTo(after, longest)
  <2>1. ring[dst] \in Rings /\ AllUpTo(ring[dst], longest)
    BY DEF TableInv, TypeOK, Rings, RingsUpTo
  <2>2. Retire(ring[dst], t) \in Rings /\ AllUpTo(Retire(ring[dst], t), longest)
    BY <2>1, RetireRings, UpToRetire
  <2> HIDE DEF send
  <2> QED
    BY <1>1, <2>2, UpToRetire
<1> HIDE DEF after, send, left
<1>4. \A r \in Destinations :
         ring'[r] = ring[r] \/ (r = dst /\ ring'[r] = after)
  BY <1>2 DEF TableInv, TypeOK
<1> QED
  BY <1>2, <1>3, <1>4 DEF RingsUpTo

LEMMA ReceiveUpTo ==
  ASSUME TableInv, Q!IInv, NEW service \in Services, NEW sram \in SramLatencies,
         Receive(service, sram),
         NEW longest \in Nat, service <= longest, RingsUpTo(longest),
         RingCapacity * longest <= MaxSimTime
  PROVE  RingsUpTo(longest)' /\ fault' # "service_overflow"
<1> DEFINE r       == pending.router
           c       == <<r, pending.core>>
           i       == <<pending.core, pending.slot>>
           f       == ring[r][i]
           release == DF!HwStart(pending.arrival, compute_free[c]) + sram
           finish  == release + service
           e       == [release |-> release, service |-> service]
<1>1. /\ pending # NoPacket
      /\ fault' = RecordFault(f, total_service[r], release, service)
      /\ IF fault' = "none"
         THEN ring' = [ring EXCEPT
                   ![r][i].slots[Back(f)] = e, ![r][i].size = @ + 1]
         ELSE ring' = ring
  BY DEF Receive
<1>2. /\ r \in Destinations /\ c \in Core /\ i \in Fifo /\ pending.arrival \in Nat
  BY <1>1, PendingFields DEF TableInv, TypeOK
<1>3. /\ compute_free[c] \in Nat /\ service \in Nat /\ sram \in Nat
      /\ ring \in [Destinations -> Rings] /\ ring[r] \in Rings /\ f \in Ring
      /\ total_service[r] = RouterService(ring[r])
      /\ AllUpTo(ring[r], longest) /\ UpTo(f, longest)
  BY <1>2, FlowAssumption DEF TableInv, TypeOK, Rings, Accounted, RingsUpTo, AllUpTo
<1> HIDE DEF c
<1>4. release \in Nat
  <2> DEFINE l == Later(pending.arrival, compute_free[c])
  <2>1. l \in Nat
    BY <1>2, <1>3, LaterOf
  <2>2. release = l + sram
    BY Zenon DEF DF!HwStart, Later
  <2> HIDE DEF l, release
  <2> QED
    BY <1>3, <2>1, <2>2
<1>5. e \in RingEntry /\ e.service = service
  <2> HIDE DEF release
  <2> QED
    BY <1>3, <1>4 DEF RingEntry
<1> HIDE DEF f, release
<1>6. MaxSimTime - total_service[r] >= service
  <2> DEFINE occupied == Occupancy(ring[r])
             p == occupied * longest
  <2>1. occupied \in Nat /\ occupied < RingCapacity /\ RingCapacity \in Nat
    <3>1. Queues[r] = QueuesOf(ring[r])
      BY <1>2, <1>3, QueuesAre
    <3>2. Q!Occupancy(Queues[r]) = occupied /\ occupied \in Nat
      BY <1>3, <3>1, SameOccupancy
    <3>3. Q!Occupancy(Queues[r]) < RingCapacity
      BY <1>1, <1>2, SameConstants DEF Q!IInv, Q!RingBound
    <3> QED
      BY <3>2, <3>3, CapacityNat
  <2>2. RouterService(ring[r]) <= p /\ RouterService(ring[r]) \in Nat
    BY <1>3, RouterServiceUpTo, RouterServiceIsSum
  <2>3. p \in Nat /\ p + longest <= RingCapacity * longest
    <3> HIDE DEF occupied
    <3>1. (occupied + 1) * longest = p + longest /\ p \in Nat
      BY <2>1
    <3>2. (occupied + 1) * longest <= RingCapacity * longest
      BY <2>1
    <3> QED
      BY <3>1, <3>2
  <2> DEFINE full == RingCapacity * longest
  <2>4. full \in Nat /\ full <= MaxSimTime /\ MaxSimTime \in Nat /\ p + longest <= full
    BY <2>1, <2>3, HopAssumption
  <2> HIDE DEF p, full
  <2> QED
    BY <1>3, <2>2, <2>3, <2>4
<1>7. fault' # "service_overflow"
  <2>1. ~(MaxSimTime - total_service[r] < service)
    <3>1. MaxSimTime \in Nat /\ total_service[r] \in Nat
      BY <1>2, HopAssumption DEF TableInv, TypeOK
    <3> QED
      BY <1>3, <1>6, <3>1
  <2> QED
    BY <1>1, <2>1 DEF RecordFault
<1>8. CASE fault' = "none"
  <2>1. f.size # RingCapacity
    BY <1>1, <1>8 DEF RecordFault
  <2>2. UpTo(With(f, e), longest)
    <3> HIDE DEF e
    <3> QED
      BY <1>3, <1>5, <2>1, UpToWith
  <2>3. ring' = [ring EXCEPT ![r] = [ring[r] EXCEPT ![i] = With(f, e)]]
    <3>1. ring' = [ring EXCEPT ![r][i].slots[Back(f)] = e, ![r][i].size = @ + 1]
      BY <1>1, <1>8
    <3>2. With(f, e) = [f EXCEPT !.slots[Back(f)] = e, !.size = @ + 1]
      BY DEF With
    <3> HIDE DEF e
    <3> QED
      BY <1>2, <1>3, <3>1, <3>2 DEF f, Rings
  <2>4. \A x \in Destinations, q \in Fifo :
           ring'[x][q] = ring[x][q] \/ ring'[x][q] = With(f, e)
    <3> HIDE DEF e, r, i
    <3> QED
      BY <1>2, <1>3, <2>3 DEF Rings
  <2> HIDE DEF e
  <2> QED
    BY <1>7, <2>2, <2>4 DEF RingsUpTo, AllUpTo
<1>9. CASE fault' # "none"
  BY <1>1, <1>7, <1>9 DEF RingsUpTo
<1> QED
  BY <1>8, <1>9

LEMMA NextUpTo ==
  ASSUME TableInv, Q!IInv, [Next]_vars, fault # "service_overflow",
         NEW longest \in Nat, \A service \in Services : service <= longest,
         RingsUpTo(longest), RingCapacity * longest <= MaxSimTime
  PROVE  RingsUpTo(longest)' /\ fault' # "service_overflow"
<1>1. ASSUME UNCHANGED <<ring, fault>>
      PROVE  RingsUpTo(longest)' /\ fault' # "service_overflow"
  BY <1>1 DEF RingsUpTo
<1>2. StartTimestep => UNCHANGED <<ring, fault>>
  BY DEF StartTimestep, DF!StartTimestep, table
<1>3. ASSUME NEW c \in Core, NEW service \in NeuronServices, ProcessNeurons(c, service)
      PROVE  UNCHANGED <<ring, fault>>
  BY <1>3 DEF ProcessNeurons, DF!ProcessNeurons, table
<1>4. ASSUME TraverseAny
      PROVE  RingsUpTo(longest)' /\ fault' # "service_overflow"
  <2>1. PICK src \in Sources, dst \in Destinations, core \in DF!CoreOffset,
             t \in now .. now + SendSpread : Traverse(src, dst, core, t)
    BY <1>4 DEF TraverseAny
  <2>2. t \in Nat
    BY FlowAssumption DEF TableInv, TypeOK
  <2> QED
    BY <2>1, <2>2, TraverseUpTo
<1>5. ASSUME NEW service \in Services, NEW sram \in SramLatencies, Receive(service, sram)
      PROVE  RingsUpTo(longest)' /\ fault' # "service_overflow"
  BY <1>5, ReceiveUpTo
<1>6. ASSUME NEW service \in Services, NEW sram \in SramLatencies, NEW c \in Core,
             ReceiveDirect(c, service, sram)
      PROVE  UNCHANGED <<ring, fault>>
  BY <1>6 DEF ReceiveDirect, DF!ReceiveDirect, table
<1>7. UNCHANGED vars => UNCHANGED <<ring, fault>>
  BY DEF vars, table
<1> QED
  BY <1>1, <1>2, <1>3, <1>4, <1>5, <1>6, <1>7 DEF Next

(* No exception at all, when SimTime holds the services of a full ring:    *)
(* the check of router.cpp:362-365 guards against services that are out of *)
(* proportion, and never against a long run.                               *)
THEOREM NeverThrows ==
  ASSUME NEW longest \in Nat, \A service \in Services : service <= longest,
         RingCapacity * longest <= MaxSimTime
  PROVE  Spec => [](fault = "none")
<1> DEFINE FitInv == TableInv /\ Q!IInv /\ RingsUpTo(longest)
<1>1. Init => FitInv
  <2> SUFFICES ASSUME Init PROVE FitInv
    OBVIOUS
  <2>1. \A r \in Destinations, q \in Fifo : ring[r][q].size = 0
    BY DEF Init, EmptyRing
  <2>2. RingsUpTo(longest)
    BY <2>1 DEF RingsUpTo, AllUpTo, UpTo
  <2> QED
    BY <2>2, InitTableInv, InitMaps, QueueAssumptions, Q!InitIInv
<1>2. ASSUME FitInv, [Next]_vars PROVE FitInv'
  <2>1. fault = "none"
    BY <1>2 DEF Q!IInv, Q!NoFault
  <2>2. RingsUpTo(longest)' /\ fault' # "service_overflow"
    BY <1>2, <2>1, NextUpTo
  <2>3. TableInv'
    BY <1>2, NextTableInv
  <2>4. [Q!Next]_(Q!vars)
    BY <1>2, <2>2, <2>3, NextMaps
  <2> QED
    BY <1>2, <2>2, <2>3, <2>4, QueueAssumptions, Q!NextIInv
<1>3. FitInv => fault = "none"
  BY DEF Q!IInv, Q!NoFault
<1> HIDE DEF FitInv
<1> QED
  BY <1>1, <1>2, <1>3, PTL DEF Spec

(* Then the rings implement the queues with nothing left to assume.        *)
THEOREM ImplementsQueuesAlways ==
  ASSUME Delays = Nat,
         NEW longest \in Nat, \A service \in Services : service <= longest,
         RingCapacity * longest <= MaxSimTime
  PROVE  Spec => Implements
<1> DEFINE Fits == fault # "service_overflow"
           Quiet == fault = "none"
<1>1. Spec => []Quiet
  BY NeverThrows
<1>2. Quiet => Fits
  OBVIOUS
<1>3. Spec /\ []Fits => Implements
  BY ImplementsQueues
<1> HIDE DEF Fits, Quiet
<1> QED
  BY <1>1, <1>2, <1>3, PTL
=============================================================================
