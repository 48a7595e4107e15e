----------------------- MODULE DestinationFlowProofs -----------------------
(***************************************************************************)
(* Proofs about DestinationFlow for every mesh, FIFO geometry and set of   *)
(* delays and services.                                                    *)
(***************************************************************************)
EXTENDS DestinationFlow, FiniteSetTheorems, SequenceTheorems,
        WellFoundedInduction, TLAPS

(***************************************************************************)
(* Minima, as retire and the wait for the earliest release use them.       *)
(***************************************************************************)

(* A nonempty set of times has an earliest one.                            *)
LEMMA MinOfNat ==
  ASSUME NEW S \in SUBSET Nat, S # {}
  PROVE  Min(S) \in S /\ \A y \in S : Min(S) <= y
<1> DEFINE R == OpToRel(<, Nat)
<1>1. PICK x \in S : \A y \in S : ~ (<<y, x>> \in R)
  BY NatLessThanWellFounded, WFMin
<1>2. R = {p \in Nat \X Nat : p[1] < p[2]}
  BY DEF OpToRel
<1> HIDE DEF R
<1>3. ASSUME NEW y \in S PROVE x <= y
  <2>1. <<y, x>> \in R <=> y < x
    BY <1>2
  <2>2. ~ (y < x)
    BY <1>1, <2>1
  <2> QED
    BY <2>2
<1> QED
  BY <1>3 DEF Min

(***************************************************************************)
(* One FIFO: retiring drops a prefix.                                      *)
(***************************************************************************)

(* What is left of a FIFO at time t is its suffix from the first entry     *)
(* that is released later.                                                 *)
LEMMA LiveSuffix ==
  ASSUME NEW q \in Seq(Entry), NEW t \in Nat
  PROVE  /\ FirstLive(q, t) \in 1 .. Len(q) + 1
         /\ Live(q, t) \in Seq(Entry)
         /\ Len(Live(q, t)) = Len(q) + 1 - FirstLive(q, t)
         /\ \A k \in 1 .. Len(Live(q, t)) :
               Live(q, t)[k] = q[k + FirstLive(q, t) - 1]
<1> DEFINE S == {k \in 1 .. Len(q) : q[k].release > t} \cup {Len(q) + 1}
           m == FirstLive(q, t)
<1>1. S \in SUBSET Nat /\ S # {}
  OBVIOUS
<1>2. m \in S
  BY <1>1, MinOfNat DEF FirstLive
<1>3. m \in 1 .. Len(q) + 1
  BY <1>2
<1> HIDE DEF m
<1>4. \A i \in m .. Len(q) : q[i] \in Entry
  BY <1>3, ElementOfSeq
<1>5. Live(q, t) = [k \in 1 .. Len(q) - m + 1 |-> q[k + m - 1]]
  BY <1>3 DEF Live, m
<1>6. Live(q, t) \in [1 .. Len(q) - m + 1 -> Entry] /\ Len(q) - m + 1 \in Nat
  BY <1>3, <1>4, <1>5
<1>7. Live(q, t) \in Seq(Entry) /\ Len(Live(q, t)) = Len(q) - m + 1
  BY <1>6, IsASeq, LenProperties
<1>8. \A k \in 1 .. Len(Live(q, t)) : Live(q, t)[k] = q[k + m - 1]
  BY <1>5, <1>7
<1> QED
  BY <1>3, <1>7, <1>8 DEF m

(* A FIFO whose head is due gets shorter.                                  *)
LEMMA LiveShorter ==
  ASSUME NEW q \in Seq(Entry), NEW t \in Nat, q # <<>>, q[1].release <= t
  PROVE  Len(Live(q, t)) < Len(q)
<1> DEFINE S == {k \in 1 .. Len(q) : q[k].release > t} \cup {Len(q) + 1}
<1>1. S \in SUBSET Nat /\ S # {}
  OBVIOUS
<1>2. FirstLive(q, t) \in S
  BY <1>1, MinOfNat DEF FirstLive
<1>3. Len(q) >= 1 /\ q[1] \in Entry
  BY ElementOfSeq
<1>4. 1 \notin S
  BY <1>3 DEF Entry
<1>5. FirstLive(q, t) # 1
  BY <1>2, <1>4
<1> QED
  BY <1>5, LiveSuffix

(***************************************************************************)
(* One flow: the slots that hold an entry.                                 *)
(***************************************************************************)
FlowType == [Fifo -> Seq(Entry)]

(* The occupied slots are the pairs of a FIFO and a position in its queue. *)
LEMMA OccupiedMember ==
  ASSUME NEW flow
  PROVE  /\ \A q \in Fifo : \A k :
               <<q, k>> \in Occupied(flow) <=> k \in DOMAIN flow[q]
         /\ \A z \in Occupied(flow) :
               \E q \in Fifo : \E k \in DOMAIN flow[q] : z = <<q, k>>
<1>1. ASSUME NEW q \in Fifo, NEW k, <<q, k>> \in Occupied(flow)
      PROVE  k \in DOMAIN flow[q]
  BY <1>1 DEF Occupied
<1>2. ASSUME NEW q \in Fifo, NEW k \in DOMAIN flow[q]
      PROVE  <<q, k>> \in Occupied(flow)
  BY DEF Occupied
<1>3. ASSUME NEW z \in Occupied(flow)
      PROVE  \E q \in Fifo : \E k \in DOMAIN flow[q] : z = <<q, k>>
  BY DEF Occupied
<1> QED
  BY <1>1, <1>2, <1>3

(* A flow without entries occupies nothing.                                *)
LEMMA OccupiedEmpty ==
  Occupied([q \in Fifo |-> <<>>]) = {}
<1> DEFINE flow == [q \in Fifo |-> <<>>]
<1>1. \A q \in Fifo : DOMAIN flow[q] = {}
  OBVIOUS
<1> HIDE DEF flow
<1>2. Occupied(flow) = {}
  BY <1>1, OccupiedMember
<1> QED
  BY <1>2 DEF flow

(* Retiring keeps the queues typed and frees slots, never takes them.      *)
LEMMA RetireFrees ==
  ASSUME NEW flow \in FlowType, NEW t \in Nat
  PROVE  /\ Retire(flow, t) \in FlowType
         /\ \A q \in Fifo : Retire(flow, t)[q] = Live(flow[q], t)
         /\ Occupied(Retire(flow, t)) \subseteq Occupied(flow)
<1>1. \A q \in Fifo : flow[q] \in Seq(Entry)
  BY DEF FlowType
<1>2. \A q \in Fifo : Retire(flow, t)[q] = Live(flow[q], t)
  BY DEF Retire
<1>3. Retire(flow, t) \in FlowType
  BY <1>1, LiveSuffix DEF Retire, FlowType
<1>4. ASSUME NEW q \in Fifo
      PROVE  DOMAIN Retire(flow, t)[q] \subseteq DOMAIN flow[q]
  <2>1. Len(Live(flow[q], t)) <= Len(flow[q])
    BY <1>1, LiveSuffix, LenProperties
  <2>2. DOMAIN Live(flow[q], t) = 1 .. Len(Live(flow[q], t))
    BY <1>1, LiveSuffix, LenProperties
  <2>3. DOMAIN flow[q] = 1 .. Len(flow[q])
    BY <1>1, LenProperties
  <2>4. Len(flow[q]) \in Nat /\ Len(Live(flow[q], t)) \in Nat
    BY <1>1, LiveSuffix, LenProperties
  <2> QED
    BY <1>2, <2>1, <2>2, <2>3, <2>4
<1>5. Occupied(Retire(flow, t)) \subseteq Occupied(flow)
  BY <1>4, OccupiedMember
<1> QED
  BY <1>2, <1>3, <1>5

(* Waiting for the earliest release of a flow frees at least one slot.     *)
LEMMA RetireEarliest ==
  ASSUME NEW flow \in FlowType, NEW t \in Nat,
         IsFiniteSet(Occupied(flow)), Occupied(flow) # {}
  PROVE  /\ EarliestRelease(flow) \in Nat
         /\ EarliestRelease(flow) <= t
               => Occupancy(Retire(flow, t)) < Occupancy(flow)
<1> DEFINE E == {flow[q][1].release : q \in {p \in Fifo : flow[p] # <<>>}}
<1>1. \A q \in Fifo : flow[q] \in Seq(Entry)
  BY DEF FlowType
<1>2. PICK q0 \in Fifo : DOMAIN flow[q0] # {}
  BY OccupiedMember
<1>3. \A q \in Fifo : flow[q] # <<>> =>
          flow[q][1].release \in Nat /\ Len(flow[q]) \in Nat \ {0}
  <2> SUFFICES ASSUME NEW q \in Fifo, flow[q] # <<>>
               PROVE  /\ flow[q][1].release \in Nat
                      /\ Len(flow[q]) \in Nat \ {0}
    OBVIOUS
  <2>1. flow[q] \in Seq(Entry)
    BY <1>1
  <2>2. Len(flow[q]) \in Nat \ {0}
    BY <2>1, EmptySeq, LenProperties
  <2>3. flow[q][1] \in Entry
    BY <2>1, <2>2, ElementOfSeq
  <2> QED
    BY <2>2, <2>3 DEF Entry
<1>4. flow[q0] # <<>>
  BY <1>2
<1>5. E \in SUBSET Nat /\ E # {}
  BY <1>3, <1>4
<1>6. EarliestRelease(flow) \in E
  BY <1>5, MinOfNat DEF EarliestRelease
<1>7. ASSUME EarliestRelease(flow) <= t
      PROVE  Occupancy(Retire(flow, t)) < Occupancy(flow)
  <2>1. PICK q \in Fifo : flow[q] # <<>>
                          /\ flow[q][1].release = EarliestRelease(flow)
    BY <1>6
  <2> DEFINE x == <<q, Len(flow[q])>>
  <2>2. Len(Live(flow[q], t)) < Len(flow[q])
    BY <1>1, <1>7, <2>1, LiveShorter
  <2>3. x \in Occupied(flow)
    BY <1>1, <1>3, <2>1, OccupiedMember, LenProperties
  <2>4. x \notin Occupied(Retire(flow, t))
    <3>1. DOMAIN Retire(flow, t)[q] = 1 .. Len(Live(flow[q], t))
      BY <1>1, RetireFrees, LiveSuffix, LenProperties
    <3>2. Len(flow[q]) \notin DOMAIN Retire(flow, t)[q]
      BY <1>1, <2>2, <3>1, LiveSuffix, LenProperties
    <3> QED
      BY <3>2, OccupiedMember
  <2>5. Occupied(Retire(flow, t)) \in SUBSET (Occupied(flow) \ {x})
    BY <2>4, RetireFrees
  <2>6. IsFiniteSet(Occupied(flow) \ {x})
        /\ Cardinality(Occupied(flow) \ {x}) = Cardinality(Occupied(flow)) - 1
    BY <2>3, FS_RemoveElement
  <2>7. Cardinality(Occupied(Retire(flow, t)))
           <= Cardinality(Occupied(flow) \ {x})
    BY <2>5, <2>6, FS_Subset
  <2>8. IsFiniteSet(Occupied(Retire(flow, t)))
    BY <2>5, <2>6, FS_Subset
  <2> QED
    BY <2>6, <2>7, <2>8, FS_CardinalityType DEF Occupancy
<1> QED
  BY <1>5, <1>6, <1>7

(* Recording a packet takes exactly one slot.                              *)
LEMMA AppendTakesOne ==
  ASSUME NEW flow \in FlowType, NEW i \in Fifo, NEW e \in Entry,
         IsFiniteSet(Occupied(flow))
  PROVE  LET flow2 == [flow EXCEPT ![i] = Append(flow[i], e)]
         IN  /\ flow2 \in FlowType
             /\ IsFiniteSet(Occupied(flow2))
             /\ Occupancy(flow2) = Occupancy(flow) + 1
<1> DEFINE flow2 == [flow EXCEPT ![i] = Append(flow[i], e)]
           x == <<i, Len(flow[i]) + 1>>
<1>1. \A q \in Fifo : flow[q] \in Seq(Entry)
  BY DEF FlowType
<1>2. Append(flow[i], e) \in Seq(Entry)
      /\ DOMAIN Append(flow[i], e) = 1 .. Len(flow[i]) + 1
      /\ DOMAIN flow[i] = 1 .. Len(flow[i]) /\ Len(flow[i]) \in Nat
  BY <1>1, AppendProperties, LenProperties
<1>3. flow2 \in FlowType
  BY <1>1, <1>2 DEF FlowType
<1>4. \A q \in Fifo : flow2[q] = IF q = i THEN Append(flow[i], e) ELSE flow[q]
  BY DEF FlowType
<1> HIDE DEF flow2
<1>5. Occupied(flow2) = Occupied(flow) \cup {x}
  <2>1. ASSUME NEW z \in Occupied(flow2) PROVE z \in Occupied(flow) \cup {x}
    <3>1. PICK q \in Fifo : \E k \in DOMAIN flow2[q] : z = <<q, k>>
      BY OccupiedMember
    <3>2. PICK k \in DOMAIN flow2[q] : z = <<q, k>>
      BY <3>1
    <3>3. CASE q = i /\ k = Len(flow[i]) + 1
      BY <3>2, <3>3
    <3>4. CASE ~(q = i /\ k = Len(flow[i]) + 1)
      <4>1. k \in DOMAIN flow[q]
        <5>1. CASE q = i
          <6>1. k \in 1 .. Len(flow[i]) + 1 /\ k # Len(flow[i]) + 1
            BY <1>2, <1>4, <3>4, <5>1
          <6> QED
            BY <1>2, <5>1, <6>1
        <5>2. CASE q # i
          BY <1>4, <5>2
        <5> QED
          BY <5>1, <5>2
      <4> QED
        BY <3>2, <4>1, OccupiedMember
    <3> QED
      BY <3>3, <3>4
  <2>2. ASSUME NEW z \in Occupied(flow) PROVE z \in Occupied(flow2)
    <3>1. PICK q \in Fifo : \E k \in DOMAIN flow[q] : z = <<q, k>>
      BY OccupiedMember
    <3>2. PICK k \in DOMAIN flow[q] : z = <<q, k>>
      BY <3>1
    <3>3. CASE q = i
      <4>1. k \in 1 .. Len(flow[i])
        BY <1>2, <3>3
      <4>2. k \in 1 .. Len(flow[i]) + 1
        BY <1>2, <4>1
      <4>3. k \in DOMAIN flow2[q]
        BY <1>2, <1>4, <3>3, <4>2
      <4> QED
        BY <3>2, <4>3, OccupiedMember
    <3>4. CASE q # i
      <4>1. k \in DOMAIN flow2[q]
        BY <1>4, <3>4
      <4> QED
        BY <3>2, <4>1, OccupiedMember
    <3> QED
      BY <3>3, <3>4
  <2>3. x \in Occupied(flow2)
    <3>1. Len(flow[i]) + 1 \in 1 .. Len(flow[i]) + 1
      BY <1>2
    <3>2. Len(flow[i]) + 1 \in DOMAIN flow2[i]
      BY <1>2, <1>4, <3>1
    <3> QED
      BY <3>2, OccupiedMember
  <2> QED
    BY <2>1, <2>2, <2>3
<1>6. x \notin Occupied(flow)
  BY <1>2, OccupiedMember
<1>7. IsFiniteSet(Occupied(flow2))
      /\ Cardinality(Occupied(flow2)) = Cardinality(Occupied(flow)) + 1
  BY <1>5, <1>6, FS_AddElement
<1> QED
  BY <1>3, <1>7 DEF Occupancy, flow2

(* A queue of a flow is no longer than the flow is occupied.               *)
LEMMA QueueWithinFlow ==
  ASSUME NEW flow \in FlowType, NEW i \in Fifo, IsFiniteSet(Occupied(flow))
  PROVE  Len(flow[i]) <= Occupancy(flow)
<1> DEFINE n == Len(flow[i])
           P == {i} \X (1 .. n)
<1>1. DOMAIN flow[i] = 1 .. n /\ n \in Nat
  BY LenProperties DEF FlowType
<1>2. P \in SUBSET Occupied(flow)
  BY <1>1, OccupiedMember
<1> HIDE DEF n
<1>3. IsFiniteSet(1 .. n) /\ Cardinality(1 .. n) = n
  <2>1. n \in Int /\ 1 \in Int
    BY <1>1
  <2>2. IsFiniteSet(1 .. n) /\ Cardinality(1 .. n) = IF 1 > n THEN 0 ELSE n - 1 + 1
    BY <2>1, FS_Interval
  <2> QED
    BY <1>1, <2>2
<1>4. IsFiniteSet({i}) /\ Cardinality({i}) = 1
  BY FS_Singleton
<1>5. Cardinality(P) = 1 * n
  BY <1>3, <1>4, FS_Product
<1>6. Cardinality(P) <= Cardinality(Occupied(flow))
  BY <1>2, FS_Subset
<1> QED
  BY <1>1, <1>5, <1>6 DEF Occupancy, n

(* What a flow keeps over a retirement: each FIFO becomes a suffix.        *)
IsSuffixBy(p, q, d) ==
    Len(q) = Len(p) + d /\ \A k \in 1 .. Len(p) : p[k] = q[k + d]
KeepsSuffixes(flow2, flow) ==
    \A q \in Fifo : \E d \in Nat : IsSuffixBy(flow2[q], flow[q], d)

LEMMA RetireKeepsSuffixes ==
  ASSUME NEW flow \in FlowType, NEW t \in Nat
  PROVE  KeepsSuffixes(Retire(flow, t), flow)
<1> SUFFICES ASSUME NEW q \in Fifo
             PROVE  \E d \in Nat : IsSuffixBy(Retire(flow, t)[q], flow[q], d)
  BY DEF KeepsSuffixes
<1> DEFINE d == FirstLive(flow[q], t) - 1
<1>1. flow[q] \in Seq(Entry) /\ Len(flow[q]) \in Nat
  BY LenProperties DEF FlowType
<1>2. Retire(flow, t)[q] = Live(flow[q], t)
  BY RetireFrees
<1>3. d \in Nat /\ Len(flow[q]) = Len(Live(flow[q], t)) + d
  BY <1>1, LiveSuffix
<1>4. \A k \in 1 .. Len(Live(flow[q], t)) : Live(flow[q], t)[k] = flow[q][k + d]
  <2>1. \A k \in 1 .. Len(Live(flow[q], t)) :
           k + d = k + FirstLive(flow[q], t) - 1
    BY <1>1, LiveSuffix
  <2> QED
    BY <1>1, <2>1, LiveSuffix
<1> QED
  BY <1>2, <1>3, <1>4 DEF IsSuffixBy

LEMMA SuffixesCompose ==
  ASSUME NEW flow \in FlowType, NEW flow1 \in FlowType, NEW flow2 \in FlowType,
         KeepsSuffixes(flow1, flow), KeepsSuffixes(flow2, flow1)
  PROVE  KeepsSuffixes(flow2, flow)
<1> SUFFICES ASSUME NEW q \in Fifo
             PROVE  \E d \in Nat : IsSuffixBy(flow2[q], flow[q], d)
  BY DEF KeepsSuffixes
<1>1. PICK d1 \in Nat : IsSuffixBy(flow1[q], flow[q], d1)
  BY DEF KeepsSuffixes
<1>2. PICK d2 \in Nat : IsSuffixBy(flow2[q], flow1[q], d2)
  BY DEF KeepsSuffixes
<1>3. Len(flow[q]) \in Nat /\ Len(flow1[q]) \in Nat /\ Len(flow2[q]) \in Nat
  BY LenProperties DEF FlowType
<1>4. \A k \in 1 .. Len(flow2[q]) : k + d2 \in 1 .. Len(flow1[q])
  BY <1>2, <1>3 DEF IsSuffixBy
<1>5. \A k \in 1 .. Len(flow2[q]) : flow2[q][k] = flow[q][k + (d1 + d2)]
  <2> SUFFICES ASSUME NEW k \in 1 .. Len(flow2[q])
               PROVE  flow2[q][k] = flow[q][k + (d1 + d2)]
    OBVIOUS
  <2>1. flow2[q][k] = flow1[q][k + d2]
    BY <1>2 DEF IsSuffixBy
  <2>2. flow1[q][k + d2] = flow[q][(k + d2) + d1]
    BY <1>1, <1>4 DEF IsSuffixBy
  <2>3. (k + d2) + d1 = k + (d1 + d2)
    BY <1>3
  <2> QED
    BY <2>1, <2>2, <2>3
<1>6. d1 + d2 \in Nat /\ Len(flow[q]) = Len(flow2[q]) + (d1 + d2)
  <2>1. Len(flow[q]) = Len(flow1[q]) + d1
    BY <1>1 DEF IsSuffixBy
  <2>2. Len(flow1[q]) = Len(flow2[q]) + d2
    BY <1>2 DEF IsSuffixBy
  <2>3. \A a, b, c \in Nat : a = b + d1 /\ b = c + d2 => a = c + (d1 + d2)
    OBVIOUS
  <2>4. d1 + d2 \in Nat
    OBVIOUS
  <2> QED
    BY <1>3, <2>1, <2>2, <2>3, <2>4
<1> QED
  BY <1>5, <1>6 DEF IsSuffixBy

(***************************************************************************)
(* The geometry: no path is longer than the ring was allocated for.        *)
(***************************************************************************)
LEMMA CapacityFacts ==
  /\ MaxHops \in Nat
  /\ RingCapacity = Capacity(MaxHops) + 1
  /\ RingCapacity \in Nat
  /\ \A src \in Router, dst \in Router :
        /\ Capacity(Hops(src, dst)) \in Nat
        /\ Capacity(Hops(src, dst)) <= Capacity(MaxHops)
<1> DEFINE K == FifoNum * FifoDepth
<1>1. K \in Nat
  BY MeshAssumption
<1>2. MaxHops \in Nat
  BY MeshAssumption DEF MaxHops
<1>3. \A src \in Router, dst \in Router :
         Hops(src, dst) \in Nat /\ Hops(src, dst) <= MaxHops
  BY MeshAssumption DEF Hops, Distance, MaxHops, Router
<1> HIDE DEF K
<1>4. \A a, b \in Nat : a <= b => (a + 1) * K <= (b + 1) * K
                                  /\ (a + 1) * K \in Nat
  BY <1>1
<1>5. \A a \in Nat : Capacity(a) = (a + 1) * K
  BY DEF Capacity, K
<1> QED
  BY <1>2, <1>3, <1>4, <1>5 DEF RingCapacity

(***************************************************************************)
(* The inductive invariant.  RingBound alone is not inductive: the wait    *)
(* in Traverse makes room only because the due entries form a prefix of    *)
(* each FIFO and a flow is a finite set of slots; a release is in order    *)
(* only because no entry outlives the pipeline of its core.                *)
(***************************************************************************)
FlowsFinite == \A r \in Destinations : IsFiniteSet(Occupied(fifo[r]))
BeforeFirst == timestep = 0 => hw_latency = 0 /\ neurons_left = {}
                               /\ pending = NoPacket
IInv == TypeOK /\ FlowsFinite /\ BeforeFirst
        /\ RingBound /\ ReleaseOrder /\ NoFault

LEMMA LaterFacts ==
  \A a, b \in Nat : Later(a, b) \in Nat /\ a <= Later(a, b) /\ b <= Later(a, b)
                    /\ (a <= b => Later(a, b) = b)
  BY DEF Later

(* No packet is not a packet: the two are told apart by their domains.     *)
LEMMA PacketFields ==
  ASSUME NEW p \in Packet \cup {NoPacket}, p # NoPacket
  PROVE  /\ p \in Packet
         /\ p.router \in Destinations
         /\ <<p.router, p.core>> \in Core
         /\ <<p.core, p.slot>> \in Fifo
         /\ p.arrival \in Nat
  BY DEF Packet, Core, Fifo

LEMMA InitIInv == Init => IInv
<1> SUFFICES ASSUME Init PROVE IInv
  OBVIOUS
<1> USE DEF Init
<1>1. \A r \in Destinations : fifo[r] = [q \in Fifo |-> <<>>]
  OBVIOUS
<1>2. \A r \in Destinations : Occupied(fifo[r]) = {}
  BY <1>1, OccupiedEmpty
<1>3. FlowsFinite
  BY <1>2, FS_EmptySet DEF FlowsFinite
<1>4. TypeOK
  <2>1. <<>> \in Seq(Entry)
    BY EmptySeq
  <2>2. 0 \in 0 .. FifoNum - 1
    BY MeshAssumption
  <2> QED
    BY <2>1, <2>2 DEF TypeOK, Faults
<1>5. RingBound
  <2>1. \A r \in Destinations : Occupancy(fifo[r]) = 0
    BY <1>2, FS_EmptySet DEF Occupancy
  <2>2. 0 <= RingCapacity
    BY CapacityFacts
  <2> QED
    BY <2>1, <2>2 DEF RingBound
<1>6. ReleaseOrder
  <2>1. \A r \in Destinations, i \in Fifo : DOMAIN fifo[r][i] = {}
    BY <1>1
  <2> QED
    BY <2>1 DEF ReleaseOrder
<1>7. BeforeFirst /\ NoFault
  BY DEF BeforeFirst, NoFault
<1> QED
  BY <1>3, <1>4, <1>5, <1>6, <1>7 DEF IInv

(* The actions that touch neither the FIFOs nor the packet in flight keep  *)
(* the invariant when they only move the clocks forward.                   *)
LEMMA ClocksOnly ==
  ASSUME IInv, UNCHANGED <<fifo, next_fifo, pending, fault>>,
         compute_free' \in [Core -> Nat],
         \A c \in Core : compute_free[c] <= compute_free'[c],
         \A c \in Core : compute_free'[c] <= hw_latency',
         hw_latency' \in Nat, now' \in Nat, timestep' \in Nat,
         neurons_left' \subseteq Core,
         BeforeFirst'
  PROVE  IInv'
<1> USE DEF IInv
<1>1. TypeOK'
  BY DEF TypeOK
<1>2. FlowsFinite'
  BY DEF FlowsFinite
<1>3. RingBound'
  BY DEF RingBound
<1>4. ReleaseOrder'
  <2>1. ASSUME NEW r \in Destinations, NEW i \in Fifo,
               NEW k \in DOMAIN fifo[r][i]
        PROVE  /\ fifo[r][i][k].release <= compute_free'[<<r, i[1]>>]
               /\ \A m \in 1 .. k :
                     fifo[r][i][m].release <= fifo[r][i][k].release
    <3>1. <<r, i[1]>> \in Core
      BY DEF Core, Fifo
    <3>2. fifo[r][i][k].release \in Nat
      <4>1. fifo[r][i] \in Seq(Entry)
        BY DEF TypeOK
      <4>2. fifo[r][i][k] \in Entry
        BY <4>1, ElementOfSeq, LenProperties
      <4> QED
        BY <4>2 DEF Entry
    <3>3. compute_free[<<r, i[1]>>] \in Nat /\ compute_free'[<<r, i[1]>>] \in Nat
      BY <3>1 DEF TypeOK
    <3>4. fifo[r][i][k].release <= compute_free[<<r, i[1]>>]
      BY DEF ReleaseOrder
    <3>5. compute_free[<<r, i[1]>>] <= compute_free'[<<r, i[1]>>]
      BY <3>1
    <3>6. fifo[r][i][k].release <= compute_free'[<<r, i[1]>>]
      BY <3>2, <3>3, <3>4, <3>5
    <3> QED
      BY <3>6 DEF ReleaseOrder
  <2> QED
    BY <2>1 DEF ReleaseOrder
<1>5. NoFault'
  BY DEF NoFault
<1> QED
  BY <1>1, <1>2, <1>3, <1>4, <1>5

LEMMA StartTimestepIInv ==
  ASSUME IInv, StartTimestep
  PROVE  IInv'
<1> USE DEF IInv, StartTimestep
<1>1. now' \in Nat /\ hw_latency' = now' /\ hw_latency <= now'
      /\ timestep' \in Nat \ {0}
  BY TimeAssumption DEF TypeOK, BeforeFirst, Barrier, Later
<1>2. \A c \in Core : compute_free'[c] <= hw_latency'
  <2>1. \A c \in Core : compute_free[c] \in Nat /\ compute_free[c] <= hw_latency
    BY DEF TypeOK, ReleaseOrder
  <2> QED
    BY <1>1, <2>1 DEF TypeOK
<1>3. compute_free' \in [Core -> Nat]
      /\ \A c \in Core : compute_free[c] <= compute_free'[c]
  BY DEF TypeOK
<1>4. BeforeFirst'
  BY <1>1 DEF BeforeFirst
<1> QED
  BY <1>1, <1>2, <1>3, <1>4, ClocksOnly

(* A reservation of one core's pipeline moves its clock forward.           *)
LEMMA ReservationIInv ==
  ASSUME IInv, NEW c \in Core, NEW finish \in Nat,
         compute_free[c] <= finish,
         compute_free' = [compute_free EXCEPT ![c] = finish],
         hw_latency' = Later(hw_latency, finish),
         UNCHANGED <<fifo, next_fifo, pending, timestep, now, fault>>,
         neurons_left' \subseteq Core, timestep # 0
  PROVE  IInv'
<1> USE DEF IInv
<1>1. hw_latency \in Nat /\ hw_latency' \in Nat /\ hw_latency <= hw_latency'
      /\ finish <= hw_latency'
  BY LaterFacts DEF TypeOK
<1>2. \A d \in Core : /\ compute_free[d] \in Nat
                      /\ compute_free[d] <= hw_latency
                      /\ compute_free'[d] = IF d = c THEN finish
                                                     ELSE compute_free[d]
  BY DEF TypeOK, ReleaseOrder
<1>3. /\ compute_free' \in [Core -> Nat]
      /\ \A d \in Core : compute_free[d] <= compute_free'[d]
      /\ \A d \in Core : compute_free'[d] <= hw_latency'
  BY <1>1, <1>2 DEF TypeOK
<1>4. BeforeFirst'
  BY DEF BeforeFirst
<1>5. now' \in Nat /\ timestep' \in Nat
  BY DEF TypeOK
<1> QED
  BY <1>1, <1>3, <1>4, <1>5, ClocksOnly

LEMMA ProcessNeuronsIInv ==
  ASSUME IInv, NEW c \in Core, NEW service \in NeuronServices,
         ProcessNeurons(c, service)
  PROVE  IInv'
<1> USE DEF IInv, ProcessNeurons
<1> DEFINE finish == HwStart(now, compute_free[c]) + service
<1>1. now \in Nat /\ compute_free[c] \in Nat /\ service \in Nat
  BY TimeAssumption DEF TypeOK
<1>2. finish \in Nat /\ compute_free[c] <= finish
  <2>1. /\ HwStart(now, compute_free[c]) \in Nat
        /\ compute_free[c] <= HwStart(now, compute_free[c])
    BY <1>1, LaterFacts DEF HwStart
  <2> QED
    BY <1>1, <2>1
<1>3. neurons_left' \subseteq Core /\ timestep # 0
  BY DEF TypeOK, BeforeFirst
<1> QED
  BY <1>2, <1>3, ReservationIInv

LEMMA ReceiveDirectIInv ==
  ASSUME IInv, NEW c \in Core, NEW service \in Services,
         NEW sram \in SramLatencies, ReceiveDirect(c, service, sram)
  PROVE  IInv'
<1> USE DEF IInv, ReceiveDirect
<1> DEFINE finish == HwStart(now, compute_free[c]) + sram + service
<1>1. now \in Nat /\ compute_free[c] \in Nat /\ service \in Nat /\ sram \in Nat
  BY TimeAssumption DEF TypeOK
<1>2. finish \in Nat /\ compute_free[c] <= finish
  <2>1. /\ HwStart(now, compute_free[c]) \in Nat
        /\ compute_free[c] <= HwStart(now, compute_free[c])
    BY <1>1, LaterFacts DEF HwStart
  <2> QED
    BY <1>1, <2>1
<1>3. neurons_left' \subseteq Core /\ timestep # 0
  BY DEF TypeOK
<1> QED
  BY <1>2, <1>3, ReservationIInv

(* What a send makes of its destination's flow: retire, wait if the path   *)
(* is full, retire again.  One place of the ring is free afterwards.       *)
LEMMA SendMakesRoom ==
  ASSUME NEW flow \in FlowType, IsFiniteSet(Occupied(flow)), NEW t \in Nat,
         NEW src \in Sources, NEW dst \in Destinations,
         Occupancy(flow) <= RingCapacity,
         NEW due, due = Retire(flow, t),
         NEW blocked \in BOOLEAN,
         blocked <=> Occupancy(due) > Capacity(Hops(src, dst)),
         NEW send, send = IF blocked THEN Later(t, EarliestRelease(due)) ELSE t,
         NEW left, left = IF blocked THEN Retire(due, send) ELSE due
  PROVE  /\ send \in Nat
         /\ left \in FlowType
         /\ IsFiniteSet(Occupied(left))
         /\ Occupancy(left) < RingCapacity
         /\ KeepsSuffixes(left, flow)
<1>1. due \in FlowType /\ Occupied(due) \subseteq Occupied(flow)
      /\ KeepsSuffixes(due, flow)
  BY RetireFrees, RetireKeepsSuffixes
<1>2. IsFiniteSet(Occupied(due)) /\ Occupancy(due) <= Occupancy(flow)
  BY <1>1, FS_Subset DEF Occupancy
<1>3. Occupancy(flow) \in Nat /\ Occupancy(due) \in Nat
  BY <1>2, FS_CardinalityType DEF Occupancy
<1> DEFINE cap == Capacity(Hops(src, dst))
<1>4. cap \in Nat /\ RingCapacity \in Nat /\ cap < RingCapacity
  <2>1. src \in Router /\ dst \in Router
    BY MeshAssumption
  <2>2. /\ cap \in Nat
        /\ cap <= Capacity(MaxHops)
        /\ RingCapacity = Capacity(MaxHops) + 1 /\ RingCapacity \in Nat
    BY <2>1, CapacityFacts
  <2>3. Capacity(MaxHops) \in Nat
    <3>1. <<0, 0>> \in Router /\ \A h \in Nat : Capacity(h) \in Nat
      BY MeshAssumption DEF Router, Capacity
    <3> QED
      BY <3>1, CapacityFacts
  <2> HIDE DEF cap
  <2> QED
    BY <2>2, <2>3
<1> HIDE DEF cap
<1>5. CASE ~ blocked
  <2>1. Occupancy(due) <= cap
    BY <1>3, <1>4, <1>5 DEF cap
  <2>2. left = due /\ send = t
    BY <1>5
  <2> QED
    BY <1>1, <1>2, <1>3, <1>4, <2>1, <2>2
<1>6. CASE blocked
  <2>1. Occupancy(due) > 0
    BY <1>3, <1>4, <1>6 DEF cap
  <2>2. Occupied(due) # {}
    BY <2>1, FS_EmptySet DEF Occupancy
  <2>3. EarliestRelease(due) \in Nat
    BY <1>1, <1>2, <2>2, RetireEarliest
  <2>4. send \in Nat /\ EarliestRelease(due) <= send
    BY <1>6, <2>3, LaterFacts
  <2>5. left = Retire(due, send)
    BY <1>6
  <2>6. left \in FlowType /\ Occupied(left) \subseteq Occupied(due)
        /\ KeepsSuffixes(left, due)
    BY <1>1, <2>4, <2>5, RetireFrees, RetireKeepsSuffixes
  <2>7. IsFiniteSet(Occupied(left))
    BY <1>2, <2>6, FS_Subset
  <2>8. Occupancy(left) < Occupancy(due)
    BY <1>1, <1>2, <2>2, <2>4, <2>5, RetireEarliest
  <2>9. Occupancy(left) \in Nat
    BY <2>7, FS_CardinalityType DEF Occupancy
  <2>10. Occupancy(left) < RingCapacity
    BY <1>2, <1>3, <1>4, <2>8, <2>9
  <2>11. KeepsSuffixes(left, flow)
    BY <1>1, <2>6, SuffixesCompose
  <2> QED
    BY <2>4, <2>6, <2>7, <2>10, <2>11
<1> QED
  BY <1>5, <1>6

LEMMA TraverseIInv ==
  ASSUME IInv, NEW src \in Sources, NEW dst \in Destinations,
         NEW core \in CoreOffset, NEW t \in Nat, NEW delay \in Delays,
         Traverse(src, dst, core, t, delay)
  PROVE  IInv'
<1> DEFINE due     == Retire(fifo[dst], t)
           blocked == Occupancy(due) > Capacity(Hops(src, dst))
           send    == IF blocked THEN Later(t, EarliestRelease(due)) ELSE t
           left    == IF blocked THEN Retire(due, send) ELSE due
           slot    == next_fifo[<<dst, core>>]
<1>1. /\ fifo' = [fifo EXCEPT ![dst] = left]
      /\ next_fifo' = [next_fifo EXCEPT ![<<dst, core>>] = NextFifo(slot)]
      /\ pending' = [router |-> dst, core |-> core, slot |-> slot,
                     arrival |-> send + delay]
      /\ UNCHANGED <<compute_free, neurons_left, timestep, now, hw_latency, fault>>
      /\ timestep > 0
  BY DEF Traverse
<1>2. \A r \in Destinations : /\ fifo[r] \in FlowType
                              /\ IsFiniteSet(Occupied(fifo[r]))
                              /\ Occupancy(fifo[r]) <= RingCapacity
  BY DEF IInv, TypeOK, FlowType, FlowsFinite, RingBound
<1>3. /\ send \in Nat
      /\ left \in FlowType
      /\ IsFiniteSet(Occupied(left))
      /\ Occupancy(left) < RingCapacity
      /\ KeepsSuffixes(left, fifo[dst])
  <2>1. blocked \in BOOLEAN
    OBVIOUS
  <2> HIDE DEF due, blocked, send, left
  <2>2. due = Retire(fifo[dst], t)
    BY DEF due
  <2>3. blocked <=> Occupancy(due) > Capacity(Hops(src, dst))
    BY DEF blocked
  <2>4. send = IF blocked THEN Later(t, EarliestRelease(due)) ELSE t
    BY DEF send
  <2>5. left = IF blocked THEN Retire(due, send) ELSE due
    BY DEF left
  <2> QED
    BY <1>2, <2>1, <2>2, <2>3, <2>4, <2>5, SendMakesRoom
<1> HIDE DEF due, blocked, send, left, slot
<1>4. \A r \in Destinations : fifo'[r] = IF r = dst THEN left ELSE fifo[r]
  BY <1>1 DEF IInv, TypeOK
<1>5. slot \in 0 .. FifoNum - 1 /\ NextFifo(slot) \in 0 .. FifoNum - 1
  <2>1. slot \in 0 .. FifoNum - 1
    BY DEF IInv, TypeOK, Core, slot
  <2> QED
    BY <2>1, MeshAssumption DEF NextFifo
<1>6. TypeOK'
  <2>1. fifo' \in [Destinations -> [Fifo -> Seq(Entry)]]
    BY <1>1, <1>3 DEF IInv, TypeOK, FlowType
  <2>2. next_fifo' \in [Core -> 0 .. FifoNum - 1]
    BY <1>1, <1>5 DEF IInv, TypeOK
  <2>3. send + delay \in Nat
    BY <1>3, TimeAssumption
  <2>4. pending' \in Packet
    BY <1>1, <1>5, <2>3 DEF Packet
  <2> QED
    BY <1>1, <2>1, <2>2, <2>4 DEF IInv, TypeOK
<1>7. FlowsFinite'
  BY <1>2, <1>3, <1>4 DEF FlowsFinite
<1>8. BeforeFirst' /\ NoFault'
  BY <1>1 DEF IInv, BeforeFirst, NoFault, TypeOK
<1>9. RingBound'
  <2>1. ASSUME NEW r \in Destinations
        PROVE  /\ Occupancy(fifo'[r]) <= RingCapacity
               /\ pending'.router = r => Occupancy(fifo'[r]) < RingCapacity
    <3>1. Occupancy(left) \in Nat /\ RingCapacity \in Nat
      BY <1>3, FS_CardinalityType, CapacityFacts DEF Occupancy
    <3>2. pending'.router = dst
      BY <1>1
    <3>3. CASE r = dst
      BY <1>3, <1>4, <3>1, <3>3
    <3>4. CASE r # dst
      BY <1>2, <1>4, <3>2, <3>4
    <3> QED
      BY <3>3, <3>4
  <2> QED
    BY <2>1 DEF RingBound, Occupancy
<1>10. ReleaseOrder'
  <2>1. ASSUME NEW r \in Destinations, NEW i \in Fifo,
               NEW k \in DOMAIN fifo'[r][i]
        PROVE  /\ fifo'[r][i][k].release <= compute_free[<<r, i[1]>>]
               /\ \A m \in 1 .. k :
                     fifo'[r][i][m].release <= fifo'[r][i][k].release
    <3>1. CASE r # dst
      BY <1>4, <3>1 DEF IInv, ReleaseOrder
    <3>2. CASE r = dst
      <4>1. PICK d \in Nat : IsSuffixBy(left[i], fifo[dst][i], d)
        BY <1>3 DEF KeepsSuffixes
      <4>2. fifo'[r][i] = left[i]
        BY <1>4, <3>2
      <4>3. /\ DOMAIN left[i] = 1 .. Len(left[i]) /\ Len(left[i]) \in Nat
            /\ DOMAIN fifo[dst][i] = 1 .. Len(fifo[dst][i])
            /\ Len(fifo[dst][i]) \in Nat
        BY <1>2, <1>3, LenProperties DEF FlowType
      <4>4. k \in 1 .. Len(left[i])
        BY <4>2, <4>3
      <4>5. Len(fifo[dst][i]) = Len(left[i]) + d
        BY <4>1 DEF IsSuffixBy
      <4>6. \A m \in 1 .. k : /\ m + d \in 1 .. k + d
                              /\ m \in 1 .. Len(left[i])
                              /\ k + d \in 1 .. Len(fifo[dst][i])
        BY <4>3, <4>4, <4>5
      <4>7. \A m \in 1 .. k : left[i][m] = fifo[dst][i][m + d]
        BY <4>1, <4>6 DEF IsSuffixBy
      <4>8. k \in 1 .. k
        BY <4>3, <4>4
      <4>9. k + d \in DOMAIN fifo[dst][i]
        BY <4>3, <4>6, <4>8
      <4>10. /\ fifo[dst][i][k + d].release <= compute_free[<<dst, i[1]>>]
             /\ \A m \in 1 .. k + d :
                   fifo[dst][i][m].release <= fifo[dst][i][k + d].release
        BY <4>9 DEF IInv, ReleaseOrder
      <4> QED
        BY <3>2, <4>2, <4>6, <4>7, <4>8, <4>10
    <3> QED
      BY <3>1, <3>2
  <2>2. \A c \in Core : compute_free'[c] <= hw_latency'
    BY <1>1 DEF IInv, ReleaseOrder
  <2> QED
    BY <1>1, <2>1, <2>2 DEF ReleaseOrder
<1> QED
  BY <1>6, <1>7, <1>8, <1>9, <1>10 DEF IInv

LEMMA ReceiveIInv ==
  ASSUME IInv, NEW service \in Services, NEW sram \in SramLatencies,
         Receive(service, sram)
  PROVE  IInv'
<1> DEFINE r       == pending.router
           c       == <<r, pending.core>>
           i       == <<pending.core, pending.slot>>
           q       == fifo[r][i]
           release == HwStart(pending.arrival, compute_free[c]) + sram
           finish  == release + service
           e       == [release |-> release]
           flow2   == [fifo[r] EXCEPT ![i] = Append(q, e)]
(* Where the packet goes, and the times of its processing.                 *)
<1>1. /\ r \in Destinations /\ c \in Core /\ i \in Fifo /\ i[1] = pending.core
      /\ pending.arrival \in Nat
  BY PacketFields DEF IInv, TypeOK, Receive
<1>2. /\ compute_free[c] \in Nat /\ compute_free[c] <= release
      /\ release \in Nat /\ finish \in Nat /\ release <= finish
  <2>1. compute_free[c] \in Nat /\ service \in Nat /\ sram \in Nat
    BY <1>1, TimeAssumption DEF IInv, TypeOK
  <2>2. /\ HwStart(pending.arrival, compute_free[c]) \in Nat
        /\ compute_free[c] <= HwStart(pending.arrival, compute_free[c])
    BY <1>1, <2>1, LaterFacts DEF HwStart
  <2> QED
    BY <2>1, <2>2
<1>3. fifo[r] \in FlowType /\ IsFiniteSet(Occupied(fifo[r]))
      /\ q \in Seq(Entry) /\ Len(q) \in Nat /\ DOMAIN q = 1 .. Len(q)
  BY <1>1, LenProperties DEF IInv, TypeOK, FlowType, FlowsFinite
(* Neither exception: the pipeline was free no earlier than the last       *)
(* release, and the flow as a whole has a place left.                      *)
<1>4. \A k \in DOMAIN q : q[k].release \in Nat /\ q[k].release <= release
  <2> SUFFICES ASSUME NEW k \in DOMAIN q
               PROVE  q[k].release \in Nat /\ q[k].release <= release
    OBVIOUS
  <2>1. q[k] \in Entry
    BY <1>3, ElementOfSeq
  <2>2. q[k].release \in Nat
    BY <2>1 DEF Entry
  <2>3. q[k].release <= compute_free[<<r, i[1]>>]
    BY <1>1 DEF IInv, ReleaseOrder
  <2>4. q[k].release <= compute_free[c]
    BY <1>1, <2>3
  <2> HIDE DEF q, release
  <2> QED
    BY <1>2, <2>2, <2>4
<1>5. ~ (q # <<>> /\ release < q[Len(q)].release)
  <2> SUFFICES ASSUME q # <<>> PROVE ~ (release < q[Len(q)].release)
    OBVIOUS
  <2>1. Len(q) \in DOMAIN q
    <3>1. Len(q) \in Nat \ {0}
      BY <1>3, EmptySeq
    <3> HIDE DEF q
    <3> QED
      BY <1>3, <3>1
  <2>2. q[Len(q)].release \in Nat /\ q[Len(q)].release <= release
    BY <1>4, <2>1
  <2> HIDE DEF q, release
  <2> QED
    BY <1>2, <2>2
<1>6. /\ Occupancy(fifo[r]) \in Nat /\ Occupancy(fifo[r]) < RingCapacity
      /\ Len(q) <= Occupancy(fifo[r]) /\ RingCapacity \in Nat
  <2>1. Occupancy(fifo[r]) \in Nat
    BY <1>3, FS_CardinalityType DEF Occupancy
  <2>2. Occupancy(fifo[r]) < RingCapacity
    BY <1>1 DEF IInv, RingBound, Receive
  <2>3. Len(q) <= Occupancy(fifo[r])
    BY <1>1, <1>3, QueueWithinFlow
  <2> QED
    BY <2>1, <2>2, <2>3, CapacityFacts
<1>7. Len(q) # RingCapacity
  <2>1. \A a, b, d \in Nat : a <= b /\ b < d => a # d
    OBVIOUS
  <2>2. Len(q) \in Nat
    BY <1>3
  <2> HIDE DEF r, q
  <2> QED
    BY <1>6, <2>1, <2>2
<1>8. /\ fifo' = [fifo EXCEPT ![r][i] = Append(q, e)]
      /\ compute_free' = [compute_free EXCEPT ![c] = finish]
      /\ pending' = NoPacket
      /\ hw_latency' = Later(hw_latency, finish)
      /\ UNCHANGED <<next_fifo, neurons_left, timestep, now, fault>>
  BY <1>5, <1>7 DEF Receive
<1>9. /\ flow2 \in FlowType /\ IsFiniteSet(Occupied(flow2))
      /\ Occupancy(flow2) = Occupancy(fifo[r]) + 1
  <2>1. e \in Entry
    BY <1>2 DEF Entry
  <2> HIDE DEF r, i, e
  <2> QED
    BY <1>1, <1>3, <2>1, AppendTakesOne
<1>10. \A s \in Destinations : fifo'[s] = IF s = r THEN flow2 ELSE fifo[s]
  BY <1>1, <1>8 DEF IInv, TypeOK
<1>11. \A j \in Fifo : flow2[j] = IF j = i THEN Append(q, e) ELSE fifo[r][j]
  BY <1>1, <1>3 DEF FlowType
<1>12. /\ \A d \in Core : compute_free'[d] = IF d = c THEN finish
                                                       ELSE compute_free[d]
       /\ \A d \in Core : compute_free[d] \in Nat /\ compute_free'[d] \in Nat
                          /\ compute_free[d] <= compute_free'[d]
       /\ hw_latency \in Nat /\ hw_latency' \in Nat
       /\ hw_latency <= hw_latency' /\ finish <= hw_latency'
  <2>1. \A d \in Core : compute_free'[d] = IF d = c THEN finish
                                                     ELSE compute_free[d]
    BY <1>8 DEF IInv, TypeOK
  <2>2. \A d \in Core : compute_free[d] \in Nat
    BY DEF IInv, TypeOK
  <2>3. hw_latency \in Nat /\ hw_latency' \in Nat
        /\ hw_latency <= hw_latency' /\ finish <= hw_latency'
    BY <1>2, <1>8, LaterFacts DEF IInv, TypeOK
  <2>4. compute_free[c] <= finish /\ finish \in Nat
    BY <1>2
  <2> HIDE DEF c, finish
  <2> QED
    BY <2>1, <2>2, <2>3, <2>4
<1> HIDE DEF r, c, i, q, release, finish, e, flow2
<1>13. TypeOK'
  <2>1. fifo' \in [Destinations -> [Fifo -> Seq(Entry)]]
    <3>1. fifo' = [fifo EXCEPT ![r] = flow2]
      BY <1>8 DEF flow2
    <3> QED
      BY <1>9, <3>1 DEF IInv, TypeOK, FlowType
  <2>2. compute_free' \in [Core -> Nat]
    BY <1>2, <1>8 DEF IInv, TypeOK
  <2> QED
    BY <1>8, <1>12, <2>1, <2>2 DEF IInv, TypeOK
<1>14. FlowsFinite'
  BY <1>9, <1>10 DEF IInv, FlowsFinite
<1>15. BeforeFirst' /\ NoFault'
  <2>1. timestep # 0
    BY DEF IInv, BeforeFirst, Receive
  <2> QED
    BY <1>8, <2>1 DEF IInv, BeforeFirst, NoFault
<1>16. RingBound'
  <2>1. ASSUME NEW s \in Destinations
        PROVE  Occupancy(fifo'[s]) <= RingCapacity
    <3>1. CASE s = r
      BY <1>6, <1>9, <1>10, <3>1
    <3>2. CASE s # r
      BY <1>10, <3>2 DEF IInv, RingBound
    <3> QED
      BY <3>1, <3>2
  <2> QED
    BY <1>8, <2>1 DEF RingBound, Occupancy
<1>17. ReleaseOrder'
  <2>1. ASSUME NEW s \in Destinations, NEW j \in Fifo,
               NEW k \in DOMAIN fifo'[s][j]
        PROVE  /\ fifo'[s][j][k].release <= compute_free'[<<s, j[1]>>]
               /\ \A m \in 1 .. k :
                     fifo'[s][j][m].release <= fifo'[s][j][k].release
    <3>1. <<s, j[1]>> \in Core
      BY DEF Core, Fifo
    <3>2. CASE fifo'[s][j] = fifo[s][j]
      <4>1. fifo[s][j] \in Seq(Entry)
        BY DEF IInv, TypeOK
      <4>2. fifo[s][j][k] \in Entry
        BY <3>2, <4>1, ElementOfSeq, LenProperties
      <4>3. fifo[s][j][k].release \in Nat
        BY <4>2 DEF Entry
      <4>4. /\ fifo[s][j][k].release <= compute_free[<<s, j[1]>>]
            /\ \A m \in 1 .. k :
                  fifo[s][j][m].release <= fifo[s][j][k].release
        BY <3>2 DEF IInv, ReleaseOrder
      <4>5. /\ compute_free[<<s, j[1]>>] \in Nat
            /\ compute_free'[<<s, j[1]>>] \in Nat
            /\ compute_free[<<s, j[1]>>] <= compute_free'[<<s, j[1]>>]
        BY <1>12, <3>1
      <4>6. fifo[s][j][k].release <= compute_free'[<<s, j[1]>>]
        BY <4>3, <4>4, <4>5
      <4> QED
        BY <3>2, <4>4, <4>6
    <3>3. CASE s = r /\ j = i
      <4>1. fifo'[s][j] = Append(q, e)
        BY <1>10, <1>11, <3>3
      <4>2. <<s, j[1]>> = c
        BY <1>1, <3>3 DEF c
      <4>3. /\ DOMAIN Append(q, e) = 1 .. Len(q) + 1
            /\ \A m \in 1 .. Len(q) : Append(q, e)[m] = q[m]
            /\ Append(q, e)[Len(q) + 1] = e
        <5>1. e \in Entry
          BY <1>2 DEF e, Entry
        <5>2. /\ Len(Append(q, e)) = Len(q) + 1
              /\ \A m \in 1 .. Len(q) : Append(q, e)[m] = q[m]
              /\ Append(q, e)[Len(q) + 1] = e
              /\ Append(q, e) \in Seq(Entry)
          BY <1>3, <5>1, AppendProperties
        <5> QED
          BY <5>2, LenProperties
      <4>4. e.release = release
        BY DEF e
      <4>5. k \in 1 .. Len(q) + 1
        BY <4>1, <4>3
      <4>6. CASE k = Len(q) + 1
        <5>1. \A m \in 1 .. k : m \in 1 .. Len(q) \/ m = Len(q) + 1
          BY <1>3, <4>6
        <5>2. \A m \in 1 .. k : Append(q, e)[m].release <= release
          BY <1>2, <1>3, <1>4, <4>3, <4>4, <5>1
        <5>3. Append(q, e)[k].release = release
          BY <4>3, <4>4, <4>6
        <5>4. compute_free'[c] = finish
          BY <1>1, <1>12
        <5> QED
          BY <1>2, <4>1, <4>2, <5>2, <5>3, <5>4
      <4>7. CASE k # Len(q) + 1
        <5>1. k \in 1 .. Len(q)
          BY <1>3, <4>5, <4>7
        <5>2. \A m \in 1 .. k : m \in 1 .. Len(q)
          BY <1>3, <5>1
        <5>3. /\ q[k].release <= release /\ q[k].release \in Nat
              /\ \A m \in 1 .. k : q[m].release <= q[k].release
          <6>1. \A m \in 1 .. k : fifo[r][i][m].release <= fifo[r][i][k].release
            BY <1>1, <1>3, <5>1 DEF IInv, ReleaseOrder, q
          <6> QED
            BY <1>3, <1>4, <5>1, <6>1 DEF q
        <5>4. compute_free'[c] = finish
          BY <1>1, <1>12
        <5>5. Append(q, e)[k] = q[k]
              /\ \A m \in 1 .. k : Append(q, e)[m] = q[m]
          BY <4>3, <5>1, <5>2
        <5>6. q[k].release <= finish
          BY <1>2, <5>3
        <5> QED
          BY <4>1, <4>2, <5>3, <5>4, <5>5, <5>6
      <4> QED
        BY <4>6, <4>7
    <3>4. (s = r /\ j = i) \/ fifo'[s][j] = fifo[s][j]
      BY <1>10, <1>11
    <3> QED
      BY <3>2, <3>3, <3>4
  <2>2. \A d \in Core : compute_free'[d] <= hw_latency'
    <3>1. \A d \in Core : compute_free[d] <= hw_latency
      BY DEF IInv, ReleaseOrder
    <3> QED
      BY <1>2, <1>12, <3>1
  <2> QED
    BY <2>1, <2>2 DEF ReleaseOrder
<1> QED
  BY <1>13, <1>14, <1>15, <1>16, <1>17 DEF IInv

LEMMA StutterIInv ==
  ASSUME IInv, UNCHANGED vars
  PROVE  IInv'
<1> USE DEF IInv, vars
<1>1. TypeOK'
  BY DEF TypeOK
<1>2. FlowsFinite' /\ BeforeFirst' /\ NoFault'
  BY DEF FlowsFinite, BeforeFirst, NoFault
<1>3. RingBound'
  BY DEF RingBound
<1>4. ReleaseOrder'
  BY DEF ReleaseOrder
<1> QED
  BY <1>1, <1>2, <1>3, <1>4

(* Every step keeps the invariant.                                         *)
LEMMA NextIInv ==
  ASSUME IInv, [Next]_vars
  PROVE  IInv'
<1>1. CASE StartTimestep
  BY <1>1, StartTimestepIInv
<1>2. CASE \E c \in Core, service \in NeuronServices :
              ProcessNeurons(c, service)
  BY <1>2, ProcessNeuronsIInv
<1>3. CASE TraverseAny
  <2>1. PICK src \in Sources, dst \in Destinations, core \in CoreOffset,
             t \in now .. now + SendSpread, delay \in Delays :
                Traverse(src, dst, core, t, delay)
    BY <1>3 DEF TraverseAny
  <2>2. t \in Nat
    BY TimeAssumption DEF IInv, TypeOK
  <2> QED
    BY <2>1, <2>2, TraverseIInv
<1>4. CASE \E service \in Services, sram \in SramLatencies :
              Receive(service, sram)
  BY <1>4, ReceiveIInv
<1>5. CASE \E service \in Services, sram \in SramLatencies :
              \E c \in Core : ReceiveDirect(c, service, sram)
  BY <1>5, ReceiveDirectIInv
<1>6. CASE UNCHANGED vars
  BY <1>6, StutterIInv
<1> QED
  BY <1>1, <1>2, <1>3, <1>4, <1>5, <1>6 DEF Next

THEOREM Invariance == Spec => []IInv
<1>1. IInv /\ [Next]_vars => IInv'
  BY NextIInv
<1> QED
  BY <1>1, InitIInv, PTL DEF Spec

(* Every variable keeps its type.                                          *)
THEOREM TypeCorrect == Spec => []TypeOK
<1>1. IInv => TypeOK
  BY DEF IInv
<1> QED
  BY <1>1, Invariance, PTL

(* Neither of the two exceptions of record_destination_processing          *)
(* (release order, ring capacity) can be thrown, whatever the mesh, the    *)
(* FIFO geometry, the traffic and the latencies are (router.cpp:354-365).  *)
THEOREM NeverThrows == Spec => []NoFault
<1>1. IInv => NoFault
  BY DEF IInv
<1> QED
  BY <1>1, Invariance, PTL

(* The ring of one FIFO is as large as the whole flow can get.             *)
THEOREM RingLargeEnough == Spec => []RingBound
<1>1. IInv => RingBound
  BY DEF IInv
<1> QED
  BY <1>1, Invariance, PTL

(* The FIFOs release in the order of their entries, before their core's    *)
(* pipeline is free and before the end of the recorded work.               *)
THEOREM InReleaseOrder == Spec => []ReleaseOrder
<1>1. IInv => ReleaseOrder
  BY DEF IInv
<1> QED
  BY <1>1, Invariance, PTL

(* No entry that delays packets of one timestep is left for the next: the  *)
(* barrier is after every release (simulator.cpp:437-439).                 *)
THEOREM NoBackpressureAcrossBarrier == Spec => BarrierDrains
<1> DEFINE Drained == \A r \in Destinations, i \in Fifo :
                         \A k \in DOMAIN fifo[r][i] :
                            fifo[r][i][k].release <= now'
<1>1. ASSUME IInv, [Next]_vars, timestep' # timestep
      PROVE  Drained
  <2>1. StartTimestep
    <3>1. \A c, service : ~ ProcessNeurons(c, service)
      BY <1>1 DEF ProcessNeurons
    <3>2. \A src, dst, core, t, delay : ~ Traverse(src, dst, core, t, delay)
      BY <1>1 DEF Traverse
    <3>3. \A service, sram : ~ Receive(service, sram)
      BY <1>1 DEF Receive
    <3>4. \A c, service, sram : ~ ReceiveDirect(c, service, sram)
      BY <1>1 DEF ReceiveDirect
    <3>5. ~ UNCHANGED vars
      BY <1>1 DEF vars
    <3> QED
      BY <1>1, <3>1, <3>2, <3>3, <3>4, <3>5 DEF Next, TraverseAny
  <2>2. hw_latency \in Nat /\ now' \in Nat /\ hw_latency <= now'
    BY <1>1, <2>1, TimeAssumption
       DEF IInv, TypeOK, BeforeFirst, StartTimestep, Barrier
  <2>3. ASSUME NEW r \in Destinations, NEW i \in Fifo,
               NEW k \in DOMAIN fifo[r][i]
        PROVE  fifo[r][i][k].release <= now'
    <3>1. fifo[r][i] \in Seq(Entry)
      BY <1>1 DEF IInv, TypeOK
    <3>2. fifo[r][i][k] \in Entry
      BY <3>1, ElementOfSeq, LenProperties
    <3>3. <<r, i[1]>> \in Core
      BY DEF Core, Fifo
    <3>4. /\ fifo[r][i][k].release <= compute_free[<<r, i[1]>>]
          /\ compute_free[<<r, i[1]>>] <= hw_latency
      BY <1>1, <3>3 DEF IInv, ReleaseOrder
    <3>5. fifo[r][i][k].release \in Nat /\ compute_free[<<r, i[1]>>] \in Nat
      BY <1>1, <3>2, <3>3 DEF Entry, IInv, TypeOK
    <3> QED
      BY <2>2, <3>4, <3>5
  <2> QED
    BY <2>3
<1>2. IInv /\ [Next]_vars => [timestep' # timestep => Drained]_vars
  BY <1>1
<1> QED
  BY <1>2, Invariance, PTL DEF Spec, BarrierDrains
=============================================================================
