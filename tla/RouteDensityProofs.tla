------------------------- MODULE RouteDensityProofs -------------------------
(***************************************************************************)
(* The incremental sums of RouteDensity, for every mesh, every traffic and *)
(* every latency: what is kept per port and in total is what the messages  *)
(* in flight add up to, and packets that look in the order of their send   *)
(* times see exactly the traffic in flight.                                *)
(***************************************************************************)
EXTENDS RouteDensity, SumTheorems

(***************************************************************************)
(* Sums over a bag: every member counts weight[m] as often as it is there. *)
(* The three sums of the model are of this form.                           *)
(***************************************************************************)
BagSum(bag, weight) ==
    SumFunctionOnSet([m \in DOMAIN bag |-> bag[m] * weight[m]], DOMAIN bag)

FiniteBag(bag) == IsABag(bag) /\ IsFiniteSet(DOMAIN bag)

(* The part of a bag with members in S.                                    *)
Part(bag, S) == [m \in S |-> bag[m]]

LEMMA TimesNat ==
  ASSUME NEW a \in Nat, NEW b \in Nat
  PROVE  a * b \in Nat
OBVIOUS

LEMMA BagSumNat ==
  ASSUME NEW bag, FiniteBag(bag), NEW weight, \A m \in DOMAIN bag : weight[m] \in Nat
  PROVE  BagSum(bag, weight) \in Nat
<1> DEFINE f == [m \in DOMAIN bag |-> bag[m] * weight[m]]
<1>1. \A m \in DOMAIN bag : f[m] \in Nat
  BY TimesNat DEF FiniteBag, IsABag
<1> HIDE DEF f
<1>2. SumFunctionOnSet(f, DOMAIN bag) \in Nat
  BY <1>1, SumNat DEF FiniteBag
<1> QED
  BY <1>2 DEF BagSum, f

LEMMA BagSumEmpty ==
  ASSUME NEW bag, DOMAIN bag = {}, NEW weight
  PROVE  BagSum(bag, weight) = 0
<1> DEFINE f == [m \in DOMAIN bag |-> bag[m] * weight[m]]
<1>1. SumFunctionOnSet(f, {}) = 0
  BY SumEmpty
<1> QED
  BY <1>1 DEF BagSum

(* Only the members of the bag matter of the weights.                      *)
LEMMA BagSumSame ==
  ASSUME NEW bag, FiniteBag(bag), NEW v, NEW w, \A m \in DOMAIN bag : v[m] = w[m]
  PROVE  BagSum(bag, v) = BagSum(bag, w)
<1> DEFINE f == [m \in DOMAIN bag |-> bag[m] * v[m]]
           g == [m \in DOMAIN bag |-> bag[m] * w[m]]
<1>1. f = g
  OBVIOUS
<1> QED
  BY <1>1 DEF BagSum

(* A part taken out of a bag takes its sum with it.                        *)
LEMMA BagSumSplit ==
  ASSUME NEW bag, FiniteBag(bag), NEW weight,
         \A m \in DOMAIN bag : weight[m] \in Nat, NEW S, S \subseteq DOMAIN bag
  PROVE  BagSum(Part(bag, DOMAIN bag \ S), weight)
            = BagSum(bag, weight) - BagSum(Part(bag, S), weight)
<1> DEFINE R == DOMAIN bag \ S
           f == [m \in DOMAIN bag |-> bag[m] * weight[m]]
           g == [m \in S |-> bag[m] * weight[m]]
           h == [m \in R |-> bag[m] * weight[m]]
           all == SumFunctionOnSet(f, DOMAIN bag)
           in == SumFunctionOnSet(f, S)
           out == SumFunctionOnSet(f, R)
<1>1. \A m \in DOMAIN bag : f[m] \in Int
  <2>1. \A m \in DOMAIN bag : f[m] \in Nat
    BY TimesNat DEF FiniteBag, IsABag
  <2> QED
    BY <2>1
<1>2. IsFiniteSet(S) /\ IsFiniteSet(R) /\ IsFiniteSet(DOMAIN bag)
  BY FS_Subset DEF FiniteBag
<1>3. (\A m \in S : g[m] = f[m]) /\ (\A m \in R : h[m] = f[m])
  OBVIOUS
<1>4. all = in + out
  <2> HIDE DEF f
  <2> QED
    BY <1>1, <1>2, SumSplit
<1>5. in \in Int /\ out \in Int
  <2>1. (\A m \in S : f[m] \in Int) /\ (\A m \in R : f[m] \in Int)
    BY <1>1
  <2> HIDE DEF f, R
  <2> QED
    BY <1>2, <2>1, SumInt
<1>6. in = SumFunctionOnSet(g, S) /\ out = SumFunctionOnSet(h, R)
  <2> HIDE DEF f, g, h, R
  <2> QED
    BY <1>2, <1>3, SumCongruence
<1>7. /\ BagSum(bag, weight) = all
      /\ BagSum(Part(bag, S), weight) = in
      /\ BagSum(Part(bag, R), weight) = out
  <2>1. DOMAIN Part(bag, S) = S /\ DOMAIN Part(bag, R) = R
    BY DEF Part
  <2>2. /\ g = [m \in DOMAIN Part(bag, S) |-> Part(bag, S)[m] * weight[m]]
        /\ h = [m \in DOMAIN Part(bag, R) |-> Part(bag, R)[m] * weight[m]]
    BY DEF Part
  <2> HIDE DEF g, h, R
  <2> QED
    BY <1>6, <2>1, <2>2 DEF BagSum
<1>8. BagSum(Part(bag, R), weight) = BagSum(bag, weight) - BagSum(Part(bag, S), weight)
  <2> HIDE DEF all, in, out, R
  <2> QED
    BY <1>4, <1>5, <1>7
<1> QED
  BY <1>8

(* One copy more of a member, new or not.                                  *)
LEMMA WithOne ==
  ASSUME NEW bag, FiniteBag(bag), NEW e
  PROVE  LET more == bag (+) SetToBag({e})
         IN  /\ FiniteBag(more) /\ DOMAIN more = DOMAIN bag \cup {e}
             /\ \A m \in DOMAIN bag \ {e} : more[m] = bag[m]
             /\ more[e] = (IF e \in DOMAIN bag THEN bag[e] ELSE 0) + 1
<1> DEFINE more == bag (+) SetToBag({e})
           value == [m \in DOMAIN bag \cup {e} |->
                        IF m = e THEN (IF e \in DOMAIN bag THEN bag[e] ELSE 0) + 1
                                 ELSE bag[m]]
<1>1. \A m \in DOMAIN bag : bag[m] \in Nat /\ bag[m] > 0
  BY DEF FiniteBag, IsABag
<1>2. more = value
  BY <1>1 DEF (+), SetToBag
<1>3. IsFiniteSet(DOMAIN bag \cup {e})
  BY FS_AddElement DEF FiniteBag
<1>4. IsABag(value)
  BY <1>1 DEF IsABag
<1> QED
  BY <1>2, <1>3, <1>4 DEF FiniteBag

LEMMA BagSumAdd ==
  ASSUME NEW bag, FiniteBag(bag), NEW e, NEW weight, weight[e] \in Nat,
         \A m \in DOMAIN bag : weight[m] \in Nat
  PROVE  BagSum(bag (+) SetToBag({e}), weight) = BagSum(bag, weight) + weight[e]
<1> DEFINE more == bag (+) SetToBag({e})
           D == DOMAIN bag
           E == DOMAIN more
           R == E \ {e}
           f == [m \in D |-> bag[m] * weight[m]]
           g == [m \in E |-> more[m] * weight[m]]
           rest == SumFunctionOnSet(g, R)
<1>1. /\ FiniteBag(more) /\ E = D \cup {e} /\ IsFiniteSet(E) /\ IsFiniteSet(D)
      /\ \A m \in D \ {e} : more[m] = bag[m]
      /\ more[e] = (IF e \in D THEN bag[e] ELSE 0) + 1
  BY WithOne DEF FiniteBag
<1> HIDE DEF more, E
<1>2. R = D \ {e} /\ e \in E
  BY <1>1
<1>3. \A m \in D : bag[m] \in Nat
  BY DEF FiniteBag, IsABag
<1>4. (\A m \in D : f[m] \in Int) /\ (\A m \in E : g[m] \in Int)
  <2>1. \A m \in D : f[m] \in Nat
    BY <1>3, TimesNat
  <2>2. \A m \in E : more[m] \in Nat /\ weight[m] \in Nat
    BY <1>1, <1>3
  <2>3. \A m \in E : g[m] \in Nat
    BY <2>2, TimesNat
  <2> QED
    BY <2>1, <2>3
<1>5. \A m \in R : g[m] = f[m]
  BY <1>1, <1>2
<1>6. IsFiniteSet(R) /\ rest \in Int
  <2>1. IsFiniteSet(R)
    BY <1>1, FS_Subset
  <2>2. \A m \in R : g[m] \in Int
    BY <1>4
  <2> HIDE DEF g, R
  <2> QED
    BY <2>1, <2>2, SumInt
<1>7. SumFunctionOnSet(g, E) = g[e] + rest
  <2> HIDE DEF g
  <2> QED
    BY <1>1, <1>2, <1>4, SumTake
<1>8. SumFunctionOnSet(f, R) = rest
  <2> HIDE DEF f, g, R
  <2> QED
    BY <1>5, <1>6, SumCongruence
<1>9. CASE e \in D
  <2>1. SumFunctionOnSet(f, D) = f[e] + SumFunctionOnSet(f, D \ {e})
    <3> HIDE DEF f, D
    <3> QED
      BY <1>1, <1>4, <1>9, SumTake
  <2>2. SumFunctionOnSet(f, D) = f[e] + rest
    BY <1>2, <1>8, <2>1
  <2>3. g[e] = (bag[e] + 1) * weight[e] /\ f[e] = bag[e] * weight[e]
    BY <1>1, <1>2, <1>9
  <2>4. (bag[e] + 1) * weight[e] = bag[e] * weight[e] + weight[e]
    BY <1>3, <1>9
  <2>5. f[e] \in Int /\ g[e] = f[e] + weight[e]
    BY <1>4, <1>9, <2>3, <2>4
  <2>6. SumFunctionOnSet(g, E) = SumFunctionOnSet(f, D) + weight[e]
    <3> HIDE DEF f, g, D, rest
    <3> QED
      BY <1>6, <1>7, <2>2, <2>5
  <2> QED
    BY <2>6 DEF BagSum, more, E
<1>10. CASE e \notin D
  <2>1. R = D /\ g[e] = weight[e]
    <3>1. R = D
      BY <1>2, <1>10
    <3>2. more[e] = 1
      BY <1>1, <1>10
    <3>3. g[e] = 1 * weight[e]
      BY <1>2, <3>2
    <3>4. 1 * weight[e] = weight[e]
      OBVIOUS
    <3> QED
      BY <3>1, <3>3, <3>4
  <2>2. SumFunctionOnSet(f, D) = rest
    BY <1>8, <2>1
  <2>3. SumFunctionOnSet(g, E) = SumFunctionOnSet(f, D) + weight[e]
    <3> HIDE DEF f, g, D, rest
    <3> QED
      BY <1>6, <1>7, <2>1, <2>2
  <2> QED
    BY <2>3 DEF BagSum, more, E
<1> QED
  BY <1>9, <1>10

(***************************************************************************)
(* Routes.                                                                 *)
(***************************************************************************)
LEMMA DistanceNat ==
  ASSUME NEW a \in Int, NEW b \in Int
  PROVE  Distance(a, b) \in Nat
BY DEF Distance

LEMMA TowardBetween ==
  ASSUME NEW n \in Int, NEW a \in 0 .. n, NEW b \in 0 .. n, NEW k \in 1 .. Distance(a, b)
  PROVE  Toward(a, b, k) \in 0 .. n
BY DEF Toward, Distance

LEMMA EndsOfFlow ==
  ASSUME NEW flow \in Flow
  PROVE  /\ flow.source \in Router /\ flow.destination \in Router
         /\ flow.core \in CoreOffset
         /\ flow.source[1] \in 0 .. Cols - 1 /\ flow.source[2] \in 0 .. Rows - 1
         /\ flow.destination[1] \in 0 .. Cols - 1
         /\ flow.destination[2] \in 0 .. Rows - 1
BY DensityAssumption DEF Flow, Router

LEMMA HopsNat ==
  ASSUME NEW flow \in Flow
  PROVE  /\ Hops(flow) \in Nat
         /\ Distance(flow.source[1], flow.destination[1]) \in Nat
         /\ Distance(flow.source[2], flow.destination[2]) \in Nat
<1>1. /\ flow.source[1] \in Int /\ flow.source[2] \in Int
      /\ flow.destination[1] \in Int /\ flow.destination[2] \in Int
  BY EndsOfFlow, DensityAssumption
<1>2. /\ Distance(flow.source[1], flow.destination[1]) \in Nat
      /\ Distance(flow.source[2], flow.destination[2]) \in Nat
  BY <1>1, DistanceNat
<1> QED
  BY <1>2 DEF Hops

LEMMA DivisionNat ==
  ASSUME NEW a \in Nat, NEW b \in Nat \ {0}
  PROVE  a \div b \in Nat
OBVIOUS

LEMMA WeightNat ==
  ASSUME NEW flow \in Flow
  PROVE  Weight(flow) \in Nat
<1>1. Hops(flow) + 2 \in Nat \ {0}
  BY HopsNat
<1> QED
  BY <1>1, DivisionNat, DensityAssumption DEF Weight

(* A route consists of finitely many ports of the mesh.                    *)
LEMMA RouteInMesh ==
  ASSUME NEW flow \in Flow
  PROVE  Route(flow) \subseteq Port /\ IsFiniteSet(Route(flow))
<1> DEFINE s == flow.source
           d == flow.destination
           row == Distance(s[1], d[1])
           column == Distance(s[2], d[2])
           rowPort(k) == <<<<Toward(s[1], d[1], k), s[2]>>, <<RowDirection(flow), 0>>>>
           columnPort(k) == <<<<d[1], Toward(s[2], d[2], k)>>,
                              <<ColumnDirection(flow), 0>>>>
           rowPorts == {rowPort(k) : k \in 1 .. row}
           columnPorts == {columnPort(k) : k \in 1 .. column}
<1>1. row \in Nat /\ column \in Nat
  BY HopsNat
<1>2. Route(flow) = {CorePort(flow)} \cup rowPorts \cup columnPorts
  BY DEF Route
<1>3. CorePort(flow) \in Port
  BY EndsOfFlow DEF CorePort, Port
<1>4. \A k \in 1 .. row : rowPort(k) \in Port
  <2> TAKE k \in 1 .. row
  <2>1. Toward(s[1], d[1], k) \in 0 .. Cols - 1
    <3>1. Cols - 1 \in Int
      BY DensityAssumption
    <3> QED
      BY <3>1, EndsOfFlow, TowardBetween
  <2>2. RowDirection(flow) \in Directions
    BY DEF RowDirection, Directions
  <2> QED
    BY <2>1, <2>2, EndsOfFlow DEF Port, Router
<1>5. \A k \in 1 .. column : columnPort(k) \in Port
  <2> TAKE k \in 1 .. column
  <2>1. Toward(s[2], d[2], k) \in 0 .. Rows - 1
    <3>1. Rows - 1 \in Int
      BY DensityAssumption
    <3> QED
      BY <3>1, EndsOfFlow, TowardBetween
  <2>2. ColumnDirection(flow) \in Directions
    BY DEF ColumnDirection, Directions
  <2> QED
    BY <2>1, <2>2, EndsOfFlow DEF Port, Router
<1>6. IsFiniteSet(rowPorts) /\ IsFiniteSet(columnPorts)
  <2>1. IsFiniteSet(1 .. row) /\ IsFiniteSet(1 .. column)
    BY <1>1, FS_Interval
  <2>2. [k \in 1 .. row |-> rowPort(k)] \in Surjection(1 .. row, rowPorts)
    BY DEF Surjection
  <2>3. [k \in 1 .. column |-> columnPort(k)]
            \in Surjection(1 .. column, columnPorts)
    BY DEF Surjection
  <2> HIDE DEF rowPorts, columnPorts, rowPort, columnPort, row, column
  <2> QED
    BY <2>1, <2>2, <2>3, FS_Surjection
<1>7. IsFiniteSet(Route(flow))
  <2>1. IsFiniteSet({CorePort(flow)})
    BY FS_Singleton
  <2> HIDE DEF rowPorts, columnPorts
  <2>2. IsFiniteSet({CorePort(flow)} \cup rowPorts)
    BY <1>6, <2>1, FS_Union
  <2> QED
    BY <1>2, <1>6, <2>2, FS_Union
<1>8. Route(flow) \subseteq Port
  <2>1. rowPorts \subseteq Port /\ columnPorts \subseteq Port
    BY <1>4, <1>5
  <2> HIDE DEF rowPorts, columnPorts
  <2> QED
    BY <1>2, <1>3, <2>1
<1> QED
  BY <1>7, <1>8

LEMMA LatencyNat ==
  ASSUME NEW flow \in Flow
  PROVE  MinimumLatency(flow) \in Nat
<1>1. /\ RowDirection(flow) \in Directions /\ ColumnDirection(flow) \in Directions
      /\ LinkLatency \in [Directions -> Nat] /\ RouterLatency \in Nat
  BY DensityAssumption DEF RowDirection, ColumnDirection, Directions
<1>2. LinkLatency[RowDirection(flow)] \in Nat /\ LinkLatency[ColumnDirection(flow)] \in Nat
  BY <1>1
<1>3. (Hops(flow) + 1) * RouterLatency \in Nat
  BY HopsNat, <1>1, TimesNat
<1>4. Distance(flow.source[1], flow.destination[1]) * LinkLatency[RowDirection(flow)] \in Nat
  BY HopsNat, <1>2, TimesNat
<1>5. Distance(flow.source[2], flow.destination[2]) * LinkLatency[ColumnDirection(flow)]
          \in Nat
  BY HopsNat, <1>2, TimesNat
<1> QED
  BY <1>3, <1>4, <1>5 DEF MinimumLatency

LEMMA CeilNat ==
  ASSUME NEW a \in Nat, NEW b \in Nat \ {0}
  PROVE  CeilDiv(a, b) \in Nat
BY DivisionNat DEF CeilDiv

LEMMA PositiveTimes ==
  ASSUME NEW a \in Nat \ {0}, NEW b \in Nat \ {0}
  PROVE  a * b \in Nat \ {0}
OBVIOUS

(* A packet is never sent earlier, nor faster than the light load allows.  *)
LEMMA DelaysNat ==
  ASSUME NEW flow \in Flow, NEW dens \in Nat, NEW service \in Nat, NEW count \in Nat
  PROVE  /\ Blocking(flow, dens, service, count) \in Nat
         /\ Congestion(flow, dens, service, count) \in Nat
<1> DEFINE room == (Hops(flow) + 1) * FifoDepth * Scale
           above == Later(0, dens - room)
           many == Later(1, count)
<1>1. Scale \in Nat \ {0} /\ FifoDepth \in Nat \ {0} /\ Hops(flow) + 1 \in Nat \ {0}
  BY HopsNat, DensityAssumption
<1>2. many \in Nat \ {0} /\ Scale * many \in Nat \ {0}
  <2>1. many \in Nat \ {0}
    BY DEF Later
  <2> HIDE DEF many
  <2> QED
    BY <1>1, <2>1, PositiveTimes
<1>3. room \in Nat
  BY <1>1, TimesNat
<1>4. above \in Nat
  <2> HIDE DEF room
  <2> QED
    BY <1>3 DEF Later
<1>5. above * service \in Nat /\ dens * service \in Nat
  <2> HIDE DEF above
  <2> QED
    BY <1>4, TimesNat
<1>6. Scale * many * (Hops(flow) + 1) \in Nat \ {0}
  <2> HIDE DEF many
  <2> QED
    BY <1>1, <1>2, PositiveTimes
<1>7. CeilDiv(above * service, Scale * many) \in Nat
  <2> HIDE DEF above, many
  <2> QED
    BY <1>2, <1>5, CeilNat
<1>8. CeilDiv(dens * service, Scale * many * (Hops(flow) + 1)) \in Nat
  <2> HIDE DEF many
  <2> QED
    BY <1>5, <1>6, CeilNat
<1> QED
  BY <1>7, <1>8 DEF Blocking, Congestion

(***************************************************************************)
(* The sums of the model as sums over bags.                                *)
(***************************************************************************)
PortWeight(p) == [m \in Message |-> IF p \in Route(m.flow) THEN Weight(m.flow) ELSE 0]
ServiceWeight == [m \in Message |-> m.service]
OneEach == [m \in Message |-> 1]

LEMMA WeightsNat ==
  ASSUME NEW m \in Message, NEW p \in Port
  PROVE  PortWeight(p)[m] \in Nat /\ ServiceWeight[m] \in Nat /\ OneEach[m] \in Nat
<1>1. m.flow \in Flow /\ m.service \in Nat /\ m.release \in Nat
  BY DEF Message
<1>2. Weight(m.flow) \in Nat
  BY <1>1, WeightNat
<1> QED
  BY <1>1, <1>2 DEF PortWeight, ServiceWeight, OneEach

LEMMA LoadIsBagSum ==
  ASSUME NEW bag, FiniteBag(bag), DOMAIN bag \subseteq Message, NEW p \in Port
  PROVE  Load(bag, p) = BagSum(bag, PortWeight(p))
<1> DEFINE D == DOMAIN bag
           On == {m \in D : p \in Route(m.flow)}
           Off == D \ On
           f == [m \in On |-> bag[m] * Weight(m.flow)]
           g == [m \in D |-> bag[m] * PortWeight(p)[m]]
<1>1. Load(bag, p) = SumFunctionOnSet(f, On)
  BY ZenonT(30) DEF Load, SumFunctionOnSet, FoldFunctionOnSet, MapThenFoldSet, MapThenSumSet
<1>2. IsFiniteSet(D) /\ IsFiniteSet(On) /\ On \subseteq D /\ IsFiniteSet(Off)
  <2>1. IsFiniteSet(D) /\ On \subseteq D /\ Off \subseteq D
    BY DEF FiniteBag
  <2> HIDE DEF On, D, Off
  <2> QED
    BY <2>1, FS_Subset
<1>3. \A m \in D : bag[m] \in Nat /\ PortWeight(p)[m] \in Nat
  BY WeightsNat DEF FiniteBag, IsABag
<1>4. \A m \in D : g[m] \in Nat
  BY <1>3, TimesNat
<1>5. \A m \in On : f[m] = g[m]
  <2>1. \A m \in On : PortWeight(p)[m] = Weight(m.flow)
    BY DEF PortWeight
  <2> QED
    BY <2>1
<1>6. \A m \in Off : g[m] = 0
  <2>1. \A m \in Off : PortWeight(p)[m] = 0
    BY DEF PortWeight
  <2>2. \A m \in Off : bag[m] * 0 = 0
    BY <1>3
  <2> QED
    BY <2>1, <2>2
<1>7. SumFunctionOnSet(g, D) = SumFunctionOnSet(g, On) + SumFunctionOnSet(g, Off)
  <2>1. \A m \in D : g[m] \in Int
    BY <1>4
  <2> HIDE DEF g, On, D
  <2> QED
    BY <1>2, <2>1, SumSplit
<1>8. SumFunctionOnSet(g, Off) = 0
  <2> HIDE DEF g, Off
  <2> QED
    BY <1>2, <1>6, SumZero
<1>9. SumFunctionOnSet(f, On) = SumFunctionOnSet(g, On)
  <2> HIDE DEF f, g, On
  <2> QED
    BY <1>2, <1>5, SumCongruence
<1>10. SumFunctionOnSet(g, On) \in Int
  <2>1. \A m \in On : g[m] \in Int
    BY <1>4
  <2> HIDE DEF g, On
  <2> QED
    BY <1>2, <2>1, SumInt
<1>11. SumFunctionOnSet(f, On) = SumFunctionOnSet(g, D)
  <2> HIDE DEF f, g, On, Off, D
  <2> QED
    BY <1>7, <1>8, <1>9, <1>10
<1> QED
  BY <1>1, <1>11 DEF BagSum

LEMMA ServiceIsBagSum ==
  ASSUME NEW bag, DOMAIN bag \subseteq Message
  PROVE  ServiceOf(bag) = BagSum(bag, ServiceWeight)
<1> DEFINE f == [m \in DOMAIN bag |-> bag[m] * m.service]
<1>1. ServiceOf(bag) = SumFunctionOnSet(f, DOMAIN bag)
  BY Zenon DEF ServiceOf, SumFunctionOnSet, FoldFunctionOnSet, MapThenFoldSet, MapThenSumSet
<1>2. f = [m \in DOMAIN bag |-> bag[m] * ServiceWeight[m]]
  BY DEF ServiceWeight
<1> QED
  BY <1>1, <1>2 DEF BagSum

LEMMA CountIsBagSum ==
  ASSUME NEW bag, IsABag(bag), DOMAIN bag \subseteq Message
  PROVE  BagCardinality(bag) = BagSum(bag, OneEach)
<1>1. BagCardinality(bag) = SumFunctionOnSet(bag, DOMAIN bag)
  BY DEF BagCardinality, SumFunctionOnSet, FoldFunctionOnSet, MapThenFoldSet
<1>2. \A m \in DOMAIN bag : bag[m] \in Nat /\ OneEach[m] = 1
  BY DEF IsABag, OneEach
<1>3. [m \in DOMAIN bag |-> bag[m] * OneEach[m]] = bag
  <2>1. \A m \in DOMAIN bag : bag[m] * OneEach[m] = bag[m]
    BY <1>2
  <2>2. bag = [m \in DOMAIN bag |-> bag[m]]
    BY DEF IsABag
  <2> QED
    BY <2>1, <2>2
<1> QED
  BY <1>1, <1>3 DEF BagSum

(* What the three sums of a bag are.                                       *)
LEMMA SumsNat ==
  ASSUME NEW bag, FiniteBag(bag), DOMAIN bag \subseteq Message
  PROVE  /\ \A p \in Port : Load(bag, p) \in Nat
         /\ ServiceOf(bag) \in Nat
         /\ BagCardinality(bag) \in Nat
<1>1. \A p \in Port : \A m \in DOMAIN bag :
         PortWeight(p)[m] \in Nat /\ ServiceWeight[m] \in Nat /\ OneEach[m] \in Nat
  BY WeightsNat
<1>2. \A p \in Port : BagSum(bag, PortWeight(p)) \in Nat
  BY <1>1, BagSumNat
<1>3. (\A m \in DOMAIN bag : ServiceWeight[m] \in Nat /\ OneEach[m] \in Nat)
  BY DEF ServiceWeight, OneEach, Message
<1>4. BagSum(bag, ServiceWeight) \in Nat /\ BagSum(bag, OneEach) \in Nat
  BY <1>3, BagSumNat
<1> QED
  BY <1>2, <1>4, LoadIsBagSum, ServiceIsBagSum, CountIsBagSum DEF FiniteBag

(* Taking a part out of a bag takes its sums away.                         *)
LEMMA PartIsBag ==
  ASSUME NEW bag, FiniteBag(bag), NEW S, S \subseteq DOMAIN bag
  PROVE  FiniteBag(Part(bag, S)) /\ DOMAIN Part(bag, S) = S
BY FS_Subset DEF FiniteBag, IsABag, Part

LEMMA SumsWithout ==
  ASSUME NEW bag, FiniteBag(bag), DOMAIN bag \subseteq Message,
         NEW S, S \subseteq DOMAIN bag
  PROVE  LET gone == Part(bag, S)
             left == Part(bag, DOMAIN bag \ S)
         IN  /\ \A p \in Port : Load(left, p) = Load(bag, p) - Load(gone, p)
             /\ ServiceOf(left) = ServiceOf(bag) - ServiceOf(gone)
             /\ BagCardinality(left) = BagCardinality(bag) - BagCardinality(gone)
<1> DEFINE gone == Part(bag, S)
           left == Part(bag, DOMAIN bag \ S)
<1>1. /\ FiniteBag(gone) /\ DOMAIN gone \subseteq Message
      /\ FiniteBag(left) /\ DOMAIN left \subseteq Message
  BY PartIsBag
<1>2. \A p \in Port : Load(left, p) = Load(bag, p) - Load(gone, p)
  <2> TAKE p \in Port
  <2>1. \A m \in DOMAIN bag : PortWeight(p)[m] \in Nat
    BY WeightsNat
  <2>2. BagSum(left, PortWeight(p)) = BagSum(bag, PortWeight(p)) - BagSum(gone, PortWeight(p))
    BY <2>1, BagSumSplit
  <2> HIDE DEF gone, left
  <2> QED
    BY <1>1, <2>2, LoadIsBagSum
<1>3. \A m \in DOMAIN bag : ServiceWeight[m] \in Nat /\ OneEach[m] \in Nat
  BY DEF ServiceWeight, OneEach, Message
<1>4. ServiceOf(left) = ServiceOf(bag) - ServiceOf(gone)
  <2>1. BagSum(left, ServiceWeight) = BagSum(bag, ServiceWeight) - BagSum(gone, ServiceWeight)
    BY <1>3, BagSumSplit
  <2> HIDE DEF gone, left
  <2> QED
    BY <1>1, <2>1, ServiceIsBagSum
<1>5. BagCardinality(left) = BagCardinality(bag) - BagCardinality(gone)
  <2>1. BagSum(left, OneEach) = BagSum(bag, OneEach) - BagSum(gone, OneEach)
    BY <1>3, BagSumSplit
  <2> HIDE DEF gone, left
  <2> QED
    BY <1>1, <2>1, CountIsBagSum DEF FiniteBag
<1> QED
  BY <1>2, <1>4, <1>5

(* A message more adds its weight to the ports of its route.               *)
LEMMA SumsWith ==
  ASSUME NEW bag, FiniteBag(bag), DOMAIN bag \subseteq Message, NEW m \in Message
  PROVE  LET more == bag (+) SetToBag({m})
         IN  /\ FiniteBag(more) /\ DOMAIN more = DOMAIN bag \cup {m}
             /\ \A p \in Port : Load(more, p) = Load(bag, p)
                   + (IF p \in Route(m.flow) THEN Weight(m.flow) ELSE 0)
             /\ ServiceOf(more) = ServiceOf(bag) + m.service
             /\ BagCardinality(more) = BagCardinality(bag) + 1
<1> DEFINE more == bag (+) SetToBag({m})
<1>1. FiniteBag(more) /\ DOMAIN more = DOMAIN bag \cup {m}
  BY WithOne
<1>2. DOMAIN more \subseteq Message
  BY <1>1
<1>3. \A p \in Port : Load(more, p) = Load(bag, p)
         + (IF p \in Route(m.flow) THEN Weight(m.flow) ELSE 0)
  <2> TAKE p \in Port
  <2>1. (\A x \in DOMAIN bag : PortWeight(p)[x] \in Nat) /\ PortWeight(p)[m] \in Nat
    BY WeightsNat
  <2>2. BagSum(more, PortWeight(p)) = BagSum(bag, PortWeight(p)) + PortWeight(p)[m]
    BY <2>1, BagSumAdd
  <2>3. PortWeight(p)[m] = IF p \in Route(m.flow) THEN Weight(m.flow) ELSE 0
    BY DEF PortWeight
  <2> HIDE DEF more
  <2> QED
    BY <1>1, <1>2, <2>2, <2>3, LoadIsBagSum
<1>4. /\ \A x \in DOMAIN bag : ServiceWeight[x] \in Nat /\ OneEach[x] \in Nat
      /\ ServiceWeight[m] = m.service /\ m.service \in Nat /\ OneEach[m] = 1
  BY DEF ServiceWeight, OneEach, Message
<1>5. ServiceOf(more) = ServiceOf(bag) + m.service
  <2>1. BagSum(more, ServiceWeight) = BagSum(bag, ServiceWeight) + m.service
    BY <1>4, BagSumAdd
  <2> HIDE DEF more
  <2> QED
    BY <1>2, <2>1, ServiceIsBagSum
<1>6. BagCardinality(more) = BagCardinality(bag) + 1
  <2>1. BagSum(more, OneEach) = BagSum(bag, OneEach) + 1
    BY <1>4, BagSumAdd
  <2> HIDE DEF more
  <2> QED
    BY <1>1, <1>2, <2>1, CountIsBagSum DEF FiniteBag
<1> QED
  BY <1>1, <1>3, <1>5, <1>6

(***************************************************************************)
(* The invariants: the sums, and the order of the send times.              *)
(***************************************************************************)
Nondecreasing(seq) == \A i, j \in DOMAIN seq : i < j => seq[i] <= seq[j]

BagInv ==
    /\ FiniteBag(in_flight) /\ DOMAIN in_flight \subseteq Message
    /\ IsABag(recorded) /\ DOMAIN recorded \subseteq Message
    /\ density \in [Port -> Nat]
    /\ DensityAccounting

TimeInv ==
    /\ {timestep, now, hw_latency, clock} \subseteq Nat
    /\ train \in [SourceCore -> Seq(Nat)]
    /\ offset \in [SourceCore -> Nat]
    /\ pending = NoMessage \/ (pending.flow \in Flow /\ pending.arrival \in Nat)

(* No packet left in a FIFO is sent before the one popped last, and the    *)
(* latency of the run covers every message in flight.                      *)
OrderInv ==
    /\ \A c \in SourceCore :
          /\ Nondecreasing(train[c])
          /\ train[c] # <<>> => clock <= HeadTime(c)
    /\ pending = NoMessage => clock <= hw_latency
    /\ pending # NoMessage => clock <= pending.arrival
    /\ \A m \in DOMAIN in_flight : m.release <= hw_latency
    /\ timestep = 0 => /\ pending = NoMessage
                       /\ \A c \in SourceCore : train[c] = <<>>
                       /\ DOMAIN in_flight = {}
                       /\ clock = 0

(* What is in flight and what was recorded agree beyond the last send.     *)
VisibleInv ==
    /\ After(in_flight, clock) = After(recorded, clock)
    /\ pending # NoMessage => \A m \in DOMAIN in_flight : m.release > clock

LEMMA NoMessageHasNoFlow == NoMessage.flow \notin Flow
<1>1. ASSUME NoMessage.flow \in Flow PROVE FALSE
  <2>1. <<>> \in Flow
    BY <1>1 DEF NoMessage
  <2>2. DOMAIN <<>> = {}
    OBVIOUS
  <2>3. \A flow \in Flow : "core" \in DOMAIN flow
    BY DEF Flow
  <2> QED
    BY <2>1, <2>2, <2>3
<1> QED
  BY <1>1

(* The head of a FIFO and the rest of it.                                  *)
LEMMA HeadOfTrain ==
  ASSUME NEW seq \in Seq(Nat), seq # <<>>
  PROVE  Head(seq) \in Nat /\ Tail(seq) \in Seq(Nat) /\ Len(seq) \in Nat \ {0}
OBVIOUS

(* What a packet finds when it is sent: the bag without the messages that  *)
(* are due and its sums, and waits that are not negative.                  *)
LEMMA SendFacts ==
  ASSUME BagInv, TimeInv, NEW c \in SourceCore, NEW destination \in Destinations,
         Send(c, destination)
  PROVE  LET t == HeadTime(c)
             left == Part(in_flight, DOMAIN in_flight \ DueAt(t))
         IN  /\ t \in Nat
             /\ FiniteBag(left) /\ in_flight' = left
             /\ DOMAIN left = DOMAIN in_flight \ DueAt(t)
             /\ density' \in [Port -> Nat]
             /\ \A p \in Port : density'[p] = Load(left, p)
             /\ in_flight_service' = ServiceOf(left)
             /\ in_flight_count' = BagCardinality(left)
             /\ \E blocking \in Nat : offset' = [offset EXCEPT ![c] = @ + blocking]
             /\ pending' # NoMessage /\ pending'.flow \in Flow
             /\ pending'.arrival \in Nat /\ pending'.arrival >= t
<1> DEFINE t        == HeadTime(c)
           flow     == [source |-> c[1], core |-> c[2], destination |-> destination]
           due      == DueAt(t)
           retired  == Part(in_flight, due)
           left     == Part(in_flight, DOMAIN in_flight \ due)
           rest     == [p \in Port |-> density[p] - Load(retired, p)]
           service  == in_flight_service - ServiceOf(retired)
           count    == in_flight_count - BagCardinality(retired)
           dens     == DensityOn(rest, flow)
           blocking == Blocking(flow, dens, service, count)
           slowed   == Later(MinimumLatency(flow), Congestion(flow, dens, service, count))
<1>1. /\ train[c] # <<>>
      /\ offset' = [offset EXCEPT ![c] = @ + blocking]
      /\ density' = rest
      /\ in_flight' = left
      /\ in_flight_service' = service
      /\ in_flight_count' = count
      /\ pending' = [flow |-> flow, arrival |-> t + blocking + slowed]
  BY DEF Send, IsTop, Part
<1>2. t \in Nat
  <2>1. Head(train[c]) \in Nat /\ offset[c] \in Nat
    BY <1>1, HeadOfTrain DEF TimeInv
  <2> QED
    BY <2>1 DEF HeadTime
<1>3. flow \in Flow
  BY DEF Flow, SourceCore
<1>4. due \subseteq DOMAIN in_flight
  BY DEF DueAt
<1>5. FiniteBag(left) /\ DOMAIN left = DOMAIN in_flight \ due
  <2>1. FiniteBag(in_flight)
    BY DEF BagInv
  <2> HIDE DEF due
  <2> QED
    BY <2>1, <1>4, PartIsBag
<1>6. /\ \A p \in Port : rest[p] = Load(left, p)
      /\ service = ServiceOf(left) /\ count = BagCardinality(left)
  <2>1. FiniteBag(in_flight) /\ DOMAIN in_flight \subseteq Message
    BY DEF BagInv
  <2>2. /\ \A p \in Port : Load(left, p) = Load(in_flight, p) - Load(retired, p)
        /\ ServiceOf(left) = ServiceOf(in_flight) - ServiceOf(retired)
        /\ BagCardinality(left) = BagCardinality(in_flight) - BagCardinality(retired)
    <3> HIDE DEF due
    <3> QED
      BY <2>1, <1>4, SumsWithout
  <2> HIDE DEF left, retired
  <2> QED
    BY <2>2 DEF BagInv, DensityAccounting
<1>7. (\A p \in Port : rest[p] \in Nat) /\ service \in Nat /\ count \in Nat
  <2>1. DOMAIN left \subseteq Message
    BY <1>5 DEF BagInv
  <2> HIDE DEF left, rest, service, count
  <2> QED
    BY <1>5, <1>6, <2>1, SumsNat
<1>8. dens \in Nat
  <2> DEFINE f == [p \in Route(flow) |-> rest[p]]
  <2>1. dens = SumFunctionOnSet(f, Route(flow))
    <3> HIDE DEF rest, flow
    <3> QED
      BY Zenon DEF DensityOn, SumFunctionOnSet, FoldFunctionOnSet, MapThenFoldSet,
                   MapThenSumSet
  <2>2. Route(flow) \subseteq Port /\ IsFiniteSet(Route(flow))
    <3> HIDE DEF flow
    <3> QED
      BY <1>3, RouteInMesh
  <2>3. \A p \in Route(flow) : f[p] \in Nat
    <3> HIDE DEF rest, flow
    <3> QED
      BY <1>7, <2>2
  <2>4. SumFunctionOnSet(f, Route(flow)) \in Nat
    <3> HIDE DEF f, flow
    <3> QED
      BY <2>2, <2>3, SumNat
  <2> HIDE DEF f, dens, flow
  <2> QED
    BY <2>1, <2>4
<1>9. blocking \in Nat /\ Congestion(flow, dens, service, count) \in Nat
  <2> HIDE DEF flow, dens, service, count
  <2> QED
    BY <1>3, <1>7, <1>8, DelaysNat
<1>10. slowed \in Nat
  <2> HIDE DEF flow, dens, service, count
  <2>1. MinimumLatency(flow) \in Nat
    BY <1>3, LatencyNat
  <2> QED
    BY <1>9, <2>1 DEF Later
<1>11. /\ pending'.flow = flow /\ pending'.arrival = t + blocking + slowed
  <2> HIDE DEF flow, blocking, slowed, t
  <2> QED
    BY <1>1
<1>12. /\ pending' # NoMessage /\ pending'.flow \in Flow
       /\ pending'.arrival \in Nat /\ pending'.arrival >= t
  <2> HIDE DEF flow, blocking, slowed, t
  <2> QED
    BY <1>2, <1>3, <1>9, <1>10, <1>11, NoMessageHasNoFlow
<1>13. density' \in [Port -> Nat]
  <2>1. rest = [p \in Port |-> rest[p]]
    OBVIOUS
  <2> HIDE DEF rest
  <2> QED
    BY <1>1, <1>7, <2>1
<1>14. \E b \in Nat : offset' = [offset EXCEPT ![c] = @ + b]
  <2> HIDE DEF blocking
  <2> QED
    BY <1>1, <1>9
<1>15. /\ \A p \in Port : density'[p] = Load(left, p)
       /\ in_flight_service' = ServiceOf(left)
       /\ in_flight_count' = BagCardinality(left)
  <2> HIDE DEF left, rest, service, count
  <2> QED
    BY <1>1, <1>6
<1> HIDE DEF left, t, rest, service, count, blocking, slowed, flow
<1>16. in_flight' = left
  BY <1>1
<1> QED
  BY <1>2, <1>5, <1>12, <1>13, <1>14, <1>15, <1>16 DEF left, t, due

LEMMA RecordFacts ==
  ASSUME BagInv, TimeInv, NEW wait \in Waits, NEW service \in Services,
         Record(wait, service)
  PROVE  \E m \in Message :
            /\ m.release >= pending.arrival
            /\ density' = AddMessage(m)
            /\ in_flight' = in_flight (+) SetToBag({m})
            /\ recorded' = recorded (+) SetToBag({m})
            /\ in_flight_service' = in_flight_service + m.service
            /\ in_flight_count' = in_flight_count + 1
            /\ hw_latency' = Later(hw_latency, m.release + m.service)
            /\ pending' = NoMessage
<1> DEFINE m == [flow |-> pending.flow, release |-> pending.arrival + wait,
                 service |-> service]
<1>1. /\ pending.flow \in Flow /\ pending.arrival \in Nat
      /\ wait \in Nat /\ service \in Nat
  BY DensityAssumption DEF Record, TimeInv
<1>2. m \in Message /\ m.release >= pending.arrival
  BY <1>1 DEF Message
<1>3. /\ density' = AddMessage(m)
      /\ in_flight' = in_flight (+) SetToBag({m})
      /\ recorded' = recorded (+) SetToBag({m})
      /\ in_flight_service' = in_flight_service + m.service
      /\ in_flight_count' = in_flight_count + 1
      /\ hw_latency' = Later(hw_latency, m.release + m.service)
      /\ pending' = NoMessage
  BY DEF Record
<1> QED
  BY <1>2, <1>3

LEMMA AfterIsBag ==
  ASSUME NEW bag, IsABag(bag), NEW t
  PROVE  IsABag(After(bag, t)) /\ DOMAIN After(bag, t) \subseteq DOMAIN bag
BY DEF After, IsABag

LEMMA BagInit ==
  ASSUME Init
  PROVE  BagInv
<1>1. DOMAIN EmptyBag = {} /\ IsABag(EmptyBag)
  BY DEF EmptyBag, SetToBag, IsABag
<1>2. FiniteBag(EmptyBag)
  BY <1>1, FS_EmptySet DEF FiniteBag
<1>3. \A w : BagSum(EmptyBag, w) = 0
  BY <1>1, BagSumEmpty
<1>4. \A p \in Port : Load(EmptyBag, p) = 0
  BY <1>1, <1>2, <1>3, LoadIsBagSum
<1>5. ServiceOf(EmptyBag) = 0 /\ BagCardinality(EmptyBag) = 0
  BY <1>1, <1>3, ServiceIsBagSum, CountIsBagSum
<1> QED
  BY <1>1, <1>2, <1>4, <1>5 DEF Init, BagInv, DensityAccounting

(* The sums are those of the bag after every step: a packet takes away     *)
(* what the messages it retires have put there, and nothing else.          *)
LEMMA BagStep ==
  ASSUME BagInv, TimeInv, [Next]_vars
  PROVE  BagInv'
<1>1. CASE StartTimestep
  <2>1. UNCHANGED table /\ recorded' = After(recorded, now')
    BY <1>1 DEF StartTimestep
  <2>2. IsABag(recorded') /\ DOMAIN recorded' \subseteq Message
    BY <2>1, AfterIsBag DEF BagInv
  <2> QED
    BY <2>1, <2>2 DEF BagInv, DensityAccounting, table
<1>2. ASSUME NEW c \in SourceCore, NEW destination \in Destinations,
             Send(c, destination)
      PROVE  BagInv'
  <2> DEFINE left == Part(in_flight, DOMAIN in_flight \ DueAt(HeadTime(c)))
  <2>1. /\ FiniteBag(left) /\ in_flight' = left
        /\ DOMAIN left \subseteq DOMAIN in_flight
        /\ density' \in [Port -> Nat]
        /\ \A p \in Port : density'[p] = Load(left, p)
        /\ in_flight_service' = ServiceOf(left)
        /\ in_flight_count' = BagCardinality(left)
    BY <1>2, SendFacts
  <2>2. recorded' = recorded
    BY <1>2 DEF Send
  <2> HIDE DEF left
  <2> QED
    BY <2>1, <2>2 DEF BagInv, DensityAccounting
<1>3. ASSUME NEW wait \in Waits, NEW service \in Services, Record(wait, service)
      PROVE  BagInv'
  <2>1. PICK m \in Message :
           /\ density' = AddMessage(m)
           /\ in_flight' = in_flight (+) SetToBag({m})
           /\ recorded' = recorded (+) SetToBag({m})
           /\ in_flight_service' = in_flight_service + m.service
           /\ in_flight_count' = in_flight_count + 1
    BY <1>3, RecordFacts
  <2> DEFINE more == in_flight (+) SetToBag({m})
  <2>2. /\ FiniteBag(more) /\ DOMAIN more = DOMAIN in_flight \cup {m}
        /\ \A p \in Port : Load(more, p) = Load(in_flight, p)
              + (IF p \in Route(m.flow) THEN Weight(m.flow) ELSE 0)
        /\ ServiceOf(more) = ServiceOf(in_flight) + m.service
        /\ BagCardinality(more) = BagCardinality(in_flight) + 1
    BY SumsWith DEF BagInv
  <2>3. in_flight' = more
    BY <2>1
  <2> HIDE DEF more
  <2>4. DOMAIN in_flight' \subseteq Message
    BY <2>2, <2>3 DEF BagInv
  <2>5. IsABag(recorded') /\ DOMAIN recorded' \subseteq Message
    <3>1. \A x \in DOMAIN recorded : recorded[x] \in Nat /\ recorded[x] > 0
      BY DEF BagInv, IsABag
    <3>2. recorded' = [x \in DOMAIN recorded \cup {m} |->
                          (IF x \in DOMAIN recorded THEN recorded[x] ELSE 0)
                            + (IF x = m THEN 1 ELSE 0)]
      BY <2>1 DEF (+), SetToBag
    <3> QED
      BY <3>1, <3>2 DEF BagInv, IsABag
  <2>6. \A p \in Port : density'[p] = Load(more, p)
    <3> TAKE p \in Port
    <3>1. density'[p] = density[p] + IF p \in Route(m.flow) THEN Weight(m.flow) ELSE 0
      BY <2>1 DEF AddMessage
    <3>2. density[p] = Load(in_flight, p)
      BY DEF BagInv, DensityAccounting
    <3> QED
      BY <2>2, <3>1, <3>2
  <2>7. density' \in [Port -> Nat]
    <3>1. \A p \in Port : Load(more, p) \in Nat
      BY <2>2, <2>3, <2>4, SumsNat
    <3>2. density' = [p \in Port |-> density'[p]]
      BY <2>1 DEF AddMessage
    <3> QED
      BY <2>6, <3>1, <3>2
  <2>8. /\ in_flight_service' = ServiceOf(more)
        /\ in_flight_count' = BagCardinality(more)
    BY <2>1, <2>2 DEF BagInv, DensityAccounting
  <2> QED
    BY <2>2, <2>3, <2>4, <2>5, <2>6, <2>7, <2>8 DEF BagInv, DensityAccounting
<1>4. CASE UNCHANGED vars
  BY <1>4 DEF vars, table, BagInv, DensityAccounting
<1> QED
  BY <1>1, <1>2, <1>3, <1>4 DEF Next

(***************************************************************************)
(* The types of the times.                                                 *)
(***************************************************************************)
LEMMA TimeInit ==
  ASSUME Init
  PROVE  TimeInv
BY DEF Init, TimeInv

LEMMA LaterNat ==
  ASSUME NEW a \in Nat, NEW b \in Nat
  PROVE  Later(a, b) \in Nat /\ Later(a, b) >= a /\ Later(a, b) >= b
BY DEF Later

(* What the cores send in a timestep: all of it from its start on and in   *)
(* the order of the send times.                                            *)
LEMMA StartFacts ==
  ASSUME TimeInv, StartTimestep
  PROVE  /\ now' \in Nat /\ hw_latency' \in Nat /\ hw_latency' >= now'
         /\ hw_latency' >= hw_latency
         /\ clock' = now' /\ timestep' = timestep + 1
         /\ timestep = 0 => now' = 0
         /\ timestep # 0 => now' >= hw_latency
         /\ pending = NoMessage /\ pending' = NoMessage
         /\ train' \in [SourceCore -> Seq(Nat)]
         /\ offset' = [c \in SourceCore |-> 0]
         /\ \A c \in SourceCore :
               /\ Nondecreasing(train'[c])
               /\ \A k \in DOMAIN train'[c] : train'[c][k] >= now'
<1>1. /\ now' = NextStart /\ clock' = now' /\ hw_latency' = Later(hw_latency, now')
      /\ timestep' = timestep + 1 /\ offset' = [c \in SourceCore |-> 0]
      /\ pending = NoMessage /\ pending' = NoMessage
  BY DEF StartTimestep
<1>2. /\ NextStart \in Nat /\ (timestep = 0 => NextStart = 0)
      /\ (timestep # 0 => NextStart >= hw_latency)
  BY DensityAssumption DEF NextStart, TimeInv
<1>3. hw_latency' \in Nat /\ hw_latency' >= now' /\ hw_latency' >= hw_latency
  BY <1>1, <1>2, LaterNat DEF TimeInv
<1>4. PICK trains \in [SourceCore -> Trains] :
         train' = [c \in SourceCore |-> [k \in DOMAIN trains[c] |-> now' + trains[c][k]]]
  BY DEF StartTimestep
<1> DEFINE n == now'
<1>5. n \in Nat
  BY <1>1, <1>2
<1>6. \A c \in SourceCore :
         /\ train'[c] \in Seq(Nat)
         /\ Nondecreasing(train'[c])
         /\ \A k \in DOMAIN train'[c] : train'[c][k] >= n
  <2> TAKE c \in SourceCore
  <2> DEFINE seq == trains[c]
             shifted == [k \in DOMAIN seq |-> n + seq[k]]
  <2>1. seq \in Seq(Nat) /\ \A i, j \in DOMAIN seq : i < j => seq[i] <= seq[j]
    BY DensityAssumption
  <2>2. train'[c] = shifted
    BY <1>4
  <2> HIDE DEF seq, n
  <2>3. DOMAIN seq = 1 .. Len(seq) /\ Len(seq) \in Nat
        /\ \A k \in DOMAIN seq : seq[k] \in Nat
    BY <2>1
  <2>4. shifted \in Seq(Nat)
    <3>1. \A k \in 1 .. Len(seq) : n + seq[k] \in Nat
      BY <1>5, <2>3
    <3>2. shifted \in [1 .. Len(seq) -> Nat]
      BY <2>3, <3>1
    <3> QED
      BY <2>3, <3>2
  <2>5. Nondecreasing(shifted)
    BY <1>5, <2>1, <2>3 DEF Nondecreasing
  <2>6. \A k \in DOMAIN shifted : shifted[k] >= n
    BY <1>5, <2>3
  <2> QED
    BY <2>2, <2>4, <2>5, <2>6
<1>7. train' \in [SourceCore -> Seq(Nat)]
  BY <1>4, <1>6
<1> QED
  BY <1>1, <1>2, <1>3, <1>6, <1>7

LEMMA TimeStep ==
  ASSUME BagInv, TimeInv, [Next]_vars
  PROVE  TimeInv'
<1>1. CASE StartTimestep
  <2>1. offset' \in [SourceCore -> Nat]
    BY <1>1, StartFacts
  <2> QED
    BY <1>1, <2>1, StartFacts DEF TimeInv
<1>2. ASSUME NEW c \in SourceCore, NEW destination \in Destinations,
             Send(c, destination)
      PROVE  TimeInv'
  <2>1. /\ HeadTime(c) \in Nat
        /\ \E blocking \in Nat : offset' = [offset EXCEPT ![c] = @ + blocking]
        /\ pending'.flow \in Flow /\ pending'.arrival \in Nat
    BY <1>2, SendFacts
  <2>2. /\ clock' = HeadTime(c) /\ train[c] # <<>>
        /\ train' = [train EXCEPT ![c] = Tail(@)]
        /\ UNCHANGED <<timestep, now, hw_latency>>
    BY <1>2 DEF Send, IsTop
  <2>3. train' \in [SourceCore -> Seq(Nat)]
    <3>1. train[c] \in Seq(Nat)
      BY DEF TimeInv
    <3>2. Tail(train[c]) \in Seq(Nat)
      BY <2>2, <3>1, HeadOfTrain
    <3> QED
      BY <2>2, <3>2 DEF TimeInv
  <2>4. offset' \in [SourceCore -> Nat]
    BY <2>1 DEF TimeInv
  <2> QED
    BY <2>1, <2>2, <2>3, <2>4 DEF TimeInv
<1>3. ASSUME NEW wait \in Waits, NEW service \in Services, Record(wait, service)
      PROVE  TimeInv'
  <2>1. PICK m \in Message : /\ hw_latency' = Later(hw_latency, m.release + m.service)
                             /\ pending' = NoMessage
    BY <1>3, RecordFacts
  <2>2. m.release + m.service \in Nat
    BY DEF Message
  <2>3. hw_latency' \in Nat
    BY <2>1, <2>2, LaterNat DEF TimeInv
  <2>4. UNCHANGED <<train, offset, timestep, now, clock>>
    BY <1>3 DEF Record
  <2> QED
    BY <2>1, <2>3, <2>4 DEF TimeInv
<1>4. CASE UNCHANGED vars
  BY <1>4 DEF vars, TimeInv
<1> QED
  BY <1>1, <1>2, <1>3, <1>4 DEF Next

(***************************************************************************)
(* The order of the send times.                                            *)
(***************************************************************************)
LEMMA TailNondecreasing ==
  ASSUME NEW seq \in Seq(Nat), Nondecreasing(seq), seq # <<>>
  PROVE  /\ Nondecreasing(Tail(seq))
         /\ Tail(seq) # <<>> => Head(seq) <= Head(Tail(seq))
<1>1. /\ Len(seq) \in Nat \ {0} /\ DOMAIN seq = 1 .. Len(seq)
      /\ DOMAIN Tail(seq) = 1 .. Len(seq) - 1
      /\ \A k \in 1 .. Len(seq) - 1 : Tail(seq)[k] = seq[k + 1]
  BY HeadOfTrain
<1>2. Nondecreasing(Tail(seq))
  BY <1>1 DEF Nondecreasing
<1>3. ASSUME Tail(seq) # <<>> PROVE Head(seq) <= Head(Tail(seq))
  <2>1. Len(seq) >= 2
    BY <1>1, <1>3
  <2>2. 1 \in DOMAIN seq /\ 2 \in DOMAIN seq
    BY <1>1, <2>1
  <2>3. seq[1] <= seq[2]
    BY <2>2 DEF Nondecreasing
  <2>4. Head(seq) = seq[1]
    OBVIOUS
  <2>5. Head(Tail(seq)) = seq[2]
    BY <1>1, <1>3, <2>1
  <2> QED
    BY <2>3, <2>4, <2>5
<1> QED
  BY <1>2, <1>3

LEMMA HeadIsFirst ==
  ASSUME NEW seq \in Seq(Nat), seq # <<>>
  PROVE  1 \in DOMAIN seq /\ Head(seq) = seq[1]
OBVIOUS

LEMMA OrderInit ==
  ASSUME Init
  PROVE  OrderInv
<1>1. DOMAIN EmptyBag = {}
  BY DEF EmptyBag, SetToBag
<1>2. Nondecreasing(<<>>)
  BY DEF Nondecreasing
<1> QED
  BY <1>1, <1>2 DEF Init, OrderInv

LEMMA OrderStep ==
  ASSUME BagInv, TimeInv, OrderInv, [Next]_vars
  PROVE  OrderInv'
<1>1. CASE StartTimestep
  <2> DEFINE n == now'
  <2>1. /\ n \in Nat /\ hw_latency' \in Nat /\ hw_latency' >= n
        /\ hw_latency' >= hw_latency /\ clock' = n /\ timestep' = timestep + 1
        /\ pending' = NoMessage
        /\ train' \in [SourceCore -> Seq(Nat)]
        /\ offset' = [c \in SourceCore |-> 0]
        /\ \A c \in SourceCore :
              /\ Nondecreasing(train'[c])
              /\ \A k \in DOMAIN train'[c] : train'[c][k] >= n
    BY <1>1, StartFacts
  <2>2. in_flight' = in_flight
    BY <1>1 DEF StartTimestep, table
  <2> HIDE DEF n
  <2>3. \A c \in SourceCore : train'[c] # <<>> => clock' <= HeadTime(c)'
    <3> TAKE c \in SourceCore
    <3> HAVE train'[c] # <<>>
    <3>1. train'[c] \in Seq(Nat)
      BY <2>1
    <3>2. Head(train'[c]) = train'[c][1] /\ 1 \in DOMAIN train'[c]
      BY <3>1, HeadIsFirst
    <3>3. Head(train'[c]) \in Nat /\ offset'[c] = 0
      BY <2>1, <3>1, HeadOfTrain
    <3>4. HeadTime(c)' = Head(train'[c]) + 0
      BY <3>3 DEF HeadTime
    <3> QED
      BY <2>1, <3>2, <3>3, <3>4
  <2>4. \A m \in DOMAIN in_flight' : m.release <= hw_latency'
    <3> TAKE m \in DOMAIN in_flight'
    <3>1. m \in Message /\ m.release <= hw_latency
      BY <2>2 DEF OrderInv, BagInv
    <3>2. m.release \in Nat /\ hw_latency \in Nat
      BY <3>1 DEF Message, TimeInv
    <3> QED
      BY <2>1, <3>1, <3>2
  <2>5. timestep' # 0
    BY <2>1 DEF TimeInv
  <2> QED
    BY <2>1, <2>3, <2>4, <2>5 DEF OrderInv
<1>2. ASSUME NEW c \in SourceCore, NEW destination \in Destinations,
             Send(c, destination)
      PROVE  OrderInv'
  <2> DEFINE t == HeadTime(c)
  <2>1. /\ t \in Nat /\ DOMAIN in_flight' \subseteq DOMAIN in_flight
        /\ pending' # NoMessage /\ pending'.arrival \in Nat /\ pending'.arrival >= t
    BY <1>2, SendFacts
  <2>2. PICK blocking \in Nat : offset' = [offset EXCEPT ![c] = @ + blocking]
    BY <1>2, SendFacts
  <2>3. /\ train[c] # <<>> /\ pending = NoMessage
        /\ \A d \in SourceCore : train[d] # <<>> => t <= HeadTime(d)
        /\ train' = [train EXCEPT ![c] = Tail(@)]
        /\ clock' = t /\ UNCHANGED <<timestep, hw_latency>>
    BY <1>2 DEF Send, IsTop
  <2>4. /\ train \in [SourceCore -> Seq(Nat)] /\ offset \in [SourceCore -> Nat]
    BY DEF TimeInv
  <2>5. /\ train'[c] = Tail(train[c]) /\ offset'[c] = offset[c] + blocking
        /\ \A d \in SourceCore \ {c} : train'[d] = train[d] /\ offset'[d] = offset[d]
    BY <2>2, <2>3, <2>4
  <2>6. /\ Nondecreasing(train'[c])
        /\ train'[c] # <<>> => Head(train[c]) <= Head(train'[c])
    BY <2>3, <2>4, <2>5, TailNondecreasing DEF OrderInv
  <2>7. ASSUME NEW d \in SourceCore
        PROVE  /\ Nondecreasing(train'[d])
               /\ train'[d] # <<>> => clock' <= HeadTime(d)'
    <3>1. CASE d = c
      <4>1. ASSUME train'[c] # <<>> PROVE clock' <= HeadTime(c)'
        <5>1. Head(train[c]) \in Nat /\ Tail(train[c]) \in Seq(Nat)
          BY <2>3, <2>4, HeadOfTrain
        <5>2. Head(train'[c]) \in Nat
          BY <2>5, <4>1, <5>1, HeadOfTrain
        <5>3. HeadTime(c)' = Head(train'[c]) + (offset[c] + blocking)
          BY <2>5 DEF HeadTime
        <5>4. t = Head(train[c]) + offset[c] /\ offset[c] \in Nat
          BY <2>4 DEF HeadTime
        <5>5. Head(train[c]) <= Head(train'[c])
          BY <2>6, <4>1
        <5> DEFINE h == Head(train[c])
                   n == Head(train'[c])
                   o == offset[c]
        <5>6. h + o <= n + (o + blocking)
          <6>1. h \in Nat /\ n \in Nat /\ o \in Nat /\ h <= n
            BY <5>1, <5>2, <5>4, <5>5
          <6> HIDE DEF h, n, o
          <6> QED
            BY <6>1
        <5>7. clock' = h + o
          BY <2>3, <5>4
        <5> QED
          BY <5>3, <5>6, <5>7
      <4> QED
        BY <2>6, <3>1, <4>1
    <3>2. CASE d # c
      <4>1. HeadTime(d)' = HeadTime(d) /\ train'[d] = train[d]
        BY <2>5, <3>2 DEF HeadTime
      <4> HIDE DEF t
      <4> QED
        BY <2>3, <4>1 DEF OrderInv
    <3> QED
      BY <3>1, <3>2
  <2>8. timestep' # 0
    BY <2>3 DEF OrderInv
  <2>9. \A m \in DOMAIN in_flight' : m.release <= hw_latency'
    BY <2>1, <2>3 DEF OrderInv
  <2>10. clock' <= pending'.arrival
    <3> HIDE DEF t
    <3> QED
      BY <2>1, <2>3
  <2> QED
    BY <2>1, <2>7, <2>8, <2>9, <2>10 DEF OrderInv
<1>3. ASSUME NEW wait \in Waits, NEW service \in Services, Record(wait, service)
      PROVE  OrderInv'
  <2>1. PICK m \in Message :
           /\ m.release >= pending.arrival
           /\ in_flight' = in_flight (+) SetToBag({m})
           /\ hw_latency' = Later(hw_latency, m.release + m.service)
           /\ pending' = NoMessage
    BY <1>3, RecordFacts
  <2>2. pending # NoMessage /\ UNCHANGED <<train, offset, timestep, now, clock>>
    BY <1>3 DEF Record
  <2>3. /\ m.release \in Nat /\ m.service \in Nat /\ pending.arrival \in Nat
        /\ hw_latency \in Nat /\ clock \in Nat /\ timestep # 0
        /\ clock <= pending.arrival
    BY <2>2 DEF Message, TimeInv, OrderInv
  <2>4. hw_latency' \in Nat /\ hw_latency' >= hw_latency /\ hw_latency' >= m.release
    <3>1. m.release + m.service \in Nat
      BY <2>3
    <3>2. /\ hw_latency' \in Nat /\ hw_latency' >= hw_latency
          /\ hw_latency' >= m.release + m.service
      BY <2>1, <2>3, <3>1, LaterNat
    <3> QED
      BY <2>3, <3>2
  <2>5. DOMAIN in_flight' = DOMAIN in_flight \cup {m}
    BY <2>1, WithOne DEF BagInv
  <2>6. \A x \in DOMAIN in_flight' : x.release <= hw_latency'
    <3> TAKE x \in DOMAIN in_flight'
    <3>1. CASE x = m
      BY <2>3, <2>4, <3>1
    <3>2. CASE x # m
      <4>1. x \in DOMAIN in_flight
        BY <2>5, <3>2
      <4>2. x.release \in Nat /\ x.release <= hw_latency
        BY <4>1 DEF OrderInv, BagInv, Message
      <4> QED
        BY <2>3, <2>4, <4>2
    <3> QED
      BY <3>1, <3>2
  <2>7. clock' <= hw_latency'
    BY <2>1, <2>2, <2>3, <2>4
  <2>8. \A c \in SourceCore : train'[c] = train[c] /\ HeadTime(c)' = HeadTime(c)
    BY <2>2 DEF HeadTime
  <2> QED
    BY <2>1, <2>2, <2>3, <2>6, <2>7, <2>8 DEF OrderInv
<1>4. CASE UNCHANGED vars
  BY <1>4 DEF vars, table, OrderInv, HeadTime
<1> QED
  BY <1>1, <1>2, <1>3, <1>4 DEF Next

(***************************************************************************)
(* What is in flight and what was recorded, beyond a point in time.        *)
(***************************************************************************)
LEMMA AfterTwice ==
  ASSUME NEW bag, DOMAIN bag \subseteq Message, NEW s \in Nat, NEW t \in Nat, s <= t
  PROVE  After(After(bag, s), t) = After(bag, t)
<1>1. \A m \in DOMAIN bag : m.release \in Nat
  BY DEF Message
<1>2. {m \in {x \in DOMAIN bag : x.release > s} : m.release > t}
         = {m \in DOMAIN bag : m.release > t}
  BY <1>1
<1> QED
  BY <1>2 DEF After

AgreeAfter(a, b, t) ==
    \A m \in Message : m.release > t =>
        /\ m \in DOMAIN a <=> m \in DOMAIN b
        /\ m \in DOMAIN a => a[m] = b[m]

LEMMA AfterSame ==
  ASSUME NEW a, NEW b, NEW t, DOMAIN a \subseteq Message, DOMAIN b \subseteq Message
  PROVE  After(a, t) = After(b, t) <=> AgreeAfter(a, b, t)
<1>1. ASSUME After(a, t) = After(b, t) PROVE AgreeAfter(a, b, t)
  <2>1. ASSUME NEW m \in Message, m.release > t
        PROVE  /\ m \in DOMAIN a <=> m \in DOMAIN b
               /\ m \in DOMAIN a => a[m] = b[m]
    <3>1. m \in DOMAIN a <=> m \in DOMAIN After(a, t)
      BY <2>1 DEF After
    <3>2. m \in DOMAIN b <=> m \in DOMAIN After(b, t)
      BY <2>1 DEF After
    <3>3. m \in DOMAIN a => After(a, t)[m] = a[m]
      BY <2>1 DEF After
    <3>4. m \in DOMAIN b => After(b, t)[m] = b[m]
      BY <2>1 DEF After
    <3> QED
      BY <1>1, <3>1, <3>2, <3>3, <3>4
  <2> QED
    BY <2>1 DEF AgreeAfter
<1>2. ASSUME AgreeAfter(a, b, t) PROVE After(a, t) = After(b, t)
  <2>1. {m \in DOMAIN a : m.release > t} = {m \in DOMAIN b : m.release > t}
    BY <1>2 DEF AgreeAfter
  <2>2. \A m \in {x \in DOMAIN a : x.release > t} : a[m] = b[m]
    BY <1>2 DEF AgreeAfter
  <2> QED
    BY <2>1, <2>2 DEF After
<1> QED
  BY <1>1, <1>2

LEMMA VisibleInit ==
  ASSUME Init
  PROVE  VisibleInv
BY DEF Init, VisibleInv

LEMMA VisibleStep ==
  ASSUME BagInv, TimeInv, OrderInv, VisibleInv, [Next]_vars
  PROVE  VisibleInv'
<1>1. CASE StartTimestep
  <2>1. /\ now' \in Nat /\ clock' = now' /\ pending' = NoMessage
        /\ timestep = 0 => now' = 0
        /\ timestep # 0 => now' >= hw_latency
        /\ pending = NoMessage
    BY <1>1, StartFacts
  <2>2. in_flight' = in_flight /\ recorded' = After(recorded, now')
    BY <1>1 DEF StartTimestep, table
  <2> DEFINE n == now'
  <2>3. clock \in Nat /\ n \in Nat /\ clock <= n
    BY <2>1 DEF TimeInv, OrderInv
  <2>4. DOMAIN in_flight \subseteq Message /\ DOMAIN recorded \subseteq Message
    BY DEF BagInv
  <2> HIDE DEF n
  <2>5. After(in_flight, n) = After(After(in_flight, clock), n)
    BY <2>3, <2>4, AfterTwice
  <2>6. After(recorded, n) = After(After(recorded, clock), n)
    BY <2>3, <2>4, AfterTwice
  <2>7. After(After(recorded, n), n) = After(recorded, n)
    BY <2>3, <2>4, AfterTwice
  <2>8. After(in_flight, n) = After(After(recorded, n), n)
    BY <2>5, <2>6, <2>7 DEF VisibleInv
  <2> QED
    BY <2>1, <2>2, <2>8 DEF VisibleInv, n
<1>2. ASSUME NEW c \in SourceCore, NEW destination \in Destinations,
             Send(c, destination)
      PROVE  VisibleInv'
  <2> DEFINE t == HeadTime(c)
             left == Part(in_flight, DOMAIN in_flight \ DueAt(t))
  <2>1. t \in Nat /\ in_flight' = left
    BY <1>2, SendFacts
  <2>2. clock' = t /\ recorded' = recorded /\ train[c] # <<>>
    BY <1>2 DEF Send, IsTop
  <2>3. clock \in Nat /\ clock <= t
    BY <2>2 DEF TimeInv, OrderInv
  <2>4. DOMAIN in_flight \subseteq Message /\ DOMAIN recorded \subseteq Message
    BY DEF BagInv
  <2>5. left = After(in_flight, t)
    <3>1. \A m \in DOMAIN in_flight : m.release \in Nat
      BY <2>4 DEF Message
    <3>2. DOMAIN in_flight \ DueAt(t) = {m \in DOMAIN in_flight : m.release > t}
      <4> HIDE DEF t
      <4> QED
        BY <2>1, <3>1 DEF DueAt
    <3> QED
      BY <3>2 DEF Part, After
  <2> HIDE DEF t, left
  <2>6. After(in_flight, t) = After(After(in_flight, clock), t)
    BY <2>1, <2>3, <2>4, AfterTwice
  <2>7. After(recorded, t) = After(After(recorded, clock), t)
    BY <2>1, <2>3, <2>4, AfterTwice
  <2>8. After(After(in_flight, t), t) = After(in_flight, t)
    BY <2>1, <2>4, AfterTwice
  <2>9. After(left, t) = After(recorded, t)
    BY <2>5, <2>6, <2>7, <2>8 DEF VisibleInv
  <2>10. \A m \in DOMAIN left : m.release > t
    BY <2>5 DEF After
  <2> QED
    BY <2>1, <2>2, <2>9, <2>10 DEF VisibleInv
<1>3. ASSUME NEW wait \in Waits, NEW service \in Services, Record(wait, service)
      PROVE  VisibleInv'
  <2>1. PICK m \in Message :
           /\ in_flight' = in_flight (+) SetToBag({m})
           /\ recorded' = recorded (+) SetToBag({m})
           /\ pending' = NoMessage
    BY <1>3, RecordFacts
  <2>2. clock' = clock
    BY <1>3 DEF Record
  <2>3. DOMAIN in_flight \subseteq Message /\ DOMAIN recorded \subseteq Message
    BY DEF BagInv
  <2> DEFINE a == in_flight (+) SetToBag({m})
             b == recorded (+) SetToBag({m})
  <2>4. AgreeAfter(in_flight, recorded, clock)
    BY <2>3, AfterSame DEF VisibleInv
  <2>5. /\ DOMAIN a = DOMAIN in_flight \cup {m}
        /\ DOMAIN b = DOMAIN recorded \cup {m}
        /\ \A x \in DOMAIN a : a[x] = (IF x \in DOMAIN in_flight THEN in_flight[x] ELSE 0)
                                        + (IF x = m THEN 1 ELSE 0)
        /\ \A x \in DOMAIN b : b[x] = (IF x \in DOMAIN recorded THEN recorded[x] ELSE 0)
                                        + (IF x = m THEN 1 ELSE 0)
    BY DEF (+), SetToBag
  <2> HIDE DEF a, b
  <2>6. AgreeAfter(a, b, clock)
    BY <2>4, <2>5 DEF AgreeAfter
  <2>7. After(a, clock) = After(b, clock)
    BY <2>3, <2>5, <2>6, AfterSame
  <2> QED
    BY <2>1, <2>2, <2>7 DEF VisibleInv, a, b
<1>4. CASE UNCHANGED vars
  BY <1>4 DEF vars, table, VisibleInv
<1> QED
  BY <1>1, <1>2, <1>3, <1>4 DEF Next

(***************************************************************************)
(* The theorems.                                                           *)
(***************************************************************************)
DensityInv == BagInv /\ TimeInv /\ OrderInv /\ VisibleInv

LEMMA DensityInvariant == Spec => []DensityInv
<1>1. Init => DensityInv
  BY BagInit, TimeInit, OrderInit, VisibleInit DEF DensityInv
<1>2. DensityInv /\ [Next]_vars => DensityInv'
  BY BagStep, TimeStep, OrderStep, VisibleStep DEF DensityInv
<1> QED
  BY <1>1, <1>2, PTL DEF Spec

(* Every variable keeps its type; above all no density, no sum of services *)
(* and no count of messages in flight ever falls below zero, whatever is   *)
(* retired when (router.cpp:26-52, 84-96).                                 *)
THEOREM TypeCorrect == Spec => []TypeOK
<1>1. DensityInv => TypeOK
  <2> SUFFICES ASSUME DensityInv PROVE TypeOK
    OBVIOUS
  <2>1. in_flight_service \in Nat /\ in_flight_count \in Nat
    BY SumsNat DEF DensityInv, BagInv, DensityAccounting
  <2> QED
    BY <2>1 DEF DensityInv, BagInv, TimeInv, FiniteBag, TypeOK
<1> QED
  BY <1>1, DensityInvariant, PTL

(* The density of every port, the sum of the services and the count are    *)
(* those of the messages in flight, for every mesh and every traffic: what *)
(* add_in_flight puts on the ports of a route is what retire_in_flight     *)
(* takes away (router.cpp:26-52, 84-96, 337-341).                          *)
THEOREM SumsAreKept == Spec => []DensityAccounting
<1>1. DensityInv => DensityAccounting
  BY DEF DensityInv, BagInv
<1> QED
  BY <1>1, DensityInvariant, PTL

(* A packet finds exactly the recorded messages whose processing starts    *)
(* after its send time, although messages are only removed when a packet   *)
(* looks: source FIFOs and offsets that never shrink make every packet     *)
(* look no earlier than the one before it (router.cpp:84-96).              *)
THEOREM SeesWhatIsInFlight == Spec => []SeesTrafficInFlight
<1>1. DensityInv => SeesTrafficInFlight
  <2> SUFFICES ASSUME DensityInv, pending # NoMessage
               PROVE  in_flight = After(recorded, clock)
    BY DEF SeesTrafficInFlight
  <2>1. IsABag(in_flight) /\ \A m \in DOMAIN in_flight : m.release > clock
    BY DEF DensityInv, VisibleInv, BagInv, FiniteBag
  <2>2. in_flight = After(in_flight, clock)
    BY <2>1 DEF After, IsABag
  <2> QED
    BY <2>2 DEF DensityInv, VisibleInv
<1> QED
  BY <1>1, DensityInvariant, PTL

(* No message of a timestep is in flight beyond the start of the next one: *)
(* its first packet finds an empty network (simulator.cpp:436-440).        *)
THEOREM BarrierEmptiesNetwork == Spec => FreshTimestep
<1>1. DensityInv /\ [Next]_vars
        => (timestep' # timestep => \A m \in DOMAIN in_flight : m.release <= now')
  <2> SUFFICES ASSUME DensityInv, [Next]_vars, timestep' # timestep,
                      NEW m \in DOMAIN in_flight
               PROVE  m.release <= now'
    OBVIOUS
  <2>1. BagInv /\ TimeInv /\ OrderInv
    BY DEF DensityInv
  <2>2. StartTimestep
    BY DEF Next, Send, Record, vars
  <2>3. /\ now' \in Nat /\ (timestep # 0 => now' >= hw_latency)
    BY <2>1, <2>2, StartFacts
  <2>4. timestep # 0 /\ m.release <= hw_latency
    BY <2>1 DEF OrderInv
  <2>5. m.release \in Nat /\ hw_latency \in Nat
    BY <2>1 DEF BagInv, TimeInv, Message
  <2> QED
    BY <2>3, <2>4, <2>5
<1> QED
  BY <1>1, DensityInvariant, PTL DEF Spec, FreshTimestep
=============================================================================
