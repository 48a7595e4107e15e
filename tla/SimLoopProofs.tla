--------------------------- MODULE SimLoopProofs ---------------------------
(***************************************************************************)
(* Proofs about SimLoop for every set of cores, every input and firing     *)
(* pattern, all three queueing modes and every latency.  The inductive     *)
(* invariant is built up in layers, each proved from those before it:      *)
(* types, phases, the deques, push numbers, emissions, offsets and the     *)
(* blocking since the timestep began, axon-out,                            *)
(* packet numbers and, for streamed inputs, the chain of records.          *)
(***************************************************************************)
EXTENDS SimLoop, FiniteSetTheorems, SequenceTheorems, TLAPS

(* The steps that leave the packets and their bookkeeping alone.           *)
Quiet ==
    \/ StartDrain \/ CompleteTimestep \/ StopEarly \/ Finish \/ Terminated
    \/ UNCHANGED vars

(***************************************************************************)
(* What the operators return.                                              *)
(***************************************************************************)

(* The later of two times is one of them, and no earlier than either.      *)
LEMMA LaterProperties ==
  ASSUME NEW a \in Nat, NEW b \in Nat
  PROVE  Later(a, b) \in Nat /\ a <= Later(a, b) /\ b <= Later(a, b)
BY DEF Later

(* A record list becomes emissions of the same sources, all at one time.   *)
LEMMA EmissionsOfProperties ==
  ASSUME NEW recs \in Seq(Record), NEW at \in Nat
  PROVE  /\ EmissionsOf(recs, at) \in Seq(Emission)
         /\ Len(EmissionsOf(recs, at)) = Len(recs)
         /\ DOMAIN EmissionsOf(recs, at) = DOMAIN recs
         /\ \A k \in DOMAIN recs :
               /\ EmissionsOf(recs, at)[k].source = recs[k].source
               /\ EmissionsOf(recs, at)[k].source \in InputCores \cup {Direct}
               /\ EmissionsOf(recs, at)[k].at = at
<1>1. DOMAIN recs = 1 .. Len(recs) /\ Len(recs) \in Nat
  BY LenProperties
<1>2. \A k \in DOMAIN recs : recs[k] \in Record
  BY <1>1, ElementOfSeq
<1>3. \A k \in DOMAIN recs :
         /\ EmissionsOf(recs, at)[k] \in Emission
         /\ EmissionsOf(recs, at)[k].source = recs[k].source
         /\ EmissionsOf(recs, at)[k].source \in InputCores \cup {Direct}
         /\ EmissionsOf(recs, at)[k].at = at
  BY <1>2 DEF EmissionsOf, Record, Emission, Lanes, Core
<1>4. DOMAIN EmissionsOf(recs, at) = DOMAIN recs
  BY DEF EmissionsOf
<1>5. EmissionsOf(recs, at) \in [1 .. Len(recs) -> Emission]
  BY <1>1, <1>3 DEF EmissionsOf
<1>6. EmissionsOf(recs, at) \in Seq(Emission)
      /\ Len(EmissionsOf(recs, at)) = Len(recs)
  BY <1>1, <1>5, IsASeq, LenProperties
<1> QED
  BY <1>3, <1>4, <1>6

(* One record is taken at a time, none when none is left.                  *)
LEMMA TakeRecordProperties ==
  ASSUME NEW recs \in Seq(Record), NEW at \in Nat, TakeRecord(recs, at)
  PROVE  /\ emissions' \in Seq(Emission)
         /\ records' \in Seq(Record)
         /\ recs = <<>> => emissions' = <<>> /\ records' = <<>>
         /\ recs # <<>> => /\ Len(emissions') = 1
                           /\ DOMAIN emissions' = {1}
                           /\ emissions'[1].source \in InputCores \cup {Direct}
                           /\ emissions'[1].at = at
<1>1. CASE recs = <<>>
  BY <1>1, EmptySeq DEF TakeRecord
<1>2. CASE recs # <<>>
  <2> DEFINE one == <<Head(recs)>>
  <2>1. Head(recs) \in Record /\ Tail(recs) \in Seq(Record)
    BY <1>2, HeadTailProperties
  <2>2. one \in Seq(Record) /\ Len(one) = 1 /\ DOMAIN one = {1}
    BY <2>1
  <2>3. emissions' = EmissionsOf(one, at) /\ records' = Tail(recs)
    BY <1>2 DEF TakeRecord
  <2> HIDE DEF one
  <2> QED
    BY <1>2, <2>1, <2>2, <2>3, EmissionsOfProperties
<1> QED
  BY <1>1, <1>2

(* The firings of a neuron loop are emissions of its core, in order, none  *)
(* before the timestep.                                                    *)
LEMMA FiringsProperties ==
  ASSUME TypeOK, NEW c \in NeuronCores, NEW loop \in NeuronLoops,
         RunNeurons(c, loop)
  PROVE  /\ emissions' \in Seq(Emission)
         /\ loop.service \in Nat
         /\ hw_latency' \in Nat
         /\ hw_latency <= hw_latency'
         /\ \A k \in DOMAIN emissions' :
               emissions'[k].source = c /\ step_start <= emissions'[k].at
         /\ \A j, k \in DOMAIN emissions' :
               j < k => emissions'[j].at <= emissions'[k].at
<1> DEFINE f == loop.firings
<1>1. f \in Seq(Firing) /\ loop.service \in Nat /\ Ordered(f)
  BY TrafficAssumption
<1>2. DOMAIN f = 1 .. Len(f) /\ Len(f) \in Nat
  BY <1>1, LenProperties
<1>3. \A k \in DOMAIN f : f[k] \in Firing
  BY <1>1, <1>2, ElementOfSeq
<1>4. c \in Lanes /\ step_start \in Nat /\ hw_latency \in Nat
  BY DEF TypeOK, Lanes, Core
<1>5. emissions' = [k \in DOMAIN f |->
                       [source |-> c, at |-> step_start + f[k].delay,
                        packets |-> f[k].packets]]
  BY DEF RunNeurons
<1> HIDE DEF f
<1>6. \A k \in DOMAIN f :
         /\ emissions'[k] \in Emission
         /\ emissions'[k].source = c
         /\ emissions'[k].at = step_start + f[k].delay
         /\ step_start <= emissions'[k].at
  BY <1>3, <1>4, <1>5 DEF Firing, Emission
<1>7. emissions' \in [1 .. Len(f) -> Emission] /\ DOMAIN emissions' = DOMAIN f
  BY <1>2, <1>5, <1>6
<1>8. emissions' \in Seq(Emission)
  BY <1>2, <1>7, IsASeq
<1>9. \A j, k \in DOMAIN f : j < k => emissions'[j].at <= emissions'[k].at
  BY <1>1, <1>3, <1>4, <1>6 DEF Firing, Ordered
<1>10. hw_latency' \in Nat /\ hw_latency <= hw_latency'
  <2>1. step_start + loop.service \in Nat
    BY <1>1, <1>4
  <2>2. hw_latency' = Later(hw_latency, step_start + loop.service)
    BY DEF RunNeurons
  <2> QED
    BY <1>4, <2>1, <2>2, LaterProperties
<1> QED
  BY <1>1, <1>6, <1>7, <1>8, <1>9, <1>10

(* The packet about to be emitted.                                         *)
LEMMA NewPacketProperties ==
  ASSUME TypeOK, emissions # <<>>
  PROVE  /\ Head(emissions) = emissions[1]
         /\ emissions[1] \in Emission
         /\ 1 \in DOMAIN emissions
         /\ NewPacket \in Packet
         /\ NewPacket.source = emissions[1].source
         /\ NewPacket.number = emitted[emissions[1].source] + 1
         /\ NewPacket.last = ClosesRecord(emissions[1])
         /\ ~Staged(emissions[1].source) => NewPacket.sent = emissions[1].at
         /\ Staged(emissions[1].source) =>
               /\ emissions[1].source \in Core
               /\ emissions[1].at <= NewPacket.sent
               /\ emissions[1].at + AxonOut <= NewPacket.sent
               /\ axon_free[emissions[1].source] <= NewPacket.sent
<1> DEFINE e == emissions[1]
<1>1. emissions \in Seq(Emission)
  BY DEF TypeOK
<1>2. 1 \in DOMAIN emissions /\ Head(emissions) = e
  BY <1>1, EmptySeq, LenProperties
<1>3. e \in Emission
  BY <1>1, <1>2, LenProperties
<1> HIDE DEF e
<1>4. e.source \in Lanes /\ e.at \in Nat /\ emitted[e.source] \in Nat
  BY <1>3 DEF Emission, TypeOK
<1>5. ClosesRecord(e) \in BOOLEAN
  BY DEF ClosesRecord
<1>6. Staged(e.source) => e.source \in Core /\ axon_free[e.source] \in Nat
  BY <1>4 DEF Staged, Lanes, TypeOK
<1> DEFINE at == e.at
           free == axon_free[e.source]
           sent == IF Staged(e.source) THEN Later(at, free) + AxonOut ELSE at
<1>7. sent \in Nat /\ (~Staged(e.source) => sent = at)
      /\ (Staged(e.source) =>
             at <= sent /\ at + AxonOut <= sent /\ free <= sent)
  <2>1. CASE Staged(e.source)
    <3>1. Later(at, free) \in Nat /\ at <= Later(at, free)
          /\ free <= Later(at, free)
      BY <1>4, <1>6, <2>1, LaterProperties
    <3> QED
      BY <1>4, <1>6, <2>1, <3>1, TimingAssumption
  <2>2. CASE ~Staged(e.source)
    BY <1>4, <2>2
  <2> QED
    BY <2>1, <2>2
<1>8. NewPacket = [source |-> e.source, number |-> emitted[e.source] + 1,
                   sent |-> sent, last |-> ClosesRecord(e)]
  BY <1>2 DEF NewPacket
<1> HIDE DEF sent
<1> QED
  BY <1>2, <1>3, <1>4, <1>5, <1>6, <1>7, <1>8 DEF e, Packet

(* Emitting one packet shortens the first emission or removes it.          *)
LEMMA EmitPacketProperties ==
  ASSUME TypeOK, EmitPacket
  PROVE  /\ emissions' \in Seq(Emission)
         /\ axon_free' \in [Core -> Nat]
         /\ emitted' \in [Lanes -> Nat]
         /\ emissions[1].packets = 1 =>
               /\ Len(emissions') = Len(emissions) - 1
               /\ \A k \in DOMAIN emissions' :
                     k + 1 \in DOMAIN emissions
                     /\ emissions'[k] = emissions[k + 1]
         /\ emissions[1].packets # 1 =>
               /\ Len(emissions') = Len(emissions)
               /\ DOMAIN emissions' = DOMAIN emissions
               /\ emissions'[1].packets = emissions[1].packets - 1
               /\ emissions'[1].packets > 0
               /\ \A k \in DOMAIN emissions :
                     /\ emissions'[k].source = emissions[k].source
                     /\ emissions'[k].at = emissions[k].at
<1>1. emissions \in Seq(Emission) /\ emissions # <<>>
  BY DEF TypeOK, EmitPacket
<1>2. /\ Head(emissions) = emissions[1] /\ 1 \in DOMAIN emissions
      /\ emissions[1] \in Emission /\ NewPacket \in Packet
      /\ NewPacket.source = emissions[1].source
      /\ Staged(emissions[1].source) => emissions[1].source \in Core
  BY <1>1, NewPacketProperties
<1>3. DOMAIN emissions = 1 .. Len(emissions) /\ Len(emissions) \in Nat
  BY <1>1, LenProperties
<1>4. emissions[1].packets \in Nat /\ emissions[1].packets > 0
  BY <1>2 DEF Emission, EmitPacket
<1>5. emitted' \in [Lanes -> Nat]
  <2>1. emissions[1].source \in Lanes
    BY <1>2 DEF Emission
  <2>2. emitted' = [emitted EXCEPT ![emissions[1].source] = @ + 1]
    BY <1>2 DEF EmitPacket
  <2> QED
    BY <2>1, <2>2 DEF TypeOK
<1>6. axon_free' \in [Core -> Nat]
  BY <1>2 DEF EmitPacket, TypeOK, Packet
<1>7. CASE emissions[1].packets = 1
  <2>1. emissions' = Tail(emissions)
    BY <1>2, <1>7 DEF EmitPacket
  <2>2. emissions' \in Seq(Emission) /\ Len(emissions') = Len(emissions) - 1
        /\ \A k \in 1 .. Len(emissions') : emissions'[k] = emissions[k + 1]
    BY <1>1, <2>1, HeadTailProperties
  <2>3. DOMAIN emissions' = 1 .. Len(emissions') /\ Len(emissions') \in Nat
    BY <2>2, LenProperties
  <2> QED
    BY <1>3, <1>5, <1>6, <1>7, <2>2, <2>3
<1>8. CASE emissions[1].packets # 1
  <2> DEFINE e2 == [emissions[1] EXCEPT !.packets = @ - 1]
  <2>1. emissions' = [emissions EXCEPT ![1] = e2]
    BY <1>2, <1>8 DEF EmitPacket
  <2>2. e2 \in Emission /\ e2.source = emissions[1].source
        /\ e2.at = emissions[1].at /\ e2.packets = emissions[1].packets - 1
        /\ e2.packets > 0
    BY <1>2, <1>4, <1>8 DEF Emission
  <2> HIDE DEF e2
  <2>3. emissions' \in Seq(Emission) /\ Len(emissions') = Len(emissions)
        /\ \A k \in 1 .. Len(emissions) :
              emissions'[k] = IF k = 1 THEN e2 ELSE emissions[k]
    BY <1>1, <1>2, <1>3, <2>1, <2>2, ExceptSeq
  <2>4. DOMAIN emissions' = DOMAIN emissions
    BY <2>1
  <2> QED
    BY <1>2, <1>3, <1>5, <1>6, <1>8, <2>2, <2>3, <2>4
<1> QED
  BY <1>7, <1>8

(* A push adds one packet under the next number.                           *)
LEMMA PushProperties ==
  ASSUME TypeOK, NEW packet \in Packet, NEW generated \in Nat,
         Push(packet, generated)
  PROVE  /\ next_sequence' = next_sequence + 1
         /\ next_sequence \in Nat
         /\ queue' \subseteq Queued
         /\ \E x \in queue' :
               /\ queue' = queue \cup {x}
               /\ x.packet = packet
               /\ x.generated = generated
               /\ x.sequence = next_sequence
<1> DEFINE x == [packet |-> packet, generated |-> generated,
                 sequence |-> next_sequence]
<1>1. next_sequence \in Nat /\ queue \subseteq Queued
  BY DEF TypeOK
<1>2. x \in Queued
  BY <1>1 DEF Queued
<1>3. queue' = queue \cup {x} /\ next_sequence' = next_sequence + 1
  BY DEF Push
<1>4. x.packet = packet /\ x.generated = generated
      /\ x.sequence = next_sequence
  OBVIOUS
<1> HIDE DEF x
<1> QED
  BY <1>1, <1>2, <1>3, <1>4

(***************************************************************************)
(* Types.                                                                  *)
(***************************************************************************)

(* One case per action, the quiet ones together.                           *)
LEMMA NextCases ==
  ASSUME [Next]_vars
  PROVE  \/ \E recs \in Inputs : BeginTimestep(recs)
         \/ \E c \in NeuronCores, loop \in NeuronLoops : RunNeurons(c, loop)
         \/ EmitToQueue \/ EmitHead \/ EmitPending \/ SkipEmission
         \/ \E p \in queue, blocking \in Blockings, transit \in Transits :
               Process(p, blocking, transit)
         \/ ReleaseNext \/ ReleaseNone
         \/ Quiet
BY DEF Next, Quiet

LEMMA QuietProperties ==
  ASSUME Quiet
  PROVE  /\ UNCHANGED <<timestep, step_start, queue, next_sequence, pending,
                        active, offset, axon_free, unfired, emissions, records,
                        releasing, events, clock, emitted, delivered>>
         /\ hw_latency' = hw_latency \/ hw_latency' = hw_latency + SyncLatency
BY DEF Quiet, StartDrain, CompleteTimestep, StopEarly, Finish, Terminated, vars

(* The packet at the head of the processing: its queue entry and what      *)
(* processing it does to the resources.                                    *)
LEMMA ProcessProperties ==
  ASSUME TypeOK, NEW p \in queue, NEW blocking \in Blockings,
         NEW transit \in Transits, Process(p, blocking, transit)
  PROVE  /\ p \in Queued /\ p.packet \in Packet
         /\ p.packet.source \in Lanes
         /\ queue' = queue \ {p}
         /\ hw_latency' \in Nat /\ hw_latency <= hw_latency'
         /\ p.generated <= hw_latency'
         /\ axon_free' \in [Core -> Nat]
         /\ offset' \in [Core -> Nat]
         /\ Staged(p.packet.source) =>
               /\ p.packet.source \in Core
               /\ releasing' = p.packet.source
               /\ offset[p.packet.source] <= offset'[p.packet.source]
               /\ p.generated + offset'[p.packet.source]
                     <= hw_latency' + offset[p.packet.source]
         /\ ~Staged(p.packet.source) => releasing' = NoCore
         /\ \A c \in Core : c # p.packet.source => offset'[c] = offset[c]
         /\ \A c \in Core : c # p.packet.source \/ SourceFifo
                               => axon_free'[c] = axon_free[c]
         /\ \A c \in Core : c = p.packet.source /\ ~SourceFifo
                               => axon_free'[c] <= hw_latency'
<1> DEFINE source == p.packet.source
           plain == ~SourceFifo /\ source # Direct
           sent == IF plain THEN Later(p.generated, axon_free[source]) + AxonOut
                   ELSE p.generated
           blocked == IF Staged(source) THEN blocking ELSE 0
<1>1. p \in Queued /\ p.packet \in Packet /\ source \in Lanes
      /\ p.generated \in Nat
  BY DEF TypeOK, Queued, Packet
<1>2. source # Direct => source \in Core
  BY <1>1 DEF Lanes
<1>3. sent \in Nat /\ p.generated <= sent
  <2>1. CASE plain
    <3>1. axon_free[source] \in Nat
      BY <1>2, <2>1 DEF TypeOK
    <3>2. /\ Later(p.generated, axon_free[source]) \in Nat
          /\ p.generated <= Later(p.generated, axon_free[source])
      BY <1>1, <3>1, LaterProperties
    <3> QED
      BY <1>1, <2>1, <3>2, TimingAssumption
  <2>2. CASE ~plain
    BY <1>1, <2>2
  <2> QED
    BY <2>1, <2>2
<1>4. blocked \in Nat /\ transit \in Nat
  BY TimingAssumption
<1>5. /\ queue' = queue \ {p}
      /\ axon_free' = IF plain THEN [axon_free EXCEPT ![source] = sent]
                      ELSE axon_free
      /\ offset' = IF Staged(source)
                   THEN [offset EXCEPT ![source] = @ + blocked] ELSE offset
      /\ hw_latency' = Later(hw_latency, sent + blocked + transit)
      /\ releasing' = Releases(source)
  BY DEF Process
<1>6. hw_latency \in Nat /\ axon_free \in [Core -> Nat]
      /\ offset \in [Core -> Nat]
  BY DEF TypeOK
<1>7. Staged(source) => SourceFifo /\ source \in Core
  BY <1>2 DEF Staged
<1> HIDE DEF sent, blocked
<1>8. hw_latency' \in Nat /\ hw_latency <= hw_latency' /\ sent <= hw_latency'
      /\ sent + blocked <= hw_latency'
  <2>1. sent + blocked + transit \in Nat
        /\ sent <= sent + blocked + transit
        /\ sent + blocked <= sent + blocked + transit
        /\ sent + blocked \in Nat
    BY <1>3, <1>4
  <2>2. hw_latency' \in Nat /\ hw_latency <= hw_latency'
        /\ sent + blocked + transit <= hw_latency'
    BY <1>5, <1>6, <2>1, LaterProperties
  <2> QED
    BY <1>3, <2>1, <2>2
<1>9. axon_free' \in [Core -> Nat] /\ offset' \in [Core -> Nat]
  BY <1>2, <1>3, <1>4, <1>5, <1>6, <1>7
<1>10. \A c \in Core : c # source => offset'[c] = offset[c]
  BY <1>5, <1>6
<1>11. \A c \in Core : c # source \/ SourceFifo => axon_free'[c] = axon_free[c]
  BY <1>5, <1>6
<1>12. \A c \in Core : c = source /\ ~SourceFifo => axon_free'[c] <= hw_latency'
  <2>1. Direct \notin Core
    BY LaneAssumption
  <2>2. \A c \in Core : c = source /\ ~SourceFifo => axon_free'[c] = sent
    BY <1>5, <1>6, <2>1
  <2> QED
    BY <1>8, <2>2
<1>13. ASSUME Staged(source)
       PROVE  /\ offset[source] <= offset'[source]
              /\ p.generated + offset'[source] <= hw_latency' + offset[source]
  <2>1. offset[source] \in Nat /\ offset'[source] = offset[source] + blocked
    BY <1>5, <1>6, <1>7, <1>13
  <2>2. p.generated + blocked <= hw_latency'
    BY <1>1, <1>3, <1>4, <1>8
  <2> QED
    BY <1>1, <1>4, <1>8, <2>1, <2>2
<1>14. /\ Staged(source) => releasing' = source
       /\ ~Staged(source) => releasing' = NoCore
  BY <1>5 DEF Releases
<1>15. p.generated <= hw_latency'
  BY <1>1, <1>3, <1>8
<1> QED
  BY <1>1, <1>5, <1>7, <1>8, <1>9, <1>10, <1>11, <1>12, <1>13, <1>14, <1>15

(* A core's deque holds packets of that core only.                         *)
PacketsOf(c) == {packet \in Packet : packet.source = c}
OwnPackets == \A c \in Core : pending[c] \in Seq(PacketsOf(c))

LEMMA TailIsSeq ==
  ASSUME NEW S, NEW s \in Seq(S), s # <<>>
  PROVE  Head(s) \in S /\ Tail(s) \in Seq(S)
BY HeadTailProperties

LEMMA TypeInvariant == Spec => [](TypeOK /\ OwnPackets)
<1>1. Init => TypeOK /\ OwnPackets
  <2> SUFFICES ASSUME Init PROVE TypeOK /\ OwnPackets
    OBVIOUS
  <2>1. <<>> \in Seq(Emission) /\ <<>> \in Seq(Record) /\ <<>> \in Seq(Packet)
        /\ \A c \in Core : <<>> \in Seq(PacketsOf(c))
    BY EmptySeq
  <2> QED
    BY <2>1 DEF Init, TypeOK, OwnPackets, Phases
<1>2. TypeOK /\ OwnPackets /\ [Next]_vars => TypeOK'
  <2> SUFFICES ASSUME TypeOK, OwnPackets, [Next]_vars PROVE TypeOK'
    OBVIOUS
  <2>1. ASSUME NEW recs \in Inputs, BeginTimestep(recs) PROVE TypeOK'
    <3>1. recs \in Seq(Record) /\ hw_latency \in Nat
      BY TrafficAssumption DEF TypeOK
    <3>2. emissions' \in Seq(Emission) /\ records' \in Seq(Record)
      <4>1. CASE Streaming
        BY <2>1, <3>1, <4>1, TakeRecordProperties DEF BeginTimestep
      <4>2. CASE ~Streaming
        <5>1. <<>> \in Seq(Record)
          BY EmptySeq
        <5> QED
          BY <2>1, <3>1, <4>2, <5>1, EmissionsOfProperties DEF BeginTimestep
      <4> QED
        BY <4>1, <4>2
    <3>3. phase' \in Phases
      BY <2>1 DEF BeginTimestep, Phases
    <3>4. {timestep', step_start', clock'} \subseteq Nat
      BY <2>1, <3>1 DEF BeginTimestep, TypeOK
    <3>5. offset' \in [Core -> Nat] /\ unfired' \subseteq NeuronCores
      BY <2>1 DEF BeginTimestep, FreshOffsets
    <3>6. UNCHANGED <<hw_latency, queue, next_sequence, pending, active,
                      axon_free, releasing, events, completed, emitted, delivered>>
      BY <2>1 DEF BeginTimestep
    <3> QED
      BY <3>2, <3>3, <3>4, <3>5, <3>6 DEF TypeOK
  <2>2. ASSUME NEW c \in NeuronCores, NEW loop \in NeuronLoops,
               RunNeurons(c, loop)
        PROVE  TypeOK'
    <3>1. emissions' \in Seq(Emission) /\ hw_latency' \in Nat
      BY <2>2, FiringsProperties
    <3> QED
      BY <2>2, <3>1 DEF RunNeurons, TypeOK
  <2>3. ASSUME EmitPacket,
               queue' \subseteq Queued, next_sequence' \in Nat,
               pending' \in [Core -> Seq(Packet)], active' \in [Core -> BOOLEAN]
        PROVE  TypeOK'
    <3>1. emissions' \in Seq(Emission) /\ axon_free' \in [Core -> Nat]
          /\ emitted' \in [Lanes -> Nat]
      BY <2>3, EmitPacketProperties
    <3> QED
      BY <2>3, <3>1 DEF EmitPacket, TypeOK
  <2>4. CASE EmitToQueue
    <3>1. EmitPacket /\ Push(NewPacket, NewPacket.sent)
          /\ UNCHANGED <<pending, active>>
      BY <2>4 DEF EmitToQueue
    <3>2. NewPacket \in Packet
      BY <3>1, NewPacketProperties DEF EmitPacket
    <3>3. NewPacket.sent \in Nat
      BY <3>2 DEF Packet
    <3>4. queue' \subseteq Queued /\ next_sequence' \in Nat
      BY <3>1, <3>2, <3>3, PushProperties
    <3> QED
      BY <2>3, <3>1, <3>4 DEF TypeOK
  <2>5. CASE EmitHead
    <3>1. EmitPacket /\ Push(NewPacket, BlockedTime(NewPacket))
          /\ active' = [active EXCEPT ![NewPacket.source] = TRUE]
          /\ UNCHANGED pending /\ Staged(NewPacket.source)
      BY <2>5 DEF EmitHead
    <3>2. NewPacket \in Packet /\ NewPacket.source \in Core
      BY <3>1, NewPacketProperties DEF EmitPacket
    <3>3. BlockedTime(NewPacket) \in Nat
      <4>1. NewPacket.sent \in Nat /\ offset[NewPacket.source] \in Nat
        BY <3>2 DEF Packet, TypeOK
      <4> QED
        BY <4>1 DEF BlockedTime
    <3>4. queue' \subseteq Queued /\ next_sequence' \in Nat
      BY <3>1, <3>2, <3>3, PushProperties
    <3>5. active' \in [Core -> BOOLEAN]
      BY <3>1 DEF TypeOK
    <3> QED
      BY <2>3, <3>1, <3>4, <3>5 DEF TypeOK
  <2>6. CASE EmitPending
    <3>1. EmitPacket /\ Staged(NewPacket.source)
          /\ pending' = [pending EXCEPT ![NewPacket.source] =
                                           Append(@, NewPacket)]
          /\ UNCHANGED <<queue, next_sequence, active>>
      BY <2>6 DEF EmitPending
    <3>2. NewPacket \in Packet /\ NewPacket.source \in Core
      BY <3>1, NewPacketProperties DEF EmitPacket
    <3>3. pending' \in [Core -> Seq(Packet)]
      <4>1. pending[NewPacket.source] \in Seq(Packet)
        BY <3>2 DEF TypeOK
      <4>2. Append(pending[NewPacket.source], NewPacket) \in Seq(Packet)
        BY <3>2, <4>1, AppendProperties
      <4> QED
        BY <3>1, <3>2, <4>2 DEF TypeOK
    <3> QED
      BY <2>3, <3>1, <3>3 DEF TypeOK
  <2>7. CASE SkipEmission
    <3>1. emissions \in Seq(Emission) /\ records \in Seq(Record)
          /\ step_start \in Nat /\ emissions # <<>>
      BY <2>7 DEF SkipEmission, TypeOK
    <3>2. emissions' \in Seq(Emission) /\ records' \in Seq(Record)
      <4>1. CASE Streamed(Head(emissions).source)
        BY <2>7, <3>1, <4>1, TakeRecordProperties DEF SkipEmission
      <4>2. CASE ~Streamed(Head(emissions).source)
        BY <2>7, <3>1, <4>2, HeadTailProperties DEF SkipEmission
      <4> QED
        BY <4>1, <4>2
    <3> QED
      BY <2>7, <3>2 DEF SkipEmission, TypeOK
  <2>8. ASSUME NEW p \in queue, NEW blocking \in Blockings,
               NEW transit \in Transits, Process(p, blocking, transit)
        PROVE  TypeOK'
    <3>1. /\ p.packet \in Packet /\ p.packet.source \in Lanes
          /\ p \in Queued
          /\ hw_latency' \in Nat /\ axon_free' \in [Core -> Nat]
          /\ offset' \in [Core -> Nat]
          /\ releasing' \in Core \cup {NoCore}
      BY <2>8, ProcessProperties
    <3>2. records \in Seq(Record) /\ step_start \in Nat
      BY DEF TypeOK
    <3>3. emissions' \in Seq(Emission) /\ records' \in Seq(Record)
      <4>1. CASE p.packet.last
        BY <2>8, <3>2, <4>1, TakeRecordProperties DEF Process
      <4>2. CASE ~p.packet.last
        BY <2>8, <4>2 DEF Process, TypeOK
      <4> QED
        BY <4>1, <4>2
    <3>4. p.packet.number \in Nat /\ p.generated \in Nat
      BY <3>1 DEF Packet, Queued
    <3>5. delivered' \in [Lanes -> Nat]
      BY <2>8, <3>1, <3>4 DEF Process, TypeOK
    <3>6. /\ queue' \subseteq queue /\ clock' = p.generated /\ events' = events + 1
          /\ UNCHANGED <<phase, timestep, step_start, next_sequence, pending,
                         active, unfired, completed, emitted>>
      BY <2>8 DEF Process
    <3>7. queue' \subseteq Queued
      BY <3>6 DEF TypeOK
    <3>8. {timestep, step_start, hw_latency, next_sequence, events, clock}'
            \subseteq Nat
      <4>1. timestep \in Nat /\ step_start \in Nat /\ next_sequence \in Nat
            /\ events \in Nat
        BY DEF TypeOK
      <4>2. events' \in Nat /\ clock' \in Nat
        BY <3>4, <3>6, <4>1
      <4> QED
        BY <3>1, <3>6, <4>1, <4>2
    <3>9. /\ phase' \in Phases /\ pending' \in [Core -> Seq(Packet)]
          /\ active' \in [Core -> BOOLEAN] /\ unfired' \subseteq NeuronCores
          /\ completed' \in BOOLEAN /\ emitted' \in [Lanes -> Nat]
      BY <3>6 DEF TypeOK
    <3> QED
      BY <3>1, <3>3, <3>5, <3>7, <3>8, <3>9 DEF TypeOK
  <2>9. CASE ReleaseNext
    <3> DEFINE c == releasing
    <3>1. c \in Core
      BY <2>9 DEF ReleaseNext, TypeOK
    <3>2. pending[c] \in Seq(Packet) /\ pending[c] # <<>>
      BY <2>9, <3>1 DEF ReleaseNext, TypeOK
    <3>3. Head(pending[c]) \in Packet /\ Tail(pending[c]) \in Seq(Packet)
      BY <3>2, HeadTailProperties
    <3>4. Push(NextWaiting(c), BlockedTime(NextWaiting(c)))
      BY <2>9 DEF ReleaseNext
    <3>5. BlockedTime(NextWaiting(c)) \in Nat
      <4>1. Head(pending[c]) \in PacketsOf(c)
        BY <3>1, <3>2, TailIsSeq DEF OwnPackets
      <4>2. Head(pending[c]).source = c /\ Head(pending[c]).sent \in Nat
        BY <4>1 DEF PacketsOf, Packet
      <4>3. offset[c] \in Nat
        BY <3>1 DEF TypeOK
      <4> QED
        BY <4>2, <4>3 DEF BlockedTime, NextWaiting
    <3>6. queue' \subseteq Queued /\ next_sequence' \in Nat
      BY <3>3, <3>4, <3>5, PushProperties DEF NextWaiting
    <3>7. pending' \in [Core -> Seq(Packet)]
      BY <2>9, <3>1, <3>3 DEF ReleaseNext, TypeOK
    <3> QED
      BY <2>9, <3>6, <3>7 DEF ReleaseNext, TypeOK
  <2>10. CASE ReleaseNone
    BY <2>10 DEF ReleaseNone, TypeOK
  <2>11. CASE Quiet
    <3>1. hw_latency' \in Nat
      BY <2>11, QuietProperties, TimingAssumption DEF TypeOK
    <3>2. phase' \in Phases /\ completed' \in BOOLEAN
      BY <2>11 DEF Quiet, StartDrain, CompleteTimestep, StopEarly, Finish,
                   Terminated, vars, TypeOK, Phases
    <3> QED
      BY <2>11, <3>1, <3>2, QuietProperties DEF TypeOK
  <2> QED
    BY <2>1, <2>2, <2>4, <2>5, <2>6, <2>7, <2>8, <2>9, <2>10, <2>11, NextCases
<1>3. TypeOK /\ OwnPackets /\ [Next]_vars => OwnPackets'
  <2> SUFFICES ASSUME TypeOK, OwnPackets, [Next]_vars PROVE OwnPackets'
    OBVIOUS
  <2>1. CASE EmitPending
    <3>1. EmitPacket /\ Staged(NewPacket.source)
          /\ pending' = [pending EXCEPT ![NewPacket.source] =
                                           Append(@, NewPacket)]
      BY <2>1 DEF EmitPending
    <3>2. NewPacket \in PacketsOf(NewPacket.source) /\ NewPacket.source \in Core
      BY <3>1, NewPacketProperties DEF EmitPacket, PacketsOf
    <3>3. Append(pending[NewPacket.source], NewPacket)
            \in Seq(PacketsOf(NewPacket.source))
      BY <3>2, AppendProperties DEF OwnPackets
    <3> QED
      BY <3>1, <3>2, <3>3 DEF OwnPackets, TypeOK
  <2>2. CASE ReleaseNext
    <3>1. releasing \in Core /\ pending[releasing] # <<>>
      BY <2>2 DEF ReleaseNext, TypeOK
    <3>2. Tail(pending[releasing]) \in Seq(PacketsOf(releasing))
      BY <3>1, TailIsSeq DEF OwnPackets
    <3> QED
      BY <2>2, <3>1, <3>2 DEF ReleaseNext, OwnPackets, TypeOK
  <2>3. CASE UNCHANGED pending
    BY <2>3 DEF OwnPackets
  <2> QED
    BY <2>1, <2>2, <2>3, NextCases, QuietProperties
       DEF BeginTimestep, RunNeurons, EmitToQueue, EmitHead, SkipEmission,
           Process, ReleaseNone
<1> QED
  BY <1>1, <1>2, <1>3, PTL DEF Spec

(* Every variable keeps its type: in particular no time, packet number or  *)
(* blocking offset becomes negative, and only cores are released           *)
(* (simulator.cpp, the whole of the timestep loop).                        *)
THEOREM TypeCorrect == Spec => []TypeOK
BY TypeInvariant, PTL

(***************************************************************************)
(* Phases: nothing is queued, emitted or released at the barrier.          *)
(***************************************************************************)
PhaseInv ==
    /\ phase \in {"barrier", "done"} => emissions = <<>>
    /\ phase # "drain" => releasing = NoCore
    /\ phase = "barrier" => queue = {}
    /\ phase \notin {"neurons", "thrown"} => unfired = {}

LEMMA PhaseInvariant == Spec => []PhaseInv
<1>1. Init => PhaseInv
  BY DEF Init, PhaseInv
<1>2. PhaseInv /\ [Next]_vars => PhaseInv'
  <2> SUFFICES ASSUME PhaseInv, [Next]_vars PROVE PhaseInv'
    OBVIOUS
  <2>1. ASSUME NEW recs \in Inputs, BeginTimestep(recs) PROVE PhaseInv'
    BY <2>1 DEF BeginTimestep, PhaseInv
  <2>2. ASSUME NEW c \in NeuronCores, NEW loop \in NeuronLoops,
               RunNeurons(c, loop)
        PROVE  PhaseInv'
    BY <2>2 DEF RunNeurons, PhaseInv
  <2>3. CASE emissions # <<>> /\ UNCHANGED <<phase, unfired, releasing>>
    BY <2>3 DEF PhaseInv
  <2>4. ASSUME NEW p \in queue, NEW blocking \in Blockings,
               NEW transit \in Transits, Process(p, blocking, transit)
        PROVE  PhaseInv'
    BY <2>4 DEF Process, PhaseInv
  <2>5. CASE ReleaseNext \/ ReleaseNone
    BY <2>5 DEF ReleaseNext, ReleaseNone, PhaseInv
  <2>6. CASE Quiet
    BY <2>6 DEF Quiet, StartDrain, CompleteTimestep, StopEarly, Finish,
                Terminated, vars, Idle, Drained, PhaseInv
  <2> QED
    BY <2>1, <2>2, <2>3, <2>4, <2>5, <2>6, NextCases
       DEF EmitToQueue, EmitHead, EmitPending, EmitPacket, SkipEmission
<1> QED
  BY <1>1, <1>2, PTL DEF Spec

(***************************************************************************)
(* What the steps do to the queue and the deques.                          *)
(***************************************************************************)

(* The cores whose packets wait in a deque: with a source FIFO, all but    *)
(* those of streamed records.                                              *)
Deque(c) == SourceFifo /\ c \in Core /\ ~Streamed(c)

LEMMA EmitToQueueProperties ==
  ASSUME TypeOK, EmitToQueue
  PROVE  /\ EmitPacket /\ UNCHANGED <<pending, active>>
         /\ emissions # <<>>
         /\ NewPacket \in Packet
         /\ ~Deque(NewPacket.source)
         /\ next_sequence' = next_sequence + 1
         /\ \E x \in queue' :
               /\ queue' = queue \cup {x}
               /\ x.packet = NewPacket
               /\ x.generated = NewPacket.sent
               /\ x.sequence = next_sequence
<1>1. EmitPacket /\ UNCHANGED <<pending, active>> /\ emissions # <<>>
      /\ Push(NewPacket, NewPacket.sent)
      /\ (Streamed(NewPacket.source) \/ ~Staged(NewPacket.source))
  BY DEF EmitToQueue, EmitPacket
<1>2. NewPacket \in Packet
  BY <1>1, NewPacketProperties
<1>3. NewPacket.sent \in Nat
  BY <1>2 DEF Packet
<1>4. ~Deque(NewPacket.source)
  BY <1>1, LaneAssumption DEF Deque, Staged
<1> QED
  BY <1>1, <1>2, <1>3, <1>4, PushProperties

LEMMA EmitHeadProperties ==
  ASSUME TypeOK, EmitHead
  PROVE  /\ EmitPacket /\ UNCHANGED pending
         /\ emissions # <<>>
         /\ NewPacket \in Packet /\ NewPacket.source \in Core
         /\ Deque(NewPacket.source)
         /\ ~active[NewPacket.source]
         /\ active' = [active EXCEPT ![NewPacket.source] = TRUE]
         /\ next_sequence' = next_sequence + 1
         /\ \E x \in queue' :
               /\ queue' = queue \cup {x}
               /\ x.packet = NewPacket
               /\ x.generated = NewPacket.sent + offset[NewPacket.source]
               /\ x.sequence = next_sequence
<1>1. EmitPacket /\ UNCHANGED pending /\ emissions # <<>>
      /\ Push(NewPacket, BlockedTime(NewPacket))
      /\ Staged(NewPacket.source) /\ ~Streamed(NewPacket.source)
      /\ ~active[NewPacket.source]
      /\ active' = [active EXCEPT ![NewPacket.source] = TRUE]
  BY DEF EmitHead, EmitPacket, HasHead
<1>2. NewPacket \in Packet /\ NewPacket.source \in Core
  BY <1>1, NewPacketProperties
<1>3. BlockedTime(NewPacket) = NewPacket.sent + offset[NewPacket.source]
      /\ BlockedTime(NewPacket) \in Nat
  <2>1. NewPacket.sent \in Nat
    BY <1>2 DEF Packet
  <2>2. offset[NewPacket.source] \in Nat
    BY <1>2 DEF TypeOK
  <2>3. BlockedTime(NewPacket) = NewPacket.sent + offset[NewPacket.source]
    BY Zenon DEF BlockedTime
  <2> QED
    BY <2>1, <2>2, <2>3
<1>4. Deque(NewPacket.source)
  BY <1>1, <1>2 DEF Deque, Staged
<1> QED
  BY <1>1, <1>2, <1>3, <1>4, PushProperties

LEMMA EmitPendingProperties ==
  ASSUME TypeOK, OwnPackets, EmitPending
  PROVE  /\ EmitPacket /\ UNCHANGED <<queue, next_sequence, active>>
         /\ emissions # <<>>
         /\ NewPacket \in Packet /\ NewPacket.source \in Core
         /\ Deque(NewPacket.source)
         /\ active[NewPacket.source]
         /\ \A c \in Core : c # NewPacket.source => pending'[c] = pending[c]
         /\ LET c == NewPacket.source
            IN  /\ Len(pending'[c]) = Len(pending[c]) + 1
                /\ Len(pending[c]) \in Nat
                /\ DOMAIN pending[c] = 1 .. Len(pending[c])
                /\ DOMAIN pending'[c] = 1 .. Len(pending[c]) + 1
                /\ \A k \in DOMAIN pending[c] : pending'[c][k] = pending[c][k]
                /\ pending'[c][Len(pending[c]) + 1] = NewPacket
<1> DEFINE c == NewPacket.source
<1>1. EmitPacket /\ UNCHANGED <<queue, next_sequence, active>>
      /\ emissions # <<>>
      /\ Staged(c) /\ ~Streamed(c) /\ active[c]
      /\ pending' = [pending EXCEPT ![c] = Append(@, NewPacket)]
  BY DEF EmitPending, EmitPacket, HasHead
<1>2. NewPacket \in Packet /\ c \in Core
  BY <1>1, NewPacketProperties
<1>3. Deque(c)
  BY <1>1, <1>2 DEF Deque, Staged
<1>4. pending[c] \in Seq(Packet) /\ pending \in [Core -> Seq(Packet)]
  BY <1>2 DEF TypeOK
<1>5. /\ \A b \in Core : b # c => pending'[b] = pending[b]
      /\ pending'[c] = Append(pending[c], NewPacket)
  BY <1>1, <1>2, <1>4
<1>6. DOMAIN pending[c] = 1 .. Len(pending[c]) /\ Len(pending[c]) \in Nat
  BY <1>4, LenProperties
<1>7. pending'[c] \in Seq(Packet) /\ Len(pending'[c]) = Len(pending[c]) + 1
      /\ \A k \in 1 .. Len(pending[c]) : pending'[c][k] = pending[c][k]
      /\ pending'[c][Len(pending[c]) + 1] = NewPacket
  BY <1>2, <1>4, <1>5, AppendProperties
<1>8. DOMAIN pending'[c] = 1 .. Len(pending[c]) + 1
  BY <1>7, LenProperties
<1> QED
  BY <1>1, <1>2, <1>3, <1>5, <1>6, <1>7, <1>8

LEMMA ReleaseNextProperties ==
  ASSUME TypeOK, OwnPackets, ReleaseNext
  PROVE  LET c == releasing
         IN  /\ c \in Core /\ c # NoCore
             /\ releasing' = NoCore
             /\ emissions = <<>> /\ UNCHANGED <<emissions, active>>
             /\ next_sequence' = next_sequence + 1
             /\ Len(pending[c]) \in Nat /\ Len(pending[c]) > 0
             /\ DOMAIN pending[c] = 1 .. Len(pending[c])
             /\ Len(pending'[c]) = Len(pending[c]) - 1
             /\ DOMAIN pending'[c] = 1 .. Len(pending[c]) - 1
             /\ \A k \in DOMAIN pending'[c] :
                   k + 1 \in DOMAIN pending[c]
                   /\ pending'[c][k] = pending[c][k + 1]
             /\ \A b \in Core : b # c => pending'[b] = pending[b]
             /\ pending[c][1] \in Packet
             /\ \E x \in queue' :
                   /\ queue' = queue \cup {x}
                   /\ x.packet = pending[c][1]
                   /\ x.packet.source = c
                   /\ x.generated = x.packet.sent + offset[c]
                   /\ x.sequence = next_sequence
<1> DEFINE c == releasing
<1>1. c \in Core /\ c # NoCore /\ pending[c] # <<>> /\ emissions = <<>>
      /\ releasing' = NoCore /\ UNCHANGED <<emissions, active>>
      /\ Push(NextWaiting(c), BlockedTime(NextWaiting(c)))
      /\ pending' = [pending EXCEPT ![c] = Tail(@)]
  BY DEF ReleaseNext, TypeOK
<1> HIDE DEF c
<1>2. pending[c] \in Seq(PacketsOf(c)) /\ pending \in [Core -> Seq(Packet)]
  BY <1>1 DEF OwnPackets, TypeOK
<1>3. /\ Len(pending[c]) \in Nat /\ Len(pending[c]) > 0
      /\ DOMAIN pending[c] = 1 .. Len(pending[c])
      /\ NextWaiting(c) = pending[c][1]
  BY <1>1, <1>2, EmptySeq, LenProperties DEF NextWaiting
<1>4. pending[c][1] \in Packet /\ pending[c][1].source = c
      /\ pending[c][1].sent \in Nat
  <2>1. pending[c][1] \in PacketsOf(c)
    BY <1>2, <1>3, ElementOfSeq
  <2> QED
    BY <2>1 DEF PacketsOf, Packet
<1>5. /\ \A b \in Core : b # c => pending'[b] = pending[b]
      /\ pending'[c] = Tail(pending[c])
  BY <1>1, <1>2
<1>6. pending'[c] \in Seq(PacketsOf(c))
      /\ Len(pending'[c]) = Len(pending[c]) - 1
      /\ \A k \in 1 .. Len(pending'[c]) : pending'[c][k] = pending[c][k + 1]
  BY <1>1, <1>2, <1>5, HeadTailProperties
<1>7. DOMAIN pending'[c] = 1 .. Len(pending[c]) - 1
  BY <1>6, LenProperties
<1>8. offset[c] \in Nat
  BY <1>1 DEF TypeOK
<1>9. BlockedTime(NextWaiting(c)) = pending[c][1].sent + offset[c]
      /\ BlockedTime(NextWaiting(c)) \in Nat
  BY <1>3, <1>4, <1>8 DEF BlockedTime
<1>10. /\ next_sequence' = next_sequence + 1
       /\ \E x \in queue' :
             /\ queue' = queue \cup {x}
             /\ x.packet = pending[c][1]
             /\ x.generated = pending[c][1].sent + offset[c]
             /\ x.sequence = next_sequence
  BY <1>1, <1>3, <1>4, <1>9, PushProperties
<1>11. \A k \in DOMAIN pending'[c] :
          k + 1 \in DOMAIN pending[c] /\ pending'[c][k] = pending[c][k + 1]
  BY <1>3, <1>6, <1>7
<1> QED
  BY <1>1, <1>3, <1>4, <1>5, <1>6, <1>7, <1>10, <1>11 DEF c

(***************************************************************************)
(* Push numbers: every queued packet has one of its own.                   *)
(***************************************************************************)
SequenceInv ==
    /\ \A p \in queue : p.sequence < next_sequence
    /\ \A p, q \in queue : p.sequence = q.sequence => p = q

LEMMA SequenceInvariant == Spec => []SequenceInv
<1>1. Init => SequenceInv
  BY DEF Init, SequenceInv
<1>2. TypeOK /\ OwnPackets /\ SequenceInv /\ [Next]_vars => SequenceInv'
  <2> SUFFICES ASSUME TypeOK, OwnPackets, SequenceInv, [Next]_vars
               PROVE  SequenceInv'
    OBVIOUS
  <2>1. next_sequence \in Nat /\ \A p \in queue : p.sequence \in Nat
    BY DEF TypeOK, Queued
  <2>2. ASSUME NEW x, queue' = queue \cup {x}, x.sequence = next_sequence,
               next_sequence' = next_sequence + 1
        PROVE  SequenceInv'
    BY <2>1, <2>2 DEF SequenceInv
  <2>3. CASE queue' \subseteq queue /\ UNCHANGED next_sequence
    BY <2>3 DEF SequenceInv
  <2>4. CASE EmitToQueue
    BY <2>2, <2>4, EmitToQueueProperties
  <2>5. CASE EmitHead
    BY <2>2, <2>5, EmitHeadProperties
  <2>6. CASE ReleaseNext
    BY <2>2, <2>6, ReleaseNextProperties
  <2>7. CASE EmitPending \/ SkipEmission \/ ReleaseNone \/ Quiet
    BY <2>3, <2>7, QuietProperties DEF EmitPending, SkipEmission, ReleaseNone
  <2> QED
    BY <2>3, <2>4, <2>5, <2>6, <2>7, NextCases
       DEF BeginTimestep, RunNeurons, Process
<1> QED
  BY <1>1, <1>2, TypeInvariant, PTL DEF Spec

(***************************************************************************)
(* The deques: a core is active while its head is queued or processed, at  *)
(* most one of its packets is queued, and none waits without a head.       *)
(***************************************************************************)
DequeInv ==
    /\ \A c \in Core : ~Deque(c) => pending[c] = <<>> /\ ~active[c]
    /\ \A c \in Core : Deque(c) =>
          /\ active[c] <=> releasing = c \/ \E p \in queue : p.packet.source = c
          /\ releasing = c => \A p \in queue : p.packet.source # c
          /\ ~active[c] => pending[c] = <<>>
    /\ \A p, q \in queue :
          p.packet.source = q.packet.source /\ Deque(p.packet.source) => p = q

LEMMA DequeInvariant == Spec => []DequeInv
<1>1. Init => DequeInv
  <2> SUFFICES ASSUME Init PROVE DequeInv
    OBVIOUS
  <2>1. \A c \in Core : c # NoCore
    BY LaneAssumption DEF Lanes
  <2> QED
    BY <2>1 DEF Init, DequeInv
<1>2. TypeOK /\ OwnPackets /\ DequeInv /\ [Next]_vars => DequeInv'
  <2> SUFFICES ASSUME TypeOK, OwnPackets, DequeInv, [Next]_vars
               PROVE  DequeInv'
    OBVIOUS
  <2>1. \A c \in Core : c # NoCore
    BY LaneAssumption DEF Lanes
  <2>2. CASE UNCHANGED <<queue, pending, active, releasing>>
    BY <2>2 DEF DequeInv, Deque
  <2>3. CASE EmitToQueue
    <3>1. PICK x : queue' = queue \cup {x} /\ ~Deque(x.packet.source)
      BY <2>3, EmitToQueueProperties
    <3>2. UNCHANGED <<pending, active, releasing>>
      BY <2>3, EmitToQueueProperties DEF EmitPacket
    <3> QED
      BY <3>1, <3>2 DEF DequeInv
  <2>4. CASE EmitHead
    <3> DEFINE s == NewPacket.source
    <3>1. PICK x : queue' = queue \cup {x} /\ x.packet.source = s
      BY <2>4, EmitHeadProperties
    <3>2. /\ s \in Core /\ Deque(s) /\ ~active[s]
          /\ active' = [active EXCEPT ![s] = TRUE]
          /\ UNCHANGED <<pending, releasing>>
      BY <2>4, EmitHeadProperties DEF EmitPacket
    <3> HIDE DEF s
    <3>3. releasing # s /\ \A p \in queue : p.packet.source # s
      BY <3>2 DEF DequeInv
    <3>4. active'[s] /\ \A c \in Core : c # s => active'[c] = active[c]
      BY <3>2 DEF TypeOK
    <3> QED
      BY <3>1, <3>2, <3>3, <3>4 DEF DequeInv
  <2>5. CASE EmitPending
    <3>1. /\ NewPacket.source \in Core /\ Deque(NewPacket.source)
          /\ active[NewPacket.source]
          /\ UNCHANGED <<queue, active, releasing>>
          /\ \A c \in Core : c # NewPacket.source => pending'[c] = pending[c]
      BY <2>5, EmitPendingProperties DEF EmitPacket
    <3> QED
      BY <3>1 DEF DequeInv
  <2>6. ASSUME NEW p \in queue, NEW blocking \in Blockings,
               NEW transit \in Transits, Process(p, blocking, transit)
        PROVE  DequeInv'
    <3> DEFINE s == p.packet.source
    <3>1. /\ queue' = queue \ {p}
          /\ Staged(s) => s \in Core /\ releasing' = s
          /\ ~Staged(s) => releasing' = NoCore
          /\ UNCHANGED <<pending, active>>
          /\ releasing = NoCore
      BY <2>6, ProcessProperties DEF Process, Idle
    <3>2. \A c \in Core : Deque(c) /\ c = s => Staged(s) /\ active[c]
      BY LaneAssumption DEF DequeInv, Deque, Staged, Lanes
    <3>3. \A c \in Core : Deque(c) /\ c = s =>
             \A q \in queue \ {p} : q.packet.source # c
      BY DEF DequeInv
    <3> HIDE DEF s
    <3>4. \A c \in Core : Deque(c) /\ c # s =>
             /\ releasing # c /\ releasing' # c
             /\ (\E q \in queue : q.packet.source = c)
                   <=> (\E q \in queue' : q.packet.source = c)
      BY <2>1, <3>1 DEF s
    <3>5. \A c \in Core : ~Deque(c) => pending'[c] = <<>> /\ ~active'[c]
      BY <3>1 DEF DequeInv
    <3>6. \A c \in Core : Deque(c) =>
             /\ active'[c] <=> releasing' = c
                               \/ \E q \in queue' : q.packet.source = c
             /\ releasing' = c => \A q \in queue' : q.packet.source # c
             /\ ~active'[c] => pending'[c] = <<>>
      <4> SUFFICES ASSUME NEW c \in Core, Deque(c)
                   PROVE  /\ active'[c] <=>
                                releasing' = c
                                \/ \E q \in queue' : q.packet.source = c
                          /\ releasing' = c =>
                                \A q \in queue' : q.packet.source # c
                          /\ ~active'[c] => pending'[c] = <<>>
        OBVIOUS
      <4>1. CASE c = s
        BY <3>1, <3>2, <3>3, <4>1
      <4>2. CASE c # s
        BY <3>1, <3>4, <4>2 DEF DequeInv
      <4> QED
        BY <4>1, <4>2
    <3> QED
      BY <3>1, <3>5, <3>6 DEF DequeInv, Deque, Streamed
  <2>7. CASE ReleaseNext
    <3> DEFINE s == releasing
    <3>1. PICK x : queue' = queue \cup {x} /\ x.packet.source = s
      BY <2>7, ReleaseNextProperties
    <3>2. /\ s \in Core /\ pending[s] # <<>> /\ releasing' = NoCore
          /\ UNCHANGED active
          /\ \A c \in Core : c # s => pending'[c] = pending[c]
      BY <2>7, ReleaseNextProperties DEF ReleaseNext
    <3>3. Deque(s) /\ active[s] /\ \A p \in queue : p.packet.source # s
      BY <3>2 DEF DequeInv
    <3> QED
      BY <2>1, <3>1, <3>2, <3>3 DEF DequeInv
  <2>8. CASE ReleaseNone
    <3> DEFINE s == releasing
    <3>1. /\ s \in Core /\ pending[s] = <<>> /\ releasing' = NoCore
          /\ UNCHANGED <<queue, pending>>
          /\ active' = [active EXCEPT ![s] = FALSE]
      BY <2>8 DEF ReleaseNone, TypeOK
    <3>2. ~active'[s] /\ \A c \in Core : c # s => active'[c] = active[c]
      BY <3>1 DEF TypeOK
    <3> QED
      BY <2>1, <3>1, <3>2 DEF DequeInv
  <2> QED
    BY <2>2, <2>3, <2>4, <2>5, <2>6, <2>7, <2>8, NextCases, QuietProperties
       DEF BeginTimestep, RunNeurons, SkipEmission
<1> QED
  BY <1>1, <1>2, TypeInvariant, PTL DEF Spec

(* A packet waits in its core's deque only while the head of that core is  *)
(* queued or being processed: processing the head pushes it.  This holds   *)
(* in every queueing mode (simulator.cpp:262-296, 317-330).                *)
THEOREM NoPacketStranded == Spec => []NoStrandedPacket
<1>1. DequeInv => NoStrandedPacket
  BY DEF DequeInv, NoStrandedPacket
<1> QED
  BY <1>1, DequeInvariant, PTL

(* With a source FIFO and no streaming, the global queue never holds two   *)
(* packets of one source core (hardware_config.hpp:96); with streaming     *)
(* too, run stream_fifo_heads shows two.                                   *)
THEOREM HeadsOnly ==
  ASSUME ~Streaming
  PROVE  Spec => []OneQueuedPerSource
<1>1. TypeOK /\ DequeInv => OneQueuedPerSource
  <2> SUFFICES ASSUME TypeOK, DequeInv PROVE OneQueuedPerSource
    OBVIOUS
  <2>1. \A p \in queue : p.packet.source \in Lanes
    BY DEF TypeOK, Queued, Packet
  <2>2. \A p \in queue : SourceFifo /\ p.packet.source # Direct
                            => Deque(p.packet.source)
    BY <2>1 DEF Lanes, Deque, Streamed
  <2> QED
    BY <2>2 DEF DequeInv, OneQueuedPerSource
<1> QED
  BY <1>1, TypeCorrect, DequeInvariant, PTL

(***************************************************************************)
(* Emissions: those of a timestep are ordered in time and none lies before *)
(* its start; a streamed record is emitted alone; a core whose loop is     *)
(* still to run has nothing emitted or queued.                             *)
(***************************************************************************)
EmissionInv ==
    /\ step_start <= hw_latency
    /\ \A k \in DOMAIN emissions :
          /\ step_start <= emissions[k].at
          /\ IsRecord(emissions[k].source) => emissions[k].at = step_start
          /\ emissions[k].source \notin unfired
          /\ Streamed(emissions[k].source) => Len(emissions) = 1
    /\ \A j, k \in DOMAIN emissions : j < k => emissions[j].at <= emissions[k].at
    /\ \A p \in queue : p.packet.source \notin unfired
    /\ phase \in {"drain", "barrier", "done"} /\ ~Streaming => emissions = <<>>
    /\ ~Streaming => records = <<>>

(* Taking a streamed record establishes what is said of emissions.         *)
LEMMA TakeRecordEmissions ==
  ASSUME NEW recs \in Seq(Record), NEW at \in Nat, TakeRecord(recs, at)
  PROVE  /\ \A k \in DOMAIN emissions' :
               /\ emissions'[k].source \in InputCores \cup {Direct}
               /\ IsRecord(emissions'[k].source)
               /\ emissions'[k].source \notin NeuronCores
               /\ emissions'[k].at = at
               /\ Len(emissions') = 1
         /\ recs = <<>> => emissions' = <<>> /\ records' = <<>>
<1>1. \A l \in InputCores \cup {Direct} : l \notin NeuronCores
  BY LaneAssumption DEF Core
<1>2. CASE recs = <<>>
  <2>1. emissions' = <<>> /\ records' = <<>>
    BY <1>2, TakeRecordProperties
  <2> QED
    BY <2>1
<1>3. CASE recs # <<>>
  BY <1>1, <1>3, TakeRecordProperties DEF IsRecord
<1> QED
  BY <1>2, <1>3

LEMMA EmissionInvariant == Spec => []EmissionInv
<1>1. Init => EmissionInv
  BY DEF Init, EmissionInv
<1>2. TypeOK /\ OwnPackets /\ PhaseInv /\ EmissionInv /\ [Next]_vars
        => EmissionInv'
  <2> SUFFICES ASSUME TypeOK, OwnPackets, PhaseInv, EmissionInv, [Next]_vars
               PROVE  EmissionInv'
    OBVIOUS
  <2>1. /\ step_start \in Nat /\ hw_latency \in Nat
        /\ records \in Seq(Record) /\ unfired \subseteq NeuronCores
        /\ emissions \in Seq(Emission)
    BY DEF TypeOK
  <2>2. \A l \in InputCores \cup {Direct} : l \notin NeuronCores
    BY LaneAssumption DEF Core
  <2>3. ASSUME NEW recs \in Inputs, BeginTimestep(recs) PROVE EmissionInv'
    <3>1. /\ recs \in Seq(Record) /\ queue' = {} /\ unfired' = NeuronCores
          /\ step_start' = hw_latency /\ hw_latency' = hw_latency
          /\ phase' \in {"thrown", "neurons"}
      BY <2>3, TrafficAssumption DEF BeginTimestep, PhaseInv
    <3>2. CASE Streaming
      BY <2>1, <2>3, <3>1, <3>2, TakeRecordEmissions
         DEF BeginTimestep, EmissionInv
    <3>3. CASE ~Streaming
      <4>1. emissions' = EmissionsOf(recs, hw_latency) /\ records' = <<>>
        BY <2>3, <3>3 DEF BeginTimestep
      <4>2. \A k \in DOMAIN emissions' :
               /\ emissions'[k].source \notin NeuronCores
               /\ emissions'[k].at = hw_latency
        BY <2>1, <2>2, <3>1, <4>1, EmissionsOfProperties
      <4> QED
        BY <2>1, <3>1, <3>3, <4>1, <4>2 DEF EmissionInv, Streamed
    <3> QED
      BY <3>2, <3>3
  <2>4. ASSUME NEW c \in NeuronCores, NEW loop \in NeuronLoops,
               RunNeurons(c, loop)
        PROVE  EmissionInv'
    <3>1. /\ hw_latency' \in Nat /\ hw_latency <= hw_latency'
          /\ \A k \in DOMAIN emissions' :
                emissions'[k].source = c /\ step_start <= emissions'[k].at
          /\ \A j, k \in DOMAIN emissions' :
                j < k => emissions'[j].at <= emissions'[k].at
      BY <2>4, FiringsProperties
    <3>2. ~IsRecord(c) /\ ~Streamed(c) /\ c \notin unfired'
      BY <2>4 DEF IsRecord, Streamed, RunNeurons
    <3>3. UNCHANGED <<step_start, queue, phase, records>>
          /\ phase = "neurons" /\ unfired' \subseteq unfired
      BY <2>4 DEF RunNeurons
    <3>4. step_start <= hw_latency'
      BY <2>1, <3>1 DEF EmissionInv
    <3> QED
      BY <3>1, <3>2, <3>3, <3>4 DEF EmissionInv
  <2>5. CASE EmitPacket /\ \A p \in queue' \ queue : p.packet = NewPacket
    <3>1. /\ emissions # <<>> /\ 1 \in DOMAIN emissions
          /\ NewPacket.source = emissions[1].source
          /\ UNCHANGED <<step_start, hw_latency, unfired, phase, records>>
      BY <2>5, NewPacketProperties DEF EmitPacket
    <3>2. /\ DOMAIN emissions = 1 .. Len(emissions) /\ Len(emissions) \in Nat
          /\ DOMAIN emissions' = 1 .. Len(emissions')
          /\ \A k \in DOMAIN emissions : emissions[k].at \in Nat
      <4>1. emissions' \in Seq(Emission)
        BY <2>5, EmitPacketProperties
      <4> QED
        <5>1. DOMAIN emissions = 1 .. Len(emissions) /\ Len(emissions) \in Nat
              /\ DOMAIN emissions' = 1 .. Len(emissions')
          BY <2>1, <4>1, LenProperties
        <5>2. \A k \in DOMAIN emissions : emissions[k] \in Emission
          BY <2>1, <5>1, ElementOfSeq
        <5> QED
          BY <5>1, <5>2 DEF Emission
    <3>3. \A p \in queue' : p.packet.source \notin unfired'
      BY <2>5, <3>1 DEF EmissionInv
    <3>4. CASE emissions[1].packets = 1
      <4>1. /\ Len(emissions') = Len(emissions) - 1
            /\ \A k \in DOMAIN emissions' :
                  k + 1 \in DOMAIN emissions
                  /\ emissions'[k] = emissions[k + 1]
        BY <2>5, <3>4, EmitPacketProperties
      <4>2. \A k \in DOMAIN emissions' :
               ~Streamed(emissions'[k].source)
        BY <3>2, <4>1 DEF EmissionInv
      <4>3. \A j, k \in DOMAIN emissions' :
               j < k => emissions'[j].at <= emissions'[k].at
        <5> SUFFICES ASSUME NEW j \in DOMAIN emissions',
                            NEW k \in DOMAIN emissions', j < k
                     PROVE  emissions'[j].at <= emissions'[k].at
          OBVIOUS
        <5>1. j + 1 \in DOMAIN emissions /\ k + 1 \in DOMAIN emissions
              /\ j + 1 < k + 1
          BY <3>2, <4>1
        <5>2. emissions[j + 1].at <= emissions[k + 1].at
          BY <5>1 DEF EmissionInv
        <5> QED
          BY <4>1, <5>2
      <4> QED
        BY <3>1, <3>3, <4>1, <4>2, <4>3 DEF EmissionInv
    <3>5. CASE emissions[1].packets # 1
      <4>1. /\ Len(emissions') = Len(emissions)
            /\ DOMAIN emissions' = DOMAIN emissions
            /\ \A k \in DOMAIN emissions :
                  /\ emissions'[k].source = emissions[k].source
                  /\ emissions'[k].at = emissions[k].at
        BY <2>5, <3>5, EmitPacketProperties
      <4> QED
        BY <3>1, <3>3, <4>1 DEF EmissionInv
    <3> QED
      BY <3>4, <3>5
  <2>6. CASE SkipEmission
    <3>1. emissions # <<>>
          /\ UNCHANGED <<step_start, hw_latency, unfired, phase, queue>>
      BY <2>6 DEF SkipEmission
    <3>2. Head(emissions) = emissions[1] /\ 1 \in DOMAIN emissions
      BY <3>1, NewPacketProperties
    <3>3. CASE Streamed(emissions[1].source)
      <4>1. TakeRecord(records, step_start) /\ Streaming
        BY <2>6, <3>2, <3>3 DEF SkipEmission, Streamed
      <4> QED
        BY <2>1, <3>1, <4>1, TakeRecordEmissions DEF EmissionInv
    <3>4. CASE ~Streamed(emissions[1].source)
      <4>1. emissions' = Tail(emissions) /\ UNCHANGED records
        BY <2>6, <3>2, <3>4 DEF SkipEmission
      <4>2. emissions' \in Seq(Emission) /\ Len(emissions') = Len(emissions) - 1
            /\ \A k \in 1 .. Len(emissions') : emissions'[k] = emissions[k + 1]
        BY <2>1, <3>1, <4>1, HeadTailProperties
      <4>3. /\ DOMAIN emissions' = 1 .. Len(emissions')
            /\ DOMAIN emissions = 1 .. Len(emissions)
            /\ Len(emissions) \in Nat
        BY <2>1, <4>2, LenProperties
      <4>4. \A k \in DOMAIN emissions' :
               k + 1 \in DOMAIN emissions /\ emissions'[k] = emissions[k + 1]
        BY <4>2, <4>3
      <4>5. \A k \in DOMAIN emissions' : ~Streamed(emissions'[k].source)
        BY <4>2, <4>3, <4>4 DEF EmissionInv
      <4>6. \A j, k \in DOMAIN emissions' :
               j < k => emissions'[j].at <= emissions'[k].at
        <5> SUFFICES ASSUME NEW j \in DOMAIN emissions',
                            NEW k \in DOMAIN emissions', j < k
                     PROVE  emissions'[j].at <= emissions'[k].at
          OBVIOUS
        <5>1. j + 1 \in DOMAIN emissions /\ k + 1 \in DOMAIN emissions
              /\ j + 1 < k + 1
          BY <4>3, <4>4
        <5>2. emissions[j + 1].at <= emissions[k + 1].at
          BY <5>1 DEF EmissionInv
        <5> QED
          BY <4>4, <5>2
      <4> QED
        BY <3>1, <4>1, <4>4, <4>5, <4>6 DEF EmissionInv
    <3> QED
      BY <3>3, <3>4
  <2>7. ASSUME NEW p \in queue, NEW blocking \in Blockings,
               NEW transit \in Transits, Process(p, blocking, transit)
        PROVE  EmissionInv'
    <3>1. /\ hw_latency' \in Nat /\ hw_latency <= hw_latency'
          /\ queue' \subseteq queue
          /\ emissions = <<>>
          /\ UNCHANGED <<step_start, unfired, phase>>
      BY <2>7, ProcessProperties DEF Process, Idle
    <3>2. step_start <= hw_latency'
      BY <2>1, <3>1 DEF EmissionInv
    <3>3. CASE p.packet.last
      <4>1. TakeRecord(records, step_start)
        BY <2>7, <3>3 DEF Process
      <4> QED
        BY <2>1, <3>1, <3>2, <4>1, TakeRecordEmissions DEF EmissionInv
    <3>4. CASE ~p.packet.last
      <4>1. UNCHANGED <<emissions, records>>
        BY <2>7, <3>4 DEF Process
      <4> QED
        BY <3>1, <3>2, <4>1 DEF EmissionInv
    <3> QED
      BY <3>3, <3>4
  <2>8. CASE ReleaseNext
    <3> DEFINE s == releasing
    <3>1. PICK x : queue' = queue \cup {x} /\ x.packet.source = s
      BY <2>8, ReleaseNextProperties
    <3>2. emissions = <<>>
          /\ UNCHANGED <<step_start, hw_latency, unfired, phase, emissions,
                         records>>
      BY <2>8 DEF ReleaseNext
    <3>3. s \notin unfired
      BY <2>8 DEF ReleaseNext, PhaseInv
    <3> QED
      BY <3>1, <3>2, <3>3 DEF EmissionInv
  <2>9. CASE UNCHANGED <<step_start, queue, emissions, unfired, records>>
             /\ hw_latency' \in Nat /\ hw_latency <= hw_latency'
             /\ (phase' # phase => emissions' = <<>>)
    <3>1. step_start <= hw_latency'
      BY <2>1, <2>9 DEF EmissionInv
    <3> QED
      BY <2>9, <3>1 DEF EmissionInv
  <2>10. CASE ReleaseNone
    BY <2>1, <2>9, <2>10 DEF ReleaseNone
  <2>11. CASE Quiet
    <3>1. hw_latency' \in Nat /\ hw_latency <= hw_latency'
      BY <2>1, <2>11, QuietProperties, TimingAssumption
    <3>2. phase' # phase => emissions' = <<>>
      BY <2>11 DEF Quiet, StartDrain, CompleteTimestep, StopEarly, Finish,
                   Terminated, vars, Idle, PhaseInv
    <3> QED
      BY <2>9, <2>11, <3>1, <3>2, QuietProperties
  <2>12. CASE EmitToQueue \/ EmitHead \/ EmitPending
    BY <2>5, <2>12, EmitToQueueProperties, EmitHeadProperties
       DEF EmitPending
  <2> QED
    BY <2>3, <2>4, <2>6, <2>7, <2>8, <2>10, <2>11, <2>12, NextCases
<1> QED
  BY <1>1, <1>2, TypeInvariant, PhaseInvariant, PTL DEF Spec

(***************************************************************************)
(* Blocking: a queued head carries all blocking its core has met.          *)
(***************************************************************************)
OffsetInv ==
    \A p \in queue :
        Deque(p.packet.source) =>
            p.generated = p.packet.sent + offset[p.packet.source]

LEMMA OffsetInvariant == Spec => []OffsetInv
<1>1. Init => OffsetInv
  BY DEF Init, OffsetInv
<1>2. TypeOK /\ OwnPackets /\ PhaseInv /\ DequeInv /\ OffsetInv /\ [Next]_vars
        => OffsetInv'
  <2> SUFFICES ASSUME TypeOK, OwnPackets, PhaseInv, DequeInv, OffsetInv,
                      [Next]_vars
               PROVE  OffsetInv'
    OBVIOUS
  <2>1. ASSUME NEW recs \in Inputs, BeginTimestep(recs) PROVE OffsetInv'
    BY <2>1 DEF BeginTimestep, PhaseInv, OffsetInv
  <2>2. CASE UNCHANGED <<queue, offset>>
    BY <2>2 DEF OffsetInv, Deque, Streamed
  <2>3. ASSUME UNCHANGED offset, NEW x, queue' = queue \cup {x},
               Deque(x.packet.source) =>
                  x.generated = x.packet.sent + offset[x.packet.source]
        PROVE  OffsetInv'
    BY <2>3 DEF OffsetInv
  <2>4. CASE EmitToQueue
    BY <2>3, <2>4, EmitToQueueProperties DEF EmitPacket
  <2>5. CASE EmitHead
    BY <2>3, <2>5, EmitHeadProperties DEF EmitPacket
  <2>6. ASSUME NEW p \in queue, NEW blocking \in Blockings,
               NEW transit \in Transits, Process(p, blocking, transit)
        PROVE  OffsetInv'
    <3>1. /\ queue' = queue \ {p}
          /\ \A c \in Core : c # p.packet.source => offset'[c] = offset[c]
      BY <2>6, ProcessProperties
    <3>2. \A q \in queue \ {p} :
             Deque(q.packet.source) => q.packet.source # p.packet.source
      BY DEF DequeInv
    <3> QED
      BY <3>1, <3>2 DEF OffsetInv, Deque
  <2>7. CASE ReleaseNext
    BY <2>3, <2>7, ReleaseNextProperties DEF ReleaseNext
  <2> QED
    BY <2>1, <2>2, <2>4, <2>5, <2>6, <2>7, NextCases, QuietProperties
       DEF RunNeurons, EmitPending, EmitPacket, SkipEmission, ReleaseNone
<1> QED
  BY <1>1, <1>2, TypeInvariant, PhaseInvariant, DequeInvariant, PTL DEF Spec

(***************************************************************************)
(* Axon-outs: a core's packets leave it in the order of emission, and it   *)
(* is free by the time the last of them has been processed.                *)
(***************************************************************************)
LEMMA EmitAxonOut ==
  ASSUME TypeOK, EmitPacket
  PROVE  LET s == NewPacket.source
         IN  /\ Staged(s) => /\ s \in Core
                             /\ axon_free'[s] = NewPacket.sent
                             /\ axon_free[s] <= axon_free'[s]
             /\ \A c \in Core : ~Staged(s) \/ c # s
                                   => axon_free'[c] = axon_free[c]
             /\ \A c \in Core : axon_free[c] <= axon_free'[c]
<1> DEFINE s == NewPacket.source
<1>1. /\ Head(emissions) = emissions[1] /\ s = emissions[1].source
      /\ Staged(s) => s \in Core /\ axon_free[s] <= NewPacket.sent
  BY NewPacketProperties DEF EmitPacket
<1>2. axon_free' = IF Staged(s)
                   THEN [axon_free EXCEPT ![s] = NewPacket.sent] ELSE axon_free
  BY <1>1 DEF EmitPacket
<1>3. axon_free \in [Core -> Nat]
  BY DEF TypeOK
<1> HIDE DEF s
<1> QED
  BY <1>1, <1>2, <1>3 DEF s

LEMMA PacketTypes ==
  ASSUME TypeOK
  PROVE  /\ \A p \in queue :
               /\ p.packet \in Packet /\ p.packet.source \in Lanes
               /\ p.packet.sent \in Nat /\ p.packet.number \in Nat
               /\ p.generated \in Nat /\ p.sequence \in Nat
         /\ \A c \in Core :
               /\ axon_free[c] \in Nat /\ offset[c] \in Nat
               /\ Len(pending[c]) \in Nat
               /\ DOMAIN pending[c] = 1 .. Len(pending[c])
               /\ \A k \in DOMAIN pending[c] :
                     /\ pending[c][k].sent \in Nat
                     /\ pending[c][k].number \in Nat
<1>1. \A p \in queue : p \in Queued
  BY DEF TypeOK
<1>2. \A c \in Core : pending[c] \in Seq(Packet)
  BY DEF TypeOK
<1>3. \A c \in Core : /\ Len(pending[c]) \in Nat
                      /\ DOMAIN pending[c] = 1 .. Len(pending[c])
  BY <1>2, LenProperties
<1>4. \A c \in Core : \A k \in DOMAIN pending[c] : pending[c][k] \in Packet
  BY <1>2, <1>3, ElementOfSeq
<1>5. \A p \in queue :
         /\ p.packet \in Packet /\ p.packet.source \in Lanes
         /\ p.packet.sent \in Nat /\ p.packet.number \in Nat
         /\ p.generated \in Nat /\ p.sequence \in Nat
  BY <1>1 DEF Queued, Packet
<1>6. \A c \in Core : axon_free[c] \in Nat /\ offset[c] \in Nat
  BY DEF TypeOK
<1> QED
  BY <1>3, <1>4, <1>5, <1>6 DEF Packet

(* No packet is queued for an earlier time than it was sent.               *)
SentQueued ==
    \A p \in queue :
        /\ p.packet.sent <= p.generated
        /\ ~Deque(p.packet.source) => p.generated = p.packet.sent
        /\ Staged(p.packet.source)
              => p.packet.sent <= axon_free[p.packet.source]

(* A deque is in the order of the send times, behind its head.             *)
SentInDeque ==
    \A c \in Core : \A k \in DOMAIN pending[c] :
        /\ pending[c][k].sent <= axon_free[c]
        /\ \A j \in DOMAIN pending[c] :
              j < k => pending[c][j].sent <= pending[c][k].sent
        /\ \A p \in queue :
              p.packet.source = c => p.packet.sent <= pending[c][k].sent

(* What reserves an axon-out past the latest end is still to be processed. *)
SentReserves ==
    \A c \in Core :
        \/ axon_free[c] <= hw_latency
        \/ \E p \in queue : p.packet.source = c /\ axon_free[c] <= p.packet.sent
        \/ \E k \in DOMAIN pending[c] : axon_free[c] <= pending[c][k].sent

SentInv == SentQueued /\ SentInDeque /\ SentReserves

LEMMA SentInvariant == Spec => []SentInv
<1>1. Init => SentInv
  BY DEF Init, SentInv, SentQueued, SentInDeque, SentReserves
<1>2. TypeOK /\ OwnPackets /\ DequeInv /\ SentInv /\ [Next]_vars => SentInv'
  <2> SUFFICES ASSUME TypeOK, OwnPackets, DequeInv, SentInv, [Next]_vars
               PROVE  SentInv'
    OBVIOUS
  <2> USE DEF SentInv
  <2> DEFINE s == NewPacket.source
  <2>1. hw_latency \in Nat
    BY DEF TypeOK
  <2>2. \A c \in Core : c # NoCore
    BY LaneAssumption DEF Lanes
  <2>3. CASE UNCHANGED <<queue, pending, axon_free>>
             /\ hw_latency' \in Nat /\ hw_latency <= hw_latency'
    <3>1. SentQueued' /\ SentInDeque'
      BY <2>3 DEF SentQueued, SentInDeque, Deque, Streamed, Staged
    <3>2. SentReserves'
      BY <2>1, <2>3, PacketTypes DEF SentReserves
    <3> QED
      BY <3>1, <3>2
  <2>4. CASE EmitToQueue
    <3>1. PICK x \in queue' : /\ queue' = queue \cup {x}
                              /\ x.packet = NewPacket
                              /\ x.generated = NewPacket.sent
      BY <2>4, EmitToQueueProperties
    <3>2. /\ EmitPacket /\ UNCHANGED <<pending, hw_latency>>
          /\ ~Deque(s) /\ NewPacket \in Packet
      BY <2>4, EmitToQueueProperties DEF EmitPacket
    <3>3. NewPacket.sent \in Nat /\ axon_free' \in [Core -> Nat]
      BY <3>2, EmitPacketProperties DEF Packet
    <3>4. SentQueued'
      <4>1. SUFFICES ASSUME NEW p \in queue'
                     PROVE  /\ p.packet.sent <= p.generated
                            /\ ~Deque(p.packet.source)
                                  => p.generated = p.packet.sent
                            /\ Staged(p.packet.source) =>
                                  p.packet.sent <= axon_free'[p.packet.source]
        BY DEF SentQueued, Deque, Streamed, Staged
      <4>2. CASE p = x
        BY <3>1, <3>2, <3>3, <4>2, EmitAxonOut
      <4>3. CASE p # x
        <5>1. p \in queue
          BY <3>1, <4>3
        <5>2. Staged(p.packet.source) =>
                 /\ p.packet.source \in Core
                 /\ p.packet.sent <= axon_free[p.packet.source]
          BY <5>1, PacketTypes DEF SentQueued, Staged, Lanes
        <5> QED
          BY <3>2, <3>3, <5>1, <5>2, EmitAxonOut, PacketTypes DEF SentQueued
      <4> QED
        BY <4>2, <4>3
    <3>5. SentInDeque'
      <4>1. \A c \in Core : \A k \in DOMAIN pending[c] : c # s
        BY <3>2 DEF DequeInv
      <4>2. \A c \in Core : c # s => axon_free'[c] = axon_free[c]
        BY <3>2, EmitAxonOut
      <4> QED
        BY <3>1, <3>2, <4>1, <4>2 DEF SentInDeque
    <3>6. SentReserves'
      <4> SUFFICES ASSUME NEW c \in Core
                   PROVE  \/ axon_free'[c] <= hw_latency
                          \/ \E p \in queue' : p.packet.source = c
                                            /\ axon_free'[c] <= p.packet.sent
                          \/ \E k \in DOMAIN pending[c] :
                                axon_free'[c] <= pending[c][k].sent
        BY <3>2 DEF SentReserves
      <4>1. CASE c = s /\ Staged(s)
        BY <3>1, <3>2, <3>3, <4>1, EmitAxonOut
      <4>2. CASE ~(c = s /\ Staged(s))
        <5>1. axon_free'[c] = axon_free[c]
          BY <3>2, <4>2, EmitAxonOut
        <5> QED
          BY <3>1, <5>1 DEF SentReserves
      <4> QED
        BY <4>1, <4>2
    <3> QED
      BY <3>4, <3>5, <3>6
  <2>5. CASE EmitHead
    <3>1. PICK x \in queue' : /\ queue' = queue \cup {x}
                              /\ x.packet = NewPacket
                              /\ x.generated = NewPacket.sent + offset[s]
      BY <2>5, EmitHeadProperties
    <3>2. /\ EmitPacket /\ UNCHANGED <<pending, hw_latency>>
          /\ Deque(s) /\ Staged(s) /\ s \in Core /\ ~active[s]
          /\ NewPacket \in Packet
      BY <2>5, EmitHeadProperties DEF EmitPacket, EmitHead
    <3>3. NewPacket.sent \in Nat /\ axon_free' \in [Core -> Nat]
          /\ offset[s] \in Nat
      BY <3>2, EmitPacketProperties, PacketTypes DEF Packet
    <3>4. /\ \A c \in Core : c # s => axon_free'[c] = axon_free[c]
          /\ axon_free'[s] = NewPacket.sent
          /\ pending[s] = <<>>
          /\ \A p \in queue : p.packet.source # s
      BY <3>2, EmitAxonOut DEF DequeInv
    <3>5. SentQueued'
      <4>1. SUFFICES ASSUME NEW p \in queue'
                     PROVE  /\ p.packet.sent <= p.generated
                            /\ ~Deque(p.packet.source)
                                  => p.generated = p.packet.sent
                            /\ Staged(p.packet.source) =>
                                  p.packet.sent <= axon_free'[p.packet.source]
        BY DEF SentQueued, Deque, Streamed, Staged
      <4>2. CASE p = x
        BY <3>1, <3>2, <3>3, <3>4, <4>2
      <4>3. CASE p # x
        <5>1. p \in queue
          BY <3>1, <4>3
        <5>2. Staged(p.packet.source) => p.packet.source \in Core
          BY <5>1, PacketTypes DEF Staged, Lanes
        <5> QED
          BY <3>4, <5>1, <5>2 DEF SentQueued
      <4> QED
        BY <4>2, <4>3
    <3>6. SentInDeque'
      BY <3>1, <3>2, <3>4 DEF SentInDeque
    <3>7. SentReserves'
      BY <3>1, <3>2, <3>3, <3>4 DEF SentReserves
    <3> QED
      BY <3>5, <3>6, <3>7
  <2>6. CASE EmitPending
    <3> DEFINE n == Len(pending[s])
    <3>1. /\ EmitPacket /\ UNCHANGED <<queue, hw_latency>>
          /\ Staged(s) /\ s \in Core
          /\ NewPacket \in Packet
          /\ \A c \in Core : c # s => pending'[c] = pending[c]
          /\ n \in Nat
          /\ DOMAIN pending[s] = 1 .. n /\ DOMAIN pending'[s] = 1 .. n + 1
          /\ \A k \in DOMAIN pending[s] : pending'[s][k] = pending[s][k]
          /\ pending'[s][n + 1] = NewPacket
      BY <2>6, EmitPendingProperties DEF EmitPacket, EmitPending
    <3>2. NewPacket.sent \in Nat /\ axon_free' \in [Core -> Nat]
      BY <3>1, EmitPacketProperties DEF Packet
    <3>3. /\ \A c \in Core : c # s => axon_free'[c] = axon_free[c]
          /\ axon_free'[s] = NewPacket.sent
          /\ axon_free[s] <= NewPacket.sent
      BY <3>1, EmitAxonOut
    <3>4. \A p \in queue : Staged(p.packet.source) => p.packet.source \in Core
      BY PacketTypes DEF Staged, Lanes
    <3>5. SentQueued'
      <4> SUFFICES ASSUME NEW p \in queue, Staged(p.packet.source)
                   PROVE  p.packet.sent <= axon_free'[p.packet.source]
        BY <3>1 DEF SentQueued, Staged, Deque, Streamed
      <4>1. axon_free[p.packet.source] <= axon_free'[p.packet.source]
            /\ p.packet.source \in Core
        BY <3>1, <3>4, EmitAxonOut
      <4>2. p.packet.sent <= axon_free[p.packet.source]
        BY DEF SentQueued
      <4> QED
        BY <3>2, <4>1, <4>2, PacketTypes
    <3>6. SentInDeque'
      <4> SUFFICES ASSUME NEW c \in Core, NEW k \in DOMAIN pending'[c]
                   PROVE  /\ pending'[c][k].sent <= axon_free'[c]
                          /\ \A j \in DOMAIN pending'[c] :
                                j < k => pending'[c][j].sent <= pending'[c][k].sent
                          /\ \A p \in queue :
                                p.packet.source = c =>
                                   p.packet.sent <= pending'[c][k].sent
        BY <3>1 DEF SentInDeque
      <4>1. CASE c # s
        BY <3>1, <3>3, <4>1 DEF SentInDeque
      <4>2. CASE c = s /\ k = n + 1
        <5>1. \A j \in DOMAIN pending[s] : pending[s][j].sent <= NewPacket.sent
          BY <3>1, <3>2, <3>3, PacketTypes DEF SentInDeque
        <5>2. \A p \in queue : p.packet.source = s =>
                 p.packet.sent <= NewPacket.sent
          BY <3>1, <3>2, <3>3, PacketTypes DEF SentQueued
        <5>3. pending'[c][k] = NewPacket /\ axon_free'[c] = NewPacket.sent
          BY <3>1, <3>3, <4>2
        <5>4. \A j \in DOMAIN pending'[c] :
                 j < k => pending'[c][j].sent <= NewPacket.sent
          <6>1. \A j \in 1 .. n + 1 : j < n + 1 => j \in 1 .. n
            BY <3>1
          <6> QED
            BY <3>1, <4>2, <5>1, <6>1
        <5>5. \A p \in queue : p.packet.source = c => p.packet.sent <= NewPacket.sent
          BY <4>2, <5>2
        <5> QED
          BY <3>2, <5>3, <5>4, <5>5
      <4>3. CASE c = s /\ k # n + 1
        <5>1. k \in DOMAIN pending[s] /\ k < n + 1
          BY <3>1, <4>3
        <5>2. \A j \in DOMAIN pending'[s] : j < k => j \in DOMAIN pending[s]
          BY <3>1, <5>1
        <5>3. pending[s][k].sent <= axon_free'[s]
          BY <3>1, <3>2, <3>3, <5>1, PacketTypes DEF SentInDeque
        <5> QED
          BY <3>1, <4>3, <5>1, <5>2, <5>3 DEF SentInDeque
      <4> QED
        BY <4>1, <4>2, <4>3
    <3>7. SentReserves'
      <4>1. n + 1 \in DOMAIN pending'[s]
        BY <3>1
      <4> QED
        BY <3>1, <3>2, <3>3, <4>1 DEF SentReserves
    <3> QED
      BY <3>5, <3>6, <3>7
  <2>7. ASSUME NEW p \in queue, NEW blocking \in Blockings,
               NEW transit \in Transits, Process(p, blocking, transit)
        PROVE  SentInv'
    <3>1. /\ queue' = queue \ {p}
          /\ hw_latency' \in Nat /\ hw_latency <= hw_latency'
          /\ p.generated <= hw_latency'
          /\ axon_free' \in [Core -> Nat]
          /\ \A c \in Core : c # p.packet.source \/ SourceFifo
                                => axon_free'[c] = axon_free[c]
          /\ \A c \in Core : c = p.packet.source /\ ~SourceFifo
                                => axon_free'[c] <= hw_latency'
          /\ UNCHANGED pending
      BY <2>7, ProcessProperties DEF Process
    <3>2. \A q \in queue : Staged(q.packet.source) => q.packet.source \in Core
                                                      /\ SourceFifo
      BY PacketTypes DEF Staged, Lanes
    <3>3. SentQueued'
      BY <3>1, <3>2 DEF SentQueued, Deque, Streamed, Staged
    <3>4. SentInDeque'
      <4>1. \A c \in Core : pending[c] # <<>> => SourceFifo
        BY DEF DequeInv, Deque
      <4>2. \A c \in Core : \A k \in DOMAIN pending[c] :
               axon_free'[c] = axon_free[c]
        BY <3>1, <4>1
      <4> QED
        BY <3>1, <4>2 DEF SentInDeque
    <3>5. SentReserves'
      <4> SUFFICES ASSUME NEW c \in Core
                   PROVE  \/ axon_free'[c] <= hw_latency'
                          \/ \E q \in queue' : q.packet.source = c
                                            /\ axon_free'[c] <= q.packet.sent
                          \/ \E k \in DOMAIN pending[c] :
                                axon_free'[c] <= pending[c][k].sent
        BY <3>1 DEF SentReserves
      <4>1. CASE c = p.packet.source /\ ~SourceFifo
        BY <3>1, <4>1
      <4>2. CASE axon_free'[c] = axon_free[c]
        <5>1. axon_free[c] <= hw_latency => axon_free'[c] <= hw_latency'
          BY <2>1, <3>1, <4>2, PacketTypes
        <5>2. axon_free[c] <= p.packet.sent => axon_free'[c] <= hw_latency'
          BY <3>1, <4>2, PacketTypes DEF SentQueued
        <5> QED
          BY <3>1, <4>2, <5>1, <5>2 DEF SentReserves
      <4> QED
        BY <3>1, <4>1, <4>2
    <3> QED
      BY <3>3, <3>4, <3>5
  <2>8. CASE ReleaseNext
    <3> DEFINE c == releasing
               n == Len(pending[c])
    <3>1. /\ c \in Core /\ pending[c] # <<>>
          /\ n \in Nat /\ n > 0
          /\ DOMAIN pending[c] = 1 .. n /\ DOMAIN pending'[c] = 1 .. n - 1
          /\ \A k \in DOMAIN pending'[c] :
                k + 1 \in DOMAIN pending[c]
                /\ pending'[c][k] = pending[c][k + 1]
          /\ \A b \in Core : b # c => pending'[b] = pending[b]
          /\ UNCHANGED <<axon_free, hw_latency>>
      BY <2>8, ReleaseNextProperties DEF ReleaseNext
    <3>2. PICK x \in queue' : /\ queue' = queue \cup {x}
                              /\ x.packet = pending[c][1]
                              /\ x.packet.source = c
                              /\ x.generated = x.packet.sent + offset[c]
      BY <2>8, ReleaseNextProperties
    <3>3. Deque(c) /\ Staged(c) /\ \A p \in queue : p.packet.source # c
      BY <3>1, LaneAssumption DEF DequeInv, Deque, Staged
    <3>4. 1 \in DOMAIN pending[c] /\ offset[c] \in Nat /\ x.packet.sent \in Nat
      BY <3>1, <3>2, PacketTypes
    <3> HIDE DEF c, n
    <3>5. SentQueued'
      BY <3>1, <3>2, <3>3, <3>4
         DEF SentQueued, SentInDeque, Deque, Streamed, Staged
    <3>6. SentInDeque'
      <4> SUFFICES ASSUME NEW b \in Core, NEW k \in DOMAIN pending'[b]
                   PROVE  /\ pending'[b][k].sent <= axon_free[b]
                          /\ \A j \in DOMAIN pending'[b] :
                                j < k => pending'[b][j].sent <= pending'[b][k].sent
                          /\ \A p \in queue' :
                                p.packet.source = b =>
                                   p.packet.sent <= pending'[b][k].sent
        BY <3>1 DEF SentInDeque
      <4>1. CASE b # c
        BY <3>1, <3>2, <4>1 DEF SentInDeque
      <4>2. CASE b = c
        <5>1. k + 1 \in DOMAIN pending[c] /\ 1 < k + 1
              /\ pending'[c][k] = pending[c][k + 1]
          BY <3>1, <4>2
        <5>2. pending[c][1].sent <= pending[c][k + 1].sent
          BY <3>1, <3>4, <5>1 DEF SentInDeque
        <5>3. ASSUME NEW j \in DOMAIN pending'[c], j < k
              PROVE  pending'[c][j].sent <= pending'[c][k].sent
          <6>1. j + 1 \in DOMAIN pending[c] /\ j + 1 < k + 1
                /\ pending'[c][j] = pending[c][j + 1]
            BY <3>1, <4>2, <5>3
          <6> QED
            BY <3>1, <5>1, <6>1 DEF SentInDeque
        <5>4. pending'[c][k].sent <= axon_free[c]
          BY <3>1, <5>1 DEF SentInDeque
        <5> QED
          BY <3>2, <3>3, <4>2, <5>1, <5>2, <5>3, <5>4
      <4> QED
        BY <4>1, <4>2
    <3>7. SentReserves'
      <4> SUFFICES ASSUME NEW b \in Core
                   PROVE  \/ axon_free[b] <= hw_latency
                          \/ \E q \in queue' : q.packet.source = b
                                            /\ axon_free[b] <= q.packet.sent
                          \/ \E k \in DOMAIN pending'[b] :
                                axon_free[b] <= pending'[b][k].sent
        BY <3>1 DEF SentReserves
      <4>1. CASE b # c
        BY <3>1, <3>2, <4>1 DEF SentReserves
      <4>2. CASE b = c
        <5>1. ASSUME NEW k \in DOMAIN pending[c],
                     axon_free[c] <= pending[c][k].sent
              PROVE  \/ axon_free[c] <= x.packet.sent
                     \/ \E j \in DOMAIN pending'[c] :
                           axon_free[c] <= pending'[c][j].sent
          <6>1. CASE k = 1
            BY <3>2, <5>1, <6>1
          <6>2. CASE k # 1
            <7>1. k - 1 \in DOMAIN pending'[c] /\ (k - 1) + 1 = k
              BY <3>1, <6>2
            <7>2. pending'[c][k - 1] = pending[c][k]
              BY <3>1, <7>1
            <7> QED
              BY <5>1, <7>1, <7>2
          <6> QED
            BY <6>1, <6>2
        <5> QED
          BY <3>2, <4>2, <5>1 DEF SentReserves
      <4> QED
        BY <4>1, <4>2
    <3> QED
      BY <3>5, <3>6, <3>7
  <2>9. CASE Quiet
    <3>1. hw_latency' \in Nat /\ hw_latency <= hw_latency'
      BY <2>1, <2>9, QuietProperties, TimingAssumption
    <3> QED
      BY <2>3, <2>9, <3>1, QuietProperties
  <2>10. ASSUME NEW c \in NeuronCores, NEW loop \in NeuronLoops,
                RunNeurons(c, loop)
         PROVE  SentInv'
    BY <2>3, <2>10, FiringsProperties DEF RunNeurons
  <2>11. CASE (\E recs \in Inputs : BeginTimestep(recs))
              \/ SkipEmission \/ ReleaseNone
    BY <2>1, <2>3, <2>11 DEF BeginTimestep, SkipEmission, ReleaseNone
  <2> QED
    BY <2>4, <2>5, <2>6, <2>7, <2>8, <2>9, <2>10, <2>11, NextCases
<1> QED
  BY <1>1, <1>2, TypeInvariant, DequeInvariant, PTL DEF Spec

(***************************************************************************)
(* Blocking met: without streamed records, what a core carries fits        *)
(* between the first send possible in the timestep and the latest finish,  *)
(* so none of it is of an earlier timestep.                                *)
(***************************************************************************)

(* A packet that takes an axon-out leaves it in its own timestep.          *)
SentSince ==
    /\ \A p \in queue :
          Staged(p.packet.source) => step_start + AxonOut <= p.packet.sent
    /\ \A c \in Core : \A k \in DOMAIN pending[c] :
          step_start + AxonOut <= pending[c][k].sent

LEMMA SentSinceInvariant == Spec => []SentSince
<1>1. Init => SentSince
  BY DEF Init, SentSince
<1>2. TypeOK /\ OwnPackets /\ PhaseInv /\ DequeInv /\ EmissionInv /\ SentSince
        /\ [Next]_vars => SentSince'
  <2> SUFFICES ASSUME TypeOK, OwnPackets, PhaseInv, DequeInv, EmissionInv,
                      SentSince, [Next]_vars
               PROVE  SentSince'
    OBVIOUS
  <2>1. step_start \in Nat /\ AxonOut \in Nat
    BY TimingAssumption DEF TypeOK
  <2>2. CASE UNCHANGED <<queue, pending, step_start>>
    BY <2>2 DEF SentSince, Staged
  <2>3. ASSUME NEW recs \in Inputs, BeginTimestep(recs) PROVE SentSince'
    <3>1. queue = {} /\ releasing = NoCore /\ UNCHANGED <<queue, pending>>
      BY <2>3 DEF BeginTimestep, PhaseInv
    <3>2. \A c \in Core : pending[c] = <<>>
      BY <3>1, LaneAssumption DEF DequeInv, Lanes
    <3> QED
      BY <3>1, <3>2 DEF SentSince
  <2>4. ASSUME EmitPacket, Staged(NewPacket.source)
        PROVE  step_start + AxonOut <= NewPacket.sent
    <3>1. /\ 1 \in DOMAIN emissions /\ emissions[1] \in Emission
          /\ NewPacket \in Packet
          /\ emissions[1].at + AxonOut <= NewPacket.sent
      BY <2>4, NewPacketProperties DEF EmitPacket
    <3>2. step_start <= emissions[1].at
      BY <3>1 DEF EmissionInv
    <3> QED
      BY <2>1, <3>1, <3>2 DEF Emission, Packet
  <2>5. ASSUME EmitPacket, UNCHANGED pending,
               NEW x, queue' = queue \cup {x}, x.packet = NewPacket
        PROVE  SentSince'
    <3>1. UNCHANGED step_start
      BY <2>5 DEF EmitPacket
    <3> QED
      BY <2>4, <2>5, <3>1 DEF SentSince, Staged
  <2>6. CASE EmitToQueue
    BY <2>5, <2>6, EmitToQueueProperties
  <2>7. CASE EmitHead
    BY <2>5, <2>7, EmitHeadProperties
  <2>8. CASE EmitPending
    <3> DEFINE s == NewPacket.source
               n == Len(pending[s])
    <3>1. /\ EmitPacket /\ UNCHANGED queue /\ Staged(s)
          /\ \A c \in Core : c # s => pending'[c] = pending[c]
          /\ n \in Nat
          /\ DOMAIN pending[s] = 1 .. n /\ DOMAIN pending'[s] = 1 .. n + 1
          /\ \A k \in DOMAIN pending[s] : pending'[s][k] = pending[s][k]
          /\ pending'[s][n + 1] = NewPacket
      BY <2>8, EmitPendingProperties DEF EmitPending
    <3>2. \A k \in DOMAIN pending'[s] : k \in DOMAIN pending[s] \/ k = n + 1
      BY <3>1
    <3>3. step_start + AxonOut <= NewPacket.sent /\ UNCHANGED step_start
      BY <2>4, <3>1 DEF EmitPacket
    <3> HIDE DEF s, n
    <3> QED
      BY <3>1, <3>2, <3>3 DEF SentSince, Staged
  <2>9. ASSUME NEW p \in queue, NEW blocking \in Blockings,
               NEW transit \in Transits, Process(p, blocking, transit)
        PROVE  SentSince'
    BY <2>9 DEF Process, SentSince, Staged
  <2>10. CASE ReleaseNext
    <3> DEFINE c == releasing
    <3>1. PICK x : queue' = queue \cup {x} /\ x.packet = pending[c][1]
      BY <2>10, ReleaseNextProperties
    <3>2. /\ c \in Core /\ 1 \in DOMAIN pending[c]
          /\ \A k \in DOMAIN pending'[c] :
                k + 1 \in DOMAIN pending[c]
                /\ pending'[c][k] = pending[c][k + 1]
          /\ \A b \in Core : b # c => pending'[b] = pending[b]
          /\ UNCHANGED step_start
      BY <2>10, ReleaseNextProperties DEF ReleaseNext
    <3> HIDE DEF c
    <3> QED
      BY <3>1, <3>2 DEF SentSince, Staged
  <2> QED
    BY <2>2, <2>3, <2>6, <2>7, <2>8, <2>9, <2>10, NextCases, QuietProperties
       DEF RunNeurons, SkipEmission, ReleaseNone
<1> QED
  BY <1>1, <1>2, TypeInvariant, PhaseInvariant, DequeInvariant,
     EmissionInvariant, PTL DEF Spec

(* Every blocking a core carries was met in this timestep.                 *)
BlockedSince ==
    \A c \in Core : offset[c] > 0 => step_start + AxonOut + offset[c] <= hw_latency

LEMMA BlockedSinceInvariant ==
  ASSUME ~Streaming
  PROVE  Spec => []BlockedSince
<1>1. Init => BlockedSince
  BY DEF Init, BlockedSince
<1>2. TypeOK /\ OffsetInv /\ SentSince /\ BlockedSince /\ [Next]_vars
        => BlockedSince'
  <2> SUFFICES ASSUME TypeOK, OffsetInv, SentSince, BlockedSince, [Next]_vars
               PROVE  BlockedSince'
    OBVIOUS
  <2>1. /\ step_start \in Nat /\ AxonOut \in Nat /\ hw_latency \in Nat
        /\ SyncLatency \in Nat
        /\ \A c \in Core : offset[c] \in Nat
    BY TimingAssumption, PacketTypes DEF TypeOK
  <2>2. ASSUME UNCHANGED <<step_start, offset>>,
               hw_latency' \in Nat, hw_latency <= hw_latency'
        PROVE  BlockedSince'
    BY <2>1, <2>2 DEF BlockedSince
  <2>3. ASSUME NEW recs \in Inputs, BeginTimestep(recs) PROVE BlockedSince'
    BY <2>3 DEF BeginTimestep, FreshOffsets, BlockedSince
  <2>4. ASSUME NEW c \in NeuronCores, NEW loop \in NeuronLoops,
               RunNeurons(c, loop)
        PROVE  BlockedSince'
    BY <2>2, <2>4, FiringsProperties DEF RunNeurons
  <2>5. ASSUME NEW p \in queue, NEW blocking \in Blockings,
               NEW transit \in Transits, Process(p, blocking, transit)
        PROVE  BlockedSince'
    <3> DEFINE s == p.packet.source
    <3>1. /\ \A c \in Core : c # s => offset'[c] = offset[c]
          /\ hw_latency' \in Nat /\ hw_latency <= hw_latency'
          /\ offset' \in [Core -> Nat]
          /\ UNCHANGED step_start
      BY <2>5, ProcessProperties DEF Process
    <3>2. CASE Staged(s)
      <4>1. /\ s \in Core
            /\ p.generated + offset'[s] <= hw_latency' + offset[s]
        BY <2>5, <3>2, ProcessProperties
      <4>2. Deque(s)
        BY <3>2, <4>1 DEF Staged, Deque, Streamed
      <4>3. /\ p.generated = p.packet.sent + offset[s]
            /\ step_start + AxonOut <= p.packet.sent
        BY <3>2, <4>2 DEF OffsetInv, SentSince
      <4>4. p.packet.sent \in Nat /\ offset[s] \in Nat /\ offset'[s] \in Nat
        BY <2>1, <3>1, <4>1, PacketTypes
      <4> HIDE DEF s
      <4>5. step_start + AxonOut + offset'[s] <= hw_latency'
        BY <2>1, <3>1, <4>1, <4>3, <4>4
      <4> QED
        BY <2>1, <3>1, <4>5 DEF BlockedSince
    <3>3. CASE ~Staged(s)
      <4>1. UNCHANGED offset
        BY <2>5, <3>3 DEF Process
      <4> QED
        BY <2>2, <3>1, <4>1
    <3> QED
      BY <3>2, <3>3
  <2>6. CASE Quiet
    BY <2>1, <2>2, <2>6, QuietProperties
  <2> QED
    BY <2>1, <2>2, <2>3, <2>4, <2>5, <2>6, NextCases
       DEF EmitToQueue, EmitHead, EmitPending, EmitPacket, SkipEmission,
           ReleaseNext, ReleaseNone
<1> QED
  BY <1>1, <1>2, TypeInvariant, OffsetInvariant, SentSinceInvariant, PTL
     DEF Spec

(* Without streaming, the queued head of a core was pushed with all        *)
(* blocking met before it, and none of an earlier timestep: a core enters  *)
(* a timestep with no blocking (simulator.cpp:273, 290, 325, 413).         *)
THEOREM BlockingCarried ==
  ASSUME ~Streaming
  PROVE  Spec => []OffsetCarried
<1>1. TypeOK /\ OffsetInv /\ BlockedSince => OffsetCarried
  <2> SUFFICES ASSUME TypeOK, OffsetInv, BlockedSince PROVE OffsetCarried
    OBVIOUS
  <2>1. \A p \in queue : p.packet.source \in Lanes
    BY DEF TypeOK, Queued, Packet
  <2>2. \A p \in queue : Staged(p.packet.source) => Deque(p.packet.source)
    BY <2>1 DEF Lanes, Staged, Deque, Streamed
  <2> QED
    BY <2>2 DEF OffsetInv, BlockedSince, OffsetCarried
<1> QED
  BY <1>1, TypeCorrect, OffsetInvariant, BlockedSinceInvariant, PTL

(***************************************************************************)
(* Lanes: a packet that passes no deque is queued no later than what its   *)
(* source has still to emit, an input right at the start of the timestep.  *)
(***************************************************************************)
LaneInv ==
    /\ \A p \in queue :
          /\ p.packet.last => Streamed(p.packet.source)
          /\ ~Staged(p.packet.source) =>
                /\ IsRecord(p.packet.source) => p.generated = step_start
                /\ \A k \in DOMAIN emissions :
                      emissions[k].source = p.packet.source
                         => p.generated <= emissions[k].at
    /\ \A c \in Core : \A k \in DOMAIN pending[c] : ~pending[c][k].last

(* What is left to emit after a packet or an empty firing was there before.*)
EmissionsKept ==
    \A k \in DOMAIN emissions' : \E j \in DOMAIN emissions :
        /\ emissions'[k].source = emissions[j].source
        /\ emissions'[k].at = emissions[j].at

LEMMA EmitKeepsEmissions ==
  ASSUME TypeOK, EmitPacket
  PROVE  EmissionsKept
<1>1. CASE emissions[1].packets = 1
  BY <1>1, EmitPacketProperties DEF EmissionsKept
<1>2. CASE emissions[1].packets # 1
  BY <1>2, EmitPacketProperties DEF EmissionsKept
<1> QED
  BY <1>1, <1>2

LEMMA SkipKeepsEmissions ==
  ASSUME TypeOK, SkipEmission, ~Streamed(emissions[1].source)
  PROVE  EmissionsKept /\ UNCHANGED records
<1>1. emissions \in Seq(Emission) /\ emissions # <<>>
  BY DEF TypeOK, SkipEmission
<1>2. emissions' = Tail(emissions) /\ UNCHANGED records
  BY <1>1, NewPacketProperties DEF SkipEmission
<1>3. emissions' \in Seq(Emission) /\ Len(emissions') = Len(emissions) - 1
      /\ \A k \in 1 .. Len(emissions') : emissions'[k] = emissions[k + 1]
  BY <1>1, <1>2, HeadTailProperties
<1>4. /\ DOMAIN emissions' = 1 .. Len(emissions')
      /\ DOMAIN emissions = 1 .. Len(emissions)
      /\ Len(emissions) \in Nat
  BY <1>1, <1>3, LenProperties
<1>5. \A k \in DOMAIN emissions' :
         k + 1 \in DOMAIN emissions /\ emissions'[k] = emissions[k + 1]
  BY <1>3, <1>4
<1> QED
  BY <1>2, <1>5 DEF EmissionsKept

LEMMA LaneInvariant == Spec => []LaneInv
<1>1. Init => LaneInv
  BY DEF Init, LaneInv
<1>2. TypeOK /\ OwnPackets /\ PhaseInv /\ DequeInv /\ EmissionInv /\ LaneInv
        /\ [Next]_vars => LaneInv'
  <2> SUFFICES ASSUME TypeOK, OwnPackets, PhaseInv, DequeInv, EmissionInv,
                      LaneInv, [Next]_vars
               PROVE  LaneInv'
    OBVIOUS
  <2>1. step_start \in Nat /\ records \in Seq(Record)
    BY DEF TypeOK
  <2>2. CASE /\ queue' \subseteq queue /\ UNCHANGED <<step_start, pending>>
             /\ \A k \in DOMAIN emissions' :
                   /\ IsRecord(emissions'[k].source)
                   /\ emissions'[k].at = step_start
    BY <2>1, <2>2 DEF LaneInv, Streamed, Staged
  <2>3. CASE /\ queue' \subseteq queue /\ UNCHANGED <<step_start, pending>>
             /\ EmissionsKept
    <3>1. \A p \in queue : ~Staged(p.packet.source) =>
             \A k \in DOMAIN emissions' :
                emissions'[k].source = p.packet.source
                   => p.generated <= emissions'[k].at
      BY <2>3 DEF EmissionsKept, LaneInv
    <3> QED
      BY <2>3, <3>1 DEF LaneInv, Streamed, Staged
  <2>4. ASSUME NEW recs \in Inputs, BeginTimestep(recs) PROVE LaneInv'
    BY <2>4 DEF BeginTimestep, PhaseInv, LaneInv
  <2>5. ASSUME NEW c \in NeuronCores, NEW loop \in NeuronLoops,
               RunNeurons(c, loop)
        PROVE  LaneInv'
    <3>1. /\ \A k \in DOMAIN emissions' : emissions'[k].source = c
          /\ UNCHANGED <<queue, step_start, pending>>
          /\ c \in unfired
      BY <2>5, FiringsProperties DEF RunNeurons
    <3>2. \A p \in queue : p.packet.source # c
      BY <3>1 DEF EmissionInv
    <3> QED
      BY <3>1, <3>2 DEF LaneInv, Streamed, Staged
  <2>6. ASSUME EmitPacket, NEW x, queue' = queue \cup {x},
               x.packet = NewPacket,
               ~Staged(NewPacket.source) => x.generated = NewPacket.sent,
               UNCHANGED pending
        PROVE  LaneInv'
    <3>1. /\ emissions # <<>> /\ UNCHANGED step_start
          /\ 1 \in DOMAIN emissions
          /\ NewPacket.source = emissions[1].source
          /\ NewPacket.last = ClosesRecord(emissions[1])
          /\ ~Staged(NewPacket.source) => NewPacket.sent = emissions[1].at
      BY <2>6, NewPacketProperties DEF EmitPacket
    <3>2. EmissionsKept
      BY <2>6, EmitKeepsEmissions
    <3>3. \A k \in DOMAIN emissions : emissions[1].at <= emissions[k].at
      <4>1. DOMAIN emissions = 1 .. Len(emissions)
            /\ emissions \in Seq(Emission) /\ Len(emissions) \in Nat
        BY LenProperties DEF TypeOK
      <4>2. emissions[1].at \in Nat
        BY <3>1, NewPacketProperties DEF Emission
      <4>3. \A k \in DOMAIN emissions : k = 1 \/ 1 < k
        BY <4>1
      <4> QED
        BY <3>1, <4>2, <4>3 DEF EmissionInv
    <3>4. /\ x.packet.last => Streamed(x.packet.source)
          /\ ~Staged(x.packet.source) =>
                /\ IsRecord(x.packet.source) => x.generated = step_start
                /\ \A k \in DOMAIN emissions' :
                      x.generated <= emissions'[k].at
      BY <2>6, <3>1, <3>2, <3>3 DEF ClosesRecord, EmissionInv, EmissionsKept
    <3>5. \A p \in queue : ~Staged(p.packet.source) =>
             \A k \in DOMAIN emissions' :
                emissions'[k].source = p.packet.source
                   => p.generated <= emissions'[k].at
      BY <3>2 DEF EmissionsKept, LaneInv
    <3> QED
      BY <2>6, <3>1, <3>4, <3>5 DEF LaneInv, Streamed, Staged
  <2>7. CASE EmitToQueue
    BY <2>6, <2>7, EmitToQueueProperties
  <2>8. CASE EmitHead
    BY <2>6, <2>8, EmitHeadProperties DEF EmitHead
  <2>9. CASE EmitPending
    <3> DEFINE s == NewPacket.source
    <3>1. /\ EmitPacket /\ UNCHANGED <<queue, step_start>>
          /\ s \in Core /\ ~Streamed(s)
          /\ \A c \in Core : c # s => pending'[c] = pending[c]
          /\ DOMAIN pending'[s] = 1 .. Len(pending[s]) + 1
          /\ DOMAIN pending[s] = 1 .. Len(pending[s])
          /\ Len(pending[s]) \in Nat
          /\ \A k \in DOMAIN pending[s] : pending'[s][k] = pending[s][k]
          /\ pending'[s][Len(pending[s]) + 1] = NewPacket
      BY <2>9, EmitPendingProperties DEF EmitPacket, EmitPending
    <3>2. ~NewPacket.last
      BY <3>1, NewPacketProperties DEF EmitPacket, ClosesRecord
    <3>3. \A k \in DOMAIN pending'[s] :
             k \in DOMAIN pending[s] \/ k = Len(pending[s]) + 1
      BY <3>1
    <3>4. \A c \in Core : \A k \in DOMAIN pending'[c] : ~pending'[c][k].last
      BY <3>1, <3>2, <3>3 DEF LaneInv
    <3>5. \A p \in queue : ~Staged(p.packet.source) =>
             \A k \in DOMAIN emissions' :
                emissions'[k].source = p.packet.source
                   => p.generated <= emissions'[k].at
      BY <3>1, EmitKeepsEmissions DEF EmissionsKept, LaneInv
    <3> QED
      BY <3>1, <3>4, <3>5 DEF LaneInv, Streamed, Staged
  <2>10. CASE SkipEmission
    <3>1. UNCHANGED <<queue, step_start, pending>> /\ emissions # <<>>
          /\ Head(emissions) = emissions[1]
      BY <2>10, NewPacketProperties DEF SkipEmission
    <3>2. CASE Streamed(emissions[1].source)
      <4>1. TakeRecord(records, step_start)
        BY <2>10, <3>1, <3>2 DEF SkipEmission
      <4> QED
        BY <2>1, <2>2, <3>1, <4>1, TakeRecordEmissions
    <3>3. CASE ~Streamed(emissions[1].source)
      BY <2>3, <2>10, <3>1, <3>3, SkipKeepsEmissions
    <3> QED
      BY <3>2, <3>3
  <2>11. ASSUME NEW p \in queue, NEW blocking \in Blockings,
                NEW transit \in Transits, Process(p, blocking, transit)
         PROVE  LaneInv'
    <3>1. queue' \subseteq queue /\ UNCHANGED <<step_start, pending>>
          /\ emissions = <<>>
      BY <2>11 DEF Process, Idle
    <3>2. CASE p.packet.last
      <4>1. TakeRecord(records, step_start)
        BY <2>11, <3>2 DEF Process
      <4> QED
        BY <2>1, <2>2, <3>1, <4>1, TakeRecordEmissions
    <3>3. CASE ~p.packet.last
      <4>1. emissions' = <<>>
        BY <2>11, <3>1, <3>3 DEF Process
      <4> QED
        BY <2>2, <3>1, <4>1
    <3> QED
      BY <3>2, <3>3
  <2>12. CASE ReleaseNext
    <3> DEFINE c == releasing
    <3>1. PICK x \in queue' : /\ queue' = queue \cup {x}
                              /\ x.packet = pending[c][1]
                              /\ x.packet.source = c
      BY <2>12, ReleaseNextProperties
    <3>2. /\ c \in Core /\ pending[c] # <<>>
          /\ 1 \in DOMAIN pending[c]
          /\ \A k \in DOMAIN pending'[c] :
                k + 1 \in DOMAIN pending[c]
                /\ pending'[c][k] = pending[c][k + 1]
          /\ \A b \in Core : b # c => pending'[b] = pending[b]
          /\ UNCHANGED <<step_start, emissions>>
      BY <2>12, ReleaseNextProperties DEF ReleaseNext
    <3>3. Staged(c)
      BY <3>2, LaneAssumption DEF DequeInv, Deque, Staged
    <3>4. ~x.packet.last
      BY <3>1, <3>2 DEF LaneInv
    <3>5. \A b \in Core : \A k \in DOMAIN pending'[b] : ~pending'[b][k].last
      BY <3>2 DEF LaneInv
    <3> QED
      BY <3>1, <3>2, <3>3, <3>4, <3>5 DEF LaneInv, Streamed, Staged
  <2>13. CASE UNCHANGED <<queue, step_start, pending, emissions>>
    BY <2>13 DEF LaneInv, Streamed, Staged
  <2> QED
    BY <2>4, <2>5, <2>7, <2>8, <2>9, <2>10, <2>11, <2>12, <2>13, NextCases,
       QuietProperties DEF ReleaseNone
<1> QED
  BY <1>1, <1>2, TypeInvariant, PhaseInvariant, DequeInvariant,
     EmissionInvariant, PTL DEF Spec

(***************************************************************************)
(* The clock: in every mode but a streamed source FIFO, what is queued or  *)
(* waits to be is not before what was popped last.                         *)
(***************************************************************************)
ClockInv ==
    /\ emissions # <<>> \/ phase = "neurons" => clock = step_start
    /\ PopsInOrder

LEMMA ClockInvariant ==
  ASSUME ~(SourceFifo /\ Streaming)
  PROVE  Spec => []ClockInv
<1>1. Init => ClockInv
  BY DEF Init, ClockInv, PopsInOrder
<1>2. TypeOK /\ OwnPackets /\ PhaseInv /\ DequeInv /\ EmissionInv /\ OffsetInv
        /\ SentInv /\ LaneInv /\ ClockInv /\ [Next]_vars => ClockInv'
  <2> SUFFICES ASSUME TypeOK, OwnPackets, PhaseInv, DequeInv, EmissionInv,
                      OffsetInv, SentInv, LaneInv, ClockInv, [Next]_vars
               PROVE  ClockInv'
    OBVIOUS
  <2>1. step_start \in Nat /\ clock \in Nat
    BY DEF TypeOK
  <2>2. CASE UNCHANGED <<queue, pending, offset, clock>>
             /\ (emissions' # <<>> \/ phase' = "neurons" => clock' = step_start')
    BY <2>2 DEF ClockInv, PopsInOrder
  <2>3. ASSUME NEW recs \in Inputs, BeginTimestep(recs) PROVE ClockInv'
    <3>1. /\ queue = {} /\ queue' = {} /\ UNCHANGED pending
          /\ clock' = step_start' /\ releasing = NoCore
      BY <2>3 DEF BeginTimestep, PhaseInv
    <3>2. \A c \in Core : pending[c] = <<>>
      BY <3>1, LaneAssumption DEF DequeInv, Lanes
    <3> QED
      BY <3>1, <3>2 DEF ClockInv, PopsInOrder
  <2>4. ASSUME EmitPacket
        PROVE  /\ clock = step_start
               /\ UNCHANGED <<clock, step_start, offset>>
               /\ clock <= NewPacket.sent
               /\ NewPacket.sent \in Nat
    <3>1. /\ emissions # <<>> /\ emissions[1] \in Emission
          /\ 1 \in DOMAIN emissions
          /\ NewPacket \in Packet
          /\ emissions[1].at <= NewPacket.sent
          /\ UNCHANGED <<clock, step_start, offset>>
      <4>1. emissions # <<>> /\ UNCHANGED <<clock, step_start, offset>>
        BY <2>4 DEF EmitPacket
      <4>2. emissions[1] \in Emission /\ 1 \in DOMAIN emissions
            /\ NewPacket \in Packet
        BY <4>1, NewPacketProperties
      <4>3. emissions[1].at <= NewPacket.sent
        BY <4>1, <4>2, NewPacketProperties DEF Emission
      <4> QED
        BY <4>1, <4>2, <4>3
    <3>2. step_start <= emissions[1].at
      BY <3>1 DEF EmissionInv
    <3> QED
      BY <2>1, <3>1, <3>2 DEF ClockInv, Emission, Packet
  <2>5. CASE EmitToQueue
    <3>1. PICK x : /\ queue' = queue \cup {x}
                   /\ x.generated = NewPacket.sent
      BY <2>5, EmitToQueueProperties
    <3>2. EmitPacket /\ UNCHANGED pending
      BY <2>5, EmitToQueueProperties
    <3> QED
      BY <2>4, <3>1, <3>2 DEF ClockInv, PopsInOrder
  <2>6. CASE EmitHead
    <3>1. PICK x : /\ queue' = queue \cup {x}
                   /\ x.generated = NewPacket.sent + offset[NewPacket.source]
      BY <2>6, EmitHeadProperties
    <3>2. EmitPacket /\ UNCHANGED pending /\ NewPacket.source \in Core
      BY <2>6, EmitHeadProperties
    <3>3. offset[NewPacket.source] \in Nat
      BY <3>2, PacketTypes
    <3>4. clock <= x.generated
      BY <2>1, <2>4, <3>1, <3>2, <3>3
    <3> QED
      BY <2>4, <3>1, <3>2, <3>4 DEF ClockInv, PopsInOrder
  <2>7. CASE EmitPending
    <3> DEFINE s == NewPacket.source
               n == Len(pending[s])
    <3>1. /\ EmitPacket /\ UNCHANGED queue /\ s \in Core
          /\ \A c \in Core : c # s => pending'[c] = pending[c]
          /\ n \in Nat
          /\ DOMAIN pending[s] = 1 .. n /\ DOMAIN pending'[s] = 1 .. n + 1
          /\ \A k \in DOMAIN pending[s] : pending'[s][k] = pending[s][k]
          /\ pending'[s][n + 1] = NewPacket
      BY <2>7, EmitPendingProperties
    <3>2. \A k \in DOMAIN pending'[s] : k \in DOMAIN pending[s] \/ k = n + 1
      BY <3>1
    <3>3. offset[s] \in Nat
      BY <3>1, PacketTypes
    <3> HIDE DEF s, n
    <3>4. clock <= NewPacket.sent + offset[s]
      BY <2>1, <2>4, <3>1, <3>3
    <3>5. UNCHANGED <<clock, step_start, offset>> /\ clock = step_start
      BY <2>4, <3>1
    <3>6. \A c \in Core : \A k \in DOMAIN pending'[c] :
             clock <= pending'[c][k].sent + offset[c]
      BY <3>1, <3>2, <3>4 DEF ClockInv, PopsInOrder
    <3> QED
      BY <3>1, <3>5, <3>6 DEF ClockInv, PopsInOrder
  <2>8. ASSUME NEW p \in queue, NEW blocking \in Blockings,
               NEW transit \in Transits, Process(p, blocking, transit)
        PROVE  ClockInv'
    <3> DEFINE s == p.packet.source
    <3>1. /\ queue' = queue \ {p} /\ clock' = p.generated
          /\ phase = "drain" /\ emissions = <<>> /\ releasing = NoCore
          /\ UNCHANGED <<phase, pending, step_start>>
          /\ \A q \in queue : Before(p, q)
      BY <2>8 DEF Process, Idle, IsTop
    <3>2. /\ \A c \in Core : c # s => offset'[c] = offset[c]
          /\ Staged(s) => offset[s] <= offset'[s]
          /\ offset' \in [Core -> Nat]
      BY <2>8, ProcessProperties
    <3>3. \A q \in queue : p.generated <= q.generated
      BY <3>1, PacketTypes DEF Before
    <3>4. ASSUME NEW c \in Core, NEW k \in DOMAIN pending[c]
          PROVE  p.generated <= pending[c][k].sent + offset'[c]
      <4>1. Deque(c) /\ Staged(c)
        BY <3>4, LaneAssumption DEF DequeInv, Deque, Staged
      <4>2. PICK q \in queue : q.packet.source = c
        BY <3>1, <3>4, <4>1, LaneAssumption DEF DequeInv, Lanes
      <4>3. q.generated = q.packet.sent + offset[c]
            /\ q.packet.sent <= pending[c][k].sent
        BY <4>1, <4>2 DEF OffsetInv, SentInv, SentInDeque
      <4>4. offset[c] <= offset'[c]
        BY <3>2, <4>1, PacketTypes
      <4>5. q.packet.sent \in Nat /\ pending[c][k].sent \in Nat
            /\ offset[c] \in Nat /\ offset'[c] \in Nat
            /\ p.generated \in Nat
        BY <3>2, PacketTypes
      <4>6. p.generated <= q.generated
        BY <3>3
      <4> QED
        BY <4>3, <4>4, <4>5, <4>6
    <3>5. ASSUME emissions' # <<>> PROVE p.generated = step_start
      <4>1. p.packet.last
        BY <2>8, <3>1, <3>5 DEF Process
      <4>2. Streamed(s) /\ ~Staged(s)
        BY <4>1 DEF LaneInv, Streamed, Staged
      <4> QED
        BY <4>2 DEF LaneInv, Streamed
    <3> QED
      BY <3>1, <3>3, <3>4, <3>5 DEF ClockInv, PopsInOrder
  <2>9. CASE ReleaseNext
    <3> DEFINE c == releasing
    <3>1. PICK x : /\ queue' = queue \cup {x}
                   /\ x.packet = pending[c][1]
                   /\ x.generated = x.packet.sent + offset[c]
      BY <2>9, ReleaseNextProperties
    <3>2. /\ c \in Core /\ 1 \in DOMAIN pending[c]
          /\ \A k \in DOMAIN pending'[c] :
                k + 1 \in DOMAIN pending[c]
                /\ pending'[c][k] = pending[c][k + 1]
          /\ \A b \in Core : b # c => pending'[b] = pending[b]
          /\ UNCHANGED <<step_start, emissions, phase, clock, offset>>
      BY <2>9, ReleaseNextProperties DEF ReleaseNext
    <3> HIDE DEF c
    <3> QED
      BY <3>1, <3>2 DEF ClockInv, PopsInOrder
  <2>10. ASSUME NEW c \in NeuronCores, NEW loop \in NeuronLoops,
                RunNeurons(c, loop)
         PROVE  ClockInv'
    BY <2>2, <2>10 DEF RunNeurons, ClockInv
  <2>11. CASE SkipEmission
    BY <2>2, <2>11 DEF SkipEmission, ClockInv
  <2>12. CASE ReleaseNone
    BY <2>2, <2>12 DEF ReleaseNone, ClockInv
  <2>13. CASE Quiet
    <3>1. phase' = "neurons" => phase = "neurons"
      BY <2>13 DEF Quiet, StartDrain, CompleteTimestep, StopEarly, Finish,
                   Terminated, vars
    <3> QED
      BY <2>2, <2>13, <3>1, QuietProperties DEF ClockInv
  <2> QED
    BY <2>3, <2>5, <2>6, <2>7, <2>8, <2>9, <2>10, <2>11, <2>12, <2>13,
       NextCases
<1> QED
  BY <1>1, <1>2, TypeInvariant, PhaseInvariant, DequeInvariant,
     EmissionInvariant, OffsetInvariant, SentInvariant, LaneInvariant, PTL
     DEF Spec

(* The queue interleaves all packets by generation time: nothing is queued *)
(* or released into the past of the packet popped last, whichever network  *)
(* blocking delays the heads (simulator.cpp:262-296, 317-330).  A streamed *)
(* source FIFO is excluded: there the next record starts at the time of    *)
(* the timestep again, while its predecessors left their axon-out later.   *)
THEOREM PopsOrdered ==
  ASSUME ~(SourceFifo /\ Streaming)
  PROVE  Spec => []PopsInOrder
<1>1. ClockInv => PopsInOrder
  BY DEF ClockInv
<1> QED
  BY <1>1, ClockInvariant, PTL

(***************************************************************************)
(* Packet numbers: what was emitted and not yet delivered is queued or     *)
(* waits, in the order of emission.                                        *)
(***************************************************************************)

(* A packet pushed on emission comes after those of its source in the      *)
(* queue.                                                                  *)
LEMMA NewestOfItsSource ==
  ASSUME TypeOK, SentInv, LaneInv, emissions # <<>>, ~Deque(NewPacket.source),
         NEW q \in queue, q.packet.source = NewPacket.source
  PROVE  q.generated <= NewPacket.sent
<1>1. /\ NewPacket.source = emissions[1].source /\ 1 \in DOMAIN emissions
      /\ NewPacket \in Packet
      /\ ~Staged(NewPacket.source) => NewPacket.sent = emissions[1].at
      /\ Staged(NewPacket.source) =>
            /\ NewPacket.source \in Core
            /\ axon_free[NewPacket.source] <= NewPacket.sent
  BY NewPacketProperties
<1>2. CASE ~Staged(NewPacket.source)
  BY <1>1, <1>2 DEF LaneInv
<1>3. CASE Staged(NewPacket.source)
  <2>1. q.generated = q.packet.sent
        /\ q.packet.sent <= axon_free[NewPacket.source]
    BY <1>3 DEF SentInv, SentQueued
  <2>2. NewPacket.sent \in Nat
    BY <1>1 DEF Packet
  <2> QED
    BY <1>1, <1>3, <2>1, <2>2, PacketTypes
<1> QED
  BY <1>2, <1>3

(* In the queue: numbers between the last delivered and the last emitted,  *)
(* none twice, the lower the sooner.                                       *)
QueueNumbers ==
    /\ \A p \in queue :
          /\ delivered[p.packet.source] < p.packet.number
          /\ p.packet.number <= emitted[p.packet.source]
    /\ \A p, q \in queue :
          p.packet.source = q.packet.source =>
             /\ p.packet.number = q.packet.number => p = q
             /\ p.packet.number < q.packet.number =>
                   p.generated <= q.generated /\ p.sequence < q.sequence

(* A source without a deque has all of them in the queue ...               *)
LaneNumbers ==
    \A l \in Lanes :
        /\ delivered[l] <= emitted[l]
        /\ ~Deque(l) =>
              \A n \in delivered[l] + 1 .. emitted[l] :
                 \E p \in queue : p.packet.source = l /\ p.packet.number = n

(* ... and one with a deque has its head in the queue and the rest behind. *)
HeadQueued(c) == \E p \in queue : p.packet.source = c
DequeNumbers ==
    \A c \in Core : Deque(c) =>
        /\ \A p \in queue :
              p.packet.source = c => p.packet.number = delivered[c] + 1
        /\ HeadQueued(c) =>
              /\ emitted[c] = delivered[c] + 1 + Len(pending[c])
              /\ \A k \in DOMAIN pending[c] :
                    pending[c][k].number = delivered[c] + 1 + k
        /\ ~HeadQueued(c) =>
              /\ emitted[c] = delivered[c] + Len(pending[c])
              /\ \A k \in DOMAIN pending[c] :
                    pending[c][k].number = delivered[c] + k

NumberInv == QueueNumbers /\ LaneNumbers /\ DequeNumbers

(* The packet on top of the queue is the next one of its source.           *)
LEMMA TopIsNext ==
  ASSUME TypeOK, NumberInv, NEW p \in queue, \A q \in queue : Before(p, q)
  PROVE  p.packet.number = delivered[p.packet.source] + 1
<1> DEFINE s == p.packet.source
<1>1. s \in Lanes /\ delivered[s] \in Nat /\ emitted[s] \in Nat
      /\ p.packet.number \in Nat
  BY PacketTypes DEF TypeOK
<1>2. delivered[s] < p.packet.number /\ p.packet.number <= emitted[s]
  BY DEF NumberInv, QueueNumbers
<1>3. CASE Deque(s)
  BY <1>3 DEF NumberInv, DequeNumbers, Deque
<1>4. CASE ~Deque(s)
  <2>1. delivered[s] + 1 \in delivered[s] + 1 .. emitted[s]
    BY <1>1, <1>2
  <2>2. PICK q \in queue : q.packet.source = s
                           /\ q.packet.number = delivered[s] + 1
    BY <1>1, <1>4, <2>1 DEF NumberInv, LaneNumbers
  <2>3. ASSUME p.packet.number # delivered[s] + 1 PROVE FALSE
    <3>1. q.packet.number < p.packet.number
      BY <1>1, <1>2, <2>2, <2>3
    <3>2. q.generated <= p.generated /\ q.sequence < p.sequence
      BY <2>2, <3>1 DEF NumberInv, QueueNumbers
    <3> QED
      BY <3>2, PacketTypes DEF Before
  <2> QED
    BY <2>3
<1> QED
  BY <1>3, <1>4

LEMMA NumberInvariant == Spec => []NumberInv
<1>1. Init => NumberInv
  <2> SUFFICES ASSUME Init PROVE NumberInv
    OBVIOUS
  <2>1. \A l \in Lanes : delivered[l] = 0 /\ emitted[l] = 0
    BY DEF Init
  <2>2. queue = {} /\ \A c \in Core : pending[c] = <<>>
    BY DEF Init
  <2>3. Core \subseteq Lanes
    BY DEF Lanes
  <2> QED
    BY <2>1, <2>2, <2>3
       DEF NumberInv, QueueNumbers, LaneNumbers, DequeNumbers, HeadQueued
<1>2. TypeOK /\ OwnPackets /\ DequeInv /\ SequenceInv /\ SentInv /\ LaneInv
        /\ NumberInv /\ [Next]_vars => NumberInv'
  <2> SUFFICES ASSUME TypeOK, OwnPackets, DequeInv, SequenceInv, SentInv,
                      LaneInv, NumberInv, [Next]_vars
               PROVE  NumberInv'
    OBVIOUS
  <2> USE DEF NumberInv
  <2>1. /\ \A l \in Lanes : delivered[l] \in Nat /\ emitted[l] \in Nat
        /\ Core \subseteq Lanes
    BY DEF TypeOK, Lanes
  <2>2. CASE UNCHANGED <<queue, pending, emitted, delivered>>
    BY <2>2 DEF QueueNumbers, LaneNumbers, DequeNumbers, HeadQueued, Deque,
                Streamed
  <2>3. ASSUME EmitPacket
        PROVE  /\ NewPacket \in Packet /\ NewPacket.source \in Lanes
               /\ emissions # <<>>
               /\ NewPacket.number = emitted[NewPacket.source] + 1
               /\ emitted'[NewPacket.source] = emitted[NewPacket.source] + 1
               /\ \A l \in Lanes : l # NewPacket.source
                                      => emitted'[l] = emitted[l]
               /\ UNCHANGED delivered
    <3>1. /\ emissions # <<>> /\ NewPacket \in Packet
          /\ Head(emissions) = emissions[1]
          /\ NewPacket.source = emissions[1].source
          /\ NewPacket.number = emitted[emissions[1].source] + 1
      BY <2>3, NewPacketProperties DEF EmitPacket
    <3>2. NewPacket.source \in Lanes
      BY <3>1 DEF Packet
    <3>3. emitted' = [emitted EXCEPT ![NewPacket.source] = @ + 1]
          /\ UNCHANGED delivered
      BY <2>3, <3>1 DEF EmitPacket
    <3> QED
      BY <3>1, <3>2, <3>3 DEF TypeOK
  <2>4. ASSUME EmitPacket, NEW x, queue' = queue \cup {x},
               x.packet = NewPacket, x.sequence = next_sequence,
               \A q \in queue : q.packet.source = NewPacket.source
                                   => q.generated <= x.generated
        PROVE  QueueNumbers'
    <3> DEFINE s == NewPacket.source
    <3>1. /\ s \in Lanes /\ x.packet.number = emitted[s] + 1
          /\ emitted'[s] = emitted[s] + 1
          /\ \A l \in Lanes : l # s => emitted'[l] = emitted[l]
          /\ UNCHANGED delivered
          /\ delivered[s] \in Nat /\ emitted[s] \in Nat
          /\ delivered[s] <= emitted[s]
      BY <2>1, <2>3, <2>4 DEF LaneNumbers
    <3>2. \A q \in queue : q.packet.source = s =>
             /\ q.packet.number < x.packet.number
             /\ q.generated <= x.generated /\ q.sequence < x.sequence
      BY <2>4, <3>1, PacketTypes DEF QueueNumbers, SequenceInv
    <3>3. ASSUME NEW p \in queue'
          PROVE  /\ delivered[p.packet.source] < p.packet.number
                 /\ p.packet.number <= emitted'[p.packet.source]
      <4>1. CASE p = x
        BY <2>4, <3>1, <4>1
      <4>2. CASE p # x
        <5>1. /\ p \in queue /\ p.packet.source \in Lanes
              /\ p.packet.number \in Nat
          BY <2>4, <4>2, PacketTypes
        <5> QED
          BY <3>1, <5>1 DEF QueueNumbers
      <4> QED
        BY <4>1, <4>2
    <3>4. ASSUME NEW p \in queue', NEW q \in queue',
                 p.packet.source = q.packet.source
          PROVE  /\ p.packet.number = q.packet.number => p = q
                 /\ p.packet.number < q.packet.number =>
                       p.generated <= q.generated /\ p.sequence < q.sequence
      <4>1. CASE p # x /\ q # x
        BY <2>4, <3>4, <4>1 DEF QueueNumbers
      <4>2. CASE p = x /\ q = x
        BY <2>4, <3>1, <4>2
      <4>3. CASE p # x /\ q = x
        BY <2>4, <3>1, <3>2, <3>4, <4>3, PacketTypes
      <4>4. CASE p = x /\ q # x
        <5>1. q \in queue /\ q.packet.source = s
          BY <2>4, <3>4, <4>4
        <5>2. q.packet.number < p.packet.number /\ q.packet.number \in Nat
              /\ p.packet.number \in Nat
          BY <3>1, <3>2, <4>4, <5>1, PacketTypes
        <5> QED
          BY <5>2
      <4> QED
        BY <4>1, <4>2, <4>3, <4>4
    <3> QED
      BY <3>1, <3>3, <3>4 DEF QueueNumbers
  <2>5. CASE EmitToQueue
    <3> DEFINE s == NewPacket.source
    <3>1. PICK x \in queue' : /\ queue' = queue \cup {x}
                              /\ x.packet = NewPacket
                              /\ x.generated = NewPacket.sent
                              /\ x.sequence = next_sequence
      BY <2>5, EmitToQueueProperties
    <3>2. EmitPacket /\ UNCHANGED pending /\ ~Deque(s) /\ emissions # <<>>
      BY <2>5, EmitToQueueProperties
    <3>3. /\ s \in Lanes /\ NewPacket.number = emitted[s] + 1
          /\ emitted'[s] = emitted[s] + 1
          /\ \A l \in Lanes : l # s => emitted'[l] = emitted[l]
          /\ UNCHANGED delivered
          /\ delivered[s] \in Nat /\ emitted[s] \in Nat
      BY <2>1, <2>3, <3>2
    <3>4. QueueNumbers'
      BY <2>4, <3>1, <3>2, NewestOfItsSource
    <3> HIDE DEF s
    <3>5. LaneNumbers'
      <4>1. \A n \in delivered[s] + 1 .. emitted'[s] :
               n \in delivered[s] + 1 .. emitted[s] \/ n = emitted[s] + 1
        BY <3>3
      <4>2. \A n \in delivered[s] + 1 .. emitted'[s] :
               \E p \in queue' : p.packet.source = s /\ p.packet.number = n
        BY <3>1, <3>2, <3>3, <4>1 DEF LaneNumbers, s
      <4>3. delivered[s] <= emitted'[s]
        BY <3>3 DEF LaneNumbers
      <4> QED
        BY <3>1, <3>3, <4>2, <4>3 DEF LaneNumbers, Deque, Streamed
    <3>6. DequeNumbers'
      <4>1. \A c \in Core : Deque(c) => emitted'[c] = emitted[c] /\ c # s
                                        /\ (HeadQueued(c)' <=> HeadQueued(c))
        BY <2>1, <3>1, <3>2, <3>3 DEF HeadQueued, s
      <4> QED
        BY <3>1, <3>2, <3>3, <4>1 DEF DequeNumbers, Deque, Streamed, s
    <3> QED
      BY <3>4, <3>5, <3>6
  <2>6. CASE EmitHead
    <3> DEFINE s == NewPacket.source
    <3>1. PICK x \in queue' : /\ queue' = queue \cup {x}
                              /\ x.packet = NewPacket
                              /\ x.sequence = next_sequence
      BY <2>6, EmitHeadProperties
    <3>2. /\ EmitPacket /\ UNCHANGED pending /\ Deque(s) /\ s \in Core
          /\ ~active[s]
      BY <2>6, EmitHeadProperties
    <3>3. /\ s \in Lanes /\ NewPacket.number = emitted[s] + 1
          /\ emitted'[s] = emitted[s] + 1
          /\ \A l \in Lanes : l # s => emitted'[l] = emitted[l]
          /\ UNCHANGED delivered
          /\ delivered[s] \in Nat /\ emitted[s] \in Nat
      BY <2>1, <2>3, <3>2
    <3>4. pending[s] = <<>> /\ ~HeadQueued(s)
          /\ \A q \in queue : q.packet.source # s
      BY <3>2 DEF DequeInv, HeadQueued
    <3>5. QueueNumbers'
      BY <2>4, <3>1, <3>2, <3>4
    <3> HIDE DEF s
    <3>6. LaneNumbers'
      <4>1. delivered[s] <= emitted'[s]
        BY <3>3 DEF LaneNumbers
      <4> QED
        BY <3>1, <3>2, <3>3, <4>1 DEF LaneNumbers, Deque, Streamed
    <3>7. DequeNumbers'
      <4>1. emitted[s] = delivered[s]
        BY <3>2, <3>3, <3>4 DEF DequeNumbers
      <4>2. \A c \in Core : c # s => emitted'[c] = emitted[c]
                                     /\ (HeadQueued(c)' <=> HeadQueued(c))
        BY <2>1, <3>1, <3>3 DEF HeadQueued, s
      <4>3. \A c \in Core : c = s => HeadQueued(c)'
        BY <3>1 DEF HeadQueued, s
      <4>4. \A p \in queue' : p.packet.source = s => p = x
        BY <3>1, <3>4
      <4> QED
        BY <3>1, <3>2, <3>3, <3>4, <4>1, <4>2, <4>3, <4>4
           DEF DequeNumbers, Deque, Streamed, s
    <3> QED
      BY <3>5, <3>6, <3>7
  <2>7. CASE EmitPending
    <3> DEFINE s == NewPacket.source
               n == Len(pending[s])
    <3>1. /\ EmitPacket /\ UNCHANGED queue /\ Deque(s) /\ s \in Core
          /\ \A c \in Core : c # s => pending'[c] = pending[c]
          /\ n \in Nat /\ Len(pending'[s]) = n + 1
          /\ DOMAIN pending[s] = 1 .. n /\ DOMAIN pending'[s] = 1 .. n + 1
          /\ \A k \in DOMAIN pending[s] : pending'[s][k] = pending[s][k]
          /\ pending'[s][n + 1] = NewPacket
      BY <2>7, EmitPendingProperties
    <3>2. /\ s \in Lanes /\ NewPacket.number = emitted[s] + 1
          /\ emitted'[s] = emitted[s] + 1
          /\ \A l \in Lanes : l # s => emitted'[l] = emitted[l]
          /\ UNCHANGED delivered
          /\ delivered[s] \in Nat /\ emitted[s] \in Nat
      BY <2>1, <2>3, <3>1
    <3> HIDE DEF s, n
    <3>3. QueueNumbers'
      <4> SUFFICES ASSUME NEW p \in queue
                   PROVE  p.packet.number <= emitted'[p.packet.source]
        BY <3>1, <3>2 DEF QueueNumbers
      <4>1. p.packet.number <= emitted[p.packet.source]
            /\ p.packet.number \in Nat /\ p.packet.source \in Lanes
        BY PacketTypes DEF QueueNumbers
      <4> QED
        BY <3>2, <4>1
    <3>4. LaneNumbers'
      <4>1. delivered[s] <= emitted'[s]
        BY <3>2 DEF LaneNumbers
      <4> QED
        BY <3>1, <3>2, <4>1 DEF LaneNumbers, Deque, Streamed
    <3>5. DequeNumbers'
      <4>1. \A k \in DOMAIN pending'[s] : k \in DOMAIN pending[s] \/ k = n + 1
        BY <3>1
      <4>2. \A c \in Core : HeadQueued(c)' <=> HeadQueued(c)
        BY <3>1 DEF HeadQueued
      <4>3. ASSUME HeadQueued(s)
            PROVE  /\ emitted'[s] = delivered[s] + 1 + Len(pending'[s])
                   /\ \A k \in DOMAIN pending'[s] :
                         pending'[s][k].number = delivered[s] + 1 + k
        <5>1. /\ emitted[s] = delivered[s] + 1 + n
              /\ \A k \in DOMAIN pending[s] :
                    pending[s][k].number = delivered[s] + 1 + k
          BY <3>1, <4>3 DEF DequeNumbers, n
        <5>2. emitted'[s] = delivered[s] + 1 + (n + 1)
              /\ NewPacket.number = delivered[s] + 1 + (n + 1)
          <6>1. \A e, b, m \in Nat : e = b + 1 + m => e + 1 = b + 1 + (m + 1)
            OBVIOUS
          <6> QED
            BY <3>1, <3>2, <5>1, <6>1
        <5> QED
          BY <3>1, <4>1, <5>1, <5>2
      <4>4. ASSUME ~HeadQueued(s)
            PROVE  /\ emitted'[s] = delivered[s] + Len(pending'[s])
                   /\ \A k \in DOMAIN pending'[s] :
                         pending'[s][k].number = delivered[s] + k
        <5>1. /\ emitted[s] = delivered[s] + n
              /\ \A k \in DOMAIN pending[s] :
                    pending[s][k].number = delivered[s] + k
          BY <3>1, <4>4 DEF DequeNumbers, n
        <5>2. emitted'[s] = delivered[s] + (n + 1)
              /\ NewPacket.number = delivered[s] + (n + 1)
          BY <3>1, <3>2, <5>1
        <5> QED
          BY <3>1, <4>1, <5>1, <5>2
      <4>5. \A c \in Core : c # s => emitted'[c] = emitted[c]
        BY <2>1, <3>2
      <4> SUFFICES ASSUME NEW c \in Core, Deque(c)
                   PROVE
            /\ \A p \in queue :
                  p.packet.source = c => p.packet.number = delivered[c] + 1
            /\ HeadQueued(c) =>
                  /\ emitted'[c] = delivered[c] + 1 + Len(pending'[c])
                  /\ \A k \in DOMAIN pending'[c] :
                        pending'[c][k].number = delivered[c] + 1 + k
            /\ ~HeadQueued(c) =>
                  /\ emitted'[c] = delivered[c] + Len(pending'[c])
                  /\ \A k \in DOMAIN pending'[c] :
                        pending'[c][k].number = delivered[c] + k
        BY <3>1, <3>2, <4>2 DEF DequeNumbers, Deque, Streamed
      <4>6. CASE c = s
        BY <4>3, <4>4, <4>6 DEF DequeNumbers
      <4>7. CASE c # s
        BY <3>1, <4>5, <4>7 DEF DequeNumbers
      <4> QED
        BY <4>6, <4>7
    <3> QED
      BY <3>3, <3>4, <3>5
  <2>8. ASSUME NEW p \in queue, NEW blocking \in Blockings,
               NEW transit \in Transits, Process(p, blocking, transit)
        PROVE  NumberInv'
    <3> DEFINE s == p.packet.source
    <3>1. /\ queue' = queue \ {p} /\ UNCHANGED <<pending, emitted>>
          /\ delivered' = [delivered EXCEPT ![s] = p.packet.number]
          /\ \A q \in queue : Before(p, q)
      BY <2>8 DEF Process, IsTop
    <3>2. s \in Lanes /\ p.packet.number = delivered[s] + 1
          /\ delivered[s] \in Nat /\ emitted[s] \in Nat
      BY <2>1, <3>1, TopIsNext, PacketTypes
    <3>3. /\ delivered'[s] = delivered[s] + 1
          /\ \A l \in Lanes : l # s => delivered'[l] = delivered[l]
      BY <3>1, <3>2 DEF TypeOK
    <3>4. QueueNumbers'
      <4> SUFFICES ASSUME NEW q \in queue', q.packet.source = s
                   PROVE  delivered'[s] < q.packet.number
        <5>1. \A q \in queue' : q \in queue /\ q.packet.source \in Lanes
          BY <3>1, PacketTypes
        <5> QED
          BY <3>1, <3>3, <5>1 DEF QueueNumbers
      <4>1. q \in queue /\ q # p
        BY <3>1
      <4>2. delivered[s] < q.packet.number /\ q.packet.number # p.packet.number
            /\ q.packet.number \in Nat
        BY <4>1, PacketTypes DEF QueueNumbers
      <4> QED
        BY <3>2, <3>3, <4>2
    <3> HIDE DEF s
    <3>5. LaneNumbers'
      <4>1. delivered'[s] <= emitted[s]
        BY <3>2, <3>3 DEF QueueNumbers, s
      <4>2. \A n \in delivered'[s] + 1 .. emitted[s] :
               n \in delivered[s] + 1 .. emitted[s] /\ n # p.packet.number
        BY <3>2, <3>3
      <4>3. ~Deque(s) =>
               \A n \in delivered'[s] + 1 .. emitted[s] :
                  \E q \in queue' : q.packet.source = s /\ q.packet.number = n
        <5> SUFFICES ASSUME ~Deque(s),
                            NEW n \in delivered'[s] + 1 .. emitted[s]
                     PROVE  \E q \in queue' : q.packet.source = s
                                              /\ q.packet.number = n
          OBVIOUS
        <5>1. PICK q \in queue : q.packet.source = s /\ q.packet.number = n
          BY <3>2, <4>2 DEF LaneNumbers
        <5>2. q # p
          BY <4>2, <5>1
        <5> QED
          BY <3>1, <5>1, <5>2
      <4>4. \A l \in Lanes : l # s /\ ~Deque(l) =>
               \A n \in delivered[l] + 1 .. emitted[l] :
                  \E q \in queue' : q.packet.source = l /\ q.packet.number = n
        <5> SUFFICES ASSUME NEW l \in Lanes, l # s, ~Deque(l),
                            NEW n \in delivered[l] + 1 .. emitted[l]
                     PROVE  \E q \in queue' : q.packet.source = l
                                              /\ q.packet.number = n
          OBVIOUS
        <5>1. PICK q \in queue : q.packet.source = l /\ q.packet.number = n
          BY DEF LaneNumbers
        <5> QED
          BY <3>1, <5>1 DEF s
      <4> QED
        BY <3>1, <3>3, <4>1, <4>3, <4>4 DEF LaneNumbers, Deque, Streamed
    <3>6. DequeNumbers'
      <4> SUFFICES ASSUME NEW c \in Core, Deque(c)
                   PROVE
            /\ \A q \in queue' :
                  q.packet.source = c => q.packet.number = delivered'[c] + 1
            /\ HeadQueued(c)' =>
                  /\ emitted[c] = delivered'[c] + 1 + Len(pending[c])
                  /\ \A k \in DOMAIN pending[c] :
                        pending[c][k].number = delivered'[c] + 1 + k
            /\ ~HeadQueued(c)' =>
                  /\ emitted[c] = delivered'[c] + Len(pending[c])
                  /\ \A k \in DOMAIN pending[c] :
                        pending[c][k].number = delivered'[c] + k
        BY <3>1 DEF DequeNumbers, Deque, Streamed
      <4>1. CASE c = s
        <5>1. \A q \in queue' : q.packet.source # s
          BY <3>1, <4>1 DEF DequeInv, s
        <5>2. HeadQueued(s) /\ ~HeadQueued(s)'
          BY <5>1 DEF HeadQueued, s
        <5> QED
          BY <3>2, <3>3, <4>1, <5>1, <5>2 DEF DequeNumbers
      <4>2. CASE c # s
        <5>1. HeadQueued(c)' <=> HeadQueued(c)
          BY <3>1, <4>2 DEF HeadQueued, s
        <5>2. delivered'[c] = delivered[c]
          BY <2>1, <3>3, <4>2
        <5> QED
          BY <3>1, <5>1, <5>2 DEF DequeNumbers
      <4> QED
        BY <4>1, <4>2
    <3> QED
      BY <3>4, <3>5, <3>6
  <2>9. CASE ReleaseNext
    <3> DEFINE c == releasing
               n == Len(pending[c])
    <3>1. PICK x \in queue' : /\ queue' = queue \cup {x}
                              /\ x.packet = pending[c][1]
                              /\ x.packet.source = c
                              /\ x.sequence = next_sequence
      BY <2>9, ReleaseNextProperties
    <3>2. /\ c \in Core /\ pending[c] # <<>>
          /\ n \in Nat /\ n > 0
          /\ DOMAIN pending[c] = 1 .. n /\ DOMAIN pending'[c] = 1 .. n - 1
          /\ Len(pending'[c]) = n - 1
          /\ \A k \in DOMAIN pending'[c] :
                k + 1 \in DOMAIN pending[c]
                /\ pending'[c][k] = pending[c][k + 1]
          /\ \A b \in Core : b # c => pending'[b] = pending[b]
          /\ UNCHANGED <<emitted, delivered>>
      BY <2>9, ReleaseNextProperties DEF ReleaseNext
    <3>3. Deque(c) /\ ~HeadQueued(c) /\ \A q \in queue : q.packet.source # c
      BY <3>2 DEF DequeInv, HeadQueued
    <3>4. delivered[c] \in Nat /\ emitted[c] \in Nat
      BY <2>1, <3>2
    <3>5. emitted[c] = delivered[c] + n
          /\ \A k \in DOMAIN pending[c] : pending[c][k].number = delivered[c] + k
      BY <3>2, <3>3 DEF DequeNumbers
    <3> HIDE DEF c, n
    <3>6. x.packet.number = delivered[c] + 1 /\ 1 \in DOMAIN pending[c]
      BY <3>1, <3>2, <3>5
    <3>7. QueueNumbers'
      <4>1. /\ delivered[c] < x.packet.number
            /\ x.packet.number <= emitted[c]
        BY <3>2, <3>4, <3>5, <3>6
      <4>2. \A p \in queue' :
               p # x => p \in queue /\ p.packet.source # c
        BY <3>1, <3>3
      <4>3. \A p \in queue' :
               /\ delivered[p.packet.source] < p.packet.number
               /\ p.packet.number <= emitted[p.packet.source]
        BY <3>1, <4>1, <4>2 DEF QueueNumbers
      <4>4. ASSUME NEW p \in queue', NEW q \in queue',
                   p.packet.source = q.packet.source
            PROVE  /\ p.packet.number = q.packet.number => p = q
                   /\ p.packet.number < q.packet.number =>
                         p.generated <= q.generated /\ p.sequence < q.sequence
        <5>1. CASE p = x /\ q = x
          BY <3>4, <3>6, <5>1
        <5>2. CASE p # x /\ q # x
          BY <4>2, <4>4, <5>2 DEF QueueNumbers
        <5>3. (p = x) = (q = x)
          BY <3>1, <4>2, <4>4
        <5> QED
          BY <5>1, <5>2, <5>3
      <4> QED
        BY <3>2, <4>3, <4>4 DEF QueueNumbers
    <3>8. LaneNumbers'
      BY <3>1, <3>2 DEF LaneNumbers, Deque, Streamed
    <3>9. DequeNumbers'
      <4>1. \A b \in Core : b # c => (HeadQueued(b)' <=> HeadQueued(b))
        BY <3>1 DEF HeadQueued
      <4>2. \A b \in Core : b = c => HeadQueued(b)'
        BY <3>1 DEF HeadQueued
      <4>3. emitted[c] = delivered[c] + 1 + Len(pending'[c])
        BY <3>2, <3>4, <3>5
      <4>4. \A k \in DOMAIN pending'[c] :
               pending'[c][k].number = delivered[c] + 1 + k
        <5> SUFFICES ASSUME NEW k \in DOMAIN pending'[c]
                     PROVE  pending'[c][k].number = delivered[c] + 1 + k
          OBVIOUS
        <5>1. pending'[c][k].number = delivered[c] + (k + 1)
          BY <3>2, <3>5
        <5>2. k \in Int
          BY <3>2
        <5> QED
          BY <3>4, <5>1, <5>2
      <4>5. \A p \in queue' : p.packet.source = c => p = x
        BY <3>1, <3>3
      <4> SUFFICES ASSUME NEW b \in Core, Deque(b)
                   PROVE
            /\ \A p \in queue' :
                  p.packet.source = b => p.packet.number = delivered[b] + 1
            /\ HeadQueued(b)' =>
                  /\ emitted[b] = delivered[b] + 1 + Len(pending'[b])
                  /\ \A k \in DOMAIN pending'[b] :
                        pending'[b][k].number = delivered[b] + 1 + k
            /\ ~HeadQueued(b)' =>
                  /\ emitted[b] = delivered[b] + Len(pending'[b])
                  /\ \A k \in DOMAIN pending'[b] :
                        pending'[b][k].number = delivered[b] + k
        BY <3>2 DEF DequeNumbers, Deque, Streamed
      <4>6. CASE b = c
        BY <3>6, <4>2, <4>3, <4>4, <4>5, <4>6
      <4>7. CASE b # c
        BY <3>1, <3>2, <4>1, <4>7 DEF DequeNumbers
      <4> QED
        BY <4>6, <4>7
    <3> QED
      BY <3>7, <3>8, <3>9
  <2> QED
    BY <2>2, <2>5, <2>6, <2>7, <2>8, <2>9, NextCases, QuietProperties
       DEF BeginTimestep, RunNeurons, SkipEmission, ReleaseNone
<1> QED
  BY <1>1, <1>2, TypeInvariant, DequeInvariant, SequenceInvariant,
     SentInvariant, LaneInvariant, PTL DEF Spec

(***************************************************************************)
(* Streamed records: one is emitted or queued at a time, its last packet   *)
(* behind the others, and that one calls for the next record.              *)
(***************************************************************************)
Emitting == emissions # <<>> /\ IsRecord(Head(emissions).source)

RecordInv == Streaming =>
    /\ (records # <<>> \/ \E p \in queue : IsRecord(p.packet.source))
          => Emitting \/ \E p \in queue : p.packet.last
    /\ Emitting =>
          \A p \in queue :
             /\ ~p.packet.last
             /\ IsRecord(p.packet.source) =>
                   /\ p.packet.source = Head(emissions).source
                   /\ Head(emissions).packets > 0
    /\ \A p, q \in queue :
          p.packet.last /\ IsRecord(q.packet.source) => Before(q, p)

(* The last packet of a record is popped after all others of the record.   *)
LEMMA LastOfTheRecord ==
  ASSUME TypeOK, SequenceInv, LaneInv, RecordInv,
         NEW p \in queue, p.packet.last, NEW q \in queue,
         IsRecord(q.packet.source), Before(p, q)
  PROVE  q = p
<1>1. Streaming
  BY DEF LaneInv, Streamed
<1>2. Before(q, p)
  BY <1>1 DEF RecordInv
<1>3. p.sequence = q.sequence
  BY <1>2, PacketTypes DEF Before
<1> QED
  BY <1>3 DEF SequenceInv

LEMMA RecordInvariant == Spec => []RecordInv
<1>1. Init => RecordInv
  BY DEF Init, RecordInv, Emitting
<1>2. TypeOK /\ OwnPackets /\ PhaseInv /\ DequeInv /\ SequenceInv /\ EmissionInv
        /\ SentInv /\ LaneInv /\ RecordInv /\ [Next]_vars => RecordInv'
  <2> SUFFICES ASSUME TypeOK, OwnPackets, PhaseInv, DequeInv, SequenceInv,
                      EmissionInv, SentInv, LaneInv, RecordInv, [Next]_vars,
                      Streaming
               PROVE  RecordInv'
    BY DEF RecordInv
  <2>1. step_start \in Nat /\ records \in Seq(Record)
        /\ emissions \in Seq(Emission)
    BY DEF TypeOK
  <2>2. CASE UNCHANGED <<queue, emissions, records>>
    BY <2>2 DEF RecordInv, Emitting, Before
  (* The next record is taken when nothing of the previous one is left.    *)
  <2>3. ASSUME NEW recs \in Seq(Record), NEW at \in Nat, TakeRecord(recs, at),
               \A p \in queue' : ~IsRecord(p.packet.source) /\ ~p.packet.last
        PROVE  RecordInv'
    <3>1. CASE recs = <<>>
      BY <2>3, <3>1, TakeRecordEmissions DEF RecordInv, Emitting
    <3>2. CASE recs # <<>>
      <4>1. emissions' # <<>> /\ IsRecord(Head(emissions').source)
        <5>1. /\ DOMAIN emissions' = {1}
              /\ Len(emissions') = 1
              /\ emissions' \in Seq(Emission)
          BY <2>3, <3>2, TakeRecordProperties
        <5>2. \A q \in Seq(Emission) : Len(q) = 1 => q # <<>>
          BY EmptySeq
        <5>3. emissions' # <<>>
          BY <5>1, <5>2
        <5>4. Head(emissions') = emissions'[1]
          BY <5>1, <5>3, HeadTailProperties
        <5>5. IsRecord(emissions'[1].source)
          BY <2>3, <5>1, TakeRecordEmissions
        <5> QED
          BY <5>3, <5>4, <5>5
      <4> QED
        BY <2>3, <4>1 DEF RecordInv, Emitting
    <3> QED
      BY <3>1, <3>2
  <2>4. ASSUME NEW recs \in Inputs, BeginTimestep(recs) PROVE RecordInv'
    <3>1. recs \in Seq(Record) /\ hw_latency \in Nat /\ queue' = {}
          /\ TakeRecord(recs, hw_latency)
      BY <2>4, TrafficAssumption DEF BeginTimestep, PhaseInv, TypeOK
    <3> QED
      BY <2>3, <3>1
  <2>5. ASSUME NEW c \in NeuronCores, NEW loop \in NeuronLoops,
               RunNeurons(c, loop)
        PROVE  RecordInv'
    <3>1. /\ emissions' \in Seq(Emission)
          /\ \A k \in DOMAIN emissions' : emissions'[k].source = c
          /\ emissions = <<>> /\ UNCHANGED <<queue, records>>
      BY <2>5, FiringsProperties DEF RunNeurons
    <3>2. ~Emitting
      BY <3>1 DEF Emitting
    <3>3. ~(emissions' # <<>> /\ IsRecord(Head(emissions').source))
      <4> SUFFICES ASSUME emissions' # <<>>
                   PROVE  ~IsRecord(Head(emissions').source)
        OBVIOUS
      <4>1. 1 \in DOMAIN emissions' /\ Head(emissions') = emissions'[1]
        BY <3>1, EmptySeq, LenProperties
      <4> QED
        BY <3>1, <4>1 DEF IsRecord
    <3> QED
      BY <3>1, <3>2, <3>3 DEF RecordInv, Emitting, Before
  (* While neurons fire no record is emitted, before and after.            *)
  <2>6. ASSUME emissions # <<>>, ~Streamed(emissions[1].source),
               EmissionsKept, emissions' \in Seq(Emission),
               UNCHANGED records,
               queue' = queue
               \/ \E x : /\ queue' = queue \cup {x}
                         /\ ~IsRecord(x.packet.source) /\ ~x.packet.last
        PROVE  RecordInv'
    <3>1. 1 \in DOMAIN emissions /\ Head(emissions) = emissions[1]
      BY <2>6, NewPacketProperties
    <3>2. ~Emitting
      BY <2>6, <3>1 DEF Emitting, Streamed
    <3>3. \A k \in DOMAIN emissions : ~IsRecord(emissions[k].source)
      <4> SUFFICES ASSUME NEW k \in DOMAIN emissions,
                          IsRecord(emissions[k].source)
                   PROVE  FALSE
        OBVIOUS
      <4>1. Len(emissions) = 1
        BY DEF EmissionInv, Streamed
      <4>2. k = 1
        BY <2>1, <4>1, LenProperties
      <4> QED
        BY <2>6, <4>2 DEF Streamed
    <3>4. ~(emissions' # <<>> /\ IsRecord(Head(emissions').source))
      <4> SUFFICES ASSUME emissions' # <<>>
                   PROVE  ~IsRecord(Head(emissions').source)
        OBVIOUS
      <4>1. 1 \in DOMAIN emissions' /\ Head(emissions') = emissions'[1]
        BY <2>6, EmptySeq, LenProperties
      <4> QED
        BY <2>6, <3>3, <4>1 DEF EmissionsKept
    <3> QED
      BY <2>6, <3>2, <3>4 DEF RecordInv, Emitting, Before
  <2>7. ASSUME EmitPacket
        PROVE  /\ emissions # <<>> /\ 1 \in DOMAIN emissions
               /\ Head(emissions) = emissions[1]
               /\ emissions[1] \in Emission
               /\ emissions[1].packets > 0
               /\ emissions' \in Seq(Emission) /\ EmissionsKept
               /\ UNCHANGED records
               /\ NewPacket.source = emissions[1].source
               /\ NewPacket.last = ClosesRecord(emissions[1])
    <3>1. emissions # <<>> /\ UNCHANGED records
          /\ Head(emissions).packets > 0
      BY <2>7 DEF EmitPacket
    <3> QED
      BY <2>7, <3>1, NewPacketProperties, EmitPacketProperties,
         EmitKeepsEmissions
  <2>8. CASE EmitToQueue
    <3>1. PICK x \in queue' : /\ queue' = queue \cup {x}
                              /\ x.packet = NewPacket
                              /\ x.generated = NewPacket.sent
                              /\ x.sequence = next_sequence
      BY <2>8, EmitToQueueProperties
    <3>2. EmitPacket /\ emissions # <<>> /\ ~Deque(NewPacket.source)
      BY <2>8, EmitToQueueProperties
    <3>3. CASE ~Streamed(emissions[1].source)
      <4>1. ~IsRecord(x.packet.source) /\ ~x.packet.last
        BY <2>7, <3>1, <3>2, <3>3 DEF ClosesRecord, Streamed
      <4> QED
        BY <2>6, <2>7, <3>1, <3>2, <3>3, <4>1
    <3>4. CASE Streamed(emissions[1].source)
      <4>1. Emitting
        BY <2>7, <3>2, <3>4 DEF Emitting, Streamed
      <4>2. Len(emissions) = 1
        BY <2>7, <3>2, <3>4 DEF EmissionInv
      <4>3. \A q \in queue :
               /\ ~q.packet.last
               /\ IsRecord(q.packet.source) =>
                     q.packet.source = NewPacket.source
        BY <2>7, <3>2, <4>1 DEF RecordInv
      <4>4. \A q \in queue : IsRecord(q.packet.source) => Before(q, x)
        <5> SUFFICES ASSUME NEW q \in queue, IsRecord(q.packet.source)
                     PROVE  Before(q, x)
          OBVIOUS
        <5>1. q.generated <= x.generated
          BY <3>1, <3>2, <4>3, NewestOfItsSource
        <5>2. q.sequence < x.sequence
          BY <3>1 DEF SequenceInv
        <5>3. x.generated \in Nat /\ q.generated \in Nat
              /\ q.sequence \in Nat /\ x.sequence \in Nat
          BY <2>8, <3>1, EmitToQueueProperties, PacketTypes DEF Packet, TypeOK
        <5> QED
          BY <5>1, <5>2, <5>3 DEF Before
      <4>5. Before(x, x)
        <5>1. x.generated \in Nat /\ x.sequence \in Nat
          BY <2>8, <3>1, EmitToQueueProperties DEF Packet, TypeOK
        <5> QED
          BY <5>1 DEF Before
      <4>6. \A p, q \in queue' :
               p.packet.last /\ IsRecord(q.packet.source) => Before(q, p)
        BY <3>1, <4>3, <4>4, <4>5
      <4>7. CASE emissions[1].packets = 1
        <5>1. x.packet.last
          BY <2>7, <3>1, <3>2, <3>4, <4>7 DEF ClosesRecord
        <5>2. emissions' = <<>>
          BY <2>7, <3>2, <4>2, <4>7, EmitPacketProperties
        <5> QED
          BY <3>1, <4>6, <5>1, <5>2 DEF RecordInv, Emitting, Before
      <4>8. CASE emissions[1].packets # 1
        <5>1. ~x.packet.last
          BY <2>7, <3>1, <3>2, <4>8 DEF ClosesRecord
        <5>2. /\ DOMAIN emissions' = DOMAIN emissions
              /\ emissions'[1].packets > 0
              /\ emissions'[1].source = emissions[1].source
              /\ emissions' \in Seq(Emission)
              /\ Len(emissions') = 1
          BY <2>7, <3>2, <4>2, <4>8, EmitPacketProperties
        <5>3. emissions' # <<>> /\ Head(emissions') = emissions'[1]
          BY <5>2, EmptySeq
        <5>4. IsRecord(emissions'[1].source)
          BY <3>4, <5>2 DEF Streamed
        <5> QED
          BY <2>7, <3>1, <3>2, <4>3, <4>6, <5>1, <5>2, <5>3, <5>4
             DEF RecordInv, Emitting, Before
      <4> QED
        BY <4>7, <4>8
    <3> QED
      BY <3>3, <3>4
  <2>9. CASE EmitHead
    <3>1. PICK x : queue' = queue \cup {x} /\ x.packet = NewPacket
      BY <2>9, EmitHeadProperties
    <3>2. EmitPacket /\ ~Streamed(NewPacket.source)
      BY <2>9, EmitHeadProperties DEF EmitHead
    <3>3. ~IsRecord(x.packet.source) /\ ~x.packet.last
      BY <2>7, <3>1, <3>2 DEF ClosesRecord, Streamed
    <3> QED
      BY <2>6, <2>7, <3>1, <3>2, <3>3
  <2>10. CASE EmitPending
    <3>1. EmitPacket /\ ~Streamed(NewPacket.source) /\ UNCHANGED queue
      BY <2>10 DEF EmitPending
    <3> QED
      BY <2>6, <2>7, <3>1
  <2>11. CASE SkipEmission
    <3>1. UNCHANGED queue /\ emissions # <<>>
          /\ Head(emissions) = emissions[1]
          /\ emissions[1].packets = 0
      BY <2>11, NewPacketProperties DEF SkipEmission
    <3>2. CASE Streamed(emissions[1].source)
      <4>1. TakeRecord(records, step_start)
        BY <2>11, <3>1, <3>2 DEF SkipEmission
      <4>2. Emitting
        BY <3>1, <3>2 DEF Emitting, Streamed
      <4>3. \A p \in queue : ~IsRecord(p.packet.source) /\ ~p.packet.last
        BY <3>1, <4>2 DEF RecordInv
      <4> QED
        BY <2>1, <2>3, <3>1, <4>1, <4>3
    <3>3. CASE ~Streamed(emissions[1].source)
      <4>1. emissions' \in Seq(Emission)
        <5>1. emissions' = Tail(emissions)
          BY <2>11, <3>1, <3>3 DEF SkipEmission
        <5> QED
          BY <2>1, <3>1, <5>1, HeadTailProperties
      <4> QED
        BY <2>6, <2>11, <3>1, <3>3, <4>1, SkipKeepsEmissions
    <3> QED
      BY <3>2, <3>3
  <2>12. ASSUME NEW p \in queue, NEW blocking \in Blockings,
                NEW transit \in Transits, Process(p, blocking, transit)
         PROVE  RecordInv'
    <3>1. /\ queue' = queue \ {p} /\ emissions = <<>>
          /\ \A q \in queue : Before(p, q)
      BY <2>12 DEF Process, Idle, IsTop
    <3>2. CASE p.packet.last
      <4>1. TakeRecord(records, step_start)
        BY <2>12, <3>2 DEF Process
      <4>2. \A q \in queue' : ~IsRecord(q.packet.source)
        BY <3>1, <3>2, LastOfTheRecord
      <4>3. \A q \in queue' : ~q.packet.last
        BY <3>1, <4>2 DEF LaneInv, Streamed
      <4> QED
        BY <2>1, <2>3, <4>1, <4>2, <4>3
    <3>3. CASE ~p.packet.last
      <4>1. UNCHANGED <<emissions, records>>
        BY <2>12, <3>3 DEF Process
      <4> QED
        BY <3>1, <3>3, <4>1 DEF RecordInv, Emitting, Before
    <3> QED
      BY <3>2, <3>3
  <2>13. CASE ReleaseNext
    <3>1. PICK x \in queue' : /\ queue' = queue \cup {x}
                              /\ x.packet = pending[releasing][1]
                              /\ x.packet.source = releasing
      BY <2>13, ReleaseNextProperties
    <3>2. /\ releasing \in Core /\ pending[releasing] # <<>>
          /\ 1 \in DOMAIN pending[releasing]
          /\ emissions = <<>> /\ UNCHANGED <<emissions, records>>
      BY <2>13, ReleaseNextProperties DEF ReleaseNext
    <3>3. ~x.packet.last /\ ~IsRecord(x.packet.source)
      BY <3>1, <3>2 DEF LaneInv, DequeInv, Deque, Streamed
    <3> QED
      BY <3>1, <3>2, <3>3 DEF RecordInv, Emitting, Before
  <2> QED
    BY <2>2, <2>4, <2>5, <2>8, <2>9, <2>10, <2>11, <2>12, <2>13, NextCases,
       QuietProperties DEF ReleaseNone
<1> QED
  BY <1>1, <1>2, TypeInvariant, PhaseInvariant, DequeInvariant,
     SequenceInvariant, EmissionInvariant, SentInvariant, LaneInvariant, PTL
     DEF Spec

(* The chain of streamed records never breaks: as long as records are left *)
(* or packets of one are queued, exactly one queued packet will call for   *)
(* the next record, and it is behind all others (simulator.cpp:234-260,    *)
(* 318-322).                                                               *)
THEOREM RecordChainHolds == Spec => []RecordChain
<1>1. TypeOK /\ SequenceInv /\ LaneInv /\ RecordInv => RecordChain
  <2> DEFINE queuedRecords == {p \in queue : IsRecord(p.packet.source)}
             calling == {p \in queuedRecords : p.packet.last}
  <2> SUFFICES ASSUME TypeOK, SequenceInv, LaneInv, RecordInv, Streaming,
                      ~Emitting, records # <<>> \/ queuedRecords # {}
               PROVE  /\ Cardinality(calling) = 1
                      /\ \A p \in calling : \A q \in queuedRecords : Before(q, p)
    BY DEF RecordChain, Emitting
  <2>1. PICK p \in queue : p.packet.last
    BY DEF RecordInv
  <2>2. p \in calling
    BY <2>1 DEF LaneInv, Streamed
  <2>3. \A q \in calling : q = p
    BY <2>2, LastOfTheRecord DEF RecordInv
  <2>4. calling = {p}
    BY <2>2, <2>3
  <2>5. Cardinality(calling) = 1
    BY <2>4, FS_Singleton
  <2> QED
    BY <2>5 DEF RecordInv
<1> QED
  BY <1>1, TypeCorrect, SequenceInvariant, LaneInvariant, RecordInvariant, PTL

(***************************************************************************)
(* The barrier and the abstract specification.                             *)
(***************************************************************************)

(* With an empty queue and nothing to release, everything emitted has been *)
(* delivered and no core is active.                                        *)
LEMMA NothingLeft ==
  ASSUME TypeOK, DequeInv, NumberInv, queue = {}, releasing = NoCore
  PROVE  /\ delivered = emitted
         /\ \A c \in Core : pending[c] = <<>> /\ ~active[c]
<1>1. \A c \in Core : c # NoCore
  BY LaneAssumption DEF Lanes
<1>2. \A c \in Core : pending[c] = <<>> /\ ~active[c]
  BY <1>1 DEF DequeInv
<1>3. ASSUME NEW l \in Lanes PROVE delivered[l] = emitted[l]
  <2>1. delivered[l] \in Nat /\ emitted[l] \in Nat /\ delivered[l] <= emitted[l]
    BY DEF TypeOK, NumberInv, LaneNumbers
  <2>2. CASE Deque(l)
    <3>1. l \in Core /\ ~HeadQueued(l)
      BY <2>2 DEF Deque, HeadQueued
    <3>2. emitted[l] = delivered[l] + Len(pending[l])
      BY <2>2, <3>1 DEF NumberInv, DequeNumbers
    <3>3. Len(pending[l]) = 0
      BY <1>2, <3>1, EmptySeq
    <3> QED
      BY <2>1, <3>2, <3>3
  <2>3. CASE ~Deque(l)
    <3>1. delivered[l] + 1 \notin delivered[l] + 1 .. emitted[l]
      BY <2>3 DEF NumberInv, LaneNumbers
    <3> QED
      BY <2>1, <3>1
  <2> QED
    BY <2>2, <2>3
<1>4. delivered = emitted
  BY <1>3 DEF TypeOK
<1> QED
  BY <1>2, <1>4

NotThrown == phase # "thrown"

LEMMA NeverThrown == Spec => []NotThrown
<1>1. Init => NotThrown
  BY DEF Init, NotThrown
<1>2. TypeOK /\ PhaseInv /\ DequeInv /\ NumberInv /\ NotThrown /\ [Next]_vars
        => NotThrown'
  <2> SUFFICES ASSUME TypeOK, PhaseInv, DequeInv, NumberInv, NotThrown,
                      [Next]_vars
               PROVE  NotThrown'
    OBVIOUS
  <2>1. ASSUME NEW recs \in Inputs, BeginTimestep(recs) PROVE NotThrown'
    <3>1. phase = "barrier"
      BY <2>1 DEF BeginTimestep
    <3>2. queue = {} /\ releasing = NoCore
      BY <3>1 DEF PhaseInv
    <3>3. \A c \in Core : ~active[c]
      BY <3>2, NothingLeft
    <3> QED
      BY <2>1, <3>2, <3>3 DEF BeginTimestep, NotThrown
  <2>2. CASE UNCHANGED phase
    BY <2>2 DEF NotThrown
  <2>3. CASE Quiet
    BY <2>3 DEF Quiet, StartDrain, CompleteTimestep, StopEarly, Finish,
                Terminated, vars, NotThrown
  <2> QED
    BY <2>1, <2>2, <2>3, NextCases
       DEF RunNeurons, EmitToQueue, EmitHead, EmitPending, EmitPacket,
           SkipEmission, Process, ReleaseNext, ReleaseNone
<1> QED
  BY <1>1, <1>2, TypeCorrect, PhaseInvariant, DequeInvariant, NumberInvariant,
     PTL DEF Spec

(* In every queueing mode neither logic_error at the head of the timestep  *)
(* loop is thrown, and the barrier leaves nothing over: no queued or       *)
(* waiting packet, no unread record, nothing emitted but not processed, no *)
(* axon-out reserved beyond it (simulator.cpp:412-421, 437-441).           *)
THEOREM CleanBarriers == Spec => []BarrierClean
<1>1. TypeOK /\ PhaseInv /\ DequeInv /\ EmissionInv /\ SentInv /\ NumberInv
        /\ RecordInv /\ NotThrown => BarrierClean
  <2> SUFFICES ASSUME TypeOK, PhaseInv, DequeInv, EmissionInv, SentInv,
                      NumberInv, RecordInv, NotThrown
               PROVE  BarrierClean
    OBVIOUS
  <2> SUFFICES ASSUME phase = "barrier"
               PROVE  /\ queue = {}
                      /\ \A c \in Core : pending[c] = <<>> /\ ~active[c]
                      /\ records = <<>>
                      /\ delivered = emitted
                      /\ \A c \in Core : axon_free[c] <= hw_latency
    BY DEF BarrierClean, NotThrown
  <2>1. queue = {} /\ releasing = NoCore /\ emissions = <<>>
    BY DEF PhaseInv
  <2>2. /\ delivered = emitted
        /\ \A c \in Core : pending[c] = <<>> /\ ~active[c]
    BY <2>1, NothingLeft
  <2>3. records = <<>>
    BY <2>1 DEF RecordInv, EmissionInv, Emitting
  <2>4. \A c \in Core : axon_free[c] <= hw_latency
    BY <2>1, <2>2 DEF SentInv, SentReserves
  <2> QED
    BY <2>1, <2>2, <2>3, <2>4
<1> QED
  BY <1>1, TypeCorrect, PhaseInvariant, DequeInvariant, EmissionInvariant,
     SentInvariant, NumberInvariant, RecordInvariant, NeverThrown, PTL

(* Each step of the loop is a step of OrderedDelivery or changes nothing   *)
(* it sees: emitting, processing, the barrier and the end of the run.      *)
LEMMA StepsDeliverInOrder ==
  ASSUME TypeOK, TypeOK', OwnPackets, PhaseInv, DequeInv, NumberInv, NotThrown,
         [Next]_vars
  PROVE  [OD!Next]_(OD!vars)
<1> USE DEF NotThrown
<1>1. \A l \in Lanes : delivered[l] \in Nat /\ emitted[l] \in Nat
  BY DEF TypeOK
<1>2. CASE UNCHANGED <<emitted, delivered, Rounds, phase>>
  BY <1>2 DEF OD!vars
<1>3. ASSUME NEW recs \in Inputs, BeginTimestep(recs)
      PROVE  [OD!Next]_(OD!vars)
  <2>1. /\ phase = "barrier" /\ timestep' = timestep + 1
        /\ UNCHANGED <<emitted, delivered>>
        /\ phase' \in {"thrown", "neurons"}
    BY <1>3 DEF BeginTimestep
  <2>2. timestep \in Nat
    BY DEF TypeOK
  <2>3. Rounds = timestep /\ Rounds' = timestep' - 1
    BY <2>1 DEF Rounds
  <2>4. Rounds' = Rounds
    BY <2>1, <2>2, <2>3
  <2> QED
    BY <2>1, <2>4 DEF OD!vars
<1>4. CASE EmitPacket
  <2>1. /\ emissions # <<>> /\ UNCHANGED <<phase, timestep, delivered>>
        /\ emitted' = [emitted EXCEPT ![Head(emissions).source] = @ + 1]
    BY <1>4 DEF EmitPacket
  <2>2. phase \notin {"barrier", "done"}
    BY <2>1 DEF PhaseInv
  <2>3. Head(emissions).source \in Lanes
    BY <2>1, NewPacketProperties DEF Emission
  <2>4. Rounds' = Rounds
    BY <2>1, <2>2 DEF Rounds
  <2>5. OD!Emit(Head(emissions).source)
    BY <2>1, <2>2, <2>4 DEF OD!Emit
  <2> QED
    BY <2>3, <2>5 DEF OD!Next
<1>5. ASSUME NEW p \in queue, NEW blocking \in Blockings,
             NEW transit \in Transits, Process(p, blocking, transit)
      PROVE  [OD!Next]_(OD!vars)
  <2> DEFINE s == p.packet.source
  <2>1. /\ phase = "drain" /\ UNCHANGED <<phase, timestep, emitted>>
        /\ delivered' = [delivered EXCEPT ![s] = p.packet.number]
        /\ \A q \in queue : Before(p, q)
    BY <1>5 DEF Process, IsTop
  <2>2. s \in Lanes /\ p.packet.number = delivered[s] + 1
        /\ p.packet.number \in Nat
    BY <2>1, TopIsNext, PacketTypes
  <2>3. delivered[s] < emitted[s]
    BY <1>1, <2>2 DEF NumberInv, QueueNumbers
  <2>4. Rounds' = Rounds
    BY <2>1 DEF Rounds
  <2>5. OD!Deliver(s)
    BY <2>1, <2>2, <2>3, <2>4 DEF OD!Deliver, TypeOK
  <2> QED
    BY <2>2, <2>5 DEF OD!Next
<1>6. CASE CompleteTimestep
  <2>1. /\ phase = "drain" /\ phase' = "barrier" /\ queue = {}
        /\ releasing = NoCore
        /\ UNCHANGED <<timestep, emitted, delivered>>
    BY <1>6 DEF CompleteTimestep, Idle, Drained
  <2>2. delivered = emitted
    BY <2>1, NothingLeft
  <2>3. Rounds' = Rounds + 1
    BY <2>1 DEF Rounds, TypeOK
  <2> QED
    BY <2>1, <2>2, <2>3 DEF OD!Barrier, OD!Next
<1>7. CASE StopEarly \/ Finish
  <2>1. /\ phase # "done" /\ phase' = "done"
        /\ UNCHANGED <<timestep, queue, emitted, delivered>>
        /\ phase = "drain" => queue # {}
        /\ phase \in {"drain", "barrier"}
    BY <1>7 DEF StopEarly, Finish, Drained
  <2>2. Rounds' = Rounds
    BY <2>1 DEF Rounds, PhaseInv
  <2> QED
    BY <2>1, <2>2 DEF OD!Halt, OD!Next
<1>8. CASE SkipEmission \/ ReleaseNext \/ ReleaseNone
           \/ (\E c \in NeuronCores, loop \in NeuronLoops : RunNeurons(c, loop))
  <2>1. /\ UNCHANGED <<emitted, delivered, phase, timestep>>
        /\ phase \notin {"barrier", "done"}
    BY <1>8 DEF SkipEmission, ReleaseNext, ReleaseNone, RunNeurons, PhaseInv
  <2>2. Rounds' = Rounds
    BY <2>1 DEF Rounds
  <2> QED
    BY <1>2, <2>1, <2>2
<1>9. CASE StartDrain
  <2>1. Rounds' = Rounds /\ UNCHANGED <<emitted, delivered>>
        /\ (phase' = "done") = (phase = "done")
    BY <1>9 DEF StartDrain, Rounds
  <2> QED
    BY <2>1 DEF OD!vars
<1>10. CASE Terminated \/ UNCHANGED vars
  BY <1>2, <1>10 DEF Terminated, vars, Rounds
<1> QED
  BY <1>3, <1>4, <1>5, <1>6, <1>7, <1>8, <1>9, <1>10, NextCases
     DEF Quiet, EmitToQueue, EmitHead, EmitPending

(* In every queueing mode each source's packets are processed one by one   *)
(* in the order of their emission, none lost and none twice, and all of    *)
(* them before the barrier: the loop implements OrderedDelivery.           *)
THEOREM ImplementsOrderedDelivery == Spec => DeliversInOrder
<1>1. Init => OD!Init
  <2> SUFFICES ASSUME Init PROVE OD!Init
    OBVIOUS
  <2>1. Rounds = 0 /\ phase # "done"
    BY DEF Init, Rounds
  <2> QED
    BY <2>1 DEF Init, OD!Init
<1>2. TypeOK /\ TypeOK' /\ OwnPackets /\ PhaseInv /\ DequeInv /\ NumberInv
        /\ NotThrown /\ [Next]_vars => [OD!Next]_(OD!vars)
  BY StepsDeliverInOrder
<1> QED
  BY <1>1, <1>2, TypeInvariant, PhaseInvariant, DequeInvariant,
     NumberInvariant, NeverThrown, PTL DEF Spec, DeliversInOrder, OD!Spec
=============================================================================
