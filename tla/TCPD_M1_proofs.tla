---------------------------- MODULE TCPD_M1_proofs ----------------------------
(***************************************************************************)
(* Proofs about TCPD_M1: its invariants hold, and it implements            *)
(* OrderedDelivery, for every length of transfer and size of buffer.       *)
(***************************************************************************)
EXTENDS TCPD_M1, SequenceTheorems, TLAPS

(***************************************************************************)
(* The inductive invariant.                                                *)
(***************************************************************************)
Stopping == m1pc \in {"flush", "closed"}

\* A slot is free or holds the packet of its number; the only exception is
\* the final acknowledgement, which ends the main loop.
SlotsInv ==
  \A s \in Slots :
    \/ buff_received[s] = Free
    \/ s \in Sequence /\ buff_received[s] = Packet(s)
    \/ Stopping /\ s = 1 /\ buff_received[s] = FinalAck

\* Whatever makes the peer send its final acknowledgement implies that the FYN
\* is here.
FynInv ==
  ack_FYN \/ FinalAck \in m2m1 \/ Stopping => Safe(LastSeq)

\* The flush has handed over what it found between the head and its index,
\* and nothing from the index on.
FlushInv ==
  Stopping =>
    /\ buff_received_head <= counter
    /\ m1pc = "closed" => counter = Capacity
    /\ \A s \in buff_received_head .. counter - 1 :
         ~IsFree(buff_received[s]) =>
           \E i \in DOMAIN toFtps : toFtps[i] = buff_received[s]
    /\ \A i \in DOMAIN toFtps : toFtps[i].sequence_number < counter

HeadInv == buff_received_head <= LastSeq + 1

IInv ==
  /\ TypeOK
  /\ DeliveredInOrder
  /\ AckedIsSafe
  /\ SlotsInv
  /\ FynInv
  /\ FlushInv
  /\ HeadInv
  /\ StaysInBounds

-----------------------------------------------------------------------------
(***************************************************************************)
(* Facts about packets, slots and the troll.                               *)
(***************************************************************************)
\* The packets of a transfer carry their own number and differ from each
\* other, from the final acknowledgement and from the mark of a free slot.
LEMMA PacketFacts ==
  /\ \A s \in Sequence :
       /\ Packet(s) \in OwnPackets
       /\ Packet(s).sequence_number = s
       /\ ~IsFree(Packet(s))
       /\ Packet(s) # FinalAck
       /\ Packet(s) # Free
       /\ Packet(s).FYN <=> s = LastSeq
  /\ FinalAck \in OwnPackets
  /\ FinalAck.sequence_number = 1
  /\ FinalAck.FYN
  /\ ~IsFree(FinalAck)
  /\ FinalAck # Free
  /\ IsFree(Free)
  /\ Free \notin OwnPackets
  <1>1. ASSUME NEW s \in Sequence
        PROVE  /\ Packet(s) \in OwnPackets
               /\ Packet(s).sequence_number = s
               /\ Packet(s).FYN <=> s = LastSeq
    BY DEF OwnPackets, Packet
  <1>2. ASSUME NEW s \in Sequence
        PROVE  /\ ~IsFree(Packet(s))
               /\ Packet(s) # Free
    BY LastSeqAssumption DEF Packet, Free, IsFree, Sequence
  <1>3. /\ FinalAck \in OwnPackets
        /\ FinalAck.sequence_number = 1
        /\ FinalAck.FYN
        /\ ~IsFree(FinalAck)
        /\ FinalAck # Free
        /\ IsFree(Free)
    BY DEF FinalAck, Free, IsFree, OwnPackets
  <1>4. ASSUME NEW s \in Sequence
        PROVE  Packet(s) # FinalAck
    BY <1>1, <1>3, LastSeqAssumption
  <1>5. Free \notin OwnPackets
    BY <1>2, <1>3 DEF OwnPackets
  <1> QED BY <1>1, <1>2, <1>3, <1>4, <1>5

\* A packet of the transfer is known by its number and its FYN field.
LEMMA PacketKinds ==
  ASSUME NEW p \in OwnPackets
  PROVE  /\ ~p.FYN => p.sequence_number \in Sequence /\ p = Packet(p.sequence_number)
         /\ p.FYN /\ p.sequence_number # 1 => p = Packet(LastSeq) /\ p.sequence_number = LastSeq
         /\ p.FYN /\ p.sequence_number = 1 => p = FinalAck
  <1>1. ASSUME NEW s \in Sequence, p = Packet(s)
        PROVE  /\ p.sequence_number = s
               /\ p.FYN <=> s = LastSeq
    BY <1>1, PacketFacts
  <1>2. LastSeq # 1
    BY LastSeqAssumption
  <1> QED BY <1>1, <1>2, PacketFacts DEF OwnPackets

\* What comes out of the troll undamaged was handed to it, and nothing is
\* added to a channel by receiving.
LEMMA Undamaged ==
  ASSUME NEW channel, channel \subseteq OwnPackets, NEW p \in Arrivals(channel)
  PROVE  /\ p.good => p \in channel
         /\ After(channel, p) \subseteq channel
  <1>1. ASSUME p.good
        PROVE  p \in channel
    <2>1. ASSUME NEW q \in channel, p = Garbled(q)
          PROVE  FALSE
      BY <1>1, <2>1 DEF OwnPackets, Packet, FinalAck, Garbled
    <2> QED BY <2>1 DEF Arrivals
  <1>2. After(channel, p) \subseteq channel
    BY DEF After
  <1> QED BY <1>1, <1>2

\* Storing a packet fills its slot if that is free and changes nothing else.
LEMMA StoreFacts ==
  ASSUME NEW buffer \in [Slots -> OwnPackets \union {Free}],
         NEW p \in OwnPackets,
         p.sequence_number \in Slots
  PROVE  /\ Store(buffer, p) \in [Slots -> OwnPackets \union {Free}]
         /\ \A s \in Slots :
              /\ s # p.sequence_number => Store(buffer, p)[s] = buffer[s]
              /\ buffer[s] # Free => Store(buffer, p)[s] = buffer[s]
         /\ buffer[p.sequence_number] = Free
              => Store(buffer, p)[p.sequence_number] = p
  <1>1. \A s \in Slots : IsFree(buffer[s]) <=> buffer[s] = Free
    BY PacketFacts DEF OwnPackets
  <1> QED BY <1>1 DEF Store

-----------------------------------------------------------------------------
\* The initial state satisfies the invariant.
LEMMA InitIInv == Init => IInv
  <1> SUFFICES ASSUME Init PROVE IInv
    OBVIOUS
  <1>1. TypeOK
    <2>1. init_recvbuff \in [Slots -> OwnPackets \union {Free}]
      BY DEF init_recvbuff
    <2>2. <<>> \in Seq(OwnPackets)
      OBVIOUS
    <2>3. buff_received \in [Slots -> OwnPackets \union {Free}] /\ toFtps \in Seq(OwnPackets)
      BY <2>1, <2>2, Zenon DEF Init
    <2>4. ack_FYN \in BOOLEAN /\ portQueued \in BOOLEAN
      BY Zenon DEF Init
    <2>5. /\ buff_received_head \in 0 .. Capacity
          /\ counter \in 0 .. Capacity
      BY CapacityAssumption DEF Init
    <2> QED BY <2>3, <2>4, <2>5, Zenon DEF Init, TypeOK
  <1>2. DeliveredInOrder /\ AckedIsSafe /\ HeadInv /\ StaysInBounds
    BY LastSeqAssumption
    DEF Init, DeliveredInOrder, AckedIsSafe, HeadInv, StaysInBounds
  <1>3. SlotsInv /\ FynInv /\ FlushInv
    BY DEF Init, SlotsInv, FynInv, FlushInv, Stopping, init_recvbuff
  <1> QED BY <1>1, <1>2, <1>3 DEF IInv

\* A step that leaves TCPD_M1 alone and adds no acknowledgement keeps the
\* invariant, if the final acknowledgement travels only once the FYN is safe.
LEMMA OwnUnchanged ==
  ASSUME IInv, UNCHANGED own,
         m2m1' \subseteq OwnPackets,
         m1m2' \subseteq m1m2,
         portQueued' \in BOOLEAN,
         FinalAck \in m2m1' => Safe(LastSeq)
  PROVE  IInv'
  <1>1. \A s : Safe(s) <=> Safe(s)'
    BY DEF Safe, own
  <1>2. TypeOK'
    BY DEF IInv, TypeOK, own
  <1>3. DeliveredInOrder' /\ HeadInv' /\ StaysInBounds'
    BY DEF IInv, DeliveredInOrder, HeadInv, StaysInBounds, own
  <1>4. AckedIsSafe'
    BY <1>1 DEF IInv, AckedIsSafe
  <1>5. SlotsInv'
    BY DEF IInv, SlotsInv, Stopping, own
  <1>6. FynInv'
    BY <1>1 DEF IInv, FynInv, Stopping, own
  <1>7. FlushInv'
    BY DEF IInv, FlushInv, Stopping, own
  <1> QED BY <1>2, <1>3, <1>4, <1>5, <1>6, <1>7 DEF IInv

\* Every step of the environment keeps the invariant.
LEMMA EnvironmentStep == IInv /\ Environment => IInv'
  <1> SUFFICES ASSUME IInv, Environment PROVE IInv'
    OBVIOUS
  <1>1. CASE FtpsSendsPort
    BY <1>1, OwnUnchanged DEF FtpsSendsPort, IInv, TypeOK, FynInv
  <1>2. ASSUME NEW s \in Sequence, PeerSends(s)
        PROVE  IInv'
    <2>1. Packet(s) \in OwnPackets /\ Packet(s) # FinalAck
      BY PacketFacts
    <2>2. FinalAck \in m2m1' => Safe(LastSeq)
      BY <1>2, <2>1 DEF PeerSends, IInv, FynInv
    <2> QED BY <1>2, <2>1, <2>2, OwnUnchanged DEF PeerSends, IInv, TypeOK
  <1>3. CASE PeerSendsFinalAck
    <2>1. Safe(LastSeq)
      BY <1>3 DEF PeerSendsFinalAck, IInv, AckedIsSafe
    <2> QED BY <1>3, <2>1, PacketFacts, OwnUnchanged
            DEF PeerSendsFinalAck, IInv, TypeOK
  <1>4. CASE Lose
    BY <1>4, OwnUnchanged DEF Lose, IInv, TypeOK, FynInv
  <1> QED BY <1>1, <1>2, <1>3, <1>4 DEF Environment

\* Learning the port opens the connection and touches nothing else.
LEMMA ReceivePortStep == IInv /\ ReceivePort => IInv'
  <1> SUFFICES ASSUME IInv, ReceivePort PROVE IInv'
    OBVIOUS
  <1> USE DEF ReceivePort
  <1>1. \A s : Safe(s) <=> Safe(s)'
    BY DEF Safe
  <1>2. TypeOK' /\ DeliveredInOrder' /\ HeadInv' /\ StaysInBounds'
    BY DEF IInv, TypeOK, DeliveredInOrder, HeadInv, StaysInBounds
  <1>3. AckedIsSafe'
    BY <1>1 DEF IInv, AckedIsSafe
  <1>4. SlotsInv' /\ FlushInv'
    BY DEF IInv, SlotsInv, FlushInv, Stopping
  <1>5. FynInv'
    BY <1>1 DEF IInv, FynInv, Stopping
  <1> QED BY <1>2, <1>3, <1>4, <1>5 DEF IInv

-----------------------------------------------------------------------------
(***************************************************************************)
(* The main loop's branches.                                               *)
(***************************************************************************)
\* While the main loop runs, storing a packet of the transfer in its slot
\* makes it safe and keeps every slot at its own packet.
LEMMA StoreInLoop ==
  ASSUME IInv, m1pc = "listen",
         NEW s \in Sequence, s \in Slots
  PROVE  LET b == Store(buff_received, Packet(s)) IN
         /\ b \in [Slots -> OwnPackets \union {Free}]
         /\ \A t \in Slots : b[t] = Free \/ (t \in Sequence /\ b[t] = Packet(t))
         /\ \A t \in Slots : buff_received[t] = Packet(t) /\ t \in Sequence
                               => b[t] = Packet(t)
         /\ b[s] = Packet(s)
  <1> DEFINE b == Store(buff_received, Packet(s))
  <1>1. /\ buff_received \in [Slots -> OwnPackets \union {Free}]
        /\ \A t \in Slots :
             buff_received[t] = Free \/ (t \in Sequence /\ buff_received[t] = Packet(t))
    BY DEF IInv, TypeOK, SlotsInv, Stopping
  <1>2. Packet(s) \in OwnPackets /\ Packet(s).sequence_number = s
    BY PacketFacts
  <1>3. /\ b \in [Slots -> OwnPackets \union {Free}]
        /\ \A t \in Slots :
             /\ t # s => b[t] = buff_received[t]
             /\ buff_received[t] # Free => b[t] = buff_received[t]
        /\ buff_received[s] = Free => b[s] = Packet(s)
    BY <1>1, <1>2, StoreFacts
  <1>4. \A t \in Slots : t \in Sequence => Packet(t) # Free
    BY PacketFacts
  <1> QED BY <1>1, <1>3, <1>4

\* What came out of the troll undamaged is a packet of the transfer, and
\* receiving it leaves the troll with nothing new.
LEMMA TakenPacket ==
  ASSUME IInv, NEW p, Takes(p), p.good
  PROVE  /\ p \in m2m1 /\ p \in OwnPackets
         /\ m2m1' \subseteq m2m1
  BY Undamaged DEF IInv, TypeOK, Takes

\* A step of the main loop that keeps every slot at its own packet, loses
\* nothing that was safe and acknowledges only what is safe keeps the invariant.
LEMMA LoopStep ==
  ASSUME IInv, m1pc = "listen", m1pc' \in {"listen", "overrun"},
         m1pc' = "overrun" => Capacity <= LastSeq + 1,
         buff_received' \in [Slots -> OwnPackets \union {Free}],
         \A t \in Slots : \/ buff_received'[t] = Free
                          \/ t \in Sequence /\ buff_received'[t] = Packet(t),
         \A t \in Sequence : Safe(t) => Safe(t)',
         ack_FYN' \in BOOLEAN, ack_FYN' => Safe(LastSeq)',
         buff_received_head' \in 0 .. Capacity, HeadInv',
         toFtps' \in Seq(OwnPackets),
         DeliveredInOrder',
         m2m1' \subseteq m2m1,
         \A a \in m1m2' : \/ a \in m1m2
                          \/ /\ a \in [sequence_number : Sequence, FYN : BOOLEAN]
                             /\ Safe(a.sequence_number)'
                             /\ a.FYN => ack_FYN',
         UNCHANGED <<counter, portQueued>>
  PROVE  IInv'
  <1>1. TypeOK'
    BY DEF IInv, TypeOK
  <1>2. LastSeq \in Sequence
    BY LastSeqAssumption DEF Sequence
  <1>3. AckedIsSafe'
    BY <1>2 DEF IInv, AckedIsSafe, TypeOK
  <1>4. SlotsInv' /\ FlushInv' /\ StaysInBounds'
    BY CapacityAssumption, LastSeqAssumption
    DEF IInv, SlotsInv, FlushInv, StaysInBounds, Stopping
  <1>5. FynInv'
    BY <1>2 DEF IInv, FynInv, Stopping
  <1> QED BY <1>1, <1>3, <1>4, <1>5 DEF IInv

\* The acknowledgement a branch sends is of the packet it took.
LEMMA AckSent ==
  ASSUME NEW p, NEW s \in Sequence, p.sequence_number = s,
         NEW f \in BOOLEAN, SendAck(p, f)
  PROVE  \A a \in m1m2' : \/ a \in m1m2
                          \/ /\ a \in [sequence_number : Sequence, FYN : BOOLEAN]
                             /\ a.sequence_number = s
                             /\ a.FYN = f
  BY DEF SendAck

\* A data packet is stored, acknowledged, and at most one packet handed over.
LEMMA ReceiveDataStep == ASSUME IInv, NEW p, ReceiveData(p) PROVE IInv'
  <1> DEFINE s == p.sequence_number
             b == Store(buff_received, Packet(s))
             h == buff_received_head
  <1>1. /\ p \in OwnPackets /\ m2m1' \subseteq m2m1
        /\ ~p.FYN /\ s \in Slots /\ m1pc = "listen" /\ h < Capacity
    BY TakenPacket DEF ReceiveData, Takes, IsData, InBounds
  <1>2. s \in Sequence /\ p = Packet(s)
    BY <1>1, PacketKinds
  <1>3. /\ b \in [Slots -> OwnPackets \union {Free}]
        /\ \A t \in Slots : b[t] = Free \/ (t \in Sequence /\ b[t] = Packet(t))
        /\ \A t \in Slots : buff_received[t] = Packet(t) /\ t \in Sequence
                              => b[t] = Packet(t)
        /\ b[s] = Packet(s)
    BY <1>1, <1>2, StoreInLoop
  <1>4. /\ Forward(b)
        /\ UNCHANGED <<m1pc, ack_FYN, counter, portQueued>>
        /\ SendAck(p, ack_FYN)
    BY <1>2 DEF ReceiveData
  <1>5. h \in Slots /\ toFtps \in Seq(OwnPackets) /\ Len(toFtps) = h
    BY <1>1, CapacityAssumption DEF IInv, TypeOK, DeliveredInOrder, Slots
  <1> HIDE DEF s, b
  <1>6. /\ buff_received' \in [Slots -> OwnPackets \union {Free}]
        /\ \A t \in Slots : \/ buff_received'[t] = Free
                            \/ t \in Sequence /\ buff_received'[t] = Packet(t)
        /\ \A t \in Sequence : Safe(t) => Safe(t)'
        /\ Safe(s)'
        /\ buff_received_head' \in 0 .. Capacity
        /\ HeadInv'
        /\ toFtps' \in Seq(OwnPackets)
        /\ DeliveredInOrder'
    <2>1. CASE /\ IsFree(b[h])
               /\ buff_received' = b
               /\ UNCHANGED <<buff_received_head, toFtps>>
      <3>1. \A t \in Sequence : Safe(t) => Safe(t)'
        BY <1>3, <2>1 DEF Safe
      <3>2. Safe(s)'
        BY <1>1, <1>3, <2>1 DEF Safe
      <3> QED BY <1>3, <1>4, <2>1, <3>1, <3>2
              DEF IInv, TypeOK, HeadInv, DeliveredInOrder
    <2>2. CASE /\ ~IsFree(b[h])
               /\ toFtps' = Append(toFtps, b[h])
               /\ buff_received' = [b EXCEPT ![h] = Free]
               /\ buff_received_head' = h + 1
      <3>1. h \in Sequence /\ b[h] = Packet(h)
        BY <1>3, <1>5, <2>2, PacketFacts
      <3>2. \A t \in Slots : t # h => buff_received'[t] = b[t]
        BY <1>3, <2>2
      <3>3. buff_received'[h] = Free
        BY <1>3, <1>5, <2>2
      <3>4. \A t \in Sequence : Safe(t) => Safe(t)'
        BY <1>3, <1>5, <2>2, <3>1, <3>2 DEF Safe, Sequence, Slots
      <3>5. Safe(s)'
        BY <1>1, <1>2, <1>3, <1>5, <2>2, <3>2 DEF Safe, Sequence, Slots
      <3>6. toFtps' \in Seq(OwnPackets) /\ Len(toFtps') = h + 1
        BY <1>5, <2>2, <3>1, PacketFacts
      <3>7. DeliveredInOrder'
        <4>1. \A i \in 1 .. h : toFtps'[i] = toFtps[i]
          BY <1>5, <2>2
        <4>2. toFtps'[h + 1] = Packet(h)
          BY <1>5, <2>2, <3>1
        <4>3. \A i \in 1 .. h : toFtps[i] = Packet(i - 1)
          BY DEF IInv, DeliveredInOrder
        <4>4. \A i \in 1 .. h + 1 : toFtps'[i] = Packet(i - 1)
          BY <1>5, <4>1, <4>2, <4>3 DEF Slots
        <4> QED BY <1>4, <1>5, <2>2, <3>6, <4>4 DEF DeliveredInOrder, Slots
      <3>8. HeadInv' /\ buff_received_head' \in 0 .. Capacity
        BY <1>5, <2>2, <3>1, LastSeqAssumption, CapacityAssumption
        DEF HeadInv, Sequence, Slots
      <3>9. buff_received' \in [Slots -> OwnPackets \union {Free}]
        BY <1>3, <2>2
      <3>10. \A t \in Slots : \/ buff_received'[t] = Free
                              \/ t \in Sequence /\ buff_received'[t] = Packet(t)
        BY <1>3, <3>2, <3>3
      <3> QED BY <3>4, <3>5, <3>6, <3>7, <3>8, <3>9, <3>10
    <2> QED BY <1>4, <2>1, <2>2 DEF Forward
  <1>7. ack_FYN' \in BOOLEAN /\ (ack_FYN' => Safe(LastSeq)')
    BY <1>4, <1>6, LastSeqAssumption DEF IInv, TypeOK, FynInv, Sequence
  <1>8. \A a \in m1m2' : \/ a \in m1m2
                         \/ /\ a \in [sequence_number : Sequence, FYN : BOOLEAN]
                            /\ Safe(a.sequence_number)'
                            /\ a.FYN => ack_FYN'
    <2>1. ack_FYN \in BOOLEAN /\ p.sequence_number = s
      BY DEF IInv, TypeOK, s
    <2> QED BY <1>2, <1>4, <1>6, <2>1, AckSent
  <1> QED BY <1>1, <1>4, <1>6, <1>7, <1>8, LoopStep

\* The FYN is stored before its acknowledgement leaves.
LEMMA ReceiveFYNStep == ASSUME IInv, NEW p, ReceiveFYN(p) PROVE IInv'
  <1> DEFINE b == Store(buff_received, Packet(LastSeq))
  <1>1. /\ p \in OwnPackets /\ m2m1' \subseteq m2m1
        /\ p.FYN /\ p.sequence_number # 1 /\ p.sequence_number \in Slots
        /\ m1pc = "listen"
    BY TakenPacket DEF ReceiveFYN, Takes, InBounds
  <1>2. p = Packet(LastSeq) /\ p.sequence_number = LastSeq /\ LastSeq \in Sequence
    BY <1>1, PacketKinds, LastSeqAssumption DEF Sequence
  <1>3. /\ b \in [Slots -> OwnPackets \union {Free}]
        /\ \A t \in Slots : b[t] = Free \/ (t \in Sequence /\ b[t] = Packet(t))
        /\ \A t \in Slots : buff_received[t] = Packet(t) /\ t \in Sequence
                              => b[t] = Packet(t)
        /\ b[LastSeq] = Packet(LastSeq)
    BY <1>1, <1>2, StoreInLoop
  <1>4. /\ buff_received' = b
        /\ ack_FYN' = TRUE
        /\ SendAck(p, TRUE)
        /\ UNCHANGED <<m1pc, buff_received_head, counter, toFtps, portQueued>>
    BY <1>2 DEF ReceiveFYN
  <1> HIDE DEF b
  <1>5. \A t \in Sequence : Safe(t) => Safe(t)'
    BY <1>3, <1>4 DEF Safe
  <1>6. Safe(LastSeq)'
    BY <1>1, <1>2, <1>3, <1>4 DEF Safe
  <1>7. \A a \in m1m2' : \/ a \in m1m2
                         \/ /\ a \in [sequence_number : Sequence, FYN : BOOLEAN]
                            /\ Safe(a.sequence_number)'
                            /\ a.FYN => ack_FYN'
    BY <1>2, <1>4, <1>6, AckSent
  <1>8. /\ HeadInv' /\ DeliveredInOrder'
        /\ buff_received_head' \in 0 .. Capacity /\ toFtps' \in Seq(OwnPackets)
    BY <1>4 DEF IInv, TypeOK, HeadInv, DeliveredInOrder
  <1> QED BY <1>1, <1>3, <1>4, <1>5, <1>6, <1>7, <1>8, LoopStep

\* An access behind the buffer needs a transfer about as long as the buffer.
LEMMA OverrunStoreStep == ASSUME IInv, NEW p, OverrunStore(p) PROVE IInv'
  <1>1. /\ p \in OwnPackets /\ m2m1' \subseteq m2m1
        /\ p.sequence_number \notin Slots
        /\ m1pc = "listen" /\ m1pc' = "overrun"
        /\ UNCHANGED <<buff_received, buff_received_head, ack_FYN, counter,
                       toFtps, m1m2, portQueued>>
    BY TakenPacket DEF OverrunStore, Takes, InBounds
  <1>2. p.sequence_number \in Sequence
    BY <1>1, PacketFacts, LastSeqAssumption DEF OwnPackets, Sequence
  <1>3. Capacity <= LastSeq + 1
    BY <1>1, <1>2, CapacityAssumption, LastSeqAssumption DEF Slots, Sequence
  <1>4. \A t : Safe(t) <=> Safe(t)'
    BY <1>1 DEF Safe
  <1>5. /\ buff_received' \in [Slots -> OwnPackets \union {Free}]
        /\ buff_received_head' \in 0 .. Capacity /\ toFtps' \in Seq(OwnPackets)
        /\ ack_FYN' \in BOOLEAN
    BY <1>1 DEF IInv, TypeOK
  <1>6. HeadInv' /\ DeliveredInOrder'
    BY <1>1 DEF IInv, HeadInv, DeliveredInOrder
  <1>7. \A t \in Slots : \/ buff_received'[t] = Free
                         \/ t \in Sequence /\ buff_received'[t] = Packet(t)
    BY <1>1 DEF IInv, SlotsInv, Stopping
  <1>8. ack_FYN' => Safe(LastSeq)'
    BY <1>1, <1>4 DEF IInv, FynInv
  <1> QED BY <1>1, <1>3, <1>4, <1>5, <1>6, <1>7, <1>8, LoopStep

LEMMA OverrunHeadStep == ASSUME IInv, NEW p, OverrunHead(p) PROVE IInv'
  <1> DEFINE s == p.sequence_number
             b == Store(buff_received, Packet(s))
  <1>1. /\ p \in OwnPackets /\ m2m1' \subseteq m2m1
        /\ ~p.FYN /\ s \in Slots /\ buff_received_head = Capacity
        /\ m1pc = "listen"
    BY TakenPacket DEF OverrunHead, Takes, IsData, InBounds
  <1>2. s \in Sequence /\ p = Packet(s)
    BY <1>1, PacketKinds
  <1>3. /\ b \in [Slots -> OwnPackets \union {Free}]
        /\ \A t \in Slots : b[t] = Free \/ (t \in Sequence /\ b[t] = Packet(t))
        /\ \A t \in Slots : buff_received[t] = Packet(t) /\ t \in Sequence
                              => b[t] = Packet(t)
        /\ b[s] = Packet(s)
    BY <1>1, <1>2, StoreInLoop
  <1>4. /\ buff_received' = b /\ m1pc' = "overrun"
        /\ UNCHANGED <<buff_received_head, ack_FYN, counter, toFtps, portQueued>>
        /\ SendAck(p, ack_FYN)
    BY <1>2 DEF OverrunHead
  <1>5. Capacity <= LastSeq + 1
    BY <1>1 DEF IInv, HeadInv
  <1> HIDE DEF s, b
  <1>6. /\ \A t \in Sequence : Safe(t) => Safe(t)'
        /\ Safe(s)'
    BY <1>1, <1>2, <1>3, <1>4 DEF Safe
  <1>7. ack_FYN' \in BOOLEAN /\ (ack_FYN' => Safe(LastSeq)')
    BY <1>4, <1>6, LastSeqAssumption DEF IInv, TypeOK, FynInv, Sequence
  <1>8. \A a \in m1m2' : \/ a \in m1m2
                         \/ /\ a \in [sequence_number : Sequence, FYN : BOOLEAN]
                            /\ Safe(a.sequence_number)'
                            /\ a.FYN => ack_FYN'
    <2>1. ack_FYN \in BOOLEAN /\ p.sequence_number = s
      BY DEF IInv, TypeOK, s
    <2> QED BY <1>2, <1>4, <1>6, <2>1, AckSent
  <1>9. /\ HeadInv' /\ DeliveredInOrder'
        /\ buff_received_head' \in 0 .. Capacity /\ toFtps' \in Seq(OwnPackets)
    BY <1>4, <1>1 DEF IInv, TypeOK, HeadInv, DeliveredInOrder
  <1> QED BY <1>1, <1>3, <1>4, <1>5, <1>6, <1>7, <1>8, <1>9, LoopStep

\* A damaged or unacceptable packet changes nothing but the troll.
LEMMA DiscardStep == ASSUME IInv, NEW p, Discard(p) PROVE IInv'
  <1>1. m2m1' \subseteq m2m1
    BY Undamaged DEF Discard, Takes, IInv, TypeOK
  <1>2. FinalAck \in m2m1' => Safe(LastSeq)
    BY <1>1 DEF IInv, FynInv
  <1>3. m2m1' \subseteq OwnPackets /\ portQueued' \in BOOLEAN
    BY <1>1 DEF IInv, TypeOK, Discard
  <1> QED BY <1>2, <1>3, OwnUnchanged DEF Discard

-----------------------------------------------------------------------------
(***************************************************************************)
(* The shutdown.                                                           *)
(***************************************************************************)
\* The final acknowledgement fills slot 1 itself if that is free, so the buffer
\* it is checked with is never empty and nothing is sent to ftps here.
LEMMA FinalAckFacts ==
  ASSUME IInv, NEW p, ReceiveFinalAck(p)
  PROVE  /\ buff_received' \in [Slots -> OwnPackets \union {Free}]
         /\ \A t \in Slots : buff_received[t] # Free
                               => buff_received'[t] = buff_received[t]
         /\ \A t \in Slots : t # 1 => buff_received'[t] = buff_received[t]
         /\ buff_received[1] = Free => buff_received'[1] = FinalAck
         /\ toFtps' = toFtps
         /\ m2m1' \subseteq m2m1
         /\ FinalAck \in m2m1
  <1>1. /\ p \in OwnPackets /\ p \in m2m1 /\ m2m1' \subseteq m2m1
        /\ p.FYN /\ p.sequence_number = 1
    BY TakenPacket DEF ReceiveFinalAck
  <1>2. p = FinalAck
    BY <1>1, PacketKinds
  <1>3. 1 \in Slots
    BY CapacityAssumption DEF Slots
  <1>4. buff_received' = Store(buff_received, FinalAck)
    BY <1>2 DEF ReceiveFinalAck
  <1>5. buff_received \in [Slots -> OwnPackets \union {Free}]
    BY DEF IInv, TypeOK
  <1>6. /\ buff_received' \in [Slots -> OwnPackets \union {Free}]
        /\ \A t \in Slots :
             /\ t # 1 => buff_received'[t] = buff_received[t]
             /\ buff_received[t] # Free => buff_received'[t] = buff_received[t]
        /\ buff_received[1] = Free => buff_received'[1] = FinalAck
    BY <1>3, <1>4, <1>5, StoreFacts, PacketFacts
  <1>7. ~IsFree(buff_received'[1])
    BY <1>3, <1>5, <1>6, PacketFacts DEF OwnPackets
  <1>8. IsEmpty_recvbuff(buff_received') = {FALSE}
    BY <1>3, <1>7 DEF IsEmpty_recvbuff
  <1>9. toFtps' = toFtps
    BY <1>8 DEF ReceiveFinalAck
  <1> QED BY <1>1, <1>2, <1>6, <1>9

\* The final acknowledgement ends the main loop with the FYN at hand.
LEMMA ReceiveFinalAckStep == ASSUME IInv, NEW p, ReceiveFinalAck(p) PROVE IInv'
  <1>1. /\ m1pc = "listen" /\ m1pc' = "flush"
        /\ counter' = buff_received_head
        /\ UNCHANGED <<buff_received_head, ack_FYN, m1m2, portQueued>>
    BY DEF ReceiveFinalAck, Takes, FlushFrom
  <1>2. /\ buff_received' \in [Slots -> OwnPackets \union {Free}]
        /\ \A t \in Slots : buff_received[t] # Free
                              => buff_received'[t] = buff_received[t]
        /\ \A t \in Slots : t # 1 => buff_received'[t] = buff_received[t]
        /\ buff_received[1] = Free => buff_received'[1] = FinalAck
        /\ toFtps' = toFtps
        /\ m2m1' \subseteq m2m1
        /\ FinalAck \in m2m1
    BY FinalAckFacts
  <1>3. TypeOK'
    BY <1>1, <1>2 DEF IInv, TypeOK
  <1>4. \A t \in Sequence : Safe(t) => Safe(t)'
    BY <1>1, <1>2, PacketFacts DEF Safe
  <1>5. DeliveredInOrder' /\ HeadInv' /\ StaysInBounds'
    BY <1>1, <1>2 DEF IInv, DeliveredInOrder, HeadInv, StaysInBounds
  <1>6. LastSeq \in Sequence
    BY LastSeqAssumption DEF Sequence
  <1>7. AckedIsSafe'
    BY <1>1, <1>4, <1>6 DEF IInv, AckedIsSafe, TypeOK
  <1>8. SlotsInv'
    <2>1. ASSUME NEW t \in Slots
          PROVE  \/ buff_received'[t] = Free
                 \/ t \in Sequence /\ buff_received'[t] = Packet(t)
                 \/ t = 1 /\ buff_received'[t] = FinalAck
      BY <1>1, <1>2 DEF IInv, SlotsInv, Stopping
    <2> QED BY <1>1, <2>1 DEF SlotsInv, Stopping
  <1>9. FynInv'
    BY <1>2, <1>4, <1>6 DEF IInv, FynInv
  <1>10. FlushInv'
    <2>1. \A i \in DOMAIN toFtps : toFtps[i].sequence_number < buff_received_head
      <3>1. DOMAIN toFtps = 1 .. buff_received_head
        BY <1>1 DEF IInv, TypeOK, DeliveredInOrder
      <3>2. ASSUME NEW i \in 1 .. buff_received_head
            PROVE  toFtps[i].sequence_number < buff_received_head
        <4>1. toFtps[i] = Packet(i - 1)
          BY DEF IInv, DeliveredInOrder
        <4>2. i - 1 \in Sequence /\ i - 1 < buff_received_head
          BY LastSeqAssumption DEF IInv, TypeOK, HeadInv, Sequence
        <4> QED BY <4>1, <4>2, PacketFacts
      <3> QED BY <3>1, <3>2
    <2>2. buff_received_head \in Int
      BY CapacityAssumption DEF IInv, TypeOK
    <2> QED BY <1>1, <1>2, <2>1, <2>2 DEF FlushInv
  <1> QED BY <1>3, <1>5, <1>7, <1>8, <1>9, <1>10 DEF IInv

\* Each turn of the flush hands over the slot at its index, if that is full.
LEMMA FlushSlotStep == IInv /\ FlushSlot => IInv'
  <1> SUFFICES ASSUME IInv, FlushSlot PROVE IInv'
    OBVIOUS
  <1> DEFINE slot == buff_received[counter]
  <1>1. /\ m1pc = "flush" /\ counter < Capacity /\ counter' = counter + 1
        /\ toFtps' = IF IsFree(slot) THEN toFtps ELSE Append(toFtps, slot)
        /\ UNCHANGED <<m1pc, buff_received, buff_received_head, ack_FYN, m2m1,
                       m1m2, portQueued>>
    BY DEF FlushSlot
  <1>2. /\ counter \in Slots /\ counter \in Int /\ buff_received_head \in Int
        /\ buff_received_head <= counter
        /\ toFtps \in Seq(OwnPackets)
    BY <1>1, CapacityAssumption DEF IInv, TypeOK, FlushInv, Stopping, Slots
  <1>3. \A s : Safe(s) <=> Safe(s)'
    BY <1>1 DEF Safe
  <1>4. \/ slot = Free
        \/ /\ slot \in OwnPackets
           /\ slot.sequence_number = counter
           /\ ~IsFree(slot)
    BY <1>2, PacketFacts DEF IInv, SlotsInv
  <1>5. \/ slot = Free /\ toFtps' = toFtps
        \/ slot \in OwnPackets /\ toFtps' = Append(toFtps, slot)
    BY <1>1, <1>4, PacketFacts
  <1> HIDE DEF slot
  <1>6. /\ toFtps' \in Seq(OwnPackets)
        /\ Len(toFtps) <= Len(toFtps')
        /\ \A i \in DOMAIN toFtps : i \in DOMAIN toFtps' /\ toFtps'[i] = toFtps[i]
        /\ \A i \in DOMAIN toFtps' : i \in DOMAIN toFtps \/ toFtps'[i] = slot
        /\ slot \in OwnPackets => \E i \in DOMAIN toFtps' : toFtps'[i] = slot
    BY <1>2, <1>5, PacketFacts
  <1>7. TypeOK'
    BY <1>1, <1>2, <1>6, CapacityAssumption DEF IInv, TypeOK
  <1>8. DeliveredInOrder'
    <2>1. /\ Len(toFtps) >= buff_received_head
          /\ \A i \in 1 .. buff_received_head : toFtps[i] = Packet(i - 1)
      BY DEF IInv, DeliveredInOrder
    <2>2. \A i \in 1 .. buff_received_head : i \in DOMAIN toFtps
      BY <1>2, <2>1
    <2> QED BY <1>1, <1>2, <1>6, <2>1, <2>2 DEF DeliveredInOrder
  <1>9. AckedIsSafe' /\ HeadInv' /\ StaysInBounds'
    BY <1>1, <1>3 DEF IInv, AckedIsSafe, HeadInv, StaysInBounds
  <1>10. SlotsInv' /\ FynInv'
    BY <1>1, <1>3 DEF IInv, SlotsInv, FynInv, Stopping
  <1>11. FlushInv'
    <2>1. buff_received_head <= counter'
      BY <1>1, <1>2
    <2>2. ASSUME NEW s \in buff_received_head .. counter, ~IsFree(buff_received[s])
          PROVE  \E i \in DOMAIN toFtps' : toFtps'[i] = buff_received[s]
      <3>1. CASE s = counter
        BY <1>4, <1>6, <2>2, <3>1, PacketFacts DEF slot
      <3>2. CASE s # counter
        <4>1. s \in buff_received_head .. counter - 1
          BY <1>2, <3>2
        <4>2. PICK i \in DOMAIN toFtps : toFtps[i] = buff_received[s]
          BY <1>1, <2>2, <4>1 DEF IInv, FlushInv, Stopping
        <4> QED BY <1>6, <4>2
      <3> QED BY <3>1, <3>2
    <2>3. ASSUME NEW i \in DOMAIN toFtps'
          PROVE  toFtps'[i].sequence_number < counter + 1
      <3>1. CASE i \in DOMAIN toFtps
        <4>1. toFtps[i].sequence_number < counter
          BY <1>1, <3>1 DEF IInv, FlushInv, Stopping
        <4>2. toFtps[i] \in OwnPackets
          BY <1>2, <3>1
        <4>3. toFtps[i].sequence_number \in Int
          BY <4>2, PacketFacts, LastSeqAssumption DEF OwnPackets, Sequence
        <4> QED BY <1>2, <1>6, <3>1, <4>1, <4>3
      <3>2. CASE i \notin DOMAIN toFtps
        <4>1. toFtps'[i] = slot
          BY <1>6, <3>2
        <4>2. toFtps' # toFtps
          BY <3>2
        <4>3. slot.sequence_number = counter
          BY <1>4, <1>5, <4>2, PacketFacts
        <4> QED BY <1>2, <4>1, <4>3
      <3> QED BY <3>1, <3>2
    <2>4. counter' - 1 = counter
      BY <1>1, <1>2
    <2> QED BY <1>1, <2>1, <2>2, <2>3, <2>4 DEF FlushInv
  <1> QED BY <1>7, <1>8, <1>9, <1>10, <1>11 DEF IInv

LEMMA CloseStep == IInv /\ Close => IInv'
  <1> SUFFICES ASSUME IInv, Close PROVE IInv'
    OBVIOUS
  <1> USE DEF Close
  <1>1. \A s : Safe(s) <=> Safe(s)'
    BY DEF Safe
  <1>2. TypeOK' /\ DeliveredInOrder' /\ HeadInv' /\ StaysInBounds'
    BY DEF IInv, TypeOK, DeliveredInOrder, HeadInv, StaysInBounds
  <1>3. AckedIsSafe' /\ SlotsInv' /\ FlushInv' /\ FynInv'
    BY <1>1 DEF IInv, AckedIsSafe, SlotsInv, FlushInv, FynInv, Stopping
  <1> QED BY <1>2, <1>3 DEF IInv

-----------------------------------------------------------------------------
(***************************************************************************)
(* The theorems.                                                           *)
(***************************************************************************)
\* Every step of TCPD_M1 and of its environment keeps the invariant.
LEMMA NextIInv == IInv /\ [Next]_vars => IInv'
  <1> SUFFICES ASSUME IInv, [Next]_vars PROVE IInv'
    OBVIOUS
  <1>1. CASE Environment
    BY <1>1, EnvironmentStep
  <1>2. CASE ReceivePort
    BY <1>2, ReceivePortStep
  <1>3. CASE FlushSlot
    BY <1>3, FlushSlotStep
  <1>4. CASE Close
    BY <1>4, CloseStep
  <1>5. ASSUME NEW p \in Arrivals(m2m1), Receive(p)
        PROVE  IInv'
    BY <1>5, ReceiveDataStep, ReceiveFYNStep, ReceiveFinalAckStep, DiscardStep,
       OverrunStoreStep, OverrunHeadStep DEF Receive
  <1>6. CASE UNCHANGED vars
    <2>1. UNCHANGED own /\ UNCHANGED <<m2m1, m1m2, portQueued>>
      BY <1>6 DEF vars
    <2> QED BY <2>1, OwnUnchanged DEF IInv, TypeOK, FynInv
  <1> QED BY <1>1, <1>2, <1>3, <1>4, <1>5, <1>6 DEF Next, Step

LEMMA Invariance == Spec => []IInv
  BY InitIInv, NextIInv, PTL DEF Spec

\* Every variable of TCPD_M1 keeps to its type.
THEOREM TypeCorrect == Spec => []TypeOK
  BY Invariance, PTL DEF IInv

\* The main loop hands over the transfer from its start, in order, without
\* gaps or repetitions.
THEOREM InOrder == Spec => []DeliveredInOrder
  BY Invariance, PTL DEF IInv

\* What was acknowledged, and the FYN when any acknowledgement carries FYN, is
\* in TCPD_M1's hands or has been handed over.
THEOREM AckSafety == Spec => []AckedIsSafe
  BY Invariance, PTL DEF IInv

\* A transfer at least two packets shorter than the buffer stays inside it.
THEOREM Bounds == Spec => []StaysInBounds
  BY Invariance, PTL DEF IInv

\* At exit, everything acknowledged has been handed over, and so has the FYN.
THEOREM NothingAckedIsLost == Spec => []AckedIsDelivered
  <1>1. ASSUME IInv PROVE AckedIsDelivered
    <2> SUFFICES ASSUME m1pc = "closed"
                 PROVE  /\ Delivered(LastSeq)
                        /\ \A a \in m1m2 : Delivered(a.sequence_number)
      BY DEF AckedIsDelivered
    <2>1. ASSUME NEW s \in Sequence, Safe(s)
          PROVE  Delivered(s)
      <3>1. /\ s \in Int /\ 0 <= s
            /\ buff_received_head \in Int /\ 0 <= buff_received_head
            /\ toFtps \in Seq(OwnPackets)
        BY <1>1, LastSeqAssumption, CapacityAssumption DEF IInv, TypeOK, Sequence
      <3>2. CASE s < buff_received_head
        <4>1. s + 1 \in 1 .. buff_received_head
          BY <3>1, <3>2
        <4>2. toFtps[s + 1] = Packet(s)
          BY <1>1, <3>1, <4>1 DEF IInv, DeliveredInOrder
        <4>3. s + 1 \in DOMAIN toFtps
          BY <1>1, <3>1, <4>1 DEF IInv, DeliveredInOrder
        <4> QED BY <4>2, <4>3 DEF Delivered
      <3>3. CASE ~(s < buff_received_head)
        <4>1. s \in Slots /\ buff_received[s] = Packet(s)
          BY <2>1, <3>3 DEF Safe
        <4>2. s \in buff_received_head .. counter - 1
          BY <1>1, <3>1, <3>3, <4>1, CapacityAssumption
          DEF IInv, FlushInv, Stopping, Slots
        <4>3. ~IsFree(buff_received[s])
          BY <2>1, <4>1, PacketFacts
        <4> QED BY <1>1, <4>1, <4>2, <4>3 DEF IInv, FlushInv, Stopping, Delivered
      <3> QED BY <3>2, <3>3
    <2>2. Safe(LastSeq) /\ LastSeq \in Sequence
      <3>1. Stopping
        BY DEF Stopping
      <3>2. Safe(LastSeq)
        BY <1>1, <3>1, Zenon DEF IInv, FynInv
      <3> QED BY <3>2, LastSeqAssumption DEF Sequence
    <2>3. \A a \in m1m2 : a.sequence_number \in Sequence /\ Safe(a.sequence_number)
      BY <1>1 DEF IInv, TypeOK, AckedIsSafe
    <2> QED BY <2>1, <2>2, <2>3
  <1> QED BY <1>1, Invariance, PTL

-----------------------------------------------------------------------------
(***************************************************************************)
(* The refinement of OrderedDelivery.                                      *)
(***************************************************************************)
\* Handing over one more packet appends its number to the abstract output.
LEMMA NumbersOfAppend ==
  ASSUME NEW q \in Seq(OwnPackets), NEW x \in OwnPackets
  PROVE  /\ NumbersOf(Append(q, x)) = Append(NumbersOf(q), x.sequence_number)
         /\ Len(NumbersOf(q)) = Len(q)
         /\ DOMAIN NumbersOf(q) = DOMAIN q
         /\ \A i \in DOMAIN q : NumbersOf(q)[i] = q[i].sequence_number
  <1>1. \A y \in OwnPackets : y.sequence_number \in Int
    BY PacketFacts, LastSeqAssumption DEF OwnPackets, Sequence
  <1>2. DOMAIN q = 1 .. Len(q) /\ Len(q) \in Nat
    OBVIOUS
  <1>3. NumbersOf(q) \in Seq(Int) /\ Len(NumbersOf(q)) = Len(q)
    <2>1. \A i \in 1 .. Len(q) : q[i].sequence_number \in Int
      BY <1>1, <1>2
    <2> QED BY <1>2, <2>1 DEF NumbersOf
  <1>4. Append(q, x) \in Seq(OwnPackets) /\ Len(Append(q, x)) = Len(q) + 1
    OBVIOUS
  <1>5. DOMAIN NumbersOf(Append(q, x)) = 1 .. Len(q) + 1
    BY <1>2, <1>4 DEF NumbersOf
  <1>6. /\ Append(NumbersOf(q), x.sequence_number) \in Seq(Int)
        /\ Len(Append(NumbersOf(q), x.sequence_number)) = Len(q) + 1
    BY <1>1, <1>3
  <1>7. NumbersOf(Append(q, x)) \in Seq(Int) /\ Len(NumbersOf(Append(q, x))) = Len(q) + 1
    <2>1. \A i \in 1 .. Len(q) + 1 : Append(q, x)[i].sequence_number \in Int
      BY <1>1, <1>2, <1>4
    <2> QED BY <1>2, <1>4, <2>1 DEF NumbersOf
  <1>8. ASSUME NEW i \in 1 .. Len(q) + 1
        PROVE  NumbersOf(Append(q, x))[i] = Append(NumbersOf(q), x.sequence_number)[i]
    <2>1. NumbersOf(Append(q, x))[i] = Append(q, x)[i].sequence_number
      BY <1>5 DEF NumbersOf
    <2>2. CASE i = Len(q) + 1
      BY <1>2, <1>3, <2>1, <2>2
    <2>3. CASE i \in 1 .. Len(q)
      <3>1. Append(q, x)[i] = q[i]
        BY <2>3
      <3>2. Append(NumbersOf(q), x.sequence_number)[i] = NumbersOf(q)[i]
        BY <1>1, <1>3, <2>3
      <3>3. NumbersOf(q)[i] = q[i].sequence_number
        BY <1>2, <2>3 DEF NumbersOf
      <3> QED BY <2>1, <3>1, <3>2, <3>3
    <2>4. i = Len(q) + 1 \/ i \in 1 .. Len(q)
      BY <1>2
    <2> QED BY <2>2, <2>3, <2>4, Zenon
  <1>9. NumbersOf(Append(q, x)) = Append(NumbersOf(q), x.sequence_number)
    BY <1>6, <1>7, <1>8, SeqEqual
  <1> QED BY <1>3, <1>9 DEF NumbersOf

LEMMA InitRefines == Init => Delivery!Init
  <1> SUFFICES ASSUME Init PROVE NumbersOf(toFtps) = <<>> /\ Closing = FALSE
    BY DEF Delivery!Init
  <1>1. NumbersOf(<<>>) = <<>>
    BY DEF NumbersOf
  <1> QED BY <1>1 DEF Init, Closing

\* A step that hands nothing over and keeps the connection's phase stutters.
LEMMA StepRefines ==
  IInv /\ [Next]_vars => [Delivery!Next]_<<NumbersOf(toFtps), Closing>>
  <1> SUFFICES ASSUME IInv, [Next]_vars
               PROVE  [Delivery!Next]_<<NumbersOf(toFtps), Closing>>
    OBVIOUS
  <1>1. CASE UNCHANGED <<toFtps, m1pc>>
    BY <1>1 DEF Closing
  <1>2. CASE Environment
    BY <1>1, <1>2 DEF Environment, FtpsSendsPort, PeerSends, PeerSendsFinalAck, Lose, own
  <1>3. CASE ReceivePort
    BY <1>3 DEF ReceivePort, Closing
  <1>4. CASE Close
    BY <1>4 DEF Close, Closing
  <1>5. CASE FlushSlot
    <2>1. CASE IsFree(buff_received[counter])
      BY <1>1, <1>5, <2>1 DEF FlushSlot
    <2>2. CASE ~IsFree(buff_received[counter])
      <3>1. /\ m1pc = "flush" /\ m1pc' = "flush" /\ counter \in Slots
            /\ toFtps' = Append(toFtps, buff_received[counter])
            /\ toFtps \in Seq(OwnPackets)
        BY <1>5, <2>2, CapacityAssumption DEF FlushSlot, IInv, TypeOK, Slots
      <3>2. /\ buff_received[counter] \in OwnPackets
            /\ buff_received[counter].sequence_number = counter
            /\ counter \in Sequence
        BY <2>2, <3>1, PacketFacts, LastSeqAssumption
        DEF IInv, SlotsInv, Sequence
      <3>3. /\ NumbersOf(toFtps') = Append(NumbersOf(toFtps), counter)
            /\ \A i \in DOMAIN NumbersOf(toFtps) : NumbersOf(toFtps)[i] < counter
        BY <3>1, <3>2, NumbersOfAppend DEF IInv, FlushInv, Stopping
      <3>4. Closing = TRUE /\ Closing' = TRUE
        BY <3>1 DEF Closing
      <3>5. Delivery!Remainder(counter)
        BY <3>3, <3>4 DEF Delivery!Remainder
      <3> QED BY <3>2, <3>5 DEF Delivery!Next
    <2> QED BY <2>1, <2>2
  <1>6. ASSUME NEW p \in Arrivals(m2m1), Receive(p)
        PROVE  [Delivery!Next]_<<NumbersOf(toFtps), Closing>>
    <2>1. CASE ReceiveData(p)
      <3>1. m1pc = "listen" /\ m1pc' = "listen"
        BY <2>1 DEF ReceiveData, Takes
      <3>2. CASE toFtps' = toFtps
        BY <1>1, <3>1, <3>2
      <3>3. CASE toFtps' # toFtps
        <4> DEFINE s == p.sequence_number
                   b == Store(buff_received, Packet(s))
                   h == buff_received_head
        <4>1. /\ p \in OwnPackets /\ ~p.FYN /\ s \in Slots /\ h \in Slots
              /\ toFtps \in Seq(OwnPackets) /\ Len(toFtps) = h
          BY <2>1, <3>1, TakenPacket, CapacityAssumption
          DEF ReceiveData, IsData, InBounds, IInv, TypeOK, DeliveredInOrder, Slots
        <4>2. s \in Sequence /\ p = Packet(s)
          BY <4>1, PacketKinds
        <4>3. b[h] = Free \/ (h \in Sequence /\ b[h] = Packet(h))
          BY <3>1, <4>1, <4>2, StoreInLoop
        <4>4. ~IsFree(b[h]) /\ toFtps' = Append(toFtps, b[h])
          BY <2>1, <3>3, <4>2 DEF ReceiveData, Forward
        <4>5. toFtps' = Append(toFtps, Packet(h)) /\ h \in Sequence
          BY <4>3, <4>4, PacketFacts
        <4>6. NumbersOf(toFtps') = Append(NumbersOf(toFtps), Len(NumbersOf(toFtps)))
          BY <4>1, <4>5, PacketFacts, NumbersOfAppend
        <4>7. Closing = FALSE /\ Closing' = FALSE
          BY <3>1 DEF Closing
        <4>8. Delivery!InSequence
          BY <4>6, <4>7 DEF Delivery!InSequence
        <4> QED BY <4>8 DEF Delivery!Next
      <3> QED BY <3>2, <3>3
    <2>2. CASE ReceiveFYN(p) \/ Discard(p)
      BY <1>1, <2>2 DEF ReceiveFYN, Discard, own
    <2>3. CASE ReceiveFinalAck(p) \/ OverrunStore(p) \/ OverrunHead(p)
      <3>1. m1pc = "listen" /\ m1pc' \in {"flush", "overrun"} /\ toFtps' = toFtps
        BY <2>3, FinalAckFacts DEF ReceiveFinalAck, OverrunStore, OverrunHead, Takes
      <3>2. Closing = FALSE /\ Closing' = TRUE
        BY <3>1 DEF Closing
      <3>3. Delivery!Shutdown
        BY <3>1, <3>2 DEF Delivery!Shutdown
      <3> QED BY <3>3 DEF Delivery!Next
    <2> QED BY <1>6, <2>1, <2>2, <2>3 DEF Receive
  <1>7. CASE UNCHANGED vars
    BY <1>1, <1>7 DEF vars, own
  <1> QED BY <1>2, <1>3, <1>4, <1>5, <1>6, <1>7 DEF Next, Step

\* TCPD_M1 implements ordered delivery, whatever the length of the transfer,
\* the size of its buffer and the order of arrivals.
THEOREM Refinement == Spec => ImplementsDelivery
  BY InitRefines, StepRefines, Invariance, PTL
  DEF Spec, ImplementsDelivery, Delivery!Spec

=============================================================================
