----------------------- MODULE TCPD_M1_reception_proofs -----------------------
(***************************************************************************)
(* Proof that TCPD_M1 implements Receiver, the promise TCPD_M2 relies on,  *)
(* whenever the transfer leaves two slots of the buffer unused.            *)
(***************************************************************************)
EXTENDS TCPD_M1_proofs

\* The converse of FynInv: in the main loop, ack_FYN is TRUE as soon as the FYN
\* is at hand, so that every acknowledgement from then on says so.
FynExact == m1pc \in {"port", "listen"} /\ Safe(LastSeq) => ack_FYN

RInv == IInv /\ FynExact

-----------------------------------------------------------------------------
(***************************************************************************)
(* What each step does to the set of safe positions.                       *)
(***************************************************************************)
\* In the main loop, a slot holds the packet of its number or is free, so a
\* position is safe when it was handed over or its slot is taken.
LEMMA SafeInLoop ==
  ASSUME IInv, m1pc \in {"port", "listen"}, NEW t \in Slots
  PROVE  /\ buff_received[t] = Free \/ buff_received[t] = Packet(t)
         /\ t \in Sequence => Packet(t) # Free
  BY PacketFacts DEF IInv, SlotsInv, Stopping

\* Taking a data packet makes its position safe, and no other one: the slot
\* Forward frees is the position the head moves over.
LEMMA DataMakesSafe ==
  ASSUME IInv, NEW p, ReceiveData(p)
  PROVE  \A t \in Sequence : Safe(t)' <=> Safe(t) \/ t = p.sequence_number
  <1> DEFINE s == p.sequence_number
             b == Store(buff_received, Packet(s))
             h == buff_received_head
  <1>1. /\ p \in OwnPackets
        /\ ~p.FYN /\ s \in Slots /\ m1pc = "listen" /\ h < Capacity
    BY TakenPacket DEF ReceiveData, Takes, IsData, InBounds
  <1>2. s \in Sequence /\ p = Packet(s) /\ Packet(s) \in OwnPackets
    BY <1>1, PacketKinds
  <1>3. /\ b \in [Slots -> OwnPackets \union {Free}]
        /\ \A t \in Slots : b[t] = Free \/ (t \in Sequence /\ b[t] = Packet(t))
        /\ \A t \in Slots : buff_received[t] = Packet(t) /\ t \in Sequence
                              => b[t] = Packet(t)
        /\ b[s] = Packet(s)
    BY <1>1, <1>2, StoreInLoop
  <1>4. \A t \in Slots : t # s => b[t] = buff_received[t]
    BY <1>1, <1>2, StoreFacts, PacketFacts DEF IInv, TypeOK
  <1>5. Forward(b)
    BY <1>2 DEF ReceiveData
  <1>6. h \in Slots /\ h \in Nat /\ Sequence \subseteq Int
    BY <1>1, CapacityAssumption, LastSeqAssumption
    DEF IInv, TypeOK, Slots, Sequence
  <1>7. \A t \in Slots : t \in Sequence => Packet(t) # Free
    BY PacketFacts
  <1> HIDE DEF s, b
  <1>8. CASE /\ IsFree(b[h])
             /\ buff_received' = b
             /\ UNCHANGED <<buff_received_head, toFtps>>
    BY <1>1, <1>3, <1>4, <1>8 DEF Safe, s
  <1>9. CASE /\ ~IsFree(b[h])
             /\ toFtps' = Append(toFtps, b[h])
             /\ buff_received' = [b EXCEPT ![h] = Free]
             /\ buff_received_head' = h + 1
    <2>1. h \in Sequence /\ b[h] = Packet(h)
      BY <1>3, <1>6, <1>9, PacketFacts
    <2>2. /\ \A t \in Slots : t # h => buff_received'[t] = b[t]
          /\ buff_received'[h] = Free
      BY <1>3, <1>6, <1>9
    <2>3. Safe(h) \/ h = s
      BY <1>4, <1>6, <2>1 DEF Safe
    <2>4. ASSUME NEW t \in Sequence
          PROVE  Safe(t)' <=> Safe(t) \/ t = s
      <3>1. CASE t = h
        BY <1>6, <1>9, <2>3, <3>1 DEF Safe
      <3>2. CASE t # h
        <4>1. t < h + 1 <=> t < h
          BY <1>6, <3>2
        <4>2. t \in Slots => buff_received'[t] = b[t]
          BY <2>2, <3>2
        <4> QED BY <1>1, <1>3, <1>4, <1>9, <4>1, <4>2 DEF Safe
      <3> QED BY <3>1, <3>2
    <2> QED BY <2>4 DEF s
  <1> QED BY <1>5, <1>8, <1>9 DEF Forward, b

\* Taking the FYN makes its position safe, and no other one.
LEMMA FynMakesSafe ==
  ASSUME IInv, NEW p, ReceiveFYN(p)
  PROVE  /\ p = Packet(LastSeq)
         /\ \A t \in Sequence : Safe(t)' <=> Safe(t) \/ t = LastSeq
  <1>1. /\ p \in OwnPackets /\ p.FYN /\ p.sequence_number # 1
        /\ p.sequence_number \in Slots /\ m1pc = "listen"
    BY TakenPacket DEF ReceiveFYN, Takes, InBounds
  <1>2. p = Packet(LastSeq) /\ LastSeq \in Slots /\ LastSeq \in Sequence
    BY <1>1, PacketKinds, LastSeqAssumption DEF Sequence
  <1> DEFINE b == Store(buff_received, Packet(LastSeq))
  <1>3. /\ b[LastSeq] = Packet(LastSeq)
        /\ buff_received' = b /\ UNCHANGED buff_received_head
    BY <1>1, <1>2, StoreInLoop DEF ReceiveFYN
  <1>4. \A t \in Slots : t # LastSeq => b[t] = buff_received[t]
    BY <1>2, StoreFacts, PacketFacts DEF IInv, TypeOK
  <1> HIDE DEF b
  <1> QED BY <1>2, <1>3, <1>4 DEF Safe

\* The final acknowledgement may be stored in the slot of number 1: that slot
\* was free, so nothing becomes safe and nothing is lost.
LEMMA FinalAckKeepsSafe ==
  ASSUME IInv, NEW p, ReceiveFinalAck(p)
  PROVE  /\ p = FinalAck
         /\ \A t \in Sequence : Safe(t)' <=> Safe(t)
  <1>1. p \in OwnPackets /\ p.FYN /\ p.sequence_number = 1 /\ m1pc = "listen"
    BY TakenPacket DEF ReceiveFinalAck, Takes
  <1>2. p = FinalAck
    BY <1>1, PacketKinds
  <1>3. UNCHANGED buff_received_head
    BY DEF ReceiveFinalAck
  <1>4. ASSUME NEW t \in Sequence, t \in Slots
        PROVE  buff_received'[t] = Packet(t) <=> buff_received[t] = Packet(t)
    BY <1>4, FinalAckFacts, PacketFacts
  <1> QED BY <1>2, <1>3, <1>4 DEF Safe

-----------------------------------------------------------------------------
(***************************************************************************)
(* The invariant.                                                          *)
(***************************************************************************)
LEMMA InitRInv == Init => RInv
  <1> SUFFICES ASSUME Init PROVE FynExact
    BY InitIInv DEF RInv
  <1>1. LastSeq \in Sequence /\ ~(LastSeq < 0)
    BY LastSeqAssumption DEF Sequence
  <1>2. \A t \in Slots : buff_received[t] = Free
    BY DEF Init, init_recvbuff
  <1>3. ~Safe(LastSeq)
    BY <1>1, <1>2, PacketFacts DEF Init, Safe
  <1> QED BY <1>3 DEF FynExact

LEMMA NextRInv == RInv /\ [Next]_vars => RInv'
  <1> SUFFICES ASSUME RInv, [Next]_vars PROVE FynExact'
    BY NextIInv DEF RInv
  <1>1. LastSeq \in Sequence
    BY LastSeqAssumption DEF Sequence
  <1>2. CASE UNCHANGED <<buff_received, buff_received_head, ack_FYN>>
             /\ (m1pc' = m1pc \/ m1pc = "port")
    BY <1>2 DEF RInv, FynExact, Safe
  <1>3. CASE m1pc' \notin {"port", "listen"}
    BY <1>3 DEF FynExact
  <1>4. ASSUME NEW p, ReceiveData(p)
        PROVE  FynExact'
    <2>1. p.sequence_number # LastSeq /\ m1pc = "listen"
      BY <1>1, <1>4, TakenPacket, PacketKinds, PacketFacts
      DEF RInv, ReceiveData, Takes, IsData
    <2>2. Safe(LastSeq)' => Safe(LastSeq)
      BY <1>1, <1>4, <2>1, DataMakesSafe DEF RInv
    <2> QED BY <1>4, <2>1, <2>2 DEF RInv, FynExact, ReceiveData
  <1>5. ASSUME NEW p, ReceiveFYN(p)
        PROVE  FynExact'
    BY <1>5 DEF ReceiveFYN, FynExact
  <1>6. CASE Environment
    BY <1>2, <1>6
    DEF Environment, FtpsSendsPort, PeerSends, PeerSendsFinalAck, Lose, own
  <1>7. CASE ReceivePort
    BY <1>2, <1>7 DEF ReceivePort
  <1>8. CASE FlushSlot \/ Close
    BY <1>3, <1>8 DEF FlushSlot, Close
  <1>9. ASSUME NEW p, Discard(p)
        PROVE  FynExact'
    BY <1>2, <1>9 DEF Discard, own
  <1>10. ASSUME NEW p, ReceiveFinalAck(p) \/ OverrunStore(p) \/ OverrunHead(p)
         PROVE  FynExact'
    BY <1>3, <1>10 DEF ReceiveFinalAck, OverrunStore, OverrunHead
  <1>11. CASE UNCHANGED vars
    BY <1>2, <1>11 DEF vars, own
  <1> QED BY <1>4, <1>5, <1>6, <1>7, <1>8, <1>9, <1>10, <1>11
          DEF Next, Step, Receive

LEMMA ReceptionInvariance == Spec => []RInv
  BY InitRInv, NextRInv, PTL DEF Spec

-----------------------------------------------------------------------------
(***************************************************************************)
(* The refinement.                                                         *)
(***************************************************************************)
Received == {s \in Sequence : Safe(s)}

\* The two modules mean the same packets and the same troll.
LEMMA SamePackets ==
  /\ Reception!Sequence = Sequence
  /\ Reception!FinalAck = FinalAck
  /\ \A s : Reception!Packet(s) = Packet(s)
  /\ \A channel, q : Reception!After(channel, q) = After(channel, q)
  BY DEF Reception!Sequence, Sequence, Reception!FinalAck, FinalAck,
         Reception!Packet, Packet, Reception!After, After,
         Reception!Garbled, Garbled

\* A damaged packet uses up the copy in the channel it was made from.
LEMMA ArrivalSource ==
  ASSUME NEW channel, channel \subseteq OwnPackets, NEW p \in Arrivals(channel)
  PROVE  \E q \in channel : After(channel, p) = After(channel, q)
  <1>1. CASE p \in channel
    BY <1>1
  <1>2. ASSUME NEW q \in channel, p = Garbled(q)
        PROVE  After(channel, p) = After(channel, q)
    <2>1. q = Packet(q.sequence_number) \/ q = FinalAck
      BY PacketFacts DEF OwnPackets
    <2>2. Garbled(Garbled(q)) = Garbled(q)
      BY <2>1 DEF Garbled, Packet, FinalAck
    <2> QED BY <1>2, <2>2 DEF After
  <1> QED BY <1>1, <1>2 DEF Arrivals

LEMMA InitReceives == Init => Reception!Init
  <1> SUFFICES ASSUME Init PROVE Reception!Init
    OBVIOUS
  <1>1. ASSUME NEW s \in Sequence
        PROVE  ~Safe(s)
    BY PacketFacts, LastSeqAssumption DEF Init, init_recvbuff, Safe, Sequence
  <1> QED BY <1>1 DEF Init, Reception!Init

\* A data packet is accepted: the acknowledgement says FYN exactly when the
\* FYN is at hand.
LEMMA DataReceives ==
  ASSUME RInv, NEW p, ReceiveData(p)
  PROVE  Reception!Next
  <1> DEFINE s == p.sequence_number
  <1>1. /\ p \in OwnPackets /\ p \in m2m1 /\ ~p.FYN
        /\ m1pc = "listen" /\ m1pc' = "listen"
    BY TakenPacket DEF RInv, ReceiveData, Takes, IsData
  <1>2. s \in Sequence /\ p = Packet(s) /\ s # LastSeq /\ LastSeq \in Sequence
    BY <1>1, PacketKinds, PacketFacts, LastSeqAssumption DEF Sequence
  <1>3. Received' = Received \union {s}
    <2>1. \A t \in Sequence : Safe(t)' <=> Safe(t) \/ t = s
      BY DataMakesSafe DEF RInv
    <2> QED BY <1>2, <2>1 DEF Received
  <1>4. ack_FYN <=> LastSeq \in Received'
    BY <1>1, <1>2, <1>3 DEF RInv, IInv, FynInv, FynExact, Received
  <1>5. ack_FYN = (LastSeq \in Received')
    BY <1>4, Zenon DEF RInv, IInv, TypeOK
  <1>6. m1m2' = m1m2 \union {[sequence_number |-> s, FYN |-> LastSeq \in Received']}
    BY <1>5, Zenon DEF ReceiveData, SendAck
  <1>7. m2m1' = After(m2m1, Packet(s))
    BY <1>2 DEF ReceiveData, Takes
  <1>8. Reception!Accept(s)
    BY <1>1, <1>2, <1>3, <1>6, <1>7, SamePackets DEF Reception!Accept, Received
  <1> QED BY <1>2, <1>8, SamePackets DEF Reception!Next, Reception!Step

LEMMA FynReceives ==
  ASSUME RInv, NEW p, ReceiveFYN(p)
  PROVE  Reception!Next
  <1>1. /\ p \in m2m1 /\ p = Packet(LastSeq) /\ p.sequence_number = LastSeq
        /\ m1pc = "listen" /\ m1pc' = "listen" /\ LastSeq \in Sequence
    <2>1. p = Packet(LastSeq)
      BY FynMakesSafe DEF RInv
    <2>2. LastSeq \in Sequence
      BY LastSeqAssumption DEF Sequence
    <2>3. p \in m2m1
      BY TakenPacket DEF RInv, ReceiveFYN
    <2> QED BY <2>1, <2>2, <2>3, PacketFacts DEF ReceiveFYN, Takes
  <1>2. Received' = Received \union {LastSeq}
    <2>1. \A t \in Sequence : Safe(t)' <=> Safe(t) \/ t = LastSeq
      BY FynMakesSafe DEF RInv
    <2> QED BY <1>1, <2>1 DEF Received
  <1>3. TRUE = (LastSeq \in Received')
    BY <1>2
  <1>4. m1m2' = m1m2 \union
                  {[sequence_number |-> LastSeq, FYN |-> LastSeq \in Received']}
    BY <1>1, <1>3, Zenon DEF ReceiveFYN, SendAck
  <1>5. m2m1' = After(m2m1, Packet(LastSeq))
    BY <1>1 DEF ReceiveFYN, Takes
  <1>6. Reception!Accept(LastSeq)
    BY <1>1, <1>2, <1>4, <1>5, SamePackets DEF Reception!Accept, Received
  <1> QED BY <1>1, <1>6, SamePackets DEF Reception!Next, Reception!Step

LEMMA FinalAckReceives ==
  ASSUME RInv, NEW p, ReceiveFinalAck(p)
  PROVE  Reception!Next
  <1>1. /\ p \in m2m1 /\ p = FinalAck
        /\ m1pc = "listen" /\ m1pc' = "flush"
        /\ m2m1' = After(m2m1, FinalAck) /\ m1m2' = m1m2
    BY TakenPacket, FinalAckKeepsSafe DEF RInv, ReceiveFinalAck, Takes
  <1>2. Received' = Received
    <2>1. \A t \in Sequence : Safe(t)' <=> Safe(t)
      BY FinalAckKeepsSafe DEF RInv
    <2> QED BY <2>1 DEF Received
  <1>3. Reception!Stop
    BY <1>1, <1>2, SamePackets DEF Reception!Stop, Received
  <1> QED BY <1>3 DEF Reception!Next, Reception!Step

\* Every step of TCPD_M1 inside its buffer is a step of Receiver or a stutter.
LEMMA StepReceives ==
  ASSUME RInv, [Next]_vars, m1pc' # "overrun"
  PROVE  [Reception!Next]_<<Received, m1pc \in {"port", "listen"}, m2m1, m1m2>>
  <1>1. CASE UNCHANGED <<buff_received, buff_received_head, m2m1, m1m2>>
             /\ (m1pc' \in {"port", "listen"} <=> m1pc \in {"port", "listen"})
    <2>1. \A t : Safe(t)' <=> Safe(t)
      BY <1>1 DEF Safe
    <2>2. Received' = Received
      BY <2>1 DEF Received
    <2> QED BY <1>1, <2>2
  <1>2. ASSUME UNCHANGED own
        PROVE  Received' = Received /\ m1pc' = m1pc
    <2>1. \A t : Safe(t)' <=> Safe(t)
      BY <1>2 DEF Safe, own
    <2> QED BY <1>2, <2>1 DEF Received, own
  <1>3. CASE FtpsSendsPort
    BY <1>1, <1>3 DEF FtpsSendsPort, own
  <1>4. ASSUME NEW s \in Sequence, PeerSends(s)
        PROVE  Reception!Next
    <2>1. Reception!Send(s)
      BY <1>2, <1>4, SamePackets DEF PeerSends, Reception!Send, Received
    <2> QED BY <2>1, SamePackets DEF Reception!Next
  <1>5. CASE PeerSendsFinalAck
    <2>1. Reception!Finish
      BY <1>2, <1>5, SamePackets DEF PeerSendsFinalAck, Reception!Finish, Received
    <2> QED BY <2>1 DEF Reception!Next
  <1>6. CASE Lose
    <2>1. Reception!Lose
      BY <1>2, <1>6 DEF Lose, Reception!Lose, Received
    <2> QED BY <2>1 DEF Reception!Next
  <1>7. CASE ReceivePort
    BY <1>1, <1>7 DEF ReceivePort
  <1>8. CASE FlushSlot \/ Close
    BY <1>1, <1>8 DEF FlushSlot, Close
  <1>9. ASSUME NEW p, Discard(p)
        PROVE  Reception!Next
    <2>1. /\ m1pc = "listen" /\ p \in Arrivals(m2m1)
          /\ m2m1' = After(m2m1, p) /\ UNCHANGED own /\ UNCHANGED m1m2
      BY <1>9 DEF Discard, Takes
    <2>2. PICK q \in m2m1 : After(m2m1, p) = After(m2m1, q)
      BY <2>1, ArrivalSource DEF RInv, IInv, TypeOK
    <2>3. Reception!Ignore(q)
      BY <1>2, <2>1, <2>2, SamePackets DEF Reception!Ignore, Received
    <2> QED BY <2>3 DEF Reception!Next, Reception!Step
  <1>10. ASSUME NEW p, OverrunStore(p) \/ OverrunHead(p)
         PROVE  FALSE
    BY <1>10 DEF OverrunStore, OverrunHead
  <1>11. CASE UNCHANGED vars
    BY <1>1, <1>11 DEF vars, own
  <1> QED BY <1>3, <1>4, <1>5, <1>6, <1>7, <1>8, <1>9, <1>10, <1>11,
             DataReceives, FynReceives, FinalAckReceives
          DEF Next, Step, Environment, Receive

\* TCPD_M1 implements the receiver TCPD_M2 relies on, for every transfer that
\* leaves two slots of buff_received unused, however the troll loses, repeats
\* and reorders packets and acknowledgements.
THEOREM ReceiverRefinement ==
  ASSUME LastSeq + 1 < Capacity
  PROVE  Spec => ImplementsReceiver
  <1>1. ASSUME RInv, RInv', [Next]_vars
        PROVE  [Reception!Next]_<<Received, m1pc \in {"port", "listen"}, m2m1, m1m2>>
    <2>1. m1pc' # "overrun"
      BY <1>1 DEF RInv, IInv, StaysInBounds
    <2> QED BY <1>1, <2>1, StepReceives
  <1> QED BY <1>1, InitReceives, ReceptionInvariance, PTL
          DEF Spec, ImplementsReceiver, Reception!Spec, Received

=============================================================================
