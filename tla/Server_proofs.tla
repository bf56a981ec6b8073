----------------------------- MODULE Server_proofs -----------------------------
(***************************************************************************)
(* Proofs about the server host: TCPD_M1 keeps its promises when ftps is   *)
(* its partner, and ftps writes the file they imply.                       *)
(***************************************************************************)
EXTENDS Server, SequenceTheorems, TLAPS

Daemon == INSTANCE TCPD_M1_proofs

\* The host's constants are TCPD_M1's.
LEMMA Assumptions ==
  LastSeqAssumption /\ DuplicatesAssumption /\ CapacityAssumption /\ MaxAcceptedAssumption
  BY LastSeqAssumption, DuplicatesAssumption, CapacityAssumption, MaxAcceptedAssumption

(***************************************************************************)
(* The inductive invariant: TCPD_M1's, and how far ftps has come in what   *)
(* TCPD_M1 has sent.                                                       *)
(***************************************************************************)
Stopping == m1pc \in {"flush", "closed"}

\* Nothing is sent twice or out of order, the shutdown included.
Sorted ==
  \A i, j \in DOMAIN toFtps :
    i < j => toFtps[i].sequence_number < toFtps[j].sequence_number

\* Only the shutdown leaves gaps.
NoGaps == ~Stopping => Len(toFtps) = buff_received_head

Name == Daemon!Packet(1)

PortInv == spc = "port" => m1pc = "port" /\ ~portQueued /\ taken = 0

\* The file is opened, or fails to be, on the packet with its name, and nothing
\* is written before.
NameInv ==
  /\ fp = "unset" <=> \A i \in 1 .. taken : toFtps[i] # Name
  /\ fp \in {"unset", "null"} => file = <<>>

\* How ftps ends.
EndInv ==
  /\ fp = "closed" <=> spc = "closed"
  /\ spc = "closed" => taken > 0 /\ toFtps[taken] = Daemon!Packet(LastSeq)
  /\ spc = "crashed" =>
       \/ fp = "null"
       \/ fp = "unset" /\ taken > 0 /\ toFtps[taken].sequence_number >= 1

\* The file has the data that was taken, in the order it was sent, and without
\* gaps as long as nothing was sent by the shutdown.
FileInv ==
  /\ \A k \in DOMAIN file : \E i \in 1 .. taken : toFtps[i] = Daemon!Packet(file[k])
  /\ \A k, l \in DOMAIN file : k < l => file[k] < file[l]
  /\ fp \in {"open", "closed"} =>
       \A i \in 1 .. taken, s \in 2 .. LastSeq - 1 :
         toFtps[i] = Daemon!Packet(s) => \E k \in DOMAIN file : file[k] = s
  /\ ~Stopping =>
       /\ \A k \in DOMAIN file : file[k] = k + 1
       /\ fp = "open" => taken = Len(file) + 2

HostInv ==
  /\ FtpsTypeOK
  /\ PortInv
  /\ NameInv
  /\ EndInv
  /\ FileInv

IInv ==
  /\ Daemon!IInv
  /\ Sorted
  /\ NoGaps
  /\ HostInv

-----------------------------------------------------------------------------
(***************************************************************************)
(* TCPD_M1 in the server host takes TCPD_M1's steps.                       *)
(***************************************************************************)
LEMMA SameInit == M1!Init => Daemon!Init
  BY DEF M1!Init, Daemon!Init, M1!init_recvbuff, Daemon!init_recvbuff, M1!Free,
         Daemon!Free, M1!Slots, Daemon!Slots

LEMMA SameStep == M1!Step => Daemon!Step
  <1> USE DEF M1!Slots, Daemon!Slots, M1!Free, Daemon!Free, M1!IsFree, Daemon!IsFree,
              M1!Takes, Daemon!Takes, M1!IsData, Daemon!IsData, M1!InBounds,
              Daemon!InBounds, M1!SendAck, Daemon!SendAck, M1!Store, Daemon!Store,
              M1!own, Daemon!own, M1!Arrivals, Daemon!Arrivals, M1!Garbled,
              Daemon!Garbled, M1!After, Daemon!After
  <1>1. M1!ReceivePort => Daemon!ReceivePort
    BY DEF M1!ReceivePort, Daemon!ReceivePort
  <1>2. M1!FlushSlot => Daemon!FlushSlot
    BY DEF M1!FlushSlot, Daemon!FlushSlot
  <1>3. M1!Close => Daemon!Close
    BY DEF M1!Close, Daemon!Close
  <1>4. ASSUME NEW p, M1!Receive(p) PROVE Daemon!Receive(p)
    <2>1. M1!ReceiveData(p) => Daemon!ReceiveData(p)
      BY DEF M1!ReceiveData, Daemon!ReceiveData, M1!Forward, Daemon!Forward
    <2>2. M1!ReceiveFYN(p) => Daemon!ReceiveFYN(p)
      BY DEF M1!ReceiveFYN, Daemon!ReceiveFYN
    <2>3. M1!ReceiveFinalAck(p) => Daemon!ReceiveFinalAck(p)
      BY DEF M1!ReceiveFinalAck, Daemon!ReceiveFinalAck, M1!IsEmpty_recvbuff,
             Daemon!IsEmpty_recvbuff, M1!FlushFrom, Daemon!FlushFrom
    <2>4. M1!Discard(p) => Daemon!Discard(p)
      BY DEF M1!Discard, Daemon!Discard
    <2>5. M1!OverrunStore(p) => Daemon!OverrunStore(p)
      BY DEF M1!OverrunStore, Daemon!OverrunStore
    <2>6. M1!OverrunHead(p) => Daemon!OverrunHead(p)
      BY DEF M1!OverrunHead, Daemon!OverrunHead
    <2> QED BY <1>4, <2>1, <2>2, <2>3, <2>4, <2>5, <2>6, Zenon DEF M1!Receive, Daemon!Receive
  <1> QED BY <1>1, <1>2, <1>3, <1>4 DEF M1!Step, Daemon!Step

\* A step of the server host is one of TCPD_M1 or of its environment: ftps sends
\* its port while TCPD_M1 waits for it, and touches nothing else of TCPD_M1's.
LEMMA DaemonSteps ==
  ASSUME PortInv, [Next]_vars
  PROVE  [Daemon!Next]_Daemon!vars
  <1> USE DEF M1!own, Daemon!own
  <1>1. CASE M1Step
    BY <1>1, SameStep DEF M1Step, Daemon!Next
  <1>2. CASE FtpsStep
    <2>1. CASE Ftps!SendPort
      BY <1>2, <2>1 DEF PortInv, FtpsStep, Ftps!SendPort, m1Vars, Daemon!Next,
                        Daemon!Environment, Daemon!FtpsSendsPort
    <2>2. CASE ~Ftps!SendPort
      BY <1>2, <2>2 DEF FtpsStep, Ftps!Step, Ftps!CloseFile, Ftps!OpenFile, Ftps!WriteData,
                        Ftps!IgnoreSize, Ftps!UseUnsetFile, Ftps!Receive, m1Vars, Daemon!vars
    <2> QED BY <2>1, <2>2
  <1>3. CASE ClientSends
    <2>1. ASSUME NEW t \in Sequence, M1!PeerSends(t)
          PROVE  Daemon!Environment
      BY <2>1 DEF M1!PeerSends, Daemon!PeerSends, Daemon!Environment, Sequence,
                  Daemon!Sequence, M1!Packet, Daemon!Packet
    <2>2. M1!PeerSendsFinalAck => Daemon!Environment
      BY DEF M1!PeerSendsFinalAck, Daemon!PeerSendsFinalAck, Daemon!Environment,
             M1!FinalAck, Daemon!FinalAck
    <2> QED BY <1>3, <2>1, <2>2 DEF ClientSends, Daemon!Next
  <1>4. CASE UNCHANGED vars
    BY <1>4 DEF vars, m1Vars, Daemon!vars
  <1> QED BY <1>1, <1>2, <1>3, <1>4 DEF Next

-----------------------------------------------------------------------------
(***************************************************************************)
(* What TCPD_M1 sends.                                                     *)
(***************************************************************************)
\* A step of TCPD_M1 sends one packet at most; the main loop sends the next in
\* sequence, the shutdown one with a larger number than all before.
LEMMA OutputStep ==
  ASSUME Daemon!IInv, Daemon!IInv', NoGaps, [Daemon!Next]_Daemon!vars
  PROVE  /\ \/ toFtps' = toFtps
            \/ \E x \in Daemon!OwnPackets :
                 /\ toFtps' = Append(toFtps, x)
                 /\ Stopping => \A i \in DOMAIN toFtps :
                                  toFtps[i].sequence_number < x.sequence_number
         /\ NoGaps'
         /\ Stopping => Stopping'
         /\ Stopping' /\ ~Stopping => toFtps' = toFtps
  <1> USE DEF Daemon!own
  <1>1. CASE UNCHANGED <<m1pc, buff_received_head, toFtps>>
    BY <1>1 DEF NoGaps, Stopping
  <1>2. CASE Daemon!Environment \/ UNCHANGED Daemon!vars
    BY <1>1, <1>2 DEF Daemon!Environment, Daemon!FtpsSendsPort, Daemon!PeerSends,
                      Daemon!PeerSendsFinalAck, Daemon!Lose, Daemon!vars
  <1>3. CASE Daemon!ReceivePort \/ Daemon!Close
    BY <1>3 DEF Daemon!ReceivePort, Daemon!Close, NoGaps, Stopping
  <1>4. CASE Daemon!FlushSlot
    <2>1. /\ m1pc = "flush" /\ m1pc' = "flush" /\ counter \in Daemon!Slots
          /\ toFtps' = IF Daemon!IsFree(buff_received[counter]) THEN toFtps
                       ELSE Append(toFtps, buff_received[counter])
          /\ UNCHANGED buff_received_head
      BY <1>4, CapacityAssumption
      DEF Daemon!FlushSlot, Daemon!IInv, Daemon!TypeOK, Daemon!Slots
    <2>2. CASE Daemon!IsFree(buff_received[counter])
      BY <1>1, <2>1, <2>2
    <2>3. CASE ~Daemon!IsFree(buff_received[counter])
      <3>1. /\ buff_received[counter] \in Daemon!OwnPackets
            /\ buff_received[counter].sequence_number = counter
        <4>1. \/ buff_received[counter] = Daemon!Free
              \/ /\ counter \in Daemon!Sequence
                 /\ buff_received[counter] = Daemon!Packet(counter)
              \/ counter = 1 /\ buff_received[counter] = Daemon!FinalAck
          BY <2>1 DEF Daemon!IInv, Daemon!SlotsInv
        <4>2. buff_received[counter] # Daemon!Free
          BY <2>3, Daemon!PacketFacts, Assumptions
        <4> QED BY <4>1, <4>2, Daemon!PacketFacts, Assumptions
      <3>2. \A i \in DOMAIN toFtps : toFtps[i].sequence_number < counter
        BY <2>1 DEF Daemon!IInv, Daemon!FlushInv, Daemon!Stopping
      <3> QED BY <2>1, <2>3, <3>1, <3>2 DEF NoGaps, Stopping
    <2> QED BY <2>2, <2>3
  <1>5. ASSUME NEW p, Daemon!Receive(p)
        PROVE  /\ m1pc = "listen"
               /\ \/ toFtps' = toFtps /\ UNCHANGED buff_received_head
                  \/ /\ m1pc' = "listen"
                     /\ \E x : toFtps' = Append(toFtps, x)
    <2>1. CASE Daemon!ReceiveData(p)
      BY <2>1 DEF Daemon!ReceiveData, Daemon!Forward, Daemon!Takes
    <2>2. CASE Daemon!ReceiveFinalAck(p)
      <3>1. toFtps' = toFtps
        BY <2>2, Daemon!FinalAckFacts, Assumptions
      <3>2. m1pc = "listen" /\ UNCHANGED buff_received_head
        BY <2>2 DEF Daemon!ReceiveFinalAck, Daemon!Takes
      <3> QED BY <3>1, <3>2
    <2>3. CASE Daemon!ReceiveFYN(p) \/ Daemon!Discard(p) \/ Daemon!OverrunStore(p)
                 \/ Daemon!OverrunHead(p)
      BY <2>3 DEF Daemon!ReceiveFYN, Daemon!Discard, Daemon!OverrunStore,
                  Daemon!OverrunHead, Daemon!Takes
    <2> QED BY <1>5, <2>1, <2>2, <2>3 DEF Daemon!Receive
  <1>6. ASSUME NEW p, Daemon!Receive(p)
        PROVE  /\ \/ toFtps' = toFtps
                  \/ \E x \in Daemon!OwnPackets : toFtps' = Append(toFtps, x)
               /\ NoGaps' /\ ~Stopping
               /\ Stopping' => toFtps' = toFtps
    <2>1. toFtps \in Seq(Daemon!OwnPackets) /\ toFtps' \in Seq(Daemon!OwnPackets)
      BY DEF Daemon!IInv, Daemon!TypeOK
    <2>2. CASE toFtps' = toFtps /\ UNCHANGED buff_received_head
      BY <1>5, <1>6, <2>2 DEF NoGaps, Stopping
    <2>3. CASE m1pc' = "listen" /\ \E x : toFtps' = Append(toFtps, x)
      <3>1. PICK x : toFtps' = Append(toFtps, x)
        BY <2>3
      <3>2. x = toFtps'[Len(toFtps')] /\ Len(toFtps') \in DOMAIN toFtps'
        BY <2>1, <3>1
      <3>3. x \in Daemon!OwnPackets
        BY <2>1, <3>2
      <3>4. NoGaps'
        BY <2>3 DEF Daemon!IInv, Daemon!DeliveredInOrder, NoGaps
      <3> QED BY <1>5, <1>6, <2>3, <3>1, <3>3, <3>4 DEF Stopping
    <2> QED BY <1>5, <1>6, <2>2, <2>3
  <1> QED BY <1>2, <1>3, <1>4, <1>6 DEF Daemon!Next, Daemon!Step

\* What the main loop has sent is the start of the transfer.
LEMMA Prefix ==
  ASSUME Daemon!IInv, NoGaps, ~Stopping
  PROVE  \A i \in DOMAIN toFtps : toFtps[i] = Daemon!Packet(i - 1)
  BY DEF NoGaps, Daemon!IInv, Daemon!TypeOK, Daemon!DeliveredInOrder

\* Numbers increase from one packet to the next, in the main loop and after it.
LEMMA SortedStep ==
  ASSUME Daemon!IInv, Daemon!IInv', NoGaps, Sorted, [Daemon!Next]_Daemon!vars
  PROVE  Sorted'
  <1>1. toFtps \in Seq(Daemon!OwnPackets)
    BY DEF Daemon!IInv, Daemon!TypeOK
  <1>2. CASE toFtps' = toFtps
    BY <1>2 DEF Sorted
  <1>3. CASE Stopping /\ toFtps' # toFtps
    <2>1. PICK x \in Daemon!OwnPackets :
            /\ toFtps' = Append(toFtps, x)
            /\ \A i \in DOMAIN toFtps : toFtps[i].sequence_number < x.sequence_number
      BY <1>3, OutputStep
    <2>2. ASSUME NEW i \in DOMAIN toFtps', NEW j \in DOMAIN toFtps', i < j
          PROVE  toFtps'[i].sequence_number < toFtps'[j].sequence_number
      <3>1. i \in DOMAIN toFtps /\ toFtps'[i] = toFtps[i]
        BY <1>1, <2>1, <2>2
      <3>2. CASE j \in DOMAIN toFtps
        BY <1>1, <2>1, <2>2, <3>1, <3>2 DEF Sorted
      <3>3. CASE j \notin DOMAIN toFtps
        <4>1. toFtps'[j] = x
          BY <1>1, <2>1, <3>3
        <4> QED BY <2>1, <3>1, <4>1
      <3> QED BY <3>2, <3>3
    <2> QED BY <2>2 DEF Sorted
  <1>4. CASE ~Stopping /\ toFtps' # toFtps
    <2>1. NoGaps' /\ ~Stopping'
      BY <1>4, OutputStep
    <2>2. \A i \in DOMAIN toFtps' : toFtps'[i] = Daemon!Packet(i - 1)
      BY <2>1 DEF NoGaps, Daemon!IInv, Daemon!TypeOK, Daemon!DeliveredInOrder
    <2>3. \A i \in DOMAIN toFtps' : toFtps'[i].sequence_number = i - 1 /\ i \in Int
      <3>1. toFtps' \in Seq(Daemon!OwnPackets)
        BY DEF Daemon!IInv, Daemon!TypeOK
      <3> QED BY <2>2, <3>1 DEF Daemon!Packet
    <2> QED BY <2>3 DEF Sorted
  <1> QED BY <1>2, <1>3, <1>4

LEMMA NameFacts == Name.sequence_number = 1 /\ ~Name.FYN
  <1>1. 1 \in Daemon!Sequence /\ 1 # LastSeq
    BY LastSeqAssumption DEF Daemon!Sequence
  <1> QED BY <1>1, Daemon!PacketFacts, Assumptions DEF Name

\* The next datagram has a larger number than those taken before it.
LEMMA Datagram ==
  ASSUME Daemon!IInv, Sorted, taken \in 0 .. Len(toFtps), taken < Len(toFtps)
  PROVE  LET r == toFtps[taken + 1] IN
         /\ \A i \in 1 .. taken + 1 : i \in DOMAIN toFtps
         /\ r.sequence_number \in Int
         /\ ~r.FYN => /\ r.sequence_number \in 0 .. LastSeq - 1
                      /\ r = Daemon!Packet(r.sequence_number)
         /\ r.FYN => /\ r = Daemon!Packet(LastSeq) \/ r = Daemon!FinalAck
                     /\ r.sequence_number >= 1
         /\ \A i \in 1 .. taken :
              /\ toFtps[i].sequence_number < r.sequence_number
              /\ toFtps[i] = Name => 1 < r.sequence_number
  <1> DEFINE r == toFtps[taken + 1]
  <1>1. toFtps \in Seq(Daemon!OwnPackets) /\ taken + 1 \in DOMAIN toFtps
    BY DEF Daemon!IInv, Daemon!TypeOK
  <1>2. \A i \in 1 .. taken + 1 : i \in DOMAIN toFtps
    BY <1>1
  <1>3. r \in Daemon!OwnPackets
    BY <1>1
  <1>4. /\ ~r.FYN => /\ r.sequence_number \in Daemon!Sequence
                     /\ r = Daemon!Packet(r.sequence_number)
        /\ r.FYN => r = Daemon!Packet(LastSeq) \/ r = Daemon!FinalAck
    BY <1>3, Assumptions, Daemon!PacketKinds
  <1> HIDE DEF r
  <1>5. ASSUME NEW i \in 1 .. taken
        PROVE  toFtps[i].sequence_number < r.sequence_number
    BY <1>1, <1>2 DEF Sorted, r
  <1>6. Name.sequence_number = 1
    BY DEF Name, Daemon!Packet
  <1>7. CASE r.FYN
    <2>1. r.sequence_number = LastSeq \/ r.sequence_number = 1
      BY <1>4, <1>7 DEF Daemon!Packet, Daemon!FinalAck
    <2> QED BY <1>2, <1>4, <1>5, <1>6, <1>7, <2>1, LastSeqAssumption DEF r
  <1>8. CASE ~r.FYN
    <2>1. r.sequence_number \in Daemon!Sequence /\ r.sequence_number # LastSeq
      BY <1>4, <1>8, Daemon!PacketFacts, Assumptions
    <2> QED BY <1>2, <1>4, <1>5, <1>6, <1>8, <2>1, LastSeqAssumption DEF r, Daemon!Sequence
  <1> QED BY <1>7, <1>8

-----------------------------------------------------------------------------
(***************************************************************************)
(* Every step keeps the invariant.                                         *)
(***************************************************************************)
LEMMA InitIInv == Init => IInv
  <1> SUFFICES ASSUME Init PROVE IInv
    OBVIOUS
  <1>1. Daemon!IInv
    BY Assumptions, SameInit, Daemon!InitIInv DEF Init
  <1>2. /\ toFtps = <<>> /\ buff_received_head = 0 /\ m1pc = "port" /\ portQueued = FALSE
        /\ spc = "port" /\ fp = "unset" /\ file = <<>> /\ taken = 0
    BY DEF Init, M1!Init, Ftps!Init
  <1>3. Sorted /\ NoGaps /\ PortInv /\ NameInv /\ EndInv
    BY <1>2 DEF Sorted, NoGaps, PortInv, NameInv, EndInv
  <1>4. FtpsTypeOK
    BY <1>2 DEF FtpsTypeOK
  <1>5. FileInv
    BY <1>2 DEF FileInv
  <1> QED BY <1>1, <1>3, <1>4, <1>5 DEF IInv, HostInv

\* TCPD_M1 and the client leave ftps alone, and what ftps has taken.
LEMMA OthersStep ==
  ASSUME IInv, Daemon!IInv', M1Step \/ ClientSends
  PROVE  HostInv'
  <1>1. UNCHANGED ftpsVars
    BY DEF M1Step, ClientSends
  <1>2. [Daemon!Next]_Daemon!vars
    BY DaemonSteps DEF IInv, HostInv, Next
  <1>3. /\ toFtps \in Seq(Daemon!OwnPackets) /\ toFtps' \in Seq(Daemon!OwnPackets)
        /\ taken \in 0 .. Len(toFtps)
    BY DEF IInv, Daemon!IInv, Daemon!TypeOK, HostInv, FtpsTypeOK
  <1>4. toFtps' = toFtps \/ \E x \in Daemon!OwnPackets : toFtps' = Append(toFtps, x)
    BY <1>2, OutputStep DEF IInv
  <1>5. /\ Len(toFtps) <= Len(toFtps')
        /\ \A i \in 1 .. taken : toFtps'[i] = toFtps[i]
    BY <1>3, <1>4
  <1>6. Stopping => Stopping'
    BY <1>2, OutputStep DEF IInv
  <1>7. FtpsTypeOK'
    BY <1>1, <1>3, <1>5 DEF IInv, HostInv, FtpsTypeOK, ftpsVars
  <1>8. PortInv'
    <2>1. CASE M1Step
      <3>1. Daemon!Step
        BY <2>1, SameStep DEF M1Step
      <3>2. m1pc = "port" /\ ~portQueued => FALSE
        BY <3>1 DEF Daemon!Step, Daemon!ReceivePort, Daemon!FlushSlot, Daemon!Close,
                    Daemon!Receive, Daemon!ReceiveData, Daemon!ReceiveFYN,
                    Daemon!ReceiveFinalAck, Daemon!Discard, Daemon!OverrunStore,
                    Daemon!OverrunHead, Daemon!Takes
      <3> QED BY <1>1, <3>2 DEF IInv, HostInv, PortInv, ftpsVars
    <2>2. CASE ClientSends
      <3>1. UNCHANGED <<m1pc, portQueued>>
        BY <2>2 DEF ClientSends, M1!PeerSends, M1!PeerSendsFinalAck, M1!own
      <3> QED BY <1>1, <3>1 DEF IInv, HostInv, PortInv, ftpsVars
    <2> QED BY <2>1, <2>2
  <1>9. NameInv'
    BY <1>1, <1>5 DEF IInv, HostInv, NameInv, ftpsVars
  <1>10. EndInv'
    BY <1>1, <1>3, <1>5 DEF IInv, HostInv, EndInv, ftpsVars
  <1>11. FileInv'
    BY <1>1, <1>5, <1>6 DEF IInv, HostInv, FileInv, ftpsVars
  <1> QED BY <1>7, <1>8, <1>9, <1>10, <1>11 DEF HostInv

LEMMA SendPortStep == IInv /\ FtpsStep /\ Ftps!SendPort => HostInv'
  <1> SUFFICES ASSUME IInv, FtpsStep, Ftps!SendPort PROVE HostInv'
    OBVIOUS
  <1>1. /\ spc = "port" /\ spc' = "receive"
        /\ UNCHANGED <<fp, file, taken, toFtps, m1pc>>
    BY DEF FtpsStep, Ftps!SendPort, m1Vars
  <1> QED BY <1>1 DEF IInv, HostInv, FtpsTypeOK, PortInv, NameInv, EndInv, FileInv, Stopping

\* What ftps's receiving steps have in common.
LEMMA ReceiveFacts ==
  ASSUME IInv, FtpsStep, Ftps!Receive
  PROVE  /\ spc = "receive" /\ fp # "closed"
         /\ taken \in Int /\ taken \in 0 .. Len(toFtps) /\ taken < Len(toFtps)
         /\ taken' = taken + 1 /\ taken' \in 0 .. Len(toFtps')
         /\ UNCHANGED <<toFtps, m1pc>>
         /\ Daemon!IInv /\ Sorted
         /\ ~Stopping => toFtps[taken + 1] = Daemon!Packet(taken)
  <1>1. /\ spc = "receive" /\ taken < Len(toFtps) /\ taken' = taken + 1
        /\ UNCHANGED <<toFtps, m1pc>>
    BY DEF FtpsStep, Ftps!Receive, m1Vars
  <1>2. /\ fp # "closed" /\ taken \in 0 .. Len(toFtps)
        /\ toFtps \in Seq(Daemon!OwnPackets)
    BY <1>1 DEF IInv, HostInv, FtpsTypeOK, EndInv, Daemon!IInv, Daemon!TypeOK
  <1>3. ASSUME ~Stopping PROVE toFtps[taken + 1] = Daemon!Packet(taken)
    <2>1. taken + 1 \in DOMAIN toFtps
      BY <1>1, <1>2
    <2>2. toFtps[taken + 1] = Daemon!Packet((taken + 1) - 1)
      BY <1>3, <2>1, Prefix DEF IInv
    <2>3. (taken + 1) - 1 = taken
      BY <1>2
    <2> QED BY <2>2, <2>3
  <1> QED BY <1>1, <1>2, <1>3 DEF IInv

\* The FYN closes the file: it is not the final acknowledgement, whose number is
\* that of the file's name, taken before.
LEMMA CloseFileStep == IInv /\ FtpsStep /\ Ftps!CloseFile => HostInv'
  <1> SUFFICES ASSUME IInv, FtpsStep, Ftps!CloseFile PROVE HostInv'
    OBVIOUS
  <1> DEFINE r == toFtps[taken + 1]
  <1>1. /\ r.FYN /\ fp = "open" /\ fp' = "closed" /\ spc' = "closed" /\ file' = file
        /\ Ftps!Receive
    BY DEF Ftps!CloseFile, Ftps!Received
  <1>2. /\ taken \in Int /\ taken \in 0 .. Len(toFtps) /\ taken < Len(toFtps)
        /\ taken' = taken + 1 /\ taken' \in 0 .. Len(toFtps')
        /\ UNCHANGED <<toFtps, m1pc>> /\ Daemon!IInv /\ Sorted
    BY <1>1, ReceiveFacts
  <1>3. /\ r = Daemon!Packet(LastSeq) \/ r = Daemon!FinalAck
        /\ \A i \in 1 .. taken : toFtps[i] = Name => 1 < r.sequence_number
    BY <1>1, <1>2, Datagram
  <1>4. \E i \in 1 .. taken : toFtps[i] = Name
    BY <1>1 DEF IInv, HostInv, NameInv
  <1>5. r = Daemon!Packet(LastSeq)
    BY <1>3, <1>4 DEF Daemon!FinalAck
  <1> HIDE DEF r
  <1>6. FtpsTypeOK' /\ PortInv' /\ NameInv' /\ EndInv'
    BY <1>1, <1>2, <1>4, <1>5 DEF IInv, HostInv, FtpsTypeOK, PortInv, NameInv, EndInv, r
  <1>7. FileInv'
    <2>1. ASSUME NEW i \in 1 .. taken', NEW s \in 2 .. LastSeq - 1,
                 toFtps[i] = Daemon!Packet(s)
          PROVE  \E k \in DOMAIN file : file[k] = s
      <3>1. i # taken + 1
        BY <1>5, <2>1, LastSeqAssumption DEF r, Daemon!Packet
      <3> QED BY <1>1, <1>2, <2>1, <3>1 DEF IInv, HostInv, FileInv
    <2> QED BY <1>1, <1>2, <2>1 DEF IInv, HostInv, FileInv, Stopping
  <1> QED BY <1>6, <1>7 DEF HostInv

\* The name opens the file.  It comes once, after the size only, so that nothing
\* was written before.
LEMMA OpenFileStep == IInv /\ FtpsStep /\ Ftps!OpenFile => HostInv'
  <1> SUFFICES ASSUME IInv, FtpsStep, Ftps!OpenFile PROVE HostInv'
    OBVIOUS
  <1> DEFINE r == toFtps[taken + 1]
  <1>1. /\ r.sequence_number = 1 /\ ~r.FYN /\ spc' = spc
        /\ \/ fp' = "open" /\ file' = <<>>
           \/ fp' = "null" /\ file' = file
        /\ Ftps!Receive
    BY DEF Ftps!OpenFile, Ftps!Received
  <1>2. /\ spc = "receive" /\ fp # "closed"
        /\ taken \in Int /\ taken \in 0 .. Len(toFtps) /\ taken < Len(toFtps)
        /\ taken' = taken + 1 /\ taken' \in 0 .. Len(toFtps')
        /\ UNCHANGED <<toFtps, m1pc>> /\ Daemon!IInv /\ Sorted
        /\ ~Stopping => r = Daemon!Packet(taken)
    BY <1>1, ReceiveFacts
  <1>3. /\ r = Name
        /\ \A i \in 1 .. taken : /\ toFtps[i].sequence_number < 1
                                 /\ toFtps[i] # Name
    BY <1>1, <1>2, Datagram DEF Name
  <1> HIDE DEF r
  <1>4. file' = <<>>
    BY <1>1, <1>3 DEF IInv, HostInv, NameInv
  <1>5. FtpsTypeOK' /\ PortInv' /\ EndInv'
    BY <1>1, <1>2, <1>4 DEF IInv, HostInv, FtpsTypeOK, PortInv, EndInv
  <1>6. NameInv'
    BY <1>1, <1>2, <1>3, <1>4 DEF NameInv, r
  <1>7. FileInv'
    <2>1. ASSUME NEW i \in 1 .. taken', NEW s \in 2 .. LastSeq - 1,
                 toFtps[i] = Daemon!Packet(s)
          PROVE  FALSE
      <3>1. toFtps[i].sequence_number = s
        BY <2>1 DEF Daemon!Packet
      <3>2. CASE i = taken + 1
        BY <1>1, <3>1, <3>2 DEF r
      <3>3. CASE i \in 1 .. taken
        BY <1>3, <3>1, <3>3
      <3> QED BY <1>2, <3>2, <3>3
    <2>2. ~Stopping => taken' = 2
      BY <1>1, <1>2 DEF Daemon!Packet
    <2> QED BY <1>2, <1>4, <2>1, <2>2 DEF FileInv, Stopping
  <1> QED BY <1>5, <1>6, <1>7 DEF HostInv

\* Data goes behind the data before it.
LEMMA WriteDataStep == IInv /\ FtpsStep /\ Ftps!WriteData => HostInv'
  <1> SUFFICES ASSUME IInv, FtpsStep, Ftps!WriteData PROVE HostInv'
    OBVIOUS
  <1> DEFINE r == toFtps[taken + 1]
             s == r.sequence_number
  <1>1. /\ s > 1 /\ ~r.FYN /\ fp = "open"
        /\ file' = Append(file, s) /\ UNCHANGED <<spc, fp>>
        /\ Ftps!Receive
    BY DEF Ftps!WriteData, Ftps!Received, Ftps!Carries
  <1>2. /\ spc = "receive"
        /\ taken \in Int /\ taken \in 0 .. Len(toFtps) /\ taken < Len(toFtps)
        /\ taken' = taken + 1 /\ taken' \in 0 .. Len(toFtps')
        /\ UNCHANGED <<toFtps, m1pc>> /\ Daemon!IInv /\ Sorted
        /\ ~Stopping => r = Daemon!Packet(taken)
    BY <1>1, ReceiveFacts
  <1>3. /\ s \in 0 .. LastSeq - 1
        /\ r = Daemon!Packet(s)
        /\ \A i \in 1 .. taken : toFtps[i].sequence_number < s
    BY <1>1, <1>2, Datagram
  <1>4. s \in 2 .. LastSeq - 1
    BY <1>1, <1>3, LastSeqAssumption
  <1>5. s \in Int /\ (~Stopping => s = taken)
    BY <1>2, <1>3 DEF Daemon!Packet
  <1> HIDE DEF r, s
  <1>6. file \in Seq(2 .. LastSeq - 1)
    BY DEF IInv, HostInv, FtpsTypeOK
  <1>7. /\ file' \in Seq(2 .. LastSeq - 1)
        /\ Len(file') = Len(file) + 1
        /\ DOMAIN file' = DOMAIN file \union {Len(file) + 1}
        /\ DOMAIN file = 1 .. Len(file) /\ Len(file) \in Nat
        /\ \A k \in DOMAIN file : file'[k] = file[k]
        /\ file'[Len(file) + 1] = s
    BY <1>1, <1>4, <1>6
  <1>8. FtpsTypeOK' /\ PortInv' /\ EndInv'
    BY <1>1, <1>2, <1>7 DEF IInv, HostInv, FtpsTypeOK, PortInv, EndInv
  <1>9. NameInv'
    BY <1>1, <1>2 DEF IInv, HostInv, NameInv
  <1>10. FileInv'
    <2>1. ASSUME NEW k \in DOMAIN file'
          PROVE  \E i \in 1 .. taken' : toFtps[i] = Daemon!Packet(file'[k])
      <3>1. CASE k = Len(file) + 1
        BY <1>2, <1>3, <1>7, <3>1 DEF r
      <3>2. CASE k \in DOMAIN file
        BY <1>2, <1>7, <3>2 DEF IInv, HostInv, FileInv
      <3> QED BY <1>7, <3>1, <3>2
    <2>2. ASSUME NEW k \in DOMAIN file', NEW l \in DOMAIN file', k < l
          PROVE  file'[k] < file'[l]
      <3>1. k \in DOMAIN file
        BY <1>7, <2>2
      <3>2. CASE l \in DOMAIN file
        BY <1>7, <2>2, <3>1, <3>2 DEF IInv, HostInv, FileInv
      <3>3. CASE l = Len(file) + 1
        <4>1. PICK i \in 1 .. taken : toFtps[i] = Daemon!Packet(file[k])
          BY <3>1 DEF IInv, HostInv, FileInv
        <4>2. file[k] < s
          BY <1>3, <4>1 DEF Daemon!Packet
        <4> QED BY <1>7, <3>1, <3>3, <4>2
      <3> QED BY <1>7, <3>2, <3>3
    <2>3. ASSUME NEW i \in 1 .. taken', NEW t \in 2 .. LastSeq - 1,
                 toFtps[i] = Daemon!Packet(t)
          PROVE  \E k \in DOMAIN file' : file'[k] = t
      <3>1. CASE i = taken + 1
        <4>1. t = s
          BY <2>3, <3>1 DEF r, s, Daemon!Packet
        <4> QED BY <1>7, <4>1
      <3>2. CASE i \in 1 .. taken
        <4>1. \E k \in DOMAIN file : file[k] = t
          BY <1>1, <2>3, <3>2 DEF IInv, HostInv, FileInv
        <4> QED BY <1>7, <4>1
      <3> QED BY <1>2, <3>1, <3>2
    <2>4. ASSUME ~Stopping
          PROVE  /\ \A k \in DOMAIN file' : file'[k] = k + 1
                 /\ taken' = Len(file') + 2
      <3>1. taken = Len(file) + 2 /\ \A k \in DOMAIN file : file[k] = k + 1
        BY <1>1, <2>4 DEF IInv, HostInv, FileInv
      <3> QED BY <1>2, <1>5, <1>7, <2>4, <3>1
    <2> QED BY <1>2, <2>1, <2>2, <2>3, <2>4 DEF FileInv, Stopping
  <1> QED BY <1>8, <1>9, <1>10 DEF HostInv

\* The size comes before the name, so before the file is open.
LEMMA IgnoreSizeStep == IInv /\ FtpsStep /\ Ftps!IgnoreSize => HostInv'
  <1> SUFFICES ASSUME IInv, FtpsStep, Ftps!IgnoreSize PROVE HostInv'
    OBVIOUS
  <1> DEFINE r == toFtps[taken + 1]
  <1>1. /\ r.sequence_number <= 0 /\ UNCHANGED <<spc, fp, file>>
        /\ Ftps!Receive
    BY DEF Ftps!IgnoreSize, Ftps!Received
  <1>2. /\ spc = "receive" /\ fp # "closed"
        /\ taken \in Int /\ taken \in 0 .. Len(toFtps) /\ taken < Len(toFtps)
        /\ taken' = taken + 1 /\ taken' \in 0 .. Len(toFtps')
        /\ UNCHANGED <<toFtps, m1pc>> /\ Daemon!IInv /\ Sorted
    BY <1>1, ReceiveFacts
  <1>3. /\ r.sequence_number \in Int
        /\ \A i \in 1 .. taken : toFtps[i] = Name => 1 < r.sequence_number
    BY <1>2, Datagram
  <1>4. r # Name /\ \A i \in 1 .. taken : toFtps[i] # Name
    BY <1>1, <1>3, NameFacts
  <1> HIDE DEF r
  <1>5. fp = "unset"
    BY <1>4 DEF IInv, HostInv, NameInv
  <1>6. FtpsTypeOK' /\ PortInv' /\ EndInv'
    BY <1>1, <1>2 DEF IInv, HostInv, FtpsTypeOK, PortInv, EndInv
  <1>7. NameInv'
    BY <1>1, <1>2, <1>4, <1>5 DEF IInv, HostInv, NameInv, r
  <1>8. FileInv'
    BY <1>1, <1>2, <1>5 DEF IInv, HostInv, FileInv, Stopping
  <1> QED BY <1>6, <1>7, <1>8 DEF HostInv

\* The FYN, or data, and no file.
LEMMA UseUnsetFileStep == IInv /\ FtpsStep /\ Ftps!UseUnsetFile => HostInv'
  <1> SUFFICES ASSUME IInv, FtpsStep, Ftps!UseUnsetFile PROVE HostInv'
    OBVIOUS
  <1> DEFINE r == toFtps[taken + 1]
  <1>1. /\ r.FYN \/ (r.sequence_number > 1 /\ ~r.FYN)
        /\ fp # "open" /\ spc' = "crashed" /\ UNCHANGED <<fp, file>>
        /\ Ftps!Receive
    BY DEF Ftps!UseUnsetFile, Ftps!Received, Ftps!Carries
  <1>2. /\ fp # "closed"
        /\ taken \in Int /\ taken \in 0 .. Len(toFtps) /\ taken < Len(toFtps)
        /\ taken' = taken + 1 /\ taken' \in 0 .. Len(toFtps')
        /\ UNCHANGED <<toFtps, m1pc>> /\ Daemon!IInv /\ Sorted
    BY <1>1, ReceiveFacts
  <1>3. /\ r.sequence_number \in Int
        /\ r.FYN => r.sequence_number >= 1
    BY <1>2, Datagram
  <1>4. r.sequence_number >= 1 /\ r # Name
    BY <1>1, <1>3, NameFacts
  <1> HIDE DEF r
  <1>5. fp \in {"unset", "null"} /\ file = <<>>
    BY <1>1, <1>2 DEF IInv, HostInv, FtpsTypeOK, NameInv
  <1>6. FtpsTypeOK' /\ PortInv' /\ EndInv'
    BY <1>1, <1>2, <1>4, <1>5 DEF IInv, HostInv, FtpsTypeOK, PortInv, EndInv, r
  <1>7. NameInv'
    BY <1>1, <1>2, <1>4, <1>5 DEF IInv, HostInv, NameInv, r
  <1>8. FileInv'
    BY <1>1, <1>2, <1>5 DEF IInv, HostInv, FileInv, Stopping
  <1> QED BY <1>6, <1>7, <1>8 DEF HostInv

\* Every step of the server host keeps the invariant.
LEMMA NextIInv == IInv /\ [Next]_vars => IInv'
  <1> SUFFICES ASSUME IInv, [Next]_vars PROVE IInv'
    OBVIOUS
  <1>1. [Daemon!Next]_Daemon!vars
    BY DaemonSteps DEF IInv, HostInv
  <1>2. Daemon!IInv'
    BY <1>1, Assumptions, Daemon!NextIInv DEF IInv
  <1>3. NoGaps' /\ Sorted'
    BY <1>1, <1>2, OutputStep, SortedStep DEF IInv
  <1>4. HostInv'
    <2>1. CASE FtpsStep
      BY <2>1, SendPortStep, CloseFileStep, OpenFileStep, WriteDataStep, IgnoreSizeStep,
         UseUnsetFileStep DEF FtpsStep, Ftps!Step
    <2>2. CASE UNCHANGED vars
      BY <2>2 DEF vars, m1Vars, ftpsVars, IInv, HostInv, FtpsTypeOK, PortInv, NameInv,
                  EndInv, FileInv, Stopping
    <2> QED BY <1>2, <2>1, <2>2, OthersStep DEF Next
  <1> QED BY <1>2, <1>3, <1>4 DEF IInv

LEMMA Invariance == Spec => []IInv
  BY InitIInv, NextIInv, PTL DEF Spec

-----------------------------------------------------------------------------
(***************************************************************************)
(* The theorems.                                                           *)
(***************************************************************************)
\* The server host runs TCPD_M1 as its own module does: whatever is proved of
\* TCPD_M1 there holds with ftps as its partner.
THEOREM HostRunsDaemon == Spec => Daemon!Spec
  <1>1. Init => Daemon!Init
    BY SameInit DEF Init
  <1>2. IInv /\ [Next]_vars => [Daemon!Next]_Daemon!vars
    BY DaemonSteps DEF IInv, HostInv
  <1> QED BY <1>1, <1>2, Invariance, PTL DEF Spec, Daemon!Spec

\* Every variable of the host keeps to its type: TCPD_M1's, the sockets' and ftps's.
THEOREM TypeCorrect == Spec => []TypeOK
  <1>1. Daemon!TypeOK => M1!TypeOK
    BY DEF M1!TypeOK, Daemon!TypeOK, M1!Slots, Daemon!Slots, M1!Free, Daemon!Free,
           M1!OwnPackets, Daemon!OwnPackets, M1!Packet, Daemon!Packet,
           M1!FinalAck, Daemon!FinalAck, M1!Sequence, Daemon!Sequence
  <1>2. IInv => TypeOK
    BY <1>1 DEF IInv, Daemon!IInv, HostInv, TypeOK
  <1> QED BY <1>2, Invariance, PTL

\* The file never has bytes out of place, and no gap before the shutdown.
THEOREM FileOrder == Spec => []FileInOrder
  <1>1. IInv => FileInOrder
    BY DEF IInv, HostInv, FileInv, FileInOrder, Stopping
  <1> QED BY <1>1, Invariance, PTL

\* What TCPD_M1 has is sent before anything with a larger number is.
LEMMA SentBefore ==
  ASSUME IInv, NEW s \in Daemon!Sequence, Daemon!Safe(s),
         NEW j \in DOMAIN toFtps, s <= toFtps[j].sequence_number
  PROVE  \E i \in 1 .. j : toFtps[i] = Daemon!Packet(s)
  <1>1. /\ toFtps \in Seq(Daemon!OwnPackets) /\ s \in Nat
        /\ buff_received_head \in Nat /\ counter \in Nat
    BY CapacityAssumption, LastSeqAssumption
    DEF IInv, Daemon!IInv, Daemon!TypeOK, Daemon!Sequence
  <1>2. toFtps[j].sequence_number \in Int
    <2>1. \A p \in Daemon!OwnPackets : p.sequence_number \in Int
      BY LastSeqAssumption DEF Daemon!OwnPackets, Daemon!Packet, Daemon!FinalAck, Daemon!Sequence
    <2> QED BY <1>1, <2>1
  <1>3. ASSUME NEW i \in DOMAIN toFtps, toFtps[i] = Daemon!Packet(s)
        PROVE  \E k \in 1 .. j : toFtps[k] = Daemon!Packet(s)
    <2>1. toFtps[i].sequence_number = s
      BY <1>3 DEF Daemon!Packet
    <2>2. ~(j < i)
      BY <1>1, <1>2, <2>1 DEF IInv, Sorted
    <2> QED BY <1>1, <1>3, <2>2
  <1>4. CASE s < buff_received_head
    <2>1. s + 1 \in DOMAIN toFtps /\ toFtps[s + 1] = Daemon!Packet((s + 1) - 1)
      BY <1>1, <1>4 DEF IInv, Daemon!IInv, Daemon!DeliveredInOrder
    <2>2. (s + 1) - 1 = s
      BY <1>1
    <2> QED BY <1>3, <2>1, <2>2
  <1>5. CASE ~(s < buff_received_head)
    <2>1. s \in Daemon!Slots /\ buff_received[s] = Daemon!Packet(s)
      BY <1>5 DEF Daemon!Safe
    <2>2. Stopping
      <3> SUFFICES ASSUME ~Stopping PROVE FALSE
        OBVIOUS
      <3>1. toFtps[j].sequence_number = j - 1 /\ Len(toFtps) = buff_received_head
        BY Prefix DEF IInv, NoGaps, Daemon!Packet
      <3> QED BY <1>1, <1>5, <3>1
    <2>3. s \in buff_received_head .. counter - 1
      BY <1>1, <1>2, <1>5, <2>2
      DEF Stopping, IInv, Daemon!IInv, Daemon!FlushInv, Daemon!Stopping
    <2>4. ~Daemon!IsFree(buff_received[s])
      BY <2>1, Daemon!PacketFacts, Assumptions
    <2>5. PICK i \in DOMAIN toFtps : toFtps[i] = buff_received[s]
      BY <2>2, <2>3, <2>4 DEF Stopping, IInv, Daemon!IInv, Daemon!FlushInv, Daemon!Stopping
    <2> QED BY <1>3, <2>1, <2>5
  <1> QED BY <1>4, <1>5

\* Data that was acknowledged is in the file when ftps closes it.
THEOREM NothingAckedIsMissing == Spec => []AckedIsInFile
  <1>1. ASSUME IInv, spc = "closed", NEW a \in m1m2, a.sequence_number \in 2 .. LastSeq - 1
        PROVE  \E k \in DOMAIN file : file[k] = a.sequence_number
    <2> DEFINE s == a.sequence_number
    <2>1. s \in Daemon!Sequence /\ Daemon!Safe(s)
      BY <1>1, LastSeqAssumption
      DEF IInv, Daemon!IInv, Daemon!AckedIsSafe, Daemon!Sequence
    <2>2. /\ fp = "closed" /\ taken > 0
          /\ toFtps[taken] = Daemon!Packet(LastSeq)
          /\ taken \in 0 .. Len(toFtps) /\ toFtps \in Seq(Daemon!OwnPackets)
      BY <1>1 DEF IInv, HostInv, EndInv, FtpsTypeOK, Daemon!IInv, Daemon!TypeOK
    <2>3. taken \in DOMAIN toFtps /\ toFtps[taken].sequence_number = LastSeq
      BY <2>2 DEF Daemon!Packet
    <2>4. s \in Int /\ s <= toFtps[taken].sequence_number
      BY <1>1, <2>3, LastSeqAssumption
    <2> HIDE DEF s
    <2>5. \E i \in 1 .. taken : toFtps[i] = Daemon!Packet(s)
      BY <1>1, <2>1, <2>3, <2>4, SentBefore
    <2>6. s \in 2 .. LastSeq - 1
      BY <1>1 DEF s
    <2>7. \E k \in DOMAIN file : file[k] = s
      BY <1>1, <2>2, <2>5, <2>6 DEF IInv, HostInv, FileInv
    <2> QED BY <2>7 DEF s
  <1>2. IInv => AckedIsInFile
    BY <1>1 DEF AckedIsInFile
  <1> QED BY <1>2, Invariance, PTL

\* ftps uses a file it never opened only where the name itself never came.
THEOREM CrashOnlyWithoutName == Spec => []UnsetOnlyWithoutName
  <1>1. ASSUME IInv, spc = "crashed", fp # "null"
        PROVE  Stopping /\ \A a \in m1m2 : a.sequence_number # 1
    <2>1. /\ fp = "unset" /\ taken > 0 /\ toFtps[taken].sequence_number >= 1
          /\ taken \in 0 .. Len(toFtps) /\ toFtps \in Seq(Daemon!OwnPackets)
          /\ \A i \in 1 .. taken : toFtps[i] # Name
      BY <1>1 DEF IInv, HostInv, EndInv, NameInv, FtpsTypeOK, Daemon!IInv, Daemon!TypeOK
    <2>2. taken \in DOMAIN toFtps /\ taken \in Int
      BY <2>1
    <2>3. Stopping
      <3> SUFFICES ASSUME ~Stopping PROVE FALSE
        OBVIOUS
      <3>1. \A i \in DOMAIN toFtps : toFtps[i] = Daemon!Packet(i - 1)
        BY <1>1, Prefix DEF IInv
      <3>2. toFtps[taken].sequence_number = taken - 1
        BY <2>2, <3>1 DEF Daemon!Packet
      <3>3. 2 \in 1 .. taken /\ 2 \in DOMAIN toFtps
        BY <2>1, <2>2, <3>2
      <3>4. toFtps[2] = Daemon!Packet(2 - 1) /\ 2 - 1 = 1
        BY <3>1, <3>3
      <3> QED BY <2>1, <3>3, <3>4 DEF Name
    <2>4. ASSUME NEW a \in m1m2, a.sequence_number = 1
          PROVE  FALSE
      <3>1. 1 \in Daemon!Sequence /\ Daemon!Safe(1)
        BY <1>1, <2>4, LastSeqAssumption
        DEF IInv, Daemon!IInv, Daemon!AckedIsSafe, Daemon!Sequence
      <3>2. 1 <= toFtps[taken].sequence_number
        <4>1. \A p \in Daemon!OwnPackets : p.sequence_number \in Int
          BY LastSeqAssumption
          DEF Daemon!OwnPackets, Daemon!Packet, Daemon!FinalAck, Daemon!Sequence
        <4> QED BY <2>1, <2>2, <4>1
      <3>3. \E i \in 1 .. taken : toFtps[i] = Daemon!Packet(1)
        BY <1>1, <2>2, <3>1, <3>2, SentBefore
      <3> QED BY <2>1, <3>3 DEF Name
    <2> QED BY <2>3, <2>4
  <1>2. IInv => UnsetOnlyWithoutName
    BY <1>1 DEF UnsetOnlyWithoutName, Stopping
  <1> QED BY <1>2, Invariance, PTL

=============================================================================
