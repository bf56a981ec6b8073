------------------------------- MODULE TCPD_M1 -------------------------------
(***************************************************************************)
(* The server's transport daemon (TCPD_M1.c): it acknowledges the packets  *)
(* that come out of the troll undamaged, reorders them in buff_received    *)
(* and hands them to ftps in sequence, and shuts down on the final         *)
(* acknowledgement of its FYN acknowledgement.                             *)
(***************************************************************************)
EXTENDS Packets, Sequences

CONSTANTS
  Capacity,    \* slots of buff_received (1000)
  MaxAccepted  \* largest sequence number of a data packet taken (2000)

ASSUME CapacityAssumption == Capacity \in Nat /\ Capacity >= 2
ASSUME MaxAcceptedAssumption == MaxAccepted \in Nat

VARIABLES
  m1pc,                \* "port": waiting for ftps's port; "listen": main loop;
                       \* "flush": after the loop; "closed": exited;
                       \* "overrun": an access beyond buff_received was made
  buff_received,       \* the receive buffer
  buff_received_head,  \* next sequence number to hand to ftps
  ack_FYN,             \* ack_packet->FYN, never reset
  counter,             \* the flush loop's index
  toFtps,              \* datagrams sent to ftps, in order (a local socket)
  m2m1, m1m2,          \* the troll: packets from, acknowledgements to TCPD_M2
  portQueued           \* ftps's port packet is in M1's local socket

own == <<m1pc, buff_received, buff_received_head, ack_FYN, counter, toFtps>>
vars == <<own, m2m1, m1m2, portQueued>>

Slots == 0 .. Capacity - 1

\* sequence_number -3 marks a free slot.
Free == [sequence_number |-> -3, FYN |-> FALSE, good |-> FALSE]
IsFree(slot) == slot.sequence_number = -3

init_recvbuff == [s \in Slots |-> Free]

Init ==
  /\ m1pc = "port"
  /\ buff_received = init_recvbuff
  /\ buff_received_head = 0
  /\ ack_FYN = FALSE
  /\ counter = 0
  /\ toFtps = <<>>
  /\ m2m1 = {}
  /\ m1m2 = {}
  /\ portQueued = FALSE

-----------------------------------------------------------------------------
(***************************************************************************)
(* The main loop: one action per branch a received packet can take.        *)
(***************************************************************************)
ReceivePort ==
  /\ m1pc = "port"
  /\ portQueued
  /\ m1pc' = "listen"
  /\ portQueued' = FALSE
  /\ UNCHANGED <<buff_received, buff_received_head, ack_FYN, counter, toFtps,
                 m2m1, m1m2>>

\* (Faulty: the slot is overwritten, taken or not.)
StoreAlways(buffer, p) == [buffer EXCEPT ![p.sequence_number] = p]

\* A packet is stored in the slot of its number, unless that is taken.
Store(buffer, p) ==
  IF IsFree(buffer[p.sequence_number])
  THEN [buffer EXCEPT ![p.sequence_number] = p]
  ELSE buffer

SendAck(p, fyn) ==
  m1m2' = m1m2 \union {[sequence_number |-> p.sequence_number, FYN |-> fyn]}

\* p comes out of the troll while the main loop waits for it.
Takes(p) ==
  /\ m1pc = "listen"
  /\ p \in Arrivals(m2m1)
  /\ m2m1' = After(m2m1, p)

InBounds(p) == p.sequence_number \in Slots

IsData(p) == p.sequence_number <= MaxAccepted /\ ~p.FYN

\* (Faulty: the head stays where it is.)
ForwardInPlace(buffer) ==
  /\ buff_received' = buffer
  /\ toFtps' = IF IsFree(buffer[buff_received_head]) THEN toFtps
               ELSE Append(toFtps, buffer[buff_received_head])
  /\ UNCHANGED buff_received_head

\* (Faulty: the head's slot is not looked at first.)
ForwardUnchecked(buffer) ==
  /\ toFtps' = Append(toFtps, buffer[buff_received_head])
  /\ buff_received' = [buffer EXCEPT ![buff_received_head] = Free]
  /\ buff_received_head' = buff_received_head + 1

\* At most one packet is handed over for each data packet that arrives.
Forward(buffer) ==
  \/ /\ IsFree(buffer[buff_received_head])
     /\ buff_received' = buffer
     /\ UNCHANGED <<buff_received_head, toFtps>>
  \/ /\ ~IsFree(buffer[buff_received_head])
     /\ toFtps' = Append(toFtps, buffer[buff_received_head])
     /\ buff_received' = [buffer EXCEPT ![buff_received_head] = Free]
     /\ buff_received_head' = buff_received_head + 1

ReceiveData(p) ==
  /\ Takes(p)
  /\ IsData(p) /\ p.good
  /\ InBounds(p) /\ buff_received_head < Capacity
  /\ SendAck(p, ack_FYN)
  /\ Forward(Store(buff_received, p))
  /\ UNCHANGED <<m1pc, ack_FYN, counter, portQueued>>

\* The FYN is stored and acknowledged at once, whatever is still missing.
ReceiveFYN(p) ==
  /\ Takes(p)
  /\ p.FYN /\ p.good
  /\ p.sequence_number # 1
  /\ InBounds(p)
  /\ buff_received' = Store(buff_received, p)
  /\ ack_FYN' = TRUE
  /\ SendAck(p, TRUE)
  /\ UNCHANGED <<m1pc, buff_received_head, counter, toFtps, portQueued>>

\* IsEmpty_recvbuff leaves its result uninitialised when every slot is free.
IsEmpty_recvbuff(buffer) ==
  IF \E s \in Slots : ~IsFree(buffer[s]) THEN {FALSE} ELSE BOOLEAN

\* Where the flush after the main loop starts (faulty: at 0; behind the head).
FlushFromZero == 0
FlushFromNext == buff_received_head + 1
FlushFrom == buff_received_head

ReceiveFinalAck(p) ==
  /\ Takes(p)
  /\ p.FYN /\ p.good
  /\ p.sequence_number = 1
  /\ buff_received' = Store(buff_received, p)
  /\ \E empty \in IsEmpty_recvbuff(buff_received') :
        toFtps' = IF empty THEN Append(toFtps, p) ELSE toFtps
  /\ m1pc' = "flush"
  /\ counter' = FlushFrom
  /\ UNCHANGED <<buff_received_head, ack_FYN, m1m2, portQueued>>

\* A damaged payload, or a data packet with too large a number, is dropped.
Discard(p) ==
  /\ Takes(p)
  /\ ~p.good \/ ~(IsData(p) \/ p.FYN)
  /\ UNCHANGED <<own, m1m2, portQueued>>

(***************************************************************************)
(* Only the data branch has a bound, and it is not the buffer's: a number  *)
(* from Capacity on is stored behind the array, and once the head has      *)
(* reached Capacity the slot read is behind it too.  What follows is       *)
(* undefined; the model stops there.                                       *)
(***************************************************************************)
OverrunStore(p) ==
  /\ Takes(p)
  /\ IsData(p) \/ p.FYN
  /\ p.good
  /\ ~InBounds(p)
  /\ m1pc' = "overrun"
  /\ UNCHANGED <<buff_received, buff_received_head, ack_FYN, counter, toFtps,
                 m1m2, portQueued>>

OverrunHead(p) ==
  /\ Takes(p)
  /\ IsData(p) /\ p.good
  /\ InBounds(p) /\ buff_received_head = Capacity
  /\ buff_received' = Store(buff_received, p)
  /\ SendAck(p, ack_FYN)
  /\ m1pc' = "overrun"
  /\ UNCHANGED <<buff_received_head, ack_FYN, counter, toFtps, portQueued>>

\* After the loop: every slot from the head on that holds a packet is sent.
FlushSlot ==
  /\ m1pc = "flush"
  /\ counter < Capacity
  /\ toFtps' = IF IsFree(buff_received[counter]) THEN toFtps
               ELSE Append(toFtps, buff_received[counter])
  /\ counter' = counter + 1
  /\ UNCHANGED <<m1pc, buff_received, buff_received_head, ack_FYN, m2m1, m1m2,
                 portQueued>>

Close ==
  /\ m1pc = "flush"
  /\ counter = Capacity
  /\ m1pc' = "closed"
  /\ UNCHANGED <<buff_received, buff_received_head, ack_FYN, counter, toFtps,
                 m2m1, m1m2, portQueued>>

Receive(p) ==
  \/ ReceiveData(p)
  \/ ReceiveFYN(p)
  \/ ReceiveFinalAck(p)
  \/ Discard(p)
  \/ OverrunStore(p)
  \/ OverrunHead(p)

Step == ReceivePort \/ (\E p \in Arrivals(m2m1) : Receive(p)) \/ FlushSlot \/ Close

-----------------------------------------------------------------------------
(***************************************************************************)
(* What TCPD_M1 assumes of the rest: ftps sends its port; the peer sends   *)
(* packets of one transfer in any order and any number of times, and the   *)
(* final acknowledgement only after an acknowledgement that carries FYN;   *)
(* the troll may lose what it holds.                                       *)
(***************************************************************************)
FtpsSendsPort ==
  /\ m1pc = "port"
  /\ portQueued' = TRUE
  /\ UNCHANGED <<own, m2m1, m1m2>>

PeerSends(s) ==
  /\ m2m1' = m2m1 \union {Packet(s)}
  /\ UNCHANGED <<own, m1m2, portQueued>>

PeerSendsFinalAck ==
  /\ \E a \in m1m2 : a.FYN
  /\ m2m1' = m2m1 \union {FinalAck}
  /\ UNCHANGED <<own, m1m2, portQueued>>

Lose ==
  /\ ~Duplicates
  /\ \/ /\ \E p \in m2m1 : m2m1' = m2m1 \ {p}
        /\ UNCHANGED m1m2
     \/ /\ \E a \in m1m2 : m1m2' = m1m2 \ {a}
        /\ UNCHANGED m2m1
  /\ UNCHANGED <<own, portQueued>>

Environment ==
  \/ FtpsSendsPort
  \/ \E s \in Sequence : PeerSends(s)
  \/ PeerSendsFinalAck
  \/ Lose

Next == Step \/ Environment

Spec == Init /\ [][Next]_vars

-----------------------------------------------------------------------------
(***************************************************************************)
(* Properties.                                                             *)
(***************************************************************************)
OwnPackets == {Packet(s) : s \in Sequence} \union {FinalAck}

\* Every variable keeps to its type.
TypeOK ==
  /\ m1pc \in {"port", "listen", "flush", "closed", "overrun"}
  /\ buff_received \in [Slots -> OwnPackets \union {Free}]
  /\ buff_received_head \in 0 .. Capacity
  /\ ack_FYN \in BOOLEAN
  /\ counter \in 0 .. Capacity
  /\ toFtps \in Seq(OwnPackets)
  /\ m2m1 \subseteq OwnPackets
  /\ m1m2 \subseteq [sequence_number : Sequence, FYN : BOOLEAN]
  /\ portQueued \in BOOLEAN

\* What was handed to ftps in the main loop is the transfer's first packets,
\* each once and in order, however the troll reordered and repeated them.
DeliveredInOrder ==
  /\ Len(toFtps) >= buff_received_head
  /\ \A i \in 1 .. buff_received_head : toFtps[i] = Packet(i - 1)
  /\ m1pc \in {"port", "listen"} => Len(toFtps) = buff_received_head

\* Position s of the transfer was handed over or waits in its slot.
Safe(s) == s < buff_received_head \/ (s \in Slots /\ buff_received[s] = Packet(s))

\* TCPD_M2 frees its copy of a packet on the packet's acknowledgement and quits
\* on any acknowledgement that carries FYN (a flag TCPD_M1 never clears): by
\* then TCPD_M1 has the packet, and the FYN, itself.
AckedIsSafe ==
  \A a \in m1m2 : Safe(a.sequence_number) /\ (a.FYN => Safe(LastSeq))

Delivered(s) == \E i \in DOMAIN toFtps : toFtps[i] = Packet(s)

\* When TCPD_M1 exits, everything it ever acknowledged has reached ftps, the
\* FYN that makes ftps close its file included.
AckedIsDelivered ==
  m1pc = "closed" =>
    /\ Delivered(LastSeq)
    /\ \A a \in m1m2 : Delivered(a.sequence_number)

\* A transfer stays inside buff_received when it leaves two slots unused: with
\* only one left, the FYN handed over in the main loop moves the head behind
\* the array, and a late duplicate reads there.
StaysInBounds == LastSeq + 1 < Capacity => m1pc # "overrun"

NumbersOf(packets) == [i \in DOMAIN packets |-> packets[i].sequence_number]

Closing == m1pc \notin {"port", "listen"}

Delivery == INSTANCE OrderedDelivery WITH
  Numbers <- Sequence, out <- NumbersOf(toFtps), closing <- Closing

\* TCPD_M1 implements ordered delivery: in sequence and complete up to the
\* shutdown, then what it holds in increasing order, nothing twice.
ImplementsDelivery == Delivery!Spec

Reception == INSTANCE Receiver WITH
  received <- {s \in Sequence : Safe(s)}, receiving <- m1pc \in {"port", "listen"}

\* TCPD_M1 implements the receiver the client relies on: it acknowledges what
\* it has, and with FYN from the moment it has the FYN packet.
ImplementsReceiver == Reception!Spec

=============================================================================
