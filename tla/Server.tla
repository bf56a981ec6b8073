------------------------------- MODULE Server -------------------------------
(***************************************************************************)
(* The server host: TCPD_M1 and ftps, joined by two local sockets.  The    *)
(* client and the troll are TCPD_M1's environment; a packet lost is one    *)
(* that never arrives.                                                     *)
(***************************************************************************)
EXTENDS Packets, Sequences

CONSTANTS
  Capacity,    \* slots of buff_received (1000)
  MaxAccepted  \* largest sequence number of a data packet taken (2000)

ASSUME CapacityAssumption == Capacity \in Nat /\ Capacity >= 2
ASSUME MaxAcceptedAssumption == MaxAccepted \in Nat

VARIABLES
  m1pc, buff_received, buff_received_head, ack_FYN, counter,  \* TCPD_M1
  spc, fp, file, taken,                                       \* ftps
  toFtps, portQueued,                                         \* local sockets
  m2m1, m1m2                                                  \* the troll

m1Vars == <<m1pc, buff_received, buff_received_head, ack_FYN, counter>>
ftpsVars == <<spc, fp, file, taken>>
vars == <<m1Vars, ftpsVars, toFtps, portQueued, m2m1, m1m2>>

M1 == INSTANCE TCPD_M1
Ftps == INSTANCE FTPS

Init == M1!Init /\ Ftps!Init

M1Step == M1!Step /\ UNCHANGED ftpsVars

FtpsStep == Ftps!Step /\ UNCHANGED <<m1Vars, m2m1, m1m2>>

ClientSends ==
  /\ (\E s \in Sequence : M1!PeerSends(s)) \/ M1!PeerSendsFinalAck
  /\ UNCHANGED ftpsVars

Next == M1Step \/ FtpsStep \/ ClientSends

Spec == Init /\ [][Next]_vars

\* Both processes keep running.
FairSpec ==
  /\ Spec
  /\ WF_vars(FtpsStep)
  /\ WF_vars((M1!FlushSlot \/ M1!Close) /\ UNCHANGED ftpsVars)

-----------------------------------------------------------------------------
(***************************************************************************)
(* Properties.                                                             *)
(***************************************************************************)
FtpsTypeOK ==
  /\ spc \in {"port", "receive", "closed", "crashed"}
  /\ fp \in {"unset", "open", "null", "closed"}
  /\ file \in Seq(2 .. LastSeq - 1)
  /\ taken \in 0 .. Len(toFtps)

\* Every variable keeps to its type: those of TCPD_M1, its sockets and the port
\* between the two processes, and those of ftps, which never reads more packets
\* than TCPD_M1 has sent.
TypeOK == M1!TypeOK /\ FtpsTypeOK

\* The file never has bytes out of place: a byte is written only behind those
\* of smaller numbers, and until TCPD_M1 shuts down nothing is left out.
FileInOrder ==
  /\ \A i, j \in DOMAIN file : i < j => file[i] < file[j]
  /\ m1pc = "listen" => \A i \in DOMAIN file : file[i] = i + 1

\* What TCPD_M1 acknowledged is in the file when ftps closes it, as long as
\* the file's name is among it: the client may forget what was acknowledged.
AckedIsInFile ==
  spc = "closed" =>
    \A a \in m1m2 : a.sequence_number \in 2 .. LastSeq - 1 =>
      \E i \in DOMAIN file : file[i] = a.sequence_number

\* ftps uses a file it has not opened only if fopen() failed, or the shutdown
\* comes before the packet with the file's name.
UnsetOnlyWithoutName ==
  spc = "crashed" =>
    \/ fp = "null"
    \/ /\ m1pc \in {"flush", "closed"}
       /\ \A a \in m1m2 : a.sequence_number # 1

\* After TCPD_M1 has shut down ftps ends too: the FYN reaches it.
FtpsEnds == m1pc = "flush" ~> spc \in {"closed", "crashed"}

=============================================================================
