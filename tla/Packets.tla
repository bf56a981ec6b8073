------------------------------- MODULE Packets -------------------------------
(***************************************************************************)
(* The packets the five processes exchange (packet.h) and the troll, the   *)
(* external lossy network between the two transport daemons.               *)
(*                                                                         *)
(* One transfer is a numbered series of packets: 0 carries the file's      *)
(* size, 1 its name, 2 .. LastSeq - 1 its bytes, and LastSeq the FYN.  The *)
(* payload is abstracted to whether the checksum agrees with it.           *)
(***************************************************************************)
EXTENDS Integers

CONSTANTS
  LastSeq,    \* sequence number of the FYN packet
  Duplicates  \* TRUE: a packet handed to the troll may arrive any number of
              \* times, or never; FALSE: it arrives at most once

ASSUME LastSeqAssumption == LastSeq \in Nat /\ LastSeq >= 2
ASSUME DuplicatesAssumption == Duplicates \in BOOLEAN

Sequence == 0 .. LastSeq

\* The fields of data_packet the properties tell apart.
DataPacket == [sequence_number : Int, FYN : BOOLEAN, good : BOOLEAN]

\* What ftpc makes of position s of the transfer.
Packet(s) == [sequence_number |-> s, FYN |-> s = LastSeq, good |-> TRUE]

\* The acknowledgement of the FYN's acknowledgement, sent once by TCPD_M2.
FinalAck == [sequence_number |-> 1, FYN |-> TRUE, good |-> TRUE]

AckPacket == [sequence_number : Int, FYN : BOOLEAN]

(***************************************************************************)
(* The troll.  A channel is the set of the packets that can still arrive,  *)
(* in any order.  Garbling changes bytes of the payload, never the header. *)
(***************************************************************************)
Garbled(p) == [p EXCEPT !.good = FALSE]

Arrivals(channel) == channel \union {Garbled(p) : p \in channel}

\* What is left of a channel once p, garbled or not, has come out of it.
After(channel, p) ==
  IF Duplicates THEN channel ELSE {q \in channel : Garbled(q) # Garbled(p)}

=============================================================================
