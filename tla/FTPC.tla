-------------------------------- MODULE FTPC --------------------------------
(***************************************************************************)
(* The client application (ftpc.c): it makes the file into packets, hands  *)
(* one at a time to TCPD_M2 and, once for each, looks whether TCPD_M2 has  *)
(* sent a status message.                                                  *)
(***************************************************************************)
EXTENDS Packets, Sequences

VARIABLES
  fpc,             \* "header", "data" and "status" in turn, "done", or "crashed"
  sequence_number, \* number of the next packet
  flag,            \* 1: send nothing
  zero_byte_flag,  \* 1: the FYN was sent
  ftpcToM2,        \* packets to TCPD_M2 (a local socket)
  toFtpc           \* status messages from TCPD_M2 (a local socket)

own == <<fpc, sequence_number, flag, zero_byte_flag>>

Init ==
  /\ fpc = "header"
  /\ sequence_number = 0
  /\ flag = 0
  /\ zero_byte_flag = 0
  /\ ftpcToM2 = <<>>
  /\ toFtpc = <<>>

SendPacket ==
  /\ ftpcToM2' = Append(ftpcToM2, Packet(sequence_number))
  /\ sequence_number' = sequence_number + 1

\* The file is not there: fopen() returns a null pointer, the test is for a
\* negative one, and fseek() uses it.
NoFile ==
  /\ fpc = "header"
  /\ sequence_number = 0
  /\ fpc' = "crashed"
  /\ UNCHANGED <<sequence_number, flag, zero_byte_flag, ftpcToM2, toFtpc>>

\* The file's size and its name go out without a look at the status.
SendHeader ==
  /\ fpc = "header"
  /\ SendPacket
  /\ fpc' = IF sequence_number = 1 THEN "data" ELSE fpc
  /\ UNCHANGED <<flag, zero_byte_flag, toFtpc>>

SendData ==
  /\ fpc = "data"
  /\ flag = 0
  /\ sequence_number < LastSeq
  /\ SendPacket
  /\ fpc' = "status"
  /\ UNCHANGED <<flag, zero_byte_flag, toFtpc>>

\* (Faulty: it is sent each time fread() returns 0.)
FynAlwaysDue == TRUE

\* At the end of the file the FYN is sent, the first time fread() returns 0.
FynDue == zero_byte_flag = 0

EndOfFile ==
  /\ fpc = "data"
  /\ flag = 0
  /\ sequence_number >= LastSeq
  /\ flag' = 1
  /\ zero_byte_flag' = 1
  /\ IF FynDue THEN SendPacket
     ELSE UNCHANGED <<ftpcToM2, sequence_number>>
  /\ fpc' = "status"
  /\ UNCHANGED toFtpc

Hold ==
  /\ fpc = "data"
  /\ flag = 1
  /\ fpc' = "status"
  /\ UNCHANGED <<sequence_number, flag, zero_byte_flag, ftpcToM2, toFtpc>>

\* (Faulty: "empty" does not lift the hold.)
FlagKept(status) == IF status = "full" THEN 1 ELSE flag

FlagAfter(status) == IF status = "full" THEN 1 ELSE 0

\* One message is read, however many are waiting.
ReadStatus ==
  /\ fpc = "status"
  /\ toFtpc # <<>>
  /\ toFtpc' = Tail(toFtpc)
  /\ \/ /\ Head(toFtpc) = "acked"
        /\ fpc' = "done"
        /\ UNCHANGED flag
     \/ /\ Head(toFtpc) # "acked"
        /\ fpc' = "data"
        /\ flag' = FlagAfter(Head(toFtpc))
  /\ UNCHANGED <<sequence_number, zero_byte_flag, ftpcToM2>>

\* The status socket does not block.
NoStatus ==
  /\ fpc = "status"
  /\ toFtpc = <<>>
  /\ fpc' = "data"
  /\ UNCHANGED <<sequence_number, flag, zero_byte_flag, ftpcToM2, toFtpc>>

Step == NoFile \/ SendHeader \/ SendData \/ EndOfFile \/ Hold \/ ReadStatus \/ NoStatus

=============================================================================
