-------------------------------- MODULE FTPS --------------------------------
(***************************************************************************)
(* The server application (ftps.c): it tells TCPD_M1 its port, then opens  *)
(* the file on packet 1, appends what packets from 2 on carry, and closes  *)
(* it on the FYN.                                                          *)
(***************************************************************************)
EXTENDS Packets, Sequences

VARIABLES
  spc,        \* "port", "receive", "closed", or "crashed" on a bad pointer
  fp,         \* "unset" (uninitialised), "open", "null" or "closed"
  file,       \* numbers of the packets whose bytes were written
  taken,      \* datagrams of toFtps already received
  toFtps,     \* datagrams TCPD_M1 has sent (a local socket)
  portQueued  \* the port packet is in TCPD_M1's local socket

own == <<spc, fp, file, taken>>

Init ==
  /\ spc = "port"
  /\ fp = "unset"
  /\ file = <<>>
  /\ taken = 0
  /\ toFtps = <<>>
  /\ portQueued = FALSE

SendPort ==
  /\ spc = "port"
  /\ spc' = "receive"
  /\ portQueued' = TRUE
  /\ UNCHANGED <<fp, file, taken, toFtps>>

Received == toFtps[taken + 1]

Receive ==
  /\ spc = "receive"
  /\ taken < Len(toFtps)
  /\ taken' = taken + 1
  /\ UNCHANGED <<toFtps, portQueued>>

\* (Faulty: the FYN is written like data.)
CarriesData == Received.sequence_number > 1

Carries == Received.sequence_number > 1 /\ ~Received.FYN

CloseFile ==
  /\ Receive
  /\ Received.FYN
  /\ fp = "open"
  /\ fp' = "closed"
  /\ spc' = "closed"
  /\ UNCHANGED file

\* fopen() truncates the file, or fails: the test is for a negative pointer, and
\* ftps goes on with a null one.
OpenFile ==
  /\ Receive
  /\ Received.sequence_number = 1 /\ ~Received.FYN
  /\ \/ fp' = "open" /\ file' = <<>>
     \/ fp' = "null" /\ UNCHANGED file
  /\ UNCHANGED spc

WriteData ==
  /\ Receive
  /\ Carries
  /\ fp = "open"
  /\ file' = Append(file, Received.sequence_number)
  /\ UNCHANGED <<spc, fp>>

\* The size of the file, packet 0, is not used.
IgnoreSize ==
  /\ Receive
  /\ Received.sequence_number <= 0
  /\ UNCHANGED <<spc, fp, file>>

\* fclose() or fwrite() with no file open.
UseUnsetFile ==
  /\ Receive
  /\ Received.FYN \/ Carries
  /\ fp # "open"
  /\ spc' = "crashed"
  /\ UNCHANGED <<fp, file>>

Step == SendPort \/ CloseFile \/ OpenFile \/ WriteData \/ IgnoreSize \/ UseUnsetFile

=============================================================================
