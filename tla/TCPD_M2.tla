------------------------------- MODULE TCPD_M2 -------------------------------
(***************************************************************************)
(* The client's transport daemon (TCPD_M2.c): it buffers ftpc's packets,   *)
(* sends them through the troll, has the timer process time each of them,  *)
(* sends a packet again on its expiry and frees it on its acknowledgement. *)
(*                                                                         *)
(* Each turn of the main loop handles the sockets select() found ready, in *)
(* a fixed order, then tells ftpc if the buffer is full.                   *)
(***************************************************************************)
EXTENDS CircularBuffer, Sequences

CONSTANTS
  MaxStatus,   \* bound: status messages waiting for ftpc
  MaxRequests  \* bound: requests waiting for the timer process

VARIABLES
  m2pc,          \* "select", "handle", "closed", or "crashed" on a bad pointer
  readset,       \* sockets of this turn still to be handled
  cB,            \* the circular buffer
  dontcheckNum,  \* number of the last acknowledgement
  ftpcToM2,      \* packets from ftpc (a local socket)
  toFtpc,        \* status messages to ftpc (a local socket)
  toTimer,       \* requests to the timer process (a local socket)
  toM2,          \* expiries from the timer process (a local socket)
  m2m1, m1m2     \* the troll: packets to, acknowledgements from TCPD_M1

own == <<m2pc, readset, cB, dontcheckNum>>
vars == <<own, ftpcToM2, toFtpc, toTimer, toM2, m2m1, m1m2>>

Init ==
  /\ m2pc = "select"
  /\ readset = {}
  /\ cB = CircularBufferInitialization
  /\ dontcheckNum = -1
  /\ ftpcToM2 = <<>>
  /\ toFtpc = <<>>
  /\ toTimer = <<>>
  /\ toM2 = <<>>
  /\ m2m1 = {}
  /\ m1m2 = {}

StartTimer(s) ==
  toTimer' = Append(toTimer, [type |-> "insert", sequence_number |-> s])

\* (Faulty: the timer is left running.)
CancelNothing(s) == UNCHANGED toTimer

CancelTimer(s) ==
  toTimer' = Append(toTimer, [type |-> "cancel", sequence_number |-> s])

Ready ==
  {k \in {"ftpc", "troll", "timer"} :
     \/ k = "ftpc" /\ ftpcToM2 # <<>>
     \/ k = "troll" /\ m1m2 # {}
     \/ k = "timer" /\ toM2 # <<>>}

\* select(): at least one socket is ready.  What the troll still holds may
\* arrive now or later.
Select ==
  /\ m2pc = "select"
  /\ Len(toFtpc) <= MaxStatus /\ Len(toTimer) <= MaxRequests
  /\ readset' \in {Ready, Ready \ {"troll"}} \ {{}}
  /\ m2pc' = "handle"
  /\ UNCHANGED <<cB, dontcheckNum, ftpcToM2, toFtpc, toTimer, toM2, m2m1, m1m2>>

\* This turn's handler for a socket: those before it in the order are done.
Handles(socket, before) ==
  /\ m2pc = "handle"
  /\ socket \in readset
  /\ before \intersect readset = {}
  /\ readset' = readset \ {socket}

\* A FYN is sent at once only if it is alone between start and end.
SendsNow(cb, p) == p.FYN => cb.end - cb.start = 1

\* A packet that finds the buffer full is dropped without a word.
FromFtpc ==
  /\ Handles("ftpc", {})
  /\ ftpcToM2' = Tail(ftpcToM2)
  /\ LET p == Head(ftpcToM2) IN
     IF CircularBufferFull(cB)
     THEN UNCHANGED <<cB, toTimer, m2m1>>
     ELSE /\ cB' = CircularBufferWrite(cB, p)
          /\ StartTimer(p.sequence_number)
          /\ m2m1' = IF SendsNow(cB', p) THEN m2m1 \union {p} ELSE m2m1
  /\ UNCHANGED <<m2pc, dontcheckNum, toFtpc, toM2, m1m2>>

\* (Faulty: the transfer is over as soon as the buffer is empty.)
EndsWhenEmpty(a) == CircularBufferEmpty(cB')

EndsTransfer(a) == a.FYN

\* The acknowledged packet is freed, its timer cancelled, and ftpc told that
\* there is room.  An acknowledgement with FYN ends TCPD_M2 there and then.
FromTroll(a) ==
  /\ Handles("troll", {"ftpc"})
  /\ a \in m1m2
  /\ m1m2' = IF Duplicates THEN m1m2 ELSE m1m2 \ {a}
  /\ cB' = CircularBufferDelete(cB, a.sequence_number)
  /\ toFtpc' = toFtpc
       \o (IF CircularBufferFull(cB') THEN <<>> ELSE <<"empty">>)
       \o (IF EndsTransfer(a) THEN <<"acked">> ELSE <<>>)
  /\ CancelTimer(a.sequence_number)
  /\ dontcheckNum' = a.sequence_number
  /\ m2m1' = IF EndsTransfer(a) THEN m2m1 \union {FinalAck} ELSE m2m1
  /\ m2pc' = IF EndsTransfer(a) THEN "closed" ELSE m2pc
  /\ UNCHANGED <<ftpcToM2, toM2>>

\* (Faulty: the acknowledgements are taken as cumulative.)
IgnoresUpTo(s) == s <= dontcheckNum

Ignores(s) == s = dontcheckNum

\* An expiry makes TCPD_M2 send again what the slot of its number holds (the
\* FYN too, whatever else is outstanding), unless it is the number last
\* acknowledged.  With nothing there, CircularBufferFetch returns no value and
\* the pointer used is a bad one.
FromTimer ==
  /\ Handles("timer", {"ftpc", "troll"})
  /\ toM2' = Tail(toM2)
  /\ LET s == Head(toM2)
         p == CircularBufferFetch(cB, s)
     IN \/ /\ Ignores(s)
           /\ UNCHANGED <<m2pc, toTimer, m2m1>>
        \/ /\ ~Ignores(s)
           /\ p = NULL
           /\ m2pc' = "crashed"
           /\ UNCHANGED <<toTimer, m2m1>>
        \/ /\ ~Ignores(s)
           /\ p # NULL
           /\ StartTimer(p.sequence_number)
           /\ m2m1' = m2m1 \union {p}
           /\ UNCHANGED m2pc
  /\ UNCHANGED <<cB, dontcheckNum, ftpcToM2, toFtpc, m1m2>>

EndOfTurn ==
  /\ m2pc = "handle"
  /\ readset = {}
  /\ m2pc' = "select"
  /\ toFtpc' = IF CircularBufferFull(cB) THEN Append(toFtpc, "full") ELSE toFtpc
  /\ UNCHANGED <<readset, cB, dontcheckNum, ftpcToM2, toTimer, toM2, m2m1, m1m2>>

Step ==
  \/ Select
  \/ FromFtpc
  \/ \E a \in m1m2 : FromTroll(a)
  \/ FromTimer
  \/ EndOfTurn

=============================================================================
