------------------------------- MODULE Client -------------------------------
(***************************************************************************)
(* The client host during one transfer: ftpc, TCPD_M2 and the timer        *)
(* process, composed with the troll and the server.  They interleave and   *)
(* meet only in the sockets.  The timer process stands here as the service *)
(* it implements (TimerProcess), and TCPD_M1 as the receiver it implements *)
(* (TCPD_M1).                                                              *)
(***************************************************************************)
EXTENDS CircularBuffer, Sequences

CONSTANTS MaxStatus, MaxRequests

ASSUME BoundsAssumption == MaxStatus \in Nat /\ MaxRequests \in Nat

VARIABLES
  fpc, sequence_number, flag, zero_byte_flag,  \* ftpc
  m2pc, readset, cB, dontcheckNum,             \* TCPD_M2
  running,                                     \* the timer process
  received, receiving,                         \* TCPD_M1
  ftpcToM2, toFtpc, toTimer, toM2,             \* local sockets
  m2m1, m1m2                                   \* the troll

ftpcVars == <<fpc, sequence_number, flag, zero_byte_flag>>
m2Vars == <<m2pc, readset, cB, dontcheckNum>>
m1Vars == <<received, receiving>>
vars == <<ftpcVars, m2Vars, running, m1Vars, ftpcToM2, toFtpc, toTimer, toM2,
          m2m1, m1m2>>

Ftpc == INSTANCE FTPC
M2 == INSTANCE TCPD_M2
Timer == INSTANCE TimerService WITH Numbers <- Sequence \union {-1}
M1 == INSTANCE Receiver

Init == Ftpc!Init /\ M2!Init /\ Timer!Init /\ M1!Init

FtpcStep ==
  /\ Ftpc!Step
  /\ UNCHANGED <<m2Vars, running, m1Vars, toTimer, toM2, m2m1, m1m2>>

M2Step ==
  /\ M2!Step
  /\ UNCHANGED <<ftpcVars, running, m1Vars>>

TimerStep ==
  /\ Timer!TimerStep
  /\ UNCHANGED <<ftpcVars, m2Vars, m1Vars, ftpcToM2, toFtpc, m2m1, m1m2>>

M1Step ==
  /\ M1!Step
  /\ UNCHANGED <<ftpcVars, m2Vars, running, ftpcToM2, toFtpc, toTimer, toM2>>

\* The troll drops what it holds, unless select() has announced it already.
TrollLoses ==
  /\ "troll" \notin readset
  /\ M1!Lose
  /\ UNCHANGED <<ftpcVars, m2Vars, running, ftpcToM2, toFtpc, toTimer, toM2>>

Next == FtpcStep \/ M2Step \/ TimerStep \/ M1Step \/ TrollLoses

Spec == Init /\ [][Next]_vars

(***************************************************************************)
(* Every process keeps running (a running timer ends: TimerProcess's       *)
(* EveryTimerEnds).  The troll lets a packet that TCPD_M1 lacks through at *)
(* last if such packets are sent again and again.  The troll for the       *)
(* acknowledgements is run without losses (README.md:120, -x 0) and        *)
(* delivers at last.                                                       *)
(***************************************************************************)
Arrives(s) ==
  /\ M1!Accept(s)
  /\ UNCHANGED <<ftpcVars, m2Vars, running, ftpcToM2, toFtpc, toTimer, toM2>>

Open == m2pc \in {"select", "handle"}

AcksKept == M2Step \/ m1m2 \subseteq m1m2'

\* Once TCPD_M2 has ended, only ftpc's steps matter to the client.
FairSpec ==
  /\ Init /\ [][Next /\ AcksKept /\ (Open \/ FtpcStep)]_vars
  /\ WF_vars(FtpcStep) /\ WF_vars(M2Step) /\ WF_vars(Open /\ TimerStep)
  /\ SF_vars(Open /\ \E s \in Sequence \ received : Arrives(s))
  /\ SF_vars(M2Step /\ "troll" \in readset')

-----------------------------------------------------------------------------
(***************************************************************************)
(* Properties.                                                             *)
(***************************************************************************)
Image(q) == {q[i] : i \in DOMAIN q}

\* Every variable keeps to its type.
TypeOK ==
  /\ fpc \in {"header", "data", "status", "done", "crashed"}
  /\ sequence_number \in 0 .. LastSeq + 1
  /\ flag \in 0 .. 1 /\ zero_byte_flag \in 0 .. 1
  /\ m2pc \in {"select", "handle", "closed", "crashed"}
  /\ readset \subseteq {"ftpc", "troll", "timer"}
  /\ cB \in [start : Ring, end : Ring,
             packets : [Ring -> {Packet(s) : s \in Sequence} \union {Blank, NULL}]]
  /\ dontcheckNum \in Sequence \union {-1}
  /\ running \subseteq Sequence \union {-1}
  /\ received \subseteq Sequence /\ receiving \in BOOLEAN
  /\ ftpcToM2 \in Seq({Packet(s) : s \in Sequence})
  /\ toFtpc \in Seq({"full", "empty", "acked"})
  /\ toTimer \in
       Seq([type : {"insert", "cancel"}, sequence_number : Sequence \union {-1}])
  /\ toM2 \in Seq(Sequence \union {-1})
  /\ m2m1 \subseteq {Packet(s) : s \in Sequence} \union {FinalAck, Blank}
  /\ m1m2 \subseteq [sequence_number : Sequence, FYN : BOOLEAN]

\* The transfer fits into the buffer: no slot is used twice, none is missing.
Fits == LastSeq + 1 < Size

\* How many packets TCPD_M2 has read from ftpc, and their numbers.
Count == sequence_number - Len(ftpcToM2)
Taken == 0 .. Count - 1

\* As long as TCPD_M2 runs, a packet it has read is still in its buffer,
\* between start and end, or has reached TCPD_M1: neither an acknowledgement
\* of another packet nor a late duplicate of one makes it forget a packet that
\* may have to be sent again.
NothingLost == Fits /\ Open => \A s \in Taken : Packet(s) \in Held(cB) \/ s \in received

Queued(s) == [type |-> "insert", sequence_number |-> s] \in Image(toTimer)
Cancelled(s) == [type |-> "cancel", sequence_number |-> s] \in Image(toTimer)

\* A timer of s is asked for, running, or expired and not yet looked at.
Timed(s) == Queued(s) \/ s \in running \/ s \in Image(toM2)

\* What the buffer holds will be sent again: each packet in it has its timer.
EveryPacketIsTimed ==
  Fits /\ Open => \A p \in Held(cB) : Timed(p.sequence_number)

\* Nor does a timer outlive its packet, unless its cancel is on its way: what is
\* acknowledged is not sent again for ever.
TimersHavePackets ==
  Fits /\ Open =>
    \A s \in running :
      \/ \E p \in Held(cB) : p.sequence_number = s
      \/ Cancelled(s)

\* TCPD_M2 never asks for a second timer for a number: the condition under
\* which the timer process's list is right (TimerProcess's restarted).
OneTimerEach ==
  Fits =>
    \A s \in Sequence \union {-1} :
      /\ Queued(s) => s \notin running
      /\ \A i, j \in DOMAIN toTimer :
           toTimer[i] = toTimer[j] /\ toTimer[i].type = "insert" => i = j

\* The shutdown runs back along the chain: ftpc ends after TCPD_M2, TCPD_M2
\* once TCPD_M1 has the FYN, and TCPD_M1 only after TCPD_M2.
ShutdownOrder ==
  /\ fpc = "done" => m2pc = "closed"
  /\ m2pc = "closed" => LastSeq \in received
  /\ ~receiving => m2pc = "closed"

\* TCPD_M2 sends only packets ftpc gave it, and the final acknowledgement only
\* on an acknowledgement with FYN: what TCPD_M1 assumes of its peer.
SpeaksProtocol ==
  [][Fits => \A p \in m2m1' \ m2m1 :
       \/ p.sequence_number \in Taken' /\ p = Packet(p.sequence_number)
       \/ p = FinalAck /\ \E a \in m1m2 : a.FYN]_vars

\* No packet among the last was dropped: the slots up to end are those of the
\* last numbers read, and each is free or holds the packet of its number.
InStep ==
  /\ cB.end = Count % Size
  /\ \A i \in Window(cB) :
       cB.packets[i] \in {NULL, Packet(Count - ((cB.end - i) % Size))}

\* A packet leaves a buffer that has wrapped only when its own acknowledgement is
\* read, or a late one of a packet that was in its slot before: never one of a
\* packet in another slot, nor one of a packet after it.  That holds as long as
\* the slots keep in step with the numbers, and they do until a packet finds the
\* buffer full.
FreedByOwnSlot ==
  [][InStep =>
       /\ \A p \in Held(cB) \ Held(cB') :
            \/ dontcheckNum' = p.sequence_number
            \/ dontcheckNum' + Size <= p.sequence_number
       /\ InStep' \/ CircularBufferFull(cB)]_vars

\* Packet s waits for its acknowledgement: TCPD_M2 finds it at its number, has a
\* timer for it that no cancel will stop, and will not ignore the expiry.
Pending(s) ==
  /\ CircularBufferFetch(cB, s) = Packet(s)
  /\ Timed(s) /\ ~Cancelled(s)
  /\ s # dontcheckNum

\* As long as the slots keep in step with the numbers, a full buffer is full of
\* use: although the start moves over one free slot at a time, some packet is
\* left, and every packet left still waits for its acknowledgement.
FullHoldsPacket ==
  Open /\ CircularBufferFull(cB) /\ InStep =>
    Held(cB) # {} /\ \A p \in Held(cB) : Pending(p.sequence_number)

\* When ftpc holds back the file and the slots are in step with the numbers, an
\* "empty" is on its way to ftpc, or a packet waits for an acknowledgement that
\* makes TCPD_M2 send one.
HoldIsLifted ==
  Open /\ flag = 1 /\ zero_byte_flag = 0 /\ InStep =>
    \/ "empty" \in Image(toFtpc)
    \/ \E s \in Sequence :
         Pending(s) /\ ~CircularBufferFull(CircularBufferDelete(cB, s))

\* A transfer that fits into the buffer comes to its end at the client, in
\* spite of losses, unless ftpc crashes (it does not find its file) or TCPD_M2.
ClientEnds == <>(fpc \in {"done", "crashed"} \/ m2pc = "crashed")

\* README.md:4, "reliable transportlayer protocol": when TCPD_M2 reports the
\* end of the transfer, TCPD_M1 has every packet of it.
TransferIsComplete == m2pc = "closed" => received = Sequence

\* circularBuffer.c:70, "Fetching the packet at the index location": there is
\* one when TCPD_M2 sends it again.
FetchFindsPacket == m2pc # "crashed"

\* NetworkProgrammingReport.pdf, section 2.11.5, "SEND() is a blocking call and
\* does not return until all bytes are written to the TCPD buffer": a packet
\* TCPD_M2 has taken from ftpc is in its buffer until TCPD_M1 has it, however many
\* packets the transfer has.
NothingForgotten ==
  Open => \A s \in Taken : Packet(s) \in Held(cB) \/ s \in received

\* NetworkProgrammingReport.pdf, section 2.12, "waits for a short period to ensure
\* that last ACK sent is not lost": when TCPD_M2 has closed, the final
\* acknowledgement has reached TCPD_M1 or can still reach it.
LastAckNotLost == m2pc = "closed" => FinalAck \in m2m1 \/ ~receiving

=============================================================================
