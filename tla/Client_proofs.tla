----------------------------- MODULE Client_proofs -----------------------------
(***************************************************************************)
(* Proofs about the client host: what TCPD_M2 keeps, times and sends, for  *)
(* every length of the transfer and every size of the ring.                *)
(***************************************************************************)
EXTENDS Client, CircularBuffer_proofs, SequenceTheorems

(***************************************************************************)
(* The inductive invariant.  Its first part holds of every transfer.       *)
(***************************************************************************)
\* select() found something in the sockets this turn has still to handle, and
\* only TCPD_M2 reads from them.
ReadInv ==
  /\ "ftpc" \in readset => ftpcToM2 # <<>>
  /\ "timer" \in readset => toM2 # <<>>

\* ftpc numbers its packets without gaps, up to the FYN.
FtpcInv ==
  /\ fpc = "header" => sequence_number <= 1
  /\ zero_byte_flag = 0 => sequence_number <= LastSeq
  /\ Count \in Nat
  /\ \A i \in DOMAIN ftpcToM2 : ftpcToM2[i] = Packet(Count + i - 1)

\* What TCPD_M2 holds and sends are packets it has read; acknowledged is what
\* TCPD_M1 has, with FYN only once it has the FYN packet.
SentInv ==
  /\ \A i \in Ring : cB.packets[i] \in {Packet(s) : s \in Taken} \union {Blank, NULL}
  /\ m2m1 \subseteq {Packet(s) : s \in Taken} \union {FinalAck, Blank}
  /\ received \subseteq Taken
  /\ \A a \in m1m2 : a.sequence_number \in received /\ (a.FYN => LastSeq \in received)

\* The shutdown's messages come from a TCPD_M2 that has ended.
ShutInv ==
  /\ ShutdownOrder
  /\ "acked" \in Image(toFtpc) => m2pc = "closed"
  /\ FinalAck \in m2m1 => m2pc = "closed"

\* The start moves over one free slot at a time, so that a buffer is not full of
\* free slots.
FullNotBare == CircularBufferFull(cB) => Held(cB) # {}

\* ftpc holds back the file, or is about to be told to, only while the buffer is
\* full or an "empty" comes behind: once the buffer is not, one has been sent.
HoldsWhileFull ==
  flag = 1 /\ zero_byte_flag = 0 => "empty" \in Image(toFtpc) \/ CircularBufferFull(cB)

HoldInv ==
  Open =>
    /\ HoldsWhileFull
    /\ \A i \in DOMAIN toFtpc :
         toFtpc[i] = "full" =>
           \/ CircularBufferFull(cB)
           \/ \E j \in DOMAIN toFtpc : i < j /\ toFtpc[j] = "empty"

\* A packet in the slot of its number is neither acknowledged nor out of time,
\* whatever has been dropped or acknowledged besides.
PendingInv ==
  /\ dontcheckNum \in Taken \union {-1}
  /\ \A s \in Sequence : Cancelled(s) => s \in Taken
  /\ \A s \in Sequence :
       s % Size \in Window(cB) /\ cB.packets[s % Size] = Packet(s) =>
         s # dontcheckNum /\ ~Cancelled(s) /\ (Open => Timed(s))

AnyInv ==
  /\ TypeOK
  /\ ReadInv
  /\ FtpcInv
  /\ SentInv
  /\ ShutInv
  /\ FullNotBare
  /\ HoldInv
  /\ PendingInv

(***************************************************************************)
(* The second part is about a transfer that fits into the ring: the slot   *)
(* of a packet is that of its number and is never used again.              *)
(***************************************************************************)
Free(s) == cB.packets[s] = NULL

SlotInv ==
  /\ cB.end = Count /\ cB.start <= cB.end
  /\ \A s \in Ring : IF s < Count THEN Free(s) \/ cB.packets[s] = Packet(s)
                     ELSE cB.packets[s] = Blank
  /\ \A s \in Taken : Free(s) => s \in received
  /\ \A s \in Ring : s < cB.start => Free(s)
  /\ dontcheckNum # -1 => dontcheckNum \in Taken /\ Free(dontcheckNum)

Insert(s) == [type |-> "insert", sequence_number |-> s]
Cancel(s) == [type |-> "cancel", sequence_number |-> s]

\* A timer is asked for, running, or expired, and only one of these, once.
OnceInv ==
  /\ \A i \in DOMAIN toTimer : \E s \in Taken : toTimer[i] \in {Insert(s), Cancel(s)}
  /\ \A i \in DOMAIN toTimer, s \in Taken :
       toTimer[i] = Insert(s) =>
         /\ s \notin running /\ s \notin Image(toM2)
         /\ \A j \in DOMAIN toTimer : toTimer[j] = Insert(s) => j = i
  /\ running \subseteq Taken /\ Image(toM2) \subseteq Taken
  /\ \A s \in running : s \notin Image(toM2)
  /\ \A i, j \in DOMAIN toM2 : toM2[i] = toM2[j] => i = j

\* A packet has its timer, and a timer its packet or a cancel on its way.
TimedInv ==
  /\ \A s \in Taken :
       ~Free(s) => Insert(s) \in Image(toTimer) \/ s \in running \/ s \in Image(toM2)
  /\ \A s \in running : ~Free(s) \/ Cancel(s) \in Image(toTimer)
  /\ \A i \in DOMAIN toTimer, s \in Taken :
       /\ toTimer[i] = Cancel(s) => Free(s)
       /\ toTimer[i] = Insert(s) =>
            ~Free(s) \/ \E j \in DOMAIN toTimer : i < j /\ toTimer[j] = Cancel(s)

FitInv == SlotInv /\ OnceInv /\ TimedInv

IInv == AnyInv /\ (Fits => FitInv)

-----------------------------------------------------------------------------
(***************************************************************************)
(* Facts about sockets and packets.                                        *)
(***************************************************************************)
LEMMA AppendFacts ==
  ASSUME NEW S, NEW q \in Seq(S), NEW x \in S
  PROVE  /\ Append(q, x) \in Seq(S) /\ Append(q, x) # <<>>
         /\ Len(Append(q, x)) = Len(q) + 1
         /\ DOMAIN Append(q, x) = DOMAIN q \union {Len(q) + 1}
         /\ DOMAIN q = 1 .. Len(q) /\ Len(q) \in Nat
         /\ \A i \in DOMAIN q : Append(q, x)[i] = q[i]
         /\ Append(q, x)[Len(q) + 1] = x
         /\ Image(Append(q, x)) = Image(q) \union {x}
  <1>1. /\ Append(q, x) \in Seq(S) /\ Append(q, x) # <<>>
        /\ Len(Append(q, x)) = Len(q) + 1
        /\ DOMAIN Append(q, x) = DOMAIN q \union {Len(q) + 1}
        /\ DOMAIN q = 1 .. Len(q) /\ Len(q) \in Nat
        /\ \A i \in DOMAIN q : Append(q, x)[i] = q[i]
        /\ Append(q, x)[Len(q) + 1] = x
    OBVIOUS
  <1>2. Image(Append(q, x)) = Image(q) \union {x}
    BY <1>1 DEF Image
  <1> QED BY <1>1, <1>2

LEMMA TailFacts ==
  ASSUME NEW S, NEW q \in Seq(S), q # <<>>
  PROVE  /\ 1 \in DOMAIN q /\ Head(q) = q[1] /\ Head(q) \in S
         /\ Tail(q) \in Seq(S) /\ Len(Tail(q)) = Len(q) - 1
         /\ Len(q) \in Nat \ {0} /\ DOMAIN q = 1 .. Len(q)
         /\ DOMAIN Tail(q) = 1 .. Len(q) - 1
         /\ \A i \in DOMAIN Tail(q) : i + 1 \in DOMAIN q /\ Tail(q)[i] = q[i + 1]
         /\ \A i \in DOMAIN q : i = 1 \/ (i - 1 \in DOMAIN Tail(q) /\ q[i] = Tail(q)[i - 1])
         /\ Image(q) = Image(Tail(q)) \union {Head(q)}
  <1>1. /\ Len(q) \in Nat \ {0} /\ DOMAIN q = 1 .. Len(q)
        /\ 1 \in DOMAIN q /\ Head(q) = q[1] /\ Head(q) \in S
    BY EmptySeq
  <1>2. /\ Tail(q) \in Seq(S) /\ Len(Tail(q)) = Len(q) - 1
        /\ DOMAIN Tail(q) = 1 .. Len(q) - 1
        /\ \A i \in DOMAIN Tail(q) : Tail(q)[i] = q[i + 1]
    BY <1>1, HeadTailProperties
  <1>3. /\ \A i \in DOMAIN Tail(q) : i + 1 \in DOMAIN q
        /\ \A i \in DOMAIN q : i = 1 \/ (i - 1 \in DOMAIN Tail(q) /\ q[i] = Tail(q)[i - 1])
    BY <1>1, <1>2
  <1>4. Image(q) \subseteq Image(Tail(q)) \union {Head(q)}
    <2>1. ASSUME NEW i \in DOMAIN q
          PROVE  q[i] \in Image(Tail(q)) \union {Head(q)}
      BY <1>1, <1>3 DEF Image
    <2> QED BY <2>1 DEF Image
  <1>5. Image(Tail(q)) \subseteq Image(q) /\ Head(q) \in Image(q)
    BY <1>1, <1>2, <1>3 DEF Image
  <1> QED BY <1>1, <1>2, <1>3, <1>4, <1>5

LEMMA PacketFacts ==
  /\ \A s \in Sequence :
       /\ s \in Int /\ Packet(s).sequence_number = s
       /\ Packet(s) # FinalAck /\ Packet(s) # Blank /\ Packet(s) # NULL
       /\ \A t \in Sequence : Packet(s) = Packet(t) => s = t
  /\ Blank # NULL /\ Blank.sequence_number = -1 /\ Blank # FinalAck
  /\ FinalAck.FYN /\ FinalAck.sequence_number = 1
  <1>1. ASSUME NEW s \in Sequence
        PROVE  /\ s \in Int /\ Packet(s).sequence_number = s
               /\ Packet(s) # FinalAck /\ Packet(s) # Blank /\ Packet(s) # NULL
    <2>1. s \in Int /\ Packet(s).sequence_number = s /\ Packet(s) \in DataPacket
      BY LastSeqAssumption DEF Sequence, Packet, DataPacket
    <2>2. Packet(s) # FinalAck
      <3>1. Packet(s).FYN <=> s = LastSeq
        BY DEF Packet
      <3>2. FinalAck.FYN /\ FinalAck.sequence_number = 1
        BY DEF FinalAck
      <3> QED BY <2>1, <3>1, <3>2, LastSeqAssumption
    <2>3. Packet(s) # Blank
      BY <2>1 DEF Blank, Sequence
    <2> QED BY <2>1, <2>2, <2>3, NULLAssumption
  <1>2. Blank # NULL
    <2>1. Blank \in DataPacket
      BY DEF Blank, DataPacket
    <2> QED BY <2>1, NULLAssumption
  <1>3. /\ Blank.sequence_number = -1 /\ Blank # FinalAck
        /\ FinalAck.FYN /\ FinalAck.sequence_number = 1
    BY DEF Blank, FinalAck
  <1>4. \A s, t \in Sequence : Packet(s) = Packet(t) => s = t
    BY <1>1
  <1> QED BY <1>1, <1>2, <1>3, <1>4

\* The contents of the ring.
Contents == {Packet(s) : s \in Sequence} \union {Blank, NULL}

\* The numbers read are numbers of the transfer.
LEMMA CountFacts ==
  ASSUME TypeOK, FtpcInv
  PROVE  /\ Count \in Nat /\ Count <= LastSeq + 1 /\ Count <= sequence_number
         /\ Taken = 0 .. Count - 1 /\ Taken \subseteq Sequence
         /\ cB \in Buffers(Contents)
         /\ sequence_number \in Nat /\ Len(ftpcToM2) \in Nat
         /\ Len(ftpcToM2) = sequence_number - Count
  <1>1. sequence_number \in 0 .. LastSeq + 1 /\ Len(ftpcToM2) \in Nat
    BY DEF TypeOK
  <1>2. /\ Count \in Nat /\ Count <= LastSeq + 1 /\ Count <= sequence_number
        /\ Len(ftpcToM2) = sequence_number - Count /\ sequence_number \in Nat
    BY <1>1, LastSeqAssumption DEF FtpcInv, Count
  <1>3. cB \in Buffers(Contents)
    BY DEF TypeOK, Buffers, Contents
  <1>4. Taken \subseteq Sequence
    BY <1>2, LastSeqAssumption DEF Taken, Sequence
  <1> QED BY <1>1, <1>2, <1>3, <1>4 DEF Taken

LEMMA InitIInv == Init => IInv
  <1> SUFFICES ASSUME Init PROVE IInv
    OBVIOUS
  <1>1. /\ fpc = "header" /\ sequence_number = 0 /\ flag = 0 /\ zero_byte_flag = 0
        /\ ftpcToM2 = <<>> /\ toFtpc = <<>>
    BY DEF Init, Ftpc!Init
  <1>2. /\ m2pc = "select" /\ readset = {} /\ dontcheckNum = -1
        /\ cB = [start |-> 0, end |-> 0, packets |-> [i \in Ring |-> Blank]]
        /\ toTimer = <<>> /\ toM2 = <<>> /\ m2m1 = {} /\ m1m2 = {}
    BY DEF Init, M2!Init, M2!CircularBufferInitialization, M2!Ring, Ring, M2!Blank, Blank
  <1>3. running = {} /\ received = {} /\ receiving = TRUE
    BY DEF Init, Timer!Init, M1!Init
  <1>4. 0 \in Ring
    BY SizeAssumption DEF Ring
  <1>5. /\ cB \in [start : Ring, end : Ring,
                   packets : [Ring -> {Packet(s) : s \in Sequence} \union {Blank, NULL}]]
        /\ cB.start = 0 /\ cB.end = 0 /\ \A i \in Ring : cB.packets[i] = Blank
    BY <1>2, <1>4
  <1>6. TypeOK
    <2>1. sequence_number \in 0 .. LastSeq + 1 /\ flag \in 0 .. 1 /\ zero_byte_flag \in 0 .. 1
      BY <1>1, LastSeqAssumption
    <2>2. \A S : <<>> \in Seq(S)
      OBVIOUS
    <2> QED BY <1>1, <1>2, <1>3, <1>5, <2>1, <2>2 DEF TypeOK
  <1>7. Count = 0 /\ Taken = {}
    <2>1. Len(ftpcToM2) = 0 /\ sequence_number = 0
      BY <1>1
    <2>2. Count = 0
      BY <2>1 DEF Count
    <2> QED BY <2>2 DEF Taken
  <1>8. ReadInv /\ FtpcInv /\ SentInv
    <2>1. FtpcInv
      BY <1>1, <1>7, LastSeqAssumption DEF FtpcInv
    <2> QED BY <1>2, <1>3, <1>5, <1>7, <2>1 DEF ReadInv, SentInv
  <1>9. ShutInv /\ HoldInv
    BY <1>1, <1>2, <1>3 DEF ShutInv, ShutdownOrder, HoldInv, HoldsWhileFull, Image
  <1>10. FullNotBare
    <2>1. cB \in Buffers(Contents)
      BY <1>6 DEF TypeOK, Buffers, Contents
    <2> QED BY <1>5, <2>1, WindowFacts, SizeAssumption DEF FullNotBare
  <1>11. FitInv
    BY <1>1, <1>2, <1>3, <1>5, <1>7 DEF FitInv, SlotInv, OnceInv, TimedInv, Image, Free, Ring
  <1>12. PendingInv
    <2>1. cB \in Buffers(Contents)
      BY <1>6 DEF TypeOK, Buffers, Contents
    <2>2. Window(cB) = {}
      BY <1>5, <2>1, WindowFacts DEF Ring
    <2> QED BY <1>2, <2>2 DEF PendingInv, Cancelled, Image
  <1> QED BY <1>6, <1>8, <1>9, <1>10, <1>11, <1>12 DEF IInv, AnyInv

\* Requests are told apart by their type and number.
LEMMA RequestForms ==
  \A s, t : /\ Insert(s).type = "insert" /\ Insert(s).sequence_number = s
            /\ Cancel(s).type = "cancel" /\ Cancel(s).sequence_number = s
            /\ Insert(s) # Cancel(t)
            /\ Insert(s) = Insert(t) => s = t
            /\ Cancel(s) = Cancel(t) => s = t
  <1> SUFFICES ASSUME NEW s, NEW t
               PROVE  /\ Insert(s).type = "insert" /\ Insert(s).sequence_number = s
                      /\ Cancel(s).type = "cancel" /\ Cancel(s).sequence_number = s
                      /\ Insert(s) # Cancel(t)
                      /\ Insert(s) = Insert(t) => s = t
                      /\ Cancel(s) = Cancel(t) => s = t
    OBVIOUS
  <1>1. /\ Insert(s).type = "insert" /\ Insert(s).sequence_number = s
        /\ Cancel(s).type = "cancel" /\ Cancel(s).sequence_number = s
        /\ Insert(t).sequence_number = t
        /\ Cancel(t).type = "cancel" /\ Cancel(t).sequence_number = t
    BY DEF Insert, Cancel
  <1> QED BY <1>1

-----------------------------------------------------------------------------
(***************************************************************************)
(* ftpc's steps.                                                           *)
(***************************************************************************)
\* ftpc sends the next packet or none, and reads one message or none.
LEMMA FtpcFacts ==
  ASSUME AnyInv, FtpcStep
  PROVE  /\ UNCHANGED <<m2pc, readset, cB, dontcheckNum, running, received, receiving,
                        toTimer, toM2, m2m1, m1m2>>
         /\ fpc' \in {"header", "data", "status", "done", "crashed"}
         /\ flag' \in 0 .. 1 /\ zero_byte_flag' \in 0 .. 1
         /\ fpc' = "header" => sequence_number' <= 1
         /\ zero_byte_flag' = 0 => sequence_number' <= LastSeq
         /\ \/ UNCHANGED <<sequence_number, ftpcToM2>>
            \/ /\ sequence_number \in Sequence /\ sequence_number' = sequence_number + 1
               /\ ftpcToM2' = Append(ftpcToM2, Packet(sequence_number))
         /\ \/ /\ UNCHANGED toFtpc
               /\ fpc' = "done" => fpc = "done"
               /\ zero_byte_flag' = 0 => UNCHANGED <<flag, zero_byte_flag>>
            \/ /\ toFtpc # <<>> /\ toFtpc' = Tail(toFtpc) /\ UNCHANGED zero_byte_flag
               /\ fpc' = "done" => Head(toFtpc) = "acked"
               /\ flag' = 1 => Head(toFtpc) \in {"full", "acked"}
  <1>1. UNCHANGED <<m2pc, readset, cB, dontcheckNum, running, received, receiving,
                    toTimer, toM2, m2m1, m1m2>>
    BY DEF FtpcStep, m2Vars, m1Vars
  <1>2. /\ sequence_number \in 0 .. LastSeq + 1 /\ sequence_number \in Int
        /\ fpc \in {"header", "data", "status", "done", "crashed"}
        /\ flag \in 0 .. 1 /\ zero_byte_flag \in 0 .. 1
        /\ fpc = "header" => sequence_number <= 1
        /\ zero_byte_flag = 0 => sequence_number <= LastSeq
        /\ LastSeq \in Nat /\ LastSeq >= 2
    BY LastSeqAssumption DEF AnyInv, TypeOK, FtpcInv
  <1>3. /\ toFtpc \in Seq({"full", "empty", "acked"})
        /\ toFtpc # <<>> => Head(toFtpc) \in {"full", "empty", "acked"}
    BY TailFacts DEF AnyInv, TypeOK
  <1> USE DEF Ftpc!Packet, Packet, Sequence
  <1>4. CASE Ftpc!SendHeader \/ Ftpc!SendData
    BY <1>1, <1>2, <1>4 DEF Ftpc!SendHeader, Ftpc!SendData, Ftpc!SendPacket
  <1>5. CASE Ftpc!EndOfFile
    BY <1>1, <1>2, <1>5 DEF Ftpc!EndOfFile, Ftpc!FynDue, Ftpc!SendPacket
  <1>6. CASE Ftpc!NoFile \/ Ftpc!Hold \/ Ftpc!NoStatus
    BY <1>1, <1>2, <1>6 DEF Ftpc!NoFile, Ftpc!Hold, Ftpc!NoStatus
  <1>7. CASE Ftpc!ReadStatus
    BY <1>1, <1>2, <1>3, <1>7 DEF Ftpc!ReadStatus, Ftpc!FlagAfter
  <1> QED BY <1>4, <1>5, <1>6, <1>7 DEF FtpcStep, Ftpc!Step

\* What ftpc sends does not change what TCPD_M2 has read.
LEMMA FtpcNumbers ==
  ASSUME AnyInv, FtpcStep
  PROVE  /\ Count' = Count /\ Taken' = Taken
         /\ sequence_number' \in 0 .. LastSeq + 1
         /\ ftpcToM2' \in Seq({Packet(s) : s \in Sequence})
         /\ FtpcInv'
         /\ ftpcToM2 # <<>> => ftpcToM2' # <<>>
  <1>1. /\ Count \in Nat /\ Count <= sequence_number /\ sequence_number \in Nat
        /\ Len(ftpcToM2) = sequence_number - Count /\ Len(ftpcToM2) \in Nat
        /\ sequence_number \in 0 .. LastSeq + 1
        /\ ftpcToM2 \in Seq({Packet(s) : s \in Sequence})
        /\ \A i \in DOMAIN ftpcToM2 : ftpcToM2[i] = Packet(Count + i - 1)
    BY CountFacts DEF AnyInv, TypeOK, FtpcInv
  <1>2. CASE UNCHANGED <<sequence_number, ftpcToM2>>
    <2>1. Count' = Count
      BY <1>2 DEF Count
    <2> QED BY <1>1, <1>2, <2>1, FtpcFacts DEF Taken, FtpcInv
  <1>3. CASE /\ sequence_number \in Sequence /\ sequence_number' = sequence_number + 1
             /\ ftpcToM2' = Append(ftpcToM2, Packet(sequence_number))
    <2>1. /\ ftpcToM2' \in Seq({Packet(s) : s \in Sequence}) /\ ftpcToM2' # <<>>
          /\ Len(ftpcToM2') = Len(ftpcToM2) + 1
          /\ DOMAIN ftpcToM2' = DOMAIN ftpcToM2 \union {Len(ftpcToM2) + 1}
          /\ \A i \in DOMAIN ftpcToM2 : ftpcToM2'[i] = ftpcToM2[i]
          /\ ftpcToM2'[Len(ftpcToM2) + 1] = Packet(sequence_number)
      <3> DEFINE P == {Packet(s) : s \in Sequence}
      <3>1. ftpcToM2 \in Seq(P) /\ Packet(sequence_number) \in P
        BY <1>1, <1>3
      <3> HIDE DEF P
      <3>2. /\ Append(ftpcToM2, Packet(sequence_number)) \in Seq(P)
            /\ Append(ftpcToM2, Packet(sequence_number)) # <<>>
        BY <3>1, AppendFacts
      <3>3. /\ Len(ftpcToM2') = Len(ftpcToM2) + 1
            /\ DOMAIN ftpcToM2' = DOMAIN ftpcToM2 \union {Len(ftpcToM2) + 1}
            /\ \A i \in DOMAIN ftpcToM2 : ftpcToM2'[i] = ftpcToM2[i]
            /\ ftpcToM2'[Len(ftpcToM2) + 1] = Packet(sequence_number)
        BY <1>3, <3>1, AppendFacts
      <3> QED BY <1>3, <3>2, <3>3 DEF P
    <2>2. Count' = Count
      BY <1>1, <1>3, <2>1 DEF Count
    <2>3. sequence_number' \in 0 .. LastSeq + 1
      BY <1>3, LastSeqAssumption DEF Sequence
    <2>4. \A i \in DOMAIN ftpcToM2' : ftpcToM2'[i] = Packet(Count + i - 1)
      <3>1. sequence_number = Count + (Len(ftpcToM2) + 1) - 1
        BY <1>1
      <3> QED BY <1>1, <2>1, <3>1
    <2>5. FtpcInv'
      BY <1>1, <2>2, <2>4, FtpcFacts DEF FtpcInv
    <2> QED BY <2>1, <2>2, <2>3, <2>5 DEF Taken
  <1> QED BY <1>2, <1>3, FtpcFacts

LEMMA FtpcAnyInv == AnyInv /\ FtpcStep => AnyInv'
  <1> SUFFICES ASSUME AnyInv, FtpcStep PROVE AnyInv'
    OBVIOUS
  <1>1. UNCHANGED <<m2pc, readset, cB, dontcheckNum, running, received, receiving,
                    toTimer, toM2, m2m1, m1m2>>
    BY FtpcFacts
  <1>2. toFtpc' = toFtpc \/ (toFtpc # <<>> /\ toFtpc' = Tail(toFtpc))
    BY FtpcFacts
  <1>3. toFtpc \in Seq({"full", "empty", "acked"})
    BY DEF AnyInv, TypeOK
  <1>4. /\ toFtpc' \in Seq({"full", "empty", "acked"})
        /\ Image(toFtpc') \subseteq Image(toFtpc)
    <2>1. toFtpc # <<>> => /\ Tail(toFtpc) \in Seq({"full", "empty", "acked"})
                           /\ Image(toFtpc) = Image(Tail(toFtpc)) \union {Head(toFtpc)}
      BY <1>3, TailFacts
    <2> QED BY <1>2, <1>3, <2>1
  <1>5. TypeOK'
    BY <1>1, <1>4, FtpcFacts, FtpcNumbers DEF AnyInv, TypeOK
  <1>6. ReadInv' /\ FtpcInv'
    BY <1>1, FtpcNumbers DEF AnyInv, ReadInv
  <1>7. SentInv'
    BY <1>1, FtpcNumbers DEF AnyInv, SentInv
  <1>8. ShutInv'
    <2>1. fpc' = "done" => m2pc = "closed"
      <3>1. CASE fpc = "done"
        BY <3>1 DEF AnyInv, ShutInv, ShutdownOrder
      <3>2. CASE toFtpc # <<>> /\ Head(toFtpc) = "acked"
        BY <1>3, <3>2, TailFacts DEF AnyInv, ShutInv
      <3> QED BY <3>1, <3>2, FtpcFacts
    <2> QED BY <1>1, <1>4, <2>1 DEF AnyInv, ShutInv, ShutdownOrder
  <1>9. FullNotBare' /\ (Open <=> Open') /\ cB' = cB
    BY <1>1 DEF AnyInv, FullNotBare, Open
  <1>10. HoldInv'
    <2> SUFFICES ASSUME Open, ~CircularBufferFull(cB) PROVE HoldInv'
      BY <1>1, <1>9 DEF HoldInv, HoldsWhileFull
    <2>1. CASE toFtpc' = toFtpc /\ (zero_byte_flag' = 0 => UNCHANGED <<flag, zero_byte_flag>>)
      BY <1>9, <2>1 DEF AnyInv, HoldInv, HoldsWhileFull
    <2>2. CASE /\ toFtpc # <<>> /\ toFtpc' = Tail(toFtpc)
               /\ flag' = 1 => Head(toFtpc) \in {"full", "acked"}
      <3>1. /\ 1 \in DOMAIN toFtpc /\ Head(toFtpc) = toFtpc[1]
            /\ \A i \in DOMAIN toFtpc' : i + 1 \in DOMAIN toFtpc /\ toFtpc'[i] = toFtpc[i + 1]
            /\ \A i \in DOMAIN toFtpc : \/ i = 1
                                        \/ i - 1 \in DOMAIN toFtpc' /\ toFtpc[i] = toFtpc'[i - 1]
            /\ DOMAIN toFtpc' = 1 .. Len(toFtpc) - 1 /\ Len(toFtpc) \in Nat
            /\ DOMAIN toFtpc = 1 .. Len(toFtpc)
            /\ Head(toFtpc) \in Image(toFtpc)
        BY <1>3, <2>2, TailFacts
      <3>2. \A i \in DOMAIN toFtpc :
              toFtpc[i] = "full" => \E j \in DOMAIN toFtpc : i < j /\ toFtpc[j] = "empty"
        BY DEF AnyInv, HoldInv
      <3>3. Head(toFtpc) # "acked"
        BY <3>1 DEF AnyInv, ShutInv, Open
      <3>4. flag' = 1 => "empty" \in Image(toFtpc')
        <4> SUFFICES ASSUME toFtpc[1] = "full" PROVE "empty" \in Image(toFtpc')
          BY <2>2, <3>1, <3>3
        <4>1. PICK j \in DOMAIN toFtpc : 1 < j /\ toFtpc[j] = "empty"
          BY <3>1, <3>2
        <4> QED BY <3>1, <4>1 DEF Image
      <3>5. ASSUME NEW i \in DOMAIN toFtpc', toFtpc'[i] = "full"
            PROVE  \E j \in DOMAIN toFtpc' : i < j /\ toFtpc'[j] = "empty"
        <4>1. PICK j \in DOMAIN toFtpc : i + 1 < j /\ toFtpc[j] = "empty"
          BY <3>1, <3>2, <3>5
        <4>2. j - 1 \in DOMAIN toFtpc' /\ toFtpc'[j - 1] = "empty" /\ i < j - 1
          BY <3>1, <4>1
        <4> QED BY <4>2
      <3> QED BY <1>9, <3>4, <3>5 DEF HoldInv, HoldsWhileFull
    <2> QED BY <2>1, <2>2, FtpcFacts
  <1>11. PendingInv'
    BY <1>1, FtpcNumbers DEF AnyInv, PendingInv, Cancelled, Timed, Queued, Open
  <1> QED BY <1>5, <1>6, <1>7, <1>8, <1>9, <1>10, <1>11 DEF AnyInv

-----------------------------------------------------------------------------
(***************************************************************************)
(* The network: TCPD_M1's steps, and losses.                               *)
(***************************************************************************)
\* Packets only disappear, and acknowledgements are of what TCPD_M1 has.
LEMMA NetworkFacts ==
  ASSUME AnyInv, M1Step \/ TrollLoses
  PROVE  /\ UNCHANGED <<ftpcVars, m2Vars, running, ftpcToM2, toFtpc, toTimer, toM2>>
         /\ m2m1' \subseteq m2m1
         /\ received \subseteq received' /\ received' \subseteq Taken
         /\ receiving' \in BOOLEAN
         /\ receiving' = receiving \/ m2pc = "closed"
         /\ \A a \in m1m2' : \/ a \in m1m2
                             \/ /\ a \in [sequence_number : Sequence, FYN : BOOLEAN]
                                /\ a.sequence_number \in received'
                                /\ a.FYN => LastSeq \in received'
  <1> USE DEF M1!After, M1!Garbled
  <1>1. UNCHANGED <<ftpcVars, m2Vars, running, ftpcToM2, toFtpc, toTimer, toM2>>
    BY DEF M1Step, TrollLoses
  <1>2. /\ receiving \in BOOLEAN /\ received \subseteq Taken /\ Taken \subseteq Sequence
        /\ m2m1 \subseteq {Packet(s) : s \in Taken} \union {FinalAck, Blank}
    BY CountFacts DEF AnyInv, TypeOK, SentInv
  <1>3. ASSUME NEW s \in Sequence, M1!Accept(s)
        PROVE  /\ m2m1' \subseteq m2m1
               /\ received' = received \union {s} /\ s \in Taken
               /\ receiving' = receiving
               /\ m1m2' = m1m2 \union {[sequence_number |-> s, FYN |-> LastSeq \in received']}
    <2>1. /\ Packet(s) \in m2m1 /\ m2m1' \subseteq m2m1
          /\ received' = received \union {s}
          /\ receiving' = receiving
          /\ m1m2' = m1m2 \union {[sequence_number |-> s, FYN |-> LastSeq \in received']}
      BY <1>3 DEF M1!Accept, M1!Packet, Packet
    <2>2. s \in Taken
      BY <1>2, <2>1, PacketFacts
    <2> QED BY <2>1, <2>2
  <1>4. CASE \E s \in Sequence : M1!Accept(s)
    <2>1. PICK s \in Sequence :
            /\ m2m1' \subseteq m2m1
            /\ received' = received \union {s} /\ s \in Taken
            /\ receiving' = receiving
            /\ m1m2' = m1m2 \union {[sequence_number |-> s, FYN |-> LastSeq \in received']}
      BY <1>3, <1>4
    <2>2. ASSUME NEW a \in m1m2', a \notin m1m2
          PROVE  /\ a \in [sequence_number : Sequence, FYN : BOOLEAN]
                 /\ a.sequence_number \in received'
                 /\ a.FYN => LastSeq \in received'
      <3>1. a = [sequence_number |-> s, FYN |-> LastSeq \in received']
        BY <2>1, <2>2
      <3>2. (LastSeq \in received') \in BOOLEAN
        OBVIOUS
      <3> QED BY <2>1, <3>1, <3>2
    <2> QED BY <1>1, <1>2, <2>1, <2>2
  <1>5. CASE \E p \in m2m1 : M1!Ignore(p)
    BY <1>1, <1>2, <1>5 DEF M1!Ignore
  <1>6. CASE M1!Stop
    <2>1. FinalAck \in m2m1 /\ m2m1' \subseteq m2m1 /\ receiving' = FALSE
          /\ UNCHANGED <<received, m1m2>>
      BY <1>6 DEF M1!Stop, M1!FinalAck, FinalAck
    <2> QED BY <1>1, <1>2, <2>1 DEF AnyInv, ShutInv
  <1>7. CASE M1!Lose
    BY <1>1, <1>2, <1>7 DEF M1!Lose
  <1>8. \A s : s \in M1!Sequence <=> s \in Sequence
    BY DEF M1!Sequence, Sequence
  <1> QED BY <1>4, <1>5, <1>6, <1>7, <1>8 DEF M1Step, TrollLoses, M1!Step

LEMMA NetworkAnyInv == AnyInv /\ (M1Step \/ TrollLoses) => AnyInv'
  <1> SUFFICES ASSUME AnyInv, M1Step \/ TrollLoses PROVE AnyInv'
    OBVIOUS
  <1>1. UNCHANGED <<ftpcVars, m2Vars, running, ftpcToM2, toFtpc, toTimer, toM2>>
    BY NetworkFacts
  <1> USE DEF ftpcVars, m2Vars
  <1>2. Count' = Count /\ Taken' = Taken /\ Taken \subseteq Sequence
    BY <1>1, CountFacts DEF AnyInv, Count, Taken
  <1>3. TypeOK'
    BY <1>1, <1>2, NetworkFacts DEF AnyInv, TypeOK
  <1>4. ReadInv' /\ FtpcInv'
    BY <1>1, <1>2 DEF AnyInv, ReadInv, FtpcInv
  <1>5. SentInv'
    BY <1>1, <1>2, NetworkFacts DEF AnyInv, SentInv
  <1>6. ShutInv'
    BY <1>1, NetworkFacts DEF AnyInv, ShutInv, ShutdownOrder
  <1>7. FullNotBare' /\ HoldInv'
    BY <1>1 DEF AnyInv, FullNotBare, HoldInv, HoldsWhileFull, Open
  <1>8. PendingInv'
    BY <1>1, <1>2 DEF AnyInv, PendingInv, Cancelled, Timed, Queued, Open
  <1> QED BY <1>3, <1>4, <1>5, <1>6, <1>7, <1>8 DEF AnyInv

-----------------------------------------------------------------------------
(***************************************************************************)
(* The timer process's steps.                                              *)
(***************************************************************************)
LEMMA TimerFacts ==
  ASSUME AnyInv, TimerStep
  PROVE  /\ UNCHANGED <<ftpcVars, m2Vars, m1Vars, ftpcToM2, toFtpc, m2m1, m1m2>>
         /\ \/ /\ toTimer # <<>> /\ toTimer' = Tail(toTimer) /\ UNCHANGED toM2
               /\ LET s == Head(toTimer).sequence_number IN
                  running' = IF Head(toTimer).type = "insert" THEN running \union {s}
                             ELSE running \ {s}
            \/ /\ UNCHANGED toTimer
               /\ \E s \in running :
                    running' = running \ {s} /\ toM2' = Append(toM2, s)
  BY DEF TimerStep, Timer!TimerStep, Timer!TakeRequest, Timer!Expire, Timer!CancelOne

LEMMA TimerAnyInv == AnyInv /\ TimerStep => AnyInv'
  <1> SUFFICES ASSUME AnyInv, TimerStep PROVE AnyInv'
    OBVIOUS
  <1>1. UNCHANGED <<ftpcVars, m2Vars, m1Vars, ftpcToM2, toFtpc, m2m1, m1m2>>
    BY TimerFacts
  <1> USE DEF ftpcVars, m2Vars, m1Vars
  <1>2. Count' = Count /\ Taken' = Taken
    BY <1>1 DEF Count, Taken
  <1> DEFINE N == Sequence \union {-1}
             R == [type : {"insert", "cancel"}, sequence_number : N]
  <1>3. toTimer \in Seq(R) /\ running \subseteq N /\ toM2 \in Seq(N)
    BY DEF AnyInv, TypeOK
  <1>4. /\ toTimer' \in Seq(R) /\ running' \subseteq N /\ toM2' \in Seq(N)
        /\ toM2 # <<>> => toM2' # <<>>
    <2> HIDE DEF N
    <2>1. CASE /\ toTimer # <<>> /\ toTimer' = Tail(toTimer) /\ UNCHANGED toM2
               /\ LET s == Head(toTimer).sequence_number IN
                  running' = IF Head(toTimer).type = "insert" THEN running \union {s}
                             ELSE running \ {s}
      <3>1. Tail(toTimer) \in Seq(R) /\ Head(toTimer) \in R
        <4> HIDE DEF R
        <4> QED BY <1>3, <2>1, TailFacts
      <3> QED BY <1>3, <2>1, <3>1
    <2>2. CASE /\ UNCHANGED toTimer
               /\ \E s \in running :
                    running' = running \ {s} /\ toM2' = Append(toM2, s)
      <3>1. PICK s \in running : running' = running \ {s} /\ toM2' = Append(toM2, s)
        BY <2>2
      <3>2. s \in N
        BY <1>3, <3>1
      <3>3. Append(toM2, s) \in Seq(N) /\ Append(toM2, s) # <<>>
        BY <1>3, <3>2, AppendFacts
      <3> QED BY <1>3, <2>2, <3>1, <3>3
    <2> QED BY <2>1, <2>2, TimerFacts
  <1>5. TypeOK'
    BY <1>1, <1>4 DEF AnyInv, TypeOK
  <1>6. ReadInv' /\ FtpcInv' /\ SentInv' /\ ShutInv'
    BY <1>1, <1>2, <1>4
    DEF AnyInv, ReadInv, FtpcInv, SentInv, ShutInv, ShutdownOrder
  <1>7. FullNotBare' /\ HoldInv'
    BY <1>1 DEF AnyInv, FullNotBare, HoldInv, HoldsWhileFull, Open
  <1>8. \A s \in Sequence : /\ Cancelled(s)' => Cancelled(s)
                            /\ Timed(s) /\ ~Cancelled(s) => Timed(s)'
    <2> SUFFICES ASSUME NEW s \in Sequence
                 PROVE  /\ Cancelled(s)' => Cancelled(s)
                        /\ Timed(s) /\ ~Cancelled(s) => Timed(s)'
      OBVIOUS
    <2>1. CASE /\ toTimer # <<>> /\ toTimer' = Tail(toTimer) /\ UNCHANGED toM2
               /\ LET t == Head(toTimer).sequence_number IN
                  running' = IF Head(toTimer).type = "insert" THEN running \union {t}
                             ELSE running \ {t}
      <3>1. Image(toTimer) = Image(toTimer') \union {Head(toTimer)} /\ Head(toTimer) \in R
        <4> HIDE DEF R
        <4> QED BY <1>3, <2>1, TailFacts
      <3>2. Head(toTimer) = Insert(s) => s \in running'
        BY <2>1 DEF Insert
      <3>3. s \in running /\ Head(toTimer) # Cancel(s) => s \in running'
        BY <2>1, <3>1 DEF Cancel
      <3> QED BY <2>1, <3>1, <3>2, <3>3 DEF Timed, Queued, Cancelled, Insert, Cancel
    <2>2. CASE /\ UNCHANGED toTimer
               /\ \E t \in running :
                    running' = running \ {t} /\ toM2' = Append(toM2, t)
      <3>1. PICK t \in running : running' = running \ {t} /\ toM2' = Append(toM2, t)
        BY <2>2
      <3>2. Image(toM2') = Image(toM2) \union {t}
        <4>1. t \in N
          BY <1>3, <3>1
        <4> HIDE DEF N
        <4> QED BY <1>3, <3>1, <4>1, AppendFacts
      <3> QED BY <2>2, <3>1, <3>2 DEF Timed, Queued, Cancelled
    <2> QED BY <2>1, <2>2, TimerFacts
  <1>9. PendingInv'
    BY <1>1, <1>2, <1>8 DEF AnyInv, PendingInv, Open
  <1> QED BY <1>5, <1>6, <1>7, <1>9 DEF AnyInv

-----------------------------------------------------------------------------
(***************************************************************************)
(* TCPD_M2's steps.                                                        *)
(***************************************************************************)
\* TCPD_M2's operators in the host are those of its own modules.
LEMMA SameBuffer ==
  \A cb, p :
    /\ M2!CircularBufferFull(cb) <=> CircularBufferFull(cb)
    /\ M2!CircularBufferEmpty(cb) <=> CircularBufferEmpty(cb)
    /\ M2!CircularBufferWrite(cb, p) = CircularBufferWrite(cb, p)
    /\ M2!CircularBufferFetch(cb, p) = CircularBufferFetch(cb, p)
    /\ M2!CircularBufferDelete(cb, p) = CircularBufferDelete(cb, p)
  BY DEF M2!CircularBufferFull, CircularBufferFull, M2!CircularBufferEmpty,
         CircularBufferEmpty, M2!CircularBufferWrite, CircularBufferWrite,
         M2!CircularBufferFetch, CircularBufferFetch, M2!CircularBufferDelete,
         CircularBufferDelete, M2!CircularBufferAdjustStart, CircularBufferAdjustStart

Requests == [type : {"insert", "cancel"}, sequence_number : Sequence \union {-1}]

\* A request for a timer is queued behind the others.
LEMMA RequestFacts ==
  ASSUME toTimer \in Seq(Requests), NEW s \in Sequence \union {-1}, NEW r \in {Insert(s), Cancel(s)}
  PROVE  /\ r \in Requests /\ r.sequence_number = s
         /\ Append(toTimer, r) \in Seq(Requests)
         /\ DOMAIN Append(toTimer, r) = DOMAIN toTimer \union {Len(toTimer) + 1}
         /\ DOMAIN toTimer = 1 .. Len(toTimer) /\ Len(toTimer) \in Nat
         /\ \A i \in DOMAIN toTimer : Append(toTimer, r)[i] = toTimer[i]
         /\ Append(toTimer, r)[Len(toTimer) + 1] = r
         /\ Image(Append(toTimer, r)) = Image(toTimer) \union {r}
  <1>1. r \in Requests /\ r.sequence_number = s
    BY DEF Insert, Cancel, Requests
  <1> QED BY <1>1, AppendFacts

\* The next packet from ftpc is the next in number.
LEMMA FromFtpcFacts ==
  ASSUME AnyInv, M2Step, M2!FromFtpc
  PROVE  /\ UNCHANGED <<ftpcVars, running, m1Vars, m2pc, dontcheckNum, toFtpc, toM2, m1m2>>
         /\ readset' = readset \ {"ftpc"}
         /\ ftpcToM2' = Tail(ftpcToM2)
         /\ ftpcToM2' \in Seq({Packet(s) : s \in Sequence})
         /\ Count \in Sequence /\ Count' = Count + 1 /\ Taken' = Taken \union {Count}
         /\ FtpcInv'
         /\ \/ CircularBufferFull(cB) /\ UNCHANGED <<cB, toTimer, m2m1>>
            \/ /\ ~CircularBufferFull(cB)
               /\ cB' = CircularBufferWrite(cB, Packet(Count))
               /\ toTimer' = Append(toTimer, Insert(Count))
               /\ m2m1' = m2m1 \/ m2m1' = m2m1 \union {Packet(Count)}
  <1> DEFINE P == {Packet(s) : s \in Sequence}
             p == Head(ftpcToM2)
  <1>1. /\ UNCHANGED <<ftpcVars, running, m1Vars, m2pc, dontcheckNum, toFtpc, toM2, m1m2>>
        /\ "ftpc" \in readset /\ readset' = readset \ {"ftpc"}
        /\ ftpcToM2' = Tail(ftpcToM2)
        /\ \/ M2!CircularBufferFull(cB) /\ UNCHANGED <<cB, toTimer, m2m1>>
           \/ /\ ~M2!CircularBufferFull(cB)
              /\ cB' = M2!CircularBufferWrite(cB, p)
              /\ toTimer' = Append(toTimer, Insert(p.sequence_number))
              /\ m2m1' = m2m1 \/ m2m1' = m2m1 \union {p}
    BY DEF M2Step, M2!FromFtpc, M2!Handles, M2!StartTimer, Insert
  <1>2. ftpcToM2 \in Seq(P) /\ ftpcToM2 # <<>>
    BY <1>1 DEF AnyInv, TypeOK, ReadInv
  <1>3. /\ Count \in Nat /\ Count <= sequence_number /\ sequence_number \in Nat
        /\ Len(ftpcToM2) = sequence_number - Count
        /\ sequence_number <= LastSeq + 1
        /\ \A i \in DOMAIN ftpcToM2 : ftpcToM2[i] = Packet(Count + i - 1)
    BY CountFacts DEF AnyInv, TypeOK, FtpcInv
  <1> HIDE DEF P
  <1>4. /\ 1 \in DOMAIN ftpcToM2 /\ p = ftpcToM2[1]
        /\ ftpcToM2' \in Seq(P) /\ Len(ftpcToM2') = Len(ftpcToM2) - 1
        /\ Len(ftpcToM2) \in Nat \ {0}
        /\ \A i \in DOMAIN ftpcToM2' :
             i + 1 \in DOMAIN ftpcToM2 /\ ftpcToM2'[i] = ftpcToM2[i + 1]
        /\ DOMAIN ftpcToM2' = 1 .. Len(ftpcToM2) - 1
    BY <1>1, <1>2, TailFacts
  <1>5. Count \in Sequence
    BY <1>3, <1>4, LastSeqAssumption DEF Sequence
  <1>6. p = Packet(Count) /\ p.sequence_number = Count
    <2>1. Count + 1 - 1 = Count
      BY <1>3
    <2>2. p = Packet(Count + 1 - 1)
      BY <1>3, <1>4
    <2> QED BY <1>5, <2>1, <2>2, PacketFacts
  <1>7. sequence_number' = sequence_number
    BY <1>1 DEF ftpcVars
  <1>8. Count' = Count + 1
    <2>1. Count' = sequence_number - Len(ftpcToM2')
      BY <1>7 DEF Count
    <2> QED BY <1>3, <1>4, <2>1
  <1>9. Taken' = Taken \union {Count}
    BY <1>3, <1>8 DEF Taken
  <1>10. FtpcInv'
    <2>1. \A i \in DOMAIN ftpcToM2' : ftpcToM2'[i] = Packet(Count' + i - 1)
      <3> SUFFICES ASSUME NEW i \in DOMAIN ftpcToM2'
                   PROVE  ftpcToM2'[i] = Packet(Count' + i - 1)
        OBVIOUS
      <3>1. ftpcToM2'[i] = Packet(Count + (i + 1) - 1)
        BY <1>3, <1>4
      <3>2. Count + (i + 1) - 1 = Count' + i - 1
        BY <1>3, <1>4, <1>8
      <3> QED BY <3>1, <3>2
    <2> QED BY <1>1, <1>3, <1>8, <2>1 DEF AnyInv, FtpcInv, ftpcVars
  <1> QED BY <1>1, <1>4, <1>5, <1>6, <1>8, <1>9, <1>10, SameBuffer DEF P

LEMMA FromFtpcAnyInv == AnyInv /\ M2Step /\ M2!FromFtpc => AnyInv'
  <1> SUFFICES ASSUME AnyInv, M2Step, M2!FromFtpc PROVE AnyInv'
    OBVIOUS
  <1>1. UNCHANGED <<ftpcVars, running, m1Vars, m2pc, dontcheckNum, toFtpc, toM2, m1m2>>
    BY FromFtpcFacts
  <1> USE DEF ftpcVars, m1Vars
  <1>2. /\ readset' = readset \ {"ftpc"}
        /\ ftpcToM2' \in Seq({Packet(s) : s \in Sequence})
        /\ Count \in Sequence /\ Taken' = Taken \union {Count} /\ FtpcInv'
    BY FromFtpcFacts
  <1>3. /\ toTimer \in Seq(Requests) /\ cB \in Buffers(Contents)
        /\ Packet(Count) \in Contents
    BY <1>2, CountFacts DEF AnyInv, TypeOK, Requests, Contents
  <1>4. CASE CircularBufferFull(cB) /\ UNCHANGED <<cB, toTimer, m2m1>>
    <2>1. TypeOK' /\ ReadInv' /\ SentInv'
      BY <1>1, <1>2, <1>4 DEF AnyInv, TypeOK, ReadInv, SentInv
    <2>2. ShutInv' /\ FullNotBare' /\ HoldInv'
      BY <1>1, <1>4 DEF AnyInv, ShutInv, ShutdownOrder, FullNotBare, HoldInv,
                        HoldsWhileFull, Open
    <2>3. PendingInv'
      BY <1>1, <1>2, <1>4 DEF AnyInv, PendingInv, Cancelled, Timed, Queued, Open
    <2> QED BY <1>2, <2>1, <2>2, <2>3 DEF AnyInv
  <1>5. CASE /\ ~CircularBufferFull(cB)
             /\ cB' = CircularBufferWrite(cB, Packet(Count))
             /\ toTimer' = Append(toTimer, Insert(Count))
             /\ m2m1' = m2m1 \/ m2m1' = m2m1 \union {Packet(Count)}
    <2>1. toTimer' \in Seq(Requests)
      BY <1>2, <1>3, <1>5, RequestFacts
    <2>2. /\ cB' \in Buffers(Contents)
          /\ cB'.packets[cB.end] = Packet(Count)
          /\ \A i \in Ring : i # cB.end => cB'.packets[i] = cB.packets[i]
          /\ cB.end \in Ring
          /\ Window(cB') = Window(cB) \union {cB.end}
      BY <1>3, <1>5, WriteFacts
    <2>3. m2m1' \subseteq m2m1 \union {Packet(Count)}
      BY <1>5
    <2>4. TypeOK'
      BY <1>1, <1>2, <2>1, <2>2, <2>3 DEF AnyInv, TypeOK, Requests, Buffers, Contents
    <2>5. ReadInv' /\ SentInv'
      BY <1>1, <1>2, <2>2, <2>3 DEF AnyInv, ReadInv, SentInv
    <2>6. ShutInv'
      BY <1>1, <1>2, <2>3, PacketFacts DEF AnyInv, ShutInv, ShutdownOrder
    <2>7. Held(cB') # {}
      <3>1. Packet(Count) # NULL /\ cB.end \in Window(cB')
        BY <1>2, <2>2, PacketFacts
      <3>2. Packet(Count) \in Held(cB')
        BY <2>2, <3>1 DEF Held
      <3> QED BY <3>2
    <2>8. FullNotBare' /\ HoldInv'
      BY <1>1, <1>5, <2>7 DEF AnyInv, FullNotBare, HoldInv, HoldsWhileFull, Open
    <2>9. Image(toTimer') = Image(toTimer) \union {Insert(Count)}
      BY <1>2, <1>3, <1>5, RequestFacts
    <2>10. \A s : /\ Cancelled(s)' <=> Cancelled(s)
                  /\ Timed(s) \/ s = Count => Timed(s)'
      BY <1>1, <2>9, RequestForms DEF Cancelled, Timed, Queued, Insert, Cancel
    <2>11. ASSUME NEW s \in Sequence,
                  s % Size \in Window(cB'), cB'.packets[s % Size] = Packet(s)
           PROVE  \/ s = Count
                  \/ s % Size \in Window(cB) /\ cB.packets[s % Size] = Packet(s)
      <3>1. CASE s % Size = cB.end
        BY <1>2, <2>2, <2>11, <3>1, PacketFacts
      <3>2. CASE s % Size # cB.end
        <4>1. s % Size \in Window(cB) /\ s % Size \in Ring
          BY <2>2, <2>11, <3>2 DEF Window
        <4> QED BY <2>2, <2>11, <3>2, <4>1
      <3> QED BY <3>1, <3>2
    <2>12. Count \notin Taken /\ Count # -1
      BY CountFacts DEF AnyInv
    <2>13. PendingInv'
      BY <1>1, <1>2, <2>10, <2>11, <2>12 DEF AnyInv, PendingInv, Open
    <2> QED BY <1>2, <2>4, <2>5, <2>6, <2>8, <2>13 DEF AnyInv
  <1> QED BY <1>4, <1>5, FromFtpcFacts

\* An acknowledgement frees what its number stands for and is answered.
LEMMA FromTrollFacts ==
  ASSUME AnyInv, M2Step, NEW a \in m1m2, M2!FromTroll(a)
  PROVE  LET s == a.sequence_number IN
         /\ UNCHANGED <<ftpcVars, running, m1Vars, ftpcToM2, toM2>>
         /\ readset' = readset \ {"troll"}
         /\ m1m2' \subseteq m1m2
         /\ s \in received /\ s \in Taken /\ s \in Nat /\ s \in Sequence
         /\ cB' = CircularBufferDelete(cB, s)
         /\ toTimer' = Append(toTimer, Cancel(s))
         /\ dontcheckNum' = s
         /\ toFtpc' \in Seq({"full", "empty", "acked"})
         /\ \A i \in DOMAIN toFtpc : i \in DOMAIN toFtpc' /\ toFtpc'[i] = toFtpc[i]
         /\ \A i \in DOMAIN toFtpc' : i \in DOMAIN toFtpc \/ toFtpc'[i] \in {"empty", "acked"}
         /\ ~CircularBufferFull(cB') =>
              \E j \in DOMAIN toFtpc' : /\ toFtpc'[j] = "empty"
                                        /\ \A i \in DOMAIN toFtpc : i < j
         /\ \/ /\ a.FYN /\ LastSeq \in received
               /\ m2m1' = m2m1 \union {FinalAck} /\ m2pc' = "closed"
            \/ /\ ~a.FYN /\ UNCHANGED <<m2m1, m2pc>>
               /\ \A i \in DOMAIN toFtpc' : i \in DOMAIN toFtpc \/ toFtpc'[i] = "empty"
  <1> DEFINE s == a.sequence_number
             M == {"full", "empty", "acked"}
             room == IF CircularBufferFull(cB') THEN <<>> ELSE <<"empty">>
             last == IF a.FYN THEN <<"acked">> ELSE <<>>
  <1>1. /\ UNCHANGED <<ftpcVars, running, m1Vars, ftpcToM2, toM2>>
        /\ readset' = readset \ {"troll"}
        /\ m1m2' \subseteq m1m2
        /\ cB' = CircularBufferDelete(cB, s)
        /\ toTimer' = Append(toTimer, Cancel(s))
        /\ dontcheckNum' = s
    BY SameBuffer DEF M2Step, M2!FromTroll, M2!Handles, M2!CancelTimer, Cancel
  <1>2. s \in received /\ s \in Taken /\ s \in Nat /\ s \in Sequence
    BY CountFacts, LastSeqAssumption DEF AnyInv, SentInv, Sequence
  <1>3. toFtpc' = toFtpc \o room \o last
    BY SameBuffer DEF M2!FromTroll, M2!EndsTransfer
  <1>4. \/ /\ a.FYN /\ LastSeq \in received
           /\ m2m1' = m2m1 \union {FinalAck} /\ m2pc' = "closed"
        \/ ~a.FYN /\ UNCHANGED <<m2m1, m2pc>>
    BY DEF M2!FromTroll, M2!EndsTransfer, M2!FinalAck, FinalAck, AnyInv, SentInv
  <1>5. toFtpc \in Seq(M)
    BY DEF AnyInv, TypeOK
  <1> DEFINE k == Len(room)
             l == Len(last)
  <1>6. /\ room \in Seq(M) /\ k \in 0 .. 1
        /\ k = 1 => room[1] = "empty"
        /\ ~CircularBufferFull(cB') => k = 1
    <2>1. CASE CircularBufferFull(cB')
      BY <2>1
    <2>2. CASE ~CircularBufferFull(cB')
      BY <2>2
    <2> QED BY <2>1, <2>2
  <1>7. /\ last \in Seq(M) /\ l \in 0 .. 1
        /\ l = 1 => a.FYN /\ last[1] = "acked"
    <2>1. CASE a.FYN
      BY <2>1
    <2>2. CASE ~a.FYN
      BY <2>2
    <2> QED BY <2>1, <2>2
  <1> DEFINE n == Len(toFtpc)
             first == toFtpc \o room
  <1>8. /\ first \in Seq(M)
        /\ Len(first) = n + k
        /\ \A i \in 1 .. n + k : first[i] = IF i <= n THEN toFtpc[i] ELSE room[i - n]
    <2> HIDE DEF M, room
    <2> QED BY <1>5, <1>6, ConcatProperties
  <1>9. /\ toFtpc' \in Seq(M)
        /\ Len(toFtpc') = Len(first) + l
        /\ \A i \in 1 .. Len(first) + l :
             toFtpc'[i] = IF i <= Len(first) THEN first[i] ELSE last[i - Len(first)]
    <2>1. toFtpc' = first \o last
      BY <1>3
    <2> HIDE DEF M, first, last
    <2> QED BY <1>7, <1>8, <2>1, ConcatProperties
  <1> HIDE DEF M, first, room, last, k, l
  <1>10. /\ DOMAIN toFtpc = 1 .. n /\ n \in Nat
         /\ DOMAIN toFtpc' = 1 .. n + k + l
    BY <1>5, <1>6, <1>7, <1>8, <1>9, LenProperties
  <1> HIDE DEF n
  <1>11. ASSUME NEW i \in DOMAIN toFtpc PROVE i \in DOMAIN toFtpc' /\ toFtpc'[i] = toFtpc[i]
    BY <1>6, <1>7, <1>8, <1>9, <1>10, <1>11
  <1>12. ASSUME NEW i \in DOMAIN toFtpc', i \notin DOMAIN toFtpc
         PROVE  toFtpc'[i] = "empty" \/ (a.FYN /\ toFtpc'[i] = "acked")
    <2>1. CASE i <= n + k
      <3>1. i = n + 1 /\ k = 1
        BY <1>6, <1>7, <1>10, <1>12, <2>1
      <3>2. toFtpc'[i] = first[i] /\ first[i] = room[i - n] /\ i - n = 1
        BY <1>6, <1>7, <1>8, <1>9, <1>10, <3>1
      <3> QED BY <1>6, <3>1, <3>2
    <2>2. CASE i > n + k
      <3>1. i = n + k + 1 /\ l = 1
        BY <1>6, <1>7, <1>10, <2>2
      <3>2. toFtpc'[i] = last[i - Len(first)] /\ i - Len(first) = 1
        BY <1>6, <1>7, <1>8, <1>9, <1>10, <3>1
      <3> QED BY <1>7, <3>1, <3>2
    <2> QED BY <1>6, <1>10, <2>1, <2>2
  <1>13. ASSUME ~CircularBufferFull(cB')
         PROVE  \E j \in DOMAIN toFtpc' : /\ toFtpc'[j] = "empty"
                                          /\ \A i \in DOMAIN toFtpc : i < j
    <2>1. k = 1 /\ n + 1 \in DOMAIN toFtpc'
      BY <1>6, <1>7, <1>10, <1>13
    <2>2. toFtpc'[n + 1] = first[n + 1] /\ first[n + 1] = room[(n + 1) - n] /\ (n + 1) - n = 1
      BY <1>7, <1>8, <1>9, <1>10, <2>1
    <2> QED BY <1>6, <1>10, <2>1, <2>2
  <1> QED BY <1>1, <1>2, <1>4, <1>9, <1>11, <1>12, <1>13 DEF M

LEMMA FromTrollAnyInv ==
  ASSUME AnyInv, M2Step, NEW a \in m1m2, M2!FromTroll(a)
  PROVE  AnyInv'
  <1> DEFINE s == a.sequence_number
  <1>1. /\ UNCHANGED <<ftpcVars, running, m1Vars, ftpcToM2, toM2>>
        /\ readset' = readset \ {"troll"}
        /\ m1m2' \subseteq m1m2
        /\ s \in Nat /\ s \in Sequence
        /\ cB' = CircularBufferDelete(cB, s)
        /\ toTimer' = Append(toTimer, Cancel(s))
        /\ dontcheckNum' = s
        /\ toFtpc' \in Seq({"full", "empty", "acked"})
    BY FromTrollFacts
  <1>2. \/ /\ a.FYN /\ LastSeq \in received
           /\ m2m1' = m2m1 \union {FinalAck} /\ m2pc' = "closed"
        \/ ~a.FYN /\ UNCHANGED <<m2m1, m2pc>>
    BY FromTrollFacts
  <1> USE DEF ftpcVars, m1Vars
  <1>3. Count' = Count /\ Taken' = Taken
    BY <1>1 DEF Count, Taken
  <1>4. /\ toTimer \in Seq(Requests) /\ cB \in Buffers(Contents) /\ NULL \in Contents
    BY CountFacts DEF AnyInv, TypeOK, Requests, Contents
  <1>5. toTimer' \in Seq(Requests)
    BY <1>1, <1>4, RequestFacts
  <1> HIDE DEF s
  <1>6. /\ cB' \in Buffers(Contents)
        /\ \A i \in Ring : cB'.packets[i] = cB.packets[i] \/ cB'.packets[i] = NULL
    <2> DEFINE new == CircularBufferDelete(cB, s)
    <2>1. /\ new \in Buffers(Contents)
          /\ \A i \in Ring : new.packets[i] = cB.packets[i] \/ new.packets[i] = NULL
      BY <1>1, <1>4, DeleteSlots
    <2> HIDE DEF new
    <2>2. cB' = new
      BY <1>1 DEF new
    <2> QED BY <2>1, <2>2
  <1>7. CircularBufferFull(cB') => cB' = cB \/ Held(cB') # {}
    BY <1>1, <1>4, DeleteHeld
  <1>8. TypeOK'
    BY <1>1, <1>2, <1>5, <1>6 DEF AnyInv, TypeOK, Requests, Buffers, Contents
  <1>9. ReadInv' /\ FtpcInv'
    BY <1>1, <1>3 DEF AnyInv, ReadInv, FtpcInv
  <1>10. SentInv'
    BY <1>1, <1>2, <1>3, <1>6 DEF AnyInv, SentInv
  <1>11. ShutInv'
    <2>1. "acked" \in Image(toFtpc') => m2pc' = "closed"
      <3> SUFFICES ASSUME NEW i \in DOMAIN toFtpc', toFtpc'[i] = "acked"
                   PROVE  m2pc' = "closed"
        BY DEF Image
      <3>1. CASE i \in DOMAIN toFtpc
        <4>1. toFtpc[i] = "acked"
          BY <3>1, FromTrollFacts
        <4>2. m2pc = "closed"
          BY <3>1, <4>1 DEF AnyInv, ShutInv, Image
        <4> QED BY <1>2, <4>2
      <3>2. CASE i \notin DOMAIN toFtpc
        BY <3>2, FromTrollFacts
      <3> QED BY <3>1, <3>2
    <2> QED BY <1>1, <1>2, <2>1 DEF AnyInv, ShutInv, ShutdownOrder
  <1>12. FullNotBare'
    BY <1>7 DEF AnyInv, FullNotBare
  <1>13. HoldInv'
    <2> SUFFICES ASSUME ~CircularBufferFull(cB') PROVE HoldInv'
      BY DEF HoldInv, HoldsWhileFull
    <2>2. PICK j \in DOMAIN toFtpc' : /\ toFtpc'[j] = "empty"
                                      /\ \A i \in DOMAIN toFtpc : i < j
      BY FromTrollFacts
    <2>3. \A i \in DOMAIN toFtpc' : toFtpc'[i] = "full" => i \in DOMAIN toFtpc
      BY FromTrollFacts
    <2> QED BY <2>2, <2>3 DEF HoldInv, HoldsWhileFull, Image
  <1>14. /\ Window(cB') \subseteq Window(cB)
         /\ CircularBufferEmpty(cB) \/ cB'.packets[s % Size] = NULL
    <2> DEFINE new == CircularBufferDelete(cB, s)
    <2>1. /\ CircularBufferEmpty(cB) \/ new.packets[s % Size] = NULL
          /\ Window(new) \subseteq Window(cB)
      BY <1>1, <1>4, DeleteWindow
    <2> HIDE DEF new
    <2>2. cB' = new
      BY <1>1 DEF new
    <2> QED BY <2>1, <2>2
  <1>15. CircularBufferEmpty(cB) => Window(cB) = {}
    BY <1>4, EmptyWindow
  <1>16. /\ \A t : Timed(t) => Timed(t)'
         /\ \A t : Cancelled(t)' => Cancelled(t) \/ t = s
    <2>1. Image(toTimer') = Image(toTimer) \union {Cancel(s)}
      BY <1>1, <1>4, RequestFacts
    <2> QED BY <1>1, <2>1, RequestForms DEF Timed, Queued, Cancelled, Insert, Cancel
  <1>17. PendingInv'
    <2>1. s \in Taken
      BY FromTrollFacts DEF s
    <2>2. ASSUME NEW t \in Sequence,
                 t % Size \in Window(cB'), cB'.packets[t % Size] = Packet(t)
          PROVE  t # s /\ t % Size \in Window(cB) /\ cB.packets[t % Size] = Packet(t)
      <3>1. t % Size \in Window(cB) /\ t % Size \in Ring
        BY <1>14, <2>2 DEF Window
      <3>2. cB'.packets[t % Size] # NULL
        BY <2>2, PacketFacts
      <3> QED BY <1>6, <1>14, <1>15, <2>2, <3>1, <3>2
    <2> QED BY <1>1, <1>2, <1>3, <1>16, <2>1, <2>2 DEF AnyInv, PendingInv, Open
  <1> QED BY <1>8, <1>9, <1>10, <1>11, <1>12, <1>13, <1>17 DEF AnyInv

\* An expiry makes TCPD_M2 send and time again what is in the slot of its number.
LEMMA FromTimerFacts ==
  ASSUME AnyInv, M2Step, M2!FromTimer
  PROVE  LET s == Head(toM2) IN
         /\ UNCHANGED <<ftpcVars, running, m1Vars, cB, dontcheckNum, ftpcToM2, toFtpc, m1m2>>
         /\ readset' = readset \ {"timer"}
         /\ toM2 # <<>> /\ toM2' = Tail(toM2)
         /\ \/ /\ s = dontcheckNum \/ CircularBufferFetch(cB, s) = NULL
               /\ UNCHANGED <<toTimer, m2m1>>
               /\ m2pc' = m2pc \/ m2pc' = "crashed"
            \/ /\ s # dontcheckNum
               /\ s >= 0 /\ s \in Sequence
               /\ cB.packets[s % Size] # NULL
               /\ cB.packets[s % Size] \in {Packet(t) : t \in Taken} \union {Blank}
               /\ toTimer' = Append(toTimer, Insert(cB.packets[s % Size].sequence_number))
               /\ m2m1' = m2m1 \union {cB.packets[s % Size]}
               /\ UNCHANGED m2pc
         /\ m2pc = "handle"
  <1> DEFINE s == Head(toM2)
             p == CircularBufferFetch(cB, s)
  <1>1. /\ UNCHANGED <<ftpcVars, running, m1Vars, cB, dontcheckNum, ftpcToM2, toFtpc, m1m2>>
        /\ "timer" \in readset /\ readset' = readset \ {"timer"} /\ m2pc = "handle"
        /\ toM2' = Tail(toM2)
        /\ \/ s = dontcheckNum /\ UNCHANGED <<m2pc, toTimer, m2m1>>
           \/ p = NULL /\ m2pc' = "crashed" /\ UNCHANGED <<toTimer, m2m1>>
           \/ /\ s # dontcheckNum /\ p # NULL
              /\ toTimer' = Append(toTimer, Insert(p.sequence_number))
              /\ m2m1' = m2m1 \union {p}
              /\ UNCHANGED m2pc
    BY SameBuffer DEF M2Step, M2!FromTimer, M2!Handles, M2!Ignores, M2!StartTimer, Insert
  <1>2. toM2 # <<>> /\ toM2 \in Seq(Sequence \union {-1})
    BY <1>1 DEF AnyInv, TypeOK, ReadInv
  <1>3. s \in Sequence \union {-1}
    BY <1>2, TailFacts
  <1>4. ASSUME p # NULL
        PROVE  /\ s >= 0 /\ s \in Sequence /\ p = cB.packets[s % Size]
               /\ p \in {Packet(t) : t \in Taken} \union {Blank}
    <2>1. ~(s < 0) /\ p = cB.packets[s % Size]
      BY <1>4 DEF CircularBufferFetch
    <2> HIDE DEF s, p
    <2>2. s \in Sequence /\ s >= 0 /\ s \in Int
      BY <1>3, <2>1, LastSeqAssumption DEF Sequence
    <2>3. s % Size \in Ring
      BY <2>2, Remainders
    <2> QED BY <1>4, <2>1, <2>2, <2>3 DEF AnyInv, SentInv
  <1> HIDE DEF s, p
  <1> QED BY <1>1, <1>2, <1>4 DEF s, p

LEMMA FromTimerAnyInv == AnyInv /\ M2Step /\ M2!FromTimer => AnyInv'
  <1> SUFFICES ASSUME AnyInv, M2Step, M2!FromTimer PROVE AnyInv'
    OBVIOUS
  <1>1. /\ UNCHANGED <<ftpcVars, running, m1Vars, cB, dontcheckNum, ftpcToM2, toFtpc, m1m2>>
        /\ readset' = readset \ {"timer"}
        /\ toM2 # <<>> /\ toM2' = Tail(toM2)
        /\ m2pc = "handle" /\ m2pc' \in {"handle", "crashed"}
    BY FromTimerFacts
  <1> USE DEF ftpcVars, m1Vars
  <1>2. Count' = Count /\ Taken' = Taken /\ Taken \subseteq Sequence
    BY <1>1, CountFacts DEF AnyInv, Count, Taken
  <1>3. toTimer \in Seq(Requests) /\ toM2 \in Seq(Sequence \union {-1})
    BY DEF AnyInv, TypeOK, Requests
  <1>4. toM2' \in Seq(Sequence \union {-1})
    BY <1>1, <1>3, TailFacts
  <1>5. /\ toTimer' \in Seq(Requests)
        /\ m2m1' \subseteq m2m1 \union {Packet(t) : t \in Taken} \union {Blank}
        /\ \/ UNCHANGED toTimer
           \/ \E u \in Sequence \union {-1} : toTimer' = Append(toTimer, Insert(u))
    <2>1. CASE UNCHANGED <<toTimer, m2m1>>
      BY <1>3, <2>1
    <2>2. CASE toTimer' # toTimer \/ m2m1' # m2m1
      <3> DEFINE p == cB.packets[Head(toM2) % Size]
      <3>1. /\ p \in {Packet(t) : t \in Taken} \union {Blank}
            /\ toTimer' = Append(toTimer, Insert(p.sequence_number))
            /\ m2m1' = m2m1 \union {p}
        BY <2>2, FromTimerFacts
      <3> HIDE DEF p
      <3>2. p.sequence_number \in Sequence \union {-1}
        BY <1>2, <3>1, PacketFacts
      <3> QED BY <1>3, <3>1, <3>2, RequestFacts
    <2> QED BY <2>1, <2>2
  <1>6. TypeOK'
    BY <1>1, <1>2, <1>4, <1>5 DEF AnyInv, TypeOK, Requests
  <1>7. ReadInv' /\ FtpcInv' /\ SentInv'
    BY <1>1, <1>2, <1>5 DEF AnyInv, ReadInv, FtpcInv, SentInv
  <1>8. ShutInv'
    <2>1. FinalAck \in m2m1' => FinalAck \in m2m1
      BY <1>2, <1>5, PacketFacts
    <2> QED BY <1>1, <2>1 DEF AnyInv, ShutInv, ShutdownOrder
  <1>9. FullNotBare' /\ HoldInv'
    BY <1>1 DEF AnyInv, FullNotBare, HoldInv, HoldsWhileFull, Open
  <1>10. \A t : Cancelled(t)' <=> Cancelled(t)
    <2>1. CASE UNCHANGED toTimer
      BY <2>1 DEF Cancelled
    <2>2. CASE \E u \in Sequence \union {-1} : toTimer' = Append(toTimer, Insert(u))
      <3>1. PICK u \in Sequence \union {-1} : toTimer' = Append(toTimer, Insert(u))
        BY <2>2
      <3>2. Image(toTimer') = Image(toTimer) \union {Insert(u)}
        BY <1>3, <3>1, RequestFacts
      <3> QED BY <3>2, RequestForms DEF Cancelled, Cancel
    <2> QED BY <1>5, <2>1, <2>2
  <1>11. ASSUME NEW t \in Sequence,
                t % Size \in Window(cB), cB.packets[t % Size] = Packet(t),
                m2pc' = "handle"
         PROVE  Timed(t)'
    <2>1. Timed(t) /\ t # dontcheckNum
      BY <1>1, <1>11 DEF AnyInv, PendingInv, Open
    <2>2. Image(toM2) = Image(toM2') \union {Head(toM2)}
      <3> DEFINE N == Sequence \union {-1}
      <3>1. toM2 \in Seq(N)
        BY <1>3
      <3> HIDE DEF N
      <3> QED BY <1>1, <3>1, TailFacts
    <2>3. Image(toTimer) \subseteq Image(toTimer')
      <3>1. CASE \E u \in Sequence \union {-1} : toTimer' = Append(toTimer, Insert(u))
        BY <1>3, <3>1, RequestFacts
      <3> QED BY <1>5, <3>1
    <2>4. CASE Queued(t) \/ t \in running \/ t \in Image(toM2')
      BY <1>1, <2>3, <2>4 DEF Timed, Queued
    <2>5. CASE t = Head(toM2)
      <3>1. /\ t >= 0 /\ t \in Int /\ Packet(t) # NULL /\ Packet(t).sequence_number = t
        BY PacketFacts, LastSeqAssumption DEF Sequence
      <3>2. ~CircularBufferEmpty(cB)
        BY <1>11, EmptyWindow, CountFacts DEF AnyInv
      <3>3. CircularBufferFetch(cB, t) = Packet(t)
        BY <1>11, <3>1, <3>2 DEF CircularBufferFetch
      <3>4. toTimer' = Append(toTimer, Insert(t))
        BY <1>11, <2>1, <2>5, <3>1, <3>3, FromTimerFacts
      <3>5. Insert(t) \in Image(toTimer')
        BY <1>3, <3>4, RequestFacts
      <3> QED BY <3>5 DEF Timed, Queued, Insert
    <2> QED BY <2>1, <2>2, <2>4, <2>5 DEF Timed
  <1>12. PendingInv'
    BY <1>1, <1>2, <1>10, <1>11 DEF AnyInv, PendingInv, Open
  <1> QED BY <1>6, <1>7, <1>8, <1>9, <1>12 DEF AnyInv

LEMMA SelectAnyInv == AnyInv /\ M2Step /\ M2!Select => AnyInv'
  <1> SUFFICES ASSUME AnyInv, M2Step, M2!Select PROVE AnyInv'
    OBVIOUS
  <1>1. /\ UNCHANGED <<ftpcVars, running, m1Vars, cB, dontcheckNum, ftpcToM2, toFtpc,
                       toTimer, toM2, m2m1, m1m2>>
        /\ m2pc = "select" /\ m2pc' = "handle"
        /\ readset' \subseteq {"ftpc", "troll", "timer"}
        /\ ReadInv'
    BY DEF M2Step, M2!Select, M2!Ready, ReadInv
  <1> USE DEF ftpcVars, m1Vars
  <1>2. Count' = Count /\ Taken' = Taken
    BY <1>1 DEF Count, Taken
  <1>3. TypeOK'
    BY <1>1 DEF AnyInv, TypeOK
  <1>4. FtpcInv' /\ SentInv' /\ ShutInv'
    BY <1>1, <1>2 DEF AnyInv, FtpcInv, SentInv, ShutInv, ShutdownOrder
  <1>5. FullNotBare' /\ HoldInv'
    BY <1>1 DEF AnyInv, FullNotBare, HoldInv, HoldsWhileFull, Open
  <1>6. PendingInv'
    BY <1>1, <1>2 DEF AnyInv, PendingInv, Cancelled, Timed, Queued, Open
  <1> QED BY <1>1, <1>3, <1>4, <1>5, <1>6 DEF AnyInv

LEMMA EndOfTurnAnyInv == AnyInv /\ M2Step /\ M2!EndOfTurn => AnyInv'
  <1> SUFFICES ASSUME AnyInv, M2Step, M2!EndOfTurn PROVE AnyInv'
    OBVIOUS
  <1>1. /\ UNCHANGED <<ftpcVars, running, m1Vars, readset, cB, dontcheckNum, ftpcToM2,
                       toTimer, toM2, m2m1, m1m2>>
        /\ m2pc = "handle" /\ m2pc' = "select"
        /\ toFtpc' = IF CircularBufferFull(cB) THEN Append(toFtpc, "full") ELSE toFtpc
    BY SameBuffer DEF M2Step, M2!EndOfTurn
  <1> USE DEF ftpcVars, m1Vars
  <1>2. Count' = Count /\ Taken' = Taken
    BY <1>1 DEF Count, Taken
  <1>3. /\ toFtpc' \in Seq({"full", "empty", "acked"})
        /\ \A i \in DOMAIN toFtpc : i \in DOMAIN toFtpc' /\ toFtpc'[i] = toFtpc[i]
        /\ \A i \in DOMAIN toFtpc' :
             i \in DOMAIN toFtpc \/ (toFtpc'[i] = "full" /\ CircularBufferFull(cB))
    <2>1. toFtpc \in Seq({"full", "empty", "acked"})
      BY DEF AnyInv, TypeOK
    <2>2. CASE CircularBufferFull(cB)
      <3>1. toFtpc' = Append(toFtpc, "full")
        BY <1>1, <2>2
      <3>2. "full" \in {"full", "empty", "acked"}
        OBVIOUS
      <3> QED BY <2>1, <2>2, <3>1, <3>2, AppendFacts
    <2>3. CASE ~CircularBufferFull(cB)
      BY <1>1, <2>1, <2>3
    <2> QED BY <2>2, <2>3
  <1>4. TypeOK'
    BY <1>1, <1>3 DEF AnyInv, TypeOK
  <1>5. ReadInv' /\ FtpcInv' /\ SentInv'
    BY <1>1, <1>2 DEF AnyInv, ReadInv, FtpcInv, SentInv
  <1>6. ShutInv'
    <2>1. "acked" \notin Image(toFtpc)
      BY <1>1 DEF AnyInv, ShutInv
    <2>2. "acked" \notin Image(toFtpc')
      BY <1>3, <2>1 DEF Image
    <2> QED BY <1>1, <2>2 DEF AnyInv, ShutInv, ShutdownOrder
  <1>7. FullNotBare'
    BY <1>1 DEF AnyInv, FullNotBare
  <1>8. HoldInv'
    <2>1. "empty" \in Image(toFtpc) => "empty" \in Image(toFtpc')
      BY <1>3 DEF Image
    <2> QED BY <1>1, <1>3, <2>1 DEF AnyInv, HoldInv, HoldsWhileFull, Open
  <1>9. PendingInv'
    BY <1>1, <1>2 DEF AnyInv, PendingInv, Cancelled, Timed, Queued, Open
  <1> QED BY <1>4, <1>5, <1>6, <1>7, <1>8, <1>9 DEF AnyInv

\* Every step of the client host keeps the first part of the invariant.
LEMMA NextAnyInv == AnyInv /\ [Next]_vars => AnyInv'
  <1> SUFFICES ASSUME AnyInv, [Next]_vars PROVE AnyInv'
    OBVIOUS
  <1>1. CASE M2Step
    BY <1>1, SelectAnyInv, FromFtpcAnyInv, FromTrollAnyInv, FromTimerAnyInv,
       EndOfTurnAnyInv DEF M2Step, M2!Step
  <1>2. CASE UNCHANGED vars
    <2>1. Count' = Count /\ Taken' = Taken
      BY <1>2 DEF vars, ftpcVars, Count, Taken
    <2> QED BY <1>2, <2>1
            DEF vars, ftpcVars, m2Vars, m1Vars, AnyInv, TypeOK, ReadInv, FtpcInv, SentInv,
                ShutInv, ShutdownOrder, FullNotBare, HoldInv, HoldsWhileFull,
                PendingInv, Cancelled, Timed, Queued, Open
  <1> QED BY <1>1, <1>2, FtpcAnyInv, TimerAnyInv, NetworkAnyInv DEF Next

-----------------------------------------------------------------------------
(***************************************************************************)
(* The second part: a transfer that fits into the ring.                    *)
(***************************************************************************)
LEMMA FitUnchanged ==
  ASSUME FitInv, UNCHANGED <<cB, dontcheckNum, toTimer, running, toM2>>,
         Count' = Count, Taken' = Taken, received \subseteq received'
  PROVE  FitInv'
  BY DEF FitInv, SlotInv, OnceInv, TimedInv, Free

\* The timer process reads a request.
LEMMA TakeRequestFit ==
  ASSUME AnyInv, FitInv,
         UNCHANGED <<cB, dontcheckNum, toM2, received>>, Count' = Count, Taken' = Taken,
         toTimer # <<>>, toTimer' = Tail(toTimer),
         LET s == Head(toTimer).sequence_number IN
         running' = IF Head(toTimer).type = "insert" THEN running \union {s}
                    ELSE running \ {s}
  PROVE  FitInv'
  <1>1. SlotInv'
    BY DEF FitInv, SlotInv, Free
  <1>2. toTimer \in Seq(Requests)
    BY DEF AnyInv, TypeOK, Requests
  <1>3. /\ 1 \in DOMAIN toTimer /\ Head(toTimer) = toTimer[1]
        /\ Len(toTimer) \in Nat \ {0} /\ DOMAIN toTimer = 1 .. Len(toTimer)
        /\ \A i \in DOMAIN toTimer' : i + 1 \in DOMAIN toTimer /\ toTimer'[i] = toTimer[i + 1]
        /\ \A i \in DOMAIN toTimer : \/ i = 1
                                     \/ i - 1 \in DOMAIN toTimer' /\ toTimer[i] = toTimer'[i - 1]
        /\ DOMAIN toTimer' = 1 .. Len(toTimer) - 1
        /\ Image(toTimer) = Image(toTimer') \union {Head(toTimer)}
    BY <1>2, TailFacts
  <1>4. PICK s \in Taken : toTimer[1] \in {Insert(s), Cancel(s)}
    BY <1>3 DEF FitInv, OnceInv
  <1>5. /\ \A i \in DOMAIN toTimer : \E t \in Taken : toTimer[i] \in {Insert(t), Cancel(t)}
        /\ \A i \in DOMAIN toTimer, t \in Taken :
             toTimer[i] = Insert(t) =>
               /\ t \notin running /\ t \notin Image(toM2)
               /\ \A j \in DOMAIN toTimer : toTimer[j] = Insert(t) => j = i
        /\ running \subseteq Taken /\ Image(toM2) \subseteq Taken
        /\ \A t \in running : t \notin Image(toM2)
        /\ \A i, j \in DOMAIN toM2 : toM2[i] = toM2[j] => i = j
    BY DEF FitInv, OnceInv
  <1>6. /\ \A t \in Taken :
             ~Free(t) => Insert(t) \in Image(toTimer) \/ t \in running \/ t \in Image(toM2)
        /\ \A t \in running : ~Free(t) \/ Cancel(t) \in Image(toTimer)
        /\ \A i \in DOMAIN toTimer, t \in Taken :
             /\ toTimer[i] = Cancel(t) => Free(t)
             /\ toTimer[i] = Insert(t) =>
                  ~Free(t) \/ \E j \in DOMAIN toTimer : i < j /\ toTimer[j] = Cancel(t)
    BY DEF FitInv, TimedInv
  <1>7. /\ \A i \in DOMAIN toTimer' : \E t \in Taken' : toTimer'[i] \in {Insert(t), Cancel(t)}
        /\ Image(toM2') \subseteq Taken'
        /\ \A i, j \in DOMAIN toM2' : toM2'[i] = toM2'[j] => i = j
    BY <1>3, <1>5
  <1>8. \A t : Free(t)' <=> Free(t)
    BY DEF Free
  <1>9. ASSUME NEW i \in DOMAIN toTimer', NEW t \in Taken'
        PROVE  /\ toTimer'[i] = Cancel(t) => Free(t)'
               /\ toTimer'[i] = Insert(t) =>
                    \/ ~Free(t)'
                    \/ \E j \in DOMAIN toTimer' : i < j /\ toTimer'[j] = Cancel(t)
    <2>1. toTimer'[i] = Cancel(t) => Free(t)'
      BY <1>3, <1>6, <1>8
    <2>2. ASSUME toTimer'[i] = Insert(t), Free(t)
          PROVE  \E j \in DOMAIN toTimer' : i < j /\ toTimer'[j] = Cancel(t)
      <3>1. PICK j \in DOMAIN toTimer : i + 1 < j /\ toTimer[j] = Cancel(t)
        <4>1. i + 1 \in DOMAIN toTimer /\ toTimer[i + 1] = Insert(t)
          BY <1>3, <2>2
        <4> QED BY <1>6, <2>2, <4>1
      <3>2. j - 1 \in DOMAIN toTimer' /\ toTimer'[j - 1] = Cancel(t) /\ i < j - 1
        BY <1>3, <3>1
      <3> QED BY <3>2
    <2> QED BY <1>8, <2>1, <2>2
  <1>10. CASE toTimer[1] = Insert(s)
    <2>1. running' = running \union {s}
      BY <1>3, <1>10, RequestForms
    <2>2. /\ s \notin running /\ s \notin Image(toM2)
          /\ \A j \in DOMAIN toTimer : toTimer[j] = Insert(s) => j = 1
      BY <1>3, <1>5, <1>10
    <2>3. ASSUME NEW i \in DOMAIN toTimer', NEW t \in Taken', toTimer'[i] = Insert(t)
          PROVE  /\ t \notin running' /\ t \notin Image(toM2')
                 /\ \A j \in DOMAIN toTimer' : toTimer'[j] = Insert(t) => j = i
      <3>1. i + 1 \in DOMAIN toTimer /\ toTimer[i + 1] = Insert(t) /\ i + 1 # 1
        BY <1>3, <2>3
      <3>2. t # s
        BY <2>2, <3>1
      <3> QED BY <1>3, <1>5, <2>1, <3>1, <3>2
    <2>4. OnceInv'
      BY <1>4, <1>5, <1>7, <2>1, <2>2, <2>3 DEF OnceInv
    <2>5. \A t \in Taken' : ~Free(t)' => \/ Insert(t) \in Image(toTimer')
                                         \/ t \in running' \/ t \in Image(toM2')
      BY <1>3, <1>6, <1>8, <1>10, <2>1, RequestForms
    <2>6. \A t \in running' : ~Free(t)' \/ Cancel(t) \in Image(toTimer')
      <3>1. ~Free(s) \/ Cancel(s) \in Image(toTimer')
        <4> SUFFICES ASSUME Free(s) PROVE Cancel(s) \in Image(toTimer')
          OBVIOUS
        <4>1. PICK j \in DOMAIN toTimer : 1 < j /\ toTimer[j] = Cancel(s)
          BY <1>3, <1>4, <1>6, <1>10
        <4>2. j - 1 \in DOMAIN toTimer' /\ toTimer'[j - 1] = Cancel(s)
          BY <1>3, <4>1
        <4> QED BY <4>2 DEF Image
      <3>2. \A t \in running : ~Free(t) \/ Cancel(t) \in Image(toTimer')
        BY <1>3, <1>6, <1>10, RequestForms
      <3> QED BY <1>8, <2>1, <3>1, <3>2
    <2> QED BY <1>1, <1>9, <2>4, <2>5, <2>6 DEF FitInv, TimedInv
  <1>11. CASE toTimer[1] = Cancel(s)
    <2>1. running' = running \ {s} /\ Free(s)
      BY <1>3, <1>4, <1>6, <1>11, RequestForms
    <2>2. OnceInv'
      <3>1. ASSUME NEW i \in DOMAIN toTimer', NEW t \in Taken', toTimer'[i] = Insert(t)
            PROVE  /\ t \notin running' /\ t \notin Image(toM2')
                   /\ \A j \in DOMAIN toTimer' : toTimer'[j] = Insert(t) => j = i
        BY <1>3, <1>5, <2>1, <3>1
      <3> QED BY <1>5, <1>7, <2>1, <3>1 DEF OnceInv
    <2>3. \A t \in Taken' : ~Free(t)' => \/ Insert(t) \in Image(toTimer')
                                         \/ t \in running' \/ t \in Image(toM2')
      BY <1>3, <1>6, <1>8, <1>11, <2>1, RequestForms
    <2>4. \A t \in running' : ~Free(t)' \/ Cancel(t) \in Image(toTimer')
      BY <1>3, <1>6, <1>8, <1>11, <2>1, RequestForms
    <2> QED BY <1>1, <1>9, <2>2, <2>3, <2>4 DEF FitInv, TimedInv
  <1> QED BY <1>4, <1>10, <1>11

\* A timer expires.
LEMMA ExpireFit ==
  ASSUME AnyInv, FitInv,
         UNCHANGED <<cB, dontcheckNum, toTimer, received>>, Count' = Count, Taken' = Taken,
         NEW s \in running, running' = running \ {s}, toM2' = Append(toM2, s)
  PROVE  FitInv'
  <1>1. SlotInv'
    BY DEF FitInv, SlotInv, Free
  <1>2. /\ s \in Taken /\ s \notin Image(toM2)
        /\ toM2 \in Seq(Sequence \union {-1}) /\ s \in Sequence \union {-1}
    BY DEF FitInv, OnceInv, AnyInv, TypeOK
  <1>3. /\ Len(toM2) \in Nat /\ DOMAIN toM2 = 1 .. Len(toM2)
        /\ DOMAIN toM2' = DOMAIN toM2 \union {Len(toM2) + 1}
        /\ \A i \in DOMAIN toM2 : toM2'[i] = toM2[i]
        /\ toM2'[Len(toM2) + 1] = s
        /\ Image(toM2') = Image(toM2) \union {s}
    <2> DEFINE N == Sequence \union {-1}
    <2>1. toM2 \in Seq(N) /\ s \in N
      BY <1>2
    <2> HIDE DEF N
    <2> QED BY <2>1, AppendFacts
  <1>4. \A i, j \in DOMAIN toM2' : toM2'[i] = toM2'[j] => i = j
    <2>1. \A i, j \in DOMAIN toM2 : toM2[i] = toM2[j] => i = j
      BY DEF FitInv, OnceInv
    <2>2. \A i \in DOMAIN toM2 : toM2[i] # s
      BY <1>2 DEF Image
    <2> QED BY <1>3, <2>1, <2>2
  <1>5. OnceInv'
    <2>1. \A i \in DOMAIN toTimer, t \in Taken :
            toTimer[i] = Insert(t) =>
              /\ t \notin running' /\ t \notin Image(toM2')
              /\ \A j \in DOMAIN toTimer : toTimer[j] = Insert(t) => j = i
      BY <1>3 DEF FitInv, OnceInv
    <2> QED BY <1>2, <1>3, <1>4, <2>1 DEF FitInv, OnceInv
  <1>6. TimedInv'
    BY <1>3 DEF FitInv, TimedInv, Free
  <1> QED BY <1>1, <1>5, <1>6 DEF FitInv

\* TCPD_M2 asks for a timer for s, or cancels it.
LEMMA InsertFit ==
  ASSUME toTimer \in Seq(Requests), NEW s \in Sequence, toTimer' = Append(toTimer, Insert(s)),
         OnceInv, s \in Taken', Taken \subseteq Taken', running' = running,
         s \notin running, \A t \in Image(toM2') : t # s /\ t \in Image(toM2),
         \A i \in DOMAIN toTimer : toTimer[i] # Insert(s),
         \A i, j \in DOMAIN toM2' : toM2'[i] = toM2'[j] => i = j
  PROVE  OnceInv'
  <1>1. /\ DOMAIN toTimer' = DOMAIN toTimer \union {Len(toTimer) + 1}
        /\ DOMAIN toTimer = 1 .. Len(toTimer) /\ Len(toTimer) \in Nat
        /\ \A i \in DOMAIN toTimer : toTimer'[i] = toTimer[i]
        /\ toTimer'[Len(toTimer) + 1] = Insert(s)
    BY RequestFacts
  <1> DEFINE n == Len(toTimer)
  <1> HIDE DEF n
  <1>2. ASSUME NEW i \in DOMAIN toTimer'
        PROVE  \E t \in Taken' : toTimer'[i] \in {Insert(t), Cancel(t)}
    BY <1>1 DEF OnceInv
  <1>3. ASSUME NEW i \in DOMAIN toTimer', NEW t \in Taken', toTimer'[i] = Insert(t)
        PROVE  /\ t \notin running' /\ t \notin Image(toM2')
               /\ \A j \in DOMAIN toTimer' : toTimer'[j] = Insert(t) => j = i
    <2>1. CASE t = s
      BY <1>1, <1>3, <2>1
    <2>2. CASE t # s
      <3>1. i \in DOMAIN toTimer /\ toTimer[i] = Insert(t)
        BY <1>1, <1>3, <2>2, RequestForms
      <3>2. t \in Taken
        BY <3>1, RequestForms DEF OnceInv
      <3>3. /\ t \notin running /\ t \notin Image(toM2)
            /\ \A j \in DOMAIN toTimer : toTimer[j] = Insert(t) => j = i
        BY <3>1, <3>2 DEF OnceInv
      <3> QED BY <1>1, <2>2, <3>3, RequestForms
    <2> QED BY <2>1, <2>2
  <1> QED BY <1>2, <1>3 DEF OnceInv

\* The numbers of a transfer that fits are its slots.
LEMMA FitSlots ==
  ASSUME AnyInv, Fits
  PROVE  /\ Count \in Nat /\ Count < Size /\ Count <= LastSeq + 1
         /\ Taken = 0 .. Count - 1 /\ Taken \subseteq Sequence /\ Taken \subseteq Ring
         /\ \A s \in Taken : s % Size = s
         /\ Sequence \subseteq Ring
  <1>1. Count \in Nat /\ Count <= LastSeq + 1 /\ Taken = 0 .. Count - 1 /\ Taken \subseteq Sequence
    BY CountFacts DEF AnyInv
  <1>2. Count < Size /\ Taken \subseteq Ring /\ Sequence \subseteq Ring
    BY <1>1, LastSeqAssumption, SizeAssumption DEF Fits, Ring, Sequence
  <1>3. \A s \in Taken : s % Size = s
    BY <1>2, Remainders
  <1> QED BY <1>1, <1>2, <1>3

LEMMA FromFtpcFit == AnyInv /\ Fits /\ FitInv /\ M2Step /\ M2!FromFtpc => FitInv'
  <1> SUFFICES ASSUME AnyInv, Fits, FitInv, M2Step, M2!FromFtpc PROVE FitInv'
    OBVIOUS
  <1>1. /\ Count \in Nat /\ Count < Size /\ Count <= LastSeq + 1
        /\ Taken = 0 .. Count - 1 /\ Taken \subseteq Ring
        /\ Count \in Sequence /\ Count' = Count + 1 /\ Taken' = Taken \union {Count}
        /\ Count + 1 < Size /\ Count \in Ring
    <2>1. Count \in Sequence /\ Count' = Count + 1 /\ Taken' = Taken \union {Count}
      BY FromFtpcFacts
    <2>2. Count + 1 < Size /\ Count \in Ring
      BY <2>1, FitSlots, LastSeqAssumption, SizeAssumption DEF Fits, Sequence, Ring
    <2> QED BY <2>1, <2>2, FitSlots
  <1>2. UNCHANGED <<running, received, dontcheckNum, toM2>>
    BY FromFtpcFacts DEF m1Vars
  <1>3. cB \in Buffers(Contents) /\ Packet(Count) \in Contents /\ toTimer \in Seq(Requests)
    BY <1>1, CountFacts DEF AnyInv, TypeOK, Requests, Contents
  <1>4. cB.start \in Ring /\ cB.end = Count /\ cB.start <= Count
    BY <1>3 DEF Buffers, FitInv, SlotInv
  <1>5. ~CircularBufferFull(cB)
    BY <1>1, <1>3, <1>4, WindowFacts, SizeAssumption DEF Ring
  <1>6. cB' = CircularBufferWrite(cB, Packet(Count)) /\ toTimer' = Append(toTimer, Insert(Count))
    BY <1>5, FromFtpcFacts
  <1>7. /\ cB'.start = cB.start
        /\ cB'.end = (Count + 1) % Size
        /\ cB'.packets[Count] = Packet(Count)
        /\ \A i \in Ring : i # Count => cB'.packets[i] = cB.packets[i]
    BY <1>3, <1>4, <1>5, <1>6, WriteFacts
  <1>8. cB'.end = Count'
    <2>1. (Count + 1) % Size = IF Count = Size - 1 THEN 0 ELSE Count + 1
      BY <1>1, Remainders
    <2> QED BY <1>1, <1>7, <2>1, SizeAssumption
  <1>9. cB'.packets[Count] # NULL /\ \A s \in Taken : Free(s)' <=> Free(s)
    <2>1. \A s \in Taken : s \in Ring /\ s # Count
      BY <1>1
    <2> QED BY <1>1, <1>7, <2>1, PacketFacts DEF Free
  <1>10. SlotInv'
    <2>1. ASSUME NEW s \in Ring
          PROVE  IF s < Count' THEN Free(s)' \/ cB'.packets[s] = Packet(s)
                 ELSE cB'.packets[s] = Blank
      <3>1. CASE s < Count
        BY <1>1, <1>7, <3>1 DEF FitInv, SlotInv, Free, Ring
      <3>2. CASE s = Count
        BY <1>1, <1>7, <3>2
      <3>3. CASE s > Count
        BY <1>1, <1>7, <3>3 DEF FitInv, SlotInv, Ring
      <3> QED BY <1>1, <3>1, <3>2, <3>3 DEF Ring
    <2>2. \A s \in Taken' : Free(s)' => s \in received'
      BY <1>1, <1>2, <1>9 DEF FitInv, SlotInv, Free
    <2>3. \A s \in Ring : s < cB'.start => Free(s)'
      BY <1>1, <1>4, <1>7, <1>9 DEF FitInv, SlotInv, Ring
    <2>4. dontcheckNum' # -1 => dontcheckNum' \in Taken' /\ Free(dontcheckNum)'
      BY <1>1, <1>2, <1>9 DEF FitInv, SlotInv, Free
    <2>5. cB'.start <= cB'.end
      BY <1>1, <1>4, <1>7, <1>8 DEF Ring
    <2> QED BY <1>8, <2>1, <2>2, <2>3, <2>4, <2>5 DEF SlotInv
  <1>11. Count \notin Taken
    BY <1>1
  <1>12. OnceInv'
    <2>1. \A i \in DOMAIN toTimer : toTimer[i] # Insert(Count)
      <3> SUFFICES ASSUME NEW i \in DOMAIN toTimer, toTimer[i] = Insert(Count) PROVE FALSE
        OBVIOUS
      <3>1. PICK t \in Taken : toTimer[i] \in {Insert(t), Cancel(t)}
        BY DEF FitInv, OnceInv
      <3>2. Insert(Count) # Cancel(t) /\ (Insert(Count) = Insert(t) => Count = t)
        BY RequestForms
      <3> QED BY <1>11, <3>1, <3>2
    <2>2. /\ OnceInv /\ Count \notin running /\ running' = running
          /\ \A t \in Image(toM2') : t # Count /\ t \in Image(toM2)
          /\ \A i, j \in DOMAIN toM2' : toM2'[i] = toM2'[j] => i = j
      BY <1>2, <1>11 DEF FitInv, OnceInv
    <2>3. Count \in Sequence /\ Count \in Taken' /\ Taken \subseteq Taken'
      BY <1>1
    <2> QED BY <1>3, <1>6, <2>1, <2>2, <2>3, InsertFit
  <1>13. TimedInv'
    <2>1. /\ DOMAIN toTimer' = DOMAIN toTimer \union {Len(toTimer) + 1}
          /\ \A i \in DOMAIN toTimer : toTimer'[i] = toTimer[i]
          /\ toTimer'[Len(toTimer) + 1] = Insert(Count)
          /\ Image(toTimer') = Image(toTimer) \union {Insert(Count)}
      BY <1>1, <1>3, <1>6, RequestFacts
    <2>2. running \subseteq Taken
      BY DEF FitInv, OnceInv
    <2>3. \A s \in Taken' : ~Free(s)' => \/ Insert(s) \in Image(toTimer')
                                         \/ s \in running' \/ s \in Image(toM2')
      BY <1>1, <1>2, <1>9, <2>1 DEF FitInv, TimedInv
    <2>4. \A s \in running' : ~Free(s)' \/ Cancel(s) \in Image(toTimer')
      BY <1>2, <1>9, <2>1, <2>2 DEF FitInv, TimedInv
    <2>5. ASSUME NEW i \in DOMAIN toTimer', NEW s \in Taken'
          PROVE  /\ toTimer'[i] = Cancel(s) => Free(s)'
                 /\ toTimer'[i] = Insert(s) =>
                      \/ ~Free(s)'
                      \/ \E j \in DOMAIN toTimer' : i < j /\ toTimer'[j] = Cancel(s)
      <3>1. CASE s = Count
        <4>1. toTimer'[i] # Cancel(s)
          <5>1. CASE i \in DOMAIN toTimer
            <6>1. PICK t \in Taken : toTimer[i] \in {Insert(t), Cancel(t)}
              BY <5>1 DEF FitInv, OnceInv
            <6>2. Insert(t) # Cancel(s) /\ (Cancel(t) = Cancel(s) => t = s)
              BY RequestForms
            <6> QED BY <1>11, <2>1, <3>1, <5>1, <6>1, <6>2
          <5>2. CASE i = Len(toTimer) + 1
            BY <2>1, <5>2, RequestForms
          <5> QED BY <2>1, <5>1, <5>2
        <4>2. ~Free(s)'
          BY <1>9, <3>1 DEF Free
        <4> QED BY <4>1, <4>2
      <3>2. CASE i \in DOMAIN toTimer /\ s \in Taken
        BY <1>9, <2>1, <3>2 DEF FitInv, TimedInv
      <3>3. CASE i = Len(toTimer) + 1 /\ s # Count
        BY <2>1, <3>3, RequestForms
      <3> QED BY <1>1, <2>1, <3>1, <3>2, <3>3
    <2> QED BY <2>3, <2>4, <2>5 DEF TimedInv
  <1> QED BY <1>10, <1>12, <1>13 DEF FitInv

LEMMA FromTrollFit ==
  ASSUME AnyInv, Fits, FitInv, M2Step, NEW a \in m1m2, M2!FromTroll(a)
  PROVE  FitInv'
  <1> DEFINE s == a.sequence_number
  <1>1. /\ UNCHANGED <<ftpcVars, running, m1Vars, ftpcToM2, toM2>>
        /\ s \in received /\ s \in Taken /\ s \in Nat /\ s \in Sequence
        /\ cB' = CircularBufferDelete(cB, s)
        /\ toTimer' = Append(toTimer, Cancel(s))
        /\ dontcheckNum' = s
    BY FromTrollFacts
  <1> HIDE DEF s
  <1>2. Count' = Count /\ Taken' = Taken
    BY <1>1 DEF ftpcVars, Count, Taken
  <1>3. /\ toTimer \in Seq(Requests) /\ cB \in Buffers(Contents) /\ NULL \in Contents
    BY CountFacts DEF AnyInv, TypeOK, Requests, Contents
  <1>4. /\ Count \in Nat /\ Count < Size /\ Taken = 0 .. Count - 1 /\ Taken \subseteq Ring
        /\ s % Size = s /\ s \in Ring
    BY <1>1, FitSlots
  <1>5. cB.start \in Ring /\ cB.end = Count /\ cB.start <= Count
    BY <1>3 DEF Buffers, FitInv, SlotInv
  <1>6. /\ cB'.end = cB.end
        /\ \A i \in Ring : \/ cB'.packets[i] = cB.packets[i]
                           \/ i = s /\ cB'.packets[i] = NULL
        /\ CircularBufferEmpty(cB) => cB' = cB
        /\ CircularBufferEmpty(cB) \/ cB'.packets[s] = NULL
        /\ \/ cB'.start = cB.start
           \/ /\ cB.start \in Window(cB) /\ cB'.packets[cB.start] = NULL
              /\ cB'.start = IF cB.start = Size - 1 THEN 0 ELSE cB.start + 1
    <2> DEFINE new == CircularBufferDelete(cB, s)
    <2>1. /\ new.end = cB.end
          /\ \A i \in Ring : \/ new.packets[i] = cB.packets[i]
                             \/ i = s % Size /\ new.packets[i] = NULL
          /\ CircularBufferEmpty(cB) \/ new.packets[s % Size] = NULL
          /\ \/ new.start = cB.start
             \/ /\ cB.start \in Window(cB) /\ new.packets[cB.start] = NULL
                /\ new.start = IF cB.start = Size - 1 THEN 0 ELSE cB.start + 1
      BY <1>1, <1>3, DeleteStart
    <2>2. CircularBufferEmpty(cB) => new = cB
      BY DEF CircularBufferDelete
    <2> HIDE DEF new
    <2>3. cB' = new
      BY <1>1 DEF new
    <2> QED BY <1>4, <2>1, <2>2, <2>3
  <1>7. /\ Free(s)' /\ cB'.packets[s] = NULL
        /\ \A t \in Ring : Free(t) => Free(t)'
        /\ \A t \in Ring : t # s => (Free(t)' <=> Free(t))
    <2>1. cB'.packets[s] = NULL
      <3>1. CASE CircularBufferEmpty(cB)
        <4>1. s < cB.start
          BY <1>1, <1>4, <1>5, <3>1 DEF CircularBufferEmpty
        <4> QED BY <1>4, <1>6, <3>1, <4>1 DEF FitInv, SlotInv, Free
      <3> QED BY <1>6, <3>1
    <2> QED BY <1>6, <2>1 DEF Free
  <1>8. SlotInv'
    <2>1. cB'.start <= cB'.end /\ \A t \in Ring : t < cB'.start => Free(t)'
      <3>1. CASE cB'.start = cB.start
        BY <1>5, <1>6, <1>7, <3>1 DEF FitInv, SlotInv
      <3>2. CASE /\ cB.start \in Window(cB) /\ cB'.packets[cB.start] = NULL
                 /\ cB'.start = IF cB.start = Size - 1 THEN 0 ELSE cB.start + 1
        <4>1. cB.start < cB.end
          BY <1>3, <1>5, <3>2, WindowFacts
        <4>2. cB'.start = cB.start + 1
          BY <1>4, <1>5, <3>2, <4>1, SizeAssumption DEF Ring
        <4>3. cB'.start <= cB'.end
          BY <1>4, <1>5, <1>6, <4>1, <4>2 DEF Ring
        <4>4. \A t \in Ring : t < cB'.start => t < cB.start \/ t = cB.start
          BY <1>5, <4>2 DEF Ring
        <4>5. \A t \in Ring : t < cB.start => Free(t)'
          BY <1>7 DEF FitInv, SlotInv
        <4> QED BY <3>2, <4>3, <4>4, <4>5 DEF Free
      <3> QED BY <1>6, <3>1, <3>2
    <2>2. ASSUME NEW t \in Ring
          PROVE  IF t < Count THEN Free(t)' \/ cB'.packets[t] = Packet(t)
                 ELSE cB'.packets[t] = Blank
      <3>1. IF t < Count THEN Free(t) \/ cB.packets[t] = Packet(t)
            ELSE cB.packets[t] = Blank
        BY DEF FitInv, SlotInv
      <3>2. t = s => t < Count
        BY <1>1, <1>4
      <3> QED BY <1>6, <1>7, <3>1, <3>2
    <2>3. \A t \in Taken : Free(t)' => t \in received'
      BY <1>1, <1>4, <1>7 DEF FitInv, SlotInv, m1Vars
    <2>4. dontcheckNum' \in Taken /\ Free(dontcheckNum)'
      BY <1>1, <1>7 DEF Free
    <2> QED BY <1>2, <1>5, <1>6, <2>1, <2>2, <2>3, <2>4 DEF SlotInv
  <1>9. /\ DOMAIN toTimer' = DOMAIN toTimer \union {Len(toTimer) + 1}
        /\ DOMAIN toTimer = 1 .. Len(toTimer) /\ Len(toTimer) \in Nat
        /\ \A i \in DOMAIN toTimer : toTimer'[i] = toTimer[i]
        /\ toTimer'[Len(toTimer) + 1] = Cancel(s)
        /\ Image(toTimer') = Image(toTimer) \union {Cancel(s)}
    BY <1>1, <1>3, RequestFacts
  <1> DEFINE n == Len(toTimer)
  <1> HIDE DEF n
  <1>10. \A i \in DOMAIN toTimer', t \in Taken :
           toTimer'[i] = Insert(t) => i \in DOMAIN toTimer /\ toTimer[i] = Insert(t)
    BY <1>9, RequestForms
  <1>11. OnceInv'
    <2>1. \A i \in DOMAIN toTimer' : \E t \in Taken : toTimer'[i] \in {Insert(t), Cancel(t)}
      BY <1>1, <1>9 DEF FitInv, OnceInv
    <2>2. \A i \in DOMAIN toTimer', t \in Taken :
            toTimer'[i] = Insert(t) =>
              /\ t \notin running /\ t \notin Image(toM2)
              /\ \A j \in DOMAIN toTimer' : toTimer'[j] = Insert(t) => j = i
      BY <1>10 DEF FitInv, OnceInv
    <2> QED BY <1>1, <1>2, <2>1, <2>2 DEF FitInv, OnceInv
  <1>12. TimedInv'
    <2>1. running \subseteq Taken
      BY DEF FitInv, OnceInv
    <2>2. \A t \in Taken : ~Free(t)' => \/ Insert(t) \in Image(toTimer')
                                        \/ t \in running \/ t \in Image(toM2)
      BY <1>4, <1>7, <1>9 DEF FitInv, TimedInv
    <2>3. \A t \in running : ~Free(t)' \/ Cancel(t) \in Image(toTimer')
      BY <1>4, <1>7, <1>9, <2>1 DEF FitInv, TimedInv
    <2>4. ASSUME NEW i \in DOMAIN toTimer', NEW t \in Taken, toTimer'[i] = Cancel(t)
          PROVE  Free(t)'
      <3>1. CASE i \in DOMAIN toTimer
        BY <1>4, <1>7, <1>9, <2>4, <3>1 DEF FitInv, TimedInv
      <3>2. CASE i = Len(toTimer) + 1
        <4>1. t = s
          BY <1>9, <2>4, <3>2, RequestForms
        <4> QED BY <1>7, <4>1 DEF Free
      <3> QED BY <1>9, <3>1, <3>2
    <2>5. ASSUME NEW i \in DOMAIN toTimer', NEW t \in Taken, toTimer'[i] = Insert(t)
          PROVE  ~Free(t)' \/ \E j \in DOMAIN toTimer' : i < j /\ toTimer'[j] = Cancel(t)
      <3>1. i \in DOMAIN toTimer /\ toTimer[i] = Insert(t)
        BY <1>10, <2>5
      <3>2. CASE t = s
        <4>1. i < Len(toTimer) + 1 /\ Len(toTimer) + 1 \in DOMAIN toTimer'
          BY <1>9, <3>1
        <4> QED BY <1>9, <3>2, <4>1
      <3>3. CASE t # s
        <4>1. ~Free(t) \/ \E j \in DOMAIN toTimer : i < j /\ toTimer[j] = Cancel(t)
          BY <3>1 DEF FitInv, TimedInv
        <4> QED BY <1>4, <1>7, <1>9, <3>3, <4>1
      <3> QED BY <3>2, <3>3
    <2> QED BY <1>1, <1>2, <2>2, <2>3, <2>4, <2>5 DEF TimedInv
  <1> QED BY <1>8, <1>11, <1>12 DEF FitInv

LEMMA FromTimerFit == AnyInv /\ Fits /\ FitInv /\ M2Step /\ M2!FromTimer => FitInv'
  <1> SUFFICES ASSUME AnyInv, Fits, FitInv, M2Step, M2!FromTimer PROVE FitInv'
    OBVIOUS
  <1> DEFINE s == Head(toM2)
  <1>1. /\ UNCHANGED <<ftpcVars, running, m1Vars, cB, dontcheckNum, ftpcToM2>>
        /\ toM2 # <<>> /\ toM2' = Tail(toM2)
        /\ \/ /\ s = dontcheckNum \/ CircularBufferFetch(cB, s) = NULL
              /\ UNCHANGED toTimer
           \/ /\ cB.packets[s % Size] # NULL
              /\ toTimer' = Append(toTimer, Insert(cB.packets[s % Size].sequence_number))
    BY FromTimerFacts
  <1>2. Count' = Count /\ Taken' = Taken
    BY <1>1 DEF ftpcVars, Count, Taken
  <1>3. /\ 1 \in DOMAIN toM2 /\ s = toM2[1]
        /\ DOMAIN toM2' = 1 .. Len(toM2) - 1 /\ Len(toM2) \in Nat \ {0}
        /\ DOMAIN toM2 = 1 .. Len(toM2)
        /\ \A i \in DOMAIN toM2' : i + 1 \in DOMAIN toM2 /\ toM2'[i] = toM2[i + 1]
        /\ Image(toM2) = Image(toM2') \union {s}
    <2> DEFINE N == Sequence \union {-1}
    <2>1. toM2 \in Seq(N)
      BY DEF AnyInv, TypeOK
    <2> HIDE DEF N
    <2> QED BY <1>1, <2>1, TailFacts
  <1> HIDE DEF s
  <1>4. \A i, j \in DOMAIN toM2 : toM2[i] = toM2[j] => i = j
    BY DEF FitInv, OnceInv
  <1>5. /\ s \notin Image(toM2')
        /\ \A i, j \in DOMAIN toM2' : toM2'[i] = toM2'[j] => i = j
    BY <1>3, <1>4 DEF Image
  <1>6. s \in Taken /\ s \notin running
    BY <1>3 DEF FitInv, OnceInv
  <1>7. /\ Count \in Nat /\ Taken = 0 .. Count - 1 /\ Taken \subseteq Ring
        /\ Taken \subseteq Sequence /\ s % Size = s /\ s \in Ring
    BY <1>6, FitSlots
  <1>8. SlotInv'
    BY <1>1, <1>2 DEF FitInv, SlotInv, Free, m1Vars
  <1>9. \A t : Free(t)' <=> Free(t)
    BY <1>1 DEF Free
  <1>10. CASE /\ s = dontcheckNum \/ CircularBufferFetch(cB, s) = NULL
              /\ UNCHANGED toTimer
    <2>1. Free(s)
      <3>1. CASE s = dontcheckNum
        BY <1>6, <1>7, <3>1 DEF FitInv, SlotInv
      <3>2. CASE CircularBufferEmpty(cB)
        <4>1. s < cB.start
          BY <1>6, <1>7, <3>2 DEF FitInv, SlotInv, CircularBufferEmpty
        <4> QED BY <1>7, <4>1 DEF FitInv, SlotInv
      <3>3. CASE CircularBufferFetch(cB, s) = NULL /\ ~CircularBufferEmpty(cB)
        BY <1>6, <1>7, <3>3 DEF CircularBufferFetch, Free
      <3> QED BY <1>10, <3>1, <3>2, <3>3
    <2>2. OnceInv'
      BY <1>1, <1>2, <1>3, <1>5, <1>10 DEF FitInv, OnceInv
    <2>3. TimedInv'
      BY <1>1, <1>2, <1>3, <1>9, <1>10, <2>1 DEF FitInv, TimedInv
    <2> QED BY <1>8, <2>2, <2>3 DEF FitInv
  <1>11. CASE /\ cB.packets[s % Size] # NULL
              /\ toTimer' = Append(toTimer, Insert(cB.packets[s % Size].sequence_number))
    <2>1. ~Free(s) /\ cB.packets[s] = Packet(s)
      BY <1>6, <1>7, <1>11 DEF FitInv, SlotInv, Free
    <2>2. toTimer' = Append(toTimer, Insert(s))
      BY <1>6, <1>7, <1>11, <2>1, PacketFacts
    <2>3. toTimer \in Seq(Requests)
      BY DEF AnyInv, TypeOK, Requests
    <2>4. \A i \in DOMAIN toTimer : toTimer[i] # Insert(s)
      BY <1>3, <1>6 DEF FitInv, OnceInv
    <2>5. OnceInv'
      <3>1. /\ OnceInv /\ s \in Taken' /\ Taken \subseteq Taken' /\ running' = running
            /\ \A t \in Image(toM2') : t # s /\ t \in Image(toM2)
        BY <1>1, <1>2, <1>3, <1>5, <1>6 DEF FitInv
      <3> QED BY <1>5, <1>6, <1>7, <2>2, <2>3, <2>4, <3>1, InsertFit
    <2>6. TimedInv'
      <3>1. /\ DOMAIN toTimer' = DOMAIN toTimer \union {Len(toTimer) + 1}
            /\ \A i \in DOMAIN toTimer : toTimer'[i] = toTimer[i]
            /\ toTimer'[Len(toTimer) + 1] = Insert(s)
            /\ Image(toTimer') = Image(toTimer) \union {Insert(s)}
        BY <1>6, <1>7, <2>2, <2>3, RequestFacts
      <3>2. \A t \in Taken : ~Free(t) => \/ Insert(t) \in Image(toTimer')
                                         \/ t \in running \/ t \in Image(toM2')
        BY <1>3, <3>1 DEF FitInv, TimedInv
      <3>3. \A t \in running : ~Free(t) \/ Cancel(t) \in Image(toTimer')
        BY <3>1 DEF FitInv, TimedInv
      <3>4. ASSUME NEW i \in DOMAIN toTimer', NEW t \in Taken
            PROVE  /\ toTimer'[i] = Cancel(t) => Free(t)
                   /\ toTimer'[i] = Insert(t) =>
                        \/ ~Free(t)
                        \/ \E j \in DOMAIN toTimer' : i < j /\ toTimer'[j] = Cancel(t)
        <4>1. CASE i \in DOMAIN toTimer
          BY <3>1, <4>1 DEF FitInv, TimedInv
        <4>2. CASE i = Len(toTimer) + 1
          BY <2>1, <3>1, <4>2, RequestForms
        <4> QED BY <3>1, <4>1, <4>2
      <3> QED BY <1>1, <1>2, <1>9, <3>2, <3>3, <3>4 DEF TimedInv
    <2> QED BY <1>8, <2>5, <2>6 DEF FitInv
  <1> QED BY <1>1, <1>10, <1>11

\* Every step of the client host keeps the second part, if the transfer fits.
LEMMA NextFitInv == AnyInv /\ Fits /\ FitInv /\ [Next]_vars => FitInv'
  <1> SUFFICES ASSUME AnyInv, Fits, FitInv, [Next]_vars PROVE FitInv'
    OBVIOUS
  <1> USE DEF ftpcVars, m2Vars, m1Vars
  <1>1. CASE FtpcStep
    BY <1>1, FtpcFacts, FtpcNumbers, FitUnchanged
  <1>2. CASE M1Step \/ TrollLoses
    <2>1. UNCHANGED <<ftpcVars, m2Vars, running, ftpcToM2, toTimer, toM2>>
      BY <1>2, NetworkFacts
    <2>2. Count' = Count /\ Taken' = Taken
      BY <2>1 DEF Count, Taken
    <2> QED BY <1>2, <2>1, <2>2, NetworkFacts, FitUnchanged
  <1>3. CASE TimerStep
    <2>1. UNCHANGED <<ftpcVars, m2Vars, m1Vars, ftpcToM2>>
      BY <1>3, TimerFacts
    <2>2. Count' = Count /\ Taken' = Taken
      BY <2>1 DEF Count, Taken
    <2>3. CASE /\ toTimer # <<>> /\ toTimer' = Tail(toTimer) /\ UNCHANGED toM2
               /\ LET s == Head(toTimer).sequence_number IN
                  running' = IF Head(toTimer).type = "insert" THEN running \union {s}
                             ELSE running \ {s}
      BY <2>1, <2>2, <2>3, TakeRequestFit
    <2>4. CASE /\ UNCHANGED toTimer
               /\ \E s \in running : running' = running \ {s} /\ toM2' = Append(toM2, s)
      BY <2>1, <2>2, <2>4, ExpireFit
    <2> QED BY <1>3, <2>3, <2>4, TimerFacts
  <1>4. CASE M2Step /\ (M2!Select \/ M2!EndOfTurn)
    <2>1. UNCHANGED <<ftpcVars, running, m1Vars, cB, dontcheckNum, ftpcToM2, toTimer, toM2>>
      BY <1>4 DEF M2Step, M2!Select, M2!EndOfTurn
    <2>2. Count' = Count /\ Taken' = Taken
      BY <2>1 DEF Count, Taken
    <2> QED BY <2>1, <2>2, FitUnchanged
  <1>5. CASE UNCHANGED vars
    <2>1. Count' = Count /\ Taken' = Taken
      BY <1>5 DEF vars, Count, Taken
    <2> QED BY <1>5, <2>1, FitUnchanged DEF vars
  <1>6. CASE M2Step /\ ~(M2!Select \/ M2!EndOfTurn)
    BY <1>6, FromFtpcFit, FromTrollFit, FromTimerFit DEF M2Step, M2!Step
  <1> QED BY <1>1, <1>2, <1>3, <1>4, <1>5, <1>6 DEF Next

\* The invariant holds in every reachable state.
LEMMA Invariance == Spec => []IInv
  <1>1. IInv /\ [Next]_vars => IInv'
    BY NextAnyInv, NextFitInv DEF IInv, Fits
  <1> QED BY <1>1, InitIInv, PTL DEF Spec

-----------------------------------------------------------------------------
(***************************************************************************)
(* What it says of the client host.                                        *)
(***************************************************************************)
\* The variables of ftpc, TCPD_M2 and the sockets keep to their types.
THEOREM TypeCorrect == Spec => []TypeOK
  <1>1. IInv => TypeOK
    BY DEF IInv, AnyInv
  <1> QED BY <1>1, Invariance, PTL

\* The shutdown runs back along the chain, whatever is lost: ftpc ends after
\* TCPD_M2 (ftpc.c's "acked"), TCPD_M2 when the FYN has arrived.
THEOREM ShutdownInOrder == Spec => []ShutdownOrder
  <1>1. IInv => ShutdownOrder
    BY DEF IInv, AnyInv, ShutInv
  <1> QED BY <1>1, Invariance, PTL

\* While the slots keep in step with the numbers, what is held is pending.
LEMMA HeldIsPending ==
  ASSUME AnyInv, Open, InStep, NEW i \in Window(cB), cB.packets[i] # NULL
  PROVE  \E n \in Sequence : n % Size = i /\ cB.packets[i] = Packet(n) /\ Pending(n)
  <1> DEFINE d == (cB.end - i) % Size
             n == Count - d
  <1>1. /\ Count \in Nat /\ cB \in Buffers(Contents) /\ Taken = 0 .. Count - 1
        /\ Taken \subseteq Sequence
    BY CountFacts DEF AnyInv
  <1>2. /\ i \in Ring /\ i \in Int /\ cB.end \in Ring /\ cB.start \in Ring
        /\ Size \in Nat /\ Size >= 2
    BY <1>1, SizeAssumption DEF Window, Buffers, Ring
  <1>3. cB.packets[i] = Packet(n) /\ cB.end = Count % Size
    BY DEF InStep
  <1>4. d \in 1 .. Size - 1 /\ d = IF i < cB.end THEN cB.end - i ELSE cB.end - i + Size
    <2>1. d = IF i < cB.end THEN cB.end - i ELSE cB.end - i + Size
      BY <1>1, WindowFacts
    <2>2. d \in Ring
      <3>1. cB.end - i \in Int
        BY <1>2 DEF Ring
      <3> QED BY <3>1, Remainders
    <2> HIDE DEF d
    <2> QED BY <1>2, <2>1, <2>2 DEF Ring
  <1>5. n \in Taken
    <2>1. \E t \in Taken : Packet(n) = Packet(t)
      <3>1. cB.packets[i] \in {Packet(t) : t \in Taken} \union {Blank}
        BY <1>2 DEF AnyInv, SentInv
      <3>2. Packet(n) # Blank
        <4>1. Packet(n).good /\ ~Blank.good
          BY DEF Packet, Blank
        <4> QED BY <4>1
      <3> QED BY <1>3, <3>1, <3>2
    <2>2. PICK t \in Taken : Packet(n) = Packet(t)
      BY <2>1
    <2>3. n = t
      BY <2>2 DEF Packet
    <2> QED BY <2>2, <2>3
  <1>6. n % Size = i
    <2>1. (Count - (((Count % Size) - i) % Size)) % Size = i
      BY <1>1, <1>2, SlotBefore
    <2> QED BY <1>3, <2>1
  <1>7. n \in Sequence /\ n >= 0 /\ n \in Int
    BY <1>1, <1>5, LastSeqAssumption DEF Sequence
  <1> HIDE DEF n, d
  <1>8. ~CircularBufferEmpty(cB)
    BY <1>1, EmptyWindow
  <1>9. CircularBufferFetch(cB, n) = Packet(n)
    BY <1>3, <1>6, <1>7, <1>8 DEF CircularBufferFetch
  <1>10. Pending(n)
    BY <1>3, <1>6, <1>7, <1>9 DEF AnyInv, PendingInv, Pending
  <1> QED BY <1>3, <1>6, <1>7, <1>10

\* As long as no packet was dropped, TCPD_M2 never waits for room with a ring of
\* acknowledged packets: each packet in a full ring is still to be acknowledged,
\* is found at its number and is timed.
THEOREM FullIsUseful == Spec => []FullHoldsPacket
  <1>1. IInv => FullHoldsPacket
    <2> SUFFICES ASSUME AnyInv, Open, InStep, CircularBufferFull(cB)
                 PROVE  Held(cB) # {} /\ \A p \in Held(cB) : Pending(p.sequence_number)
      BY DEF FullHoldsPacket, IInv
    <2>1. ASSUME NEW p \in Held(cB) PROVE Pending(p.sequence_number)
      <3>1. PICK i \in Window(cB) : p = cB.packets[i] /\ cB.packets[i] # NULL
        BY DEF Held
      <3>2. PICK n \in Sequence : p = Packet(n) /\ Pending(n)
        BY <3>1, HeldIsPending
      <3> QED BY <3>2, PacketFacts
    <2> QED BY <2>1 DEF AnyInv, FullNotBare
  <1> QED BY <1>1, Invariance, PTL

\* When ftpc holds back the file, there is something left to lift the hold: an
\* "empty" on its way or, as long as no packet was dropped, a packet timed and
\* waiting for an acknowledgement that makes TCPD_M2 send one.
THEOREM HoldEnds == Spec => []HoldIsLifted
  <1>1. IInv => HoldIsLifted
    <2> SUFFICES ASSUME AnyInv, Open, InStep, CircularBufferFull(cB)
                 PROVE  \E n \in Sequence :
                          Pending(n) /\ ~CircularBufferFull(CircularBufferDelete(cB, n))
      BY DEF HoldIsLifted, IInv, AnyInv, HoldInv, HoldsWhileFull
    <2>1. cB \in Buffers(Contents) /\ NULL \in Contents
      BY CountFacts DEF AnyInv, Contents
    <2>2. PICK i \in Window(cB) : /\ cB.packets[i] # NULL
                                  /\ i = cB.start \/ cB.packets[cB.start] = NULL
      <3>1. cB.start \in Window(cB)
        BY <2>1, FullStart
      <3>2. \E i \in Window(cB) : cB.packets[i] # NULL
        BY DEF AnyInv, FullNotBare, Held
      <3> QED BY <3>1, <3>2
    <2>3. PICK n \in Sequence : n % Size = i /\ Pending(n)
      BY <2>2, HeldIsPending
    <2>4. n \in Nat
      BY LastSeqAssumption DEF Sequence
    <2> QED BY <2>1, <2>2, <2>3, <2>4, DeleteMakesRoom
  <1> QED BY <1>1, Invariance, PTL

\* What is in the ring, if the transfer fits into it.
LEMMA FitHeld ==
  ASSUME AnyInv, Fits, FitInv
  PROVE  /\ \A s \in Taken : Free(s) \/ Packet(s) \in Held(cB)
         /\ \A p \in Held(cB) : \E s \in Taken : p = Packet(s) /\ ~Free(s)
         /\ \A s \in Taken : Packet(s).sequence_number = s
  <1>1. /\ Count \in Nat /\ Count < Size /\ Taken = 0 .. Count - 1 /\ Taken \subseteq Ring
        /\ Taken \subseteq Sequence
    BY FitSlots
  <1>2. cB.start \in Ring /\ cB.end = Count /\ cB.start <= Count
    BY CountFacts DEF AnyInv, Buffers, FitInv, SlotInv
  <1>3. Window(cB) = {i \in Ring : cB.start <= i /\ i < Count}
    BY <1>2, CountFacts, WindowFacts DEF AnyInv
  <1>4. /\ \A s \in Taken : s \notin Window(cB) => Free(s)
        /\ \A i \in Window(cB) : i \in Taken
    BY <1>1, <1>2, <1>3 DEF FitInv, SlotInv, Ring
  <1>5. \A s \in Taken : Free(s) \/ cB.packets[s] = Packet(s)
    BY <1>1 DEF FitInv, SlotInv
  <1>6. \A s \in Taken : Free(s) \/ Packet(s) \in Held(cB)
    BY <1>4, <1>5 DEF Held, Free
  <1>7. \A p \in Held(cB) : \E s \in Taken : p = Packet(s) /\ ~Free(s)
    BY <1>4, <1>5 DEF Held, Free
  <1> QED BY <1>1, <1>6, <1>7, PacketFacts

\* No acknowledgement, duplicate or expiry makes TCPD_M2 forget a packet
\* TCPD_M1 still lacks, if the transfer fits into the ring.
THEOREM KeepsWhatIsNeeded == Spec => []NothingLost
  <1>1. IInv => NothingLost
    <2> SUFFICES ASSUME IInv, Fits PROVE \A s \in Taken : Packet(s) \in Held(cB) \/ s \in received
      BY DEF NothingLost
    <2> QED BY FitHeld DEF IInv, FitInv, SlotInv
  <1> QED BY <1>1, Invariance, PTL

\* Every packet in the ring has a timer, asked for, running or expired.
THEOREM EveryPacketHasTimer == Spec => []EveryPacketIsTimed
  <1>1. IInv => EveryPacketIsTimed
    <2> SUFFICES ASSUME IInv, Fits, NEW p \in Held(cB)
                 PROVE  Timed(p.sequence_number)
      BY DEF EveryPacketIsTimed
    <2>1. PICK s \in Taken : p = Packet(s) /\ ~Free(s) /\ p.sequence_number = s
      BY FitHeld DEF IInv
    <2> QED BY <2>1 DEF IInv, FitInv, TimedInv, Timed, Queued, Insert
  <1> QED BY <1>1, Invariance, PTL

\* A running timer has its packet in the ring, or its cancel on the way.
THEOREM TimerHasPacket == Spec => []TimersHavePackets
  <1>1. IInv => TimersHavePackets
    <2> SUFFICES ASSUME IInv, Fits, NEW s \in running
                 PROVE  \/ \E p \in Held(cB) : p.sequence_number = s
                        \/ Cancel(s) \in Image(toTimer)
      BY DEF TimersHavePackets, Cancelled, Cancel
    <2>1. s \in Taken /\ (~Free(s) \/ Cancel(s) \in Image(toTimer))
      BY DEF IInv, FitInv, OnceInv, TimedInv
    <2> QED BY <2>1, FitHeld DEF IInv
  <1> QED BY <1>1, Invariance, PTL

\* TCPD_M2 asks for no second timer for a number while one is asked for or runs.
THEOREM OneTimerPerPacket == Spec => []OneTimerEach
  <1>1. IInv => OneTimerEach
    <2> SUFFICES ASSUME IInv, Fits PROVE OneTimerEach
      BY DEF OneTimerEach
    <2>1. \A i \in DOMAIN toTimer : \E s \in Taken : toTimer[i] \in {Insert(s), Cancel(s)}
      BY DEF IInv, FitInv, OnceInv
    <2>2. ASSUME NEW i \in DOMAIN toTimer, NEW s, toTimer[i] = Insert(s)
          PROVE  /\ s \notin running
                 /\ \A j \in DOMAIN toTimer : toTimer[j] = Insert(s) => j = i
      <3>1. s \in Taken
        BY <2>1, <2>2, RequestForms
      <3> QED BY <2>2, <3>1 DEF IInv, FitInv, OnceInv
    <2>3. ASSUME NEW s, Queued(s) PROVE s \notin running
      <3>1. PICK i \in DOMAIN toTimer : toTimer[i] = Insert(s)
        BY <2>3 DEF Queued, Image, Insert
      <3> QED BY <2>2, <3>1
    <2>4. ASSUME NEW i \in DOMAIN toTimer, NEW j \in DOMAIN toTimer,
                 toTimer[i] = toTimer[j], toTimer[i].type = "insert"
          PROVE  i = j
      <3>1. PICK s \in Taken : toTimer[i] = Insert(s)
        BY <2>1, <2>4, RequestForms
      <3> QED BY <2>2, <2>4, <3>1
    <2> QED BY <2>3, <2>4 DEF OneTimerEach
  <1> QED BY <1>1, Invariance, PTL

-----------------------------------------------------------------------------
(***************************************************************************)
(* What a step of the client host may do.                                  *)
(***************************************************************************)
\* The packets a step sends through the troll.
SendsOwn ==
  Fits => \A p \in m2m1' \ m2m1 :
            \/ p.sequence_number \in Taken' /\ p = Packet(p.sequence_number)
            \/ p = FinalAck /\ \E a \in m1m2 : a.FYN

\* Only TCPD_M2's handlers send or change the ring, and only FromFtpc reads a packet.
LEMMA OtherSteps ==
  ASSUME AnyInv, [Next]_vars
  PROVE  \/ /\ Count' = Count /\ cB' = cB /\ m2m1' \subseteq m2m1
         \/ M2Step /\ M2!FromFtpc
         \/ \E a \in m1m2 : M2Step /\ M2!FromTroll(a)
         \/ M2Step /\ M2!FromTimer
  <1> USE DEF ftpcVars, m2Vars
  <1>1. CASE FtpcStep
    BY <1>1, FtpcFacts, FtpcNumbers
  <1>2. CASE M1Step \/ TrollLoses
    BY <1>2, NetworkFacts DEF Count
  <1>3. CASE TimerStep
    BY <1>3, TimerFacts DEF Count
  <1>4. CASE M2Step /\ (M2!Select \/ M2!EndOfTurn)
    BY <1>4 DEF M2Step, M2!Select, M2!EndOfTurn, Count
  <1>5. CASE UNCHANGED vars
    BY <1>5 DEF vars, Count
  <1>6. CASE M2Step /\ ~(M2!Select \/ M2!EndOfTurn)
    BY <1>6 DEF M2Step, M2!Step
  <1> QED BY <1>1, <1>2, <1>3, <1>4, <1>5, <1>6 DEF Next

LEMMA NextSendsOwn == IInv /\ [Next]_vars => SendsOwn
  <1> SUFFICES ASSUME IInv, [Next]_vars, Fits, NEW p \in m2m1', p \notin m2m1
               PROVE  \/ p.sequence_number \in Taken' /\ p = Packet(p.sequence_number)
                      \/ p = FinalAck /\ \E a \in m1m2 : a.FYN
    BY DEF SendsOwn
  <1>1. AnyInv /\ FitInv
    BY DEF IInv
  <1>2. CASE M2Step /\ M2!FromFtpc
    <2>1. p = Packet(Count) /\ Count \in Taken' /\ Count \in Sequence
      BY <1>1, <1>2, FromFtpcFacts
    <2> QED BY <2>1, PacketFacts
  <1>3. ASSUME NEW a \in m1m2, M2Step, M2!FromTroll(a)
        PROVE  p = FinalAck /\ a.FYN
    <2>1. \/ a.FYN /\ m2m1' = m2m1 \union {FinalAck}
          \/ m2m1' = m2m1
      BY <1>1, <1>3, FromTrollFacts
    <2> QED BY <2>1
  <1>4. CASE M2Step /\ M2!FromTimer
    <2> DEFINE s == Head(toM2)
    <2>1. /\ s \in Image(toM2)
          /\ p = cB.packets[s % Size] /\ p # NULL
          /\ UNCHANGED <<ftpcVars, ftpcToM2>>
      <3> DEFINE N == Sequence \union {-1}
      <3>1. toM2 \in Seq(N) /\ toM2 # <<>>
        BY <1>1, <1>4, FromTimerFacts DEF AnyInv, TypeOK
      <3> HIDE DEF N
      <3>2. s \in Image(toM2)
        BY <3>1, TailFacts
      <3> QED BY <1>1, <1>4, <3>2, FromTimerFacts
    <2> HIDE DEF s
    <2>2. s \in Taken /\ s % Size = s /\ s \in Ring /\ s < Count
      <3>1. s \in Taken
        BY <1>1, <2>1 DEF FitInv, OnceInv
      <3> QED BY <1>1, <3>1, FitSlots
    <2>3. p = Packet(s) /\ p.sequence_number = s
      BY <1>1, <2>1, <2>2, FitHeld DEF FitInv, SlotInv, Free
    <2>4. Taken' = Taken
      BY <2>1 DEF ftpcVars, Taken, Count
    <2> QED BY <2>2, <2>3, <2>4
  <1> QED BY <1>1, <1>2, <1>3, <1>4, OtherSteps

\* TCPD_M2 sends only packets it was given, and the final acknowledgement only
\* on an acknowledgement with FYN: what TCPD_M1 assumes of its peer.
THEOREM ProtocolKept == Spec => SpeaksProtocol
  BY NextSendsOwn, Invariance, PTL DEF Spec, SpeaksProtocol, SendsOwn

\* The packets that leave the ring in a step, and the slots after it.
FreesOwn ==
  InStep => /\ \A p \in Held(cB) \ Held(cB') :
                 \/ dontcheckNum' = p.sequence_number
                 \/ dontcheckNum' + Size <= p.sequence_number
            /\ InStep' \/ CircularBufferFull(cB)

LEMMA WriteInStep ==
  ASSUME AnyInv, InStep, M2Step, M2!FromFtpc, ~CircularBufferFull(cB)
  PROVE  Held(cB) \subseteq Held(cB') /\ InStep'
  <1>1. /\ cB \in Buffers(Contents) /\ Packet(Count) \in Contents
        /\ Count \in Nat /\ Count' = Count + 1
        /\ cB' = CircularBufferWrite(cB, Packet(Count))
    BY FromFtpcFacts, CountFacts DEF AnyInv, Contents
  <1>2. /\ cB.end = Count % Size
        /\ \A i \in Window(cB) :
             cB.packets[i] \in {NULL, Packet(Count - ((cB.end - i) % Size))}
    BY DEF InStep
  <1>3. /\ cB' \in Buffers(Contents)
        /\ cB'.start = cB.start
        /\ cB'.end = (cB.end + 1) % Size
        /\ cB'.packets[cB.end] = Packet(Count)
        /\ \A i \in Ring : i # cB.end => cB'.packets[i] = cB.packets[i]
        /\ cB.end \in Ring /\ cB.end \notin Window(cB)
        /\ Window(cB') = Window(cB) \union {cB.end}
    BY <1>1, WriteFacts
  <1>4. \A i \in Window(cB) : i \in Ring /\ i # cB.end
    BY <1>3 DEF Window
  <1>5. Held(cB) \subseteq Held(cB')
    BY <1>3, <1>4 DEF Held
  <1>6. cB'.end = Count' % Size
    BY <1>1, <1>2, <1>3, NextRemainder
  <1>7. cB'.end = IF cB.end = Size - 1 THEN 0 ELSE cB.end + 1
    BY <1>3, Remainders
  <1>8. ASSUME NEW i \in Window(cB)
        PROVE  Count' - ((cB'.end - i) % Size) = Count - ((cB.end - i) % Size)
    <2>1. /\ (cB.end - i) % Size = IF i < cB.end THEN cB.end - i ELSE cB.end - i + Size
          /\ (cB'.end - i) % Size = IF i < cB'.end THEN cB'.end - i ELSE cB'.end - i + Size
      BY <1>1, <1>3, WindowFacts
    <2>2. (cB'.end - i) % Size = ((cB.end - i) % Size) + 1 /\ (cB.end - i) % Size \in Int
      BY <1>3, <1>4, <1>7, <2>1, SizeAssumption DEF Ring
    <2> QED BY <1>1, <2>2
  <1>9. Count' - ((cB'.end - cB.end) % Size) = Count
    <2>1. (cB'.end - cB.end) % Size =
            IF cB.end < cB'.end THEN cB'.end - cB.end ELSE cB'.end - cB.end + Size
      BY <1>3, WindowFacts
    <2>2. (cB'.end - cB.end) % Size = 1
      BY <1>3, <1>7, <2>1, SizeAssumption DEF Ring
    <2> QED BY <1>1, <2>2
  <1>10. \A i \in Window(cB') :
           cB'.packets[i] \in {NULL, Packet(Count' - ((cB'.end - i) % Size))}
    <2>1. \A i \in Window(cB) :
            cB'.packets[i] \in {NULL, Packet(Count' - ((cB'.end - i) % Size))}
      BY <1>2, <1>3, <1>4, <1>8
    <2>2. cB'.packets[cB.end] \in {NULL, Packet(Count' - ((cB'.end - cB.end) % Size))}
      BY <1>3, <1>9
    <2> QED BY <1>3, <2>1, <2>2
  <1> QED BY <1>5, <1>6, <1>10 DEF InStep

LEMMA DeleteInStep ==
  ASSUME AnyInv, InStep, M2Step, NEW a \in m1m2, M2!FromTroll(a)
  PROVE  FreesOwn
  <1> DEFINE s == a.sequence_number
             new == CircularBufferDelete(cB, s)
  <1>1. /\ UNCHANGED <<ftpcVars, ftpcToM2>> /\ dontcheckNum' = s
        /\ s \in Taken /\ s \in Nat
        /\ cB' = new
    BY FromTrollFacts
  <1>2. cB \in Buffers(Contents) /\ NULL \in Contents /\ Count \in Nat /\ Taken = 0 .. Count - 1
    BY CountFacts DEF AnyInv, Contents
  <1>3. \A p \in Held(cB) \ Held(new) : s % Size \in Window(cB) /\ p = cB.packets[s % Size]
    BY <1>1, <1>2, DeleteHeld
  <1>4. /\ new.end = cB.end
        /\ \A i \in Ring : new.packets[i] = cB.packets[i] \/ new.packets[i] = NULL
        /\ Window(new) \subseteq Window(cB)
    BY <1>1, <1>2, DeleteWindow
  <1> HIDE DEF new
  <1>5. Count' = Count
    BY <1>1 DEF ftpcVars, Count
  <1>6. /\ cB.end = Count % Size
        /\ \A i \in Window(cB) :
             cB.packets[i] \in {NULL, Packet(Count - ((cB.end - i) % Size))}
    BY DEF InStep
  <1> HIDE DEF s
  <1>7. ASSUME NEW p \in Held(cB), p \notin Held(cB')
        PROVE  dontcheckNum' = p.sequence_number \/ dontcheckNum' + Size <= p.sequence_number
    <2> DEFINE d == (cB.end - (s % Size)) % Size
    <2>1. s = Count - d \/ s + Size <= Count - d
      BY <1>1, <1>2, <1>6, SameSlot
    <2>2. p # NULL
      BY <1>7 DEF Held
    <2>3. p = Packet(Count - d)
      BY <1>1, <1>3, <1>6, <1>7, <2>2
    <2>4. p.sequence_number = Count - d
      BY <2>3 DEF Packet
    <2> QED BY <1>1, <2>1, <2>4
  <1>8. InStep'
    <2>1. \A i \in Window(cB') : i \in Window(cB) /\ i \in Ring
      BY <1>1, <1>4 DEF Window
    <2> QED BY <1>1, <1>4, <1>5, <1>6, <2>1 DEF InStep
  <1> QED BY <1>7, <1>8 DEF FreesOwn

LEMMA NextFreesOwn == IInv /\ [Next]_vars => FreesOwn
  <1> SUFFICES ASSUME IInv, [Next]_vars, InStep PROVE FreesOwn
    BY DEF FreesOwn
  <1>1. AnyInv
    BY DEF IInv
  <1>2. CASE Count' = Count /\ cB' = cB
    BY <1>2 DEF FreesOwn, InStep
  <1>3. CASE M2Step /\ M2!FromFtpc
    <2>1. CASE CircularBufferFull(cB)
      BY <1>1, <1>3, <2>1, FromFtpcFacts DEF FreesOwn
    <2>2. CASE ~CircularBufferFull(cB)
      BY <1>1, <1>3, <2>2, WriteInStep DEF FreesOwn
    <2> QED BY <2>1, <2>2
  <1>4. CASE M2Step /\ M2!FromTimer
    <2>1. UNCHANGED <<ftpcVars, ftpcToM2, cB>>
      BY <1>1, <1>4, FromTimerFacts
    <2> QED BY <1>2, <2>1 DEF ftpcVars, Count
  <1> QED BY <1>1, <1>2, <1>3, <1>4, DeleteInStep, OtherSteps

\* An acknowledgement frees the packet of its number, or one Size or more later
\* in the same slot, as long as no packet found the ring full.
THEOREM FreesOwnSlot == Spec => FreedByOwnSlot
  BY NextFreesOwn, Invariance, PTL DEF Spec, FreedByOwnSlot, FreesOwn

=============================================================================
