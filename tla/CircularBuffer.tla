--------------------------- MODULE CircularBuffer ---------------------------
(***************************************************************************)
(* The ring of packets TCPD_M2 keeps until they are acknowledged           *)
(* (circularBuffer.c), as operators on a record [start, end, packets].     *)
(*                                                                         *)
(* Write appends at end; Fetch and Delete find a packet by its sequence    *)
(* number modulo the size, without looking at the number the slot holds.   *)
(***************************************************************************)
EXTENDS Packets

CONSTANTS
  Size,  \* slots of the ring (64); one of them always stays unused
  NULL   \* a slot without a packet

ASSUME SizeAssumption == Size \in Nat /\ Size >= 2
ASSUME NULLAssumption == NULL \notin DataPacket

Ring == 0 .. Size - 1

\* A slot not yet written: calloc'ed and numbered -1, so its checksum, 0, is not
\* that of its payload.
Blank == [sequence_number |-> -1, FYN |-> FALSE, good |-> FALSE]

CircularBufferInitialization ==
  [start |-> 0, end |-> 0, packets |-> [i \in Ring |-> Blank]]

CircularBufferFull(cb) == (cb.end + 1) % Size = cb.start

CircularBufferEmpty(cb) == cb.end = cb.start

CircularBufferWrite(cb, p) ==
  [cb EXCEPT !.packets[cb.end] = p, !.end = (cb.end + 1) % Size]

\* (Faulty: the oldest packet, whatever the number.)
FetchOldest(cb, s) ==
  IF CircularBufferEmpty(cb) THEN NULL ELSE cb.packets[cb.start]

\* C's remainder keeps the sign: slot -1 is read for number -1, before the array.
CircularBufferFetch(cb, s) ==
  IF CircularBufferEmpty(cb) \/ s < 0 THEN NULL ELSE cb.packets[s % Size]

\* (Faulty: the start never moves; it moves whether or not its slot is free.)
AdjustStartNever(cb) == cb
AdjustStartAlways(cb) == [cb EXCEPT !.start = (cb.start + 1) % Size]

\* The start moves over one free slot at most.
CircularBufferAdjustStart(cb) ==
  IF cb.packets[cb.start] = NULL
  THEN [cb EXCEPT !.start = (cb.start + 1) % Size]
  ELSE cb

CircularBufferDelete(cb, s) ==
  IF CircularBufferEmpty(cb) \/ cb.packets[s % Size] = NULL THEN cb
  ELSE CircularBufferAdjustStart([cb EXCEPT !.packets[s % Size] = NULL])

\* The slots from start up to end, and the packets in them.
Window(cb) == {i \in Ring : (i - cb.start) % Size < (cb.end - cb.start) % Size}

Held(cb) == {cb.packets[i] : i \in Window(cb)} \ {NULL}

=============================================================================
