# A file transfer over a home-made TCP: specifications, checks and proofs

The program copies one file from a client host to a server host over UDP. Five
processes and two network emulators take part:

```
 client host                                              server host
 ftpc --packets--> TCPD_M2 --------> troll --------> TCPD_M1 --packets--> ftps
      <--status---   |  ^  <-------- troll <--------         <---port----
            requests v  | expiries
                  timer process
```

Local sockets lose and reorder nothing; the troll does both, and repeats and
damages packets. One transfer is a numbered series: packet 0 carries the file's
size, 1 its name, 2, 3, ... its bytes, and the last, `LastSeq`, is the FYN.

## The components

| Component | State | Operations | What makes it correct |
|---|---|---|---|
| ftpc (`ftpc.c`) | position in the file, `flag` (hold), `zero_byte_flag` (FYN sent) | send header, data, FYN; read one status message | it sends each packet once; a hold is lifted; it ends |
| TCPD_M2 (`TCPD_M2.c`) | ring of unacknowledged packets, last acknowledged number | one turn of the loop: packet from ftpc, acknowledgement, expiry, "full" | nothing is forgotten before it is acknowledged; everything unacknowledged is timed; it stops only when all is delivered |
| ring (`circularBuffer.c`) | 64 slots, `start`, `end` | write, fetch, delete, adjust start | the window holds what is unacknowledged; as long as no packet was dropped, everything in a full ring waits for an acknowledgement |
| timer process (`timerprocess.c`) | delta list, current wait | start, cancel, expire | timers expire in time, each once, the list's differences stay exact |
| TCPD_M1 (`TCPD_M1.c`) | receive buffer, its head, the sticky FYN flag | take data, FYN, final acknowledgement; flush | ordered delivery; what is acknowledged is delivered |
| ftps (`ftps.c`) | file pointer, bytes written | send port, open, write, close | the bytes are in order and complete |
| troll (binary) | packets under way | deliver, lose, repeat, damage | external |
| estimator (`Jacobson.c`) | sample, estimate, deviation, time each packet was last sent | sample, calibrate, convert to seconds | it stays within what was measured; a timer is asked for longer than the last round trip (but for packet 1's fixed 3 s), and not without bound |
| checksum (`crc.c`) | a table | fill the table, sum byte by byte | the table computes the bitwise division; damage changes the sum |

What is hard: the five processes interleave; every message between the hosts
may be late, lost or repeated; expiries race acknowledgements inside TCPD_M2's
loop; the shutdown is a chain over all of them; a delta list makes each timer
depend on all before it; several buffers are finite; and the estimator and the
checksum compute with truncation and shifts that only show over long inputs.

## The modules

| Module | Models | Code |
|---|---|---|
| `Packets` | packet formats; the troll's channels | `packet.h`, the packets ftpc makes |
| `TCPD_M1` | the server's daemon, one action per branch of its loop | `TCPD_M1.c` |
| `OrderedDelivery` | abstract: what ftps is promised | |
| `Receiver` | abstract: what the client is promised | |
| `TCPD_M1_proofs` | theorems about `TCPD_M1` | |
| `TCPD_M1_reception_proofs` | `TCPD_M1` implements `Receiver` | |
| `CircularBuffer` | the ring's operations, as operators on a record | `circularBuffer.c` |
| `CircularBuffer_proofs` | theorems about the ring, and about remainders | |
| `TCPD_M2` | the client's daemon, one action per handler of a turn | `TCPD_M2.c` |
| `TimerProcess` | the delta list and the process's loop, with seconds | `timerprocess.c` |
| `TimerProcess_proofs` | theorems about `TimerProcess`, and that it implements `TimerService` | |
| `TimerService` | abstract: what TCPD_M2 is promised | |
| `FTPC`, `FTPS` | the two applications | `ftpc.c`, `ftps.c` |
| `Jacobson` | the estimator and its callers in TCPD_M2 | `Jacobson.c`, `TCPD_M2.c` |
| `Jacobson_proofs` | theorems about `Jacobson` | |
| `CRC` | the checksum, byte by byte, of a payload and of its damaged copy | `crc.c`, `crc.h` |
| `CRC_proofs` | theorems about `CRC` | |
| `Client` | ftpc, TCPD_M2, timer process, troll, and the server as `Receiver` | |
| `Client_proofs` | theorems about `Client` | |
| `Server` | TCPD_M1 and ftps, with TCPD_M1's environment as the client | |
| `Server_proofs` | theorems about `Server` | |

The composition is divided at the troll. Each half uses of the other only what
has been checked of it:

* `TCPD_M1` implements `Receiver` (`ImplementsReceiver`), which stands for the
  server in `Client`.
* In `Client`, TCPD_M2 sends only packets ftpc gave it, and the final
  acknowledgement only on a FYN acknowledgement (`SpeaksProtocol`): what
  `PeerSends` and `PeerSendsFinalAck` allow TCPD_M1's peer to do in `TCPD_M1`
  and `Server`.
* `TimerProcess` implements `TimerService` (`ImplementsService`), which stands
  for it in `Client`; and `Client` never asks for two timers for one number
  (`OneTimerEach`), the condition (`restarted`) under which the delta list is
  right.
* `CRC` says what "the checksum agrees" stands for in the other modules, and
  `Jacobson` how long the timers are that `Client` lets expire at any time.

### State and actions against the code

* A payload is reduced to `good`: whether the checksum agrees. The troll changes
  payload bytes only, so numbers and FYN flags are never damaged.
* A channel of the troll is a set. With `Duplicates = TRUE` a packet put into it
  may arrive any number of times, or never; with `FALSE` at most once.
* `TCPD_M1`: `m1pc` is the place in `main`; the branches of the loop body are
  `ReceiveData`, `ReceiveFYN`, `ReceiveFinalAck`, `Discard`; `OverrunStore` and
  `OverrunHead` are accesses outside `buff_received`, after which the model stops
  because the behaviour is undefined. The flush is one action per slot.
* `TCPD_M2`: `Select` takes the set of ready sockets, `FromFtpc`, `FromTroll`,
  `FromTimer` handle them in the code's order, `EndOfTurn` reports "full". A
  fetch that finds no packet returns no value in C; the model goes to `crashed`,
  which is what the build of the Makefile does.
* `TimerProcess`: `waited` counts the seconds the current `select()` has slept; a
  request interrupts it between two seconds, and the rest of the wait is rounded
  down. `LinkedListDeleteSequenceNumber` is given in closed form: the entries
  for the number go, the others stay due when they were, the passed time is
  charged to the head once per deletion. The C loop reads `link->next` of a node
  it has just freed; the model takes the value the C library leaves there.
* `FTPC`: one action per half of a turn of the loop; the status socket does not
  block. `NoFile` is the `fopen` whose null pointer the code does not notice:
  the process crashes at `fseek`, before it has sent anything. `FTPS`: one action
  per branch; its `fopen` may fail in the same way, and then the first write
  crashes (`UseUnsetFile`, as for a write before the name has arrived).
* `Jacobson`: SRTT and RTTVAR, floats, are in eighths of a millisecond and
  rounded down, so that the divisions by 8 and by 4 are integer ones; `abs()`
  and the conversion to seconds drop fractions as the code does. A packet sent
  for the first time and one sent again both update the estimate with the last
  sample; an acknowledgement, the first or a late one, takes a sample from the
  time the packet was *last* sent. `longest` is a history variable. The clock
  does not go back.
* `CRC`: a byte or a remainder is the set of the positions of its one-bits; XOR is
  the symmetric difference, and a shift adds to each position. One step is one
  turn of the loop over the bytes, in the table-driven and in the bitwise
  computation for the payload as sent, and in the table-driven one for the
  payload as it arrived. An invariant thus speaks of payloads of every length
  within the bound.

## Runs

| Run | Shows |
|---|---|
| `m1` | TCPD_M1 with a transfer of four packets, sent any number of times in any order, delayed, damaged or lost: `DeliveredInOrder`, `AckedIsSafe`, `AckedIsDelivered`, `StaysInBounds`, and both refinements. |
| `timer` | three numbers, times of 3 and 4 seconds, four requests at any second: exact bookkeeping (`DueIsExact`), no negative wait, overdue only through an absent cancel, every timer ends, the service is implemented. |
| `client_small` | a transfer of four packets in a ring of five slots: nothing is lost by TCPD_M2, each packet has one timer (`EveryPacketIsTimed`, `OneTimerEach`), no timer outlives its packet (`TimersHavePackets`), the shutdown's order, the protocol. |
| `client_ring` | four packets in a ring of three slots, TCPD_M2 going on while a message waits for ftpc: wrapping, full buffers, dropped packets, stale acknowledgements. As long as the slots keep in step with the numbers (`InStep`), every packet in a full ring still waits for its acknowledgement, is found at its number and is timed (`FullHoldsPacket`); a file that ftpc holds back moves again, by an "empty" on its way or by the acknowledgement of a timed packet that makes TCPD_M2 send one (`HoldIsLifted`); and a packet is freed by its own acknowledgement or by a late one of the packet that had its slot before (`FreedByOwnSlot`). |
| `client_lossy` | a troll that drops, and a file that may be missing: under fairness the client ends or crashes. |
| `server` | TCPD_M1 with ftps, a buffer as large as the transfer, so that it can be overrun, and an `fopen` that may fail: the file in order, complete as acknowledged, and closed. |
| `jacobson` | three packets, round trips from 0 to 8 s, four updates: the estimate stays within what was measured; every timer but packet 1's is asked for longer than the last sample by more than a second, packet 1's if the sample is below two seconds; and no timer is asked for beyond a bound on the longest sample. |
| `crc` | payloads of up to four bytes, damaged in any of them: the table is right, damage within two adjacent bytes and odd damage are detected, a blank slot is not a good packet. |
| `early_shutdown` | violation: the FYN, sent on its timer, ends a transfer with data missing. |
| `stale_expiry` | violation: an expiry read late makes TCPD_M2 use a packet it has freed. |
| `ring_drop` | violation: a packet read from ftpc while the ring is full is in no buffer any more. |
| `last_ack_lost` | violation: TCPD_M2 has closed, its only final acknowledgement is lost, TCPD_M1 waits. |

### Bounds

* `LastSeq` 2 to 4: the two header packets, up to two data packets and the FYN;
  enough for a gap, a duplicate behind the head and one in front of it, and an
  early FYN.
* `Capacity`, `MaxAccepted` (1000, 2000) and `Size` (64) are small so that the
  limits are met; `StaysInBounds` and `Fits` state how the limits relate to
  `LastSeq`.
* `MaxStatus`, `MaxRequests` (in `Client`): TCPD_M2 begins a turn only when no
  more messages than that wait for ftpc or the timer process. Expiries still
  queue up while a turn is under way. `client_ring` has `MaxStatus = 1`: with 0,
  TCPD_M2 waits until ftpc has read "full", and by the time the run could tell a
  forgotten flag from a kept one a packet has been dropped, so that the slots
  are out of step.
* `MaxRequests` (in `TimerProcess`): requests in one behaviour; four make two
  timers, a cancel and one that is absent, in any order.
* `Delays`, `MaxNow`, `MaxCalibrations` (in `Jacobson`): a step of 1.5 s and one of
  5 s give samples on both sides of the second at which the timer's length
  starts to depend on the estimate; four updates are enough for the estimate to
  rise and to fall. `Jacobson_proofs` has no such bound.
* `Bytes`, `Flips`, `MaxLength` (in `CRC`): two bytes and six ways to damage one
  (one, two, three and eight bits), payloads of four bytes, so that a damaged
  byte has two on each side or damage is spread over all. `CRC_proofs` covers all
  bytes, all flips and all lengths.
* `Duplicates = TRUE` covers lost packets in safety runs, since a packet may stay
  in the channel for ever; the runs with `FALSE` remove packets.

### Fairness

* `TimerProcess!FairSpec`: weak fairness of the process. `select()` returns at
  the end of its time and the scheduler runs the process.
* `Client!FairSpec`: weak fairness of ftpc, TCPD_M2 and the timer process; strong
  fairness for the arrival of packets TCPD_M1 lacks (the troll drops a
  percentage, `-x 10`, so a packet that is sent again and again arrives); strong
  fairness for reading acknowledgements, whose troll is run with `-x 0`.
* `Server!FairSpec`: weak fairness of ftps and of the flush after the main loop.

Runs with `CHECK_DEADLOCK FALSE` are those in which the processes really stop:
transfers end, daemons exit, and TCPD_M2 may make no further request.

## What is proved

`TCPD_M1_proofs`, checked by TLAPS for every `LastSeq >= 2`, `Capacity >= 2`,
`MaxAccepted` and `Duplicates`, from the named assumptions on these constants:

* `TypeCorrect`, `InOrder`, `AckSafety`, `Bounds`, `NothingAckedIsLost`: the
  invariants of run `m1`.
* `Refinement`: `Spec => Delivery!Spec`, TCPD_M1 implements `OrderedDelivery`.

None of the invariants is inductive by itself. The inductive invariant `IInv`
adds: a slot is free or holds the packet of its own number, except that after
the main loop slot 1 may hold the final acknowledgement (`SlotsInv`); whatever
makes the peer send the final acknowledgement implies that the FYN packet is
safe (`FynInv`); during the flush, what the buffer holds between the head and
`counter` has been sent, and nothing from `counter` on (`FlushInv`); and the
head never passes the FYN's successor (`HeadInv`). The proof has one lemma per
action; `AckedIsSafe` is the crux: `Forward` frees a slot, and the packet stays
safe because the head moves over it in the same step.

`TCPD_M1_reception_proofs`:

* `ReceiverRefinement`: `Spec => Reception!Spec` when `LastSeq + 1 < Capacity`,
  the promise `Client` composes TCPD_M2 with. Without the hypothesis it fails: a
  late duplicate overruns the array. The proof strengthens `IInv` by the
  converse of `FynInv` (`FynExact`: in the main loop `ack_FYN` is set once the
  FYN is at hand), because `Receiver` marks an acknowledgement with FYN exactly
  when it has the FYN; its core is what each receiving action does to the set of
  safe positions (`DataMakesSafe`, `FynMakesSafe`, `FinalAckKeepsSafe`).

`CRC_proofs`, for every set of bytes, every damage and every length:

* `TableIsRight`: `crcFast` returns what `crcSlow` does (`FastIsSlow`). One turn of
  the loop over the bits is linear (`DivideBitLinear`), hence so are eight, and a
  byte in the lower half of the remainder is only shifted by them
  (`DivideLowByte`): the remainder may be split into the byte the table is asked
  for and the one that is shifted (`FastStep`).
* `BurstsAreDetected`: damage within two adjacent bytes is detected
  (`DamageDetected`). The inductive `DamageInv` says what the difference of the
  two remainders is: nothing before the damage, after one damaged byte what
  division makes of a byte at the top. It cannot be undone by the next byte,
  and after that no byte makes it 0, since division loses nothing
  (`DivideBitKernel`: the polynomial has the term 1).
* `OddIsDetected`: damage to an odd number of bits is detected
  (`OddDamageDetected`). The polynomial has an even number of terms, so a step of
  the division keeps the parity of the number of one-bits: a shift loses the
  highest bit just when the polynomial is subtracted. The difference of the two
  remainders has the parity of the bits flipped so far, and is not empty if that
  is odd.
* `BlankIsDamaged`: from the same fact as `BurstsAreDetected` and the initial
  remainder 0xFFFF.
* `TypeCorrect`.

`Jacobson_proofs`, for every number of packets, delays, and updates:

* `EstimatesStayInRange`, `TimersOutlast`, `TimersAreBounded`: the properties of
  run `jacobson`. `TimersOutlast` is about every timer started. Packet 1 is the
  exception the code makes (`TCPD_M2.c:243`): its timer is 3 s whatever packet
  0's round trip was, so that the second to spare is lost if that took two
  seconds, and the timer does not outlast it if it took three.
  `TimersAreBounded` is about the seconds asked for, not about the time of the
  resend: absent cancels make the timer process wait longer, without such a
  bound (`OverdueOnlyIfForgotten` of `TimerProcess`). Type correctness with
  `EstimatesInRange` is inductive: each update moves the estimate an eighth of
  the way to the sample, which lies below `longest`. `TimerIsBounded` is inductive
  relative to these: `longest` only grows, so a timer stays within the bound while
  the estimate changes.
* `TypeCorrect`.

`Server_proofs`, for every `LastSeq`, `Capacity`, `MaxAccepted` and `Duplicates`:

* `HostRunsDaemon`: `Spec => Daemon!Spec`, every step of the host is a step of
  TCPD_M1's specification or leaves its variables alone. The host therefore has
  `IInv` of `TCPD_M1_proofs`, whose theorems are used as they stand, with the
  host's variables for those of TCPD_M1.
* `FileOrder`, `NothingAckedIsMissing`, `CrashOnlyWithoutName`, `TypeCorrect`: the
  invariants of run `server`. `TypeCorrect` is about all the host's variables:
  those of TCPD_M1 and the sockets have their types by `Daemon!IInv`, those of ftps
  by `FtpsTypeOK`. Inductive they become together with what joins
  ftps to TCPD_M1: the port's packets follow those ftps has read without a gap
  (`PortInv`), a file was opened only when packet 1 had come by (`NameInv`), an
  end of ftps comes only after the FYN packet (`EndInv`), and what ftps has read
  between the header and the FYN is in the file (`FileInv`).

`CircularBuffer_proofs`, for every size of the ring and any contents:

* `DeletionIsLocal`: what a deletion does to the slots, the start and the window.
* The lemmas `Client_proofs` cites: the window without remainders (`WindowFacts`),
  a write to a ring that is not full (`WriteFacts`), counting on in remainders
  (`NextRemainder`), which numbers share a slot (`SameSlot`), the
  window's first slot and what a deletion makes of it (`SlotBefore`,
  `EmptyWindow`, `DeleteWindow`), and that deleting a full ring's first packet
  makes room (`FullStart`, `DeleteMakesRoom`).

`Client_proofs`, for every `LastSeq >= 2`, `Size >= 2`, every troll and all bounds on
the queues. The inductive invariant `IInv` has two parts:

* `AnyInv` holds of every transfer. ftpc's socket holds the next numbers in order
  (`FtpcInv`); what is in the ring, under way or acknowledged has been read
  (`SentInv`); "acked" and the final acknowledgement come from a TCPD_M2 that has
  ended (`ShutInv`); a packet in the slot of its number is timed, has no cancel on
  its way and is not the last one acknowledged (`PendingInv`); ftpc holds back
  the file, or has a "full" still to read, only while the ring is full or an
  "empty" comes behind (`HoldInv`, with `HoldsWhileFull`); and a full ring's
  window is not bare (`FullNotBare`). While the slots are in step (`InStep`),
  every packet is in the slot of its number, and the acknowledgement of a full
  window's first packet makes room. Once they are not, after a dropped packet,
  nothing of the kind holds (see below). `AnyInv` gives
  `TypeCorrect`, `ShutdownInOrder`, `FullIsUseful`, `HoldEnds`, and, with the
  lemmas on remainders, the action property `FreesOwnSlot`.
* `FitInv` holds of a transfer that fits into the ring (`Fits`), whose packets have
  the slots of their numbers: a free slot's number has reached TCPD_M1, and so
  has the last one acknowledged (`SlotInv`); a number's timer is asked for,
  running or expired, only one of these and only once (`OnceInv`); and a packet
  has a timer, a timer its packet or a cancel behind it in the queue
  (`TimedInv`). It gives `KeepsWhatIsNeeded`, `EveryPacketHasTimer`,
  `TimerHasPacket`, `OneTimerPerPacket`, and the action property `ProtocolKept`.

The proof has one lemma per action and part. `FromTrollFit` is the crux: an
acknowledgement that arrives when the ring is empty frees nothing, and leaves a
cancel in the queue that finds no timer; `FromTimerFit` shows that an expiry
finds the packet of its own number, or is ignored, or ends in `crashed` with the
slot free, never a packet of another number.

`FreedByOwnSlot` was once stated with a weaker premise, that all packets in the
ring are in the slots of their numbers. The proof did not go through, and there
is a counterexample in a ring of three: after packets have been dropped, one is
written to a slot that is not its own, a late acknowledgement frees it, and the
premise holds again by chance with `end` out of step. The premise `InStep` now
says that `end` and every slot of the window agree with the count of packets
read, and the property adds that this lasts until a packet finds the ring full.

`TimerProcess_proofs`, for every set of numbers and times and any requests:

* `Implementation`: `Spec => ImplementsService`, each step of the process is a step
  of `TimerService` or none, with `Running` for the service's timers and the
  requests without their times. It needs type correctness alone, so it holds
  also when a number has two timers and when `select()` has failed.
* `TimesAreValid`, `BookkeepingIsExact`, `NeverOverdue`: the invariants of run `timer`.
  They are inductive together, in `Accounts`, with two facts about numbers: as
  long as none was started twice, the list holds each once (`OnceEach`), and an
  insert under way is the only one for its number, which has no timer
  (`InsertsAreNew`). The first makes a deletion charge the head once; the second
  keeps the first.
* `TypeCorrect`.

They rest on lemmas about the list's operations: when the entries of a list are
due (`DueFacts`, `DueIs`), that an insertion leaves every other entry due when it
was (`InsertFacts`), and that a deletion does too, but for what it charges the
head (`DeleteFacts`). `Due` and `Kept` are recursive functions; that the equations
have a solution, and the inductions over places in a list, come from the
well-foundedness of `<` on the naturals, with the property given as a set
(`UpTo`, `RecursiveFunction`).

Model-checked only: the liveness properties `EveryTimerEnds`, `ClientEnds` and
`FtpsEnds`, which are outside the prover's reach.

## What the checks found

* `early_shutdown`: TCPD_M2 tests that the FYN is alone in the buffer when ftpc
  hands it over, but starts its timer in any case and sends it when that
  expires. TCPD_M1 acknowledges it whatever is missing; TCPD_M2 closes on it.
* `stale_expiry`: only the last acknowledged number is remembered, so an expiry
  queued before two acknowledgements makes TCPD_M2 fetch an empty slot.
* `ring_drop`: TCPD_M2 takes a packet from ftpc's socket before it looks whether
  the ring has room, and drops it if there is none. "full" reaches ftpc too late,
  since ftpc reads one status message a turn without waiting; nobody sends the
  packet again. The report (2.1, 2.11.5) promises a `SEND` that blocks.
* `last_ack_lost`: the report (2.12) describes a TIMEWAIT state and a timer for the
  FIN; the code has neither. TCPD_M2 sends the final acknowledgement once and
  ends; if it is lost, TCPD_M1 and ftps wait for ever.
* An absent cancel makes the timer process start the wait for the head anew, so
  that timers expire late: `OverdueOnlyIfForgotten` says that nothing else does.
* A consequence of `ring_drop`, and why `HoldIsLifted` has the premise `InStep`:
  deletion looks for a packet at its number modulo the size, but writing takes
  the next slot, and after a packet was dropped the two differ. In a ring of three,
  0 and 1 fill it, 2 is dropped, 1 and 0 are acknowledged, 3 is written to slot 2
  and the ring is full again; acknowledgement 3 looks at slot 0, frees nothing,
  and cancels the timer. No "empty" is sent, and ftpc holds back the file for ever.
* `FreedByOwnSlot`: deletion compares no numbers. A late acknowledgement frees the
  packet that has the slot now, whether TCPD_M1 has it or not (with packets 0 to
  2 acknowledged and 3 in slot 0, the second acknowledgement of 0 frees 3). The
  property allows that, since the code does it; it says that, as long as no packet
  has been dropped, only a number smaller by the ring's size or more can do so.
* The timer of packet 1 may be shorter than the round trip just measured; it is the
  only one that may (`TimerOutlastsSample`).
* The report (2.9) documents CRC-16 with initial remainder 0; `crc.h` selects
  CRC-CCITT with 0xFFFF. `BlankIsNeverGood` holds for the code and would not hold
  for the report: ring slots that were never written have checksum 0.
* The estimator's test for RTT = -1 is never true: RTT starts at 250, and a
  sample is a difference of times (`TypeOK` of `Jacobson`).
* `StaysInBounds` needs two unused slots, not one: the FYN handed over in the
  main loop moves the head to the end of the array.

## Not modelled

* Socket set-up, error exits of system calls, printing.
* `reflect()` and `crcGen()`: under the standard selected the first is not called,
  the second is called by nobody. The other standards (CRC-16, CRC-32)
  are excluded by the preprocessor.
* Errors of `fread` and `fwrite`: a short file in the model has a smaller
  `LastSeq`, and the file has no bytes.
* A second transfer: all processes end after one, so the expiries of timers that
  TCPD_M2 leaves behind meet nobody.
* A clock that is set back, and rounding of floats below an eighth of a
  millisecond.
* The troll is a binary; only what the programs are exposed to is modelled.
* Transfers beyond the buffer's 1000 slots, other than by `StaysInBounds`.

## Plan

1. Done: `Packets`, `TCPD_M1` with its abstract specifications and proofs,
   `TimerProcess`, `CircularBuffer`, `TCPD_M2`, `FTPC`, `FTPS`, `Client`,
   `Server`, `Jacobson` and `CRC` with their proofs.
2. Done: the ring's lemmas, the invariants of `Client` and of `Server`, and
   `OddDamageDetected`.
3. Done: the invariants of `TimerProcess` and its refinement of `TimerService`.
4. Left: nothing the prover can reach among the properties of the runs. What would
   extend the model: a clock shared by `TimerProcess` and `TCPD_M2`, to join the
   estimator's times with the delta list's.
