---------------------------- MODULE TimerService ----------------------------
(***************************************************************************)
(* What the timer process promises TCPD_M2, without saying when: it takes  *)
(* the requests in order, a started timer runs until it is cancelled or    *)
(* expires, and an expiry names a timer that was running.                  *)
(***************************************************************************)
EXTENDS Integers, Sequences

CONSTANT Numbers  \* the sequence numbers timers are started for

VARIABLES
  toTimer,  \* requests not yet read (a local socket: in order, none lost)
  running,  \* sequence numbers with a running timer
  toM2      \* expiries not yet read by TCPD_M2

\* timer_packet, its type 0 or 1 written "insert" or "cancel".
Request == [type : {"insert", "cancel"}, sequence_number : Numbers]

Init == toTimer = <<>> /\ running = {} /\ toM2 = <<>>

\* (Faulty: a cancel that finds its timer removes the others instead.)
CancelOthers(s) == running \intersect {s}

CancelOne(s) == running \ {s}

TakeRequest ==
  /\ toTimer # <<>>
  /\ toTimer' = Tail(toTimer)
  /\ LET s == Head(toTimer).sequence_number IN
     running' = IF Head(toTimer).type = "insert" THEN running \union {s}
                ELSE CancelOne(s)
  /\ UNCHANGED toM2

Expire(s) ==
  /\ s \in running
  /\ running' = running \ {s}
  /\ toM2' = Append(toM2, s)
  /\ UNCHANGED toTimer

TimerStep == TakeRequest \/ \E s \in Numbers : Expire(s)

\* TCPD_M2's side.
Ask(request) ==
  /\ toTimer' = Append(toTimer, request)
  /\ UNCHANGED <<running, toM2>>

TakeExpiry ==
  /\ toM2 # <<>>
  /\ toM2' = Tail(toM2)
  /\ UNCHANGED <<running, toTimer>>

Next == TimerStep \/ (\E request \in Request : Ask(request)) \/ TakeExpiry

Spec == Init /\ [][Next]_<<toTimer, running, toM2>>

=============================================================================
