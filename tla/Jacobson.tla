------------------------------ MODULE Jacobson ------------------------------
(***************************************************************************)
(* How long TCPD_M2 lets the timer of a packet run (Jacobson.c and its     *)
(* callers in TCPD_M2.c): an acknowledgement yields a sample of the round- *)
(* trip time, and each packet sent updates the estimate with the last      *)
(* sample, whether or not it has been used before.                         *)
(*                                                                         *)
(* TCPD_M2 untimed is in TCPD_M2.tla; here any packet sent may expire or   *)
(* be acknowledged, again and again, at any time.                          *)
(***************************************************************************)
EXTENDS Integers

CONSTANTS
  LastSeq,         \* number of the last packet
  Delays,          \* milliseconds by which the clock advances
  MaxNow,          \* bound: milliseconds of a behaviour
  MaxCalibrations  \* bound: updates of the estimate

ASSUME LastSeqAssumption == LastSeq \in Nat
ASSUME DelaysAssumption == Delays \subseteq Nat
ASSUME MaxAssumption == MaxNow \in Nat /\ MaxCalibrations \in Nat

\* SRTT and RTTVAR, floats in milliseconds, are kept in units of 1/Scale ms and
\* rounded down.
Scale == 8

VARIABLES
  now,       \* the clock
  next,      \* number of the next packet from ftpc
  timehash,  \* when each packet was last sent
  RTT, SRTT, RTTVAR,  \* the estimator: sample, estimate, deviation
  time,          \* seconds of the timer last started (0: none yet)
  calibrations,  \* how often the estimate was updated
  longest        \* history: the longest round trip assumed or measured

vars == <<now, next, timehash, RTT, SRTT, RTTVAR, time, calibrations, longest>>

InitialRTT == 25
InitialRTO == 250

Init ==
  /\ now = 0
  /\ next = 0
  /\ timehash = [s \in 0 .. LastSeq |-> 0]
  /\ RTT = 250
  /\ SRTT = InitialRTT * Scale
  /\ RTTVAR = (InitialRTT * Scale) \div 2
  /\ time = 0
  /\ calibrations = 0
  /\ longest = 250

-----------------------------------------------------------------------------
\* (Faulty: estimate minus sample.)
ErrorReversed == SRTT - RTT * Scale

Error == RTT * Scale - SRTT

\* (Faulty: the deviation with its sign.)
WholeError(err) == (err \div Scale) * Scale

\* abs() is the integers': it drops the fraction of a millisecond.
AbsError(err) == ((IF err < 0 THEN -err ELSE err) \div Scale) * Scale

NewSRTT == SRTT + Error \div 8
NewRTTVAR == RTTVAR + (AbsError(Error) - RTTVAR) \div 4

\* (Faulty: no allowance for long timers; tenths of seconds.)
SecondsBare(rto) ==
  IF rto > 1000 * Scale THEN (rto \div Scale) \div 1000 ELSE 3
SecondsTenfold(rto) ==
  IF rto > 1000 * Scale THEN (rto \div Scale) \div 100 + 3 ELSE 3

\* What the timer process is asked for: whole seconds.
Seconds(rto) ==
  IF rto > 1000 * Scale THEN (rto \div Scale) \div 1000 + 3 ELSE 3

CalibrateRTO ==
  /\ calibrations < MaxCalibrations
  /\ calibrations' = calibrations + 1
  /\ \/ /\ RTT = -1
        /\ time' = Seconds(InitialRTO * Scale)
        /\ UNCHANGED <<SRTT, RTTVAR>>
     \/ /\ RTT # -1
        /\ SRTT' = NewSRTT
        /\ RTTVAR' = NewRTTVAR
        /\ time' = Seconds(NewSRTT + 4 * NewRTTVAR)

set_time(s) == timehash' = [timehash EXCEPT ![s] = now]

\* A packet from ftpc.  The estimate is left alone for packet 1.
Send ==
  /\ next <= LastSeq
  /\ next' = next + 1
  /\ set_time(next)
  /\ \/ /\ next = 1
        /\ time' = Seconds(InitialRTO * Scale)
        /\ UNCHANGED <<SRTT, RTTVAR, calibrations>>
     \/ /\ next # 1
        /\ CalibrateRTO
  /\ UNCHANGED <<now, RTT, longest>>

\* The timer of packet s has expired.
Resend(s) ==
  /\ s < next
  /\ set_time(s)
  /\ CalibrateRTO
  /\ UNCHANGED <<now, next, RTT, longest>>

\* (Faulty: the times are exchanged.)
calc_rtt_reversed(s) == timehash[s] - now

\* The time since s was last sent, whichever copy of s was acknowledged.
calc_rtt(s) == now - timehash[s]

\* An acknowledgement of s, the first one or a late one.
Acked(s) ==
  /\ s < next
  /\ RTT' = calc_rtt(s)
  /\ longest' = IF RTT' > longest THEN RTT' ELSE longest
  /\ UNCHANGED <<now, next, timehash, SRTT, RTTVAR, time, calibrations>>

Tick(d) ==
  /\ now + d <= MaxNow
  /\ now' = now + d
  /\ UNCHANGED <<next, timehash, RTT, SRTT, RTTVAR, time, calibrations, longest>>

Next ==
  \/ Send
  \/ \E s \in 0 .. LastSeq : Resend(s) \/ Acked(s)
  \/ \E d \in Delays : Tick(d)

Spec == Init /\ [][Next]_vars

-----------------------------------------------------------------------------
(***************************************************************************)
(* Properties.                                                             *)
(***************************************************************************)
\* Every variable keeps to its type.
TypeOK ==
  /\ now \in Nat /\ next \in 0 .. LastSeq + 1
  /\ timehash \in [0 .. LastSeq -> 0 .. now]
  /\ RTT \in 0 .. longest /\ longest \in Nat /\ longest >= 250
  /\ SRTT \in Int /\ RTTVAR \in Int
  /\ time \in Nat /\ calibrations \in Nat

\* Neither a run of samples nor a sample used many times makes the estimate or
\* the deviation negative or longer than the longest round trip.
EstimatesInRange ==
  /\ SRTT \in 0 .. longest * Scale
  /\ RTTVAR \in 0 .. longest * Scale

\* A timer started is longer than the last measured round trip by more than a
\* second, also just after the round trips have become shorter or longer, so that
\* even a timer process that is a second early (timerprocess.c:394) does not make
\* TCPD_M2 send again what would be acknowledged in that time.  Only packet 1 is
\* left out: its 3 seconds heed no sample, so that one of 2 seconds or more, of
\* packet 0, makes them too short.
TimerStarted == next' # next \/ calibrations' # calibrations

TimerOutlastsSample ==
  [][TimerStarted =>
       \/ 1000 * time' > RTT + 1000
       \/ next = 1 /\ next' = 2 /\ RTT >= 2000 /\ time' = 3]_vars

\* The seconds asked of the timer process are never more than three and five times
\* the longest round trip: no run of samples, and no sample used again and again,
\* drives them up further.  When the expiry comes is the timer process's matter,
\* which may count the seconds late (TimerProcess).
TimerIsBounded == 1000 * time <= 3000 + 5 * longest

=============================================================================
