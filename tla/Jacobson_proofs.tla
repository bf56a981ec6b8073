--------------------------- MODULE Jacobson_proofs ---------------------------
(***************************************************************************)
(* The estimator's invariants, for every number of packets, of updates and *)
(* of samples, whatever the delays.                                        *)
(***************************************************************************)
EXTENDS Jacobson, TLAPS

\* Samples are never negative (in particular, never the -1 that CalibrateRTO
\* tests for) and no longer than the longest one.
THEOREM TypeCorrect == Spec => []TypeOK
<1>1. Init => TypeOK
  BY LastSeqAssumption DEF Init, TypeOK, Scale, InitialRTT
<1>2. TypeOK /\ [Next]_vars => TypeOK'
  <2> SUFFICES ASSUME TypeOK, [Next]_vars PROVE TypeOK'
    OBVIOUS
  <2> USE DEF TypeOK
  <2>1. ASSUME CalibrateRTO
        PROVE  SRTT' \in Int /\ RTTVAR' \in Int /\ time' \in Nat /\ calibrations' \in Nat
    <3>1. \A x \in Int : Seconds(x) \in Nat
      BY DEF Seconds, Scale
    <3>2. /\ NewSRTT \in Int /\ NewRTTVAR \in Int
          /\ NewSRTT + 4 * NewRTTVAR \in Int /\ InitialRTO * Scale \in Int
      <4>1. Error \in Int
        BY DEF Error, Scale
      <4>2. AbsError(Error) \in Int
        BY <4>1 DEF AbsError, Scale
      <4>3. SRTT \in Int /\ RTTVAR \in Int
        OBVIOUS
      <4> HIDE DEF TypeOK
      <4>4. NewSRTT \in Int /\ NewRTTVAR \in Int
        BY <4>1, <4>2, <4>3 DEF NewSRTT, NewRTTVAR
      <4> QED
        BY <4>4 DEF InitialRTO, Scale
    <3>3. calibrations \in Nat /\ SRTT \in Int /\ RTTVAR \in Int
      OBVIOUS
    <3> HIDE DEF TypeOK
    <3>4. CASE RTT = -1 /\ UNCHANGED <<SRTT, RTTVAR>>
                 /\ time' = Seconds(InitialRTO * Scale)
      BY <2>1, <3>1, <3>2, <3>3, <3>4
      DEF CalibrateRTO
    <3>5. CASE SRTT' = NewSRTT /\ RTTVAR' = NewRTTVAR
                 /\ time' = Seconds(NewSRTT + 4 * NewRTTVAR)
      BY <2>1, <3>1, <3>2, <3>3, <3>5
      DEF CalibrateRTO
    <3> QED
      BY <2>1, <3>4, <3>5 DEF CalibrateRTO
  <2>2. CASE Send
    <3>1. SRTT' \in Int /\ RTTVAR' \in Int /\ time' \in Nat /\ calibrations' \in Nat
      BY <2>1, <2>2 DEF Send, Seconds, InitialRTO, Scale
    <3>2. timehash' \in [0 .. LastSeq -> 0 .. now] /\ next' \in 0 .. LastSeq + 1
      BY <2>2, LastSeqAssumption DEF Send, set_time
    <3> QED
      BY <2>2, <3>1, <3>2 DEF Send
  <2>3. ASSUME NEW s \in 0 .. LastSeq, Resend(s)
        PROVE  TypeOK'
    BY <2>1, <2>3 DEF Resend, set_time
  <2>4. ASSUME NEW s \in 0 .. LastSeq, Acked(s)
        PROVE  TypeOK'
    <3>1. timehash[s] \in 0 .. now
      OBVIOUS
    <3>2. RTT' \in Nat
      BY <2>4, <3>1 DEF Acked, calc_rtt
    <3> QED
      BY <2>4, <3>2 DEF Acked
  <2>5. ASSUME NEW d \in Delays, Tick(d)
        PROVE  TypeOK'
    <3>1. now' \in Nat /\ now <= now'
      BY <2>5, DelaysAssumption DEF Tick
    <3> QED
      BY <2>5, <3>1 DEF Tick
  <2>6. CASE UNCHANGED vars
    BY <2>6 DEF vars
  <2> QED
    BY <2>2, <2>3, <2>4, <2>5, <2>6 DEF Next
<1> QED
  BY <1>1, <1>2, PTL DEF Spec

-----------------------------------------------------------------------------
\* What an update makes of the estimate, and what it asks the timer for.
LEMMA Update ==
  ASSUME TypeOK, EstimatesInRange
  PROVE  /\ NewSRTT \in 0 .. longest * Scale
         /\ NewRTTVAR \in 0 .. longest * Scale
         /\ 1000 * Seconds(NewSRTT + 4 * NewRTTVAR) > RTT + 1000
         /\ 1000 * Seconds(NewSRTT + 4 * NewRTTVAR) <= 3000 + 5 * longest
<1> DEFINE L == longest * 8
           R == RTT * 8
           a == AbsError(Error)
<1>1. /\ RTT \in Nat /\ longest \in Nat /\ RTT <= longest /\ longest >= 250
      /\ SRTT \in Int /\ RTTVAR \in Int
      /\ 0 <= SRTT /\ SRTT <= L /\ 0 <= RTTVAR /\ RTTVAR <= L
  BY DEF TypeOK, EstimatesInRange, Scale
<1>2. Error = R - SRTT
  BY DEF Error, Scale
<1>3. /\ a \in Int /\ 0 <= a /\ a <= L
      /\ a <= R - SRTT \/ a <= SRTT - R
      /\ R - SRTT <= a + 7 /\ SRTT - R <= a + 7
  BY <1>1, <1>2 DEF AbsError, Scale
<1>4. /\ NewSRTT \in Int /\ NewRTTVAR \in Int
      /\ 8 * NewSRTT <= 7 * SRTT + R /\ 7 * SRTT + R <= 8 * NewSRTT + 7
      /\ 4 * NewRTTVAR <= 3 * RTTVAR + a /\ 3 * RTTVAR + a <= 4 * NewRTTVAR + 3
  BY <1>1, <1>2, <1>3 DEF NewSRTT, NewRTTVAR
<1> HIDE DEF a
<1>5. NewSRTT \in 0 .. L /\ NewRTTVAR \in 0 .. L
  BY <1>1, <1>3, <1>4
<1> DEFINE rto == NewSRTT + 4 * NewRTTVAR
\* The estimate falls short of the sample by rounding only: less than 2 ms.
<1>6. rto \in Int /\ R <= rto + 16 /\ rto <= 5 * L
  BY <1>1, <1>3, <1>4, <1>5
<1> HIDE DEF rto
<1>7. /\ 1000 * Seconds(rto) > RTT + 1000
      /\ 1000 * Seconds(rto) <= 3000 + 5 * longest
  BY <1>1, <1>6 DEF Seconds, Scale
<1> QED
  BY <1>5, <1>7 DEF rto, Scale

-----------------------------------------------------------------------------
\* Whatever an action does to the estimator, it is one of these.
LEMMA StepUpdates ==
  ASSUME TypeOK, [Next]_vars
  PROVE  \/ /\ SRTT' = SRTT /\ RTTVAR' = RTTVAR /\ calibrations' = calibrations
            /\ longest' \in Nat /\ longest <= longest'
            /\ \/ time' = time /\ next' = next
               \/ time' = 3 /\ next = 1 /\ next' = 2
         \/ /\ SRTT' = NewSRTT /\ RTTVAR' = NewRTTVAR /\ longest' = longest
            /\ time' = Seconds(NewSRTT + 4 * NewRTTVAR)
<1>1. Seconds(InitialRTO * Scale) = 3
  BY DEF Seconds, InitialRTO, Scale
<1>2. RTT # -1
  BY DEF TypeOK
<1>3. CASE Send
  BY <1>1, <1>2, <1>3 DEF Send, CalibrateRTO, TypeOK
<1>4. ASSUME NEW s \in 0 .. LastSeq, Resend(s)
      PROVE  /\ SRTT' = NewSRTT /\ RTTVAR' = NewRTTVAR /\ longest' = longest
             /\ time' = Seconds(NewSRTT + 4 * NewRTTVAR)
  BY <1>2, <1>4 DEF Resend, CalibrateRTO
<1>5. ASSUME NEW s \in 0 .. LastSeq, Acked(s)
      PROVE  /\ SRTT' = SRTT /\ RTTVAR' = RTTVAR /\ calibrations' = calibrations
             /\ longest' \in Nat /\ longest <= longest'
             /\ time' = time /\ next' = next
  <2>1. RTT' \in Int
    BY <1>5 DEF Acked, calc_rtt, TypeOK
  <2> QED
    BY <1>5, <2>1 DEF Acked, TypeOK
<1>6. ASSUME NEW d \in Delays, Tick(d)
      PROVE  /\ SRTT' = SRTT /\ RTTVAR' = RTTVAR /\ calibrations' = calibrations
             /\ longest' \in Nat /\ longest <= longest'
             /\ time' = time /\ next' = next
  BY <1>6 DEF Tick, TypeOK
<1>7. CASE UNCHANGED vars
  BY <1>7 DEF vars, TypeOK
<1> QED
  BY <1>3, <1>4, <1>5, <1>6, <1>7 DEF Next

\* The estimate and the deviation stay within what was measured.
THEOREM EstimatesStayInRange == Spec => []EstimatesInRange
<1>1. Init => EstimatesInRange
  BY DEF Init, EstimatesInRange, Scale, InitialRTT
<1>2. TypeOK /\ EstimatesInRange /\ [Next]_vars => EstimatesInRange'
  <2> SUFFICES ASSUME TypeOK, EstimatesInRange, [Next]_vars
               PROVE  EstimatesInRange'
    OBVIOUS
  <2>1. CASE /\ SRTT' = SRTT /\ RTTVAR' = RTTVAR
             /\ longest' \in Nat /\ longest <= longest'
    <3>1. longest \in Nat /\ longest' \in Nat /\ longest <= longest'
      BY <2>1 DEF TypeOK
    <3>2. \A m, n \in Nat : m <= n => 0 .. m * 8 \subseteq 0 .. n * 8
      OBVIOUS
    <3>3. 0 .. longest * 8 \subseteq 0 .. longest' * 8
      BY <3>1, <3>2
    <3> QED
      BY <2>1, <3>3 DEF EstimatesInRange, Scale
  <2>2. CASE SRTT' = NewSRTT /\ RTTVAR' = NewRTTVAR /\ longest' = longest
    BY <2>2, Update DEF EstimatesInRange
  <2> QED
    BY <2>1, <2>2, StepUpdates
<1> QED
  BY <1>1, <1>2, TypeCorrect, PTL DEF Spec

\* Every timer started is longer than the last measured round trip by more than a
\* second, that of packet 1 only if the round trip took less than two seconds.
THEOREM TimersOutlast == Spec => TimerOutlastsSample
<1>1. TypeOK /\ EstimatesInRange /\ [Next]_vars
        => [TimerStarted =>
              \/ 1000 * time' > RTT + 1000
              \/ next = 1 /\ next' = 2 /\ RTT >= 2000 /\ time' = 3]_vars
  <2> SUFFICES ASSUME TypeOK, EstimatesInRange, [Next]_vars, TimerStarted
               PROVE  \/ 1000 * time' > RTT + 1000
                      \/ next = 1 /\ next' = 2 /\ RTT >= 2000 /\ time' = 3
    OBVIOUS
  <2>1. RTT \in Int
    BY DEF TypeOK
  <2>2. CASE time' = 3 /\ next = 1 /\ next' = 2
    BY <2>1, <2>2
  <2>3. CASE time' = Seconds(NewSRTT + 4 * NewRTTVAR)
    BY <2>3, Update
  <2> QED
    BY <2>2, <2>3, StepUpdates DEF TimerStarted
<1> QED
  BY <1>1, TypeCorrect, EstimatesStayInRange, PTL DEF Spec, TimerOutlastsSample

\* No run of samples makes TCPD_M2 ask for a timer of more than five times the
\* longest round trip and three seconds.
THEOREM TimersAreBounded == Spec => []TimerIsBounded
<1>1. Init => TimerIsBounded
  BY DEF Init, TimerIsBounded
<1>2. TypeOK /\ EstimatesInRange /\ TimerIsBounded /\ [Next]_vars => TimerIsBounded'
  <2> SUFFICES ASSUME TypeOK, EstimatesInRange, TimerIsBounded, [Next]_vars
               PROVE  TimerIsBounded'
    OBVIOUS
  <2>1. CASE /\ longest' \in Nat /\ longest <= longest'
             /\ time' = time \/ time' = 3
    <3>1. time \in Nat /\ longest \in Nat /\ 1000 * time <= 3000 + 5 * longest
      BY DEF TimerIsBounded, TypeOK
    <3> QED
      BY <2>1, <3>1 DEF TimerIsBounded
  <2>2. CASE longest' = longest /\ time' = Seconds(NewSRTT + 4 * NewRTTVAR)
    BY <2>2, Update DEF TimerIsBounded
  <2> QED
    BY <2>1, <2>2, StepUpdates
<1> QED
  BY <1>1, <1>2, TypeCorrect, EstimatesStayInRange, PTL DEF Spec

=============================================================================
