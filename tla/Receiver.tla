------------------------------ MODULE Receiver ------------------------------
(***************************************************************************)
(* What TCPD_M1 promises the client: it acknowledges only undamaged        *)
(* packets, keeps them, marks every acknowledgement with FYN once it has   *)
(* the FYN packet, and stops on the final acknowledgement.                 *)
(***************************************************************************)
EXTENDS Packets

VARIABLES
  received,   \* numbers of the packets it has
  receiving,  \* FALSE once it has stopped
  m2m1, m1m2  \* the troll: packets to it, acknowledgements from it

Init == received = {} /\ receiving = TRUE /\ m2m1 = {} /\ m1m2 = {}

Accept(s) ==
  /\ receiving
  /\ Packet(s) \in m2m1
  /\ m2m1' = After(m2m1, Packet(s))
  /\ received' = received \union {s}
  /\ m1m2' = m1m2 \union {[sequence_number |-> s, FYN |-> LastSeq \in received']}
  /\ UNCHANGED receiving

\* What arrives damaged is ignored.
Ignore(p) ==
  /\ receiving
  /\ m2m1' = After(m2m1, p)
  /\ UNCHANGED <<received, receiving, m1m2>>

Stop ==
  /\ receiving
  /\ FinalAck \in m2m1
  /\ m2m1' = After(m2m1, FinalAck)
  /\ receiving' = FALSE
  /\ UNCHANGED <<received, m1m2>>

Step == (\E s \in Sequence : Accept(s)) \/ (\E p \in m2m1 : Ignore(p)) \/ Stop

\* The client, and losses in the troll.
Send(s) ==
  /\ m2m1' = m2m1 \union {Packet(s)}
  /\ UNCHANGED <<received, receiving, m1m2>>

Finish ==
  /\ \E a \in m1m2 : a.FYN
  /\ m2m1' = m2m1 \union {FinalAck}
  /\ UNCHANGED <<received, receiving, m1m2>>

Lose ==
  /\ ~Duplicates
  /\ \/ /\ \E p \in m2m1 : m2m1' = m2m1 \ {p}
        /\ UNCHANGED m1m2
     \/ /\ \E a \in m1m2 : m1m2' = m1m2 \ {a}
        /\ UNCHANGED m2m1
  /\ UNCHANGED <<received, receiving>>

Next == Step \/ (\E s \in Sequence : Send(s)) \/ Finish \/ Lose

Spec == Init /\ [][Next]_<<received, receiving, m2m1, m1m2>>

=============================================================================
