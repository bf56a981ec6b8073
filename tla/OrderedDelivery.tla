--------------------------- MODULE OrderedDelivery ---------------------------
(***************************************************************************)
(* What TCPD_M1 promises the server application: while the connection is   *)
(* open, the packets come in sequence, each once, none left out; once it   *)
(* is being shut down the rest comes in increasing order, gaps allowed.    *)
(***************************************************************************)
EXTENDS Integers, Sequences

CONSTANT Numbers  \* the sequence numbers there are

VARIABLES
  out,     \* the sequence numbers handed over so far, in order
  closing  \* the shutdown has begun

Init == out = <<>> /\ closing = FALSE

InSequence ==
  /\ ~closing
  /\ out' = Append(out, Len(out))
  /\ UNCHANGED closing

Shutdown ==
  /\ ~closing
  /\ closing' = TRUE
  /\ UNCHANGED out

Remainder(s) ==
  /\ closing
  /\ \A i \in DOMAIN out : out[i] < s
  /\ out' = Append(out, s)
  /\ UNCHANGED closing

Next == InSequence \/ Shutdown \/ \E s \in Numbers : Remainder(s)

Spec == Init /\ [][Next]_<<out, closing>>

=============================================================================
