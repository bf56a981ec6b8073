---------------------------- MODULE TimerProcess ----------------------------
(***************************************************************************)
(* The timer process (timerprocess.c): it keeps the running timers in a    *)
(* delta list, whose head it waits for in select() until a request from    *)
(* TCPD_M2 interrupts it or the head's time is over.                       *)
(*                                                                         *)
(* Time is counted in the whole seconds one select() has waited; an        *)
(* interrupt falls between two of them, and what is left of the wait is    *)
(* rounded down (tv.tv_sec).                                               *)
(***************************************************************************)
EXTENDS Integers, SequencesExt

CONSTANTS
  Numbers,     \* sequence numbers timers are started for
  Times,       \* seconds TCPD_M2 asks for
  MaxRequests  \* bound: requests TCPD_M2 makes in a behaviour

ASSUME TimesAssumption == Times \subseteq Nat \ {0}
ASSUME MaxRequestsAssumption == MaxRequests \in Nat

VARIABLES
  list,      \* the delta list: each dtime counts from the entry before it
  waited,    \* whole seconds the current select() has waited
  exited,    \* select() refused a negative time, the process is gone
  toTimer, toM2,  \* requests and expiries, local sockets
  requests,  \* requests made so far
  restarted, \* history: a timer was started for a number that had one
  real       \* history: for each number, seconds asked for and not yet run
             \* (left), roundings and seconds forgotten while it ran

vars == <<list, waited, exited, toTimer, toM2, requests, restarted, real>>

Entry == [sequence_number : Numbers, dtime : Int]

Init ==
  /\ list = <<>>
  /\ waited = 0
  /\ exited = FALSE
  /\ toTimer = <<>>
  /\ toM2 = <<>>
  /\ requests = 0
  /\ restarted = FALSE
  /\ real = [s \in Numbers |-> [left |-> 0, rounded |-> 0, forgotten |-> 0]]

-----------------------------------------------------------------------------
(***************************************************************************)
(* The delta list.                                                         *)
(***************************************************************************)
\* Seconds from the start of the current wait to the i-th entry's expiry.
Due(l, i) ==
  LET sum[j \in 0 .. Len(l)] == IF j = 0 THEN 0 ELSE sum[j - 1] + l[j].dtime
  IN sum[i]

\* (Faulty: the entry behind the new one keeps its distance to the one before.)
InsertUnadjusted(l, s, time) ==
  LET at == Min({i \in 1 .. Len(l) + 1 : i > Len(l) \/ time < Due(l, i)})
  IN InsertAt(l, at, [sequence_number |-> s, dtime |-> time - Due(l, at - 1)])

\* The new entry goes before the first that is due later.
LinkedListInsetion(l, s, time) ==
  LET at == Min({i \in 1 .. Len(l) + 1 : i > Len(l) \/ time < Due(l, i)})
      entry == [sequence_number |-> s, dtime |-> time - Due(l, at - 1)]
      later == IF at > Len(l) THEN l ELSE [l EXCEPT ![at].dtime = @ - entry.dtime]
  IN InsertAt(later, at, entry)

\* (Faulty: the time of a deleted entry is not given to the next one.)
DeletionUnmerged(l, s, passed) ==
  LET rest == SelectSeq(l, LAMBDA e : e.sequence_number # s) IN
  IF rest = <<>> THEN rest
  ELSE [rest EXCEPT ![1].dtime = @ - (Len(l) - Len(rest)) * passed]

\* (Faulty: the head is deleted, whichever entry was asked for.)
DeletionOfHead(l, s, passed) == Tail(l)

\* The places of the entries that are not for s, in order.
Kept(l, s) ==
  LET kept[j \in 0 .. Len(l)] ==
        IF j = 0 THEN <<>>
        ELSE IF l[j].sequence_number = s THEN kept[j - 1] ELSE Append(kept[j - 1], j)
  IN kept[Len(l)]

\* Every entry for s goes.  LinkedListDeletion gives the time of each to the
\* entry behind it, so that the others are due when they were, and charges the
\* head the time that has passed: once for each entry deleted.
LinkedListDeleteSequenceNumber(l, s, passed) ==
  LET kept == Kept(l, s)
      deleted == Len(l) - Len(kept)
  IN [j \in DOMAIN kept |->
        [sequence_number |-> l[kept[j]].sequence_number,
         dtime |-> Due(l, kept[j]) - IF j = 1 THEN deleted * passed
                                     ELSE Due(l, kept[j - 1])]]

Running == {list[i].sequence_number : i \in DOMAIN list}

-----------------------------------------------------------------------------
(***************************************************************************)
(* The main loop.                                                          *)
(***************************************************************************)
\* (Faulty: a second is given back instead of lost.)
RoundingUp == -1

\* What select() leaves in tv.tv_sec when a request interrupts it.
Rounding == IF waited = list[1].dtime THEN 0 ELSE 1
Remaining == list[1].dtime - waited - Rounding

Fresh(time) == [left |-> time, rounded |-> 0, forgotten |-> 0]

\* History: a wait of w seconds, r of them a rounding and f of them forgotten,
\* is over for the timers that ran, all but the one for s.
Passed(w, r, f, s) ==
  [n \in Numbers |->
     IF n \notin Running \ {s} THEN Fresh(0)
     ELSE [left |-> real[n].left - w,
           rounded |-> real[n].rounded + r,
           forgotten |-> real[n].forgotten + f]]

\* (Faulty: the next wait is thought to be under way already.)
ReadRequestKeepsWait(type) ==
  /\ ~exited
  /\ toTimer # <<>>
  /\ Head(toTimer).type = type
  /\ list # <<>> => list[1].dtime >= 0
  /\ toTimer' = Tail(toTimer)
  /\ UNCHANGED waited

ReadRequest(type) ==
  /\ ~exited
  /\ toTimer # <<>>
  /\ Head(toTimer).type = type
  /\ list # <<>> => list[1].dtime >= 0
  /\ toTimer' = Tail(toTimer)
  /\ waited' = 0

Start ==
  /\ ReadRequest("insert")
  /\ LET m == Head(toTimer)
         rounded == IF list # <<>> THEN Rounding ELSE 0
         current == IF list = <<>> THEN list
                    ELSE [list EXCEPT ![1].dtime = Remaining]
     IN /\ list' = LinkedListInsetion(current, m.sequence_number, m.time)
        /\ real' = [Passed(waited, rounded, 0, m.sequence_number) EXCEPT
                      ![m.sequence_number] = Fresh(m.time)]
  /\ UNCHANGED <<exited, toM2, requests, restarted>>

Cancel ==
  /\ ReadRequest("cancel")
  /\ list # <<>>
  /\ Head(toTimer).sequence_number \in Running
  /\ LET s == Head(toTimer).sequence_number
     IN /\ list' = LinkedListDeleteSequenceNumber(list, s, list[1].dtime - Remaining)
        /\ real' = Passed(waited, Rounding, 0, s)
  /\ UNCHANGED <<exited, toM2, requests, restarted>>

\* A cancel that finds no entry charges nobody: the wait starts over.
CancelAbsent ==
  /\ ReadRequest("cancel")
  /\ Head(toTimer).sequence_number \notin Running
  /\ real' = Passed(waited, 0, waited, Head(toTimer).sequence_number)
  /\ UNCHANGED <<list, exited, toM2, requests, restarted>>

\* (Faulty: the process waits for a second timer.)
AsleepUnlessSingle == ~exited /\ toTimer = <<>> /\ Len(list) > 1 /\ list[1].dtime >= 0

\* select() sleeps only while nothing is there to be read.
Asleep == ~exited /\ toTimer = <<>> /\ list # <<>> /\ list[1].dtime >= 0

WaitSecond ==
  /\ Asleep
  /\ waited < list[1].dtime
  /\ waited' = waited + 1
  /\ UNCHANGED <<list, exited, toTimer, toM2, requests, restarted, real>>

Timeout ==
  /\ Asleep
  /\ waited = list[1].dtime
  /\ toM2' = Append(toM2, list[1].sequence_number)
  /\ list' = LinkedListDeleteSequenceNumber(list, list[1].sequence_number, waited)
  /\ waited' = 0
  /\ real' = Passed(waited, 0, 0, list[1].sequence_number)
  /\ UNCHANGED <<exited, toTimer, requests, restarted>>

\* select() fails on a negative time, and the process exits.
SelectFails ==
  /\ ~exited
  /\ list # <<>>
  /\ list[1].dtime < 0
  /\ exited' = TRUE
  /\ UNCHANGED <<list, waited, toTimer, toM2, requests, restarted, real>>

Step == Start \/ Cancel \/ CancelAbsent \/ WaitSecond \/ Timeout \/ SelectFails

-----------------------------------------------------------------------------
(***************************************************************************)
(* TCPD_M2: it cancels any number at any time and reads the expiries.  It  *)
(* starts a timer for a number that has one only when an expiry it reads   *)
(* late makes it send again what another number's slot holds by then.      *)
(***************************************************************************)
Pending(s) ==
  \E i \in DOMAIN toTimer :
    toTimer[i].type = "insert" /\ toTimer[i].sequence_number = s

AskInsert(s, time) ==
  /\ requests < MaxRequests
  /\ toTimer' = Append(toTimer,
                  [type |-> "insert", sequence_number |-> s, time |-> time])
  /\ requests' = requests + 1
  /\ restarted' = (restarted \/ s \in Running \/ Pending(s))
  /\ UNCHANGED <<list, waited, exited, toM2, real>>

AskCancel(s) ==
  /\ requests < MaxRequests
  /\ toTimer' = Append(toTimer, [type |-> "cancel", sequence_number |-> s, time |-> 0])
  /\ requests' = requests + 1
  /\ UNCHANGED <<list, waited, exited, toM2, restarted, real>>

TakeExpiry ==
  /\ toM2 # <<>>
  /\ toM2' = Tail(toM2)
  /\ UNCHANGED <<list, waited, exited, toTimer, requests, restarted, real>>

Client ==
  \/ \E s \in Numbers, time \in Times : AskInsert(s, time)
  \/ \E s \in Numbers : AskCancel(s)
  \/ TakeExpiry

Next == Step \/ Client

Spec == Init /\ [][Next]_vars

\* The process keeps running, and so does time.
FairSpec == Spec /\ WF_vars(Step)

-----------------------------------------------------------------------------
(***************************************************************************)
(* Properties.                                                             *)
(***************************************************************************)
\* Every variable keeps to its type.
TypeOK ==
  /\ list \in Seq(Entry)
  /\ waited \in Nat
  /\ exited \in BOOLEAN /\ restarted \in BOOLEAN
  /\ requests \in 0 .. MaxRequests
  /\ list = <<>> => waited = 0

\* As long as no number has two timers, no dtime is negative and select() is
\* never handed a negative time.  (With two, deleting them charges the time
\* that passed to the head twice.)
SelectNeverFails ==
  ~restarted =>
    /\ ~exited
    /\ \A i \in DOMAIN list : list[i].dtime >= 0
    /\ list # <<>> => waited <= list[1].dtime

\* The list's bookkeeping is exact for every timer, wherever it stands: the
\* time until it is due is what was asked for less what it ran, one second for
\* each request that interrupted it, and what absent cancels forgot.
DueIsExact ==
  ~restarted =>
    \A i \in DOMAIN list :
      LET r == real[list[i].sequence_number] IN
      Due(list, i) = r.left - r.rounded + r.forgotten

\* A timer that no absent cancel postponed is never overdue.
OverdueOnlyIfForgotten ==
  ~restarted =>
    \A s \in Running : real[s].forgotten = 0 => waited <= real[s].left

\* A timer that was started ends: it expires, or is cancelled, or the process
\* exits.
EveryTimerEnds == \A s \in Numbers : s \in Running ~> (s \notin Running \/ exited)

Untimed(q) ==
  [i \in DOMAIN q |-> [type |-> q[i].type, sequence_number |-> q[i].sequence_number]]

Service == INSTANCE TimerService WITH running <- Running, toTimer <- Untimed(toTimer)

\* The delta list implements the timer service TCPD_M2 relies on.
ImplementsService == Service!Spec

=============================================================================
