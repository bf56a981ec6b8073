-------------------------- MODULE TimerProcess_proofs --------------------------
(***************************************************************************)
(* Proofs about the timer process: the delta list, for any number of       *)
(* timers, any times and any requests.                                     *)
(***************************************************************************)
EXTENDS TimerProcess, SequenceTheorems, NaturalsInduction, WellFoundedInduction, TLAPS

(***************************************************************************)
(* Induction.  A property is given as the set of the numbers that have it, *)
(* and the steps of a recursion as functions, one for each number.         *)
(***************************************************************************)
LEMMA UpTo ==
  ASSUME NEW n \in Nat, NEW T, 0 \in T, \A i \in 1 .. n : i - 1 \in T => i \in T
  PROVE  \A i \in 0 .. n : i \in T
  <1> DEFINE R == {ss \in Nat \X Nat : ss[1] < ss[2]}
             Missing == {i \in 0 .. n : i \notin T}
  <1>1. IsWellFoundedOn(R, Nat)
    BY NatLessThanWellFounded, Zenon DEF OpToRel
  <1>2. \A x, y \in Nat : y < x => <<y, x>> \in R
    OBVIOUS
  <1> HIDE DEF R
  <1> SUFFICES ASSUME Missing # {} PROVE FALSE
    OBVIOUS
  <1>3. Missing \subseteq Nat
    OBVIOUS
  <1>4. \A i \in Missing : i # 0 /\ i - 1 \in Missing /\ i - 1 < i
    OBVIOUS
  <1> HIDE DEF Missing
  <1>5. PICK x \in Missing : \A y \in Missing : ~ (<<y, x>> \in R)
    BY <1>1, <1>3, WFMin
  <1>6. x - 1 \in Missing /\ x - 1 < x /\ x \in Nat /\ x - 1 \in Nat
    BY <1>3, <1>4
  <1>7. <<x - 1, x>> \in R
    BY <1>2, <1>6
  <1> QED BY <1>5, <1>6, <1>7

Runs(S, n, a, step) ==
  {f \in [0 .. n -> S] : f[0] = a /\ \A i \in 1 .. n : f[i] = step[i][f[i - 1]]}

LEMMA RecursiveFunction ==
  ASSUME NEW S, NEW n \in Nat, NEW a \in S, NEW step \in [1 .. n -> [S -> S]]
  PROVE  Runs(S, n, a, step) # {}
  <1> DEFINE Sol(m) == {f \in [0 .. m -> S] :
                          f[0] = a /\ \A i \in 1 .. m : f[i] = step[i][f[i - 1]]}
             T == {m \in 0 .. n : Sol(m) # {}}
  <1>1. 0 \in T
    <2>1. [i \in 0 .. 0 |-> a] \in Sol(0)
      OBVIOUS
    <2> QED BY <2>1
  <1>2. ASSUME NEW m \in 1 .. n, m - 1 \in T
        PROVE  m \in T
    <2>1. PICK f : f \in Sol(m - 1)
      BY <1>2
    <2>2. /\ f \in [0 .. m - 1 -> S] /\ f[0] = a
          /\ \A i \in 1 .. m - 1 : f[i] = step[i][f[i - 1]]
      BY <2>1
    <2> DEFINE g == [i \in 0 .. m |-> IF i = m THEN step[m][f[m - 1]] ELSE f[i]]
    <2>3. step[m][f[m - 1]] \in S
      BY <2>2
    <2>4. g \in [0 .. m -> S] /\ g[0] = a
      BY <2>2, <2>3
    <2>5. ASSUME NEW i \in 1 .. m PROVE g[i] = step[i][g[i - 1]]
      BY <2>2
    <2> HIDE DEF g
    <2>6. g \in Sol(m)
      BY <2>4, <2>5
    <2>7. Sol(m) # {} /\ m \in 0 .. n
      BY <2>6
    <2> HIDE DEF Sol
    <2> QED BY <2>7
  <1>3. \A m \in 1 .. n : m - 1 \in T => m \in T
    BY <1>2
  <1> HIDE DEF T
  <1>4. \A m \in 0 .. n : m \in T
    BY <1>1, <1>3, UpTo
  <1>5. n \in T
    BY <1>4
  <1> QED BY <1>5 DEF T, Runs

-----------------------------------------------------------------------------
(***************************************************************************)
(* When the entries of a list are due.                                     *)
(***************************************************************************)
LEMMA DueFacts ==
  ASSUME NEW l \in Seq(Entry)
  PROVE  /\ Due(l, 0) = 0
         /\ \A i \in 0 .. Len(l) : Due(l, i) \in Int
         /\ \A i \in 1 .. Len(l) : Due(l, i) = Due(l, i - 1) + l[i].dtime
         /\ \A i \in 1 .. Len(l) : l[i] \in Entry /\ l[i].dtime \in Int
  <1> DEFINE n == Len(l)
             step == [i \in 1 .. n |-> [x \in Int |-> x + l[i].dtime]]
             Body(f) == [j \in 0 .. n |-> IF j = 0 THEN 0 ELSE f[j - 1] + l[j].dtime]
             sum == CHOOSE f : f = Body(f)
  <1>1. n \in Nat /\ \A i \in 1 .. n : l[i] \in Entry /\ l[i].dtime \in Int
    <2>1. n \in Nat /\ \A i \in 1 .. n : l[i] \in Entry
      OBVIOUS
    <2> QED BY <2>1 DEF Entry
  <1> HIDE DEF n
  <1>2. step \in [1 .. n -> [Int -> Int]] /\ 0 \in Int
    BY <1>1
  <1> HIDE DEF step
  <1>3. PICK f \in [0 .. n -> Int] : f[0] = 0 /\ \A i \in 1 .. n : f[i] = step[i][f[i - 1]]
    <2> DEFINE Z == Int
    <2>1. step \in [1 .. n -> [Z -> Z]] /\ 0 \in Z /\ n \in Nat
      BY <1>1, <1>2
    <2> DEFINE zero == 0
    <2>3. zero \in Z
      OBVIOUS
    <2> HIDE DEF Z, zero
    <2>2. Runs(Z, n, zero, step) # {}
      BY <2>1, <2>3, RecursiveFunction
    <2> QED BY <2>2 DEF Z, zero, Runs
  <1>4. \A i \in 1 .. n : i - 1 \in 0 .. n /\ f[i - 1] \in Int
    BY <1>1, <1>3
  <1>5. f = Body(f)
    <2>1. \A i \in 1 .. n : f[i] = f[i - 1] + l[i].dtime
      BY <1>1, <1>3, <1>4 DEF step
    <2>2. \A i \in 0 .. n : f[i] = IF i = 0 THEN 0 ELSE f[i - 1] + l[i].dtime
      BY <1>1, <1>3, <2>1
    <2> QED BY <1>3, <2>2
  <1> HIDE DEF sum
  <1>6. sum = Body(sum)
    BY <1>5 DEF sum
  <1>7. \A i : Due(l, i) = sum[i]
    BY DEF Due, sum, n
  <1>8. sum[0] = 0 /\ \A i \in 1 .. n : sum[i] = sum[i - 1] + l[i].dtime
    BY <1>1, <1>6
  <1>9. \A i \in 0 .. n : sum[i] \in Int
    <2> DEFINE T == {i \in 0 .. n : sum[i] \in Int}
    <2>1. 0 \in T
      BY <1>1, <1>8
    <2>2. \A i \in 1 .. n : i - 1 \in T => i \in T
      <3> SUFFICES ASSUME NEW i \in 1 .. n, sum[i - 1] \in Int PROVE sum[i] \in Int
        BY <1>1
      <3>1. sum[i] = sum[i - 1] + l[i].dtime /\ l[i].dtime \in Int
        BY <1>1, <1>8
      <3> QED BY <3>1
    <2> HIDE DEF T
    <2>3. \A i \in 0 .. n : i \in T
      BY <1>1, <2>1, <2>2, UpTo
    <2> QED BY <2>3 DEF T
  <1> QED BY <1>1, <1>7, <1>8, <1>9 DEF n

\* Whatever adds up as the list does is when its entries are due.
LEMMA DueIs ==
  ASSUME NEW l \in Seq(Entry), NEW g \in [0 .. Len(l) -> Int],
         g[0] = 0, \A i \in 1 .. Len(l) : g[i] = g[i - 1] + l[i].dtime
  PROVE  \A i \in 0 .. Len(l) : Due(l, i) = g[i]
  <1> DEFINE n == Len(l)
             T == {i \in 0 .. n : Due(l, i) = g[i]}
  <1>1. n \in Nat
    OBVIOUS
  <1>2. /\ Due(l, 0) = 0
        /\ \A i \in 1 .. n : Due(l, i) = Due(l, i - 1) + l[i].dtime
        /\ \A i \in 1 .. n : g[i] = g[i - 1] + l[i].dtime
    BY DueFacts
  <1> HIDE DEF n
  <1>3. 0 \in T /\ \A i \in 1 .. n : i - 1 \in T => i \in T
    BY <1>1, <1>2
  <1> HIDE DEF T
  <1>4. \A i \in 0 .. n : i \in T
    BY <1>1, <1>3, UpTo
  <1> QED BY <1>4 DEF T, n

\* Without negative differences, later entries are due later.
LEMMA DueGrows ==
  ASSUME NEW l \in Seq(Entry), \A i \in 2 .. Len(l) : l[i].dtime >= 0
  PROVE  \A k \in 1 .. Len(l) : \A i \in 1 .. k : Due(l, i) <= Due(l, k)
  <1> DEFINE n == Len(l)
             T == {k \in 0 .. n : \A i \in 1 .. k : Due(l, i) <= Due(l, k)}
  <1>1. /\ n \in Nat
        /\ \A i \in 0 .. n : Due(l, i) \in Int
        /\ \A i \in 1 .. n : Due(l, i) = Due(l, i - 1) + l[i].dtime /\ l[i].dtime \in Int
        /\ \A i \in 2 .. n : l[i].dtime >= 0
    BY DueFacts
  <1> HIDE DEF n
  <1>2. 0 \in T
    BY <1>1
  <1>3. ASSUME NEW k \in 1 .. n, k - 1 \in T
        PROVE  k \in T
    <2>1. ASSUME NEW i \in 1 .. k - 1
          PROVE  Due(l, i) <= Due(l, k)
      <3>1. Due(l, i) <= Due(l, k - 1)
        BY <1>3
      <3>2. Due(l, k) = Due(l, k - 1) + l[k].dtime /\ l[k].dtime >= 0
        BY <1>1
      <3>3. Due(l, i) \in Int /\ Due(l, k - 1) \in Int /\ l[k].dtime \in Int
        <4>1. i \in 0 .. n /\ k - 1 \in 0 .. n
          BY <1>1
        <4> QED BY <1>1, <4>1
      <3> QED BY <3>1, <3>2, <3>3
    <2>2. Due(l, k) <= Due(l, k)
      BY <1>1
    <2> QED BY <1>1, <2>1, <2>2
  <1>4. \A k \in 1 .. n : k - 1 \in T => k \in T
    BY <1>3
  <1> HIDE DEF T
  <1>5. \A k \in 0 .. n : k \in T
    BY <1>1, <1>2, <1>4, UpTo
  <1> QED BY <1>1, <1>5 DEF T, n

-----------------------------------------------------------------------------
(***************************************************************************)
(* Deletion.                                                               *)
(***************************************************************************)
\* q has the places among the first i of the entries that are not for s.
KeptSoFar(l, s, q, i) ==
  /\ q \in Seq(Nat)
  /\ \A a \in 1 .. Len(q) : q[a] \in 1 .. i /\ l[q[a]].sequence_number # s
  /\ \A a, b \in 1 .. Len(q) : a < b => q[a] < q[b]
  /\ \A j \in 1 .. i : l[j].sequence_number # s => \E a \in 1 .. Len(q) : q[a] = j
  /\ Len(q) <= i
  /\ \A k \in 1 .. Len(l) :
       (\A j \in 1 .. Len(l) : l[j].sequence_number = s <=> j = k)
         => Len(q) = IF k <= i THEN i - 1 ELSE i

LEMMA KeptFacts ==
  ASSUME NEW l \in Seq(Entry), NEW s
  PROVE  KeptSoFar(l, s, Kept(l, s), Len(l))
  <1> DEFINE n == Len(l)
             step == [i \in 1 .. n |-> [q \in Seq(Nat) |->
                        IF l[i].sequence_number = s THEN q ELSE Append(q, i)]]
             Body(f) == [j \in 0 .. n |->
                           IF j = 0 THEN <<>>
                           ELSE IF l[j].sequence_number = s THEN f[j - 1]
                                ELSE Append(f[j - 1], j)]
             kept == CHOOSE f : f = Body(f)
  <1>1. n \in Nat
    OBVIOUS
  <1> HIDE DEF n
  <1> DEFINE Q == Seq(Nat)
  <1>2. step \in [1 .. n -> [Q -> Q]] /\ <<>> \in Q
    BY <1>1
  <1>3. PICK f \in [0 .. n -> Q] : f[0] = <<>> /\ \A i \in 1 .. n : f[i] = step[i][f[i - 1]]
    <2> DEFINE none == <<>>
    <2>1. none \in Q
      OBVIOUS
    <2> HIDE DEF Q, step, none
    <2>2. Runs(Q, n, none, step) # {}
      BY <1>1, <1>2, <2>1, RecursiveFunction
    <2> QED BY <2>2 DEF none, Runs
  <1>4. f = Body(f)
    <2> HIDE DEF Q, step
    <2>1. \A i \in 1 .. n : i - 1 \in 0 .. n /\ f[i - 1] \in Q
      BY <1>1, <1>3
    <2>2. \A i \in 1 .. n : f[i] = IF l[i].sequence_number = s THEN f[i - 1]
                                   ELSE Append(f[i - 1], i)
      BY <1>3, <2>1 DEF step, Q
    <2>3. \A i \in 0 .. n : f[i] = IF i = 0 THEN <<>>
                                   ELSE IF l[i].sequence_number = s THEN f[i - 1]
                                        ELSE Append(f[i - 1], i)
      <3> SUFFICES ASSUME NEW i \in 0 .. n
                   PROVE  f[i] = IF i = 0 THEN <<>>
                                 ELSE IF l[i].sequence_number = s THEN f[i - 1]
                                      ELSE Append(f[i - 1], i)
        OBVIOUS
      <3>1. CASE i = 0
        BY <1>3, <3>1
      <3>2. CASE i # 0
        <4>1. i \in 1 .. n
          BY <1>1, <3>2
        <4> QED BY <2>2, <3>2, <4>1
      <3> QED BY <3>1, <3>2
    <2> QED BY <1>3, <2>3
  <1> HIDE DEF kept, step, Q
  <1>5. kept = Body(kept)
    BY <1>4 DEF kept
  <1>6. Kept(l, s) = kept[n]
    BY DEF Kept, kept, n
  <1>7. /\ kept[0] = <<>>
        /\ \A i \in 1 .. n : kept[i] = IF l[i].sequence_number = s THEN kept[i - 1]
                                       ELSE Append(kept[i - 1], i)
    <2>1. 0 \in 0 .. n /\ \A i \in 1 .. n : i \in 0 .. n /\ i # 0
      BY <1>1
    <2>2. \A i \in 0 .. n :
            kept[i] = IF i = 0 THEN <<>>
                      ELSE IF l[i].sequence_number = s THEN kept[i - 1]
                           ELSE Append(kept[i - 1], i)
      BY <1>5
    <2> QED BY <2>1, <2>2
  <1> DEFINE T == {i \in 0 .. n : KeptSoFar(l, s, kept[i], i)}
  <1>8. 0 \in T
    <2>1. KeptSoFar(l, s, <<>>, 0)
      BY DEF KeptSoFar
    <2> QED BY <1>1, <1>7, <2>1
  <1> SUFFICES ASSUME NEW i \in 1 .. n, i - 1 \in T
               PROVE  KeptSoFar(l, s, kept[i], i)
    <2>1. \A i \in 1 .. n : i - 1 \in T => i \in T
      BY <1>1
    <2> HIDE DEF T
    <2>3. \A j \in 0 .. n : j \in T
      BY <1>1, <1>8, <2>1, UpTo
    <2>2. n \in T
      BY <1>1, <2>3
    <2> QED BY <1>6, <2>2 DEF T, n
  <1> DEFINE q == kept[i - 1]
             m == Len(q)
  <1>10. i \in Nat /\ i >= 1 /\ i <= n
    BY <1>1
  <1>11. /\ q \in Seq(Nat) /\ m \in Nat
         /\ \A a \in 1 .. m : q[a] \in 1 .. i - 1 /\ l[q[a]].sequence_number # s
         /\ \A a, b \in 1 .. m : a < b => q[a] < q[b]
         /\ \A j \in 1 .. i - 1 : l[j].sequence_number # s => \E a \in 1 .. m : q[a] = j
         /\ m <= i - 1
         /\ \A k \in 1 .. n :
              (\A j \in 1 .. n : l[j].sequence_number = s <=> j = k)
                => m = IF k <= i - 1 THEN i - 1 - 1 ELSE i - 1
    <2>1. KeptSoFar(l, s, q, i - 1)
      OBVIOUS
    <2> QED BY <1>10, <2>1 DEF KeptSoFar, n
  <1> HIDE DEF q, T
  <1>12. CASE l[i].sequence_number = s
    <2>1. kept[i] = q
      BY <1>7, <1>10, <1>12 DEF q
    <2>2. \A a \in 1 .. m : q[a] \in 1 .. i
      BY <1>10, <1>11
    <2>3. \A j \in 1 .. i : l[j].sequence_number # s => \E a \in 1 .. m : q[a] = j
      BY <1>10, <1>11, <1>12
    <2>4. ASSUME NEW k \in 1 .. n, \A j \in 1 .. n : l[j].sequence_number = s <=> j = k
          PROVE  m = IF k <= i THEN i - 1 ELSE i
      BY <1>10, <1>11, <1>12, <2>4
    <2>5. KeptSoFar(l, s, q, i)
      BY <1>10, <1>11, <2>2, <2>3, <2>4 DEF KeptSoFar, n
    <2> QED BY <2>1, <2>5
  <1>13. CASE l[i].sequence_number # s
    <2> DEFINE r == Append(q, i)
    <2>1. kept[i] = r
      BY <1>7, <1>10, <1>13 DEF q
    <2>2. /\ r \in Seq(Nat) /\ Len(r) = m + 1
          /\ \A a \in 1 .. m : r[a] = q[a]
          /\ r[m + 1] = i
      BY <1>10, <1>11
    <2> HIDE DEF r, m
    <2>3. \A a \in 1 .. m + 1 : r[a] \in 1 .. i /\ l[r[a]].sequence_number # s
      <3> SUFFICES ASSUME NEW a \in 1 .. m + 1
                   PROVE  r[a] \in 1 .. i /\ l[r[a]].sequence_number # s
        OBVIOUS
      <3>1. CASE a = m + 1
        BY <1>10, <1>13, <2>2, <3>1
      <3>2. CASE a # m + 1
        <4>1. a \in 1 .. m
          BY <1>11, <3>2
        <4>2. r[a] = q[a] /\ q[a] \in 1 .. i - 1 /\ l[q[a]].sequence_number # s
          BY <1>11, <2>2, <4>1
        <4> QED BY <1>10, <4>2
      <3> QED BY <3>1, <3>2
    <2>4. ASSUME NEW a \in 1 .. m + 1, NEW b \in 1 .. m + 1, a < b
          PROVE  r[a] < r[b]
      <3>1. a \in 1 .. m /\ r[a] = q[a] /\ q[a] \in 1 .. i - 1
        <4>1. a \in 1 .. m
          BY <1>11, <2>4
        <4> QED BY <1>11, <2>2, <4>1
      <3>2. CASE b = m + 1
        BY <1>10, <2>2, <3>1, <3>2
      <3>3. CASE b # m + 1
        <4>1. b \in 1 .. m
          BY <1>11, <3>3
        <4> QED BY <1>11, <2>2, <2>4, <3>1, <4>1
      <3> QED BY <3>2, <3>3
    <2>5. ASSUME NEW j \in 1 .. i, l[j].sequence_number # s
          PROVE  \E a \in 1 .. m + 1 : r[a] = j
      <3>1. CASE j = i
        BY <1>11, <2>2, <3>1
      <3>2. CASE j # i
        <4>1. PICK a \in 1 .. m : q[a] = j
          BY <1>10, <1>11, <2>5, <3>2
        <4> QED BY <1>11, <2>2, <4>1
      <3> QED BY <3>1, <3>2
    <2>6. ASSUME NEW k \in 1 .. n, \A j \in 1 .. n : l[j].sequence_number = s <=> j = k
          PROVE  m + 1 = IF k <= i THEN i - 1 ELSE i
      BY <1>10, <1>11, <1>13, <2>6
    <2>7. KeptSoFar(l, s, r, i)
      BY <1>10, <1>11, <2>2, <2>3, <2>4, <2>5, <2>6 DEF KeptSoFar, n
    <2> QED BY <2>1, <2>7
  <1> QED BY <1>12, <1>13

\* What deletion leaves: the entries not for s in their order, all due when
\* they were but for the time charged to the head.
LEMMA DeleteFacts ==
  ASSUME NEW l \in Seq(Entry), NEW s, NEW passed \in Int
  PROVE  LET new == LinkedListDeleteSequenceNumber(l, s, passed)
             kept == Kept(l, s)
             charged == (Len(l) - Len(kept)) * passed
         IN /\ KeptSoFar(l, s, kept, Len(l))
            /\ new \in Seq(Entry) /\ Len(new) = Len(kept)
            /\ charged \in Int
            /\ \A j \in 1 .. Len(kept) :
                 /\ new[j].sequence_number = l[kept[j]].sequence_number
                 /\ Due(new, j) = Due(l, kept[j]) - charged
                 /\ new[j].dtime = Due(l, kept[j])
                                     - IF j = 1 THEN charged ELSE Due(l, kept[j - 1])
  <1> DEFINE new == LinkedListDeleteSequenceNumber(l, s, passed)
             kept == Kept(l, s)
             k == Len(kept)
             n == Len(l)
             charged == (n - k) * passed
             g == [j \in 0 .. k |-> IF j = 0 THEN 0 ELSE Due(l, kept[j]) - charged]
  <1>1. KeptSoFar(l, s, kept, n)
    BY KeptFacts
  <1> HIDE DEF kept
  <1>2. /\ kept \in Seq(Nat) /\ k \in Nat /\ n \in Nat
        /\ \A j \in 1 .. k : kept[j] \in 1 .. n
    BY <1>1 DEF KeptSoFar
  <1>3. charged \in Int
    BY <1>2
  <1>4. /\ \A i \in 1 .. n : Due(l, i) \in Int
        /\ \A i \in 1 .. n : l[i] \in Entry /\ l[i].sequence_number \in Numbers
    <2>1. /\ \A i \in 0 .. n : Due(l, i) \in Int
          /\ \A i \in 1 .. n : l[i] \in Entry
      BY DueFacts
    <2>2. \A i \in 1 .. n : i \in 0 .. n
      BY <1>2
    <2> HIDE DEF n
    <2> QED BY <2>1, <2>2 DEF Entry
  <1>5. new = [j \in 1 .. k |->
                 [sequence_number |-> l[kept[j]].sequence_number,
                  dtime |-> Due(l, kept[j])
                              - IF j = 1 THEN charged ELSE Due(l, kept[j - 1])]]
    <2>1. DOMAIN kept = 1 .. k
      BY <1>2
    <2> QED BY <2>1 DEF LinkedListDeleteSequenceNumber, kept
  <1> HIDE DEF charged, n, k
  <1>6. \A j \in 1 .. k : Due(l, kept[j]) \in Int /\ (j # 1 => Due(l, kept[j - 1]) \in Int)
    <2> SUFFICES ASSUME NEW j \in 1 .. k
                 PROVE  Due(l, kept[j]) \in Int /\ (j # 1 => Due(l, kept[j - 1]) \in Int)
      OBVIOUS
    <2>1. j # 1 => j - 1 \in 1 .. k
      BY <1>2
    <2> QED BY <1>2, <1>4, <2>1
  <1>7. new \in Seq(Entry) /\ Len(new) = k
    <2>1. \A j \in 1 .. k : new[j] \in Entry
      <3> SUFFICES ASSUME NEW j \in 1 .. k PROVE new[j] \in Entry
        OBVIOUS
      <3>1. l[kept[j]].sequence_number \in Numbers
        BY <1>2, <1>4
      <3> DEFINE d == Due(l, kept[j]) - IF j = 1 THEN charged ELSE Due(l, kept[j - 1])
      <3>2. d \in Int
        BY <1>3, <1>6
      <3>3. new[j] = [sequence_number |-> l[kept[j]].sequence_number, dtime |-> d]
        BY <1>5
      <3> HIDE DEF d, new
      <3> QED BY <3>1, <3>2, <3>3 DEF Entry
    <2>2. new \in [1 .. k -> Entry]
      BY <1>5, <2>1
    <2> QED BY <1>2, <2>2
  <1>8. /\ \A j \in 1 .. k : new[j].dtime = Due(l, kept[j])
                               - IF j = 1 THEN charged ELSE Due(l, kept[j - 1])
        /\ \A j \in 1 .. k : new[j].sequence_number = l[kept[j]].sequence_number
    BY <1>5
  <1> HIDE DEF new
  <1>9. \A j \in 1 .. k : Due(new, j) = g[j]
    <2>1. g \in [0 .. k -> Int] /\ g[0] = 0
      BY <1>2, <1>3, <1>6
    <2>2. ASSUME NEW j \in 1 .. k
          PROVE  g[j] = g[j - 1] + new[j].dtime
      <3>1. j \in 0 .. k /\ j - 1 \in 0 .. k /\ j # 0
        BY <1>2
      <3>2. g[j] = Due(l, kept[j]) - charged
        BY <3>1
      <3>3. g[j - 1] = IF j = 1 THEN 0 ELSE Due(l, kept[j - 1]) - charged
        BY <3>1
      <3> QED BY <1>3, <1>6, <1>8, <3>2, <3>3
    <2>3. \A j \in 1 .. k : g[j] = g[j - 1] + new[j].dtime
      BY <2>2
    <2> HIDE DEF g
    <2>4. \A j \in 0 .. k : Due(new, j) = g[j]
      BY <1>7, <2>1, <2>3, DueIs
    <2> QED BY <1>2, <2>4
  <1>10. \A j \in 1 .. k : Due(new, j) = Due(l, kept[j]) - charged
    <2>1. \A j \in 1 .. k : g[j] = Due(l, kept[j]) - charged
      BY <1>2
    <2> HIDE DEF g
    <2> QED BY <1>9, <2>1
  <1> QED BY <1>1, <1>3, <1>7, <1>8, <1>10 DEF new, kept, charged, n, k

-----------------------------------------------------------------------------
(***************************************************************************)
(* Insertion.                                                              *)
(***************************************************************************)
LEMMA Least ==
  ASSUME NEW S, S \subseteq Nat, S # {}
  PROVE  Min(S) \in S /\ \A y \in S : Min(S) <= y
  <1> DEFINE R == {ss \in Nat \X Nat : ss[1] < ss[2]}
  <1>1. IsWellFoundedOn(R, Nat)
    BY NatLessThanWellFounded, Zenon DEF OpToRel
  <1>2. \A x, y \in Nat : y < x => <<y, x>> \in R
    OBVIOUS
  <1> HIDE DEF R
  <1>3. PICK x \in S : \A y \in S : ~ (<<y, x>> \in R)
    BY <1>1, WFMin
  <1>4. \A y \in S : x <= y
    <2> SUFFICES ASSUME NEW y \in S PROVE x <= y
      OBVIOUS
    <2>1. x \in Nat /\ y \in Nat
      OBVIOUS
    <2>2. ~ (y < x)
      BY <1>2, <1>3, <2>1
    <2> QED BY <2>1, <2>2
  <1> QED BY <1>4 DEF Min

\* The head counts from the start of the wait: what it gains, all gain.
LEMMA HeadFacts ==
  ASSUME NEW l \in Seq(Entry), l # <<>>, NEW d \in Int
  PROVE  LET new == [l EXCEPT ![1].dtime = d]
         IN /\ new \in Seq(Entry) /\ Len(new) = Len(l)
            /\ new[1].dtime = d
            /\ \A i \in 2 .. Len(l) : new[i] = l[i]
            /\ \A i \in 1 .. Len(l) : new[i].sequence_number = l[i].sequence_number
            /\ \A i \in 1 .. Len(l) : Due(new, i) = Due(l, i) + d - l[1].dtime
  <1> DEFINE new == [l EXCEPT ![1].dtime = d]
             n == Len(l)
             g == [j \in 0 .. n |-> IF j = 0 THEN 0 ELSE Due(l, j) + d - l[1].dtime]
  <1>1. /\ n \in Nat /\ n >= 1
        /\ Due(l, 0) = 0
        /\ \A i \in 1 .. n : Due(l, i) \in Int
        /\ \A i \in 1 .. n : Due(l, i) = Due(l, i - 1) + l[i].dtime
        /\ \A i \in 1 .. n : l[i] \in Entry /\ l[i].dtime \in Int
    BY DueFacts
  <1>2. /\ new \in Seq(Entry) /\ Len(new) = n
        /\ new[1].dtime = d
        /\ \A i \in 2 .. n : new[i] = l[i]
        /\ \A i \in 1 .. n : new[i].sequence_number = l[i].sequence_number
    <2>1. [l[1] EXCEPT !.dtime = d] \in Entry
      BY <1>1 DEF Entry
    <2>2. DOMAIN l = 1 .. n /\ 1 \in 1 .. n
      BY <1>1
    <2>3. new = [i \in 1 .. n |-> IF i = 1 THEN [l[1] EXCEPT !.dtime = d] ELSE l[i]]
      BY <2>2
    <2>4. new \in [1 .. n -> Entry]
      BY <1>1, <2>1, <2>3
    <2>5. new \in Seq(Entry) /\ Len(new) = n
      BY <1>1, <2>4
    <2>6. [l[1] EXCEPT !.dtime = d].dtime = d
          /\ [l[1] EXCEPT !.dtime = d].sequence_number = l[1].sequence_number
      BY <1>1, <2>2 DEF Entry
    <2> HIDE DEF n
    <2> QED BY <1>1, <2>2, <2>3, <2>5, <2>6
  <1> HIDE DEF new, n
  <1>3. g \in [0 .. n -> Int] /\ g[0] = 0
    BY <1>1
  <1>4. \A j \in 1 .. n : g[j] = g[j - 1] + new[j].dtime
    <2> SUFFICES ASSUME NEW j \in 1 .. n PROVE g[j] = g[j - 1] + new[j].dtime
      OBVIOUS
    <2>1. g[j] = Due(l, j) + d - l[1].dtime
      BY <1>1
    <2>2. CASE j = 1
      BY <1>1, <1>2, <2>1, <2>2
    <2>3. CASE j # 1
      <3>1. j - 1 \in 1 .. n /\ j \in 2 .. n /\ j - 1 \in 0 .. n
        BY <1>1, <2>3
      <3>2. g[j - 1] = Due(l, j - 1) + d - l[1].dtime
        BY <3>1
      <3>3. /\ Due(l, j) = Due(l, j - 1) + l[j].dtime /\ new[j] = l[j]
            /\ Due(l, j) \in Int /\ Due(l, j - 1) \in Int
            /\ l[j].dtime \in Int /\ l[1].dtime \in Int
        BY <1>1, <1>2, <3>1
      <3> HIDE DEF g
      <3> QED BY <2>1, <3>2, <3>3
    <2> QED BY <2>2, <2>3
  <1>5. \A j \in 1 .. n : g[j] = Due(l, j) + d - l[1].dtime
    BY <1>1
  <1> HIDE DEF g
  <1>6. \A j \in 0 .. n : Due(new, j) = g[j]
    BY <1>2, <1>3, <1>4, DueIs
  <1>7. \A j \in 1 .. n : Due(new, j) = Due(l, j) + d - l[1].dtime
    <2> SUFFICES ASSUME NEW j \in 1 .. n
                 PROVE  Due(new, j) = Due(l, j) + d - l[1].dtime
      OBVIOUS
    <2>1. j \in 0 .. n
      BY <1>1
    <2> QED BY <1>5, <1>6, <2>1
  <1> QED BY <1>2, <1>7 DEF new, n

\* The new entry is due when it was asked for, and the others when they were.
LEMMA InsertFacts ==
  ASSUME NEW l \in Seq(Entry), NEW s \in Numbers, NEW time \in Nat
  PROVE  LET new == LinkedListInsetion(l, s, time)
         IN /\ new \in Seq(Entry) /\ Len(new) = Len(l) + 1
            /\ \E at \in 1 .. Len(l) + 1 :
                 /\ new[at].sequence_number = s /\ Due(new, at) = time
                 /\ \A i \in 1 .. at - 1 :
                      /\ new[i].sequence_number = l[i].sequence_number
                      /\ Due(new, i) = Due(l, i)
                 /\ \A i \in at + 1 .. Len(l) + 1 :
                      /\ new[i].sequence_number = l[i - 1].sequence_number
                      /\ Due(new, i) = Due(l, i - 1)
            /\ (\A i \in 1 .. Len(l) : l[i].dtime >= 0)
                 => \A i \in 1 .. Len(l) + 1 : new[i].dtime >= 0
  <1> DEFINE n == Len(l)
             Later == {i \in 1 .. n + 1 : i > n \/ time < Due(l, i)}
             at == Min(Later)
             d == time - Due(l, at - 1)
             entry == [sequence_number |-> s, dtime |-> d]
             pushed == [l[at] EXCEPT !.dtime = @ - d]
             new == LinkedListInsetion(l, s, time)
             g == [i \in 0 .. n + 1 |-> IF i < at THEN Due(l, i)
                                        ELSE IF i = at THEN time ELSE Due(l, i - 1)]
  <1>1. /\ n \in Nat
        /\ Due(l, 0) = 0
        /\ \A i \in 0 .. n : Due(l, i) \in Int
        /\ \A i \in 1 .. n : Due(l, i) = Due(l, i - 1) + l[i].dtime
        /\ \A i \in 1 .. n : l[i] \in Entry /\ l[i].dtime \in Int
    BY DueFacts
  <1>2. /\ at \in 1 .. n + 1
        /\ at \in 1 .. n => time < Due(l, at)
        /\ at # 1 => at - 1 \in 1 .. n /\ ~ (time < Due(l, at - 1))
    <2> HIDE DEF n
    <2>1. Later \subseteq Nat /\ Later # {}
      <3>1. n + 1 \in Later
        BY <1>1
      <3> QED BY <1>1, <3>1
    <2>2. \A i : i \in Later <=> i \in 1 .. n + 1 /\ (i > n \/ time < Due(l, i))
      OBVIOUS
    <2> HIDE DEF Later
    <2>3. at \in Later /\ \A i \in Later : at <= i
      BY <2>1, Least
    <2> HIDE DEF at
    <2>4. at \in 1 .. n + 1 /\ (at > n \/ time < Due(l, at))
      BY <2>2, <2>3
    <2>5. ASSUME at # 1
          PROVE  at - 1 \in 1 .. n /\ ~ (time < Due(l, at - 1))
      <3>1. at - 1 \in 1 .. n /\ at - 1 \in 1 .. n + 1 /\ ~ (at <= at - 1)
        BY <1>1, <2>4, <2>5
      <3> QED BY <2>2, <2>3, <3>1
    <2> QED BY <1>1, <2>4, <2>5
  <1>10. n \in Nat /\ at \in Nat /\ 1 <= at /\ at <= n + 1
    <2> HIDE DEF at, n
    <2> QED BY <1>1, <1>2
  <1>3. d \in Int /\ Due(l, at - 1) \in Int
    <2>1. at - 1 \in 0 .. n
      BY <1>1, <1>2
    <2> QED BY <1>1, <2>1
  <1>4. /\ new \in Seq(Entry) /\ Len(new) = n + 1
        /\ new = [i \in 1 .. n + 1 |->
                    IF i < at THEN l[i] ELSE IF i = at THEN entry
                    ELSE IF i = at + 1 THEN pushed ELSE l[i - 1]]
    <2> DEFINE later == IF at > n THEN l ELSE [l EXCEPT ![at].dtime = @ - d]
    <2>1. new = InsertAt(later, at, entry)
      BY DEF LinkedListInsetion
    <2> HIDE DEF new, at, d
    <2>2. entry \in Entry /\ (at \in 1 .. n => pushed \in Entry)
      <3>1. entry \in Entry
        BY <1>3 DEF Entry
      <3>2. ASSUME at \in 1 .. n
            PROVE  pushed \in Entry
        <4>1. l[at] \in Entry /\ l[at].dtime - d \in Int
          BY <1>1, <1>3, <3>2
        <4> QED BY <4>1 DEF Entry
      <3> QED BY <3>1, <3>2
    <2> HIDE DEF entry, pushed
    <2>3. later = [i \in 1 .. n |-> IF i = at THEN pushed ELSE l[i]]
      <3>1. DOMAIN l = 1 .. n
        OBVIOUS
      <3>2. l = [i \in 1 .. n |-> l[i]]
        BY <3>1
      <3> HIDE DEF n
      <3>3. CASE at > n
        BY <1>1, <3>2, <3>3
      <3>4. CASE ~ (at > n)
        BY <1>10, <3>1, <3>4 DEF pushed
      <3> QED BY <3>3, <3>4
    <2>4. later \in Seq(Entry) /\ Len(later) = n
      <3>1. later \in [1 .. n -> Entry]
        BY <1>1, <2>2, <2>3
      <3> HIDE DEF later
      <3> QED BY <1>1, <3>1
    <2> HIDE DEF later, n
    <2>5. /\ new \in Seq(Entry) /\ Len(new) = n + 1
          /\ \A i \in 1 .. n + 1 :
               new[i] = IF i < at THEN later[i] ELSE IF i = at THEN entry ELSE later[i - 1]
      <3> DEFINE a == SubSeq(later, 1, at - 1)
                 b == SubSeq(later, at, n)
                 c == <<entry>>
      <3>1. /\ a \in Seq(Entry) /\ Len(a) = at - 1
            /\ \A i \in 1 .. at - 1 : a[i] = later[i]
        BY <1>10, <2>4
      <3>2. /\ b \in Seq(Entry) /\ Len(b) = n + 1 - at
            /\ \A i \in 1 .. n + 1 - at : b[i] = later[at + i - 1]
        BY <1>10, <2>4
      <3>3. c \in Seq(Entry) /\ Len(c) = 1 /\ c[1] = entry
        BY <2>2
      <3>4. new = (a \o c) \o b
        BY <2>1, <2>4 DEF InsertAt
      <3> HIDE DEF a, b, c
      <3>5. /\ a \o c \in Seq(Entry) /\ Len(a \o c) = at
            /\ \A i \in 1 .. at : (a \o c)[i] = IF i < at THEN later[i] ELSE entry
        <4>1. /\ a \o c \in Seq(Entry) /\ Len(a \o c) = Len(a) + Len(c)
              /\ \A i \in 1 .. Len(a) + Len(c) :
                   (a \o c)[i] = IF i <= Len(a) THEN a[i] ELSE c[i - Len(a)]
          BY <3>1, <3>3, ConcatProperties
        <4>2. Len(a) + Len(c) = at
          BY <1>10, <3>1, <3>3
        <4>3. ASSUME NEW i \in 1 .. at
              PROVE  (a \o c)[i] = IF i < at THEN later[i] ELSE entry
          <5>1. (a \o c)[i] = IF i <= at - 1 THEN a[i] ELSE c[i - (at - 1)]
            BY <3>1, <4>1, <4>2
          <5>2. ASSUME i <= at - 1
                PROVE  (a \o c)[i] = later[i]
            BY <1>10, <3>1, <5>1, <5>2
          <5>3. ASSUME i = at
                PROVE  (a \o c)[i] = entry
            BY <1>10, <3>3, <5>1, <5>3
          <5>4. at \in Nat /\ i \in Nat /\ i <= at
            BY <1>10
          <5> HIDE DEF later, entry
          <5>5. CASE i < at
            <6>1. i <= at - 1
              BY <5>4, <5>5
            <6> QED BY <5>2, <5>5, <6>1
          <5>6. CASE ~ (i < at)
            <6>1. i = at
              BY <5>4, <5>6
            <6> QED BY <5>3, <5>6, <6>1
          <5> QED BY <5>5, <5>6
        <4> QED BY <4>1, <4>2, <4>3
      <3> DEFINE ac == a \o c
      <3> HIDE DEF ac
      <3>6. ac \in Seq(Entry) /\ Len(ac) = at /\ new = ac \o b
            /\ \A i \in 1 .. at : ac[i] = IF i < at THEN later[i] ELSE entry
        BY <3>4, <3>5 DEF ac
      <3>7. new \in Seq(Entry) /\ Len(new) = n + 1
        <4>1. new \in Seq(Entry) /\ Len(new) = at + (n + 1 - at)
          BY <3>2, <3>6, ConcatProperties
        <4> QED BY <1>10, <4>1
      <3>9. \A i \in 1 .. n + 1 : new[i] = IF i <= at THEN ac[i] ELSE b[i - at]
        <4>1. \A i \in 1 .. at + (n + 1 - at) :
                new[i] = IF i <= at THEN ac[i] ELSE b[i - at]
          BY <3>2, <3>6, ConcatProperties
        <4>2. at + (n + 1 - at) = n + 1
          BY <1>10
        <4> QED BY <4>1, <4>2
      <3>8. ASSUME NEW i \in 1 .. n + 1
            PROVE  new[i] = IF i < at THEN later[i] ELSE IF i = at THEN entry
                            ELSE later[i - 1]
        <4>1. CASE i <= at
          <5>1. i \in 1 .. at /\ new[i] = ac[i]
            BY <1>10, <3>9, <4>1
          <5>2. ac[i] = IF i < at THEN later[i] ELSE entry
            BY <3>6, <5>1
          <5> QED BY <1>10, <4>1, <5>1, <5>2
        <4>2. CASE i > at
          <5>1. i - at \in 1 .. n + 1 - at /\ new[i] = b[i - at]
            BY <1>10, <3>9, <4>2
          <5>2. at + (i - at) - 1 = i - 1
            BY <1>10
          <5> QED BY <1>10, <3>2, <4>2, <5>1, <5>2
        <4> QED BY <1>10, <4>1, <4>2
      <3> QED BY <3>7, <3>8
    <2>6. ASSUME NEW i \in 1 .. n + 1
          PROVE  new[i] = IF i < at THEN l[i] ELSE IF i = at THEN entry
                          ELSE IF i = at + 1 THEN pushed ELSE l[i - 1]
      <3>1. CASE i < at
        <4>1. i \in 1 .. n /\ i # at /\ new[i] = later[i]
          BY <1>10, <2>5, <3>1
        <4> QED BY <2>3, <3>1, <4>1
      <3>2. CASE i = at
        BY <1>10, <2>5, <3>2
      <3>3. CASE i > at
        <4>3. i - 1 \in 1 .. n /\ ~ (i < at) /\ i # at
          BY <1>10, <3>3
        <4>1. i - 1 \in 1 .. n /\ new[i] = later[i - 1]
          BY <2>5, <4>3
        <4>2. later[i - 1] = IF i - 1 = at THEN pushed ELSE l[i - 1]
          BY <2>3, <4>1
        <4> QED BY <1>10, <3>3, <4>1, <4>2
      <3> QED BY <1>10, <3>1, <3>2, <3>3
    <2>7. new = [i \in 1 .. n + 1 |-> new[i]]
      BY <1>1, <2>5
    <2> QED BY <2>5, <2>6, <2>7
  <1> HIDE DEF new, at, n
  <1>5. \A i \in 1 .. n + 1 :
          /\ i < at => new[i] = l[i] /\ i \in 1 .. n
          /\ i = at => new[i].sequence_number = s /\ new[i].dtime = d
          /\ i > at => i - 1 \in 1 .. n
                       /\ new[i].sequence_number = l[i - 1].sequence_number
          /\ i = at + 1 => new[i].dtime = l[at].dtime - d /\ at \in 1 .. n
          /\ i > at + 1 => new[i] = l[i - 1] /\ i - 1 \in 1 .. n
    <2> SUFFICES ASSUME NEW i \in 1 .. n + 1
                 PROVE  /\ i < at => new[i] = l[i] /\ i \in 1 .. n
                        /\ i = at => new[i].sequence_number = s /\ new[i].dtime = d
                        /\ i > at => i - 1 \in 1 .. n
                             /\ new[i].sequence_number = l[i - 1].sequence_number
                        /\ i = at + 1 => new[i].dtime = l[at].dtime - d /\ at \in 1 .. n
                        /\ i > at + 1 => new[i] = l[i - 1] /\ i - 1 \in 1 .. n
      OBVIOUS
    <2>1. new[i] = IF i < at THEN l[i] ELSE IF i = at THEN entry
                   ELSE IF i = at + 1 THEN pushed ELSE l[i - 1]
      BY <1>4
    <2>2. i < at => new[i] = l[i] /\ i \in 1 .. n
      BY <1>10, <2>1
    <2>3. i = at => new[i].sequence_number = s /\ new[i].dtime = d
      BY <1>10, <2>1
    <2>4. i = at + 1 => new[i] = pushed /\ at \in 1 .. n
      BY <1>10, <2>1
    <2>5. at \in 1 .. n => pushed.sequence_number = l[at].sequence_number
                           /\ pushed.dtime = l[at].dtime - d
      BY <1>1 DEF Entry
    <2>6. i > at + 1 => new[i] = l[i - 1] /\ i - 1 \in 1 .. n
      BY <1>10, <2>1
    <2>7. i > at => i = at + 1 \/ i > at + 1
      BY <1>10
    <2>8. at + 1 - 1 = at
      BY <1>10
    <2> HIDE DEF pushed, d, entry
    <2>9. i = at + 1 => new[i].dtime = l[at].dtime - d /\ at \in 1 .. n
      BY <2>4, <2>5
    <2>11. ASSUME i > at
           PROVE  i - 1 \in 1 .. n /\ new[i].sequence_number = l[i - 1].sequence_number
      <3>1. CASE i = at + 1
        BY <2>4, <2>5, <2>8, <3>1
      <3>2. CASE i > at + 1
        BY <2>6, <3>2
      <3> QED BY <2>7, <2>11, <3>1, <3>2
    <2> QED BY <2>2, <2>3, <2>6, <2>9, <2>11
  <1>6. \A i \in 1 .. n + 1 : Due(new, i) = g[i]
    <2>1. g \in [0 .. n + 1 -> Int]
      <3>1. \A i \in 0 .. n + 1 : /\ i < at => i \in 0 .. n
                                  /\ i > at => i - 1 \in 0 .. n
        BY <1>1, <1>2
      <3> QED BY <1>1, <1>2, <3>1
    <2>2. g[0] = 0
      BY <1>1, <1>2
    <2>3. ASSUME NEW i \in 1 .. n + 1
          PROVE  g[i] = g[i - 1] + new[i].dtime
      <3>1. i \in 0 .. n + 1 /\ i - 1 \in 0 .. n + 1
        BY <1>1
      <3>2. /\ g[i] = IF i < at THEN Due(l, i) ELSE IF i = at THEN time ELSE Due(l, i - 1)
            /\ g[i - 1] = IF i - 1 < at THEN Due(l, i - 1)
                          ELSE IF i - 1 = at THEN time ELSE Due(l, i - 1 - 1)
        BY <3>1
      <3> HIDE DEF g
      <3>3. CASE i < at
        <4>1. g[i] = Due(l, i) /\ g[i - 1] = Due(l, i - 1)
          BY <1>1, <1>2, <3>2, <3>3
        <4>2. new[i] = l[i] /\ i \in 1 .. n
          BY <1>5, <3>3
        <4> QED BY <1>1, <4>1, <4>2
      <3>4. CASE i = at
        BY <1>1, <1>2, <1>3, <1>5, <3>2, <3>4
      <3>5. CASE i = at + 1
        <4>1. g[i] = Due(l, at) /\ g[i - 1] = time
          BY <1>2, <3>2, <3>5
        <4>2. new[i].dtime = l[at].dtime - d /\ at \in 1 .. n
          BY <1>5, <3>5
        <4>3. Due(l, at) = Due(l, at - 1) + l[at].dtime /\ l[at].dtime \in Int
          BY <1>1, <4>2
        <4> QED BY <1>3, <4>1, <4>2, <4>3
      <3>6. CASE i > at + 1
        <4>1. g[i] = Due(l, i - 1) /\ g[i - 1] = Due(l, i - 1 - 1)
          BY <1>2, <3>2, <3>6
        <4>2. new[i] = l[i - 1] /\ i - 1 \in 1 .. n
          BY <1>5, <3>6
        <4> QED BY <1>1, <4>1, <4>2
      <3> QED BY <1>1, <1>2, <3>3, <3>4, <3>5, <3>6
    <2>4. \A i \in 1 .. n + 1 : g[i] = g[i - 1] + new[i].dtime
      BY <2>3
    <2> HIDE DEF g
    <2>5. \A i \in 0 .. n + 1 : Due(new, i) = g[i]
      <3>1. /\ g \in [0 .. Len(new) -> Int]
            /\ \A i \in 1 .. Len(new) : g[i] = g[i - 1] + new[i].dtime
        BY <1>4, <2>1, <2>4
      <3>2. \A i \in 0 .. Len(new) : Due(new, i) = g[i]
        BY <1>4, <2>2, <3>1, DueIs
      <3> QED BY <1>4, <3>2
    <2> QED BY <1>1, <2>5
  <1>7. \A i \in 1 .. n + 1 : g[i] = IF i < at THEN Due(l, i)
                                     ELSE IF i = at THEN time ELSE Due(l, i - 1)
    BY <1>1
  <1> HIDE DEF g
  <1>8. ASSUME \A i \in 1 .. n : l[i].dtime >= 0, NEW i \in 1 .. n + 1
        PROVE  new[i].dtime >= 0
    <2>1. CASE i < at
      BY <1>5, <1>8, <2>1
    <2>2. CASE i = at
      BY <1>1, <1>2, <1>3, <1>5, <2>2
    <2>3. CASE i = at + 1
      <3>1. new[i].dtime = l[at].dtime - d /\ at \in 1 .. n
        BY <1>5, <2>3
      <3>2. Due(l, at) = Due(l, at - 1) + l[at].dtime /\ l[at].dtime \in Int
            /\ time < Due(l, at)
        BY <1>1, <1>2, <3>1
      <3> QED BY <1>3, <3>1, <3>2
    <2>4. CASE i > at + 1
      BY <1>5, <1>8, <2>4
    <2> QED BY <1>1, <1>2, <2>1, <2>2, <2>3, <2>4
  <1>9. /\ new[at].sequence_number = s /\ Due(new, at) = time
        /\ \A i \in 1 .. at - 1 :
             new[i].sequence_number = l[i].sequence_number /\ Due(new, i) = Due(l, i)
        /\ \A i \in at + 1 .. n + 1 :
             new[i].sequence_number = l[i - 1].sequence_number /\ Due(new, i) = Due(l, i - 1)
    <2>1. \A i \in 1 .. at - 1 : i \in 1 .. n + 1 /\ i < at
      BY <1>10
    <2>2. \A i \in at + 1 .. n + 1 : i \in 1 .. n + 1 /\ i > at /\ ~ (i < at) /\ i # at
      BY <1>10
    <2>3. ~ (at < at)
      BY <1>10
    <2> QED BY <1>2, <1>5, <1>6, <1>7, <2>1, <2>2, <2>3
  <1> QED BY <1>2, <1>4, <1>8, <1>9 DEF new, n

-----------------------------------------------------------------------------
(***************************************************************************)
(* What the operations do to the timers of a list.                         *)
(***************************************************************************)
NumbersOf(l) == {l[i].sequence_number : i \in DOMAIN l}
OnceEach(l) ==
  \A i, j \in 1 .. Len(l) : l[i].sequence_number = l[j].sequence_number => i = j
NoneNegative(l) == \A i \in 1 .. Len(l) : l[i].dtime >= 0

\* Each timer of new but the one for s is a timer of l, due `passed` earlier.
Earlier(new, l, s, passed) ==
  \A i \in 1 .. Len(new) : new[i].sequence_number # s =>
    \E j \in 1 .. Len(l) :
      /\ new[i].sequence_number = l[j].sequence_number
      /\ Due(new, i) = Due(l, j) - passed

LEMMA HeadKeepsTimers ==
  ASSUME NEW l \in Seq(Entry), l # <<>>, NEW d \in Int
  PROVE  LET new == [l EXCEPT ![1].dtime = d]
         IN /\ new \in Seq(Entry) /\ Len(new) = Len(l)
            /\ NumbersOf(new) = NumbersOf(l)
            /\ OnceEach(l) => OnceEach(new)
            /\ NoneNegative(l) /\ d >= 0 => NoneNegative(new)
            /\ \A s : Earlier(new, l, s, l[1].dtime - d)
  <1> DEFINE new == [l EXCEPT ![1].dtime = d]
  <1>1. /\ new \in Seq(Entry) /\ Len(new) = Len(l)
        /\ new[1].dtime = d
        /\ \A i \in 2 .. Len(l) : new[i] = l[i]
        /\ \A i \in 1 .. Len(l) : new[i].sequence_number = l[i].sequence_number
        /\ \A i \in 1 .. Len(l) : Due(new, i) = Due(l, i) + d - l[1].dtime
    BY HeadFacts
  <1>2. Len(l) \in Nat /\ DOMAIN l = 1 .. Len(l) /\ DOMAIN new = 1 .. Len(l)
    OBVIOUS
  <1>3. \A i \in 1 .. Len(l) : Due(l, i) \in Int /\ l[i].dtime \in Int
    <2>1. \A i \in 1 .. Len(l) : i \in 0 .. Len(l)
      BY <1>2
    <2> QED BY <2>1, DueFacts
  <1> HIDE DEF new
  <1>4. NumbersOf(new) = NumbersOf(l)
    BY <1>1, <1>2 DEF NumbersOf
  <1>5. OnceEach(l) => OnceEach(new)
    BY <1>1 DEF OnceEach
  <1>6. ASSUME NoneNegative(l), d >= 0 PROVE NoneNegative(new)
    <2> SUFFICES ASSUME NEW i \in 1 .. Len(l) PROVE new[i].dtime >= 0
      BY <1>1 DEF NoneNegative
    <2>1. i = 1 \/ i \in 2 .. Len(l)
      BY <1>2
    <2> QED BY <1>1, <1>6, <2>1 DEF NoneNegative
  <1>7. ASSUME NEW s PROVE Earlier(new, l, s, l[1].dtime - d)
    <2> SUFFICES ASSUME NEW i \in 1 .. Len(l)
                 PROVE  /\ new[i].sequence_number = l[i].sequence_number
                        /\ Due(new, i) = Due(l, i) - (l[1].dtime - d)
      BY <1>1 DEF Earlier
    <2>1. 1 \in 1 .. Len(l)
      BY <1>2
    <2>2. Due(l, i) \in Int /\ l[1].dtime \in Int
      BY <1>3, <2>1
    <2>3. Due(new, i) = Due(l, i) + d - l[1].dtime
      BY <1>1
    <2> QED BY <1>1, <2>2, <2>3
  <1> QED BY <1>1, <1>4, <1>5, <1>6, <1>7 DEF new

LEMMA InsertKeepsTimers ==
  ASSUME NEW l \in Seq(Entry), NEW s \in Numbers, NEW time \in Nat
  PROVE  LET new == LinkedListInsetion(l, s, time)
         IN /\ new \in Seq(Entry) /\ new # <<>>
            /\ NumbersOf(new) = NumbersOf(l) \union {s}
            /\ NoneNegative(l) => NoneNegative(new)
            /\ s \notin NumbersOf(l) =>
                 /\ OnceEach(l) => OnceEach(new)
                 /\ Earlier(new, l, s, 0)
                 /\ \A i \in 1 .. Len(new) :
                      new[i].sequence_number = s => Due(new, i) = time
  <1> DEFINE new == LinkedListInsetion(l, s, time)
             n == Len(l)
  <1>1. /\ new \in Seq(Entry) /\ Len(new) = n + 1
        /\ \E at \in 1 .. n + 1 :
             /\ new[at].sequence_number = s /\ Due(new, at) = time
             /\ \A i \in 1 .. at - 1 :
                  /\ new[i].sequence_number = l[i].sequence_number
                  /\ Due(new, i) = Due(l, i)
             /\ \A i \in at + 1 .. n + 1 :
                  /\ new[i].sequence_number = l[i - 1].sequence_number
                  /\ Due(new, i) = Due(l, i - 1)
        /\ (\A i \in 1 .. n : l[i].dtime >= 0) => \A i \in 1 .. n + 1 : new[i].dtime >= 0
    BY InsertFacts
  <1> HIDE DEF new
  <1>2. PICK at \in 1 .. n + 1 :
          /\ new[at].sequence_number = s /\ Due(new, at) = time
          /\ \A i \in 1 .. at - 1 :
               /\ new[i].sequence_number = l[i].sequence_number
               /\ Due(new, i) = Due(l, i)
          /\ \A i \in at + 1 .. n + 1 :
               /\ new[i].sequence_number = l[i - 1].sequence_number
               /\ Due(new, i) = Due(l, i - 1)
    BY <1>1
  <1>3. n \in Nat /\ DOMAIN l = 1 .. n /\ DOMAIN new = 1 .. n + 1 /\ new # <<>>
    BY <1>1
  <1>4. \A i \in 1 .. n : Due(l, i) \in Int
    <2>1. \A i \in 1 .. n : i \in 0 .. n
      BY <1>3
    <2> QED BY <2>1, DueFacts
  <1> HIDE DEF n
  \* Where the entry at place i of the new list stood.
  <1> DEFINE from(i) == IF i < at THEN i ELSE i - 1
  <1>5. ASSUME NEW i \in 1 .. n + 1, i # at
        PROVE  /\ from(i) \in 1 .. n
               /\ new[i].sequence_number = l[from(i)].sequence_number
               /\ Due(new, i) = Due(l, from(i))
    <2>1. CASE i < at
      BY <1>2, <1>3, <1>5, <2>1
    <2>2. CASE i > at
      BY <1>2, <1>3, <1>5, <2>2
    <2> QED BY <1>3, <1>5, <2>1, <2>2
  <1>6. NumbersOf(new) = NumbersOf(l) \union {s}
    <2>1. ASSUME NEW x \in NumbersOf(new) PROVE x \in NumbersOf(l) \union {s}
      <3>1. PICK i \in 1 .. n + 1 : x = new[i].sequence_number
        BY <1>3 DEF NumbersOf
      <3> QED BY <1>2, <1>3, <1>5, <3>1 DEF NumbersOf
    <2>2. ASSUME NEW x \in NumbersOf(l) PROVE x \in NumbersOf(new)
      <3>1. PICK j \in 1 .. n : x = l[j].sequence_number
        BY <1>3 DEF NumbersOf
      <3>2. CASE j < at
        <4>1. j \in 1 .. n + 1 /\ new[j].sequence_number = l[j].sequence_number
          BY <1>2, <1>3, <3>2
        <4> QED BY <1>3, <3>1, <4>1 DEF NumbersOf
      <3>3. CASE ~ (j < at)
        <4>1. j + 1 \in at + 1 .. n + 1 /\ j + 1 \in 1 .. n + 1 /\ (j + 1) - 1 = j
          BY <1>3, <3>3
        <4>2. new[j + 1].sequence_number = l[j].sequence_number
          BY <1>2, <4>1
        <4> QED BY <1>3, <3>1, <4>1, <4>2 DEF NumbersOf
      <3> QED BY <3>2, <3>3
    <2>3. s \in NumbersOf(new)
      BY <1>2, <1>3 DEF NumbersOf
    <2> QED BY <2>1, <2>2, <2>3
  <1>7. NoneNegative(l) => NoneNegative(new)
    BY <1>1 DEF NoneNegative, n
  <1>8. ASSUME s \notin NumbersOf(l), NEW j \in 1 .. n
        PROVE  l[j].sequence_number # s
    BY <1>3, <1>8 DEF NumbersOf
  <1>9. ASSUME s \notin NumbersOf(l), OnceEach(l) PROVE OnceEach(new)
    <2> SUFFICES ASSUME NEW i \in 1 .. n + 1, NEW j \in 1 .. n + 1,
                        new[i].sequence_number = new[j].sequence_number, i # j
                 PROVE  FALSE
      BY <1>1 DEF OnceEach
    <2>1. CASE i = at
      BY <1>2, <1>5, <1>8, <1>9, <2>1
    <2>2. CASE j = at
      BY <1>2, <1>5, <1>8, <1>9, <2>2
    <2>3. CASE i # at /\ j # at
      <3>1. from(i) \in 1 .. n /\ from(j) \in 1 .. n /\ from(i) # from(j)
        BY <1>3, <1>5, <2>3
      <3> QED BY <1>5, <1>9, <2>3, <3>1 DEF OnceEach, n
    <2> QED BY <2>1, <2>2, <2>3
  <1>10. Earlier(new, l, s, 0)
    <2> SUFFICES ASSUME NEW i \in 1 .. n + 1, new[i].sequence_number # s
                 PROVE  \E j \in 1 .. n :
                          /\ new[i].sequence_number = l[j].sequence_number
                          /\ Due(new, i) = Due(l, j) - 0
      BY <1>1 DEF Earlier, n
    <2>1. from(i) \in 1 .. n /\ new[i].sequence_number = l[from(i)].sequence_number
          /\ Due(new, i) = Due(l, from(i))
      BY <1>2, <1>5
    <2> DEFINE j == from(i)
    <2> HIDE DEF from
    <2>2. Due(l, j) \in Int
      BY <1>4, <2>1
    <2> QED BY <2>1, <2>2
  <1>11. ASSUME s \notin NumbersOf(l), NEW i \in 1 .. n + 1, new[i].sequence_number = s
         PROVE  Due(new, i) = time
    BY <1>2, <1>5, <1>8, <1>11
  <1> QED BY <1>1, <1>3, <1>6, <1>7, <1>9, <1>10, <1>11 DEF new, n

LEMMA DeleteKeepsTimers ==
  ASSUME NEW l \in Seq(Entry), NEW s, NEW passed \in Int
  PROVE  LET new == LinkedListDeleteSequenceNumber(l, s, passed)
         IN /\ new \in Seq(Entry)
            /\ NumbersOf(new) = NumbersOf(l) \ {s}
            /\ OnceEach(l) => OnceEach(new)
            /\ s \in NumbersOf(l) /\ OnceEach(l) => Earlier(new, l, s, passed)
            /\ /\ s \in NumbersOf(l) /\ OnceEach(l)
               /\ NoneNegative(l) /\ passed <= l[1].dtime
               => NoneNegative(new)
  <1> DEFINE new == LinkedListDeleteSequenceNumber(l, s, passed)
             kept == Kept(l, s)
             n == Len(l)
             m == Len(kept)
             charged == (n - m) * passed
  <1>1. /\ KeptSoFar(l, s, kept, n)
        /\ new \in Seq(Entry) /\ Len(new) = m
        /\ charged \in Int
        /\ \A j \in 1 .. m :
             /\ new[j].sequence_number = l[kept[j]].sequence_number
             /\ Due(new, j) = Due(l, kept[j]) - charged
             /\ new[j].dtime = Due(l, kept[j])
                                 - IF j = 1 THEN charged ELSE Due(l, kept[j - 1])
    BY DeleteFacts
  <1>2. /\ n \in Nat /\ DOMAIN l = 1 .. n
        /\ Len(new) = m => DOMAIN new = 1 .. m
    BY <1>1
  <1> HIDE DEF new, kept
  <1>3. /\ kept \in Seq(Nat) /\ m \in Nat
        /\ \A a \in 1 .. m : kept[a] \in 1 .. n /\ l[kept[a]].sequence_number # s
        /\ \A a, b \in 1 .. m : a < b => kept[a] < kept[b]
        /\ \A j \in 1 .. n : l[j].sequence_number # s => \E a \in 1 .. m : kept[a] = j
        /\ \A k \in 1 .. n :
             (\A j \in 1 .. n : l[j].sequence_number = s <=> j = k) => m = n - 1
    <2>1. \A k \in 1 .. n : k <= n
      BY <1>2
    <2>2. /\ kept \in Seq(Nat) /\ m \in Nat
          /\ \A a \in 1 .. m : kept[a] \in 1 .. n /\ l[kept[a]].sequence_number # s
          /\ \A a, b \in 1 .. m : a < b => kept[a] < kept[b]
          /\ \A j \in 1 .. n : l[j].sequence_number # s => \E a \in 1 .. m : kept[a] = j
      BY <1>1 DEF KeptSoFar
    <2>3. \A k \in 1 .. n :
            (\A j \in 1 .. n : l[j].sequence_number = s <=> j = k)
               => m = IF k <= n THEN n - 1 ELSE n
      BY <1>1 DEF KeptSoFar
    <2> HIDE DEF m, n
    <2> QED BY <2>1, <2>2, <2>3
  <1>4. /\ \A i \in 1 .. n : Due(l, i) \in Int /\ l[i].dtime \in Int
        /\ \A i \in 1 .. n : Due(l, i) = Due(l, i - 1) + l[i].dtime
        /\ Due(l, 0) = 0
    <2>1. \A i \in 1 .. n : i \in 0 .. n
      BY <1>2
    <2> QED BY <2>1, DueFacts
  <1>5. ASSUME s \in NumbersOf(l), OnceEach(l)
        PROVE  charged = passed
    <2>1. PICK k \in 1 .. n : l[k].sequence_number = s
      BY <1>2, <1>5 DEF NumbersOf
    <2>2. \A j \in 1 .. n : l[j].sequence_number = s <=> j = k
      BY <1>5, <2>1 DEF OnceEach
    <2>3. m = n - 1
      BY <1>3, <2>2
    <2> HIDE DEF n, m
    <2>4. n - m = 1
      BY <1>2, <1>3, <2>3
    <2> QED BY <2>4
  <1> HIDE DEF charged, n, m
  <1>6. NumbersOf(new) = NumbersOf(l) \ {s}
    <2>1. ASSUME NEW x \in NumbersOf(new) PROVE x \in NumbersOf(l) \ {s}
      <3>1. PICK a \in 1 .. m : x = new[a].sequence_number
        BY <1>1, <1>2 DEF NumbersOf
      <3>2. x = l[kept[a]].sequence_number /\ kept[a] \in 1 .. n /\ x # s
        BY <1>1, <1>3, <3>1
      <3> QED BY <1>2, <3>2 DEF NumbersOf
    <2>2. ASSUME NEW x \in NumbersOf(l), x # s PROVE x \in NumbersOf(new)
      <3>1. PICK j \in 1 .. n : x = l[j].sequence_number
        BY <1>2 DEF NumbersOf
      <3>2. PICK a \in 1 .. m : kept[a] = j
        BY <1>3, <2>2, <3>1
      <3> QED BY <1>1, <1>2, <3>1, <3>2 DEF NumbersOf
    <2> QED BY <2>1, <2>2
  <1>7. ASSUME OnceEach(l) PROVE OnceEach(new)
    <2> SUFFICES ASSUME NEW a \in 1 .. m, NEW b \in 1 .. m,
                        new[a].sequence_number = new[b].sequence_number
                 PROVE  a = b
      BY <1>1 DEF OnceEach
    <2>2. kept[a] \in 1 .. n /\ kept[b] \in 1 .. n
      BY <1>3
    <2>4. l[kept[a]].sequence_number = l[kept[b]].sequence_number
      BY <1>1
    <2>1. kept[a] = kept[b]
      BY <1>7, <2>2, <2>4 DEF OnceEach, n
    <2>3. ~ (a < b) /\ ~ (b < a)
      BY <1>2, <1>3, <2>1, <2>2
    <2> QED BY <1>3, <2>3
  <1>8. ASSUME s \in NumbersOf(l), OnceEach(l) PROVE Earlier(new, l, s, passed)
    <2> SUFFICES ASSUME NEW i \in 1 .. m
                 PROVE  /\ kept[i] \in 1 .. n
                        /\ new[i].sequence_number = l[kept[i]].sequence_number
                        /\ Due(new, i) = Due(l, kept[i]) - passed
      BY <1>1 DEF Earlier, n
    <2> QED BY <1>1, <1>3, <1>5, <1>8
  <1>9. ASSUME s \in NumbersOf(l), OnceEach(l), NoneNegative(l), passed <= l[1].dtime
        PROVE  NoneNegative(new)
    <2> SUFFICES ASSUME NEW i \in 1 .. m PROVE new[i].dtime >= 0
      BY <1>1 DEF NoneNegative
    <2>1. \A k \in 1 .. n : \A j \in 1 .. k : Due(l, j) <= Due(l, k)
      <3>1. \A j \in 2 .. Len(l) : l[j].dtime >= 0
        BY <1>2, <1>9 DEF NoneNegative, n
      <3> QED BY <3>1, DueGrows DEF n
    <2>2. kept[i] \in 1 .. n /\ Due(l, kept[i]) \in Int
      BY <1>3, <1>4
    <2>3. CASE i = 1
      <3>1. 1 \in 1 .. n /\ 1 \in 1 .. kept[i]
        BY <1>2, <2>2
      <3>2. Due(l, 1) = l[1].dtime /\ Due(l, 1) \in Int
        <4>1. 1 - 1 = 0
          OBVIOUS
        <4>2. Due(l, 1) = Due(l, 1 - 1) + l[1].dtime /\ l[1].dtime \in Int
          BY <1>4, <3>1
        <4> QED BY <1>4, <3>1, <4>1, <4>2
      <3>3. Due(l, 1) <= Due(l, kept[i])
        BY <2>1, <2>2, <3>1
      <3>4. new[i].dtime = Due(l, kept[i]) - passed
        BY <1>1, <1>5, <1>9, <2>3
      <3> QED BY <1>9, <2>2, <3>2, <3>3, <3>4
    <2>4. CASE i # 1
      <3>1. i - 1 \in 1 .. m /\ i - 1 < i
        BY <1>3, <2>4
      <3>2. kept[i - 1] \in 1 .. n /\ kept[i - 1] < kept[i]
        BY <1>3, <3>1
      <3>3. kept[i - 1] \in 1 .. kept[i]
        BY <1>2, <2>2, <3>2
      <3>4. Due(l, kept[i - 1]) <= Due(l, kept[i]) /\ Due(l, kept[i - 1]) \in Int
        BY <1>4, <2>1, <2>2, <3>2, <3>3
      <3>5. new[i].dtime = Due(l, kept[i]) - Due(l, kept[i - 1])
        BY <1>1, <2>4
      <3> QED BY <2>2, <3>4, <3>5
    <2> QED BY <2>3, <2>4
  <1> QED BY <1>1, <1>6, <1>7, <1>8, <1>9 DEF new

-----------------------------------------------------------------------------
(***************************************************************************)
(* Types.                                                                  *)
(***************************************************************************)
Request == [type : {"insert", "cancel"}, sequence_number : Numbers, time : Nat]
Seconds == [left : Int, rounded : Nat, forgotten : Nat]

Types ==
  /\ TypeOK
  /\ toTimer \in Seq(Request)
  /\ toM2 \in Seq(Numbers)
  /\ real \in [Numbers -> Seconds]

LEMMA PassedFacts ==
  ASSUME real \in [Numbers -> Seconds],
         NEW w \in Nat, NEW r \in Nat, NEW f \in Nat, NEW s
  PROVE  /\ Passed(w, r, f, s) \in [Numbers -> Seconds]
         /\ \A n \in Running \ {s} : n \in Numbers =>
              /\ Passed(w, r, f, s)[n].left = real[n].left - w
              /\ Passed(w, r, f, s)[n].rounded = real[n].rounded + r
              /\ Passed(w, r, f, s)[n].forgotten = real[n].forgotten + f
  <1>1. \A n \in Numbers : /\ real[n].left \in Int /\ real[n].rounded \in Nat
                           /\ real[n].forgotten \in Nat
    BY DEF Seconds
  <1>2. ASSUME NEW n \in Numbers
        PROVE  [left |-> real[n].left - w, rounded |-> real[n].rounded + r,
                forgotten |-> real[n].forgotten + f] \in Seconds
    BY <1>1 DEF Seconds
  <1>3. Fresh(0) \in Seconds
    BY DEF Fresh, Seconds
  <1>4. Passed(w, r, f, s) \in [Numbers -> Seconds]
    BY <1>2, <1>3 DEF Passed
  <1>5. \A n \in Running \ {s} : n \in Numbers =>
          Passed(w, r, f, s)[n] = [left |-> real[n].left - w,
                                   rounded |-> real[n].rounded + r,
                                   forgotten |-> real[n].forgotten + f]
    BY DEF Passed
  <1> QED BY <1>4, <1>5

LEMMA RunningAre ==
  ASSUME list \in Seq(Entry)
  PROVE  Running = NumbersOf(list) /\ Running \subseteq Numbers
  <1>1. \A i \in DOMAIN list : list[i].sequence_number \in Numbers
    <2>1. \A i \in DOMAIN list : list[i] \in Entry
      OBVIOUS
    <2> QED BY <2>1 DEF Entry
  <1> QED BY <1>1 DEF Running, NumbersOf

LEMMA RoundingIs ==
  ASSUME Types, list # <<>>
  PROVE  /\ Rounding \in {0, 1} /\ Rounding \in Nat
         /\ Remaining \in Int /\ list[1].dtime \in Int
         /\ list[1].dtime - Remaining = waited + Rounding
         /\ waited <= list[1].dtime => Remaining >= 0
  <1>1. waited \in Nat /\ list[1].dtime \in Int
    <2>1. list[1] \in Entry
      BY DEF Types, TypeOK
    <2> QED BY <2>1 DEF Entry, Types, TypeOK
  <1> DEFINE d == list[1].dtime
  <1>2. Rounding = (IF waited = d THEN 0 ELSE 1) /\ Remaining = d - waited - Rounding
    BY DEF Rounding, Remaining
  <1>3. waited \in Nat /\ d \in Int
    BY <1>1
  <1> HIDE DEF d
  <1>4. Rounding \in {0, 1} /\ Rounding \in Nat /\ Remaining \in Int
    BY <1>2, <1>3
  <1>5. waited <= d => Remaining >= 0
    BY <1>2, <1>3
  <1>6. d - Remaining = waited + Rounding
    BY <1>2, <1>3, <1>4
  <1> QED BY <1>3, <1>4, <1>5, <1>6 DEF d

\* The list a new timer is inserted in: the head has run until now.
Current == IF list = <<>> THEN list ELSE [list EXCEPT ![1].dtime = Remaining]
Rounded == IF list # <<>> THEN Rounding ELSE 0

LEMMA CurrentFacts ==
  ASSUME Types
  PROVE  /\ Current \in Seq(Entry) /\ NumbersOf(Current) = Running
         /\ Rounded \in Nat
         /\ OnceEach(list) => OnceEach(Current)
         /\ NoneNegative(list) /\ (list # <<>> => waited <= list[1].dtime)
              => NoneNegative(Current)
         /\ \A s : Earlier(Current, list, s, waited + Rounded)
  <1>1. list \in Seq(Entry) /\ Running = NumbersOf(list) /\ waited \in Nat
    BY RunningAre DEF Types, TypeOK
  <1>2. CASE list = <<>>
    <2>1. Current = <<>> /\ Rounded = 0
      BY <1>2 DEF Current, Rounded
    <2>2. Len(Current) = 0
      BY <2>1
    <2>3. \A s : Earlier(Current, list, s, waited + Rounded)
      BY <2>2 DEF Earlier
    <2> QED BY <1>1, <1>2, <2>1, <2>3
  <1>3. CASE list # <<>>
    <2>1. /\ Rounded \in Nat /\ Remaining \in Int
          /\ list[1].dtime - Remaining = waited + Rounded
          /\ waited <= list[1].dtime => Remaining >= 0
      BY <1>3, RoundingIs DEF Rounded
    <2> DEFINE new == [list EXCEPT ![1].dtime = Remaining]
    <2>2. Current = new
      BY <1>3 DEF Current
    <2>3. /\ new \in Seq(Entry)
          /\ NumbersOf(new) = NumbersOf(list)
          /\ OnceEach(list) => OnceEach(new)
          /\ NoneNegative(list) /\ Remaining >= 0 => NoneNegative(new)
          /\ \A s : Earlier(new, list, s, list[1].dtime - Remaining)
      BY <1>1, <1>3, <2>1, HeadKeepsTimers
    <2> HIDE DEF new
    <2> QED BY <1>1, <1>3, <2>1, <2>2, <2>3
  <1> QED BY <1>2, <1>3

\* What Start does, with its local definitions expanded.
LEMMA StartIs ==
  ASSUME Types, Start
  PROVE  LET s == Head(toTimer).sequence_number
             time == Head(toTimer).time
         IN /\ toTimer # <<>> /\ Head(toTimer) \in Request
            /\ s \in Numbers /\ time \in Nat
            /\ Head(toTimer).type = "insert"
            /\ toTimer' = Tail(toTimer) /\ waited' = 0
            /\ list' = LinkedListInsetion(Current, s, time)
            /\ real' = [Passed(waited, Rounded, 0, s) EXCEPT ![s] = Fresh(time)]
            /\ UNCHANGED <<exited, toM2, requests, restarted>>
  <1>1. toTimer # <<>> /\ toTimer \in Seq(Request)
    BY DEF Types, Start, ReadRequest
  <1>2. Head(toTimer) \in Request
    BY <1>1
  <1>3. Head(toTimer).sequence_number \in Numbers /\ Head(toTimer).time \in Nat
    BY <1>2 DEF Request
  <1> QED BY <1>1, <1>2, <1>3 DEF Start, ReadRequest, Current, Rounded

LEMMA TypesInit == Init => Types
  <1> SUFFICES ASSUME Init PROVE Types
    OBVIOUS
  <1>1. [left |-> 0, rounded |-> 0, forgotten |-> 0] \in Seconds
    BY DEF Seconds
  <1>2. real \in [Numbers -> Seconds]
    BY <1>1 DEF Init
  <1>3. TypeOK
    <2>1. 0 \in 0 .. MaxRequests
      BY MaxRequestsAssumption
    <2>2. <<>> \in Seq(Entry)
      OBVIOUS
    <2> QED BY <2>1, <2>2 DEF Init, TypeOK
  <1>4. toTimer \in Seq(Request) /\ toM2 \in Seq(Numbers)
    BY DEF Init
  <1> QED BY <1>2, <1>3, <1>4 DEF Types

LEMMA TypesNext == Types /\ [Next]_vars => Types'
  <1> SUFFICES ASSUME Types, [Next]_vars PROVE Types'
    OBVIOUS
  <1>1. /\ list \in Seq(Entry) /\ waited \in Nat
        /\ exited \in BOOLEAN /\ restarted \in BOOLEAN
        /\ requests \in 0 .. MaxRequests
        /\ list = <<>> => waited = 0
        /\ toTimer \in Seq(Request) /\ toM2 \in Seq(Numbers)
        /\ real \in [Numbers -> Seconds]
    BY DEF Types, TypeOK
  <1>2. toTimer # <<>> => Tail(toTimer) \in Seq(Request) /\ Head(toTimer) \in Request
    BY <1>1
  <1>3. list # <<>> => list[1] \in Entry /\ list[1].sequence_number \in Numbers
                       /\ list[1].dtime \in Int
    <2>1. list # <<>> => list[1] \in Entry
      BY <1>1
    <2> QED BY <2>1 DEF Entry
  <1>4. CASE Start
    <2> DEFINE s == Head(toTimer).sequence_number
               time == Head(toTimer).time
               new == LinkedListInsetion(Current, s, time)
               passed == Passed(waited, Rounded, 0, s)
    <2>1. /\ s \in Numbers /\ time \in Nat
          /\ toTimer # <<>> /\ toTimer' = Tail(toTimer) /\ waited' = 0
          /\ list' = new
          /\ real' = [passed EXCEPT ![s] = Fresh(time)]
          /\ UNCHANGED <<exited, toM2, requests, restarted>>
      BY <1>4, StartIs
    <2>2. new \in Seq(Entry)
      <3>1. Current \in Seq(Entry)
        BY CurrentFacts
      <3> HIDE DEF s, time
      <3> QED BY <2>1, <3>1, InsertKeepsTimers
    <2>3. real' \in [Numbers -> Seconds]
      <3>1. Rounded \in Nat
        BY CurrentFacts
      <3>2. passed \in [Numbers -> Seconds]
        BY <1>1, <3>1, PassedFacts
      <3>3. Fresh(time) \in Seconds
        BY <2>1 DEF Fresh, Seconds
      <3> HIDE DEF passed
      <3> QED BY <2>1, <3>2, <3>3
    <2> HIDE DEF new
    <2> QED BY <1>1, <1>2, <2>1, <2>2, <2>3 DEF Types, TypeOK
  <1>5. CASE Cancel
    <2> DEFINE s == Head(toTimer).sequence_number
               passed == list[1].dtime - Remaining
               new == LinkedListDeleteSequenceNumber(list, s, passed)
    <2>1. /\ toTimer # <<>> /\ toTimer' = Tail(toTimer) /\ waited' = 0
          /\ list # <<>> /\ list' = new
          /\ real' = Passed(waited, Rounding, 0, s)
          /\ UNCHANGED <<exited, toM2, requests, restarted>>
      BY <1>5 DEF Cancel, ReadRequest
    <2>2. passed \in Int /\ Rounding \in Nat
      BY <1>3, <2>1, RoundingIs
    <2>3. real' \in [Numbers -> Seconds]
      BY <1>1, <2>1, <2>2, PassedFacts
    <2> HIDE DEF passed
    <2>4. new \in Seq(Entry)
      BY <1>1, <2>2, DeleteKeepsTimers
    <2> HIDE DEF new
    <2> QED BY <1>1, <1>2, <2>1, <2>3, <2>4 DEF Types, TypeOK
  <1>6. CASE CancelAbsent
    <2>1. /\ toTimer # <<>> /\ toTimer' = Tail(toTimer) /\ waited' = 0
          /\ real' = Passed(waited, 0, waited, Head(toTimer).sequence_number)
          /\ UNCHANGED <<list, exited, toM2, requests, restarted>>
      BY <1>6 DEF CancelAbsent, ReadRequest
    <2>2. real' \in [Numbers -> Seconds]
      BY <1>1, <2>1, PassedFacts
    <2> QED BY <1>1, <1>2, <2>1, <2>2 DEF Types, TypeOK
  <1>7. CASE WaitSecond
    <2>1. /\ list # <<>> /\ waited' = waited + 1
          /\ UNCHANGED <<list, exited, toTimer, toM2, requests, restarted, real>>
      BY <1>7 DEF WaitSecond, Asleep
    <2> QED BY <1>1, <2>1 DEF Types, TypeOK
  <1>8. CASE Timeout
    <2> DEFINE s == list[1].sequence_number
               new == LinkedListDeleteSequenceNumber(list, s, waited)
    <2>1. /\ list # <<>> /\ waited' = 0
          /\ toM2' = Append(toM2, s) /\ list' = new
          /\ real' = Passed(waited, 0, 0, s)
          /\ UNCHANGED <<exited, toTimer, requests, restarted>>
      BY <1>8 DEF Timeout, Asleep
    <2>2. real' \in [Numbers -> Seconds]
      BY <1>1, <2>1, PassedFacts
    <2>3. new \in Seq(Entry)
      <3>1. waited \in Int
        BY <1>1
      <3> HIDE DEF s
      <3> QED BY <1>1, <3>1, DeleteKeepsTimers
    <2>4. toM2' \in Seq(Numbers)
      BY <1>1, <1>3, <2>1
    <2> HIDE DEF new, s
    <2> QED BY <1>1, <2>1, <2>2, <2>3, <2>4 DEF Types, TypeOK
  <1>9. CASE SelectFails
    BY <1>1, <1>9 DEF SelectFails, Types, TypeOK
  <1>10. ASSUME NEW s \in Numbers, NEW time \in Times, AskInsert(s, time)
         PROVE  Types'
    <2> DEFINE m == [type |-> "insert", sequence_number |-> s, time |-> time]
    <2>1. m \in Request
      BY TimesAssumption DEF Request
    <2>2. toTimer' \in Seq(Request)
      BY <1>1, <1>10, <2>1 DEF AskInsert
    <2>3. requests' \in 0 .. MaxRequests /\ restarted' \in BOOLEAN
      BY <1>1, <1>10, MaxRequestsAssumption DEF AskInsert
    <2>4. UNCHANGED <<list, waited, exited, toM2, real>>
      BY <1>10 DEF AskInsert
    <2> QED BY <1>1, <2>2, <2>3, <2>4 DEF Types, TypeOK
  <1>11. ASSUME NEW s \in Numbers, AskCancel(s)
         PROVE  Types'
    <2> DEFINE m == [type |-> "cancel", sequence_number |-> s, time |-> 0]
    <2>1. m \in Request
      BY DEF Request
    <2>2. toTimer' \in Seq(Request)
      BY <1>1, <1>11, <2>1 DEF AskCancel
    <2>3. requests' \in 0 .. MaxRequests
      BY <1>1, <1>11, MaxRequestsAssumption DEF AskCancel
    <2>4. UNCHANGED <<list, waited, exited, toM2, restarted, real>>
      BY <1>11 DEF AskCancel
    <2> QED BY <1>1, <2>2, <2>3, <2>4 DEF Types, TypeOK
  <1>12. CASE TakeExpiry
    <2>1. toM2' \in Seq(Numbers)
      BY <1>1, <1>12 DEF TakeExpiry
    <2> QED BY <1>1, <1>12, <2>1 DEF TakeExpiry, Types, TypeOK
  <1>13. CASE UNCHANGED vars
    BY <1>13 DEF vars, Types, TypeOK
  <1> QED BY <1>4, <1>5, <1>6, <1>7, <1>8, <1>9, <1>10, <1>11, <1>12, <1>13
        DEF Next, Step, Client

LEMMA TypesHold == Spec => []Types
  BY TypesInit, TypesNext, PTL DEF Spec

\* The list, the wait and the queues keep to their types, and a process
\* without timers has waited for none.
THEOREM TypeCorrect == Spec => []TypeOK
  <1>1. Types => TypeOK
    BY DEF Types
  <1> QED BY <1>1, TypesHold, PTL

-----------------------------------------------------------------------------
(***************************************************************************)
(* The inductive invariant.                                                *)
(***************************************************************************)
Exact(l, r) ==
  \A i \in 1 .. Len(l) :
    Due(l, i) = r[l[i].sequence_number].left - r[l[i].sequence_number].rounded
                  + r[l[i].sequence_number].forgotten

\* A request under way to start a timer is the only one for its number, which
\* has none.
InsertsAreNew ==
  \A i \in 1 .. Len(toTimer) : toTimer[i].type = "insert" =>
    /\ toTimer[i].sequence_number \notin Running
    /\ \A j \in 1 .. Len(toTimer) :
         /\ toTimer[j].type = "insert"
         /\ toTimer[j].sequence_number = toTimer[i].sequence_number
         => j = i

Accounts ==
  ~restarted =>
    /\ ~exited
    /\ OnceEach(list) /\ NoneNegative(list)
    /\ list # <<>> => waited <= list[1].dtime
    /\ Exact(list, real)
    /\ InsertsAreNew

IInv == Types /\ Accounts

\* The entries that are left when a wait is over stay exact.
LEMMA ExactAfter ==
  ASSUME Types, Exact(list, real),
         NEW new \in Seq(Entry), NEW s, NEW r \in Nat,
         Earlier(new, list, s, waited + r)
  PROVE  LET passed == Passed(waited, r, 0, s)
         IN \A i \in 1 .. Len(new) : new[i].sequence_number # s =>
              Due(new, i) = passed[new[i].sequence_number].left
                              - passed[new[i].sequence_number].rounded
                              + passed[new[i].sequence_number].forgotten
  <1> DEFINE passed == Passed(waited, r, 0, s)
  <1>1. /\ list \in Seq(Entry) /\ waited \in Nat /\ real \in [Numbers -> Seconds]
        /\ DOMAIN list = 1 .. Len(list)
    BY DEF Types, TypeOK
  <1>2. \A n \in Running \ {s} : n \in Numbers =>
          /\ passed[n].left = real[n].left - waited
          /\ passed[n].rounded = real[n].rounded + r
          /\ passed[n].forgotten = real[n].forgotten + 0
    BY <1>1, PassedFacts
  <1> HIDE DEF passed
  <1> SUFFICES ASSUME NEW i \in 1 .. Len(new), new[i].sequence_number # s
               PROVE  Due(new, i) = passed[new[i].sequence_number].left
                                      - passed[new[i].sequence_number].rounded
                                      + passed[new[i].sequence_number].forgotten
    BY DEF passed
  <1> DEFINE n == new[i].sequence_number
  <1>3. PICK j \in 1 .. Len(list) :
          n = list[j].sequence_number /\ Due(new, i) = Due(list, j) - (waited + r)
    BY DEF Earlier
  <1>4. Due(list, j) = real[n].left - real[n].rounded + real[n].forgotten
    BY <1>3 DEF Exact
  <1>5. n \in Running /\ n \in Numbers
    BY <1>1, <1>3, RunningAre DEF NumbersOf
  <1>6. /\ real[n].left \in Int /\ real[n].rounded \in Nat /\ real[n].forgotten \in Nat
    BY <1>1, <1>5 DEF Seconds
  <1>7. /\ passed[n].left = real[n].left - waited
        /\ passed[n].rounded = real[n].rounded + r
        /\ passed[n].forgotten = real[n].forgotten + 0
    BY <1>2, <1>5
  <1> HIDE DEF n
  <1>8. Due(new, i) = passed[n].left - passed[n].rounded + passed[n].forgotten
    <2> DEFINE a == real[n].left
               b == real[n].rounded
               c == real[n].forgotten
    <2>1. a \in Int /\ b \in Nat /\ c \in Nat /\ waited \in Nat
      BY <1>1, <1>6
    <2>5. Due(list, j) = a - b + c
      BY <1>4
    <2>3. /\ passed[n].left = a - waited
          /\ passed[n].rounded = b + r
          /\ passed[n].forgotten = c + 0
      BY <1>7
    <2> HIDE DEF a, b, c
    <2>2. Due(new, i) = a - b + c - (waited + r)
      <3>1. Due(list, j) \in Int /\ Due(new, i) = Due(list, j) - (waited + r)
        <4>1. j \in 0 .. Len(list)
          OBVIOUS
        <4> QED BY <1>1, <1>3, <4>1, DueFacts
      <3> QED BY <2>1, <2>5, <3>1
    <2>4. a - b + c - (waited + r) = (a - waited) - (b + r) + (c + 0)
      BY <2>1
    <2> QED BY <2>2, <2>3, <2>4
  <1> QED BY <1>8 DEF n

\* Taking the first request leaves the others new.
LEMMA QueueShrinks ==
  ASSUME Types, InsertsAreNew, toTimer # <<>>, toTimer' = Tail(toTimer),
         Running' \subseteq Running \union {Head(toTimer).sequence_number},
         Head(toTimer).type # "insert" => Running' \subseteq Running
  PROVE  InsertsAreNew'
  <1> DEFINE n == Len(toTimer)
             q == toTimer'
  <1>1. /\ n \in Nat /\ n >= 1 /\ Len(q) = n - 1
        /\ \A i \in 1 .. n - 1 : q[i] = toTimer[i + 1]
        /\ Head(toTimer) = toTimer[1]
    <2>1. toTimer \in Seq(Request)
      BY DEF Types
    <2> QED BY <2>1
  <1>2. \A i \in 1 .. n - 1 : i + 1 \in 1 .. n /\ i + 1 # 1
    BY <1>1
  <1>3. 1 \in 1 .. n
    BY <1>1
  <1>4. \A i \in 1 .. n : toTimer[i].type = "insert" =>
          /\ toTimer[i].sequence_number \notin Running
          /\ \A j \in 1 .. n :
               /\ toTimer[j].type = "insert"
               /\ toTimer[j].sequence_number = toTimer[i].sequence_number
               => j = i
    BY DEF InsertsAreNew
  <1> HIDE DEF n, q
  <1>5. ASSUME NEW i \in 1 .. n - 1, q[i].type = "insert"
        PROVE  q[i].sequence_number \notin Running'
    <2>1. /\ q[i] = toTimer[i + 1] /\ i + 1 \in 1 .. n /\ i + 1 # 1
      BY <1>1, <1>2
    <2>2. q[i].sequence_number \notin Running
      BY <1>4, <1>5, <2>1
    <2>3. CASE Head(toTimer).type = "insert"
      <3>1. q[i].sequence_number # toTimer[1].sequence_number
        BY <1>1, <1>3, <1>4, <1>5, <2>1, <2>3
      <3> QED BY <1>1, <2>2, <3>1
    <2> QED BY <2>2, <2>3
  <1>6. ASSUME NEW i \in 1 .. n - 1, NEW j \in 1 .. n - 1,
               q[i].type = "insert", q[j].type = "insert",
               q[i].sequence_number = q[j].sequence_number
        PROVE  j = i
    <2>1. q[i] = toTimer[i + 1] /\ q[j] = toTimer[j + 1]
      BY <1>1
    <2>2. j + 1 = i + 1
      BY <1>2, <1>4, <1>6, <2>1
    <2> QED BY <1>1, <2>2
  <1> QED BY <1>1, <1>5, <1>6 DEF InsertsAreNew, q

LEMMA AccountsInit == Init => Accounts
  <1> SUFFICES ASSUME Init PROVE Accounts
    OBVIOUS
  <1>1. Len(list) = 0 /\ Len(toTimer) = 0 /\ list = <<>> /\ exited = FALSE
    BY DEF Init
  <1> QED BY <1>1 DEF Accounts, OnceEach, NoneNegative, Exact, InsertsAreNew

LEMMA AccountsNext == IInv /\ [Next]_vars => Accounts'
  <1> SUFFICES ASSUME IInv, [Next]_vars, ~restarted' PROVE Accounts'
    BY DEF Accounts
  <1>1. /\ list \in Seq(Entry) /\ waited \in Nat
        /\ list = <<>> => waited = 0
        /\ toTimer \in Seq(Request)
        /\ real \in [Numbers -> Seconds]
        /\ Running = NumbersOf(list) /\ Types
    BY RunningAre DEF IInv, Types, TypeOK
  <1>2. ~restarted
    BY DEF Next, Step, Client, Start, Cancel, CancelAbsent, WaitSecond, Timeout,
           SelectFails, AskInsert, AskCancel, TakeExpiry, vars
  <1>3. /\ ~exited
        /\ OnceEach(list) /\ NoneNegative(list)
        /\ list # <<>> => waited <= list[1].dtime
        /\ Exact(list, real)
        /\ InsertsAreNew
    BY <1>2 DEF IInv, Accounts
  <1>4. list # <<>> => list[1].dtime \in Int /\ list[1].dtime >= 0
                       /\ 1 \in DOMAIN list /\ list[1].sequence_number \in Running
    <2>1. list # <<>> => list[1] \in Entry /\ 1 \in DOMAIN list /\ 1 \in 1 .. Len(list)
      BY <1>1
    <2> QED BY <1>3, <2>1 DEF Entry, NoneNegative, Running
  <1>5. Running' = NumbersOf(list')
    BY DEF Running, NumbersOf
  <1>6. CASE Start
    <2> DEFINE s == Head(toTimer).sequence_number
               time == Head(toTimer).time
               new == LinkedListInsetion(Current, s, time)
               passed == Passed(waited, Rounded, 0, s)
    <2>1. /\ s \in Numbers /\ time \in Nat /\ Head(toTimer).type = "insert"
          /\ toTimer # <<>> /\ toTimer' = Tail(toTimer) /\ waited' = 0
          /\ list' = new
          /\ real' = [passed EXCEPT ![s] = Fresh(time)]
          /\ UNCHANGED <<exited, toM2, requests, restarted>>
      BY <1>1, <1>6, StartIs
    <2>2. s \notin Running
      <3>1. 1 \in 1 .. Len(toTimer) /\ Head(toTimer) = toTimer[1]
        BY <1>1, <2>1
      <3> QED BY <1>3, <2>1, <3>1 DEF InsertsAreNew
    <2>3. /\ Current \in Seq(Entry) /\ NumbersOf(Current) = Running /\ Rounded \in Nat
          /\ OnceEach(Current) /\ NoneNegative(Current)
          /\ Earlier(Current, list, s, waited + Rounded)
      BY <1>1, <1>3, CurrentFacts
    <2> HIDE DEF s, time
    <2>4. /\ new \in Seq(Entry) /\ new # <<>>
          /\ NumbersOf(new) = Running \union {s}
          /\ NoneNegative(new) /\ OnceEach(new)
          /\ Earlier(new, Current, s, 0)
          /\ \A i \in 1 .. Len(new) : new[i].sequence_number = s => Due(new, i) = time
      BY <2>1, <2>2, <2>3, InsertKeepsTimers
    <2> HIDE DEF new
    <2>5. Earlier(new, list, s, waited + Rounded)
      <3> SUFFICES ASSUME NEW i \in 1 .. Len(new), new[i].sequence_number # s
                   PROVE  \E k \in 1 .. Len(list) :
                            /\ new[i].sequence_number = list[k].sequence_number
                            /\ Due(new, i) = Due(list, k) - (waited + Rounded)
        BY DEF Earlier
      <3>1. PICK j \in 1 .. Len(Current) :
              /\ new[i].sequence_number = Current[j].sequence_number
              /\ Due(new, i) = Due(Current, j) - 0
        BY <2>4 DEF Earlier
      <3>2. PICK k \in 1 .. Len(list) :
              /\ Current[j].sequence_number = list[k].sequence_number
              /\ Due(Current, j) = Due(list, k) - (waited + Rounded)
        BY <2>3, <3>1 DEF Earlier
      <3>3. Due(list, k) \in Int
        <4>1. k \in 0 .. Len(list)
          OBVIOUS
        <4> QED BY <1>1, <4>1, DueFacts
      <3> QED BY <1>1, <2>3, <3>1, <3>2, <3>3
    <2>6. \A i \in 1 .. Len(new) : new[i].sequence_number # s =>
            Due(new, i) = passed[new[i].sequence_number].left
                            - passed[new[i].sequence_number].rounded
                            + passed[new[i].sequence_number].forgotten
      BY <1>1, <1>3, <2>3, <2>4, <2>5, ExactAfter
    <2>7. passed \in [Numbers -> Seconds]
      BY <1>1, <2>3, PassedFacts
    <2> HIDE DEF passed
    <2>8. Exact(list', real')
      <3> SUFFICES ASSUME NEW i \in 1 .. Len(new)
                   PROVE  LET r == [passed EXCEPT ![s] = Fresh(time)]
                              n == new[i].sequence_number
                          IN Due(new, i) = r[n].left - r[n].rounded + r[n].forgotten
        BY <2>1 DEF Exact
      <3> DEFINE r == [passed EXCEPT ![s] = Fresh(time)]
                 n == new[i].sequence_number
      <3>1. CASE n = s
        <4>1. r[n] = Fresh(time) /\ Due(new, i) = time
          BY <2>1, <2>4, <2>7, <3>1
        <4> QED BY <2>1, <4>1 DEF Fresh
      <3>2. CASE n # s
        <4>1. r[n] = passed[n]
          <5>1. n \in Numbers
            <6>1. new[i] \in Entry
              BY <2>4
            <6> QED BY <6>1 DEF Entry
          <5> QED BY <2>7, <3>2, <5>1
        <4> QED BY <2>6, <3>2, <4>1
      <3> QED BY <3>1, <3>2
    <2>9. InsertsAreNew'
      <3>1. Running' = Running \union {s}
        BY <1>5, <2>1, <2>4
      <3> QED BY <1>1, <1>3, <2>1, <3>1, QueueShrinks DEF s
    <2>10. list' # <<>> => waited' <= list'[1].dtime
      <3>1. 1 \in 1 .. Len(new)
        BY <2>4
      <3> QED BY <2>1, <2>4, <3>1 DEF NoneNegative
    <2> QED BY <1>3, <2>1, <2>4, <2>8, <2>9, <2>10 DEF Accounts
  <1>7. CASE Cancel
    <2> DEFINE s == Head(toTimer).sequence_number
               passed == list[1].dtime - Remaining
               new == LinkedListDeleteSequenceNumber(list, s, passed)
    <2>1. /\ toTimer # <<>> /\ Head(toTimer).type = "cancel"
          /\ toTimer' = Tail(toTimer) /\ waited' = 0
          /\ list # <<>> /\ s \in Running /\ list' = new
          /\ real' = Passed(waited, Rounding, 0, s)
          /\ UNCHANGED <<exited, toM2, requests, restarted>>
      BY <1>7 DEF Cancel, ReadRequest
    <2>2. /\ passed = waited + Rounding /\ Rounding \in Nat /\ passed \in Int
          /\ passed <= list[1].dtime
      <3>1. /\ Rounding \in Nat /\ Remaining \in Int /\ list[1].dtime \in Int
            /\ passed = waited + Rounding /\ Remaining >= 0
        BY <1>1, <1>3, <2>1, RoundingIs
      <3> QED BY <3>1
    <2> HIDE DEF passed, s
    <2>3. /\ new \in Seq(Entry) /\ NumbersOf(new) = Running \ {s}
          /\ OnceEach(new) /\ NoneNegative(new) /\ Earlier(new, list, s, passed)
      BY <1>1, <1>3, <2>1, <2>2, DeleteKeepsTimers
    <2> HIDE DEF new
    <2>4. \A i \in 1 .. Len(new) : new[i].sequence_number # s =>
            Due(new, i) = real'[new[i].sequence_number].left
                            - real'[new[i].sequence_number].rounded
                            + real'[new[i].sequence_number].forgotten
      BY <1>1, <1>3, <2>1, <2>2, <2>3, ExactAfter
    <2>5. Exact(list', real')
      <3>1. \A i \in 1 .. Len(new) : new[i].sequence_number # s
        <4>1. DOMAIN new = 1 .. Len(new)
          BY <2>3
        <4> QED BY <2>3, <4>1 DEF NumbersOf
      <3> QED BY <2>1, <2>4, <3>1 DEF Exact
    <2>6. InsertsAreNew'
      <3>1. Running' = Running \ {s}
        BY <1>5, <2>1, <2>3
      <3> QED BY <1>1, <1>3, <2>1, <3>1, QueueShrinks
    <2>7. list' # <<>> => waited' <= list'[1].dtime
      <3>1. new # <<>> => 1 \in 1 .. Len(new)
        BY <2>3
      <3> QED BY <2>1, <2>3, <3>1 DEF NoneNegative
    <2> QED BY <1>3, <2>1, <2>3, <2>5, <2>6, <2>7 DEF Accounts
  <1>8. CASE CancelAbsent
    <2> DEFINE s == Head(toTimer).sequence_number
               passed == Passed(waited, 0, waited, s)
    <2>1. /\ toTimer # <<>> /\ toTimer' = Tail(toTimer) /\ waited' = 0
          /\ s \notin Running /\ real' = passed
          /\ UNCHANGED <<list, exited, toM2, requests, restarted>>
      BY <1>8 DEF CancelAbsent, ReadRequest
    <2>2. \A n \in Running \ {s} : n \in Numbers =>
            /\ passed[n].left = real[n].left - waited
            /\ passed[n].rounded = real[n].rounded + 0
            /\ passed[n].forgotten = real[n].forgotten + waited
      BY <1>1, PassedFacts
    <2> HIDE DEF passed, s
    <2>3. Exact(list', real')
      <3> SUFFICES ASSUME NEW i \in 1 .. Len(list)
                   PROVE  LET n == list[i].sequence_number
                          IN Due(list, i) = passed[n].left - passed[n].rounded
                                              + passed[n].forgotten
        BY <2>1 DEF Exact
      <3> DEFINE n == list[i].sequence_number
      <3>1. n \in Running /\ n \in Numbers
        BY <1>1, RunningAre DEF NumbersOf
      <3>2. real[n].left \in Int /\ real[n].rounded \in Nat /\ real[n].forgotten \in Nat
        BY <1>1, <3>1 DEF Seconds
      <3>3. Due(list, i) = real[n].left - real[n].rounded + real[n].forgotten
        BY <1>3 DEF Exact
      <3>4. /\ passed[n].left = real[n].left - waited
            /\ passed[n].rounded = real[n].rounded + 0
            /\ passed[n].forgotten = real[n].forgotten + waited
        BY <2>1, <2>2, <3>1
      <3> HIDE DEF n
      <3>5. Due(list, i) = passed[n].left - passed[n].rounded + passed[n].forgotten
        <4> DEFINE a == real[n].left
                   b == real[n].rounded
                   c == real[n].forgotten
        <4>1. a \in Int /\ b \in Nat /\ c \in Nat /\ waited \in Nat
          BY <1>1, <3>2
        <4>2. Due(list, i) = a - b + c
          BY <3>3 DEF n
        <4>3. /\ passed[n].left = a - waited
              /\ passed[n].rounded = b + 0
              /\ passed[n].forgotten = c + waited
          BY <3>4
        <4> HIDE DEF a, b, c
        <4>4. a - b + c = (a - waited) - (b + 0) + (c + waited)
          BY <4>1
        <4> QED BY <4>2, <4>3, <4>4
      <3> QED BY <3>5 DEF n
    <2>4. InsertsAreNew'
      <3>1. Running' = Running
        BY <1>1, <1>5, <2>1
      <3> QED BY <1>1, <1>3, <2>1, <3>1, QueueShrinks
    <2> QED BY <1>3, <1>4, <2>1, <2>3, <2>4 DEF Accounts
  <1>9. CASE WaitSecond
    <2>1. /\ list # <<>> /\ waited < list[1].dtime /\ waited' = waited + 1
          /\ UNCHANGED <<list, exited, toTimer, toM2, requests, restarted, real>>
      BY <1>9 DEF WaitSecond, Asleep
    <2>2. waited' <= list'[1].dtime
      BY <1>1, <1>4, <2>1
    <2>3. InsertsAreNew'
      BY <1>1, <1>3, <1>5, <2>1 DEF InsertsAreNew
    <2> QED BY <1>3, <2>1, <2>2, <2>3 DEF Accounts
  <1>10. CASE Timeout
    <2> DEFINE s == list[1].sequence_number
               new == LinkedListDeleteSequenceNumber(list, s, waited)
    <2>1. /\ list # <<>> /\ waited' = 0 /\ waited = list[1].dtime
          /\ list' = new
          /\ real' = Passed(waited, 0, 0, s)
          /\ UNCHANGED <<exited, toTimer, requests, restarted>>
      BY <1>10 DEF Timeout, Asleep
    <2>2. waited \in Int /\ waited <= list[1].dtime /\ s \in Running /\ waited + 0 = waited
      BY <1>1, <1>4, <2>1
    <2> HIDE DEF s
    <2>3. /\ new \in Seq(Entry) /\ NumbersOf(new) = Running \ {s}
          /\ OnceEach(new) /\ NoneNegative(new) /\ Earlier(new, list, s, waited + 0)
      BY <1>1, <1>3, <2>1, <2>2, DeleteKeepsTimers
    <2> HIDE DEF new
    <2>4. \A i \in 1 .. Len(new) : new[i].sequence_number # s =>
            Due(new, i) = real'[new[i].sequence_number].left
                            - real'[new[i].sequence_number].rounded
                            + real'[new[i].sequence_number].forgotten
      BY <1>1, <1>3, <2>1, <2>2, <2>3, ExactAfter
    <2>5. Exact(list', real')
      <3>1. \A i \in 1 .. Len(new) : new[i].sequence_number # s
        <4>1. DOMAIN new = 1 .. Len(new)
          BY <2>3
        <4> QED BY <2>3, <4>1 DEF NumbersOf
      <3> QED BY <2>1, <2>4, <3>1 DEF Exact
    <2>6. InsertsAreNew'
      <3>1. Running' = Running \ {s}
        BY <1>5, <2>1, <2>3
      <3> QED BY <1>3, <2>1, <3>1 DEF InsertsAreNew
    <2>7. list' # <<>> => waited' <= list'[1].dtime
      <3>1. new # <<>> => 1 \in 1 .. Len(new)
        BY <2>3
      <3> QED BY <2>1, <2>3, <3>1 DEF NoneNegative
    <2> QED BY <1>3, <2>1, <2>3, <2>5, <2>6, <2>7 DEF Accounts
  <1>11. CASE SelectFails
    BY <1>4, <1>11 DEF SelectFails
  <1>12. ASSUME NEW s \in Numbers, NEW time \in Times, AskInsert(s, time)
         PROVE  Accounts'
    <2> DEFINE m == [type |-> "insert", sequence_number |-> s, time |-> time]
               n == Len(toTimer)
    <2>1. /\ toTimer' = Append(toTimer, m)
          /\ s \notin Running /\ ~ Pending(s)
          /\ UNCHANGED <<list, waited, exited, toM2, real>>
      BY <1>12 DEF AskInsert
    <2>2. /\ n \in Nat /\ Len(toTimer') = n + 1 /\ DOMAIN toTimer = 1 .. n
          /\ \A i \in 1 .. n : toTimer'[i] = toTimer[i]
          /\ toTimer'[n + 1] = m
      BY <1>1, <2>1
    <2>3. Running' = Running
      BY <1>1, <1>5, <2>1
    <2>4. m.sequence_number = s
      OBVIOUS
    <2>5. \A i \in 1 .. n : toTimer[i].type = "insert" => toTimer[i].sequence_number # s
      BY <2>1, <2>2 DEF Pending
    <2>6. \A i \in 1 .. n + 1 : i \in 1 .. n \/ i = n + 1
      BY <2>2
    <2> HIDE DEF m, n
    <2>7. \A i \in 1 .. n + 1 : toTimer'[i].type = "insert" =>
            /\ toTimer'[i].sequence_number \notin Running
            /\ \A j \in 1 .. n + 1 :
                 /\ toTimer'[j].type = "insert"
                 /\ toTimer'[j].sequence_number = toTimer'[i].sequence_number
                 => j = i
      BY <1>3, <2>1, <2>2, <2>4, <2>5, <2>6 DEF InsertsAreNew, n
    <2>8. InsertsAreNew'
      BY <2>2, <2>3, <2>7 DEF InsertsAreNew
    <2> QED BY <1>3, <2>1, <2>8 DEF Accounts
  <1>13. ASSUME NEW s \in Numbers, AskCancel(s)
         PROVE  Accounts'
    <2> DEFINE m == [type |-> "cancel", sequence_number |-> s, time |-> 0]
               n == Len(toTimer)
    <2>1. /\ toTimer' = Append(toTimer, m)
          /\ UNCHANGED <<list, waited, exited, toM2, real>>
      BY <1>13 DEF AskCancel
    <2>2. /\ n \in Nat /\ Len(toTimer') = n + 1
          /\ \A i \in 1 .. n : toTimer'[i] = toTimer[i]
          /\ toTimer'[n + 1] = m
      BY <1>1, <2>1
    <2>3. Running' = Running
      BY <1>1, <1>5, <2>1
    <2>4. m.type # "insert"
      OBVIOUS
    <2>5. \A i \in 1 .. n + 1 : i \in 1 .. n \/ i = n + 1
      BY <2>2
    <2> HIDE DEF m
    <2>6. InsertsAreNew'
      BY <1>3, <2>2, <2>3, <2>4, <2>5 DEF InsertsAreNew
    <2> QED BY <1>3, <2>1, <2>6 DEF Accounts
  <1>14. CASE TakeExpiry
    <2>1. UNCHANGED <<list, waited, exited, toTimer, requests, restarted, real>>
      BY <1>14 DEF TakeExpiry
    <2>2. InsertsAreNew'
      BY <1>1, <1>3, <1>5, <2>1 DEF InsertsAreNew
    <2> QED BY <1>3, <2>1, <2>2 DEF Accounts
  <1>15. CASE UNCHANGED vars
    <2>1. UNCHANGED <<list, waited, exited, toTimer, requests, restarted, real>>
      BY <1>15 DEF vars
    <2>2. InsertsAreNew'
      BY <1>1, <1>3, <1>5, <2>1 DEF InsertsAreNew
    <2> QED BY <1>3, <2>1, <2>2 DEF Accounts
  <1> QED BY <1>6, <1>7, <1>8, <1>9, <1>10, <1>11, <1>12, <1>13, <1>14, <1>15
        DEF Next, Step, Client

LEMMA Invariance == Spec => []IInv
  <1>1. Init => IInv
    BY TypesInit, AccountsInit DEF IInv
  <1>2. IInv /\ [Next]_vars => IInv'
    BY TypesNext, AccountsNext DEF IInv
  <1> QED BY <1>1, <1>2, PTL DEF Spec

-----------------------------------------------------------------------------
(***************************************************************************)
(* The properties.                                                         *)
(***************************************************************************)
\* While no number has two timers, select() is never handed a negative time.
THEOREM TimesAreValid == Spec => []SelectNeverFails
  <1>1. IInv => SelectNeverFails
    <2> SUFFICES ASSUME IInv, ~restarted
                 PROVE  /\ ~exited
                        /\ \A i \in DOMAIN list : list[i].dtime >= 0
                        /\ list # <<>> => waited <= list[1].dtime
      BY DEF SelectNeverFails
    <2>1. DOMAIN list = 1 .. Len(list)
      BY DEF IInv, Types, TypeOK
    <2> QED BY <2>1 DEF IInv, Accounts, NoneNegative
  <1> QED BY <1>1, Invariance, PTL

\* The time until each timer is due is what was asked for less what it ran,
\* but for the roundings and what absent cancels forgot.
THEOREM BookkeepingIsExact == Spec => []DueIsExact
  <1>1. IInv => DueIsExact
    <2> SUFFICES ASSUME IInv, ~restarted, NEW i \in DOMAIN list
                 PROVE  LET r == real[list[i].sequence_number]
                        IN Due(list, i) = r.left - r.rounded + r.forgotten
      BY DEF DueIsExact
    <2>1. i \in 1 .. Len(list)
      BY DEF IInv, Types, TypeOK
    <2> QED BY <2>1 DEF IInv, Accounts, Exact
  <1> QED BY <1>1, Invariance, PTL

\* A timer that no absent cancel postponed is never overdue.
THEOREM NeverOverdue == Spec => []OverdueOnlyIfForgotten
  <1>1. IInv => OverdueOnlyIfForgotten
    <2> SUFFICES ASSUME IInv, ~restarted, NEW s \in Running, real[s].forgotten = 0
                 PROVE  waited <= real[s].left
      BY DEF OverdueOnlyIfForgotten
    <2>1. /\ list \in Seq(Entry) /\ waited \in Nat /\ real \in [Numbers -> Seconds]
          /\ Running = NumbersOf(list) /\ s \in Numbers
          /\ NoneNegative(list) /\ Exact(list, real)
          /\ list # <<>> => waited <= list[1].dtime
      BY RunningAre DEF IInv, Types, TypeOK, Accounts
    <2>2. PICK i \in 1 .. Len(list) : s = list[i].sequence_number
      BY <2>1 DEF NumbersOf
    <2>3. /\ list # <<>> /\ Len(list) \in Nat
          /\ 1 \in 1 .. i /\ 1 \in 1 .. Len(list) /\ 1 - 1 = 0
      BY <2>1, <2>2
    <2>4. /\ Due(list, 0) = 0
          /\ Due(list, 1) = Due(list, 1 - 1) + list[1].dtime
          /\ list[1].dtime \in Int
      BY <2>1, <2>3, DueFacts
    <2>5. Due(list, 1) <= Due(list, i)
      <3>1. \A j \in 2 .. Len(list) : list[j].dtime >= 0
        BY <2>1 DEF NoneNegative
      <3> QED BY <2>1, <2>2, <2>3, <3>1, DueGrows
    <2>6. real[s].left \in Int /\ real[s].rounded \in Nat
      BY <2>1 DEF Seconds
    <2>7. Due(list, i) = real[s].left - real[s].rounded + real[s].forgotten
      BY <2>1, <2>2 DEF Exact
    <2> QED BY <2>1, <2>3, <2>4, <2>5, <2>6, <2>7
  <1> QED BY <1>1, Invariance, PTL

-----------------------------------------------------------------------------
(***************************************************************************)
(* The delta list implements the timer service.                            *)
(***************************************************************************)
LEMMA UntimedTail ==
  ASSUME NEW q \in Seq(Request), q # <<>>
  PROVE  /\ Untimed(q) # <<>>
         /\ Untimed(Tail(q)) = Tail(Untimed(q))
         /\ Head(Untimed(q)).type = Head(q).type
         /\ Head(Untimed(q)).sequence_number = Head(q).sequence_number
  <1> DEFINE u == Untimed(q)
             n == Len(q)
             of(m) == [type |-> m.type, sequence_number |-> m.sequence_number]
  <1>1. n \in Nat /\ n >= 1 /\ DOMAIN q = 1 .. n /\ Head(q) = q[1]
    OBVIOUS
  <1>2. u = [i \in 1 .. n |-> of(q[i])]
    BY <1>1 DEF Untimed
  <1>3. /\ Tail(q) \in Seq(Request) /\ DOMAIN Tail(q) = 1 .. n - 1
        /\ \A i \in 1 .. n - 1 : Tail(q)[i] = q[i + 1]
    BY <1>1
  <1> HIDE DEF n, of, u
  <1>4. u \in Seq({of(q[i]) : i \in 1 .. n}) /\ Len(u) = n /\ u[1] = of(q[1])
    <2> DEFINE S == {of(q[i]) : i \in 1 .. n}
    <2>1. u \in [1 .. n -> S]
      BY <1>2
    <2> HIDE DEF S
    <2>2. u \in Seq(S) /\ Len(u) = n
      BY <1>1, <2>1
    <2> QED BY <1>1, <1>2, <2>2 DEF S
  <1>5. u # <<>> /\ Head(u) = u[1]
    BY <1>1, <1>4
  <1>6. Tail(u) = [i \in 1 .. n - 1 |-> of(q[i + 1])]
    <2> DEFINE S == {of(q[i]) : i \in 1 .. n}
               v == Tail(u)
    <2>3. u \in Seq(S) /\ Len(u) = n /\ u # <<>>
      BY <1>4, <1>5
    <2> HIDE DEF S
    <2>4. v \in Seq(S) /\ Len(v) = n - 1 /\ \A i \in 1 .. n - 1 : v[i] = u[i + 1]
      BY <1>1, <2>3
    <2> HIDE DEF v
    <2>5. v = [i \in 1 .. n - 1 |-> v[i]]
      BY <1>1, <2>4
    <2>1. Tail(u) = [i \in 1 .. n - 1 |-> u[i + 1]]
      BY <2>4, <2>5 DEF v
    <2>2. \A i \in 1 .. n - 1 : u[i + 1] = of(q[i + 1])
      BY <1>1, <1>2
    <2> QED BY <2>1, <2>2
  <1>7. Untimed(Tail(q)) = [i \in 1 .. n - 1 |-> of(q[i + 1])]
    <2>1. Untimed(Tail(q)) = [i \in 1 .. n - 1 |-> of(Tail(q)[i])]
      BY <1>3 DEF Untimed, of
    <2> QED BY <1>3, <2>1
  <1>8. of(q[1]).type = q[1].type /\ of(q[1]).sequence_number = q[1].sequence_number
    BY DEF of
  <1> QED BY <1>1, <1>4, <1>5, <1>6, <1>7, <1>8 DEF u

LEMMA UntimedAppend ==
  ASSUME NEW q \in Seq(Request), NEW m \in Request
  PROVE  Untimed(Append(q, m))
           = Append(Untimed(q), [type |-> m.type, sequence_number |-> m.sequence_number])
  <1> DEFINE u == Untimed(q)
             n == Len(q)
             of(x) == [type |-> x.type, sequence_number |-> x.sequence_number]
             S == {of(q[i]) : i \in 1 .. n}
  <1>1. n \in Nat /\ DOMAIN q = 1 .. n
    OBVIOUS
  <1>2. u = [i \in 1 .. n |-> of(q[i])]
    BY <1>1 DEF Untimed
  <1>3. /\ DOMAIN Append(q, m) = 1 .. n + 1
        /\ \A i \in 1 .. n + 1 : Append(q, m)[i] = IF i = n + 1 THEN m ELSE q[i]
    BY <1>1
  <1> HIDE DEF n, of, u
  <1>4. /\ u \in Seq(S \union {of(m)}) /\ Len(u) = n
        /\ of(m) \in S \union {of(m)}
    <2>1. u \in [1 .. n -> S]
      BY <1>2
    <2> HIDE DEF S
    <2> QED BY <1>1, <2>1
  <1>5. Append(u, of(m)) = [i \in 1 .. n + 1 |-> IF i = n + 1 THEN of(m) ELSE of(q[i])]
    <2> DEFINE R == S \union {of(m)}
               e == of(m)
               v == Append(u, e)
    <2>3. u \in Seq(R) /\ Len(u) = n /\ e \in R
      BY <1>4
    <2> HIDE DEF R, e
    <2>4. /\ v \in Seq(R) /\ Len(v) = n + 1
          /\ \A i \in 1 .. n + 1 : v[i] = IF i = n + 1 THEN e ELSE u[i]
      BY <1>1, <2>3
    <2> HIDE DEF v
    <2>5. v = [i \in 1 .. n + 1 |-> v[i]]
      BY <1>1, <2>4
    <2>1. Append(u, of(m)) = [i \in 1 .. n + 1 |-> IF i = n + 1 THEN of(m) ELSE u[i]]
      BY <2>4, <2>5 DEF v, e
    <2>2. \A i \in 1 .. n + 1 : i # n + 1 => u[i] = of(q[i])
      BY <1>1, <1>2
    <2> QED BY <2>1, <2>2
  <1>6. Untimed(Append(q, m)) = [i \in 1 .. n + 1 |-> of(Append(q, m)[i])]
    BY <1>3 DEF Untimed, of
  <1>7. Untimed(Append(q, m)) = [i \in 1 .. n + 1 |-> IF i = n + 1 THEN of(m) ELSE of(q[i])]
    BY <1>3, <1>6
  <1> QED BY <1>5, <1>7 DEF of, u

\* Whatever the client asks for, repeated timers and failures of select()
\* included, the process does what the timer service says: requests in order,
\* an expiry only for a running timer, and no other timer lost with it.
THEOREM Implementation == Spec => ImplementsService
  <1>1. Init => Service!Init
    <2> SUFFICES ASSUME Init PROVE Service!Init
      OBVIOUS
    <2>1. DOMAIN toTimer = {} /\ DOMAIN list = {} /\ toM2 = <<>>
      BY DEF Init
    <2>2. Untimed(toTimer) = <<>>
      BY <2>1 DEF Untimed
    <2>3. Running = {}
      BY <2>1 DEF Running
    <2> QED BY <2>1, <2>2, <2>3 DEF Service!Init
  <1>2. Types /\ [Next]_vars => [Service!Next]_<<Untimed(toTimer), Running, toM2>>
    <2> SUFFICES ASSUME Types, [Next]_vars
                 PROVE  Service!Next \/ UNCHANGED <<Untimed(toTimer), Running, toM2>>
      OBVIOUS
    <2>1. /\ list \in Seq(Entry) /\ waited \in Nat
          /\ toTimer \in Seq(Request)
          /\ Running = NumbersOf(list)
      BY RunningAre DEF Types, TypeOK
    <2>2. Running' = NumbersOf(list')
      BY DEF Running, NumbersOf
    <2>3. list' = list => Running' = Running
      BY <2>1, <2>2
    <2>4. toTimer' = toTimer => Untimed(toTimer)' = Untimed(toTimer)
      BY DEF Untimed
    <2>5. ASSUME toTimer # <<>>, toTimer' = Tail(toTimer), toM2' = toM2,
                 Head(toTimer).type = "insert",
                 Running' = Running \union {Head(toTimer).sequence_number}
          PROVE  Service!Next
      <3>1. /\ Untimed(toTimer) # <<>>
            /\ Untimed(toTimer)' = Tail(Untimed(toTimer))
            /\ Head(Untimed(toTimer)).type = "insert"
            /\ Head(Untimed(toTimer)).sequence_number = Head(toTimer).sequence_number
        <4>1. Untimed(toTimer)' = Untimed(Tail(toTimer))
          BY <2>5 DEF Untimed
        <4> QED BY <2>1, <2>5, <4>1, UntimedTail
      <3> QED BY <2>5, <3>1 DEF Service!Next, Service!TimerStep, Service!TakeRequest
    <2>6. ASSUME toTimer # <<>>, toTimer' = Tail(toTimer), toM2' = toM2,
                 Head(toTimer).type = "cancel",
                 Running' = Running \ {Head(toTimer).sequence_number}
          PROVE  Service!Next
      <3>1. /\ Untimed(toTimer) # <<>>
            /\ Untimed(toTimer)' = Tail(Untimed(toTimer))
            /\ Head(Untimed(toTimer)).type # "insert"
            /\ Head(Untimed(toTimer)).sequence_number = Head(toTimer).sequence_number
        <4>1. Untimed(toTimer)' = Untimed(Tail(toTimer))
          BY <2>6 DEF Untimed
        <4> QED BY <2>1, <2>6, <4>1, UntimedTail
      <3> QED BY <2>6, <3>1 DEF Service!Next, Service!TimerStep, Service!TakeRequest,
                                Service!CancelOne
    <2>7. CASE Start
      <3> DEFINE s == Head(toTimer).sequence_number
                 time == Head(toTimer).time
                 new == LinkedListInsetion(Current, s, time)
      <3>1. /\ s \in Numbers /\ time \in Nat /\ Head(toTimer).type = "insert"
            /\ toTimer # <<>> /\ toTimer' = Tail(toTimer)
            /\ list' = new /\ toM2' = toM2
        BY <2>7, StartIs
      <3>2. Current \in Seq(Entry) /\ NumbersOf(Current) = Running
        BY CurrentFacts
      <3> HIDE DEF s, time
      <3>3. NumbersOf(new) = Running \union {s}
        BY <3>1, <3>2, InsertKeepsTimers
      <3> HIDE DEF new
      <3> QED BY <2>2, <2>5, <3>1, <3>3 DEF s
    <2>8. CASE Cancel
      <3> DEFINE s == Head(toTimer).sequence_number
                 passed == list[1].dtime - Remaining
                 new == LinkedListDeleteSequenceNumber(list, s, passed)
      <3>1. /\ toTimer # <<>> /\ Head(toTimer).type = "cancel"
            /\ toTimer' = Tail(toTimer)
            /\ list # <<>> /\ list' = new /\ toM2' = toM2
        BY <2>8 DEF Cancel, ReadRequest
      <3>2. passed \in Int
        BY <3>1, RoundingIs
      <3> HIDE DEF passed, s
      <3>3. NumbersOf(new) = Running \ {s}
        BY <2>1, <3>2, DeleteKeepsTimers
      <3> HIDE DEF new
      <3> QED BY <2>2, <2>6, <3>1, <3>3 DEF s
    <2>9. CASE CancelAbsent
      <3>1. /\ toTimer # <<>> /\ Head(toTimer).type = "cancel"
            /\ toTimer' = Tail(toTimer) /\ list' = list /\ toM2' = toM2
            /\ Head(toTimer).sequence_number \notin Running
        BY <2>9 DEF CancelAbsent, ReadRequest
      <3> QED BY <2>3, <2>6, <3>1
    <2>10. CASE Timeout
      <3> DEFINE s == list[1].sequence_number
                 new == LinkedListDeleteSequenceNumber(list, s, waited)
      <3>1. /\ list # <<>> /\ toM2' = Append(toM2, s) /\ list' = new
            /\ toTimer' = toTimer
        BY <2>10 DEF Timeout, Asleep
      <3>2. s \in Running /\ s \in Numbers
        <4>1. 1 \in DOMAIN list /\ list[1] \in Entry
          BY <2>1, <3>1
        <4> QED BY <4>1 DEF Running, Entry
      <3> HIDE DEF s
      <3>3. NumbersOf(new) = Running \ {s}
        <4>1. waited \in Int
          BY <2>1
        <4> QED BY <2>1, <4>1, DeleteKeepsTimers
      <3> HIDE DEF new
      <3>4. Service!Expire(s)
        BY <2>2, <2>4, <3>1, <3>2, <3>3 DEF Service!Expire
      <3> QED BY <3>2, <3>4 DEF Service!Next, Service!TimerStep
    <2>11. CASE WaitSecond \/ SelectFails \/ UNCHANGED vars
      <3>1. list' = list /\ toTimer' = toTimer /\ toM2' = toM2
        BY <2>11 DEF WaitSecond, SelectFails, vars
      <3> QED BY <2>3, <2>4, <3>1
    <2>12. ASSUME NEW m \in Request, toTimer' = Append(toTimer, m),
                  list' = list, toM2' = toM2
           PROVE  Service!Next
      <3> DEFINE r == [type |-> m.type, sequence_number |-> m.sequence_number]
      <3>1. r \in Service!Request
        BY DEF Request, Service!Request
      <3>2. Untimed(toTimer)' = Append(Untimed(toTimer), r)
        <4>1. Untimed(toTimer)' = Untimed(Append(toTimer, m))
          BY <2>12 DEF Untimed
        <4> QED BY <2>1, <4>1, UntimedAppend
      <3> HIDE DEF r
      <3>3. Service!Ask(r)
        BY <2>3, <2>12, <3>2 DEF Service!Ask
      <3> QED BY <3>1, <3>3 DEF Service!Next
    <2>13. ASSUME NEW s \in Numbers, NEW time \in Times, AskInsert(s, time)
           PROVE  Service!Next
      <3>1. [type |-> "insert", sequence_number |-> s, time |-> time] \in Request
        BY TimesAssumption DEF Request
      <3> QED BY <2>12, <2>13, <3>1 DEF AskInsert
    <2>14. ASSUME NEW s \in Numbers, AskCancel(s)
           PROVE  Service!Next
      <3>1. [type |-> "cancel", sequence_number |-> s, time |-> 0] \in Request
        BY DEF Request
      <3> QED BY <2>12, <2>14, <3>1 DEF AskCancel
    <2>15. CASE TakeExpiry
      <3>1. /\ toM2 # <<>> /\ toM2' = Tail(toM2)
            /\ list' = list /\ toTimer' = toTimer
        BY <2>15 DEF TakeExpiry
      <3>2. Service!TakeExpiry
        BY <2>3, <2>4, <3>1 DEF Service!TakeExpiry
      <3> QED BY <3>2 DEF Service!Next
    <2> QED BY <2>7, <2>8, <2>9, <2>10, <2>11, <2>13, <2>14, <2>15 DEF Next, Step, Client
  <1> QED BY <1>1, <1>2, TypesHold, PTL DEF Spec, ImplementsService, Service!Spec
=============================================================================
