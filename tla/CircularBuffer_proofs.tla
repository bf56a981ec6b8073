------------------------- MODULE CircularBuffer_proofs -------------------------
(***************************************************************************)
(* Proofs about the circular buffer's operations: what a write and a       *)
(* deletion do to the slots between start and end.                         *)
(***************************************************************************)
EXTENDS CircularBuffer, TLAPS

\* The buffers there are, over any set of contents.
Buffers(Contents) == [start : Ring, end : Ring, packets : [Ring -> Contents]]

-----------------------------------------------------------------------------
(***************************************************************************)
(* Remainders.                                                             *)
(***************************************************************************)
LEMMA Remainders ==
  /\ \A x \in Int : x % Size \in Ring
  /\ \A x \in Ring : /\ x % Size = x
                     /\ (x + 1) % Size = IF x = Size - 1 THEN 0 ELSE x + 1
  /\ \A x, y \in Ring : (x - y) % Size = IF x >= y THEN x - y ELSE x - y + Size
  <1> DEFINE n == Size
  <1>1. n \in Nat /\ n >= 2 /\ Ring = 0 .. n - 1
    BY SizeAssumption DEF Ring
  <1> SUFFICES /\ \A x \in Int : x % n \in Ring
               /\ \A x \in Ring : /\ x % n = x
                                  /\ (x + 1) % n = IF x = n - 1 THEN 0 ELSE x + 1
               /\ \A x, y \in Ring : (x - y) % n = IF x >= y THEN x - y ELSE x - y + n
    OBVIOUS
  <1> HIDE DEF n
  <1>2. ASSUME NEW x \in Int PROVE x % n \in Ring
    BY <1>1
  <1>3. ASSUME NEW x \in Ring
        PROVE  /\ x % n = x
               /\ (x + 1) % n = IF x = n - 1 THEN 0 ELSE x + 1
    BY <1>1
  <1>4. ASSUME NEW x \in Ring, NEW y \in Ring
        PROVE  (x - y) % n = IF x >= y THEN x - y ELSE x - y + n
    BY <1>1
  <1> QED BY <1>2, <1>3, <1>4

\* Counting on moves the remainder on.
LEMMA NextRemainder ==
  ASSUME NEW x \in Nat PROVE (x + 1) % Size = ((x % Size) + 1) % Size
  <1> DEFINE n == Size
             q == x \div n
             r == x % n
  <1>1. n \in Nat /\ n >= 2
    BY SizeAssumption
  <1> SUFFICES (x + 1) % n = (r + 1) % n
    OBVIOUS
  <1> HIDE DEF n
  <1>2. q \in Int /\ r \in 0 .. n - 1 /\ x = n * q + r
    BY <1>1
  <1> HIDE DEF q, r
  <1>3. CASE r = n - 1
    <2>1. x + 1 = n * (q + 1)
      BY <1>1, <1>2, <1>3
    <2>2. (n * (q + 1)) % n = 0
      BY <1>1, <1>2
    <2> QED BY <1>1, <1>3, <2>1, <2>2
  <1>4. CASE r # n - 1
    <2>1. x + 1 = n * q + (r + 1) /\ r + 1 \in 0 .. n - 1
      BY <1>1, <1>2, <1>4
    <2>2. (n * q + (r + 1)) % n = r + 1
      BY <1>1, <1>2, <2>1
    <2>3. (r + 1) % n = r + 1
      BY <1>1, <1>2, <2>1
    <2> QED BY <2>1, <2>2, <2>3
  <1> QED BY <1>3, <1>4

\* Two numbers that share a slot with another between them are Size apart.
LEMMA SameSlot ==
  ASSUME NEW c \in Nat, NEW s \in Nat, s < c
  PROVE  LET d == ((c % Size) - (s % Size)) % Size IN
         s = c - d \/ s + Size <= c - d
  <1> DEFINE n == Size
             q == c \div n
             r == c % n
             u == s \div n
             v == s % n
             d == (r - v) % n
  <1>1. n \in Nat /\ n >= 2
    BY SizeAssumption
  <1> SUFFICES s = c - d \/ s + n <= c - d
    OBVIOUS
  <1>2. \A x, y \in 0 .. n - 1 : (x - y) % n = IF x >= y THEN x - y ELSE x - y + n
    BY Remainders DEF Ring
  <1> HIDE DEF n
  <1>3. /\ q \in Int /\ r \in 0 .. n - 1 /\ c = n * q + r
        /\ u \in Int /\ v \in 0 .. n - 1 /\ s = n * u + v
    BY <1>1
  <1>4. d = IF r >= v THEN r - v ELSE r - v + n
    BY <1>2, <1>3
  <1> HIDE DEF q, r, u, v, d
  <1>5. c - s = n * (q - u) + (r - v)
    BY <1>1, <1>3
  <1> DEFINE k == q - u
  <1>6. k \in Int /\ c - s = n * k + (r - v)
    BY <1>3, <1>5
  <1> HIDE DEF k
  <1>7. k >= 0
    <2> SUFFICES ASSUME k <= -1 PROVE FALSE
      BY <1>6
    <2>1. n * k <= -n
      BY <1>1, <1>6
    <2> QED BY <1>1, <1>3, <1>6, <2>1
  <1>8. k = 0 \/ (k = 1 /\ n * k = n) \/ (k >= 2 /\ n * k >= 2 * n)
    BY <1>1, <1>6, <1>7
  <1>9. CASE k = 0
    <2>1. n * k = 0
      BY <1>1, <1>9
    <2> QED BY <1>1, <1>3, <1>4, <1>6, <2>1
  <1>10. CASE k # 0
    BY <1>1, <1>3, <1>4, <1>6, <1>8, <1>10
  <1> QED BY <1>9, <1>10

\* Counting back from the remainder to a slot ends at a number of that slot.
LEMMA SlotBefore ==
  ASSUME NEW c \in Nat, NEW i \in Ring
  PROVE  (c - (((c % Size) - i) % Size)) % Size = i
  <1> DEFINE n == Size
             q == c \div n
             r == c % n
             d == (r - i) % n
  <1>1. n \in Nat /\ n >= 2 /\ i \in 0 .. n - 1
    BY SizeAssumption DEF Ring
  <1> SUFFICES (c - d) % n = i
    OBVIOUS
  <1>2. \A x, y \in 0 .. n - 1 : (x - y) % n = IF x >= y THEN x - y ELSE x - y + n
    BY Remainders DEF Ring
  <1> HIDE DEF n
  <1>3. q \in Int /\ r \in 0 .. n - 1 /\ c = n * q + r
    BY <1>1
  <1>4. d = IF r >= i THEN r - i ELSE r - i + n
    BY <1>1, <1>2, <1>3
  <1> HIDE DEF q, r, d
  <1>5. \A k \in Int : (n * k + i) % n = i
    BY <1>1
  <1>6. c - d = n * q + i \/ c - d = n * (q - 1) + i
    BY <1>1, <1>3, <1>4
  <1>7. q \in Int /\ q - 1 \in Int
    BY <1>3
  <1> QED BY <1>5, <1>6, <1>7

-----------------------------------------------------------------------------
(***************************************************************************)
(* The buffer.                                                             *)
(***************************************************************************)
\* The window, without remainders: it may pass the end of the array.
LEMMA WindowFacts ==
  ASSUME NEW Contents, NEW cb \in Buffers(Contents)
  PROVE  /\ Window(cb) =
              {i \in Ring : IF cb.start <= cb.end THEN cb.start <= i /\ i < cb.end
                            ELSE cb.start <= i \/ i < cb.end}
         /\ CircularBufferFull(cb) <=>
              IF cb.end = Size - 1 THEN cb.start = 0 ELSE cb.start = cb.end + 1
         /\ \A i \in Window(cb) :
              (cb.end - i) % Size = IF i < cb.end THEN cb.end - i ELSE cb.end - i + Size
  <1>1. cb.start \in Ring /\ cb.end \in Ring
    BY DEF Buffers
  <1>2. ASSUME NEW i \in Ring
        PROVE  /\ (i - cb.start) % Size < (cb.end - cb.start) % Size <=>
                    IF cb.start <= cb.end THEN cb.start <= i /\ i < cb.end
                    ELSE cb.start <= i \/ i < cb.end
               /\ (cb.end - i) % Size = IF i <= cb.end THEN cb.end - i ELSE cb.end - i + Size
    <2>1. /\ (i - cb.start) % Size = IF i >= cb.start THEN i - cb.start
                                     ELSE i - cb.start + Size
          /\ (cb.end - cb.start) % Size = IF cb.end >= cb.start THEN cb.end - cb.start
                                          ELSE cb.end - cb.start + Size
          /\ (cb.end - i) % Size = IF cb.end >= i THEN cb.end - i ELSE cb.end - i + Size
      BY <1>1, Remainders
    <2> QED BY <1>1, <2>1, SizeAssumption DEF Ring
  <1>3. Window(cb) =
          {i \in Ring : IF cb.start <= cb.end THEN cb.start <= i /\ i < cb.end
                        ELSE cb.start <= i \/ i < cb.end}
    BY <1>2 DEF Window
  <1>4. \A i \in Window(cb) : i \in Ring /\ i # cb.end
    BY <1>1, <1>3, SizeAssumption DEF Ring
  <1>5. \A i \in Window(cb) :
          (cb.end - i) % Size = IF i < cb.end THEN cb.end - i ELSE cb.end - i + Size
    BY <1>1, <1>2, <1>4, SizeAssumption DEF Ring
  <1>6. CircularBufferFull(cb) <=>
          IF cb.end = Size - 1 THEN cb.start = 0 ELSE cb.start = cb.end + 1
    BY <1>1, Remainders, SizeAssumption DEF CircularBufferFull, Ring
  <1> QED BY <1>3, <1>5, <1>6

LEMMA EmptyWindow ==
  ASSUME NEW Contents, NEW cb \in Buffers(Contents), CircularBufferEmpty(cb)
  PROVE  Window(cb) = {}
  <1>1. cb.start \in Ring /\ cb.end = cb.start
    BY DEF Buffers, CircularBufferEmpty
  <1> QED BY <1>1, WindowFacts, SizeAssumption DEF Ring

\* A write to a buffer that is not full adds one slot to the window.
LEMMA WriteFacts ==
  ASSUME NEW Contents, NEW cb \in Buffers(Contents), NEW p \in Contents,
         ~CircularBufferFull(cb)
  PROVE  LET new == CircularBufferWrite(cb, p) IN
         /\ new \in Buffers(Contents)
         /\ new.start = cb.start
         /\ new.end = (cb.end + 1) % Size
         /\ new.packets[cb.end] = p
         /\ \A i \in Ring : i # cb.end => new.packets[i] = cb.packets[i]
         /\ cb.end \in Ring
         /\ cb.end \notin Window(cb)
         /\ Window(new) = Window(cb) \union {cb.end}
  <1> DEFINE new == CircularBufferWrite(cb, p)
  <1>1. /\ cb.start \in Ring /\ cb.end \in Ring
        /\ cb = [start |-> cb.start, end |-> cb.end, packets |-> cb.packets]
        /\ cb.packets \in [Ring -> Contents]
    BY DEF Buffers
  <1>2. (cb.end + 1) % Size = IF cb.end = Size - 1 THEN 0 ELSE cb.end + 1
    BY <1>1, Remainders
  <1>3. (cb.end + 1) % Size \in Ring
    BY <1>1, <1>2, SizeAssumption DEF Ring
  <1>4. new = [start |-> cb.start, end |-> (cb.end + 1) % Size,
               packets |-> [cb.packets EXCEPT ![cb.end] = p]]
    <2> DEFINE e == (cb.end + 1) % Size
    <2>1. new = [cb EXCEPT !.packets[cb.end] = p, !.end = e]
      BY Zenon DEF CircularBufferWrite
    <2> HIDE DEF e
    <2>2. new = [start |-> cb.start, end |-> e,
                 packets |-> [cb.packets EXCEPT ![cb.end] = p]]
      BY <1>1, <2>1
    <2> QED BY <2>2 DEF e
  <1>5. new \in Buffers(Contents)
    BY <1>1, <1>3, <1>4 DEF Buffers
  <1> HIDE DEF new
  <1>6. /\ new.start = cb.start
        /\ new.end = IF cb.end = Size - 1 THEN 0 ELSE cb.end + 1
    BY <1>2, <1>4
  <1>7. /\ new.packets[cb.end] = p
        /\ \A i \in Ring : i # cb.end => new.packets[i] = cb.packets[i]
    BY <1>1, <1>4
  <1>8. /\ Window(cb) =
             {i \in Ring : IF cb.start <= cb.end THEN cb.start <= i /\ i < cb.end
                           ELSE cb.start <= i \/ i < cb.end}
        /\ ~IF cb.end = Size - 1 THEN cb.start = 0 ELSE cb.start = cb.end + 1
    BY WindowFacts
  <1>9. Window(new) =
             {i \in Ring : IF new.start <= new.end THEN new.start <= i /\ i < new.end
                           ELSE new.start <= i \/ i < new.end}
    BY <1>5, WindowFacts
  <1>10. cb.end \notin Window(cb)
    BY <1>1, <1>8, SizeAssumption DEF Ring
  <1>11. Window(new) = Window(cb) \union {cb.end}
    <2>1. ASSUME NEW i \in Ring
          PROVE  i \in Window(new) <=> i \in Window(cb) \/ i = cb.end
      BY <1>1, <1>6, <1>8, <1>9, SizeAssumption DEF Ring
    <2> QED BY <1>1, <1>8, <1>9, <2>1
  <1> QED BY <1>1, <1>4, <1>5, <1>6, <1>7, <1>10, <1>11 DEF new

\* CircularBufferDelete frees the slot of its number and no other, fills none, and
\* moves start over one slot at most, the first of the window, and only if that
\* is free; a buffer that is full after it has a packet at start, or is as before.
THEOREM DeletionIsLocal ==
  ASSUME NEW Contents, NULL \in Contents, NEW cb \in Buffers(Contents), NEW s \in Nat
  PROVE  LET new == CircularBufferDelete(cb, s) IN
         /\ new \in Buffers(Contents)
         /\ s % Size \in Ring
         /\ new.end = cb.end
         /\ \A i \in Ring : \/ new.packets[i] = cb.packets[i]
                            \/ i = s % Size /\ new.packets[i] = NULL
         /\ CircularBufferEmpty(cb) \/ new.packets[s % Size] = NULL
         /\ \/ new.start = cb.start /\ Window(new) = Window(cb)
            \/ /\ cb.start \in Window(cb) /\ new.packets[cb.start] = NULL
               /\ new.start = IF cb.start = Size - 1 THEN 0 ELSE cb.start + 1
               /\ Window(new) = Window(cb) \ {cb.start}
         /\ CircularBufferFull(new) =>
              \/ new = cb
              \/ new.start \in Window(new) /\ new.packets[new.start] # NULL
  <1> DEFINE new == CircularBufferDelete(cb, s)
             packets == [cb.packets EXCEPT ![s % Size] = NULL]
             freed == [cb EXCEPT !.packets[s % Size] = NULL]
  <1>1. /\ cb.start \in Ring /\ cb.end \in Ring
        /\ cb = [start |-> cb.start, end |-> cb.end, packets |-> cb.packets]
        /\ cb.packets \in [Ring -> Contents]
    BY DEF Buffers
  <1>2. s % Size \in Ring
    BY Remainders
  <1>3. CASE CircularBufferEmpty(cb) \/ cb.packets[s % Size] = NULL
    BY <1>2, <1>3 DEF CircularBufferDelete
  <1>4. CASE ~CircularBufferEmpty(cb) /\ cb.packets[s % Size] # NULL
    <2>1. new = CircularBufferAdjustStart(freed)
      BY <1>4 DEF CircularBufferDelete
    <2>2. /\ freed = [start |-> cb.start, end |-> cb.end, packets |-> packets]
          /\ packets \in [Ring -> Contents]
          /\ packets[s % Size] = NULL
          /\ \A i \in Ring : i # s % Size => packets[i] = cb.packets[i]
      BY <1>1, <1>2
    <2> DEFINE next == (cb.start + 1) % Size
    <2>3. next = IF cb.start = Size - 1 THEN 0 ELSE cb.start + 1
      BY <1>1, Remainders
    <2>4. next \in Ring
      BY <1>1, <2>3, SizeAssumption DEF Ring
    <2>5. /\ packets[cb.start] = NULL =>
               new = [start |-> next, end |-> cb.end, packets |-> packets]
          /\ packets[cb.start] # NULL =>
               new = [start |-> cb.start, end |-> cb.end, packets |-> packets]
      BY <2>1, <2>2 DEF CircularBufferAdjustStart
    <2> HIDE DEF new, packets, freed, next
    <2>6. new \in Buffers(Contents) /\ new.end = cb.end /\ new.packets = packets
      BY <1>1, <2>2, <2>4, <2>5 DEF Buffers
    <2>7. /\ Window(cb) =
               {i \in Ring : IF cb.start <= cb.end THEN cb.start <= i /\ i < cb.end
                             ELSE cb.start <= i \/ i < cb.end}
          /\ Window(new) =
               {i \in Ring : IF new.start <= new.end THEN new.start <= i /\ i < new.end
                             ELSE new.start <= i \/ i < new.end}
          /\ CircularBufferFull(new) <=>
               IF new.end = Size - 1 THEN new.start = 0 ELSE new.start = new.end + 1
      BY <2>6, WindowFacts
    <2>8. cb.start # cb.end
      BY <1>4 DEF CircularBufferEmpty
    <2>9. cb.start \in Window(cb)
      BY <1>1, <2>7, <2>8, SizeAssumption DEF Ring
    <2>10. CASE packets[cb.start] # NULL
      <3>1. new.start = cb.start
        BY <2>5, <2>10
      <3>2. Window(new) = Window(cb)
        BY <2>6, <2>7, <3>1
      <3> QED BY <1>2, <2>2, <2>6, <2>9, <2>10, <3>1, <3>2 DEF new
    <2>11. CASE packets[cb.start] = NULL
      <3>1. new.start = next
        BY <2>5, <2>11
      <3>2. ASSUME NEW i \in Ring
            PROVE  i \in Window(new) <=> i \in Window(cb) /\ i # cb.start
        BY <1>1, <2>3, <2>6, <2>7, <2>8, <3>1, SizeAssumption DEF Ring
      <3>3. Window(new) = Window(cb) \ {cb.start}
        BY <2>7, <3>2
      <3>4. ~CircularBufferFull(new)
        BY <1>1, <2>3, <2>6, <2>7, <2>8, <3>1, SizeAssumption DEF Ring
      <3> QED BY <1>2, <2>2, <2>3, <2>6, <2>9, <2>11, <3>1, <3>3, <3>4 DEF new
    <2> QED BY <2>10, <2>11
  <1> QED BY <1>3, <1>4

\* The packets a deletion takes out of a buffer are in the slot of its number.
LEMMA DeleteHeld ==
  ASSUME NEW Contents, NULL \in Contents, NEW cb \in Buffers(Contents), NEW s \in Nat
  PROVE  LET new == CircularBufferDelete(cb, s) IN
         /\ Held(new) \subseteq Held(cb)
         /\ \A p \in Held(cb) \ Held(new) : s % Size \in Window(cb) /\ p = cb.packets[s % Size]
         /\ CircularBufferFull(new) => new = cb \/ Held(new) # {}
  <1> DEFINE new == CircularBufferDelete(cb, s)
  <1>1. /\ \A i \in Ring : \/ new.packets[i] = cb.packets[i]
                           \/ i = s % Size /\ new.packets[i] = NULL
        /\ \/ Window(new) = Window(cb)
           \/ /\ new.packets[cb.start] = NULL
              /\ Window(new) = Window(cb) \ {cb.start}
        /\ CircularBufferFull(new) =>
             \/ new = cb
             \/ new.start \in Window(new) /\ new.packets[new.start] # NULL
    BY DeletionIsLocal
  <1> HIDE DEF new
  <1>2. \A i \in Window(cb) : i \in Ring
    BY DEF Window
  <1>3. Held(new) \subseteq Held(cb)
    BY <1>1, <1>2 DEF Held
  <1>4. ASSUME NEW p \in Held(cb), p \notin Held(new)
        PROVE  s % Size \in Window(cb) /\ p = cb.packets[s % Size]
    <2>1. PICK i \in Window(cb) : p = cb.packets[i] /\ p # NULL
      BY <1>4 DEF Held
    <2>2. i = s % Size
      BY <1>1, <1>2, <1>4, <2>1 DEF Held
    <2> QED BY <2>1, <2>2
  <1>5. CircularBufferFull(new) => new = cb \/ Held(new) # {}
    BY <1>1 DEF Held
  <1> QED BY <1>3, <1>4, <1>5 DEF new

\* A deletion fills no slot.
LEMMA DeleteSlots ==
  ASSUME NEW Contents, NULL \in Contents, NEW cb \in Buffers(Contents), NEW s \in Nat
  PROVE  LET new == CircularBufferDelete(cb, s) IN
         /\ new \in Buffers(Contents)
         /\ \A i \in Ring : new.packets[i] = cb.packets[i] \/ new.packets[i] = NULL
  <1> DEFINE new == CircularBufferDelete(cb, s)
  <1>1. /\ new \in Buffers(Contents)
        /\ \A i \in Ring : \/ new.packets[i] = cb.packets[i]
                           \/ i = s % Size /\ new.packets[i] = NULL
    BY DeletionIsLocal
  <1> QED BY <1>1

\* A deletion frees the slot of the number, if the buffer is not empty, leaves the
\* end, fills no slot, and takes at most the start out of the window.
LEMMA DeleteWindow ==
  ASSUME NEW Contents, NULL \in Contents, NEW cb \in Buffers(Contents), NEW s \in Nat
  PROVE  LET new == CircularBufferDelete(cb, s) IN
         /\ new.end = cb.end
         /\ \A i \in Ring : new.packets[i] = cb.packets[i] \/ new.packets[i] = NULL
         /\ CircularBufferEmpty(cb) \/ new.packets[s % Size] = NULL
         /\ Window(new) \subseteq Window(cb)
  <1> DEFINE new == CircularBufferDelete(cb, s)
  <1>1. CircularBufferEmpty(cb) \/ new.packets[s % Size] = NULL
    BY DeletionIsLocal
  <1>2. Window(new) = Window(cb) \/ Window(new) = Window(cb) \ {cb.start}
    BY DeletionIsLocal
  <1>3. new.end = cb.end
    BY DeletionIsLocal
  <1>4. \A i \in Ring : new.packets[i] = cb.packets[i] \/ new.packets[i] = NULL
    BY DeletionIsLocal
  <1> HIDE DEF new
  <1>5. /\ new.end = cb.end
        /\ \A i \in Ring : new.packets[i] = cb.packets[i] \/ new.packets[i] = NULL
        /\ CircularBufferEmpty(cb) \/ new.packets[s % Size] = NULL
        /\ Window(new) \subseteq Window(cb)
    BY <1>1, <1>2, <1>3, <1>4
  <1> QED BY <1>5 DEF new

\* A deletion moves the start, if at all, over a slot of the window that is free.
LEMMA DeleteStart ==
  ASSUME NEW Contents, NULL \in Contents, NEW cb \in Buffers(Contents), NEW s \in Nat
  PROVE  LET new == CircularBufferDelete(cb, s) IN
         /\ new.end = cb.end
         /\ \A i \in Ring : \/ new.packets[i] = cb.packets[i]
                            \/ i = s % Size /\ new.packets[i] = NULL
         /\ CircularBufferEmpty(cb) \/ new.packets[s % Size] = NULL
         /\ \/ new.start = cb.start
            \/ /\ cb.start \in Window(cb) /\ new.packets[cb.start] = NULL
               /\ new.start = IF cb.start = Size - 1 THEN 0 ELSE cb.start + 1
  <1> DEFINE new == CircularBufferDelete(cb, s)
  <1>1. /\ new.end = cb.end
        /\ \A i \in Ring : \/ new.packets[i] = cb.packets[i]
                           \/ i = s % Size /\ new.packets[i] = NULL
        /\ CircularBufferEmpty(cb) \/ new.packets[s % Size] = NULL
    BY DeletionIsLocal
  <1>2. \/ new.start = cb.start
        \/ /\ cb.start \in Window(cb) /\ new.packets[cb.start] = NULL
           /\ new.start = IF cb.start = Size - 1 THEN 0 ELSE cb.start + 1
    BY DeletionIsLocal
  <1> QED BY <1>1, <1>2

\* The start of a full ring is in use, and the ring is full no more once its oldest
\* packet is deleted, or any packet behind a free start.
LEMMA FullStart ==
  ASSUME NEW Contents, NEW cb \in Buffers(Contents), CircularBufferFull(cb)
  PROVE  cb.start \in Window(cb)
  <1>1. cb.start \in Ring /\ cb.end \in Ring
    BY DEF Buffers
  <1> QED BY <1>1, WindowFacts, SizeAssumption DEF Ring

LEMMA DeleteMakesRoom ==
  ASSUME NEW Contents, NULL \in Contents, NEW cb \in Buffers(Contents), NEW s \in Nat,
         s % Size \in Window(cb), cb.packets[s % Size] # NULL,
         s % Size = cb.start \/ cb.packets[cb.start] = NULL
  PROVE  ~CircularBufferFull(CircularBufferDelete(cb, s))
  <1> DEFINE new == CircularBufferDelete(cb, s)
  <1>1. /\ cb.start \in Ring /\ cb.end \in Ring /\ s % Size \in Ring
        /\ cb.packets \in [Ring -> Contents]
    BY DEF Buffers, Window
  <1>2. ~CircularBufferEmpty(cb)
    BY EmptyWindow
  <1> DEFINE mid == [cb EXCEPT !.packets[s % Size] = NULL]
  <1>3. mid.start = cb.start /\ mid.end = cb.end /\ mid.packets[cb.start] = NULL
    BY <1>1 DEF Buffers
  <1>4. new = [mid EXCEPT !.start = (cb.start + 1) % Size]
    BY <1>2, <1>3 DEF CircularBufferDelete, CircularBufferAdjustStart
  <1>5. new.start = (cb.start + 1) % Size /\ new.end = cb.end
    BY <1>3, <1>4 DEF Buffers
  <1>6. cb.end # cb.start
    BY <1>2 DEF CircularBufferEmpty
  <1> HIDE DEF new
  <1>7. (cb.end + 1) % Size # (cb.start + 1) % Size
    <2> DEFINE x == cb.end
               y == cb.start
    <2>1. /\ (x + 1) % Size = IF x = Size - 1 THEN 0 ELSE x + 1
          /\ (y + 1) % Size = IF y = Size - 1 THEN 0 ELSE y + 1
      BY <1>1, Remainders
    <2>2. x # y /\ x \in 0 .. Size - 1 /\ y \in 0 .. Size - 1 /\ Size \in Nat
      BY <1>1, <1>6, SizeAssumption DEF Ring
    <2> HIDE DEF x, y
    <2>3. (x + 1) % Size # (y + 1) % Size
      BY <2>1, <2>2
    <2> QED BY <2>3 DEF x, y
  <1>8. ~CircularBufferFull(new)
    BY <1>5, <1>7 DEF CircularBufferFull
  <1> QED BY <1>8 DEF new

=============================================================================
