------------------------- MODULE ReplayWindowProofs -------------------------
(***************************************************************************)
(* Safety of the replay window (ReplayWindow, session.rs) for any size of  *)
(* the window and of the sequence space and any number of packets, as long *)
(* as the network reorders less than half the sequence space.              *)
(*                                                                         *)
(* The argument: if the first packets do not straddle a wrap, every        *)
(* counter is the packet's number less a constant, so accept_rtp undoes    *)
(* the truncation of the number; then the ring holds, for each packet that *)
(* the window still covers, whether it has been accepted.                  *)
(***************************************************************************)
EXTENDS ReplayWindow, TLAPS

(* The peer's numbers and the receiver's counters differ by whole cycles.  *)
Origin == start - (start % SeqMod)
Counter(n) == n - Origin

(* Nothing is known before the first packet. *)
Begins ==
  /\ highest = NoCounter <=> newest = NoCounter
  /\ start = NoCounter <=> newest = NoCounter
  /\ newest = NoCounter =>
       /\ accepted = {} /\ repeated = {}
       /\ \A s \in 0..(Window - 1) : ~seen[s]

Tracks == highest = Counter(newest) /\ start <= newest

Covered(n) == newest - Window < n /\ n <= newest

Ring == \A n \in Packets : Covered(n) => (seen[Slot(Counter(n))] <=> n \in accepted)

Behind == \A n \in accepted : n <= newest

Faithful ==
  CleanStart /\ newest # NoCounter => Tracks /\ Ring /\ Behind /\ AcceptedOnce

IInv == TypeOK /\ Begins /\ Faithful

-----------------------------------------------------------------------------
(* Division with a rest. *)

(* Quotient and rest.                                                      *)
LEMMA DivMod ==
  ASSUME NEW a \in Int, NEW m \in Nat, m > 0
  PROVE  /\ a % m \in Int /\ 0 <= a % m /\ a % m < m
         /\ a \div m \in Int
         /\ a = m * (a \div m) + (a % m)
  OBVIOUS

(* Between -m and m there is one multiple of m.                            *)
LEMMA OnlyMultiple ==
  ASSUME NEW m \in Nat, NEW k \in Int, m > 0, m * k < m, m * k > -m
  PROVE  k = 0
<1>1. CASE k >= 1
  <2>1. m * k >= m
    BY <1>1
  <2> QED
    BY <2>1
<1>2. CASE k <= -1
  <2>1. m * k <= -m
    BY <1>2
  <2> QED
    BY <2>1
<1> QED
  BY <1>1, <1>2

(* Numbers less than m apart with the same rest are equal. *)
LEMMA SameRest ==
  ASSUME NEW m \in Nat, m > 0, NEW a \in Int, NEW b \in Int,
         a % m = b % m, a - b < m, b - a < m
  PROVE  a = b
<1> DEFINE k == (a \div m) - (b \div m)
<1>1. /\ a = m * (a \div m) + (a % m) /\ b = m * (b \div m) + (b % m)
      /\ a \div m \in Int /\ b \div m \in Int /\ a % m \in Int
  BY DivMod
<1>2. a - b = m * k
  BY <1>1
<1>3. k = 0
  BY <1>1, <1>2, OnlyMultiple
<1> QED
  BY <1>1, <1>2, <1>3

(* Whole cycles do not change the rest. *)
LEMMA RestOfShift ==
  ASSUME NEW m \in Nat, m > 0, NEW a \in Int, NEW k \in Int
  PROVE  (a - m * k) % m = a % m
<1> DEFINE b == a - m * k
           j == (b \div m) - (a \div m) + k
<1>1. b \in Int
  OBVIOUS
<1>2. /\ a = m * (a \div m) + (a % m) /\ a \div m \in Int
      /\ a % m \in Int /\ 0 <= a % m /\ a % m < m
  BY DivMod
<1>3. /\ b = m * (b \div m) + (b % m) /\ b \div m \in Int
      /\ b % m \in Int /\ 0 <= b % m /\ b % m < m
  BY <1>1, DivMod
<1>4. m * j = m * (b \div m) - m * (a \div m) + m * k
  BY <1>2, <1>3
<1>5. m * j = (a % m) - (b % m)
  BY <1>2, <1>3, <1>4
<1>6. j = 0
  <2>1. j \in Int
    BY <1>2, <1>3
  <2> QED
    BY <1>2, <1>3, <1>5, <2>1, OnlyMultiple
<1> QED
  BY <1>2, <1>3, <1>5, <1>6

(* Between -2m and 2m there are three.                                     *)
LEMMA ThreeMultiples ==
  ASSUME NEW m \in Nat, NEW k \in Int, m > 0, m * k < 2 * m, m * k > -(2 * m)
  PROVE  k \in {-1, 0, 1}
<1>1. CASE k >= 2
  <2>1. m * k >= m * 2
    BY <1>1
  <2> QED
    BY <2>1
<1>2. CASE k <= -2
  <2>1. m * k <= -(m * 2)
    BY <1>2
  <2> QED
    BY <2>1
<1> QED
  BY <1>1, <1>2

-----------------------------------------------------------------------------
(* accept_rtp undoes the truncation of a counter c that is less than half  *)
(* the sequence space away from highest.                                   *)
LEMMA ExtendNearest ==
  ASSUME highest \in Nat, NEW c \in Nat, NEW r \in Int, r = c % SeqMod,
         c - highest < Half, highest - c < Half
  PROVE  Extend(r) = c
<1> DEFINE base == highest - (highest % SeqMod)
           extended == base + r
           d == (c \div SeqMod) - (highest \div SeqMod)
<1>1. SeqMod \in Nat /\ SeqMod > 0 /\ SeqMod = 2 * Half /\ Half \in Nat /\ Half > 0
  BY WindowAssumption DEF SeqMod
<1>2. /\ highest = SeqMod * (highest \div SeqMod) + (highest % SeqMod)
      /\ highest \div SeqMod \in Int
      /\ highest % SeqMod \in Int /\ 0 <= highest % SeqMod /\ highest % SeqMod < SeqMod
  BY <1>1, DivMod
<1>3. /\ c = SeqMod * (c \div SeqMod) + r
      /\ c \div SeqMod \in Int
      /\ 0 <= r /\ r < SeqMod
  BY <1>1, DivMod
<1>4. d \in Int /\ extended \in Int
  BY <1>2, <1>3
<1>5. SeqMod * d = SeqMod * (c \div SeqMod) - SeqMod * (highest \div SeqMod)
  BY <1>1, <1>2, <1>3
<1>6. extended = c - SeqMod * d
  BY <1>1, <1>2, <1>3, <1>5
<1>7. d \in {-1, 0, 1}
  <2>1. SeqMod * d < 2 * SeqMod /\ SeqMod * d > -(2 * SeqMod)
    BY <1>1, <1>2, <1>3, <1>5
  <2> HIDE DEF d
  <2> QED
    BY <1>1, <1>4, <2>1, ThreeMultiples
<1>8. Extend(r) = IF extended + Half < highest THEN extended + SeqMod
                  ELSE IF extended > highest + Half /\ extended >= SeqMod
                       THEN extended - SeqMod
                  ELSE extended
  BY DEF Extend, NoCounter
<1> HIDE DEF d, extended
<1>9. CASE d = 0
  BY <1>1, <1>4, <1>6, <1>8, <1>9
<1>10. CASE d = 1
  BY <1>1, <1>4, <1>6, <1>8, <1>10
<1>11. CASE d = -1
  BY <1>1, <1>4, <1>6, <1>8, <1>11
<1> QED
  BY <1>7, <1>9, <1>10, <1>11

(* Packet numbers and counters. *)
LEMMA Numbers ==
  /\ Packets \subseteq Nat
  /\ SeqMod \in Nat /\ SeqMod > 0 /\ SeqMod = 2 * Half /\ Half \in Nat /\ Half > 0
  /\ Window \in Nat /\ Window > 0
  /\ Reorder \in Nat /\ Reorder < Half /\ Burst \in Nat /\ Burst < Half
  BY WindowAssumption DEF Packets, SeqMod

(* Origin is a number of whole cycles.                                     *)
LEMMA OriginIsWhole ==
  ASSUME start \in Nat
  PROVE  /\ Origin = SeqMod * (start \div SeqMod)
         /\ start \div SeqMod \in Int /\ Origin \in Int
         /\ start - Origin = start % SeqMod
         /\ start % SeqMod \in Int /\ start % SeqMod >= 0
  BY Numbers, DivMod DEF Origin

(* A packet that the network delivers now gets its own counter. *)
LEMMA ExtendIsCounter ==
  ASSUME TypeOK, CleanStart, Tracks, highest # NoCounter, newest # NoCounter,
         start # NoCounter, NEW n \in Packets,
         newest - Reorder <= n, n <= newest + Burst
  PROVE  Extend(n % SeqMod) = Counter(n) /\ Counter(n) \in Nat
<1>1. start \in Nat /\ newest \in Nat /\ highest \in Nat /\ n \in Nat
  BY Numbers DEF TypeOK
<1>2. /\ Origin = SeqMod * (start \div SeqMod)
      /\ start \div SeqMod \in Int /\ Origin \in Int
      /\ start - Origin = start % SeqMod /\ start % SeqMod >= Reorder
  BY <1>1, OriginIsWhole DEF CleanStart
<1>3. highest = newest - Origin /\ start <= newest
  BY DEF Tracks, Counter
<1>4. Counter(n) = n - Origin /\ Counter(n) \in Int
  BY <1>1, <1>2 DEF Counter
<1>5. Counter(n) >= 0
  BY <1>1, <1>2, <1>3, <1>4, Numbers
<1>6. Counter(n) - highest < Half /\ highest - Counter(n) < Half
  BY <1>1, <1>2, <1>3, <1>4, Numbers
<1>7. Counter(n) % SeqMod = n % SeqMod
  <2> n \in Int
    BY <1>1
  <2>1. (n - SeqMod * (start \div SeqMod)) % SeqMod = n % SeqMod
    BY <1>2, Numbers, RestOfShift, Zenon
  <2> QED
    BY <1>2, <1>4, <2>1
<1>8. n % SeqMod \in Int
  BY <1>1, Numbers, DivMod
<1> QED
  BY <1>1, <1>4, <1>5, <1>6, <1>7, <1>8, ExtendNearest

(* Two counters of one window have bits of their own. *)
LEMMA OwnSlot ==
  ASSUME NEW a \in Int, NEW b \in Int, a - b < Window, b - a < Window, a # b
  PROVE  Slot(a) # Slot(b)
  BY Numbers, SameRest DEF Slot

(* A slot lies in the ring.                                                *)
LEMMA SlotRange ==
  ASSUME NEW c \in Int
  PROVE  Slot(c) \in 0..(Window - 1)
  BY Numbers, DivMod DEF Slot

-----------------------------------------------------------------------------
(* A window that has seen nothing.                                         *)
LEMMA InitInv == Init => IInv
<1> SUFFICES ASSUME Init PROVE IInv
  OBVIOUS
<1>1. TypeOK
  BY DEF Init, TypeOK
<1>2. Begins /\ Faithful
  BY DEF Init, Begins, Faithful, NoCounter
<1> QED
  BY <1>1, <1>2 DEF IInv

(* What the arrival of a packet records. *)
LEMMA Arrival ==
  ASSUME IInv, NEW n \in Packets, Arrives(n)
  PROVE  /\ newest' \in Packets /\ start' \in Packets
         /\ newest' # NoCounter /\ start' # NoCounter
         /\ newest # NoCounter => start' = start /\ newest <= newest'
         /\ newest = NoCounter => start' = n /\ newest' = n
  BY Numbers DEF IInv, TypeOK, Begins, Arrives, NoCounter

(* What accept_rtp makes of a sequence is a counter.                       *)
LEMMA ExtendType ==
  ASSUME TypeOK, NEW n \in Packets
  PROVE  /\ Extend(n % SeqMod) \in Int
         /\ highest = NoCounter => Extend(n % SeqMod) = n % SeqMod /\ n % SeqMod >= 0
<1>1. n % SeqMod \in Int /\ n % SeqMod >= 0
  BY Numbers, DivMod
<1>2. highest \in Int /\ highest % SeqMod \in Int
  BY Numbers, DivMod DEF TypeOK, NoCounter
<1> QED
  BY <1>1, <1>2, Numbers DEF Extend

(* A packet keeps the types, and makes the first one known.                *)
LEMMA TypesStep ==
  ASSUME IInv, NEW n \in Packets, Accept(n) \/ Refuse(n)
  PROVE  TypeOK' /\ Begins'
<1> DEFINE c == Extend(n % SeqMod)
<1>1. c \in Int /\ (highest = NoCounter => c >= 0)
  BY ExtendType DEF IInv
<1>2. Arrives(n)
  BY DEF Accept, Refuse
<1>3. /\ newest' \in Packets /\ start' \in Packets
      /\ newest' # NoCounter /\ start' # NoCounter
  BY <1>2, Arrival
<1>4. Slot(c) \in 0..(Window - 1)
  BY <1>1, SlotRange
<1> HIDE DEF c
<1>5. CASE Accept(n) /\ Fresh(c)
  <2>1. Advance(c) /\ accepted' = accepted \cup {n} /\ refused' = refused
    BY <1>5 DEF Accept, c
  <2>2. highest' \in Nat
    BY <1>1, <1>5, <2>1 DEF Advance, Fresh, IInv, TypeOK, NoCounter
  <2>3. seen' \in [0..(Window - 1) -> BOOLEAN]
    BY <2>1 DEF Advance
  <2>4. repeated' \in SUBSET Packets
    BY <1>5 DEF Accept, IInv, TypeOK
  <2> QED
    BY <1>3, <2>1, <2>2, <2>3, <2>4 DEF IInv, TypeOK, Begins, NoCounter
<1>6. CASE Accept(n) /\ ~Fresh(c)
  <2>1. Late(c) /\ accepted' = accepted \cup {n} /\ refused' = refused
    BY <1>6 DEF Accept, c
  <2>2. highest # NoCounter /\ highest' = highest
    BY <1>1, <1>6, <2>1 DEF Late, Fresh, NoCounter
  <2>3. seen' \in [0..(Window - 1) -> BOOLEAN]
    BY <1>4, <2>1 DEF Late, IInv, TypeOK
  <2>4. repeated' \in SUBSET Packets
    BY <1>6 DEF Accept, IInv, TypeOK
  <2> QED
    BY <1>3, <2>1, <2>2, <2>3, <2>4 DEF IInv, TypeOK, Begins, NoCounter
<1>7. CASE Refuse(n)
  <2>1. highest # NoCounter
    BY <1>1, <1>7 DEF Refuse, Refuses, Fresh, c, NoCounter
  <2> QED
    BY <1>3, <1>7, <2>1 DEF Refuse, IInv, TypeOK, Begins, NoCounter
<1> QED
  BY <1>5, <1>6, <1>7

-----------------------------------------------------------------------------
(* The first packet: the ring holds its bit and no other. *)
LEMMA FirstStep ==
  ASSUME IInv, NEW n \in Packets, Accept(n), newest = NoCounter
  PROVE  Faithful'
<1>1. /\ highest = NoCounter /\ start = NoCounter /\ accepted = {} /\ repeated = {}
      /\ \A s \in 0..(Window - 1) : ~seen[s]
  BY DEF IInv, Begins
<1>2. newest' = n /\ start' = n /\ n \in Nat
  BY Arrival, Numbers DEF Accept
<1>3. Extend(n % SeqMod) = n % SeqMod /\ n % SeqMod \in Int /\ n % SeqMod >= 0
  BY <1>1, ExtendType DEF IInv
<1>4. Fresh(n % SeqMod)
  BY <1>1, <1>3 DEF Fresh, NoCounter
<1>5. /\ Advance(n % SeqMod)
      /\ accepted' = {n} /\ repeated' = {}
  BY <1>1, <1>3, <1>4 DEF Accept
<1>6. Origin' = n - (n % SeqMod) /\ Counter(n)' = n % SeqMod
  BY <1>2, <1>3 DEF Origin, Counter
<1>7. Tracks'
  BY <1>2, <1>5, <1>6 DEF Tracks, Counter, Advance
<1>8. \A s \in 0..(Window - 1) : seen'[s] <=> s = Slot(n % SeqMod)
  BY <1>1, <1>5 DEF Advance
<1>9. Ring'
  <2> SUFFICES ASSUME NEW m \in Packets, newest' - Window < m, m <= newest'
               PROVE  seen'[Slot(Counter(m)')] <=> m \in accepted'
    BY DEF Ring, Covered, Slot
  <2>1. Counter(m)' = m - n + (n % SeqMod) /\ Counter(m)' \in Int /\ m \in Nat
    BY <1>2, <1>3, <1>6, Numbers DEF Counter
  <2>2. Slot(Counter(m)') \in 0..(Window - 1)
    BY <2>1, SlotRange
  <2>3. CASE m = n
    BY <1>5, <1>6, <1>8, <2>2, <2>3
  <2>4. CASE m # n
    <3>1. Slot(Counter(m)') # Slot(n % SeqMod)
      BY <1>2, <1>3, <2>1, <2>4, Numbers, OwnSlot
    <3> QED
      BY <1>5, <1>8, <2>2, <2>4, <3>1
  <2> QED
    BY <2>3, <2>4
<1> QED
  BY <1>2, <1>5, <1>7, <1>9 DEF Faithful, Behind, AcceptedOnce

(* What holds before a later packet arrives, if the start was clean. *)
Steady(n) ==
  /\ CleanStart /\ Tracks /\ Ring /\ Behind /\ AcceptedOnce
  /\ newest \in Nat /\ highest \in Nat /\ start \in Nat /\ Origin \in Int
  /\ start' = start /\ Origin' = Origin
  /\ n \in Nat /\ Extend(n % SeqMod) = Counter(n) /\ Counter(n) = n - Origin
  /\ newest' = IF n > newest THEN n ELSE newest

(* Any packet but the first arrives at a faithful ring.                    *)
LEMMA LaterArrival ==
  ASSUME IInv, NEW n \in Packets, Arrives(n), newest # NoCounter, CleanStart'
  PROVE  Steady(n)
<1>1. start' = start /\ CleanStart
  BY Arrival DEF CleanStart
<1>2. highest # NoCounter /\ start # NoCounter
  BY DEF IInv, Begins
<1>3. newest \in Nat /\ highest \in Nat /\ start \in Nat /\ n \in Nat
  BY <1>2, Numbers DEF IInv, TypeOK
<1>4. Tracks /\ Ring /\ Behind /\ AcceptedOnce
  BY <1>1 DEF IInv, Faithful
<1>5. newest - Reorder <= n /\ n <= newest + Burst
  BY DEF Arrives
<1>6. Extend(n % SeqMod) = Counter(n)
  BY <1>1, <1>2, <1>4, <1>5, ExtendIsCounter DEF IInv
<1>7. Origin \in Int /\ Origin' = Origin
  BY <1>1, <1>3, OriginIsWhole DEF Origin
<1>8. newest' = IF n > newest THEN n ELSE newest
  BY DEF Arrives
<1> QED
  BY <1>1, <1>3, <1>4, <1>6, <1>7, <1>8 DEF Steady, Counter

(* A packet above all others: the ring forgets what it passes. *)
LEMMA AdvanceStep ==
  ASSUME IInv, NEW n \in Packets, Accept(n), Steady(n), Fresh(Counter(n))
  PROVE  Tracks' /\ Ring' /\ Behind' /\ AcceptedOnce'
<1> USE DEF Steady
<1>1. highest = newest - Origin /\ start <= newest
  BY DEF Tracks, Counter
<1>2. n > newest
  BY <1>1 DEF Fresh
<1>3. newest' = n /\ n \notin accepted
  BY <1>2 DEF Behind
<1>4. Advance(Counter(n)) /\ accepted' = accepted \cup {n} /\ repeated' = repeated
  BY <1>3 DEF Accept
<1>5. highest' = n - Origin
  BY <1>4 DEF Advance
<1>6. Tracks'
  BY <1>1, <1>2, <1>3, <1>5 DEF Tracks, Counter
<1>7. Behind' /\ AcceptedOnce'
  BY <1>2, <1>3, <1>4, Numbers DEF Behind, AcceptedOnce, IInv, TypeOK
<1>8. Ring'
  <2> SUFFICES ASSUME NEW m \in Packets, n - Window < m, m <= n
               PROVE  seen'[Slot(m - Origin)] <=> m \in accepted'
    BY <1>3 DEF Ring, Covered, Slot, Counter
  <2>1. m \in Nat /\ Slot(m - Origin) \in 0..(Window - 1)
    BY Numbers, SlotRange
  <2>2. seen'[Slot(m - Origin)] <=>
          \/ Slot(m - Origin) = Slot(n - Origin)
          \/ seen[Slot(m - Origin)] /\ Slot(m - Origin) \notin Passed(n - Origin)
    <3>1. seen' = [s \in 0..(Window - 1) |->
                     \/ s = Slot(n - Origin)
                     \/ seen[s] /\ s \notin Passed(n - Origin)]
      BY <1>4 DEF Advance
    <3> QED
      BY <2>1, <3>1
  <2>3. CASE m = n
    BY <1>4, <2>2, <2>3
  <2>4. CASE m # n
    <3>1. Slot(m - Origin) # Slot(n - Origin)
      BY <2>1, <2>4, Numbers, OwnSlot
    <3>2. Passed(n - Origin) = IF n - newest >= Window THEN 0..(Window - 1)
                               ELSE {Slot(h) : h \in (highest + 1)..(n - Origin)}
      BY <1>1 DEF Passed, NoCounter
    <3>3. CASE m > newest
      <4>1. Slot(m - Origin) \in Passed(n - Origin)
        <5>1. m - Origin \in (highest + 1)..(n - Origin)
          BY <1>1, <2>1, <3>3
        <5> QED
          BY <2>1, <3>2, <5>1
      <4>2. m \notin accepted
        BY <2>1, <3>3 DEF Behind
      <4> QED
        BY <1>4, <2>2, <2>4, <3>1, <4>1, <4>2
    <3>4. CASE m <= newest
      <4>1. Slot(m - Origin) \notin Passed(n - Origin)
        <5>1. ASSUME NEW h \in (highest + 1)..(n - Origin)
              PROVE  Slot(m - Origin) # Slot(h)
          BY <1>1, <2>1, <3>4, Numbers, OwnSlot
        <5>2. n - newest < Window
          BY <2>1, <3>4, Numbers
        <5> QED
          BY <3>2, <5>1, <5>2, Numbers
      <4>2. seen[Slot(m - Origin)] <=> m \in accepted
        BY <1>2, <2>1, <3>4, Numbers DEF Ring, Covered, Counter
      <4> QED
        BY <1>4, <2>2, <2>4, <3>1, <4>1, <4>2
    <3> QED
      BY <2>1, <3>3, <3>4
  <2> QED
    BY <2>3, <2>4
<1> QED
  BY <1>6, <1>7, <1>8

(* A late packet: its bit tells whether it has been accepted. *)
LEMMA LateStep ==
  ASSUME IInv, NEW n \in Packets, Accept(n), Steady(n), ~Fresh(Counter(n))
  PROVE  Tracks' /\ Ring' /\ Behind' /\ AcceptedOnce'
<1> USE DEF Steady
<1>1. highest = newest - Origin /\ start <= newest
  BY DEF Tracks, Counter
<1>2. n <= newest /\ newest' = newest
  BY <1>1 DEF Fresh
<1>3. Late(Counter(n)) /\ accepted' = accepted \cup {n}
  BY DEF Accept
<1>4. /\ newest - n < Window /\ ~seen[Slot(n - Origin)]
      /\ seen' = [seen EXCEPT ![Slot(n - Origin)] = TRUE] /\ highest' = highest
  BY <1>1, <1>3 DEF Late
<1>5. n \notin accepted
  BY <1>2, <1>4, Numbers DEF Ring, Covered, Counter
<1>6. repeated' = repeated
  BY <1>5 DEF Accept
<1>7. Tracks' /\ Behind' /\ AcceptedOnce'
  BY <1>1, <1>2, <1>3, <1>4, <1>6 DEF Tracks, Counter, Behind, AcceptedOnce
<1>8. Ring'
  <2> SUFFICES ASSUME NEW m \in Packets, newest - Window < m, m <= newest
               PROVE  seen'[Slot(m - Origin)] <=> m \in accepted'
    BY <1>2 DEF Ring, Covered, Slot, Counter
  <2>1. /\ m \in Nat
        /\ Slot(m - Origin) \in 0..(Window - 1) /\ Slot(n - Origin) \in 0..(Window - 1)
    BY Numbers, SlotRange
  <2>2. seen[Slot(m - Origin)] <=> m \in accepted
    BY DEF Ring, Covered, Counter
  <2>3. CASE m = n
    BY <1>3, <1>4, <2>1, <2>3 DEF IInv, TypeOK
  <2>4. CASE m # n
    <3>1. Slot(m - Origin) # Slot(n - Origin)
      BY <1>2, <1>4, <2>1, <2>4, Numbers, OwnSlot
    <3> QED
      BY <1>3, <1>4, <2>1, <2>2, <2>4, <3>1 DEF IInv, TypeOK
  <2> QED
    BY <2>3, <2>4
<1> QED
  BY <1>7, <1>8

(* A refusal leaves the ring as it is, and is of an old packet.            *)
LEMMA RefuseStep ==
  ASSUME IInv, NEW n \in Packets, Refuse(n), Steady(n)
  PROVE  /\ Tracks' /\ Ring' /\ Behind' /\ AcceptedOnce'
         /\ \A m \in refused' \ refused : newest - m >= Window
<1> USE DEF Steady
<1>1. highest = newest - Origin /\ start <= newest
  BY DEF Tracks, Counter
<1>2. /\ UNCHANGED <<highest, seen, accepted, repeated>>
      /\ refused' = IF n \notin accepted THEN refused \cup {n} ELSE refused
      /\ Refuses(Counter(n))
  BY DEF Refuse
<1>3. n <= newest /\ newest' = newest
  BY <1>1, <1>2 DEF Refuses, Fresh
<1>4. newest - n >= Window \/ n \in accepted
  BY <1>1, <1>2, <1>3, Numbers DEF Refuses, Ring, Covered, Counter
<1>5. Tracks' /\ Behind' /\ AcceptedOnce'
  BY <1>1, <1>2, <1>3 DEF Tracks, Counter, Behind, AcceptedOnce
<1>6. Ring'
  BY <1>2, <1>3 DEF Ring, Covered, Counter, Slot
<1> QED
  BY <1>2, <1>4, <1>5, <1>6

(* The first packet is not refused.                                        *)
LEMMA FirstIsFresh ==
  ASSUME IInv, NEW n \in Packets, newest = NoCounter
  PROVE  ~Refuse(n)
<1>1. highest = NoCounter
  BY DEF IInv, Begins
<1>2. Extend(n % SeqMod) >= 0 /\ Extend(n % SeqMod) \in Int
  BY <1>1, ExtendType DEF IInv
<1> QED
  BY <1>1, <1>2 DEF Refuse, Refuses, Fresh, NoCounter

(* Every step keeps the invariant.                                         *)
LEMMA StepInv == IInv /\ [Next]_vars => IInv'
<1>1. ASSUME IInv, NEW n \in Packets, Accept(n) \/ Refuse(n)
      PROVE  IInv'
  <2>1. TypeOK' /\ Begins'
    BY <1>1, TypesStep
  <2>2. Faithful'
    <3>1. CASE newest = NoCounter
      <4>1. Accept(n)
        BY <1>1, <3>1, FirstIsFresh
      <4> QED
        BY <1>1, <3>1, <4>1, FirstStep
    <3>2. CASE newest # NoCounter
      <4> SUFFICES ASSUME CleanStart'
                   PROVE  Tracks' /\ Ring' /\ Behind' /\ AcceptedOnce'
        BY DEF Faithful
      <4>1. Steady(n)
        BY <1>1, <3>2, LaterArrival DEF Accept, Refuse
      <4> QED
        BY <1>1, <4>1, AdvanceStep, LateStep, RefuseStep
    <3> QED
      BY <3>1, <3>2
  <2> QED
    BY <2>1, <2>2 DEF IInv
<1>2. ASSUME IInv, UNCHANGED vars
      PROVE  IInv'
  BY <1>2 DEF vars, IInv, TypeOK, Begins, Faithful, CleanStart, Tracks, Ring, Behind,
     AcceptedOnce, Covered, Counter, Origin, Slot
<1> QED
  BY <1>1, <1>2 DEF Next

(* The invariant, which the theorems below only read.                      *)
LEMMA Invariance == Spec => []IInv
  BY InitInv, StepInv, PTL DEF Spec

-----------------------------------------------------------------------------
(* replay_window_accepts_reordering_once_and_rejects_duplicates: if the    *)
(* first packets do not straddle a wrap of the sequence, no order and no   *)
(* duplicate makes the transport accept a packet twice.                    *)
THEOREM OnceIfClean == Spec => []AcceptedOnceIfClean
<1>1. IInv => AcceptedOnceIfClean
  BY DEF IInv, AcceptedOnceIfClean, Faithful, Begins, AcceptedOnce
<1> QED
  BY <1>1, Invariance, PTL

(* accept refuses only what it saw or what is older than the window.       *)
THEOREM FreshAccepted == Spec => FreshIsAccepted
<1>1. ASSUME IInv, [Next]_vars
      PROVE  [CleanStart' => \A n \in refused' \ refused : newest - n >= Window]_vars
  <2>1. ASSUME NEW n \in Packets, Accept(n) \/ Refuse(n), CleanStart'
        PROVE  \A m \in refused' \ refused : newest - m >= Window
    <3>1. CASE Accept(n)
      BY <3>1 DEF Accept
    <3>2. CASE Refuse(n)
      <4>1. newest # NoCounter
        BY <1>1, <3>2, FirstIsFresh
      <4>2. Steady(n)
        BY <1>1, <2>1, <3>2, <4>1, LaterArrival DEF Refuse
      <4> QED
        BY <1>1, <3>2, <4>2, RefuseStep
    <3> QED
      BY <2>1, <3>1, <3>2
  <2> QED
    BY <1>1, <2>1 DEF Next
<1> QED
  BY <1>1, Invariance, PTL DEF Spec, FreshIsAccepted
=============================================================================
