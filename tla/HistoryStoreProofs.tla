-------------------------- MODULE HistoryStoreProofs --------------------------
(***************************************************************************)
(* Proofs about HistoryStore for any capacity, any series and any readings. *)
(***************************************************************************)
EXTENDS HistoryStore, SequenceTheorems, TLAPS

-----------------------------------------------------------------------------
(* The ring. *)

\* Remainders of a number that has gone round at most once.
LEMMA ModOnce ==
  ASSUME NEW n \in Nat, n > 0, NEW a \in Nat, a < 2 * n
  PROVE  a % n = IF a < n THEN a ELSE a - n
<1>1. CASE a < n
  BY <1>1, SMTT(30)
<1>2. CASE ~(a < n)
  <2>1. a = n * (a \div n) + (a % n) /\ a % n \in 0..(n - 1) /\ a \div n \in Nat
    BY SMTT(30)
  <2>2. PICK q \in Nat : a = n * q + (a % n)
    BY <2>1
  <2>3. q = 1
    <3>1. q # 0
      BY <1>2, <2>1, <2>2
    <3>2. ~(q >= 2)
      BY <2>1, <2>2, SMTT(30)
    <3>. QED BY <3>1, <3>2
  <2>. QED BY <1>2, <2>1, <2>2, <2>3
<1>. QED BY <1>1, <1>2

\* The slot that entry i of a ring's array is read from.
Position(head, len, i) ==
  LET p == head + i - 1 - len IN IF p >= 0 THEN p ELSE p + Capacity

\* toArray() reads entry i at Position: its two remainders go round at most once.
LEMMA ArrayPosition ==
  ASSUME NEW h \in Slot, NEW l \in 0..Capacity, NEW i \in 1..l
  PROVE  /\ (((h + Capacity - l) % Capacity) + (i - 1)) % Capacity = Position(h, l, i)
         /\ Position(h, l, i) \in Slot
<1>1. Capacity \in Nat /\ Capacity > 0 /\ h \in Nat /\ h < Capacity
  BY CapacityAssumption DEF Slot
<1>2. /\ l \in Nat /\ l <= Capacity /\ i \in Nat /\ i >= 1 /\ i <= l
  BY <1>1
<1>3. h + Capacity - l \in Nat /\ h + Capacity - l < 2 * Capacity
  BY <1>1, <1>2
<1>4. (h + Capacity - l) % Capacity = IF h < l THEN h + Capacity - l ELSE h - l
  <2>1. (h + Capacity - l) % Capacity
          = IF h + Capacity - l < Capacity THEN h + Capacity - l ELSE h + Capacity - l - Capacity
    BY <1>1, <1>3, ModOnce
  <2>. QED BY <1>1, <1>2, <2>1
<1>5. PICK s \in Nat : s = IF h < l THEN h + Capacity - l ELSE h - l
  BY <1>1, <1>2
<1>6. s < Capacity
  BY <1>1, <1>2, <1>5
<1>7. s + (i - 1) \in Nat /\ s + (i - 1) < 2 * Capacity
  BY <1>1, <1>2, <1>6
<1>8. (s + (i - 1)) % Capacity = IF s + (i - 1) < Capacity THEN s + (i - 1) ELSE s + (i - 1) - Capacity
  BY <1>1, <1>7, ModOnce
<1>9. (s + (i - 1)) % Capacity = Position(h, l, i) /\ Position(h, l, i) \in Slot
  BY <1>1, <1>2, <1>5, <1>8 DEF Position, Slot
<1>. QED BY <1>4, <1>5, <1>9

LEMMA NextHead ==
  ASSUME NEW h \in Slot
  PROVE  (h + 1) % Capacity = (IF h + 1 < Capacity THEN h + 1 ELSE 0) /\ (h + 1) % Capacity \in Slot
<1>1. Capacity \in Nat /\ Capacity > 0 /\ h \in Nat /\ h < Capacity
  BY CapacityAssumption DEF Slot
<1>2. h + 1 \in Nat /\ h + 1 < 2 * Capacity
  BY <1>1
<1>3. (h + 1) % Capacity = IF h + 1 < Capacity THEN h + 1 ELSE h + 1 - Capacity
  BY <1>1, <1>2, ModOnce
<1>. QED BY <1>1, <1>3 DEF Slot

LEMMA ToArrayEntry ==
  ASSUME NEW r \in Ring
  PROVE  /\ \A i \in 1..r.len : ToArray(r)[i] = r.buf[Position(r.head, r.len, i)]
         /\ ToArray(r) \in Seq(Value) /\ Len(ToArray(r)) = r.len
<1>1. r.head \in Slot /\ r.len \in 0..Capacity /\ r.buf \in [Slot -> Value] /\ r.len \in Nat
  BY CapacityAssumption DEF Ring
<1>2. ToArray(r) = [i \in 1..r.len |-> r.buf[(((r.head + Capacity - r.len) % Capacity) + (i - 1)) % Capacity]]
  BY DEF ToArray
<1>3. ToArray(r) = [i \in 1..r.len |-> r.buf[Position(r.head, r.len, i)]]
  BY <1>1, <1>2, ArrayPosition
<1>4. \A i \in 1..r.len : r.buf[Position(r.head, r.len, i)] \in Value
  BY <1>1, ArrayPosition
<1>5. ToArray(r) \in [1..r.len -> Value]
  BY <1>3, <1>4
<1>. QED BY <1>1, <1>3, <1>5

LEMMA PushType ==
  ASSUME NEW r \in Ring, NEW v \in Value
  PROVE  Push(r, v) \in Ring
<1>1. (r.head + 1) % Capacity \in Slot
  BY NextHead DEF Ring
<1>2. (IF r.len < Capacity THEN r.len + 1 ELSE r.len) \in 0..Capacity
  BY CapacityAssumption DEF Ring
<1>3. [r.buf EXCEPT ![r.head] = v] \in [Slot -> Value]
  BY DEF Ring
<1>4. (IF v = NaN THEN r.blank + 1 ELSE 0) \in Nat
  BY DEF Ring
<1>. QED BY <1>1, <1>2, <1>3, <1>4 DEF Push, Ring

\* How Position moves when the head advances and the ring grows, or is full.
LEMMA PositionStep ==
  ASSUME NEW h \in Slot, NEW l \in 0..Capacity, NEW g, NEW m,
         g = IF h + 1 < Capacity THEN h + 1 ELSE 0,
         m = IF l < Capacity THEN l + 1 ELSE l,
         NEW i \in 1..m
  PROVE  /\ i = m => Position(g, m, i) = h
         /\ i # m => Position(g, m, i) # h
         /\ i # m /\ l < Capacity => i \in 1..l /\ Position(g, m, i) = Position(h, l, i)
         /\ i # m /\ ~(l < Capacity) => i + 1 \in 1..l /\ Position(g, m, i) = Position(h, l, i + 1)
<1>1. Capacity \in Nat /\ Capacity > 0 /\ h \in Nat /\ h < Capacity /\ l \in Nat /\ l <= Capacity
  BY CapacityAssumption DEF Slot
<1>2. g \in Nat /\ m \in Nat /\ i \in Nat /\ 1 <= i /\ i <= m
  BY <1>1
<1>3. CASE h + 1 < Capacity
  <2>1. g = h + 1
    BY <1>3
  <2>2. CASE l < Capacity
    BY <1>1, <1>2, <2>1, <2>2 DEF Position
  <2>3. CASE ~(l < Capacity)
    BY <1>1, <1>2, <2>1, <2>3 DEF Position
  <2>. QED BY <2>2, <2>3
<1>4. CASE ~(h + 1 < Capacity)
  <2>1. g = 0 /\ h = Capacity - 1
    BY <1>1, <1>4
  <2>2. CASE l < Capacity
    BY <1>1, <1>2, <2>1, <2>2 DEF Position
  <2>3. CASE ~(l < Capacity)
    BY <1>1, <1>2, <2>1, <2>3 DEF Position
  <2>. QED BY <2>2, <2>3
<1>. QED BY <1>3, <1>4

\* Push appends to the array, and drops the oldest entry when the ring was full.
LEMMA PushAppends ==
  ASSUME NEW r \in Ring, NEW v \in Value
  PROVE  /\ Push(r, v).len = IF r.len < Capacity THEN r.len + 1 ELSE r.len
         /\ \A i \in 1..Push(r, v).len :
              ToArray(Push(r, v))[i] =
                IF i = Push(r, v).len THEN v
                ELSE IF r.len < Capacity THEN ToArray(r)[i] ELSE ToArray(r)[i + 1]
<1>. DEFINE p == Push(r, v)
<1>1. p \in Ring
  BY PushType
<1>. HIDE DEF p
<1>2. /\ r.head \in Slot /\ r.len \in 0..Capacity /\ r.buf \in [Slot -> Value]
      /\ Capacity \in Nat /\ Capacity > 0
  BY CapacityAssumption DEF Ring
<1>3. /\ p.buf = [r.buf EXCEPT ![r.head] = v]
      /\ p.head = IF r.head + 1 < Capacity THEN r.head + 1 ELSE 0
      /\ p.len = IF r.len < Capacity THEN r.len + 1 ELSE r.len
  BY <1>2, NextHead DEF Push, p
<1>4. ASSUME NEW i \in 1..p.len
      PROVE  ToArray(p)[i] = IF i = p.len THEN v
                             ELSE IF r.len < Capacity THEN ToArray(r)[i] ELSE ToArray(r)[i + 1]
  <2>1. ToArray(p)[i] = p.buf[Position(p.head, p.len, i)]
    BY <1>1, <1>4, ToArrayEntry
  <2>2. p.head \in Slot /\ p.len \in 0..Capacity /\ Position(p.head, p.len, i) \in Slot
    BY <1>1, <1>4, ArrayPosition DEF Ring
  <2>3. /\ i = p.len => Position(p.head, p.len, i) = r.head
        /\ i # p.len => Position(p.head, p.len, i) # r.head
        /\ i # p.len /\ r.len < Capacity =>
             i \in 1..r.len /\ Position(p.head, p.len, i) = Position(r.head, r.len, i)
        /\ i # p.len /\ ~(r.len < Capacity) =>
             i + 1 \in 1..r.len /\ Position(p.head, p.len, i) = Position(r.head, r.len, i + 1)
    BY <1>2, <1>3, <1>4, PositionStep
  <2>4. CASE i = p.len
    BY <1>2, <1>3, <2>1, <2>3, <2>4
  <2>5. CASE i # p.len
    <3>1. ToArray(p)[i] = r.buf[Position(p.head, p.len, i)]
      BY <1>2, <1>3, <2>1, <2>2, <2>3, <2>5
    <3>2. CASE r.len < Capacity
      BY <2>3, <2>5, <3>1, <3>2, ToArrayEntry
    <3>3. CASE ~(r.len < Capacity)
      BY <2>3, <2>5, <3>1, <3>3, ToArrayEntry
    <3>. QED BY <3>2, <3>3
  <2>. QED BY <2>4, <2>5
<1>. QED BY <1>3, <1>4 DEF p

\* blank counts the empty readings at the end of the array: all of them are empty,
\* and the entry before them is not.
BlankCounted(r) ==
  /\ \A i \in 1..r.len : i > r.len - r.blank => ToArray(r)[i] = NaN
  /\ r.blank < r.len => ToArray(r)[r.len - r.blank] # NaN

LEMMA PushBlank ==
  ASSUME NEW r \in Ring, NEW v \in Value, BlankCounted(r)
  PROVE  BlankCounted(Push(r, v))
<1>. DEFINE p == Push(r, v)
<1>1. /\ r.len \in 0..Capacity /\ r.blank \in Nat /\ Capacity \in Nat /\ Capacity > 0
      /\ p.len = (IF r.len < Capacity THEN r.len + 1 ELSE r.len)
      /\ p.blank = (IF v = NaN THEN r.blank + 1 ELSE 0)
  BY CapacityAssumption DEF Ring, Push
<1>2. \A i \in 1..p.len : ToArray(p)[i] = IF i = p.len THEN v
                                          ELSE IF r.len < Capacity THEN ToArray(r)[i]
                                          ELSE ToArray(r)[i + 1]
  BY PushAppends
<1>. HIDE DEF p
<1>3. CASE v # NaN
  <2>1. p.blank = 0 /\ p.len \in 1..p.len
    BY <1>1, <1>3
  <2>2. ToArray(p)[p.len - p.blank] = v
    BY <1>1, <1>2, <2>1
  <2>3. \A i \in 1..p.len : ~(i > p.len - p.blank)
    BY <1>1, <2>1
  <2>. QED BY <1>3, <2>2, <2>3 DEF BlankCounted, p
<1>4. CASE v = NaN
  <2>1. p.blank = r.blank + 1
    BY <1>1, <1>4
  <2>2. ASSUME NEW i \in 1..p.len, i > p.len - p.blank
        PROVE  ToArray(p)[i] = NaN
    <3>1. CASE i = p.len
      BY <1>2, <1>4, <3>1
    <3>2. CASE i # p.len /\ r.len < Capacity
      <4>1. i \in 1..r.len /\ i > r.len - r.blank
        BY <1>1, <2>1, <2>2, <3>2
      <4>. QED BY <1>2, <3>2, <4>1 DEF BlankCounted
    <3>3. CASE i # p.len /\ ~(r.len < Capacity)
      <4>1. i + 1 \in 1..r.len /\ i + 1 > r.len - r.blank
        BY <1>1, <2>1, <2>2, <3>3
      <4>. QED BY <1>2, <3>3, <4>1 DEF BlankCounted
    <3>. QED BY <3>1, <3>2, <3>3
  <2>3. ASSUME p.blank < p.len
        PROVE  ToArray(p)[p.len - p.blank] # NaN
    <3>1. PICK i \in 1..p.len : i = p.len - p.blank
      BY <1>1, <2>1, <2>3
    <3>2. i # p.len /\ r.blank < r.len
      BY <1>1, <2>1, <2>3, <3>1
    <3>3. CASE r.len < Capacity
      <4>1. i = r.len - r.blank
        BY <1>1, <2>1, <3>1, <3>3
      <4>. QED BY <1>2, <3>1, <3>2, <3>3, <4>1 DEF BlankCounted
    <3>4. CASE ~(r.len < Capacity)
      <4>1. i + 1 = r.len - r.blank
        BY <1>1, <2>1, <3>1, <3>4
      <4>. QED BY <1>2, <3>1, <3>2, <3>4, <4>1 DEF BlankCounted
    <3>. QED BY <3>3, <3>4
  <2>. QED BY <2>2, <2>3 DEF BlankCounted, p
<1>. QED BY <1>3, <1>4

\* A retired ring held no reading.
LEMMA EmptyIsBlank ==
  ASSUME NEW r \in Ring, BlankCounted(r), IsEmpty(r)
  PROVE  \A i \in 1..r.len : ToArray(r)[i] = NaN
<1>1. r.len \in Nat /\ r.blank \in Nat /\ r.blank >= r.len
  BY CapacityAssumption DEF Ring, IsEmpty
<1>. QED BY <1>1 DEF BlankCounted

\* A back-filled ring is a ring of n empty readings.
LEMMA BackfilledRing ==
  ASSUME NEW n \in 0..Capacity
  PROVE  /\ Backfilled(n) \in Ring
         /\ Backfilled(n).len = n
         /\ \A i \in 1..n : ToArray(Backfilled(n))[i] = NaN
         /\ BlankCounted(Backfilled(n))
<1>. DEFINE r == Backfilled(n)
<1>1. Capacity \in Nat /\ Capacity > 0 /\ n \in Nat /\ n <= Capacity
  BY CapacityAssumption
<1>2. n % Capacity = IF n < Capacity THEN n ELSE 0
  <2>1. n % Capacity = IF n < Capacity THEN n ELSE n - Capacity
    BY <1>1, ModOnce
  <2>. QED BY <1>1, <2>1
<1>3. n % Capacity \in Slot
  BY <1>1, <1>2 DEF Slot
<1>4. [i \in Slot |-> IF i < n THEN NaN ELSE Zero] \in [Slot -> Value]
  BY ReadingAssumption DEF Value
<1>5. r \in Ring
  BY <1>1, <1>3, <1>4 DEF Backfilled, Ring
<1>6. r.len = n /\ r.head = n % Capacity /\ r.buf = [i \in Slot |-> IF i < n THEN NaN ELSE Zero]
  BY DEF Backfilled
<1>7. ASSUME NEW i \in 1..n
      PROVE  ToArray(r)[i] = NaN
  <2>1. ToArray(r)[i] = r.buf[Position(r.head, r.len, i)]
    BY <1>5, <1>6, ToArrayEntry
  <2>2. Position(r.head, r.len, i) = i - 1 /\ i - 1 \in Slot /\ i - 1 < n
    BY <1>1, <1>2, <1>6, <1>7 DEF Position, Slot
  <2>. QED BY <1>6, <2>1, <2>2
<1>8. BlankCounted(r)
  <2>1. r.blank = r.len
    BY DEF Backfilled
  <2>. QED BY <1>1, <1>6, <1>7, <2>1 DEF BlankCounted
<1>. QED BY <1>5, <1>6, <1>7, <1>8

-----------------------------------------------------------------------------
(* The store. *)

\* The inductive invariant: every ring, also one that a series would be given, has
\* as many entries as the timeline and counts its trailing blanks, and no series
\* whose ring is empty is kept.
Inv ==
  /\ TypeOK
  /\ \A k \in Key : ring[k].len = Len(ts) /\ BlankCounted(ring[k])
  /\ \A k \in series : ~IsEmpty(ring[k])

\* What a sample writes into the ring of series k.
Written(sample, k) == IF k \in DOMAIN sample THEN sample[k] ELSE NaN

LEMMA SampleType ==
  ASSUME NEW sample \in Sample
  PROVE  DOMAIN sample \subseteq Key /\ \A k \in Key : Written(sample, k) \in Value
<1>1. PICK K \in SUBSET Key : sample \in [K -> Value]
  BY DEF Sample
<1>. QED BY <1>1 DEF Written, Value

LEMMA RingOfType ==
  ASSUME Inv, NEW k \in Key
  PROVE  RingOf(k) \in Ring /\ RingOf(k).len = Len(ts) /\ BlankCounted(RingOf(k))
<1>1. ring[k] \in Ring /\ ring[k].len = Len(ts) /\ BlankCounted(ring[k]) /\ Len(ts) \in 0..Capacity
  BY CapacityAssumption DEF Inv, TypeOK
<1>. QED BY <1>1, BackfilledRing DEF RingOf

LEMMA AppendTickEntries ==
  ASSUME TypeOK, NEW stamp \in Stamp
  PROVE  /\ AppendTick(stamp) \in Seq(Stamp)
         /\ Len(AppendTick(stamp)) = IF Len(ts) < Capacity THEN Len(ts) + 1 ELSE Len(ts)
         /\ Len(AppendTick(stamp)) \in 0..Capacity
         /\ \A i \in 1..Len(AppendTick(stamp)) :
              AppendTick(stamp)[i] = IF i = Len(AppendTick(stamp)) THEN stamp
                                     ELSE IF Len(ts) < Capacity THEN ts[i] ELSE ts[i + 1]
<1>1. ts \in Seq(Stamp) /\ Len(ts) \in Nat /\ Len(ts) <= Capacity /\ Capacity \in Nat /\ Capacity > 0
  BY CapacityAssumption DEF TypeOK
<1>2. CASE Len(ts) < Capacity
  <2>1. AppendTick(stamp) = Append(ts, stamp)
    BY <1>1, <1>2 DEF AppendTick
  <2>. QED BY <1>1, <1>2, <2>1
<1>3. CASE ~(Len(ts) < Capacity)
  <2>1. AppendTick(stamp) = Tail(Append(ts, stamp))
    BY <1>1, <1>3 DEF AppendTick
  <2>. QED BY <1>1, <1>3, <2>1
<1>. QED BY <1>2, <1>3

LEMMA PushTickEntries ==
  ASSUME Inv, NEW stamp \in Stamp, NEW sample \in Sample, NEW k \in Key
  PROVE  LET r == PushTick(sample)[k] IN
         /\ r = Push(RingOf(k), Written(sample, k))
         /\ r \in Ring /\ r.len = Len(AppendTick(stamp)) /\ BlankCounted(r)
         /\ \A i \in 1..Len(AppendTick(stamp)) :
              ToArray(r)[i] = IF i = Len(AppendTick(stamp)) THEN Written(sample, k)
                              ELSE IF Len(ts) < Capacity THEN ToArray(RingOf(k))[i]
                              ELSE ToArray(RingOf(k))[i + 1]
<1>1. PushTick(sample)[k] = Push(RingOf(k), Written(sample, k))
  BY DEF PushTick, Written
<1>2. RingOf(k) \in Ring /\ RingOf(k).len = Len(ts) /\ BlankCounted(RingOf(k))
  BY RingOfType
<1>3. Written(sample, k) \in Value
  BY SampleType
<1>4. TypeOK
  BY DEF Inv
<1>. DEFINE old == RingOf(k)  v == Written(sample, k)  r == Push(old, v)
<1>5. r \in Ring /\ BlankCounted(r)
  BY <1>2, <1>3, PushType, PushBlank
<1>6. /\ r.len = IF Len(ts) < Capacity THEN Len(ts) + 1 ELSE Len(ts)
      /\ \A i \in 1..r.len :
           ToArray(r)[i] = IF i = r.len THEN v
                           ELSE IF Len(ts) < Capacity THEN ToArray(old)[i] ELSE ToArray(old)[i + 1]
  BY <1>2, <1>3, PushAppends
<1>7. r.len = Len(AppendTick(stamp))
  BY <1>4, <1>6, AppendTickEntries
<1>. QED BY <1>1, <1>5, <1>6, <1>7

LEMMA InvInit == Init => Inv
<1>. SUFFICES ASSUME Init PROVE Inv
  OBVIOUS
<1>1. Len(ts) = 0 /\ 0 \in 0..Capacity
  BY CapacityAssumption DEF Init
<1>2. TypeOK
  BY <1>1, BackfilledRing DEF Init, TypeOK
<1>. QED BY <1>1, <1>2, BackfilledRing DEF Init, Inv

LEMMA InvNext == Inv /\ [Next]_vars => Inv'
<1>. SUFFICES ASSUME Inv, [Next]_vars PROVE Inv'
  OBVIOUS
<1>1. ASSUME NEW stamp \in Stamp, NEW sample \in Sample, Record(stamp, sample)
      PROVE  Inv'
  <2>1. ts' = AppendTick(stamp) /\ ts' \in Seq(Stamp) /\ Len(ts') \in 0..Capacity
    BY <1>1, AppendTickEntries DEF Record, Inv
  <2>2. series' \subseteq Key
    BY <1>1, SampleType DEF Record, Inv, TypeOK
  <2>3. ASSUME NEW k \in Key
        PROVE  ring'[k] \in Ring /\ ring'[k].len = Len(ts') /\ BlankCounted(ring'[k])
    <3>1. ring'[k] = IF k \in series' THEN PushTick(sample)[k] ELSE Backfilled(Len(ts'))
      BY <1>1 DEF Record
    <3>. QED BY <2>1, <3>1, PushTickEntries, BackfilledRing
  <2>4. ring' = [k \in Key |-> ring'[k]]
    BY <1>1 DEF Record
  <2>5. TypeOK'
    BY <2>1, <2>2, <2>3, <2>4, CapacityAssumption DEF TypeOK
  <2>6. \A k \in series' : ~IsEmpty(ring'[k])
    BY <1>1, <2>2 DEF Record
  <2>. QED BY <2>3, <2>5, <2>6 DEF Inv, BlankCounted, ToArray, IsEmpty
<1>2. ASSUME NEW valid \in SUBSET Nodes, Prune(valid)
      PROVE  Inv'
  <2>1. ts' = ts /\ ts' \in Seq(Stamp) /\ Len(ts') \in 0..Capacity
    BY <1>2, CapacityAssumption DEF Prune, Inv, TypeOK
  <2>2. series' \subseteq Key
    BY <1>2 DEF Prune, Inv, TypeOK
  <2>3. ASSUME NEW k \in Key
        PROVE  ring'[k] \in Ring /\ ring'[k].len = Len(ts') /\ BlankCounted(ring'[k])
    <3>1. ring'[k] = ring[k] \/ ring'[k] = Backfilled(Len(ts'))
      BY <1>2 DEF Prune
    <3>2. ring[k] \in Ring
      BY DEF Inv, TypeOK
    <3>. QED BY <2>1, <3>1, <3>2, BackfilledRing DEF Inv
  <2>4. ring' = [k \in Key |-> ring'[k]]
    BY <1>2 DEF Prune
  <2>5. TypeOK'
    BY <2>1, <2>2, <2>3, <2>4, CapacityAssumption DEF TypeOK
  <2>6. \A k \in series' : ~IsEmpty(ring'[k])
    BY <1>2, <2>2 DEF Prune, Inv
  <2>. QED BY <2>3, <2>5, <2>6 DEF Inv, BlankCounted, ToArray, IsEmpty
<1>3. CASE UNCHANGED vars
  BY <1>3 DEF vars, Inv, TypeOK
<1>. QED BY <1>1, <1>2, <1>3 DEF Next

LEMMA Invariance == Spec => []Inv
BY InvInit, InvNext, PTL DEF Spec

\* The fields keep their types, whatever is recorded and pruned.
THEOREM TypeCorrect == Spec => []TypeOK
<1>1. Inv => TypeOK
  BY DEF Inv
<1>. QED BY <1>1, Invariance, PTL

\* Every retained series always has one slot per timestamp.
THEOREM AlwaysAligned == Spec => []Aligned
<1>1. ASSUME Inv PROVE Aligned
  <2>1. ASSUME NEW k \in series PROVE Len(Payload[k]) = Len(ts)
    <3>1. k \in Key /\ ring[k] \in Ring /\ ring[k].len = Len(ts)
      BY <1>1 DEF Inv, TypeOK
    <3>. QED BY <3>1, ToArrayEntry DEF Payload
  <2>. QED BY <2>1 DEF Aligned
<1>. QED BY <1>1, Invariance, PTL

\* Once the timeline is full, every retained series holds a reading.
THEOREM SeriesLive == Spec => []NoDeadSeries
<1>1. ASSUME Inv, Len(ts) = Capacity, NEW k \in series
      PROVE  \E i \in 1..Capacity : Payload[k][i] # NaN
  <2>1. /\ k \in Key /\ ring[k] \in Ring /\ ring[k].len = Capacity /\ ring[k].blank \in Nat
        /\ BlankCounted(ring[k]) /\ ~IsEmpty(ring[k]) /\ Capacity \in Nat
    BY <1>1, CapacityAssumption DEF Inv, TypeOK, Ring
  <2>2. ring[k].blank < ring[k].len
    BY <2>1 DEF IsEmpty
  <2>3. ToArray(ring[k])[Capacity - ring[k].blank] # NaN /\ Capacity - ring[k].blank \in 1..Capacity
    BY <2>1, <2>2 DEF BlankCounted
  <2>. QED BY <2>3 DEF Payload
<1>2. Inv => NoDeadSeries
  BY <1>1 DEF NoDeadSeries
<1>. QED BY <1>2, Invariance, PTL

-----------------------------------------------------------------------------
(* The store implements the log of the last Capacity ticks. *)

LEMMA ReadingsType ==
  ASSUME Inv, NEW i \in 1..Len(ts)
  PROVE  Readings(i) \in [Key -> Reading \cup {NaN}]
<1>1. ASSUME NEW k \in series
      PROVE  Payload[k][i] \in Reading \cup {NaN}
  <2>1. ring[k] \in Ring /\ ring[k].len = Len(ts) /\ Len(ts) \in Nat
    BY DEF Inv, TypeOK
  <2>2. ToArray(ring[k]) \in Seq(Value) /\ Len(ToArray(ring[k])) = Len(ts)
    BY <2>1, ToArrayEntry
  <2>3. ToArray(ring[k])[i] \in Value
    BY <2>1, <2>2
  <2>. QED BY <2>3 DEF Payload, Value
<1>. QED BY <1>1 DEF Readings

LEMMA LogViewEntries ==
  ASSUME Inv
  PROVE  /\ LogView \in Seq(Log!Tick)
         /\ Len(LogView) = Len(ts)
         /\ \A i \in 1..Len(ts) : LogView[i].ts = ts[i] /\ LogView[i].val = Readings(i)
<1>1. ts \in Seq(Stamp) /\ Len(ts) \in Nat
  BY DEF Inv, TypeOK
<1>2. \A i \in 1..Len(ts) : [ts |-> ts[i], val |-> Readings(i)] \in Log!Tick
  BY <1>1, ReadingsType DEF Log!Tick
<1>3. LogView \in Seq(Log!Tick) /\ Len(LogView) = Len(ts)
  BY <1>1, <1>2 DEF LogView
<1>4. \A i \in 1..Len(ts) : LogView[i].ts = ts[i] /\ LogView[i].val = Readings(i)
  BY DEF LogView
<1>. QED BY <1>3, <1>4

\* What the log holds of a series when the tick is recorded.
LEMMA ReadingsBefore ==
  ASSUME Inv, NEW k \in Key, NEW i \in 1..Len(ts)
  PROVE  /\ ToArray(RingOf(k))[i] = Readings(i)[k]
         /\ k \notin series => Readings(i)[k] = NaN
<1>1. Len(ts) \in 0..Capacity
  BY CapacityAssumption DEF Inv, TypeOK
<1>. QED BY <1>1, BackfilledRing DEF RingOf, Readings, Payload

LEMMA LogInit == Init => Log!Init
<1>. SUFFICES ASSUME Init PROVE LogView = << >>
  BY DEF Log!Init
<1>1. Inv /\ Len(ts) = 0
  BY InvInit DEF Init
<1>2. LogView \in Seq(Log!Tick) /\ Len(LogView) = 0
  BY <1>1, LogViewEntries
<1>. QED BY <1>2

LEMMA LogForget ==
  ASSUME Inv, NEW valid \in SUBSET Nodes, Prune(valid)
  PROVE  \E K \in SUBSET Key : Log!Forget(K)
<1>. DEFINE gone == series \cap UNION {NodeKeys[n] : n \in Nodes \ valid}
            before(i) == [k \in Key |-> IF k \in gone THEN NaN ELSE LogView[i].val[k]]
            after(i) == [k \in Key |-> IF k \in series' THEN Payload'[k][i] ELSE NaN]
<1>1. ts' = ts /\ series' = series \ gone /\ gone \in SUBSET Key /\ Len(ts) \in Nat
  BY DEF Prune, Inv, TypeOK
<1>2. /\ Len(LogView) = Len(ts)
      /\ \A i \in 1..Len(ts) : LogView[i].ts = ts[i] /\ LogView[i].val = Readings(i)
  BY LogViewEntries
<1>3. ASSUME NEW i \in 1..Len(ts), NEW k \in Key
      PROVE  (IF k \in series' THEN Payload'[k][i] ELSE NaN)
               = IF k \in gone THEN NaN ELSE LogView[i].val[k]
  <2>1. k \notin gone => ring'[k] = ring[k]
    BY DEF Prune
  <2>2. k \in series' => Payload'[k] = ToArray(ring'[k])
    BY DEF Payload, ToArray
  <2>3. LogView[i].val[k] = IF k \in series THEN ToArray(ring[k])[i] ELSE NaN
    BY <1>2 DEF Readings, Payload
  <2>4. CASE k \in gone
    BY <1>1, <2>4
  <2>5. CASE k \notin gone
    BY <1>1, <2>1, <2>2, <2>3, <2>5
  <2>. QED BY <2>4, <2>5
<1>4. \A i \in 1..Len(ts) : before(i) = after(i)
  BY <1>3
<1>5. LogView' = [i \in 1..Len(ts) |-> [ts |-> ts[i], val |-> after(i)]]
  BY <1>1 DEF LogView, Readings
<1>6. Log!Forget(gone) <=> LogView' = [i \in 1..Len(LogView) |-> [ts |-> LogView[i].ts, val |-> before(i)]]
  BY DEF Log!Forget
<1>. HIDE DEF before, after
<1>7. LogView' = [i \in 1..Len(LogView) |-> [ts |-> LogView[i].ts, val |-> before(i)]]
  BY <1>2, <1>4, <1>5
<1>. QED BY <1>1, <1>6, <1>7

\* Every series' reading at tick i after a sample was recorded.
LEMMA ReadingsAfter ==
  ASSUME Inv, NEW stamp \in Stamp, NEW sample \in Sample, Record(stamp, sample),
         NEW k \in Key, NEW i \in 1..Len(ts')
  PROVE  (IF k \in series' THEN Payload'[k][i] ELSE NaN) =
           IF i = Len(ts') THEN Written(sample, k)
           ELSE IF Len(ts) < Capacity THEN Readings(i)[k] ELSE Readings(i + 1)[k]
<1>. DEFINE r == PushTick(sample)[k]
<1>1. /\ ts' = AppendTick(stamp)
      /\ series' = {c \in series \cup DOMAIN sample : ~IsEmpty(PushTick(sample)[c])}
      /\ k \in series' => Payload'[k] = ToArray(r)
  BY DEF Record, Payload, ToArray
<1>2. /\ Len(ts') = (IF Len(ts) < Capacity THEN Len(ts) + 1 ELSE Len(ts))
      /\ Len(ts) \in Nat /\ Len(ts') \in Nat
  BY <1>1, AppendTickEntries DEF Inv, TypeOK
<1>3. /\ r \in Ring /\ r.len = Len(ts') /\ BlankCounted(r)
      /\ ToArray(r)[i] = IF i = Len(ts') THEN Written(sample, k)
                         ELSE IF Len(ts) < Capacity THEN ToArray(RingOf(k))[i]
                         ELSE ToArray(RingOf(k))[i + 1]
  BY <1>1, PushTickEntries
<1>4. i # Len(ts') => IF Len(ts) < Capacity THEN i \in 1..Len(ts) ELSE i + 1 \in 1..Len(ts)
  BY <1>2
<1>. HIDE DEF r
<1>5. ToArray(r)[i] = IF i = Len(ts') THEN Written(sample, k)
                      ELSE IF Len(ts) < Capacity THEN Readings(i)[k] ELSE Readings(i + 1)[k]
  BY <1>3, <1>4, ReadingsBefore
<1>6. CASE k \in series'
  BY <1>1, <1>5, <1>6
<1>7. CASE k \notin series'
  <2>1. ToArray(r)[i] = NaN
    <3>1. CASE k \in series \cup DOMAIN sample
      <4>1. IsEmpty(r)
        BY <1>1, <1>7, <3>1 DEF r
      <4>. QED BY <1>3, <4>1, EmptyIsBlank
    <3>2. CASE k \notin series \cup DOMAIN sample
      <4>1. Written(sample, k) = NaN
        BY <3>2 DEF Written
      <4>. QED BY <1>4, <1>5, <3>2, <4>1, ReadingsBefore
    <3>. QED BY <3>1, <3>2
  <2>. QED BY <1>5, <1>7, <2>1
<1>. QED BY <1>6, <1>7

LEMMA LogRecord ==
  ASSUME Inv, NEW stamp \in Stamp, NEW sample \in Sample, Record(stamp, sample)
  PROVE  \E tick \in Log!Tick : Log!Record(tick)
<1>. DEFINE now == [k \in Key |-> Written(sample, k)]
            tick == [ts |-> stamp, val |-> now]
            after(i) == [k \in Key |-> IF k \in series' THEN Payload'[k][i] ELSE NaN]
            n == Len(ts')
<1>1. tick \in Log!Tick
  BY SampleType DEF Log!Tick, Value
<1>2. /\ n = (IF Len(ts) < Capacity THEN Len(ts) + 1 ELSE Len(ts)) /\ n \in Nat /\ Len(ts) \in Nat
      /\ Len(ts) <= Capacity
      /\ \A i \in 1..n : ts'[i] = IF i = n THEN stamp ELSE IF Len(ts) < Capacity THEN ts[i] ELSE ts[i + 1]
  BY AppendTickEntries DEF Record, Inv, TypeOK
<1>3. \A i \in 1..n : i # n => IF Len(ts) < Capacity THEN i \in 1..Len(ts) ELSE i + 1 \in 1..Len(ts)
  BY <1>2
<1>4. \A i \in 1..n : after(i) = IF i = n THEN now
                                 ELSE IF Len(ts) < Capacity THEN Readings(i) ELSE Readings(i + 1)
  <2>1. ASSUME NEW i \in 1..n
        PROVE  after(i) = IF i = n THEN now
                          ELSE IF Len(ts) < Capacity THEN Readings(i) ELSE Readings(i + 1)
    <3>1. CASE i = n
      BY <2>1, <3>1, ReadingsAfter
    <3>2. CASE i # n /\ Len(ts) < Capacity
      BY <2>1, <3>2, ReadingsAfter DEF Readings
    <3>3. CASE i # n /\ ~(Len(ts) < Capacity)
      BY <2>1, <3>3, ReadingsAfter DEF Readings
    <3>. QED BY <3>1, <3>2, <3>3
  <2>. QED BY <2>1
<1>5. /\ LogView \in Seq(Log!Tick) /\ Len(LogView) = Len(ts)
      /\ \A i \in 1..Len(ts) : LogView[i] = [ts |-> ts[i], val |-> Readings(i)]
  BY LogViewEntries DEF LogView
<1>6. LogView' = [i \in 1..n |-> [ts |-> ts'[i], val |-> after(i)]]
  BY DEF LogView, Readings
<1>. HIDE DEF now, after, n
<1>. DEFINE t == Log!LastTicks(Append(LogView, tick))
<1>7. /\ t \in Seq(Log!Tick) /\ Len(t) = n
      /\ \A i \in 1..n : t[i] = IF i = n THEN tick
                                ELSE IF Len(ts) < Capacity THEN LogView[i] ELSE LogView[i + 1]
  <2>1. tick \in Log!Tick /\ LogView \in Seq(Log!Tick) /\ Len(LogView) = Len(ts)
    BY <1>1, <1>5
  <2>. HIDE DEF tick
  <2>2. CASE Len(ts) < Capacity
    <3>1. t = Append(LogView, tick)
      BY <1>2, <2>1, <2>2, CapacityAssumption DEF Log!LastTicks
    <3>. HIDE DEF t
    <3>2. t \in Seq(Log!Tick) /\ Len(t) = n /\ n = Len(LogView) + 1
      BY <1>2, <2>1, <2>2, <3>1
    <3>3. ASSUME NEW i \in 1..n
          PROVE  t[i] = IF i = n THEN tick ELSE LogView[i]
      BY <1>2, <2>1, <3>1, <3>2
    <3>4. \A i \in 1..n : t[i] = IF i = n THEN tick
                                ELSE IF Len(ts) < Capacity THEN LogView[i] ELSE LogView[i + 1]
      BY <2>2, <3>3
    <3>. QED BY <3>2, <3>4
  <2>3. CASE ~(Len(ts) < Capacity)
    <3>1. t = Tail(Append(LogView, tick))
      BY <1>2, <2>1, <2>3, CapacityAssumption DEF Log!LastTicks
    <3>. HIDE DEF t
    <3>2. t \in Seq(Log!Tick) /\ Len(t) = n /\ n = Len(LogView) /\ n > 0
      BY <1>2, <2>1, <2>3, <3>1, CapacityAssumption
    <3>3. ASSUME NEW i \in 1..n
          PROVE  t[i] = IF i = n THEN tick ELSE LogView[i + 1]
      BY <1>2, <2>1, <3>1, <3>2
    <3>4. \A i \in 1..n : t[i] = IF i = n THEN tick
                                ELSE IF Len(ts) < Capacity THEN LogView[i] ELSE LogView[i + 1]
      BY <2>3, <3>3
    <3>. QED BY <3>2, <3>4
  <2>. QED BY <2>2, <2>3
<1>8. ASSUME NEW i \in 1..n
      PROVE  [ts |-> ts'[i], val |-> after(i)] =
               IF i = n THEN tick ELSE IF Len(ts) < Capacity THEN LogView[i] ELSE LogView[i + 1]
  <2>1. CASE i = n
    BY <1>2, <1>4, <1>8, <2>1
  <2>2. CASE i # n /\ Len(ts) < Capacity
    BY <1>2, <1>3, <1>4, <1>5, <1>8, <2>2
  <2>3. CASE i # n /\ ~(Len(ts) < Capacity)
    BY <1>2, <1>3, <1>4, <1>5, <1>8, <2>3
  <2>. QED BY <2>1, <2>2, <2>3
<1>9. LogView' = t
  <2>1. \A i \in 1..n : t[i] \in Log!Tick
    BY <1>2, <1>7
  <2>2. \A i \in 1..n : LogView'[i] = t[i]
    BY <1>6, <1>7, <1>8
  <2>3. LogView' \in [1..n -> Log!Tick]
    BY <1>6, <2>1, <2>2
  <2>. HIDE DEF t
  <2>4. LogView' \in Seq(Log!Tick) /\ Len(LogView') = n
    BY <1>2, <2>3
  <2>. QED BY <1>7, <2>2, <2>4, SeqEqual DEF t
<1>. QED BY <1>1, <1>9 DEF Log!Record

\* The store implements the log: for every capacity, every set of series and every
\* sequence of samples and prunings, what is charted is the last Capacity ticks.
THEOREM Implementation == Spec => ImplementsLog
<1>1. Inv /\ [Next]_vars => [Log!Next]_LogView
  <2>. SUFFICES ASSUME Inv, [Next]_vars PROVE [Log!Next]_LogView
    OBVIOUS
  <2>1. ASSUME NEW stamp \in Stamp, NEW sample \in Sample, Record(stamp, sample)
        PROVE  Log!Next
    BY <2>1, LogRecord DEF Log!Next
  <2>2. ASSUME NEW valid \in SUBSET Nodes, Prune(valid)
        PROVE  Log!Next
    BY <2>2, LogForget DEF Log!Next
  <2>3. CASE UNCHANGED vars
    BY <2>3 DEF vars, LogView, Readings, Payload, ToArray
  <2>. QED BY <2>1, <2>2, <2>3 DEF Next
<1>. QED BY <1>1, LogInit, Invariance, PTL DEF Spec, ImplementsLog, Log!Spec

===============================================================================
