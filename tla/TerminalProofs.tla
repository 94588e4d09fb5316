---------------------------- MODULE TerminalProofs ----------------------------
(***************************************************************************)
(* Proofs about the screen of the terminal, a part of Server: its rows,    *)
(* sequences put together from panels, show what there is to see; for any  *)
(* snapshots and windows.                                                  *)
(***************************************************************************)
EXTENDS Server, SequenceTheorems, WellFoundedInduction, TLAPS

\* What is not true of every number is not true of a least one.
LEMMA LeastNumber ==
  ASSUME NEW Numbers, Numbers \subseteq Nat, Numbers # {}
  PROVE  \E n \in Numbers : \A m \in Numbers : n <= m
<1>1. PICK n \in Numbers : \A m \in Numbers : <<m, n>> \notin OpToRel(<, Nat)
  <2>1. \E n \in Numbers : \A m \in Numbers : ~ (<<m, n>> \in OpToRel(<, Nat))
    BY NatLessThanWellFounded, WFMin
  <2>. QED BY <2>1
<1>2. \A m \in Numbers : ~ (m < n)
  BY <1>1 DEF OpToRel
<1>. QED BY <1>2

-----------------------------------------------------------------------------
(* The terminal's screen: sequences of rows. *)

IsSeq(s) == s \in Seq(V!Range(s))

LEMMA SeqFacts ==
  ASSUME NEW s, IsSeq(s)
  PROVE  /\ Len(s) \in Nat /\ DOMAIN s = 1..Len(s)
         /\ \A i \in 1..Len(s) : s[i] \in V!Range(s)
         /\ \A x \in V!Range(s) : \E i \in 1..Len(s) : s[i] = x
BY DEF IsSeq, V!Range

LEMMA SeqIs ==
  ASSUME NEW Items, NEW s \in Seq(Items)
  PROVE  IsSeq(s) /\ V!Range(s) \subseteq Items
<1>1. DOMAIN s = 1..Len(s) /\ \A i \in 1..Len(s) : s[i] \in V!Range(s)
  BY DEF V!Range
<1>2. s = [i \in 1..Len(s) |-> s[i]] /\ Len(s) \in Nat
  OBVIOUS
<1>3. V!Range(s) \subseteq Items
  BY DEF V!Range
<1>. QED BY <1>1, <1>2, <1>3, IsASeq DEF IsSeq

LEMMA RowsJoined ==
  ASSUME NEW s, NEW t, IsSeq(s), IsSeq(t)
  PROVE  /\ IsSeq(s \o t) /\ Len(s \o t) = Len(s) + Len(t)
         /\ V!Range(s \o t) = V!Range(s) \cup V!Range(t)
         /\ \A i \in 1..Len(s) : (s \o t)[i] = s[i]
         /\ \A i \in 1..Len(t) : (s \o t)[Len(s) + i] = t[i]
<1>. DEFINE Items == V!Range(s) \cup V!Range(t)
<1>1. s \in Seq(Items) /\ t \in Seq(Items)
  <2>1. Len(s) \in Nat /\ Len(t) \in Nat /\ s = [i \in 1..Len(s) |-> s[i]] /\ t = [i \in 1..Len(t) |-> t[i]]
    BY DEF IsSeq
  <2>2. (\A i \in 1..Len(s) : s[i] \in Items) /\ (\A i \in 1..Len(t) : t[i] \in Items)
    BY SeqFacts
  <2>. QED BY <2>1, <2>2, IsASeq
<1>. HIDE DEF Items
<1>2. s \o t \in Seq(Items) /\ Len(s \o t) = Len(s) + Len(t)
  BY <1>1
<1>3. \A i \in 1..Len(s) : (s \o t)[i] = s[i]
  BY <1>1
<1>4. ASSUME NEW i \in 1..Len(t) PROVE (s \o t)[Len(s) + i] = t[i]
  <2>1. Len(s) \in Nat /\ Len(t) \in Nat /\ Len(s) + i \in 1..(Len(s) + Len(t)) /\ Len(s) + i > Len(s)
    BY <1>1
  <2>. QED BY <1>1, <2>1
<1>5. IsSeq(s \o t)
  BY <1>2, SeqIs
<1>6. ASSUME NEW x \in V!Range(s \o t) PROVE x \in V!Range(s) \cup V!Range(t)
  <2>1. PICK i \in 1..Len(s \o t) : (s \o t)[i] = x
    BY <1>5, SeqFacts
  <2>2. CASE i <= Len(s)
    <3>1. i \in 1..Len(s)
      BY <1>1, <2>2
    <3>. QED BY <1>3, <2>1, <3>1, SeqFacts
  <2>3. CASE i > Len(s)
    <3>1. i - Len(s) \in 1..Len(t) /\ Len(s) + (i - Len(s)) = i
      BY <1>1, <1>2, <2>3
    <3>. QED BY <1>4, <2>1, <3>1, SeqFacts
  <2>. QED BY <1>1, <1>2, <2>2, <2>3
<1>7. ASSUME NEW x \in V!Range(s) PROVE x \in V!Range(s \o t)
  <2>1. PICK i \in 1..Len(s) : s[i] = x
    BY SeqFacts
  <2>2. i \in 1..Len(s \o t) /\ (s \o t)[i] = x
    BY <1>1, <1>2, <1>3, <2>1
  <2>. QED BY <1>5, <2>2, SeqFacts
<1>8. ASSUME NEW x \in V!Range(t) PROVE x \in V!Range(s \o t)
  <2>1. PICK i \in 1..Len(t) : t[i] = x
    BY SeqFacts
  <2>2. Len(s) + i \in 1..Len(s \o t) /\ (s \o t)[Len(s) + i] = x
    BY <1>1, <1>2, <1>4, <2>1
  <2>. QED BY <1>5, <2>2, SeqFacts
<1>. QED BY <1>2, <1>3, <1>4, <1>5, <1>6, <1>7, <1>8

LEMMA RowsAre ==
  ASSUME NEW n \in Nat, NEW row
  PROVE  /\ IsSeq(V!Rows(n, row)) /\ Len(V!Rows(n, row)) = n
         /\ V!Range(V!Rows(n, row)) = IF n = 0 THEN {} ELSE {row}
<1>1. V!Rows(n, row) = [i \in 1..n |-> row] /\ DOMAIN V!Rows(n, row) = 1..n
  BY DEF V!Rows
<1>2. V!Rows(n, row) \in Seq({row}) /\ Len(V!Rows(n, row)) = n
  BY <1>1, IsASeq, LenProperties
<1>3. n # 0 => row \in V!Range(V!Rows(n, row))
  <2>1. n # 0 => 1 \in 1..n
    OBVIOUS
  <2>. QED BY <1>1, <2>1 DEF V!Range
<1>4. n = 0 => V!Range(V!Rows(n, row)) = {}
  BY <1>1 DEF V!Range
<1>. QED BY <1>2, <1>3, <1>4, SeqIs

LEMMA RowIs ==
  \A row : IsSeq(<<row>>) /\ Len(<<row>>) = 1 /\ V!Range(<<row>>) = {row}
<1>. SUFFICES ASSUME NEW row PROVE IsSeq(<<row>>) /\ Len(<<row>>) = 1 /\ V!Range(<<row>>) = {row}
  OBVIOUS
<1>1. <<row>> \in Seq({row}) /\ Len(<<row>>) = 1
  OBVIOUS
<1>2. DOMAIN <<row>> = {1} /\ <<row>>[1] = row
  OBVIOUS
<1>3. V!Range(<<row>>) = {row}
  BY <1>2 DEF V!Range
<1>4. IsSeq(<<row>>)
  BY <1>1, SeqIs
<1>. QED BY <1>1, <1>3, <1>4

LEMMA NoRows == IsSeq(<<>>) /\ Len(<<>>) = 0 /\ V!Range(<<>>) = {}
BY DEF IsSeq, V!Range

-----------------------------------------------------------------------------
(* What FlattenSeq makes of sequences of rows. *)

IsSeqs(ss) == IsSeq(ss) /\ \A i \in 1..Len(ss) : IsSeq(ss[i])

\* The concatenation of the first sequences, up to each.
IsFlatten(f, ss, n) ==
  f = [i \in 1..n |-> IF i = 1 THEN ss[i] ELSE f[i - 1] \o ss[i]]

LEMMA FlattenStep ==
  ASSUME NEW ss, NEW n \in Nat, NEW f, IsFlatten(f, ss, n)
  PROVE  \E g : IsFlatten(g, ss, n + 1)
<1>. DEFINE g == [i \in 1..(n + 1) |-> IF i <= n THEN f[i] ELSE IF i = 1 THEN ss[i] ELSE f[i - 1] \o ss[i]]
<1>0. \A i \in 1..n : f[i] = IF i = 1 THEN ss[i] ELSE f[i - 1] \o ss[i]
  BY DEF IsFlatten
<1>1. \A i \in 1..n : g[i] = f[i]
  OBVIOUS
<1>2. g[n + 1] = IF n + 1 = 1 THEN ss[n + 1] ELSE f[n + 1 - 1] \o ss[n + 1]
  OBVIOUS
<1>3. g = [i \in 1..(n + 1) |-> g[i]]
  OBVIOUS
<1>. HIDE DEF g
<1>4. ASSUME NEW i \in 1..(n + 1) PROVE g[i] = IF i = 1 THEN ss[i] ELSE g[i - 1] \o ss[i]
  <2>1. CASE i = n + 1
    <3>1. i # 1 => i - 1 \in 1..n /\ n + 1 - 1 = i - 1
      BY <2>1
    <3>. QED BY <1>1, <1>2, <2>1, <3>1
  <2>2. CASE i \in 1..n
    <3>1. i # 1 => i - 1 \in 1..n
      BY <2>2
    <3>. QED BY <1>0, <1>1, <2>2, <3>1
  <2>. QED BY <2>1, <2>2
<1>5. g = [i \in 1..(n + 1) |-> IF i = 1 THEN ss[i] ELSE g[i - 1] \o ss[i]]
  BY <1>3, <1>4
<1>. QED BY <1>5 DEF IsFlatten

LEMMA FlattenThere ==
  ASSUME NEW ss, NEW n \in Nat
  PROVE  \E f : IsFlatten(f, ss, n)
<1>. DEFINE without == {k \in Nat : \A f : ~IsFlatten(f, ss, k)}
<1>1. SUFFICES ASSUME without # {} PROVE FALSE
  OBVIOUS
<1>2. PICK k \in without : \A m \in without : k <= m
  BY <1>1, LeastNumber
<1>3. k # 0
  <2>1. IsFlatten([i \in 1..0 |-> {}], ss, 0)
    BY DEF IsFlatten
  <2>. QED BY <2>1
<1>4. k - 1 \in Nat /\ ~(k <= k - 1) /\ k - 1 + 1 = k
  BY <1>3
<1>5. PICK f : IsFlatten(f, ss, k - 1)
  BY <1>2, <1>4
<1>. QED BY <1>4, <1>5, FlattenStep

LEMMA Flattened ==
  ASSUME NEW ss, Len(ss) \in Nat, Len(ss) # 0
  PROVE  \E f : /\ V!FlattenSeq(ss) = f[Len(ss)]
                /\ f[1] = ss[1]
                /\ \A i \in 2..Len(ss) : f[i] = f[i - 1] \o ss[i]
<1>. DEFINE n == Len(ss)
            f == CHOOSE g : g = [i \in 1..n |-> IF i = 1 THEN ss[i] ELSE g[i - 1] \o ss[i]]
<1>1. V!FlattenSeq(ss) = f[n]
  BY Zenon DEF V!FlattenSeq
<1>2. \E g : g = [i \in 1..n |-> IF i = 1 THEN ss[i] ELSE g[i - 1] \o ss[i]]
  BY Zenon, FlattenThere DEF IsFlatten
<1>3. f = [i \in 1..n |-> IF i = 1 THEN ss[i] ELSE f[i - 1] \o ss[i]]
  BY <1>2
<1>. HIDE DEF f
<1>4. f[1] = ss[1]
  BY <1>3
<1>5. ASSUME NEW i \in 2..n PROVE f[i] = f[i - 1] \o ss[i]
  <2>1. i \in 1..n /\ i # 1
    OBVIOUS
  <2>. QED BY <1>3, <2>1
<1>6. \A i \in 2..Len(ss) : f[i] = f[i - 1] \o ss[i]
  BY <1>5
<1>7. V!FlattenSeq(ss) = f[Len(ss)]
  BY <1>1
<1>. HIDE DEF n
<1>. WITNESS f
<1>. QED BY <1>4, <1>6, <1>7

\* What is true of the concatenation of the first k sequences.
UpTo(f, ss, k) ==
  /\ IsSeq(f[k])
  /\ V!Range(f[k]) = UNION {V!Range(ss[i]) : i \in 1..k}
  /\ (\A i \in 1..k : Len(ss[i]) >= 1) => Len(f[k]) >= k
  /\ (\A i \in 1..k : Len(ss[i]) >= 2) => Len(f[k]) >= 2 * k
  /\ (\A i \in 1..k : Len(ss[i]) = 1) => Len(f[k]) = k

LEMMA LongerBy ==
  \A a, b, c \in Nat, k \in Int :
    c = a + b => /\ a >= k - 1 /\ b >= 1 => c >= k
                 /\ a >= 2 * (k - 1) /\ b >= 2 => c >= 2 * k
                 /\ a = k - 1 /\ b = 1 => c = k
OBVIOUS

LEMMA FlattenFacts ==
  ASSUME NEW ss, IsSeqs(ss)
  PROVE  /\ IsSeq(V!FlattenSeq(ss))
         /\ V!Range(V!FlattenSeq(ss)) = UNION {V!Range(ss[i]) : i \in 1..Len(ss)}
         /\ (\A i \in 1..Len(ss) : Len(ss[i]) >= 1) => Len(V!FlattenSeq(ss)) >= Len(ss)
         /\ (\A i \in 1..Len(ss) : Len(ss[i]) >= 2) => Len(V!FlattenSeq(ss)) >= 2 * Len(ss)
         /\ (\A i \in 1..Len(ss) : Len(ss[i]) = 1) => Len(V!FlattenSeq(ss)) = Len(ss)
         /\ Len(ss) = 1 => V!FlattenSeq(ss) = ss[1]
<1>1. Len(ss) \in Nat /\ IsSeq(ss) /\ \A i \in 1..Len(ss) : IsSeq(ss[i])
  BY SeqFacts DEF IsSeqs
<1>2. CASE Len(ss) = 0
  <2>1. V!FlattenSeq(ss) = ss
    BY <1>2 DEF V!FlattenSeq
  <2>2. V!Range(ss) = {} /\ {V!Range(ss[i]) : i \in 1..Len(ss)} = {}
    BY <1>1, <1>2, SeqFacts
  <2>. QED BY <1>1, <1>2, <2>1, <2>2
<1>3. CASE Len(ss) # 0
  <2>. DEFINE n == Len(ss)
  <2>0. n \in Nat /\ n >= 1
    BY <1>1, <1>3
  <2>1. PICK f : /\ V!FlattenSeq(ss) = f[n]
                 /\ f[1] = ss[1]
                 /\ \A i \in 2..n : f[i] = f[i - 1] \o ss[i]
    BY <1>1, <1>3, Flattened
  <2>2. \A i \in 1..n : IsSeq(ss[i]) /\ Len(ss[i]) \in Nat
    BY <1>1, SeqFacts
  <2>. HIDE DEF n
  <2>3. UpTo(f, ss, 1)
    <3>1. 1 \in 1..n /\ 1..1 = {1}
      BY <2>0
    <3>2. UNION {V!Range(ss[i]) : i \in 1..1} = V!Range(ss[1])
      BY <3>1
    <3>. QED BY <2>1, <2>2, <3>1, <3>2 DEF UpTo
  <2>4. ASSUME NEW k \in 2..n, UpTo(f, ss, k - 1) PROVE UpTo(f, ss, k)
    <3>1. k \in 1..n /\ k - 1 \in 1..n /\ 1..k = 1..(k - 1) \cup {k} /\ k \in Nat /\ k - 1 \in Nat
      BY <2>0
    <3>2. f[k] = f[k - 1] \o ss[k]
      BY <2>1
    <3>3. IsSeq(f[k - 1]) /\ IsSeq(ss[k])
      BY <2>2, <2>4, <3>1 DEF UpTo
    <3>4. /\ IsSeq(f[k]) /\ Len(f[k]) = Len(f[k - 1]) + Len(ss[k])
          /\ V!Range(f[k]) = V!Range(f[k - 1]) \cup V!Range(ss[k])
      BY <3>2, <3>3, RowsJoined
    <3>5. V!Range(f[k]) = UNION {V!Range(ss[i]) : i \in 1..k}
      <4>1. V!Range(f[k - 1]) = UNION {V!Range(ss[i]) : i \in 1..(k - 1)}
        BY <2>4 DEF UpTo
      <4>. QED BY <3>1, <3>4, <4>1
    <3>6. Len(f[k - 1]) \in Nat /\ Len(ss[k]) \in Nat
      BY <3>3, SeqFacts
    <3>0. Len(f[k]) = Len(f[k - 1]) + Len(ss[k]) /\ Len(f[k]) \in Nat /\ k \in Int
      <4>1. Len(f[k]) \in Nat
        BY <3>4, SeqFacts
      <4>2. k \in Int
        BY <3>1
      <4>3. Len(f[k]) = Len(f[k - 1]) + Len(ss[k])
        BY <3>4
      <4>. QED BY <4>1, <4>2, <4>3
    <3>7. ASSUME \A i \in 1..k : Len(ss[i]) >= 1 PROVE Len(f[k]) >= k
      <4>1. Len(f[k - 1]) >= k - 1 /\ Len(ss[k]) >= 1
        BY <2>4, <3>1, <3>7 DEF UpTo
      <4>. QED BY <3>0, <3>6, <4>1, LongerBy
    <3>8. ASSUME \A i \in 1..k : Len(ss[i]) >= 2 PROVE Len(f[k]) >= 2 * k
      <4>1. Len(f[k - 1]) >= 2 * (k - 1) /\ Len(ss[k]) >= 2
        BY <2>4, <3>1, <3>8 DEF UpTo
      <4>. QED BY <3>0, <3>6, <4>1, LongerBy
    <3>9. ASSUME \A i \in 1..k : Len(ss[i]) = 1 PROVE Len(f[k]) = k
      <4>1. Len(f[k - 1]) = k - 1 /\ Len(ss[k]) = 1
        BY <2>4, <3>1, <3>9 DEF UpTo
      <4>. QED BY <3>0, <3>6, <4>1, LongerBy
    <3>. QED BY <3>4, <3>5, <3>7, <3>8, <3>9 DEF UpTo
  <2>5. UpTo(f, ss, n)
    <3>. DEFINE bad == {k \in 1..n : ~UpTo(f, ss, k)}
    <3>1. SUFFICES ASSUME bad # {} PROVE FALSE
      BY <2>0
    <3>2. bad \subseteq Nat
      BY <2>0
    <3>3. PICK k \in bad : \A m \in bad : k <= m
      BY <3>1, <3>2, LeastNumber
    <3>4. k # 1
      BY <2>3, <3>3
    <3>5. k \in 2..n /\ k - 1 \in 1..n /\ ~(k <= k - 1)
      BY <2>0, <3>3, <3>4
    <3>6. UpTo(f, ss, k - 1)
      BY <3>3, <3>5
    <3>. QED BY <2>4, <3>3, <3>5, <3>6
  <2>6. n = 1 => V!FlattenSeq(ss) = ss[1]
    BY <2>1
  <2>7. n = Len(ss)
    BY DEF n
  <2>. QED BY <2>1, <2>5, <2>6, <2>7 DEF UpTo
<1>. QED BY <1>2, <1>3

\* The same of a sequence made one by one.
LEMMA FlattenEach ==
  ASSUME NEW n \in Nat, NEW ss, ss = [i \in 1..n |-> ss[i]], \A i \in 1..n : IsSeq(ss[i])
  PROVE  IsSeqs(ss) /\ Len(ss) = n
<1>1. ss \in Seq({ss[i] : i \in 1..n}) /\ Len(ss) = n
  <2>1. \A i \in 1..n : ss[i] \in {ss[k] : k \in 1..n}
    OBVIOUS
  <2>2. DOMAIN ss = 1..n
    OBVIOUS
  <2>. QED BY <2>1, <2>2, IsASeq, LenProperties
<1>. QED BY <1>1, SeqIs DEF IsSeqs

-----------------------------------------------------------------------------
(* The parts of a frame. *)

\* Rows, of these kinds only.
Of(kinds, s) == IsSeq(s) /\ \A r \in V!Range(s) : r[1] \in kinds

LEMMA OfJoined ==
  ASSUME NEW kinds, NEW s, NEW t, Of(kinds, s), Of(kinds, t)
  PROVE  Of(kinds, s \o t)
BY RowsJoined DEF Of

LEMMA OfRows ==
  ASSUME NEW kinds, NEW n \in Nat, NEW row, row[1] \in kinds
  PROVE  Of(kinds, V!Rows(n, row)) /\ Len(V!Rows(n, row)) = n
<1>1. \A r \in V!Range(V!Rows(n, row)) : r = row
  BY RowsAre
<1>. QED BY <1>1, RowsAre DEF Of

LEMMA OfFlatten ==
  ASSUME NEW kinds, NEW n \in Nat, NEW ss, ss = [i \in 1..n |-> ss[i]], \A i \in 1..n : Of(kinds, ss[i])
  PROVE  Of(kinds, V!FlattenSeq(ss))
<1>1. IsSeqs(ss) /\ Len(ss) = n
  BY FlattenEach DEF Of
<1>2. IsSeq(V!FlattenSeq(ss)) /\ V!Range(V!FlattenSeq(ss)) = UNION {V!Range(ss[i]) : i \in 1..n}
  BY <1>1, FlattenFacts
<1>. QED BY <1>2 DEF Of

LEMMA GapIs == IsSeq(V!Gap) /\ Len(V!Gap) = 1 /\ V!Range(V!Gap) = {<<"gap", Null>>}
BY RowIs DEF V!Gap

LEMMA HeaderIs == IsSeq(V!Header) /\ Len(V!Header) = 2 /\ V!Range(V!Header) = {<<"header", Null>>}
<1>1. 2 \in Nat /\ 2 # 0
  OBVIOUS
<1>. QED BY <1>1, RowsAre DEF V!Header

LEMMA PanelIs ==
  ASSUME NEW body, IsSeq(body)
  PROVE  /\ IsSeq(V!Panel(body)) /\ Len(V!Panel(body)) = Len(body) + 2
         /\ V!Range(V!Panel(body)) = V!Range(body) \cup {<<"border", Null>>}
         /\ \A i \in 1..Len(body) : V!Panel(body)[i + 1] = body[i]
<1>0. PICK edge : edge = <<<<"border", Null>>>>
  OBVIOUS
<1>9. PICK top : top = edge \o body
  OBVIOUS
<1>1. Len(edge) = 1 /\ V!Range(edge) = {<<"border", Null>>}
  BY <1>0, RowIs
<1>2. IsSeq(edge)
  BY <1>0, RowIs
<1>3. /\ IsSeq(top) /\ Len(top) = Len(edge) + Len(body)
      /\ V!Range(top) = V!Range(edge) \cup V!Range(body)
      /\ \A i \in 1..Len(body) : top[Len(edge) + i] = body[i]
  BY <1>9, <1>2, RowsJoined
<1>4. IsSeq(top) /\ V!Panel(body) = top \o edge
  BY <1>0, <1>3, <1>9 DEF V!Panel
<1>5. /\ IsSeq(V!Panel(body)) /\ Len(V!Panel(body)) = Len(top) + Len(edge)
      /\ V!Range(V!Panel(body)) = V!Range(top) \cup V!Range(edge)
      /\ \A i \in 1..Len(top) : V!Panel(body)[i] = top[i]
  BY <1>2, <1>4, RowsJoined
<1>6. Len(body) \in Nat
  BY SeqFacts
<1>7. Len(V!Panel(body)) = Len(body) + 2
  BY <1>1, <1>3, <1>5, <1>6
<1>8. ASSUME NEW i \in 1..Len(body) PROVE V!Panel(body)[i + 1] = body[i]
  <2>1. i + 1 \in 1..Len(top) /\ Len(edge) + i = i + 1
    BY <1>1, <1>3, <1>6
  <2>. QED BY <1>3, <1>5, <2>1
<1>. QED BY <1>1, <1>3, <1>5, <1>7, <1>8

LEMMA OfPanel ==
  ASSUME NEW kinds, NEW body, Of(kinds, body), "border" \in kinds
  PROVE  Of(kinds, V!Panel(body)) /\ Len(V!Panel(body)) = Len(body) + 2 /\ Len(body) \in Nat
<1>1. IsSeq(body)
  BY DEF Of
<1>2. IsSeq(V!Panel(body)) /\ V!Range(V!Panel(body)) = V!Range(body) \cup {<<"border", Null>>}
  BY <1>1, PanelIs
<1>3. \A r \in V!Range(V!Panel(body)) : r[1] \in kinds
  BY <1>2 DEF Of
<1>. QED BY <1>1, <1>2, <1>3, PanelIs, SeqFacts DEF Of

\* A panel between gaps, before or after it.
LEMMA OfGapped ==
  ASSUME NEW kinds, NEW body, Of(kinds, body), {"border", "gap"} \subseteq kinds
  PROVE  /\ Of(kinds, V!Panel(body) \o V!Gap) /\ Len(V!Panel(body) \o V!Gap) = Len(body) + 3
         /\ Of(kinds, V!Gap \o V!Panel(body)) /\ Len(V!Gap \o V!Panel(body)) = Len(body) + 3
         /\ Len(body) \in Nat
<1>1. Of(kinds, V!Gap) /\ Len(V!Gap) = 1 /\ IsSeq(V!Gap)
  BY GapIs DEF Of
<1>2. Of(kinds, V!Panel(body)) /\ IsSeq(V!Panel(body)) /\ Len(V!Panel(body)) = Len(body) + 2 /\ Len(body) \in Nat
  BY OfPanel DEF Of
<1>3. Len(V!Panel(body) \o V!Gap) = Len(V!Panel(body)) + Len(V!Gap)
  BY <1>1, <1>2, RowsJoined
<1>4. Len(V!Gap \o V!Panel(body)) = Len(V!Gap) + Len(V!Panel(body))
  BY <1>1, <1>2, RowsJoined
<1>. QED BY <1>1, <1>2, <1>3, <1>4, OfJoined

-----------------------------------------------------------------------------
(* The panels. *)

LEMMA ScreenConstants == Screens \subseteq V!ClusterSnapshot /\ Null \notin Screens /\ Sizes \subseteq Nat \X Nat
BY ServerAssumption DEF V!ScreenAssumption

LEMMA TrendsAre ==
  ASSUME NEW shot, NEW width \in Nat, NEW height \in Nat
  PROVE  /\ Of({"gap", "border", "trends"}, V!Trends(shot, width, height))
         /\ height < 24 => V!Trends(shot, width, height) = <<>>
<1>. DEFINE rows == V!AtLeast(V!Min({10, height \div 7}), 3)
            kinds == {"gap", "border", "trends"}
<1>1. rows \in Nat
  <2>1. height \div 7 \in Nat
    OBVIOUS
  <2>2. V!Min({10, height \div 7}) \in Nat
    <3>1. \A a, b \in Nat : V!Min({a, b}) \in Nat
      <4>. TAKE a, b \in Nat
      <4>1. \E x \in {a, b} : \A y \in {a, b} : x =< y
        OBVIOUS
      <4>. QED BY <4>1 DEF V!Min
    <3>. QED BY <2>1, <3>1
  <2>3. \A a, b \in Nat : V!Max({a, b}) \in Nat
    <3>. TAKE a, b \in Nat
    <3>1. \E x \in {a, b} : \A y \in {a, b} : x >= y
      OBVIOUS
    <3>. QED BY <3>1 DEF V!Max
  <2>. QED BY <2>2, <2>3 DEF V!AtLeast
<1>. HIDE DEF rows
<1>2. Of(kinds, V!Rows(rows + 1, <<"trends", Null>>))
  BY <1>1, OfRows
<1>3. Of(kinds, V!Panel(V!Rows(rows + 1, <<"trends", Null>>)) \o V!Gap)
  BY <1>2, OfGapped
<1>4. Of(kinds, <<>>)
  BY NoRows DEF Of
<1>5. V!Trends(shot, width, height) \in {<<>>, V!Panel(V!Rows(rows + 1, <<"trends", Null>>)) \o V!Gap}
  BY DEF V!Trends, rows
<1>6. height < 24 => V!Trends(shot, width, height) = <<>>
  BY DEF V!Trends
<1>. QED BY <1>3, <1>4, <1>5, <1>6

LEMMA OnlineAre ==
  ASSUME NEW nodes \in Seq(V!NodeSnapshot)
  PROVE  /\ V!Online(nodes) \in Seq(V!NodeSnapshot)
         /\ Len(nodes) = 1 => V!Online(nodes) = IF nodes[1].status = "online" THEN nodes ELSE <<>>
<1>. DEFINE ss == [i \in DOMAIN nodes |-> IF nodes[i].status = "online" THEN <<nodes[i]>> ELSE <<>>]
<1>1. V!Online(nodes) = V!FlattenSeq(ss)
  BY DEF V!Online
<1>2. DOMAIN nodes = 1..Len(nodes) /\ Len(nodes) \in Nat
  OBVIOUS
<1>3. \A i \in 1..Len(nodes) : ss[i] = IF nodes[i].status = "online" THEN <<nodes[i]>> ELSE <<>>
  BY <1>2
<1>4. ss = [i \in 1..Len(nodes) |-> ss[i]]
  BY <1>2
<1>. HIDE DEF ss
<1>5. \A i \in 1..Len(nodes) : IsSeq(ss[i]) /\ V!Range(ss[i]) \subseteq {nodes[i]}
  BY <1>3, RowIs, NoRows
<1>6. IsSeqs(ss) /\ Len(ss) = Len(nodes)
  BY <1>2, <1>4, <1>5, FlattenEach
<1>7. /\ IsSeq(V!FlattenSeq(ss))
      /\ V!Range(V!FlattenSeq(ss)) = UNION {V!Range(ss[i]) : i \in 1..Len(nodes)}
      /\ Len(nodes) = 1 => V!FlattenSeq(ss) = ss[1]
  BY <1>6, FlattenFacts
<1>8. V!Range(V!FlattenSeq(ss)) \subseteq V!NodeSnapshot
  <2>1. \A i \in 1..Len(nodes) : nodes[i] \in V!NodeSnapshot
    BY <1>2, ElementOfSeq
  <2>2. \A i \in 1..Len(nodes) : V!Range(ss[i]) \subseteq V!NodeSnapshot
    BY <1>5, <2>1
  <2>. QED BY <1>7, <2>2
<1>9. V!Online(nodes) \in Seq(V!NodeSnapshot)
  <2>1. \A i \in 1..Len(V!FlattenSeq(ss)) : V!FlattenSeq(ss)[i] \in V!NodeSnapshot
    BY <1>7, <1>8, SeqFacts
  <2>2. V!FlattenSeq(ss) \in Seq(V!Range(V!FlattenSeq(ss)))
    BY <1>7 DEF IsSeq
  <2>. QED BY <1>1, <1>8, <2>2
<1>10. Len(nodes) = 1 => V!Online(nodes) = IF nodes[1].status = "online" THEN nodes ELSE <<>>
  <2>1. Len(nodes) = 1 => nodes = <<nodes[1]>>
    OBVIOUS
  <2>. QED BY <1>1, <1>3, <1>7, <2>1
<1>. QED BY <1>9, <1>10

LEMMA ClusterIs ==
  ASSUME NEW shot \in V!ClusterSnapshot, NEW width \in Nat
  PROVE  /\ Of({"gap", "border", "cluster"}, V!ClusterSummary(shot, width))
         /\ V!ClusterSummary(shot, width) = <<>> \/ Len(V!ClusterSummary(shot, width)) >= 8
<1>. DEFINE count == Len(V!Online(shot.nodes))
            fabric == 3 + (IF shot.links = 0 THEN 1 ELSE V!Min({shot.links, count + 2})) + 1
            rows == V!Max({3 + count, fabric})
            kinds == {"gap", "border", "cluster"}
<1>1. shot.nodes \in Seq(V!NodeSnapshot) /\ shot.links \in Nat
  BY DEF V!ClusterSnapshot
<1>2. count \in Nat
  BY <1>1, OnlineAre
<1>. HIDE DEF count
<1>3. fabric \in Nat
  <2>1. \A a, b \in Nat : V!Min({a, b}) \in Nat
    <3>. TAKE a, b \in Nat
    <3>1. \E x \in {a, b} : \A y \in {a, b} : x =< y
      OBVIOUS
    <3>. QED BY <3>1 DEF V!Min
  <2>. QED BY <1>1, <1>2, <2>1
<1>. HIDE DEF fabric
<1>4. rows \in Nat /\ rows >= 3 + count
  <2>1. \A a, b \in Nat : V!Max({a, b}) \in Nat /\ V!Max({a, b}) >= a
    <3>. TAKE a, b \in Nat
    <3>1. \E x \in {a, b} : \A y \in {a, b} : x >= y
      OBVIOUS
    <3>. QED BY <3>1 DEF V!Max
  <2>. QED BY <1>2, <1>3, <2>1
<1>. HIDE DEF rows
<1>5. PICK body : body = V!Rows(rows, <<"cluster", Null>>)
  OBVIOUS
<1>6. /\ Of(kinds, V!Panel(V!Rows(rows, <<"cluster", Null>>)) \o V!Gap)
      /\ Len(V!Panel(V!Rows(rows, <<"cluster", Null>>)) \o V!Gap) = rows + 3
  <2>1. Of(kinds, body) /\ Len(body) = rows
    BY <1>4, <1>5, OfRows
  <2>2. {"border", "gap"} \subseteq kinds
    OBVIOUS
  <2>. HIDE DEF kinds
  <2>3. Of(kinds, V!Panel(body) \o V!Gap) /\ Len(V!Panel(body) \o V!Gap) = rows + 3
    BY <2>1, <2>2, OfGapped
  <2>. QED BY <1>5, <2>3
<1>7. Of(kinds, <<>>)
  BY NoRows DEF Of
<1>8. \/ V!ClusterSummary(shot, width) = <<>>
      \/ count >= 2 /\ V!ClusterSummary(shot, width) = V!Panel(V!Rows(rows, <<"cluster", Null>>)) \o V!Gap
  BY <1>2 DEF V!ClusterSummary, count, fabric, rows
<1>9. rows + 3 >= 8 \/ V!ClusterSummary(shot, width) = <<>>
  BY <1>2, <1>4, <1>8
<1>. QED BY <1>6, <1>7, <1>8, <1>9

LEMMA NodeRowsAre ==
  ASSUME NEW n \in V!NodeSnapshot, NEW inner \in Int, NEW d, d.compact \in BOOLEAN
  PROVE  /\ IsSeq(V!NodeRows(n, inner, d)) /\ V!Range(V!NodeRows(n, inner, d)) = {<<"node", n.id>>}
         /\ Len(V!NodeRows(n, inner, d)) \in Nat
         /\ d.compact => Len(V!NodeRows(n, inner, d)) = 1
         /\ ~d.compact => Len(V!NodeRows(n, inner, d)) >= 2
<1>. DEFINE grid == IF d.grid THEN V!CoreRows(n.cores, inner) ELSE 0
            meters == IF d.gauges /\ inner >= 96 THEN 4 + 1 + 2 ELSE 4
            rows == IF d.compact THEN 1 ELSE IF n.status # "online" THEN 2 ELSE 1 + meters + grid + 1
<1>1. n.cores \in Nat
  BY DEF V!NodeSnapshot
<1>2. V!CoreRows(n.cores, inner) \in Nat
  <2>1. (n.cores + 2 - 1) \div 2 \in Nat /\ (n.cores + 4 - 1) \div 4 \in Nat
    BY <1>1
  <2>2. V!CeilDiv(n.cores, 2) \in Nat /\ V!CeilDiv(n.cores, 4) \in Nat
    BY <2>1 DEF V!CeilDiv
  <2>. DEFINE columns == IF n.cores > 12 THEN 4 ELSE 2
              cell == (inner - 2 - (columns - 1)) \div columns
              more == IF cell >= 14 THEN 2 + V!CeilDiv(n.cores, columns) ELSE IF inner > n.cores + 20 THEN 1 ELSE 0
  <2>3. V!CeilDiv(n.cores, columns) \in Nat
    BY <2>2
  <2>. HIDE DEF columns, cell
  <2>4. more \in Nat
    BY <2>3
  <2>5. V!CoreRows(n.cores, inner) = IF n.cores = 0 THEN 0 ELSE 1 + more
    BY DEF V!CoreRows, columns, cell
  <2>. HIDE DEF more
  <2>. QED BY <2>4, <2>5
<1>3. grid \in Nat /\ meters \in Nat
  BY <1>2
<1>4. V!NodeRows(n, inner, d) = V!Rows(rows, <<"node", n.id>>)
  BY DEF V!NodeRows
<1>. HIDE DEF grid, meters
<1>5. rows \in Nat /\ rows # 0 /\ (d.compact => rows = 1) /\ (~d.compact => rows >= 2)
  BY <1>3
<1>. HIDE DEF rows
<1>6. /\ IsSeq(V!NodeRows(n, inner, d)) /\ Len(V!NodeRows(n, inner, d)) = rows
      /\ V!Range(V!NodeRows(n, inner, d)) = {<<"node", n.id>>}
  BY <1>4, <1>5, RowsAre
<1>. QED BY <1>5, <1>6

\* What the panel of the nodes has between its borders.
NodesBody(nodes, inner, d) ==
  V!FlattenSeq([i \in DOMAIN nodes |->
    (IF i > 1 /\ ~d.compact THEN V!Gap ELSE <<>>) \o V!NodeRows(nodes[i], inner, d)])

NodeSubjects(nodes) == {<<"node", nodes[i].id>> : i \in DOMAIN nodes}

LEMMA NodesBodyIs ==
  ASSUME NEW nodes \in Seq(V!NodeSnapshot), NEW inner \in Int, NEW d, d.compact \in BOOLEAN
  PROVE  /\ IsSeq(NodesBody(nodes, inner, d)) /\ Len(NodesBody(nodes, inner, d)) >= Len(nodes)
         /\ NodeSubjects(nodes) \subseteq V!Range(NodesBody(nodes, inner, d))
         /\ V!Range(NodesBody(nodes, inner, d)) \subseteq NodeSubjects(nodes) \cup {<<"gap", Null>>}
         /\ d.compact => Len(NodesBody(nodes, inner, d)) = Len(nodes)
         /\ ~d.compact => Len(NodesBody(nodes, inner, d)) >= 2 * Len(nodes)
         /\ Len(nodes) = 1 => V!Range(NodesBody(nodes, inner, d)) = NodeSubjects(nodes)
<1>. DEFINE pre(i) == IF i > 1 /\ ~d.compact THEN V!Gap ELSE <<>>
            node(i) == V!NodeRows(nodes[i], inner, d)
            ss == [i \in DOMAIN nodes |-> pre(i) \o node(i)]
<1>1. DOMAIN nodes = 1..Len(nodes) /\ Len(nodes) \in Nat /\ \A i \in 1..Len(nodes) : nodes[i] \in V!NodeSnapshot
  BY ElementOfSeq
<1>2. NodesBody(nodes, inner, d) = V!FlattenSeq(ss)
  BY DEF NodesBody
<1>3. \A i \in 1..Len(nodes) : IsSeq(pre(i)) /\ Len(pre(i)) \in Nat /\ V!Range(pre(i)) \subseteq {<<"gap", Null>>}
  BY GapIs, NoRows
<1>4. pre(1) = <<>>
  OBVIOUS
<1>5. \A i \in 1..Len(nodes) :
        /\ IsSeq(node(i)) /\ V!Range(node(i)) = {<<"node", nodes[i].id>>} /\ Len(node(i)) \in Nat
        /\ d.compact => Len(node(i)) = 1
        /\ ~d.compact => Len(node(i)) >= 2
  BY <1>1, NodeRowsAre
<1>6. d.compact => \A i \in 1..Len(nodes) : Len(pre(i)) = 0
  BY NoRows
<1>7. \A i \in 1..Len(nodes) : ss[i] = pre(i) \o node(i)
  BY <1>1
<1>8. ss = [i \in 1..Len(nodes) |-> ss[i]]
  BY <1>1
<1>9. NodeSubjects(nodes) = {<<"node", nodes[i].id>> : i \in 1..Len(nodes)}
  BY <1>1 DEF NodeSubjects
<1>. HIDE DEF ss, pre, node
<1>10. \A i \in 1..Len(nodes) :
         /\ IsSeq(ss[i]) /\ Len(ss[i]) = Len(pre(i)) + Len(node(i))
         /\ V!Range(ss[i]) = V!Range(pre(i)) \cup V!Range(node(i))
  <2>1. ASSUME NEW i \in 1..Len(nodes)
        PROVE  /\ IsSeq(ss[i]) /\ Len(ss[i]) = Len(pre(i)) + Len(node(i))
               /\ V!Range(ss[i]) = V!Range(pre(i)) \cup V!Range(node(i))
    <3>1. IsSeq(pre(i)) /\ IsSeq(node(i))
      BY <1>3, <1>5
    <3>2. /\ IsSeq(pre(i) \o node(i)) /\ Len(pre(i) \o node(i)) = Len(pre(i)) + Len(node(i))
          /\ V!Range(pre(i) \o node(i)) = V!Range(pre(i)) \cup V!Range(node(i))
      BY <3>1, RowsJoined
    <3>. QED BY <1>7, <3>2
  <2>. QED BY <2>1
<1>11. IsSeqs(ss) /\ Len(ss) = Len(nodes)
  BY <1>1, <1>8, <1>10, FlattenEach
<1>12. /\ IsSeq(V!FlattenSeq(ss))
       /\ V!Range(V!FlattenSeq(ss)) = UNION {V!Range(ss[i]) : i \in 1..Len(nodes)}
       /\ (\A i \in 1..Len(nodes) : Len(ss[i]) >= 1) => Len(V!FlattenSeq(ss)) >= Len(nodes)
       /\ (\A i \in 1..Len(nodes) : Len(ss[i]) >= 2) => Len(V!FlattenSeq(ss)) >= 2 * Len(nodes)
       /\ (\A i \in 1..Len(nodes) : Len(ss[i]) = 1) => Len(V!FlattenSeq(ss)) = Len(nodes)
  BY <1>11, FlattenFacts
<1>13. d.compact => \A i \in 1..Len(nodes) : Len(ss[i]) = 1
  BY <1>5, <1>6, <1>10
<1>14. ~d.compact => \A i \in 1..Len(nodes) : Len(ss[i]) >= 2
  BY <1>3, <1>5, <1>10
<1>15. \A i \in 1..Len(nodes) : Len(ss[i]) >= 1
  <2>1. \A i \in 1..Len(nodes) : Len(ss[i]) \in Nat
    BY <1>3, <1>5, <1>10
  <2>2. \A k \in Nat : k = 1 \/ k >= 2 => k >= 1
    OBVIOUS
  <2>3. CASE d.compact
    BY <1>13, <2>1, <2>2, <2>3
  <2>4. CASE ~d.compact
    BY <1>14, <2>1, <2>2, <2>4
  <2>. QED BY <2>3, <2>4
<1>16. \A i \in 1..Len(nodes) : /\ <<"node", nodes[i].id>> \in V!Range(ss[i])
                                /\ V!Range(ss[i]) \subseteq {<<"node", nodes[i].id>>, <<"gap", Null>>}
  BY <1>3, <1>5, <1>10
<1>17. NodeSubjects(nodes) \subseteq V!Range(V!FlattenSeq(ss))
  BY <1>9, <1>12, <1>16
<1>18. V!Range(V!FlattenSeq(ss)) \subseteq NodeSubjects(nodes) \cup {<<"gap", Null>>}
  <2>1. ASSUME NEW r \in V!Range(V!FlattenSeq(ss)) PROVE r \in NodeSubjects(nodes) \cup {<<"gap", Null>>}
    <3>1. PICK i \in 1..Len(nodes) : r \in V!Range(ss[i])
      BY <1>12
    <3>. QED BY <1>9, <1>16, <3>1
  <2>. QED BY <2>1
<1>19. Len(nodes) = 1 => V!Range(V!FlattenSeq(ss)) = NodeSubjects(nodes)
  <2>1. SUFFICES ASSUME Len(nodes) = 1 PROVE V!Range(V!FlattenSeq(ss)) = NodeSubjects(nodes)
    OBVIOUS
  <2>2. 1..Len(nodes) = {1}
    BY <2>1
  <2>3. V!Range(ss[1]) = {<<"node", nodes[1].id>>}
    BY <1>4, <1>5, <1>10, <2>2, NoRows
  <2>. QED BY <1>9, <1>12, <2>2, <2>3
<1>. QED BY <1>2, <1>12, <1>13, <1>14, <1>15, <1>17, <1>18, <1>19

\* The panels below the nodes: nothing, or four rows and more.
Extra(kinds, s) == Of(kinds, s) /\ (s = <<>> \/ Len(s) >= 4)

LEMMA ExtraNothing == \A kinds : Extra(kinds, <<>>)
BY NoRows DEF Extra, Of

LEMMA ExtraPanel ==
  ASSUME NEW kinds, NEW body, Of(kinds, body), Len(body) >= 1, {"border", "gap"} \subseteq kinds
  PROVE  Extra(kinds, V!Gap \o V!Panel(body))
<1>1. Of(kinds, V!Gap \o V!Panel(body)) /\ Len(V!Gap \o V!Panel(body)) = Len(body) + 3 /\ Len(body) \in Nat
  BY OfGapped
<1>. QED BY <1>1 DEF Extra

LinkRows == {"gap", "border", "link"}
EngineRows == {"gap", "border", "engine"}
JobRows == {"gap", "border", "job"}
AlertRows == {"gap", "border", "alert"}

LEMMA InterconnectIs ==
  ASSUME NEW shot \in V!ClusterSnapshot
  PROVE  Extra(LinkRows, V!Interconnect(shot))
<1>1. shot.links \in Nat
  BY DEF V!ClusterSnapshot
<1>2. CASE shot.links = 0
  BY <1>2, ExtraNothing DEF V!Interconnect
<1>3. CASE shot.links # 0
  <2>1. Of(LinkRows, V!Rows(shot.links, <<"link", Null>>)) /\ Len(V!Rows(shot.links, <<"link", Null>>)) = shot.links
    BY <1>1, OfRows DEF LinkRows
  <2>2. V!Interconnect(shot) = V!Gap \o V!Panel(V!Rows(shot.links, <<"link", Null>>))
    BY <1>3 DEF V!Interconnect
  <2>3. {"border", "gap"} \subseteq LinkRows /\ shot.links >= 1
    BY <1>1, <1>3 DEF LinkRows
  <2>. QED BY <2>1, <2>2, <2>3, ExtraPanel
<1>. QED BY <1>2, <1>3

LEMMA EndpointsAre ==
  ASSUME NEW shot \in V!ClusterSnapshot
  PROVE  V!Endpoints(shot) \in Seq(V!Endpoint)
<1>. DEFINE ss == [i \in DOMAIN shot.nodes |-> shot.nodes[i].endpoints]
<1>1. shot.nodes \in Seq(V!NodeSnapshot)
  BY DEF V!ClusterSnapshot
<1>2. DOMAIN shot.nodes = 1..Len(shot.nodes) /\ Len(shot.nodes) \in Nat
  BY <1>1
<1>3. \A i \in 1..Len(shot.nodes) : shot.nodes[i].endpoints \in Seq(V!Endpoint)
  <2>1. \A i \in 1..Len(shot.nodes) : shot.nodes[i] \in V!NodeSnapshot
    BY <1>1, ElementOfSeq
  <2>2. \A n \in V!NodeSnapshot : n.endpoints \in Seq(V!Endpoint)
    BY DEF V!NodeSnapshot
  <2>. QED BY <2>1, <2>2
<1>4. (\A i \in 1..Len(shot.nodes) : ss[i] = shot.nodes[i].endpoints) /\ ss = [i \in 1..Len(shot.nodes) |-> ss[i]]
  BY <1>2
<1>5. V!Endpoints(shot) = V!FlattenSeq(ss)
  BY DEF V!Endpoints
<1>. HIDE DEF ss
<1>6. \A i \in 1..Len(shot.nodes) : IsSeq(ss[i]) /\ V!Range(ss[i]) \subseteq V!Endpoint
  BY <1>3, <1>4, SeqIs
<1>7. IsSeqs(ss) /\ Len(ss) = Len(shot.nodes)
  BY <1>2, <1>4, <1>6, FlattenEach
<1>8. IsSeq(V!FlattenSeq(ss)) /\ V!Range(V!FlattenSeq(ss)) = UNION {V!Range(ss[i]) : i \in 1..Len(shot.nodes)}
  BY <1>7, FlattenFacts
<1>9. V!Range(V!FlattenSeq(ss)) \subseteq V!Endpoint
  BY <1>6, <1>8
<1>. QED BY <1>5, <1>8, <1>9 DEF IsSeq

\* Rows for each of a sequence, one or more.
LEMMA EachHasRows ==
  ASSUME NEW kinds, NEW n \in Nat, n >= 1, NEW ss, ss = [i \in 1..n |-> ss[i]],
         \A i \in 1..n : Of(kinds, ss[i]) /\ Len(ss[i]) >= 1
  PROVE  Of(kinds, V!FlattenSeq(ss)) /\ Len(V!FlattenSeq(ss)) >= 1
<1>1. IsSeqs(ss) /\ Len(ss) = n
  BY FlattenEach DEF Of
<1>2. Len(V!FlattenSeq(ss)) >= n /\ IsSeq(V!FlattenSeq(ss))
  BY <1>1, FlattenFacts
<1>3. Len(V!FlattenSeq(ss)) \in Nat
  BY <1>2, SeqFacts
<1>. QED BY <1>2, <1>3, OfFlatten

LEMMA InferenceIs ==
  ASSUME NEW shot \in V!ClusterSnapshot
  PROVE  Extra(EngineRows, V!Inference(shot))
<1>. DEFINE all == V!Endpoints(shot)
            rows(e) == V!Rows(IF e.reachable /\ e.models THEN 2 ELSE 1, <<"engine", e.id>>)
            ss == [i \in DOMAIN all |-> rows(all[i])]
<1>1. all \in Seq(V!Endpoint)
  BY EndpointsAre
<1>2. V!Inference(shot) = IF all = <<>> THEN <<>> ELSE V!Gap \o V!Panel(V!FlattenSeq(ss))
  BY DEF V!Inference
<1>. HIDE DEF all
<1>3. DOMAIN all = 1..Len(all) /\ Len(all) \in Nat /\ (all # <<>> => Len(all) >= 1)
  BY <1>1
<1>4. \A e : Of(EngineRows, rows(e)) /\ Len(rows(e)) >= 1
  <2>. TAKE e
  <2>1. (IF e.reachable /\ e.models THEN 2 ELSE 1) \in Nat /\ (IF e.reachable /\ e.models THEN 2 ELSE 1) >= 1
    OBVIOUS
  <2>2. <<"engine", e.id>>[1] \in EngineRows
    BY DEF EngineRows
  <2>. QED BY <2>1, <2>2, OfRows
<1>. HIDE DEF rows
<1>5. (\A i \in 1..Len(all) : ss[i] = rows(all[i])) /\ ss = [i \in 1..Len(all) |-> ss[i]]
  BY <1>3
<1>. HIDE DEF ss
<1>6. CASE all = <<>>
  BY <1>2, <1>6, ExtraNothing
<1>7. CASE all # <<>>
  <2>0. \A i \in 1..Len(all) : Of(EngineRows, ss[i]) /\ Len(ss[i]) >= 1
    BY <1>4, <1>5
  <2>1. Of(EngineRows, V!FlattenSeq(ss)) /\ Len(V!FlattenSeq(ss)) >= 1
    BY <1>3, <1>5, <1>7, <2>0, EachHasRows
  <2>2. {"border", "gap"} \subseteq EngineRows
    BY DEF EngineRows
  <2>. QED BY <1>2, <1>7, <2>1, <2>2, ExtraPanel
<1>. QED BY <1>6, <1>7

LEMMA WorkloadsAre ==
  ASSUME NEW shot \in V!ClusterSnapshot
  PROVE  Extra(JobRows, V!Workloads(shot))
<1>. DEFINE ss == [i \in DOMAIN shot.jobs |-> V!Rows(2, <<"job", shot.jobs[i]>>)]
<1>1. shot.jobs \in Seq(STRING)
  BY DEF V!ClusterSnapshot
<1>2. V!Workloads(shot) = IF shot.jobs = <<>> THEN <<>> ELSE V!Gap \o V!Panel(V!FlattenSeq(ss))
  BY DEF V!Workloads
<1>3. DOMAIN shot.jobs = 1..Len(shot.jobs) /\ Len(shot.jobs) \in Nat /\ (shot.jobs # <<>> => Len(shot.jobs) >= 1)
  BY <1>1
<1>4. \A j : Of(JobRows, V!Rows(2, <<"job", j>>)) /\ Len(V!Rows(2, <<"job", j>>)) >= 1
  <2>. TAKE j
  <2>1. 2 \in Nat /\ 2 >= 1 /\ <<"job", j>>[1] \in JobRows
    BY DEF JobRows
  <2>. QED BY <2>1, OfRows
<1>5. (\A i \in 1..Len(shot.jobs) : ss[i] = V!Rows(2, <<"job", shot.jobs[i]>>)) /\ ss = [i \in 1..Len(shot.jobs) |-> ss[i]]
  BY <1>3
<1>. HIDE DEF ss
<1>6. CASE shot.jobs = <<>>
  BY <1>2, <1>6, ExtraNothing
<1>7. CASE shot.jobs # <<>>
  <2>0. \A i \in 1..Len(shot.jobs) : Of(JobRows, ss[i]) /\ Len(ss[i]) >= 1
    BY <1>4, <1>5
  <2>1. Of(JobRows, V!FlattenSeq(ss)) /\ Len(V!FlattenSeq(ss)) >= 1
    BY <1>3, <1>5, <1>7, <2>0, EachHasRows
  <2>2. {"border", "gap"} \subseteq JobRows
    BY DEF JobRows
  <2>. QED BY <1>2, <1>7, <2>1, <2>2, ExtraPanel
<1>. QED BY <1>6, <1>7

LEMMA AlertsAre ==
  ASSUME NEW shot \in V!ClusterSnapshot
  PROVE  Extra(AlertRows, V!Alerts(shot))
<1>1. shot.warnings \in Nat
  BY DEF V!ClusterSnapshot
<1>2. CASE shot.warnings = 0
  BY <1>2, ExtraNothing DEF V!Alerts
<1>3. CASE shot.warnings # 0
  <2>. DEFINE n == 2 * V!Min({6, shot.warnings})
  <2>1. V!Min({6, shot.warnings}) \in Nat /\ V!Min({6, shot.warnings}) >= 1
    <3>1. \E x \in {6, shot.warnings} : \A y \in {6, shot.warnings} : x =< y
      BY <1>1
    <3>. QED BY <1>1, <1>3, <3>1 DEF V!Min
  <2>2. n \in Nat /\ n >= 1
    BY <2>1
  <2>3. V!Alerts(shot) = V!Gap \o V!Panel(V!Rows(n, <<"alert", Null>>))
    BY <1>3 DEF V!Alerts
  <2>. HIDE DEF n
  <2>4. Of(AlertRows, V!Rows(n, <<"alert", Null>>)) /\ Len(V!Rows(n, <<"alert", Null>>)) = n
    BY <2>2, OfRows DEF AlertRows
  <2>5. {"border", "gap"} \subseteq AlertRows
    BY DEF AlertRows
  <2>. QED BY <2>2, <2>3, <2>4, <2>5, ExtraPanel
<1>. QED BY <1>2, <1>3

-----------------------------------------------------------------------------
(* The overview, at each level of detail. *)

Frame(trends, cluster, body, interconnect, engines, alerts) ==
  V!Header \o V!Gap \o trends \o cluster \o V!Panel(body) \o interconnect \o engines \o alerts

LEMMA FrameFacts ==
  ASSUME NEW a, NEW b, NEW body, NEW x, NEW y, NEW z,
         IsSeq(a), IsSeq(b), IsSeq(body), IsSeq(x), IsSeq(y), IsSeq(z)
  PROVE  /\ IsSeq(Frame(a, b, body, x, y, z))
         /\ Len(Frame(a, b, body, x, y, z)) = 5 + Len(a) + Len(b) + Len(body) + Len(x) + Len(y) + Len(z)
         /\ V!Range(Frame(a, b, body, x, y, z)) =
              {<<"header", Null>>, <<"gap", Null>>, <<"border", Null>>}
              \cup V!Range(a) \cup V!Range(b) \cup V!Range(body) \cup V!Range(x) \cup V!Range(y) \cup V!Range(z)
         /\ Len(a) = 0 /\ Len(b) = 0 =>
              \A i \in 1..Len(body) : Frame(a, b, body, x, y, z)[i + 4] = body[i]
<1>0. PICK h : h = V!Header
  OBVIOUS
<1>1. PICK g : g = V!Gap
  OBVIOUS
<1>2. PICK p : p = V!Panel(body)
  OBVIOUS
<1>3. PICK s1 : s1 = h \o g
  OBVIOUS
<1>4. PICK s2 : s2 = s1 \o a
  OBVIOUS
<1>5. PICK s3 : s3 = s2 \o b
  OBVIOUS
<1>6. PICK s4 : s4 = s3 \o p
  OBVIOUS
<1>7. PICK s5 : s5 = s4 \o x
  OBVIOUS
<1>8. PICK s6 : s6 = s5 \o y
  OBVIOUS
<1>9. PICK s7 : s7 = s6 \o z
  OBVIOUS
<1>10. Frame(a, b, body, x, y, z) = s7
  BY <1>0, <1>1, <1>2, <1>3, <1>4, <1>5, <1>6, <1>7, <1>8, <1>9 DEF Frame
<1>11. IsSeq(h) /\ IsSeq(g) /\ IsSeq(p)
  BY <1>0, <1>1, <1>2, HeaderIs, GapIs, PanelIs
<1>12. /\ Len(h) = 2 /\ V!Range(h) = {<<"header", Null>>}
       /\ Len(g) = 1 /\ V!Range(g) = {<<"gap", Null>>}
       /\ Len(p) = Len(body) + 2 /\ V!Range(p) = V!Range(body) \cup {<<"border", Null>>}
  BY <1>0, <1>1, <1>2, HeaderIs, GapIs, PanelIs
<1>13. \A i \in 1..Len(body) : p[i + 1] = body[i]
  BY <1>2, PanelIs
<1>21. IsSeq(s1) /\ Len(s1) = Len(h) + Len(g) /\ V!Range(s1) = V!Range(h) \cup V!Range(g)
  BY <1>3, <1>11, RowsJoined
<1>22. IsSeq(s2) /\ Len(s2) = Len(s1) + Len(a) /\ V!Range(s2) = V!Range(s1) \cup V!Range(a)
  BY <1>4, <1>21, RowsJoined
<1>23. IsSeq(s3) /\ Len(s3) = Len(s2) + Len(b) /\ V!Range(s3) = V!Range(s2) \cup V!Range(b)
  BY <1>5, <1>22, RowsJoined
<1>24. /\ IsSeq(s4) /\ Len(s4) = Len(s3) + Len(p) /\ V!Range(s4) = V!Range(s3) \cup V!Range(p)
       /\ \A i \in 1..Len(p) : s4[Len(s3) + i] = p[i]
  <2>1. IsSeq(s3)
    BY <1>23
  <2>. QED BY <1>6, <1>11, <2>1, RowsJoined
<1>25. /\ IsSeq(s5) /\ Len(s5) = Len(s4) + Len(x) /\ V!Range(s5) = V!Range(s4) \cup V!Range(x)
       /\ \A i \in 1..Len(s4) : s5[i] = s4[i]
  BY <1>7, <1>24, RowsJoined
<1>26. /\ IsSeq(s6) /\ Len(s6) = Len(s5) + Len(y) /\ V!Range(s6) = V!Range(s5) \cup V!Range(y)
       /\ \A i \in 1..Len(s5) : s6[i] = s5[i]
  BY <1>8, <1>25, RowsJoined
<1>27. /\ IsSeq(s7) /\ Len(s7) = Len(s6) + Len(z) /\ V!Range(s7) = V!Range(s6) \cup V!Range(z)
       /\ \A i \in 1..Len(s6) : s7[i] = s6[i]
  BY <1>9, <1>26, RowsJoined
<1>28. /\ Len(a) \in Nat /\ Len(b) \in Nat /\ Len(body) \in Nat /\ Len(x) \in Nat /\ Len(y) \in Nat /\ Len(z) \in Nat
  BY SeqFacts
<1>29. Len(s7) = 5 + Len(a) + Len(b) + Len(body) + Len(x) + Len(y) + Len(z)
  BY <1>12, <1>21, <1>22, <1>23, <1>24, <1>25, <1>26, <1>27, <1>28
<1>30. V!Range(s7) = {<<"header", Null>>, <<"gap", Null>>, <<"border", Null>>}
         \cup V!Range(a) \cup V!Range(b) \cup V!Range(body) \cup V!Range(x) \cup V!Range(y) \cup V!Range(z)
  <2>1. V!Range(s3) = {<<"header", Null>>, <<"gap", Null>>} \cup V!Range(a) \cup V!Range(b)
    BY <1>12, <1>21, <1>22, <1>23
  <2>2. V!Range(s4) = {<<"header", Null>>, <<"gap", Null>>, <<"border", Null>>}
                        \cup V!Range(a) \cup V!Range(b) \cup V!Range(body)
    BY <1>12, <1>24, <2>1
  <2>. QED BY <1>25, <1>26, <1>27, <2>2
<1>31. ASSUME Len(a) = 0, Len(b) = 0, NEW i \in 1..Len(body) PROVE s7[i + 4] = body[i]
  <2>1. Len(s3) = 3 /\ Len(s4) = Len(body) + 5 /\ Len(s5) >= Len(s4) /\ Len(s6) >= Len(s5) /\ Len(s5) \in Nat /\ Len(s6) \in Nat
    BY <1>12, <1>21, <1>22, <1>23, <1>24, <1>25, <1>26, <1>28, <1>31
  <2>2. i + 1 \in 1..Len(p) /\ Len(s3) + (i + 1) = i + 4
    BY <1>12, <1>28, <2>1
  <2>3. s4[i + 4] = body[i]
    <3>1. s4[Len(s3) + (i + 1)] = p[i + 1]
      BY <1>24, <2>2
    <3>. QED BY <1>13, <2>2, <3>1
  <2>4. i + 4 \in 1..Len(s4) /\ i + 4 \in 1..Len(s5) /\ i + 4 \in 1..Len(s6)
    BY <1>28, <2>1
  <2>5. s5[i + 4] = s4[i + 4] /\ s6[i + 4] = s5[i + 4] /\ s7[i + 4] = s6[i + 4]
    BY <1>25, <1>26, <1>27, <2>4
  <2>. QED BY <2>3, <2>5
<1>. QED BY <1>10, <1>27, <1>29, <1>30, <1>31

\* What each level puts into the frame.
TrendsOf(shot, width, height, d) == IF d.trends THEN V!Trends(shot, width, height) ELSE <<>>
ClusterOf(shot, nodes, width, d) ==
  IF d.cluster /\ Len(nodes) = Len(shot.nodes) THEN V!ClusterSummary(shot, width) ELSE <<>>

LinksOf(shot, d) == IF d.secondary = "none" THEN <<>> ELSE V!Interconnect(shot)
EnginesOf(shot, d) == IF d.secondary = "all" THEN V!Inference(shot) \o V!Workloads(shot) ELSE <<>>
AlertsOf(shot, d) == IF d.secondary = "none" THEN <<>> ELSE V!Alerts(shot)

Kinds == {"node", "link", "engine", "job", "alert"}
NoSubject(s) == \A r \in V!Range(s) : r[1] \notin Kinds

LEMMA OverviewFrame ==
  ASSUME NEW shot, NEW nodes, NEW width, NEW height, NEW d
  PROVE  V!ComposeOverview(shot, nodes, width, height, d) =
           Frame(TrendsOf(shot, width, height, d), ClusterOf(shot, nodes, width, d), NodesBody(nodes, width - 4, d),
                 LinksOf(shot, d), EnginesOf(shot, d), AlertsOf(shot, d))
<1>1. \A inner : V!NodesPanel(nodes, inner, d) = V!Panel(NodesBody(nodes, inner, d))
  BY Zenon DEF V!NodesPanel, NodesBody
<1>. QED BY <1>1 DEF V!ComposeOverview, Frame, TrendsOf, ClusterOf, LinksOf, EnginesOf, AlertsOf

LEMMA LevelParts ==
  ASSUME NEW shot \in V!ClusterSnapshot, NEW nodes, NEW width \in Nat, NEW height \in Nat, NEW d
  PROVE  /\ IsSeq(TrendsOf(shot, width, height, d)) /\ NoSubject(TrendsOf(shot, width, height, d))
         /\ height < 24 => Len(TrendsOf(shot, width, height, d)) = 0
         /\ IsSeq(ClusterOf(shot, nodes, width, d)) /\ NoSubject(ClusterOf(shot, nodes, width, d))
         /\ Len(ClusterOf(shot, nodes, width, d)) = 0 \/ Len(ClusterOf(shot, nodes, width, d)) >= 8
         /\ IsSeq(LinksOf(shot, d)) /\ (Len(LinksOf(shot, d)) = 0 \/ Len(LinksOf(shot, d)) >= 4)
         /\ IsSeq(EnginesOf(shot, d)) /\ (Len(EnginesOf(shot, d)) = 0 \/ Len(EnginesOf(shot, d)) >= 4)
         /\ IsSeq(AlertsOf(shot, d)) /\ (Len(AlertsOf(shot, d)) = 0 \/ Len(AlertsOf(shot, d)) >= 4)
<1>0. IsSeq(<<>>) /\ Len(<<>>) = 0 /\ NoSubject(<<>>)
  BY NoRows DEF NoSubject
<1>1. /\ IsSeq(TrendsOf(shot, width, height, d)) /\ NoSubject(TrendsOf(shot, width, height, d))
      /\ height < 24 => Len(TrendsOf(shot, width, height, d)) = 0
  <2>1. IsSeq(V!Trends(shot, width, height)) /\ (height < 24 => V!Trends(shot, width, height) = <<>>)
    BY TrendsAre DEF Of
  <2>2. NoSubject(V!Trends(shot, width, height))
    BY TrendsAre DEF Of, NoSubject, Kinds
  <2>. QED BY <1>0, <2>1, <2>2 DEF TrendsOf
<1>2. /\ IsSeq(ClusterOf(shot, nodes, width, d)) /\ NoSubject(ClusterOf(shot, nodes, width, d))
      /\ Len(ClusterOf(shot, nodes, width, d)) = 0 \/ Len(ClusterOf(shot, nodes, width, d)) >= 8
  <2>1. /\ IsSeq(V!ClusterSummary(shot, width))
        /\ V!ClusterSummary(shot, width) = <<>> \/ Len(V!ClusterSummary(shot, width)) >= 8
    BY ClusterIs DEF Of
  <2>2. NoSubject(V!ClusterSummary(shot, width))
    BY ClusterIs DEF Of, NoSubject, Kinds
  <2>. QED BY <1>0, <2>1, <2>2 DEF ClusterOf
<1>3. IsSeq(LinksOf(shot, d)) /\ (Len(LinksOf(shot, d)) = 0 \/ Len(LinksOf(shot, d)) >= 4)
  <2>1. IsSeq(V!Interconnect(shot)) /\ (V!Interconnect(shot) = <<>> \/ Len(V!Interconnect(shot)) >= 4)
    BY InterconnectIs DEF Extra, Of
  <2>. QED BY <1>0, <2>1 DEF LinksOf
<1>4. IsSeq(AlertsOf(shot, d)) /\ (Len(AlertsOf(shot, d)) = 0 \/ Len(AlertsOf(shot, d)) >= 4)
  <2>1. IsSeq(V!Alerts(shot)) /\ (V!Alerts(shot) = <<>> \/ Len(V!Alerts(shot)) >= 4)
    BY AlertsAre DEF Extra, Of
  <2>. QED BY <1>0, <2>1 DEF AlertsOf
<1>5. IsSeq(EnginesOf(shot, d)) /\ (Len(EnginesOf(shot, d)) = 0 \/ Len(EnginesOf(shot, d)) >= 4)
  <2>. DEFINE x == V!Inference(shot)
              y == V!Workloads(shot)
  <2>1. IsSeq(x) /\ (x = <<>> \/ Len(x) >= 4)
    BY InferenceIs DEF Extra, Of
  <2>2. IsSeq(y) /\ (y = <<>> \/ Len(y) >= 4)
    BY WorkloadsAre DEF Extra, Of
  <2>. HIDE DEF x, y
  <2>3. IsSeq(x) /\ IsSeq(y)
    BY <2>1, <2>2
  <2>4. IsSeq(x \o y) /\ Len(x \o y) = Len(x) + Len(y)
    BY <2>3, RowsJoined
  <2>5. Len(x) \in Nat /\ Len(y) \in Nat
    BY <2>3, SeqFacts
  <2>6. (Len(x) = 0 \/ Len(x) >= 4) /\ (Len(y) = 0 \/ Len(y) >= 4)
    BY <2>1, <2>2
  <2>7. Len(x \o y) = 0 \/ Len(x \o y) >= 4
    BY <2>4, <2>5, <2>6
  <2>. QED BY <1>0, <2>4, <2>7 DEF EnginesOf, x, y
<1>. QED BY <1>1, <1>2, <1>3, <1>4, <1>5

\* What a frame of one level has.
HasAll(shot, nodes, height, d, frame, body) ==
  /\ IsSeq(frame) /\ Len(frame) \in Nat /\ Len(body) \in Nat /\ Len(body) >= 1 /\ Len(frame) >= 5 + Len(body)
  /\ V!Subjects(frame) = NodeSubjects(nodes) \cup V!Subjects(LinksOf(shot, d))
                         \cup V!Subjects(EnginesOf(shot, d)) \cup V!Subjects(AlertsOf(shot, d))
  /\ Len(frame) <= 8 => V!Subjects(frame) = NodeSubjects(nodes)
  /\ Len(frame) <= 8 /\ height < 24 => \A i \in 1..Len(body) : frame[i + 4] = body[i]

LEMMA OverviewFacts ==
  ASSUME NEW shot \in V!ClusterSnapshot, NEW nodes \in Seq(V!NodeSnapshot), NEW width \in Nat, NEW height \in Nat,
         NEW d, d.compact \in BOOLEAN, Len(nodes) >= 1,
         NEW frame, frame = V!ComposeOverview(shot, nodes, width, height, d),
         NEW body, body = NodesBody(nodes, width - 4, d)
  PROVE  HasAll(shot, nodes, height, d, frame, body)
<1>0. PICK a, b, x, y, z : /\ a = TrendsOf(shot, width, height, d)
                           /\ b = ClusterOf(shot, nodes, width, d)
                           /\ x = LinksOf(shot, d) /\ y = EnginesOf(shot, d) /\ z = AlertsOf(shot, d)
  OBVIOUS
<1>1. frame = Frame(a, b, body, x, y, z)
  BY <1>0, OverviewFrame
<1>2. /\ IsSeq(a) /\ NoSubject(a) /\ (height < 24 => Len(a) = 0)
      /\ IsSeq(b) /\ NoSubject(b) /\ (Len(b) = 0 \/ Len(b) >= 8)
      /\ IsSeq(x) /\ (Len(x) = 0 \/ Len(x) >= 4)
      /\ IsSeq(y) /\ (Len(y) = 0 \/ Len(y) >= 4)
      /\ IsSeq(z) /\ (Len(z) = 0 \/ Len(z) >= 4)
  BY <1>0, LevelParts
<1>3. /\ IsSeq(body) /\ Len(body) >= Len(nodes)
      /\ NodeSubjects(nodes) \subseteq V!Range(body)
      /\ V!Range(body) \subseteq NodeSubjects(nodes) \cup {<<"gap", Null>>}
  <2>1. width - 4 \in Int
    OBVIOUS
  <2>. QED BY <2>1, NodesBodyIs
<1>4. IsSeq(a) /\ IsSeq(b) /\ IsSeq(body) /\ IsSeq(x) /\ IsSeq(y) /\ IsSeq(z)
  BY <1>2, <1>3
<1>5. /\ IsSeq(frame)
      /\ Len(frame) = 5 + Len(a) + Len(b) + Len(body) + Len(x) + Len(y) + Len(z)
      /\ V!Range(frame) = {<<"header", Null>>, <<"gap", Null>>, <<"border", Null>>}
              \cup V!Range(a) \cup V!Range(b) \cup V!Range(body) \cup V!Range(x) \cup V!Range(y) \cup V!Range(z)
      /\ Len(a) = 0 /\ Len(b) = 0 => \A i \in 1..Len(body) : frame[i + 4] = body[i]
  BY <1>1, <1>4, FrameFacts
<1>6. /\ Len(a) \in Nat /\ Len(b) \in Nat /\ Len(body) \in Nat /\ Len(x) \in Nat /\ Len(y) \in Nat /\ Len(z) \in Nat
  BY <1>4, SeqFacts
<1>7. Len(body) >= 1
  <2>1. Len(nodes) \in Nat
    OBVIOUS
  <2>. QED BY <1>3, <1>6, <2>1
<1>8. Len(frame) \in Nat /\ Len(frame) >= 5 + Len(body)
  BY <1>5, <1>6
<1>9. V!Subjects(frame) = NodeSubjects(nodes) \cup V!Subjects(x) \cup V!Subjects(y) \cup V!Subjects(z)
  <2>1. V!Subjects(a) = {} /\ V!Subjects(b) = {}
    BY <1>2 DEF V!Subjects, NoSubject, Kinds
  <2>2. \A r \in NodeSubjects(nodes) : r[1] = "node"
    BY DEF NodeSubjects
  <2>3. V!Subjects(body) = NodeSubjects(nodes)
    <3>1. <<"gap", Null>>[1] = "gap"
      OBVIOUS
    <3>2. \A r \in V!Range(body) : r[1] \in {"node", "link", "engine", "job", "alert"} => r \in NodeSubjects(nodes)
      BY <1>3, <3>1
    <3>3. \A r \in NodeSubjects(nodes) : r \in V!Range(body) /\ r[1] \in {"node", "link", "engine", "job", "alert"}
      BY <1>3, <2>2
    <3>. QED BY <3>2, <3>3 DEF V!Subjects
  <2>4. V!Subjects(frame) = V!Subjects(a) \cup V!Subjects(b) \cup V!Subjects(body)
                            \cup V!Subjects(x) \cup V!Subjects(y) \cup V!Subjects(z)
    <3>1. \A r \in {<<"header", Null>>, <<"gap", Null>>, <<"border", Null>>} :
            r[1] \notin {"node", "link", "engine", "job", "alert"}
      OBVIOUS
    <3>. QED BY <1>5, <3>1 DEF V!Subjects
  <2>. QED BY <2>1, <2>3, <2>4
<1>10. ASSUME Len(frame) <= 8 PROVE Len(x) = 0 /\ Len(y) = 0 /\ Len(z) = 0 /\ Len(b) = 0
  BY <1>2, <1>5, <1>6, <1>7, <1>10
<1>11. ASSUME Len(frame) <= 8 PROVE V!Subjects(frame) = NodeSubjects(nodes)
  <2>1. V!Range(x) = {} /\ V!Range(y) = {} /\ V!Range(z) = {}
    BY <1>4, <1>10, <1>11, SeqFacts
  <2>2. V!Subjects(x) = {} /\ V!Subjects(y) = {} /\ V!Subjects(z) = {}
    BY <2>1 DEF V!Subjects
  <2>. QED BY <1>9, <2>2
<1>12. Len(frame) <= 8 /\ height < 24 => \A i \in 1..Len(body) : frame[i + 4] = body[i]
  BY <1>2, <1>5, <1>10
<1>. QED BY <1>0, <1>5, <1>6, <1>7, <1>8, <1>9, <1>11, <1>12 DEF HasAll

\* No level draws less than the next.
LEMMA Levels ==
  /\ DOMAIN V!DetailLevels = 1..8 /\ Len(V!DetailLevels) = 8
  /\ \A i \in 1..8 : V!DetailLevels[i].compact \in BOOLEAN
  /\ V!DetailLevels[8].compact /\ V!DetailLevels[8].secondary = "none"
  /\ \A i, j \in 1..8 : i <= j =>
       /\ V!DetailLevels[i].secondary = "none" => V!DetailLevels[j].secondary = "none"
       /\ V!DetailLevels[j].secondary = "all" => V!DetailLevels[i].secondary = "all"
<1>. DEFINE levels == V!DetailLevels
<1>1. DOMAIN levels = 1..8 /\ Len(levels) = 8
  BY DEF V!DetailLevels
<1>2. \A i \in 1..5 : levels[i].compact = FALSE /\ levels[i].secondary = "all"
  <2>1. levels[1].compact = FALSE /\ levels[1].secondary = "all"
    BY DEF V!DetailLevels
  <2>2. levels[2].compact = FALSE /\ levels[2].secondary = "all"
    BY DEF V!DetailLevels
  <2>3. levels[3].compact = FALSE /\ levels[3].secondary = "all"
    BY DEF V!DetailLevels
  <2>4. levels[4].compact = FALSE /\ levels[4].secondary = "all"
    BY DEF V!DetailLevels
  <2>5. levels[5].compact = FALSE /\ levels[5].secondary = "all"
    BY DEF V!DetailLevels
  <2>. HIDE DEF levels
  <2>. QED BY <2>1, <2>2, <2>3, <2>4, <2>5
<1>3. levels[6].compact = TRUE /\ levels[6].secondary = "all"
  BY DEF V!DetailLevels
<1>4. levels[7].compact = TRUE /\ levels[7].secondary = "links"
  BY DEF V!DetailLevels
<1>5. levels[8].compact = TRUE /\ levels[8].secondary = "none"
  BY DEF V!DetailLevels
<1>. HIDE DEF levels
<1>6. \A i \in 1..8 : i \in 1..5 \/ i = 6 \/ i = 7 \/ i = 8
  OBVIOUS
<1>7. \A i \in 1..8 : levels[i].compact \in BOOLEAN
  BY <1>2, <1>3, <1>4, <1>5, <1>6
<1>8. \A i \in 1..8 : (levels[i].secondary = "none" <=> i = 8) /\ (levels[i].secondary = "all" <=> i <= 6)
  BY <1>2, <1>3, <1>4, <1>5, <1>6
<1>9. \A i, j \in 1..8 : i <= j => (i = 8 => j = 8) /\ (j <= 6 => i <= 6)
  OBVIOUS
<1>10. \A i, j \in 1..8 : i <= j => ((levels[i].secondary = "none" => levels[j].secondary = "none")
                                   /\ (levels[j].secondary = "all" => levels[i].secondary = "all"))
  BY <1>8, <1>9
<1>11. levels[8].compact /\ levels[8].secondary = "none"
  BY <1>5
<1>. QED BY <1>1, <1>7, <1>10, <1>11 DEF levels

LEMMA NextLevel ==
  ASSUME NEW shot, NEW i \in 1..8, NEW j \in 1..8, i <= j
  PROVE  /\ V!Subjects(LinksOf(shot, V!DetailLevels[j])) \subseteq V!Subjects(LinksOf(shot, V!DetailLevels[i]))
         /\ V!Subjects(EnginesOf(shot, V!DetailLevels[j])) \subseteq V!Subjects(EnginesOf(shot, V!DetailLevels[i]))
         /\ V!Subjects(AlertsOf(shot, V!DetailLevels[j])) \subseteq V!Subjects(AlertsOf(shot, V!DetailLevels[i]))
<1>. DEFINE more == V!DetailLevels[i]
            less == V!DetailLevels[j]
<1>1. (more.secondary = "none" => less.secondary = "none") /\ (less.secondary = "all" => more.secondary = "all")
  BY Levels
<1>2. V!Subjects(<<>>) = {}
  BY NoRows DEF V!Subjects
<1>. HIDE DEF more, less
<1>3. V!Subjects(LinksOf(shot, less)) \subseteq V!Subjects(LinksOf(shot, more))
  BY <1>1, <1>2 DEF LinksOf
<1>4. V!Subjects(EnginesOf(shot, less)) \subseteq V!Subjects(EnginesOf(shot, more))
  BY <1>1, <1>2 DEF EnginesOf
<1>5. V!Subjects(AlertsOf(shot, less)) \subseteq V!Subjects(AlertsOf(shot, more))
  BY <1>1, <1>2 DEF AlertsOf
<1>. QED BY <1>3, <1>4, <1>5 DEF more, less

\* The first rows of a frame.
LEMMA FirstRows ==
  ASSUME NEW s, IsSeq(s), NEW n \in Nat, n <= Len(s)
  PROVE  /\ V!Range(SubSeq(s, 1, n)) \subseteq V!Range(s)
         /\ \A i \in 1..n : s[i] \in V!Range(SubSeq(s, 1, n))
         /\ n = Len(s) => SubSeq(s, 1, n) = s
<1>1. s \in Seq(V!Range(s)) /\ Len(s) \in Nat
  BY SeqFacts DEF IsSeq
<1>2. SubSeq(s, 1, n) = [i \in 1..n |-> s[i]]
  BY <1>1
<1>3. \A i \in 1..n : s[i] \in V!Range(s)
  BY <1>1, SeqFacts
<1>4. V!Range(SubSeq(s, 1, n)) = {s[i] : i \in 1..n}
  BY <1>2 DEF V!Range
<1>5. s = [i \in 1..Len(s) |-> s[i]]
  BY <1>1
<1>. QED BY <1>2, <1>3, <1>4, <1>5

LEMMA AtLeastIs == \A a \in Int, b \in Nat : V!AtLeast(a, b) = IF a >= b THEN a ELSE b
<1>. SUFFICES ASSUME NEW a \in Int, NEW b \in Nat PROVE V!AtLeast(a, b) = IF a >= b THEN a ELSE b
  OBVIOUS
<1>1. PICK m : m = IF a >= b THEN a ELSE b
  OBVIOUS
<1>2. m \in {a, b} /\ \A x \in {a, b} : m >= x
  BY <1>1
<1>3. \A n \in {a, b} : (\A x \in {a, b} : n >= x) => n = m
  BY <1>2
<1>. QED BY <1>1, <1>2, <1>3 DEF V!AtLeast, V!Max

LEMMA SmallerIs == \A a, b \in Nat : V!Min({a, b}) = IF a <= b THEN a ELSE b
<1>. SUFFICES ASSUME NEW a \in Nat, NEW b \in Nat PROVE V!Min({a, b}) = IF a <= b THEN a ELSE b
  OBVIOUS
<1>1. PICK m : m = IF a <= b THEN a ELSE b
  OBVIOUS
<1>2. m \in {a, b} /\ \A x \in {a, b} : m =< x
  BY <1>1
<1>3. \A n \in {a, b} : (\A x \in {a, b} : n =< x) => n = m
  BY <1>2
<1>. QED BY <1>1, <1>2, <1>3 DEF V!Min

At(shot, nodes, width, height, i) == V!ComposeOverview(shot, nodes, width, height, V!DetailLevels[i])

\* The overview is of the first level that fits, if there is one.
First(shot, nodes, width, height, j) ==
  /\ V!Overview(shot, nodes, width, height) = At(shot, nodes, width, height, j)
  /\ \A i \in 1..8 : Len(At(shot, nodes, width, height, i)) <= V!AtLeast(height - 2, 8) =>
       j <= i /\ Len(At(shot, nodes, width, height, j)) <= V!AtLeast(height - 2, 8)

LEMMA FirstThatFits ==
  ASSUME NEW shot, NEW nodes, NEW width, NEW height \in Nat
  PROVE  \E j \in 1..8 : First(shot, nodes, width, height, j)
<1>. DEFINE of(i) == At(shot, nodes, width, height, i)
            fits == {i \in DOMAIN V!DetailLevels : Len(of(i)) <= V!AtLeast(height - 2, 8)}
<1>1. V!Overview(shot, nodes, width, height) = of(IF fits = {} THEN Len(V!DetailLevels) ELSE V!Min(fits))
  BY DEF V!Overview, At
<1>2. fits = {i \in 1..8 : Len(of(i)) <= V!AtLeast(height - 2, 8)} /\ Len(V!DetailLevels) = 8
  BY Levels
<1>. HIDE DEF of, fits
<1>3. CASE fits = {}
  <2>1. V!Overview(shot, nodes, width, height) = At(shot, nodes, width, height, 8)
    BY <1>1, <1>2, <1>3 DEF of
  <2>2. \A i \in 1..8 : ~(Len(At(shot, nodes, width, height, i)) <= V!AtLeast(height - 2, 8))
    BY <1>2, <1>3 DEF of
  <2>3. First(shot, nodes, width, height, 8)
    BY <2>1, <2>2 DEF First
  <2>. QED BY <2>3
<1>4. CASE fits # {}
  <2>1. fits \subseteq Nat
    BY <1>2
  <2>2. \E j \in fits : \A i \in fits : j <= i
    BY <1>4, <2>1, LeastNumber
  <2>3. PICK j : j = V!Min(fits) /\ j \in fits /\ \A i \in fits : j <= i
    BY <2>2 DEF V!Min
  <2>4. First(shot, nodes, width, height, j)
    BY <1>1, <1>2, <1>4, <2>3 DEF of, First
  <2>. QED BY <1>2, <2>3, <2>4
<1>. QED BY <1>3, <1>4

\* What is drawn of a frame.
FirstOf(frame, height) == SubSeq(frame, 1, V!Min({Len(frame), V!AtLeast(height - 2, 0)}))

LEMMA OverviewKeeps ==
  ASSUME NEW shot \in V!ClusterSnapshot, NEW nodes \in Seq(V!NodeSnapshot), Len(nodes) >= 1,
         NEW width \in Nat, NEW height \in Nat, NEW frame, frame = V!Overview(shot, nodes, width, height),
         NEW rows, rows = FirstOf(frame, height),
         NEW i \in 1..8, Len(At(shot, nodes, width, height, i)) <= height - 2
  PROVE  V!Subjects(At(shot, nodes, width, height, i)) \subseteq V!Subjects(rows)
<1>1. PICK j \in 1..8 :
        /\ frame = At(shot, nodes, width, height, j)
        /\ Len(At(shot, nodes, width, height, i)) <= V!AtLeast(height - 2, 8) =>
             j <= i /\ Len(frame) <= V!AtLeast(height - 2, 8)
  <2>1. PICK j \in 1..8 : First(shot, nodes, width, height, j)
    BY FirstThatFits
  <2>. QED BY <2>1 DEF First
<1>2. PICK other : other = At(shot, nodes, width, height, i)
  OBVIOUS
<1>3. PICK more, less : more = V!DetailLevels[j] /\ less = V!DetailLevels[i]
  OBVIOUS
<1>4. more.compact \in BOOLEAN /\ less.compact \in BOOLEAN
  BY <1>3, Levels
<1>5. frame = V!ComposeOverview(shot, nodes, width, height, more) /\ other = V!ComposeOverview(shot, nodes, width, height, less)
  BY <1>1, <1>2, <1>3 DEF At
<1>6. PICK body : body = NodesBody(nodes, width - 4, more)
  OBVIOUS
<1>7. PICK slim : slim = NodesBody(nodes, width - 4, less)
  OBVIOUS
<1>8. /\ IsSeq(frame) /\ Len(frame) \in Nat /\ Len(body) \in Nat /\ Len(body) >= 1 /\ Len(frame) >= 5 + Len(body)
      /\ V!Subjects(frame) = NodeSubjects(nodes) \cup V!Subjects(LinksOf(shot, more))
                             \cup V!Subjects(EnginesOf(shot, more)) \cup V!Subjects(AlertsOf(shot, more))
      /\ Len(frame) <= 8 /\ height < 24 => \A k \in 1..Len(body) : frame[k + 4] = body[k]
  <2>1. HasAll(shot, nodes, height, more, frame, body)
    BY <1>4, <1>5, <1>6, OverviewFacts
  <2>. QED BY <2>1 DEF HasAll
<1>9. /\ Len(other) \in Nat /\ Len(slim) \in Nat /\ Len(slim) >= 1 /\ Len(other) >= 5 + Len(slim)
      /\ V!Subjects(other) = NodeSubjects(nodes) \cup V!Subjects(LinksOf(shot, less))
                             \cup V!Subjects(EnginesOf(shot, less)) \cup V!Subjects(AlertsOf(shot, less))
      /\ Len(other) <= 8 => V!Subjects(other) = NodeSubjects(nodes)
  <2>1. HasAll(shot, nodes, height, less, other, slim)
    BY <1>4, <1>5, <1>7, OverviewFacts
  <2>. QED BY <2>1 DEF HasAll
<1>10. Len(other) <= height - 2 /\ height - 2 >= 6 /\ V!AtLeast(height - 2, 0) = height - 2
  <2>1. Len(other) <= height - 2
    BY <1>2
  <2>. QED BY <1>9, <2>1, AtLeastIs
<1>11. j <= i /\ (Len(frame) <= height - 2 \/ Len(frame) <= 8)
  <2>1. V!AtLeast(height - 2, 8) = IF height - 2 >= 8 THEN height - 2 ELSE 8
    BY AtLeastIs
  <2>2. Len(other) <= V!AtLeast(height - 2, 8)
    BY <1>9, <1>10, <2>1
  <2>3. j <= i /\ Len(frame) <= V!AtLeast(height - 2, 8)
    BY <1>1, <1>2, <2>2
  <2>. QED BY <1>8, <2>1, <2>3
<1>12. CASE Len(frame) <= height - 2
  <2>1. V!Min({Len(frame), V!AtLeast(height - 2, 0)}) = Len(frame)
    <3>1. height - 2 \in Nat /\ Len(frame) \in Nat
      BY <1>8, <1>10
    <3>2. V!Min({Len(frame), height - 2}) = Len(frame)
      BY <1>12, <3>1, SmallerIs
    <3>. QED BY <1>10, <3>2
  <2>2. rows = frame
    BY <1>8, <2>1, FirstRows DEF FirstOf
  <2>3. /\ V!Subjects(LinksOf(shot, less)) \subseteq V!Subjects(LinksOf(shot, more))
        /\ V!Subjects(EnginesOf(shot, less)) \subseteq V!Subjects(EnginesOf(shot, more))
        /\ V!Subjects(AlertsOf(shot, less)) \subseteq V!Subjects(AlertsOf(shot, more))
    BY <1>3, <1>11, NextLevel
  <2>. QED BY <1>2, <1>8, <1>9, <2>2, <2>3
<1>13. CASE ~(Len(frame) <= height - 2)
  <2>1. height - 2 \in Nat /\ height < 24 /\ Len(frame) <= 8 /\ Len(other) <= 8 /\ height - 2 <= Len(frame) /\ height - 2 >= 6
    BY <1>8, <1>9, <1>10, <1>11, <1>13
  <2>2. V!Min({Len(frame), V!AtLeast(height - 2, 0)}) = height - 2
    BY <1>8, <1>10, <1>13, <2>1, SmallerIs
  <2>3. \A k \in 1..(height - 2) : frame[k] \in V!Range(rows)
    BY <1>8, <2>1, <2>2, FirstRows DEF FirstOf
  <2>4. \A k \in 1..Len(body) : frame[k + 4] = body[k]
    BY <1>8, <2>1
  <2>5. V!Subjects(other) = NodeSubjects(nodes)
    BY <1>9, <2>1
  <2>6. /\ IsSeq(body) /\ NodeSubjects(nodes) \subseteq V!Range(body)
        /\ more.compact => Len(body) = Len(nodes)
        /\ ~more.compact => Len(body) >= 2 * Len(nodes)
        /\ Len(nodes) = 1 => V!Range(body) = NodeSubjects(nodes)
    BY <1>4, <1>6, NodesBodyIs
  <2>7. Len(slim) >= Len(nodes)
    BY <1>4, <1>7, NodesBodyIs
  <2>8. Len(nodes) \in Nat
    OBVIOUS
  <2>9. ASSUME NEW r \in NodeSubjects(nodes) PROVE r \in V!Range(rows)
    <3>1. CASE more.compact
      <4>1. PICK k \in 1..Len(body) : body[k] = r
        BY <2>6, SeqFacts
      <4>2. k + 4 \in 1..(height - 2)
        BY <1>8, <1>9, <1>10, <2>1, <2>6, <2>7, <2>8, <3>1
      <4>. QED BY <2>3, <2>4, <4>1, <4>2
    <3>2. CASE ~more.compact
      <4>1. Len(nodes) = 1
        <5>1. Len(body) >= 2 * Len(nodes) /\ Len(body) <= 3 /\ Len(body) \in Nat
          BY <1>8, <2>1, <2>6, <3>2
        <5>2. \A n, m \in Nat : m <= 3 /\ m >= 2 * n /\ n >= 1 => n = 1
          OBVIOUS
        <5>. QED BY <2>8, <5>1, <5>2
      <4>2. V!Range(body) = {r}
        <5>1. DOMAIN nodes = {1}
          BY <4>1
        <5>. QED BY <2>6, <4>1, <5>1 DEF NodeSubjects
      <4>3. 1 \in 1..Len(body) /\ 1 + 4 \in 1..(height - 2)
        BY <1>8, <2>1
      <4>4. body[1] = r
        BY <2>6, <4>2, <4>3, SeqFacts
      <4>. QED BY <2>3, <2>4, <4>3, <4>4
    <3>. QED BY <3>1, <3>2
  <2>10. \A r \in NodeSubjects(nodes) : r[1] = "node"
    BY DEF NodeSubjects
  <2>. QED BY <1>2, <2>5, <2>9, <2>10 DEF V!Subjects
<1>. QED BY <1>12, <1>13

\* Of every level that has room for all its rows, the overview shows what it is about.
Kept(shot, nodes, width, height, rows) ==
  \A i \in 1..8 : Len(At(shot, nodes, width, height, i)) <= height - 2 =>
    V!Subjects(At(shot, nodes, width, height, i)) \subseteq V!Subjects(rows)

LEMMA OverviewKept ==
  ASSUME NEW shot \in V!ClusterSnapshot, NEW nodes \in Seq(V!NodeSnapshot), Len(nodes) >= 1,
         NEW width \in Nat, NEW height \in Nat
  PROVE  Kept(shot, nodes, width, height, FirstOf(V!Overview(shot, nodes, width, height), height))
<1>1. PICK frame : frame = V!Overview(shot, nodes, width, height)
  OBVIOUS
<1>2. PICK rows : rows = FirstOf(frame, height)
  OBVIOUS
<1>3. ASSUME NEW i \in 1..8, Len(At(shot, nodes, width, height, i)) <= height - 2
      PROVE  V!Subjects(At(shot, nodes, width, height, i)) \subseteq V!Subjects(rows)
  BY <1>1, <1>2, <1>3, OverviewKeeps
<1>4. Kept(shot, nodes, width, height, rows)
  BY <1>3 DEF Kept
<1>. QED BY <1>1, <1>2, <1>4

\* The last level is one row a node and five around them.
LEMMA LastLevel ==
  ASSUME NEW shot \in V!ClusterSnapshot, NEW nodes \in Seq(V!NodeSnapshot), Len(nodes) >= 1,
         NEW width \in Nat, NEW height \in Nat
  PROVE  /\ Len(At(shot, nodes, width, height, 8)) = 5 + Len(nodes)
         /\ NodeSubjects(nodes) \subseteq V!Subjects(At(shot, nodes, width, height, 8))
<1>1. PICK d : d = V!DetailLevels[8]
  OBVIOUS
<1>2. d.trends = FALSE /\ d.cluster = FALSE /\ d.secondary = "none"
  BY <1>1 DEF V!DetailLevels
<1>3. d.compact \in BOOLEAN
  BY <1>1, Levels
<1>4. PICK frame : frame = V!ComposeOverview(shot, nodes, width, height, d)
  OBVIOUS
<1>5. PICK body : body = NodesBody(nodes, width - 4, d)
  OBVIOUS
<1>6. /\ TrendsOf(shot, width, height, d) = <<>> /\ ClusterOf(shot, nodes, width, d) = <<>>
      /\ LinksOf(shot, d) = <<>> /\ EnginesOf(shot, d) = <<>> /\ AlertsOf(shot, d) = <<>>
  BY <1>2 DEF TrendsOf, ClusterOf, LinksOf, EnginesOf, AlertsOf
<1>7. IsSeq(body) /\ Len(body) = Len(nodes)
  <2>1. width - 4 \in Int
    OBVIOUS
  <2>2. IsSeq(body) /\ (d.compact => Len(body) = Len(nodes))
    BY <1>3, <1>5, <2>1, NodesBodyIs
  <2>3. d.compact
    BY <1>1, Levels
  <2>. QED BY <2>2, <2>3
<1>8. frame = Frame(<<>>, <<>>, body, <<>>, <<>>, <<>>)
  BY <1>4, <1>5, <1>6, OverviewFrame
<1>9. IsSeq(<<>>) /\ Len(<<>>) = 0
  BY NoRows
<1>10. Len(frame) = 5 + 0 + 0 + Len(body) + 0 + 0 + 0
  <2>1. PICK none : none = <<>>
    OBVIOUS
  <2>2. IsSeq(none) /\ IsSeq(body) /\ frame = Frame(none, none, body, none, none, none)
    BY <1>7, <1>8, <1>9, <2>1
  <2>3. Len(frame) = 5 + Len(none) + Len(none) + Len(body) + Len(none) + Len(none) + Len(none)
    BY <2>2, FrameFacts
  <2>. QED BY <1>9, <2>1, <2>3
<1>11. HasAll(shot, nodes, height, d, frame, body)
  BY <1>3, <1>4, <1>5, OverviewFacts
<1>12. NodeSubjects(nodes) \subseteq V!Subjects(frame) /\ Len(body) \in Nat
  BY <1>11 DEF HasAll
<1>13. frame = At(shot, nodes, width, height, 8)
  BY <1>1, <1>4 DEF At
<1>14. Len(frame) = 5 + Len(body)
  BY <1>10, <1>12
<1>. QED BY <1>7, <1>12, <1>13, <1>14

-----------------------------------------------------------------------------
(* Rows about one node. *)

About(id, s) == IsSeq(s) /\ \A r \in V!Range(s) : r[1] \in {"node", "process", "container"} => r[2] = id

LEMMA AboutOther ==
  ASSUME NEW id, NEW kinds, NEW s, Of(kinds, s), kinds \cap {"node", "process", "container"} = {}
  PROVE  About(id, s)
BY DEF Of, About

LEMMA AboutJoined ==
  ASSUME NEW id, NEW s, NEW t, About(id, s), About(id, t)
  PROVE  About(id, s \o t)
BY RowsJoined DEF About

LEMMA AboutRows ==
  ASSUME NEW id, NEW n \in Nat, NEW kind, NEW whom, kind \in {"node", "process", "container"} => whom = id
  PROVE  About(id, V!Rows(n, <<kind, whom>>)) /\ About(id, <<<<kind, whom>>>>)
<1>1. \A r \in V!Range(V!Rows(n, <<kind, whom>>)) : r = <<kind, whom>>
  BY RowsAre
<1>2. \A r \in V!Range(<<<<kind, whom>>>>) : r = <<kind, whom>>
  BY RowIs
<1>3. <<kind, whom>>[1] = kind /\ <<kind, whom>>[2] = whom
  OBVIOUS
<1>. QED BY <1>1, <1>2, <1>3, RowsAre, RowIs DEF About

LEMMA AboutParts ==
  \A id : About(id, <<>>) /\ About(id, V!Gap) /\ About(id, V!Header) /\ About(id, <<<<"text", Null>>>>)
<1>. SUFFICES ASSUME NEW id PROVE About(id, <<>>) /\ About(id, V!Gap) /\ About(id, V!Header) /\ About(id, <<<<"text", Null>>>>)
  OBVIOUS
<1>1. About(id, <<>>)
  BY NoRows DEF About
<1>2. About(id, V!Gap) /\ About(id, <<<<"text", Null>>>>)
  <2>1. 1 \in Nat
    OBVIOUS
  <2>. QED BY <2>1, AboutRows DEF V!Gap
<1>3. About(id, V!Header)
  <2>1. 2 \in Nat
    OBVIOUS
  <2>. QED BY <2>1, AboutRows DEF V!Header
<1>. QED BY <1>1, <1>2, <1>3

LEMMA AboutPanel ==
  ASSUME NEW id, NEW body, About(id, body)
  PROVE  About(id, V!Panel(body))
<1>1. IsSeq(V!Panel(body)) /\ V!Range(V!Panel(body)) = V!Range(body) \cup {<<"border", Null>>}
  BY PanelIs DEF About
<1>2. <<"border", Null>>[1] = "border"
  OBVIOUS
<1>. QED BY <1>1, <1>2 DEF About

LEMMA AboutFlatten ==
  ASSUME NEW id, NEW n \in Nat, NEW ss, ss = [i \in 1..n |-> ss[i]], \A i \in 1..n : About(id, ss[i])
  PROVE  About(id, V!FlattenSeq(ss))
<1>1. IsSeqs(ss) /\ Len(ss) = n
  BY FlattenEach DEF About
<1>2. IsSeq(V!FlattenSeq(ss)) /\ V!Range(V!FlattenSeq(ss)) = UNION {V!Range(ss[i]) : i \in 1..n}
  BY <1>1, FlattenFacts
<1>. QED BY <1>2 DEF About

-----------------------------------------------------------------------------
(* The terminal's screen: its state. *)

ScreenViews == {"overview", "fabric", "processes", "containers"}
ScreenType ==
  snapshot \in Screens \cup {Null} /\ screenView \in ScreenViews /\ selected \in Int /\ size \in Sizes

LEMMA ShownAre ==
  ASSUME ScreenType, snapshot # Null
  PROVE  /\ snapshot \in V!ClusterSnapshot /\ snapshot.nodes \in Seq(V!NodeSnapshot)
         /\ V!ShownNodes \in Seq(V!NodeSnapshot) /\ V!NodeCount = Len(snapshot.nodes)
         /\ Len(snapshot.nodes) \in Nat /\ Len(V!ShownNodes) \in Nat
         /\ Len(snapshot.nodes) >= 1 => Len(V!ShownNodes) >= 1
         /\ size[1] \in Nat /\ size[2] \in Nat
<1>1. snapshot \in V!ClusterSnapshot /\ size \in Nat \X Nat /\ selected \in Int
  BY ScreenConstants DEF ScreenType
<1>2. PICK nodes : nodes = snapshot.nodes
  OBVIOUS
<1>3. nodes \in Seq(V!NodeSnapshot)
  BY <1>1, <1>2 DEF V!ClusterSnapshot
<1>4. V!ShownNodes = IF selected >= 0 /\ selected < Len(nodes) THEN <<nodes[selected + 1]>> ELSE nodes
  BY <1>2 DEF V!ShownNodes
<1>5. V!ShownNodes \in Seq(V!NodeSnapshot) /\ (Len(nodes) >= 1 => Len(V!ShownNodes) >= 1)
  <2>1. CASE selected >= 0 /\ selected < Len(nodes)
    <3>1. selected + 1 \in 1..Len(nodes)
      BY <1>1, <1>3, <2>1
    <3>2. nodes[selected + 1] \in V!NodeSnapshot
      BY <1>3, <3>1
    <3>. QED BY <1>4, <2>1, <3>2
  <2>2. CASE ~(selected >= 0 /\ selected < Len(nodes))
    BY <1>3, <1>4, <2>2
  <2>. QED BY <2>1, <2>2
<1>6. V!NodeCount = Len(nodes)
  BY <1>2 DEF V!NodeCount
<1>7. size[1] \in Nat /\ size[2] \in Nat
  BY <1>1
<1>8. Len(nodes) \in Nat /\ Len(V!ShownNodes) \in Nat
  BY <1>3, <1>5
<1>. QED BY <1>1, <1>2, <1>3, <1>5, <1>6, <1>7, <1>8

\* Nothing is lost to decoration: the first level that fits has every subject of the later ones.
LEMMA NothingLost ==
  ASSUME ScreenType, V!ScreenCurrent
  PROVE  V!NothingLostToDecoration
<1>. SUFFICES ASSUME drawn # Null, screenView = "overview", V!NodeCount > 0
              PROVE  /\ \A i \in DOMAIN V!DetailLevels :
                          Len(V!ComposeOverview(snapshot, V!ShownNodes, size[1], size[2], V!DetailLevels[i])) <= size[2] - 2 =>
                            V!Subjects(V!ComposeOverview(snapshot, V!ShownNodes, size[1], size[2], V!DetailLevels[i]))
                              \subseteq V!Subjects(drawn.rows)
                     /\ size[2] - 2 >= Len(V!ShownNodes) + 5 =>
                          \A i \in DOMAIN V!ShownNodes : <<"node", V!ShownNodes[i].id>> \in V!Subjects(drawn.rows)
  BY Zenon DEF V!NothingLostToDecoration
<1>1. snapshot # Null
  BY DEF V!NodeCount
<1>2. PICK nodes, width, height : nodes = V!ShownNodes /\ width = size[1] /\ height = size[2]
  OBVIOUS
<1>3. /\ snapshot \in V!ClusterSnapshot /\ nodes \in Seq(V!NodeSnapshot) /\ Len(nodes) \in Nat /\ Len(nodes) >= 1
      /\ width \in Nat /\ height \in Nat /\ snapshot.nodes # <<>>
  <2>1. V!NodeCount = Len(snapshot.nodes) /\ Len(snapshot.nodes) \in Nat
    BY <1>1, ShownAre
  <2>2. Len(snapshot.nodes) >= 1
    BY <2>1
  <2>3. snapshot.nodes # <<>>
    BY <2>2
  <2>. QED BY <1>1, <1>2, <2>2, <2>3, ShownAre
<1>4. PICK frame : frame = V!Overview(snapshot, nodes, width, height)
  OBVIOUS
<1>5. PICK rows : rows = drawn.rows
  OBVIOUS
<1>6. rows = FirstOf(frame, height)
  <2>1. V!Render = frame
    BY <1>1, <1>2, <1>3, <1>4 DEF V!Render
  <2>. QED BY <1>2, <1>5, <2>1 DEF V!ScreenCurrent, FirstOf
<1>7. Kept(snapshot, nodes, width, height, rows)
  BY <1>3, <1>4, <1>6, OverviewKept
<1>8. ASSUME height - 2 >= Len(nodes) + 5 PROVE \A i \in DOMAIN nodes : <<"node", nodes[i].id>> \in V!Subjects(rows)
  <2>1. /\ Len(At(snapshot, nodes, width, height, 8)) = 5 + Len(nodes)
        /\ NodeSubjects(nodes) \subseteq V!Subjects(At(snapshot, nodes, width, height, 8))
    BY <1>3, LastLevel
  <2>2. Len(At(snapshot, nodes, width, height, 8)) <= height - 2 /\ 8 \in 1..8
    BY <1>3, <1>8, <2>1
  <2>3. NodeSubjects(nodes) \subseteq V!Subjects(rows)
    BY <1>7, <2>1, <2>2 DEF Kept
  <2>. QED BY <2>3 DEF NodeSubjects
<1>9. DOMAIN V!DetailLevels = 1..8
  BY Levels
<1>. QED BY <1>2, <1>5, <1>7, <1>8, <1>9 DEF At, Kept

\* Nodes that are all one.
Only(nodes, n) == nodes \in Seq(V!NodeSnapshot) /\ n \in V!NodeSnapshot /\ \A i \in DOMAIN nodes : nodes[i] = n

LEMMA OnlyFacts ==
  ASSUME NEW nodes, NEW n, Only(nodes, n)
  PROVE  DOMAIN nodes = 1..Len(nodes) /\ Len(nodes) \in Nat /\ \A i \in 1..Len(nodes) : nodes[i] = n
BY DEF Only

LEMMA OnlineOnly ==
  ASSUME NEW n \in V!NodeSnapshot
  PROVE  Only(<<n>>, n) /\ Only(V!Online(<<n>>), n)
<1>1. PICK nodes : nodes = <<n>>
  OBVIOUS
<1>2. nodes \in Seq(V!NodeSnapshot) /\ Len(nodes) = 1 /\ DOMAIN nodes = {1} /\ nodes[1] = n
  BY <1>1
<1>3. Only(nodes, n)
  BY <1>2 DEF Only
<1>4. V!Online(nodes) = IF n.status = "online" THEN nodes ELSE <<>>
  BY <1>2, OnlineAre
<1>5. Only(<<>>, n)
  BY DEF Only
<1>6. Only(V!Online(nodes), n)
  BY <1>3, <1>4, <1>5
<1>. QED BY <1>1, <1>3, <1>6

LEMMA OverviewAbout ==
  ASSUME NEW shot \in V!ClusterSnapshot, NEW nodes, NEW n, Only(nodes, n),
         NEW width \in Nat, NEW height \in Nat, NEW d, d.compact \in BOOLEAN
  PROVE  About(n.id, V!ComposeOverview(shot, nodes, width, height, d))
<1>0. PICK a, b, body, x, y, z : /\ a = TrendsOf(shot, width, height, d)
                                 /\ b = ClusterOf(shot, nodes, width, d)
                                 /\ body = NodesBody(nodes, width - 4, d)
                                 /\ x = LinksOf(shot, d) /\ y = EnginesOf(shot, d) /\ z = AlertsOf(shot, d)
  OBVIOUS
<1>1. V!ComposeOverview(shot, nodes, width, height, d) = Frame(a, b, body, x, y, z)
  BY <1>0, OverviewFrame
<1>2. About(n.id, <<>>)
  BY AboutParts
<1>3. About(n.id, a)
  <2>1. About(n.id, V!Trends(shot, width, height))
    <3>1. Of({"gap", "border", "trends"}, V!Trends(shot, width, height))
      BY TrendsAre
    <3>2. {"gap", "border", "trends"} \cap {"node", "process", "container"} = {}
      OBVIOUS
    <3>. QED BY <3>1, <3>2, AboutOther
  <2>. QED BY <1>0, <1>2, <2>1 DEF TrendsOf
<1>4. About(n.id, b)
  <2>1. About(n.id, V!ClusterSummary(shot, width))
    <3>1. Of({"gap", "border", "cluster"}, V!ClusterSummary(shot, width))
      BY ClusterIs
    <3>2. {"gap", "border", "cluster"} \cap {"node", "process", "container"} = {}
      OBVIOUS
    <3>. QED BY <3>1, <3>2, AboutOther
  <2>. QED BY <1>0, <1>2, <2>1 DEF ClusterOf
<1>5. /\ LinkRows \cap {"node", "process", "container"} = {} /\ EngineRows \cap {"node", "process", "container"} = {}
      /\ JobRows \cap {"node", "process", "container"} = {} /\ AlertRows \cap {"node", "process", "container"} = {}
  BY DEF LinkRows, EngineRows, JobRows, AlertRows
<1>6. About(n.id, x)
  <2>1. About(n.id, V!Interconnect(shot))
    <3>1. Of(LinkRows, V!Interconnect(shot))
      BY InterconnectIs DEF Extra
    <3>. QED BY <1>5, <3>1, AboutOther
  <2>. QED BY <1>0, <1>2, <2>1 DEF LinksOf
<1>7. About(n.id, z)
  <2>1. About(n.id, V!Alerts(shot))
    <3>1. Of(AlertRows, V!Alerts(shot))
      BY AlertsAre DEF Extra
    <3>. QED BY <1>5, <3>1, AboutOther
  <2>. QED BY <1>0, <1>2, <2>1 DEF AlertsOf
<1>8. About(n.id, y)
  <2>1. Of(EngineRows, V!Inference(shot)) /\ Of(JobRows, V!Workloads(shot))
    BY InferenceIs, WorkloadsAre DEF Extra
  <2>2. About(n.id, V!Inference(shot)) /\ About(n.id, V!Workloads(shot))
    BY <1>5, <2>1, AboutOther
  <2>3. About(n.id, V!Inference(shot) \o V!Workloads(shot))
    BY <2>2, AboutJoined
  <2>. QED BY <1>0, <1>2, <2>3 DEF EnginesOf
<1>9. About(n.id, body)
  <2>1. width - 4 \in Int /\ nodes \in Seq(V!NodeSnapshot)
    BY DEF Only
  <2>2. IsSeq(body) /\ V!Range(body) \subseteq NodeSubjects(nodes) \cup {<<"gap", Null>>}
    BY <1>0, <2>1, NodesBodyIs
  <2>3. \A r \in NodeSubjects(nodes) : r[2] = n.id
    <3>1. ASSUME NEW i \in DOMAIN nodes PROVE <<"node", nodes[i].id>>[2] = n.id
      BY DEF Only
    <3>. QED BY <3>1 DEF NodeSubjects
  <2>4. <<"gap", Null>>[1] = "gap"
    OBVIOUS
  <2>. QED BY <2>2, <2>3, <2>4 DEF About
<1>10. IsSeq(a) /\ IsSeq(b) /\ IsSeq(body) /\ IsSeq(x) /\ IsSeq(y) /\ IsSeq(z)
  BY <1>3, <1>4, <1>6, <1>7, <1>8, <1>9 DEF About
<1>11. /\ IsSeq(Frame(a, b, body, x, y, z))
       /\ V!Range(Frame(a, b, body, x, y, z)) =
              {<<"header", Null>>, <<"gap", Null>>, <<"border", Null>>}
              \cup V!Range(a) \cup V!Range(b) \cup V!Range(body) \cup V!Range(x) \cup V!Range(y) \cup V!Range(z)
  BY <1>10, FrameFacts
<1>12. \A r \in {<<"header", Null>>, <<"gap", Null>>, <<"border", Null>>} : r[1] \notin {"node", "process", "container"}
  OBVIOUS
<1>13. About(n.id, Frame(a, b, body, x, y, z))
  BY <1>3, <1>4, <1>6, <1>7, <1>8, <1>9, <1>11, <1>12 DEF About
<1>. QED BY <1>1, <1>13

FabricRows == {"gap", "border", "text", "link", "port"}

LEMMA FabricIs ==
  ASSUME NEW shot \in V!ClusterSnapshot
  PROVE  Of(FabricRows, V!FabricView(shot))
<1>. DEFINE wires == IF shot.links = 0 THEN V!Rows(2, <<"text", Null>>) ELSE V!Rows(5 * shot.links - 1, <<"link", Null>>)
            on == V!Online(shot.nodes)
            ss == [i \in DOMAIN on |-> (IF i > 1 THEN V!Gap ELSE <<>>) \o V!Rows(1 + on[i].ports, <<"port", on[i].id>>)]
            ports == V!FlattenSeq(ss)
            last == V!Rows(2, <<"text", Null>>)
<1>1. V!FabricView(shot) = V!Panel(wires) \o V!Gap \o V!Panel(ports \o V!Gap \o last)
  BY DEF V!FabricView
<1>2. shot.links \in Nat /\ shot.nodes \in Seq(V!NodeSnapshot)
  BY DEF V!ClusterSnapshot
<1>3. on \in Seq(V!NodeSnapshot)
  BY <1>2, OnlineAre
<1>4. {"gap", "border", "text", "link", "port"} = FabricRows
  BY DEF FabricRows
<1>5. Of(FabricRows, last) /\ Of(FabricRows, V!Gap) /\ Of(FabricRows, <<>>)
  <2>1. 2 \in Nat /\ <<"text", Null>>[1] \in FabricRows
    BY <1>4
  <2>2. Of(FabricRows, last)
    BY <2>1, OfRows
  <2>3. Of(FabricRows, V!Gap)
    BY <1>4, GapIs DEF Of
  <2>4. Of(FabricRows, <<>>)
    BY NoRows DEF Of
  <2>. QED BY <2>2, <2>3, <2>4
<1>6. Of(FabricRows, wires)
  <2>1. CASE shot.links = 0
    BY <1>5, <2>1
  <2>2. CASE shot.links # 0
    <3>1. 5 * shot.links - 1 \in Nat /\ <<"link", Null>>[1] \in FabricRows
      BY <1>2, <1>4, <2>2
    <3>2. Of(FabricRows, V!Rows(5 * shot.links - 1, <<"link", Null>>))
      BY <3>1, OfRows
    <3>. QED BY <2>2, <3>2
  <2>. QED BY <2>1, <2>2
<1>. HIDE DEF on, wires, last
<1>7. DOMAIN on = 1..Len(on) /\ Len(on) \in Nat /\ \A i \in 1..Len(on) : on[i] \in V!NodeSnapshot
  BY <1>3, ElementOfSeq
<1>8. /\ ss = [i \in 1..Len(on) |-> ss[i]]
      /\ \A i \in 1..Len(on) : ss[i] = (IF i > 1 THEN V!Gap ELSE <<>>) \o V!Rows(1 + on[i].ports, <<"port", on[i].id>>)
  BY <1>7
<1>9. ASSUME NEW i \in 1..Len(on) PROVE Of(FabricRows, ss[i])
  <2>1. PICK count, row : count = 1 + on[i].ports /\ row = <<"port", on[i].id>>
    OBVIOUS
  <2>2. count \in Nat /\ row[1] \in FabricRows
    <3>1. on[i].ports \in Nat
      BY <1>7 DEF V!NodeSnapshot
    <3>. QED BY <1>4, <2>1, <3>1
  <2>3. PICK pre : pre = IF i > 1 THEN V!Gap ELSE <<>>
    OBVIOUS
  <2>4. Of(FabricRows, pre)
    BY <1>5, <2>3
  <2>5. Of(FabricRows, V!Rows(count, row))
    BY <2>2, OfRows
  <2>6. Of(FabricRows, pre \o V!Rows(count, row))
    BY <2>4, <2>5, OfJoined
  <2>. QED BY <1>8, <2>1, <2>3, <2>6
<1>. HIDE DEF ss
<1>10. Of(FabricRows, ports)
  BY <1>7, <1>8, <1>9, OfFlatten
<1>. HIDE DEF ports
<1>11. Of(FabricRows, ports \o V!Gap)
  BY <1>5, <1>10, OfJoined
<1>12. Of(FabricRows, ports \o V!Gap \o last)
  BY <1>5, <1>11, OfJoined
<1>13. Of(FabricRows, V!Panel(wires)) /\ Of(FabricRows, V!Panel(ports \o V!Gap \o last))
  <2>1. "border" \in FabricRows
    BY <1>4
  <2>. QED BY <1>6, <1>12, <2>1, OfPanel
<1>14. Of(FabricRows, V!Panel(wires) \o V!Gap)
  BY <1>5, <1>13, OfJoined
<1>15. Of(FabricRows, V!Panel(wires) \o V!Gap \o V!Panel(ports \o V!Gap \o last))
  BY <1>13, <1>14, OfJoined
<1>. QED BY <1>1, <1>15

LEMMA ProcessesAbout ==
  ASSUME NEW nodes, NEW n, Only(nodes, n)
  PROVE  About(n.id, V!ProcessView(nodes))
<1>. DEFINE ss == [i \in DOMAIN nodes |->
                     IF nodes[i].status = "online" THEN V!Rows(nodes[i].processes, <<"process", nodes[i].id>>) ELSE <<>>]
            all == V!FlattenSeq(ss)
            text == <<<<"text", Null>>>>
<1>1. V!ProcessView(nodes) = V!Panel(text \o (IF all = <<>> THEN text ELSE all))
  BY DEF V!ProcessView
<1>2. About(n.id, <<>>) /\ About(n.id, text)
  BY AboutParts
<1>. HIDE DEF text
<1>3. About(n.id, V!Rows(n.processes, <<"process", n.id>>))
  <2>1. n.processes \in Nat
    BY DEF Only, V!NodeSnapshot
  <2>. QED BY <2>1, AboutRows
<1>4. DOMAIN nodes = 1..Len(nodes) /\ Len(nodes) \in Nat /\ \A i \in 1..Len(nodes) : nodes[i] = n
  BY OnlyFacts
<1>5. /\ ss = [i \in 1..Len(nodes) |-> ss[i]]
      /\ \A i \in 1..Len(nodes) : ss[i] = IF n.status = "online" THEN V!Rows(n.processes, <<"process", n.id>>) ELSE <<>>
  BY <1>4
<1>. HIDE DEF ss
<1>6. \A i \in 1..Len(nodes) : About(n.id, ss[i])
  BY <1>2, <1>3, <1>5
<1>7. About(n.id, all)
  BY <1>4, <1>5, <1>6, AboutFlatten
<1>. HIDE DEF all
<1>8. PICK rest : rest = IF all = <<>> THEN text ELSE all
  OBVIOUS
<1>9. About(n.id, rest)
  BY <1>2, <1>7, <1>8
<1>10. About(n.id, text \o rest)
  BY <1>2, <1>9, AboutJoined
<1>. QED BY <1>1, <1>8, <1>10, AboutPanel

\* The rows of the containers of a node.
ContainerRows(n) ==
  V!FlattenSeq([i \in DOMAIN n.containers |-> V!Rows(IF n.containers[i] THEN 2 ELSE 1, <<"container", n.id>>)])

LEMMA ContainerRowsAbout ==
  ASSUME NEW n \in V!NodeSnapshot
  PROVE  About(n.id, ContainerRows(n))
<1>. DEFINE ss == [i \in DOMAIN n.containers |-> V!Rows(IF n.containers[i] THEN 2 ELSE 1, <<"container", n.id>>)]
<1>1. n.containers \in Seq(BOOLEAN)
  BY DEF V!NodeSnapshot
<1>2. DOMAIN n.containers = 1..Len(n.containers) /\ Len(n.containers) \in Nat
  BY <1>1
<1>3. About(n.id, V!Rows(2, <<"container", n.id>>)) /\ About(n.id, V!Rows(1, <<"container", n.id>>))
  <2>1. 1 \in Nat /\ 2 \in Nat
    OBVIOUS
  <2>. QED BY <2>1, AboutRows
<1>4. /\ ss = [i \in 1..Len(n.containers) |-> ss[i]]
      /\ \A i \in 1..Len(n.containers) : \/ ss[i] = V!Rows(2, <<"container", n.id>>)
                                         \/ ss[i] = V!Rows(1, <<"container", n.id>>)
  BY <1>2
<1>. HIDE DEF ss
<1>5. \A i \in 1..Len(n.containers) : About(n.id, ss[i])
  BY <1>3, <1>4
<1>6. About(n.id, V!FlattenSeq(ss))
  BY <1>2, <1>4, <1>5, AboutFlatten
<1>. QED BY <1>6 DEF ContainerRows, ss

LEMMA ContainersAbout ==
  ASSUME NEW nodes, NEW n, Only(V!Online(nodes), n)
  PROVE  About(n.id, V!ContainerView(nodes))
<1>. DEFINE on == V!Online(nodes)
            rows(i) == IF ~on[i].docker THEN <<<<"text", on[i].id>>>>
                       ELSE (IF i > 1 THEN V!Gap ELSE <<>>) \o <<<<"container", on[i].id>>>> \o ContainerRows(on[i])
            any == \E i \in DOMAIN on : on[i].docker /\ on[i].containers # <<>>
            ss == [i \in DOMAIN on |-> rows(i)]
            text == <<<<"text", Null>>>>
<1>1. V!ContainerView(nodes) = V!Panel(V!FlattenSeq(ss) \o (IF any THEN <<>> ELSE text))
  BY DEF V!ContainerView, ContainerRows
<1>2. About(n.id, <<>>) /\ About(n.id, text) /\ About(n.id, V!Gap)
  BY AboutParts
<1>. HIDE DEF text
<1>3. DOMAIN on = 1..Len(on) /\ Len(on) \in Nat /\ \A i \in 1..Len(on) : on[i] = n
  BY OnlyFacts
<1>4. About(n.id, <<<<"text", n.id>>>>) /\ About(n.id, <<<<"container", n.id>>>>) /\ About(n.id, ContainerRows(n))
  <2>1. 1 \in Nat
    OBVIOUS
  <2>2. n \in V!NodeSnapshot
    BY DEF Only
  <2>. QED BY <2>1, <2>2, AboutRows, ContainerRowsAbout
<1>. HIDE DEF on, any
<1>5. ASSUME NEW i \in 1..Len(on) PROVE About(n.id, rows(i))
  <2>1. PICK pre, head, rest : /\ pre = (IF i > 1 THEN V!Gap ELSE <<>>) /\ head = <<<<"container", n.id>>>>
                               /\ rest = ContainerRows(n)
    OBVIOUS
  <2>2. About(n.id, pre) /\ About(n.id, head) /\ About(n.id, rest)
    BY <1>2, <1>4, <2>1
  <2>3. About(n.id, pre \o head)
    BY <2>2, AboutJoined
  <2>4. About(n.id, pre \o head \o rest)
    BY <2>2, <2>3, AboutJoined
  <2>5. rows(i) = IF ~n.docker THEN <<<<"text", n.id>>>> ELSE pre \o head \o rest
    BY <1>3, <2>1
  <2>. QED BY <1>4, <2>4, <2>5
<1>6. ss = [i \in 1..Len(on) |-> ss[i]] /\ \A i \in 1..Len(on) : About(n.id, ss[i])
  BY <1>3, <1>5
<1>. HIDE DEF ss
<1>7. About(n.id, V!FlattenSeq(ss))
  BY <1>3, <1>6, AboutFlatten
<1>8. PICK more : more = IF any THEN <<>> ELSE text
  OBVIOUS
<1>9. About(n.id, more)
  BY <1>2, <1>8
<1>10. About(n.id, V!FlattenSeq(ss) \o more)
  BY <1>7, <1>9, AboutJoined
<1>. QED BY <1>1, <1>8, <1>10, AboutPanel

\* The footer names the node whose rows are shown.
LEMMA FooterNames ==
  ASSUME ScreenType, V!ScreenCurrent
  PROVE  V!FooterNamesShown
<1>. SUFFICES ASSUME drawn # Null, drawn.footer.node[1] = "node", Len(drawn.footer.node) = 2, selected < V!NodeCount,
                     NEW r \in V!Range(drawn.rows), r[1] \in {"node", "process", "container"}
              PROVE  r[2] = snapshot.nodes[selected + 1].id
  BY DEF V!FooterNamesShown
<1>1. selected >= 0 /\ snapshot # Null
  <2>1. drawn.footer.node = V!Footer.node
    BY DEF V!ScreenCurrent
  <2>2. V!Footer.node = IF V!NodeCount <= 1 THEN <<"node">> ELSE IF selected < 0 THEN <<"all">> ELSE <<"node", selected + 1>>
    BY DEF V!Footer
  <2>3. ~(V!NodeCount <= 1) /\ ~(selected < 0)
    <3>1. Len(<<"node">>) = 1 /\ Len(<<"all">>) = 1
      OBVIOUS
    <3>. QED BY <2>1, <2>2, <3>1
  <2>4. selected \in Int
    BY DEF ScreenType
  <2>5. snapshot # Null
    BY <2>3 DEF V!NodeCount
  <2>. QED BY <2>3, <2>4, <2>5
<1>2. PICK n : n = snapshot.nodes[selected + 1]
  OBVIOUS
<1>3. /\ snapshot \in V!ClusterSnapshot /\ n \in V!NodeSnapshot /\ snapshot.nodes # <<>>
      /\ V!ShownNodes = <<n>> /\ size[1] \in Nat /\ size[2] \in Nat
  <2>1. /\ snapshot \in V!ClusterSnapshot /\ snapshot.nodes \in Seq(V!NodeSnapshot)
        /\ size[1] \in Nat /\ size[2] \in Nat /\ V!NodeCount = Len(snapshot.nodes)
    BY <1>1, ShownAre
  <2>2. selected + 1 \in 1..Len(snapshot.nodes)
    BY <1>1, <2>1 DEF ScreenType
  <2>3. snapshot.nodes # <<>> /\ n \in V!NodeSnapshot
    BY <1>2, <2>1, <2>2, ElementOfSeq
  <2>4. V!ShownNodes = <<n>>
    BY <1>1, <1>2, <2>1 DEF V!ShownNodes
  <2>. QED BY <2>1, <2>3, <2>4
<1>4. PICK nodes : nodes = V!ShownNodes
  OBVIOUS
<1>5. Only(nodes, n) /\ Only(V!Online(nodes), n)
  BY <1>3, <1>4, OnlineOnly
<1>6. About(n.id, V!Render)
  <2>1. CASE screenView = "overview"
    <3>1. V!Render = V!Overview(snapshot, nodes, size[1], size[2])
      BY <1>1, <1>3, <1>4, <2>1 DEF V!Render
    <3>2. PICK j \in 1..8 : First(snapshot, nodes, size[1], size[2], j)
      BY <1>3, FirstThatFits
    <3>3. V!Render = V!ComposeOverview(snapshot, nodes, size[1], size[2], V!DetailLevels[j])
      BY <3>1, <3>2 DEF First, At
    <3>4. V!DetailLevels[j].compact \in BOOLEAN
      BY Levels
    <3>. QED BY <1>3, <1>5, <3>3, <3>4, OverviewAbout
  <2>2. ASSUME NEW shown, About(n.id, shown) PROVE About(n.id, V!Header \o V!Gap \o shown)
    <3>1. About(n.id, V!Header) /\ About(n.id, V!Gap)
      BY AboutParts
    <3>2. About(n.id, V!Header \o V!Gap)
      BY <3>1, AboutJoined
    <3>. QED BY <2>2, <3>2, AboutJoined
  <2>3. CASE screenView = "fabric"
    <3>1. V!Render = V!Header \o V!Gap \o V!FabricView(snapshot)
      BY <1>1, <1>3, <2>3 DEF V!Render
    <3>2. FabricRows \cap {"node", "process", "container"} = {}
      BY DEF FabricRows
    <3>3. Of(FabricRows, V!FabricView(snapshot))
      BY <1>3, FabricIs
    <3>4. About(n.id, V!FabricView(snapshot))
      BY <3>2, <3>3, AboutOther
    <3>. QED BY <2>2, <3>1, <3>4
  <2>4. CASE screenView = "processes"
    <3>1. V!Render = V!Header \o V!Gap \o V!ProcessView(nodes)
      BY <1>1, <1>3, <1>4, <2>4 DEF V!Render
    <3>2. About(n.id, V!ProcessView(nodes))
      BY <1>5, ProcessesAbout
    <3>. QED BY <2>2, <3>1, <3>2
  <2>5. CASE screenView = "containers"
    <3>1. V!Render = V!Header \o V!Gap \o V!ContainerView(nodes)
      BY <1>1, <1>3, <1>4, <2>5 DEF V!Render
    <3>2. About(n.id, V!ContainerView(nodes))
      BY <1>5, ContainersAbout
    <3>. QED BY <2>2, <3>1, <3>2
  <2>. QED BY <2>1, <2>3, <2>4, <2>5 DEF ScreenType, ScreenViews
<1>7. PICK frame, count : /\ frame = V!Render /\ count = V!Min({Len(frame), V!AtLeast(size[2] - 2, 0)})
  OBVIOUS
<1>8. drawn.rows = SubSeq(frame, 1, count)
  BY <1>7 DEF V!ScreenCurrent
<1>9. IsSeq(frame) /\ Len(frame) \in Nat
  BY <1>6, <1>7, SeqFacts DEF About
<1>10. count \in Nat /\ count <= Len(frame)
  <2>1. PICK room : room = V!AtLeast(size[2] - 2, 0)
    OBVIOUS
  <2>2. room \in Nat
    <3>1. size[2] - 2 \in Int /\ 0 \in Nat
      BY <1>3
    <3>2. room = IF size[2] - 2 >= 0 THEN size[2] - 2 ELSE 0
      BY <2>1, <3>1, AtLeastIs
    <3>. QED BY <3>1, <3>2
  <2>3. count = IF Len(frame) <= room THEN Len(frame) ELSE room
    BY <1>7, <1>9, <2>1, <2>2, SmallerIs
  <2>. QED BY <1>9, <2>2, <2>3
<1>11. r \in V!Range(frame)
  BY <1>8, <1>9, <1>10, FirstRows
<1>. QED BY <1>2, <1>6, <1>7, <1>11 DEF About

-----------------------------------------------------------------------------
(* The terminal's screen: its steps. *)

ScreenInv == ScreenType /\ V!ScreenCurrent

LEMMA ViewsAre == /\ V!Range(V!Views) = ScreenViews /\ Len(V!Views) = 4
                  /\ \A i \in 1..4 : V!Views[i] \in ScreenViews
<1>1. DOMAIN V!Views = 1..4 /\ Len(V!Views) = 4
  BY DEF V!Views
<1>2. V!Views[1] = "overview" /\ V!Views[2] = "fabric" /\ V!Views[3] = "processes" /\ V!Views[4] = "containers"
  BY DEF V!Views
<1>3. 1..4 = {1, 2, 3, 4}
  OBVIOUS
<1>4. V!Range(V!Views) = {V!Views[i] : i \in {1, 2, 3, 4}}
  BY <1>1, <1>3 DEF V!Range
<1>. QED BY <1>1, <1>2, <1>3, <1>4 DEF ScreenViews

\* The key tab goes on to a view there is.
LEMMA NextViewIs == ASSUME V!NextView PROVE screenView' \in ScreenViews
<1>. DEFINE at == {i \in 1..Len(V!Views) : V!Views[i] = screenView}
            k == IF at # {} THEN V!Min(at) ELSE 0
<1>1. screenView' = V!Views[(k % Len(V!Views)) + 1]
  BY DEF V!NextView, V!ChooseView, V!SelectInSeq
<1>2. at \subseteq Nat
  BY DEF V!Views
<1>. HIDE DEF at
<1>3. k \in Nat
  <2>1. CASE at = {}
    BY <2>1
  <2>2. CASE at # {}
    <3>1. \E j \in at : \A i \in at : j <= i
      BY <1>2, <2>2, LeastNumber
    <3>2. V!Min(at) \in at
      BY <3>1 DEF V!Min
    <3>. QED BY <1>2, <2>2, <3>2
  <2>. QED BY <2>1, <2>2
<1>. HIDE DEF k
<1>4. (k % 4) + 1 \in 1..4
  BY <1>3
<1>. QED BY <1>1, <1>4, ViewsAre

LEMMA ScreenNext == ASSUME ScreenInv, V!Next PROVE ScreenInv'
<1>. USE DEF ScreenInv
<1>1. ScreenType'
  <2>0. V!NodeCount \in Nat
    <3>1. CASE snapshot = Null
      BY <3>1 DEF V!NodeCount
    <3>2. CASE snapshot # Null
      BY <3>2, ShownAre
    <3>. QED BY <3>1, <3>2
  <2>1. CASE V!OnSnapshot
    BY <2>1 DEF V!OnSnapshot, ScreenType
  <2>2. CASE V!Resize
    BY <2>2 DEF V!Resize, ScreenType
  <2>3. CASE \E v \in V!Range(V!Views) : V!ChooseView(v)
    BY <2>3, ViewsAre DEF V!ChooseView, ScreenType
  <2>4. CASE V!NextView
    <3>1. UNCHANGED <<snapshot, selected, size>>
      BY <2>4 DEF V!NextView, V!ChooseView
    <3>. QED BY <2>4, <3>1, NextViewIs DEF ScreenType
  <2>5. CASE V!Pause
    BY <2>5 DEF V!Pause, ScreenType
  <2>6. ASSUME NEW i \in Int, V!Select(i) PROVE ScreenType'
    BY <2>6 DEF V!Select, ScreenType
  <2>7. selected \in Int
    BY DEF ScreenType
  <2>8. CASE V!Right
    <3>1. (IF selected + 1 >= V!NodeCount THEN -1 ELSE selected + 1) \in Int
      BY <2>0, <2>7
    <3>. QED BY <2>6, <2>8, <3>1 DEF V!Right
  <2>9. CASE V!Left
    <3>1. (IF selected - 1 < -1 THEN V!NodeCount - 1 ELSE selected - 1) \in Int
      BY <2>0, <2>7
    <3>. QED BY <2>6, <2>9, <3>1 DEF V!Left
  <2>10. CASE \E i \in 0..8 : V!Digit(i)
    <3>1. PICK i \in 0..8 : V!Digit(i)
      BY <2>10
    <3>2. (IF i < V!NodeCount THEN i ELSE selected) \in Int
      BY <2>0, <2>7
    <3>. QED BY <2>6, <3>1, <3>2 DEF V!Digit
  <2>11. CASE V!Draw
    BY <2>11 DEF V!Draw, ScreenType
  <2>. QED BY <2>1, <2>2, <2>3, <2>4, <2>5, <2>8, <2>9, <2>10, <2>11 DEF V!Next
<1>2. V!ScreenCurrent'
  <2>1. CASE drawn' = Null
    BY <2>1 DEF V!ScreenCurrent
  <2>2. CASE V!Draw
    <3>1. UNCHANGED <<snapshot, screenView, selected, paused, size>>
      BY <2>2 DEF V!Draw
    <3>2. V!Render' = V!Render /\ V!Footer' = V!Footer
      BY <3>1 DEF V!Render, V!Footer, V!NodeCount, V!ShownNodes
    <3>3. drawn' = [rows |-> SubSeq(V!Render, 1, V!Min({Len(V!Render), V!AtLeast(size[2] - 2, 0)})), footer |-> V!Footer]
      BY <2>2 DEF V!Draw
    <3>. QED BY <3>1, <3>2, <3>3 DEF V!ScreenCurrent
  <2>. QED BY <2>1, <2>2 DEF V!Next, V!OnSnapshot, V!Resize, V!ChooseView, V!NextView, V!Pause, V!Select, V!Right,
                             V!Left, V!Digit
<1>. QED BY <1>1, <1>2

\* What the terminal shows (index.ts, render.ts of packages/tui), for any snapshots and windows, whatever is pressed,
\* resized or taken in: the frame and the footer of now; in the overview no subject that some
\* level of detail has room for, and no node where each has room for a row, gives way to decoration;
\* and rows of no other node than the one that the footer names.
THEOREM ScreensAreHonest == Spec => []ScreenHonest
<1>. DEFINE Inv == part = "terminal" => ScreenInv
<1>1. Init => Inv
  <2>. SUFFICES ASSUME Init, part = "terminal" PROVE ScreenInv
    OBVIOUS
  <2>1. V!Init
    BY DEF Init
  <2>2. ScreenType
    <3>1. -1 \in Int
      OBVIOUS
    <3>. QED BY <2>1, <3>1 DEF V!Init, ScreenType, ScreenViews
  <2>3. V!ScreenCurrent
    BY <2>1 DEF V!Init, V!ScreenCurrent
  <2>. QED BY <2>2, <2>3 DEF ScreenInv
<1>2. Inv /\ [Next]_vars => Inv'
  <2>. SUFFICES ASSUME Inv, [Next]_vars, part' = "terminal" PROVE ScreenInv'
    OBVIOUS
  <2>1. CASE Next
    <3>1. ScreenInv /\ V!Next
      BY <2>1 DEF Next, OthersStay
    <3>. QED BY <3>1, ScreenNext
  <2>2. CASE UNCHANGED vars
    <3>1. UNCHANGED <<snapshot, screenView, selected, paused, size, drawn>> /\ ScreenInv
      BY <2>2 DEF vars, terminalVars
    <3>2. V!Render' = V!Render /\ V!Footer' = V!Footer
      BY <3>1 DEF V!Render, V!Footer, V!NodeCount, V!ShownNodes
    <3>3. V!ScreenCurrent'
      BY <3>1, <3>2 DEF ScreenInv, V!ScreenCurrent
    <3>4. ScreenType'
      BY <3>1 DEF ScreenInv, ScreenType
    <3>. QED BY <3>3, <3>4 DEF ScreenInv
  <2>. QED BY <2>1, <2>2
<1>3. Inv => ScreenHonest
  BY NothingLost, FooterNames DEF ScreenInv, ScreenHonest, V!ScreenHonest
<1>. QED BY <1>1, <1>2, <1>3, PTL DEF Spec

=================================================================================
