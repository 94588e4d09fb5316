------------------------------ MODULE SampleRing ------------------------------
(***************************************************************************)
(* The fixed-size ring of packages/core/src/history.ts (class Ring), as    *)
(* operators on ring values.                                               *)
(***************************************************************************)
EXTENDS Naturals, Sequences

CONSTANTS
  Capacity,  \* slots per ring; 300 in the code
  Reading,   \* the chart values a slot may hold
  NaN,       \* "no reading at this instant"
  Zero       \* what a fresh Float64Array holds; also a legal reading

ASSUME CapacityAssumption == Capacity \in Nat \ {0}
ASSUME ReadingAssumption == Zero \in Reading /\ NaN \notin Reading

Slot == 0..(Capacity - 1)
Value == Reading \cup {NaN}

Ring == [buf : [Slot -> Value], head : Slot, len : 0..Capacity, blank : Nat]

Push(r, v) ==
  [buf   |-> [r.buf EXCEPT ![r.head] = v],
   head  |-> (r.head + 1) % Capacity,
   len   |-> IF r.len < Capacity THEN r.len + 1 ELSE r.len,
   blank |-> IF v = NaN THEN r.blank + 1 ELSE 0]

\* A new ring after n <= Capacity pushes of NaN.
Backfilled(n) ==
  [buf   |-> [i \in Slot |-> IF i < n THEN NaN ELSE Zero],
   head  |-> n % Capacity,
   len   |-> n,
   blank |-> n]

IsEmpty(r) == r.blank >= r.len /\ r.len >= Capacity

\* Mutant: the start index is the head, as if the ring were always full.
ToArray_FromHead(r) == [i \in 1..r.len |-> r.buf[(r.head + (i - 1)) % Capacity]]

\* Oldest first.
ToArray(r) ==
  LET start == (r.head + Capacity - r.len) % Capacity
  IN  [i \in 1..r.len |-> r.buf[(start + (i - 1)) % Capacity]]

===============================================================================
