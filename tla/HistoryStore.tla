----------------------------- MODULE HistoryStore -----------------------------
(***************************************************************************)
(* The server's in-memory chart history (packages/core/src/history.ts,     *)
(* class HistoryStore): one timeline shared by rings that are created on   *)
(* demand, retired when they have gone blank, and pruned when their node   *)
(* is removed.                                                             *)
(***************************************************************************)
EXTENDS SampleRing

CONSTANTS
  Nodes,       \* ids of nodes that may be configured
  NodeKeys,    \* NodeKeys[n]: series `n:<metric>` and `infer:n:<port>:<metric>`
  LinkKeys,    \* series `link:<id>:<direction>`
  ClusterKeys, \* series `cluster:<metric>`
  Stamp        \* values of snap.ts; nothing is assumed of their order

Key == (UNION {NodeKeys[n] : n \in Nodes}) \cup LinkKeys \cup ClusterKeys

ASSUME StampAssumption == Stamp # {}
ASSUME KeyAssumption ==
  \A n \in Nodes : NodeKeys[n] \cap (LinkKeys \cup ClusterKeys) = {}

VARIABLES
  ts,      \* this.ts
  series,  \* the keys of the map this.series
  ring     \* their rings; a key outside series has the ring it would be given

vars == <<ts, series, ring>>

\* Type invariant of the store's fields (history.ts:157-158).
TypeOK ==
  /\ ts \in Seq(Stamp) /\ Len(ts) <= Capacity
  /\ series \subseteq Key
  /\ ring \in [Key -> Ring]

Init ==
  /\ ts = << >>
  /\ series = {}
  /\ ring = [k \in Key |-> Backfilled(0)]

\* ring(key): the ring of a known series, or a new one back-filled with one NaN for
\* every tick the series missed; called before the current tick is on the timeline.
RingOf(k) == IF k \in series THEN ring[k] ELSE Backfilled(Len(ts))

\* Every ring after the tick: what the sample says, NaN for a series it leaves out.
PushTick(sample) ==
  [k \in Key |-> Push(RingOf(k), IF k \in DOMAIN sample THEN sample[k] ELSE NaN)]

\* Mutant: shift() is called one tick too late.
AppendTick_LateShift(stamp) ==
  LET longer == Append(ts, stamp) IN IF Len(ts) > Capacity THEN Tail(longer) ELSE longer

\* this.ts.push(stamp), then shift() when that made it too long.
AppendTick(stamp) ==
  LET longer == Append(ts, stamp) IN IF Len(longer) > Capacity THEN Tail(longer) ELSE longer

\* Mutant: nothing is retired.
Record_NoRetire(stamp, sample) ==
  LET pushed == PushTick(sample)
  IN  /\ ts' = AppendTick(stamp)
      /\ series' = series \cup DOMAIN sample
      /\ ring' = [k \in Key |-> IF k \in series' THEN pushed[k] ELSE Backfilled(Len(ts'))]

\* record(snap), with historySample(snap) = sample.
Record(stamp, sample) ==
  LET pushed == PushTick(sample)
  IN  /\ ts' = AppendTick(stamp)
      /\ series' = {k \in series \cup DOMAIN sample : ~IsEmpty(pushed[k])}
      /\ ring' = [k \in Key |-> IF k \in series' THEN pushed[k] ELSE Backfilled(Len(ts'))]

\* prune(valid), as broadcastConfig calls it: without the set of valid keys.
Prune(valid) ==
  LET gone == series \cap UNION {NodeKeys[n] : n \in Nodes \ valid}
  IN  /\ series' = series \ gone
      /\ ring' = [k \in Key |-> IF k \in gone THEN Backfilled(Len(ts)) ELSE ring[k]]
      /\ ts' = ts

\* historySample(): cluster series are in every sample, and only the series of a
\* node or of an engine may read NaN (an offline node, an unknown rate).
Sample ==
  {s \in UNION {[K -> Value] : K \in SUBSET Key} :
     /\ ClusterKeys \subseteq DOMAIN s
     /\ \A k \in DOMAIN s \cap (ClusterKeys \cup LinkKeys) : s[k] # NaN}

Next ==
  \/ \E stamp \in Stamp, sample \in Sample : Record(stamp, sample)
  \/ \E valid \in SUBSET Nodes : Prune(valid)

Spec == Init /\ [][Next]_vars

-----------------------------------------------------------------------------
(* Properties. *)

\* payload(): the arrays sent to a client.
Payload == [k \in series |-> ToArray(ring[k])]

\* Every series has one slot per timestamp (history.ts:4-8), whatever was created,
\* retired or pruned, and before and after the timeline wraps.
Aligned == \A k \in series : Len(Payload[k]) = Len(ts)

\* Once the timeline is full, a retained series holds at least one reading: rings of
\* what is gone do not accumulate (history.ts:196-204).
NoDeadSeries ==
  Len(ts) = Capacity => \A k \in series : \E i \in 1..Capacity : Payload[k][i] # NaN

\* Every series' reading at tick i.  A series that is not retained has none.
Readings(i) == [k \in Key |-> IF k \in series THEN Payload[k][i] ELSE NaN]

\* The history as its promise has it.
LogView == [i \in 1..Len(ts) |-> [ts |-> ts[i], val |-> Readings(i)]]

Log == INSTANCE HistoryLog WITH log <- LogView

\* The store implements the promise: no reading is ever shifted onto another tick,
\* lost before it leaves the window, or invented (history.ts:4-11, 196-204).
ImplementsLog == Log!Spec

===============================================================================
