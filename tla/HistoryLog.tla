------------------------------ MODULE HistoryLog ------------------------------
(***************************************************************************)
(* What the chart history promises: the last Capacity ticks, each with the *)
(* reading of every series at that tick, NaN where a series had none.      *)
(* Forgetting a set of series blanks them and moves no other reading.      *)
(***************************************************************************)
EXTENDS Naturals, Sequences

CONSTANTS Capacity, Key, Reading, NaN, Stamp

VARIABLE log  \* sequence of [ts, val]: the retained ticks, oldest first

Tick == [ts : Stamp, val : [Key -> Reading \cup {NaN}]]

Init == log = << >>

LastTicks(s) == IF Len(s) > Capacity THEN Tail(s) ELSE s

Record(tick) == log' = LastTicks(Append(log, tick))

Forget(K) ==
  log' = [i \in 1..Len(log) |->
            [ts  |-> log[i].ts,
             val |-> [k \in Key |-> IF k \in K THEN NaN ELSE log[i].val[k]]]]

Next == (\E tick \in Tick : Record(tick)) \/ (\E K \in SUBSET Key : Forget(K))

Spec == Init /\ [][Next]_log

===============================================================================
