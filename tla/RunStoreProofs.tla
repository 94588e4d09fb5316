---------------------------- MODULE RunStoreProofs ----------------------------
(***************************************************************************)
(* Proofs about RunStore for any endpoints, models and intervals.          *)
(***************************************************************************)
EXTENDS RunStore, TLAPS

USE NullAssumption, IntervalAssumption

\* What the proofs need to know of a record() call in progress: the rows it is to
\* close as stale are open, and the key that lost its run has no other open one.
OpInv ==
  /\ op.phase # "stale" => op.stale = {}
  /\ \A r \in op.stale : r \in runs /\ r.end = Null
  /\ op.vacant # Null => Open(op.vacant) = {}

Inv == TypeOK /\ OneOpenRun /\ OpInv

LEMMA InitInv == Init => Inv
BY DEF Init, Inv, TypeOK, OneOpenRun, OpInv, Open, Op, Idle

\* A row with its end set is a row.
LEMMA ClosedType ==
  ASSUME NEW r \in Run
  PROVE  Closed(r) \in Run /\ Closed(r).end = r.seen /\ Closed(r).end # Null /\ Closed(r).key = r.key
         /\ Closed(r).seen = r.seen /\ Closed(r).start = r.start /\ Closed(r).g0 = r.g0
BY DEF Closed, Run

\* Closing an open row keeps one open run per key, and leaves its key with none.
LEMMA CloseRow ==
  ASSUME TypeOK, OneOpenRun, NEW r \in runs, r.end = Null, Replace(r, Closed(r))
  PROVE  /\ runs' \in SUBSET Run /\ \A q \in runs' : q.end \in {Null, q.seen}
         /\ OneOpenRun'
         /\ Open(r.key)' = {}
         /\ \A k \in Key : Open(k) = {} => Open(k)' = {}
         /\ \A q \in runs : q # r => q \in runs'
<1>1. /\ r \in Run /\ Closed(r) \in Run /\ Closed(r).end = r.seen /\ Closed(r).end # Null
      /\ Closed(r).key = r.key /\ Closed(r).seen = r.seen
  BY ClosedType DEF TypeOK
<1>2. runs' = (runs \ {r}) \cup {Closed(r)}
  BY DEF Replace
<1>3. runs' \in SUBSET Run /\ \A q \in runs' : q.end \in {Null, q.seen}
  BY <1>1, <1>2 DEF TypeOK
<1>4. \A k : Open(k)' = Open(k) \ {r}
  BY <1>1, <1>2 DEF Open
<1>5. r.key \in Key
  BY <1>1 DEF Run
<1>6. Open(r.key) \subseteq {r}
  BY <1>5 DEF OneOpenRun, Open
<1>. QED BY <1>2, <1>3, <1>4, <1>6 DEF OneOpenRun

LEMMA NextInv == Inv /\ [Next]_vars => Inv'
<1>. SUFFICES ASSUME Inv, [Next]_vars PROVE Inv'
  OBVIOUS
<1>. USE DEF clock, engine, table, memory, ghost
<1>1. ASSUME NEW e \in Endpoints, Generate(e) \/ EngineRestarts(e)
      PROVE  Inv'
  <2>1. UNCHANGED <<clock, table, memory, op, ghost>> /\ counter' \in [Endpoints -> Nat]
        /\ work' \in [Endpoints -> Nat]
    BY <1>1 DEF Generate, EngineRestarts, Inv, TypeOK
  <2>. QED BY <2>1 DEF Inv, TypeOK, OneOpenRun, OpInv, Open
<1>2. ASSUME NEW t \in (real + 1)..MaxTime, NEW s \in Skews, NEW serving \in SUBSET Key,
             BeginRecord(t, s, serving)
      PROVE  Inv'
  <2>1. /\ op' = [phase |-> "runs", todo |-> serving, seen |-> serving, stale |-> {}, vacant |-> Null]
        /\ UNCHANGED <<engine, table, memory, done>> /\ real' = t /\ skew' = s
        /\ mishaps' \in SUBSET Mishap
    BY <1>2 DEF BeginRecord, Idle, Inv, TypeOK, Mishap
  <2>3. op' \in Op
    BY <2>1 DEF Op
  <2>. QED BY <2>1, <2>3 DEF Inv, TypeOK, OneOpenRun, OpInv, Open
<1>3. ASSUME NEW k \in op.todo, Continue(k)
      PROVE  Inv'
  <2>1. PICK r \in Open(k) : Replace(r, [r EXCEPT !.seen = Ts, !.g1 = counter[k[1]], !.w1 = work[k[1]]])
    BY <1>3 DEF Continue, Latest
  <2>. DEFINE q == [r EXCEPT !.seen = Ts, !.g1 = counter[k[1]], !.w1 = work[k[1]]]
  <2>2. k \in Key /\ k[1] \in Endpoints /\ r \in Run /\ r \in runs /\ r.end = Null /\ r.key = k
        /\ Ts \in Int
    BY <2>1 DEF Open, Inv, TypeOK, Op, Key, Ts
  <2>3. q \in Run /\ q.key = k /\ q.end = Null
    BY <2>2 DEF Run, Inv, TypeOK
  <2>4. runs' = (runs \ {r}) \cup {q}
    BY <2>1 DEF Replace
  <2>5. /\ op' = [op EXCEPT !.todo = @ \ {k}] /\ op' \in Op /\ op'.stale = {} /\ op'.vacant = Null
    BY <1>3 DEF Continue, Inv, TypeOK, OpInv, Op
  <2>6. UNCHANGED <<clock, engine, samples, memory, ghost>>
    BY <1>3 DEF Continue
  <2>7. runs' \in SUBSET Run /\ \A x \in runs' : x.end \in {Null, x.seen}
    BY <2>3, <2>4 DEF Inv, TypeOK
  <2>8. TypeOK'
    BY <2>5, <2>6, <2>7 DEF Inv, TypeOK
  <2>9. OneOpenRun'
    <3>1. Open(k) = {r}
      BY <2>2 DEF Inv, OneOpenRun, Open
    <3>2. \A j \in Key : Open(j)' = IF j = k THEN {q} ELSE Open(j)
      BY <2>2, <2>3, <2>4, <3>1 DEF Open
    <3>. QED BY <3>2 DEF Inv, OneOpenRun
  <2>. QED BY <2>5, <2>8, <2>9 DEF Inv, OpInv
<1>4. ASSUME NEW k \in op.todo, CloseGap(k)
      PROVE  Inv'
  <2>1. PICK r \in Open(k) : Replace(r, Closed(r))
    BY <1>4 DEF CloseGap, Latest
  <2>2. r \in runs /\ r.end = Null /\ r.key = k /\ k \in Key /\ k # Null
    BY <2>1 DEF Open, Inv, TypeOK, Op
  <2>3. /\ op' = [op EXCEPT !.vacant = k] /\ op' \in Op /\ op'.stale = {} /\ op'.vacant = k
        /\ UNCHANGED <<clock, engine, samples, memory, ghost>>
    BY <1>4, <2>2 DEF CloseGap, Inv, TypeOK, OpInv, Op
  <2>4. /\ runs' \in SUBSET Run /\ \A q \in runs' : q.end \in {Null, q.seen}
        /\ OneOpenRun' /\ Open(k)' = {}
    BY <2>1, <2>2, CloseRow DEF Inv
  <2>5. TypeOK'
    BY <2>3, <2>4 DEF Inv, TypeOK
  <2>. QED BY <2>3, <2>4, <2>5 DEF Inv, OpInv
<1>5. ASSUME NEW k \in op.todo, Insert(k)
      PROVE  Inv'
  <2>1. k \in Key /\ k[1] \in Endpoints /\ Ts \in Int
    <3>1. op.todo \in SUBSET Key
      BY DEF Inv, TypeOK, Op
    <3>2. real \in Int /\ skew \in Int
      BY DEF Inv, TypeOK
    <3>. QED BY <3>1, <3>2 DEF Key, Ts
  <2>. DEFINE n == NewRun(k, counter[k[1]])
  <2>2. n \in Run /\ n.key = k /\ n.end = Null
    <3>1. counter[k[1]] \in Nat /\ work[k[1]] \in Nat
      BY <2>1 DEF Inv, TypeOK
    <3>. QED BY <2>1, <3>1 DEF NewRun, Run
  <2>3. Open(k) = {}
    BY <1>5, <2>1 DEF Insert, Inv, OpInv
  <2>4. runs' = runs \cup {n}
    BY <1>5 DEF Insert
  <2>5. /\ op' = [op EXCEPT !.todo = @ \ {k}, !.vacant = Null]
        /\ UNCHANGED <<clock, engine, samples, memory, ghost>> /\ op.phase = "runs"
    BY <1>5 DEF Insert
  <2>8. op' \in Op /\ op'.stale = {} /\ op'.vacant = Null
    BY <2>5 DEF Inv, TypeOK, OpInv, Op
  <2>6. TypeOK'
    BY <2>2, <2>4, <2>5, <2>8 DEF Inv, TypeOK
  <2>7. OneOpenRun'
    <3>1. \A j \in Key : Open(j)' = IF j = k THEN {n} ELSE Open(j)
      BY <2>2, <2>3, <2>4 DEF Open
    <3>. QED BY <3>1 DEF Inv, OneOpenRun
  <2>. QED BY <2>6, <2>7, <2>8 DEF Inv, OpInv
<1>6. CASE SelectStale
  <2>1. /\ op'.stale = {r \in runs : r.end = Null /\ r.seen < Ts - RunGap /\ r.key \notin op.seen}
        /\ op'.phase = "stale" /\ op'.vacant = op.vacant /\ op' \in Op
        /\ UNCHANGED <<clock, engine, table, memory, ghost>>
    BY <1>6 DEF SelectStale, Inv, TypeOK, Op
  <2>. QED BY <2>1 DEF Inv, TypeOK, OneOpenRun, OpInv, Open
<1>7. ASSUME NEW r \in op.stale, CloseStale(r)
      PROVE  Inv'
  <2>1. r \in runs /\ r.end = Null /\ Replace(r, Closed(r))
    BY <1>7 DEF CloseStale, Inv, OpInv
  <2>2. /\ op' = [op EXCEPT !.stale = @ \ {r}] /\ op' \in Op /\ op'.phase = "stale"
        /\ op'.stale = op.stale \ {r} /\ op'.vacant = op.vacant
        /\ UNCHANGED <<clock, engine, samples, memory, ghost>>
    BY <1>7 DEF CloseStale, Inv, TypeOK, Op
  <2>3. /\ runs' \in SUBSET Run /\ \A q \in runs' : q.end \in {Null, q.seen}
        /\ OneOpenRun' /\ \A k \in Key : Open(k) = {} => Open(k)' = {}
        /\ \A q \in runs : q # r => q \in runs'
    BY <2>1, CloseRow DEF Inv
  <2>4. TypeOK'
    BY <2>2, <2>3 DEF Inv, TypeOK
  <2>5. OpInv'
    BY <2>2, <2>3 DEF Inv, TypeOK, OpInv, Op, Open
  <2>. QED BY <2>3, <2>4, <2>5 DEF Inv
<1>8. CASE WriteSamples
  <2>1. /\ op' = [op EXCEPT !.phase = "prune"] /\ op' \in Op /\ op'.stale = {} /\ op'.vacant = op.vacant
        /\ UNCHANGED <<clock, engine, runs, lastPruneAt, ghost>>
    BY <1>8 DEF WriteSamples, Inv, TypeOK, Op
  <2>2. \A k \in op.seen : [ts |-> Ts, ep |-> k[1], at |-> real] \in SampleRow
    BY DEF Inv, TypeOK, Op, Key, SampleRow, Ts
  <2>3. lastSampleAt' \in Int /\ samples' \in SUBSET SampleRow
    <3>1. CASE SampleDue
      <4>1. lastSampleAt' = Ts /\ samples' = samples \cup {[ts |-> Ts, ep |-> k[1], at |-> real] : k \in op.seen}
        BY <1>8, <3>1, Zenon DEF WriteSamples
      <4>. QED BY <2>2, <4>1 DEF Inv, TypeOK, Ts
    <3>2. CASE ~SampleDue
      <4>1. UNCHANGED <<lastSampleAt, samples>>
        BY <1>8, <3>2, Zenon DEF WriteSamples
      <4>. QED BY <4>1 DEF Inv, TypeOK
    <3>. QED BY <3>1, <3>2
  <2>. QED BY <2>1, <2>3 DEF Inv, TypeOK, OneOpenRun, OpInv, Open
<1>9. CASE PruneSamples
  <2>1. /\ op' = [op EXCEPT !.phase = "pruneRuns"] /\ op' \in Op /\ op'.stale = {} /\ op'.vacant = op.vacant
        /\ lastPruneAt' \in Int /\ samples' \in SUBSET SampleRow
        /\ UNCHANGED <<clock, engine, runs, lastSampleAt, ghost>>
    BY <1>9 DEF PruneSamples, Inv, TypeOK, OpInv, Op, Ts
  <2>. QED BY <2>1 DEF Inv, TypeOK, OneOpenRun, OpInv, Open
<1>10. CASE PruneRuns
  <2>1. /\ runs' \subseteq runs /\ op' = Idle /\ done' \in Int
        /\ UNCHANGED <<clock, engine, samples, memory, mishaps>>
    BY <1>10 DEF PruneRuns, Inv, TypeOK, Ts
  <2>. QED BY <2>1 DEF Inv, TypeOK, OneOpenRun, OpInv, Open, Op, Idle
<1>11. CASE EndRecord
  <2>1. op' = Idle /\ done' \in Int /\ UNCHANGED <<clock, engine, table, memory, mishaps>>
    BY <1>11 DEF EndRecord, Inv, TypeOK, Ts
  <2>. QED BY <2>1 DEF Inv, TypeOK, OneOpenRun, OpInv, Open, Op, Idle
<1>12. CASE Fail \/ Restart
  <2>1. /\ lastSampleAt' \in Int /\ lastPruneAt' \in Int
        /\ op' = Idle /\ UNCHANGED <<clock, engine, table, done>>
        /\ mishaps' \in SUBSET Mishap
    <3>1. CASE Fail
      <4>1. lastSampleAt' \in {Ts, lastSampleAt} /\ lastPruneAt' \in {Ts, lastPruneAt}
        BY <3>1, Zenon DEF Fail
      <4>2. /\ op' = Idle /\ UNCHANGED <<clock, engine, table, done>>
            /\ mishaps' = mishaps \cup {"statement_failed"}
        BY <3>1 DEF Fail
      <4>3. mishaps' \in SUBSET Mishap
        BY <4>2, Zenon DEF Inv, TypeOK, Mishap
      <4>4. Ts \in Int /\ lastSampleAt \in Int /\ lastPruneAt \in Int
        BY DEF Inv, TypeOK, Ts
      <4>. QED BY <4>1, <4>2, <4>3, <4>4
    <3>2. CASE Restart
      BY <3>2 DEF Restart, Inv, TypeOK
    <3>. QED BY <1>12, <3>1, <3>2
  <2>. QED BY <2>1 DEF Inv, TypeOK, OneOpenRun, OpInv, Open, Op, Idle
<1>13. CASE UNCHANGED vars
  BY <1>13 DEF vars, Inv, TypeOK, OneOpenRun, OpInv, Open
<1>. QED BY <1>1, <1>2, <1>3, <1>4, <1>5, <1>6, <1>7, <1>8, <1>9, <1>10, <1>11, <1>12, <1>13 DEF Next

LEMMA Invariance == Spec => []Inv
BY InitInv, NextInv, PTL DEF Spec

\* The tables stay well-formed, wherever record() is cut off.
THEOREM TypeCorrect == Spec => []TypeOK
<1>1. Inv => TypeOK
  BY DEF Inv
<1>. QED BY <1>1, Invariance, PTL

\* At most one run of an endpoint and model is open, whatever the clock does.
THEOREM AtMostOneOpen == Spec => []OneOpenRun
<1>1. Inv => OneOpenRun
  BY DEF Inv
<1>. QED BY <1>1, Invariance, PTL

-----------------------------------------------------------------------------
(* The sessions: more about the clock, the rows and the call in progress.  *)

Jumped == "clock_jumped" \in mishaps

\* A time the clock has shown: real time having passed, less than some skew makes of it now.
Shown(t) == t = 0 \/ t <= Ts \/ \E s \in Skews : t < real + s

TimeInv ==
  /\ real >= Start
  /\ Shown(done) /\ Shown(lastPruneAt)
  /\ ~Jumped => skew = 0 /\ done <= real

\* What the call in progress has achieved: the runs it has dealt with are up to date, what
\* it selected as stale is stale, and once that is closed no open run is.
ProgressInv ==
  /\ op.phase = "idle" => op = Idle
  /\ op.todo \subseteq op.seen
  /\ \A r \in runs : r.end = Null /\ r.key \in op.seen \ op.todo => r.seen = Ts
  /\ op.phase = "stale" => \A r \in runs : r.end = Null /\ r.seen < Ts - RunGap => r \in op.stale
  /\ \A r \in op.stale : r.seen < Ts - RunGap
  /\ op.phase \in {"prune", "pruneRuns"} => \A r \in runs : r.end = Null => r.seen >= Ts - RunGap
  /\ op.phase = "pruneRuns" => lastPruneAt = Ts

\* A run row counts no more than was generated, and would not if it were continued now.
TokenInv == \A r \in runs :
  /\ r.w0 <= r.w1 /\ r.w1 <= work[r.key[1]] /\ r.g1 - r.g0 <= r.w1 - r.w0
  /\ counter[r.key[1]] - r.g0 <= work[r.key[1]] - r.w0

\* With a clock that does not jump, a run that ended did so more than the gap ago.
SessionInv ==
  ~Jumped => \A r \in runs :
    /\ r.start <= r.seen /\ r.seen <= real
    /\ IF r.end = Null THEN r.seen >= done - RunGap ELSE r.seen + RunGap < real

SampleInv == ~Jumped => \A s \in samples : s.ts = s.at

\* What an UPDATE makes of the row r.
Grown(r) == [r EXCEPT !.seen = Ts, !.g1 = counter[r.key[1]], !.w1 = work[r.key[1]]]

\* What a statement may do to the table of runs.
RunsMove ==
  \/ runs' = runs
  \/ \E r \in runs : r.end = Null /\ Ts - r.seen <= RunGap /\ runs' = (runs \ {r}) \cup {Grown(r)}
  \/ \E r \in runs : r.end = Null /\ r.seen + RunGap < Ts /\ runs' = (runs \ {r}) \cup {Closed(r)}
  \/ \E k \in Key : Open(k) = {} /\ runs' = runs \cup {NewRun(k, counter[k[1]])}
  \/ runs' = {r \in runs : r.end = Null \/ r.end >= Ts - Retention}

LEMMA GrownType ==
  ASSUME TypeOK, NEW r \in runs, r.end = Null
  PROVE  /\ r \in Run /\ Grown(r) \in Run /\ Grown(r).key = r.key /\ Grown(r).start = r.start /\ Grown(r).end = Null
         /\ Grown(r).seen = Ts /\ Grown(r).g0 = r.g0 /\ Grown(r).w0 = r.w0
         /\ Grown(r).g1 = counter[r.key[1]] /\ Grown(r).w1 = work[r.key[1]]
         /\ r.key \in Key /\ r.key[1] \in Endpoints /\ Ts \in Int
<1>1. r \in Run /\ r.key \in Key /\ r.key[1] \in Endpoints /\ Ts \in Int
  BY DEF TypeOK, Run, Key, Ts
<1>2. counter[r.key[1]] \in Nat /\ work[r.key[1]] \in Nat
  BY <1>1 DEF TypeOK
<1>. QED BY <1>1, <1>2 DEF Grown, Run

LEMMA NewRunType ==
  ASSUME TypeOK, NEW k \in Key
  PROVE  LET n == NewRun(k, counter[k[1]])
         IN /\ n \in Run /\ n.key = k /\ n.start = Ts /\ n.seen = Ts /\ n.end = Null
            /\ n.g0 = counter[k[1]] /\ n.g1 = counter[k[1]] /\ n.w0 = work[k[1]] /\ n.w1 = work[k[1]]
            /\ k[1] \in Endpoints /\ Ts \in Int
<1>1. k[1] \in Endpoints /\ Ts \in Int
  BY DEF TypeOK, Key, Ts
<1>2. counter[k[1]] \in Nat /\ work[k[1]] \in Nat
  BY <1>1 DEF TypeOK
<1>. QED BY <1>1, <1>2 DEF NewRun, Run

\* Every step changes the table of runs in one of these ways, and then neither the clock nor the engines.
LEMMA RunsStep ==
  ASSUME Inv, ProgressInv, [Next]_vars
  PROVE  RunsMove /\ (runs' # runs => UNCHANGED <<clock, engine>>)
<1>. USE DEF clock, engine, table, memory, ghost
<1>1. ASSUME NEW k \in op.todo, Continue(k)
      PROVE  UNCHANGED <<clock, engine>> /\ RunsMove
  <2>1. PICK r \in Latest(k) : Ts - r.seen <= RunGap
              /\ Replace(r, [r EXCEPT !.seen = Ts, !.g1 = counter[k[1]], !.w1 = work[k[1]]])
    BY <1>1 DEF Continue
  <2>2. r \in runs /\ r.end = Null /\ r.key = k
    BY <2>1 DEF Latest, Open
  <2>3. runs' = (runs \ {r}) \cup {Grown(r)}
    BY <2>1, <2>2 DEF Replace, Grown
  <2>4. UNCHANGED <<clock, engine>>
    BY <1>1 DEF Continue
  <2>. QED BY <2>1, <2>2, <2>3, <2>4 DEF RunsMove
<1>2. ASSUME NEW k \in op.todo, CloseGap(k)
      PROVE  UNCHANGED <<clock, engine>> /\ RunsMove
  <2>1. PICK r \in Latest(k) : Ts - r.seen > RunGap /\ Replace(r, Closed(r))
    BY <1>2 DEF CloseGap
  <2>2. r \in runs /\ r.end = Null
    BY <2>1 DEF Latest, Open
  <2>5. r.seen \in Int /\ Ts \in Int
    BY <2>2 DEF Inv, TypeOK, Run, Ts
  <2>3. r.seen + RunGap < Ts
    BY <2>1, <2>5
  <2>4. UNCHANGED <<clock, engine>>
    BY <1>2 DEF CloseGap
  <2>. QED BY <2>1, <2>2, <2>3, <2>4 DEF RunsMove, Replace
<1>3. ASSUME NEW k \in op.todo, Insert(k)
      PROVE  UNCHANGED <<clock, engine>> /\ RunsMove
  <2>1. k \in Key
    BY DEF Inv, TypeOK, Op
  <2>2. Open(k) = {}
    BY <1>3, <2>1 DEF Insert, Inv, OpInv
  <2>3. runs' = runs \cup {NewRun(k, counter[k[1]])} /\ UNCHANGED <<clock, engine>>
    BY <1>3 DEF Insert
  <2>. QED BY <2>1, <2>2, <2>3 DEF RunsMove
<1>4. ASSUME NEW r \in op.stale, CloseStale(r)
      PROVE  UNCHANGED <<clock, engine>> /\ RunsMove
  <2>1. r \in runs /\ r.end = Null /\ r.seen < Ts - RunGap
    BY DEF Inv, OpInv, ProgressInv
  <2>2. r.seen \in Int /\ Ts \in Int
    BY <2>1 DEF Inv, TypeOK, Run, Ts
  <2>3. r.seen + RunGap < Ts
    BY <2>1, <2>2
  <2>4. runs' = (runs \ {r}) \cup {Closed(r)} /\ UNCHANGED <<clock, engine>>
    BY <1>4 DEF CloseStale, Replace
  <2>. QED BY <2>1, <2>3, <2>4 DEF RunsMove
<1>5. CASE PruneRuns
  BY <1>5 DEF PruneRuns, RunsMove
<1>6. CASE \/ \E e \in Endpoints : Generate(e) \/ EngineRestarts(e)
           \/ \E t \in (real + 1)..MaxTime, s \in Skews, serving \in SUBSET Key : BeginRecord(t, s, serving)
           \/ SelectStale \/ WriteSamples \/ PruneSamples \/ EndRecord \/ Fail \/ Restart
           \/ UNCHANGED vars
  <2>1. CASE \E e \in Endpoints : Generate(e) \/ EngineRestarts(e)
    BY <2>1 DEF Generate, EngineRestarts, RunsMove
  <2>2. CASE \E t \in (real + 1)..MaxTime, s \in Skews, serving \in SUBSET Key : BeginRecord(t, s, serving)
    BY <2>2 DEF BeginRecord, RunsMove
  <2>3. CASE SelectStale
    BY <2>3 DEF SelectStale, RunsMove
  <2>4. CASE WriteSamples \/ PruneSamples
    BY <2>4 DEF WriteSamples, PruneSamples, RunsMove
  <2>5. CASE EndRecord \/ Fail \/ Restart \/ UNCHANGED vars
    BY <2>5 DEF EndRecord, Fail, Restart, vars, RunsMove
  <2>. QED BY <1>6, <2>1, <2>2, <2>3, <2>4, <2>5
<1>. QED BY <1>1, <1>2, <1>3, <1>4, <1>5, <1>6 DEF Next

LEMMA NextProgress ==
  ASSUME Inv, ProgressInv, [Next]_vars
  PROVE  ProgressInv'
<1>. USE DEF clock, engine, table, memory, ghost
<1>0. /\ op \in Op /\ Ts \in Int /\ \A r \in runs : r.seen \in Int
      /\ op.todo \in SUBSET Key /\ op.stale \in SUBSET Run
  BY DEF Inv, TypeOK, Op, Run, Ts
<1>1. CASE \E e \in Endpoints : Generate(e) \/ EngineRestarts(e)
  <2>1. UNCHANGED <<op, runs, real, skew, lastPruneAt>>
    BY <1>1 DEF Generate, EngineRestarts
  <2>. QED BY <2>1 DEF ProgressInv, Ts
<1>2. CASE \E t \in (real + 1)..MaxTime, s \in Skews, serving \in SUBSET Key : BeginRecord(t, s, serving)
  <2>1. op'.phase = "runs" /\ op'.todo = op'.seen /\ op'.stale = {}
    BY <1>2 DEF BeginRecord, Idle
  <2>. QED BY <2>1 DEF ProgressInv
<1>3. ASSUME NEW k \in op.todo, Continue(k)
      PROVE  ProgressInv'
  <2>1. PICK r \in Latest(k) : Replace(r, [r EXCEPT !.seen = Ts, !.g1 = counter[k[1]], !.w1 = work[k[1]]])
    BY <1>3 DEF Continue
  <2>2. r \in runs /\ r.end = Null /\ r.key = k /\ k \in Key
    BY <2>1, <1>0 DEF Latest, Open
  <2>3. runs' = (runs \ {r}) \cup {Grown(r)} /\ Grown(r).seen = Ts /\ Grown(r).key = k
    BY <2>1, <2>2, GrownType DEF Replace, Grown, Inv
  <2>4. op'.phase = "runs" /\ op'.todo = op.todo \ {k} /\ op'.seen = op.seen /\ op'.stale = {} /\ Ts' = Ts
    BY <1>0, <1>3 DEF Continue, Op, Ts, Inv, OpInv
  <2>5. \A x \in runs : x.end = Null /\ x.key = k => x = r
    BY <2>2 DEF Inv, OneOpenRun, Open
  <2>6. \A x \in runs' : x.end = Null /\ x.key \in op'.seen \ op'.todo => x.seen = Ts
    BY <2>3, <2>4, <2>5 DEF ProgressInv
  <2>. QED BY <2>4, <2>6 DEF ProgressInv
<1>4. ASSUME NEW k \in op.todo, CloseGap(k)
      PROVE  ProgressInv'
  <2>1. PICK r \in runs : runs' = (runs \ {r}) \cup {Closed(r)}
    BY <1>4 DEF CloseGap, Latest, Open, Replace
  <2>2. Closed(r).end # Null
    BY ClosedType DEF Inv, TypeOK
  <2>3. op'.phase = "runs" /\ op'.todo = op.todo /\ op'.seen = op.seen /\ op'.stale = {} /\ Ts' = Ts
    BY <1>0, <1>4 DEF CloseGap, Op, Ts, Inv, OpInv
  <2>. QED BY <2>1, <2>2, <2>3 DEF ProgressInv
<1>5. ASSUME NEW k \in op.todo, Insert(k)
      PROVE  ProgressInv'
  <2>1. k \in Key /\ Open(k) = {}
    BY <1>0, <1>5 DEF Insert, Inv, OpInv
  <2>2. runs' = runs \cup {NewRun(k, counter[k[1]])} /\ NewRun(k, counter[k[1]]).seen = Ts
    BY <1>5, <2>1, NewRunType DEF Insert, Inv
  <2>3. op'.phase = "runs" /\ op'.todo = op.todo \ {k} /\ op'.seen = op.seen /\ op'.stale = {} /\ Ts' = Ts
    BY <1>0, <1>5 DEF Insert, Op, Ts, Inv, OpInv
  <2>4. \A x \in runs : x.end = Null => x.key # k
    BY <2>1 DEF Open
  <2>. QED BY <2>2, <2>3, <2>4 DEF ProgressInv
<1>6. CASE SelectStale
  <2>1. /\ op'.phase = "stale" /\ op'.todo = {} /\ op'.seen = op.seen /\ op.todo = {}
        /\ op'.stale = {r \in runs : r.end = Null /\ r.seen < Ts - RunGap /\ r.key \notin op.seen}
        /\ Ts' = Ts /\ runs' = runs
    BY <1>0, <1>6 DEF SelectStale, Op, Ts
  <2>2. \A r \in runs : r.end = Null /\ r.seen < Ts - RunGap => r.key \notin op.seen
    BY <1>0, <2>1 DEF ProgressInv
  <2>3. \A r \in op'.stale : r.seen < Ts' - RunGap
    BY <2>1
  <2>. QED BY <2>1, <2>2, <2>3 DEF ProgressInv
<1>7. ASSUME NEW r \in op.stale, CloseStale(r)
      PROVE  ProgressInv'
  <2>1. runs' = (runs \ {r}) \cup {Closed(r)} /\ Ts' = Ts
    BY <1>7 DEF CloseStale, Replace, Ts
  <2>2. Closed(r).end # Null
    BY ClosedType, <1>0
  <2>3. op'.phase = "stale" /\ op'.todo = op.todo /\ op'.seen = op.seen /\ op'.stale = op.stale \ {r}
    BY <1>0, <1>7 DEF CloseStale, Op
  <2>4. \A q \in runs' : q.end = Null => q \in runs /\ q # r
    BY <2>1, <2>2
  <2>. QED BY <2>1, <2>3, <2>4, <1>7 DEF ProgressInv, CloseStale
<1>8. CASE WriteSamples
  <2>1. /\ op'.phase = "prune" /\ op'.todo = op.todo /\ op'.seen = op.seen /\ op'.stale = {} /\ op.stale = {}
        /\ Ts' = Ts /\ runs' = runs /\ op.phase = "stale"
    BY <1>0, <1>8 DEF WriteSamples, Op, Ts
  <2>2. \A r \in runs : r.end = Null => r.seen >= Ts - RunGap
    BY <1>0, <2>1 DEF ProgressInv
  <2>. QED BY <2>1, <2>2 DEF ProgressInv
<1>9. CASE PruneSamples
  <2>1. /\ op'.phase = "pruneRuns" /\ op'.todo = op.todo /\ op'.seen = op.seen /\ op'.stale = op.stale
        /\ Ts' = Ts /\ runs' = runs /\ op.phase = "prune" /\ lastPruneAt' = Ts
    BY <1>0, <1>9 DEF PruneSamples, Op, Ts
  <2>. QED BY <2>1 DEF ProgressInv
<1>10. CASE PruneRuns \/ EndRecord \/ Fail \/ Restart
  <2>1. op' = Idle
    BY <1>10 DEF PruneRuns, EndRecord, Fail, Restart
  <2>. QED BY <2>1 DEF ProgressInv, Idle
<1>11. CASE UNCHANGED vars
  BY <1>11 DEF vars, ProgressInv, Ts
<1>. QED BY <1>1, <1>2, <1>3, <1>4, <1>5, <1>6, <1>7, <1>8, <1>9, <1>10, <1>11 DEF Next

LEMMA NextTime ==
  ASSUME Inv, ProgressInv, TimeInv, [Next]_vars
  PROVE  TimeInv'
<1>. USE DEF clock, engine, table, memory, ghost
<1>0. /\ real \in Int /\ skew \in Skews /\ skew \in Int /\ done \in Int /\ lastPruneAt \in Int /\ 0 \in Skews
      /\ \A s \in Skews : s \in Int
  BY DEF Inv, TypeOK
<1>1. CASE \E t \in (real + 1)..MaxTime, s \in Skews, serving \in SUBSET Key : BeginRecord(t, s, serving)
  <2>1. PICK t \in (real + 1)..MaxTime, s \in Skews :
          /\ real' = t /\ skew' = s /\ UNCHANGED <<lastPruneAt, done>>
          /\ mishaps' = IF s = skew THEN mishaps ELSE mishaps \cup {"clock_jumped"}
    BY <1>1 DEF BeginRecord
  <2>2. t \in Int /\ t > real /\ s \in Int
    BY <1>0, <2>1
  <2>3. \E x \in Skews : done' < real' + x
    BY <1>0, <2>1, <2>2 DEF TimeInv, Shown, Ts
  <2>4. \E x \in Skews : lastPruneAt' < real' + x
    BY <1>0, <2>1, <2>2 DEF TimeInv, Shown, Ts
  <2>5. ~Jumped' => skew' = 0 /\ done' <= real'
    BY <1>0, <2>1, <2>2 DEF TimeInv, Jumped
  <2>6. real' >= Start
    BY <1>0, <2>1, <2>2 DEF TimeInv
  <2>. QED BY <2>3, <2>4, <2>5, <2>6 DEF TimeInv, Shown
<1>2. CASE PruneRuns \/ EndRecord
  <2>1. UNCHANGED <<real, skew, lastPruneAt, mishaps>> /\ done' = Ts
    BY <1>2 DEF PruneRuns, EndRecord
  <2>. QED BY <1>0, <2>1 DEF TimeInv, Shown, Ts, Jumped
<1>3. CASE PruneSamples
  <2>1. UNCHANGED <<real, skew, done, mishaps>> /\ lastPruneAt' = Ts
    BY <1>3 DEF PruneSamples
  <2>. QED BY <1>0, <2>1 DEF TimeInv, Shown, Ts, Jumped
<1>4. CASE Fail
  <2>1. /\ UNCHANGED <<real, skew, done>> /\ lastPruneAt' \in {Ts, lastPruneAt}
        /\ mishaps' = mishaps \cup {"statement_failed"}
    BY <1>4 DEF Fail
  <2>2. Jumped' <=> Jumped
    BY <2>1 DEF Jumped
  <2>. QED BY <1>0, <2>1, <2>2 DEF TimeInv, Shown, Ts
<1>5. CASE Restart
  <2>1. UNCHANGED <<real, skew, done, mishaps>> /\ lastPruneAt' = 0
    BY <1>5 DEF Restart
  <2>. QED BY <1>0, <2>1 DEF TimeInv, Shown, Ts, Jumped
<1>6. CASE \/ \E e \in Endpoints : Generate(e) \/ EngineRestarts(e)
           \/ \E k \in op.todo : Continue(k) \/ CloseGap(k) \/ Insert(k)
           \/ SelectStale \/ (\E r \in op.stale : CloseStale(r)) \/ WriteSamples \/ UNCHANGED vars
  <2>1. CASE \E e \in Endpoints : Generate(e) \/ EngineRestarts(e)
    BY <2>1 DEF Generate, EngineRestarts, TimeInv, Shown, Ts, Jumped
  <2>2. CASE \E k \in op.todo : Continue(k) \/ CloseGap(k) \/ Insert(k)
    BY <2>2 DEF Continue, CloseGap, Insert, TimeInv, Shown, Ts, Jumped
  <2>3. CASE SelectStale \/ (\E r \in op.stale : CloseStale(r)) \/ UNCHANGED vars
    BY <2>3 DEF SelectStale, CloseStale, vars, TimeInv, Shown, Ts, Jumped
  <2>4. CASE WriteSamples
    BY <2>4 DEF WriteSamples, TimeInv, Shown, Ts, Jumped
  <2>. QED BY <1>6, <2>1, <2>2, <2>3, <2>4
<1>. QED BY <1>1, <1>2, <1>3, <1>4, <1>5, <1>6 DEF Next

LEMMA NextTokens ==
  ASSUME Inv, ProgressInv, TokenInv, [Next]_vars
  PROVE  TokenInv'
<1>0. /\ counter \in [Endpoints -> Nat] /\ work \in [Endpoints -> Nat]
      /\ \A r \in runs : /\ r.key[1] \in Endpoints /\ r.g0 \in Nat /\ r.g1 \in Nat /\ r.w0 \in Nat /\ r.w1 \in Nat
                         /\ r \in Run
  BY DEF Inv, TypeOK, Run, Key
<1>1. ASSUME NEW e \in Endpoints, Generate(e)
      PROVE  TokenInv'
  <2>1. /\ runs' = runs /\ work' = [work EXCEPT ![e] = @ + 1] /\ counter' = [counter EXCEPT ![e] = @ + 1]
    BY <1>1 DEF Generate, table
  <2>2. \A f \in Endpoints : \/ work'[f] = work[f] /\ counter'[f] = counter[f]
                             \/ work'[f] = work[f] + 1 /\ counter'[f] = counter[f] + 1
    BY <1>0, <2>1
  <2>3. \A f \in Endpoints : counter[f] \in Nat /\ work[f] \in Nat
    BY <1>0
  <2>. QED BY <1>0, <2>1, <2>2, <2>3 DEF TokenInv
<1>2. ASSUME NEW e \in Endpoints, EngineRestarts(e)
      PROVE  TokenInv'
  <2>1. /\ runs' = runs /\ work' = work /\ counter' = [counter EXCEPT ![e] = 0]
    BY <1>2 DEF EngineRestarts, table
  <2>2. \A f \in Endpoints : counter[f] \in Nat /\ work[f] \in Nat /\ counter'[f] \in Nat /\ counter'[f] <= counter[f]
    BY <1>0, <2>1
  <2>. QED BY <1>0, <2>1, <2>2 DEF TokenInv
<1>3. ASSUME UNCHANGED engine
      PROVE  TokenInv'
  <2>1. UNCHANGED <<counter, work>> /\ RunsMove /\ \A f \in Endpoints : counter[f] \in Nat /\ work[f] \in Nat
    BY <1>0, <1>3, RunsStep DEF engine
  <2>2. CASE \E r \in runs : r.end = Null /\ runs' = (runs \ {r}) \cup {Grown(r)}
    <3>1. PICK r \in runs : r.end = Null /\ runs' = (runs \ {r}) \cup {Grown(r)}
      BY <2>2
    <3>2. /\ Grown(r).key = r.key /\ Grown(r).g0 = r.g0 /\ Grown(r).w0 = r.w0
          /\ Grown(r).g1 = counter[r.key[1]] /\ Grown(r).w1 = work[r.key[1]]
      BY <3>1, GrownType DEF Inv
    <3>. QED BY <1>0, <2>1, <3>1, <3>2 DEF TokenInv
  <2>3. CASE \E r \in runs : runs' = (runs \ {r}) \cup {Closed(r)}
    <3>1. PICK r \in runs : runs' = (runs \ {r}) \cup {Closed(r)}
      BY <2>3
    <3>2. /\ Closed(r).key = r.key /\ Closed(r).g0 = r.g0 /\ Closed(r).w0 = r.w0
          /\ Closed(r).g1 = r.g1 /\ Closed(r).w1 = r.w1
      BY <1>0 DEF Closed, Run
    <3>. QED BY <1>0, <2>1, <3>1, <3>2 DEF TokenInv
  <2>4. CASE \E k \in Key : runs' = runs \cup {NewRun(k, counter[k[1]])}
    <3>1. PICK k \in Key : runs' = runs \cup {NewRun(k, counter[k[1]])}
      BY <2>4
    <3>. DEFINE n == NewRun(k, counter[k[1]])
    <3>2. /\ n.key = k /\ n.g0 = counter[k[1]] /\ n.g1 = counter[k[1]] /\ n.w0 = work[k[1]] /\ n.w1 = work[k[1]]
          /\ k[1] \in Endpoints
      BY NewRunType DEF Inv
    <3>. HIDE DEF n
    <3>. QED BY <1>0, <2>1, <3>1, <3>2 DEF TokenInv, n
  <2>5. CASE runs' \subseteq runs
    BY <2>1, <2>5 DEF TokenInv
  <2>6. (runs' = runs \/ runs' = {r \in runs : r.end = Null \/ r.end >= Ts - Retention}) => runs' \subseteq runs
    OBVIOUS
  <2>. QED BY <2>1, <2>2, <2>3, <2>4, <2>5, <2>6 DEF RunsMove
<1>4. \/ UNCHANGED engine
      \/ \E e \in Endpoints : Generate(e) \/ EngineRestarts(e)
  <2>1. CASE \E t \in (real + 1)..MaxTime, s \in Skews, serving \in SUBSET Key : BeginRecord(t, s, serving)
    BY <2>1 DEF BeginRecord
  <2>2. CASE \E k \in op.todo : Continue(k) \/ CloseGap(k) \/ Insert(k)
    BY <2>2 DEF Continue, CloseGap, Insert
  <2>3. CASE SelectStale \/ (\E r \in op.stale : CloseStale(r)) \/ PruneRuns \/ EndRecord \/ Restart
    BY <2>3 DEF SelectStale, CloseStale, PruneRuns, EndRecord, Restart
  <2>4. CASE WriteSamples \/ PruneSamples \/ Fail
    BY <2>4 DEF WriteSamples, PruneSamples, Fail
  <2>. QED BY <2>1, <2>2, <2>3, <2>4 DEF Next, vars
<1>. QED BY <1>1, <1>2, <1>3, <1>4

\* The clock and the time of the last completed call: once the clock has jumped it has, until
\* then it shows real time, which does not go back; a call completes only when nothing stale is open.
LEMMA ClockStep ==
  ASSUME Inv, ProgressInv, TimeInv, [Next]_vars
  PROVE  /\ Jumped => Jumped'
         /\ real \in Int /\ real' \in Int /\ real <= real'
         /\ ~Jumped => Ts = real
         /\ \/ done' = done
            \/ /\ done' = Ts /\ runs' \subseteq runs
               /\ \A r \in runs' : r.end = Null => r.seen >= Ts - RunGap
<1>. USE DEF clock, engine, table, memory, ghost
<1>0. ~Jumped => Ts = real
  BY DEF TimeInv, Ts, Inv, TypeOK
<1>1. real \in Int
  BY DEF Inv, TypeOK
<1>2. CASE \E t \in (real + 1)..MaxTime, s \in Skews, serving \in SUBSET Key : BeginRecord(t, s, serving)
  <2>1. /\ real' \in (real + 1)..MaxTime /\ done' = done
        /\ (mishaps' = mishaps \/ mishaps' = mishaps \cup {"clock_jumped"})
    BY <1>2 DEF BeginRecord
  <2>. QED BY <1>0, <1>1, <2>1 DEF Jumped
<1>3. CASE PruneRuns \/ EndRecord
  <2>1. UNCHANGED <<real, mishaps>> /\ done' = Ts /\ runs' \subseteq runs /\ op.phase \in {"prune", "pruneRuns"}
    BY <1>3 DEF PruneRuns, EndRecord
  <2>. QED BY <1>0, <1>1, <2>1 DEF Jumped, ProgressInv
<1>4. CASE Fail
  BY <1>0, <1>1, <1>4 DEF Fail, Jumped
<1>5. CASE WriteSamples \/ PruneSamples \/ SelectStale \/ Restart \/ UNCHANGED vars
  BY <1>0, <1>1, <1>5 DEF WriteSamples, PruneSamples, SelectStale, Restart, vars, Jumped
<1>6. CASE \/ \E e \in Endpoints : Generate(e) \/ EngineRestarts(e)
           \/ \E k \in op.todo : Continue(k) \/ CloseGap(k) \/ Insert(k)
           \/ \E r \in op.stale : CloseStale(r)
  <2>1. UNCHANGED <<real, done, mishaps>>
    <3>1. CASE \E e \in Endpoints : Generate(e) \/ EngineRestarts(e)
      BY <3>1 DEF Generate, EngineRestarts
    <3>2. CASE \E k \in op.todo : Continue(k) \/ CloseGap(k) \/ Insert(k)
      BY <3>2 DEF Continue, CloseGap, Insert
    <3>3. CASE \E r \in op.stale : CloseStale(r)
      BY <3>3 DEF CloseStale
    <3>. QED BY <1>6, <3>1, <3>2, <3>3
  <2>. QED BY <1>0, <1>1, <2>1 DEF Jumped
<1>. QED BY <1>2, <1>3, <1>4, <1>5, <1>6 DEF Next

LEMMA NextSession ==
  ASSUME Inv, ProgressInv, TimeInv, SessionInv, RunsSeparated, [Next]_vars
  PROVE  SessionInv' /\ RunsSeparated'
<1>. SUFFICES ASSUME ~Jumped' PROVE SessionInv' /\ RunsSeparated'
  BY DEF SessionInv, RunsSeparated, Jumped
<1>1. /\ ~Jumped /\ Ts = real /\ real \in Int /\ real' \in Int /\ real <= real' /\ done \in Int /\ done <= real
      /\ \A r \in runs : r.start \in Int /\ r.seen \in Int /\ r.end \in {Null, r.seen} /\ r \in Run /\ r.key \in Key
  BY ClockStep DEF TimeInv, Inv, TypeOK, Run
<1>2. \/ done' = done
      \/ done' = Ts /\ runs' \subseteq runs /\ \A r \in runs' : r.end = Null => r.seen >= Ts - RunGap
  BY ClockStep
<1>3. RunsMove /\ (runs' # runs => real' = real)
  BY RunsStep DEF clock
<1>. DEFINE Fits(r) == /\ r.start <= r.seen /\ r.seen <= real
                       /\ (r.end = Null => r.seen >= done - RunGap)
                       /\ (r.end # Null => r.seen + RunGap < real)
            Apart(r, q) == \/ r.end # Null /\ r.seen + RunGap < q.start
                           \/ q.end # Null /\ q.seen + RunGap < r.start
<1>4. \A r \in runs : Fits(r)
  BY <1>1 DEF SessionInv
<1>5. \A r, q \in runs : r.key = q.key /\ r # q => Apart(r, q)
  BY <1>1 DEF RunsSeparated, Jumped
<1>6. SUFFICES /\ \A r \in runs' : r.start <= r.seen /\ r.seen <= real' /\ (r.end # Null => r.seen + RunGap < real')
               /\ done' = done => \A r \in runs' : r.end = Null => r.seen >= done - RunGap
               /\ \A r, q \in runs' : r.key = q.key /\ r # q => Apart(r, q)
  <2>1. \A r \in runs' : r.end = Null => r.seen >= done' - RunGap
    BY <1>1, <1>2, <1>6
  <2>2. SessionInv'
    BY <1>6, <2>1 DEF SessionInv
  <2>3. RunsSeparated'
    BY <1>6 DEF RunsSeparated
  <2>. QED BY <2>2, <2>3
<1>7. CASE runs' \subseteq runs
  BY <1>1, <1>4, <1>5, <1>7
<1>8. CASE \E r \in runs : r.end = Null /\ runs' = (runs \ {r}) \cup {Grown(r)}
  <2>1. PICK r \in runs : r.end = Null /\ runs' = (runs \ {r}) \cup {Grown(r)}
    BY <1>8
  <2>. DEFINE g == Grown(r)
  <2>2. g.key = r.key /\ g.start = r.start /\ g.end = Null /\ g.seen = real
    BY <2>1, <1>1, GrownType DEF Inv
  <2>. HIDE DEF g
  <2>3. \A q \in runs \ {r} : q.key = g.key => Apart(q, g) /\ Apart(g, q)
    BY <1>1, <1>5, <2>1, <2>2
  <2>4. runs' = (runs \ {r}) \cup {g} /\ real <= real'
    BY <1>1, <2>1 DEF g
  <2>5. Fits(g)
    BY <1>1, <1>4, <2>1, <2>2
  <2>6. \A x \in runs' : Fits(x)
    BY <1>4, <2>4, <2>5
  <2>7. \A x, y \in runs' : x.key = y.key /\ x # y => Apart(x, y)
    BY <1>5, <2>3, <2>4
  <2>8. \A x \in runs' : x.seen \in Int
    BY <1>1, <2>2, <2>4
  <2>. QED BY <1>1, <2>6, <2>7, <2>8
<1>9. CASE \E r \in runs : r.end = Null /\ r.seen + RunGap < Ts /\ runs' = (runs \ {r}) \cup {Closed(r)}
  <2>1. PICK r \in runs : r.end = Null /\ r.seen + RunGap < Ts /\ runs' = (runs \ {r}) \cup {Closed(r)}
    BY <1>9
  <2>. DEFINE c == Closed(r)
  <2>2. c.key = r.key /\ c.start = r.start /\ c.end # Null /\ c.seen = r.seen
    BY <1>1, ClosedType
  <2>. HIDE DEF c
  <2>3. \A q \in runs \ {r} : q.key = c.key => Apart(q, c) /\ Apart(c, q)
    BY <1>1, <1>5, <2>1, <2>2
  <2>4. runs' = (runs \ {r}) \cup {c} /\ real <= real'
    BY <1>1, <2>1 DEF c
  <2>5. Fits(c)
    BY <1>1, <1>4, <2>1, <2>2
  <2>6. \A x \in runs' : Fits(x)
    BY <1>4, <2>4, <2>5
  <2>7. \A x, y \in runs' : x.key = y.key /\ x # y => Apart(x, y)
    BY <1>5, <2>3, <2>4
  <2>8. \A x \in runs' : x.seen \in Int
    BY <1>1, <2>2, <2>4
  <2>. QED BY <1>1, <2>6, <2>7, <2>8
<1>10. CASE \E k \in Key : Open(k) = {} /\ runs' = runs \cup {NewRun(k, counter[k[1]])}
  <2>1. PICK k \in Key : Open(k) = {} /\ runs' = runs \cup {NewRun(k, counter[k[1]])}
    BY <1>10
  <2>. DEFINE n == NewRun(k, counter[k[1]])
  <2>2. n.key = k /\ n.start = real /\ n.end = Null /\ n.seen = real
    BY <1>1, NewRunType DEF Inv
  <2>. HIDE DEF n
  <2>3. \A q \in runs : q.key = k => Apart(q, n) /\ Apart(n, q)
    BY <1>1, <1>4, <2>1, <2>2 DEF Open
  <2>4. runs' = runs \cup {n} /\ real <= real'
    BY <1>1, <2>1 DEF n
  <2>5. Fits(n)
    BY <1>1, <2>2
  <2>. QED BY <1>1, <1>4, <1>5, <2>2, <2>3, <2>4, <2>5
<1>. QED BY <1>3, <1>7, <1>8, <1>9, <1>10 DEF RunsMove

\* What a statement may do to the table of samples.
LEMMA SamplesStep ==
  ASSUME Inv, [Next]_vars
  PROVE  \/ samples' \subseteq samples /\ \A s \in samples \ samples' : s.ts < Ts - Retention
         \/ /\ samples' = samples \cup {[ts |-> Ts, ep |-> k[1], at |-> real] : k \in op.seen}
            /\ op.phase = "stale" /\ UNCHANGED <<clock, runs, lastPruneAt, ghost>>
<1>. USE DEF clock, engine, table, memory, ghost
<1>1. CASE WriteSamples
  BY <1>1 DEF WriteSamples
<1>2. CASE PruneSamples
  <2>1. samples' = {s \in samples : s.ts >= Ts - Retention}
    BY <1>2 DEF PruneSamples
  <2>2. Ts \in Int /\ \A s \in samples : s.ts \in Int
    BY DEF Inv, TypeOK, SampleRow, Ts
  <2>. QED BY <2>1, <2>2
<1>3. CASE ~WriteSamples /\ ~PruneSamples
  <2>1. samples' = samples
    <3>1. CASE \E e \in Endpoints : Generate(e) \/ EngineRestarts(e)
      BY <3>1 DEF Generate, EngineRestarts
    <3>2. CASE \E k \in op.todo : Continue(k) \/ CloseGap(k) \/ Insert(k)
      BY <3>2 DEF Continue, CloseGap, Insert
    <3>3. CASE SelectStale \/ (\E r \in op.stale : CloseStale(r)) \/ PruneRuns \/ EndRecord
      BY <3>3 DEF SelectStale, CloseStale, PruneRuns, EndRecord
    <3>4. CASE Fail \/ Restart \/ UNCHANGED vars
      BY <3>4 DEF Fail, Restart, vars
    <3>5. CASE \E t \in (real + 1)..MaxTime, s \in Skews, serving \in SUBSET Key : BeginRecord(t, s, serving)
      BY <3>5 DEF BeginRecord
    <3>. QED BY <1>3, <3>1, <3>2, <3>3, <3>4, <3>5 DEF Next
  <2>. QED BY <2>1
<1>. QED BY <1>1, <1>2, <1>3

LEMMA NextSamples ==
  ASSUME Inv, ProgressInv, TimeInv, SampleInv, [Next]_vars
  PROVE  SampleInv'
<1>. SUFFICES ASSUME ~Jumped', NEW s \in samples' PROVE s.ts = s.at
  BY DEF SampleInv
<1>1. ~Jumped /\ Ts = real
  BY ClockStep
<1>2. CASE s \in samples
  BY <1>1, <1>2 DEF SampleInv
<1>3. CASE s \notin samples
  <2>1. PICK k \in op.seen : s = [ts |-> Ts, ep |-> k[1], at |-> real]
    BY <1>3, SamplesStep
  <2>. QED BY <1>1, <2>1
<1>. QED BY <1>2, <1>3

\* Everything the properties of the history rest on.
HistoryInv ==
  Inv /\ TimeInv /\ ProgressInv /\ TokenInv /\ SessionInv /\ RunsSeparated /\ SampleInv

LEMMA HistoryInvariance == Spec => []HistoryInv
<1>1. Init => HistoryInv
  <2>1. Init => Inv
    BY InitInv
  <2>2. Init => TimeInv
    BY DEF Init, TimeInv, Shown, Jumped, Ts
  <2>3. Init => ProgressInv /\ TokenInv /\ SessionInv /\ RunsSeparated /\ SampleInv
    BY DEF Init, ProgressInv, TokenInv, SessionInv, RunsSeparated, SampleInv, Idle
  <2>. QED BY <2>1, <2>2, <2>3 DEF HistoryInv
<1>2. HistoryInv /\ [Next]_vars => HistoryInv'
  BY NextInv, NextTime, NextProgress, NextTokens, NextSession, NextSamples DEF HistoryInv
<1>. QED BY <1>1, <1>2, PTL DEF Spec

\* The tokens reported for a run were generated during it, whatever restarts and fails.
THEOREM TokensAreReal == Spec => []TokensHonest
<1>1. HistoryInv => TokensHonest
  <2>. SUFFICES ASSUME HistoryInv, NEW r \in runs PROVE Delta(r) <= r.w1 - r.w0
    BY DEF TokensHonest
  <2>1. r.w0 \in Nat /\ r.w1 \in Nat /\ r.g0 \in Nat /\ r.g1 \in Nat
    BY DEF HistoryInv, Inv, TypeOK, Run
  <2>2. r.w0 <= r.w1 /\ r.g1 - r.g0 <= r.w1 - r.w0
    BY DEF HistoryInv, TokenInv
  <2>. QED BY <2>1, <2>2 DEF Delta
<1>. QED BY <1>1, HistoryInvariance, PTL

\* With a clock that does not jump, a run is one session: two of them are more than the
\* gap apart, and none stays open after a completed record() unless it was seen within it.
THEOREM SessionsAreSessions == Spec => []SessionsHonest
<1>1. HistoryInv => SessionsHonest
  BY DEF HistoryInv, SessionInv, SessionsHonest, NothingLingers, Jumped
<1>. QED BY <1>1, HistoryInvariance, PTL

\* History is kept: no statement alters a run that is over, no step deletes what is within
\* the window, and an open run keeps its identity and start until it ends when it was last seen.
THEOREM HistoryIsKept == Spec => HistoryKept
<1>. DEFINE RunKept(r) == IF r.end # Null THEN r \in runs' \/ r.end < Ts - Retention
                          ELSE \E q \in runs' : /\ <<q.key, q.start, q.g0>> = <<r.key, r.start, r.g0>>
                                                /\ q.end \in {Null, r.seen}
                                                /\ q.end # Null => q.seen = r.seen
            SamplesKept == \A s \in samples \ samples' : real - s.at > Retention \/ Jumped
<1>1. ASSUME HistoryInv, [Next]_vars, NEW r \in runs
      PROVE  RunKept(r)
  <2>1. RunsMove
    BY <1>1, RunsStep DEF HistoryInv
  <2>2. TypeOK /\ r \in Run
    BY <1>1 DEF HistoryInv, Inv, TypeOK
  <2>3. CASE r \in runs'
    BY <2>3
  <2>4. CASE r \notin runs' /\ r.end # Null
    <3>1. runs' = {x \in runs : x.end = Null \/ x.end >= Ts - Retention}
      BY <2>1, <2>4 DEF RunsMove
    <3>2. r.end \in Int /\ Ts \in Int
      BY <2>2, <2>4 DEF Run, TypeOK, Ts
    <3>. QED BY <2>4, <3>1, <3>2
  <2>5. CASE r \notin runs' /\ r.end = Null
    <3>1. \/ runs' = (runs \ {r}) \cup {Grown(r)}
          \/ runs' = (runs \ {r}) \cup {Closed(r)}
      BY <2>1, <2>5 DEF RunsMove
    <3>2. CASE runs' = (runs \ {r}) \cup {Grown(r)}
      BY <2>2, <2>5, <3>2, GrownType
    <3>3. CASE runs' = (runs \ {r}) \cup {Closed(r)}
      BY <2>2, <2>5, <3>3, ClosedType
    <3>. QED BY <3>1, <3>2, <3>3
  <2>. QED BY <2>3, <2>4, <2>5
<1>2. ASSUME HistoryInv, [Next]_vars
      PROVE  SamplesKept
  <2>. SUFFICES ASSUME NEW s \in samples \ samples', ~Jumped PROVE real - s.at > Retention
    OBVIOUS
  <2>1. s.ts < Ts - Retention
    BY <1>2, SamplesStep DEF HistoryInv
  <2>2. s.ts = s.at /\ s.at \in Int /\ real \in Int /\ Ts = real
    BY <1>2, ClockStep DEF HistoryInv, SampleInv, Inv, TypeOK, SampleRow
  <2>. QED BY <2>1, <2>2
<1>3. HistoryInv /\ [Next]_vars =>
        [/\ \A r \in runs :
              IF r.end # Null THEN r \in runs' \/ r.end < Ts - Retention
              ELSE \E q \in runs' : /\ <<q.key, q.start, q.g0>> = <<r.key, r.start, r.g0>>
                                    /\ q.end \in {Null, r.seen}
                                    /\ q.end # Null => q.seen = r.seen
         /\ \A s \in samples \ samples' : real - s.at > Retention \/ "clock_jumped" \in mishaps]_vars
  BY <1>1, <1>2 DEF Jumped
<1>. QED BY <1>3, HistoryInvariance, PTL DEF Spec, HistoryKept

-----------------------------------------------------------------------------
(* The size of the tables. *)

\* The interval that makes a run end is within the window, the clock shows no time before
\* the epoch, and from one snapshot to the next it is not set back by more than the window:
\* when it is, nothing is pruned until it has caught up with the last pruning.
SteadyAssumption ==
  /\ RunGap <= Retention
  /\ \A s \in Skews : Start + s >= 0
  /\ \A s, t \in Skews : s - t <= Retention + 1

\* Unless a statement fails: nothing is older than the window before the last pruning,
\* nor than the window and the pruning interval before the last completed call.
SteadyInv ==
  /\ \A s \in samples : s.ts >= 0
  /\ \A r \in runs : r.seen >= 0
  /\ "statement_failed" \notin mishaps =>
       /\ \A s \in samples : s.ts >= lastPruneAt - Retention /\ s.ts >= done - Retention - PruneEvery
       /\ \A r \in runs : /\ r.seen >= done - Retention - PruneEvery
                          /\ r.end = Null \/ op.phase # "pruneRuns" => r.seen >= lastPruneAt - Retention

LEMMA ShownBound ==
  ASSUME SteadyAssumption, HistoryInv, NEW t \in Int, Shown(t)
  PROVE  Ts \in Int /\ Ts >= 0 /\ Ts >= t - Retention
<1>1. real \in Int /\ skew \in Skews /\ real >= Start /\ \A s \in Skews : s \in Int
  BY DEF HistoryInv, Inv, TypeOK, TimeInv
<1>2. Ts \in Int /\ Ts >= 0
  BY <1>1 DEF SteadyAssumption, Ts
<1>3. ASSUME NEW s \in Skews, t < real + s
      PROVE  Ts >= t - Retention
  BY <1>1, <1>3 DEF SteadyAssumption, Ts
<1>. QED BY <1>2, <1>3 DEF Shown

LEMMA NextSteady ==
  ASSUME SteadyAssumption, HistoryInv, SteadyInv, [Next]_vars
  PROVE  SteadyInv'
<1>. USE DEF clock, engine, table, memory, ghost
<1>. DEFINE Failed == "statement_failed" \in mishaps
            Oldest == done - Retention - PruneEvery
            Window == lastPruneAt - Retention
<1>1. /\ Ts \in Int /\ Ts >= 0 /\ Ts >= done - Retention /\ Ts >= Window
      /\ done \in Int /\ lastPruneAt \in Int /\ op \in Op
      /\ \A r \in runs : r \in Run /\ r.seen \in Int /\ r.end \in {Null, r.seen}
      /\ \A s \in samples : s.ts \in Int
  <2>1. /\ done \in Int /\ lastPruneAt \in Int /\ op \in Op
        /\ \A r \in runs : r \in Run /\ r.seen \in Int /\ r.end \in {Null, r.seen}
        /\ \A s \in samples : s.ts \in Int
    BY DEF HistoryInv, Inv, TypeOK, Run, SampleRow
  <2>2. Shown(done) /\ Shown(lastPruneAt)
    BY DEF HistoryInv, TimeInv
  <2>. QED BY <2>1, <2>2, ShownBound
<1>2. /\ \A s \in samples : s.ts >= 0
      /\ \A r \in runs : r.seen >= 0
      /\ ~Failed => /\ \A s \in samples : s.ts >= Window /\ s.ts >= Oldest
                    /\ \A r \in runs : r.seen >= Oldest /\ (r.end = Null \/ op.phase # "pruneRuns" => r.seen >= Window)
  BY DEF SteadyInv
\* A row of the new table is one of the old one, perhaps closed, or was seen just now.
<1>3. \A x \in runs' : \/ x \in runs
                       \/ x.end = Null /\ x.seen = Ts
                       \/ \E r \in runs : x.end # Null /\ r.end = Null /\ x.seen = r.seen
  <2>1. RunsMove
    BY RunsStep DEF HistoryInv
  <2>2. \A r \in runs : Closed(r).end # Null /\ Closed(r).seen = r.seen
    BY <1>1, ClosedType
  <2>3. \A r \in runs : r.end = Null => Grown(r).end = Null /\ Grown(r).seen = Ts
    BY GrownType DEF HistoryInv, Inv
  <2>4. \A k \in Key : NewRun(k, counter[k[1]]).end = Null /\ NewRun(k, counter[k[1]]).seen = Ts
    BY NewRunType DEF HistoryInv, Inv
  <2>. QED BY <2>1, <2>2, <2>3, <2>4 DEF RunsMove
<1>4. \A s \in samples' : s \in samples \/ s.ts = Ts
  BY SamplesStep DEF HistoryInv
<1>5. /\ \A s \in samples' : s.ts >= 0
      /\ \A r \in runs' : r.seen >= 0
  BY <1>1, <1>2, <1>3, <1>4
<1>6. CASE Fail
  <2>1. Failed'
    BY <1>6 DEF Fail
  <2>. QED BY <1>5, <2>1 DEF SteadyInv
<1>7. CASE Restart
  <2>1. UNCHANGED <<runs, samples, done, mishaps>> /\ lastPruneAt' = 0
    BY <1>7 DEF Restart
  <2>. QED BY <1>1, <1>2, <2>1 DEF SteadyInv
<1>8. CASE PruneSamples
  <2>1. /\ UNCHANGED <<runs, done, mishaps>> /\ lastPruneAt' = Ts /\ op'.phase = "pruneRuns"
        /\ samples' = {s \in samples : s.ts >= Ts - Retention}
        /\ \A r \in runs : r.end = Null => r.seen >= Ts - RunGap
    BY <1>1, <1>8 DEF PruneSamples, Op, HistoryInv, ProgressInv
  <2>. QED BY <1>1, <1>2, <2>1 DEF SteadyInv, SteadyAssumption
<1>9. CASE PruneRuns
  <2>1. /\ UNCHANGED <<samples, lastPruneAt, mishaps>> /\ done' = Ts /\ lastPruneAt = Ts
        /\ runs' = {r \in runs : r.end = Null \/ r.end >= Ts - Retention}
        /\ \A r \in runs : r.end = Null => r.seen >= Ts - RunGap
    BY <1>9 DEF PruneRuns, HistoryInv, ProgressInv
  <2>2. \A r \in runs' : r.seen >= Ts - Retention
    BY <1>1, <2>1 DEF SteadyAssumption
  <2>. QED BY <1>1, <1>2, <2>1, <2>2 DEF SteadyInv
<1>10. CASE EndRecord
  <2>1. /\ UNCHANGED <<runs, samples, lastPruneAt, mishaps>> /\ done' = Ts /\ Ts - lastPruneAt < PruneEvery
        /\ op.phase = "prune"
    BY <1>1, <1>10 DEF EndRecord, PruneDue
  <2>. QED BY <1>1, <1>2, <2>1 DEF SteadyInv
<1>11. CASE UNCHANGED vars
  BY <1>2, <1>11 DEF vars, SteadyInv
<1>12. ASSUME UNCHANGED <<lastPruneAt, done>>, op.phase # "pruneRuns", Failed => Failed'
       PROVE  SteadyInv'
  <2>. SUFFICES ASSUME ~Failed'
                PROVE /\ \A s \in samples' : s.ts >= Window /\ s.ts >= Oldest
                      /\ \A r \in runs' : r.seen >= Oldest /\ r.seen >= Window
    BY <1>5, <1>12 DEF SteadyInv
  <2>1. ~Failed
    BY <1>12
  <2>2. Ts >= Oldest
    BY <1>1
  <2>3. \A s \in samples' : s.ts >= Window /\ s.ts >= Oldest
    BY <1>1, <1>2, <1>4, <2>1, <2>2
  <2>4. \A r \in runs' : r.seen >= Oldest /\ r.seen >= Window
    BY <1>1, <1>2, <1>3, <1>12, <2>1, <2>2
  <2>. QED BY <2>3, <2>4
<1>13. CASE \/ \E e \in Endpoints : Generate(e) \/ EngineRestarts(e)
            \/ \E t \in (real + 1)..MaxTime, s \in Skews, serving \in SUBSET Key : BeginRecord(t, s, serving)
  <2>1. UNCHANGED <<lastPruneAt, done>> /\ op = Idle /\ (Failed => Failed')
    BY <1>13 DEF Generate, EngineRestarts, BeginRecord
  <2>. QED BY <1>12, <2>1 DEF Idle
<1>14. CASE \/ \E k \in op.todo : Continue(k) \/ CloseGap(k) \/ Insert(k)
            \/ \E r \in op.stale : CloseStale(r)
            \/ SelectStale \/ WriteSamples
  <2>1. UNCHANGED <<lastPruneAt, done, mishaps>> /\ op.phase \in {"runs", "stale"}
    <3>1. CASE \E k \in op.todo : Continue(k) \/ CloseGap(k) \/ Insert(k)
      BY <3>1 DEF Continue, CloseGap, Insert
    <3>2. CASE SelectStale \/ \E r \in op.stale : CloseStale(r)
      BY <3>2 DEF SelectStale, CloseStale
    <3>3. CASE WriteSamples
      BY <3>3 DEF WriteSamples
    <3>. QED BY <1>14, <3>1, <3>2, <3>3
  <2>. QED BY <1>12, <2>1
<1>. QED BY <1>6, <1>7, <1>8, <1>9, <1>10, <1>11, <1>13, <1>14 DEF Next

\* Both tables reach a steady size: unless statements fail, and however often the process
\* restarts, a completed record() leaves nothing older than the window and the pruning interval.
THEOREM SteadySize == ASSUME SteadyAssumption PROVE Spec => []Bounded
<1>1. Init => SteadyInv
  BY DEF Init, SteadyInv
<1>2. HistoryInv /\ SteadyInv /\ [Next]_vars => SteadyInv'
  BY NextSteady
<1>3. HistoryInv /\ SteadyInv => Bounded
  <2>. SUFFICES ASSUME HistoryInv, SteadyInv PROVE Bounded
    OBVIOUS
  <2>1. \A r \in runs : r.end \in {Null, r.seen}
    BY DEF HistoryInv, Inv, TypeOK
  <2>. QED BY <2>1 DEF SteadyInv, Bounded
<1>. QED BY <1>1, <1>2, <1>3, HistoryInvariance, PTL DEF Spec

===============================================================================
