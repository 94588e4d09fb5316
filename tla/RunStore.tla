------------------------------- MODULE RunStore -------------------------------
(***************************************************************************)
(* The durable history (packages/core/src/store.ts, class HistoryDb): the  *)
(* table of serving sessions ("runs") and the table of samples.            *)
(*                                                                         *)
(* record() issues its SQL statements one by one, each in a transaction of *)
(* its own, so a step here is one statement: the process may die before    *)
(* any of them, and any of them may throw (a full disk), which the server  *)
(* survives (server/src/index.ts:150-156).  No time passes inside a call.  *)
(***************************************************************************)
EXTENDS Integers, FiniteSetsExt

CONSTANTS
  Endpoints,    \* ids of inference endpoints
  Models,       \* model names an endpoint may report
  Null,         \* SQL NULL, and "no key"
  RunGap,       \* RUN_GAP_MS
  Retention,    \* opts.retentionDays
  SampleEvery,  \* opts.sampleIntervalMs
  PruneEvery,   \* the hour between prunes
  Skews,        \* how far ahead of real time the host's clock may be
  Start,        \* real time at start-up: like Date.now(), far from 0
  MaxTime,      \* bound on real time
  MaxWork       \* bound on the tokens an endpoint generates

Key == Endpoints \X Models

ASSUME NullAssumption == Null \notin Key /\ Null \notin Int
ASSUME IntervalAssumption ==
  /\ RunGap \in Nat /\ Retention \in Nat /\ SampleEvery \in Nat /\ PruneEvery \in Nat
  /\ MaxWork \in Nat /\ MaxTime \in Nat
  /\ Skews \in SUBSET Int /\ 0 \in Skews
  /\ Start \in Nat /\ Start >= SampleEvery /\ Start >= PruneEvery

VARIABLES
  real, skew,   \* real time, and how far the clock is ahead of it
  counter,      \* the engines' token counters
  work,         \* tokens each endpoint really generated
  runs,         \* table runs, without the columns that only describe the endpoint
  samples,      \* table samples, without its readings; `at` is the real time of writing
  lastSampleAt, lastPruneAt,
  op,           \* the record() call in progress
  done,         \* clock at the last record() that completed
  mishaps       \* what has gone wrong so far

clock  == <<real, skew>>
engine == <<counter, work>>
table  == <<runs, samples>>
memory == <<lastSampleAt, lastPruneAt>>
ghost  == <<done, mishaps>>
vars   == <<clock, engine, table, memory, op, ghost>>

\* snap.ts: Date.now() when the snapshot was built (cluster.ts:204).
Ts == real + skew

\* g0, g1: start_gen_tokens, last_gen_tokens.  w0, w1: what was really generated then.
Run == [key : Key, start : Int, seen : Int, end : Int \cup {Null},
        g0 : Nat, g1 : Nat, w0 : Nat, w1 : Nat]
SampleRow == [ts : Int, ep : Endpoints, at : Int]

\* `vacant`: the key whose run was closed because of a gap, and which is to get a new one.
Op == [phase : {"idle", "runs", "stale", "samples", "prune", "pruneRuns"},
       todo : SUBSET Key, seen : SUBSET Key, stale : SUBSET Run, vacant : Key \cup {Null}]
Idle == [phase |-> "idle", todo |-> {}, seen |-> {}, stale |-> {}, vacant |-> Null]

Mishap == {"clock_jumped", "statement_failed"}

\* Type invariant of the tables and of the call in progress (store.ts:77-132); a run
\* ends when it was last seen.
TypeOK ==
  /\ real \in Int /\ skew \in Skews
  /\ counter \in [Endpoints -> Nat] /\ work \in [Endpoints -> Nat]
  /\ runs \in SUBSET Run /\ \A r \in runs : r.end \in {Null, r.seen}
  /\ samples \in SUBSET SampleRow
  /\ lastSampleAt \in Int /\ lastPruneAt \in Int /\ done \in Int
  /\ op \in Op
  /\ mishaps \in SUBSET Mishap

Open(k) == {r \in runs : r.key = k /\ r.end = Null}

\* ORDER BY started_at DESC LIMIT 1
Latest(k) == {r \in Open(k) : \A q \in Open(k) : q.start <= r.start}

\* closeRun(id, endedAt): the row r with ended_at set, unless it is set already.
Closed(r) == [r EXCEPT !.end = r.seen]
Replace(r, q) == runs' = (runs \ {r}) \cup {q}

-----------------------------------------------------------------------------
Init ==
  /\ real = Start /\ skew = 0
  /\ counter = [e \in Endpoints |-> 0] /\ work = [e \in Endpoints |-> 0]
  /\ runs = {} /\ samples = {}
  /\ lastSampleAt = 0 /\ lastPruneAt = 0 /\ done = 0 /\ mishaps = {}
  /\ op = Idle

(* The engines (external), as far as the scrape shows them. *)

Generate(e) ==
  /\ op = Idle /\ work[e] < MaxWork
  /\ work' = [work EXCEPT ![e] = @ + 1]
  /\ counter' = [counter EXCEPT ![e] = @ + 1]
  /\ UNCHANGED <<clock, table, memory, op, ghost>>

EngineRestarts(e) ==
  /\ op = Idle /\ counter[e] > 0
  /\ counter' = [counter EXCEPT ![e] = 0]
  /\ UNCHANGED <<work, clock, table, memory, op, ghost>>

-----------------------------------------------------------------------------
(* record(snap). *)

\* A call at a later time t; `serving` is what the reachable endpoints of online
\* nodes report.  An endpoint that reports no model serves the model "(none)".
BeginRecord(t, s, serving) ==
  /\ op = Idle
  /\ real' = t /\ skew' = s
  /\ op' = [Idle EXCEPT !.phase = "runs", !.todo = serving, !.seen = serving]
  /\ mishaps' = IF s = skew THEN mishaps ELSE mishaps \cup {"clock_jumped"}
  /\ UNCHANGED <<engine, table, memory, done>>

\* The UPDATE of updateRuns.
Continue(k) ==
  /\ op.phase = "runs" /\ k \in op.todo /\ op.vacant = Null
  /\ \E r \in Latest(k) :
       /\ Ts - r.seen <= RunGap
       /\ Replace(r, [r EXCEPT !.seen = Ts, !.g1 = counter[k[1]], !.w1 = work[k[1]]])
  /\ op' = [op EXCEPT !.todo = @ \ {k}]
  /\ UNCHANGED <<clock, engine, samples, memory, ghost>>

\* Mutant: a run that was interrupted ends when the next one starts.
CloseGap_EndsNow(k) ==
  /\ op.phase = "runs" /\ k \in op.todo /\ op.vacant = Null
  /\ \E r \in Latest(k) : Ts - r.seen > RunGap /\ Replace(r, [r EXCEPT !.end = Ts])
  /\ op' = [op EXCEPT !.vacant = k]
  /\ UNCHANGED <<clock, engine, samples, memory, ghost>>

\* Mutant: the interrupted run is left open.
CloseGap_LeavesOpen(k) ==
  /\ op.phase = "runs" /\ k \in op.todo /\ op.vacant = Null
  /\ \E r \in Latest(k) : Ts - r.seen > RunGap
  /\ op' = [op EXCEPT !.vacant = k]
  /\ UNCHANGED <<clock, engine, table, memory, ghost>>

\* The closeRun that precedes the INSERT when there was a gap.
CloseGap(k) ==
  /\ op.phase = "runs" /\ k \in op.todo /\ op.vacant = Null
  /\ \E r \in Latest(k) : Ts - r.seen > RunGap /\ Replace(r, Closed(r))
  /\ op' = [op EXCEPT !.vacant = k]
  /\ UNCHANGED <<clock, engine, samples, memory, ghost>>

NewRun(k, g) ==
  [key |-> k, start |-> Ts, seen |-> Ts, end |-> Null,
   g0 |-> g, g1 |-> counter[k[1]], w0 |-> work[k[1]], w1 |-> work[k[1]]]

\* Mutant: the lifetime counter counts as the run's tokens.
Insert_FromZero(k) ==
  /\ op.phase = "runs" /\ k \in op.todo
  /\ op.vacant = k \/ (op.vacant = Null /\ Open(k) = {})
  /\ runs' = runs \cup {NewRun(k, 0)}
  /\ op' = [op EXCEPT !.todo = @ \ {k}, !.vacant = Null]
  /\ UNCHANGED <<clock, engine, samples, memory, ghost>>

Insert(k) ==
  /\ op.phase = "runs" /\ k \in op.todo
  /\ op.vacant = k \/ (op.vacant = Null /\ Open(k) = {})
  /\ runs' = runs \cup {NewRun(k, counter[k[1]])}
  /\ op' = [op EXCEPT !.todo = @ \ {k}, !.vacant = Null]
  /\ UNCHANGED <<clock, engine, samples, memory, ghost>>

\* Mutant: what has stopped reporting stays open.
SelectStale_None ==
  /\ op.phase = "runs" /\ op.todo = {}
  /\ op' = [op EXCEPT !.phase = "stale"]
  /\ UNCHANGED <<clock, engine, table, memory, ghost>>

SelectStale ==
  /\ op.phase = "runs" /\ op.todo = {}
  /\ op' = [op EXCEPT !.phase = "stale",
                      !.stale = {r \in runs : /\ r.end = Null /\ r.seen < Ts - RunGap
                                              /\ r.key \notin op.seen}]
  /\ UNCHANGED <<clock, engine, table, memory, ghost>>

CloseStale(r) ==
  /\ op.phase = "stale" /\ r \in op.stale
  /\ Replace(r, Closed(r))
  /\ op' = [op EXCEPT !.stale = @ \ {r}]
  /\ UNCHANGED <<clock, engine, samples, memory, ghost>>

SampleDue == Ts - lastSampleAt >= SampleEvery
PruneDue == Ts - lastPruneAt >= PruneEvery

\* One transaction for all endpoints that report.
WriteSamples ==
  /\ op.phase = "stale" /\ op.stale = {}
  /\ IF SampleDue
     THEN /\ lastSampleAt' = Ts
          /\ samples' = samples \cup {[ts |-> Ts, ep |-> k[1], at |-> real] : k \in op.seen}
     ELSE UNCHANGED <<lastSampleAt, samples>>
  /\ op' = [op EXCEPT !.phase = "prune"]
  /\ UNCHANGED <<clock, engine, runs, lastPruneAt, ghost>>

\* Mutant: the retention window is taken from the wrong end.
PruneSamples_Newer ==
  /\ op.phase = "prune" /\ PruneDue
  /\ lastPruneAt' = Ts
  /\ samples' = {s \in samples : s.ts < Ts - Retention}
  /\ op' = [op EXCEPT !.phase = "pruneRuns"]
  /\ UNCHANGED <<clock, engine, runs, lastSampleAt, ghost>>

\* Mutant: samples are not pruned.
PruneSamples_None ==
  /\ op.phase = "prune" /\ PruneDue
  /\ lastPruneAt' = Ts
  /\ op' = [op EXCEPT !.phase = "pruneRuns"]
  /\ UNCHANGED <<clock, engine, table, lastSampleAt, ghost>>

PruneSamples ==
  /\ op.phase = "prune" /\ PruneDue
  /\ lastPruneAt' = Ts
  /\ samples' = {s \in samples : s.ts >= Ts - Retention}
  /\ op' = [op EXCEPT !.phase = "pruneRuns"]
  /\ UNCHANGED <<clock, engine, runs, lastSampleAt, ghost>>

\* Only closed runs are prunable.
PruneRuns ==
  /\ op.phase = "pruneRuns"
  /\ runs' = {r \in runs : r.end = Null \/ r.end >= Ts - Retention}
  /\ op' = Idle /\ done' = Ts
  /\ UNCHANGED <<clock, engine, samples, memory, mishaps>>

EndRecord ==
  /\ op.phase = "prune" /\ ~PruneDue
  /\ op' = Idle /\ done' = Ts
  /\ UNCHANGED <<clock, engine, table, memory, mishaps>>

-----------------------------------------------------------------------------
(* What interrupts it. *)

\* A statement throws; the snapshot handler catches it and the server runs on.  The
\* throttles have moved already: what they let through is not tried again.
Fail ==
  /\ op # Idle
  /\ lastSampleAt' = IF op.phase = "stale" /\ op.stale = {} /\ SampleDue THEN Ts ELSE lastSampleAt
  /\ lastPruneAt' = IF op.phase = "prune" /\ PruneDue THEN Ts ELSE lastPruneAt
  /\ op' = Idle
  /\ mishaps' = mishaps \cup {"statement_failed"}
  /\ UNCHANGED <<clock, engine, table, done>>

\* The process dies and is started again.
Restart ==
  /\ op' = Idle /\ lastSampleAt' = 0 /\ lastPruneAt' = 0
  /\ UNCHANGED <<clock, engine, table, ghost>>

Next ==
  \/ \E e \in Endpoints : Generate(e) \/ EngineRestarts(e)
  \/ \E t \in (real + 1)..MaxTime, s \in Skews, serving \in SUBSET Key : BeginRecord(t, s, serving)
  \/ \E k \in op.todo : Continue(k) \/ CloseGap(k) \/ Insert(k)
  \/ SelectStale
  \/ \E r \in op.stale : CloseStale(r)
  \/ WriteSamples \/ PruneSamples \/ PruneRuns \/ EndRecord
  \/ Fail
  \/ Restart

Spec == Init /\ [][Next]_vars

-----------------------------------------------------------------------------
(* Properties. *)

\* An endpoint and model have at most one open run, wherever record() was cut off
\* and whatever the clock does: what the SELECT ... LIMIT 1 of store.ts:201 finds is
\* the only one, and none is left behind that a later session would be added to.
OneOpenRun == \A k \in Key : \A r, q \in Open(k) : r = q

\* Unless the clock jumps, two runs of one endpoint and model are more than RunGap
\* apart.  A crash between the statements that end one run and start the next
\* neither splits a session nor merges two (store.ts:228-242, 263-271).
RunsSeparated ==
  "clock_jumped" \notin mishaps => \A r, q \in runs : r.key = q.key /\ r # q =>
    \/ r.end # Null /\ r.seen + RunGap < q.start
    \/ q.end # Null /\ q.seen + RunGap < r.start

\* After a record() that completed, an open run was seen within RunGap, also when
\* other calls were cut off (the clock not having jumped): nothing that is gone keeps looking alive.
NothingLingers ==
  op = Idle /\ "clock_jumped" \notin mishaps => \A r \in runs : r.end = Null => r.seen >= done - RunGap

\* Both: what is stored as one run is one session, and over when that is (store.ts:228-276).
SessionsHonest == RunsSeparated /\ NothingLingers

\* The tokens reported for a run were generated by its endpoint during the run, over
\* counter resets, gaps, crashes and failed writes (store.ts:339-340).
Delta(r) == IF r.g1 < r.g0 THEN 0 ELSE r.g1 - r.g0
TokensHonest == \A r \in runs : Delta(r) <= r.w1 - r.w0

\* What a step may do to the tables: a closed run does not change and is deleted only
\* when it ended before the retention window; an open one keeps its identity and
\* its start, and when it ends, it ends when it was last seen.  Samples that are deleted are
\* older than the window in real time, unless the clock jumps.
HistoryKept ==
  [][/\ \A r \in runs :
          IF r.end # Null THEN r \in runs' \/ r.end < Ts - Retention
          ELSE \E q \in runs' : /\ <<q.key, q.start, q.g0>> = <<r.key, r.start, r.g0>>
                                /\ q.end \in {Null, r.seen}
                                /\ q.end # Null => q.seen = r.seen
     /\ \A s \in samples \ samples' : real - s.at > Retention \/ "clock_jumped" \in mishaps]_vars

\* Both tables reach a steady size (README.md:497): unless statements fail, and
\* however often the process restarts, a completed record() leaves nothing older
\* than the window and the time between two prunes.
Bounded ==
  op = Idle /\ "statement_failed" \notin mishaps =>
    /\ \A s \in samples : s.ts >= done - Retention - PruneEvery
    /\ \A r \in runs : r.end # Null => r.end >= done - Retention - PruneEvery
===============================================================================
