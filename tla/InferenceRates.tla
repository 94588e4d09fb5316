---------------------------- MODULE InferenceRates ----------------------------
(***************************************************************************)
(* Throughput and latency of one inference server, derived from what its   *)
(* counters say at each fast poll (packages/core/src/node.ts:660-919,      *)
(* inference.ts:433-525).  A scrape may fail, or carry no counters, the    *)
(* engine may restart, the node's clock may be set back.  One counter       *)
(* stands for all of them, tokens and completed requests alike.            *)
(***************************************************************************)
EXTENDS Integers, Sequences

CONSTANTS
  TokenWindow,   \* throughputWindowMs(), in units of the model
  LatencyWindow, \* LATENCY_WINDOW_MS
  Undefined,     \* a counter that a scrape does not have
  Null,          \* nothing to report
  MaxTime,       \* bound on the node's clock
  MaxTokens,     \* bound on tokens generated
  MaxSamples,    \* bound on the samples of a window, which a clock set back keeps in it
  MaxRestarts    \* bound on restarts of the engine

\* What the constants must satisfy.
RatesAssumption ==
  /\ TokenWindow \in Nat \ {0} /\ LatencyWindow \in Nat \ {0}
  /\ MaxTime \in Nat /\ MaxTokens \in Nat /\ MaxSamples \in Nat /\ MaxRestarts \in Nat
  /\ Undefined \notin Int
  /\ Null # "window" /\ Null \notin [tokens : Int, real : Int, bare : BOOLEAN]
  /\ Null \notin [t : Int, tokens : Int, work : Int, bare : BOOLEAN]

VARIABLES
  clock,         \* counterTs of the last poll
  engine,        \* the engine's counter of tokens generated, one a request
  work,          \* the same, of the engine's whole life: the truth
  restarts,
  tokenWindow,   \* this.tokenWindow of the port
  latencyWindow, \* this.latencyWindow of the port
  prevInference, \* this.prevInference of the port
  shown,         \* what the last poll reported: rate and latencyBasis
  last           \* the last poll: its scrape, and whether engine and clock ran on since the one before

\* Entries carry, beside what the code keeps, the work done by then and whether the scrape
\* had no counters.  A rate carries the tokens really generated in its interval.
windows == <<tokenWindow, latencyWindow, prevInference>>
vars == <<clock, engine, work, restarts, windows, shown, last>>

\* What a poll finds: counters; an answer without them, cut short or of an engine that is
\* not asked for them; no answer; no scrape at all.
Scrapes == {"full", "bare", "silent", "absent"}

Time == 0..MaxTime

Init ==
  /\ clock = 0 /\ restarts = 0
  /\ engine \in 0..1 /\ work = engine
  /\ tokenWindow = <<>> /\ latencyWindow = <<>> /\ prevInference = Null
  /\ shown = [rate |-> Null, basis |-> Null]
  /\ last = [scrape |-> "absent", steady |-> FALSE]

-----------------------------------------------------------------------------
\* push, and shift from the front what is older than the span.
Slide(win, entry, span) ==
  LET all == Append(win, entry)
      keep == CHOOSE i \in 1..Len(all) :
                /\ i = Len(all) \/ entry.t - all[i].t <= span
                /\ \A j \in 1..(i - 1) : entry.t - all[j].t > span
  IN SubSeq(all, keep, Len(all))

\* Mutant: a counter that went backwards counts from zero.
Rate_FromZero(before, now) ==
  IF before = Null \/ now.tokens = Undefined THEN Null
  ELSE IF before.tokens = Undefined \/ now.t <= before.t THEN Null
  ELSE [tokens |-> IF now.tokens < before.tokens THEN now.tokens + before.tokens
                   ELSE now.tokens - before.tokens,
        real |-> now.work - before.work, bare |-> before.bare]

\* rate(): tokens since an earlier entry, Null where one has none, the clock did not
\* advance, or the counter went backwards.
Rate(before, now) ==
  IF before = Null \/ now.tokens = Undefined THEN Null
  ELSE IF before.tokens = Undefined \/ now.t <= before.t \/ now.tokens < before.tokens THEN Null
  ELSE [tokens |-> now.tokens - before.tokens,
        real |-> now.work - before.work, bare |-> before.bare]

\* The oldest entry, if there is another.
Base(win) == IF Len(win) > 1 THEN win[1] ELSE Null

\* Over the window, or else since the last scrape with an answer.
RateShown(win, now) ==
  IF Rate(Base(win), now) # Null THEN Rate(Base(win), now) ELSE Rate(prevInference, now)

\* histogramIntervalMean() and histogramLifetimeMean(): whether there is a mean.
IntervalMean(before, now) ==
  /\ before # Null /\ now.tokens # Undefined
  /\ before.tokens # Undefined /\ now.tokens > before.tokens
LifetimeMean(now) == now.tokens # Undefined /\ now.tokens > 0

\* latencyBasis.
Basis(win, now) ==
  IF IntervalMean(Base(win), now) THEN "window"
  ELSE IF LifetimeMean(now) THEN "lifetime" ELSE Null

-----------------------------------------------------------------------------
\* The engine generates some tokens, restarts, and generates others; or only the latter.
Runs(before, after, restarted) ==
  /\ engine' = IF restarted THEN after ELSE engine + before + after
  /\ work' = work + before + after
  /\ restarts' = IF restarted THEN restarts + 1 ELSE restarts

\* The port is no longer scraped.
Forget == tokenWindow' = <<>> /\ latencyWindow' = <<>> /\ prevInference' = Null

\* buildInference() on a scrape of the port at time now.
Read(now, scrape) ==
  LET entry == [t |-> now, tokens |-> IF scrape = "full" THEN engine' ELSE Undefined,
                work |-> work', bare |-> scrape = "bare"]
      tokens == Slide(tokenWindow, entry, TokenWindow)
      latency == Slide(latencyWindow, entry, LatencyWindow)
  IN CASE scrape \in {"full", "bare"} ->
            /\ tokenWindow' = tokens /\ latencyWindow' = latency
            \* A counter that is missing is kept as 0.
            /\ prevInference' = [entry EXCEPT !.tokens = IF @ = Undefined THEN 0 ELSE @]
            /\ shown' = [rate |-> RateShown(tokens, entry), basis |-> Basis(latency, entry)]
       [] scrape = "silent" ->
            UNCHANGED windows /\ shown' = [rate |-> Null, basis |-> Null]
       [] scrape = "absent" ->
            Forget /\ shown' = [rate |-> Null, basis |-> Null]

\* A fast poll, some time after the last, or after the clock was set back.
Poll(now, scrape) ==
  /\ clock' = now
  /\ Read(now, scrape)
  /\ last' = [scrape |-> scrape,
              steady |-> last.scrape = "full" /\ scrape = "full" /\ now > clock /\ restarts' = restarts]

Next ==
  \E now \in (clock - 1)..(clock + 2) \cap Time, scrape \in Scrapes :
    /\ Len(latencyWindow) < MaxSamples \/ scrape \in {"silent", "absent"}
    /\ \E after \in 0..(MaxTokens - work) :
         \/ Runs(0, after, FALSE) /\ Poll(now, scrape)
         \/ \E before \in 0..(MaxTokens - work - after) :
              restarts < MaxRestarts /\ Runs(before, after, TRUE) /\ Poll(now, scrape)

Spec == Init /\ [][Next]_vars

-----------------------------------------------------------------------------
\* node.ts:734 "report nothing rather than a negative or absurd spike": a rate counts no
\* tokens that were not generated in its interval, whatever the engine, the scrapes and
\* the clock did.  Except for a rate since an answer without counters: that counts from 0
\* (node.ts:831), and is the whole of what the engine generated in its life.
RateHonest ==
  LET r == shown.rate
  IN r # Null => /\ 0 <= r.tokens
                 /\ IF r.bare THEN r.tokens = engine ELSE r.tokens <= r.real

\* Two scrapes with counters one after the other give a rate, also when the window still
\* starts before a restart of the engine, or in the future (node.ts:779).
RateKnown == last.steady => shown.rate # Null

\* A latency that is said to be of the window (types.ts:438) is: a request completed since a
\* scrape that is no older than the window, whatever restarted in between.
BasisHonest ==
  shown.basis = "window" =>
    /\ clock - latencyWindow[1].t <= LatencyWindow
    /\ work > latencyWindow[1].work

===============================================================================
