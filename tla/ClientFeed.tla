------------------------------ MODULE ClientFeed ------------------------------
(***************************************************************************)
(* The feed from the server (packages/server/src/index.ts:147-184,         *)
(* 548-580) to a page (packages/web/src/lib/useCluster.ts): snapshots over *)
(* a websocket, the backlog of the charts once on connect, and their merge *)
(* in the page.  Connections close and are retried, the server restarts    *)
(* with an empty backlog, its clock may be set back.  The "config" message *)
(* only replaces the list of nodes and is left out.                        *)
(***************************************************************************)
EXTENDS Integers, Sequences, SequencesExt, FiniteSets

CONSTANTS
  ServerCap,   \* historySize, the ticks that the server keeps
  ClientCap,   \* HISTORY_CAPACITY, those that the page keeps
  Key,         \* series
  NaN,         \* no reading (null in the page)
  None,        \* null
  MaxTicks,    \* bound on broadcasts
  MaxRestarts, \* bound on restarts of the server
  MaxQueue     \* bound on messages under way

FeedAssumption ==
  /\ ServerCap \in Nat \ {0} /\ ClientCap \in Nat \ {0} /\ MaxQueue \in Nat \ {0, 1}
  /\ MaxTicks \in Nat /\ MaxRestarts \in Nat
  /\ NaN \notin Nat
  /\ None \notin [ts : Nat, val : [Key -> Nat \cup {NaN}]]
  /\ \A K \in SUBSET Key : None \notin [ts : Seq(Nat), series : [K -> Seq(Nat \cup {NaN})]]

VARIABLES
  clock,       \* Date.now() on the server, when it last built a snapshot
  stepped,     \* the clock has been set back
  sent,        \* what has been broadcast: [ts, val], a reading is the number of its tick
  ticks,       \* how often
  log,         \* the server's HistoryStore
  latest,      \* the server's newest snapshot, None after a start
  restarts,
  strange,     \* the page may have several ticks from before those of the server
  conn,        \* the page's connection
  chan,        \* messages under way on it
  fresh,       \* ticks broadcast since it opened, if it is open
  hist         \* the page's history

server == <<clock, stepped, sent, ticks, log, latest, restarts, strange>>
vars == <<server, conn, chan, fresh, hist>>

Stamps == 0..MaxTicks

Log == INSTANCE HistoryLog WITH Capacity <- ServerCap, Reading <- 1..MaxTicks, Stamp <- Stamps

Snapshot(tick) == [type |-> "snapshot", data |-> tick]

\* HistoryStore.payload(): the timeline, and the series with a reading.
Payload ==
  [type |-> "history",
   data |-> [ts |-> [i \in 1..Len(log) |-> log[i].ts],
             series |-> [k \in {x \in Key : \E i \in 1..Len(log) : log[i].val[x] # NaN} |->
                           [i \in 1..Len(log) |-> log[i].val[k]]]]]

LastOf(s, n) == IF Len(s) > n THEN SubSeq(s, Len(s) - n + 1, Len(s)) ELSE s

\* The readings of a sample.  Of a series that is not in it the page knows nothing.
InSample(tick) == {k \in Key : tick.val[k] # NaN}

\* Mutant: a late series is filled up behind its first reading.
AppendSample_FillAfter(prev, tick) ==
  LET base == IF prev = None THEN [ts |-> <<>>, series |-> <<>>] ELSE prev
      known == DOMAIN base.series
  IN IF base.ts # <<>> /\ tick.ts <= Last(base.ts) THEN base
     ELSE [ts |-> LastOf(Append(base.ts, tick.ts), ClientCap),
           series |-> [k \in known \cup InSample(tick) |->
                         LastOf(IF k \in known THEN Append(base.series[k], tick.val[k])
                                ELSE <<tick.val[k]>> \o [i \in 1..Len(base.ts) |-> NaN],
                                ClientCap)]]

\* appendSample(): a snapshot that is not newer is ignored, a late series is back-filled.
AppendSample(prev, tick) ==
  LET base == IF prev = None THEN [ts |-> <<>>, series |-> <<>>] ELSE prev
      known == DOMAIN base.series
  IN IF base.ts # <<>> /\ tick.ts <= Last(base.ts) THEN base
     ELSE [ts |-> LastOf(Append(base.ts, tick.ts), ClientCap),
           series |-> [k \in known \cup InSample(tick) |->
                         LastOf(Append(IF k \in known THEN base.series[k]
                                       ELSE [i \in 1..Len(base.ts) |-> NaN], tick.val[k]),
                                ClientCap)]]

Depth(h) == IF h = None THEN 0 ELSE Len(h.ts)

\* Mutant: of two equally deep histories the page keeps its own.
Deeper_OwnOnTie(mine, incoming) ==
  IF mine # None /\ Depth(mine) >= Len(incoming.ts) THEN mine ELSE incoming

\* Which history survives when the backlog arrives.
Deeper(mine, incoming) == IF Depth(mine) > Len(incoming.ts) THEN mine ELSE incoming

-----------------------------------------------------------------------------
Init ==
  /\ clock = 0 /\ stepped = FALSE /\ sent = {} /\ ticks = 0
  /\ log = <<>> /\ latest = None /\ restarts = 0 /\ strange = FALSE
  /\ conn = "connecting" /\ chan = <<>> /\ fresh = 0 /\ hist = None

\* The snapshot handler: record, and broadcast to the sockets that are open.
Broadcast(now, K) ==
  /\ ticks < MaxTicks /\ Len(chan) < MaxQueue
  /\ ticks' = ticks + 1
  /\ clock' = now /\ stepped' = (stepped \/ now <= clock)
  /\ LET tick == [ts |-> now, val |-> [k \in Key |-> IF k \in K THEN ticks' ELSE NaN]]
     IN /\ Log!Record(tick)
        /\ latest' = tick
        /\ sent' = sent \cup {tick}
        /\ IF conn = "open" THEN chan' = Append(chan, Snapshot(tick)) /\ fresh' = fresh + 1
           ELSE UNCHANGED <<chan, fresh>>
  /\ UNCHANGED <<restarts, strange, conn, hist>>

\* The clock advances, or is set back once.
Ticking ==
  \E K \in SUBSET Key :
    \/ clock < MaxTicks /\ Broadcast(clock + 1, K)
    \/ ~stepped /\ \E now \in 0..(clock - 1) : Broadcast(now, K)

\* open(ws): the page is primed with the newest snapshot and the backlog.  Before the
\* first broadcast the monitor builds a snapshot, now, of nodes that are all connecting,
\* which the page adds to its history and the server does not.
Open ==
  /\ conn = "connecting"
  /\ LET now == IF latest # None \/ clock = MaxTicks THEN clock ELSE clock + 1
         first == IF latest # None THEN latest ELSE [ts |-> now, val |-> [k \in Key |-> NaN]]
     IN /\ clock' = now
        /\ chan' = <<Snapshot(first), Payload>>
        /\ sent' = sent \cup {first}
  /\ strange' = (strange \/ (latest = None /\ sent # {}))
  /\ conn' = "open" /\ fresh' = 0
  /\ UNCHANGED <<stepped, ticks, log, latest, restarts, hist>>

\* onmessage.
Receive ==
  /\ conn = "open" /\ chan # <<>>
  /\ LET msg == Head(chan)
     IN hist' = IF msg.type = "snapshot" THEN AppendSample(hist, msg.data)
                ELSE Deeper(hist, msg.data)
  /\ chan' = Tail(chan)
  /\ UNCHANGED <<server, conn, fresh>>

\* The connection closes or cannot be made: onclose sets a timer.  What was under
\* way is lost.
Close ==
  /\ conn \in {"connecting", "open"}
  /\ conn' = "closed" /\ chan' = <<>> /\ fresh' = 0
  /\ UNCHANGED <<server, hist>>

\* The timer of onclose.
Retry ==
  /\ conn = "closed"
  /\ conn' = "connecting"
  /\ UNCHANGED <<server, chan, fresh, hist>>

\* The server is started again; its connections are gone.
Restart ==
  /\ restarts < MaxRestarts
  /\ restarts' = restarts + 1
  /\ log' = <<>> /\ latest' = None /\ strange' = TRUE
  /\ conn' = IF conn = "open" THEN "closed" ELSE conn
  /\ chan' = <<>> /\ fresh' = 0
  /\ UNCHANGED <<clock, stepped, sent, ticks, hist>>

Next == Ticking \/ Open \/ Receive \/ Close \/ Retry \/ Restart

-----------------------------------------------------------------------------
ReadingAt(h, k, i) == IF k \in DOMAIN h.series THEN h.series[k][i] ELSE NaN

\* Every tick of the page's charts is one that the server broadcast, with all of its
\* readings and no others, whatever arrived late, twice or not at all: the merge never shifts a
\* series against the timeline (history.ts:4-8, useCluster.ts:39).  useCluster.ts:28 "A duplicate
\* or out-of-order snapshot would corrupt the timeline": as long as the server's clock is not
\* set back, the page's timeline increases.
TicksAreReal ==
  hist # None =>
    /\ \A k \in DOMAIN hist.series : Len(hist.series[k]) = Len(hist.ts)
    /\ \A i \in 1..Len(hist.ts) :
         [ts |-> hist.ts[i], val |-> [k \in Key |-> ReadingAt(hist, k, i)]] \in sent
    /\ ~stepped => \A i, j \in 1..Len(hist.ts) : i < j => hist.ts[i] < hist.ts[j]

\* A page that has received everything shows the newest ticks of the server without a
\* gap: all that both can hold, and after a restart of the server, or when the page connected
\* more than once before its first tick, at least those since the page reconnected: its own
\* history may be deeper then, and have a gap.  (useCluster.ts:126; not when the clock is set
\* back, nor with a server that keeps fewer ticks than the page.)
CaughtUp ==
  conn = "open" /\ chan = <<>> /\ ~stepped /\ ServerCap >= ClientCap =>
    LET kept == LastOf(log, IF strange /\ fresh < ClientCap THEN fresh ELSE ClientCap)
    IN IsSuffix([i \in 1..Len(kept) |-> kept[i].ts], hist.ts)
==============================================================================
