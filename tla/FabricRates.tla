------------------------------ MODULE FabricRates ------------------------------
(***************************************************************************)
(* Traffic and faults of one fabric port, and of its network interface, as *)
(* a collector derives them from the counters of each fast poll            *)
(* (packages/core/src/node.ts:528-608 and 994-1197).  The NIC's counters,  *)
(* the port's own and the kernel's each count something else.  A poll may  *)
(* be cut between two readings of the probe or within one, the link may    *)
(* lose its carrier, which takes the NIC's counters away                   *)
(* (probe.ts:196-206), the driver may be reloaded and the node's clock set *)
(* back.  One direction stands for both.                                   *)
(***************************************************************************)
EXTENDS Integers

CONSTANTS
  Undefined, \* a counter, or an earlier reading, that is not there
  MaxTime,   \* bound on the node's clock
  MaxWords,  \* bound on the words sent
  MaxFaults, \* bound on faults
  MaxReloads,\* bound on reloads of the driver
  CutsTried  \* bound on where a poll may be cut

\* The counters a reading may be of: the NIC's two, the port's own, the kernel's, and the
\* port's counters of errors; "part" is a number cut off within, "none" one that is not there.
Counters == {"rdmaVport", "tcpVport", "ib", "kernel", "errors"}

\* A reading, and what its counter would tell had it never been reset.
Sample == [t : Int, source : Counters \cup {"part", "none"}, value : Nat, told : Nat]

\* Words sent by RDMA, by TCP and to many at once, and faults.
Happened == [rdma : Nat, tcp : Nat, cast : Nat, faults : Nat]

Kinds == {"rdma", "tcp", "net", "faults"}
Time == 0..MaxTime
IbWordBytes == 4

\* The readings in the order of the script.  A poll is cut before reading i at 2 * i - 2, within
\* it at 2 * i - 1 and after it at 2 * i.
Net == 1  Map == 2  Ib == 3  Errors == 4  TcpVport == 5  RdmaVport == 6  Cte == 7
Cuts == 0..2 * Cte
HasPart(i, end) == end >= 2 * i - 1
Torn(i, end) == end = 2 * i - 1

\* What the constants must satisfy.
FabricAssumption ==
  /\ {MaxTime, MaxWords, MaxFaults, MaxReloads} \subseteq Nat
  /\ CutsTried \subseteq Cuts
  /\ Undefined \notin Sample

VARIABLES
  clock,     \* the node's clock at the last poll
  cut,       \* where the last poll was cut
  port,      \* what happened on the port since the driver was loaded
  life,      \* the same since ever: the truth
  carrier,   \* the link has its carrier
  reloads,
  prev       \* this.prevFabric, this.prevFaults and this.prevNet

vars == <<clock, cut, port, life, carrier, reloads, prev>>

\* What a counter has counted of what happened, in bytes (of faults, in faults).
Counts(counter, of) ==
  CASE counter = "rdmaVport" -> of.rdma * IbWordBytes
    [] counter = "tcpVport" -> of.tcp * IbWordBytes
    [] counter = "kernel" -> (of.tcp + of.cast) * IbWordBytes
    [] counter = "ib" -> (of.rdma + of.tcp + of.cast) * IbWordBytes
    [] counter = "errors" -> of.faults

NoneYet == [rdma |-> 0, tcp |-> 0, cast |-> 0, faults |-> 0]
Nought == [amount |-> 0, really |-> 0, source |-> "none"]

Init ==
  /\ clock = 0 /\ cut = 0 /\ reloads = 0 /\ carrier = TRUE
  /\ life = [NoneYet EXCEPT !.rdma = 1] /\ port = life
  /\ prev = [kind \in Kinds |-> Undefined]

-----------------------------------------------------------------------------
\* The instant the counters are taken to describe: halfway the counter block, or its start
\* where its end did not arrive whole, or lies before it.
CounterTs(cts, cte) == IF cte # Undefined /\ cte >= cts THEN (cts + cte) \div 2 ELSE cts

\* What is shown of an interval, with what the counter both readings are of really counted in it.
Interval(before, now) ==
  [amount |-> now.value - before.value,
   really |-> IF before.source = now.source THEN now.told - before.told ELSE 0,
   source |-> IF before.source = now.source THEN now.source ELSE "mixed"]

\* ratePerSec(): the bytes between two samples, none where time or the counter went back.
RatePerSec(before, now) ==
  IF before = Undefined \/ now.t <= before.t \/ now.value < before.value THEN Nought
  ELSE Interval(before, now)

\* Reading i, of a counter of so many bytes a unit; where it is cut off, the last digit is missing.
ReadingOf(i, at, counter, unit) ==
  IF Torn(i, cut')
  THEN [t |-> at, source |-> "part", value |-> (Counts(counter, port') \div (10 * unit)) * unit, told |-> 0]
  ELSE [t |-> at, source |-> counter, value |-> Counts(counter, port'), told |-> Counts(counter, life')]

\* `?? 0': a counter that did not arrive reads 0.
NotThere(at) == [t |-> at, source |-> "none", value |-> 0, told |-> 0]

\* Mutant: words of the port's own counter are taken for bytes.
RdmaSample_Words(at) ==
  IF carrier' /\ HasPart(RdmaVport, cut') THEN ReadingOf(RdmaVport, at, "rdmaVport", 1)
  ELSE IF HasPart(Ib, cut')
  THEN LET words == ReadingOf(Ib, at, "ib", IbWordBytes)
       IN [words EXCEPT !.value = @ \div IbWordBytes]
  ELSE NotThere(at)

\* The NIC's RDMA counter, or else the port's own, in words and of all traffic, or else 0.
RdmaSample(at) ==
  IF carrier' /\ HasPart(RdmaVport, cut') THEN ReadingOf(RdmaVport, at, "rdmaVport", 1)
  ELSE IF HasPart(Ib, cut') THEN ReadingOf(Ib, at, "ib", IbWordBytes)
  ELSE NotThere(at)

\* The NIC's counter of the rest, or else the kernel's, or, where the name of the port's
\* interface was cut off, 0.
TcpSample(at) ==
  IF carrier' /\ HasPart(TcpVport, cut') THEN ReadingOf(TcpVport, at, "tcpVport", 1)
  ELSE IF Torn(Map, cut') THEN NotThere(at)
  ELSE ReadingOf(Net, at, "kernel", 1)

\* totalFaults: of counters that did not arrive it is 0.
TotalFaults(at) ==
  IF HasPart(Errors, cut') THEN ReadingOf(Errors, at, "errors", 1) ELSE NotThere(at)

\* faultsDelta: no time is asked for.
FaultsDelta(before, now) ==
  IF before = Undefined \/ now.value < before.value THEN Nought ELSE Interval(before, now)

NetSample(at) == ReadingOf(Net, at, "kernel", 1)

\* buildFabricPorts() and buildInterfaces(): a port or an interface that is not named in the
\* poll is neither shown nor remembered.
Named(kind) == HasPart(IF kind = "net" THEN Net ELSE Map, cut')

\* What a poll reads of each kind.
Reads(kind, at) ==
  CASE kind = "rdma" -> RdmaSample(at)
    [] kind = "tcp" -> TcpSample(at)
    [] kind = "net" -> NetSample(at)
    [] kind = "faults" -> TotalFaults(at)

Shows(kind, before, now) ==
  IF kind = "faults" THEN FaultsDelta(before, now) ELSE RatePerSec(before, now)

\* Between two polls words are sent, faults happen, the carrier comes or goes, and
\* the driver may be reloaded before all of it.
And(a, b) == [rdma |-> a.rdma + b.rdma, tcp |-> a.tcp + b.tcp, cast |-> a.cast + b.cast,
              faults |-> a.faults + b.faults]
Traffic(new, reload) ==
  /\ life' = And(new, life)
  /\ port' = And(new, IF reload THEN NoneYet ELSE port)
  /\ reloads' = IF reload THEN reloads + 1 ELSE reloads

\* A fast poll whose counter block lies between cts and cte.
Poll(cts, cte) ==
  LET at == CounterTs(cts, IF cut' = 2 * Cte THEN cte ELSE Undefined)
  IN /\ clock' = at
     /\ prev' = [kind \in Kinds |-> IF Named(kind) THEN Reads(kind, at) ELSE prev[kind]]

Next ==
  \E new \in [{"rdma", "tcp", "cast", "faults"} -> 0..1], reload \in BOOLEAN,
     cts \in {clock - 1, clock + 1} \cap Time :
    /\ Counts("ib", And(new, life)) <= MaxWords * IbWordBytes
    /\ life.faults + new.faults <= MaxFaults /\ (reload => reloads < MaxReloads)
    /\ cut' \in CutsTried /\ carrier' \in BOOLEAN
    /\ Traffic(new, reload)
    /\ \E cte \in IF cut' = 2 * Cte THEN {cts - 1, cts + 2} ELSE {cts} : Poll(cts, cte)

Spec == Init /\ [][Next]_vars

-----------------------------------------------------------------------------
\* What the snapshot of a poll shows of a kind: traffic as a rate over the interval, faults as new ones.
Shown(kind) == IF Named(kind) THEN Shows(kind, prev[kind], prev'[kind]) ELSE Nought

\* "0 rather than a negative spike" (node.ts:88), nor a positive one: what is shown of an
\* interval its counter really counted in it, traffic and faults alike, whatever was cut,
\* reloaded or set back.  Where the two readings are of different counters, or a counter of
\* one of them did not arrive whole or was taken for 0, what is shown is no traffic of the
\* interval but may be all that a counter ever counted: of that nothing is said.
NoPhantomTraffic ==
  \A kind \in Kinds : Shown(kind).source \in Counters => Shown(kind).amount <= Shown(kind).really

\* The counter a whole poll reads.
CounterOf(kind) ==
  CASE kind = "rdma" -> IF carrier THEN "rdmaVport" ELSE "ib"
    [] kind = "tcp" -> IF carrier THEN "tcpVport" ELSE "kernel"
    [] kind = "net" -> "kernel"
    [] kind = "faults" -> "errors"

\* This poll and the last one were whole, with one carrier, one driver, and time between.
Steady == cut = 2 * Cte /\ cut' = cut /\ clock' > clock /\ carrier' = carrier /\ reloads' = reloads

\* Between two whole polls by the same counters all that these counted is shown, once.
NothingUnseen ==
  Steady =>
    \A kind \in Kinds :
      Shown(kind).amount = Counts(CounterOf(kind), life') - Counts(CounterOf(kind), life)

\* Between two readings of one counter nothing is invented, and between whole polls nothing missed.
TrafficHonestStep == NoPhantomTraffic /\ NothingUnseen
================================================================================
