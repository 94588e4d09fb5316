------------------------------ MODULE ProbeOutput ------------------------------
(***************************************************************************)
(* What a collector reads of its node in one poll: the output of a probe   *)
(* script arrives line by line and may end anywhere, since a stream that   *)
(* closes early resolves like a whole one (packages/core/src/node.ts:388). *)
(***************************************************************************)
EXTENDS Parsers, Variants

VARIABLES
  node,    \* the node, as it is while the script runs
  tier,    \* "fast" or "slow"
  arrived, \* the lines that arrived
  torn     \* the last of them is cut

vars == <<node, tier, arrived, torn>>

Script == IF tier = "fast" THEN FastScript(node) ELSE SlowScript(node)

Arrive ==
  /\ ~torn /\ Len(arrived) < Len(Script)
  /\ arrived' = Append(arrived, Script[Len(arrived) + 1])
  /\ UNCHANGED <<node, tier, torn>>

\* What a cut may leave of field k of a line: of the label of a core that of all, of a container's
\* id a shorter one, of "[N/A]" nothing.
Remnants(next, k) ==
  LET field == next.line[k]
  IN CASE field = Null -> {Null}
       [] next.section = "stat" /\ k = 1 /\ field # "cpu" -> {Part, "cpu"}
       [] next.section \in {"dockerenv", "dockerstats"} /\ k = 1 /\ Len(field) > 1 -> {Part, Front(field)}
       [] OTHER -> {Part}

\* The output ends inside a line: after some of its fields, or within one.
Tear ==
  /\ ~torn /\ Len(arrived) < Len(Script)
  /\ LET next == Script[Len(arrived) + 1]
     IN \E k \in 1..Len(next.line), within \in BOOLEAN :
          /\ within \/ k < Len(next.line)
          /\ \E left \in IF within THEN Remnants(next, k) ELSE {next.line[k]} :
               arrived' = Append(arrived, [next EXCEPT !.line = Append(SubSeq(@, 1, k - 1), left)])
  /\ torn' = TRUE /\ UNCHANGED <<node, tier>>

Next == Arrive \/ Tear

-----------------------------------------------------------------------------
\* buildSnapshot() and pollSlow(), the sections they read.
ReadFast(out) ==
  LET s(name) == SplitSections(out, name)
  IN [cpu |-> ParseCpuTimes(s("stat")), load |-> ParseLoadAvg(s("uptime")), freq |-> ParseCpuFreq(s("cpufreq")),
      memory |-> ParseMeminfo(s("meminfo")), gpu |-> ParseGpuQuery(s("gpu")),
      clock |-> ParseClockEventCounters(s("gpuclock")),
      processes |-> ApplyGpuProcDetail(ParseGpuProcs(s("gpuprocs")), ProcDetail(s("gpuprocdetail"))),
      sensors |-> ParseHwmon(s("hwmon")), interfaces |-> ParseNetDev(s("netdev")),
      map |-> ParseFabricMap(s("fabricmap")), hwmon |-> ParseFabricMap(s("fabrichwmon")),
      ports |-> ParseFabricSys(s("fabricsys")), pcie |-> ParseFabricPcie(s("fabricsys")),
      carrier |-> ParseCarrier(s("carrier")), vports |-> ParseEthtool(s("ethtool")),
      scrapes |-> ParseInferenceScrapes(s("infer"))]

ReadSlow(out) ==
  LET s(name) == SplitSections(out, name)
      containers == ParseDocker(s("docker"))
      ids == ListedIds(s("docker"))
  IN [host |-> ParseHost(s("host")), cpuinfo |-> ParseCpuInfo(s("cpuinfo")),
      graphics |-> ParseGpuGraphics(s("gpugraphics")), disks |-> ParseDisks(s("disks")),
      addresses |-> ParseIpAddr(s("addr")), links |-> ParseNetInfo(s("netinfo")),
      map |-> ParseFabricMap(s("fabricmap")),
      endpoints |-> ParseDiscovered(s("probe_endpoints")),
      containers |-> containers, env |-> ApplyDockerEnv(containers, ids, s("dockerenv")),
      stats |-> ApplyDockerStats(containers, ids, s("dockerstats"))]

\* What of it tells the variant (node.ts:602).
Firmware(host) ==
  [f \in {"product", "vendor", "family", "version", "board"} |-> (CHOOSE e \in host : e.key = f).texts.value]

Read(out) == IF tier = "fast" THEN ReadFast(out) ELSE ReadSlow(out)
Whole == Read(Script)

\* The reading of a key, of a kind.
Of(readings, key) == CHOOSE e \in readings : e.key = key
Keys(readings) == {e.key : e \in readings}
Elements(seq) == {seq[i] : i \in DOMAIN seq}

-----------------------------------------------------------------------------
\* A number or a text of a poll that was cut, beside that of the whole poll.
BlankOrSame(cut, whole) == cut = whole \/ cut = Null \/ (torn /\ cut = Part)
NumberOrBlank(cut, whole) == cut \in {whole, Null, 0} \/ (torn /\ cut < whole)
Shorter(cut, whole) == IsPrefix(IF torn /\ cut # <<>> THEN Front(cut) ELSE cut, whole)

Poorer(kind, cut, whole) ==
  /\ kind # "memory" => \A f \in DOMAIN cut.numbers :
       kind = "cpuinfo" \/ NumberOrBlank(cut.numbers[f], whole.numbers[f])
  /\ CASE kind = "scrapes" -> Shorter(cut.texts.body, whole.texts.body)
       [] kind = "addresses" -> Shorter(cut.texts.addresses, whole.texts.addresses)
       [] kind = "cpuinfo" -> cut.texts.models \subseteq whole.texts.models \cup (IF torn THEN {Part} ELSE {})
       [] OTHER -> \A f \in DOMAIN cut.texts \ {"none"} : BlankOrSame(cut.texts[f], whole.texts[f])

\* Wherever the output ends, what is read of it is what the whole would say, or nothing: no
\* reading goes to another key, and no field to another reading.  Only the last line may be
\* misread, as far as it was cut, and memory reads as all used until the line that says
\* otherwise arrived (parse.ts:157).
CutIsBlank ==
  LET cut == Read(arrived) whole == Whole
  IN \A kind \in DOMAIN cut :
       \A e \in cut[kind] :
         \/ torn /\ e.key = Part
         \/ e.key \in Keys(whole[kind]) /\ Poorer(kind, e, Of(whole[kind], e.key))

-----------------------------------------------------------------------------
FastReadsBack ==
  LET r == Whole mem == Of(r.memory, "memory").numbers
  IN /\ Null \notin {node.memory["MemTotal"], node.memory["MemAvailable"]} =>
          mem.used = node.memory["MemTotal"] - node.memory["MemAvailable"]
     /\ node.gpu # Null => LET g == Of(r.gpu, "gpu").numbers
                           IN g.temp = node.gpu.row[3] /\ g.total = node.gpu.row[4]
     \* The memory of each process, and its container while one of them can be asked.
     /\ \A p \in Elements(node.processes) : ~p.graphics =>
          LET e == Of(r.processes, p.pid)
          IN /\ e.numbers.mem = p.mem
             /\ e.texts.container = IF p.alive THEN p.container ELSE Null
     \* As many sensors as there are, if chips have names.
     /\ (\A c \in Elements(node.chips) : c.name # Null) =>
          Cardinality(r.sensors) = FoldSeq(LAMBDA c, n : Len(c.temps) + n, 0, node.chips)
     /\ \A e \in r.sensors : \E t \in Elements(Sensors(node)) :
          t.hw = e.numbers.source /\ t.milli = e.numbers.temp /\ t.label = e.texts.label
     /\ \A p \in Elements(node.ports) :
          /\ Of(r.map, p.ib).texts.net = p.net
          /\ Of(r.ports, p.ib).numbers.words = (IF p.words = Null THEN 0 ELSE p.words) /\ Of(r.ports, p.ib).numbers.faults = p.faults
          \* NIC counters exactly of the ports with a carrier that have them.
          /\ HasCarrier(node, p.net) <=> p.net \in Keys(r.vports)
          /\ HasCarrier(node, p.net) => Of(r.vports, p.net).numbers.rdma = p.vport
     /\ \A s \in Elements(node.servers) : Of(r.scrapes, s.port).texts.body = s.answer

SlowReadsBack ==
  LET r == Whole
  IN \* The maker is read where the system has a name (parse.ts:616): a line less shifts the others.
     /\ node.pretty # Null => \A i \in DOMAIN node.dmi :
          Of(r.host, HostFields[4 + i]).texts.value = IF node.dmi[i] = Unset THEN Null ELSE node.dmi[i]
     \* A Spark is known for one, and by its maker: but a Dell whose firmware has no vendor says "gb10",
     \* which is asked of NVIDIA's first (variants.ts:50).
     /\ node.pretty # Null =>
          LET dmi == Firmware(r.host)
          IN IsDgxSpark(dmi) /\ (DetectVariant(dmi) = node.maker \/ (node.maker = "dell" /\ dmi.vendor = Null))
     \* Every server that answers is an endpoint, of the first kind it answers to.
     /\ \A l \in Elements(node.listeners) :
          (l.port \in Keys(r.endpoints)) <=> (l.speaks # {} /\ l.port \notin SkipPorts)
     /\ \A e \in r.endpoints : \E l \in Elements(node.listeners) :
          l.port = e.key /\ e.texts.kind \in l.speaks
          /\ ("metrics" \in l.speaks => e.texts.kind = "metrics")
          /\ (e.texts.model # Null => e.texts.model \in {FileName(p) : p \in {l.id, l.path} \ {Null}})
     /\ node.docker => \A c \in Elements(node.containers) :
          LET running == c.state = "running"
          IN /\ Of(r.containers, c.id).texts.image = c.image
             /\ Of(r.stats, c.id).numbers.cpu = IF running THEN c.cpu ELSE Null
             /\ Of(r.env, c.id).texts.rank # Null <=>
                  running /\ \E k \in DOMAIN c.env : c.env[k][1] \in {"RANK", "NODE_RANK"}
     /\ \A d \in Elements(node.disks) : d.mount \in Keys(r.disks)
     /\ \A i \in Elements(node.interfaces) : Of(r.links, i.name).numbers.up = i.carrier

\* What the whole output says of the node is so: script and parser agree on every section,
\* whatever the node lacks.
ReadsBack == arrived = <<>> => IF tier = "fast" THEN FastReadsBack ELSE SlowReadsBack
================================================================================
