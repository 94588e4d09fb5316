----------------------------- MODULE ProbeScripts -----------------------------
(***************************************************************************)
(* The two shell programs a collector runs on its node                     *)
(* (packages/core/src/probe.ts:102-448), as the lines they print for a     *)
(* node in a given state.  A line is the tuple of its fields, a file name  *)
(* or a key being a field; its section is kept beside it.                  *)
(***************************************************************************)
EXTENDS Integers, Sequences, SequencesExt

CONSTANTS
  Null,   \* a value a node does not have, and a blank reading
  Marker  \* the line "---"

\* A section with its lines.
Section(name, lines) == [i \in DOMAIN lines |-> [section |-> name, line |-> lines[i]]]

\* The lines of several files, or of several entries, one after the other.
Lines(seq, Of(_)) == FlattenSeq([i \in DOMAIN seq |-> Of(seq[i])])

\* grep over a glob: one line for each entry that has the file.
Grep(seq, Key(_), Value(_)) ==
  LET with == SelectSeq(seq, LAMBDA e : Value(e) # Null)
  IN [i \in DOMAIN with |-> Append(Key(with[i]), Value(with[i]))]

-----------------------------------------------------------------------------
MemoryKeys == <<"MemTotal", "MemFree", "MemAvailable", "Cached", "SwapTotal", "SwapFree">>

\* Two columns of each core stand for all: time spent and time idle.
Uptime(node) == <<<<node.uptime>>, <<node.load, node.running>>>>
Stat(node) ==
  <<<<"cpu", FoldSeq(LAMBDA c, n : c.busy + n, 0, node.cores), FoldSeq(LAMBDA c, n : c.idle + n, 0, node.cores)>>>>
  \o [i \in DOMAIN node.cores |-> <<node.cores[i].label, node.cores[i].busy, node.cores[i].idle>>]
Meminfo(node) == Grep(MemoryKeys, LAMBDA k : <<k>>, LAMBDA k : node.memory[k])
CpuFreq(node) == [i \in DOMAIN node.cores |-> <<node.cores[i].khz>>]

\* nvidia-smi prints no row at all where the driver is missing or one field is unsupported.
Gpu(node) == IF node.gpu = Null THEN <<>> ELSE <<node.gpu.row>>
GpuClock(node) == IF node.gpu = Null THEN <<>> ELSE IF node.gpu.clock = Null THEN <<>> ELSE <<node.gpu.clock>>

Compute(node) == SelectSeq(node.processes, LAMBDA p : ~p.graphics)
GpuProcs(node) == [i \in DOMAIN Compute(node) |-> <<Compute(node)[i].pid, Compute(node)[i].name, Compute(node)[i].mem>>]

\* ps, the marker and the container of each; processes may end meanwhile.
GpuProcDetail(node) ==
  LET alive == SelectSeq(Compute(node), LAMBDA p : p.alive)
  IN IF Compute(node) = <<>> THEN <<>>
     ELSE [i \in DOMAIN alive |-> <<alive[i].pid, alive[i].user, alive[i].rss>>]
          \o <<<<Marker>>>>
          \o [i \in DOMAIN alive |-> <<alive[i].pid, alive[i].container>>]

Sensors(node) ==
  Lines(node.chips, LAMBDA c : [i \in DOMAIN c.temps |-> c.temps[i] @@ [hw |-> c.hw]])
Hwmon(node) ==
  Grep(node.chips, LAMBDA c : <<c.hw, "chip", "name">>, LAMBDA c : c.name)
  \o Grep(Sensors(node), LAMBDA s : <<s.hw, s.temp, "input">>, LAMBDA s : s.milli)
  \o Grep(Sensors(node), LAMBDA s : <<s.hw, s.temp, "label">>, LAMBDA s : s.label)
  \o Grep(Sensors(node), LAMBDA s : <<s.hw, s.temp, "crit">>, LAMBDA s : s.crit)

NetDev(node) == [i \in DOMAIN node.interfaces |->
  <<node.interfaces[i].name, node.interfaces[i].rx, node.interfaces[i].tx>>]
FabricMap(node) == [i \in DOMAIN node.ports |-> <<node.ports[i].ib, node.ports[i].net>>]
FabricHwmon(node) == Grep(node.ports, LAMBDA p : <<p.ib>>, LAMBDA p : p.hw)

\* One glob a file: rate and state, a counter, a hardware counter, and the PCIe link.
FabricSys(node) ==
  Grep(node.ports, LAMBDA p : <<p.ib, "ports", "rate">>, LAMBDA p : p.rate)
  \o Grep(node.ports, LAMBDA p : <<p.ib, "ports", "state">>, LAMBDA p : p.state)
  \o Grep(node.ports, LAMBDA p : <<p.ib, "counters", "port_rcv_data">>, LAMBDA p : p.words)
  \o Grep(node.ports, LAMBDA p : <<p.ib, "hw_counters", "out_of_sequence">>, LAMBDA p : p.faults)
  \o Grep(node.ports, LAMBDA p : <<p.ib, "device", "speed">>, LAMBDA p : p.speed)
  \o Grep(node.ports, LAMBDA p : <<p.ib, "device", "width">>, LAMBDA p : p.width)

Carrier(node) == Grep(node.interfaces, LAMBDA i : <<i.name>>, LAMBDA i : i.carrier)
HasCarrier(node, name) ==
  \E i \in DOMAIN node.interfaces : node.interfaces[i].name = name /\ node.interfaces[i].carrier = 1

\* Ports with a carrier only: the others cost a firmware read for nothing.
Ethtool(node) ==
  Lines(SelectSeq(node.ports, LAMBDA p : HasCarrier(node, p.net)),
        LAMBDA p : <<<<"IF", p.net>>>> \o Grep(<<p>>, LAMBDA q : <<"rx_vport_rdma">>, LAMBDA q : q.vport))

\* A scrape of each endpoint identified: its header, what it answered, the end.
Infer(node) ==
  Lines(node.servers, LAMBDA s : <<<<"EP", s.port, s.kind>>>> \o s.answer \o <<<<"END">>>>)

FastScript(node) ==
  Section("uptime", Uptime(node)) \o Section("stat", Stat(node))
  \o Section("meminfo", Meminfo(node)) \o Section("cpufreq", CpuFreq(node))
  \o Section("gpu", Gpu(node)) \o Section("gpuclock", GpuClock(node))
  \o Section("gpuprocs", GpuProcs(node)) \o Section("gpuprocdetail", GpuProcDetail(node))
  \o Section("hwmon", Hwmon(node)) \o Section("netdev", NetDev(node))
  \o Section("fabricmap", FabricMap(node)) \o Section("fabrichwmon", FabricHwmon(node))
  \o Section("fabricsys", FabricSys(node)) \o Section("carrier", Carrier(node))
  \o Section("ethtool", Ethtool(node)) \o Section("infer", Infer(node))

-----------------------------------------------------------------------------
\* grep | cut prints no line at all where PRETTY_NAME is missing: the pipe succeeds, and
\* the "|| echo" after it never runs.
Host(node) ==
  <<<<node.hostname>>, <<node.kernel>>, <<node.arch>>>>
  \o (IF node.pretty = Null THEN <<>> ELSE <<<<node.pretty>>>>)
  \o [i \in DOMAIN node.dmi |-> <<node.dmi[i]>>]

CpuInfo(node) == <<<<Len(node.cores)>>>> \o [i \in DOMAIN node.models |-> <<node.models[i]>>]

\* The human-readable process table, graphics contexts included.
GpuGraphics(node) == [i \in DOMAIN node.processes |->
  <<node.processes[i].pid, IF node.processes[i].graphics THEN "G" ELSE "C", node.processes[i].mem>>]

Disks(node) == [i \in DOMAIN node.disks |-> <<node.disks[i].device, node.disks[i].used, node.disks[i].mount>>]
Addr(node) == Lines(node.interfaces, LAMBDA i : [k \in DOMAIN i.addresses |-> <<i.name, i.addresses[k]>>])
NetInfo(node) == [i \in DOMAIN node.interfaces |->
  <<node.interfaces[i].name, node.interfaces[i].speed, node.interfaces[i].carrier>>]

\* Ports never worth asking, of SLOW_PROBE_DISCOVERY.
SkipPorts == {22, 53, 5757, 9090}

\* Each candidate is asked in turn for metrics, for Ollama's list and for OpenAI's, and the
\* model of a metrics endpoint is what /v1/models names, or else the path /props names.
ProbeEndpoints(node) ==
  Lines(SelectSeq(node.listeners, LAMBDA l : l.port \notin SkipPorts), LAMBDA l :
    CASE "metrics" \in l.speaks ->
           <<<<"PORT", l.port, "metrics">> \o (IF l.id # Null THEN <<l.id>>
                                              ELSE IF l.path # Null THEN <<l.path>> ELSE <<>>)>>
      [] "ollama" \in l.speaks \ {"metrics"} -> <<<<"PORT", l.port, "ollama">>>>
      [] l.speaks = {"openai"} -> <<<<"PORT", l.port, "openai">>>>
      [] OTHER -> <<>>)

\* One check for all the sections; environment and statistics of running containers only, the
\* latter by a short id.
Running(node) == SelectSeq(node.containers, LAMBDA c : c.state = "running")
Docker(node) ==
  IF ~node.docker THEN <<<<"NO">>>>
  ELSE <<<<"OK">>>> \o [i \in DOMAIN node.containers |->
         <<node.containers[i].id, node.containers[i].image, node.containers[i].state>>]
DockerEnv(node) ==
  IF ~node.docker THEN <<>> ELSE [i \in DOMAIN Running(node) |-> <<Running(node)[i].id>> \o Running(node)[i].env]
DockerStats(node) ==
  IF ~node.docker THEN <<>>
  ELSE [i \in DOMAIN Running(node) |-> <<Front(Running(node)[i].id), Running(node)[i].cpu, Running(node)[i].mem>>]

SlowScript(node) ==
  Section("host", Host(node)) \o Section("cpuinfo", CpuInfo(node))
  \o Section("gpugraphics", GpuGraphics(node)) \o Section("disks", Disks(node))
  \o Section("addr", Addr(node)) \o Section("netinfo", NetInfo(node))
  \o Section("fabricmap", FabricMap(node)) \o Section("probe_endpoints", ProbeEndpoints(node))
  \o Section("docker", Docker(node)) \o Section("dockerenv", DockerEnv(node))
  \o Section("dockerstats", DockerStats(node))
===============================================================================
