-------------------------------- MODULE Parsers --------------------------------
(***************************************************************************)
(* The parsers of the probe's output (packages/core/src/parse.ts).  Each   *)
(* takes the lines of a section that arrived, which may be none, may lack  *)
(* an end, and whose last line may be cut, and returns what it reads:       *)
(* entries with a key, numbers and texts.                                  *)
(***************************************************************************)
EXTENDS ProbeScripts, FiniteSets, FiniteSetsExt

CONSTANT Part \* a field that the end of the output cuts

\* A number that is cut keeps its first digits: it is read, as a smaller number.
Cut == 1

\* num(), nvidiaNum() and a text, of a field of a line.
Num(line, i) == IF i \notin DOMAIN line THEN 0
                ELSE IF line[i] = Part THEN Cut ELSE IF line[i] = Null THEN 0 ELSE line[i]
NvidiaNum(line, i) == IF i \notin DOMAIN line THEN Null
                      ELSE IF line[i] = Part THEN Cut ELSE line[i]
Text(line, i) == IF i \in DOMAIN line THEN line[i] ELSE Null

Entry(key, numbers, texts) == [key |-> key, numbers |-> numbers, texts |-> texts]
None == [none |-> Null]

\* splitSections(): the lines of one section, none where it did not arrive.
SplitSections(out, name) ==
  LET its == SelectSeq(out, LAMBDA e : e.section = name) IN [i \in DOMAIN its |-> its[i].line]

\* parseGrepH(): the value of a path, the last of several; a line cut in its path has none.
Paths(b) == {Front(b[i]) : i \in DOMAIN b}
Has(b, path) == \E i \in DOMAIN b : Len(b[i]) = Len(path) + 1 /\ Front(b[i]) = path
GrepH(b, path) ==
  IF ~Has(b, path) THEN Null
  ELSE b[Max({i \in DOMAIN b : Len(b[i]) = Len(path) + 1 /\ Front(b[i]) = path})][Len(path) + 1]
GrepNum(b, path) == IF GrepH(b, path) = Null THEN 0 ELSE IF GrepH(b, path) = Part THEN Cut ELSE GrepH(b, path)

-----------------------------------------------------------------------------
\* The last line of a label: "cpu" is the sum of all, also where it is what a cut left of "cpu1".
ParseCpuTimes(b) ==
  {Entry(b[i][1], [total |-> Num(b[i], 2) + Num(b[i], 3), idle |-> Num(b[i], 3)], None) :
     i \in {i \in DOMAIN b : \A k \in (i + 1)..Len(b) : b[k][1] # b[i][1]}}

\* By position: the first line is /proc/uptime, the second /proc/loadavg.
ParseLoadAvg(b) ==
  {Entry("load", [uptime |-> IF Len(b) > 0 THEN Num(b[1], 1) ELSE 0,
                  load |-> IF Len(b) > 1 THEN Num(b[2], 1) ELSE 0,
                  running |-> IF Len(b) > 1 THEN Num(b[2], 2) ELSE 0], None)}

ParseCpuFreq(b) ==
  {Entry("freq", [khz |-> IF b = <<>> THEN 0 ELSE Max({Num(b[i], 1) : i \in DOMAIN b})], None)}

\* What is used is what is not available: all of it, where that line did not arrive.
ParseMeminfo(b) ==
  LET kb(k) == GrepNum(b, <<k>>)
  IN {Entry("memory", [total |-> kb("MemTotal"), available |-> kb("MemAvailable"),
                       used |-> Max({0, kb("MemTotal") - kb("MemAvailable")}),
                       free |-> kb("MemFree"), cached |-> kb("Cached"),
                       swapTotal |-> kb("SwapTotal"),
                       swapUsed |-> Max({0, kb("SwapTotal") - kb("SwapFree")})], None)}

\* Five columns stand for the first twelve, without which a row is dropped, and two for the
\* others.  Of a mask, whether it could be read, and the reasons named for its bits.
ParseThrottleMask(line, i) == IF i \notin DOMAIN line \/ line[i] = Null THEN Null ELSE line[i]
ParseGpuQuery(b) ==
  {Entry("gpu", [util |-> Num(b[i], 2), temp |-> NvidiaNum(b[i], 3), total |-> NvidiaNum(b[i], 4),
                 used |-> NvidiaNum(b[i], 5), clockMax |-> NvidiaNum(b[i], 6)],
                [name |-> Text(b[i], 1), reasons |-> ParseThrottleMask(b[i], 7)]) :
     i \in {i \in DOMAIN b : Len(b[i]) >= 5}}

ParseClockEventCounters(b) ==
  IF b = <<>> THEN {}
  ELSE IF Len(b[1]) < 2 \/ \A i \in DOMAIN b[1] : b[1][i] = Null THEN {}
  ELSE {Entry("clock", [power |-> NvidiaNum(b[1], 1), thermal |-> NvidiaNum(b[1], 2)], None)}

\* The section splits at the first marker that is not its first line: where ps printed
\* nothing, all of it is taken for output of ps, and no container is found.
ProcDetail(b) ==
  LET at == {i \in DOMAIN b : i > 1 /\ b[i] = <<Marker>>}
  IN IF at = {} THEN [ps |-> b, cg |-> <<>>]
     ELSE [ps |-> SubSeq(b, 1, Min(at) - 1), cg |-> SubSeq(b, Min(at) + 1, Len(b))]

\* The last line of a process, if there is one.
LineOf(b, pid) == LET at == {i \in DOMAIN b : b[i][1] = pid} IN IF at = {} THEN <<>> ELSE b[Max(at)]

\* Mutant: the two parts of the section are matched by position.
ApplyGpuProcDetail_ByPosition(procs, detail) ==
  {[p EXCEPT !.numbers = [mem |-> p.numbers.mem, rss |-> Num(LineOf(detail.ps, p.key), 3)],
             !.texts = [name |-> p.texts.name, user |-> Text(LineOf(detail.ps, p.key), 2),
                        container |-> IF detail.cg = <<>> THEN Null ELSE Text(detail.cg[1], 2)]] : p \in procs}

\* parseGpuProcs(), and applyGpuProcDetail() on them.
ParseGpuProcs(b) ==
  {Entry(b[i][1], [mem |-> Num(b[i], 3), rss |-> 0], [name |-> Text(b[i], 2), user |-> Null, container |-> Null]) :
     i \in {i \in DOMAIN b : Len(b[i]) >= 3}}
ApplyGpuProcDetail(procs, detail) ==
  {[p EXCEPT !.numbers = [mem |-> p.numbers.mem, rss |-> Num(LineOf(detail.ps, p.key), 3)],
             !.texts = [name |-> p.texts.name, user |-> Text(LineOf(detail.ps, p.key), 2),
                        container |-> Text(LineOf(detail.cg, p.key), 2)]] : p \in procs}

ParseGpuGraphics(b) ==
  {Entry(b[i][1], [mem |-> IF Text(b[i], 3) = Part THEN 0 ELSE Num(b[i], 3)],
                  [type |-> IF b[i][2] = "G" THEN "graphics" ELSE "compute"]) :
     i \in {i \in DOMAIN b : Len(b[i]) >= 2 /\ b[i][2] # Part}}

-----------------------------------------------------------------------------
\* Chips of one name are numbered in the order of their directories, a chip without a name is
\* "unknown".
ChipsNamed(b, name) == {p[1] : p \in {p \in Paths(b) : Len(p) = 3 /\ p[3] = "name" /\ GrepH(b, p) = name}}

ChipLabel(b, hw) ==
  LET name == GrepH(b, <<hw, "chip", "name">>)
      same == ChipsNamed(b, name)
  IN IF name = Null THEN <<Null, 0>>
     ELSE IF Cardinality(same) > 1 THEN <<name, 1 + Cardinality({h \in same : h < hw})>> ELSE <<name, 0>>

\* parseHwmon(): a sensor for each plausible temperature.
ParseHwmon(b) ==
  {Entry(<<ChipLabel(b, p[1]), p[2]>>,
         [temp |-> GrepNum(b, p), crit |-> GrepNum(b, <<p[1], p[2], "crit">>), source |-> p[1]],
         [label |-> GrepH(b, <<p[1], p[2], "label">>)]) :
     p \in {p \in Paths(b) : Len(p) = 3 /\ p[3] = "input" /\ GrepNum(b, p) \in 1..200}}

ParseNetDev(b) ==
  {Entry(b[i][1], [rx |-> Num(b[i], 2), tx |-> Num(b[i], 3)], None) : i \in {i \in DOMAIN b : Len(b[i]) >= 2}}

\* parseFabricMap(), parseFabricHwmon(): a name that is cut is a name.
ParseFabricMap(b) ==
  {Entry(b[i][1], None, [net |-> b[i][2]]) : i \in {i \in DOMAIN b : Len(b[i]) = 2}}

ParseFabricSys(b) ==
  {Entry(dev, [words |-> GrepNum(b, <<dev, "counters", "port_rcv_data">>),
               faults |-> GrepNum(b, <<dev, "hw_counters", "out_of_sequence">>)],
              [rate |-> GrepH(b, <<dev, "ports", "rate">>), state |-> GrepH(b, <<dev, "ports", "state">>)]) :
     dev \in {p[1] : p \in {p \in Paths(b) : Len(p) = 3 /\ p[2] # "device"}}}

\* pcieThroughputGbps(): known with both speed and width only; encoding and protocol overhead
\* take what the last factor takes.
PcieThroughput(speed, width) == IF speed = 0 \/ width = 0 THEN Null ELSE (speed * width * 8) \div 10
ParseFabricPcie(b) ==
  {Entry(dev, [gbps |-> PcieThroughput(GrepNum(b, <<dev, "device", "speed">>),
                                       GrepNum(b, <<dev, "device", "width">>))], None) :
     dev \in {p[1] : p \in {p \in Paths(b) : Len(p) = 3 /\ p[2] = "device"}}}

\* parseEthtool(): counters belong to the interface last named; one named without any has none.
Owner(b, i) == LET at == {k \in 1..i : b[k][1] = "IF" /\ Len(b[k]) = 2} IN IF at = {} THEN 0 ELSE Max(at)
ParseEthtool(b) ==
  {Entry(b[k][2], [rdma |-> LET its == {i \in DOMAIN b : Owner(b, i) = k /\ b[i][1] = "rx_vport_rdma" /\ Len(b[i]) = 2}
                            IN IF its = {} THEN Null ELSE Num(b[Max(its)], 2)], None) :
     k \in {k \in DOMAIN b : b[k][1] = "IF" /\ Len(b[k]) = 2}}

ParseCarrier(b) == {Entry(p[1], [up |-> IF GrepH(b, p) = 1 THEN 1 ELSE 0], None) : p \in {p \in Paths(b) : Len(p) = 1}}

-----------------------------------------------------------------------------
\* parseHost(): nine lines, by position, whatever they hold; what the maker left unset is none.
Unset == "Default string"
HostFields == <<"hostname", "kernel", "arch", "pretty", "product", "vendor", "family", "version", "board">>
ParseHost(b) ==
  {Entry(HostFields[i], None, [value |-> IF i \notin DOMAIN b THEN Null
                                       ELSE IF i > 4 /\ b[i][1] = Unset THEN Null ELSE b[i][1]]) : i \in DOMAIN HostFields}

ParseCpuInfo(b) ==
  {Entry("cpuinfo", [cores |-> IF b = <<>> THEN 1 ELSE Num(b[1], 1)],
                    [models |-> {b[i][1] : i \in 2..Len(b)}])}

\* parseDisks(): the first of the devices on one mount point.
ParseDisks(b) ==
  {Entry(b[i][3], [used |-> Num(b[i], 2)], [device |-> b[i][1]]) :
     i \in {i \in DOMAIN b : Len(b[i]) = 3 /\ \A k \in 1..(i - 1) : Text(b[k], 3) # b[i][3]}}

ParseIpAddr(b) ==
  {Entry(name, None, [addresses |-> LET its == SelectSeq(b, LAMBDA l : Len(l) = 2 /\ l[1] = name)
                                    IN [i \in DOMAIN its |-> its[i][2]]]) :
     name \in {b[i][1] : i \in {i \in DOMAIN b : Len(b[i]) = 2}}}

ParseNetInfo(b) ==
  {Entry(b[i][1], [speed |-> IF Num(b[i], 2) > 0 THEN Num(b[i], 2) ELSE Null,
                   up |-> IF Text(b[i], 3) = 1 THEN 1 ELSE 0], None) : i \in DOMAIN b}

\* parseDocker(): unavailable unless its first line says OK.
ParseDocker(b) ==
  IF b = <<>> \/ b[1] # <<"OK">> THEN {}
  ELSE {Entry(b[i][1], None, [image |-> b[i][2], state |-> b[i][3]]) : i \in {i \in 2..Len(b) : Len(b[i]) = 3}}

\* The containers listed, in order.
ListedIds(b) == LET its == SelectSeq(b, LAMBDA l : Len(l) = 3) IN [i \in DOMAIN its |-> its[i][1]]

\* The lines of a container: those for which it is the first listed whose id starts with theirs,
\* be it short or cut.
Owns(ids, c, id) ==
  id # Part /\ LET at == {i \in DOMAIN ids : IsPrefix(id, ids[i])} IN at # {} /\ ids[Min(at)] = c
LinesFor(ids, b, c) == {i \in DOMAIN b : Owns(ids, c, b[i][1])}

\* applyDockerStats(): a line without a size leaves the memory as it was.
ApplyDockerStats(containers, ids, b) ==
  {Entry(c.key,
         LET its == LinesFor(ids, b, c.key)
             sized == {i \in its : Len(b[i]) >= 3}
         IN [cpu |-> IF its = {} THEN Null ELSE Num(b[Max(its)], 2),
             mem |-> IF sized = {} THEN Null ELSE Num(b[Max(sized)], 3)], None) : c \in containers}

\* The first variable set of several that mean the same.
Env(line, names) ==
  LET set == {i \in 1..Len(names) : \E k \in 2..Len(line) : line[k] # Part /\ line[k][1] = names[i]}
  IN IF set = {} THEN Null ELSE line[CHOOSE k \in 2..Len(line) : line[k] # Part /\ line[k][1] = names[Min(set)]][2]

Hints(line) == [masterAddr |-> Env(line, <<"MASTER_ADDR", "VLLM_HOST_IP">>), rank |-> Env(line, <<"RANK", "NODE_RANK">>),
                model |-> Env(line, <<"DSPARK_MODEL", "MODEL", "MODEL_NAME">>)]

\* applyDockerEnv(): the network is of the last line, the rest of the last that has any of it.
ApplyDockerEnv(containers, ids, b) ==
  {Entry(c.key, None,
         LET its == LinesFor(ids, b, c.key)
             telling == {i \in its : \E f \in {"masterAddr", "rank", "model"} : Hints(b[i])[f] # Null}
         IN [networkMode |-> IF its = {} THEN Null ELSE Env(b[Max(its)], <<"NETWORKMODE">>)]
            @@ (IF telling = {} THEN Hints(<<c.key>>) ELSE Hints(b[Max(telling)]))) : c \in containers}

\* The last component of a path; a model id is a path of one.
FileName(path) == IF path = Part THEN Part ELSE path[Len(path)]

\* parseDiscoveredEndpoints(): the first of a port; of a path, the file name.
ParseDiscovered(b) ==
  {Entry(b[i][2], None, [kind |-> b[i][3], model |-> IF Len(b[i]) = 4 THEN FileName(b[i][4]) ELSE Null]) :
     i \in {i \in DOMAIN b : /\ Len(b[i]) >= 3 /\ b[i][3] # Part
                             /\ \A k \in 1..(i - 1) : b[k][2] # b[i][2]}}

\* The last line of a block: before its end marker, the next header or the end of what came.
BlockEnd(b, k) ==
  LET ends == {i \in (k + 1)..Len(b) : b[i][1] \in {"EP", "END"}} IN IF ends = {} THEN Len(b) ELSE Min(ends) - 1

\* parseInferenceScrapes(): a body for each header, also an empty one; a port that is cut is a port.
ParseInferenceScrapes(b) ==
  {Entry(b[k][2], None, [kind |-> Text(b[k], 3), body |-> SubSeq(b, k + 1, BlockEnd(b, k))]) :
     k \in {k \in DOMAIN b : b[k][1] = "EP" /\ Len(b[k]) >= 2}}
===============================================================================
