-------------------------------- MODULE MCServer --------------------------------
(* The values of the constants of Server, part by part. *)
EXTENDS Server, TLC

CONSTANTS c1, c2, h1, h2, i1, i2, r1, r2, k1

(* Analysis.  Three nodes: the first has the readings, the second ports in    *)
(* every state, the third may join the subnet of the other two.               *)
Port(d, s, tx, rx, rate) ==
  [dev |-> d, subnet |-> s, up |-> TRUE, tx |-> tx, rx |-> rx, rate |-> rate, faults |-> FALSE]
Calm == [k \in {"temp", "disk", "vram", "gpu-clock"} |-> "absent"]
Up(ports) == [status |-> "online", ports |-> ports, level |-> Calm, suspect |-> FALSE, tcpOnly |-> {}]
Down(s) == [status |-> s, ports |-> {}, level |-> Calm, suspect |-> FALSE, tcpOnly |-> {}]

Idle(d, s) == Port(d, s, 0, 0, 200)
Readings(t, c, sus) ==
  [Up({Idle("p", "s1")}) EXCEPT !.level = [Calm EXCEPT !["temp"] = t, !["gpu-clock"] = c],
                                !.suspect = sus]

MCNodes == {1, 2, 3}

MCPolled ==
  1 :> {Up({Port("p", "s1", 10, 0, 200), Idle("q", "s2")}), Up({Port("p", "s1", 10, 8, 200)}),
        Down("error"),
        Readings("high", "mid", TRUE), Readings("mid", "high", TRUE),
        Readings("low", "mid", FALSE)}
  @@ 2 :> {Up({Port("p", "s1", 10, 10, 200)}),
           Up({Idle("p", "s1"), Port("q", "s2", 0, 0, 100)}),
           Up({[Idle("p", "s1") EXCEPT !.up = FALSE]}), Up({[Idle("p", "s1") EXCEPT !.faults = TRUE]}),
           [Up({Idle("p", NoSubnet)}) EXCEPT !.tcpOnly = {"c"}]}
  @@ 3 :> {Up({Idle("p", "s1")}), Down("offline")}

MCLists == {<<>>, <<1, 2>>, <<3, 2, 1>>}

(* ClusterSummary.  Three nodes, two of which reach one server, and containers of three jobs. *)
ContainerOf(id, node, image, addr, hostIp, port, job) ==
  [id |-> id, node |-> node, image |-> image, masterAddr |-> addr, hostIp |-> hostIp, port |-> port, job |-> job]
MCNodeList == <<[id |-> "n1", cpu |-> 10, temp |-> Null, vram |-> 3], [id |-> "n2", cpu |-> 30, temp |-> 50, vram |-> Null],
                [id |-> "n3", cpu |-> 80, temp |-> 40, vram |-> 5]>>
MCEndpoints == [n \in {"n1", "n2", "n3"} |->
  CASE n = "n1" -> <<[id |-> "n1:1", service |-> "s1"], [id |-> "n1:2", service |-> "s3"]>>
    [] n = "n2" -> <<[id |-> "n2:1", service |-> "s1"], [id |-> "n2:2", service |-> "s2"]>>
    [] OTHER -> <<>>]
MCContainers == {
  ContainerOf("a", "n1", "i", "h1", Null, "p1", "job1"), ContainerOf("b", "n2", "j", "h1", "h2", "p1", "job1"),
  ContainerOf("c", "n2", "i", "h1", Null, "p2", "job2"), ContainerOf("d", "n3", "i", "h1", "h3", "p2", "job2"),
  ContainerOf("e", "n3", "j", Null, "h3", Null, "job3"), ContainerOf("f", "n2", "j", Null, Null, Null, "job3")}
MCLinks == {[id |-> "l1", a |-> "n1", b |-> "n2", up |-> TRUE, rate |-> 20, ab |-> 12, ba |-> 11],
            [id |-> "l2", a |-> "n2", b |-> "n3", up |-> FALSE, rate |-> 20, ab |-> 0, ba |-> 0]}

MCServices == {"s1", "s2", "s3"}
MCCounted == {"s1", "s2"}

(* Exposition.  Two nodes, the first with everything that is exported. *)
Named == INSTANCE Exposition WITH served <- scraped, Snapshots <- {}
Families == UNION {{f[i].name : i \in DOMAIN f} : f \in {Named!NodeFamilies, Named!GpuFamilies, Named!GpuMemory, Named!DiskFamilies,
  Named!PortFamilies, Named!EndpointFamilies, Named!EndpointShares, Named!LatencyFamilies, Named!LinkFamilies, Named!ClusterFamilies}}
  \cup {"node_probe_duration_seconds", "containers", "nodes", "nodes_online"}
AllOf(v) == [f \in Families |-> IF f = "inference_up" THEN 1 ELSE v]
Events == [r \in {"sw_power_cap", "sw_thermal_slowdown", "hw_thermal_slowdown", "hw_power_brake_slowdown"} |-> IF r = "sw_power_cap" THEN Null ELSE 1]
Gpu == [name |-> "GB10", of |-> [AllOf(5) EXCEPT !["gpu_memory_total_bytes"] = Null], events |-> Events]
NodeOf(id, reached, gpu, inference) ==
  [id |-> id, label |-> id, status |-> reached, of |-> AllOf(3), gpu |-> gpu,
   sensors |-> <<[label |-> "unknown", kind |-> "other", temp |-> 40], [label |-> "unknown", kind |-> "other", temp |-> 41]>>,
   disks |-> <<[mount |-> "/", of |-> AllOf(4)], [mount |-> "/data", of |-> AllOf(4)]>>,
   ports |-> <<[netdev |-> "p1", ibdev |-> "i1", of |-> AllOf(6)], [netdev |-> "p2", ibdev |-> Null, of |-> AllOf(6)]>>,
   inference |-> inference]
EndpointOf(port, reachable, basis, of) ==
  [port |-> port, reachable |-> reachable, engine |-> "vllm", model |-> IF of["inference_ttft_seconds"] = Null THEN Null ELSE "m",
   basis |-> basis, of |-> of, positions |-> <<7, 0>>]
Inferences == {<<>>, <<EndpointOf("80", FALSE, Null, AllOf(Null))>>,
  <<EndpointOf("80", TRUE, "window", AllOf(7)), EndpointOf("81", TRUE, "lifetime", AllOf(8))>>,
  <<EndpointOf("81", TRUE, "window", [AllOf(9) EXCEPT !["inference_kv_cache_ratio"] = Null, !["inference_ttft_seconds"] = Null])>>}
SnapshotOf(nodes) == [nodes |-> nodes, of |-> AllOf(1),
  links |-> <<[id |-> "l", a |-> "n1", b |-> "n2", of |-> AllOf(2), rates |-> [d \in {"a_to_b", "b_to_a"} |-> 3]]>>]
MCExported == {SnapshotOf(<<NodeOf("n1", "online", g, i), n>>) : g \in {Null, Gpu}, i \in Inferences,
   n \in {NodeOf("n2", "offline", Null, <<>>), NodeOf("n2", "online", Null, <<>>)}}

(* ContainerControl.  A container of compose and one run by hand. *)
MCContainer == {c1, c2}
MCComposed == {c1}
MCImage == {i1, i2}
MCReq == {r1, r2}

(* UpdateChecks.  A node that runs an image twice beside one that is off, or one with a *)
(* pinned image.                                                                         *)
FleetNode(id, isOnline, images) == [id |-> id, online |-> isOnline, images |-> images]
MCFleet == {<<FleetNode("n1", TRUE, <<"i", "i">>), FleetNode("n2", FALSE, <<"i">>)>>,
            <<FleetNode("n1", TRUE, <<"p">>)>>}
MCUnasked == {"p"}
MCCurrents == {0, 1, Null}

(* ConnectionTest. *)
MCInputs == [host : BOOLEAN, username : BOOLEAN, key : {"none", "readable", "unreadable"}, password : BOOLEAN]
MCHosts == [pretty : {"Ubuntu", Null}, product : {"gx10", "rack"}, name : {"a", "spark"}, gpus : {<<>>, <<"gb10", "gb10">>},
            ports : {<<>>, <<"p0", "p1">>}, docker : {"OK", "DENIED", "MISSING"}]

(* Terminal.  One node, or up to four, in windows from too small to roomy. *)
Engine(id, up) == [id |-> id, reachable |-> up, models |-> TRUE]
OnScreen(id, state, cores, endpoints, docker, distributed) ==
  [id |-> id, status |-> state, cores |-> cores, endpoints |-> endpoints, ports |-> 2, processes |-> Len(endpoints),
   docker |-> docker, containers |-> distributed]
MCScreens ==
  LET a == OnScreen("a", "online", 20, <<Engine("a1", TRUE)>>, TRUE, <<TRUE, FALSE>>)
      b == OnScreen("b", "online", 20, <<Engine("b1", FALSE), Engine("b2", TRUE)>>, TRUE, <<>>)
      c == OnScreen("c", "error", 0, <<>>, TRUE, <<>>)
      d == OnScreen("d", "online", 8, <<>>, FALSE, <<>>)
      of(nodes, linked, jobs, warnings) == [nodes |-> nodes, links |-> linked, jobs |-> jobs, warnings |-> warnings]
  IN {of(<<>>, 0, <<>>, 0), of(<<c>>, 0, <<>>, 1), of(<<a, b>>, 2, <<"j">>, 0), of(<<b, a, c>>, 1, <<>>, 3),
      of(<<a, b, c, d>>, 3, <<"j">>, 7), of(<<d, a, b>>, 0, <<>>, 0)}

MCSizes == {<<80, 8>>, <<80, 12>>, <<60, 20>>, <<80, 24>>, <<80, 40>>, <<120, 30>>, <<120, 45>>, <<140, 60>>}

(* ControlPanel and SetupForm. *)
MCListed == {c1}
MCHost == {h1, h2}
MCSecret == {k1, i1}

\* Requests are interchangeable.
MCSymmetry == Permutations({r1, r2})
================================================================================
