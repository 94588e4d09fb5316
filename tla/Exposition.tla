------------------------------- MODULE Exposition -------------------------------
(***************************************************************************)
(* The Prometheus exposition of a cluster snapshot                         *)
(* (packages/core/src/prometheus.ts) and its cache in the server           *)
(* (packages/server/src/index.ts:312-321).  A reading is a number, or Null  *)
(* where there is none; units and escapes are left out.                    *)
(***************************************************************************)
EXTENDS Integers, Sequences, SequencesExt, FiniteSets

CONSTANTS
  Null,
  Snapshots, \* the snapshots of the cluster there may be, but for their time
  MaxTs      \* bound on the time of snapshots

VARIABLES
  snap,   \* state.snapshot, with its ts
  cache,  \* metricsCache: [ts, body], Null at first
  served  \* what the last scrape was answered, and the snapshot there was

vars == <<snap, cache, served>>

-----------------------------------------------------------------------------
Gauge(names) == [i \in DOMAIN names |-> [name |-> names[i], type |-> "gauge"]]
Counter(names) == [i \in DOMAIN names |-> [name |-> names[i], type |-> "counter"]]

NodeFamilies == Gauge(<<"node_uptime_seconds", "cpu_usage_ratio", "cpu_cores", "load1",
                        "memory_total_bytes", "memory_used_bytes">>)
GpuFamilies == Gauge(<<"gpu_utilization_ratio", "gpu_temperature_celsius", "gpu_power_watts",
                       "gpu_sm_clock_hertz", "gpu_sm_clock_max_hertz", "gpu_throttle_reasons">>)
GpuMemory == Gauge(<<"gpu_memory_total_bytes", "gpu_memory_used_bytes">>)
ClockEvents == <<"sw_power_cap", "sw_thermal_slowdown", "hw_thermal_slowdown", "hw_power_brake_slowdown">>
DiskFamilies == Gauge(<<"disk_total_bytes", "disk_used_bytes">>)
PortFamilies == Gauge(<<"fabric_port_up", "fabric_port_rate_bits_per_second">>)
                \o Counter(<<"fabric_rdma_received_bytes_total", "fabric_rdma_transmitted_bytes_total">>)
EndpointFamilies ==
  Gauge(<<"inference_up", "inference_requests_running", "inference_requests_waiting">>)
  \o Counter(<<"inference_requests_total", "inference_prompt_tokens_total",
               "inference_generation_tokens_total", "inference_cached_prompt_tokens_total">>)
  \o Gauge(<<"inference_decode_tokens_per_second", "inference_prefill_tokens_per_second",
             "inference_prefill_computed_tokens_per_second", "inference_kv_cache_ratio",
             "inference_prefix_cache_hit_ratio", "inference_spec_acceptance_ratio",
             "inference_spec_mean_accepted_length">>)
EndpointShares ==
  Gauge(<<"inference_prefix_cache_requests_hit_ratio", "inference_multimodal_cache_hit_ratio",
          "inference_estimated_flops_per_second", "inference_estimated_memory_read_bytes_per_second",
          "inference_estimated_memory_write_bytes_per_second">>)
LatencyFamilies == Gauge(<<"inference_ttft_seconds", "inference_inter_token_latency_seconds",
                           "inference_e2e_latency_seconds", "inference_queue_latency_seconds">>)
LinkFamilies == Gauge(<<"fabric_link_up", "fabric_link_confirmed", "fabric_link_rate_bits_per_second">>)
ClusterFamilies ==
  Gauge(<<"cluster_output_tokens_per_second", "cluster_input_tokens_per_second",
          "cluster_input_computed_tokens_per_second", "cluster_requests_running", "cluster_requests_waiting",
          "fabric_capacity_bits_per_second", "fabric_traffic_bits_per_second">>)

\* A call of metric(); labels are pairs, those without a value left out.
Call(family, labels, value) ==
  [name |-> family.name, type |-> family.type, value |-> value,
   labels |-> SelectSeq(labels, LAMBDA p : p[2] # Null)]
Calls(families, labels, of) == [i \in DOMAIN families |-> Call(families[i], labels, of[families[i].name])]
Each(seq, Of(_)) == FlattenSeq([i \in DOMAIN seq |-> Of(seq[i])])

-----------------------------------------------------------------------------
NodeLabels(n) == <<<<"node", n.id>>, <<"instance", n.label>>>>

GpuMetrics(n) ==
  LET gl == Append(NodeLabels(n), <<"gpu", n.gpu.name>>)
      event(r) == Call(Counter(<<"gpu_clock_event_counters">>)[1], Append(gl, <<"reason", r>>), n.gpu.events[r])
  IN Calls(GpuFamilies, gl, n.gpu.of)
     \o (IF n.gpu.events = Null THEN <<>> ELSE [i \in DOMAIN ClockEvents |-> event(ClockEvents[i])])
     \o Calls(GpuMemory, gl, n.gpu.of)

\* nodeMetrics(): of a node that does not answer, only that.
NodeMetrics(n) ==
  LET l == NodeLabels(n)
      up == Call(Gauge(<<"node_up">>)[1], l, IF n.status = "online" THEN 1 ELSE 0)
      probe == Call(Gauge(<<"node_probe_duration_seconds">>)[1], l, n.of["node_probe_duration_seconds"])
      sensor(s) == <<Call(Gauge(<<"temperature_celsius">>)[1], l \o <<<<"sensor", s.label>>, <<"kind", s.kind>>>>, s.temp)>>
      disk(d) == Calls(DiskFamilies, Append(l, <<"mount", d.mount>>), d.of)
      port(p) == Calls(PortFamilies, l \o <<<<"port", p.netdev>>, <<"ibdev", p.ibdev>>>>, p.of)
  IN IF n.status # "online" THEN <<up, probe>>
     ELSE <<up, probe>> \o Calls(NodeFamilies, l, n.of)
          \o (IF n.gpu = Null THEN <<>> ELSE GpuMetrics(n))
          \o Each(n.sensors, sensor) \o Each(n.disks, disk) \o Each(n.ports, port)
          \o Calls(Gauge(<<"containers">>), l, n.of)

\* inferenceMetrics(): the first model only, the positions of a draft, latency of the window.
InferenceMetrics(n, ep) ==
  LET l == NodeLabels(n) \o <<<<"port", ep.port>>, <<"engine", ep.engine>>, <<"model", ep.model>>>>
      position(i) == Call(Gauge(<<"inference_spec_accept_by_position_ratio">>)[1], Append(l, <<"position", i>>), ep.positions[i])
  IN IF ~ep.reachable THEN <<Call(Gauge(<<"inference_up">>)[1], Append(NodeLabels(n), <<"port", ep.port>>), 0)>>
     ELSE Calls(EndpointFamilies, l, ep.of)
          \o [i \in DOMAIN ep.positions |-> position(i)]
          \o Calls(EndpointShares, l, ep.of)
          \o (IF ep.basis = "window" THEN Calls(LatencyFamilies, l, ep.of) ELSE <<>>)

LinkMetrics(link) ==
  LET ll == <<<<"link", link.id>>, <<"a", link.a>>, <<"b", link.b>>>>
      throughput(d) == Call(Gauge(<<"fabric_link_throughput_bits_per_second">>)[1], Append(ll, <<"direction", d>>), link.rates[d])
  IN Calls(LinkFamilies, ll, link.of) \o <<throughput("a_to_b"), throughput("b_to_a")>>

AllCalls(s) ==
  Calls(Gauge(<<"nodes", "nodes_online">>), <<>>, s.of)
  \o <<Call(Gauge(<<"snapshot_timestamp_seconds">>)[1], <<>>, s.ts)>>
  \o Each(s.nodes, NodeMetrics)
  \o Each(s.nodes, LAMBDA n : Each(n.inference, LAMBDA ep : InferenceMetrics(n, ep)))
  \o Each(s.links, LinkMetrics)
  \o Calls(ClusterFamilies, <<>>, s.of)

\* A family is declared where its first reading is.
Declares(calls, i) == \A k \in 1..(i - 1) : calls[k].name # calls[i].name

\* metric(), one after the other, and toString().
RenderPrometheus(s) ==
  LET calls == SelectSeq(AllCalls(s), LAMBDA c : c.value # Null)
      head(c) == <<[line |-> "HELP", name |-> c.name], [line |-> "TYPE", name |-> c.name, type |-> c.type]>>
      sample(c) == <<[line |-> "sample", name |-> c.name, labels |-> c.labels, value |-> c.value]>>
  IN FlattenSeq([i \in DOMAIN calls |->
       (IF Declares(calls, i) THEN head(calls[i]) ELSE <<>>) \o sample(calls[i])])

-----------------------------------------------------------------------------
Init ==
  /\ snap \in {s @@ [ts |-> 0] : s \in Snapshots}
  /\ cache = Null /\ served = Null

\* The monitor builds another snapshot, at a later time.
Build ==
  /\ snap.ts < MaxTs
  /\ snap' \in {s @@ [ts |-> snap.ts + 1] : s \in Snapshots}
  /\ UNCHANGED <<cache, served>>

\* Mutant: the body is rendered once.
Fresh_Once(c, s) == c # Null

\* The cached body is of this snapshot.
Fresh(c, s) == c # Null /\ c.ts = s.ts

\* GET /metrics, once there is a snapshot.
Scrape ==
  /\ cache' = IF Fresh(cache, snap) THEN cache ELSE [ts |-> snap.ts, body |-> RenderPrometheus(snap)]
  /\ served' = [body |-> cache'.body, of |-> snap]
  /\ UNCHANGED snap

Next == Build \/ Scrape

-----------------------------------------------------------------------------
Samples(body) == SelectSeq(body, LAMBDA l : l.line = "sample")

\* A body that Prometheus takes whole: each family declared once, before its first sample and
\* with the type of all its samples, and no series twice.  Sensors of one node with one label
\* are one series (two chips without a name).
WellFormed(body) ==
  /\ \A i, k \in DOMAIN body :
       /\ i # k /\ body[i].name = body[k].name => ~(body[i].line = body[k].line /\ body[i].line # "sample")
       /\ i < k /\ body[i].name = body[k].name => body[k].line # "HELP"
  /\ \A k \in DOMAIN body : body[k].line = "sample" =>
       \E i \in 1..(k - 1) : body[i].line = "TYPE" /\ body[i].name = body[k].name
  /\ LET s == Samples(body)
     IN \A i, k \in DOMAIN s : i < k /\ s[i].name = s[k].name /\ s[i].labels = s[k].labels => s[i].name = "temperature_celsius"

Value(body, name, labels) ==
  {Samples(body)[i].value : i \in {i \in DOMAIN Samples(body) :
     Samples(body)[i].name = name /\ \A p \in labels : Contains(Samples(body)[i].labels, p)}}

\* A scrape says what the last snapshot says: a reading that is missing is absent and not zero,
\* a node that does not answer is down and has no reading, and a mean latency is of the window.
ScrapeHonest ==
  served # Null =>
    LET b == served.body
        of(n) == {<<"node", n.id>>}
    IN /\ WellFormed(b)
       /\ Value(b, "snapshot_timestamp_seconds", {}) = {served.of.ts}
       /\ \A i \in DOMAIN served.of.nodes :
            LET n == served.of.nodes[i]
            IN /\ Value(b, "node_up", of(n)) = {IF n.status = "online" THEN 1 ELSE 0}
               /\ n.status # "online" => \A f \in {"cpu_usage_ratio", "temperature_celsius", "disk_used_bytes", "containers",
                                                   "inference_up", "gpu_utilization_ratio"} : Value(b, f, of(n)) = {}
               /\ \A k \in DOMAIN n.inference :
                    LET ep == n.inference[k]
                        at == {<<"node", n.id>>, <<"port", ep.port>>}
                    IN /\ Value(b, "inference_up", at) = {IF ep.reachable THEN 1 ELSE 0}
                       /\ \A f \in {"inference_kv_cache_ratio", "inference_ttft_seconds"} :
                            Value(b, f, at) = IF ~ep.reachable \/ ep.of[f] = Null
                                                 \/ (f = "inference_ttft_seconds" /\ ep.basis # "window")
                                              THEN {} ELSE {ep.of[f]}
===============================================================================
