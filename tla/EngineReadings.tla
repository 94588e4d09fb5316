---------------------------- MODULE EngineReadings ----------------------------
(***************************************************************************)
(* What a poll reads of one inference server, of whichever engine, and the *)
(* shares it derives from two of its scrapes                               *)
(* (packages/core/src/inference.ts, node.ts:660-919).  A scrape is a        *)
(* sequence of samples, cut at a byte limit; a server restarts, and dies.   *)
(* InferenceRates keeps the windows; here `base` is their oldest scrape.    *)
(***************************************************************************)
EXTENDS Integers, Sequences, SequencesExt, FiniteSets, FiniteSetsExt

CONSTANTS
  Undefined, \* what a scrape does not have
  Servers,   \* the servers polled: [kind, id, old, models, percent, usage]
  MaxDone,   \* bound on requests served by one process
  MaxPolls,  \* bound on polls: the two compared
  MaxFaults  \* bound on restarts and on scrapes that are cut, together

VARIABLES
  server,   \* one of Servers
  count,    \* its counters: requests, of them hits, and tokens accepted at each position
  up,       \* whether it answers
  base,     \* the oldest scrape of the window, Undefined if there is no other
  now,      \* the last scrape, Undefined before the first
  shown,    \* what the poll reported
  polls, cuts, deaths

vars == <<server, count, up, base, now, shown, polls, cuts, deaths>>

-----------------------------------------------------------------------------
Additive == {"running", "waiting", "prompt", "gen", "finished", "cached", "accepted", "drafted", "drafts",
             "mmHits", "mmQueries", "pcHits", "pcQueries", "flops", "readBytes", "writeBytes"}
Latencies == {"ttft", "interToken", "e2e", "queue", "prefill", "decode"}

\* The names of each quantity, the newest first; an engine lacks what it has no name for.
ENGINE_SPECS == <<
  [id |-> "vllm", names |-> [
    running |-> <<"vllm:num_requests_running">>, waiting |-> <<"vllm:num_requests_waiting">>,
    prompt |-> <<"vllm:prompt_tokens_total">>, gen |-> <<"vllm:generation_tokens_total">>,
    finished |-> <<"vllm:request_success_total">>,
    kvCache |-> <<"vllm:kv_cache_usage_perc", "vllm:gpu_cache_usage_perc">>,
    ttft |-> <<"vllm:time_to_first_token_seconds">>,
    interToken |-> <<"vllm:inter_token_latency_seconds", "vllm:time_per_output_token_seconds">>,
    e2e |-> <<"vllm:e2e_request_latency_seconds">>, queue |-> <<"vllm:request_queue_time_seconds">>,
    prefill |-> <<"vllm:request_prefill_time_seconds">>, decode |-> <<"vllm:request_decode_time_seconds">>,
    cached |-> <<"vllm:prompt_tokens_cached_total">>,
    accepted |-> <<"vllm:spec_decode_num_accepted_tokens_total">>,
    drafted |-> <<"vllm:spec_decode_num_draft_tokens_total">>, drafts |-> <<"vllm:spec_decode_num_drafts_total">>,
    perPos |-> <<"vllm:spec_decode_num_accepted_tokens_per_pos_total">>,
    mmHits |-> <<"vllm:mm_cache_hits_total">>, mmQueries |-> <<"vllm:mm_cache_queries_total">>,
    pcHits |-> <<"vllm:prefix_cache_hits_total">>, pcQueries |-> <<"vllm:prefix_cache_queries_total">>,
    flops |-> <<"vllm:estimated_flops_per_gpu_total">>,
    readBytes |-> <<"vllm:estimated_read_bytes_per_gpu_total">>,
    writeBytes |-> <<"vllm:estimated_write_bytes_per_gpu_total">>]],
  [id |-> "sglang", names |-> [
    running |-> <<"sglang:num_running_reqs">>, waiting |-> <<"sglang:num_queue_reqs">>,
    prompt |-> <<"sglang:prompt_tokens_total">>, gen |-> <<"sglang:generation_tokens_total">>,
    finished |-> <<"sglang:num_requests_total">>, kvCache |-> <<"sglang:token_usage">>,
    ttft |-> <<"sglang:time_to_first_token_seconds">>,
    interToken |-> <<"sglang:inter_token_latency_seconds", "sglang:time_per_output_token_seconds">>,
    e2e |-> <<"sglang:e2e_request_latency_seconds">>, queue |-> <<"sglang:queue_time_seconds">>,
    cached |-> <<"sglang:cached_tokens_total">>, accepted |-> <<"sglang:spec_accept_length">>]],
  [id |-> "llamacpp", names |-> [
    running |-> <<"llamacpp:requests_processing">>, waiting |-> <<"llamacpp:requests_deferred">>,
    prompt |-> <<"llamacpp:prompt_tokens_total">>, gen |-> <<"llamacpp:tokens_predicted_total">>,
    kvCache |-> <<"llamacpp:kv_cache_usage_ratio">>]],
  [id |-> "tgi", names |-> [
    running |-> <<"tgi_batch_current_size">>, waiting |-> <<"tgi_queue_size">>,
    prompt |-> <<"tgi_request_input_length_sum">>, gen |-> <<"tgi_request_generated_tokens_sum">>,
    finished |-> <<"tgi_request_success">>, interToken |-> <<"tgi_request_mean_time_per_token_duration">>,
    e2e |-> <<"tgi_request_duration">>, queue |-> <<"tgi_request_queue_duration">>,
    prefill |-> <<"tgi_request_inference_duration">>]],
  [id |-> "triton", names |-> [
    running |-> <<"nv_inference_pending_request_count">>, finished |-> <<"nv_inference_request_success">>,
    kvCache |-> <<"nv_trt_llm_kv_cache_block_metrics">>, e2e |-> <<"nv_inference_request_duration_us">>,
    queue |-> <<"nv_inference_queue_duration_us">>]] >>

Names(spec, slot) == IF slot \in DOMAIN spec.names THEN spec.names[slot] ELSE <<>>

-----------------------------------------------------------------------------
Elements(seq) == {seq[i] : i \in DOMAIN seq}

\* What the server knows.  The second model it serves, if any, served one request whole.
SpecOf(id) == ENGINE_SPECS[CHOOSE i \in DOMAIN ENGINE_SPECS : ENGINE_SPECS[i].id = id]
Zero == [done |-> 0, hits |-> 0, pos |-> <<0, 0>>]
Other == [done |-> 1, hits |-> 1, pos |-> <<1, 1>>]
Quantity(slot, c) ==
  CASE slot \in {"prompt", "mmQueries"} -> 2 * c.done
    [] slot \in {"cached", "mmHits"} -> 2 * c.hits
    [] slot = "pcHits" -> c.hits
    [] slot = "accepted" -> c.pos[1] + c.pos[2]
    [] slot = "drafted" -> 2 * c.done
    [] slot = "gen" -> c.done + c.pos[1] + c.pos[2]
    [] slot \in {"running", "waiting"} -> 1
    [] OTHER -> c.done

\* The engine that the prefix of a name tells: all of an engine's names have its, but one of Triton's.
ToldBy(name) == IF name = "nv_trt_llm_kv_cache_block_metrics" THEN Undefined ELSE server.id
Sample(name, suffix, model, position, value) ==
  [engine |-> ToldBy(name), name |-> name, suffix |-> suffix, model |-> model, position |-> position, value |-> value]

\* The samples of a quantity of one model: under the newest name, or the oldest, or both.
Exposed(slot) ==
  LET names == Names(SpecOf(server.id), slot)
  IN IF names = <<>> THEN <<>> ELSE IF server.old THEN <<Last(names)>> ELSE names
SamplesOf(slot, model, c) ==
  FlattenSeq([i \in DOMAIN Exposed(slot) |->
    LET n == Exposed(slot)[i]
    IN IF slot \in Latencies
         THEN <<Sample(n, "sum", model, Undefined, 3 * c.done), Sample(n, "count", model, Undefined, c.done)>>
       ELSE IF slot = "perPos" THEN [p \in 1..2 |-> Sample(n, "", model, p, c.pos[p])]
       ELSE IF slot = "kvCache" THEN <<Sample(n, "", model, Undefined, IF server.percent THEN 100 * server.usage ELSE server.usage)>>
       ELSE <<Sample(n, "", model, Undefined, Quantity(slot, c))>>])
SlotOrder == FoldSet(LAMBDA slot, order : Append(order, slot), <<>>, Additive \cup Latencies \cup {"kvCache", "perPos"})
\* What the script lets through, by the prefixes of the names (probe.ts:224).
Body ==
  LET models == server.models
      c(i) == IF i = 1 THEN count ELSE Other
      exposed == FlattenSeq([k \in DOMAIN SlotOrder |->
                   FlattenSeq([i \in DOMAIN models |-> SamplesOf(SlotOrder[k], models[i], c(i))])])
  IN SelectSeq(exposed, LAMBDA s : s.engine # Undefined)

\* The first k samples, the last of them cut: without a value, or with the first of its digits.
Cut(body, k, half) ==
  [i \in 1..k |-> IF i < k THEN body[i] ELSE [body[i] EXCEPT !.value = IF half THEN @ \div 2 ELSE 0]]

-----------------------------------------------------------------------------
\* detectEngine(): the first of the table that has a sample, told by the prefix of its name.
DetectEngine(samples) ==
  LET ids == {i \in DOMAIN ENGINE_SPECS : \E k \in DOMAIN samples : samples[k].engine = ENGINE_SPECS[i].id}
  IN IF ids = {} THEN Undefined ELSE ENGINE_SPECS[Min(ids)]

Under(samples, name, suffix) == SelectSeq(samples, LAMBDA s : s.name = name /\ s.suffix = suffix)
Total(samples) == FoldSeq(LAMBDA s, t : s.value + t, 0, samples)

\* The samples of the first name that has some.
FirstOf(samples, names) ==
  LET there == {i \in DOMAIN names : Under(samples, names[i], "") # <<>>}
  IN IF there = {} THEN <<>> ELSE Under(samples, names[Min(there)], "")

\* sumMetric(), maxMetric() and sumMetricByLabel().
SumMetric(samples, names) ==
  LET its == FirstOf(samples, names) IN IF its = <<>> THEN Undefined ELSE Total(its)
MaxMetric(samples, names) ==
  LET its == FirstOf(samples, names)
  IN IF its = <<>> THEN Undefined ELSE Max({its[i].value : i \in DOMAIN its})
SumMetricByLabel(samples, names) ==
  LET its == SelectSeq(samples, LAMBDA s : Contains(names, s.name) /\ s.position # Undefined)
      positions == {its[i].position : i \in DOMAIN its}
  IN IF its = <<>> THEN Undefined
     ELSE [p \in positions |-> Total(SelectSeq(its, LAMBDA s : s.position = p))]

\* Mutant: the histogram under its old name is added to the one under its new name.
ReadHistogram_All(samples, names) ==
  LET of(suffix) == FlattenSeq([i \in DOMAIN names |-> Under(samples, names[i], suffix)])
  IN IF of("count") = <<>> THEN Undefined ELSE [sum |-> Total(of("sum")), count |-> Total(of("count"))]

\* readHistogram(): of the first name that has both.
ReadHistogram(samples, names) ==
  LET both == {i \in DOMAIN names : <<>> \notin {Under(samples, names[i], "sum"), Under(samples, names[i], "count")}}
  IN IF both = {} THEN Undefined
     ELSE LET n == names[Min(both)]
          IN [sum |-> Total(Under(samples, n, "sum")), count |-> Total(Under(samples, n, "count"))]

ModelsFromSamples(samples) == {samples[i].model : i \in DOMAIN samples} \ {Undefined}

\* In thousandths of a percent: a ratio, or a percentage where it exceeds one.
KvCachePct(kv) == IF kv = Undefined THEN Undefined ELSE IF kv <= 1000 THEN 100 * kv ELSE kv

\* readMetrics(), nothing where no engine is told.
ReadMetrics(samples) ==
  LET spec == DetectEngine(samples)
  IN IF spec = Undefined THEN Undefined
     ELSE [engine |-> spec.id, models |-> ModelsFromSamples(samples),
           kv |-> KvCachePct(MaxMetric(samples, Names(spec, "kvCache"))),
           perPos |-> SumMetricByLabel(samples, Names(spec, "perPos")),
           latency |-> [k \in Latencies |-> ReadHistogram(samples, Names(spec, k))],
           total |-> [s \in Additive |-> SumMetric(samples, Names(spec, s))]]

\* readOllama() and readOpenAiModels(), of a document that parses or does not: the former then
\* reads nothing, the latter no models.
Listed(id, models) ==
  [engine |-> id, models |-> models, kv |-> Undefined, perPos |-> Undefined,
   latency |-> [k \in Latencies |-> Undefined], total |-> [s \in Additive |-> Undefined]]

ReadOllama(parses, models) == IF parses THEN Listed("ollama", models) ELSE Undefined
ReadOpenAi(parses, models) == Listed("openai", IF parses THEN models ELSE {})

-----------------------------------------------------------------------------
\* A ratio is a pair: over the window, or of the totals.
CounterIntervalRatio(baseNum, baseDen, nowNum, nowDen) ==
  IF Undefined \in {nowNum, nowDen} THEN Undefined
  ELSE LET total == IF nowDen > 0 THEN <<nowNum, nowDen>> ELSE Undefined
       IN IF Undefined \in {baseNum, baseDen} THEN total
          ELSE IF nowNum >= baseNum /\ nowDen > baseDen THEN <<nowNum - baseNum, nowDen - baseDen>> ELSE total

\* Mutant: of a position, what was drafted is the denominator.
SpecPosAccept_Drafted(before, after) ==
  IF before = Undefined THEN Undefined
  ELSE IF before.perPos = Undefined \/ after.perPos = Undefined \/ after.total["drafted"] = Undefined THEN Undefined
  ELSE LET steps == after.total["drafted"] - (IF before.total["drafted"] = Undefined THEN 0 ELSE before.total["drafted"])
       IN IF steps <= 0 THEN Undefined
          ELSE [p \in DOMAIN after.perPos |->
                 LET delta == after.perPos[p] - (IF p \in DOMAIN before.perPos THEN before.perPos[p] ELSE 0)
                 IN IF delta < 0 THEN Undefined ELSE <<delta, steps>>]

\* specPosAcceptInterval(): of each position, what was accepted by the steps of the window.
SpecPosAccept(before, after) ==
  IF before = Undefined THEN Undefined
  ELSE IF before.perPos = Undefined \/ after.perPos = Undefined \/ after.total["drafts"] = Undefined THEN Undefined
  ELSE LET steps == after.total["drafts"] - (IF before.total["drafts"] = Undefined THEN 0 ELSE before.total["drafts"])
       IN IF steps <= 0 THEN Undefined
          ELSE [p \in DOMAIN after.perPos |->
                 LET delta == after.perPos[p] - (IF p \in DOMAIN before.perPos THEN before.perPos[p] ELSE 0)
                 IN IF delta < 0 THEN Undefined ELSE <<delta, steps>>]

RatioPairs == {<<"accepted", "drafted">>, <<"accepted", "drafts">>, <<"cached", "prompt">>,
               <<"mmHits", "mmQueries">>, <<"pcHits", "pcQueries">>}

\* buildInference(), but for rates and latency, which are InferenceRates'.
Shown(before, after, discovered) ==
  LET was(s) == IF before = Undefined THEN Undefined ELSE before.total[s]
  IN [reachable |-> TRUE, engine |-> after.engine,
      models |-> IF after.models # {} THEN after.models ELSE discovered,
      ratio |-> [p \in RatioPairs |->
                  CounterIntervalRatio(was(p[1]), was(p[2]), after.total[p[1]], after.total[p[2]])],
      perPos |-> SpecPosAccept(before, after)]

\* emptyEndpoint().
EmptyEndpoint ==
  [reachable |-> FALSE, engine |-> "unknown", models |-> {}, perPos |-> Undefined,
   ratio |-> [p \in RatioPairs |-> Undefined]]

-----------------------------------------------------------------------------
Init ==
  /\ server \in Servers /\ count = Zero /\ up = TRUE
  /\ base = Undefined /\ now = Undefined /\ polls = 0 /\ cuts = 0 /\ deaths = 0
  /\ shown = EmptyEndpoint @@ [answered |-> FALSE]

\* A request is served: a hit or a miss, its draft accepted as far as k.
Serve ==
  /\ polls < MaxPolls /\ up /\ server.kind = "metrics" /\ count.done < MaxDone
  /\ \E hit \in 0..1, k \in 0..2 :
       count' = [done |-> count.done + 1, hits |-> count.hits + hit,
                 pos |-> [p \in 1..2 |-> count.pos[p] + (IF k >= p THEN 1 ELSE 0)]]
  /\ UNCHANGED <<server, up, base, now, shown, polls, cuts, deaths>>

Die ==
  /\ polls < MaxPolls /\ up /\ cuts + deaths < MaxFaults
  /\ up' = FALSE /\ count' = Zero /\ deaths' = deaths + 1
  /\ UNCHANGED <<server, base, now, shown, polls, cuts>>

Restart == ~up /\ up' = TRUE /\ UNCHANGED <<server, count, base, now, shown, polls, cuts, deaths>>

\* What a poll makes of a reading: of its windows what is older than their span is gone.
Take(reading, whole) ==
  IF reading = Undefined THEN shown' = EmptyEndpoint @@ [answered |-> up /\ whole] /\ UNCHANGED <<base, now>>
  ELSE LET entry == [total |-> [s \in UNION {{p[1], p[2]} : p \in RatioPairs} |-> reading.total[s]],
                     perPos |-> reading.perPos, whole |-> whole, deaths |-> deaths]
       IN /\ now' = entry
          /\ base' \in {base, now, Undefined}
          /\ shown' = Shown(base', reading, server.discovered) @@ [answered |-> up /\ whole]

\* What a poll may read: of the whole answer, of one cut at the byte limit, of none.
Whole ==
  CASE server.kind = "metrics" -> ReadMetrics(Body)
    [] server.kind = "ollama" -> ReadOllama(TRUE, Elements(server.models))
    [] OTHER -> ReadOpenAi(TRUE, Elements(server.models))
Partial ==
  CASE server.kind = "metrics" ->
         LET body == Body IN {ReadMetrics(Cut(body, k, half)) : k \in 1..Len(body), half \in BOOLEAN}
    [] server.kind = "ollama" -> {ReadOllama(FALSE, {})}
    [] OTHER -> {ReadOpenAi(FALSE, {})}
Nothing ==
  CASE server.kind = "metrics" -> ReadMetrics(<<>>)
    [] server.kind = "ollama" -> ReadOllama(FALSE, {})
    [] OTHER -> ReadOpenAi(FALSE, {})

Scrape ==
  /\ polls < MaxPolls /\ polls' = polls + 1
  /\ \/ up /\ cuts' = cuts /\ \E reading \in {Whole} : Take(reading, TRUE)
     \/ up /\ cuts + deaths < MaxFaults /\ cuts' = cuts + 1 /\ \E reading \in Partial : Take(reading, FALSE)
     \/ ~up /\ cuts' = cuts /\ Take(Nothing, TRUE)
  /\ UNCHANGED <<server, count, up, deaths>>

Next == Serve \/ Die \/ Restart \/ Scrape

-----------------------------------------------------------------------------
\* Whatever its engine and release, a whole scrape reads each quantity the engine has a name
\* for, once, over all the models it serves: also where it goes by two names.  A percentage
\* below one is taken for a ratio (inference.ts:569), and Triton's KV cache, whose name has
\* another prefix than the script lets through (probe.ts:224, inference.ts:241), is never read.
ReadsEngine ==
  up /\ server.kind = "metrics" /\ polls = 0 =>
    LET r == ReadMetrics(Body)
        truth(slot) == Quantity(slot, count) + (IF Len(server.models) > 1 THEN Quantity(slot, Other) ELSE 0)
        has(slot) == Names(SpecOf(server.id), slot) # <<>>
    IN /\ r.engine = server.id /\ r.models = Elements(server.models) \ {Undefined}
       /\ \A s \in Additive : r.total[s] = IF has(s) THEN truth(s) ELSE Undefined
       /\ \A k \in Latencies : has(k) => r.latency[k] = [sum |-> 3 * truth(k), count |-> truth(k)]
       /\ server.id = "triton" => r.kv = Undefined
       /\ has("kvCache") /\ server.id # "triton" /\ ~(server.percent /\ server.usage <= 10) =>
            r.kv = 100 * server.usage
       /\ has("perPos") => r.perPos[1] + r.perPos[2] = truth("accepted")

\* A share is of what happened since the window's oldest scrape, or ever: never above one, known
\* once there was anything to share, and the figures of one poll agree.  A server that restarts
\* within the window and passes its old totals, and a scrape cut in a number, are not noticed.
SharesHonest ==
  LET steady == now # Undefined /\ now.whole /\ shown.reachable
                /\ (base # Undefined => base.whole /\ base.deaths = now.deaths)
      r == shown.ratio
      both == r[<<"accepted", "drafts">>]
  IN /\ steady => \A p \in RatioPairs :
          /\ r[p] # Undefined => r[p][1] \in 0..(IF p[2] = "drafts" THEN 2 ELSE 1) * r[p][2]
          /\ Undefined \notin {now.total[p[1]], now.total[p[2]]} => (r[p] = Undefined <=> now.total[p[2]] = 0)
     /\ steady /\ shown.perPos # Undefined =>
          /\ both = <<shown.perPos[1][1] + shown.perPos[2][1], shown.perPos[1][2]>>
          /\ shown.perPos[2][1] <= shown.perPos[1][1] /\ shown.perPos[1][1] <= shown.perPos[1][2]

\* A server that answers is shown, with its models, and one that does not is shown as
\* unreachable, but for a server of the OpenAI interface only.
AnswerSeen ==
  /\ shown.answered => shown.reachable /\ shown.models = IF Elements(server.models) = {Undefined} THEN server.discovered ELSE Elements(server.models)
  /\ now # Undefined /\ ~shown.answered /\ shown.reachable => server.kind = "openai" \/ ~now.whole

\* Of any server, the same: "report it as present and unreachable rather than dropping it, so a
\* crashed server is visible" (node.ts:683).
CrashedIsVisible == now # Undefined /\ now.whole /\ ~shown.answered => ~shown.reachable
===============================================================================
