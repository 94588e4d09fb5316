------------------------------ MODULE MCReadings ------------------------------
(***************************************************************************)
(* What the polls read, side by side: the output of the probe scripts, and *)
(* the scrapes of an inference server.  A behaviour is of one of them.     *)
(***************************************************************************)
EXTENDS Integers, Sequences, FiniteSets, TLC

CONSTANTS Null, Marker, Part, Undefined, Parked

VARIABLES
  part, \* the part that moves
  \* ProbeOutput
  node, tier, arrived, torn,
  \* EngineReadings
  server, count, up, base, now, shown, polls, cuts, deaths

Elements(seq) == {seq[i] : i \in DOMAIN seq}

\* What the texts of the firmwares below include, in lower case.
Texts ==
  ("DGX Spark" :> {"dgx spark", "dgx"}) @@ ("NVIDIA" :> {"nvidia"}) @@
  ("GX10" :> {"gx10"}) @@ ("ASUSTeK" :> {"asus", "asustek"}) @@ ("5.36_GX10DGX" :> {"gx10", "dgx"}) @@
  ("Pro Max GB10" :> {"pro max", "gb10"}) @@ ("Dell Inc." :> {"dell"}) @@
  ("ZGX Nano G1n" :> {"zgx", "nano g1n"}) @@ ("HP Inc." :> {"hp"}) @@
  ("ThinkStation PGX" :> {"thinkstation", "pgx"}) @@ ("LENOVO" :> {"lenovo"}) @@
  ("MS-C931" :> {"ms-c931"}) @@ ("Micro-Star" :> {"micro-star"}) @@
  ("AI TOP ATOM" :> {"ai top atom", "atom"}) @@ ("GIGABYTE" :> {"gigabyte"}) @@
  ("Veriton GN100" :> {"veriton", "gn100"}) @@ ("Acer Inc." :> {"acer"})
MCIncludes(text, pattern) == text \in DOMAIN Texts /\ pattern \in Texts[text]

By(maker, vendor, product) == [maker |-> maker, vendor |-> vendor, product |-> product]
Firmwares == {
  By("nvidia", "NVIDIA", "DGX Spark"), By("asus", "ASUSTeK", "GX10"), By("dell", "Dell Inc.", "Pro Max GB10"),
  By("hp", "HP Inc.", "ZGX Nano G1n"), By("lenovo", "LENOVO", "ThinkStation PGX"), By("msi", "Micro-Star", "MS-C931"),
  By("gigabyte", "GIGABYTE", "AI TOP ATOM"), By("acer", "Acer Inc.", "Veriton GN100")}

O == INSTANCE ProbeOutput WITH Includes <- MCIncludes

\* A node that has everything, two of most things.
Temp(name, milli, label, crit) == [temp |-> name, milli |-> milli, label |-> label, crit |-> crit]
Spark == [
  uptime |-> 70, load |-> 10, running |-> 20,
  cores |-> <<[label |-> "cpu0", busy |-> 20, idle |-> 30, khz |-> 40],
              [label |-> "cpu1", busy |-> 25, idle |-> 35, khz |-> 30]>>,
  memory |-> [k \in Elements(O!MemoryKeys) |-> IF k \in {"MemTotal", "SwapTotal"} THEN 90 ELSE 30],
  gpu |-> [row |-> <<"GB10", 50, 60, Null, Null, 70, "idle">>, clock |-> <<12, Null>>],
  processes |-> <<[pid |-> 51, name |-> "python", mem |-> 30, graphics |-> FALSE, alive |-> TRUE,
                   user |-> "u1", rss |-> 14, container |-> <<"a", "1", "x">>],
                  [pid |-> 52, name |-> "python", mem |-> 20, graphics |-> FALSE, alive |-> TRUE,
                   user |-> "u2", rss |-> 15, container |-> Null],
                  [pid |-> 53, name |-> "Xorg", mem |-> 18, graphics |-> TRUE, alive |-> TRUE,
                   user |-> "u1", rss |-> 16, container |-> Null]>>,
  chips |-> <<[hw |-> 1, name |-> "mlx5", temps |-> <<Temp("t1", 41, "asic", 95), Temp("t2", 42, Null, 95)>>],
              [hw |-> 2, name |-> "mlx5", temps |-> <<Temp("t1", 43, "asic", Null)>>]>>,
  interfaces |-> <<[name |-> "n1", rx |-> 30, tx |-> 31, speed |-> 20, carrier |-> 1, addresses |-> <<"x1", "x2">>],
                   [name |-> "n2", rx |-> 32, tx |-> 33, speed |-> Null, carrier |-> 0, addresses |-> <<>>]>>,
  ports |-> <<[ib |-> "i1", net |-> "n1", hw |-> 1, rate |-> "200", state |-> "ACTIVE", words |-> 60, faults |-> 10,
               speed |-> 32, width |-> 40, vport |-> 50],
              [ib |-> "i2", net |-> "n2", hw |-> 2, rate |-> "200", state |-> "DOWN", words |-> 61, faults |-> 11,
               speed |-> 32, width |-> 40, vport |-> 52]>>,
  servers |-> <<[port |-> 80, kind |-> "metrics", answer |-> <<<<"vllm", 10>>, <<"vllm", 12>>>>],
                [port |-> 81, kind |-> "ollama", answer |-> <<<<"models", 13>>>>]>>,
  hostname |-> "h", kernel |-> "k", arch |-> "aarch64", pretty |-> "Ubuntu",
  maker |-> "asus",
  dmi |-> <<"GX10", "ASUSTeK", "DGX Spark", "5.36_GX10DGX", "GX10">>,
  models |-> <<"X925", "A725">>,
  disks |-> <<[device |-> "d1", used |-> 40, mount |-> "/"], [device |-> "d2", used |-> 41, mount |-> "/"]>>,
  listeners |-> <<[port |-> 22, speaks |-> {}, id |-> Null, path |-> Null],
                  [port |-> 80, speaks |-> {"metrics", "openai"}, id |-> <<"m1">>, path |-> Null],
                  [port |-> 81, speaks |-> {"ollama", "openai"}, id |-> Null, path |-> Null]>>,
  docker |-> TRUE,
  containers |-> <<[id |-> <<"a", "1", "x">>, image |-> "i", state |-> "running", cpu |-> 30, mem |-> 40,
                    env |-> <<<<"NETWORKMODE", "host">>, <<"NODE_RANK", "0">>, <<"MODEL", "m">>>>],
                   [id |-> <<"a", "2", "x">>, image |-> "j", state |-> "running", cpu |-> 31, mem |-> 41,
                    env |-> <<<<"NETWORKMODE", "bridge">>, <<"VLLM_HOST_IP", "x1">>>>],
                   [id |-> <<"c", "3", "x">>, image |-> "j", state |-> "exited", cpu |-> 0, mem |-> 0, env |-> <<>>]>>]

\* The nodes that lack something, or have it otherwise, by the script that notices.
FastNodes == {Spark}
  \cup {[Spark EXCEPT !.memory[k] = Null] : k \in Elements(O!MemoryKeys)}
  \cup {[Spark EXCEPT !.gpu = Null, !.processes = <<>>],
        [Spark EXCEPT !.gpu.row = <<"GB10", 50, 60, 80, 70, Null, Null>>, !.gpu.clock = <<Null, Null>>],
        [Spark EXCEPT !.gpu.clock = Null]}
  \cup {[Spark EXCEPT !.processes[1].alive = a, !.processes[2].alive = b, !.processes[2].container = c] :
          a, b \in BOOLEAN, c \in {Null, <<"a", "2", "x">>}}
  \cup {[Spark EXCEPT !.chips[i].name = n] : i \in 1..2, n \in {Null, "nvme"}}
  \cup {[Spark EXCEPT !.chips[1].hw = 3], [Spark EXCEPT !.chips = <<>>]}
  \cup {[Spark EXCEPT !.servers[i].answer = <<>>] : i \in 1..2}

BothNodes ==
  {[Spark EXCEPT !.interfaces[1].carrier = c, !.interfaces[2].carrier = d, !.ports[1].vport = v] :
     c, d \in {0, 1}, v \in {50, Null}}
  \cup {[Spark EXCEPT !.ports[2].speed = Null, !.ports[2].words = Null], [Spark EXCEPT !.ports = <<>>]}

SlowNodes == {Spark, [Spark EXCEPT !.pretty = Null], [Spark EXCEPT !.disks[2].mount = "/data"],
              [Spark EXCEPT !.docker = FALSE], [Spark EXCEPT !.containers = <<>>]}
  \cup {[Spark EXCEPT !.listeners[2].speaks = s, !.listeners[2].id = i, !.listeners[2].path = p] :
          s \in SUBSET {"metrics", "ollama", "openai"}, i \in {Null, <<"m1">>}, p \in {Null, <<"models", "m2">>}}
  \cup {[Spark EXCEPT !.containers[1].state = s, !.containers[1].env = e] : s \in {"running", "exited"},
          e \in {<<<<"NETWORKMODE", "host">>>>, <<<<"NETWORKMODE", "host">>, <<"RANK", "1">>, <<"NODE_RANK", "0">>>>}}
  \cup {[Spark EXCEPT !.maker = f.maker,
                      !.dmi = <<f.product, IF named THEN f.vendor ELSE O!Unset, "DGX Spark", O!Unset, O!Unset>>] :
          f \in Firmwares, named \in BOOLEAN}

\* Servers of every engine: old and new names, one and two models, a percentage or a ratio.
ServerOf(kind, id, old, models, percent, usage) ==
  [kind |-> kind, id |-> id, old |-> old, models |-> models, percent |-> percent, usage |-> usage, discovered |-> {"d"}]
Servers ==
  {ServerOf("metrics", "vllm", FALSE, <<"m1">>, FALSE, 500), ServerOf("metrics", "vllm", TRUE, <<"m1", "m2">>, FALSE, 5),
   ServerOf("metrics", "sglang", FALSE, <<"m1">>, TRUE, 500), ServerOf("metrics", "triton", FALSE, <<"m1">>, TRUE, 5),
   ServerOf("metrics", "llamacpp", FALSE, <<Undefined>>, FALSE, 500), ServerOf("metrics", "tgi", FALSE, <<"m1">>, FALSE, 500)}
  \cup {ServerOf(k, k, FALSE, <<"m1", "m2">>, FALSE, 500) : k \in {"ollama", "openai"}}

E == INSTANCE EngineReadings WITH MaxDone <- 2, MaxPolls <- 2, MaxFaults <- 1

outputVars == <<node, tier, arrived, torn>>
engineVars == <<server, count, up, base, now, shown, polls, cuts, deaths>>

OutputParked == node = Parked /\ tier = Parked /\ arrived = Parked /\ torn = Parked
EngineParked ==
  /\ server = Parked /\ count = Parked /\ up = Parked /\ base = Parked /\ now = Parked
  /\ shown = Parked /\ polls = Parked /\ cuts = Parked /\ deaths = Parked

Init ==
  \/ /\ part = "output" /\ EngineParked
     /\ \/ node \in FastNodes \cup BothNodes /\ tier = "fast"
        \/ node \in SlowNodes \cup BothNodes /\ tier = "slow"
     /\ arrived = <<>> /\ torn = FALSE
  \/ part = "engine" /\ E!Init /\ OutputParked

Next ==
  \/ part = "output" /\ O!Next /\ UNCHANGED <<part, engineVars>>
  \/ part = "engine" /\ E!Next /\ UNCHANGED <<part, outputVars>>

Spec == Init /\ [][Next]_<<part, outputVars, engineVars>>

\* The properties of the parts, for the behaviours in which they move.
ReadsBack == part = "output" => O!ReadsBack /\ O!CutIsBlank
ReadsEngine == part = "engine" => E!ReadsEngine /\ E!AnswerSeen
SharesHonest == part = "engine" => E!SharesHonest
CrashedIsVisible == part = "engine" => E!CrashedIsVisible
================================================================================
